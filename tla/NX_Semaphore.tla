----------------------------- MODULE NX_Semaphore -----------------------------
(***************************************************************************)
(* common/NX_OMXSemaphore.c: the counting semaphore that every component   *)
(* uses to hand work from one thread to another, built from a mutex and a  *)
(* condition variable.                                                     *)
(*                                                                         *)
(* Everything NX_PendSem and NX_PostSem do happens under hMutex, so each   *)
(* stretch of code between two operations on the mutex is one action.      *)
(* pthread_cond_wait gives the mutex up, so NX_PendSem is cut there: the   *)
(* thread sleeps ("waiting"), is signalled ("woken"), and takes the token  *)
(* in a later step, when it has the mutex again.  The code tests nValue    *)
(* with `if', not `while': a thread that wakes does not look again.        *)
(***************************************************************************)
EXTENDS Integers

CONSTANTS Penders,    \* threads that call NX_PendSem on this semaphore
          InitValue,  \* NX_CreateSem's initValue
          MaxValue,   \* NX_CreateSem's maxValue
          Modulus     \* nValue is a uint32_t: 2^32 in the code

ASSUME SemaphoreAssumption ==
    /\ InitValue \in Nat
    /\ MaxValue \in Nat \ {0}
    /\ Modulus \in Nat
    /\ InitValue <= MaxValue
    /\ MaxValue < Modulus

VARIABLES nValue,  \* NX_SEMAPHORE.nValue
          pc       \* where each pender is in NX_PendSem

vars == <<nValue, pc>>

Where == {"out", "entry", "waiting", "woken"}

\* NX_CreateSem: the counter starts at initValue and nobody pends.
Init == /\ nValue = InitValue
        /\ pc = [t \in Penders |-> "out"]

\* The thread calls NX_PendSem and competes for hMutex.
PendCall(t) == /\ pc[t] = "out"
               /\ pc' = [pc EXCEPT ![t] = "entry"]
               /\ UNCHANGED nValue

\* Not the code: forgetting to take the token.
NotDecremented == nValue

\* `hSem->nValue --' on an unsigned integer.
Decremented == (nValue + Modulus - 1) % Modulus

\* With hMutex held and tokens there: take one and return.
PendTake(t) == /\ pc[t] = "entry"
               /\ nValue # 0
               /\ nValue' = Decremented
               /\ pc' = [pc EXCEPT ![t] = "out"]

\* With hMutex held and no token: sleep in pthread_cond_wait.
PendWait(t) == /\ pc[t] = "entry"
               /\ nValue = 0
               /\ pc' = [pc EXCEPT ![t] = "waiting"]
               /\ UNCHANGED nValue

\* pthread_cond_wait returns with hMutex held: nValue is not looked at again.
PendResume(t) == /\ pc[t] = "woken"
                 /\ nValue' = Decremented
                 /\ pc' = [pc EXCEPT ![t] = "out"]

\* POSIX lets pthread_cond_wait return unsignalled.
SpuriousWakeup(t) == /\ pc[t] = "waiting"
                     /\ pc' = [pc EXCEPT ![t] = "woken"]
                     /\ UNCHANGED nValue

Sleepers == {t \in Penders : pc[t] = "waiting"}

\* Not the code: the token a sleeper is woken for is not counted.
PostedHandOff == IF Sleepers # {} \/ nValue >= MaxValue THEN nValue ELSE nValue + 1

\* The counter after a post: NX_ESEM_OVERFLOW leaves it alone.
PostedValue == IF nValue >= MaxValue THEN nValue ELSE nValue + 1

\* Not the code: signalling only when there were tokens before.
SignalTooLate == IF Sleepers = {} \/ nValue = 0
                 THEN UNCHANGED pc
                 ELSE \E t \in Sleepers : pc' = [pc EXCEPT ![t] = "woken"]

\* pthread_cond_signal wakes one of the threads that sleep, if any does.
Signal == IF Sleepers = {}
          THEN UNCHANGED pc
          ELSE \E t \in Sleepers : pc' = [pc EXCEPT ![t] = "woken"]

\* NX_PostSem, also when it answers NX_ESEM_OVERFLOW: the signal is sent anyway.
PostSem == /\ nValue' = PostedValue
           /\ Signal

Pend(t) == PendTake(t) \/ PendWait(t) \/ PendResume(t)

Next == \/ \E t \in Penders : PendCall(t) \/ Pend(t)
        \/ PostSem

\* pthread_cond_wait returns only when signalled.
Spec == Init /\ [][Next]_vars

\* It may also return unsignalled.
NextSpurious == Next \/ \E t \in Penders : SpuriousWakeup(t)

SpuriousSpec == Init /\ [][NextSpurious]_vars

(***************************************************************************)
(* A pender that holds or can take the mutex runs on; nobody is obliged to *)
(* pend or to post.                                                        *)
(***************************************************************************)
FairSpec == Spec /\ \A t \in Penders : WF_vars(Pend(t))
-------------------------------------------------------------------------------
TypeOK == /\ nValue \in 0 .. Modulus - 1
          /\ pc \in [Penders -> Where]

(***************************************************************************)
(* The counter stays within the maximum NX_CreateSem was given, neither    *)
(* pushed over it nor wrapped around below zero, and a signalled thread    *)
(* finds the token it was signalled for.                                   *)
(***************************************************************************)
WokenHasToken == /\ nValue <= MaxValue
                 /\ \A t \in Penders : pc[t] = "woken" => nValue > 0

(***************************************************************************)
(* No post is missed by a thread on its way to sleep or asleep: whoever    *)
(* sleeps, there is no token (comment NX_OMXSemaphore.c:63-64).            *)
(***************************************************************************)
NoMissedPost == \A t \in Penders : pc[t] = "waiting" => nValue = 0

(***************************************************************************)
(* The comment of NX_OMXSemaphore.c:63-66 asks for a value whenever a      *)
(* thread goes on: no step takes a token when there is none.               *)
(***************************************************************************)
TakesOnlyWhatIsThere ==
    [][\A t \in Penders : pc[t] # "out" /\ pc'[t] = "out" => nValue > 0]_vars

(***************************************************************************)
(* The semaphore is a CountingSemaphore: a thread asks from the call to    *)
(* the return of NX_PendSem.  FairSpec includes that a thread which asks   *)
(* while tokens stay available gets one, so no wakeup is lost.             *)
(***************************************************************************)
Abstract == INSTANCE CountingSemaphore WITH
                value <- nValue,
                asking <- {t \in Penders : pc[t] # "out"}

IsCountingSemaphore == Abstract!FairSpec

\* The safety half of it.
IsCountingSemaphoreSafely == Abstract!Spec
===============================================================================
