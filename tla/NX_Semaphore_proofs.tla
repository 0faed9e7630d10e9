-------------------------- MODULE NX_Semaphore_proofs --------------------------
(***************************************************************************)
(* Proofs about NX_Semaphore for the way the components use it: any number *)
(* of posters, at most one thread that pends, and, but for the fact that   *)
(* no post is missed, no spurious wakeup.  Both conditions are needed:     *)
(* without either the counter wraps around.                                *)
(***************************************************************************)
EXTENDS NX_Semaphore, TLAPS

\* At most one thread pends.
SinglePender == \A t, u \in Penders : t = u

\* The inductive invariant: a woken thread has a token, a sleeping one none.
IInv == TypeOK /\ WokenHasToken /\ NoMissedPost

LEMMA InitIInv == Init => IInv
  BY SemaphoreAssumption
     DEF Init, IInv, TypeOK, WokenHasToken, NoMissedPost, Where

\* Taking a token that is there is plain subtraction: no wrap-around.
LEMMA TakingIsMinusOne ==
    ASSUME TypeOK, nValue > 0
    PROVE  Decremented = nValue - 1
<1>1. /\ nValue \in Int /\ Modulus \in Int
      /\ 0 <= nValue - 1 /\ nValue - 1 < Modulus /\ Modulus > 0
  BY SemaphoreAssumption DEF TypeOK
<1>2. nValue + Modulus - 1 = (nValue - 1) + Modulus
  BY <1>1
<1> QED
  BY <1>1, <1>2 DEF Decremented

LEMMA StepIInv ==
    ASSUME SinglePender, IInv, [Next]_vars
    PROVE  IInv'
<1> USE SemaphoreAssumption DEF IInv, TypeOK, WokenHasToken, NoMissedPost, Where
<1>1. ASSUME NEW t \in Penders, PendCall(t)
      PROVE  IInv'
  BY <1>1 DEF PendCall
<1>2. ASSUME NEW t \in Penders, PendTake(t)
      PROVE  IInv'
  <2>1. nValue > 0
    BY <1>2 DEF PendTake
  <2>2. nValue' = nValue - 1
    BY <1>2, <2>1, TakingIsMinusOne DEF PendTake
  <2>3. \A u \in Penders : pc'[u] = "out"
    BY <1>2 DEF PendTake, SinglePender
  <2> QED
    BY <1>2, <2>1, <2>2, <2>3 DEF PendTake
<1>3. ASSUME NEW t \in Penders, PendWait(t)
      PROVE  IInv'
  BY <1>3 DEF PendWait
<1>4. ASSUME NEW t \in Penders, PendResume(t)
      PROVE  IInv'
  <2>1. nValue > 0
    BY <1>4 DEF PendResume
  <2>2. nValue' = nValue - 1
    BY <1>4, <2>1, TakingIsMinusOne DEF PendResume
  <2>3. \A u \in Penders : pc'[u] = "out"
    BY <1>4 DEF PendResume, SinglePender
  <2> QED
    BY <1>4, <2>1, <2>2, <2>3 DEF PendResume
<1>5. ASSUME PostSem
      PROVE  IInv'
  <2>1. /\ nValue' \in 0 .. Modulus - 1
        /\ nValue' <= MaxValue
        /\ nValue <= nValue'
    BY <1>5 DEF PostSem, PostedValue
  <2>2. CASE Sleepers = {}
    BY <1>5, <2>1, <2>2 DEF PostSem, Signal, Sleepers
  <2>3. CASE Sleepers # {}
    <3>1. PICK t \in Sleepers : pc' = [pc EXCEPT ![t] = "woken"]
      BY <1>5, <2>3 DEF PostSem, Signal
    <3>2. t \in Penders /\ pc[t] = "waiting" /\ nValue = 0
      BY <3>1 DEF Sleepers
    <3>3. \A u \in Penders : pc'[u] = "woken"
      BY <3>1, <3>2 DEF SinglePender
    <3>4. nValue' > 0
      BY <1>5, <3>2 DEF PostSem, PostedValue
    <3> QED
      BY <2>1, <3>1, <3>2, <3>3, <3>4
  <2> QED
    BY <2>2, <2>3
<1>6. CASE UNCHANGED vars
  BY <1>6 DEF vars
<1> QED
  BY <1>1, <1>2, <1>3, <1>4, <1>5, <1>6 DEF Next, Pend
-------------------------------------------------------------------------------
\* The inductive invariant holds in every reachable state.
LEMMA Invariance == SinglePender /\ Spec => []IInv
<1> SUFFICES ASSUME SinglePender
             PROVE  Spec => []IInv
  OBVIOUS
<1>1. Init => IInv
  BY InitIInv
<1>2. IInv /\ [Next]_vars => IInv'
  BY StepIInv
<1> QED
  BY <1>1, <1>2, PTL DEF Spec

(***************************************************************************)
(* For every number of posters, every initial and maximum value: nValue is *)
(* a 32-bit number (NX_SEMAPHORE.nValue) and each pender is at one of the  *)
(* places of NX_PendSem.                                                   *)
(***************************************************************************)
THEOREM TypeCorrect == SinglePender /\ Spec => []TypeOK
BY Invariance, PTL DEF IInv

(***************************************************************************)
(* nValue never exceeds nMaxValue and never wraps below zero, and a thread *)
(* that pthread_cond_signal woke finds its token: NX_PendSem may test with *)
(* `if' as long as one thread pends.                                       *)
(***************************************************************************)
THEOREM NeverWraps == SinglePender /\ Spec => []WokenHasToken
BY Invariance, PTL DEF IInv

(***************************************************************************)
(* NX_PostSem signals under the mutex, so no thread sleeps while there is  *)
(* a token, even if pthread_cond_wait returns unsignalled now and then.    *)
(***************************************************************************)
THEOREM NoPostIsMissed == SinglePender /\ SpuriousSpec => []NoMissedPost
<1> DEFINE Inv == /\ NoMissedPost
                  /\ pc \in [Penders -> Where]
<1> SUFFICES ASSUME SinglePender
             PROVE  SpuriousSpec => []NoMissedPost
  OBVIOUS
<1>1. Init => Inv
  BY DEF Init, NoMissedPost, Where
<1>2. Inv /\ [NextSpurious]_vars => Inv'
  <2> SUFFICES ASSUME Inv, [NextSpurious]_vars
               PROVE  Inv'
    OBVIOUS
  <2> USE DEF NoMissedPost, Where
  <2>1. ASSUME NEW t \in Penders, PendCall(t) \/ PendTake(t) \/ PendResume(t)
        PROVE  Inv'
    BY <2>1 DEF PendCall, PendTake, PendResume, SinglePender
  <2>2. ASSUME NEW t \in Penders, PendWait(t) \/ SpuriousWakeup(t)
        PROVE  Inv'
    BY <2>2 DEF PendWait, SpuriousWakeup
  <2>3. CASE PostSem
    <3>1. CASE Sleepers = {}
      BY <2>3, <3>1 DEF PostSem, Signal, Sleepers
    <3>2. CASE Sleepers # {}
      <4>1. PICK t \in Sleepers : pc' = [pc EXCEPT ![t] = "woken"]
        BY <2>3, <3>2 DEF PostSem, Signal
      <4> QED
        BY <4>1 DEF Sleepers, SinglePender
    <3> QED
      BY <3>1, <3>2
  <2>4. CASE UNCHANGED vars
    BY <2>4 DEF vars
  <2> QED
    BY <2>1, <2>2, <2>3, <2>4 DEF NextSpurious, Next, Pend
<1>3. Inv => NoMissedPost
  OBVIOUS
<1> QED
  BY <1>1, <1>2, <1>3, PTL DEF SpuriousSpec

(***************************************************************************)
(* NX_PendSem returns only when there was a token to take.                 *)
(***************************************************************************)
THEOREM OnlyRealTokens == SinglePender /\ Spec => TakesOnlyWhatIsThere
<1> SUFFICES ASSUME SinglePender
             PROVE  Spec => TakesOnlyWhatIsThere
  OBVIOUS
<1>1. IInv /\ [Next]_vars
        => [\A t \in Penders : pc[t] # "out" /\ pc'[t] = "out" => nValue > 0]_vars
  <2> SUFFICES ASSUME IInv, Next, NEW t \in Penders,
                      pc[t] # "out", pc'[t] = "out"
               PROVE  nValue > 0
    OBVIOUS
  <2> USE DEF IInv, TypeOK, WokenHasToken, Where
  <2>1. ASSUME NEW u \in Penders,
               PendCall(u) \/ PendTake(u) \/ PendWait(u) \/ PendResume(u)
        PROVE  nValue > 0
    BY <2>1, SemaphoreAssumption
       DEF PendCall, PendTake, PendWait, PendResume
  <2>2. ~ PostSem
    BY DEF PostSem, Signal
  <2> QED
    BY <2>1, <2>2 DEF Next, Pend
<1> QED
  BY <1>1, Invariance, PTL DEF Spec, TakesOnlyWhatIsThere

(***************************************************************************)
(* The semaphore implements the abstract counting semaphore: every step of *)
(* NX_PendSem and NX_PostSem is a step of CountingSemaphore or invisible.  *)
(***************************************************************************)
THEOREM ImplementsSemaphore ==
    SinglePender /\ Spec => IsCountingSemaphoreSafely
<1> SUFFICES ASSUME SinglePender
             PROVE  Spec => IsCountingSemaphoreSafely
  OBVIOUS
<1> DEFINE askers == {t \in Penders : pc[t] # "out"}
<1>1. Init => Abstract!Init
  BY DEF Init, Abstract!Init
<1>2. IInv /\ [Next]_vars => [Abstract!Next]_(Abstract!vars)
  <2> SUFFICES ASSUME IInv, [Next]_vars
               PROVE  [Abstract!Next]_(Abstract!vars)
    OBVIOUS
  <2> USE DEF Abstract!Next, Abstract!vars
  <2>1. ASSUME NEW t \in Penders, PendCall(t)
        PROVE  Abstract!Ask(t)
    <3>1. askers' = askers \cup {t}
      BY <2>1 DEF PendCall, IInv, TypeOK
    <3> QED
      BY <2>1, <3>1 DEF PendCall, Abstract!Ask
  <2>2. ASSUME NEW t \in Penders, PendTake(t) \/ PendResume(t)
        PROVE  Abstract!Grant(t)
    <3>1. askers' = askers \ {t}
      BY <2>2 DEF PendTake, PendResume, IInv, TypeOK
    <3>2. nValue > 0
      BY <2>2, SemaphoreAssumption
         DEF PendTake, PendResume, IInv, TypeOK, WokenHasToken
    <3>3. nValue' = nValue - 1
      BY <2>2, <3>2, TakingIsMinusOne DEF PendTake, PendResume, IInv
    <3>4. t \in askers
      BY <2>2 DEF PendTake, PendResume
    <3> QED
      BY <3>1, <3>2, <3>3, <3>4 DEF Abstract!Grant
  <2>3. ASSUME NEW t \in Penders, PendWait(t)
        PROVE  UNCHANGED Abstract!vars
    <3>1. askers' = askers
      BY <2>3 DEF PendWait, IInv, TypeOK
    <3> QED
      BY <2>3, <3>1 DEF PendWait
  <2>4. ASSUME PostSem
        PROVE  Abstract!Post
    <3>1. askers' = askers
      BY <2>4 DEF PostSem, Signal, Sleepers, IInv, TypeOK
    <3>2. nValue' = IF nValue < MaxValue THEN nValue + 1 ELSE nValue
      BY <2>4, SemaphoreAssumption DEF PostSem, PostedValue, IInv, TypeOK
    <3> QED
      BY <3>1, <3>2 DEF Abstract!Post
  <2>5. CASE UNCHANGED vars
    BY <2>5 DEF vars
  <2> QED
    BY <2>1, <2>2, <2>3, <2>4, <2>5 DEF Next, Pend
<1> QED
  BY <1>1, <1>2, Invariance, PTL
     DEF Spec, IsCountingSemaphoreSafely, Abstract!Spec
===============================================================================
