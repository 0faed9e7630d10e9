-------------------------- MODULE CountingSemaphore --------------------------
(***************************************************************************)
(* What the components of the repository expect of an NX_SEMAPHORE         *)
(* (include/NX_OMXSemaphore.h): a saturating counter of tokens.  Posting   *)
(* adds a token unless MaxValue are there already; a thread that asks      *)
(* leaves with exactly one token, and never without one.                   *)
(*                                                                         *)
(* NX_Semaphore implements this module (theorem ImplementsSemaphore of     *)
(* NX_Semaphore_proofs) when one thread pends; NX_VidDec uses semaphores   *)
(* by these rules.                                                         *)
(***************************************************************************)
EXTENDS Naturals

CONSTANTS Penders,    \* threads that call NX_PendSem
          InitValue,  \* tokens at creation
          MaxValue    \* tokens at most

VARIABLES value,   \* tokens available
          asking   \* threads inside NX_PendSem

vars == <<value, asking>>

Init == value = InitValue /\ asking = {}

Ask(t) == /\ t \notin asking
          /\ asking' = asking \cup {t}
          /\ UNCHANGED value

Grant(t) == /\ t \in asking
            /\ value > 0
            /\ value' = value - 1
            /\ asking' = asking \ {t}

Post == /\ value' = IF value < MaxValue THEN value + 1 ELSE value
        /\ UNCHANGED asking

Next == \/ \E t \in Penders : Ask(t) \/ Grant(t)
        \/ Post

Spec == Init /\ [][Next]_vars

FairSpec == Spec /\ \A t \in Penders : WF_vars(Grant(t))
===============================================================================
