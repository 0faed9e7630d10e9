---------------------------- MODULE NX_Queue_proofs ----------------------------
(***************************************************************************)
(* The ring of NX_Queue is a first-in first-out queue for any capacity,    *)
(* any number of threads and any elements.  The inductive invariant adds   *)
(* to the ring's consistency who holds hMutex and what the thread that     *)
(* holds it knows about the ring half way through its call.                *)
(***************************************************************************)
EXTENDS NX_Queue, SequenceTheorems, TLAPS

\* Places under hMutex.
Inside == {"push", "stored", "pop", "loaded", "peek"}

\* The threads inside are those that hold hMutex: at most one, and none while
\* the queue is torn down.
Exclusive == /\ hMutex = {t \in Threads : pc[t] \in Inside}
             /\ \A t, u \in hMutex : t = u
             /\ ~ InUse => hMutex = {}
             /\ \A t \in Threads : pc[t] \in {"disable", "destroy", "gone"} => t = Deiniter

\* What the thread inside knows.
InFlight == \A t \in Threads :
              /\ pc[t] \in {"push", "stored"} => arg[t] \in Elements
              /\ pc[t] = "stored" => /\ bEnabled /\ curElements < Capacity
                                     /\ pElements[tail] = arg[t]
              /\ pc[t] = "loaded" => /\ bEnabled /\ curElements > 0
                                     /\ arg[t] = pElements[head]

\* The queue is disabled before it is torn down.
Disabled == pc[Deiniter] \in {"disable", "destroy", "gone"} => ~ bEnabled

IInv == TypeOK /\ RingConsistent /\ Exclusive /\ InFlight /\ Disabled
-------------------------------------------------------------------------------
\* An index that ran past the end of the ring at most once is brought back by %.
LEMMA WrapOnce ==
    ASSUME NEW x \in 0 .. 2 * Capacity - 1
    PROVE  x % Capacity = IF x < Capacity THEN x ELSE x - Capacity
<1>1. CASE x < Capacity
  BY <1>1, QueueAssumption
<1>2. CASE x >= Capacity
  <2>1. PICK y \in 0 .. Capacity - 1 : x = y + Capacity
    BY <1>2, QueueAssumption
  <2>2. (y + Capacity) % Capacity = y
    BY QueueAssumption
  <2> QED BY <2>1, <2>2, <1>2, QueueAssumption
<1> QED BY <1>1, <1>2, QueueAssumption

\* After the newest element comes the slot of the next one.
LEMMA AfterNewest ==
    ASSUME NEW h \in Slots, NEW n \in 0 .. Capacity - 1
    PROVE  /\ (h + n) % Capacity \in Slots
           /\ After((h + n) % Capacity) = (h + (n + 1)) % Capacity
           /\ After((h + n) % Capacity) \in Slots
<1> USE QueueAssumption DEF Slots
<1>1. (h + n) % Capacity = IF h + n < Capacity THEN h + n ELSE h + n - Capacity
  BY WrapOnce
<1>2. (h + (n + 1)) % Capacity
        = IF h + n + 1 < Capacity THEN h + n + 1 ELSE h + n + 1 - Capacity
  BY WrapOnce
<1>3. ((h + n) % Capacity) + 1 \in 0 .. 2 * Capacity - 1
  BY <1>1
<1>4. After((h + n) % Capacity)
        = IF ((h + n) % Capacity) + 1 < Capacity THEN ((h + n) % Capacity) + 1
          ELSE ((h + n) % Capacity) + 1 - Capacity
  BY <1>3, WrapOnce DEF After
<1> QED BY <1>1, <1>2, <1>4

\* Seen from the next head, every slot comes one place earlier.
LEMMA AfterOldest ==
    ASSUME NEW h \in Slots, NEW n \in 0 .. Capacity - 1
    PROVE  /\ After(h) \in Slots
           /\ (After(h) + n) % Capacity = (h + (n + 1)) % Capacity
<1> USE QueueAssumption DEF Slots
<1>1. After(h) = IF h + 1 < Capacity THEN h + 1 ELSE h + 1 - Capacity
  BY WrapOnce DEF After
<1>2. (h + (n + 1)) % Capacity
        = IF h + n + 1 < Capacity THEN h + n + 1 ELSE h + n + 1 - Capacity
  BY WrapOnce
<1>3. \A a \in Slots : (a + n) % Capacity = IF a + n < Capacity THEN a + n
                                           ELSE a + n - Capacity
  BY WrapOnce
<1>4. After(h) \in Slots
  BY <1>1
<1>5. (After(h) + n) % Capacity = IF After(h) + n < Capacity THEN After(h) + n
                                 ELSE After(h) + n - Capacity
  BY <1>3, <1>4
<1> QED BY <1>1, <1>2, <1>4, <1>5
-------------------------------------------------------------------------------
\* The lock is exclusive.
LEMMA StepExclusive ==
    ASSUME TypeOK, Exclusive, NEW t \in Threads, Operation(t)
    PROVE  Exclusive'
<1> USE QueueAssumption DEF TypeOK, Exclusive, Inside, InUse, GoTo, Where
<1>1. ASSUME NEW e \in Elements, BeginPush(t, e) PROVE Exclusive'
  BY <1>1 DEF BeginPush, Lock, GoTo
<1>2. CASE BeginPop(t)
  BY <1>2 DEF BeginPop, Lock, GoTo
<1>3. CASE BeginPeek(t)
  BY <1>3 DEF BeginPeek, Lock, GoTo
<1>4. CASE GetQueueCnt(t)
  BY <1>4 DEF GetQueueCnt, Answer, CountRead
<1>5. CASE PushRefused(t)
  BY <1>5 DEF PushRefused, Unlock, GoTo, Answer
<1>6. CASE PushStore(t)
  BY <1>6 DEF PushStore, GoTo, Full
<1>7. CASE PushLink(t)
  BY <1>7 DEF PushLink, Unlock, GoTo, Answer
<1>8. CASE PopRefused(t)
  BY <1>8 DEF PopRefused, Unlock, GoTo, Answer
<1>9. CASE PopLoad(t)
  BY <1>9 DEF PopLoad, GoTo, Empty
<1>10. CASE PopLink(t)
  BY <1>10 DEF PopLink, Unlock, GoTo, Answer
<1>11. CASE Peek(t)
  BY <1>11 DEF Peek, Unlock, GoTo, Answer, Empty
<1>12. CASE Disable(t)
  BY <1>12 DEF Disable, GoTo
<1>13. CASE Quiesce(t)
  BY <1>13 DEF Quiesce, GoTo
<1>14. CASE Clear(t)
  BY <1>14 DEF Clear, GoTo
<1> QED BY <1>1, <1>2, <1>3, <1>4, <1>5, <1>6, <1>7, <1>8, <1>9, <1>10, <1>11, <1>12, <1>13, <1>14 DEF Operation

\* Indices and counts stay in range.
LEMMA StepTypeOK ==
    ASSUME IInv, NEW t \in Threads, Operation(t)
    PROVE  TypeOK'
<1> USE QueueAssumption DEF ring, IInv, TypeOK, Where, Slots
<1>1. ASSUME NEW e \in Elements, BeginPush(t, e) PROVE TypeOK'
  BY <1>1 DEF BeginPush, Lock, GoTo
<1>2. CASE BeginPop(t)
  BY <1>2 DEF BeginPop, Lock, GoTo
<1>3. CASE BeginPeek(t)
  BY <1>3 DEF BeginPeek, Lock, GoTo
<1>4. CASE GetQueueCnt(t)
  BY <1>4 DEF GetQueueCnt, Answer, CountRead
<1>5. CASE PushRefused(t)
  BY <1>5 DEF PushRefused, Unlock, GoTo, Answer
<1>6. CASE PushStore(t)
  BY <1>6 DEF PushStore, GoTo, Full
<1>7. CASE PushLink(t)
  <2>1. After(tail) \in Slots
    BY <1>7, AfterNewest DEF PushLink, RingConsistent, InFlight, Slots
  <2>2. curElements < Capacity
    BY <1>7 DEF PushLink, InFlight
  <2> QED BY <1>7, <2>1, <2>2 DEF PushLink, Unlock, GoTo, Answer
<1>8. CASE PopRefused(t)
  BY <1>8 DEF PopRefused, Unlock, GoTo, Answer
<1>9. CASE PopLoad(t)
  BY <1>9 DEF PopLoad, GoTo, Empty
<1>10. CASE PopLink(t)
  <2>1. After(head) \in Slots
    BY AfterOldest
  <2>2. curElements > 0
    BY <1>10 DEF PopLink, InFlight
  <2> QED BY <1>10, <2>1, <2>2 DEF PopLink, Unlock, GoTo, Answer
<1>11. CASE Peek(t)
  BY <1>11 DEF Peek, Unlock, GoTo, Answer, Empty
<1>12. CASE Disable(t)
  BY <1>12 DEF Disable, GoTo
<1>13. CASE Quiesce(t)
  BY <1>13 DEF Quiesce, GoTo
<1>14. CASE Clear(t)
  BY <1>14 DEF Clear, GoTo
<1> QED BY <1>1, <1>2, <1>3, <1>4, <1>5, <1>6, <1>7, <1>8, <1>9, <1>10, <1>11, <1>12, <1>13, <1>14 DEF Operation

\* What a thread read or tested under hMutex stays true until it lets go.
LEMMA StepInFlight ==
    ASSUME IInv, NEW t \in Threads, Operation(t)
    PROVE  InFlight'
<1> USE QueueAssumption DEF ring, IInv, TypeOK, Exclusive, InFlight, Inside, Disabled, Slots
<1>1. ASSUME NEW e \in Elements, BeginPush(t, e) PROVE InFlight'
  BY <1>1 DEF BeginPush, Lock, GoTo
<1>2. CASE BeginPop(t)
  BY <1>2 DEF BeginPop, Lock, GoTo
<1>3. CASE BeginPeek(t)
  BY <1>3 DEF BeginPeek, Lock, GoTo
<1>4. CASE GetQueueCnt(t)
  BY <1>4 DEF GetQueueCnt, Answer, CountRead
<1>5. CASE PushRefused(t)
  BY <1>5 DEF PushRefused, Unlock, GoTo, Answer
<1>6. CASE PushStore(t)
  BY <1>6 DEF PushStore, GoTo, Full
<1>7. CASE PushLink(t)
  BY <1>7 DEF PushLink, Unlock, GoTo, Answer
<1>8. CASE PopRefused(t)
  BY <1>8 DEF PopRefused, Unlock, GoTo, Answer
<1>9. CASE PopLoad(t)
  BY <1>9 DEF PopLoad, GoTo, Empty
<1>10. CASE PopLink(t)
  BY <1>10 DEF PopLink, Unlock, GoTo, Answer
<1>11. CASE Peek(t)
  BY <1>11 DEF Peek, Unlock, GoTo, Answer, Empty
<1>12. CASE Disable(t)
  BY <1>12 DEF Disable, GoTo
<1>13. CASE Quiesce(t)
  BY <1>13 DEF Quiesce, GoTo
<1>14. CASE Clear(t)
  BY <1>14 DEF Clear, GoTo
<1> QED BY <1>1, <1>2, <1>3, <1>4, <1>5, <1>6, <1>7, <1>8, <1>9, <1>10, <1>11, <1>12, <1>13, <1>14 DEF Operation

\* A queue is torn down only when disabled.
LEMMA StepDisabled ==
    ASSUME IInv, NEW t \in Threads, Operation(t)
    PROVE  Disabled'
<1> USE QueueAssumption DEF ring, IInv, TypeOK, Exclusive, Disabled, Inside, Where
<1>1. ASSUME NEW e \in Elements, BeginPush(t, e) PROVE Disabled'
  BY <1>1 DEF BeginPush, Lock, GoTo
<1>2. CASE BeginPop(t)
  BY <1>2 DEF BeginPop, Lock, GoTo
<1>3. CASE BeginPeek(t)
  BY <1>3 DEF BeginPeek, Lock, GoTo
<1>4. CASE GetQueueCnt(t)
  BY <1>4 DEF GetQueueCnt, Answer, CountRead
<1>5. CASE PushRefused(t)
  BY <1>5 DEF PushRefused, Unlock, GoTo, Answer
<1>6. CASE PushStore(t)
  BY <1>6 DEF PushStore, GoTo, Full
<1>7. CASE PushLink(t)
  BY <1>7 DEF PushLink, Unlock, GoTo, Answer
<1>8. CASE PopRefused(t)
  BY <1>8 DEF PopRefused, Unlock, GoTo, Answer
<1>9. CASE PopLoad(t)
  BY <1>9 DEF PopLoad, GoTo, Empty
<1>10. CASE PopLink(t)
  BY <1>10 DEF PopLink, Unlock, GoTo, Answer
<1>11. CASE Peek(t)
  BY <1>11 DEF Peek, Unlock, GoTo, Answer, Empty
<1>12. CASE Disable(t)
  BY <1>12 DEF Disable, GoTo
<1>13. CASE Quiesce(t)
  BY <1>13 DEF Quiesce, GoTo
<1>14. CASE Clear(t)
  BY <1>14 DEF Clear, GoTo
<1> QED BY <1>1, <1>2, <1>3, <1>4, <1>5, <1>6, <1>7, <1>8, <1>9, <1>10, <1>11, <1>12, <1>13, <1>14 DEF Operation

\* The ring stays consistent.
LEMMA StepRing ==
    ASSUME IInv, NEW t \in Threads, Operation(t)
    PROVE  RingConsistent'
<1> USE QueueAssumption DEF ring, IInv, TypeOK, Exclusive, RingConsistent, SlotOf, Inside, Slots
<1>1. ASSUME NEW e \in Elements, BeginPush(t, e) PROVE RingConsistent'
  BY <1>1 DEF BeginPush, Lock, GoTo
<1>2. CASE BeginPop(t)
  BY <1>2 DEF BeginPop, Lock, GoTo
<1>3. CASE BeginPeek(t)
  BY <1>3 DEF BeginPeek, Lock, GoTo
<1>4. CASE GetQueueCnt(t)
  BY <1>4 DEF GetQueueCnt, Answer, CountRead
<1>5. CASE PushRefused(t)
  BY <1>5 DEF PushRefused, Unlock, GoTo, Answer
<1>6. CASE PushStore(t)
  <2>1. /\ UNCHANGED <<head, tail, curElements>>
        /\ pElements' = [pElements EXCEPT ![tail] = arg[t]]
        /\ arg[t] \in Elements
    BY <1>6 DEF PushStore, InFlight
  <2>2. ASSUME NEW i \in 1 .. curElements
        PROVE  pElements'[(head + i - 1) % Capacity] \in Elements
    <3>1. (head + i - 1) % Capacity \in Slots
      <4>1. i - 1 \in 0 .. Capacity - 1 /\ head + i - 1 = head + (i - 1)
        OBVIOUS
      <4> QED BY <4>1, AfterNewest
    <3>2. pElements[(head + i - 1) % Capacity] \in Elements
      OBVIOUS
    <3> DEFINE s == (head + i - 1) % Capacity
    <3>3. pElements'[s] = IF s = tail THEN arg[t] ELSE pElements[s]
      BY <2>1, <3>1
    <3> QED BY <2>1, <3>2, <3>3
  <2> QED BY <2>1, <2>2
<1>7. CASE PushLink(t)
  <2>1. /\ pElements[tail] \in Elements /\ curElements \in 0 .. Capacity - 1
        /\ tail = (head + curElements) % Capacity
        /\ curElements' = curElements + 1 /\ tail' = After(tail)
        /\ UNCHANGED <<head, pElements>>
    BY <1>7 DEF PushLink, InFlight
  <2>2. tail' = (head + curElements') % Capacity
    BY <2>1, AfterNewest
  <2>3. ASSUME NEW i \in 1 .. curElements'
        PROVE  pElements[(head + i - 1) % Capacity] \in Elements
    <3>1. CASE i \in 1 .. curElements
      BY <3>1
    <3>2. CASE i = curElements + 1
      <4>1. head + i - 1 = head + curElements
        BY <3>2
      <4> QED BY <4>1, <2>1
    <3> QED BY <3>1, <3>2, <2>1
  <2> QED BY <2>1, <2>2, <2>3
<1>8. CASE PopRefused(t)
  BY <1>8 DEF PopRefused, Unlock, GoTo, Answer
<1>9. CASE PopLoad(t)
  BY <1>9 DEF PopLoad, GoTo, Empty
<1>10. CASE PopLink(t)
  <2>1. /\ curElements \in 1 .. Capacity
        /\ curElements' = curElements - 1 /\ head' = After(head)
        /\ UNCHANGED <<tail, pElements>>
    BY <1>10 DEF PopLink, InFlight
  <2>2. (After(head) + (curElements - 1)) % Capacity = (head + ((curElements - 1) + 1)) % Capacity
    BY <2>1, AfterOldest
  <2>3. (curElements - 1) + 1 = curElements
    BY <2>1
  <2>4. tail' = (head' + curElements') % Capacity
    BY <2>1, <2>2, <2>3
  <2>5. ASSUME NEW i \in 1 .. curElements'
        PROVE  pElements[(head' + i - 1) % Capacity] \in Elements
    <3> DEFINE n == i - 1
    <3>1. n \in 0 .. Capacity - 1 /\ n + 1 = i /\ i + 1 \in 1 .. curElements
      BY <2>1
    <3>2. (After(head) + n) % Capacity = (head + (n + 1)) % Capacity
      BY <3>1, AfterOldest
    <3>3. head' + i - 1 = After(head) + n /\ head + (i + 1) - 1 = head + (n + 1)
      <4>1. After(head) \in Slots
        BY <3>1, AfterOldest
      <4> QED BY <2>1, <4>1
    <3> QED BY <3>1, <3>2, <3>3
  <2> QED BY <2>1, <2>4, <2>5
<1>11. CASE Peek(t)
  BY <1>11 DEF Peek, Unlock, GoTo, Answer, Empty
<1>12. CASE Disable(t)
  BY <1>12 DEF Disable, GoTo
<1>13. CASE Quiesce(t)
  BY <1>13 DEF Quiesce, GoTo
<1>14. CASE Clear(t)
  <2>1. 0 % Capacity = 0
    BY WrapOnce
  <2> QED BY <1>14, <2>1 DEF Clear, GoTo
<1> QED BY <1>1, <1>2, <1>3, <1>4, <1>5, <1>6, <1>7, <1>8, <1>9, <1>10, <1>11, <1>12, <1>13, <1>14 DEF Operation
-------------------------------------------------------------------------------
LEMMA InitIInv == Init => IInv
<1> USE QueueAssumption DEF Slots
<1> SUFFICES ASSUME Init PROVE IInv
  OBVIOUS
<1>1. TypeOK
  BY DEF Init, TypeOK, Where
<1>2. RingConsistent
  <2>1. 0 % Capacity = 0
    BY WrapOnce
  <2> QED BY <2>1 DEF Init, RingConsistent
<1>3. Exclusive /\ InFlight /\ Disabled
  BY DEF Init, Exclusive, InFlight, Disabled, Inside, InUse
<1> QED BY <1>1, <1>2, <1>3 DEF IInv

LEMMA StutterIInv == ASSUME IInv, UNCHANGED vars PROVE IInv'
BY DEF vars, IInv, TypeOK, RingConsistent, SlotOf, Exclusive, InUse, InFlight, Disabled

\* The inductive invariant holds in every reachable state.
THEOREM Invariance == Spec => []IInv
<1>1. IInv /\ [Next]_vars => IInv'
  <2> SUFFICES ASSUME IInv, [Next]_vars PROVE IInv'
    OBVIOUS
  <2>1. ASSUME NEW t \in Threads, Operation(t) PROVE IInv'
    BY <2>1, StepTypeOK, StepRing, StepExclusive, StepInFlight, StepDisabled DEF IInv
  <2> QED BY <2>1, StutterIInv DEF Next
<1> QED BY <1>1, InitIInv, PTL DEF Spec

\* No index leaves the ring and the count stays between 0 and Capacity,
\* whatever the threads do (NX_PushQueue, NX_PopQueue, NX_DeinitQueue).
THEOREM TypeCorrect == Spec => []TypeOK
BY Invariance, PTL DEF IInv

\* head, tail and curElements always describe the same queue of pushed
\* elements, also while a push or a pop is half done.
THEOREM RingStaysConsistent == Spec => []RingConsistent
BY Invariance, PTL DEF IInv
-------------------------------------------------------------------------------
\* One thread pops.
SinglePopper == \A t, u \in Poppers : t = u

\* Only a popper is inside a pop or a peek.
PopperPlaces == \A t \in Threads : pc[t] \in {"pop", "loaded", "peek"} => t \in Poppers

\* A count the popper was told is not yet used up.
CountIsGood == \A t \in Poppers : ret[t] > 0 /\ bEnabled => curElements > 0

LEMMA StepCount ==
    ASSUME SinglePopper, IInv, PopperPlaces, CountIsGood, NEW t \in Threads, Operation(t)
    PROVE  PopperPlaces' /\ CountIsGood'
<1> USE QueueAssumption DEF ring, IInv, TypeOK, Disabled, InFlight, Slots,
                            SinglePopper, PopperPlaces, CountIsGood
<1> DEFINE Good == PopperPlaces' /\ CountIsGood'
<1>1. ASSUME NEW e \in Elements, BeginPush(t, e) PROVE Good
  BY <1>1 DEF BeginPush, Lock, GoTo
<1>2. CASE BeginPop(t)
  BY <1>2 DEF BeginPop, Lock, GoTo
<1>3. CASE BeginPeek(t)
  BY <1>3 DEF BeginPeek, Lock, GoTo
<1>4. CASE GetQueueCnt(t)
  BY <1>4 DEF GetQueueCnt, Answer, CountRead
<1>5. CASE PushRefused(t)
  BY <1>5 DEF PushRefused, Unlock, GoTo, Answer
<1>6. CASE PushStore(t)
  BY <1>6 DEF PushStore, GoTo, Full
<1>7. CASE PushLink(t)
  BY <1>7 DEF PushLink, Unlock, GoTo, Answer
<1>8. CASE PopRefused(t)
  BY <1>8 DEF PopRefused, Unlock, GoTo, Answer
<1>9. CASE PopLoad(t)
  BY <1>9 DEF PopLoad, GoTo, Empty
<1>10. CASE PopLink(t)
  BY <1>10 DEF PopLink, Unlock, GoTo, Answer
<1>11. CASE Peek(t)
  BY <1>11 DEF Peek, Unlock, GoTo, Answer, Empty
<1>12. CASE Disable(t)
  BY <1>12 DEF Disable, GoTo
<1>13. CASE Quiesce(t)
  BY <1>13 DEF Quiesce, GoTo
<1>14. CASE Clear(t)
  BY <1>14 DEF Clear, GoTo, Exclusive
<1> QED BY <1>1, <1>2, <1>3, <1>4, <1>5, <1>6, <1>7, <1>8, <1>9, <1>10, <1>11, <1>12, <1>13, <1>14 DEF Operation

\* The answer CountThenPop speaks of.
PopAfterCount == \A t \in Poppers :
                   /\ pc[t] \in {"pop", "peek"} /\ pc'[t] = "out"
                   /\ ret[t] > 0 /\ bEnabled
                   => ret'[t] = 0

LEMMA StepAnswer ==
    ASSUME IInv, CountIsGood, NEW t \in Threads, Operation(t)
    PROVE  PopAfterCount
<1> USE QueueAssumption DEF ring, IInv, TypeOK, CountIsGood, PopAfterCount
<1>1. ASSUME NEW e \in Elements, BeginPush(t, e) PROVE PopAfterCount
  BY <1>1 DEF BeginPush, GoTo
<1>2. CASE BeginPop(t) \/ BeginPeek(t)
  BY <1>2 DEF BeginPop, BeginPeek, GoTo
<1>3. CASE GetQueueCnt(t)
  BY <1>3 DEF GetQueueCnt, Answer
<1>4. CASE PushRefused(t) \/ PushStore(t) \/ PushLink(t)
  BY <1>4 DEF PushRefused, PushStore, PushLink, GoTo, Answer
<1>5. CASE PopRefused(t)
  BY <1>5 DEF PopRefused, GoTo, Answer, Empty
<1>6. CASE PopLoad(t) \/ PopLink(t)
  BY <1>6 DEF PopLoad, PopLink, GoTo, Answer
<1>7. CASE Peek(t)
  BY <1>7 DEF Peek, GoTo, Answer
<1>8. CASE Disable(t) \/ Quiesce(t) \/ Clear(t)
  BY <1>8 DEF Disable, Quiesce, Clear, GoTo
<1> QED BY <1>1, <1>2, <1>3, <1>4, <1>5, <1>6, <1>7, <1>8 DEF Operation

\* The decoder's unlocked "count, then pop" (NX_OMXVideoDecoder.c:1403-1406,
\* 1740-1742) is sound for any number of pushers as long as one thread pops.
THEOREM CountIsReliable == SinglePopper /\ Spec => CountThenPop
<1> SUFFICES ASSUME SinglePopper PROVE Spec => CountThenPop
  OBVIOUS
<1>1. Init => PopperPlaces /\ CountIsGood
  BY QueueAssumption DEF Init, PopperPlaces, CountIsGood
<1>2. IInv /\ PopperPlaces /\ CountIsGood /\ [Next]_vars => PopperPlaces' /\ CountIsGood'
  <2> SUFFICES ASSUME IInv, PopperPlaces, CountIsGood, [Next]_vars
               PROVE  PopperPlaces' /\ CountIsGood'
    OBVIOUS
  <2>1. CASE Next
    BY <2>1, StepCount DEF Next
  <2>2. CASE UNCHANGED vars
    BY <2>2 DEF vars, PopperPlaces, CountIsGood
  <2> QED BY <2>1, <2>2
<1>3. IInv /\ CountIsGood /\ [Next]_vars => [PopAfterCount]_vars
  BY StepAnswer DEF Next
<1>4. CountThenPop <=> [][PopAfterCount]_vars
  BY DEF CountThenPop, PopAfterCount
<1> QED BY <1>1, <1>2, <1>3, <1>4, Invariance, PTL DEF Spec
-------------------------------------------------------------------------------
\* What n slots from h on hold is a sequence when they hold elements.
LEMMA SlotsMakeSeq ==
    ASSUME NEW h, NEW n \in Nat, NEW p,
           \A i \in 1 .. n : p[(h + i - 1) % Capacity] \in Elements
    PROVE  /\ [i \in 1 .. n |-> p[(h + i - 1) % Capacity]] \in Seq(Elements)
           /\ Len([i \in 1 .. n |-> p[(h + i - 1) % Capacity]]) = n
<1> DEFINE c == [i \in 1 .. n |-> p[(h + i - 1) % Capacity]]
<1>1. c \in [1 .. n -> Elements] /\ DOMAIN c = 1 .. n
  OBVIOUS
<1> HIDE DEF c
<1>2. c \in Seq(Elements)
  BY <1>1, SeqDef
<1>3. DOMAIN c = 1 .. Len(c) /\ Len(c) \in Nat
  BY <1>2, LenProperties
<1>4. Len(c) = n
  BY <1>1, <1>3
<1> QED BY <1>2, <1>4 DEF c

\* The refinement mapping yields a sequence of pushed elements, here and in
\* the next state.
LEMMA ContentsIsSeq ==
    ASSUME IInv
    PROVE  Contents \in Seq(Elements) /\ Len(Contents) = curElements
<1>1. curElements \in Nat
  BY QueueAssumption DEF IInv, TypeOK
<1>2. \A i \in 1 .. curElements : pElements[(head + i - 1) % Capacity] \in Elements
  BY DEF IInv, RingConsistent, SlotOf
<1> QED BY <1>1, <1>2, SlotsMakeSeq DEF Contents, SlotOf

LEMMA NextContentsIsSeq ==
    ASSUME IInv'
    PROVE  Contents' \in Seq(Elements) /\ Len(Contents') = curElements'
<1>1. curElements' \in Nat
  BY QueueAssumption DEF IInv, TypeOK
<1>2. \A i \in 1 .. curElements' : pElements'[(head' + i - 1) % Capacity] \in Elements
  BY DEF IInv, RingConsistent, SlotOf
<1> QED BY <1>1, <1>2, SlotsMakeSeq DEF Contents, SlotOf

\* No queued element lies in the slot of the next push.
LEMMA NextSlotIsFree ==
    ASSUME NEW h \in Slots, NEW n \in 0 .. Capacity - 1, NEW i \in 1 .. n
    PROVE  (h + i - 1) % Capacity # (h + n) % Capacity
<1> USE QueueAssumption DEF Slots
<1>1. (h + n) % Capacity = IF h + n < Capacity THEN h + n ELSE h + n - Capacity
  BY WrapOnce
<1>2. h + i - 1 \in 0 .. 2 * Capacity - 1
  OBVIOUS
<1>3. (h + i - 1) % Capacity
        = IF h + i - 1 < Capacity THEN h + i - 1 ELSE h + i - 1 - Capacity
  BY <1>2, WrapOnce
<1> QED BY <1>1, <1>3

\* A push appends.
LEMMA PushAppends ==
    ASSUME IInv, IInv', NEW t \in Threads, PushLink(t)
    PROVE  Contents' = Append(Contents, arg[t])
<1> USE QueueAssumption DEF IInv
<1>1. /\ curElements \in 0 .. Capacity - 1 /\ curElements' = curElements + 1
      /\ head \in Slots /\ head' = head /\ pElements' = pElements
      /\ tail = (head + curElements) % Capacity
      /\ pElements[tail] = arg[t] /\ arg[t] \in Elements
  BY DEF PushLink, InFlight, TypeOK, RingConsistent
<1>2. Contents \in Seq(Elements) /\ Len(Contents) = curElements
  BY ContentsIsSeq
<1>3. Contents' \in Seq(Elements) /\ Len(Contents') = curElements'
  BY NextContentsIsSeq
<1> DEFINE longer == Append(Contents, arg[t])
<1>4. longer \in Seq(Elements) /\ Len(longer) = curElements + 1
  BY <1>1, <1>2
<1>5. ASSUME NEW i \in 1 .. curElements + 1 PROVE Contents'[i] = longer[i]
  <2>1. Contents'[i] = pElements[(head + i - 1) % Capacity]
    BY <1>1 DEF Contents, SlotOf
  <2>2. CASE i = curElements + 1
    <3>1. head + i - 1 = head + curElements
      BY <1>1, <2>2 DEF Slots
    <3>2. longer[i] = arg[t]
      BY <1>1, <1>2, <2>2
    <3> QED BY <2>1, <3>1, <3>2, <1>1
  <2>3. CASE i \in 1 .. curElements
    <3>1. longer[i] = Contents[i]
      BY <1>1, <1>2, <2>3
    <3> QED BY <2>1, <2>3, <3>1 DEF Contents, SlotOf
  <2>4. i = curElements + 1 \/ i \in 1 .. curElements
    BY <1>1
  <2> QED BY <2>2, <2>3, <2>4
<1> HIDE DEF longer
<1>6. Contents' = longer
  BY <1>1, <1>3, <1>4, <1>5, SeqEqual
<1> QED BY <1>6 DEF longer

\* A pop takes the head.
LEMMA PopTakesHead ==
    ASSUME IInv, IInv', NEW t \in Threads, PopLink(t)
    PROVE  /\ Contents # <<>>
           /\ Contents' = Tail(Contents)
           /\ out' = [out EXCEPT ![t] = Head(Contents)]
<1> USE QueueAssumption
<1>1. /\ curElements \in 1 .. Capacity /\ curElements' = curElements - 1
      /\ head \in Slots /\ head' = After(head) /\ pElements' = pElements
      /\ arg[t] = pElements[head]
      /\ out' = [out EXCEPT ![t] = arg[t]]
  BY DEF PopLink, IInv, InFlight, TypeOK
<1>2. Contents \in Seq(Elements) /\ Len(Contents) = curElements
  BY ContentsIsSeq
<1>3. Contents' \in Seq(Elements) /\ Len(Contents') = curElements'
  BY NextContentsIsSeq
<1>4. Contents # <<>>
  BY <1>1, <1>2
<1>5. /\ Tail(Contents) \in Seq(Elements) /\ Len(Tail(Contents)) = curElements - 1
      /\ \A i \in 1 .. Len(Tail(Contents)) : Tail(Contents)[i] = Contents[i + 1]
  BY <1>2, <1>4, HeadTailProperties
<1>6. ASSUME NEW i \in 1 .. curElements - 1 PROVE Contents'[i] = Tail(Contents)[i]
  <2>1. Contents'[i] = pElements[(After(head) + i - 1) % Capacity]
    BY <1>1 DEF Contents, SlotOf
  <2>2. Contents[i + 1] = pElements[(head + (i + 1) - 1) % Capacity]
    BY <1>1 DEF Contents, SlotOf
  <2> DEFINE n == i - 1
  <2>3. n \in 0 .. Capacity - 1 /\ n + 1 = i
    BY <1>1
  <2>4. After(head) \in Slots /\ (After(head) + n) % Capacity = (head + (n + 1)) % Capacity
    BY <1>1, <2>3, AfterOldest
  <2>5. After(head) + i - 1 = After(head) + n /\ head + (i + 1) - 1 = head + (n + 1)
    BY <1>1, <2>3, <2>4 DEF Slots
  <2>6. Tail(Contents)[i] = Contents[i + 1]
    BY <1>5
  <2> QED BY <2>1, <2>2, <2>4, <2>5, <2>6
<1>7. Contents' = Tail(Contents)
  BY <1>1, <1>3, <1>5, <1>6, SeqEqual
<1>8. Head(Contents) = pElements[head]
  <2>1. Head(Contents) = Contents[1]
    BY <1>2, <1>4
  <2>2. Contents[1] = pElements[(head + 1 - 1) % Capacity]
    BY <1>1 DEF Contents, SlotOf
  <2>3. (head + 1 - 1) % Capacity = head
    BY <1>1 DEF Slots
  <2> QED BY <2>1, <2>2, <2>3
<1> QED BY <1>1, <1>4, <1>7, <1>8

\* A peek reads the head.
LEMMA PeekReadsHead ==
    ASSUME IInv, curElements # 0
    PROVE  Contents # <<>> /\ Head(Contents) = pElements[head]
<1> USE QueueAssumption DEF IInv, TypeOK
<1>1. Contents \in Seq(Elements) /\ Len(Contents) = curElements
  BY ContentsIsSeq
<1>2. Contents # <<>>
  BY <1>1
<1>3. Head(Contents) = Contents[1]
  BY <1>1, <1>2
<1>4. Contents[1] = pElements[(head + 1 - 1) % Capacity]
  BY DEF Contents, SlotOf
<1>5. (head + 1 - 1) % Capacity = head
  <2>1. head \in 0 .. Capacity - 1 /\ Capacity \in Nat \ {0}
    BY DEF Slots
  <2>2. head + 1 - 1 = head
    BY <2>1
  <2>3. head % Capacity = head
    BY <2>1
  <2> QED BY <2>2, <2>3
<1> QED BY <1>2, <1>3, <1>4, <1>5

\* The store of a push is not yet visible.
LEMMA StoreIsInvisible ==
    ASSUME IInv, NEW t \in Threads, PushStore(t)
    PROVE  Contents' = Contents
<1> USE QueueAssumption DEF IInv, TypeOK
<1>1. /\ head' = head /\ curElements' = curElements
      /\ pElements' = [pElements EXCEPT ![tail] = arg[t]]
      /\ curElements \in 0 .. Capacity - 1
      /\ tail = (head + curElements) % Capacity
  BY DEF PushStore, Full, RingConsistent
<1>2. ASSUME NEW i \in 1 .. curElements
      PROVE  pElements'[(head + i - 1) % Capacity] = pElements[(head + i - 1) % Capacity]
  <2>1. (head + i - 1) % Capacity # tail
    BY <1>1, NextSlotIsFree
  <2>2. (head + i - 1) % Capacity \in Slots
    <3>1. i - 1 \in 0 .. Capacity - 1 /\ head + i - 1 = head + (i - 1)
      BY <1>1 DEF Slots
    <3> QED BY <3>1, AfterNewest
  <2> QED BY <1>1, <2>1, <2>2
<1> QED BY <1>1, <1>2 DEF Contents, SlotOf

\* A step that leaves the ring alone leaves its contents alone.
LEMMA SameContents ==
    ASSUME UNCHANGED <<head, curElements, pElements>>
    PROVE  Contents' = Contents
BY DEF Contents, SlotOf

\* Every step of the ring is a step of the bounded queue or invisible.
LEMMA StepFifo ==
    ASSUME IInv, IInv', NEW t \in Threads, Operation(t)
    PROVE  Fifo!Next \/ UNCHANGED Fifo!vars
<1> DEFINE Good == Fifo!Next \/ UNCHANGED Fifo!vars
<1> USE DEF ring
<1>0. /\ Contents \in Seq(Elements) /\ Len(Contents) = curElements
      /\ curElements \in Nat /\ Capacity \in Nat
  BY ContentsIsSeq, QueueAssumption DEF IInv, TypeOK
<1>1. ASSUME NEW e \in Elements, BeginPush(t, e) PROVE Good
  BY <1>1, SameContents DEF BeginPush, Fifo!vars
<1>2. CASE BeginPop(t) \/ BeginPeek(t)
  BY <1>2, SameContents DEF BeginPop, BeginPeek, Fifo!vars
<1>3. CASE PopLoad(t) \/ Quiesce(t)
  BY <1>3, SameContents DEF PopLoad, Quiesce, Fifo!vars
<1>4. CASE PushStore(t)
  BY <1>4, StoreIsInvisible DEF PushStore, Fifo!vars
<1>5. CASE PushRefused(t)
  <2>1. Fifo!PutRefused(t)
    BY <1>0, <1>5, SameContents DEF PushRefused, Full, Answer, Fifo!PutRefused, Fifo!Answer
  <2> QED BY <2>1 DEF Fifo!Next
<1>6. CASE PushLink(t)
  <2>1. bEnabled /\ curElements < Capacity /\ arg[t] \in Elements
    BY <1>6 DEF PushLink, IInv, InFlight
  <2>2. Contents' = Append(Contents, arg[t])
    BY <1>6, PushAppends
  <2>3. Fifo!Put(t, arg[t])
    BY <1>0, <1>6, <2>1, <2>2 DEF PushLink, Answer, Fifo!Put, Fifo!Answer
  <2> QED BY <2>1, <2>3 DEF Fifo!Next
<1>7. CASE PopRefused(t)
  <2>1. Contents' = Contents
    BY <1>7, SameContents DEF PopRefused
  <2>2. curElements = 0 => Contents = <<>>
    BY <1>0
  <2>3. Fifo!Refused(t)
    BY <1>7, <2>1, <2>2 DEF PopRefused, Empty, Answer, Fifo!Refused, Fifo!Answer
  <2> QED BY <2>3 DEF Fifo!Next
<1>8. CASE PopLink(t)
  <2>1. bEnabled
    BY <1>8 DEF PopLink, IInv, InFlight
  <2>2. /\ Contents # <<>> /\ Contents' = Tail(Contents)
        /\ out' = [out EXCEPT ![t] = Head(Contents)]
    BY <1>8, PopTakesHead
  <2>3. Fifo!Get(t)
    BY <1>8, <2>1, <2>2 DEF PopLink, Answer, Fifo!Get, Fifo!Answer
  <2> QED BY <2>3 DEF Fifo!Next
<1>9. CASE Peek(t)
  <2>1. Contents # <<>> /\ Head(Contents) = pElements[head]
    BY <1>9, PeekReadsHead DEF Peek, Empty
  <2>2. Contents' = Contents
    BY <1>9, SameContents DEF Peek
  <2>3. Fifo!Look(t)
    BY <1>9, <2>1, <2>2 DEF Peek, Empty, Answer, Fifo!Look, Fifo!Answer
  <2> QED BY <2>3 DEF Fifo!Next
<1>10. CASE GetQueueCnt(t)
  <2>1. Fifo!Count(t)
    BY <1>0, <1>10, SameContents DEF GetQueueCnt, CountRead, Answer, Fifo!Count, Fifo!Answer
  <2> QED BY <2>1 DEF Fifo!Next
<1>11. CASE Disable(t)
  <2>1. Fifo!Close
    BY <1>11, SameContents DEF Disable, Fifo!Close
  <2> QED BY <2>1 DEF Fifo!Next
<1>12. CASE Clear(t)
  <2>1. ~ bEnabled /\ curElements' = 0
    BY <1>12 DEF Clear, IInv, Exclusive, Disabled
  <2>2. Contents' = <<>>
    BY <2>1, NextContentsIsSeq
  <2>3. Fifo!Discard
    BY <1>12, <2>1, <2>2 DEF Clear, Fifo!Discard
  <2> QED BY <2>3 DEF Fifo!Next
<1> QED BY <1>1, <1>2, <1>3, <1>4, <1>5, <1>6, <1>7, <1>8, <1>9, <1>10, <1>11, <1>12 DEF Operation

\* The ring is the "Thread safe Queue" of include/NX_OMXQueue.h: every call of
\* NX_PushQueue, NX_PopQueue, NX_GetNextQueuInfo and NX_GetQueueCnt takes effect
\* at one instant on a first-in first-out queue.
THEOREM ImplementsFifo == Spec => IsFifo
<1>1. Init => Fifo!Init
  <2> SUFFICES ASSUME Init PROVE Fifo!Init
    OBVIOUS
  <2>1. IInv /\ curElements = 0
    BY InitIInv DEF Init
  <2>2. Contents = <<>>
    BY <2>1, ContentsIsSeq
  <2> QED BY <2>2 DEF Init, Fifo!Init
<1>2. IInv /\ IInv' /\ [Next]_vars => [Fifo!Next]_Fifo!vars
  <2> SUFFICES ASSUME IInv, IInv', [Next]_vars PROVE Fifo!Next \/ UNCHANGED Fifo!vars
    BY DEF Fifo!vars
  <2>1. CASE Next
    BY <2>1, StepFifo DEF Next
  <2>2. CASE UNCHANGED vars
    BY <2>2, SameContents DEF vars, Fifo!vars
  <2> QED BY <2>1, <2>2
<1> QED BY <1>1, <1>2, Invariance, PTL DEF Spec, IsFifo, Fifo!Spec
===============================================================================
