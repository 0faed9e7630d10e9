-------------------------------- MODULE NX_Queue --------------------------------
(***************************************************************************)
(* common/NX_OMXQueue.c: the ring buffer that carries commands to the      *)
(* command thread and buffer headers to the buffer thread.                 *)
(*                                                                         *)
(* Push, pop and peek run under hMutex; their body is cut after the access *)
(* to pElements so that the intermediate state, which GetQueueCnt may see  *)
(* because it takes no lock, is a state of the model.                      *)
(***************************************************************************)
EXTENDS Integers, Sequences

CONSTANTS Threads,    \* threads that use the queue
          Poppers,    \* those that pop and peek
          Deiniter,   \* the thread that calls NX_DeinitQueue
          Elements,   \* pointers that are pushed
          Capacity,   \* NX_InitQueue's maxNumElement
          NoElement   \* what a slot or an out parameter holds before use

ASSUME QueueAssumption ==
    /\ Capacity \in Nat \ {0}
    /\ Deiniter \in Threads
    /\ Poppers \subseteq Threads
    /\ NoElement \notin Elements

VARIABLES head, tail, curElements,  \* NX_QUEUE, the indices and the count
          pElements,                \* NX_QUEUE.pElements
          bEnabled,                 \* NX_QUEUE.bEnabled
          hMutex,                   \* the threads inside the critical section
          pc,                       \* where each thread is
          arg,                      \* push: the element; pop: the one read;
                                    \* NoElement outside the critical section
          ret,                      \* what the thread's last call returned
          out                       \* what its last call stored in *pElement

vars == <<head, tail, curElements, pElements, bEnabled, hMutex, pc, arg, ret, out>>

ring == <<head, tail, curElements, pElements, bEnabled>>

Slots == 0 .. Capacity - 1

\* "disable" and "destroy" are places of NX_DeinitQueue, "gone" is after its memset.
Where == {"out", "push", "stored", "pop", "loaded", "peek",
          "disable", "destroy", "gone"}

\* NX_InitQueue with maxNumElement = Capacity <= NX_MAX_QUEUE_ELEMENT.
Init == /\ head = 0 /\ tail = 0 /\ curElements = 0
        /\ pElements = [i \in Slots |-> NoElement]
        /\ bEnabled = TRUE
        /\ hMutex = {}
        /\ pc = [t \in Threads |-> "out"]
        /\ arg = [t \in Threads |-> NoElement]
        /\ ret = [t \in Threads |-> 0]
        /\ out = [t \in Threads |-> NoElement]

GoTo(t, w) == pc' = [pc EXCEPT ![t] = w]

\* The call returns r; its local variables are gone.
Answer(t, r) == /\ ret' = [ret EXCEPT ![t] = r]
                /\ arg' = [arg EXCEPT ![t] = NoElement]

\* Not the code: entering without waiting for the lock.
LockNotTaken(t) == hMutex' = hMutex \cup {t}

\* pthread_mutex_lock returns.
Lock(t) == hMutex = {} /\ hMutex' = {t}

Unlock(t) == hMutex' = hMutex \ {t}

\* Nobody calls an operation of a queue that is being torn down: the components
\* join the threads that use a queue before they call NX_DeinitQueue.
InUse == pc[Deiniter] \notin {"destroy", "gone"}

BeginPush(t, e) == /\ pc[t] = "out" /\ InUse
                   /\ Lock(t)
                   /\ GoTo(t, "push")
                   /\ arg' = [arg EXCEPT ![t] = e]
                   /\ UNCHANGED <<ring, ret, out>>

BeginPop(t) == /\ t \in Poppers /\ pc[t] = "out" /\ InUse
               /\ Lock(t)
               /\ GoTo(t, "pop")
               /\ UNCHANGED <<ring, arg, ret, out>>

BeginPeek(t) == /\ t \in Poppers /\ pc[t] = "out" /\ InUse
                /\ Lock(t)
                /\ GoTo(t, "peek")
                /\ UNCHANGED <<ring, arg, ret, out>>

\* The test of NX_PushQueue.
Full == curElements >= Capacity \/ ~ bEnabled

\* Not the code: one element always stays, as in a ring without a counter.
EmptyKeepsOne == curElements <= 1 \/ ~ bEnabled

\* The test of NX_PopQueue and NX_GetNextQueuInfo.
Empty == curElements = 0 \/ ~ bEnabled

\* NX_PushQueue returns -1.
PushRefused(t) == /\ pc[t] = "push" /\ Full
                  /\ Unlock(t)
                  /\ GoTo(t, "out")
                  /\ Answer(t, -1)
                  /\ UNCHANGED <<ring, out>>

\* pElements[tail] = pElement
PushStore(t) == /\ pc[t] = "push" /\ ~ Full
                /\ pElements' = [pElements EXCEPT ![tail] = arg[t]]
                /\ GoTo(t, "stored")
                /\ UNCHANGED <<head, tail, curElements, bEnabled, hMutex, arg, ret, out>>

\* The index after i, (i + 1) % maxElement.
After(i) == (i + 1) % Capacity

\* tail and curElements advance, NX_PushQueue returns 0.
PushLink(t) == /\ pc[t] = "stored"
               /\ tail' = After(tail)
               /\ curElements' = curElements + 1
               /\ Unlock(t)
               /\ GoTo(t, "out")
               /\ Answer(t, 0)
               /\ UNCHANGED <<head, pElements, bEnabled, out>>

\* NX_PopQueue or NX_GetNextQueuInfo returns -1.
PopRefused(t) == /\ pc[t] \in {"pop", "peek"} /\ Empty
                 /\ Unlock(t)
                 /\ GoTo(t, "out")
                 /\ Answer(t, -1)
                 /\ UNCHANGED <<ring, out>>

\* NX_PopQueue reads pElements[head].
PopLoad(t) == /\ pc[t] = "pop" /\ ~ Empty
              /\ arg' = [arg EXCEPT ![t] = pElements[head]]
              /\ GoTo(t, "loaded")
              /\ UNCHANGED <<ring, hMutex, ret, out>>

\* head and curElements advance, NX_PopQueue returns 0 and the element.
PopLink(t) == /\ pc[t] = "loaded"
              /\ head' = After(head)
              /\ curElements' = curElements - 1
              /\ Unlock(t)
              /\ GoTo(t, "out")
              /\ Answer(t, 0)
              /\ out' = [out EXCEPT ![t] = arg[t]]
              /\ UNCHANGED <<tail, pElements, bEnabled>>

\* NX_GetNextQueuInfo: the head element, which stays queued.
Peek(t) == /\ pc[t] = "peek" /\ ~ Empty
           /\ Unlock(t)
           /\ GoTo(t, "out")
           /\ Answer(t, 0)
           /\ out' = [out EXCEPT ![t] = pElements[head]]
           /\ UNCHANGED ring

\* What the unlocked read of NX_GetQueueCnt sees.
CountRead == curElements

\* NX_GetQueueCnt takes no lock.
GetQueueCnt(t) == /\ pc[t] = "out" /\ InUse
                  /\ Answer(t, CountRead)
                  /\ UNCHANGED <<ring, hMutex, pc, out>>

\* NX_DeinitQueue: bEnabled = FALSE under the mutex ...
Disable(t) == /\ t = Deiniter /\ pc[t] = "out" /\ hMutex = {}
              /\ bEnabled' = FALSE
              /\ GoTo(t, "disable")
              /\ UNCHANGED <<head, tail, curElements, pElements, hMutex, arg, ret, out>>

\* ... the threads that use the queue have been joined (caller's duty) ...
Quiesce(t) == /\ pc[t] = "disable"
              /\ \A u \in Threads \ {t} : pc[u] = "out"
              /\ GoTo(t, "destroy")
              /\ UNCHANGED <<ring, hMutex, arg, ret, out>>

\* ... and the structure is cleared.
Clear(t) == /\ pc[t] = "destroy"
            /\ head' = 0 /\ tail' = 0 /\ curElements' = 0
            /\ pElements' = [i \in Slots |-> NoElement]
            /\ GoTo(t, "gone")
            /\ UNCHANGED <<bEnabled, hMutex, arg, ret, out>>

Operation(t) ==
    \/ \E e \in Elements : BeginPush(t, e)
    \/ BeginPop(t) \/ BeginPeek(t) \/ GetQueueCnt(t)
    \/ PushRefused(t) \/ PushStore(t) \/ PushLink(t)
    \/ PopRefused(t) \/ PopLoad(t) \/ PopLink(t) \/ Peek(t)
    \/ Disable(t) \/ Quiesce(t) \/ Clear(t)

Next == \E t \in Threads : Operation(t)

Spec == Init /\ [][Next]_vars
-------------------------------------------------------------------------------
TypeOK == /\ head \in Slots /\ tail \in Slots
          /\ curElements \in 0 .. Capacity
          /\ pElements \in [Slots -> Elements \cup {NoElement}]
          /\ bEnabled \in BOOLEAN
          /\ hMutex \in SUBSET Threads
          /\ pc \in [Threads -> Where]
          /\ arg \in [Threads -> Elements \cup {NoElement}]
          /\ ret \in [Threads -> -1 .. Capacity]
          /\ out \in [Threads -> Elements \cup {NoElement}]

\* The slot of the i-th queued element, i = 1 the oldest.
SlotOf(i) == (head + i - 1) % Capacity

(***************************************************************************)
(* head, tail and curElements describe the same queue: the slot after the  *)
(* newest element is where the next push stores, and the occupied slots    *)
(* hold elements somebody pushed.                                          *)
(***************************************************************************)
RingConsistent == /\ tail = (head + curElements) % Capacity
                  /\ \A i \in 1 .. curElements : pElements[SlotOf(i)] \in Elements

\* The elements in the ring, oldest first.
Contents == [i \in 1 .. curElements |-> pElements[SlotOf(i)]]

(***************************************************************************)
(* The "Thread safe Queue" of include/NX_OMXQueue.h: every call takes      *)
(* effect at one instant, in first-in first-out order, nothing is lost or  *)
(* handed out twice, and the unlocked count is the true one.               *)
(***************************************************************************)
Fifo == INSTANCE BoundedFifo WITH fifo <- Contents, open <- bEnabled

IsFifo == Fifo!Spec

(***************************************************************************)
(* The decoder asks NX_GetQueueCnt without the lock and pops afterwards    *)
(* (NX_OMXVideoDecoder.c:1403-1406, 1740-1742).  When one thread pops, the *)
(* pop that follows a positive count succeeds, whatever the others do in   *)
(* between, unless the queue is being torn down.                           *)
(***************************************************************************)
CountThenPop ==
    [][\A t \in Poppers :
         /\ pc[t] \in {"pop", "peek"} /\ pc'[t] = "out"
         /\ ret[t] > 0 /\ bEnabled
         => ret'[t] = 0]_vars
===============================================================================
