------------------------------ MODULE BoundedFifo ------------------------------
(***************************************************************************)
(* What include/NX_OMXQueue.h promises as a "Thread safe Queue": a bounded *)
(* first-in first-out queue whose operations each take effect at one       *)
(* instant.  The answers are part of the state: ret[t] is what the last    *)
(* call of thread t returned, out[t] what it stored through pElement.      *)
(***************************************************************************)
EXTENDS Integers, Sequences

CONSTANTS Threads, Elements, Capacity, NoElement

VARIABLES fifo,  \* the queued elements, oldest first
          open,  \* bEnabled
          ret,   \* [Threads -> 0, -1 or a count]
          out    \* [Threads -> the element handed out, if any]

vars == <<fifo, open, ret, out>>

Init == /\ fifo = <<>>
        /\ open = TRUE
        /\ ret = [t \in Threads |-> 0]
        /\ out = [t \in Threads |-> NoElement]

Answer(t, r) == ret' = [ret EXCEPT ![t] = r]

Put(t, e) == /\ open /\ Len(fifo) < Capacity
             /\ fifo' = Append(fifo, e)
             /\ Answer(t, 0)
             /\ UNCHANGED <<open, out>>

PutRefused(t) == /\ ~ open \/ Len(fifo) >= Capacity
                 /\ Answer(t, -1)
                 /\ UNCHANGED <<fifo, open, out>>

Get(t) == /\ open /\ fifo # <<>>
          /\ fifo' = Tail(fifo)
          /\ out' = [out EXCEPT ![t] = Head(fifo)]
          /\ Answer(t, 0)
          /\ UNCHANGED open

Look(t) == /\ open /\ fifo # <<>>
           /\ out' = [out EXCEPT ![t] = Head(fifo)]
           /\ Answer(t, 0)
           /\ UNCHANGED <<fifo, open>>

Refused(t) == /\ ~ open \/ fifo = <<>>
              /\ Answer(t, -1)
              /\ UNCHANGED <<fifo, open, out>>

Count(t) == /\ Answer(t, Len(fifo))
            /\ UNCHANGED <<fifo, open, out>>

Close == open' = FALSE /\ UNCHANGED <<fifo, ret, out>>

\* After Close: what is left is forgotten.
Discard == ~ open /\ fifo' = <<>> /\ UNCHANGED <<open, ret, out>>

Next == \/ \E t \in Threads :
             \/ \E e \in Elements : Put(t, e)
             \/ PutRefused(t) \/ Get(t) \/ Look(t) \/ Refused(t) \/ Count(t)
        \/ Close
        \/ Discard

Spec == Init /\ [][Next]_vars
===============================================================================
