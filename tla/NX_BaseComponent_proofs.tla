----------------------- MODULE NX_BaseComponent_proofs ------------------------
(***************************************************************************)
(* Proofs about NX_BaseComponent, for any number of client threads and any *)
(* commands.  The argument counts: a token of hSemCmd for every command in *)
(* the queue and one more for the exit, so that the thread finds a command *)
(* whenever it takes a token, but for the last one.                        *)
(***************************************************************************)
EXTENDS NX_BaseComponent, FiniteSetTheorems, SequenceTheorems, TLAPS

Pushing == {c \in Clients : client[c] = "push"}
Posting == {c \in Clients : client[c] = "post"}

\* The thread has taken a token and not yet the command.
Taken == IF thread \in {"check", "pop"} THEN 1 ELSE 0

\* ComponentDeInit has posted.
ExitPosted == IF life = "join" THEN 1 ELSE 0

\* Where ComponentDeInit, the thread and the clients can be together.
Phases ==
    /\ eCmdThreadCmd = "EXIT" <=> life \in {"wake", "join", "gone"}
    /\ life # "up" => \A c \in Clients : client[c] = "out"
    /\ thread = "none" <=> life = "create"
    /\ thread = "exited" => life \in {"join", "gone"} /\ cmdQueue = <<>>
    /\ life = "gone" => thread = "exited"
    /\ Len(pCmd) = IF thread = "handle" THEN 1 ELSE 0
    /\ thread = "pop" => cmdQueue # <<>>

\* Every command that was sent is in one place.
Accounted == sent = Len(done) + Len(cmdQueue) + Len(pCmd) + Cardinality(Pushing)

\* So many commands never fill the queue.
WithinBound == sent - Len(done) <= MaxUnfinished

\* Each command in the queue has its token.
Tokens == thread # "exited" =>
              hSemCmd + Taken + Cardinality(Posting) = Len(cmdQueue) + ExitPosted

IInv == TypeOK /\ Phases /\ Accounted /\ WithinBound /\ Tokens /\ InOrder
-------------------------------------------------------------------------------
\* The sets of clients are finite.
LEMMA Counts ==
    /\ IsFiniteSet(Pushing) /\ Cardinality(Pushing) \in Nat
    /\ IsFiniteSet(Posting) /\ Cardinality(Posting) \in Nat
    /\ Cardinality(Pushing) = 0 <=> Pushing = {}
    /\ Cardinality(Posting) = 0 <=> Posting = {}
<1>1. IsFiniteSet(Pushing) /\ IsFiniteSet(Posting)
  BY FS_Subset, CommandAssumption DEF Pushing, Posting
<1> QED
  BY <1>1, FS_CardinalityType, FS_EmptySet

\* One client that moves from one of two sets to the other changes both by one.
LEMMA OneMore ==
    ASSUME NEW S, IsFiniteSet(S), NEW x, x \notin S
    PROVE  Cardinality(S \cup {x}) = Cardinality(S) + 1
BY FS_AddElement

LEMMA OneLess ==
    ASSUME NEW S, IsFiniteSet(S), NEW x \in S
    PROVE  Cardinality(S \ {x}) = Cardinality(S) - 1
BY FS_RemoveElement

LEMMA Lengths ==
    ASSUME TypeOK
    PROVE  /\ Len(cmdQueue) \in Nat /\ Len(done) \in Nat /\ Len(pCmd) \in Nat
           /\ sent \in Nat /\ hSemCmd \in Nat
           /\ Taken \in 0 .. 1 /\ ExitPosted \in 0 .. 1
BY CommandAssumption, LenProperties DEF TypeOK, Taken, ExitPosted

\* The queue has room for the commands being pushed, hSemCmd for their posts.
LEMMA Room ==
    ASSUME IInv
    PROVE  /\ Len(cmdQueue) + Cardinality(Pushing) <= MaxUnfinished
           /\ thread # "exited" =>
                  hSemCmd + Cardinality(Posting) <= MaxUnfinished + ExitPosted
<1>1. Len(cmdQueue) + Cardinality(Pushing) <= MaxUnfinished
  BY Counts, Lengths, CommandAssumption DEF IInv, Accounted, WithinBound
<1>2. ASSUME thread # "exited"
      PROVE  hSemCmd + Cardinality(Posting) <= MaxUnfinished + ExitPosted
  BY <1>1, <1>2, Counts, Lengths, CommandAssumption DEF IInv, Tokens
<1> QED
  BY <1>1, <1>2

LEMMA HeadThenTail ==
    ASSUME NEW S, NEW s \in Seq(S), s # <<>>
    PROVE  s = <<Head(s)>> \o Tail(s)
<1>1. Len(s) \in Nat /\ Len(s) >= 1
  BY EmptySeq
<1>2. SubSeq(s, 1, Len(s)) = <<s[1]>> \o SubSeq(s, 2, Len(s))
  BY <1>1, SubSeqRecursiveFirst
<1> QED
  BY <1>2, SubSeqFull, TailIsSubSeq, Head(s) = s[1]

LEMMA InitIInv == Init => IInv
<1> SUFFICES ASSUME Init PROVE IInv
  OBVIOUS
<1>1. Pushing = {} /\ Posting = {}
  BY DEF Init, Pushing, Posting
<1>2. Cardinality(Pushing) = 0 /\ Cardinality(Posting) = 0
  BY <1>1, FS_EmptySet
<1>3. TypeOK
  BY CommandAssumption DEF Init, TypeOK, Commands
<1>4. Phases
  BY DEF Init, Phases
<1>5. Accounted /\ WithinBound /\ Tokens
  BY <1>2, CommandAssumption DEF Init, Accounted, WithinBound, Tokens, Taken, ExitPosted
<1>6. InOrder
  BY <1>3, ConcatEmptySeq DEF Init, InOrder, TypeOK
<1> QED
  BY <1>3, <1>4, <1>5, <1>6 DEF IInv

\* A client that sets the state it asks for: one command more, none in the queue.
LEMMA SendKeeps ==
    ASSUME IInv, NEW c \in Clients, NEW m \in Commands, SendCommand(c, m)
    PROVE  IInv'
<1> USE DEF SendCommand, history
<1>1. Pushing' = Pushing \cup {c} /\ c \notin Pushing /\ Posting' = Posting
  BY DEF IInv, TypeOK, Pushing, Posting
<1>2. Cardinality(Pushing') = Cardinality(Pushing) + 1
  BY <1>1, Counts, OneMore
<1>3. TypeOK'
  BY DEF IInv, TypeOK, Commands
<1>4. Phases'
  BY DEF IInv, TypeOK, Phases
<1>5. Accounted' /\ WithinBound' /\ Tokens'
  <2>1. Accounted'
    BY <1>1, <1>2, Counts, Lengths, CommandAssumption DEF IInv, Accounted
  <2>2. WithinBound'
    BY <1>1, <1>2, Counts, Lengths, CommandAssumption DEF IInv, WithinBound, Unfinished
  <2>3. Tokens'
    BY <1>1, <1>2, Counts, Lengths, CommandAssumption DEF IInv, Tokens, Taken, ExitPosted
  <2> QED
    BY <2>1, <2>2, <2>3
<1>6. InOrder'
  BY DEF IInv, InOrder
<1> QED
  BY <1>3, <1>4, <1>5, <1>6 DEF IInv

\* The queue has room: this command is not in it yet, and it is one of the few
\* that are unfinished.
LEMMA PushKeeps ==
    ASSUME IInv, NEW c \in Clients, Push(c)
    PROVE  IInv'
<1> USE DEF Push, comp
<1>1. /\ Pushing' = Pushing \ {c} /\ c \in Pushing
      /\ Posting' = Posting \cup {c} /\ c \notin Posting
  BY DEF IInv, TypeOK, Pushing, Posting
<1>2. /\ Cardinality(Pushing') = Cardinality(Pushing) - 1
      /\ Cardinality(Posting') = Cardinality(Posting) + 1
      /\ Cardinality(Pushing) >= 1
  <2>1. Cardinality(Pushing) # 0
    BY <1>1, Counts
  <2>2. Cardinality(Pushing \ {c}) = Cardinality(Pushing) - 1
    BY ONLY <1>1, Counts, OneLess
  <2>3. Cardinality(Posting \cup {c}) = Cardinality(Posting) + 1
    BY ONLY <1>1, Counts, OneMore
  <2>4. Cardinality(Pushing) \in Nat
    BY ONLY Counts
  <2> QED
    BY ONLY <1>1, <2>1, <2>2, <2>3, <2>4
<1>3. /\ Len(cmdQueue) \in Nat /\ Len(done) \in Nat /\ Len(pCmd) \in Nat
      /\ sent \in Nat
  BY Lengths DEF IInv
<1>4. Len(cmdQueue) < QueueMax
  BY SMTT(30), <1>2, <1>3, Counts, CommandAssumption DEF IInv, Accounted, WithinBound
<1>5. /\ cmdQueue' = Append(cmdQueue, msg[c])
      /\ accepted' = Append(accepted, msg[c])
      /\ msg[c] \in Commands
  BY <1>4 DEF IInv, TypeOK
<1>6. /\ cmdQueue' \in Seq(Commands) /\ accepted' \in Seq(Commands)
      /\ Len(cmdQueue') = Len(cmdQueue) + 1
  BY <1>5, AppendProperties DEF IInv, TypeOK
<1>7. TypeOK'
  BY <1>6 DEF IInv, TypeOK
<1>8. life = "up" /\ thread # "exited"
  BY <1>1 DEF IInv, Phases, Pushing
<1>9. Phases'
  BY <1>3, <1>6, <1>8 DEF IInv, Phases, TypeOK
<1>10. Accounted' /\ WithinBound' /\ Tokens'
  <2>1. Accounted'
    BY <1>1, <1>2, <1>6, <1>8, Counts, Lengths DEF IInv, Accounted
  <2>2. WithinBound'
    BY <1>1, <1>2, <1>6, <1>8, Counts, Lengths DEF IInv, WithinBound
  <2>3. Taken' = Taken /\ ExitPosted' = ExitPosted /\ hSemCmd' = hSemCmd
    BY DEF Taken, ExitPosted
  <2>4. hSemCmd + Taken + Cardinality(Posting) = Len(cmdQueue) + ExitPosted
    BY <1>8 DEF IInv, Tokens
  <2>5. /\ hSemCmd \in Nat /\ Taken \in Nat /\ ExitPosted \in Nat
        /\ Cardinality(Posting) \in Nat /\ Len(cmdQueue) \in Nat
    BY Counts, Lengths DEF IInv
  <2>6. hSemCmd + Taken + (Cardinality(Posting) + 1) = (Len(cmdQueue) + 1) + ExitPosted
    BY ONLY <2>4, <2>5
  <2>7. Tokens'
    BY ONLY <1>2, <1>6, <2>3, <2>6 DEF Tokens
  <2> QED
    BY <2>1, <2>2, <2>7
<1>11. InOrder'
  <2>1. /\ done \o pCmd \in Seq(Commands)
        /\ cmdQueue \in Seq(Commands) /\ <<msg[c]>> \in Seq(Commands)
    BY <1>5, ConcatProperties DEF IInv, TypeOK
  <2>2. /\ Append(cmdQueue, msg[c]) = cmdQueue \o <<msg[c]>>
        /\ Append(accepted, msg[c]) = accepted \o <<msg[c]>>
    BY <1>5, AppendIsConcat DEF IInv, TypeOK
  <2>3. ((done \o pCmd) \o cmdQueue) \o <<msg[c]>>
            = (done \o pCmd) \o (cmdQueue \o <<msg[c]>>)
    BY SMTT(30), <2>1, ConcatAssociative
  <2> QED
    BY <1>5, <2>2, <2>3 DEF IInv, InOrder
<1> QED
  BY <1>7, <1>9, <1>10, <1>11 DEF IInv

\* hSemCmd is below its maximum: its tokens are for the commands in the queue.
LEMMA PostKeeps ==
    ASSUME IInv, NEW c \in Clients, Post(c)
    PROVE  IInv'
<1> USE DEF Post, comp, history
<1>1. Posting' = Posting \ {c} /\ c \in Posting /\ Pushing' = Pushing
  BY DEF IInv, TypeOK, Pushing, Posting
<1>2. /\ Cardinality(Posting') = Cardinality(Posting) - 1
      /\ Cardinality(Posting) >= 1
  <2>1. Cardinality(Posting) # 0
    BY <1>1, Counts
  <2> QED
    BY <1>1, <2>1, Counts, OneLess
<1>3. /\ Len(cmdQueue) \in Nat /\ Len(done) \in Nat /\ Len(pCmd) \in Nat
      /\ sent \in Nat
  BY Lengths DEF IInv
<1>4. life = "up" /\ thread # "exited"
  BY <1>1 DEF IInv, Phases, Posting
<1>5. hSemCmd < QueueMax
  BY <1>2, <1>4, Room, Counts, Lengths, CommandAssumption DEF IInv, ExitPosted
<1>6. hSemCmd' = hSemCmd + 1
  BY <1>5 DEF Posted
<1>7. TypeOK'
  BY <1>5, <1>6, CommandAssumption DEF IInv, TypeOK
<1>8. Phases'
  BY <1>4 DEF IInv, Phases, TypeOK
<1>9. Accounted' /\ WithinBound' /\ Tokens'
  <2>1. Accounted'
    BY <1>1, <1>2, <1>4, <1>6, Counts, Lengths DEF IInv, Accounted
  <2>2. WithinBound'
    BY <1>1, <1>2, <1>4, <1>6, Counts, Lengths DEF IInv, WithinBound
  <2>3. Tokens'
    BY <1>1, <1>2, <1>4, <1>6, Counts, Lengths DEF IInv, Tokens, Taken, ExitPosted
  <2> QED
    BY <2>1, <2>2, <2>3
<1>10. InOrder'
  BY DEF IInv, InOrder
<1> QED
  BY <1>7, <1>8, <1>9, <1>10 DEF IInv

\* Nothing of the start of the thread touches the commands.
LEMMA StartKeeps ==
    ASSUME IInv, CreateThread \/ ThreadCreated \/ ThreadStarts
    PROVE  IInv'
<1> USE DEF CreateThread, ThreadCreated, ThreadStarts, comp, history
<1>1. Pushing' = Pushing /\ Posting' = Posting
  BY DEF Pushing, Posting
<1>2. TypeOK'
  BY DEF IInv, TypeOK, Posted
<1>3. Phases'
  BY DEF IInv, Phases, TypeOK
<1>4. Accounted' /\ WithinBound' /\ Tokens'
  BY <1>1 DEF IInv, Accounted, WithinBound, Tokens, Taken, ExitPosted, Phases
<1>5. InOrder'
  BY DEF IInv, InOrder
<1> QED
  BY <1>2, <1>3, <1>4, <1>5 DEF IInv

\* ComponentDeInit: its post is the one token without a command.
LEMMA EndKeeps ==
    ASSUME IInv, OrderExit \/ Wake \/ Join
    PROVE  IInv'
<1> USE DEF comp, history
<1>1. Pushing' = Pushing /\ Posting' = Posting
  BY DEF OrderExit, Wake, Join, Pushing, Posting
<1>2. /\ Len(cmdQueue) \in Nat /\ Len(done) \in Nat /\ Len(pCmd) \in Nat
      /\ sent \in Nat
  BY Lengths DEF IInv
<1>3. CASE OrderExit
  BY <1>1, <1>3
     DEF OrderExit, IInv, TypeOK, Phases, Accounted, WithinBound, Tokens, Taken,
         ExitPosted, InOrder
<1>4. CASE Wake
  <2> USE <1>4 DEF Wake
  <2>1. thread # "exited"
    BY DEF IInv, Phases
  <2>2. hSemCmd < QueueMax
    BY <2>1, Room, Counts, Lengths, CommandAssumption DEF IInv, ExitPosted
  <2>3. hSemCmd' = hSemCmd + 1
    BY <2>2 DEF CommandPosted, Posted
  <2>4. TypeOK'
    BY <2>2, <2>3, CommandAssumption DEF IInv, TypeOK, Posted
  <2>5. Phases'
    BY <2>1 DEF IInv, Phases, TypeOK
  <2>6. Accounted' /\ WithinBound' /\ Tokens'
    <3>1. Accounted'
      BY <1>1, <2>1, <2>3, Counts, Lengths DEF IInv, Accounted
    <3>2. WithinBound'
      BY <1>1, <2>1, <2>3, Counts, Lengths DEF IInv, WithinBound
    <3>3. Tokens'
      BY SMTT(30), <1>1, <2>1, <2>3, Counts, Lengths DEF IInv, Tokens, Taken, ExitPosted
    <3> QED
      BY <3>1, <3>2, <3>3
  <2>7. InOrder'
    BY DEF IInv, InOrder
  <2> QED
    BY <2>4, <2>5, <2>6, <2>7 DEF IInv
<1>5. CASE Join
  <2>1. cmdQueue' = cmdQueue
    BY <1>5 DEF Join, IInv, Phases
  <2> QED
    BY <1>1, <1>5, <2>1
       DEF Join, IInv, TypeOK, Phases, Accounted, WithinBound, Tokens, Taken,
           ExitPosted, InOrder
<1> QED
  BY <1>3, <1>4, <1>5

\* The thread leaves with the token of ComponentDeInit and only with that: any
\* other token has a command in the queue.
LEMMA ThreadKeeps ==
    ASSUME IInv, Pend \/ Check
    PROVE  IInv'
<1> USE DEF comp, history
<1>1. Pushing' = Pushing /\ Posting' = Posting
  BY DEF Pend, Check, Pushing, Posting
<1>2. Len(cmdQueue) \in Nat /\ (cmdQueue = <<>> <=> Len(cmdQueue) = 0)
  BY LenProperties, EmptySeq DEF IInv, TypeOK
<1>3. CASE Pend
  <2> USE <1>3 DEF Pend
  <2>1. TypeOK'
    BY CommandAssumption DEF IInv, TypeOK
  <2>2. Phases'
    BY DEF IInv, Phases
  <2>3. Accounted' /\ WithinBound' /\ InOrder'
    BY <1>1 DEF IInv, Accounted, WithinBound, InOrder
  <2>4. Tokens'
    BY <1>1, Counts, Lengths DEF IInv, Tokens, Taken, ExitPosted
  <2> QED
    BY <2>1, <2>2, <2>3, <2>4 DEF IInv
<1>4. CASE Check
  <2> USE <1>4 DEF Check
  <2>1. TypeOK'
    BY DEF IInv, TypeOK
  <2>2. hSemCmd + 1 + Cardinality(Posting) = Len(cmdQueue) + ExitPosted
    BY DEF IInv, Tokens, Taken
  <2>3. ~Leaves => cmdQueue # <<>>
    BY <1>2, <2>2, Counts DEF Leaves, IInv, TypeOK, Phases, ExitPosted
  <2>4. Leaves => life = "join"
    BY <1>2, <2>2, Counts DEF Leaves, IInv, TypeOK, Phases, ExitPosted
  <2>5. Phases'
    BY <2>3, <2>4 DEF IInv, Phases, TypeOK, Leaves
  <2>6. Accounted' /\ WithinBound' /\ Tokens'
    BY <1>1, <2>2 DEF IInv, Accounted, WithinBound, Tokens, Taken, ExitPosted
  <2>7. InOrder'
    BY DEF IInv, InOrder
  <2> QED
    BY <2>1, <2>5, <2>6, <2>7 DEF IInv
<1> QED
  BY <1>3, <1>4

\* NX_PopQueue never finds the queue empty.
LEMMA PopKeeps ==
    ASSUME IInv, Pop
    PROVE  IInv'
<1> USE DEF comp, history
<1>1. Pushing' = Pushing /\ Posting' = Posting
  BY DEF Pop, Pushing, Posting
<1>2. /\ cmdQueue # <<>> /\ thread = "pop" /\ thread' = "handle"
      /\ pCmd' = <<Head(cmdQueue)>> /\ cmdQueue' = Tail(cmdQueue)
      /\ pCmd = <<>>
  BY EmptySeq DEF Pop, TakeCommand, IInv, Phases, TypeOK
<1>3. /\ Head(cmdQueue) \in Commands /\ Tail(cmdQueue) \in Seq(Commands)
      /\ Len(Tail(cmdQueue)) = Len(cmdQueue) - 1
      /\ Len(cmdQueue) \in Nat /\ Len(cmdQueue) > 0 /\ Len(done) \in Nat
  BY <1>2, HeadTailProperties, LenProperties, EmptySeq DEF IInv, TypeOK
<1>4. TypeOK'
  BY <1>2, <1>3 DEF Pop, IInv, TypeOK
<1>5. Phases'
  BY <1>2 DEF Pop, IInv, Phases
<1>6. Accounted' /\ WithinBound' /\ Tokens'
  <2>1. Len(pCmd) = 0 /\ Len(pCmd') = 1
    BY <1>2
  <2> USE DEF Pop
  <2>2. Accounted'
    BY <1>1, <1>2, <1>3, <2>1, Counts, Lengths DEF IInv, Accounted
  <2>3. WithinBound'
    BY DEF IInv, WithinBound
  <2>4. /\ Taken = 1 /\ Taken' = 0 /\ ExitPosted' = ExitPosted
        /\ hSemCmd' = hSemCmd /\ Len(cmdQueue') = Len(cmdQueue) - 1
    BY <1>2, <1>3 DEF Taken, ExitPosted
  <2>5. hSemCmd + 1 + Cardinality(Posting) = Len(cmdQueue) + ExitPosted
    BY <1>2, <2>4 DEF IInv, Tokens
  <2>6. Tokens'
    BY SMTT(30), <1>1, <1>3, <2>4, <2>5, Counts, Lengths DEF IInv, Tokens
  <2> QED
    BY <2>2, <2>3, <2>6
<1>7. InOrder'
  <2>1. cmdQueue = <<Head(cmdQueue)>> \o Tail(cmdQueue)
    BY <1>2, HeadThenTail DEF IInv, TypeOK
  <2>2. done \o <<>> = done
    BY ConcatEmptySeq DEF IInv, TypeOK
  <2>3. <<Head(cmdQueue)>> \in Seq(Commands)
    BY <1>3
  <2>4. done \in Seq(Commands) /\ Tail(cmdQueue) \in Seq(Commands)
    BY <1>3 DEF IInv, TypeOK
  <2>5. (done \o <<Head(cmdQueue)>>) \o Tail(cmdQueue)
            = done \o (<<Head(cmdQueue)>> \o Tail(cmdQueue))
    BY ONLY <2>3, <2>4, ConcatAssociative
  <2> QED
    BY <1>2, <2>1, <2>2, <2>5 DEF Pop, IInv, InOrder
<1> QED
  BY <1>4, <1>5, <1>6, <1>7 DEF IInv

LEMMA HandleKeeps ==
    ASSUME IInv, Handle
    PROVE  IInv'
<1> USE DEF Handle
<1>1. Pushing' = Pushing /\ Posting' = Posting
  BY DEF Pushing, Posting
<1>2. Len(pCmd) = 1 /\ pCmd' = <<>> /\ Len(pCmd') = 0
  BY DEF IInv, Phases
<1>3. /\ done' = done \o pCmd
      /\ done' \in Seq(Commands) /\ Len(done') = Len(done) + 1
      /\ Len(done) \in Nat /\ Len(cmdQueue) \in Nat
  <2>1. /\ done \in Seq(Commands) /\ pCmd \in Seq(Commands) /\ cmdQueue \in Seq(Commands)
    BY DEF IInv, TypeOK
  <2>2. /\ done \o pCmd \in Seq(Commands)
        /\ Len(done \o pCmd) = Len(done) + Len(pCmd)
    BY ONLY <2>1, ConcatProperties
  <2>3. Len(done) \in Nat /\ Len(cmdQueue) \in Nat
    BY ONLY <2>1, LenProperties
  <2>4. done' = done \o pCmd
    OBVIOUS
  <2> QED
    BY ONLY <1>2, <2>2, <2>3, <2>4
<1>4. TypeOK'
  <2>1. eCurState' \in StateCommands /\ lastAsked' \in StateCommands
    BY DEF IInv, TypeOK, Outcomes
  <2> QED
    BY <1>2, <1>3, <2>1 DEF IInv, TypeOK
<1>5. Phases'
  BY <1>2 DEF IInv, Phases, TypeOK
<1>6. Accounted' /\ WithinBound' /\ Tokens'
  BY SMTT(30), <1>1, <1>2, <1>3, Counts, CommandAssumption
     DEF IInv, TypeOK, Accounted, WithinBound, Tokens, Taken, ExitPosted
<1>7. InOrder'
  BY <1>2, <1>3, ConcatEmptySeq DEF IInv, InOrder, TypeOK
<1> QED
  BY <1>4, <1>5, <1>6, <1>7 DEF IInv

LEMMA StepIInv == ASSUME IInv, [Next]_vars PROVE IInv'
<1>1. CASE Call
  BY <1>1, SendKeeps, PushKeeps, PostKeeps DEF Call
<1>2. CASE Lifetime
  BY <1>2, StartKeeps, EndKeeps DEF Lifetime
<1>3. CASE CommandThread
  BY <1>3, StartKeeps, ThreadKeeps, PopKeeps, HandleKeeps DEF CommandThread
<1>4. CASE UNCHANGED vars
  BY <1>4
     DEF vars, comp, history, IInv, TypeOK, Phases, Accounted, WithinBound, Tokens,
         Taken, ExitPosted, InOrder, Pushing, Posting
<1> QED
  BY <1>1, <1>2, <1>3, <1>4 DEF Next
-------------------------------------------------------------------------------
\* The counting argument holds in every reachable state.
LEMMA Invariance == Spec => []IInv
<1>1. Init => IInv
  BY InitIInv
<1>2. IInv /\ [Next]_vars => IInv'
  BY StepIInv
<1> QED
  BY <1>1, <1>2, PTL DEF Spec

(***************************************************************************)
(* However many threads call OMX_SendCommand, hSemCmd stays within its     *)
(* maximum and the thread holds at most one command.                       *)
(***************************************************************************)
THEOREM TypeCorrect == Spec => []TypeOK
BY Invariance, PTL DEF IInv

(***************************************************************************)
(* The commands are executed in the order in which they entered the queue, *)
(* and none is lost or executed twice (NX_BaseCommandThread).              *)
(***************************************************************************)
THEOREM ExecutesInOrder == Spec => []InOrder
BY Invariance, PTL DEF IInv

(***************************************************************************)
(* The command thread leaves only for ComponentDeInit and with every       *)
(* command executed.                                                       *)
(***************************************************************************)
THEOREM ThreadLeavesLast == Spec => []LeavesLast
<1>1. IInv => LeavesLast
  <2> SUFFICES ASSUME IInv, thread = "exited"
               PROVE  LeavesLast
    BY DEF LeavesLast
  <2>1. life \in {"join", "gone"} /\ cmdQueue = <<>> /\ Len(pCmd) = 0
    BY DEF IInv, Phases
  <2>2. pCmd = <<>>
    BY <2>1, EmptySeq DEF IInv, TypeOK
  <2>3. Pushing = {}
    BY <2>1 DEF IInv, Phases, Pushing
  <2>4. Cardinality(Pushing) = 0 /\ Len(cmdQueue) = 0 /\ Len(done) \in Nat
    BY <2>1, <2>3, Counts, LenProperties DEF IInv, TypeOK
  <2>5. sent = Len(done)
    BY <2>1, <2>4 DEF IInv, Accounted
  <2> QED
    BY <2>1, <2>2, <2>5 DEF LeavesLast
<1> QED
  BY <1>1, Invariance, PTL
-------------------------------------------------------------------------------
(* Where the component goes                                                *)

\* A state command that is on its way into the queue.
Asking(c) == client[c] = "push" /\ msg[c] \in StateCommands

\* It is the one that set eNewState.
AskedByController == \A c \in Clients : Asking(c) => c = Controller /\ eNewState = msg[c]

\* The last state command in the queue is at i.
LastAt(i) ==
    /\ i \in DOMAIN cmdQueue /\ cmdQueue[i] \in StateCommands
    /\ \A j \in DOMAIN cmdQueue : j > i => cmdQueue[j] \notin StateCommands

\* There is none in the queue.
NoneQueued == \A i \in DOMAIN cmdQueue : cmdQueue[i] \notin StateCommands

\* eNewState is that of the youngest state command: the last one in the queue, or
\* the one being executed, or the last that was executed.
LastIsNew ==
    (\A c \in Clients : ~ Asking(c)) =>
        /\ \A i \in DOMAIN cmdQueue : LastAt(i) => cmdQueue[i] = eNewState
        /\ NoneQueued => IF pCmd # <<>> /\ pCmd[1] \in StateCommands
                         THEN pCmd[1] = eNewState
                         ELSE lastAsked = eNewState

GoesInv == AskedByController /\ LastIsNew

LEMMA InitGoes == Init => GoesInv
BY DEF Init, GoesInv, AskedByController, LastIsNew, Asking

\* A state command that is sent sets eNewState, another one leaves it.
LEMMA SendGoes ==
    ASSUME IInv, GoesInv, NEW c \in Clients, NEW m \in Commands, SendCommand(c, m)
    PROVE  GoesInv'
<1> USE DEF SendCommand, GoesInv
<1>1. /\ client[c] = "out" /\ client' = [client EXCEPT ![c] = "push"]
      /\ msg' = [msg EXCEPT ![c] = m]
      /\ client \in [Clients -> {"out", "push", "post"}] /\ msg \in [Clients -> Commands]
      /\ UNCHANGED <<cmdQueue, pCmd, lastAsked>>
  BY DEF IInv, TypeOK
<1>2. Asking(c)' <=> m \in StateCommands
  BY <1>1 DEF Asking
<1>3. ~ Asking(c) /\ \A d \in Clients : d # c => Asking(d)' = Asking(d) /\ msg'[d] = msg[d]
  BY <1>1 DEF Asking
<1>4. CASE m \in StateCommands
  <2>1. c = Controller /\ eNewState' = m /\ msg'[c] = m
    BY <1>1, <1>4
  <2>2. \A d \in Clients : d # c => ~ Asking(d)'
    BY <1>3, <2>1 DEF AskedByController
  <2> QED
    BY <1>2, <1>4, <2>1, <2>2 DEF AskedByController, LastIsNew
<1>5. CASE m \notin StateCommands
  <2>1. eNewState' = eNewState /\ \A d \in Clients : Asking(d)' <=> Asking(d)
    <3>1. eNewState' = eNewState
      BY <1>5
    <3>2. ASSUME NEW d \in Clients PROVE Asking(d)' <=> Asking(d)
      <4>1. CASE d = c
        BY <1>2, <1>3, <1>5, <4>1
      <4>2. CASE d # c
        BY <1>3, <4>2
      <4> QED
        BY <4>1, <4>2
    <3> QED
      BY <3>1, <3>2
  <2>2. AskedByController'
    BY <1>2, <1>3, <1>5, <2>1 DEF AskedByController
  <2>3. LastIsNew'
    BY <1>1, <2>1 DEF LastIsNew, LastAt, NoneQueued
  <2> QED
    BY <2>2, <2>3
<1> QED
  BY <1>4, <1>5

\* A push puts the command behind all others.
LEMMA PushGoes ==
    ASSUME IInv, GoesInv, NEW c \in Clients, Push(c)
    PROVE  GoesInv'
<1> USE DEF Push, GoesInv
<1>1. /\ client[c] = "push" /\ client' = [client EXCEPT ![c] = "post"]
      /\ client \in [Clients -> {"out", "push", "post"}]
      /\ msg[c] \in Commands /\ cmdQueue \in Seq(Commands)
      /\ UNCHANGED <<msg, pCmd, lastAsked, eNewState>>
  BY DEF IInv, TypeOK, comp
<1>2. ~ Asking(c)' /\ \A d \in Clients : d # c => Asking(d)' = Asking(d)
  BY <1>1 DEF Asking
<1>3. AskedByController'
  BY <1>1, <1>2 DEF AskedByController
<1>4. cmdQueue' = Append(cmdQueue, msg[c])
  <2>1. Len(cmdQueue) < QueueMax
    BY Room, Lengths, Counts, CommandAssumption DEF IInv
  <2> QED
    BY <2>1
<1>5. /\ Len(cmdQueue) \in Nat /\ DOMAIN cmdQueue = 1 .. Len(cmdQueue)
      /\ DOMAIN cmdQueue' = 1 .. (Len(cmdQueue) + 1)
      /\ cmdQueue'[Len(cmdQueue) + 1] = msg[c]
      /\ \A i \in 1 .. Len(cmdQueue) : cmdQueue'[i] = cmdQueue[i]
  BY <1>1, <1>4
<1>6. LastIsNew'
  <2> SUFFICES ASSUME \A d \in Clients : ~ Asking(d)'
               PROVE  /\ \A i \in DOMAIN cmdQueue' : LastAt(i)' => cmdQueue'[i] = eNewState
                      /\ NoneQueued' => IF pCmd # <<>> /\ pCmd[1] \in StateCommands
                                        THEN pCmd[1] = eNewState
                                        ELSE lastAsked = eNewState
    BY <1>1 DEF LastIsNew
  <2>1. CASE msg[c] \in StateCommands
    <3>1. eNewState = msg[c]
      BY <1>1, <2>1 DEF AskedByController, Asking
    <3>2. ~ NoneQueued'
      BY <1>5, <2>1 DEF NoneQueued
    <3>3. \A i \in DOMAIN cmdQueue' : LastAt(i)' => i = Len(cmdQueue) + 1
      BY <1>5, <2>1 DEF LastAt
    <3> QED
      BY <1>5, <3>1, <3>2, <3>3
  <2>2. CASE msg[c] \notin StateCommands
    <3>1. \A d \in Clients : ~ Asking(d)
      BY <1>2, <2>2 DEF Asking
    <3>2. NoneQueued' => NoneQueued
      BY <1>5 DEF NoneQueued
    <3>3. \A i \in DOMAIN cmdQueue' : LastAt(i)' => i \in DOMAIN cmdQueue /\ LastAt(i)
      BY <1>5, <2>2 DEF LastAt
    <3> QED
      BY <1>5, <3>1, <3>2, <3>3 DEF LastIsNew
  <2> QED
    BY <2>1, <2>2
<1> QED
  BY <1>3, <1>6

\* The oldest command becomes the one executed.
LEMMA PopGoes ==
    ASSUME IInv, GoesInv, Pop
    PROVE  GoesInv'
<1> USE DEF Pop, GoesInv
<1>1. /\ cmdQueue # <<>> /\ cmdQueue \in Seq(Commands) /\ pCmd = <<>>
      /\ UNCHANGED <<client, msg, lastAsked, eNewState>>
  <2>1. Len(pCmd) = 0 /\ pCmd \in Seq(Commands) /\ cmdQueue # <<>> /\ cmdQueue \in Seq(Commands)
    BY DEF IInv, Phases, TypeOK
  <2> QED
    BY <2>1, EmptySeq DEF comp, history
<1>2. pCmd' = <<cmdQueue[1]>> /\ cmdQueue' = Tail(cmdQueue)
  BY <1>1 DEF TakeCommand
<1>3. /\ Len(cmdQueue) \in Nat /\ Len(cmdQueue) >= 1 /\ DOMAIN cmdQueue = 1 .. Len(cmdQueue)
      /\ DOMAIN cmdQueue' = 1 .. (Len(cmdQueue) - 1)
      /\ \A i \in 1 .. (Len(cmdQueue) - 1) : cmdQueue'[i] = cmdQueue[i + 1]
  BY <1>1, <1>2, EmptySeq
<1>4. pCmd' # <<>> /\ pCmd'[1] = cmdQueue[1]
  BY <1>2
<1>5. \A c \in Clients : Asking(c)' = Asking(c)
  BY <1>1 DEF Asking
<1>6. AskedByController'
  BY <1>1, <1>5 DEF AskedByController
<1>7. LastIsNew'
  <2> SUFFICES ASSUME \A c \in Clients : ~ Asking(c)
               PROVE  /\ \A i \in DOMAIN cmdQueue' : LastAt(i)' => cmdQueue'[i] = eNewState
                      /\ NoneQueued' => IF cmdQueue[1] \in StateCommands
                                        THEN cmdQueue[1] = eNewState
                                        ELSE lastAsked = eNewState
    BY <1>1, <1>4, <1>5 DEF LastIsNew
  <2>1. \A i \in DOMAIN cmdQueue' : LastAt(i)' => i + 1 \in DOMAIN cmdQueue /\ LastAt(i + 1)
    <3> SUFFICES ASSUME NEW i \in DOMAIN cmdQueue', LastAt(i)'
                 PROVE  i + 1 \in DOMAIN cmdQueue /\ LastAt(i + 1)
      OBVIOUS
    <3>1. i \in 1 .. (Len(cmdQueue) - 1) /\ cmdQueue[i + 1] \in StateCommands
      BY <1>3 DEF LastAt
    <3>2. ASSUME NEW j \in DOMAIN cmdQueue, j > i + 1 PROVE cmdQueue[j] \notin StateCommands
      <4>1. j - 1 \in DOMAIN cmdQueue' /\ j - 1 > i /\ cmdQueue'[j - 1] = cmdQueue[(j - 1) + 1]
        BY <1>3, <3>1, <3>2
      <4>2. (j - 1) + 1 = j
        BY <1>3
      <4> QED
        BY <4>1, <4>2 DEF LastAt
    <3> QED
      BY <1>3, <3>1, <3>2 DEF LastAt
  <2>2. NoneQueued' => \A j \in DOMAIN cmdQueue : j > 1 => cmdQueue[j] \notin StateCommands
    <3> SUFFICES ASSUME NoneQueued', NEW j \in DOMAIN cmdQueue, j > 1
                 PROVE  cmdQueue[j] \notin StateCommands
      OBVIOUS
    <3>1. j - 1 \in DOMAIN cmdQueue' /\ cmdQueue'[j - 1] = cmdQueue[(j - 1) + 1] /\ (j - 1) + 1 = j
      BY <1>3
    <3> QED
      BY <3>1 DEF NoneQueued
  <2>3. NoneQueued' => IF cmdQueue[1] \in StateCommands THEN LastAt(1) ELSE NoneQueued
    BY <1>3, <2>2 DEF LastAt, NoneQueued
  <2>4. 1 \in DOMAIN cmdQueue
    BY <1>3
  <2> QED
    BY <1>1, <1>3, <2>1, <2>3, <2>4 DEF LastIsNew
<1> QED
  BY <1>6, <1>7

\* A state command that is executed sets lastAsked, whatever becomes of it.
LEMMA HandleGoes ==
    ASSUME IInv, GoesInv, Handle
    PROVE  GoesInv'
<1>1. pCmd # <<>> /\ pCmd' = <<>> /\ UNCHANGED <<client, msg, cmdQueue, eNewState>>
  <2>1. Len(pCmd) = 1
    BY DEF Handle, IInv, Phases
  <2>2. pCmd # <<>>
    BY ONLY <2>1
  <2> QED
    BY <2>2 DEF Handle
<1>2. lastAsked' = IF pCmd[1] \in StateCommands THEN pCmd[1] ELSE lastAsked
  BY DEF Handle
<1>3. AskedByController'
  BY <1>1 DEF GoesInv, AskedByController, Asking
<1>4. LastIsNew'
  BY <1>1, <1>2 DEF GoesInv, LastIsNew, LastAt, NoneQueued, Asking
<1> QED
  BY <1>3, <1>4 DEF GoesInv

\* The other steps change neither commands nor states.
LEMMA OtherGoes ==
    ASSUME IInv, GoesInv,
           \/ \E c \in Clients : Post(c)
           \/ Lifetime \/ ThreadStarts \/ Pend \/ Check \/ UNCHANGED vars
    PROVE  GoesInv'
<1>1. UNCHANGED <<cmdQueue, pCmd, msg, eNewState, lastAsked>>
  <2>1. thread = "exited" => cmdQueue = <<>>
    BY DEF IInv, Phases
  <2> QED
    BY <2>1 DEF Post, Lifetime, CreateThread, ThreadCreated, OrderExit, Wake, Join, ThreadStarts,
                Pend, Check, vars, comp, history
<1>2. \A d \in Clients : Asking(d)' = Asking(d)
  BY <1>1 DEF Post, Lifetime, CreateThread, ThreadCreated, OrderExit, Wake, Join, ThreadStarts,
              Pend, Check, vars, Asking, IInv, TypeOK
<1> QED
  BY <1>1, <1>2 DEF GoesInv, AskedByController, LastIsNew, LastAt, NoneQueued

LEMMA StepGoes == ASSUME IInv, GoesInv, [Next]_vars PROVE GoesInv'
BY SendGoes, PushGoes, PopGoes, HandleGoes, OtherGoes DEF Next, Call, CommandThread

(***************************************************************************)
(* With one thread that sends state commands, and any number that send     *)
(* others, eNewState is the state last asked of the command thread         *)
(* whenever no command is under way, whether or not it got there.          *)
(***************************************************************************)
THEOREM NewStateFollowsCommands == Spec => []NewStateIsLastAsked
<1>1. IInv /\ GoesInv => NewStateIsLastAsked
  <2> SUFFICES ASSUME IInv, GoesInv, Unfinished = 0 PROVE eNewState = lastAsked
    BY DEF NewStateIsLastAsked
  <2>1. Len(cmdQueue) = 0 /\ Len(pCmd) = 0 /\ Cardinality(Pushing) = 0
    BY Lengths, Counts DEF IInv, Accounted, Unfinished
  <2>2. cmdQueue = <<>> /\ pCmd = <<>> /\ Pushing = {}
    BY <2>1, EmptySeq, Counts DEF IInv, TypeOK
  <2>3. NoneQueued /\ \A c \in Clients : ~ Asking(c)
    BY <2>2 DEF NoneQueued, Asking, Pushing
  <2> QED
    BY <2>2, <2>3 DEF GoesInv, LastIsNew
<1>2. IInv /\ GoesInv /\ [Next]_vars => GoesInv'
  BY StepGoes
<1> QED
  BY <1>1, <1>2, InitGoes, Invariance, PTL DEF Spec
===============================================================================
