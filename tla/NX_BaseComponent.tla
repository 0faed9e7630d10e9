--------------------------- MODULE NX_BaseComponent ---------------------------
(***************************************************************************)
(* components/base/NX_OMXBaseComponent.c: how commands get from the        *)
(* threads of the client to the command thread, from the start of that     *)
(* thread in OMX_ComponentInit to its end in ComponentDeInit.              *)
(*                                                                         *)
(* cmdQueue is used by the rules of BoundedFifo and hSemCmd by those of    *)
(* CountingSemaphore, which NX_Queue and NX_Semaphore implement.  What a   *)
(* command does is left to the component (NX_VidDec, NX_VidEnc); here it   *)
(* is executed in one step, and a transition may be refused or fail.       *)
(***************************************************************************)
EXTENDS Integers, Sequences, FiniteSets

CONSTANTS Clients,         \* threads of the client
          Controller,      \* the one that sends state commands
          StateCommands,   \* OMX_CommandStateSet, by the state asked for
          OtherCommands,
          LoadedState,     \* the state a component starts in
          QueueMax,        \* NX_MAX_QUEUE_ELEMENT: room of cmdQueue, maximum of hSemCmd
          MaxUnfinished,   \* the clients keep at most so many commands unfinished
          MaxSent          \* bound: so many commands are sent

(***************************************************************************)
(* One command fewer than the queue takes: hSemCmd needs room for the post *)
(* of ComponentDeInit.                                                     *)
(***************************************************************************)
ASSUME CommandAssumption ==
    /\ IsFiniteSet(Clients)
    /\ LoadedState \in StateCommands
    /\ StateCommands \cap OtherCommands = {}
    /\ QueueMax \in Nat /\ MaxUnfinished \in Nat /\ MaxSent \in Nat
    /\ MaxUnfinished < QueueMax

VARIABLES cmdQueue, hSemCmd, hSemCmdWait, eCmdThreadCmd,
          eNewState, eCurState,
          life,      \* where OMX_ComponentInit or ComponentDeInit is
          thread,    \* where the command thread is
          client,    \* where each client is in NX_BaseSendCommand
          msg,       \* the command each client is sending
          pCmd,      \* <<>>, or the command being executed
          sent,      \* number of commands sent
          accepted,  \* the commands that got into the queue, in that order
          done,      \* the commands executed, in that order
          lastAsked  \* the state the last state command executed asked for

comp == <<eNewState, eCurState>>
history == <<sent, accepted, done, lastAsked>>

vars == <<cmdQueue, hSemCmd, hSemCmdWait, eCmdThreadCmd, comp, life, thread,
          client, msg, pCmd, history>>

Commands == StateCommands \cup OtherCommands

Init == /\ cmdQueue = <<>> /\ hSemCmd = 0 /\ hSemCmdWait = 0
        /\ eCmdThreadCmd = "RUN"
        /\ eNewState = LoadedState /\ eCurState = LoadedState
        /\ life = "create" /\ thread = "none"
        /\ client = [c \in Clients |-> "out"]
        /\ msg = [c \in Clients |-> LoadedState]
        /\ pCmd = <<>>
        /\ sent = 0 /\ accepted = <<>> /\ done = <<>> /\ lastAsked = LoadedState

\* NX_PostSem on a counter with the given maximum.
Posted(value, max) == IF value < max THEN value + 1 ELSE value
-------------------------------------------------------------------------------
\* OMX_ComponentInit: pthread_create ...
CreateThread == /\ life = "create"
                /\ life' = "wait" /\ thread' = "start"
                /\ UNCHANGED <<cmdQueue, hSemCmd, hSemCmdWait, eCmdThreadCmd, comp,
                               client, msg, pCmd, history>>

\* ... and NX_PendSem(hSemCmdWait): the component exists when its thread runs.
ThreadCreated == /\ life = "wait" /\ hSemCmdWait > 0
                 /\ hSemCmdWait' = hSemCmdWait - 1
                 /\ life' = "up"
                 /\ UNCHANGED <<cmdQueue, hSemCmd, eCmdThreadCmd, comp, thread,
                                client, msg, pCmd, history>>

\* The commands that were sent and not executed.
Unfinished == sent - Len(done)

\* NX_BaseSendCommand sets eNewState, without a lock ...
SendCommand(c, m) ==
    /\ life = "up" /\ client[c] = "out"
    /\ sent < MaxSent /\ Unfinished < MaxUnfinished
    /\ m \in StateCommands => c = Controller
    /\ eNewState' = IF m \in StateCommands THEN m ELSE eNewState
    /\ client' = [client EXCEPT ![c] = "push"]
    /\ msg' = [msg EXCEPT ![c] = m]
    /\ sent' = sent + 1
    /\ UNCHANGED <<cmdQueue, hSemCmd, hSemCmdWait, eCmdThreadCmd, eCurState, life,
                   thread, pCmd, accepted, done, lastAsked>>

\* ... pushes the command and does not look at the answer ...
Push(c) ==
    /\ client[c] = "push"
    /\ client' = [client EXCEPT ![c] = "post"]
    /\ IF Len(cmdQueue) < QueueMax
       THEN /\ cmdQueue' = Append(cmdQueue, msg[c])
            /\ accepted' = Append(accepted, msg[c])
       ELSE UNCHANGED <<cmdQueue, accepted>>
    /\ UNCHANGED <<hSemCmd, hSemCmdWait, eCmdThreadCmd, comp, life, thread, msg,
                   pCmd, sent, done, lastAsked>>

\* ... and posts hSemCmd.
Post(c) ==
    /\ client[c] = "post"
    /\ client' = [client EXCEPT ![c] = "out"]
    /\ hSemCmd' = Posted(hSemCmd, QueueMax)
    /\ UNCHANGED <<cmdQueue, hSemCmdWait, eCmdThreadCmd, comp, life, thread, msg,
                   pCmd, history>>

\* ComponentDeInit, when no call of the client is under way: the order ...
OrderExit == /\ life = "up" /\ \A c \in Clients : client[c] = "out"
             /\ eCmdThreadCmd' = "EXIT"
             /\ life' = "wake"
             /\ UNCHANGED <<cmdQueue, hSemCmd, hSemCmdWait, comp, thread, client,
                            msg, pCmd, history>>

\* Not the code: only hSemCmdWait is posted.
CommandNotPosted == hSemCmd

\* The token that tells the thread to look at the order.
CommandPosted == Posted(hSemCmd, QueueMax)

\* ... both posts ...
Wake == /\ life = "wake"
        /\ hSemCmdWait' = Posted(hSemCmdWait, 1)
        /\ hSemCmd' = CommandPosted
        /\ life' = "join"
        /\ UNCHANGED <<cmdQueue, eCmdThreadCmd, comp, thread, client, msg, pCmd, history>>

\* ... pthread_join, and the queue and the semaphores are destroyed.
Join == /\ life = "join" /\ thread = "exited"
        /\ life' = "gone"
        /\ cmdQueue' = <<>>
        /\ UNCHANGED <<hSemCmd, hSemCmdWait, eCmdThreadCmd, comp, thread, client,
                       msg, pCmd, history>>
-------------------------------------------------------------------------------
\* NX_BaseCommandThread.
ThreadStarts == /\ thread = "start"
                /\ hSemCmdWait' = Posted(hSemCmdWait, 1)
                /\ thread' = "pend"
                /\ UNCHANGED <<cmdQueue, hSemCmd, eCmdThreadCmd, comp, life, client,
                               msg, pCmd, history>>

Pend == /\ thread = "pend" /\ hSemCmd > 0
        /\ hSemCmd' = hSemCmd - 1
        /\ thread' = "check"
        /\ UNCHANGED <<cmdQueue, hSemCmdWait, eCmdThreadCmd, comp, life, client, msg,
                       pCmd, history>>

\* Not the code: the thread leaves with commands in the queue.
LeavesAtOnce == eCmdThreadCmd # "RUN"

\* The test of the order and of the unlocked count.
Leaves == eCmdThreadCmd # "RUN" /\ cmdQueue = <<>>

Check == /\ thread = "check"
         /\ thread' = IF Leaves THEN "exited" ELSE "pop"
         /\ UNCHANGED <<cmdQueue, hSemCmd, hSemCmdWait, eCmdThreadCmd, comp, life,
                        client, msg, pCmd, history>>

\* Not the code: the newest command first.
NewestFirst == /\ pCmd' = <<cmdQueue[Len(cmdQueue)]>>
               /\ cmdQueue' = SubSeq(cmdQueue, 1, Len(cmdQueue) - 1)

\* The oldest command first.
TakeCommand == /\ pCmd' = <<Head(cmdQueue)>>
               /\ cmdQueue' = Tail(cmdQueue)

\* NX_PopQueue; the thread leaves when there is nothing.
Pop == /\ thread = "pop"
       /\ IF cmdQueue = <<>>
          THEN thread' = "exited" /\ UNCHANGED <<cmdQueue, pCmd>>
          ELSE thread' = "handle" /\ TakeCommand
       /\ UNCHANGED <<hSemCmd, hSemCmdWait, eCmdThreadCmd, comp, life, client, msg,
                      history>>

\* Where a command leaves the component.  A transition that is not supported,
\* or fails on its way, leaves it where it was, and nobody is told.
Outcomes(m) == {eCurState} \cup (StateCommands \cap {m})

\* cbCmdProcedure, which ignores the result.
Handle == /\ thread = "handle"
          /\ eCurState' \in Outcomes(pCmd[1])
          /\ lastAsked' = IF pCmd[1] \in StateCommands THEN pCmd[1] ELSE lastAsked
          /\ done' = done \o pCmd
          /\ pCmd' = <<>>
          /\ thread' = "pend"
          /\ UNCHANGED <<cmdQueue, hSemCmd, hSemCmdWait, eCmdThreadCmd, eNewState,
                         life, client, msg, sent, accepted>>

Call == \E c \in Clients :
          \/ \E m \in Commands : SendCommand(c, m)
          \/ Push(c) \/ Post(c)

Lifetime == CreateThread \/ ThreadCreated \/ OrderExit \/ Wake \/ Join

CommandThread == ThreadStarts \/ Pend \/ Check \/ Pop \/ Handle

Next == Call \/ Lifetime \/ CommandThread

Spec == Init /\ [][Next]_vars

(***************************************************************************)
(* Calls that began end, and every command the component executes ends     *)
(* (CommandsComplete of NX_VidDec).  Nobody has to send a command or to    *)
(* free the component.                                                     *)
(***************************************************************************)
FairSpec == /\ Spec
            /\ \A c \in Clients : WF_vars(Push(c) \/ Post(c))
            /\ WF_vars(CreateThread \/ ThreadCreated \/ Wake \/ Join)
            /\ WF_vars(CommandThread)
-------------------------------------------------------------------------------
TypeOK ==
    /\ cmdQueue \in Seq(Commands)
    /\ hSemCmd \in 0 .. QueueMax /\ hSemCmdWait \in 0 .. 1
    /\ eCmdThreadCmd \in {"RUN", "EXIT"}
    /\ eNewState \in StateCommands /\ eCurState \in StateCommands
    /\ life \in {"create", "wait", "up", "wake", "join", "gone"}
    /\ thread \in {"none", "start", "pend", "check", "pop", "handle", "exited"}
    /\ client \in [Clients -> {"out", "push", "post"}]
    /\ msg \in [Clients -> Commands]
    /\ pCmd \in Seq(Commands) /\ Len(pCmd) <= 1
    /\ sent \in Nat /\ accepted \in Seq(Commands) /\ done \in Seq(Commands)
    /\ lastAsked \in StateCommands

(***************************************************************************)
(* Every command that entered the queue is executed once, and in the order *)
(* in which they entered (NX_OMXBaseComponent.c:98, 510-522); none is left *)
(* behind when the queue is destroyed.                                     *)
(***************************************************************************)
InOrder == accepted = done \o pCmd \o cmdQueue

(***************************************************************************)
(* The command thread leaves only when ComponentDeInit wants it to, and    *)
(* not before it has executed every command: neither the test at           *)
(* NX_OMXBaseComponent.c:505 nor a pop that finds nothing (line 510) ends  *)
(* it early.                                                               *)
(***************************************************************************)
LeavesLast == thread = "exited" => /\ life \in {"join", "gone"}
                                   /\ cmdQueue = <<>> /\ pCmd = <<>>
                                   /\ Len(done) = sent

(***************************************************************************)
(* When nothing is under way eNewState, which EmptyThisBuffer and          *)
(* FillThisBuffer look at, is the state the command thread was last asked  *)
(* for, although it is set by the client, without a lock and before the    *)
(* command is queued (NX_OMXBaseComponent.c:93-96).  It needs a single     *)
(* thread that sends state commands.  It is not eCurState: a transition    *)
(* that was refused or failed leaves eNewState with the state the          *)
(* component did not go to (CompletedIsReached of NX_VidDec).              *)
(***************************************************************************)
NewStateIsLastAsked == Unfinished = 0 => eNewState = lastAsked

(***************************************************************************)
(* ComponentDeInit returns: the thread it joins finds a token and leaves   *)
(* (NX_OMXVideoDecoder.c:241-244).                                         *)
(***************************************************************************)
DeInitReturns == life = "wake" ~> life = "gone"
===============================================================================
