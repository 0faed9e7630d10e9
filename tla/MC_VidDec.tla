------------------------------- MODULE MC_VidDec -------------------------------
(***************************************************************************)
(* Scenarios of NX_VidDec for TLC: a script lists the commands one after   *)
(* the other, each a choice from a set.                                    *)
(***************************************************************************)
EXTENDS NX_VidDec, TLC

StateSet(s) == [cmd |-> "StateSet", arg |-> s]
FlushCmd(p) == [cmd |-> "Flush", arg |-> p]
Disable(p) == [cmd |-> "PortDisable", arg |-> p]
Enable(p) == [cmd |-> "PortEnable", arg |-> p]

Flushes == {FlushCmd("in"), FlushCmd("out"), FlushCmd("all")}

\* From Loaded to Executing, and back.
Up == <<{StateSet("Idle")}, {StateSet("Executing")}>>
Down == <<{StateSet("Idle")}, {StateSet("Loaded")}>>

\* One session with a flush or two before its end.
Session == Up \o <<Flushes, Flushes>> \o Down

\* One session, stopped at any moment.
PlainSession == Up \o Down

\* Two sessions, one after the other.
TwoSessions == PlainSession \o PlainSession

\* A session in which both ports are disabled and enabled again.
Reconfigured == Up \o <<{Disable("all")}, {Enable("all")}>> \o Down

\* A session in which the output port is disabled and enabled again.
OutputReenabled == Up \o <<{Disable("out")}, {Enable("out")}>> \o Down

\* A session that begins with a transition the component does not support, and
\* has a pause and a command to stay in the same state.
PausedSession == <<{StateSet("Pause"), StateSet("Executing")}>> \o Up
             \o <<{StateSet("Pause")}, {StateSet("Pause")}, {StateSet("Executing")}>> \o Down

\* Streaming stopped, or flushed, and started again without leaving Idle.
FlushOrStop == Up \o <<{StateSet("Idle"), FlushCmd("out")}, {StateSet("Executing")}>> \o Down

\* Streaming stopped and started again without leaving Idle.
StopAndGo == Up \o <<{StateSet("Idle")}, {StateSet("Executing")}>> \o Down

\* The scenarios.
Plain == [script |-> PlainSession, payloads |-> {"config", "frame"}, spsFound |-> {"same"},
          overlap |-> {}, patient |-> TRUE, eager |-> FALSE, tidy |-> FALSE, thumb |-> FALSE,
          vpuFails |-> FALSE]

\* Two flushes; both ports disabled and enabled, also after a new picture size.
TidyScenarios ==
    {[Plain EXCEPT !.script = Session, !.tidy = TRUE],
     [Plain EXCEPT !.script = Reconfigured, !.spsFound = {"none", "same", "new"},
                   !.payloads = {"frame"}, !.tidy = TRUE]}

StreamEnds == {"frame", "eosFrame", "eos"}

\* The end of the stream, a pause, thumbnail mode, a client that fills output
\* buffers while it changes the state, and a careless client of a failing VPU.
UntidyScenarios ==
    {[Plain EXCEPT !.payloads = StreamEnds],
     [Plain EXCEPT !.script = PausedSession],
     [Plain EXCEPT !.script = TwoSessions, !.payloads = StreamEnds, !.thumb = TRUE],
     [Plain EXCEPT !.overlap = {"out"}],
     [Plain EXCEPT !.script = FlushOrStop, !.patient = FALSE, !.vpuFails = TRUE,
                   !.payloads = {"frame", "eosFrame"}, !.spsFound = {"none", "same"}]}

\* The output port alone is disabled and enabled.
ReenabledScenarios == {[Plain EXCEPT !.script = OutputReenabled, !.tidy = TRUE,
                                     !.payloads = {"frame"}]}

\* In no run (README, "Divergences"): NoFault is violated.
RestartScenarios == {[Plain EXCEPT !.script = StopAndGo]}

\* A failing VPU with a flush or a restart, and a stream that ends.
LiveScenarios ==
    {[Plain EXCEPT !.payloads = {"frame"}, !.patient = FALSE, !.vpuFails = TRUE],
     [Plain EXCEPT !.script = Up, !.payloads = StreamEnds, !.eager = TRUE]}

\* A client that sends more input than there are output buffers, in no
\* run either: InputReturned is violated.
EagerScenarios == {[Plain EXCEPT !.script = Up, !.eager = TRUE]}

Symmetry == Permutations(InBuffers) \cup Permutations(OutBuffers) \cup Permutations(Images)
===============================================================================
