------------------------------- MODULE MC_VidEnc -------------------------------
(***************************************************************************)
(* Scenarios of NX_VidEnc for TLC.                                         *)
(***************************************************************************)
EXTENDS NX_VidEnc

Cmd(name, arg) == [cmd |-> name, arg |-> arg]
StateSet(s) == {Cmd("StateSet", s)}

Up == <<StateSet("Idle"), StateSet("Executing")>>
Down == <<StateSet("Idle"), StateSet("Loaded")>>

Flushes == {Cmd("Flush", p) : p \in Ports \cup {"all"}}

\* Commands that pend on hBufCtrlSem, and one that is refused.
PortCommands == {Cmd("PortDisable", "all"), Cmd("MarkBuffer", "in")}

Plain == [script |-> Up \o Down, ends |-> FALSE, header |-> FALSE, ahead |-> FALSE,
          eager |-> FALSE, openFails |-> FALSE, encodeFails |-> FALSE,
          imageFails |-> FALSE]

\* A session with a flush, a port command, or Executing left and entered again.
Session == Up \o <<Flushes \cup PortCommands \cup StateSet("Idle") \cup StateSet("Pause"),
                   StateSet("Executing")>> \o Down

\* A session with a flush, a port command or a restart; a second one, with a
\* sequence header; a VPU that cannot be opened; and a client that goes on up to
\* the end of the stream, with a VPU that fails and an image that cannot be had.
EncoderScenarios ==
    {[Plain EXCEPT !.script = Session],
     [Plain EXCEPT !.script = Up \o Down \o Up, !.header = TRUE, !.ahead = TRUE],
     [Plain EXCEPT !.script = Down, !.openFails = TRUE],
     [Plain EXCEPT !.script = Up, !.ends = TRUE, !.eager = TRUE, !.encodeFails = TRUE,
                   !.imageFails = TRUE]}

StartScenarios == {[Plain EXCEPT !.script = Up]}

\* In no run (README, "Divergences"): NoFault is violated.
PausedScenarios == {[Plain EXCEPT !.script = Up \o <<StateSet("Pause")>> \o Down]}
===============================================================================
