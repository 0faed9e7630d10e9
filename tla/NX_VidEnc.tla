------------------------------- MODULE NX_VidEnc -------------------------------
(***************************************************************************)
(* components/video/coda960_video_encoder: the OpenMAX video encoder       *)
(* component, with the entry points it takes from NX_OMXBaseComponent.c    *)
(* and the encoder half of the VPU library.                                *)
(*                                                                         *)
(* The client has a thread for each port, and one that sends commands and  *)
(* waits for each to complete; the component has the command thread and    *)
(* the buffer thread.  Unlike in the decoder both of these pend on         *)
(* hBufCtrlSem, so that semaphore is the one of NX_Semaphore, step by      *)
(* step; hBufChangeSem and hBufAllocSem have one pender each and are used  *)
(* by the rules of CountingSemaphore.                                      *)
(*                                                                         *)
(* A buffer header is identified with its slot.  Ports are never disabled: *)
(* see PortCommand.  Data, sizes and time stamps are left out.             *)
(***************************************************************************)
EXTENDS Integers, Sequences, FiniteSets

CONSTANTS
    InBuffers, OutBuffers,  \* slots 0 .. nBufferCountActual-1 of the two ports
    MaxChange,  \* maximum of hBufChangeSem, VIDDEC_NUM_PORT*1024
    MaxAlloc,   \* maximum of hBufAllocSem, 16
    QueueMax,   \* NX_OMX_MAX_BUF, the length of the buffer queues
    Modulus,    \* of an unsigned semaphore value: 2^32 in the code
    Scenarios   \* ways the component may be used, see the fields below

Ports == {"in", "out"}
States == {"Loaded", "Idle", "Executing", "Pause", "Invalid"}
CommandNames == {"StateSet", "Flush", "PortDisable", "PortEnable", "MarkBuffer"}
Commands == [cmd : CommandNames, arg : States \cup Ports \cup {"all"}]

ScenarioType ==
    [script : Seq(SUBSET Commands),  \* its n-th command is one of the n-th set
     ends : BOOLEAN,     \* the client may set OMX_BUFFERFLAG_EOS
     header : BOOLEAN,   \* the VPU has a sequence header for the stream
     ahead : BOOLEAN,    \* the client has two output buffers with the component
                         \* before it gives an input buffer
     eager : BOOLEAN,    \* it goes on filling output buffers
     openFails : BOOLEAN,    \* the VPU driver may fail while it is opened,
     encodeFails : BOOLEAN,  \* and while it encodes,
     imageFails : BOOLEAN]   \* and the memory of the image may not be had

ASSUME VidEncAssumption ==
    /\ IsFiniteSet(InBuffers) /\ IsFiniteSet(OutBuffers)
    /\ InBuffers \cap OutBuffers = {}
    /\ MaxAlloc \in Nat \ {0} /\ QueueMax \in Nat \ {0}
    /\ MaxChange \in Nat /\ QueueMax < MaxChange
    /\ Modulus \in Nat /\ 1 < Modulus
    /\ Scenarios \subseteq ScenarioType

VARIABLES
    eCurState, eNewState,       \* NX_BASECOMPONENTTYPE
    scenario,                   \* the scenario, with the rest of its script
    cmd, cmdPc,                 \* <<>> or the command waiting; place of the
                                \* command thread
    eCmdBufThread, bufPc,       \* order to the buffer thread, its place
    hBufCtrlSem, pending,       \* value, and where its two penders are in
                                \* NX_PendSem
    hBufChangeSem,              \* value, NULL if not created
    hBufAllocSem,
    pBuffers,                   \* [Ports -> slots that hold a header]
    call,                       \* [Ports -> <<>> or the call of that thread]
    pBufQueue,                  \* [Ports -> queued buffers]
    eosFlag,                    \* headers with OMX_BUFFERFLAG_EOS
    hVpuCodec, hCSCMem,         \* "NULL", "open"
    seqBufSize,                 \* TRUE: there is a sequence header
    bSendCodecSpecificInfo,
    lent,                       \* [buffer -> times handed to the component
                                \* minus times handed back]
    lost,                       \* buffers the component will not hand back
    fault                       \* what the program died of, or "none"

clientVars == <<eNewState, scenario, cmd>>
commandVars == <<eCurState, cmdPc>>
threadVars == <<eCmdBufThread, bufPc>>
ctrlVars == <<hBufCtrlSem, pending>>
portVars == <<hBufAllocSem, pBuffers>>
bufferVars == <<pBufQueue, lent, lost>>
streamVars == <<hVpuCodec, hCSCMem, seqBufSize, bSendCodecSpecificInfo>>

dataVars == <<portVars, call, bufferVars, eosFlag, streamVars, fault>>

vars == <<clientVars, commandVars, threadVars, ctrlVars, hBufChangeSem, dataVars>>

NULL == -1

Slots(p) == IF p = "in" THEN InBuffers ELSE OutBuffers
Buffers == InBuffers \cup OutBuffers

\* NX_CreateSem(0, 1), pended on by two threads.
Ctrl == INSTANCE NX_Semaphore WITH Penders <- {"command", "buffer"}, InitValue <- 0,
                                   MaxValue <- 1, nValue <- hBufCtrlSem, pc <- pending

\* OMX_ComponentInit.
Init == /\ eCurState = "Loaded" /\ eNewState = "Loaded"
        /\ scenario \in Scenarios
        /\ cmd = <<>> /\ cmdPc = "idle"
        /\ eCmdBufThread = "PAUSE" /\ bufPc = "none"
        /\ Ctrl!Init
        /\ hBufChangeSem = NULL /\ hBufAllocSem = 0
        /\ pBuffers = [p \in Ports |-> {}]
        /\ call = [p \in Ports |-> <<>>]
        /\ pBufQueue = [p \in Ports |-> <<>>]
        /\ eosFlag = {}
        /\ hVpuCodec = "NULL" /\ hCSCMem = "NULL"
        /\ seqBufSize = FALSE /\ bSendCodecSpecificInfo = FALSE
        /\ lent = [b \in Buffers |-> 0] /\ lost = {}
        /\ fault = "none"
-------------------------------------------------------------------------------
\* After a fault the program is gone.
Running == fault = "none"

NoCalls == \A p \in Ports : call[p] = <<>>

\* No command is waiting or being executed.
Quiet == cmd = <<>> /\ cmdPc = "idle"

\* No command but a flush is waiting or being executed.
Settled == cmdPc = "idle" /\ \A i \in 1 .. Len(cmd) : cmd[i].cmd = "Flush"

\* The client exchanges buffers once it was told of Executing or Pause.
Streaming == Settled /\ eNewState \in {"Executing", "Pause"}

\* NX_PostSem on a counter with the given maximum.
Posted(value, max) == IF value < max THEN value + 1 ELSE value

\* NX_PostSem(hBufChangeSem) stops the program at its assert if there is none.
PostChange == /\ hBufChangeSem' = IF hBufChangeSem = NULL THEN NULL
                                  ELSE Posted(hBufChangeSem, MaxChange)
              /\ fault' = IF hBufChangeSem = NULL THEN "semaphore" ELSE "none"

\* hBufMutex is held at this place only; every other critical section is a
\* single action.
MutexFree == bufPc # "work"

\* EmptyBufferDone or FillBufferDone for each occurrence in the sequence q.
HandBack(q) ==
    lent' = [b \in Buffers |-> lent[b] - Cardinality({i \in 1 .. Len(q) : q[i] = b})]
-------------------------------------------------------------------------------
\* Calls of the client.

\* NX_BaseSendCommand: commands one after the other.
SendCommand(c) == /\ Running /\ Quiet
                  /\ c.cmd # "Flush" => NoCalls
                  /\ scenario' = [scenario EXCEPT !.script = Tail(@)]
                  /\ eNewState' = IF c.cmd = "StateSet" THEN c.arg ELSE eNewState
                  /\ cmd' = <<c>>
                  /\ UNCHANGED <<commandVars, threadVars, ctrlVars, hBufChangeSem,
                                 dataVars>>

\* The slot b of port p gets a header; the last free one posts hBufAllocSem.
UseBuffer(p, b) ==
    /\ Running
    /\ eCurState = "Loaded" /\ eNewState = "Idle"
    /\ b \in Slots(p) \ pBuffers[p]
    /\ pBuffers' = [pBuffers EXCEPT ![p] = @ \cup {b}]
    /\ hBufAllocSem' = IF pBuffers'[p] = Slots(p) THEN Posted(hBufAllocSem, MaxAlloc)
                       ELSE hBufAllocSem
    /\ UNCHANGED <<clientVars, commandVars, threadVars, ctrlVars, hBufChangeSem,
                   call, bufferVars, eosFlag, streamVars, fault>>

\* NX_BaseAllocateBuffer differs in who brings the memory.
AllocateBuffer(p, b) == UseBuffer(p, b)

\* NX_BaseFreeBuffer: the client frees what it holds.
FreeBuffer(p, b) ==
    /\ Running
    /\ eNewState = "Loaded"
    /\ b \in pBuffers[p] /\ lent[b] <= 0
    /\ pBuffers' = [pBuffers EXCEPT ![p] = @ \ {b}]
    /\ hBufAllocSem' = IF pBuffers'[p] = {} THEN Posted(hBufAllocSem, MaxAlloc)
                       ELSE hBufAllocSem
    /\ UNCHANGED <<clientVars, commandVars, threadVars, ctrlVars, hBufChangeSem,
                   call, bufferVars, eosFlag, streamVars, fault>>

\* The state test of NX_BaseEmptyThisBuffer and NX_BaseFillThisBuffer.
Accepts == IF eCurState = eNewState
           THEN eCurState \in {"Idle", "Pause", "Executing"}
           ELSE ~ (eNewState = "Idle" /\ eCurState \in {"Executing", "Pause"})

\* Neither takes a lock: the state is tested ...
Call(p, b) == /\ Running /\ Streaming /\ call[p] = <<>>
              /\ b \in pBuffers[p] /\ lent[b] <= 0
              /\ Accepts
              /\ call' = [call EXCEPT ![p] = <<[at |-> "push", buf |-> b]>>]
              /\ UNCHANGED <<clientVars, commandVars, threadVars, ctrlVars,
                             hBufChangeSem, portVars, bufferVars, streamVars, fault>>

\* Two of the output buffers are with the component.
Ahead == Cardinality({b \in OutBuffers : lent[b] = 1}) >= 2

EmptyThisBuffer(b) ==
    /\ Call("in", b)
    /\ scenario.ahead => Ahead
    /\ \/ eosFlag' = eosFlag \ {b}
       \/ scenario.ends /\ eosFlag' = eosFlag \cup {b}

FillThisBuffer(b) == Call("out", b) /\ UNCHANGED eosFlag

\* ... then the buffer is pushed; a full queue refuses it ...
Push(p) ==
    /\ Running /\ call[p] # <<>> /\ call[p][1].at = "push"
    /\ IF Len(pBufQueue[p]) < QueueMax
       THEN /\ pBufQueue' = [pBufQueue EXCEPT ![p] = Append(@, call[p][1].buf)]
            /\ lent' = [lent EXCEPT ![call[p][1].buf] = @ + 1]
            /\ call' = [call EXCEPT ![p] = <<[@[1] EXCEPT !.at = "post"]>>]
       ELSE /\ call' = [call EXCEPT ![p] = <<>>]
            /\ UNCHANGED <<pBufQueue, lent>>
    /\ UNCHANGED <<clientVars, commandVars, threadVars, ctrlVars, hBufChangeSem,
                   portVars, lost, eosFlag, streamVars, fault>>

\* Not the code: only input buffers are announced.
AnnouncedInputs == {"in"}

\* The ports whose buffers are announced to the buffer thread.
Announced == Ports

\* ... and hBufChangeSem is posted.
Post(p) ==
    /\ Running /\ call[p] # <<>> /\ call[p][1].at = "post"
    /\ call' = [call EXCEPT ![p] = <<>>]
    /\ IF p \in Announced THEN PostChange ELSE UNCHANGED <<hBufChangeSem, fault>>
    /\ UNCHANGED <<clientVars, commandVars, threadVars, ctrlVars, portVars,
                   bufferVars, eosFlag, streamVars>>
-------------------------------------------------------------------------------
\* The command thread (NX_BaseCommandThread, NX_VidEncCommandProc).

At(place) == Running /\ cmdPc = place
Goto(place) == cmdPc' = place

\* The command thread pops the command c.
Pop(c) == At("idle") /\ cmd = <<c>> /\ cmd' = <<>>

\* Transitions that NX_VidEncStateTransition performs.
Supported == { <<"Loaded", "Idle">>, <<"Idle", "Loaded">>, <<"Idle", "Executing">>,
               <<"Idle", "Pause">>, <<"Executing", "Idle">>, <<"Executing", "Pause">>,
               <<"Pause", "Idle">>, <<"Pause", "Executing">> }

\* For any other, and for the present state, there is an error and nothing else.
Unsupported(c) ==
    /\ Pop(c) /\ c.cmd = "StateSet"
    /\ <<eCurState, c.arg>> \notin Supported
    /\ UNCHANGED <<eNewState, scenario, commandVars, threadVars, ctrlVars,
                   hBufChangeSem, dataVars>>

\* Idle to Pause, Executing to Pause, Pause to Idle, Pause to Executing: the
\* state changes and nothing else.
Switch(c) == /\ Pop(c) /\ c.cmd = "StateSet"
             /\ <<eCurState, c.arg>> \in Supported
             /\ "Pause" \in {eCurState, c.arg}
             /\ eCurState' = c.arg
             /\ UNCHANGED <<eNewState, scenario, cmdPc, threadVars, ctrlVars,
                            hBufChangeSem, dataVars>>

\* Not the code: the buffer thread is not stopped and no buffer is returned.
StopSkipped == "paused"

\* The first step of Executing to Idle.
StopBegins == "pause"

\* The transitions that take several steps, and the first of these.
FirstPlace(from, to) == CASE <<from, to>> = <<"Loaded", "Idle">> -> "allocIn"
                          [] <<from, to>> = <<"Idle", "Loaded">> -> "close"
                          [] <<from, to>> = <<"Idle", "Executing">> -> "run"
                          [] <<from, to>> = <<"Executing", "Idle">> -> StopBegins
                          [] OTHER -> "idle"

BeginTransition(c) ==
    /\ Pop(c) /\ c.cmd = "StateSet"
    /\ FirstPlace(eCurState, c.arg) # "idle"
    /\ Goto(FirstPlace(eCurState, c.arg))
    /\ UNCHANGED <<eNewState, scenario, eCurState, threadVars, ctrlVars,
                   hBufChangeSem, dataVars>>

\* Not the code: nothing is waited for.
PendAllocNot(here, next) == /\ At(here) /\ Goto(next)
                            /\ UNCHANGED <<clientVars, eCurState, threadVars, ctrlVars,
                                           hBufChangeSem, dataVars>>

\* Loaded to Idle: NX_PendSem(hBufAllocSem) once for each port ...
PendAlloc(here, next) ==
    /\ At(here) /\ Goto(next)
    /\ hBufAllocSem > 0 /\ hBufAllocSem' = hBufAllocSem - 1
    /\ UNCHANGED <<clientVars, eCurState, threadVars, ctrlVars, hBufChangeSem,
                   pBuffers, call, bufferVars, eosFlag, streamVars, fault>>

WaitAllocIn == PendAlloc("allocIn", "allocOut")
WaitAllocOut == PendAlloc("allocOut", "open")

\* NX_V4l2EncInit has the driver write the sequence header; it may have none.
SequenceHeader == scenario.header

\* ... open the VPU (EncoderOpen) ...
EncoderOpen ==
    /\ At("open") /\ Goto("create")
    /\ hVpuCodec' = "open" /\ seqBufSize' = SequenceHeader
    /\ UNCHANGED <<clientVars, eCurState, threadVars, ctrlVars, hBufChangeSem, portVars,
                   call, bufferVars, eosFlag, hCSCMem, bSendCodecSpecificInfo, fault>>

\* ... which may fail at NX_V4l2EncOpen or later; the transition ends here ...
EncoderOpenFails ==
    /\ At("open") /\ Goto("idle")
    /\ scenario.openFails /\ hVpuCodec' \in {"NULL", "open"}
    /\ UNCHANGED <<clientVars, eCurState, threadVars, ctrlVars, hBufChangeSem, portVars,
                   call, bufferVars, eosFlag, hCSCMem, seqBufSize,
                   bSendCodecSpecificInfo, fault>>

\* ... create the semaphores and the buffer thread ...
CreateBufThread ==
    /\ At("create") /\ Goto("handshake")
    /\ eCmdBufThread' = "PAUSE" /\ bufPc' = "born"
    /\ hBufCtrlSem' = 0 /\ hBufChangeSem' = 0
    /\ UNCHANGED <<clientVars, eCurState, pending, dataVars>>

\* The command thread is in NX_PendSem(hBufCtrlSem), and goes on to next after.
CommandPends(here, next) ==
    /\ At(here)
    /\ Ctrl!PendCall("command") \/ Ctrl!Pend("command")
    /\ Goto(IF pending'["command"] = "out" THEN next ELSE here)
    /\ UNCHANGED <<clientVars, eCurState, threadVars, hBufChangeSem, dataVars>>

\* ... wait until the thread has started, and be in Idle.
AwaitThread == CommandPends("handshake", "created")

\* A transition that ends in the given state.
Reach(here, state) == /\ At(here) /\ Goto("idle")
                      /\ eCurState' = state
                      /\ UNCHANGED <<clientVars, threadVars, ctrlVars, hBufChangeSem,
                                     dataVars>>

Created == Reach("created", "Idle")

\* Idle to Loaded: close the VPU and free the image (EncoderClose) ...
EncoderClose ==
    /\ At("close") /\ Goto("exit")
    /\ hVpuCodec' = "NULL" /\ hCSCMem' = "NULL"
    /\ UNCHANGED <<clientVars, eCurState, threadVars, ctrlVars, hBufChangeSem, portVars,
                   call, bufferVars, eosFlag, seqBufSize, bSendCodecSpecificInfo, fault>>

\* ... order the buffer thread to exit, wake it, join it ...
Order(here, order, next) ==
    /\ At(here) /\ Goto(next)
    /\ eCmdBufThread' = order
    /\ UNCHANGED <<clientVars, eCurState, bufPc, ctrlVars, hBufChangeSem, dataVars>>

Wake(here, next) ==
    /\ At(here) /\ Goto(next)
    /\ PostChange
    /\ UNCHANGED <<clientVars, eCurState, threadVars, ctrlVars, portVars, call,
                   bufferVars, eosFlag, streamVars>>

PostCtrl(here, next) ==
    /\ At(here) /\ Goto(next)
    /\ Ctrl!PostSem
    /\ UNCHANGED <<clientVars, eCurState, threadVars, hBufChangeSem, dataVars>>

OrderExit == Order("exit", "EXIT", "wake")
WakeForExit == Wake("wake", "release")
Release == PostCtrl("release", "join")

JoinBufThread == /\ At("join") /\ bufPc = "exited"
                 /\ Goto("freeIn")
                 /\ bufPc' = "none"
                 /\ hBufCtrlSem' = 0 /\ hBufChangeSem' = NULL
                 /\ UNCHANGED <<clientVars, eCurState, eCmdBufThread, pending, dataVars>>

\* ... wait until the buffers are freed and be in Loaded.
WaitFreeIn == PendAlloc("freeIn", "freeOut")
WaitFreeOut == PendAlloc("freeOut", "freed")
Freed == Reach("freed", "Loaded")

\* Idle to Executing: order the buffer thread to run and let it.
OrderRun == Order("run", "RUN", "start")
Start == PostCtrl("start", "started")
Started == Reach("started", "Executing")

\* Executing to Idle: order it to pause, wake it with a dummy event ...
OrderPause == Order("pause", "PAUSE", "dummy")
WakeForPause == Wake("dummy", "return")

\* ... return the buffers, under hBufMutex ...
ReturnBuffers == /\ At("return") /\ MutexFree
                 /\ Goto("paused")
                 /\ pBufQueue' = [p \in Ports |-> <<>>]
                 /\ HandBack(pBufQueue["in"] \o pBufQueue["out"])
                 /\ UNCHANGED <<clientVars, eCurState, threadVars, ctrlVars,
                                hBufChangeSem, portVars, call, lost, eosFlag,
                                streamVars, fault>>

\* ... and be in Idle.
Paused == Reach("paused", "Idle")

\* OMX_CommandFlush, under hBufMutex.
Flush(c) ==
    /\ Pop(c) /\ c.cmd = "Flush" /\ MutexFree
    /\ LET Meant(p) == c.arg \in {p, "all"}
           Back(p) == IF Meant(p) THEN pBufQueue[p] ELSE <<>>
       IN /\ pBufQueue' = [p \in Ports |-> IF Meant(p) THEN <<>> ELSE pBufQueue[p]]
          /\ HandBack(Back("in") \o Back("out"))
    /\ UNCHANGED <<eNewState, scenario, commandVars, threadVars, ctrlVars, hBufChangeSem,
                   portVars, call, lost, eosFlag, streamVars, fault>>

\* PortDisable of one port is answered with OMX_ErrorBadPortIndex: the test
\* lets only OMX_ALL pass.
BadPort(c) == /\ Pop(c) /\ c.cmd = "PortDisable" /\ c.arg # "all"
              /\ UNCHANGED <<eNewState, scenario, commandVars, threadVars, ctrlVars,
                             hBufChangeSem, dataVars>>

(***************************************************************************)
(* PortDisable of all ports, PortEnable, MarkBuffer: pend on hBufCtrlSem   *)
(* and post it again, nothing else.  In Loaded there is no such semaphore  *)
(* and NX_PendSem stops at its assert.                                     *)
(***************************************************************************)
PortCommand(c) ==
    /\ Pop(c) /\ c.cmd \in {"PortDisable", "PortEnable", "MarkBuffer"}
    /\ c.cmd = "PortDisable" => c.arg = "all"
    /\ IF hBufChangeSem = NULL THEN fault' = "semaphore" /\ UNCHANGED cmdPc
                               ELSE Goto("take") /\ UNCHANGED fault
    /\ UNCHANGED <<eNewState, scenario, eCurState, threadVars, ctrlVars, hBufChangeSem,
                   portVars, call, bufferVars, eosFlag, streamVars>>

TakeCtrl == CommandPends("take", "put")
PutCtrl == PostCtrl("put", "idle")
-------------------------------------------------------------------------------
\* The buffer thread (NX_VidEncBufferMgmtThread).

BufGoto(from, to) == Running /\ bufPc = from /\ bufPc' = to

\* "Thread Creation Semaphore".
BufBorn == /\ BufGoto("born", "outer")
           /\ Ctrl!PostSem
           /\ UNCHANGED <<clientVars, commandVars, eCmdBufThread, hBufChangeSem, dataVars>>

\* The test of the outer loop.
BufOuter == /\ BufGoto("outer", IF eCmdBufThread = "EXIT" THEN "exited" ELSE "ctrl")
            /\ UNCHANGED <<clientVars, commandVars, eCmdBufThread, ctrlVars,
                           hBufChangeSem, dataVars>>

\* NX_PendSem(hBufCtrlSem), "Thread Control Semaphore".
BufPendCtrl ==
    /\ Ctrl!PendCall("buffer") \/ Ctrl!Pend("buffer")
    /\ BufGoto("ctrl", IF pending'["buffer"] = "out" THEN "inner" ELSE "ctrl")
    /\ UNCHANGED <<clientVars, commandVars, eCmdBufThread, hBufChangeSem, dataVars>>

\* The test of the inner loop.
BufInner == /\ BufGoto("inner", IF eCmdBufThread = "RUN" THEN "change" ELSE "outer")
            /\ UNCHANGED <<clientVars, commandVars, eCmdBufThread, ctrlVars,
                           hBufChangeSem, dataVars>>

\* NX_PendSem(hBufChangeSem).
BufPendChange == /\ BufGoto("change", "woken")
                 /\ hBufChangeSem > 0
                 /\ hBufChangeSem' = hBufChangeSem - 1
                 /\ UNCHANGED <<clientVars, commandVars, eCmdBufThread, ctrlVars, dataVars>>

\* Ordered to stop meanwhile: wait for the control semaphore.
BufStop == /\ eCmdBufThread # "RUN"
           /\ BufGoto("woken", "outer")
           /\ UNCHANGED <<clientVars, commandVars, eCmdBufThread, ctrlVars,
                          hBufChangeSem, dataVars>>

\* Otherwise go on ...
BufRun == /\ eCmdBufThread = "RUN"
          /\ BufGoto("woken", "lock")
          /\ UNCHANGED <<clientVars, commandVars, eCmdBufThread, ctrlVars,
                         hBufChangeSem, dataVars>>

\* ... and take hBufMutex.
BufLock == /\ BufGoto("lock", "work") /\ MutexFree
           /\ UNCHANGED <<clientVars, commandVars, eCmdBufThread, ctrlVars,
                          hBufChangeSem, dataVars>>

CanEncode == \A p \in Ports : pBufQueue[p] # <<>>

NothingToEncode == /\ ~ CanEncode
                   /\ BufGoto("work", "inner")
                   /\ UNCHANGED <<clientVars, commandVars, eCmdBufThread, ctrlVars,
                                  hBufChangeSem, dataVars>>
-------------------------------------------------------------------------------
\* EncodeFrame, with the mutex held since BufLock.

Input == Head(pBufQueue["in"])
Output == Head(pBufQueue["out"])

\* It pops one input buffer, and n output buffers if there are so many.
Takes(n) == pBufQueue' = [pBufQueue EXCEPT !["in"] = Tail(@),
                                          !["out"] = SubSeq(@, n + 1, Len(@))]

Encoding(n) ==
    /\ BufGoto("work", "inner")
    /\ Takes(n)
    /\ UNCHANGED <<clientVars, commandVars, eCmdBufThread, ctrlVars, hBufChangeSem,
                   portVars, call, eosFlag, hVpuCodec, seqBufSize>>

\* Not the code: the output buffer is dropped.
EndOfStreamBack == <<Input>>

\* The buffers handed back at the end of the stream.
EosBack == <<Input, Output>>

\* The end of the stream: the output buffer is marked, nothing is encoded.
EncodeEos == /\ CanEncode /\ Input \in eosFlag
             /\ Encoding(1)
             /\ HandBack(EosBack)
             /\ UNCHANGED <<lost, hCSCMem, bSendCodecSpecificInfo, fault>>

\* The sequence header is sent once.
HeaderDue == ~ bSendCodecSpecificInfo /\ seqBufSize

\* The output buffer with the header, if it is sent.
HeaderBuffer == IF HeaderDue THEN <<Output>> ELSE <<>>

\* The output buffer for the picture.  The header has taken one; if there is
\* no other the pop fails and pOutBuf keeps the one with the header.
pOutBuf == IF HeaderDue /\ Len(pBufQueue["out"]) > 1 THEN pBufQueue["out"][2] ELSE Output

\* NX_AllocateVideoMemory for the image of the first picture, which is kept.
\* If it fails the function goes on without, and tries again with the next one.
ImageOutcomes == IF hCSCMem = "NULL" /\ scenario.imageFails THEN {"open", "NULL"}
                                                           ELSE {"open"}

\* What all paths on which a picture gets to the VPU have in common.
EncodePicture == /\ CanEncode /\ Input \notin eosFlag
                 /\ hCSCMem' \in ImageOutcomes
                 /\ Encoding(1 + Len(HeaderBuffer))
                 /\ bSendCodecSpecificInfo' = (bSendCodecSpecificInfo \/ HeaderDue)

\* Without a VPU handle NX_V4l2EncEncodeFrame dereferences NULL.  Without an
\* image it is given encIn.pImage as that is on the stack, and may succeed.
EncodeFrame == /\ EncodePicture
               /\ fault' = IF hVpuCodec = "NULL" THEN "codec" ELSE "none"
               /\ HandBack(HeaderBuffer \o <<Input, pOutBuf>>)
               /\ UNCHANGED lost

\* NX_V4l2EncEncodeFrame fails: neither buffer is handed back.  Without an
\* image the program may also end there.
EncodeFails == /\ EncodePicture
               /\ hVpuCodec = "open" /\ (scenario.encodeFails \/ hCSCMem' = "NULL")
               /\ HandBack(HeaderBuffer)
               /\ lost' = lost \cup ({Input, pOutBuf} \ {HeaderBuffer[i] : i \in DOMAIN HeaderBuffer})
               /\ fault' \in IF hCSCMem' = "NULL" THEN {"none", "image"} ELSE {"none"}

\* NX_MapVideoMemory fails, which is reported and ignored: with the input
\* buffer popped and no output buffer yet, CopyImage writes to memory that is
\* not mapped, and the program ends here.
EncodeUnmapped ==
    /\ Running /\ bufPc = "work" /\ CanEncode /\ Input \notin eosFlag
    /\ hCSCMem = "NULL" /\ scenario.imageFails /\ hCSCMem' = "open"
    /\ Takes(0)
    /\ lost' = lost \cup {Input}
    /\ fault' = "image"
    /\ UNCHANGED <<clientVars, commandVars, threadVars, ctrlVars, hBufChangeSem, portVars,
                   call, lent, eosFlag, hVpuCodec, seqBufSize, bSendCodecSpecificInfo>>
-------------------------------------------------------------------------------
\* The commands the client may send next.
Offered == UNION {scenario.script[i] : i \in DOMAIN scenario.script \cap {1}}

Client == \/ \E c \in Offered : SendCommand(c)
          \/ \E p \in Ports : \E b \in Slots(p) :
               UseBuffer(p, b) \/ AllocateBuffer(p, b) \/ FreeBuffer(p, b)
          \/ \E b \in InBuffers : EmptyThisBuffer(b)
          \/ \E b \in OutBuffers : FillThisBuffer(b)
          \/ \E p \in Ports : Push(p) \/ Post(p)

ToIdle == \/ WaitAllocIn \/ WaitAllocOut \/ EncoderOpen \/ EncoderOpenFails
          \/ CreateBufThread \/ AwaitThread \/ Created
ToLoaded == \/ EncoderClose \/ OrderExit \/ WakeForExit \/ Release \/ JoinBufThread
            \/ WaitFreeIn \/ WaitFreeOut \/ Freed
ToExecuting == OrderRun \/ Start \/ Started
BackToIdle == OrderPause \/ WakeForPause \/ ReturnBuffers \/ Paused

CommandThread == \/ \E i \in DOMAIN cmd :
                      \/ Unsupported(cmd[i]) \/ Switch(cmd[i]) \/ BeginTransition(cmd[i])
                      \/ Flush(cmd[i]) \/ BadPort(cmd[i]) \/ PortCommand(cmd[i])
                 \/ ToIdle \/ ToLoaded \/ ToExecuting \/ BackToIdle
                 \/ TakeCtrl \/ PutCtrl

BufThread == \/ BufBorn \/ BufOuter \/ BufPendCtrl \/ BufInner \/ BufPendChange
             \/ BufStop \/ BufRun \/ BufLock \/ NothingToEncode
             \/ EncodeEos \/ EncodeFrame \/ EncodeFails \/ EncodeUnmapped

Next == Client \/ CommandThread \/ BufThread

Spec == Init /\ [][Next]_vars

(***************************************************************************)
(* The operating system runs all threads; in a transition out of or into   *)
(* Loaded the client brings or frees the buffers, as OpenMAX obliges it    *)
(* to.  An eager client fills whatever output buffer it gets back.         *)
(***************************************************************************)
BuffersBrought == \E p \in Ports : \E b \in Slots(p) : UseBuffer(p, b) \/ FreeBuffer(p, b)
Fairness == /\ WF_vars(CommandThread) /\ WF_vars(BufThread)
            /\ WF_vars(BuffersBrought)
            /\ \A p \in Ports : WF_vars(Push(p) \/ Post(p))
            /\ WF_vars(scenario.eager /\ \E b \in OutBuffers : FillThisBuffer(b))

FairSpec == Spec /\ Fairness
-------------------------------------------------------------------------------
Places == {"idle", "allocIn", "allocOut", "open", "create", "handshake", "created", "close",
           "exit", "wake", "release", "join", "freeIn", "freeOut", "freed", "run", "start",
           "started", "pause", "dummy", "return", "paused", "take", "put"}
BufPlaces == {"none", "born", "outer", "ctrl", "inner", "change", "woken", "lock", "work", "exited"}

CallType(p) == [at : {"push", "post"}, buf : Slots(p)]

TypeOK ==
    /\ {eCurState, eNewState} \subseteq States \cup Ports \cup {"all"}
    /\ scenario \in ScenarioType
    /\ cmd \in Seq(Commands) /\ Len(cmd) <= 1 /\ cmdPc \in Places
    /\ eCmdBufThread \in {"PAUSE", "RUN", "EXIT"} /\ bufPc \in BufPlaces
    /\ Ctrl!TypeOK
    /\ hBufChangeSem \in {NULL} \cup 0 .. MaxChange /\ hBufAllocSem \in 0 .. MaxAlloc
    /\ \A p \in Ports : /\ pBuffers[p] \subseteq Slots(p)
                        /\ call[p] \in {<<>>} \cup {<<c>> : c \in CallType(p)}
                        /\ pBufQueue[p] \in Seq(Slots(p)) /\ Len(pBufQueue[p]) <= QueueMax
    /\ DOMAIN pBuffers = Ports /\ DOMAIN call = Ports /\ DOMAIN pBufQueue = Ports
    /\ eosFlag \subseteq InBuffers
    /\ {hVpuCodec, hCSCMem} \subseteq {"NULL", "open"}
    /\ seqBufSize \in BOOLEAN /\ bSendCodecSpecificInfo \in BOOLEAN
    /\ lent \in [Buffers -> Int] /\ lost \subseteq Buffers
    /\ fault \in {"none", "semaphore", "codec", "image"}

Pairs == IF Len(pBufQueue["in"]) < Len(pBufQueue["out"]) THEN Len(pBufQueue["in"])
                                                         ELSE Len(pBufQueue["out"])

\* The rounds of the buffer thread that are still to come: events in
\* hBufChangeSem, announcements under way, and the round it is in.
Coming == hBufChangeSem + Cardinality({p \in Ports : call[p] # <<>> /\ call[p][1].at = "post"})
            + (IF bufPc \in {"woken", "lock", "work"} THEN 1 ELSE 0)

(***************************************************************************)
(* hBufChangeSem is the "Buffer status change semaphore ( Event )"         *)
(* (NX_OMXBaseComponent.h:124).  One event makes for one round, and a      *)
(* round encodes at most one picture: while the buffer thread is to run,   *)
(* there is a round to come for every pair of an input and an output       *)
(* buffer, whatever the order in which they came and who took them away.   *)
(***************************************************************************)
NoWorkForgotten == hBufChangeSem # NULL /\ eCmdBufThread = "RUN" => Pairs <= Coming

Queued == UNION {{pBufQueue[p][i] : i \in DOMAIN pBufQueue[p]} : p \in Ports}

(***************************************************************************)
(* Every buffer is with the client or with the component, not with both:   *)
(* what the client handed over and did not get back is queued, or one of   *)
(* those EncodeFrame drops when the VPU or the memory of the image fails,  *)
(* and each buffer is handed back once for each time it was handed over.   *)
(***************************************************************************)
HeldByOneSide == \A b \in Buffers : lent[b] = IF b \in Queued \cup lost THEN 1 ELSE 0

(***************************************************************************)
(* No call ends the program: a semaphore exists when it is used, and the   *)
(* VPU handle when the buffer thread encodes, though the command thread    *)
(* closes it before it joins that thread (comment                          *)
(* NX_OMXVideoEncoder.c:909-911).  Only where the memory of the image may  *)
(* fail does EncodeFrame end it, as both failures are ignored there.       *)
(***************************************************************************)
NoFault == fault = "none" \/ (fault = "image" /\ scenario.imageFails)

(***************************************************************************)
(* The component keeps the promise of OMXComponent, but for the buffers it *)
(* loses when the VPU fails.                                               *)
(***************************************************************************)
Component ==
    INSTANCE OMXComponent WITH state <- eCurState, enabled <- [p \in Ports |-> TRUE],
                               registered <- pBuffers["in"] \cup pBuffers["out"],
                               lent <- [b \in Buffers |-> IF b \in lost THEN 0 ELSE lent[b]]
KeepsItsPromise == Component!Spec

(***************************************************************************)
(* "Wait thread creation" (NX_OMXVideoEncoder.c:892) ends once the buffer  *)
(* thread runs: every command is executed to its end.                      *)
(***************************************************************************)
CommandsComplete == ~ Quiet ~> Quiet \/ fault # "none"

(***************************************************************************)
(* Every input buffer is encoded and handed back in Executing, to a client *)
(* that goes on filling output buffers, as long as the VPU works.          *)
(***************************************************************************)
InputHeld(b) == lent[b] = 1 /\ eCurState = "Executing" /\ Quiet /\ scenario.eager
InputReturned == \A b \in InBuffers : InputHeld(b) ~> lent[b] = 0 \/ ~ Quiet \/ lost # {}
===============================================================================
