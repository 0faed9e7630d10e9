------------------------------- MODULE NX_VidDec -------------------------------
(***************************************************************************)
(* components/video/coda960_video_decoder: the OpenMAX video decoder       *)
(* component, with the AVC decoder as its DecodeFrame, as built for Linux  *)
(* (ANDROID undefined, so bInterlaced is always 0).                        *)
(*                                                                         *)
(* Three threads share the component:                                      *)
(*   - the client's, calling SendCommand, Use/Allocate/FreeBuffer,         *)
(*     EmptyThisBuffer and FillThisBuffer;                                 *)
(*   - the command thread, which executes one command after the other;     *)
(*   - the buffer thread, which decodes.                                   *)
(* A stretch of code under hBufMutex is one action, except the body of the *)
(* buffer thread, which is two ("work" and "eos") with the mutex held in   *)
(* between.  Semaphores and queues are used by the rules of                *)
(* CountingSemaphore and BoundedFifo, which NX_Semaphore and NX_Queue      *)
(* implement; each semaphore here has one thread that pends on it.         *)
(*                                                                         *)
(* A buffer header is identified with its slot in pInputBuffers or         *)
(* pOutputBuffers.  Data, sizes and time stamps are left out: a payload is *)
(* what the decoder distinguishes about it.                                *)
(***************************************************************************)
EXTENDS Integers, Sequences, FiniteSets

CONSTANTS
    InBuffers, OutBuffers,  \* slots 0 .. nBufferCountActual-1 of the two ports
    Images, NoImage,        \* frame buffers of the VPU; NoImage: none
    MinFrames,   \* NX_V4L2DEC_SEQ_OUT.minBuffers
    MaxChange,   \* maximum of hBufChangeSem, VPUDEC_VID_NUM_PORT*1024
    MaxAlloc,    \* maximum of hBufAllocSem, 16
    MaxUsable,   \* bound: the client adds no output buffer beyond this value of
                 \* outUsableBuffers
    QueueMax,    \* NX_OMX_MAX_BUF, the length of the buffer queues
    Scenarios    \* ways the component may be used, see the fields below

Ports == {"in", "out"}
States == {"Loaded", "Idle", "Executing", "Pause", "Invalid"}
CommandNames == {"StateSet", "Flush", "PortDisable", "PortEnable"}
Commands == [cmd : CommandNames, arg : States \cup Ports \cup {"all"}]
PayloadKinds == {"config", "frame", "eosFrame", "eos"}

\* A scenario: what the client does, what is in the stream, how the VPU behaves.
ScenarioType ==
    [script : Seq(SUBSET Commands),   \* its n-th command is one of the n-th set
     payloads : SUBSET PayloadKinds,  \* what the client puts into input buffers
     spsFound : SUBSET {"none", "same", "new"},  \* what avc_get_video_size may find
     overlap : SUBSET Ports,  \* ports whose buffers a thread of their own exchanges,
                          \* which does not wait for commands to complete; no
                          \* command does then, but that for Loaded
     patient : BOOLEAN,   \* it flushes and ends the stream only once the VPU has
                          \* been initialised
     eager : BOOLEAN,     \* it goes on filling output buffers
     tidy : BOOLEAN,      \* it leaves Executing only when it has all output
                          \* buffers, which it flushes out before
     thumb : BOOLEAN,     \* it has set bEnableThumbNailMode
     vpuFails : BOOLEAN]  \* the calls of the VPU driver may fail

ASSUME VidDecAssumption ==
    /\ IsFiniteSet(InBuffers) /\ IsFiniteSet(OutBuffers)
    /\ InBuffers \cap OutBuffers = {}
    /\ NoImage \notin Images
    /\ Scenarios \subseteq ScenarioType
    /\ MinFrames \in Nat
    /\ MaxChange \in Nat \ {0} /\ MaxAlloc \in Nat \ {0} /\ QueueMax \in Nat \ {0}
    /\ MaxUsable \in Nat

VARIABLES
    eCurState, eNewState,            \* NX_BASECOMPONENTTYPE
    scenario,                        \* the scenario, with the rest of its script
    cmdQueue, cmdPc,                 \* commands waiting, place of the command
                                     \* thread
    told,                            \* state the client was last told it is in
    eCmdBufThread, bufPc,            \* order to the buffer thread, its place
    hBufCtrlSem, hBufChangeSem,      \* semaphore values, NULL if not created
    hBufAllocSem,
    bEnabled, bPopulated,            \* [Ports -> BOOLEAN], stdPortDef
    pBuffers,                        \* [Ports -> slots that hold a header]
    outUsableBuffers,
    pInputPortQueue,                 \* queued input buffers with their payload
    etb,                             \* <<>>, or the EmptyThisBuffer under way
    pOutputPortQueue,
    outBufferUseFlag,                \* the slots whose flag is 1
    outBufferValidFlag,              \* [OutBuffers -> image + 1, here the image]
    curOutBuffers,
    bStartEoS, bInitialized, bNeedSequenceData, minRequiredFrameBuffer,
    DecodeFrame,                     \* TRUE: the function pointer is set
    hVpuCodec,                       \* "NULL", "open", "ready": initialised
    displayed,                       \* images the VPU handed out (external)
    drained,                         \* the VPU has no picture left (external)
    lent,                            \* [buffer -> times handed to the component
                                     \* minus times handed back]
    fault                            \* what the program died of, or "none"

requestVars == <<eNewState, cmdQueue, scenario>>
commandVars == <<eCurState, cmdPc, told>>
threadVars == <<eCmdBufThread, bufPc>>
bufferSems == <<hBufCtrlSem, hBufChangeSem>>
portVars == <<hBufAllocSem, bEnabled, bPopulated, pBuffers, outUsableBuffers>>
inVars == <<pInputPortQueue, etb>>
outVars == <<pOutputPortQueue, outBufferUseFlag, outBufferValidFlag, curOutBuffers>>
streamVars == <<bStartEoS, bInitialized, bNeedSequenceData, minRequiredFrameBuffer>>
vpuVars == <<DecodeFrame, hVpuCodec, displayed, drained>>

dataVars == <<portVars, inVars, outVars, streamVars, vpuVars, lent, fault>>

vars == <<requestVars, commandVars, threadVars, bufferSems, dataVars>>

NULL == -1

bEnableThumbNailMode == scenario.thumb

Slots(p) == IF p = "in" THEN InBuffers ELSE OutBuffers

\* OMX_ComponentInit, and a client that knows the component is in Loaded.
Init == /\ eCurState = "Loaded" /\ eNewState = "Loaded" /\ told = "Loaded"
        /\ cmdQueue = <<>> /\ cmdPc = "idle" /\ scenario \in Scenarios
        /\ eCmdBufThread = "PAUSE" /\ bufPc = "none"
        /\ hBufCtrlSem = NULL /\ hBufChangeSem = NULL /\ hBufAllocSem = 0
        /\ bEnabled = [p \in Ports |-> TRUE]
        /\ bPopulated = [p \in Ports |-> FALSE]
        /\ pBuffers = [p \in Ports |-> {}]
        /\ outUsableBuffers = 0
        /\ pInputPortQueue = <<>> /\ etb = <<>> /\ pOutputPortQueue = <<>>
        /\ outBufferUseFlag = {}
        /\ outBufferValidFlag = [b \in OutBuffers |-> NoImage]
        /\ curOutBuffers = 0
        /\ bStartEoS = FALSE /\ bInitialized = FALSE /\ bNeedSequenceData = TRUE
        /\ minRequiredFrameBuffer = 1
        /\ DecodeFrame = FALSE /\ hVpuCodec = "NULL" /\ displayed = {} /\ drained = FALSE
        /\ lent = [b \in InBuffers \cup OutBuffers |-> 0]
        /\ fault = "none"
-------------------------------------------------------------------------------
\* After a fault the program is gone.
Running == fault = "none"

\* Rules of the client.

\* No command is waiting or being executed.
Quiet == cmdQueue = <<>> /\ cmdPc = "idle"

\* No state change and no PortDisable is waiting or being executed.
Settled == /\ cmdPc = "idle"
           /\ \A i \in 1 .. Len(cmdQueue) : cmdQueue[i].cmd \in {"Flush", "PortEnable"}

\* The client has buffers exchanged: it asked for Executing or Pause, knows that
\* Loaded is left, and the port is enabled.  With overlap, a thread of the client
\* goes on until the component is in Idle.
Streaming(p) ==
    /\ told # "Loaded"
    /\ \/ eNewState \in {"Executing", "Pause"} /\ (p \in scenario.overlap \/ (bEnabled[p] /\ Settled))
       \/ p \in scenario.overlap /\ eNewState = "Idle" /\ eCurState \in {"Executing", "Pause"}

\* The client changes the buffers of a port on the way out of and into Loaded,
\* and while the port is disabled.
Populating(p) == \/ (eCurState = "Loaded" /\ eNewState = "Idle")
                 \/ ("Loaded" \notin {eCurState, eNewState} /\ ~ bEnabled[p])
Depopulating(p) == eNewState = "Loaded" \/ ~ bEnabled[p]
-------------------------------------------------------------------------------
\* NX_PostSem on a counter with the given maximum.
Posted(value, max) == IF value < max THEN value + 1 ELSE value

\* NX_PostSem(NULL) stops the program at its assert.
FaultOf(sem) == IF sem = NULL THEN "semaphore" ELSE "none"

PostChange == /\ hBufChangeSem' = IF hBufChangeSem = NULL THEN NULL
                                  ELSE Posted(hBufChangeSem, MaxChange)

\* hBufMutex is held at these places only; every other critical section is a
\* single action.
MutexFree == bufPc \notin {"work", "eos"} /\ cmdPc # "spin"

\* EmptyBufferDone or FillBufferDone for each occurrence in the sequence q, and
\* once for each buffer of the set S.
HandBack(q, S) ==
    lent' = [b \in DOMAIN lent |->
               lent[b] - Cardinality({i \in 1 .. Len(q) : q[i] = b})
                       - (IF b \in S THEN 1 ELSE 0)]

Headers(q) == [i \in 1 .. Len(q) |-> q[i].buf]

\* Not the code: the image is not given back.
ClrDspNothing(image) == UNCHANGED displayed

(***************************************************************************)
(* NX_V4l2DecClrDspFlag(image) gives an image back to the VPU.  Before     *)
(* NX_V4l2DecInit hFrameBuffer[] is empty and the call dereferences NULL.  *)
(***************************************************************************)
ClrDspFlag(image) == displayed' = IF hVpuCodec = "ready" THEN displayed \ {image}
                                  ELSE displayed
ClrDspFault(image) == IF image # NoImage /\ hVpuCodec = "open" THEN "frame" ELSE "none"
-------------------------------------------------------------------------------
\* Calls of the client.

\* NX_BaseSendCommand: the queue is long enough for the script.
SendCommand(c) == /\ Running
                  /\ scenario.script # <<>>
                  /\ c \in Head(scenario.script)
                  /\ (scenario.overlap # {} /\ c.arg # "Loaded") \/ Quiet
                  /\ ("in" \in scenario.overlap /\ c.arg # "Loaded") \/ etb = <<>>
                  /\ (scenario.patient /\ c.cmd = "Flush") => bInitialized
                  /\ (scenario.tidy /\ eNewState = "Executing" /\ c.cmd = "StateSet") =>
                       \A b \in OutBuffers : lent[b] = 0
                  /\ scenario' = [scenario EXCEPT !.script = Tail(@)]
                  /\ eNewState' = IF c.cmd = "StateSet" THEN c.arg ELSE eNewState
                  /\ cmdQueue' = Append(cmdQueue, c)
                  /\ UNCHANGED <<commandVars, threadVars, bufferSems, dataVars>>

\* The slot b of port p gets a header; the last free one populates the port.
Register(p, b) ==
    /\ Running
    /\ b \in Slots(p) \ pBuffers[p]
    /\ p = "out" => outUsableBuffers < MaxUsable
    /\ pBuffers' = [pBuffers EXCEPT ![p] = @ \cup {b}]
    /\ outUsableBuffers' = IF p = "out" THEN outUsableBuffers + 1 ELSE outUsableBuffers
    /\ IF pBuffers'[p] = Slots(p)
       THEN /\ bPopulated' = [bPopulated EXCEPT ![p] = TRUE]
            /\ hBufAllocSem' = Posted(hBufAllocSem, MaxAlloc)
       ELSE UNCHANGED <<bPopulated, hBufAllocSem>>
    /\ UNCHANGED <<requestVars, commandVars, threadVars, bufferSems, bEnabled,
                   inVars, outVars, streamVars, vpuVars, lent, fault>>

UseBuffer(p, b) == /\ Populating(p)
                   /\ eNewState \in {"Idle", "Executing"}
                   /\ Register(p, b)

AllocateBuffer(p, b) == /\ Populating(p)
                        /\ eCurState = "Loaded" /\ eNewState = "Idle"
                        /\ Register(p, b)

\* The client frees what it holds.  In other states than Loaded and Executing
\* the call also reports OMX_ErrorPortUnpopulated, and goes on.
FreeBuffer(p, b) ==
    /\ Running /\ Depopulating(p)
    /\ b \in pBuffers[p] /\ lent[b] <= 0 /\ b \notin {etb[i].buf : i \in 1 .. Len(etb)}
    /\ pBuffers' = [pBuffers EXCEPT ![p] = @ \ {b}]
    /\ IF pBuffers'[p] = {}
       THEN /\ bPopulated' = [bPopulated EXCEPT ![p] = FALSE]
            /\ hBufAllocSem' = Posted(hBufAllocSem, MaxAlloc)
       ELSE UNCHANGED <<bPopulated, hBufAllocSem>>
    /\ UNCHANGED <<requestVars, commandVars, threadVars, bufferSems, bEnabled,
                   outUsableBuffers, inVars, outVars, streamVars, vpuVars, lent,
                   fault>>

\* Not the code: only the present state is looked at.
AcceptsByCurState == eCurState \in {"Idle", "Pause", "Executing"}

\* The state test of EmptyThisBuffer and FillThisBuffer.
Accepts == IF eCurState = eNewState
           THEN eCurState \in {"Idle", "Pause", "Executing"}
           ELSE ~ (eNewState = "Idle" /\ eCurState \in {"Executing", "Pause"})

\* NX_BaseEmptyThisBuffer takes no lock: it tests the state ...
EmptyThisBuffer(b, d) ==
    /\ Running /\ Streaming("in") /\ etb = <<>>
    /\ b \in pBuffers["in"] /\ lent[b] <= 0
    /\ (scenario.patient /\ d \in {"eos", "eosFrame"}) => bInitialized
    /\ Accepts
    /\ etb' = <<[buf |-> b, data |-> d]>>
    /\ UNCHANGED <<requestVars, commandVars, threadVars, bufferSems, portVars,
                   pInputPortQueue, outVars, streamVars, vpuVars, lent, fault>>

\* ... and pushes later.  A full queue refuses the buffer.
EmptyThisBufferPush ==
    /\ Running /\ etb # <<>>
    /\ etb' = <<>>
    /\ IF Len(pInputPortQueue) < QueueMax
       THEN /\ pInputPortQueue' = Append(pInputPortQueue, etb[1])
            /\ lent' = [lent EXCEPT ![etb[1].buf] = @ + 1]
            /\ PostChange
            /\ fault' = FaultOf(hBufChangeSem)
       ELSE UNCHANGED <<pInputPortQueue, lent, hBufChangeSem, fault>>
    /\ UNCHANGED <<requestVars, commandVars, threadVars, hBufCtrlSem, portVars,
                   outVars, streamVars, vpuVars>>

\* Thumbnail mode: the queue is all there is.
FillThumbnail(b) == /\ pOutputPortQueue' = Append(pOutputPortQueue, b)
                    /\ lent' = [lent EXCEPT ![b] = @ + 1]
                    /\ UNCHANGED <<outBufferUseFlag, outBufferValidFlag,
                                   curOutBuffers, displayed>>

\* Otherwise the buffer is flagged too, and the image it showed goes back.
FillFrame(b) == /\ pOutputPortQueue' = Append(pOutputPortQueue, b)
                /\ ClrDspFlag(outBufferValidFlag[b])
                /\ outBufferValidFlag' = [outBufferValidFlag EXCEPT ![b] = NoImage]
                /\ outBufferUseFlag' = outBufferUseFlag \cup {b}
                /\ curOutBuffers' = curOutBuffers + 1
                /\ lent' = [lent EXCEPT ![b] = @ + 1]

\* The image the buffer still shows when FillThisBuffer takes it.
Shown(b) == IF bEnableThumbNailMode \/ Len(pOutputPortQueue) >= QueueMax
            THEN NoImage ELSE outBufferValidFlag[b]

\* A full queue refuses the buffer: the thumbnail mode answers
\* OMX_ErrorUndefined, the other one calls FillBufferDone at once.
FillThisBuffer(b) ==
    /\ Running /\ Streaming("out")
    /\ b \in pBuffers["out"] /\ lent[b] <= 0
    /\ MutexFree
    /\ Accepts
    /\ IF Len(pOutputPortQueue) >= QueueMax THEN UNCHANGED <<outVars, displayed,
                                                             lent>>
       ELSE IF bEnableThumbNailMode THEN FillThumbnail(b) ELSE FillFrame(b)
    /\ PostChange
    /\ fault' = IF ClrDspFault(Shown(b)) # "none" THEN "frame" ELSE FaultOf(hBufChangeSem)
    /\ UNCHANGED <<requestVars, commandVars, threadVars, hBufCtrlSem, portVars,
                   inVars, streamVars, DecodeFrame, hVpuCodec, drained>>
-------------------------------------------------------------------------------
\* The command thread (NX_BaseCommandThread, NX_VidDec_CommandProc).

At(place) == Running /\ cmdPc = place
Goto(place) == cmdPc' = place

\* The command thread pops the command c.
Pop(c) == /\ At("idle") /\ cmdQueue # <<>> /\ c = Head(cmdQueue)
          /\ cmdQueue' = Tail(cmdQueue)

\* The command is done with; StateSet is reported as complete (OMX_EventCmdComplete).
Complete(state) == Goto("idle") /\ told' = state

\* OMX_CommandStateSet to the state the component is in: OMX_ErrorSameState.
SameState(c) == /\ Pop(c) /\ c.cmd = "StateSet" /\ c.arg = eCurState
                /\ UNCHANGED <<eNewState, scenario, commandVars, threadVars, bufferSems,
                               dataVars>>

\* Transitions that NX_VidDec_StateTransition performs.
Supported == { <<"Loaded", "Idle">>, <<"Idle", "Loaded">>, <<"Idle", "Executing">>,
               <<"Idle", "Pause">>, <<"Executing", "Idle">>, <<"Executing", "Pause">>,
               <<"Pause", "Idle">>, <<"Pause", "Executing">> }

\* For any other, it returns an error, which NX_VidDec_CommandProc ignores.
Unsupported(c) ==
    /\ Pop(c) /\ c.cmd = "StateSet"
    /\ c.arg # eCurState /\ <<eCurState, c.arg>> \notin Supported
    /\ Complete(c.arg)
    /\ UNCHANGED <<eNewState, scenario, eCurState, threadVars, bufferSems, dataVars>>

\* Idle to Pause, Executing to Pause, Pause to Idle, Pause to Executing: the
\* state changes and nothing else.
Switch(c) == /\ Pop(c) /\ c.cmd = "StateSet"
             /\ <<eCurState, c.arg>> \in Supported
             /\ "Pause" \in {eCurState, c.arg}
             /\ eCurState' = c.arg
             /\ Complete(c.arg)
             /\ UNCHANGED <<eNewState, scenario, threadVars, bufferSems, dataVars>>

\* Not the code: resuming from Pause starts like the first time.
FirstPlaceReopens(from, to) == CASE <<from, to>> = <<"Loaded", "Idle">> -> "allocIn"
                                 [] <<from, to>> = <<"Idle", "Loaded">> -> "exit"
                                 [] to = "Executing" -> "run"
                                 [] <<from, to>> = <<"Executing", "Idle">> -> "pause"
                                 [] OTHER -> "idle"

\* The transitions that take several steps, and the first of these.
FirstPlace(from, to) == CASE <<from, to>> = <<"Loaded", "Idle">> -> "allocIn"
                          [] <<from, to>> = <<"Idle", "Loaded">> -> "exit"
                          [] <<from, to>> = <<"Idle", "Executing">> -> "run"
                          [] <<from, to>> = <<"Executing", "Idle">> -> "pause"
                          [] OTHER -> "idle"

BeginTransition(c) ==
    /\ Pop(c) /\ c.cmd = "StateSet"
    /\ FirstPlace(eCurState, c.arg) # "idle"
    /\ Goto(FirstPlace(eCurState, c.arg))
    /\ UNCHANGED <<eNewState, scenario, eCurState, told, threadVars, bufferSems,
                   dataVars>>

\* Not the code: only a disabled port is waited for.
PendAllocDisabled(here, p, next) ==
    /\ At(here)
    /\ Goto(next)
    /\ IF bEnabled[p] THEN UNCHANGED hBufAllocSem
                      ELSE hBufAllocSem > 0 /\ hBufAllocSem' = hBufAllocSem - 1
    /\ UNCHANGED <<requestVars, eCurState, told, threadVars, bufferSems, bEnabled,
                   bPopulated, pBuffers, inVars, outVars, streamVars, vpuVars, lent,
                   fault>>

\* Loaded to Idle: NX_PendSem(hBufAllocSem) once for each enabled port ...
PendAlloc(here, p, next) ==
    /\ At(here)
    /\ Goto(next)
    /\ IF bEnabled[p] THEN hBufAllocSem > 0 /\ hBufAllocSem' = hBufAllocSem - 1
                      ELSE UNCHANGED hBufAllocSem
    /\ UNCHANGED <<requestVars, eCurState, told, threadVars, bufferSems, bEnabled,
                   bPopulated, pBuffers, inVars, outVars, streamVars, vpuVars, lent,
                   fault>>

WaitAllocIn == PendAlloc("allocIn", "in", "allocOut") /\ UNCHANGED outUsableBuffers
WaitAllocOut == PendAlloc("allocOut", "out", "create") /\ UNCHANGED outUsableBuffers

\* ... create the semaphores and the buffer thread ...
CreateBufThread ==
    /\ At("create")
    /\ Goto("created")
    /\ eCmdBufThread' = "PAUSE" /\ bufPc' = "born"
    /\ hBufCtrlSem' = 0 /\ hBufChangeSem' = 0
    /\ bStartEoS' = FALSE
    /\ UNCHANGED <<requestVars, eCurState, told, portVars, inVars, outVars,
                   bInitialized, bNeedSequenceData, minRequiredFrameBuffer, vpuVars,
                   lent, fault>>

\* ... and be in Idle.
Created == /\ At("created")
           /\ eCurState' = "Idle"
           /\ Complete("Idle")
           /\ UNCHANGED <<requestVars, threadVars, bufferSems, dataVars>>

\* Idle to Loaded: order the buffer thread to exit, wake it, join it ...
OrderExit == /\ At("exit")
             /\ Goto("wake")
             /\ eCmdBufThread' = "EXIT"
             /\ UNCHANGED <<requestVars, eCurState, told, bufPc, bufferSems,
                            dataVars>>

\* Not the code: hBufCtrlSem is not posted.
WakeChangeOnly == /\ At("wake")
                  /\ Goto("join")
                  /\ PostChange
                  /\ UNCHANGED <<requestVars, eCurState, told, threadVars,
                                 hBufCtrlSem, dataVars>>

WakeForExit == /\ At("wake")
               /\ Goto("join")
               /\ PostChange
               /\ hBufCtrlSem' = Posted(hBufCtrlSem, 1)
               /\ UNCHANGED <<requestVars, eCurState, told, threadVars, dataVars>>

JoinBufThread == /\ At("join") /\ bufPc = "exited"
                 /\ Goto("freeIn")
                 /\ bufPc' = "none"
                 /\ hBufCtrlSem' = NULL /\ hBufChangeSem' = NULL
                 /\ UNCHANGED <<requestVars, eCurState, told, eCmdBufThread,
                                dataVars>>

\* ... wait until the buffers are freed ...
WaitFreeIn == PendAlloc("freeIn", "in", "freeOut") /\ UNCHANGED outUsableBuffers
WaitFreeOut == PendAlloc("freeOut", "out", "close") /\ outUsableBuffers' = 0

\* ... close the codec (closeVideoCodec) and be in Loaded.
CloseVideoCodec ==
    /\ At("close")
    /\ IF hVpuCodec = "NULL" THEN UNCHANGED <<bInitialized, bNeedSequenceData>>
       ELSE bInitialized' = FALSE /\ bNeedSequenceData' = FALSE
    /\ hVpuCodec' = "NULL" /\ displayed' = {} /\ drained' = FALSE
    /\ bStartEoS' = FALSE
    /\ eCurState' = "Loaded"
    /\ Complete("Loaded")
    /\ UNCHANGED <<requestVars, threadVars, bufferSems, portVars, inVars, outVars,
                   minRequiredFrameBuffer, DecodeFrame, lent, fault>>

\* Idle to Executing: order the buffer thread to run ...
OrderRun == /\ At("run")
            /\ Goto("start")
            /\ eCmdBufThread' = "RUN"
            /\ UNCHANGED <<requestVars, eCurState, told, bufPc, bufferSems,
                           dataVars>>

\* Not the code: the state entered is the one the client recorded last.
StartAsAsked == /\ At("start")
                /\ Goto("select")
                /\ hBufCtrlSem' = Posted(hBufCtrlSem, 1)
                /\ eCurState' = eNewState
                /\ UNCHANGED <<requestVars, told, threadVars, hBufChangeSem, dataVars>>

\* ... let it, and be in Executing ...
Start == /\ At("start")
         /\ Goto("select")
         /\ hBufCtrlSem' = Posted(hBufCtrlSem, 1)
         /\ eCurState' = "Executing"
         /\ UNCHANGED <<requestVars, told, threadVars, hBufChangeSem, dataVars>>

\* ... then openVideoCodec: choose DecodeFrame ...
SelectDecoder == /\ At("select")
                 /\ Goto("open")
                 /\ DecodeFrame' = TRUE
                 /\ UNCHANGED <<requestVars, eCurState, told, threadVars,
                                bufferSems, portVars, inVars, outVars, streamVars,
                                hVpuCodec, displayed, drained, lent, fault>>

\* ... and open the VPU, whose failure goes unnoticed.
OpenVpu == /\ At("open")
           /\ Complete("Executing")
           /\ hVpuCodec' \in {"open"} \cup (IF scenario.vpuFails THEN {"NULL"} ELSE {})
           /\ displayed' = {} /\ drained' = FALSE
           /\ UNCHANGED <<requestVars, eCurState, threadVars, bufferSems, portVars,
                          inVars, outVars, streamVars, DecodeFrame, lent, fault>>

\* Not the code: the buffer thread goes on.
OrderNothing == /\ At("pause")
                /\ Goto("dummy")
                /\ UNCHANGED <<requestVars, eCurState, told, threadVars, bufferSems,
                               dataVars>>

\* Executing to Idle: order the buffer thread to pause ...
OrderPause == /\ At("pause")
              /\ Goto("dummy")
              /\ eCmdBufThread' = "PAUSE"
              /\ UNCHANGED <<requestVars, eCurState, told, bufPc, bufferSems,
                             dataVars>>

\* ... wake it with a dummy event ...
WakeForPause == /\ At("dummy")
                /\ Goto("return")
                /\ PostChange
                /\ UNCHANGED <<requestVars, eCurState, told, threadVars,
                               hBufCtrlSem, dataVars>>

\* The output buffers that are flagged or, in thumbnail mode, queued.
FlaggedQueue == IF bEnableThumbNailMode THEN pOutputPortQueue ELSE <<>>

\* Their flags are cleared; the queue is emptied in thumbnail mode only.
ClearFlags == IF bEnableThumbNailMode
              THEN pOutputPortQueue' = <<>> /\ UNCHANGED <<outBufferUseFlag,
                                                           curOutBuffers>>
              ELSE /\ outBufferUseFlag' = {}
                   /\ curOutBuffers' = curOutBuffers - Cardinality(outBufferUseFlag)
                   /\ UNCHANGED pOutputPortQueue

\* ... return the buffers, under hBufMutex ...
ReturnBuffers == /\ At("return") /\ MutexFree
                 /\ Goto("paused")
                 /\ pInputPortQueue' = <<>>
                 /\ ClearFlags
                 /\ HandBack(Headers(pInputPortQueue) \o FlaggedQueue, outBufferUseFlag)
                 /\ UNCHANGED <<requestVars, eCurState, told, threadVars,
                                bufferSems, portVars, etb, outBufferValidFlag,
                                streamVars, vpuVars, fault>>

\* ... and be in Idle.
Paused == /\ At("paused")
          /\ eCurState' = "Idle"
          /\ Complete("Idle")
          /\ UNCHANGED <<requestVars, threadVars, bufferSems, dataVars>>

\* The port p is meant by a command with the argument arg.
Meant(p, arg) == arg \in {p, "all"}

\* Not the code: the flushed input is dropped without EmptyBufferDone.
InputDropped(called) == <<>>

\* FlushVideoInputPort, if it is called.
InputIf(called) == pInputPortQueue' = IF called THEN <<>> ELSE pInputPortQueue
InputBack(called) == IF called THEN Headers(pInputPortQueue) ELSE <<>>

\* Not the code: the counter is left alone.
FlushKeepsCount == /\ pOutputPortQueue' = <<>>
                   /\ outBufferUseFlag' = {}
                   /\ UNCHANGED curOutBuffers

\* FlushVideoOutputPort empties the queue in both modes.
FlushOutput == /\ pOutputPortQueue' = <<>>
               /\ outBufferUseFlag' = {}
               /\ curOutBuffers' = curOutBuffers - Cardinality(outBufferUseFlag)

\* The command makes the VPU hand out all pictures it has.
Drains(c) == c.cmd = "Flush" /\ Meant("out", c.arg) /\ hVpuCodec = "ready"

(***************************************************************************)
(* OMX_CommandFlush.  processEOSforFlush drains the VPU: the images that   *)
(* come out are cleared at once, except in thumbnail mode.  Before         *)
(* NX_V4l2DecParseVideoCfg there is no bitstream buffer, and               *)
(* NX_V4l2DecDecodeFrame dereferences NULL.                                *)
(***************************************************************************)
Flush(c) ==
    /\ Pop(c) /\ c.cmd = "Flush" /\ MutexFree
    /\ InputIf(Meant("in", c.arg))
    /\ IF Meant("out", c.arg) THEN FlushOutput
       ELSE UNCHANGED <<pOutputPortQueue, outBufferUseFlag, curOutBuffers>>
    /\ HandBack(InputBack(Meant("in", c.arg))
                  \o (IF Meant("out", c.arg) THEN FlaggedQueue ELSE <<>>),
                IF Meant("out", c.arg) THEN outBufferUseFlag ELSE {})
    /\ bStartEoS' = FALSE
    /\ drained' = (drained \/ Drains(c))
    /\ IF Drains(c) /\ bEnableThumbNailMode
       THEN \E S \in SUBSET Images : displayed' = displayed \cup S
       ELSE UNCHANGED displayed
    /\ fault' = IF Meant("out", c.arg) /\ hVpuCodec = "open" THEN "bitstream" ELSE "none"
    /\ UNCHANGED <<eNewState, scenario, commandVars, threadVars, bufferSems, portVars,
                   etb, outBufferValidFlag, bInitialized, bNeedSequenceData,
                   minRequiredFrameBuffer, DecodeFrame, hVpuCodec>>

\* The VPU fails after it gave an image: NX_V4l2DecDecodeFrame answers
\* VID_ERR_NONE and leaves the last image in decOut, so the loop of
\* processEOSforFlush goes on for ever, under hBufMutex.
FlushSpins(c) ==
    /\ Pop(c) /\ MutexFree
    /\ scenario.vpuFails /\ Drains(c)
    /\ InputIf(Meant("in", c.arg))
    /\ HandBack(InputBack(Meant("in", c.arg)), {})
    /\ Goto("spin")
    /\ UNCHANGED <<eNewState, scenario, eCurState, told, threadVars, bufferSems,
                   portVars, etb, outVars, streamVars, vpuVars, fault>>

(***************************************************************************)
(* OMX_CommandPortDisable returns the buffers of the port.  For the output *)
(* port alone the code has a loop of its own, which clears the flags and,  *)
(* out of thumbnail mode, leaves the queue alone.                          *)
(***************************************************************************)
PortDisable(c) ==
    /\ Pop(c) /\ c.cmd = "PortDisable" /\ MutexFree
    /\ bEnabled' = [p \in Ports |-> bEnabled[p] /\ ~ Meant(p, c.arg)]
    /\ InputIf(Meant("in", c.arg))
    /\ CASE c.arg = "out" -> ClearFlags
         [] c.arg = "all" -> FlushOutput
         [] OTHER -> UNCHANGED <<pOutputPortQueue, outBufferUseFlag, curOutBuffers>>
    /\ HandBack(InputBack(Meant("in", c.arg))
                  \o (IF Meant("out", c.arg) THEN FlaggedQueue ELSE <<>>),
                IF Meant("out", c.arg) THEN outBufferUseFlag ELSE {})
    /\ outUsableBuffers' = IF c.arg = "out" THEN 0 ELSE outUsableBuffers
    /\ UNCHANGED <<eNewState, scenario, commandVars, threadVars, bufferSems,
                   hBufAllocSem, bPopulated, pBuffers, etb, outBufferValidFlag,
                   streamVars, vpuVars, fault>>

\* OMX_CommandPortEnable: hBufCtrlSem is posted whatever the state.
PortEnable(c) ==
    /\ Pop(c) /\ c.cmd = "PortEnable"
    /\ bEnabled' = [p \in Ports |-> bEnabled[p] \/ Meant(p, c.arg)]
    /\ hBufCtrlSem' = IF hBufCtrlSem = NULL THEN NULL ELSE Posted(hBufCtrlSem, 1)
    /\ fault' = FaultOf(hBufCtrlSem)
    /\ UNCHANGED <<eNewState, scenario, commandVars, threadVars, hBufChangeSem,
                   hBufAllocSem, bPopulated, pBuffers, outUsableBuffers, inVars,
                   outVars, streamVars, vpuVars, lent>>
-------------------------------------------------------------------------------
\* The buffer thread (NX_VidDec_BufferMgmtThread).

BufGoto(from, to) == Running /\ bufPc = from /\ bufPc' = to

\* "Thread Creation Semaphore".
BufBorn == /\ BufGoto("born", "outer")
           /\ hBufCtrlSem' = Posted(hBufCtrlSem, 1)
           /\ UNCHANGED <<requestVars, commandVars, eCmdBufThread, hBufChangeSem,
                          dataVars>>

\* The test of the outer loop.
BufOuter == /\ BufGoto("outer", IF eCmdBufThread = "EXIT" THEN "exited" ELSE "ctrl")
            /\ UNCHANGED <<requestVars, commandVars, eCmdBufThread, bufferSems,
                           dataVars>>

\* NX_PendSem(hBufCtrlSem), "Thread Control Semaphore".
BufPendCtrl == /\ BufGoto("ctrl", "inner")
               /\ hBufCtrlSem > 0
               /\ hBufCtrlSem' = hBufCtrlSem - 1
               /\ UNCHANGED <<requestVars, commandVars, eCmdBufThread,
                              hBufChangeSem, dataVars>>

\* The test of the inner loop.
BufInner == /\ BufGoto("inner", IF eCmdBufThread = "RUN" THEN "change" ELSE "outer")
            /\ UNCHANGED <<requestVars, commandVars, eCmdBufThread, bufferSems,
                           dataVars>>

\* NX_PendSem(hBufChangeSem).
BufPendChange == /\ BufGoto("change", "woken")
                 /\ hBufChangeSem > 0
                 /\ hBufChangeSem' = hBufChangeSem - 1
                 /\ UNCHANGED <<requestVars, commandVars, eCmdBufThread,
                                hBufCtrlSem, dataVars>>

\* Ordered to stop meanwhile: wait for the control semaphore.
BufStop == /\ eCmdBufThread # "RUN"
           /\ BufGoto("woken", "outer")
           /\ UNCHANGED <<requestVars, commandVars, eCmdBufThread, bufferSems,
                          dataVars>>

\* Otherwise the ports are looked at ...
BufRun == /\ eCmdBufThread = "RUN"
          /\ BufGoto("woken", "ports")
          /\ UNCHANGED <<requestVars, commandVars, eCmdBufThread, bufferSems,
                         dataVars>>

\* ... if one is disabled, the event is put back and the control semaphore
\* waited for ...
BufDisabled == /\ \E p \in Ports : ~ bEnabled[p]
               /\ BufGoto("ports", "outer")
               /\ PostChange
               /\ UNCHANGED <<requestVars, commandVars, eCmdBufThread, hBufCtrlSem,
                              dataVars>>

\* ... otherwise hBufMutex is asked for ...
BufEnabled == /\ \A p \in Ports : bEnabled[p]
              /\ BufGoto("ports", "lock")
              /\ UNCHANGED <<requestVars, commandVars, eCmdBufThread, bufferSems,
                             dataVars>>

\* ... and taken once it is free, whatever was ordered meanwhile.
BufLock == /\ MutexFree
           /\ BufGoto("lock", "work")
           /\ UNCHANGED <<requestVars, commandVars, eCmdBufThread, bufferSems,
                          dataVars>>

\* Enough output buffers to decode.
OutputReady == IF bEnableThumbNailMode THEN pOutputPortQueue # <<>>
               ELSE curOutBuffers > minRequiredFrameBuffer

CanDecode == ~ bStartEoS /\ pInputPortQueue # <<>> /\ OutputReady

\* Nothing to decode, or no decoder chosen yet (decodeVideoFrame).
NoDecoding == /\ ~ CanDecode \/ ~ DecodeFrame
              /\ BufGoto("work", "eos")
              /\ UNCHANGED <<requestVars, commandVars, eCmdBufThread, bufferSems,
                             dataVars>>
-------------------------------------------------------------------------------
\* NX_DecodeAvcFrame.

Input == Head(pInputPortQueue)

Ends == Input.data \in {"eos", "eosFrame"}

\* It pops the input buffer, notes the end of the stream, and at its Exit label
\* hands the buffer back; the output buffers of S went back before.
Consume(S) == /\ CanDecode /\ DecodeFrame
              /\ pInputPortQueue' = Tail(pInputPortQueue)
              /\ bStartEoS' = Ends
              /\ HandBack(<<Input.buf>>, S)
              /\ UNCHANGED <<requestVars, commandVars, eCmdBufThread, bufferSems,
                             etb>>

\* The end of the stream without data.
DecodeNothing == /\ Consume({})
                 /\ Input.data = "eos"
                 /\ BufGoto("work", "eos")
                 /\ UNCHANGED <<portVars, outVars, bInitialized, bNeedSequenceData,
                                minRequiredFrameBuffer, vpuVars, fault>>

(***************************************************************************)
(* Until the sequence is known the buffer is only searched for an SPS      *)
(* (AVCCheckPortReconfiguration).  Codec configuration settles the matter  *)
(* whatever it holds, a frame only if it holds an SPS; one of a new size   *)
(* disables the output port (OMX_EventPortSettingsChanged).  The code      *)
(* reopens an initialised codec here, but see SequenceBeforeVpu: there is  *)
(* none.                                                                   *)
(***************************************************************************)
LearnSequence ==
    /\ Consume({})
    /\ Input.data # "eos" /\ bNeedSequenceData
    /\ Input.data = "config" \/ ~ bInitialized
    /\ \E sps \in scenario.spsFound :
         /\ bNeedSequenceData' = (Input.data # "config" /\ sps = "none")
         /\ bEnabled' = IF sps = "new" THEN [bEnabled EXCEPT !["out"] = FALSE] ELSE bEnabled
    /\ BufGoto("work", "eos")
    /\ UNCHANGED <<hBufAllocSem, bPopulated, pBuffers, outUsableBuffers, outVars,
                   bInitialized, minRequiredFrameBuffer, vpuVars, fault>>

\* What remains reaches the VPU.
Decodable == /\ CanDecode /\ Input.data # "eos"
             /\ ~ (bNeedSequenceData /\ (Input.data = "config" \/ ~ bInitialized))

\* InitializeCodaVpu fails: there is no VPU handle, NX_V4l2DecParseVideoCfg
\* fails at its beginning or NX_V4l2DecInit at its end.  The buffer thread
\* reports an error and exits.
InitializeFails ==
    /\ Consume({})
    /\ Decodable /\ ~ bInitialized
    /\ \/ /\ hVpuCodec = "NULL" \/ scenario.vpuFails
          /\ UNCHANGED <<hVpuCodec, minRequiredFrameBuffer>>
       \/ /\ hVpuCodec = "open" /\ scenario.vpuFails
          /\ hVpuCodec' = "ready" /\ minRequiredFrameBuffer' = MinFrames
    /\ BufGoto("work", "exited")
    /\ UNCHANGED <<portVars, outVars, bInitialized, bNeedSequenceData, DecodeFrame,
                   displayed, drained, fault>>

\* The picture NX_V4l2DecDecodeFrame answers: none yet, or one not handed out.
\* When it fails it answers VID_ERR_NONE and leaves decOut as it was, on the
\* stack: any picture of an earlier call.
Outcome == {NoImage} \cup (IF scenario.vpuFails THEN Images ELSE Images \ displayed)

\* The output buffer at the head of the queue, which takes the picture.
Taker == IF pOutputPortQueue = <<>> THEN {} ELSE {Head(pOutputPortQueue)}

\* FindBufferIdx does not find it: the slot was freed, and -1 is used as index.
IndexFault == IF ~ bEnableThumbNailMode /\ ~ Taker \subseteq pBuffers["out"]
              THEN "index" ELSE "none"

(***************************************************************************)
(* A picture comes out.  In thumbnail mode it is copied and its image      *)
(* cleared; otherwise the buffer keeps the image until it is filled again. *)
(* With no buffer in the queue the image is cleared and the picture lost.  *)
(***************************************************************************)
Deliver(image) ==
    /\ pOutputPortQueue' = IF Taker = {} THEN <<>> ELSE Tail(pOutputPortQueue)
    /\ IF bEnableThumbNailMode \/ Taker = {}
       THEN UNCHANGED <<outBufferUseFlag, outBufferValidFlag, curOutBuffers,
                        displayed>>
       ELSE /\ outBufferUseFlag' = outBufferUseFlag \ Taker
            /\ outBufferValidFlag' =
                 [b \in OutBuffers |-> IF b \in Taker THEN image ELSE outBufferValidFlag[b]]
            /\ curOutBuffers' = curOutBuffers - 1
            /\ displayed' = displayed \cup {image}
    /\ fault' = IndexFault

(***************************************************************************)
(* bInitialized is TRUE but the handle is a new one: openVideoCodec does   *)
(* not look at the old one.  It has no bitstream buffer yet, and           *)
(* NX_V4l2DecDecodeFrame dereferences NULL.                                *)
(***************************************************************************)
DecodeUnready ==
    /\ Consume({})
    /\ Decodable /\ bInitialized /\ hVpuCodec = "open"
    /\ fault' = "bitstream"
    /\ BufGoto("work", "eos")
    /\ UNCHANGED <<portVars, outVars, bInitialized, bNeedSequenceData,
                   minRequiredFrameBuffer, vpuVars>>

\* The VPU is initialised if need be and decodes.  Without a handle, after a
\* second NX_V4l2DecOpen that failed, decOut is left as it was.
Decode ==
    /\ Decodable
    /\ hVpuCodec \in (IF bInitialized THEN {"ready", "NULL"} ELSE {"open"})
    /\ hVpuCodec' = IF bInitialized THEN hVpuCodec ELSE "ready"
    /\ bInitialized' = TRUE /\ drained' = FALSE
    /\ minRequiredFrameBuffer' = IF bInitialized THEN minRequiredFrameBuffer ELSE MinFrames
    /\ \E image \in Outcome :
         IF image = NoImage THEN Consume({}) /\ UNCHANGED <<outVars, displayed,
                                                            fault>>
         ELSE Consume(Taker) /\ Deliver(image)
    /\ BufGoto("work", "eos")
    /\ UNCHANGED <<portVars, bNeedSequenceData, DecodeFrame>>
-------------------------------------------------------------------------------
\* processEOS, and the end of the loop.

\* Not the code: one buffer more than necessary is asked for.
EosDuePlenty == bStartEoS /\ curOutBuffers > minRequiredFrameBuffer + 1

EosDue == bStartEoS /\ OutputReady

NoEos == /\ ~ EosDue
         /\ BufGoto("eos", "inner")
         /\ UNCHANGED <<requestVars, commandVars, eCmdBufThread, bufferSems,
                        dataVars>>

\* There is no bitstream buffer yet: NX_V4l2DecDecodeFrame dereferences NULL.
EosTooEarly == /\ EosDue /\ hVpuCodec = "open"
               /\ BufGoto("eos", "inner")
               /\ fault' = "bitstream"
               /\ UNCHANGED <<requestVars, commandVars, eCmdBufThread, bufferSems,
                              portVars, inVars, outVars, streamVars, vpuVars, lent>>

\* A delayed picture.
EosPicture == /\ EosDue /\ hVpuCodec = "ready" /\ ~ drained
              /\ \E image \in Outcome \ {NoImage} : Deliver(image)
              /\ HandBack(<<>>, Taker)
              /\ BufGoto("eos", "inner")
              /\ UNCHANGED <<requestVars, commandVars, eCmdBufThread, bufferSems,
                             portVars, inVars, streamVars, DecodeFrame, hVpuCodec, drained>>

\* No more pictures: a flagged buffer, in thumbnail mode a queued one, goes
\* back with OMX_BUFFERFLAG_EOS.  The flagged one stays in the queue.
EosMark ==
    /\ EosDue /\ hVpuCodec # "open"
    /\ drained' = (hVpuCodec = "ready")
    /\ IF bEnableThumbNailMode
       THEN /\ pOutputPortQueue' = Tail(pOutputPortQueue)
            /\ HandBack(<<>>, Taker)
            /\ UNCHANGED <<outBufferUseFlag, curOutBuffers>>
       ELSE /\ UNCHANGED pOutputPortQueue
            /\ IF outBufferUseFlag = {}
               THEN UNCHANGED <<outBufferUseFlag, curOutBuffers, lent>>
               ELSE \E b \in outBufferUseFlag :
                      /\ outBufferUseFlag' = outBufferUseFlag \ {b}
                      /\ curOutBuffers' = curOutBuffers - 1
                      /\ HandBack(<<b>>, {})
    /\ BufGoto("eos", "inner")
    /\ UNCHANGED <<requestVars, commandVars, eCmdBufThread, bufferSems, portVars,
                   inVars, outBufferValidFlag, streamVars, DecodeFrame,
                   hVpuCodec, displayed, fault>>
-------------------------------------------------------------------------------
Client == \/ \E c \in Commands : SendCommand(c)
          \/ \E p \in Ports : \E b \in Slots(p) :
               UseBuffer(p, b) \/ AllocateBuffer(p, b) \/ FreeBuffer(p, b)
          \/ \E b \in InBuffers, d \in scenario.payloads : EmptyThisBuffer(b, d)
          \/ EmptyThisBufferPush
          \/ \E b \in OutBuffers : FillThisBuffer(b)

Steps == \/ WaitAllocIn \/ WaitAllocOut \/ CreateBufThread \/ Created
         \/ OrderExit \/ WakeForExit \/ JoinBufThread \/ WaitFreeIn \/ WaitFreeOut
         \/ CloseVideoCodec
         \/ OrderRun \/ Start \/ SelectDecoder \/ OpenVpu
         \/ OrderPause \/ WakeForPause \/ ReturnBuffers \/ Paused

CommandThread == \/ \E c \in Commands :
                      \/ SameState(c) \/ Unsupported(c) \/ Switch(c) \/ BeginTransition(c)
                      \/ Flush(c) \/ FlushSpins(c) \/ PortDisable(c) \/ PortEnable(c)
                 \/ Steps

BufThread == \/ BufBorn \/ BufOuter \/ BufPendCtrl \/ BufInner \/ BufPendChange
             \/ BufStop \/ BufRun \/ BufDisabled \/ BufEnabled \/ BufLock
             \/ NoDecoding \/ DecodeNothing \/ LearnSequence \/ InitializeFails
             \/ DecodeUnready \/ Decode
             \/ NoEos \/ EosTooEarly \/ EosPicture \/ EosMark

Next == Client \/ CommandThread \/ BufThread

Spec == Init /\ [][Next]_vars

(***************************************************************************)
(* The operating system runs both threads; during a transition out of or   *)
(* into Loaded the client allocates or frees what is missing, as OpenMAX   *)
(* obliges it to.  Nothing obliges it to send a command or a buffer.       *)
(***************************************************************************)
Fairness ==
    /\ WF_vars(CommandThread)
    /\ WF_vars(BufThread)
    /\ WF_vars(EmptyThisBufferPush)
    /\ \A p \in Ports : \A b \in Slots(p) :
         /\ WF_vars(eCurState = "Loaded" /\ UseBuffer(p, b))
         /\ WF_vars(eNewState = "Loaded" /\ FreeBuffer(p, b))

(***************************************************************************)
(* An eager client fills whatever output buffer it gets back, and the VPU  *)
(* has finitely many delayed pictures.                                     *)
(***************************************************************************)
Eagerness == /\ \A b \in OutBuffers : WF_vars(scenario.eager /\ FillThisBuffer(b))
             /\ SF_vars(EosMark)

FairSpec == Spec /\ Fairness /\ Eagerness
-------------------------------------------------------------------------------
Places == {"idle", "allocIn", "allocOut", "create", "created", "exit", "wake", "join",
           "freeIn", "freeOut", "close", "run", "start", "select", "open",
           "pause", "dummy", "return", "paused", "spin"}
BufPlaces == {"none", "born", "outer", "ctrl", "inner", "change", "woken", "ports", "lock", "work", "eos",
              "exited"}

TypeOK ==
    /\ eCurState \in States /\ eNewState \in States \cup Ports \cup {"all"}
    /\ told \in States \cup Ports \cup {"all"}
    /\ cmdQueue \in Seq(Commands) /\ cmdPc \in Places
    /\ scenario \in ScenarioType
    /\ eCmdBufThread \in {"PAUSE", "RUN", "EXIT"} /\ bufPc \in BufPlaces
    /\ hBufCtrlSem \in {NULL, 0, 1} /\ hBufChangeSem \in {NULL} \cup 0 .. MaxChange
    /\ hBufAllocSem \in 0 .. MaxAlloc
    /\ bEnabled \in [Ports -> BOOLEAN] /\ bPopulated \in [Ports -> BOOLEAN]
    /\ pBuffers \in [Ports -> SUBSET (InBuffers \cup OutBuffers)]
    /\ \A p \in Ports : pBuffers[p] \subseteq Slots(p)
    /\ outUsableBuffers \in 0 .. MaxUsable
    /\ pInputPortQueue \in Seq([buf : InBuffers, data : PayloadKinds])
    /\ etb \in Seq([buf : InBuffers, data : PayloadKinds])
    /\ pOutputPortQueue \in Seq(OutBuffers)
    /\ outBufferUseFlag \subseteq OutBuffers
    /\ outBufferValidFlag \in [OutBuffers -> Images \cup {NoImage}]
    /\ curOutBuffers \in Int
    /\ {bStartEoS, bInitialized, bNeedSequenceData, DecodeFrame, drained} \subseteq BOOLEAN
    /\ minRequiredFrameBuffer \in Nat
    /\ hVpuCodec \in {"NULL", "open", "ready"} /\ displayed \subseteq Images
    /\ lent \in [InBuffers \cup OutBuffers -> Int]
    /\ fault \in {"none", "semaphore", "frame", "bitstream", "index"}

(***************************************************************************)
(* No call of a patient client ends the program: hBufCtrlSem and           *)
(* hBufChangeSem exist when they are posted, an image goes back to the VPU *)
(* only while it has it, the VPU is prepared when it is asked to decode,   *)
(* and FindBufferIdx finds the buffer it looks for.                        *)
(***************************************************************************)
NoFault == scenario.patient => fault = "none"

(***************************************************************************)
(* The three records of which output buffers the component holds agree:    *)
(* the flag ("Flag for Decoding"), the counter ("Currently Queued Buffer   *)
(* Counter", NX_OMXVideoDecoder.h:148-152) and the queue itself.           *)
(***************************************************************************)
OutputRecordsAgree ==
    ~ bEnableThumbNailMode =>
      /\ curOutBuffers = Cardinality(outBufferUseFlag)
      /\ Len(pOutputPortQueue) = curOutBuffers
      /\ {pOutputPortQueue[i] : i \in 1 .. Len(pOutputPortQueue)} = outBufferUseFlag

\* The output buffers the component will hand back.
HeldOutputs == IF bEnableThumbNailMode
               THEN {pOutputPortQueue[i] : i \in 1 .. Len(pOutputPortQueue)}
               ELSE outBufferUseFlag

HeldInputs == {pInputPortQueue[i].buf : i \in 1 .. Len(pInputPortQueue)}

(***************************************************************************)
(* Every buffer is with the client or with the component, not with both    *)
(* and not with neither: what the client handed over once and did not get  *)
(* back is queued, and EmptyBufferDone or FillBufferDone is called once    *)
(* for each time the buffer was handed over.                               *)
(***************************************************************************)
HeldByOneSide == \A b \in DOMAIN lent :
                    lent[b] = IF b \in HeldInputs \cup HeldOutputs THEN 1 ELSE 0

(***************************************************************************)
(* Every image the VPU handed out is shown by exactly one output buffer,   *)
(* so that filling that buffer again gives the image back                  *)
(* (NX_OMXVideoDecoder.c:1098-1108): the VPU does not run out of images.   *)
(***************************************************************************)
EveryImageComesBack ==
    /\ displayed \subseteq {outBufferValidFlag[b] : b \in OutBuffers}
    /\ hVpuCodec = "ready" =>
         \A b, c \in OutBuffers :
            outBufferValidFlag[b] = outBufferValidFlag[c]
              => b = c \/ outBufferValidFlag[b] = NoImage

(***************************************************************************)
(* The semaphores of the buffer thread live as long as the thread, and in  *)
(* Loaded there is neither a thread nor a codec (comments                  *)
(* NX_OMXVideoDecoder.c:1668-1689).                                        *)
(***************************************************************************)
ThreadHasSemaphores ==
    /\ (hBufCtrlSem = NULL) = (bufPc = "none")
    /\ (hBufChangeSem = NULL) = (bufPc = "none")
    /\ eCurState = "Loaded" /\ cmdPc = "idle" => bufPc = "none" /\ hVpuCodec = "NULL"

(***************************************************************************)
(* The transition out of Loaded waits until every enabled port has all its *)
(* buffers, the transition into Loaded until they are freed (comments      *)
(* NX_OMXVideoDecoder.c:1171-1178 and 1231).                               *)
(***************************************************************************)
BuffersAwaited ==
    /\ cmdPc \in {"create", "created"} => \A p \in Ports : bEnabled[p] => bPopulated[p]
    /\ cmdPc = "close" => \A p \in Ports : bEnabled[p] => pBuffers[p] = {}

(***************************************************************************)
(* "return all buffers on the each port" (NX_OMXVideoDecoder.c:1684-1686): *)
(* a component at rest in Idle or Loaded holds no buffer of the client.    *)
(***************************************************************************)
AtRest == Quiet /\ eCurState \in {"Idle", "Loaded"}
IdleHoldsNothing == AtRest => \A b \in DOMAIN lent : lent[b] = 0

(***************************************************************************)
(* The order to the buffer thread follows the state of the component       *)
(* (NX_OMXVideoDecoder.c:1668-1689): run in Executing, pause in Idle.  In  *)
(* Pause, where the comment wants it paused as well, the code leaves the   *)
(* order of the state before.                                              *)
(***************************************************************************)
ThreadFollowsState ==
    Quiet /\ bufPc # "none" =>
      /\ eCurState = "Executing" => eCmdBufThread = "RUN"
      /\ eCurState = "Idle" => eCmdBufThread = "PAUSE"

(***************************************************************************)
(* When no command is left, the component is in the state its last         *)
(* OMX_EventCmdComplete named (NX_OMXVideoDecoder.c:1485-1503), unless it  *)
(* refused to go there: no other transition is reported and not made.      *)
(***************************************************************************)
ReachedOrRefused == Quiet => eCurState = told \/ <<eCurState, told>> \notin Supported

(***************************************************************************)
(* "If the component successfully transitions to the new state, it         *)
(* notifies the IL client of the new state" (NX_OMXVideoDecoder.c:1485):   *)
(* the same without that exception, which the code does not keep (README,  *)
(* "Divergences").                                                         *)
(***************************************************************************)
CompletedIsReached == Quiet => eCurState = told

(***************************************************************************)
(* The component keeps the promise of OMXComponent.                        *)
(***************************************************************************)
Component ==
    INSTANCE OMXComponent WITH state <- eCurState, enabled <- bEnabled, lent <- lent,
                               registered <- pBuffers["in"] \cup pBuffers["out"]
KeepsItsPromise == Component!Spec

(***************************************************************************)
(* Every command is executed to its end: no transition waits for a buffer, *)
(* a semaphore or a thread that never comes.                               *)
(***************************************************************************)
CommandsComplete == ~ Quiet ~> Quiet \/ fault # "none"

(***************************************************************************)
(* The end of a stream is reported to an eager client while the component  *)
(* stays in Executing and the VPU works: processEOS                        *)
(* (NX_OMXVideoDecoder.c:2239-2268) is called until the VPU has no picture *)
(* left.  It needs more output buffers than the VPU keeps.                 *)
(***************************************************************************)
EosPending == /\ bStartEoS /\ hVpuCodec = "ready" /\ eCurState = "Executing" /\ Quiet
              /\ scenario.eager /\ ~ scenario.vpuFails
EosReported == EosPending ~> drained \/ ~ Quiet

(***************************************************************************)
(* hBufChangeSem is the "Buffer status change semaphore ( Event )"         *)
(* (NX_OMXBaseComponent.h:124): the buffer thread hears of every buffer    *)
(* that comes in, so an input buffer is decoded and handed back to an      *)
(* eager client.                                                           *)
(***************************************************************************)
InputHeld(b) == /\ lent[b] = 1 /\ eCurState = "Executing" /\ Quiet
                /\ scenario.eager /\ ~ bStartEoS
InputReturned == \A b \in InBuffers : InputHeld(b) ~> lent[b] = 0 \/ bStartEoS
===============================================================================
