--------------------------- MODULE NX_VidDec_proofs ---------------------------
(***************************************************************************)
(* Proofs about NX_VidDec, for any buffers, images, limits and scenarios.  *)
(***************************************************************************)
EXTENDS NX_VidDec, FiniteSetTheorems, SequenceTheorems, TLAPS

-----------------------------------------------------------------------------
(* Types                                                                   *)

Buffers == InBuffers \cup OutBuffers
InputType == [buf : InBuffers, data : PayloadKinds]

LEMMA TypeInit == Init => TypeOK
<1> SUFFICES ASSUME Init PROVE TypeOK
  OBVIOUS
<1>1. /\ scenario \in ScenarioType /\ lent \in [Buffers -> Int]
      /\ hBufAllocSem \in 0 .. MaxAlloc /\ outUsableBuffers \in 0 .. MaxUsable
      /\ outBufferValidFlag \in [OutBuffers -> Images \cup {NoImage}]
  BY VidDecAssumption DEF Init, Buffers
<1>2. /\ cmdQueue \in Seq(Commands) /\ pInputPortQueue \in Seq(InputType) /\ etb \in Seq(InputType)
      /\ pOutputPortQueue \in Seq(OutBuffers)
  BY DEF Init
<1>3. /\ bEnabled \in [Ports -> BOOLEAN] /\ bPopulated \in [Ports -> BOOLEAN]
      /\ pBuffers \in [Ports -> SUBSET (InBuffers \cup OutBuffers)]
      /\ \A p \in Ports : pBuffers[p] \subseteq Slots(p)
  BY DEF Init
<1>4. /\ eCurState \in States /\ eNewState \in States /\ told \in States
      /\ cmdPc \in Places /\ bufPc \in BufPlaces /\ eCmdBufThread \in {"PAUSE", "RUN", "EXIT"}
      /\ hVpuCodec \in {"NULL", "open", "ready"}
      /\ fault \in {"none", "semaphore", "frame", "bitstream", "index"}
  BY DEF Init, States, Places, BufPlaces
<1>5. /\ hBufCtrlSem = NULL /\ hBufChangeSem = NULL /\ outBufferUseFlag = {} /\ displayed = {}
      /\ curOutBuffers \in Int /\ minRequiredFrameBuffer \in Nat
  BY DEF Init
<1>6. {bStartEoS, bInitialized, bNeedSequenceData, DecodeFrame, drained} \subseteq BOOLEAN
  BY DEF Init
<1> QED
  BY <1>1, <1>2, <1>3, <1>4, <1>5, <1>6 DEF TypeOK, InputType, Buffers

\* The client's calls.
LEMMA TypeSend == ASSUME TypeOK, NEW c \in Commands, SendCommand(c) PROVE TypeOK'
<1>1. scenario \in ScenarioType /\ scenario.script \in Seq(SUBSET Commands) /\ scenario.script # <<>>
  BY DEF TypeOK, ScenarioType, SendCommand
<1>2. Tail(scenario.script) \in Seq(SUBSET Commands)
  BY <1>1, HeadTailProperties
<1>3. scenario' \in ScenarioType
  BY <1>1, <1>2 DEF SendCommand, ScenarioType
<1>4. cmdQueue' \in Seq(Commands)
  BY AppendProperties DEF SendCommand, TypeOK
<1>5. eNewState' \in States \cup Ports \cup {"all"}
  BY DEF SendCommand, Commands, TypeOK
<1> QED
  BY <1>3, <1>4, <1>5
     DEF TypeOK, SendCommand, commandVars, threadVars, bufferSems, dataVars, portVars, inVars,
         outVars, streamVars, vpuVars

LEMMA TypeBuffers ==
  ASSUME TypeOK, NEW p \in Ports, NEW b \in Slots(p), Register(p, b) \/ FreeBuffer(p, b)
  PROVE  TypeOK'
<1> USE DEF requestVars, commandVars, threadVars, bufferSems, inVars, outVars, streamVars, vpuVars
<1>1. pBuffers \in [Ports -> SUBSET (InBuffers \cup OutBuffers)] /\ b \in InBuffers \cup OutBuffers
  BY DEF TypeOK, Slots
<1>2. /\ pBuffers' \in [Ports -> SUBSET (InBuffers \cup OutBuffers)]
      /\ \A q \in Ports : pBuffers'[q] \subseteq Slots(q)
  <2>1. PICK T \in SUBSET Slots(p) : pBuffers' = [pBuffers EXCEPT ![p] = T]
    BY DEF TypeOK, Register, FreeBuffer
  <2>2. T \in SUBSET (InBuffers \cup OutBuffers)
    BY DEF Slots
  <2> QED
    BY <1>1, <2>1, <2>2 DEF TypeOK
<1>3. bPopulated' \in [Ports -> BOOLEAN]
  BY DEF TypeOK, Register, FreeBuffer
<1>4. hBufAllocSem' \in 0 .. MaxAlloc
  <2>1. hBufAllocSem' \in {hBufAllocSem, Posted(hBufAllocSem, MaxAlloc)}
    BY DEF Register, FreeBuffer
  <2>2. hBufAllocSem \in 0 .. MaxAlloc /\ MaxAlloc \in Nat
    BY VidDecAssumption DEF TypeOK
  <2> QED
    BY <2>1, <2>2 DEF Posted
<1>5. outUsableBuffers' \in 0 .. MaxUsable
  BY VidDecAssumption DEF TypeOK, Register, FreeBuffer
<1> QED
  BY ZenonT(60), <1>2, <1>3, <1>4, <1>5 DEF TypeOK, Register, FreeBuffer

LEMMA TypeEmpty ==
  ASSUME TypeOK, \/ \E b \in InBuffers, d \in scenario.payloads : EmptyThisBuffer(b, d)
                 \/ EmptyThisBufferPush
  PROVE  TypeOK'
<1> USE DEF requestVars, commandVars, threadVars, portVars, bufferSems, inVars, outVars, streamVars,
            vpuVars
<1>1. ASSUME NEW b \in InBuffers, NEW d \in scenario.payloads, EmptyThisBuffer(b, d) PROVE TypeOK'
  <2>1. d \in PayloadKinds
    BY DEF TypeOK, ScenarioType
  <2>2. etb' \in Seq(InputType)
    BY <1>1, <2>1 DEF EmptyThisBuffer, InputType
  <2> QED
    BY <1>1, <2>2 DEF TypeOK, EmptyThisBuffer, InputType
<1>2. CASE EmptyThisBufferPush
  <2>1. etb \in Seq(InputType) /\ etb # <<>> /\ pInputPortQueue \in Seq(InputType)
    BY <1>2 DEF TypeOK, EmptyThisBufferPush, InputType
  <2>2. etb[1] \in InputType /\ etb[1].buf \in Buffers
    <3>1. etb[1] = Head(etb)
      BY <2>1
    <3>2. Head(etb) \in InputType
      BY <2>1, HeadTailProperties
    <3> QED
      BY <3>1, <3>2 DEF InputType, Buffers
  <2>3. Append(pInputPortQueue, etb[1]) \in Seq(InputType)
    BY <2>1, <2>2, AppendProperties
  <2>4. pInputPortQueue' \in Seq(InputType) /\ etb' \in Seq(InputType)
    BY <1>2, <2>1, <2>3 DEF EmptyThisBufferPush
  <2>5. lent' \in [InBuffers \cup OutBuffers -> Int]
    BY SMTT(30), <1>2, <2>2 DEF EmptyThisBufferPush, TypeOK, Buffers
  <2>6. /\ hBufChangeSem' \in {NULL} \cup 0 .. MaxChange
        /\ fault' \in {"none", "semaphore", "frame", "bitstream", "index"}
    BY SMTT(30), <1>2, VidDecAssumption
       DEF EmptyThisBufferPush, TypeOK, PostChange, Posted, FaultOf, NULL
  <2> QED
    BY <1>2, <2>4, <2>5, <2>6 DEF TypeOK, EmptyThisBufferPush, InputType
<1> QED
  BY <1>1, <1>2

LEMMA TypeFill == ASSUME TypeOK, NEW b \in OutBuffers, FillThisBuffer(b) PROVE TypeOK'
<1> USE DEF requestVars, commandVars, threadVars, portVars, bufferSems, inVars, outVars, streamVars,
            vpuVars
<1>1. Append(pOutputPortQueue, b) \in Seq(OutBuffers)
  BY AppendProperties DEF TypeOK
<1>2. /\ pOutputPortQueue' \in Seq(OutBuffers) /\ outBufferUseFlag' \subseteq OutBuffers
      /\ curOutBuffers' \in Int /\ lent' \in [InBuffers \cup OutBuffers -> Int]
      /\ outBufferValidFlag' \in [OutBuffers -> Images \cup {NoImage}]
      /\ displayed' \subseteq Images
  <2>1. CASE UNCHANGED <<outVars, displayed, lent>>
    BY <2>1 DEF TypeOK
  <2>2. CASE FillThumbnail(b)
    BY <1>1, <2>2 DEF TypeOK, FillThumbnail
  <2>3. CASE FillFrame(b)
    BY <1>1, <2>3 DEF TypeOK, FillFrame, ClrDspFlag
  <2> QED
    BY <2>1, <2>2, <2>3 DEF FillThisBuffer
<1>3. /\ hBufChangeSem' \in {NULL} \cup 0 .. MaxChange
      /\ fault' \in {"none", "semaphore", "frame", "bitstream", "index"}
  BY VidDecAssumption DEF FillThisBuffer, TypeOK, PostChange, Posted, FaultOf, NULL
<1> QED
  BY <1>2, <1>3 DEF TypeOK, FillThisBuffer

\* The command thread.
LEMMA QueueTail ==
  ASSUME TypeOK, NEW c, Pop(c)
  PROVE  c \in Commands /\ cmdQueue' \in Seq(Commands) /\ cmdPc = "idle"
BY HeadTailProperties DEF TypeOK, Pop, At

LEMMA TypeBegin ==
  ASSUME TypeOK, NEW c, SameState(c) \/ Unsupported(c) \/ Switch(c) \/ BeginTransition(c)
  PROVE  TypeOK'
<1> USE DEF commandVars, threadVars, bufferSems, dataVars, portVars, inVars, outVars, streamVars,
            vpuVars, Goto
<1>1. c \in Commands /\ cmdQueue' \in Seq(Commands)
  BY QueueTail DEF SameState, Unsupported, Switch, BeginTransition
<1>2. c.arg \in States \cup Ports \cup {"all"} /\ FirstPlace(eCurState, c.arg) \in Places
  BY <1>1 DEF Commands, FirstPlace, Places
<1>3. eCurState' \in States /\ told' \in States \cup Ports \cup {"all"} /\ cmdPc' \in Places
  BY <1>2
     DEF TypeOK, SameState, Unsupported, Switch, BeginTransition, Complete, Supported, States, Places
<1> QED
  BY ZenonT(60), <1>1, <1>3 DEF TypeOK, SameState, Unsupported, Switch, BeginTransition

LEMMA TypeSteps == ASSUME TypeOK, Steps, ~ ReturnBuffers PROVE TypeOK'
<1> USE DEF requestVars, commandVars, threadVars, bufferSems, dataVars, portVars, inVars, outVars,
            streamVars, vpuVars, Goto, At, Complete
<1>0. hBufAllocSem \in 0 .. MaxAlloc /\ MaxAlloc \in Nat /\ 0 \in 0 .. MaxUsable
      /\ MaxChange \in Nat /\ hBufChangeSem \in {NULL} \cup 0 .. MaxChange
      /\ hBufCtrlSem \in {NULL, 0, 1}
  BY VidDecAssumption DEF TypeOK
<1>1. CASE WaitAllocIn \/ WaitAllocOut \/ WaitFreeIn \/ WaitFreeOut
  <2>1. hBufAllocSem' \in 0 .. MaxAlloc /\ outUsableBuffers' \in {0, outUsableBuffers}
    BY <1>0, <1>1 DEF WaitAllocIn, WaitAllocOut, WaitFreeIn, WaitFreeOut, PendAlloc
  <2>2. cmdPc' \in Places
    BY <1>1 DEF WaitAllocIn, WaitAllocOut, WaitFreeIn, WaitFreeOut, PendAlloc, Places
  <2> QED
    BY SMTT(30), <1>0, <1>1, <2>1, <2>2
       DEF TypeOK, WaitAllocIn, WaitAllocOut, WaitFreeIn, WaitFreeOut, PendAlloc
<1>2. CASE CreateBufThread \/ Created \/ OrderExit \/ JoinBufThread
  <2>1. cmdPc' \in Places /\ bufPc' \in BufPlaces /\ eCurState' \in States
    BY <1>2
       DEF TypeOK, CreateBufThread, Created, OrderExit, JoinBufThread, Places, BufPlaces, States
  <2>2. hBufCtrlSem' \in {NULL, 0, 1} /\ hBufChangeSem' \in {NULL} \cup 0 .. MaxChange
    BY <1>0, <1>2 DEF CreateBufThread, Created, OrderExit, JoinBufThread
  <2>3. told' \in States \cup Ports \cup {"all"}
    BY <1>2 DEF TypeOK, CreateBufThread, Created, OrderExit, JoinBufThread, States
  <2> QED
    BY ZenonT(60), <1>2, <2>1, <2>2, <2>3
       DEF TypeOK, CreateBufThread, Created, OrderExit, JoinBufThread
<1>3. CASE WakeForExit \/ WakeForPause
  <2>1. hBufCtrlSem' \in {NULL, 0, 1} /\ hBufChangeSem' \in {NULL} \cup 0 .. MaxChange
    BY <1>0, <1>3 DEF WakeForExit, WakeForPause, PostChange, Posted, NULL
  <2> QED
    BY <1>3, <2>1 DEF TypeOK, WakeForExit, WakeForPause, Places
<1>4. CASE CloseVideoCodec
  <2>1. bInitialized' \in BOOLEAN /\ bNeedSequenceData' \in BOOLEAN /\ displayed' = {}
    BY <1>4 DEF TypeOK, CloseVideoCodec
  <2>2. cmdPc' \in Places /\ eCurState' \in States /\ told' \in States \cup Ports \cup {"all"}
    BY <1>4 DEF CloseVideoCodec, Places, States
  <2>3. hVpuCodec' = "NULL" /\ bStartEoS' = FALSE /\ drained' = FALSE
    BY <1>4 DEF CloseVideoCodec
  <2>4. UNCHANGED <<eNewState, cmdQueue, scenario, eCmdBufThread, bufPc, hBufCtrlSem, hBufChangeSem,
                    hBufAllocSem, bEnabled, bPopulated, pBuffers, outUsableBuffers,
                    pInputPortQueue, etb, pOutputPortQueue, outBufferUseFlag,
                    outBufferValidFlag, curOutBuffers, minRequiredFrameBuffer, DecodeFrame, lent,
                    fault>>
    BY <1>4 DEF CloseVideoCodec
  <2> QED
    BY ZenonT(60), <2>1, <2>2, <2>3, <2>4 DEF TypeOK
<1>5. CASE OrderRun \/ Start \/ SelectDecoder \/ OrderPause \/ Paused
  <2>1. hBufCtrlSem' \in {NULL, 0, 1}
    BY <1>0, <1>5 DEF OrderRun, Start, SelectDecoder, OrderPause, Paused, Posted, NULL
  <2>2. cmdPc' \in Places /\ eCurState' \in States /\ told' \in States \cup Ports \cup {"all"}
    BY <1>5 DEF TypeOK, OrderRun, Start, SelectDecoder, OrderPause, Paused, Places, States
  <2> QED
    BY ZenonT(60), <1>5, <2>1, <2>2 DEF TypeOK, OrderRun, Start, SelectDecoder, OrderPause, Paused
<1>6. CASE OpenVpu
  <2>1. hVpuCodec' \in {"NULL", "open", "ready"} /\ displayed' = {} /\ drained' = FALSE
    BY <1>6 DEF OpenVpu
  <2>2. cmdPc' \in Places /\ told' \in States \cup Ports \cup {"all"}
    BY <1>6 DEF OpenVpu, Places, States
  <2>3. UNCHANGED <<eNewState, cmdQueue, scenario, eCurState, eCmdBufThread, bufPc, hBufCtrlSem,
                    hBufChangeSem, hBufAllocSem, bEnabled, bPopulated, pBuffers,
                    outUsableBuffers, pInputPortQueue, etb, pOutputPortQueue, outBufferUseFlag,
                    outBufferValidFlag, curOutBuffers, bStartEoS, bInitialized,
                    bNeedSequenceData, minRequiredFrameBuffer, DecodeFrame, lent, fault>>
    BY <1>6 DEF OpenVpu
  <2> QED
    BY <2>1, <2>2, <2>3 DEF TypeOK
<1> QED
  BY <1>1, <1>2, <1>3, <1>4, <1>5, <1>6 DEF Steps

LEMMA HandBackType ==
  ASSUME TypeOK, NEW q \in Seq(Buffers), NEW S, HandBack(q, S)
  PROVE  lent' \in [InBuffers \cup OutBuffers -> Int]
<1>1. ASSUME NEW b \in Buffers PROVE Cardinality({i \in 1 .. Len(q) : q[i] = b}) \in Nat
  <2>1. IsFiniteSet(1 .. Len(q))
    BY FS_Interval
  <2> QED
    BY <2>1, FS_Subset, FS_CardinalityType
<1>2. /\ lent \in [Buffers -> Int]
      /\ lent' = [b \in DOMAIN lent |->
                    lent[b] - Cardinality({i \in 1 .. Len(q) : q[i] = b}) - (IF b \in S THEN 1 ELSE 0)]
  BY DEF HandBack, TypeOK, Buffers
<1>3. ASSUME NEW b \in Buffers
      PROVE  lent[b] - Cardinality({i \in 1 .. Len(q) : q[i] = b}) - (IF b \in S THEN 1 ELSE 0) \in Int
  BY <1>1, <1>2
<1> QED
  BY <1>2, <1>3 DEF Buffers

\* The sequences of buffers that go back.
LEMMA BackType ==
  ASSUME TypeOK
  PROVE  /\ Headers(pInputPortQueue) \in Seq(Buffers) /\ FlaggedQueue \in Seq(Buffers)
         /\ <<>> \in Seq(Buffers) /\ pOutputPortQueue \in Seq(Buffers)
         /\ Headers(pInputPortQueue) \o FlaggedQueue \in Seq(Buffers)
         /\ \A called, flagged :
              InputBack(called) \o (IF flagged THEN FlaggedQueue ELSE <<>>) \in Seq(Buffers)
         /\ \A called : InputBack(called) \in Seq(Buffers)
         /\ \A b \in Buffers : <<b>> \in Seq(Buffers)
<1>1. pOutputPortQueue \in Seq(Buffers) /\ <<>> \in Seq(Buffers)
  BY SeqMonotonic DEF TypeOK, Buffers
<1>2. FlaggedQueue \in Seq(Buffers)
  BY <1>1 DEF FlaggedQueue
<1>3. Headers(pInputPortQueue) \in Seq(Buffers)
  <2>1. pInputPortQueue \in Seq(InputType)
    BY DEF TypeOK, InputType
  <2>2. Len(pInputPortQueue) \in Nat /\ \A i \in 1 .. Len(pInputPortQueue) : pInputPortQueue[i] \in InputType
    BY <2>1, ElementOfSeq
  <2>3. \A i \in 1 .. Len(pInputPortQueue) : pInputPortQueue[i].buf \in Buffers
    BY <2>2 DEF InputType, Buffers
  <2>4. Headers(pInputPortQueue) \in [1 .. Len(pInputPortQueue) -> Buffers]
    BY <2>3 DEF Headers
  <2> QED
    BY <2>2, <2>4, IsASeq DEF Headers
<1>4. \A called : InputBack(called) \in Seq(Buffers)
  BY <1>1, <1>3 DEF InputBack
<1> QED
  BY <1>1, <1>2, <1>3, <1>4, ConcatProperties

LEMMA CurType ==
  ASSUME TypeOK, NEW S \in SUBSET OutBuffers
  PROVE  IsFiniteSet(S) /\ Cardinality(S) \in Nat /\ curOutBuffers - Cardinality(S) \in Int
BY VidDecAssumption, FS_Subset, FS_CardinalityType DEF TypeOK

LEMMA TypeReturn ==
  ASSUME TypeOK,
         ReturnBuffers \/ \E c \in Commands : Flush(c) \/ FlushSpins(c) \/ PortDisable(c) \/ PortEnable(c)
  PROVE  TypeOK'
<1> USE DEF requestVars, commandVars, threadVars, bufferSems, portVars, inVars, outVars,
            streamVars, vpuVars, Goto
<1>1. Cardinality(outBufferUseFlag) \in Nat /\ curOutBuffers - Cardinality(outBufferUseFlag) \in Int
  BY CurType DEF TypeOK
<1>2. <<>> \in Seq(InputType) /\ <<>> \in Seq(OutBuffers)
  OBVIOUS
<1>3. CASE ReturnBuffers
  <2>1. lent' \in [InBuffers \cup OutBuffers -> Int]
    BY <1>3, BackType, HandBackType DEF ReturnBuffers
  <2>2. /\ pOutputPortQueue' \in Seq(OutBuffers) /\ outBufferUseFlag' \subseteq OutBuffers
        /\ curOutBuffers' \in Int
    BY <1>1, <1>2, <1>3 DEF TypeOK, ReturnBuffers, ClearFlags
  <2> QED
    BY <1>2, <1>3, <2>1, <2>2 DEF TypeOK, ReturnBuffers, Places, InputType
<1>4. ASSUME NEW c \in Commands, Flush(c) PROVE TypeOK'
  <2>0. cmdQueue' \in Seq(Commands)
    BY <1>4, QueueTail DEF Flush
  <2>1. lent' \in [InBuffers \cup OutBuffers -> Int]
    BY <1>4, BackType, HandBackType DEF Flush
  <2>2. /\ pOutputPortQueue' \in Seq(OutBuffers) /\ outBufferUseFlag' \subseteq OutBuffers
        /\ curOutBuffers' \in Int /\ pInputPortQueue' \in Seq(InputType)
    BY <1>1, <1>2, <1>4 DEF TypeOK, Flush, FlushOutput, InputIf, InputType
  <2>3. displayed' \subseteq Images /\ drained' \in BOOLEAN
    BY <1>4 DEF TypeOK, Flush, Drains
  <2>4. fault' \in {"none", "semaphore", "frame", "bitstream", "index"}
    BY <1>4 DEF Flush
  <2> QED
    BY ZenonT(60), <1>4, <2>0, <2>1, <2>2, <2>3, <2>4 DEF TypeOK, Flush, InputType
<1>5. ASSUME NEW c \in Commands, FlushSpins(c) PROVE TypeOK'
  <2>0. cmdQueue' \in Seq(Commands)
    BY <1>5, QueueTail DEF FlushSpins
  <2>1. lent' \in [InBuffers \cup OutBuffers -> Int]
    BY <1>5, BackType, HandBackType DEF FlushSpins
  <2> QED
    BY <1>2, <1>5, <2>0, <2>1 DEF TypeOK, FlushSpins, InputIf, InputType, Places
<1>6. ASSUME NEW c \in Commands, PortDisable(c) PROVE TypeOK'
  <2>0. cmdQueue' \in Seq(Commands)
    BY <1>6, QueueTail DEF PortDisable
  <2>1. lent' \in [InBuffers \cup OutBuffers -> Int]
    BY <1>6, BackType, HandBackType DEF PortDisable
  <2>2. /\ pOutputPortQueue' \in Seq(OutBuffers) /\ outBufferUseFlag' \subseteq OutBuffers
        /\ curOutBuffers' \in Int
    <3>1. CASE c.arg = "out"
      BY <1>1, <1>2, <1>6, <3>1 DEF TypeOK, PortDisable, ClearFlags
    <3>2. CASE c.arg = "all"
      BY <1>1, <1>2, <1>6, <3>2 DEF TypeOK, PortDisable, FlushOutput
    <3>3. CASE c.arg # "out" /\ c.arg # "all"
      BY <1>6, <3>3 DEF TypeOK, PortDisable
    <3> QED
      BY <3>1, <3>2, <3>3
  <2>3. bEnabled' \in [Ports -> BOOLEAN] /\ outUsableBuffers' \in 0 .. MaxUsable
    BY <1>6, VidDecAssumption DEF TypeOK, PortDisable, Meant
  <2>5. UNCHANGED <<streamVars, vpuVars, commandVars, threadVars, bufferSems>>
    BY <1>6 DEF PortDisable
  <2>4. pInputPortQueue' \in Seq(InputType)
    BY <1>2, <1>6 DEF TypeOK, PortDisable, InputIf, InputType
  <2> QED
    BY SMTT(30), <1>6, <2>0, <2>1, <2>2, <2>3, <2>4, <2>5 DEF TypeOK, PortDisable, InputType
<1>7. ASSUME NEW c \in Commands, PortEnable(c) PROVE TypeOK'
  <2>0. cmdQueue' \in Seq(Commands)
    BY <1>7, QueueTail DEF PortEnable
  <2>1. bEnabled' \in [Ports -> BOOLEAN]
    BY <1>7 DEF TypeOK, PortEnable, Meant
  <2> QED
    BY <1>7, <2>0, <2>1 DEF TypeOK, PortEnable, Posted, FaultOf, NULL
<1> QED
  BY <1>3, <1>4, <1>5, <1>6, <1>7

\* The buffer thread.
LEMMA TypeLoops ==
  ASSUME TypeOK,
         \/ BufBorn \/ BufOuter \/ BufPendCtrl \/ BufInner \/ BufPendChange
         \/ BufStop \/ BufRun \/ BufDisabled \/ BufEnabled \/ BufLock \/ NoDecoding \/ NoEos \/ EosTooEarly
         \/ UNCHANGED vars
  PROVE  TypeOK'
<1> USE DEF vars, requestVars, commandVars, threadVars, bufferSems, dataVars, portVars, inVars,
            outVars, streamVars, vpuVars, BufGoto
<1>1. bufPc' \in BufPlaces
  BY DEF TypeOK, BufBorn, BufOuter, BufPendCtrl, BufInner, BufPendChange, BufStop, BufRun, BufDisabled,
         BufEnabled, BufLock, NoDecoding, NoEos, EosTooEarly, BufPlaces
<1>0. MaxChange \in Nat /\ hBufChangeSem \in {NULL} \cup 0 .. MaxChange
      /\ hBufCtrlSem \in {NULL, 0, 1}
  BY VidDecAssumption DEF TypeOK
<1>2. /\ hBufCtrlSem' \in {NULL, 0, 1} /\ hBufChangeSem' \in {NULL} \cup 0 .. MaxChange
  BY <1>0
     DEF BufBorn, BufOuter, BufPendCtrl, BufInner, BufPendChange, BufStop, BufRun, BufDisabled,
         BufEnabled, BufLock, NoDecoding, NoEos, EosTooEarly, PostChange, Posted, NULL
<1>3. fault' \in {"none", "semaphore", "frame", "bitstream", "index"}
  BY DEF TypeOK, BufBorn, BufOuter, BufPendCtrl, BufInner, BufPendChange, BufStop, BufRun, BufDisabled,
         BufEnabled, BufLock, NoDecoding, NoEos, EosTooEarly
<1> QED
  BY <1>1, <1>2, <1>3
     DEF TypeOK, BufBorn, BufOuter, BufPendCtrl, BufInner, BufPendChange, BufStop, BufRun, BufDisabled,
         BufEnabled, BufLock, NoDecoding, NoEos, EosTooEarly

LEMMA InputFacts ==
  ASSUME TypeOK, CanDecode
  PROVE  /\ Input \in InputType /\ Input.buf \in InBuffers /\ <<Input.buf>> \in Seq(Buffers)
         /\ Tail(pInputPortQueue) \in Seq(InputType)
<1>1. pInputPortQueue \in Seq(InputType) /\ pInputPortQueue # <<>>
  BY DEF TypeOK, CanDecode, InputType
<1>2. Input \in InputType /\ Tail(pInputPortQueue) \in Seq(InputType)
  BY <1>1, HeadTailProperties DEF Input
<1>3. Input.buf \in InBuffers /\ Input.buf \in Buffers
  BY <1>2 DEF InputType, Buffers
<1> QED
  BY <1>2, <1>3

LEMMA TakerFacts ==
  ASSUME TypeOK
  PROVE  /\ Taker \subseteq OutBuffers
         /\ pOutputPortQueue # <<>> => /\ Tail(pOutputPortQueue) \in Seq(OutBuffers)
                                       /\ Taker = {Head(pOutputPortQueue)}
         /\ <<>> \in Seq(OutBuffers)
BY HeadTailProperties DEF TypeOK, Taker

LEMMA DeliverType ==
  ASSUME TypeOK, NEW image \in Images, Deliver(image)
  PROVE  /\ pOutputPortQueue' \in Seq(OutBuffers) /\ outBufferUseFlag' \subseteq OutBuffers
         /\ outBufferValidFlag' \in [OutBuffers -> Images \cup {NoImage}]
         /\ curOutBuffers' \in Int /\ displayed' \subseteq Images
         /\ fault' \in {"none", "semaphore", "frame", "bitstream", "index"}
<1>1. pOutputPortQueue' \in Seq(OutBuffers)
  BY TakerFacts DEF Deliver, Taker
<1>2. fault' \in {"none", "semaphore", "frame", "bitstream", "index"}
  BY DEF Deliver, IndexFault
<1>3. CASE UNCHANGED <<outBufferUseFlag, outBufferValidFlag, curOutBuffers, displayed>>
  BY <1>1, <1>2, <1>3 DEF TypeOK
<1>4. CASE /\ outBufferUseFlag' = outBufferUseFlag \ Taker
           /\ outBufferValidFlag' =
                [b \in OutBuffers |-> IF b \in Taker THEN image ELSE outBufferValidFlag[b]]
           /\ curOutBuffers' = curOutBuffers - 1
           /\ displayed' = displayed \cup {image}
  BY <1>1, <1>2, <1>4 DEF TypeOK
<1> QED
  BY <1>3, <1>4 DEF Deliver

LEMMA TypeDecode ==
  ASSUME TypeOK, DecodeNothing \/ LearnSequence \/ InitializeFails \/ DecodeUnready \/ Decode
  PROVE  TypeOK'
<1> USE DEF requestVars, commandVars, bufferSems, portVars, outVars, vpuVars, BufGoto
<1>1. PICK S \in SUBSET OutBuffers : Consume(S)
  BY TakerFacts DEF DecodeNothing, LearnSequence, InitializeFails, DecodeUnready, Decode
<1>2. /\ pInputPortQueue' \in Seq(InputType) /\ bStartEoS' \in BOOLEAN
      /\ lent' \in [InBuffers \cup OutBuffers -> Int]
  <2>1. CanDecode /\ HandBack(<<Input.buf>>, S)
    BY <1>1 DEF Consume
  <2>2. lent' \in [InBuffers \cup OutBuffers -> Int]
    BY <2>1, InputFacts, HandBackType
  <2> QED
    BY <1>1, <2>1, <2>2, InputFacts DEF Consume, Ends
<1>3. bufPc' \in BufPlaces
  BY DEF DecodeNothing, LearnSequence, InitializeFails, DecodeUnready, Decode, BufPlaces
<1>4. /\ pOutputPortQueue' \in Seq(OutBuffers) /\ outBufferUseFlag' \subseteq OutBuffers
      /\ outBufferValidFlag' \in [OutBuffers -> Images \cup {NoImage}]
      /\ curOutBuffers' \in Int /\ displayed' \subseteq Images
      /\ fault' \in {"none", "semaphore", "frame", "bitstream", "index"}
  <2>1. CASE DecodeNothing \/ LearnSequence \/ InitializeFails \/ DecodeUnready
    BY <2>1 DEF DecodeNothing, LearnSequence, InitializeFails, DecodeUnready, TypeOK
  <2>2. CASE Decode
    <3>1. PICK image \in Outcome :
            IF image = NoImage THEN UNCHANGED <<outVars, displayed, fault>> ELSE Deliver(image)
      BY <2>2 DEF Decode
    <3>2. CASE image = NoImage
      BY <3>1, <3>2 DEF TypeOK
    <3>3. CASE image # NoImage
      <4>1. image \in Images
        BY <3>3 DEF Outcome
      <4> QED
        BY <3>1, <3>3, <4>1, DeliverType
    <3> QED
      BY <3>2, <3>3
  <2> QED
    BY <2>1, <2>2
<1>5. /\ bEnabled' \in [Ports -> BOOLEAN] /\ bInitialized' \in BOOLEAN
      /\ bNeedSequenceData' \in BOOLEAN /\ drained' \in BOOLEAN /\ DecodeFrame' = DecodeFrame
      /\ minRequiredFrameBuffer' \in Nat /\ hVpuCodec' \in {"NULL", "open", "ready"}
  BY VidDecAssumption
     DEF DecodeNothing, LearnSequence, InitializeFails, DecodeUnready, Decode, TypeOK
<1>6. UNCHANGED <<hBufAllocSem, bPopulated, pBuffers, outUsableBuffers>>
  BY DEF DecodeNothing, LearnSequence, InitializeFails, DecodeUnready, Decode
<1> QED
  BY ZenonT(60), <1>1, <1>2, <1>3, <1>4, <1>5, <1>6 DEF TypeOK, Consume, InputType

LEMMA TypeEos == ASSUME TypeOK, EosPicture \/ EosMark PROVE TypeOK'
<1> USE DEF requestVars, commandVars, bufferSems, portVars, inVars, outVars, streamVars, vpuVars,
            BufGoto
<1>1. CASE EosPicture
  <2>1. PICK image \in Images : Deliver(image)
    BY <1>1 DEF EosPicture, Outcome
  <2>2. lent' \in [InBuffers \cup OutBuffers -> Int]
    BY <1>1, BackType, HandBackType DEF EosPicture
  <2> QED
    BY <1>1, <2>1, <2>2, DeliverType DEF TypeOK, EosPicture, BufPlaces
<1>2. CASE EosMark
  <2>1. lent' \in [InBuffers \cup OutBuffers -> Int]
    <3>1. CASE HandBack(<<>>, Taker)
      BY <3>1, BackType, HandBackType
    <3>2. CASE UNCHANGED lent
      BY <3>2 DEF TypeOK
    <3>3. ASSUME NEW b \in outBufferUseFlag, HandBack(<<b>>, {})
          PROVE  lent' \in [InBuffers \cup OutBuffers -> Int]
      <4>1. b \in Buffers
        BY DEF TypeOK, Buffers
      <4> QED
        BY <3>3, <4>1, BackType, HandBackType
    <3> QED
      BY <1>2, <3>1, <3>2, <3>3 DEF EosMark
  <2>2. /\ pOutputPortQueue' \in Seq(OutBuffers) /\ outBufferUseFlag' \subseteq OutBuffers
        /\ curOutBuffers' \in Int
    <3>1. bEnableThumbNailMode => pOutputPortQueue # <<>>
      BY <1>2 DEF EosMark, EosDue, OutputReady
    <3>2. CASE bEnableThumbNailMode
      BY <1>2, <3>1, <3>2, TakerFacts DEF EosMark, TypeOK
    <3>3. CASE ~ bEnableThumbNailMode
      <4>1. pOutputPortQueue' = pOutputPortQueue
        BY <1>2, <3>3 DEF EosMark
      <4>2. \/ UNCHANGED <<outBufferUseFlag, curOutBuffers>>
            \/ \E b \in outBufferUseFlag : /\ outBufferUseFlag' = outBufferUseFlag \ {b}
                                          /\ curOutBuffers' = curOutBuffers - 1
        BY <1>2, <3>3 DEF EosMark
      <4>3. curOutBuffers \in Int /\ outBufferUseFlag \subseteq OutBuffers
        BY DEF TypeOK
      <4>4. pOutputPortQueue' \in Seq(OutBuffers)
        BY <4>1 DEF TypeOK
      <4> QED
        BY <4>2, <4>3, <4>4
    <3> QED
      BY <3>2, <3>3
  <2> QED
    BY SMTT(30), <1>2, <2>1, <2>2 DEF TypeOK, EosMark, BufPlaces
<1> QED
  BY <1>1, <1>2

LEMMA TypeStep == ASSUME TypeOK, [Next]_vars PROVE TypeOK'
<1>1. ASSUME NEW p \in Ports, NEW b \in Slots(p),
             UseBuffer(p, b) \/ AllocateBuffer(p, b) \/ FreeBuffer(p, b)
      PROVE  TypeOK'
  BY <1>1, TypeBuffers DEF UseBuffer, AllocateBuffer
<1>2. CASE Client
  BY <1>1, <1>2, TypeSend, TypeEmpty, TypeFill DEF Client
<1>3. CASE CommandThread
  BY <1>3, TypeBegin, TypeSteps, TypeReturn DEF CommandThread
<1>4. CASE BufThread \/ UNCHANGED vars
  BY <1>4, TypeLoops, TypeDecode, TypeEos DEF BufThread
<1> QED
  BY <1>2, <1>3, <1>4 DEF Next

(***************************************************************************)
(* The variables keep their types, whatever the scenario.                  *)
(***************************************************************************)
THEOREM TypeCorrect == Spec => []TypeOK
BY TypeInit, TypeStep, PTL DEF Spec

-----------------------------------------------------------------------------
(* Where the command thread is, and what exists then.                      *)

\* The places a transition passes, by the state it starts from.
FromLoaded == {"allocIn", "allocOut", "create", "created"}
FromIdle == {"exit", "wake", "join", "freeIn", "freeOut", "close", "run", "start"}
FromExecuting == {"select", "open", "pause", "dummy", "return", "paused"}

InTransition ==
    /\ cmdPc \in FromLoaded => eCurState = "Loaded"
    /\ cmdPc \in FromIdle => eCurState = "Idle"
    /\ cmdPc \in FromExecuting => eCurState = "Executing"

\* The buffer thread has been joined, or is not created yet.
NoThread == \/ eCurState = "Loaded" /\ cmdPc # "created"
            \/ cmdPc \in {"freeIn", "freeOut", "close"}

Lives == /\ (bufPc = "none") <=> NoThread
         /\ (hBufCtrlSem = NULL) <=> NoThread
         /\ (hBufChangeSem = NULL) <=> NoThread
         /\ eCurState = "Loaded" => hVpuCodec = "NULL" /\ cmdPc # "spin"

Phases == InTransition /\ Lives

LEMMA PhasesInit == Init => Phases
BY DEF Init, Phases, InTransition, Lives, NoThread, FromLoaded, FromIdle, FromExecuting

\* Steps that leave the command thread, the thread and the VPU where they are.
LEMMA PhasesKept ==
  ASSUME Phases, UNCHANGED <<cmdPc, eCurState, bufPc, hVpuCodec>>,
         (hBufCtrlSem' = NULL) <=> (hBufCtrlSem = NULL),
         (hBufChangeSem' = NULL) <=> (hBufChangeSem = NULL)
  PROVE  Phases'
BY DEF Phases, InTransition, Lives, NoThread, FromLoaded, FromIdle, FromExecuting

\* NX_PostSem and the NULL of a semaphore.
LEMMA PostKeeps ==
  ASSUME TypeOK
  PROVE  /\ PostChange => ((hBufChangeSem' = NULL) <=> (hBufChangeSem = NULL))
         /\ hBufCtrlSem # NULL => Posted(hBufCtrlSem, 1) # NULL
         /\ hBufChangeSem # NULL => Posted(hBufChangeSem, MaxChange) # NULL
BY VidDecAssumption DEF TypeOK, PostChange, Posted, NULL

LEMMA PhasesClient == ASSUME TypeOK, Phases, Client PROVE Phases'
<1> USE DEF requestVars, commandVars, threadVars, bufferSems, dataVars, portVars, inVars, outVars,
            streamVars, vpuVars
<1>1. ASSUME NEW c, SendCommand(c) PROVE Phases'
  BY <1>1, PhasesKept DEF SendCommand
<1>2. ASSUME NEW p, NEW b, UseBuffer(p, b) \/ AllocateBuffer(p, b) \/ FreeBuffer(p, b) PROVE Phases'
  BY <1>2, PhasesKept DEF UseBuffer, AllocateBuffer, Register, FreeBuffer
<1>3. ASSUME NEW b, NEW d, EmptyThisBuffer(b, d) PROVE Phases'
  BY <1>3, PhasesKept DEF EmptyThisBuffer
<1>4. CASE EmptyThisBufferPush
  BY <1>4, PhasesKept, PostKeeps DEF EmptyThisBufferPush
<1>5. ASSUME NEW b, FillThisBuffer(b) PROVE Phases'
  BY <1>5, PhasesKept, PostKeeps DEF FillThisBuffer
<1> QED
  BY <1>1, <1>2, <1>3, <1>4, <1>5 DEF Client

LEMMA PhasesBufThread == ASSUME TypeOK, Phases, BufThread PROVE Phases'
<1> USE DEF requestVars, commandVars, threadVars, bufferSems, dataVars, portVars, inVars, outVars,
            streamVars, vpuVars, BufGoto
<1>1. ASSUME bufPc # "none", bufPc' # "none", UNCHANGED <<cmdPc, eCurState>>,
             hVpuCodec = "NULL" => hVpuCodec' = "NULL",
             (hBufCtrlSem' = NULL) <=> (hBufCtrlSem = NULL),
             (hBufChangeSem' = NULL) <=> (hBufChangeSem = NULL)
      PROVE  Phases'
  BY <1>1 DEF Phases, InTransition, Lives, NoThread, FromLoaded, FromIdle, FromExecuting
<1>2. bufPc # "none" => hBufCtrlSem # NULL /\ hBufChangeSem # NULL
  BY DEF Phases, Lives
<1>3. CASE BufBorn
  BY <1>1, <1>2, <1>3, PostKeeps DEF BufBorn
<1>4. CASE BufOuter \/ BufInner \/ BufStop \/ BufRun \/ BufEnabled \/ BufLock \/ NoDecoding \/ NoEos
  BY <1>1, <1>4 DEF BufOuter, BufInner, BufStop, BufRun, BufEnabled, BufLock, NoDecoding, NoEos
<1>5. CASE BufPendCtrl \/ BufPendChange
  BY <1>1, <1>2, <1>5 DEF BufPendCtrl, BufPendChange, NULL, TypeOK
<1>6. CASE BufDisabled
  BY <1>1, <1>6, PostKeeps DEF BufDisabled
<1>7. CASE DecodeNothing \/ LearnSequence \/ InitializeFails \/ DecodeUnready \/ Decode
  BY <1>1, <1>7
     DEF DecodeNothing, LearnSequence, InitializeFails, DecodeUnready, Decode, Consume
<1>8. CASE EosTooEarly \/ EosPicture \/ EosMark
  BY <1>1, <1>8 DEF EosTooEarly, EosPicture, EosMark
<1> QED
  BY <1>3, <1>4, <1>5, <1>6, <1>7, <1>8 DEF BufThread

LEMMA PhasesCommand == ASSUME TypeOK, Phases, CommandThread PROVE Phases'
<1> USE DEF requestVars, commandVars, threadVars, bufferSems, dataVars, portVars, inVars, outVars,
            streamVars, vpuVars, Goto, At, Complete, Pop
<1>1. ASSUME NEW c, SameState(c) \/ Flush(c) PROVE Phases'
  BY <1>1, PhasesKept DEF SameState, Flush
<1>2. ASSUME NEW c, Unsupported(c) PROVE Phases'
  BY <1>2, PhasesKept DEF Unsupported
<1>3. ASSUME NEW c, PortDisable(c) \/ PortEnable(c) PROVE Phases'
  BY <1>3, PhasesKept, PostKeeps DEF PortDisable, PortEnable
<1>4. ASSUME NEW c, Switch(c) PROVE Phases'
  BY <1>4
     DEF Switch, Supported, Phases, InTransition, Lives, NoThread, FromLoaded, FromIdle,
         FromExecuting
<1>5. ASSUME NEW c, BeginTransition(c) PROVE Phases'
  BY <1>5
     DEF BeginTransition, FirstPlace, Phases, InTransition, Lives, NoThread, FromLoaded, FromIdle,
         FromExecuting
<1>6. ASSUME NEW c, FlushSpins(c) PROVE Phases'
  BY <1>6
     DEF FlushSpins, Drains, Phases, InTransition, Lives, NoThread, FromLoaded, FromIdle,
         FromExecuting
<1>7. ASSUME Steps PROVE Phases'
  <2> USE DEF Phases, InTransition, Lives, NoThread, FromLoaded, FromIdle, FromExecuting
  <2>1. CASE WaitAllocIn \/ WaitAllocOut \/ WaitFreeIn \/ WaitFreeOut
    BY <2>1 DEF WaitAllocIn, WaitAllocOut, WaitFreeIn, WaitFreeOut, PendAlloc
  <2>2. CASE CreateBufThread \/ Created
    BY <2>2 DEF CreateBufThread, Created, NULL
  <2>3. CASE OrderExit \/ JoinBufThread
    BY <2>3 DEF OrderExit, JoinBufThread
  <2>4. CASE WakeForExit \/ WakeForPause
    BY <2>4, PostKeeps DEF WakeForExit, WakeForPause
  <2>5. CASE CloseVideoCodec
    BY <2>5 DEF CloseVideoCodec
  <2>6. CASE OrderRun \/ Start
    BY <2>6, PostKeeps DEF OrderRun, Start
  <2>7. CASE SelectDecoder \/ OpenVpu \/ OrderPause \/ Paused
    BY <2>7 DEF SelectDecoder, OpenVpu, OrderPause, Paused
  <2>8. CASE ReturnBuffers
    BY <2>8 DEF ReturnBuffers
  <2> QED
    BY <1>7, <2>1, <2>2, <2>3, <2>4, <2>5, <2>6, <2>7, <2>8 DEF Steps
<1> QED
  BY <1>1, <1>2, <1>3, <1>4, <1>5, <1>6, <1>7 DEF CommandThread

LEMMA PhasesStep == ASSUME TypeOK, Phases, [Next]_vars PROVE Phases'
<1>1. CASE UNCHANGED vars
  BY <1>1, PhasesKept
     DEF vars, commandVars, threadVars, bufferSems, dataVars, vpuVars
<1> QED
  BY <1>1, PhasesClient, PhasesCommand, PhasesBufThread DEF Next

(***************************************************************************)
(* The two semaphores of the buffer thread exist exactly while the thread  *)
(* does, and there is neither a thread nor a VPU handle in Loaded          *)
(* (ThreadHasSemaphores): the places of the command thread tell which      *)
(* exist, whatever the client does and however the VPU fails.              *)
(***************************************************************************)
THEOREM SemaphoresLiveWithThread == Spec => []ThreadHasSemaphores
<1>1. TypeOK /\ Phases /\ [Next]_vars => Phases'
  BY PhasesStep
<1>2. Phases => ThreadHasSemaphores
  BY DEF Phases, Lives, NoThread, ThreadHasSemaphores
<1> QED
  BY <1>1, <1>2, PhasesInit, TypeCorrect, PTL DEF Spec

-----------------------------------------------------------------------------
(* The order to the buffer thread                                          *)

\* A client that goes through Executing on its way into and out of Pause.
NeverIdleAndPause == {eCurState, eCurState'} # {"Idle", "Pause"}

Pausing == {"created", "dummy", "return", "paused"}
Stable == {"idle", "spin", "exit", "run", "select", "open", "pause"}

OrderFollows ==
    /\ cmdPc \in Pausing => eCmdBufThread = "PAUSE"
    /\ cmdPc = "start" => eCmdBufThread = "RUN"
    /\ cmdPc \in Stable =>
         /\ eCurState = "Idle" => eCmdBufThread = "PAUSE"
         /\ eCurState \in {"Executing", "Pause"} => eCmdBufThread = "RUN"

LEMMA OrderKept ==
  ASSUME OrderFollows, UNCHANGED <<cmdPc, eCurState, eCmdBufThread>>
  PROVE  OrderFollows'
BY DEF OrderFollows

LEMMA OrderCommand ==
  ASSUME Phases, OrderFollows, CommandThread, eCurState' # eCurState => NeverIdleAndPause
  PROVE  OrderFollows'
<1> USE DEF requestVars, commandVars, threadVars, bufferSems, dataVars, portVars, inVars, outVars,
            streamVars, vpuVars, Goto, At, Complete, Pop
<1>1. ASSUME NEW c, SameState(c) \/ Flush(c) \/ PortDisable(c) \/ PortEnable(c)
      PROVE  OrderFollows'
  BY <1>1, OrderKept DEF SameState, Flush, PortDisable, PortEnable
<1>2. ASSUME NEW c, Unsupported(c) PROVE OrderFollows'
  BY <1>2 DEF Unsupported, OrderFollows, Pausing, Stable
<1>3. ASSUME NEW c, Switch(c) PROVE OrderFollows'
  <2>1. /\ cmdPc = "idle" /\ cmdPc' = "idle" /\ eCmdBufThread' = eCmdBufThread
        /\ <<eCurState, eCurState'>> \in { <<"Executing", "Pause">>, <<"Pause", "Executing">> }
    BY <1>3 DEF Switch, Supported, NeverIdleAndPause
  <2> QED
    BY <2>1 DEF OrderFollows, Pausing, Stable
<1>4. ASSUME NEW c, BeginTransition(c) PROVE OrderFollows'
  <2>1. /\ cmdPc = "idle" /\ UNCHANGED <<eCurState, eCmdBufThread>>
        /\ cmdPc' \in {"allocIn", "exit", "run", "pause"}
    BY <1>4 DEF BeginTransition, FirstPlace
  <2> QED
    BY <2>1 DEF OrderFollows, Pausing, Stable
<1>5. ASSUME NEW c, FlushSpins(c) PROVE OrderFollows'
  BY <1>5 DEF FlushSpins, OrderFollows, Pausing, Stable
<1>6. ASSUME Steps PROVE OrderFollows'
  <2> USE DEF OrderFollows, Pausing, Stable, Phases, InTransition, FromLoaded, FromIdle,
              FromExecuting
  <2>1. CASE WaitAllocIn \/ WaitAllocOut \/ WaitFreeIn \/ WaitFreeOut
    BY <2>1 DEF WaitAllocIn, WaitAllocOut, WaitFreeIn, WaitFreeOut, PendAlloc
  <2>2. CASE CreateBufThread \/ Created \/ OrderExit \/ JoinBufThread \/ CloseVideoCodec
    BY <2>2 DEF CreateBufThread, Created, OrderExit, JoinBufThread, CloseVideoCodec
  <2>3. CASE WakeForExit \/ WakeForPause
    BY <2>3 DEF WakeForExit, WakeForPause
  <2>4. CASE OrderRun \/ Start \/ SelectDecoder \/ OpenVpu
    BY <2>4 DEF OrderRun, Start, SelectDecoder, OpenVpu
  <2>5. CASE OrderPause \/ ReturnBuffers \/ Paused
    BY <2>5 DEF OrderPause, ReturnBuffers, Paused
  <2> QED
    BY <1>6, <2>1, <2>2, <2>3, <2>4, <2>5 DEF Steps
<1> QED
  BY <1>1, <1>2, <1>3, <1>4, <1>5, <1>6 DEF CommandThread

LEMMA OrderStep ==
  ASSUME Phases, OrderFollows, [Next]_vars, [NeverIdleAndPause]_eCurState
  PROVE  OrderFollows'
<1> USE DEF requestVars, commandVars, threadVars, bufferSems, dataVars, portVars, inVars, outVars,
            streamVars, vpuVars
<1>1. CASE Client
  <2>1. UNCHANGED <<cmdPc, eCurState, eCmdBufThread>>
    BY <1>1
       DEF Client, SendCommand, UseBuffer, AllocateBuffer, Register, FreeBuffer, EmptyThisBuffer,
           EmptyThisBufferPush, FillThisBuffer
  <2> QED
    BY <2>1, OrderKept
<1>2. CASE BufThread
  <2>1. CASE BufBorn \/ BufOuter \/ BufPendCtrl \/ BufInner \/ BufPendChange
               \/ BufStop \/ BufRun \/ BufDisabled \/ BufEnabled \/ BufLock
    BY <2>1, OrderKept
       DEF BufBorn, BufOuter, BufPendCtrl, BufInner, BufPendChange, BufStop, BufRun, BufDisabled, BufEnabled, BufLock
  <2>2. CASE NoDecoding \/ DecodeNothing \/ LearnSequence \/ InitializeFails \/ DecodeUnready
    BY <2>2, OrderKept
       DEF NoDecoding, DecodeNothing, LearnSequence, InitializeFails, DecodeUnready, Consume
  <2>3. CASE Decode \/ NoEos \/ EosTooEarly \/ EosPicture \/ EosMark
    BY <2>3, OrderKept DEF Decode, Consume, NoEos, EosTooEarly, EosPicture, EosMark
  <2> QED
    BY <1>2, <2>1, <2>2, <2>3 DEF BufThread
<1>3. CASE UNCHANGED vars
  BY <1>3, OrderKept DEF vars
<1> QED
  BY <1>1, <1>2, <1>3, OrderCommand DEF Next

(***************************************************************************)
(* With a client that moves between Pause and Executing only, the buffer   *)
(* thread is ordered to run when the component rests in Executing and to   *)
(* pause when it rests in Idle (ThreadFollowsState).  The hypothesis is    *)
(* needed: Idle to Pause to Executing never gives the order to run, and    *)
(* Executing to Pause to Idle never takes it back (cases of                *)
(* NX_VidDec_StateTransition without a body).                              *)
(***************************************************************************)
THEOREM OrderFollowsState == Spec /\ [][NeverIdleAndPause]_eCurState => []ThreadFollowsState
<1>1. Init => OrderFollows
  BY DEF Init, OrderFollows, Pausing, Stable
<1>2. Phases /\ OrderFollows /\ [Next]_vars /\ [NeverIdleAndPause]_eCurState => OrderFollows'
  BY OrderStep
<1>3. TypeOK /\ Phases /\ [Next]_vars => Phases'
  BY PhasesStep
<1>4. OrderFollows => ThreadFollowsState
  BY DEF OrderFollows, Stable, ThreadFollowsState, Quiet
<1> QED
  BY <1>1, <1>2, <1>3, <1>4, PhasesInit, TypeCorrect, PTL DEF Spec

-----------------------------------------------------------------------------
(* What is reported                                                        *)

\* Outside a transition, which ends with a report, the component is in the state
\* told, or refused to go there.
Reported ==
    cmdPc \in {"idle", "spin"} => eCurState = told \/ <<eCurState, told>> \notin Supported

LEMMA ReportedKept ==
  ASSUME Reported, UNCHANGED <<cmdPc, eCurState, told>>
  PROVE  Reported'
BY DEF Reported

LEMMA ReportedCommand ==
  ASSUME Phases, Reported, CommandThread
  PROVE  Reported'
<1> USE DEF requestVars, commandVars, Goto, At, Complete, Pop
<1>1. ASSUME NEW c, SameState(c) \/ Flush(c) \/ PortDisable(c) \/ PortEnable(c)
      PROVE  Reported'
  BY <1>1, ReportedKept DEF SameState, Flush, PortDisable, PortEnable
<1>2. ASSUME NEW c, Unsupported(c) \/ Switch(c) PROVE Reported'
  BY <1>2 DEF Unsupported, Switch, Reported
<1>3. ASSUME NEW c, BeginTransition(c) PROVE Reported'
  <2>1. cmdPc' \in {"allocIn", "exit", "run", "pause"}
    BY <1>3 DEF BeginTransition, FirstPlace
  <2> QED
    BY <2>1 DEF Reported
<1>4. ASSUME NEW c, FlushSpins(c) PROVE Reported'
  BY <1>4 DEF FlushSpins, Reported
<1>5. ASSUME Steps PROVE Reported'
  <2>1. CASE WaitAllocIn \/ WaitAllocOut \/ WaitFreeIn \/ WaitFreeOut
    BY <2>1 DEF WaitAllocIn, WaitAllocOut, WaitFreeIn, WaitFreeOut, PendAlloc, Reported
  <2>2. CASE CreateBufThread \/ OrderExit \/ WakeForExit \/ JoinBufThread \/ OrderRun \/ Start
               \/ SelectDecoder
    BY <2>2
       DEF CreateBufThread, OrderExit, WakeForExit, JoinBufThread, OrderRun, Start,
           SelectDecoder, Reported
  <2>3. CASE OrderPause \/ WakeForPause \/ ReturnBuffers
    BY <2>3 DEF OrderPause, WakeForPause, ReturnBuffers, Reported
  <2>4. CASE Created \/ CloseVideoCodec \/ Paused
    BY <2>4 DEF Created, CloseVideoCodec, Paused, Reported
  <2>5. CASE OpenVpu
    BY <2>5 DEF OpenVpu, Phases, InTransition, FromExecuting, Reported
  <2> QED
    BY <1>5, <2>1, <2>2, <2>3, <2>4, <2>5 DEF Steps
<1> QED
  BY <1>1, <1>2, <1>3, <1>4, <1>5 DEF CommandThread

LEMMA ReportedStep == ASSUME Phases, Reported, [Next]_vars PROVE Reported'
<1> USE DEF requestVars, commandVars, dataVars
<1>1. CASE Client
  <2>1. UNCHANGED <<cmdPc, eCurState, told>>
    BY <1>1
       DEF Client, SendCommand, UseBuffer, AllocateBuffer, Register, FreeBuffer, EmptyThisBuffer,
           EmptyThisBufferPush, FillThisBuffer
  <2> QED
    BY <2>1, ReportedKept
<1>2. CASE BufThread
  <2>1. CASE BufBorn \/ BufOuter \/ BufPendCtrl \/ BufInner \/ BufPendChange
               \/ BufStop \/ BufRun \/ BufDisabled \/ BufEnabled \/ BufLock
    BY <2>1, ReportedKept
       DEF BufBorn, BufOuter, BufPendCtrl, BufInner, BufPendChange, BufStop, BufRun, BufDisabled,
           BufEnabled, BufLock
  <2>2. CASE NoDecoding \/ DecodeNothing \/ LearnSequence \/ InitializeFails \/ DecodeUnready
    BY <2>2, ReportedKept
       DEF NoDecoding, DecodeNothing, LearnSequence, InitializeFails, DecodeUnready, Consume
  <2>3. CASE Decode \/ NoEos \/ EosTooEarly \/ EosPicture \/ EosMark
    BY <2>3, ReportedKept DEF Decode, Consume, NoEos, EosTooEarly, EosPicture, EosMark
  <2> QED
    BY <1>2, <2>1, <2>2, <2>3 DEF BufThread
<1>3. CASE UNCHANGED vars
  BY <1>3, ReportedKept DEF vars
<1> QED
  BY <1>1, <1>2, <1>3, ReportedCommand DEF Next

(***************************************************************************)
(* For any client, also one that sends the next command while one is       *)
(* executed, a report that is the last one names the state the component   *)
(* is in, or one it refused to go to (ReachedOrRefused).                   *)
(***************************************************************************)
THEOREM ReportsAreReachedOrRefused == Spec => []ReachedOrRefused
<1>1. Init => Reported
  BY DEF Init, Reported
<1>2. Phases /\ Reported /\ [Next]_vars => Reported'
  BY ReportedStep
<1>3. TypeOK /\ Phases /\ [Next]_vars => Phases'
  BY PhasesStep
<1>4. Reported => ReachedOrRefused
  BY DEF Reported, ReachedOrRefused, Quiet
<1> QED
  BY <1>1, <1>2, <1>3, <1>4, PhasesInit, TypeCorrect, PTL DEF Spec

-----------------------------------------------------------------------------
(* Which side holds a buffer                                               *)

\* What keeps the records of the output buffers together: the client takes its
\* output buffers back before it leaves Executing, sends one command at a time,
\* neither ends the stream nor disables the output port alone.  In thumbnail
\* mode, which does without flags, it may do as it likes.
EosKinds == {"eos", "eosFrame"}
Kept(s) == /\ s.tidy /\ s.overlap = {} /\ s.payloads \cap EosKinds = {}
           /\ \A n \in DOMAIN s.script : \A c \in s.script[n] : c.cmd = "PortDisable" => c.arg # "out"
TidyUse == \A s \in Scenarios : s.thumb \/ Kept(s)

Elements(s) == {s[i] : i \in DOMAIN s}
Distinct(s) == \A i, j \in DOMAIN s : s[i] = s[j] => i = j

ToExecuting == {"run", "start", "select", "open"}
ToIdle == {"pause", "dummy", "return", "paused"}

\* No state change is waiting or being executed.
Steady == cmdPc = "idle" /\ \A i \in DOMAIN cmdQueue : cmdQueue[i].cmd # "StateSet"

\* One command at a time, and the client's view of it.
OneCommand ==
    /\ cmdQueue = <<>> \/ (Len(cmdQueue) = 1 /\ cmdPc = "idle")
    /\ \A i \in DOMAIN cmdQueue :
         /\ cmdQueue[i].cmd = "StateSet" => cmdQueue[i].arg = eNewState
         /\ cmdQueue[i].cmd = "PortDisable" => cmdQueue[i].arg # "out"
    /\ cmdPc \in ToExecuting => eNewState = "Executing"
    /\ Steady /\ eNewState = "Pause" => eCurState # "Executing"

\* No output buffer is held once Executing is to be left.
EmptyHanded ==
    /\ cmdPc \in ToIdle => outBufferUseFlag = {}
    /\ cmdPc = "idle" /\ eCurState = "Executing" /\ eNewState # "Executing" => outBufferUseFlag = {}

NoEnd == /\ ~ bStartEoS
         /\ \A i \in DOMAIN pInputPortQueue : pInputPortQueue[i].data \notin EosKinds
         /\ \A i \in DOMAIN etb : etb[i].data \notin EosKinds

TidyState == ~ bEnableThumbNailMode => Kept(scenario) /\ OneCommand /\ EmptyHanded /\ NoEnd

\* No queue holds a buffer twice, what is about to be pushed is in neither, and
\* the records of the output buffers agree.
InRecords ==
    /\ Distinct(Headers(pInputPortQueue))
    /\ Len(etb) <= 1 /\ \A i \in DOMAIN etb : etb[i].buf \notin HeldInputs

OutRecords ==
    /\ Distinct(pOutputPortQueue)
    /\ bEnableThumbNailMode => outBufferUseFlag = {}
    /\ ~ bEnableThumbNailMode =>
         /\ outBufferUseFlag = Elements(pOutputPortQueue)
         /\ curOutBuffers = Cardinality(outBufferUseFlag)
         /\ Len(pOutputPortQueue) = curOutBuffers

LEMMA TypeQueues ==
  ASSUME TypeOK
  PROVE  /\ pInputPortQueue \in Seq(InputType) /\ etb \in Seq(InputType)
         /\ pOutputPortQueue \in Seq(OutBuffers)
         /\ etb # <<>> => etb[1] \in InputType
<1>1. /\ pInputPortQueue \in Seq(InputType) /\ etb \in Seq(InputType)
      /\ pOutputPortQueue \in Seq(OutBuffers)
  BY DEF TypeOK, InputType
<1> QED
  BY <1>1, ElementOfSeq, EmptySeq

LEMMA TypeCommands == ASSUME TypeOK PROVE cmdQueue \in Seq(Commands) /\ DOMAIN cmdQueue = 1 .. Len(cmdQueue)
BY DEF TypeOK

LEMMA TidyInit == ASSUME TidyUse, Init PROVE TidyState
BY VidDecAssumption
   DEF Init, TidyUse, TidyState, bEnableThumbNailMode, OneCommand, EmptyHanded, NoEnd, Steady,
       ToExecuting, ToIdle

\* The rest of a script is as tidy as all of it.
LEMMA ScriptKept ==
  ASSUME TypeOK, NEW c, SendCommand(c)
  PROVE  /\ bEnableThumbNailMode' = bEnableThumbNailMode
         /\ Kept(scenario) => Kept(scenario') /\ (c.cmd = "PortDisable" => c.arg # "out")
<1>1. /\ scenario \in ScenarioType /\ scenario.script \in Seq(SUBSET Commands)
      /\ scenario.script # <<>> /\ c \in Head(scenario.script)
      /\ scenario' = [scenario EXCEPT !.script = Tail(scenario.script)]
  BY DEF TypeOK, ScenarioType, SendCommand
<1> DEFINE s == scenario.script
           t == Tail(s)
<1>2. /\ Len(s) \in Nat /\ DOMAIN s = 1 .. Len(s) /\ DOMAIN t = 1 .. Len(t) /\ 1 \in DOMAIN s
      /\ Head(s) = s[1] /\ Len(t) = Len(s) - 1 /\ \A n \in 1 .. Len(t) : t[n] = s[n + 1]
  BY <1>1, HeadTailProperties
<1>3. scenario'.script = t /\ UNCHANGED <<scenario.tidy, scenario.overlap, scenario.payloads,
                                          scenario.thumb>>
  BY <1>1 DEF ScenarioType
<1>4. \A n \in DOMAIN t : n + 1 \in DOMAIN s /\ t[n] = s[n + 1]
  BY <1>2
<1> HIDE DEF s, t
<1>5. ASSUME Kept(scenario)
      PROVE  /\ \A n \in DOMAIN t : \A d \in t[n] : d.cmd = "PortDisable" => d.arg # "out"
             /\ c.cmd = "PortDisable" => c.arg # "out"
  <2>1. \A n \in DOMAIN s : \A d \in s[n] : d.cmd = "PortDisable" => d.arg # "out"
    BY <1>5 DEF Kept, s
  <2> QED
    BY <1>1, <1>2, <1>4, <2>1 DEF s
<1> QED
  BY <1>3, <1>5 DEF Kept, bEnableThumbNailMode

LEMMA TidySend ==
  ASSUME TypeOK, Phases, InRecords, HeldByOneSide, TidyState, NEW c \in Commands, SendCommand(c)
  PROVE  TidyState'
<1> USE DEF commandVars, dataVars, outVars, inVars, streamVars
<1> SUFFICES ASSUME ~ bEnableThumbNailMode
             PROVE  Kept(scenario)' /\ OneCommand' /\ EmptyHanded' /\ NoEnd'
  BY ScriptKept DEF TidyState
<1>1. Kept(scenario) /\ OneCommand /\ EmptyHanded /\ NoEnd
  BY DEF TidyState
<1>2. Kept(scenario)' /\ (c.cmd = "PortDisable" => c.arg # "out")
  BY <1>1, ScriptKept
<1>3. cmdQueue = <<>> /\ cmdPc = "idle" /\ cmdQueue' = <<c>>
  BY <1>1 DEF SendCommand, Kept, Quiet
<1>4. DOMAIN cmdQueue' = {1} /\ cmdQueue'[1] = c /\ Len(cmdQueue') = 1
  BY <1>3
<1>5. c.cmd = "StateSet" => eNewState' = c.arg
  BY DEF SendCommand
<1>6. c.cmd # "StateSet" => eNewState' = eNewState
  BY DEF SendCommand
<1>7. UNCHANGED <<cmdPc, eCurState, outBufferUseFlag, bStartEoS, pInputPortQueue, etb>>
  BY DEF SendCommand
<1>8. OneCommand'
  <2>1. Steady' => c.cmd # "StateSet"
    BY <1>4 DEF Steady
  <2>2. Steady
    BY <1>3 DEF Steady
  <2> QED
    BY <1>1, <1>2, <1>3, <1>4, <1>5, <1>6, <1>7, <2>1, <2>2 DEF OneCommand, ToExecuting
<1>9. EmptyHanded'
  <2>1. CASE c.cmd = "StateSet" /\ eNewState = "Executing"
    <3>1. \A b \in OutBuffers : lent[b] = 0
      BY <1>1, <2>1 DEF SendCommand, Kept
    <3>2. HeldOutputs = outBufferUseFlag /\ outBufferUseFlag \subseteq OutBuffers
      BY DEF HeldOutputs, TypeOK
    <3>3. \A b \in outBufferUseFlag : lent[b] = 1
      BY <3>2 DEF HeldByOneSide, TypeOK
    <3>4. outBufferUseFlag = {}
      BY <3>1, <3>2, <3>3
    <3> QED
      BY <1>7, <3>4 DEF EmptyHanded
  <2>2. CASE c.cmd # "StateSet" \/ eNewState # "Executing"
    BY <1>1, <1>3, <1>6, <1>7, <2>2 DEF EmptyHanded, ToIdle
  <2> QED
    BY <2>1, <2>2
<1> QED
  BY <1>1, <1>2, <1>7, <1>8, <1>9 DEF NoEnd

\* Steps that leave the commands and the places alone and hold no more outputs.
LEMMA TidyKept ==
  ASSUME TidyState, UNCHANGED <<scenario, cmdQueue, cmdPc, eNewState, eCurState>>,
         ~ bEnableThumbNailMode /\ Kept(scenario) /\ NoEnd => NoEnd',
         outBufferUseFlag' \subseteq outBufferUseFlag
  PROVE  TidyState'
BY DEF TidyState, bEnableThumbNailMode, OneCommand, EmptyHanded, Steady

LEMMA TidyClient ==
  ASSUME TypeOK, Phases, InRecords, HeldByOneSide, TidyState, Client PROVE TidyState'
<1> USE DEF requestVars, commandVars, threadVars, bufferSems, portVars, inVars, outVars, streamVars,
            vpuVars
<1>1. ASSUME NEW c \in Commands, SendCommand(c) PROVE TidyState'
  BY <1>1, TidySend
<1>2. ASSUME NEW p, NEW b, UseBuffer(p, b) \/ AllocateBuffer(p, b) \/ FreeBuffer(p, b)
      PROVE  TidyState'
  BY <1>2, TidyKept DEF UseBuffer, AllocateBuffer, Register, FreeBuffer, NoEnd
<1>3. ASSUME NEW b \in InBuffers, NEW d \in scenario.payloads, EmptyThisBuffer(b, d)
      PROVE  TidyState'
  <2>1. etb' = <<[buf |-> b, data |-> d]>> /\ DOMAIN etb' = {1} /\ etb'[1].data = d
    BY <1>3 DEF EmptyThisBuffer
  <2>2. Kept(scenario) => d \notin EosKinds
    BY DEF Kept
  <2> QED
    BY <1>3, <2>1, <2>2, TidyKept DEF EmptyThisBuffer, NoEnd
<1>4. CASE EmptyThisBufferPush
  <2>1. /\ etb \in Seq(InputType) /\ pInputPortQueue \in Seq(InputType) /\ Len(etb) = 1
        /\ etb[1] \in InputType
    <3>1. etb # <<>> /\ Len(etb) <= 1
      BY <1>4 DEF EmptyThisBufferPush, InRecords
    <3>2. Len(etb) \in Nat /\ (Len(etb) = 0 => etb = <<>>)
      BY TypeQueues, EmptySeq
    <3> DEFINE n == Len(etb)
    <3>3. n \in Nat /\ n <= 1 /\ n # 0
      BY <3>1, <3>2
    <3> HIDE DEF n
    <3>4. n = 1
      BY <3>3
    <3> QED
      BY <3>1, <3>4, TypeQueues DEF n
  <2>2. NoEnd => NoEnd'
    <3>1. CASE pInputPortQueue' = Append(pInputPortQueue, etb[1])
      <4>1. \A i \in DOMAIN pInputPortQueue' :
               pInputPortQueue'[i] = etb[1] \/ (i \in DOMAIN pInputPortQueue /\ pInputPortQueue'[i] = pInputPortQueue[i])
        BY <2>1, <3>1, AppendProperties
      <4>2. 1 \in DOMAIN etb /\ etb' = <<>> /\ bStartEoS' = bStartEoS
        BY <1>4, <2>1 DEF EmptyThisBufferPush
      <4> QED
        BY <4>1, <4>2 DEF NoEnd
    <3> QED
      BY <1>4, <3>1 DEF EmptyThisBufferPush, NoEnd
  <2> QED
    BY <1>4, <2>2, TidyKept DEF EmptyThisBufferPush
<1>5. ASSUME NEW b, FillThisBuffer(b) PROVE TidyState'
  <2>1. UNCHANGED <<scenario, cmdQueue, cmdPc, eNewState, eCurState, bStartEoS, pInputPortQueue, etb>>
    BY <1>5 DEF FillThisBuffer
  <2> SUFFICES ASSUME ~ bEnableThumbNailMode PROVE EmptyHanded'
    BY <2>1 DEF TidyState, bEnableThumbNailMode, OneCommand, NoEnd, Steady
  <2>2. Kept(scenario) /\ OneCommand
    BY DEF TidyState
  <2>3. eNewState \in {"Executing", "Pause"} /\ Settled
    BY <1>5, <2>2 DEF FillThisBuffer, Streaming, Kept
  <2>5. Steady
    BY <2>3, TypeCommands DEF Settled, Steady
  <2>4. cmdPc = "idle" /\ (eCurState = "Executing" => eNewState = "Executing")
    BY <2>2, <2>3, <2>5 DEF Steady, OneCommand
  <2> QED
    BY <2>1, <2>4 DEF EmptyHanded, ToIdle
<1> QED
  BY <1>1, <1>2, <1>3, <1>4, <1>5 DEF Client

LEMMA TidyBufThread == ASSUME TypeOK, TidyState, BufThread PROVE TidyState'
<1> USE DEF requestVars, commandVars, threadVars, bufferSems, dataVars, portVars, inVars, outVars,
            streamVars, vpuVars, BufGoto
<1>1. CASE BufBorn \/ BufOuter \/ BufPendCtrl \/ BufInner \/ BufPendChange
             \/ BufStop \/ BufRun \/ BufDisabled \/ BufEnabled \/ BufLock
  BY <1>1, TidyKept
     DEF BufBorn, BufOuter, BufPendCtrl, BufInner, BufPendChange, BufStop, BufRun, BufDisabled, BufEnabled, BufLock, NoEnd
<1>2. CASE NoDecoding \/ NoEos \/ EosTooEarly
  BY <1>2, TidyKept DEF NoDecoding, NoEos, EosTooEarly, NoEnd
<1>3. CASE DecodeNothing \/ LearnSequence \/ InitializeFails \/ DecodeUnready \/ Decode
  <2>1. PICK S : Consume(S)
    BY <1>3 DEF DecodeNothing, LearnSequence, InitializeFails, DecodeUnready, Decode
  <2>2. UNCHANGED <<scenario, cmdQueue, cmdPc, eNewState, eCurState, etb>>
    BY <2>1 DEF Consume
  <2>3. outBufferUseFlag' \subseteq outBufferUseFlag
    BY <1>3
       DEF DecodeNothing, LearnSequence, InitializeFails, DecodeUnready, Decode, Deliver
  <2>4. NoEnd => NoEnd'
    <3>1. pInputPortQueue \in Seq(InputType) /\ pInputPortQueue # <<>>
      BY <2>1, TypeQueues DEF Consume, CanDecode
    <3>2. /\ Input = pInputPortQueue[1] /\ 1 \in DOMAIN pInputPortQueue
          /\ \A i \in DOMAIN Tail(pInputPortQueue) :
                i + 1 \in DOMAIN pInputPortQueue /\ Tail(pInputPortQueue)[i] = pInputPortQueue[i + 1]
      BY <3>1, HeadTailProperties DEF Input
    <3>3. pInputPortQueue' = Tail(pInputPortQueue) /\ bStartEoS' = Ends
      BY <2>1 DEF Consume
    <3> QED
      BY <2>2, <3>2, <3>3 DEF NoEnd, Ends, EosKinds
  <2> QED
    BY <2>2, <2>3, <2>4, TidyKept
<1>4. CASE EosPicture \/ EosMark
  <2>1. outBufferUseFlag' \subseteq outBufferUseFlag
    BY <1>4 DEF EosPicture, EosMark, Deliver
  <2>2. UNCHANGED <<scenario, cmdQueue, cmdPc, eNewState, eCurState, bStartEoS, pInputPortQueue, etb>>
    BY <1>4 DEF EosPicture, EosMark
  <2> QED
    BY <2>1, <2>2, TidyKept DEF NoEnd
<1> QED
  BY <1>1, <1>2, <1>3, <1>4 DEF BufThread

\* The command that is executed is the only one.
LEMMA PoppedCommand ==
  ASSUME TypeOK, OneCommand, NEW c \in Commands, Pop(c)
  PROVE  /\ cmdQueue' = <<>> /\ cmdPc = "idle"
         /\ c.cmd = "StateSet" => c.arg = eNewState
         /\ c.cmd = "PortDisable" => c.arg # "out"
         /\ c.cmd # "StateSet" => Steady
<1>1. cmdQueue \in Seq(Commands) /\ Len(cmdQueue) = 1 /\ c = cmdQueue[1] /\ cmdQueue' = <<>>
  <2>1. cmdQueue \in Seq(Commands) /\ cmdQueue # <<>> /\ c = Head(cmdQueue) /\ cmdQueue' = Tail(cmdQueue)
    BY DEF Pop, TypeOK
  <2>2. Len(cmdQueue) = 1
    BY <2>1 DEF OneCommand
  <2>3. Len(Tail(cmdQueue)) = 0 /\ Tail(cmdQueue) \in Seq(Commands)
    BY <2>1, <2>2, HeadTailProperties
  <2> QED
    BY <2>1, <2>2, <2>3, EmptySeq
<1>2. DOMAIN cmdQueue = {1} /\ cmdPc = "idle"
  BY <1>1 DEF Pop, At
<1>3. /\ c.cmd = "StateSet" => c.arg = eNewState
      /\ c.cmd = "PortDisable" => c.arg # "out"
  BY <1>1, <1>2 DEF OneCommand
<1>4. c.cmd # "StateSet" => Steady
  BY <1>1, <1>2 DEF Steady
<1> QED
  BY <1>1, <1>2, <1>3, <1>4

LEMMA TidyCommand == ASSUME TypeOK, Phases, TidyState, CommandThread PROVE TidyState'
<1> USE DEF requestVars, commandVars, threadVars, bufferSems, dataVars, portVars, inVars, outVars,
            streamVars, vpuVars, Goto, At, Complete
<1>0. /\ UNCHANGED <<scenario, etb, eNewState>>
      /\ bStartEoS' => bStartEoS
      /\ pInputPortQueue' \in {pInputPortQueue, <<>>}
  <2>1. ASSUME NEW c, SameState(c) \/ Unsupported(c) \/ Switch(c) \/ BeginTransition(c)
        PROVE  UNCHANGED <<scenario, etb, eNewState, bStartEoS, pInputPortQueue>>
    BY <2>1 DEF SameState, Unsupported, Switch, BeginTransition
  <2>2. ASSUME NEW c, Flush(c) \/ FlushSpins(c) \/ PortDisable(c) \/ PortEnable(c)
        PROVE  /\ UNCHANGED <<scenario, etb, eNewState>>
               /\ bStartEoS' => bStartEoS
               /\ pInputPortQueue' \in {pInputPortQueue, <<>>}
    BY <2>2 DEF Flush, FlushSpins, PortDisable, PortEnable, InputIf
  <2>3. CASE WaitAllocIn \/ WaitAllocOut \/ WaitFreeIn \/ WaitFreeOut
    BY <2>3 DEF WaitAllocIn, WaitAllocOut, WaitFreeIn, WaitFreeOut, PendAlloc
  <2>4. CASE CreateBufThread \/ Created \/ OrderExit \/ WakeForExit \/ JoinBufThread \/ CloseVideoCodec
    BY <2>4
       DEF CreateBufThread, Created, OrderExit, WakeForExit, JoinBufThread, CloseVideoCodec
  <2>5. CASE OrderRun \/ Start \/ SelectDecoder \/ OpenVpu
    BY <2>5 DEF OrderRun, Start, SelectDecoder, OpenVpu
  <2>6. CASE OrderPause \/ WakeForPause \/ ReturnBuffers \/ Paused
    BY <2>6 DEF OrderPause, WakeForPause, ReturnBuffers, Paused
  <2> QED
    BY <2>1, <2>2, <2>3, <2>4, <2>5, <2>6 DEF CommandThread, Steps
<1> SUFFICES ASSUME ~ bEnableThumbNailMode, Kept(scenario), OneCommand, EmptyHanded, NoEnd
             PROVE  OneCommand' /\ EmptyHanded'
  BY <1>0 DEF TidyState, bEnableThumbNailMode, NoEnd
<1>1. ASSUME NEW c \in Commands, Pop(c)
      PROVE  /\ cmdQueue' = <<>> /\ cmdPc = "idle"
             /\ c.cmd = "StateSet" => c.arg = eNewState
             /\ c.cmd # "StateSet" => Steady
  BY <1>1, PoppedCommand
<1>2. ASSUME cmdQueue' = <<>>, cmdPc' = cmdPc, cmdPc = "idle", eCurState' = eCurState,
             Steady \/ eCurState = eNewState,
             outBufferUseFlag' \subseteq outBufferUseFlag
      PROVE  OneCommand' /\ EmptyHanded'
  <2>1. DOMAIN cmdQueue' = {}
    BY <1>2
  <2> QED
    BY <1>0, <1>2, <2>1 DEF OneCommand, EmptyHanded, ToExecuting, ToIdle
<1>3. ASSUME NEW c \in Commands, SameState(c) PROVE OneCommand' /\ EmptyHanded'
  BY <1>1, <1>2, <1>3 DEF SameState
<1>4. ASSUME NEW c \in Commands, Flush(c) \/ PortDisable(c) \/ PortEnable(c)
      PROVE  OneCommand' /\ EmptyHanded'
  BY <1>1, <1>2, <1>4 DEF Flush, PortDisable, PortEnable, ClearFlags, FlushOutput
<1>5. ASSUME NEW c \in Commands, Unsupported(c) PROVE OneCommand' /\ EmptyHanded'
  <2>1. /\ cmdQueue' = <<>> /\ DOMAIN cmdQueue' = {} /\ cmdPc = "idle" /\ cmdPc' = "idle"
        /\ UNCHANGED <<eCurState, outBufferUseFlag>> /\ <<eCurState, eNewState>> \notin Supported
    BY <1>1, <1>5 DEF Unsupported
  <2> QED
    BY <1>0, <2>1 DEF OneCommand, EmptyHanded, ToExecuting, ToIdle, Supported
<1>6. ASSUME NEW c \in Commands, Switch(c) PROVE OneCommand' /\ EmptyHanded'
  <2>1. /\ cmdQueue' = <<>> /\ DOMAIN cmdQueue' = {} /\ cmdPc = "idle" /\ cmdPc' = "idle"
        /\ outBufferUseFlag' = outBufferUseFlag /\ eCurState' = eNewState
    BY <1>1, <1>6 DEF Switch
  <2> QED
    BY <1>0, <2>1 DEF OneCommand, EmptyHanded, ToExecuting, ToIdle
<1>7. ASSUME NEW c \in Commands, BeginTransition(c) PROVE OneCommand' /\ EmptyHanded'
  <2>1. /\ cmdQueue' = <<>> /\ DOMAIN cmdQueue' = {} /\ cmdPc = "idle"
        /\ UNCHANGED <<eCurState, outBufferUseFlag>>
        /\ cmdPc' \in {"allocIn", "exit", "run", "pause"}
        /\ cmdPc' = "run" => eNewState = "Executing"
        /\ cmdPc' = "pause" => eCurState = "Executing" /\ eNewState = "Idle"
    BY <1>1, <1>7 DEF BeginTransition, FirstPlace
  <2> QED
    BY <1>0, <2>1 DEF OneCommand, EmptyHanded, ToExecuting, ToIdle, Steady
<1>8. ASSUME NEW c \in Commands, FlushSpins(c) PROVE OneCommand' /\ EmptyHanded'
  <2>1. cmdQueue' = <<>> /\ DOMAIN cmdQueue' = {} /\ cmdPc' = "spin"
    BY <1>1, <1>8 DEF FlushSpins
  <2> QED
    BY <1>0, <2>1 DEF OneCommand, EmptyHanded, ToExecuting, ToIdle, Steady
<1>9. ASSUME Steps PROVE OneCommand' /\ EmptyHanded'
  <2>0. cmdPc # "idle" /\ cmdQueue' = cmdQueue /\ cmdQueue = <<>> /\ DOMAIN cmdQueue = {}
    <3>1. cmdPc # "idle" /\ cmdQueue' = cmdQueue
      BY <1>9
         DEF Steps, WaitAllocIn, WaitAllocOut, WaitFreeIn, WaitFreeOut, PendAlloc, CreateBufThread,
             Created, OrderExit, WakeForExit, JoinBufThread, CloseVideoCodec, OrderRun, Start,
             SelectDecoder, OpenVpu, OrderPause, WakeForPause, ReturnBuffers, Paused
    <3> QED
      BY <3>1 DEF OneCommand
  <2> USE DEF OneCommand, EmptyHanded, ToExecuting, ToIdle, Steady, Phases, InTransition,
              FromLoaded, FromIdle, FromExecuting
  <2>1. CASE WaitAllocIn \/ WaitAllocOut \/ WaitFreeIn \/ WaitFreeOut
    BY <1>0, <2>0, <2>1 DEF WaitAllocIn, WaitAllocOut, WaitFreeIn, WaitFreeOut, PendAlloc
  <2>2. CASE CreateBufThread \/ Created \/ OrderExit \/ WakeForExit \/ JoinBufThread \/ CloseVideoCodec
    BY <1>0, <2>0, <2>2
       DEF CreateBufThread, Created, OrderExit, WakeForExit, JoinBufThread, CloseVideoCodec
  <2>3. CASE OrderRun \/ Start \/ SelectDecoder \/ OpenVpu
    BY <1>0, <2>0, <2>3 DEF OrderRun, Start, SelectDecoder, OpenVpu
  <2>4. CASE OrderPause \/ WakeForPause \/ Paused
    BY <1>0, <2>0, <2>4 DEF OrderPause, WakeForPause, Paused
  <2>5. CASE ReturnBuffers
    <3>1. outBufferUseFlag' = {} /\ cmdPc' = "paused" /\ cmdPc = "return" /\ eCurState' = eCurState
      BY <2>5 DEF ReturnBuffers, ClearFlags
    <3> QED
      BY <1>0, <2>0, <3>1
  <2> QED
    BY <1>9, <2>1, <2>2, <2>3, <2>4, <2>5 DEF Steps
<1> QED
  BY <1>3, <1>4, <1>5, <1>6, <1>7, <1>8, <1>9 DEF CommandThread

LEMMA TidyStep ==
  ASSUME TypeOK, Phases, InRecords, HeldByOneSide, TidyState, [Next]_vars PROVE TidyState'
<1>1. CASE UNCHANGED vars
  BY <1>1, TidyKept
     DEF vars, requestVars, commandVars, dataVars, inVars, outVars, streamVars, NoEnd
<1> QED
  BY <1>1, TidyClient, TidyCommand, TidyBufThread DEF Next

\* A sequence without duplicates, less its first n elements.
Behind(s, n) == Elements(s) \ {s[i] : i \in 1 .. n}

LEMMA Dropped ==
  ASSUME NEW S, NEW s \in Seq(S), NEW t \in Seq(S), NEW n \in 0 .. Len(s), Distinct(s),
         Len(t) = Len(s) - n, \A i \in 1 .. Len(t) : t[i] = s[i + n]
  PROVE  Distinct(t) /\ Elements(t) = Behind(s, n)
<1>1. DOMAIN s = 1 .. Len(s) /\ DOMAIN t = 1 .. Len(t) /\ Len(s) \in Nat /\ Len(t) \in Nat
  OBVIOUS
<1>2. \A i \in DOMAIN t : i + n \in DOMAIN s /\ t[i] = s[i + n] /\ i + n \notin 1 .. n
  BY <1>1
<1>3. Distinct(t)
  BY <1>1, <1>2 DEF Distinct
<1>4. ASSUME NEW j \in DOMAIN t PROVE t[j] \in Behind(s, n)
  <2>1. t[j] = s[j + n] /\ s[j + n] \in Elements(s) /\ j + n \in DOMAIN s
    BY <1>2 DEF Elements
  <2>2. ASSUME NEW i \in 1 .. n PROVE s[i] # s[j + n]
    <3>1. i \in DOMAIN s /\ j + n \in DOMAIN s /\ i # j + n
      BY <1>1, <1>2, <2>2
    <3> QED
      BY <3>1 DEF Distinct
  <2> QED
    BY <2>1, <2>2 DEF Behind
<1>5. ASSUME NEW x \in Behind(s, n) PROVE x \in Elements(t)
  <2>1. PICK j \in DOMAIN s : x = s[j]
    BY <1>5 DEF Elements, Behind
  <2>2. j \notin 1 .. n
    BY <1>5, <2>1 DEF Behind
  <2>3. j - n \in DOMAIN t /\ (j - n) + n = j
    BY <1>1, <2>1, <2>2
  <2>4. x = t[j - n]
    BY <1>2, <2>1, <2>3
  <2> QED
    BY <2>3, <2>4 DEF Elements
<1> QED
  BY <1>3, <1>4, <1>5 DEF Elements

LEMMA Appended ==
  ASSUME NEW S, NEW s \in Seq(S), NEW e \in S, Distinct(s), e \notin Elements(s)
  PROVE  Distinct(Append(s, e)) /\ Elements(Append(s, e)) = Elements(s) \cup {e}
<1> DEFINE t == Append(s, e)
<1>1. /\ t \in Seq(S) /\ Len(t) = Len(s) + 1 /\ t[Len(s) + 1] = e
      /\ \A i \in 1 .. Len(s) : t[i] = s[i]
      /\ DOMAIN s = 1 .. Len(s) /\ DOMAIN t = 1 .. Len(t) /\ Len(s) \in Nat
  BY AppendProperties
<1> HIDE DEF t
<1>2. DOMAIN t = DOMAIN s \cup {Len(s) + 1}
  BY <1>1
<1>3. Elements(t) = Elements(s) \cup {e}
  <2>1. \A x : x \in Elements(t) <=> \E i \in DOMAIN t : x = t[i]
    BY DEF Elements
  <2>2. \A x : x \in Elements(s) <=> \E i \in DOMAIN s : x = s[i]
    BY DEF Elements
  <2> QED
    BY <1>1, <1>2, <2>1, <2>2
<1>4. ASSUME NEW i \in DOMAIN s PROVE t[i] = s[i] /\ t[i] # e
  <2>1. t[i] = s[i] /\ s[i] \in Elements(s)
    BY <1>1 DEF Elements
  <2> QED
    BY <2>1
<1>5. ASSUME NEW i \in DOMAIN t, NEW j \in DOMAIN t, t[i] = t[j] PROVE i = j
  BY <1>1, <1>2, <1>4, <1>5 DEF Distinct
<1> QED
  BY <1>3, <1>5 DEF t, Distinct

LEMMA Joined ==
  ASSUME NEW S, NEW s \in Seq(S), NEW t \in Seq(S), Distinct(s), Distinct(t),
         Elements(s) \cap Elements(t) = {}
  PROVE  Distinct(s \o t) /\ Elements(s \o t) = Elements(s) \cup Elements(t)
<1> DEFINE u == s \o t
<1>1. /\ u \in Seq(S) /\ Len(u) = Len(s) + Len(t) /\ Len(s) \in Nat /\ Len(t) \in Nat
      /\ DOMAIN s = 1 .. Len(s) /\ DOMAIN t = 1 .. Len(t) /\ DOMAIN u = 1 .. Len(u)
      /\ \A i \in 1 .. Len(s) : u[i] = s[i]
      /\ \A i \in 1 .. Len(t) : u[Len(s) + i] = t[i]
  BY ConcatProperties
<1> HIDE DEF u
<1>2. ASSUME NEW i \in DOMAIN u, i \notin DOMAIN s
      PROVE  i - Len(s) \in DOMAIN t /\ u[i] = t[i - Len(s)]
  <2>1. i - Len(s) \in DOMAIN t /\ Len(s) + (i - Len(s)) = i
    BY <1>1, <1>2
  <2> QED
    BY <1>1, <2>1
<1>3. ASSUME NEW i \in DOMAIN u, NEW j \in DOMAIN u, u[i] = u[j] PROVE i = j
  <2>1. CASE i \in DOMAIN s /\ j \in DOMAIN s
    BY <1>1, <1>3, <2>1 DEF Distinct
  <2>2. CASE i \notin DOMAIN s /\ j \notin DOMAIN s
    <3>1. i - Len(s) = j - Len(s)
      BY <1>2, <1>3, <2>2 DEF Distinct
    <3> QED
      BY <1>1, <3>1
  <2>3. ASSUME NEW k \in DOMAIN s, NEW l \in DOMAIN u, l \notin DOMAIN s PROVE u[k] # u[l]
    <3>1. u[k] = s[k] /\ u[l] = t[l - Len(s)] /\ l - Len(s) \in DOMAIN t
      BY <1>1, <1>2, <2>3
    <3>2. s[k] \in Elements(s) /\ t[l - Len(s)] \in Elements(t)
      BY <3>1, <2>3 DEF Elements
    <3> QED
      BY <3>1, <3>2
  <2> QED
    BY <1>3, <2>1, <2>2, <2>3
<1>4. Elements(u) \subseteq Elements(s) \cup Elements(t)
  BY <1>1, <1>2 DEF Elements
<1>5. Elements(s) \subseteq Elements(u)
  BY <1>1 DEF Elements
<1>6. ASSUME NEW x \in Elements(t) PROVE x \in Elements(u)
  <2>1. PICK i \in DOMAIN t : x = t[i]
    BY <1>6 DEF Elements
  <2>2. Len(s) + i \in DOMAIN u
    BY <1>1, <2>1
  <2> QED
    BY <1>1, <2>1, <2>2 DEF Elements
<1> QED
  BY <1>3, <1>4, <1>5, <1>6 DEF Distinct, u

\* How often a buffer is in a sequence without duplicates.
LEMMA Occurrences ==
  ASSUME NEW S, NEW q \in Seq(S), Distinct(q), NEW b
  PROVE  Cardinality({i \in 1 .. Len(q) : q[i] = b}) = IF b \in Elements(q) THEN 1 ELSE 0
<1>1. DOMAIN q = 1 .. Len(q)
  OBVIOUS
<1>2. CASE b \in Elements(q)
  <2>1. PICK i \in DOMAIN q : q[i] = b
    BY <1>2 DEF Elements
  <2>2. {j \in 1 .. Len(q) : q[j] = b} = {i}
    BY <1>1, <2>1 DEF Distinct
  <2> QED
    BY <1>2, <2>2, FS_Singleton
<1>3. CASE b \notin Elements(q)
  <2>1. {j \in 1 .. Len(q) : q[j] = b} = {}
    BY <1>1, <1>3 DEF Elements
  <2> QED
    BY <1>3, <2>1, FS_EmptySet
<1> QED
  BY <1>2, <1>3

\* The buffers held, by the queues.
LEMMA HeadersFacts ==
  ASSUME NEW q \in Seq(InputType)
  PROVE  /\ Headers(q) \in Seq(InBuffers) /\ Len(Headers(q)) = Len(q)
         /\ DOMAIN Headers(q) = DOMAIN q /\ \A i \in DOMAIN q : Headers(q)[i] = q[i].buf
         /\ Elements(Headers(q)) = {q[i].buf : i \in 1 .. Len(q)}
<1>1. Len(q) \in Nat /\ DOMAIN q = 1 .. Len(q) /\ \A i \in 1 .. Len(q) : q[i].buf \in InBuffers
  <2>1. Len(q) \in Nat /\ DOMAIN q = 1 .. Len(q) /\ \A i \in 1 .. Len(q) : q[i] \in InputType
    BY ElementOfSeq
  <2> QED
    BY <2>1 DEF InputType
<1>2. Headers(q) \in [1 .. Len(q) -> InBuffers] /\ \A i \in 1 .. Len(q) : Headers(q)[i] = q[i].buf
  BY <1>1 DEF Headers
<1>3. Headers(q) \in Seq(InBuffers) /\ DOMAIN Headers(q) = 1 .. Len(q)
  BY <1>1, <1>2, IsASeq
<1>4. Len(Headers(q)) = Len(q)
  BY <1>1, <1>3, LenProperties
<1>5. Elements(Headers(q)) = {q[i].buf : i \in 1 .. Len(q)}
  BY <1>2, <1>3 DEF Elements
<1> QED
  BY <1>1, <1>2, <1>3, <1>4, <1>5

LEMMA InputsAre ==
  ASSUME TypeOK
  PROVE  /\ Headers(pInputPortQueue) \in Seq(InBuffers)
         /\ HeldInputs = Elements(Headers(pInputPortQueue)) /\ HeldInputs \subseteq InBuffers
<1>1. pInputPortQueue \in Seq(InputType)
  BY TypeQueues
<1>2. Headers(pInputPortQueue) \in Seq(InBuffers)
  BY <1>1, HeadersFacts
<1>3. HeldInputs = Elements(Headers(pInputPortQueue))
  BY <1>1, HeadersFacts DEF HeldInputs
<1> QED
  BY <1>2, <1>3, ElementOfSeq DEF Elements

LEMMA OutputsAre ==
  ASSUME pOutputPortQueue \in Seq(OutBuffers), OutRecords
  PROVE  /\ HeldOutputs = Elements(pOutputPortQueue) /\ HeldOutputs \subseteq OutBuffers
         /\ Elements(FlaggedQueue) \cup outBufferUseFlag = HeldOutputs
         /\ Elements(FlaggedQueue) \cap outBufferUseFlag = {}
         /\ Distinct(FlaggedQueue) /\ FlaggedQueue \in Seq(OutBuffers)
<1>1. /\ Elements(pOutputPortQueue) = {pOutputPortQueue[i] : i \in 1 .. Len(pOutputPortQueue)}
      /\ Elements(pOutputPortQueue) \subseteq OutBuffers
  BY ElementOfSeq DEF Elements
<1>2. Elements(<<>>) = {} /\ Distinct(<<>>) /\ <<>> \in Seq(OutBuffers)
  BY DEF Elements, Distinct
<1> QED
  BY <1>1, <1>2 DEF OutRecords, HeldOutputs, FlaggedQueue

LEMMA RecordsAgree == TypeOK /\ OutRecords => OutputRecordsAgree
<1> SUFFICES ASSUME TypeOK, OutRecords, ~ bEnableThumbNailMode
             PROVE  {pOutputPortQueue[i] : i \in 1 .. Len(pOutputPortQueue)} = outBufferUseFlag
  BY DEF OutRecords, OutputRecordsAgree
<1>1. DOMAIN pOutputPortQueue = 1 .. Len(pOutputPortQueue)
  BY TypeQueues
<1> QED
  BY <1>1 DEF OutRecords, Elements

\* What is handed back leaves the queues.
LEMMA HandedBack ==
  ASSUME TypeOK, HeldByOneSide, NEW q \in Seq(Buffers), NEW S, Distinct(q), Elements(q) \cap S = {},
         HandBack(q, S), Elements(q) \cup S \subseteq HeldInputs \cup HeldOutputs,
         HeldInputs' \cup HeldOutputs' = (HeldInputs \cup HeldOutputs) \ (Elements(q) \cup S)
  PROVE  HeldByOneSide'
<1>1. DOMAIN lent = Buffers /\ DOMAIN lent' = Buffers
  BY DEF TypeOK, HandBack, Buffers
<1> SUFFICES ASSUME NEW b \in Buffers
             PROVE  lent'[b] = IF b \in HeldInputs' \cup HeldOutputs' THEN 1 ELSE 0
  BY <1>1 DEF HeldByOneSide
<1>2. lent'[b] = lent[b] - (IF b \in Elements(q) THEN 1 ELSE 0) - (IF b \in S THEN 1 ELSE 0)
  BY <1>1, Occurrences DEF HandBack
<1>3. lent[b] = IF b \in HeldInputs \cup HeldOutputs THEN 1 ELSE 0
  BY <1>1 DEF HeldByOneSide
<1>4. CASE b \in Elements(q)
  BY <1>2, <1>3, <1>4
<1>5. CASE b \in S
  BY <1>2, <1>3, <1>5
<1>6. CASE b \notin Elements(q) \cup S
  BY <1>2, <1>3, <1>6
<1> QED
  BY <1>4, <1>5, <1>6

LEMMA RecordsKept ==
  ASSUME InRecords, OutRecords, HeldByOneSide, bEnableThumbNailMode' = bEnableThumbNailMode,
         UNCHANGED <<pInputPortQueue, etb, pOutputPortQueue, outBufferUseFlag, curOutBuffers, lent>>
  PROVE  InRecords' /\ OutRecords' /\ HeldByOneSide'
BY DEF InRecords, OutRecords, HeldByOneSide, HeldInputs, HeldOutputs

LEMMA RecordsInit == Init => InRecords /\ OutRecords /\ HeldByOneSide
<1> SUFFICES ASSUME Init PROVE InRecords /\ OutRecords /\ HeldByOneSide
  OBVIOUS
<1>1. /\ pInputPortQueue = <<>> /\ etb = <<>> /\ pOutputPortQueue = <<>> /\ outBufferUseFlag = {}
      /\ curOutBuffers = 0 /\ lent = [b \in InBuffers \cup OutBuffers |-> 0]
  BY DEF Init
<1>2. Len(pOutputPortQueue) = 0 /\ Elements(pOutputPortQueue) = {} /\ Distinct(pOutputPortQueue)
  BY <1>1 DEF Elements, Distinct
<1>3. HeldInputs = {} /\ HeldOutputs = {} /\ Distinct(Headers(pInputPortQueue))
  BY <1>1 DEF HeldInputs, HeldOutputs, Headers, Distinct
<1>4. InRecords
  BY <1>1, <1>3 DEF InRecords
<1>5. OutRecords
  BY <1>1, <1>2, FS_EmptySet DEF OutRecords
<1> QED
  BY <1>1, <1>3, <1>4, <1>5 DEF HeldByOneSide

LEMMA InputsAreAfter == ASSUME TypeOK' PROVE HeldInputs' = Elements(Headers(pInputPortQueue'))
<1>1. pInputPortQueue' \in Seq(InputType)
  BY DEF TypeOK, InputType
<1> QED
  BY <1>1, HeadersFacts DEF HeldInputs

LEMMA OutputsAreAfter ==
  ASSUME pOutputPortQueue' \in Seq(OutBuffers), OutRecords'
  PROVE  HeldOutputs' = Elements(pOutputPortQueue')
<1>1. Elements(pOutputPortQueue') = {pOutputPortQueue'[i] : i \in 1 .. Len(pOutputPortQueue')}
  BY ElementOfSeq DEF Elements
<1> QED
  BY <1>1 DEF OutRecords, HeldOutputs

LEMMA TailOf ==
  ASSUME NEW S, NEW s \in Seq(S), s # <<>>, Distinct(s)
  PROVE  /\ Tail(s) \in Seq(S) /\ Distinct(Tail(s)) /\ Len(Tail(s)) = Len(s) - 1
         /\ Head(s) \in Elements(s) /\ Elements(Tail(s)) = Elements(s) \ {Head(s)}
<1> DEFINE t == Tail(s)
<1>1. /\ t \in Seq(S) /\ Len(t) = Len(s) - 1 /\ Head(s) = s[1] /\ Len(s) \in Nat /\ Len(s) # 0
      /\ \A i \in 1 .. Len(t) : t[i] = s[i + 1]
      /\ DOMAIN s = 1 .. Len(s)
  BY HeadTailProperties, EmptySeq
<1> HIDE DEF t
<1>2. 1 \in 0 .. Len(s) /\ 1 \in DOMAIN s
  BY <1>1
<1>3. Distinct(t) /\ Elements(t) = Behind(s, 1)
  BY <1>1, <1>2, Dropped
<1>4. Behind(s, 1) = Elements(s) \ {s[1]}
  BY DEF Behind
<1>5. s[1] \in Elements(s)
  BY <1>2 DEF Elements
<1> QED
  BY <1>1, <1>3, <1>4, <1>5 DEF t

\* The client's calls.
LEMMA RecordsPush ==
  ASSUME TypeOK, TypeOK', InRecords, OutRecords, HeldByOneSide, EmptyThisBufferPush
  PROVE  InRecords' /\ OutRecords' /\ HeldByOneSide'
<1> USE DEF requestVars, outVars
<1>1. CASE Len(pInputPortQueue) >= QueueMax
  <2>1. pInputPortQueue' = pInputPortQueue /\ etb' = <<>> /\ lent' = lent
    <3>1. Len(pInputPortQueue) \in Nat /\ QueueMax \in Nat
      BY TypeQueues, VidDecAssumption
    <3>2. ~ (Len(pInputPortQueue) < QueueMax)
      BY <1>1, <3>1
    <3> QED
      BY <3>2 DEF EmptyThisBufferPush
  <2>2. UNCHANGED <<pOutputPortQueue, outBufferUseFlag, curOutBuffers, scenario>>
    BY DEF EmptyThisBufferPush
  <2> QED
    BY <2>1, <2>2
       DEF InRecords, OutRecords, HeldByOneSide, HeldInputs, HeldOutputs, bEnableThumbNailMode
<1>2. CASE Len(pInputPortQueue) < QueueMax
  <2> DEFINE e == etb[1]
             s == Headers(pInputPortQueue)
             t == Headers(pInputPortQueue')
  <2>1. /\ pInputPortQueue' = Append(pInputPortQueue, e) /\ etb' = <<>>
        /\ lent' = [lent EXCEPT ![e.buf] = @ + 1]
    BY <1>2 DEF EmptyThisBufferPush
  <2>2. UNCHANGED <<pOutputPortQueue, outBufferUseFlag, curOutBuffers, scenario>>
    BY DEF EmptyThisBufferPush
  <2>3. e \in InputType /\ e.buf \in InBuffers /\ e.buf \notin HeldInputs
    <3>1. e \in InputType
      BY TypeQueues DEF EmptyThisBufferPush
    <3>2. etb \in Seq(InputType) /\ etb # <<>>
      BY TypeQueues DEF EmptyThisBufferPush
    <3>3. 1 \in DOMAIN etb
      BY <3>2, EmptySeq
    <3> QED
      BY <3>1, <3>3 DEF InRecords, InputType
  <2>4. pInputPortQueue \in Seq(InputType)
    BY TypeQueues
  <2>5. s \in Seq(InBuffers) /\ Len(s) = Len(pInputPortQueue)
    BY <2>4, HeadersFacts
  <2>6. t = Append(s, e.buf)
    <3>1. pInputPortQueue' \in Seq(InputType)
      BY <2>1, <2>3, <2>4, AppendProperties
    <3>2. t \in Seq(InBuffers) /\ Len(t) = Len(pInputPortQueue')
      BY <3>1, HeadersFacts
    <3>3. Append(s, e.buf) \in Seq(InBuffers) /\ Len(Append(s, e.buf)) = Len(s) + 1
      BY <2>3, <2>5, AppendProperties
    <3>4. Len(t) = Len(Append(s, e.buf))
      BY <2>1, <2>3, <2>4, <2>5, <3>2, <3>3, AppendProperties
    <3>5. ASSUME NEW i \in 1 .. Len(t) PROVE t[i] = Append(s, e.buf)[i]
      <4>1. Len(t) = Len(s) + 1 /\ Len(s) \in Nat
        BY <2>5, <3>3, <3>4
      <4>2. CASE i = Len(s) + 1
        <5>1. pInputPortQueue'[i] = e /\ Append(s, e.buf)[i] = e.buf
          BY <2>1, <2>3, <2>4, <2>5, <4>2, AppendProperties
        <5>2. i \in 1 .. Len(pInputPortQueue')
          BY <3>2, <3>5
        <5> QED
          BY <5>1, <5>2 DEF Headers
      <4>3. CASE i \in 1 .. Len(s)
        <5>1. pInputPortQueue'[i] = pInputPortQueue[i] /\ Append(s, e.buf)[i] = s[i]
          BY <2>1, <2>3, <2>4, <2>5, <4>3, AppendProperties
        <5>2. i \in 1 .. Len(pInputPortQueue') /\ i \in 1 .. Len(pInputPortQueue)
          BY <2>5, <3>2, <3>5, <4>3
        <5> QED
          BY <5>1, <5>2 DEF Headers
      <4> QED
        BY <3>5, <4>1, <4>2, <4>3
    <3> QED
      BY <3>2, <3>3, <3>4, <3>5, SeqEqual
  <2>7. HeldInputs = Elements(s) /\ HeldInputs' = Elements(t)
    BY InputsAre, InputsAreAfter
  <2> HIDE DEF s, t, e
  <2>8. Distinct(t) /\ Elements(t) = Elements(s) \cup {e.buf}
    BY <2>3, <2>5, <2>6, <2>7, Appended DEF InRecords, s
  <2>9. HeldOutputs' = HeldOutputs /\ HeldOutputs \subseteq OutBuffers
    BY <2>2, OutputsAre, TypeQueues DEF HeldOutputs, bEnableThumbNailMode
  <2>10. HeldByOneSide'
    <3>1. e.buf \notin HeldInputs \cup HeldOutputs /\ e.buf \in DOMAIN lent
      BY <2>3, <2>9, VidDecAssumption DEF TypeOK
    <3>2. HeldInputs' \cup HeldOutputs' = HeldInputs \cup HeldOutputs \cup {e.buf}
      BY <2>7, <2>8, <2>9
    <3> QED
      BY <2>1, <3>1, <3>2 DEF HeldByOneSide
  <2>11. InRecords'
    BY <2>1, <2>8 DEF InRecords, t
  <2> QED
    BY <2>2, <2>10, <2>11 DEF OutRecords, bEnableThumbNailMode
<1> QED
  BY <1>1, <1>2, TypeQueues, VidDecAssumption

LEMMA RecordsFill ==
  ASSUME TypeOK, InRecords, OutRecords, HeldByOneSide, NEW b \in OutBuffers, FillThisBuffer(b)
  PROVE  InRecords' /\ OutRecords' /\ HeldByOneSide'
<1> USE DEF requestVars, inVars, outVars
<1>1. UNCHANGED <<pInputPortQueue, etb, scenario>>
  BY DEF FillThisBuffer
<1>2. CASE UNCHANGED <<outVars, displayed, lent>>
  BY <1>1, <1>2, RecordsKept DEF bEnableThumbNailMode
<1>3. CASE \/ FillThumbnail(b) /\ bEnableThumbNailMode
           \/ FillFrame(b) /\ ~ bEnableThumbNailMode
  <2>1. pOutputPortQueue' = Append(pOutputPortQueue, b) /\ lent' = [lent EXCEPT ![b] = @ + 1]
    BY <1>3 DEF FillThumbnail, FillFrame
  <2>2. pOutputPortQueue \in Seq(OutBuffers)
    BY TypeQueues
  <2>3. HeldOutputs = Elements(pOutputPortQueue) /\ b \in DOMAIN lent
    BY <2>2, OutputsAre DEF TypeOK
  <2>4. b \notin HeldInputs \cup HeldOutputs
    BY <2>3 DEF FillThisBuffer, HeldByOneSide
  <2>5. /\ Distinct(pOutputPortQueue')
        /\ Elements(pOutputPortQueue') = Elements(pOutputPortQueue) \cup {b}
    BY <2>1, <2>2, <2>3, <2>4, Appended DEF OutRecords
  <2>6. Len(pOutputPortQueue') = Len(pOutputPortQueue) + 1 /\ pOutputPortQueue' \in Seq(OutBuffers)
    BY <2>1, <2>2, AppendProperties
  <2>7. OutRecords'
    <3>1. CASE bEnableThumbNailMode
      BY <1>1, <1>3, <2>5, <3>1 DEF OutRecords, FillThumbnail, bEnableThumbNailMode
    <3>2. CASE ~ bEnableThumbNailMode
      <4>1. outBufferUseFlag' = outBufferUseFlag \cup {b} /\ curOutBuffers' = curOutBuffers + 1
        BY <1>3, <3>2 DEF FillFrame
      <4>2. b \notin outBufferUseFlag /\ outBufferUseFlag = Elements(pOutputPortQueue)
        BY <2>3, <2>4, <3>2 DEF OutRecords
      <4>3. IsFiniteSet(outBufferUseFlag)
        BY CurType DEF TypeOK
      <4>4. Cardinality(outBufferUseFlag') = Cardinality(outBufferUseFlag) + 1
        BY <4>1, <4>2, <4>3, FS_AddElement
      <4> QED
        BY <1>1, <2>5, <2>6, <3>2, <4>1, <4>2, <4>4 DEF OutRecords, bEnableThumbNailMode
    <3> QED
      BY <3>1, <3>2
  <2>8. HeldInputs' = HeldInputs
    BY <1>1 DEF HeldInputs
  <2>9. HeldOutputs' = HeldOutputs \cup {b}
    <3>1. HeldOutputs' = Elements(pOutputPortQueue')
      BY <2>6, <2>7, OutputsAreAfter
    <3> QED
      BY <2>3, <2>5, <3>1
  <2>10. HeldByOneSide'
    BY <2>1, <2>3, <2>4, <2>8, <2>9 DEF HeldByOneSide
  <2> QED
    BY <1>1, <2>7, <2>8, <2>10 DEF InRecords
<1> QED
  BY <1>2, <1>3 DEF FillThisBuffer

LEMMA RecordsClient ==
  ASSUME TypeOK, TypeOK', InRecords, OutRecords, HeldByOneSide, Client
  PROVE  InRecords' /\ OutRecords' /\ HeldByOneSide'
<1> USE DEF requestVars, dataVars, inVars, outVars
<1>1. ASSUME NEW c, SendCommand(c) PROVE InRecords' /\ OutRecords' /\ HeldByOneSide'
  BY <1>1, RecordsKept, ScriptKept DEF SendCommand
<1>2. ASSUME NEW p, NEW b, UseBuffer(p, b) \/ AllocateBuffer(p, b) \/ FreeBuffer(p, b)
      PROVE  InRecords' /\ OutRecords' /\ HeldByOneSide'
  BY <1>2, RecordsKept DEF UseBuffer, AllocateBuffer, Register, FreeBuffer, bEnableThumbNailMode
<1>3. ASSUME NEW b \in InBuffers, NEW d, EmptyThisBuffer(b, d)
      PROVE  InRecords' /\ OutRecords' /\ HeldByOneSide'
  <2>1. UNCHANGED <<pInputPortQueue, pOutputPortQueue, outBufferUseFlag, curOutBuffers, lent, scenario>>
    BY <1>3 DEF EmptyThisBuffer
  <2>2. etb' = <<[buf |-> b, data |-> d]>> /\ DOMAIN etb' = {1} /\ etb'[1].buf = b /\ Len(etb') = 1
    BY <1>3 DEF EmptyThisBuffer
  <2>3. b \notin HeldInputs
    BY <1>3 DEF EmptyThisBuffer, HeldByOneSide, TypeOK
  <2> QED
    BY <2>1, <2>2, <2>3
       DEF InRecords, OutRecords, HeldByOneSide, HeldInputs, HeldOutputs, bEnableThumbNailMode
<1> QED
  BY <1>1, <1>2, <1>3, RecordsPush, RecordsFill DEF Client

\* Buffers are returned: all inputs, all outputs, or both.
LEMMA RecordsReturn ==
  ASSUME TypeOK, TypeOK', InRecords, OutRecords, HeldByOneSide, NEW i \in BOOLEAN, NEW o \in BOOLEAN,
         bEnableThumbNailMode' = bEnableThumbNailMode, etb' = etb, InputIf(i),
         HandBack(InputBack(i) \o (IF o THEN FlaggedQueue ELSE <<>>),
                  IF o THEN outBufferUseFlag ELSE {}),
         o => /\ pOutputPortQueue' = <<>> /\ outBufferUseFlag' = {}
              /\ ~ bEnableThumbNailMode =>
                   curOutBuffers' = curOutBuffers - Cardinality(outBufferUseFlag),
         ~ o => UNCHANGED <<pOutputPortQueue, outBufferUseFlag, curOutBuffers>>
  PROVE  InRecords' /\ OutRecords' /\ HeldByOneSide'
<1> DEFINE s == InputBack(i)
           t == IF o THEN FlaggedQueue ELSE <<>>
           S == IF o THEN outBufferUseFlag ELSE {}
           Out == IF o THEN HeldOutputs ELSE {}
           In == IF i THEN HeldInputs ELSE {}
<1>1. Elements(<<>>) = {} /\ Distinct(<<>>) /\ <<>> \in Seq(InBuffers) /\ <<>> \in Seq(OutBuffers)
  BY DEF Elements, Distinct
<1>2. s \in Seq(InBuffers) /\ Distinct(s) /\ Elements(s) = In /\ In \subseteq InBuffers
  BY <1>1, InputsAre DEF InputBack, InRecords
<1>3. /\ t \in Seq(OutBuffers) /\ Distinct(t) /\ Elements(t) \cup S = Out
      /\ Elements(t) \cap S = {} /\ Out \subseteq OutBuffers
  BY <1>1, OutputsAre, TypeQueues
<1>4. HandBack(s \o t, S)
  OBVIOUS
<1>5. In \subseteq HeldInputs /\ Out \subseteq HeldOutputs
  OBVIOUS
<1>6. HeldInputs' = HeldInputs \ In /\ Distinct(Headers(pInputPortQueue'))
  <2>1. CASE i
    <3>1. pInputPortQueue' = <<>>
      BY <2>1 DEF InputIf
    <3>2. HeldInputs' = {} /\ Headers(pInputPortQueue') = <<>>
      BY <3>1 DEF HeldInputs, Headers
    <3> QED
      BY <1>1, <2>1, <3>2
  <2>2. CASE ~ i
    BY <2>2 DEF InputIf, HeldInputs, InRecords
  <2> QED
    BY <2>1, <2>2
<1>7. OutRecords' /\ HeldOutputs' = HeldOutputs \ Out
  <2>1. CASE o
    <3>1. outBufferUseFlag' = {} /\ pOutputPortQueue' = <<>> /\ Len(pOutputPortQueue') = 0
      BY <2>1
    <3>2. ~ bEnableThumbNailMode => curOutBuffers' = 0
      <4>1. Cardinality(outBufferUseFlag) \in Nat
        BY CurType DEF TypeOK
      <4> QED
        BY <2>1, <4>1 DEF OutRecords
    <3>3. OutRecords'
      BY <1>1, <3>1, <3>2, FS_EmptySet DEF OutRecords
    <3>4. HeldOutputs' = {}
      BY <1>1, <3>1, <3>3, OutputsAreAfter
    <3> QED
      BY <2>1, <3>3, <3>4
  <2>2. CASE ~ o
    BY <2>2 DEF OutRecords, HeldOutputs
  <2> QED
    BY <2>1, <2>2
<1> HIDE DEF s, t, S, In, Out
<1>8. s \in Seq(Buffers) /\ t \in Seq(Buffers)
  BY <1>2, <1>3, SeqMonotonic DEF Buffers
<1>9. Elements(s) \cap Elements(t) = {} /\ Elements(s) \cap S = {}
  BY <1>2, <1>3, VidDecAssumption
<1>10. s \o t \in Seq(Buffers) /\ Distinct(s \o t) /\ Elements(s \o t) = Elements(s) \cup Elements(t)
  BY <1>2, <1>3, <1>8, <1>9, Joined, ConcatProperties
<1>11. HeldByOneSide'
  <2> DEFINE q == s \o t
  <2>1. q \in Seq(Buffers) /\ Distinct(q) /\ HandBack(q, S)
    BY <1>4, <1>10
  <2>2. Elements(q) \cap S = {} /\ Elements(q) \cup S = In \cup Out
    BY <1>2, <1>3, <1>9, <1>10
  <2>3. Elements(q) \cup S \subseteq HeldInputs \cup HeldOutputs
    BY <1>5, <2>2
  <2>4. HeldInputs' \cup HeldOutputs' = (HeldInputs \cup HeldOutputs) \ (Elements(q) \cup S)
    <3>1. HeldInputs \cap Out = {} /\ HeldOutputs \cap In = {}
      BY <1>2, <1>3, InputsAre, OutputsAre, TypeQueues, VidDecAssumption
    <3> QED
      BY <1>6, <1>7, <2>2, <3>1
  <2> HIDE DEF q
  <2> QED
    BY <2>1, <2>2, <2>3, <2>4, HandedBack
<1>12. InRecords'
  <2>1. HeldInputs' \subseteq HeldInputs
    BY <1>6
  <2> QED
    BY <1>6, <2>1 DEF InRecords
<1> QED
  BY <1>7, <1>11, <1>12

LEMMA RecordsCommand ==
  ASSUME TypeOK, TypeOK', InRecords, OutRecords, HeldByOneSide, Phases, TidyState, CommandThread
  PROVE  InRecords' /\ OutRecords' /\ HeldByOneSide'
<1> USE DEF requestVars, dataVars, portVars, inVars, outVars
<1> DEFINE Goal == InRecords' /\ OutRecords' /\ HeldByOneSide'
<1>1. ASSUME NEW c, SameState(c) \/ Unsupported(c) \/ Switch(c) \/ BeginTransition(c) \/ PortEnable(c)
      PROVE  Goal
  BY <1>1, RecordsKept
     DEF SameState, Unsupported, Switch, BeginTransition, PortEnable, bEnableThumbNailMode
<1>2. ASSUME NEW c \in Commands, Flush(c) PROVE Goal
  <2> DEFINE i == Meant("in", c.arg)
             o == Meant("out", c.arg)
  <2>1. i \in BOOLEAN /\ o \in BOOLEAN
    BY DEF Meant
  <2>2. /\ InputIf(i) /\ etb' = etb /\ bEnableThumbNailMode' = bEnableThumbNailMode
        /\ HandBack(InputBack(i) \o (IF o THEN FlaggedQueue ELSE <<>>),
                    IF o THEN outBufferUseFlag ELSE {})
        /\ IF o THEN FlushOutput ELSE UNCHANGED <<pOutputPortQueue, outBufferUseFlag, curOutBuffers>>
    BY <1>2 DEF Flush, bEnableThumbNailMode
  <2> HIDE DEF i, o
  <2> QED
    BY <2>1, <2>2, RecordsReturn DEF FlushOutput
<1>3. ASSUME NEW c \in Commands, FlushSpins(c) PROVE Goal
  <2> DEFINE i == Meant("in", c.arg)
  <2>1. i \in BOOLEAN
    BY DEF Meant
  <2>2. /\ InputIf(i) /\ etb' = etb /\ bEnableThumbNailMode' = bEnableThumbNailMode
        /\ HandBack(InputBack(i), {})
        /\ UNCHANGED <<pOutputPortQueue, outBufferUseFlag, curOutBuffers>>
    BY <1>3 DEF FlushSpins, bEnableThumbNailMode
  <2> HIDE DEF i
  <2>3. InputBack(i) \o <<>> = InputBack(i)
    <3>1. InputBack(i) \in Seq(Buffers)
      BY BackType
    <3> QED
      BY <3>1, ConcatEmptySeq
  <2>4. HandBack(InputBack(i) \o (IF FALSE THEN FlaggedQueue ELSE <<>>),
                 IF FALSE THEN outBufferUseFlag ELSE {})
    BY <2>2, <2>3
  <2> QED
    BY <2>1, <2>2, <2>4, RecordsReturn
<1>4. ASSUME NEW c \in Commands, PortDisable(c) PROVE Goal
  <2> DEFINE i == Meant("in", c.arg)
             o == Meant("out", c.arg)
  <2>1. i \in BOOLEAN /\ o \in BOOLEAN /\ (o <=> c.arg \in {"out", "all"})
    BY DEF Meant
  <2>2. /\ InputIf(i) /\ etb' = etb /\ bEnableThumbNailMode' = bEnableThumbNailMode
        /\ HandBack(InputBack(i) \o (IF o THEN FlaggedQueue ELSE <<>>),
                    IF o THEN outBufferUseFlag ELSE {})
        /\ c.arg = "out" => ClearFlags
        /\ c.arg = "all" => FlushOutput
        /\ c.arg \notin {"out", "all"} =>
             UNCHANGED <<pOutputPortQueue, outBufferUseFlag, curOutBuffers>>
    BY <1>4 DEF PortDisable, bEnableThumbNailMode
  <2>3. ~ bEnableThumbNailMode => c.arg # "out"
    BY <1>4, PoppedCommand DEF PortDisable, TidyState
  <2>4. bEnableThumbNailMode => outBufferUseFlag = {}
    BY DEF OutRecords
  <2> HIDE DEF i, o
  <2> QED
    BY <2>1, <2>2, <2>3, <2>4, RecordsReturn DEF FlushOutput, ClearFlags
<1>5. CASE ReturnBuffers
  <2>1. /\ InputIf(TRUE) /\ etb' = etb /\ bEnableThumbNailMode' = bEnableThumbNailMode
        /\ HandBack(InputBack(TRUE) \o (IF TRUE THEN FlaggedQueue ELSE <<>>),
                    IF TRUE THEN outBufferUseFlag ELSE {})
    BY <1>5 DEF ReturnBuffers, InputIf, InputBack, bEnableThumbNailMode
  <2>2. outBufferUseFlag = {}
    BY <1>5 DEF ReturnBuffers, OutRecords, TidyState, EmptyHanded, ToIdle, At
  <2>3. pOutputPortQueue' = <<>> /\ outBufferUseFlag' = {}
    <3>1. CASE bEnableThumbNailMode
      BY <1>5, <2>2, <3>1 DEF ReturnBuffers, ClearFlags
    <3>2. CASE ~ bEnableThumbNailMode
      <4>1. Len(pOutputPortQueue) = 0
        BY <2>2, <3>2, FS_EmptySet DEF OutRecords
      <4>2. pOutputPortQueue = <<>>
        BY <4>1, TypeQueues, EmptySeq
      <4> QED
        BY <1>5, <3>2, <4>2 DEF ReturnBuffers, ClearFlags
    <3> QED
      BY <3>1, <3>2
  <2>4. ~ bEnableThumbNailMode => curOutBuffers' = curOutBuffers - Cardinality(outBufferUseFlag)
    BY <1>5 DEF ReturnBuffers, ClearFlags
  <2> QED
    BY <2>1, <2>3, <2>4, RecordsReturn
<1>6. ASSUME Steps, ~ ReturnBuffers PROVE Goal
  <2>1. UNCHANGED <<pInputPortQueue, etb, pOutputPortQueue, outBufferUseFlag, curOutBuffers, lent,
                    scenario>>
    BY <1>6
       DEF Steps, WaitAllocIn, WaitAllocOut, WaitFreeIn, WaitFreeOut, PendAlloc, CreateBufThread,
           Created, OrderExit, WakeForExit, JoinBufThread, CloseVideoCodec, OrderRun, Start,
           SelectDecoder, OpenVpu, OrderPause, WakeForPause, Paused
  <2> QED
    BY <2>1, RecordsKept DEF bEnableThumbNailMode
<1> QED
  BY <1>1, <1>2, <1>3, <1>4, <1>5, <1>6 DEF CommandThread

\* The buffer thread takes an input, gives an output, or both.
LEMMA RecordsTaken ==
  ASSUME TypeOK, TypeOK', InRecords, OutRecords, HeldByOneSide,
         NEW take \in BOOLEAN, NEW give \in BOOLEAN,
         bEnableThumbNailMode' = bEnableThumbNailMode, etb' = etb,
         take => pInputPortQueue # <<>> /\ pInputPortQueue' = Tail(pInputPortQueue),
         ~ take => pInputPortQueue' = pInputPortQueue,
         give => /\ pOutputPortQueue # <<>> /\ pOutputPortQueue' = Tail(pOutputPortQueue)
                 /\ outBufferUseFlag' = outBufferUseFlag \ {Head(pOutputPortQueue)}
                 /\ ~ bEnableThumbNailMode => curOutBuffers' = curOutBuffers - 1,
         ~ give => UNCHANGED <<pOutputPortQueue, outBufferUseFlag, curOutBuffers>>,
         HandBack(IF take THEN <<Input.buf>> ELSE <<>>,
                  IF give THEN {Head(pOutputPortQueue)} ELSE {})
  PROVE  InRecords' /\ OutRecords' /\ HeldByOneSide'
<1> DEFINE In == IF take THEN {Input.buf} ELSE {}
           Out == IF give THEN {Head(pOutputPortQueue)} ELSE {}
           q == IF take THEN <<Input.buf>> ELSE <<>>
<1>1. /\ In \subseteq HeldInputs /\ HeldInputs' = HeldInputs \ In
      /\ Distinct(Headers(pInputPortQueue'))
  <2>1. CASE take
    <3> DEFINE s == Headers(pInputPortQueue)
               t == Headers(pInputPortQueue')
    <3>1. /\ pInputPortQueue \in Seq(InputType) /\ pInputPortQueue # <<>>
          /\ pInputPortQueue' = Tail(pInputPortQueue) /\ pInputPortQueue' \in Seq(InputType)
      BY <2>1, TypeQueues DEF TypeOK, InputType
    <3>2. /\ s \in Seq(InBuffers) /\ Len(s) = Len(pInputPortQueue)
          /\ DOMAIN s = DOMAIN pInputPortQueue
          /\ \A i \in DOMAIN s : s[i] = pInputPortQueue[i].buf
      BY <3>1, HeadersFacts
    <3>3. /\ t \in Seq(InBuffers) /\ Len(t) = Len(pInputPortQueue')
          /\ DOMAIN t = DOMAIN pInputPortQueue'
          /\ \A i \in DOMAIN t : t[i] = pInputPortQueue'[i].buf
      BY <3>1, HeadersFacts
    <3>4. /\ Len(s) \in Nat /\ Len(s) # 0 /\ Len(t) = Len(s) - 1 /\ Input = pInputPortQueue[1]
          /\ DOMAIN s = 1 .. Len(s) /\ DOMAIN t = 1 .. Len(t)
          /\ \A i \in DOMAIN t : pInputPortQueue'[i] = pInputPortQueue[i + 1]
      <4> DEFINE p == pInputPortQueue
                 r == Tail(p)
      <4>1. /\ Len(p) \in Nat /\ Len(p) # 0 /\ Input = p[1] /\ DOMAIN p = 1 .. Len(p)
            /\ Len(r) = Len(p) - 1 /\ \A i \in 1 .. Len(r) : r[i] = p[i + 1]
            /\ DOMAIN r = 1 .. Len(r)
        BY <3>1, HeadTailProperties, EmptySeq DEF Input
      <4>2. pInputPortQueue' = r
        BY <3>1
      <4> HIDE DEF r, s, t
      <4> QED
        BY <3>2, <3>3, <4>1, <4>2
    <3>5. 1 \in DOMAIN s /\ 1 \in 0 .. Len(s) /\ \A i \in DOMAIN t : i + 1 \in DOMAIN s
      BY <3>4
    <3>6. s[1] = Input.buf /\ \A i \in 1 .. Len(t) : t[i] = s[i + 1]
      BY <3>2, <3>3, <3>4, <3>5
    <3>7. Distinct(s) /\ HeldInputs = Elements(s) /\ HeldInputs' = Elements(t)
      BY InputsAre, InputsAreAfter DEF InRecords
    <3> HIDE DEF s, t
    <3>8. Distinct(t) /\ Elements(t) = Behind(s, 1)
      <4>1. DOMAIN s = 1 .. Len(s) /\ DOMAIN t = 1 .. Len(t) /\ Len(t) = Len(s) - 1
        BY <3>4
      <4>2. s \in Seq(InBuffers) /\ t \in Seq(InBuffers) /\ 1 \in 0 .. Len(s) /\ Distinct(s)
        BY <3>2, <3>3, <3>5, <3>7
      <4>3. \A i \in 1 .. Len(t) : t[i] = s[i + 1]
        BY <3>6
      <4> QED
        BY <4>1, <4>2, <4>3, Dropped
    <3>9. Behind(s, 1) = Elements(s) \ {s[1]}
      BY DEF Behind
    <3>10. s[1] \in Elements(s)
      BY <3>5 DEF Elements
    <3> QED
      BY <2>1, <3>6, <3>7, <3>8, <3>9, <3>10 DEF t
  <2>2. CASE ~ take
    BY <2>2 DEF HeldInputs, InRecords
  <2> QED
    BY <2>1, <2>2
<1>2. OutRecords' /\ Out \subseteq HeldOutputs /\ HeldOutputs' = HeldOutputs \ Out
  <2>1. CASE give
    <3> DEFINE h == Head(pOutputPortQueue)
    <3>1. pOutputPortQueue \in Seq(OutBuffers) /\ pOutputPortQueue # <<>>
      BY <2>1, TypeQueues
    <3>2. /\ pOutputPortQueue' \in Seq(OutBuffers) /\ Distinct(pOutputPortQueue')
          /\ Len(pOutputPortQueue') = Len(pOutputPortQueue) - 1
          /\ h \in Elements(pOutputPortQueue)
          /\ Elements(pOutputPortQueue') = Elements(pOutputPortQueue) \ {h}
      BY <2>1, <3>1, TailOf DEF OutRecords
    <3>3. outBufferUseFlag' = outBufferUseFlag \ {h}
      BY <2>1
    <3> HIDE DEF h
    <3>4. OutRecords'
      <4>1. CASE bEnableThumbNailMode
        BY <3>2, <3>3, <4>1 DEF OutRecords
      <4>2. CASE ~ bEnableThumbNailMode
        <5>1. h \in outBufferUseFlag /\ IsFiniteSet(outBufferUseFlag)
          BY <3>2, <4>2, CurType DEF OutRecords, TypeOK
        <5>2. Cardinality(outBufferUseFlag') = Cardinality(outBufferUseFlag) - 1
          BY <3>3, <5>1, FS_RemoveElement
        <5>3. curOutBuffers' = curOutBuffers - 1
          BY <2>1, <4>2
        <5> QED
          BY <3>2, <3>3, <4>2, <5>2, <5>3 DEF OutRecords
      <4> QED
        BY <4>1, <4>2
    <3>5. HeldOutputs = Elements(pOutputPortQueue) /\ HeldOutputs' = Elements(pOutputPortQueue')
      BY <3>1, <3>2, <3>4, OutputsAre, OutputsAreAfter
    <3> QED
      BY <2>1, <3>2, <3>4, <3>5 DEF h
  <2>2. CASE ~ give
    BY <2>2 DEF OutRecords, HeldOutputs
  <2> QED
    BY <2>1, <2>2
<1>3. q \in Seq(Buffers) /\ Distinct(q) /\ Elements(q) = In
  <2>1. CASE take
    <3>1. Input.buf \in Buffers
      BY <1>1, <2>1, InputsAre DEF Buffers
    <3> HIDE DEF Input
    <3>2. q = <<Input.buf>> /\ DOMAIN q = {1} /\ q[1] = Input.buf
      BY <2>1
    <3>3. Elements(q) = In /\ Distinct(q)
      BY <2>1, <3>2 DEF Elements, Distinct
    <3> QED
      BY <3>1, <3>2, <3>3
  <2>2. CASE ~ take
    BY <2>2 DEF Elements, Distinct
  <2> QED
    BY <2>1, <2>2
<1>4. HeldInputs \subseteq InBuffers /\ HeldOutputs \subseteq OutBuffers
  BY InputsAre, OutputsAre, TypeQueues
<1>5. HandBack(q, Out)
  OBVIOUS
<1> HIDE DEF q, In, Out
<1>6. HeldByOneSide'
  <2>1. /\ Elements(q) \cap Out = {} /\ Elements(q) \cup Out \subseteq HeldInputs \cup HeldOutputs
        /\ HeldInputs' \cup HeldOutputs' = (HeldInputs \cup HeldOutputs) \ (Elements(q) \cup Out)
    BY <1>1, <1>2, <1>3, <1>4, VidDecAssumption
  <2> QED
    BY <1>3, <1>5, <2>1, HandedBack
<1>7. InRecords'
  <2>1. HeldInputs' \subseteq HeldInputs
    BY <1>1
  <2> QED
    BY <1>1, <2>1 DEF InRecords
<1> QED
  BY <1>2, <1>6, <1>7

\* Where a picture goes.
LEMMA Delivered ==
  ASSUME TypeOK, OutRecords, NEW image, Deliver(image)
  PROVE  LET give == pOutputPortQueue # <<>> IN
         /\ give => /\ Taker = {Head(pOutputPortQueue)}
                    /\ pOutputPortQueue' = Tail(pOutputPortQueue)
                    /\ outBufferUseFlag' = outBufferUseFlag \ {Head(pOutputPortQueue)}
                    /\ ~ bEnableThumbNailMode => curOutBuffers' = curOutBuffers - 1
         /\ ~ give => /\ Taker = {}
                      /\ UNCHANGED <<pOutputPortQueue, outBufferUseFlag, curOutBuffers>>
BY DEF Deliver, Taker, OutRecords

LEMMA RecordsBufThread ==
  ASSUME TypeOK, TypeOK', InRecords, OutRecords, HeldByOneSide, TidyState, BufThread
  PROVE  InRecords' /\ OutRecords' /\ HeldByOneSide'
<1> USE DEF requestVars, dataVars, portVars, inVars, outVars
<1> DEFINE Goal == InRecords' /\ OutRecords' /\ HeldByOneSide'
<1>1. CASE BufBorn \/ BufOuter \/ BufPendCtrl \/ BufInner \/ BufPendChange
             \/ BufStop \/ BufRun \/ BufDisabled \/ BufEnabled \/ BufLock
  BY <1>1, RecordsKept
     DEF BufBorn, BufOuter, BufPendCtrl, BufInner, BufPendChange, BufStop, BufRun, BufDisabled, BufEnabled, BufLock,
         bEnableThumbNailMode
<1>2. CASE NoDecoding \/ NoEos \/ EosTooEarly
  BY <1>2, RecordsKept DEF NoDecoding, NoEos, EosTooEarly, bEnableThumbNailMode
<1>3. ASSUME NEW S, Consume(S)
      PROVE  /\ pInputPortQueue # <<>> /\ pInputPortQueue' = Tail(pInputPortQueue)
             /\ HandBack(<<Input.buf>>, S) /\ etb' = etb
             /\ bEnableThumbNailMode' = bEnableThumbNailMode
  BY <1>3 DEF Consume, CanDecode, bEnableThumbNailMode
<1>4. ASSUME Consume({}), UNCHANGED <<pOutputPortQueue, outBufferUseFlag, curOutBuffers>>
      PROVE  Goal
  <2>1. HandBack(IF TRUE THEN <<Input.buf>> ELSE <<>>, IF FALSE THEN {Head(pOutputPortQueue)} ELSE {})
    BY <1>3, <1>4
  <2> QED
    BY <1>3, <1>4, <2>1, RecordsTaken
<1>5. CASE DecodeNothing \/ LearnSequence \/ InitializeFails \/ DecodeUnready
  BY <1>4, <1>5 DEF DecodeNothing, LearnSequence, InitializeFails, DecodeUnready
<1>6. CASE Decode
  <2>1. PICK image : IF image = NoImage THEN Consume({}) /\ UNCHANGED <<outVars, displayed, fault>>
                     ELSE Consume(Taker) /\ Deliver(image)
    BY <1>6 DEF Decode
  <2>2. CASE image # NoImage
    <3> DEFINE give == pOutputPortQueue # <<>>
    <3>0. give \in BOOLEAN
      OBVIOUS
    <3>1. Consume(Taker) /\ Deliver(image)
      BY <2>1, <2>2
    <3>2. HandBack(IF TRUE THEN <<Input.buf>> ELSE <<>>, IF give THEN {Head(pOutputPortQueue)} ELSE {})
      BY <1>3, <3>1, Delivered
    <3>3. /\ give => /\ pOutputPortQueue # <<>> /\ pOutputPortQueue' = Tail(pOutputPortQueue)
                     /\ outBufferUseFlag' = outBufferUseFlag \ {Head(pOutputPortQueue)}
                     /\ ~ bEnableThumbNailMode => curOutBuffers' = curOutBuffers - 1
          /\ ~ give => UNCHANGED <<pOutputPortQueue, outBufferUseFlag, curOutBuffers>>
      BY <3>1, Delivered
    <3> HIDE DEF give
    <3> QED
      BY <1>3, <3>0, <3>1, <3>2, <3>3, RecordsTaken
  <2> QED
    BY <1>4, <2>1, <2>2
<1>7. CASE EosPicture \/ EosMark
  <2>1. bEnableThumbNailMode /\ pOutputPortQueue # <<>> /\ outBufferUseFlag = {}
    BY <1>7 DEF EosPicture, EosMark, EosDue, OutputReady, TidyState, NoEnd, OutRecords
  <2>2. Taker = {Head(pOutputPortQueue)}
    BY <2>1 DEF Taker
  <2>3. /\ pOutputPortQueue' = Tail(pOutputPortQueue) /\ outBufferUseFlag' = {}
        /\ HandBack(<<>>, Taker)
        /\ UNCHANGED <<pInputPortQueue, etb, scenario>>
    BY <1>7, <2>1, <2>2 DEF EosPicture, EosMark, Deliver
  <2>4. HandBack(IF FALSE THEN <<Input.buf>> ELSE <<>>, IF TRUE THEN {Head(pOutputPortQueue)} ELSE {})
    BY <2>2, <2>3
  <2> QED
    BY <2>1, <2>3, <2>4, RecordsTaken DEF bEnableThumbNailMode
<1> QED
  BY <1>1, <1>2, <1>5, <1>6, <1>7 DEF BufThread

LEMMA RecordsStep ==
  ASSUME TypeOK, TypeOK', Phases, InRecords, OutRecords, HeldByOneSide, TidyState, [Next]_vars
  PROVE  InRecords' /\ OutRecords' /\ HeldByOneSide'
<1>1. CASE UNCHANGED vars
  BY <1>1, RecordsKept
     DEF vars, requestVars, dataVars, inVars, outVars, bEnableThumbNailMode
<1> QED
  BY <1>1, RecordsClient, RecordsCommand, RecordsBufThread DEF Next

\* What is known of every state.
Known == TypeOK /\ Phases /\ TidyState /\ InRecords /\ OutRecords /\ HeldByOneSide

LEMMA KnownInit == ASSUME TidyUse PROVE Init => Known
BY TypeInit, PhasesInit, TidyInit, RecordsInit DEF Known

LEMMA KnownStep == Known /\ [Next]_vars => Known'
<1> SUFFICES ASSUME Known, [Next]_vars PROVE Known'
  OBVIOUS
<1>1. TypeOK'
  BY TypeStep DEF Known
<1> QED
  BY <1>1, PhasesStep, TidyStep, RecordsStep DEF Known

(***************************************************************************)
(* For a client that takes its output buffers back before it leaves        *)
(* Executing, sends one command at a time, and neither ends the stream nor *)
(* disables the output port alone, the three records of the output buffers *)
(* agree (OutputRecordsAgree): where FillThisBuffer, decodeVideoFrame,     *)
(* FlushVideoOutputPort and NX_VidDec_StateTransition each change them.    *)
(***************************************************************************)
THEOREM TidyRecordsAgree == ASSUME TidyUse PROVE Spec => []OutputRecordsAgree
<1>1. Known => OutputRecordsAgree
  BY RecordsAgree DEF Known
<1> QED
  BY <1>1, KnownInit, KnownStep, PTL DEF Spec

(***************************************************************************)
(* For the same client, and in thumbnail mode for any, every buffer is     *)
(* with the client or queued, and handed back once for each time it was    *)
(* handed over (HeldByOneSide): an input the client is about to push is in *)
(* no queue, and no queue holds a buffer twice.                            *)
(***************************************************************************)
THEOREM TidyBuffersOnOneSide == ASSUME TidyUse PROVE Spec => []HeldByOneSide
<1>1. Known => HeldByOneSide
  BY DEF Known
<1> QED
  BY <1>1, KnownInit, KnownStep, PTL DEF Spec

-----------------------------------------------------------------------------
(* At rest                                                                 *)

AllKept == \A s \in Scenarios : Kept(s) /\ ~ s.thumb

\* The client asks for the transitions the component has, and leaves and enters
\* Pause by Executing.
InOrder == Supported \ { <<"Idle", "Pause">>, <<"Pause", "Idle">> }
AsksInOrder == <<eCurState, eNewState'>> \in InOrder

\* The state asked for is the one the component is in or on its way to.
Sync ==
    /\ Steady => eNewState = eCurState
    /\ cmdPc = "idle" => eNewState = eCurState \/ <<eCurState, eNewState>> \in InOrder
    /\ cmdPc \in FromLoaded \cup ToIdle => eNewState = "Idle"
    /\ cmdPc \in FromIdle \ ToExecuting => eNewState = "Loaded"

\* The queues are empty out of Executing and Pause, and no buffer is on its way
\* into one.
Emptied ==
    /\ eCurState \in {"Idle", "Loaded"} \/ cmdPc = "paused" =>
         pInputPortQueue = <<>> /\ pOutputPortQueue = <<>>
    /\ etb # <<>> => /\ eCurState \in {"Executing", "Pause"} /\ cmdPc \in {"idle", "spin"}
                     /\ \A i \in DOMAIN cmdQueue : cmdQueue[i].cmd # "StateSet"

\* What the buffer thread leaves alone.
LEMMA BufThreadFrame ==
  ASSUME BufThread
  PROVE  /\ UNCHANGED <<requestVars, commandVars, etb>>
         /\ pInputPortQueue = <<>> => pInputPortQueue' = <<>>
         /\ pOutputPortQueue = <<>> => pOutputPortQueue' = <<>>
<1> USE DEF dataVars, inVars, outVars
<1>1. CASE BufBorn \/ BufOuter \/ BufPendCtrl \/ BufInner \/ BufPendChange
             \/ BufStop \/ BufRun \/ BufDisabled \/ BufEnabled \/ BufLock
  BY <1>1
     DEF BufBorn, BufOuter, BufPendCtrl, BufInner, BufPendChange, BufStop, BufRun, BufDisabled, BufEnabled, BufLock
<1>2. CASE NoDecoding \/ NoEos \/ EosTooEarly
  BY <1>2 DEF NoDecoding, NoEos, EosTooEarly
<1>3. ASSUME NEW S, Consume(S)
      PROVE  UNCHANGED <<requestVars, commandVars, etb>> /\ pInputPortQueue # <<>>
  BY <1>3 DEF Consume, CanDecode
<1>4. CASE DecodeNothing \/ LearnSequence \/ InitializeFails \/ DecodeUnready
  BY <1>3, <1>4 DEF DecodeNothing, LearnSequence, InitializeFails, DecodeUnready
<1>5. CASE Decode
  <2>1. PICK image : IF image = NoImage THEN Consume({}) /\ UNCHANGED <<outVars, displayed, fault>>
                     ELSE Consume(Taker) /\ Deliver(image)
    BY <1>5 DEF Decode
  <2>2. pOutputPortQueue = <<>> => pOutputPortQueue' = <<>>
    BY <2>1 DEF Deliver, Taker
  <2> QED
    BY <1>3, <2>1, <2>2
<1>6. CASE EosPicture \/ EosMark
  <2>1. UNCHANGED <<requestVars, commandVars, inVars>>
    BY <1>6 DEF EosPicture, EosMark
  <2>2. pOutputPortQueue = <<>> => pOutputPortQueue' = <<>>
    BY <1>6 DEF EosPicture, EosMark, Deliver, Taker, EosDue, OutputReady
  <2> QED
    BY <2>1, <2>2
<1> QED
  BY <1>1, <1>2, <1>4, <1>5, <1>6 DEF BufThread

\* The scenario of a run without thumbnail mode.
LEMMA KeptStep ==
  ASSUME Known, ~ bEnableThumbNailMode, [Next]_vars
  PROVE  /\ Kept(scenario) /\ bEnableThumbNailMode' = bEnableThumbNailMode
         /\ scenario'.vpuFails = scenario.vpuFails
<1>1. Kept(scenario)
  BY DEF Known, TidyState
<1> SUFFICES scenario' = scenario \/ \E c : SendCommand(c)
  <2>1. ASSUME NEW c, SendCommand(c)
        PROVE  scenario'.thumb = scenario.thumb /\ scenario'.vpuFails = scenario.vpuFails
    BY <2>1 DEF SendCommand, Known, TypeOK, ScenarioType
  <2> QED
    BY <1>1, <2>1 DEF bEnableThumbNailMode
<1>2. CASE Client
  BY <1>2
     DEF Client, UseBuffer, AllocateBuffer, Register, FreeBuffer, EmptyThisBuffer,
         EmptyThisBufferPush, FillThisBuffer, requestVars
<1>3. CASE CommandThread
  <2>1. CASE \E c \in Commands :
               \/ SameState(c) \/ Unsupported(c) \/ Switch(c) \/ BeginTransition(c)
               \/ Flush(c) \/ FlushSpins(c) \/ PortDisable(c) \/ PortEnable(c)
    BY <2>1
       DEF SameState, Unsupported, Switch, BeginTransition, Flush, FlushSpins, PortDisable,
           PortEnable
  <2>2. CASE Steps
    BY <2>2
       DEF Steps, WaitAllocIn, WaitAllocOut, WaitFreeIn, WaitFreeOut, PendAlloc, CreateBufThread,
           Created, OrderExit, WakeForExit, JoinBufThread, CloseVideoCodec, OrderRun, Start,
           SelectDecoder, OpenVpu, OrderPause, WakeForPause, ReturnBuffers, Paused,
           requestVars
  <2> QED
    BY <1>3, <2>1, <2>2 DEF CommandThread
<1>4. CASE BufThread
  <2>1. UNCHANGED requestVars
    BY <1>4, BufThreadFrame
  <2> QED
    BY <2>1 DEF requestVars
<1>5. CASE UNCHANGED vars
  BY <1>5 DEF vars, requestVars
<1> QED
  BY <1>2, <1>3, <1>4, <1>5 DEF Next

LEMMA SyncInit == ASSUME AllKept, Init PROVE Sync /\ Emptied /\ ~ bEnableThumbNailMode
BY DEF AllKept, Init, Sync, Emptied, Steady, FromLoaded, FromIdle, ToExecuting, ToIdle,
       bEnableThumbNailMode

LEMMA SyncKept ==
  ASSUME Sync, UNCHANGED <<cmdQueue, cmdPc, eNewState, eCurState>>
  PROVE  Sync'
BY DEF Sync, Steady

LEMMA SyncClient ==
  ASSUME Known, Kept(scenario), Sync, Client, [AsksInOrder]_eNewState PROVE Sync'
<1> USE DEF requestVars, commandVars
<1>1. ASSUME NEW c \in Commands, SendCommand(c) PROVE Sync'
  <2>1. cmdQueue = <<>> /\ cmdPc = "idle" /\ cmdPc' = "idle" /\ cmdQueue' = <<c>> /\ eCurState' = eCurState
    BY <1>1 DEF SendCommand, Kept, Quiet
  <2>2. Steady /\ (Steady' => c.cmd # "StateSet")
    BY <2>1 DEF Steady
  <2>3. eNewState = eCurState /\ (c.cmd # "StateSet" => eNewState' = eNewState)
    BY <1>1, <2>2 DEF Sync, SendCommand
  <2>4. eNewState' = eNewState \/ <<eCurState, eNewState'>> \in InOrder
    BY DEF AsksInOrder
  <2> QED
    BY <2>1, <2>2, <2>3, <2>4 DEF Sync, FromLoaded, FromIdle, ToExecuting, ToIdle
<1> QED
  BY <1>1, SyncKept
     DEF Client, UseBuffer, AllocateBuffer, Register, FreeBuffer, EmptyThisBuffer,
         EmptyThisBufferPush, FillThisBuffer

LEMMA SyncCommand ==
  ASSUME Known, ~ bEnableThumbNailMode, Sync, CommandThread PROVE Sync'
<1> USE DEF requestVars, commandVars, Goto, At, Complete
<1>1. ASSUME NEW c \in Commands, Pop(c)
      PROVE  /\ cmdQueue' = <<>> /\ DOMAIN cmdQueue' = {} /\ cmdPc = "idle"
             /\ c.cmd = "StateSet" => c.arg = eNewState
             /\ c.cmd # "StateSet" => eNewState = eCurState
             /\ eNewState = eCurState \/ <<eCurState, eNewState>> \in InOrder
  <2>1. /\ cmdQueue' = <<>> /\ cmdPc = "idle" /\ (c.cmd = "StateSet" => c.arg = eNewState)
        /\ (c.cmd # "StateSet" => Steady)
    BY <1>1, PoppedCommand DEF Known, TidyState
  <2> QED
    BY <2>1 DEF Sync
<1>2. ASSUME NEW c \in Commands,
             SameState(c) \/ Flush(c) \/ PortDisable(c) \/ PortEnable(c) PROVE Sync'
  <2>1. UNCHANGED <<cmdPc, eCurState, eNewState>> /\ Pop(c) /\ (c.cmd = "StateSet" => c.arg = eCurState)
    BY <1>2 DEF SameState, Flush, PortDisable, PortEnable
  <2> QED
    BY <1>1, <2>1 DEF Sync, FromLoaded, FromIdle, ToExecuting, ToIdle
<1>3. ASSUME NEW c \in Commands, Unsupported(c) PROVE FALSE
  BY <1>1, <1>3 DEF Unsupported, InOrder
<1>4. ASSUME NEW c \in Commands, Switch(c) PROVE Sync'
  BY <1>1, <1>4 DEF Switch, Sync, FromLoaded, FromIdle, ToExecuting, ToIdle
<1>5. ASSUME NEW c \in Commands, BeginTransition(c) PROVE Sync'
  <2>1. /\ cmdPc' # "idle" /\ UNCHANGED <<eCurState, eNewState>>
        /\ cmdPc' = FirstPlace(eCurState, eNewState)
    BY <1>1, <1>5 DEF BeginTransition
  <2>2. \/ cmdPc' \in {"allocIn", "pause"} /\ eNewState = "Idle"
        \/ cmdPc' = "exit" /\ eNewState = "Loaded"
        \/ cmdPc' = "run"
    <3>1. cmdPc' \in {"allocIn", "exit", "run", "pause"}
      BY <2>1 DEF FirstPlace
    <3>2. cmdPc' = "exit" => eNewState = "Loaded"
      BY <2>1 DEF FirstPlace
    <3>3. cmdPc' \in {"allocIn", "pause"} => eNewState = "Idle"
      BY <2>1 DEF FirstPlace
    <3> QED
      BY <3>1, <3>2, <3>3
  <2> QED
    BY <2>1, <2>2 DEF Sync, Steady, FromLoaded, FromIdle, ToExecuting, ToIdle
<1>6. ASSUME NEW c \in Commands, FlushSpins(c) PROVE Sync'
  BY <1>6 DEF FlushSpins, Sync, Steady, FromLoaded, FromIdle, ToExecuting, ToIdle
<1>7. ASSUME Steps PROVE Sync'
  <2> USE DEF Sync, Steady, FromLoaded, FromIdle, ToExecuting, ToIdle
  <2>1. CASE WaitAllocIn \/ WaitAllocOut \/ WaitFreeIn \/ WaitFreeOut
    BY <2>1 DEF WaitAllocIn, WaitAllocOut, WaitFreeIn, WaitFreeOut, PendAlloc
  <2>2. CASE CreateBufThread \/ Created
    BY <2>2 DEF CreateBufThread, Created
  <2>3. CASE OrderExit \/ WakeForExit \/ JoinBufThread \/ CloseVideoCodec
    BY <2>3 DEF OrderExit, WakeForExit, JoinBufThread, CloseVideoCodec
  <2>4. CASE OrderRun \/ Start \/ SelectDecoder
    BY <2>4 DEF OrderRun, Start, SelectDecoder
  <2>5. CASE OpenVpu
    <3>1. eCurState = "Executing" /\ eNewState = "Executing"
      BY <2>5 DEF OpenVpu, Known, Phases, InTransition, FromExecuting, TidyState, OneCommand
    <3> QED
      BY <2>5, <3>1 DEF OpenVpu
  <2>6. CASE OrderPause \/ WakeForPause \/ ReturnBuffers \/ Paused
    BY <2>6 DEF OrderPause, WakeForPause, ReturnBuffers, Paused
  <2> QED
    BY <1>7, <2>1, <2>2, <2>3, <2>4, <2>5, <2>6 DEF Steps
<1> QED
  BY <1>2, <1>3, <1>4, <1>5, <1>6, <1>7 DEF CommandThread

LEMMA SyncStep ==
  ASSUME Known, ~ bEnableThumbNailMode, Sync, [Next]_vars, [AsksInOrder]_eNewState PROVE Sync'
<1>1. CASE BufThread
  BY <1>1, BufThreadFrame, SyncKept DEF requestVars, commandVars
<1>2. CASE UNCHANGED vars
  BY <1>2, SyncKept DEF vars, requestVars, commandVars
<1> QED
  BY <1>1, <1>2, KeptStep, SyncClient, SyncCommand DEF Next

LEMMA EmptiedClient ==
  ASSUME Known, Kept(scenario), Sync, Emptied, Client PROVE Emptied'
<1> USE DEF requestVars, commandVars, inVars, outVars, dataVars
<1>1. ASSUME NEW c \in Commands, SendCommand(c) PROVE Emptied'
  <2>1. UNCHANGED <<eCurState, cmdPc, pInputPortQueue, pOutputPortQueue, etb>> /\ etb = <<>>
    BY <1>1 DEF SendCommand, Kept
  <2> QED
    BY <2>1 DEF Emptied
<1>2. ASSUME NEW p, NEW b, UseBuffer(p, b) \/ AllocateBuffer(p, b) \/ FreeBuffer(p, b)
      PROVE  Emptied'
  <2>1. UNCHANGED <<eCurState, cmdPc, cmdQueue, pInputPortQueue, pOutputPortQueue, etb>>
    BY <1>2 DEF UseBuffer, AllocateBuffer, Register, FreeBuffer
  <2> QED
    BY <2>1 DEF Emptied
<1>3. ASSUME NEW p, Streaming(p)
      PROVE  /\ eCurState \in {"Executing", "Pause"} /\ cmdPc = "idle"
             /\ \A i \in DOMAIN cmdQueue : cmdQueue[i].cmd # "StateSet"
  <2>1. eNewState \in {"Executing", "Pause"} /\ Settled
    BY <1>3 DEF Streaming, Kept
  <2>2. Steady
    BY <2>1, TypeCommands DEF Known, Settled, Steady
  <2> QED
    BY <2>1, <2>2 DEF Sync, Steady
<1>4. ASSUME NEW b, NEW d, EmptyThisBuffer(b, d) PROVE Emptied'
  <2>1. UNCHANGED <<eCurState, cmdPc, cmdQueue, pInputPortQueue, pOutputPortQueue>>
    BY <1>4 DEF EmptyThisBuffer
  <2>2. Streaming("in")
    BY <1>4 DEF EmptyThisBuffer
  <2> QED
    BY <1>3, <2>1, <2>2 DEF Emptied
<1>5. CASE EmptyThisBufferPush
  <2>1. UNCHANGED <<eCurState, cmdPc, cmdQueue, pOutputPortQueue>> /\ etb' = <<>> /\ etb # <<>>
    BY <1>5 DEF EmptyThisBufferPush
  <2> QED
    BY <2>1 DEF Emptied
<1>6. ASSUME NEW b, FillThisBuffer(b) PROVE Emptied'
  <2>1. UNCHANGED <<eCurState, cmdPc, cmdQueue, etb, pInputPortQueue>> /\ Streaming("out")
    BY <1>6 DEF FillThisBuffer
  <2> QED
    BY <1>3, <2>1 DEF Emptied
<1> QED
  BY <1>1, <1>2, <1>4, <1>5, <1>6 DEF Client

LEMMA EmptiedBufThread == ASSUME Known, Emptied, BufThread PROVE Emptied'
<1>1. UNCHANGED <<requestVars, commandVars, etb>>
  BY BufThreadFrame
<1>2. pInputPortQueue = <<>> => pInputPortQueue' = <<>>
  BY BufThreadFrame
<1>3. pOutputPortQueue = <<>> => pOutputPortQueue' = <<>>
  BY BufThreadFrame
<1> QED
  BY <1>1, <1>2, <1>3 DEF Emptied, requestVars, commandVars

LEMMA EmptiedCommand ==
  ASSUME Known, ~ bEnableThumbNailMode, Sync, Emptied, CommandThread PROVE Emptied'
<1> USE DEF requestVars, commandVars, dataVars, inVars, outVars, Goto, At, Complete
<1>1. ASSUME NEW c \in Commands, Pop(c)
      PROVE  /\ cmdQueue' = <<>> /\ DOMAIN cmdQueue' = {} /\ cmdPc = "idle"
             /\ c.cmd = "StateSet" => c.arg = eNewState /\ etb = <<>>
             /\ eNewState = eCurState \/ <<eCurState, eNewState>> \in InOrder
  <2>1. /\ cmdQueue' = <<>> /\ cmdPc = "idle" /\ (c.cmd = "StateSet" => c.arg = eNewState)
    BY <1>1, PoppedCommand DEF Known, TidyState
  <2>2. c = cmdQueue[1] /\ 1 \in DOMAIN cmdQueue
    BY <1>1, TypeCommands DEF Pop, Known
  <2> QED
    BY <2>1, <2>2 DEF Sync, Emptied
<1>2. ASSUME NEW c \in Commands, SameState(c) \/ Flush(c) \/ PortDisable(c) \/ PortEnable(c)
      PROVE  Emptied'
  <2>1. UNCHANGED <<cmdPc, eCurState, etb>> /\ Pop(c)
    BY <1>2 DEF SameState, Flush, PortDisable, PortEnable
  <2>2. pInputPortQueue' \in {pInputPortQueue, <<>>} /\ pOutputPortQueue' \in {pOutputPortQueue, <<>>}
    BY <1>2
       DEF SameState, Flush, PortDisable, PortEnable, InputIf, FlushOutput, ClearFlags
  <2> QED
    BY <1>1, <2>1, <2>2 DEF Emptied
<1>3. ASSUME NEW c \in Commands, Unsupported(c) PROVE FALSE
  BY <1>1, <1>3 DEF Unsupported, InOrder
<1>4. ASSUME NEW c \in Commands, Switch(c) PROVE Emptied'
  <2>1. /\ eCurState' \in {"Executing", "Pause"} /\ cmdPc' = "idle" /\ etb' = etb /\ etb = <<>>
        /\ Pop(c)
    BY <1>1, <1>4 DEF Switch, InOrder, Supported
  <2> QED
    BY <2>1 DEF Emptied
<1>5. ASSUME NEW c \in Commands, BeginTransition(c) PROVE Emptied'
  <2>1. /\ UNCHANGED <<eCurState, pInputPortQueue, pOutputPortQueue, etb>> /\ etb = <<>>
        /\ cmdPc' # "paused"
    BY <1>1, <1>5 DEF BeginTransition, FirstPlace
  <2> QED
    BY <2>1 DEF Emptied
<1>6. ASSUME NEW c \in Commands, FlushSpins(c) PROVE Emptied'
  <2>1. /\ UNCHANGED <<eCurState, pOutputPortQueue, etb>> /\ cmdPc' = "spin" /\ Pop(c)
        /\ pInputPortQueue' \in {pInputPortQueue, <<>>}
    BY <1>6 DEF FlushSpins, InputIf
  <2> QED
    BY <1>1, <2>1 DEF Emptied
<1>7. ASSUME Steps PROVE Emptied'
  <2>1. cmdPc \notin {"idle", "spin"}
    BY <1>7
       DEF Steps, WaitAllocIn, WaitAllocOut, WaitFreeIn, WaitFreeOut, PendAlloc, CreateBufThread,
           Created, OrderExit, WakeForExit, JoinBufThread, CloseVideoCodec, OrderRun, Start,
           SelectDecoder, OpenVpu, OrderPause, WakeForPause, ReturnBuffers, Paused
  <2>2. etb = <<>>
    BY <2>1 DEF Emptied
  <2>3. CASE ReturnBuffers
    <3>1. pInputPortQueue' = <<>> /\ etb' = etb /\ pOutputPortQueue' = pOutputPortQueue
      BY <2>3 DEF ReturnBuffers, ClearFlags
    <3>2. outBufferUseFlag = {}
      BY <2>3 DEF ReturnBuffers, Known, TidyState, EmptyHanded, ToIdle
    <3>3. Len(pOutputPortQueue) = 0
      BY <3>2, FS_EmptySet DEF Known, OutRecords
    <3>4. pOutputPortQueue = <<>>
      BY <3>3, TypeQueues, EmptySeq DEF Known
    <3> QED
      BY <2>2, <3>1, <3>4 DEF Emptied
  <2>4. ASSUME UNCHANGED <<pInputPortQueue, pOutputPortQueue, etb>>,
               eCurState' \in {"Idle", "Loaded"} => eCurState \in {"Idle", "Loaded"} \/ cmdPc = "paused",
               cmdPc' # "paused"
        PROVE  Emptied'
    BY <2>2, <2>4 DEF Emptied
  <2>5. CASE WaitAllocIn \/ WaitAllocOut \/ WaitFreeIn \/ WaitFreeOut
    BY <2>4, <2>5 DEF WaitAllocIn, WaitAllocOut, WaitFreeIn, WaitFreeOut, PendAlloc
  <2>6. CASE CreateBufThread \/ OrderExit \/ WakeForExit \/ JoinBufThread
    BY <2>4, <2>6 DEF CreateBufThread, OrderExit, WakeForExit, JoinBufThread
  <2>7. CASE Created \/ CloseVideoCodec
    <3>1. eCurState \in {"Loaded", "Idle"}
      BY <2>7 DEF Created, CloseVideoCodec, Known, Phases, InTransition, FromLoaded, FromIdle
    <3> QED
      BY <2>4, <2>7, <3>1 DEF Created, CloseVideoCodec
  <2>8. CASE OrderRun \/ Start \/ SelectDecoder \/ OpenVpu \/ OrderPause \/ WakeForPause \/ Paused
    BY <2>4, <2>8
       DEF OrderRun, Start, SelectDecoder, OpenVpu, OrderPause, WakeForPause, Paused
  <2> QED
    BY <1>7, <2>3, <2>5, <2>6, <2>7, <2>8 DEF Steps
<1> QED
  BY <1>2, <1>3, <1>4, <1>5, <1>6, <1>7 DEF CommandThread

LEMMA EmptiedStep ==
  ASSUME Known, ~ bEnableThumbNailMode, Sync, Emptied, [Next]_vars PROVE Emptied'
<1>1. CASE UNCHANGED vars
  BY <1>1 DEF vars, requestVars, commandVars, dataVars, inVars, outVars, Emptied
<1> QED
  BY <1>1, KeptStep, EmptiedClient, EmptiedCommand, EmptiedBufThread DEF Next

(***************************************************************************)
(* A component that rests in Idle or in Loaded holds no buffer of the      *)
(* client (IdleHoldsNothing), for a client that keeps to the transitions   *)
(* NX_VidDec_StateTransition has, enters and leaves Pause by Executing,    *)
(* and sends a command when the one before is complete and no call of it   *)
(* is under way.  The case Pause to Idle of the code returns no buffer.    *)
(***************************************************************************)
THEOREM NothingHeldAtRest ==
  ASSUME AllKept PROVE Spec /\ [][AsksInOrder]_eNewState => []IdleHoldsNothing
<1> DEFINE Inv == Known /\ Sync /\ Emptied /\ ~ bEnableThumbNailMode
<1>1. Init => Inv
  <2>1. TidyUse
    BY DEF AllKept, TidyUse
  <2> QED
    BY <2>1, KnownInit, SyncInit
<1>2. Inv /\ [Next]_vars /\ [AsksInOrder]_eNewState => Inv'
  <2> SUFFICES ASSUME Inv, [Next]_vars, [AsksInOrder]_eNewState PROVE Inv'
    OBVIOUS
  <2>1. (~ bEnableThumbNailMode)'
    BY KeptStep
  <2> QED
    BY <2>1, KnownStep, SyncStep, EmptiedStep
<1>3. Inv => IdleHoldsNothing
  <2> SUFFICES ASSUME Inv, AtRest, NEW b \in DOMAIN lent PROVE lent[b] = 0
    BY DEF IdleHoldsNothing
  <2>1. pInputPortQueue = <<>> /\ pOutputPortQueue = <<>>
    BY DEF AtRest, Emptied
  <2>2. HeldInputs = {}
    BY <2>1 DEF HeldInputs
  <2>3. HeldOutputs = {}
    BY <2>1, OutputsAre, TypeQueues DEF Known, Elements
  <2> QED
    BY <2>2, <2>3 DEF Known, HeldByOneSide
<1> QED
  BY <1>1, <1>2, <1>3, PTL DEF Spec

-----------------------------------------------------------------------------
(* Images                                                                  *)

AllKeptAndSound == \A s \in Scenarios : Kept(s) /\ ~ s.thumb /\ ~ s.vpuFails

\* No output buffer shows an image of an earlier VPU handle when one is opened.
FreshOpen == cmdPc = "open" => \A b \in OutBuffers : outBufferValidFlag[b] = NoImage

\* The images on display, by the state of the VPU.
ImagesShown ==
    /\ hVpuCodec # "ready" => displayed = {}
    /\ hVpuCodec = "open" => \A b \in OutBuffers : outBufferValidFlag[b] = NoImage
    /\ hVpuCodec = "NULL" => ~ bInitialized
    /\ hVpuCodec = "ready" =>
         /\ displayed \subseteq {outBufferValidFlag[b] : b \in OutBuffers}
         /\ \A b, c \in OutBuffers : outBufferValidFlag[b] = outBufferValidFlag[c]
                                       => b = c \/ outBufferValidFlag[b] = NoImage
         /\ \A b \in OutBuffers : outBufferValidFlag[b] \in displayed \cup {NoImage}
    /\ \A b \in outBufferUseFlag : outBufferValidFlag[b] = NoImage


LEMMA ImagesInit == Init => ImagesShown
BY DEF Init, ImagesShown

LEMMA ImagesKept ==
  ASSUME ImagesShown, UNCHANGED <<hVpuCodec, displayed, outBufferValidFlag, bInitialized>>,
         outBufferUseFlag' \subseteq outBufferUseFlag
  PROVE  ImagesShown'
BY DEF ImagesShown

LEMMA ImagesFill ==
  ASSUME Known, ~ bEnableThumbNailMode, ImagesShown, NEW b \in OutBuffers, FillThisBuffer(b)
  PROVE  ImagesShown'
<1> USE DEF outVars, streamVars, vpuVars
<1>1. CASE UNCHANGED <<outVars, displayed, lent>>
  BY <1>1, ImagesKept DEF FillThisBuffer
<1>2. CASE FillFrame(b)
  <2>1. /\ displayed' = IF hVpuCodec = "ready" THEN displayed \ {outBufferValidFlag[b]} ELSE displayed
        /\ outBufferValidFlag' = [outBufferValidFlag EXCEPT ![b] = NoImage]
        /\ outBufferUseFlag' = outBufferUseFlag \cup {b}
        /\ UNCHANGED <<hVpuCodec, bInitialized>>
    BY <1>2 DEF FillThisBuffer, FillFrame, ClrDspFlag
  <2>2. outBufferValidFlag \in [OutBuffers -> Images \cup {NoImage}] /\ outBufferUseFlag \subseteq OutBuffers
    BY DEF Known, TypeOK
  <2>3. /\ outBufferValidFlag'[b] = NoImage
        /\ \A c \in OutBuffers : c # b => outBufferValidFlag'[c] = outBufferValidFlag[c]
    BY <2>1, <2>2
  <2>4. hVpuCodec' # "ready" => displayed' = {}
    BY <2>1 DEF ImagesShown
  <2>5. ASSUME hVpuCodec' = "ready"
        PROVE  displayed' \subseteq {outBufferValidFlag'[c] : c \in OutBuffers}
    <3> SUFFICES ASSUME NEW image \in displayed'
                 PROVE  \E c \in OutBuffers : image = outBufferValidFlag'[c]
      OBVIOUS
    <3>1. image \in displayed /\ image # outBufferValidFlag[b]
      BY <2>1, <2>5
    <3>2. PICK c \in OutBuffers : image = outBufferValidFlag[c]
      BY <2>1, <2>5, <3>1 DEF ImagesShown
    <3> QED
      BY <2>3, <3>1, <3>2
  <2>6. ASSUME hVpuCodec' = "ready", NEW c \in OutBuffers, NEW d \in OutBuffers,
               outBufferValidFlag'[c] = outBufferValidFlag'[d]
        PROVE  c = d \/ outBufferValidFlag'[c] = NoImage
    BY <2>1, <2>3, <2>6 DEF ImagesShown
  <2>7. \A c \in outBufferUseFlag' : outBufferValidFlag'[c] = NoImage
    BY <2>1, <2>2, <2>3 DEF ImagesShown
  <2>8. hVpuCodec' = "open" => \A c \in OutBuffers : outBufferValidFlag'[c] = NoImage
    BY <2>1, <2>3 DEF ImagesShown
  <2>9. hVpuCodec' = "NULL" => ~ bInitialized'
    BY <2>1 DEF ImagesShown
  <2>10. ASSUME hVpuCodec' = "ready", NEW c \in OutBuffers
         PROVE  outBufferValidFlag'[c] \in displayed' \cup {NoImage}
    <3>1. CASE c = b \/ outBufferValidFlag[c] = NoImage
      BY <2>3, <3>1
    <3>2. CASE c # b /\ outBufferValidFlag[c] # NoImage
      <4>1. outBufferValidFlag[c] \in displayed /\ outBufferValidFlag[c] # outBufferValidFlag[b]
        BY <2>1, <2>10, <3>2 DEF ImagesShown
      <4> QED
        BY <2>1, <2>3, <2>10, <3>2, <4>1
    <3> QED
      BY <3>1, <3>2
  <2> QED
    BY <2>4, <2>5, <2>6, <2>7, <2>8, <2>9, <2>10 DEF ImagesShown
<1> QED
  BY <1>1, <1>2 DEF FillThisBuffer

LEMMA ImagesClient ==
  ASSUME Known, ~ bEnableThumbNailMode, ImagesShown, Client PROVE ImagesShown'
<1> USE DEF dataVars, outVars, streamVars, vpuVars
<1>1. ASSUME NEW c, SendCommand(c) PROVE ImagesShown'
  BY <1>1, ImagesKept DEF SendCommand
<1>2. ASSUME NEW p, NEW b, UseBuffer(p, b) \/ AllocateBuffer(p, b) \/ FreeBuffer(p, b)
      PROVE  ImagesShown'
  BY <1>2, ImagesKept DEF UseBuffer, AllocateBuffer, Register, FreeBuffer
<1>3. ASSUME NEW b, NEW d, EmptyThisBuffer(b, d) PROVE ImagesShown'
  BY <1>3, ImagesKept DEF EmptyThisBuffer
<1>4. CASE EmptyThisBufferPush
  BY <1>4, ImagesKept DEF EmptyThisBufferPush
<1> QED
  BY <1>1, <1>2, <1>3, <1>4, ImagesFill DEF Client

LEMMA ImagesCommand ==
  ASSUME Known, ~ bEnableThumbNailMode, ~ scenario.vpuFails, FreshOpen, ImagesShown, CommandThread
  PROVE  ImagesShown'
<1> USE DEF dataVars, outVars, streamVars, vpuVars
<1>1. ASSUME NEW c, SameState(c) \/ Unsupported(c) \/ Switch(c) \/ BeginTransition(c)
      PROVE  ImagesShown'
  BY <1>1, ImagesKept DEF SameState, Unsupported, Switch, BeginTransition
<1>2. ASSUME NEW c, Flush(c) \/ FlushSpins(c) \/ PortDisable(c) \/ PortEnable(c)
      PROVE  ImagesShown'
  <2>1. UNCHANGED <<hVpuCodec, displayed, outBufferValidFlag, bInitialized>>
    BY <1>2 DEF Flush, FlushSpins, PortDisable, PortEnable
  <2>2. outBufferUseFlag' \subseteq outBufferUseFlag
    BY <1>2 DEF Flush, FlushSpins, PortDisable, PortEnable, FlushOutput, ClearFlags
  <2> QED
    BY <2>1, <2>2, ImagesKept
<1>3. CASE WaitAllocIn \/ WaitAllocOut \/ WaitFreeIn \/ WaitFreeOut
  BY <1>3, ImagesKept DEF WaitAllocIn, WaitAllocOut, WaitFreeIn, WaitFreeOut, PendAlloc
<1>4. CASE CreateBufThread \/ Created \/ OrderExit \/ WakeForExit \/ JoinBufThread
  BY <1>4, ImagesKept DEF CreateBufThread, Created, OrderExit, WakeForExit, JoinBufThread
<1>5. CASE CloseVideoCodec
  <2>1. /\ hVpuCodec' = "NULL" /\ displayed' = {} /\ UNCHANGED <<outBufferValidFlag, outBufferUseFlag>>
        /\ (hVpuCodec = "NULL" => bInitialized' = bInitialized)
        /\ (hVpuCodec # "NULL" => bInitialized' = FALSE)
    BY <1>5 DEF CloseVideoCodec
  <2> QED
    BY <2>1 DEF ImagesShown
<1>6. CASE OrderRun \/ Start \/ SelectDecoder
  BY <1>6, ImagesKept DEF OrderRun, Start, SelectDecoder
<1>7. CASE OpenVpu
  <2>1. /\ hVpuCodec' = "open" /\ displayed' = {}
        /\ UNCHANGED <<outBufferValidFlag, outBufferUseFlag, bInitialized>>
        /\ \A b \in OutBuffers : outBufferValidFlag[b] = NoImage
    BY <1>7 DEF OpenVpu, FreshOpen, At
  <2> QED
    BY <2>1 DEF ImagesShown
<1>8. CASE OrderPause \/ WakeForPause \/ Paused
  BY <1>8, ImagesKept DEF OrderPause, WakeForPause, Paused
<1>9. CASE ReturnBuffers
  BY <1>9, ImagesKept DEF ReturnBuffers, ClearFlags
<1> QED
  BY <1>1, <1>2, <1>3, <1>4, <1>5, <1>6, <1>7, <1>8, <1>9 DEF CommandThread, Steps

LEMMA ImagesDecode ==
  ASSUME Known, ~ bEnableThumbNailMode, ~ scenario.vpuFails, ImagesShown, Decode
  PROVE  ImagesShown'
<1> USE DEF outVars
<1>1. /\ hVpuCodec # "open" => bInitialized
      /\ hVpuCodec # "NULL" /\ hVpuCodec' = "ready" /\ bInitialized' = TRUE
  BY DEF Decode, ImagesShown
<1>2. /\ \A b \in OutBuffers : hVpuCodec = "open" => outBufferValidFlag[b] = NoImage
      /\ displayed \subseteq {outBufferValidFlag[b] : b \in OutBuffers}
      /\ \A b, c \in OutBuffers : outBufferValidFlag[b] = outBufferValidFlag[c]
                                    => b = c \/ outBufferValidFlag[b] = NoImage
      /\ \A b \in OutBuffers : outBufferValidFlag[b] \in displayed \cup {NoImage}
      /\ \A b \in outBufferUseFlag : outBufferValidFlag[b] = NoImage
  <2>1. CASE hVpuCodec = "open"
    BY <2>1 DEF ImagesShown
  <2>2. CASE hVpuCodec = "ready"
    BY <2>2 DEF ImagesShown
  <2> QED
    BY <1>1, <2>1, <2>2 DEF Known, TypeOK
<1>3. ASSUME UNCHANGED <<displayed, outBufferValidFlag, outBufferUseFlag>> PROVE ImagesShown'
  BY <1>1, <1>2, <1>3 DEF ImagesShown
<1>4. PICK image \in Outcome :
         IF image = NoImage THEN Consume({}) /\ UNCHANGED <<outVars, displayed, fault>>
         ELSE Consume(Taker) /\ Deliver(image)
  BY DEF Decode
<1>5. CASE image = NoImage \/ Taker = {}
  BY <1>3, <1>4, <1>5 DEF Deliver
<1>6. CASE image # NoImage /\ Taker # {}
  <2>1. image \in Images \ displayed
    BY <1>6 DEF Outcome
  <2>2. PICK h \in OutBuffers : Taker = {h} /\ h \in outBufferUseFlag
    <3>1. pOutputPortQueue # <<>> /\ pOutputPortQueue \in Seq(OutBuffers) /\ Taker = {Head(pOutputPortQueue)}
      BY <1>6, TypeQueues DEF Taker, Known
    <3>2. Head(pOutputPortQueue) \in Elements(pOutputPortQueue) /\ Head(pOutputPortQueue) \in OutBuffers
      BY <3>1, TailOf, HeadTailProperties DEF Known, OutRecords
    <3> QED
      BY <3>1, <3>2 DEF Known, OutRecords
  <2>3. /\ outBufferUseFlag' = outBufferUseFlag \ {h} /\ displayed' = displayed \cup {image}
        /\ outBufferValidFlag' = [b \in OutBuffers |-> IF b \in {h} THEN image ELSE outBufferValidFlag[b]]
    BY <1>4, <1>6, <2>2 DEF Deliver
  <2>4. /\ outBufferValidFlag'[h] = image
        /\ \A b \in OutBuffers : b # h => outBufferValidFlag'[b] = outBufferValidFlag[b]
    BY <2>3
  <2>5. outBufferValidFlag[h] = NoImage /\ image # NoImage /\ NoImage \notin displayed
    BY <1>2, <1>6, <2>2, VidDecAssumption DEF Known, TypeOK
  <2>6. displayed' \subseteq {outBufferValidFlag'[b] : b \in OutBuffers}
    <3> SUFFICES ASSUME NEW e \in displayed' PROVE \E b \in OutBuffers : e = outBufferValidFlag'[b]
      OBVIOUS
    <3>1. CASE e = image
      BY <2>4, <3>1
    <3>2. CASE e \in displayed
      <4>1. PICK b \in OutBuffers : e = outBufferValidFlag[b]
        BY <1>2, <3>2
      <4> QED
        BY <2>4, <2>5, <3>2, <4>1
    <3> QED
      BY <2>3, <3>1, <3>2
  <2>7. ASSUME NEW b \in OutBuffers, outBufferValidFlag[b] = image PROVE FALSE
    BY <1>2, <2>1, <2>5, <2>7
  <2>8. ASSUME NEW b \in OutBuffers, NEW c \in OutBuffers, outBufferValidFlag'[b] = outBufferValidFlag'[c]
        PROVE  b = c \/ outBufferValidFlag'[b] = NoImage
    BY <1>2, <2>4, <2>7, <2>8
  <2>9. \A b \in outBufferUseFlag' : outBufferValidFlag'[b] = NoImage
    BY <1>2, <2>3, <2>4 DEF Known, TypeOK
  <2>10. \A b \in OutBuffers : outBufferValidFlag'[b] \in displayed' \cup {NoImage}
    BY <1>2, <2>3, <2>4
  <2> QED
    BY <1>1, <2>6, <2>8, <2>9, <2>10 DEF ImagesShown
<1> QED
  BY <1>5, <1>6


LEMMA ImagesBufThread ==
  ASSUME Known, ~ bEnableThumbNailMode, ~ scenario.vpuFails, ImagesShown, BufThread
  PROVE  ImagesShown'
<1> USE DEF dataVars, outVars, streamVars, vpuVars
<1>1. CASE BufBorn \/ BufOuter \/ BufPendCtrl \/ BufInner \/ BufPendChange
             \/ BufStop \/ BufRun \/ BufDisabled \/ BufEnabled \/ BufLock
  BY <1>1, ImagesKept
     DEF BufBorn, BufOuter, BufPendCtrl, BufInner, BufPendChange, BufStop, BufRun, BufDisabled, BufEnabled, BufLock
<1>2. CASE NoDecoding \/ NoEos \/ EosTooEarly
  BY <1>2, ImagesKept DEF NoDecoding, NoEos, EosTooEarly
<1>3. CASE DecodeNothing \/ LearnSequence \/ InitializeFails \/ DecodeUnready
  <2>1. UNCHANGED <<hVpuCodec, displayed, outBufferValidFlag, outBufferUseFlag, bInitialized>>
    BY <1>3 DEF DecodeNothing, LearnSequence, InitializeFails, DecodeUnready
  <2> QED
    BY <2>1, ImagesKept
<1>4. CASE EosPicture \/ EosMark
  BY <1>4 DEF EosPicture, EosMark, EosDue, Known, TidyState, NoEnd
<1> QED
  BY <1>1, <1>2, <1>3, <1>4, ImagesDecode DEF BufThread

LEMMA ImagesStep ==
  ASSUME Known, ~ bEnableThumbNailMode, ~ scenario.vpuFails, FreshOpen, ImagesShown, [Next]_vars
  PROVE  ImagesShown'
<1>1. CASE UNCHANGED vars
  BY <1>1, ImagesKept DEF vars, dataVars, outVars, streamVars, vpuVars
<1> QED
  BY <1>1, ImagesClient, ImagesCommand, ImagesBufThread DEF Next

(***************************************************************************)
(* Every image of the VPU on display belongs to one output buffer, by      *)
(* which it comes back to the VPU when the client fills that buffer again  *)
(* (EveryImageComesBack), as long as the VPU does not fail and no output   *)
(* buffer still shows an image when the VPU is opened.  closeVideoCodec    *)
(* and openVideoCodec leave outBufferValidFlag alone: an image left from   *)
(* an earlier handle would be cleared on the new one.                      *)
(***************************************************************************)
THEOREM EveryImageReturns ==
  ASSUME AllKeptAndSound PROVE Spec /\ []FreshOpen => []EveryImageComesBack
<1> DEFINE Inv == Known /\ ~ bEnableThumbNailMode /\ ~ scenario.vpuFails /\ ImagesShown
<1>1. Init => Inv
  <2>1. TidyUse
    BY DEF AllKeptAndSound, TidyUse
  <2>2. Init => ~ bEnableThumbNailMode /\ ~ scenario.vpuFails
    BY DEF Init, AllKeptAndSound, bEnableThumbNailMode
  <2> QED
    BY <2>1, <2>2, KnownInit, ImagesInit
<1>2. Inv /\ FreshOpen /\ [Next]_vars => Inv'
  <2> SUFFICES ASSUME Inv, FreshOpen, [Next]_vars PROVE Inv'
    OBVIOUS
  <2>1. ~ bEnableThumbNailMode' /\ ~ scenario'.vpuFails
    BY KeptStep
  <2> QED
    BY <2>1, KnownStep, ImagesStep
<1>3. Inv => EveryImageComesBack
  BY DEF ImagesShown, EveryImageComesBack, Known, TypeOK
<1> QED
  BY <1>1, <1>2, <1>3, PTL DEF Spec

-----------------------------------------------------------------------------
(* Faults                                                                  *)

\* The client enables a port only out of Loaded.
EnablesOutOfLoaded ==
  \A i \in DOMAIN cmdQueue : cmdQueue[i].cmd = "PortEnable" => eCurState # "Loaded"

\* When a VPU handle is opened, nothing is left of an earlier one.
OpensFresh == FreshOpen /\ (cmdPc = "open" => ~ bInitialized)

\* A handle that has no bit stream buffer is not decoded with, and no image is
\* given back to it; a queued output buffer has its slot; and what a patient
\* client has flushed is initialised.
Armed ==
    /\ hVpuCodec = "open" => ~ bInitialized /\ \A b \in OutBuffers : outBufferValidFlag[b] = NoImage
    /\ Elements(pOutputPortQueue) \subseteq pBuffers["out"]
    /\ scenario.patient =>
         /\ fault = "none"
         /\ \A i \in DOMAIN cmdQueue : cmdQueue[i].cmd = "Flush" => bInitialized

LEMMA ArmedInit == Init => Armed
BY DEF Init, Armed, Elements

LEMMA ArmedKept ==
  ASSUME Armed, UNCHANGED <<cmdQueue, hVpuCodec, bInitialized, outBufferValidFlag, pBuffers, fault>>,
         scenario'.patient = scenario.patient, Elements(pOutputPortQueue') \subseteq Elements(pOutputPortQueue)
  PROVE  Armed'
BY DEF Armed

\* A port exchanges buffers only where the semaphores of the buffer thread exist.
LEMMA StreamingRuns ==
  ASSUME Known, Kept(scenario), Sync, NEW p, Streaming(p)
  PROVE  eCurState \in {"Executing", "Pause"} /\ cmdPc = "idle" /\ hBufChangeSem # NULL
<1>1. eNewState \in {"Executing", "Pause"} /\ Settled
  BY DEF Streaming, Kept
<1>2. Steady
  BY <1>1, TypeCommands DEF Known, Settled, Steady
<1>3. eCurState \in {"Executing", "Pause"} /\ cmdPc = "idle"
  BY <1>1, <1>2 DEF Sync, Steady
<1> QED
  BY <1>3 DEF Known, Phases, Lives, NoThread

LEMMA ArmedFill ==
  ASSUME Known, ~ bEnableThumbNailMode, Sync, Armed, NEW b \in OutBuffers, FillThisBuffer(b)
  PROVE  Armed'
<1> USE DEF outVars, streamVars, vpuVars, requestVars, portVars
<1>1. UNCHANGED <<scenario, cmdQueue, hVpuCodec, bInitialized, pBuffers>> /\ b \in pBuffers["out"]
  BY DEF FillThisBuffer
<1>2. hBufChangeSem # NULL
  BY StreamingRuns DEF FillThisBuffer, Known, TidyState
<1>3. fault' = "none"
  <2>1. ClrDspFault(Shown(b)) = "none"
    BY DEF ClrDspFault, Shown, Armed
  <2> QED
    BY <1>2, <2>1 DEF FillThisBuffer, FaultOf
<1>4. hVpuCodec = "open" => \A c \in OutBuffers : outBufferValidFlag'[c] = NoImage
  BY DEF FillThisBuffer, FillFrame, Armed, Known, TypeOK
<1>5. Elements(pOutputPortQueue') \subseteq pBuffers["out"]
  <2>1. CASE pOutputPortQueue' = pOutputPortQueue
    BY <2>1 DEF Armed
  <2>2. CASE pOutputPortQueue' = Append(pOutputPortQueue, b)
    <3>1. pOutputPortQueue \in Seq(OutBuffers)
      BY TypeQueues DEF Known
    <3>2. \A i \in DOMAIN pOutputPortQueue' :
             pOutputPortQueue'[i] = b \/ (i \in DOMAIN pOutputPortQueue /\ pOutputPortQueue'[i] = pOutputPortQueue[i])
      BY <2>2, <3>1, AppendProperties
    <3> QED
      BY <1>1, <3>2 DEF Armed, Elements
  <2> QED
    BY <2>1, <2>2 DEF FillThisBuffer, FillFrame
<1> QED
  BY <1>1, <1>3, <1>4, <1>5 DEF Armed

LEMMA ArmedClient ==
  ASSUME Known, ~ bEnableThumbNailMode, Sync, Emptied, Armed, Client PROVE Armed'
<1> USE DEF requestVars, commandVars, threadVars, dataVars, portVars, outVars, streamVars, vpuVars
<1>1. ASSUME NEW c \in Commands, SendCommand(c) PROVE Armed'
  <2>1. UNCHANGED <<hVpuCodec, bInitialized, outBufferValidFlag, pBuffers, fault, pOutputPortQueue>>
    BY <1>1 DEF SendCommand
  <2>2. scenario'.patient = scenario.patient /\ (scenario.patient /\ c.cmd = "Flush" => bInitialized)
    BY <1>1 DEF SendCommand, Known, TypeOK, ScenarioType
  <2>3. \A i \in DOMAIN cmdQueue' : cmdQueue'[i] = c \/ (i \in DOMAIN cmdQueue /\ cmdQueue'[i] = cmdQueue[i])
    BY <1>1, TypeCommands, AppendProperties DEF SendCommand, Known
  <2> QED
    BY <2>1, <2>2, <2>3 DEF Armed
<1>2. ASSUME NEW p \in Ports, NEW b, UseBuffer(p, b) \/ AllocateBuffer(p, b) PROVE Armed'
  <2>1. /\ UNCHANGED <<scenario, cmdQueue, hVpuCodec, bInitialized, outBufferValidFlag, fault,
                       pOutputPortQueue>>
        /\ pBuffers' = [pBuffers EXCEPT ![p] = @ \cup {b}]
    BY <1>2 DEF UseBuffer, AllocateBuffer, Register
  <2>2. pBuffers["out"] \subseteq pBuffers'["out"]
    BY <2>1 DEF Known, TypeOK, Ports
  <2> QED
    BY <2>1, <2>2 DEF Armed
<1>3. ASSUME NEW p \in Ports, NEW b \in Slots(p), FreeBuffer(p, b) PROVE Armed'
  <2>1. /\ UNCHANGED <<scenario, cmdQueue, hVpuCodec, bInitialized, outBufferValidFlag, fault,
                       pOutputPortQueue>>
        /\ pBuffers["out"] \ {b} \subseteq pBuffers'["out"] /\ lent[b] <= 0
    BY <1>3 DEF FreeBuffer, Known, TypeOK
  <2>2. b \notin Elements(pOutputPortQueue)
    <3>1. lent[b] = IF b \in HeldInputs \cup HeldOutputs THEN 1 ELSE 0
      BY DEF Known, HeldByOneSide, TypeOK, Slots
    <3>2. b \notin HeldOutputs
      BY <2>1, <3>1
    <3> QED
      BY <3>2 DEF HeldOutputs, Known, OutRecords
  <2> QED
    BY <2>1, <2>2 DEF Armed
<1>4. ASSUME NEW b, NEW d, EmptyThisBuffer(b, d) PROVE Armed'
  BY <1>4, ArmedKept DEF EmptyThisBuffer
<1>5. CASE EmptyThisBufferPush
  <2>1. hBufChangeSem # NULL
    BY <1>5 DEF EmptyThisBufferPush, Emptied, Known, Phases, Lives, NoThread
  <2>2. fault' = fault
    BY <1>5, <2>1 DEF EmptyThisBufferPush, FaultOf, Running
  <2> QED
    BY <1>5, <2>2, ArmedKept DEF EmptyThisBufferPush
<1> QED
  BY <1>1, <1>2, <1>3, <1>4, <1>5, ArmedFill DEF Client

LEMMA ArmedCommand ==
  ASSUME Known, ~ bEnableThumbNailMode, Armed, OpensFresh, EnablesOutOfLoaded, CommandThread
  PROVE  Armed'
<1> USE DEF requestVars, commandVars, threadVars, dataVars, portVars, outVars, streamVars, vpuVars
<1>0. ASSUME NEW c \in Commands, Pop(c)
      PROVE  /\ 1 \in DOMAIN cmdQueue /\ c = cmdQueue[1] /\ cmdPc = "idle" /\ cmdQueue' = <<>>
             /\ DOMAIN cmdQueue' = {} /\ fault = "none"
  <2>1. cmdQueue \in Seq(Commands) /\ cmdQueue # <<>> /\ c = Head(cmdQueue)
    BY <1>0, TypeCommands DEF Pop, Known
  <2>2. cmdQueue' = <<>> /\ cmdPc = "idle"
    BY <1>0, PoppedCommand DEF Known, TidyState
  <2>3. 1 \in DOMAIN cmdQueue /\ c = cmdQueue[1]
    BY <2>1, HeadTailProperties, EmptySeq
  <2>4. fault = "none"
    BY <1>0 DEF Pop, At, Running
  <2> QED
    BY <2>2, <2>3, <2>4
<1>1. ASSUME NEW c \in Commands, Pop(c), fault' = "none",
             UNCHANGED <<scenario, hVpuCodec, bInitialized, outBufferValidFlag, pBuffers>>,
             pOutputPortQueue' \in {pOutputPortQueue, <<>>}
      PROVE  Armed'
  <2>1. Elements(pOutputPortQueue') \subseteq Elements(pOutputPortQueue)
    BY <1>1 DEF Elements
  <2> QED
    BY <1>0, <1>1, <2>1 DEF Armed
<1>2. ASSUME NEW c \in Commands, SameState(c) \/ Unsupported(c) \/ Switch(c) \/ BeginTransition(c)
      PROVE  Armed'
  BY <1>0, <1>1, <1>2 DEF SameState, Unsupported, Switch, BeginTransition
<1>3. ASSUME NEW c \in Commands, FlushSpins(c) \/ PortDisable(c) PROVE Armed'
  BY <1>0, <1>1, <1>3
     DEF FlushSpins, PortDisable, ClearFlags, FlushOutput
<1>4. ASSUME NEW c \in Commands, PortEnable(c) PROVE Armed'
  <2>1. hBufCtrlSem # NULL
    BY <1>0, <1>4 DEF PortEnable, EnablesOutOfLoaded, Known, Phases, Lives, NoThread
  <2> QED
    BY <1>0, <1>1, <1>4, <2>1 DEF PortEnable, FaultOf
<1>5. ASSUME NEW c \in Commands, Flush(c) PROVE Armed'
  <2>1. /\ Pop(c) /\ c.cmd = "Flush" /\ fault' \in {"none", "bitstream"}
        /\ UNCHANGED <<scenario, hVpuCodec, bInitialized, outBufferValidFlag, pBuffers>>
        /\ pOutputPortQueue' \in {pOutputPortQueue, <<>>}
        /\ hVpuCodec # "open" => fault' = "none"
    BY <1>5 DEF Flush, FlushOutput
  <2>2. Elements(pOutputPortQueue') \subseteq Elements(pOutputPortQueue)
    BY <2>1 DEF Elements
  <2>3. scenario.patient => bInitialized
    BY <1>0, <2>1 DEF Armed
  <2> QED
    BY <1>0, <2>1, <2>2, <2>3 DEF Armed
<1>6. CASE WaitAllocIn \/ WaitAllocOut \/ WaitFreeIn \/ WaitFreeOut
  BY <1>6, ArmedKept DEF WaitAllocIn, WaitAllocOut, WaitFreeIn, WaitFreeOut, PendAlloc
<1>7. CASE CreateBufThread \/ Created \/ OrderExit \/ WakeForExit \/ JoinBufThread
  BY <1>7, ArmedKept DEF CreateBufThread, Created, OrderExit, WakeForExit, JoinBufThread
<1>8. CASE CloseVideoCodec
  <2>1. /\ UNCHANGED <<scenario, cmdQueue, outBufferValidFlag, pBuffers, fault, pOutputPortQueue>>
        /\ hVpuCodec' = "NULL" /\ cmdPc # "idle"
    BY <1>8 DEF CloseVideoCodec, At
  <2>2. cmdQueue = <<>> /\ DOMAIN cmdQueue = {}
    BY <2>1 DEF Known, TidyState, OneCommand
  <2> QED
    BY <2>1, <2>2 DEF Armed
<1>9. CASE OrderRun \/ Start \/ SelectDecoder
  BY <1>9, ArmedKept DEF OrderRun, Start, SelectDecoder
<1>10. CASE OpenVpu
  <2>1. /\ UNCHANGED <<scenario, cmdQueue, bInitialized, outBufferValidFlag, pBuffers, fault,
                       pOutputPortQueue>>
        /\ cmdPc = "open"
    BY <1>10 DEF OpenVpu, At
  <2> QED
    BY <2>1 DEF Armed, OpensFresh, FreshOpen
<1>11. CASE OrderPause \/ WakeForPause \/ Paused
  BY <1>11, ArmedKept DEF OrderPause, WakeForPause, Paused
<1>12. CASE ReturnBuffers
  BY <1>12, ArmedKept DEF ReturnBuffers, ClearFlags
<1> QED
  BY <1>2, <1>3, <1>4, <1>5, <1>6, <1>7, <1>8, <1>9, <1>10, <1>11, <1>12 DEF CommandThread, Steps

LEMMA ArmedDecode ==
  ASSUME Known, ~ bEnableThumbNailMode, Armed, Decode PROVE Armed'
<1> USE DEF outVars, requestVars
<1>1. /\ hVpuCodec' # "open" /\ bInitialized' = TRUE
      /\ UNCHANGED <<scenario, cmdQueue, pBuffers>> /\ fault = "none"
  BY DEF Decode, Consume, portVars, BufGoto, Running, Armed
<1>2. PICK image \in Outcome :
         IF image = NoImage THEN Consume({}) /\ UNCHANGED <<outVars, displayed, fault>>
         ELSE Consume(Taker) /\ Deliver(image)
  BY DEF Decode
<1>3. Elements(pOutputPortQueue') \subseteq Elements(pOutputPortQueue) /\ Taker \subseteq Elements(pOutputPortQueue)
  <2>1. CASE pOutputPortQueue = <<>>
    <3>1. pOutputPortQueue' = <<>> /\ Taker = {}
      BY <1>2, <2>1 DEF Deliver, Taker
    <3> QED
      BY <3>1 DEF Elements
  <2>2. CASE pOutputPortQueue # <<>>
    <3>1. /\ Head(pOutputPortQueue) \in Elements(pOutputPortQueue)
          /\ Elements(Tail(pOutputPortQueue)) \subseteq Elements(pOutputPortQueue)
      BY <2>2, TypeQueues, TailOf DEF Known, OutRecords
    <3>2. pOutputPortQueue' \in {pOutputPortQueue, Tail(pOutputPortQueue)}
      BY <1>2, <2>2 DEF Deliver, Taker
    <3> QED
      BY <2>2, <3>1, <3>2 DEF Taker
  <2> QED
    BY <2>1, <2>2
<1>4. fault' = "none"
  BY <1>1, <1>2, <1>3 DEF Deliver, IndexFault, Armed
<1> QED
  BY <1>1, <1>3, <1>4 DEF Armed

LEMMA ArmedBufThread ==
  ASSUME Known, ~ bEnableThumbNailMode, Armed, BufThread PROVE Armed'
<1> USE DEF requestVars, commandVars, dataVars, portVars, outVars, streamVars, vpuVars
<1>1. CASE BufBorn \/ BufOuter \/ BufPendCtrl \/ BufInner \/ BufPendChange
             \/ BufStop \/ BufRun \/ BufDisabled \/ BufEnabled \/ BufLock
  BY <1>1, ArmedKept
     DEF BufBorn, BufOuter, BufPendCtrl, BufInner, BufPendChange, BufStop, BufRun, BufDisabled, BufEnabled, BufLock
<1>2. CASE NoDecoding \/ NoEos
  BY <1>2, ArmedKept DEF NoDecoding, NoEos
<1>3. CASE DecodeNothing \/ LearnSequence
  BY <1>3, ArmedKept DEF DecodeNothing, LearnSequence, Consume
<1>4. CASE InitializeFails
  <2>1. /\ UNCHANGED <<scenario, cmdQueue, bInitialized, outBufferValidFlag, pBuffers, fault,
                       pOutputPortQueue>>
        /\ hVpuCodec' = hVpuCodec \/ hVpuCodec' = "ready"
    BY <1>4 DEF InitializeFails, Consume
  <2> QED
    BY <2>1 DEF Armed
<1>5. CASE DecodeUnready
  BY <1>5 DEF DecodeUnready, Armed
<1>6. CASE EosTooEarly \/ EosPicture \/ EosMark
  BY <1>6 DEF EosTooEarly, EosPicture, EosMark, EosDue, Known, TidyState, NoEnd
<1> QED
  BY <1>1, <1>2, <1>3, <1>4, <1>5, <1>6, ArmedDecode DEF BufThread

LEMMA ArmedStep ==
  ASSUME Known, ~ bEnableThumbNailMode, Sync, Emptied, Armed, OpensFresh, EnablesOutOfLoaded, [Next]_vars
  PROVE  Armed'
<1>1. CASE UNCHANGED vars
  BY <1>1, ArmedKept
     DEF vars, requestVars, dataVars, portVars, outVars, streamVars, vpuVars
<1> QED
  BY <1>1, ArmedClient, ArmedCommand, ArmedBufThread DEF Next

(***************************************************************************)
(* A patient client that keeps its buffers tidy ends no call in a fault    *)
(* (NoFault): semaphores exist where they are posted, the VPU is prepared  *)
(* where it is asked to decode, to drain or to take an image back, and     *)
(* FindBufferIdx finds the buffer.  The hypotheses are needed: PortEnable  *)
(* in Loaded posts hBufCtrlSem, which is NULL, and a handle opened while   *)
(* bInitialized or a slot of outBufferValidFlag is left from another is    *)
(* used as if it were that one.                                            *)
(***************************************************************************)
THEOREM PatientClientSeesNoFault ==
  ASSUME AllKept
  PROVE  Spec /\ [][AsksInOrder]_eNewState /\ []EnablesOutOfLoaded /\ []OpensFresh => []NoFault
<1> DEFINE Inv == Known /\ Sync /\ Emptied /\ Armed /\ ~ bEnableThumbNailMode
<1>1. Init => Inv
  <2>1. TidyUse
    BY DEF AllKept, TidyUse
  <2> QED
    BY <2>1, KnownInit, SyncInit, ArmedInit
<1>2. Inv /\ EnablesOutOfLoaded /\ OpensFresh /\ [Next]_vars /\ [AsksInOrder]_eNewState => Inv'
  <2> SUFFICES ASSUME Inv, EnablesOutOfLoaded, OpensFresh, [Next]_vars, [AsksInOrder]_eNewState
               PROVE  Inv'
    OBVIOUS
  <2>1. (~ bEnableThumbNailMode)'
    BY KeptStep
  <2> QED
    BY <2>1, KnownStep, SyncStep, EmptiedStep, ArmedStep
<1>3. Inv => NoFault
  BY DEF Armed, NoFault
<1> QED
  BY <1>1, <1>2, <1>3, PTL DEF Spec

-----------------------------------------------------------------------------
(* Waiting for the buffers                                                 *)

\* No port is ever disabled, by the client or by a new picture size.
NoDisable(s) ==
    /\ "new" \notin s.spsFound
    /\ \A n \in DOMAIN s.script : \A c \in s.script[n] : c.cmd # "PortDisable"
AllEnabled == \A s \in Scenarios : NoDisable(s)

StaysEnabled ==
    /\ NoDisable(scenario)
    /\ \A i \in DOMAIN cmdQueue : cmdQueue[i].cmd # "PortDisable"
    /\ \A p \in Ports : bEnabled[p]

\* The commands after one was sent.
LEMMA SentCommands ==
  ASSUME TypeOK, NEW c \in Commands, SendCommand(c)
  PROVE  /\ \A i \in DOMAIN cmdQueue' : cmdQueue'[i] = c \/ (i \in DOMAIN cmdQueue /\ cmdQueue'[i] = cmdQueue[i])
         /\ \A i \in DOMAIN cmdQueue : i \in DOMAIN cmdQueue' /\ cmdQueue'[i] = cmdQueue[i]
         /\ \E i \in DOMAIN cmdQueue' : cmdQueue'[i] = c
         /\ cmdQueue = <<>> => DOMAIN cmdQueue' = {1}
<1>1. cmdQueue \in Seq(Commands) /\ cmdQueue' = Append(cmdQueue, c)
  BY TypeCommands DEF SendCommand
<1>2. /\ DOMAIN cmdQueue = 1 .. Len(cmdQueue) /\ Len(cmdQueue) \in Nat
      /\ DOMAIN cmdQueue' = 1 .. Len(cmdQueue) + 1
      /\ \A i \in 1 .. Len(cmdQueue) : cmdQueue'[i] = cmdQueue[i]
      /\ cmdQueue'[Len(cmdQueue) + 1] = c
  BY <1>1, AppendProperties
<1>3. cmdQueue = <<>> => Len(cmdQueue) = 0
  OBVIOUS
<1> QED
  BY <1>2, <1>3

\* The commands after one was popped.
LEMMA LeftCommands ==
  ASSUME TypeOK, NEW c, Pop(c)
  PROVE  /\ 1 \in DOMAIN cmdQueue /\ c = cmdQueue[1] /\ c \in Commands /\ cmdPc = "idle"
         /\ \A i \in DOMAIN cmdQueue' : i + 1 \in DOMAIN cmdQueue /\ cmdQueue'[i] = cmdQueue[i + 1] /\ i + 1 # 1
         /\ \A i \in DOMAIN cmdQueue : i # 1 => i - 1 \in DOMAIN cmdQueue' /\ cmdQueue'[i - 1] = cmdQueue[i]
<1>1. /\ cmdQueue \in Seq(Commands) /\ cmdQueue # <<>> /\ cmdQueue' = Tail(cmdQueue)
      /\ c = Head(cmdQueue) /\ cmdPc = "idle"
  BY TypeCommands DEF Pop, At
<1>2. /\ DOMAIN cmdQueue = 1 .. Len(cmdQueue) /\ Len(cmdQueue) \in Nat /\ Len(cmdQueue) # 0
      /\ DOMAIN cmdQueue' = 1 .. Len(cmdQueue) - 1
      /\ \A i \in 1 .. Len(cmdQueue) - 1 : cmdQueue'[i] = cmdQueue[i + 1]
      /\ c = cmdQueue[1] /\ c \in Commands
  BY <1>1, HeadTailProperties, EmptySeq
<1> QED
  BY <1>1, <1>2

\* The threads of the component leave the client's side alone.
LEMMA ThreadsFrame ==
  ASSUME CommandThread \/ BufThread
  PROVE  /\ UNCHANGED <<scenario, eNewState, pBuffers, bPopulated>>
         /\ BufThread => UNCHANGED <<cmdQueue, cmdPc, eCurState, hBufAllocSem>>
         /\ BufThread /\ "new" \notin scenario.spsFound => bEnabled' = bEnabled
<1> USE DEF requestVars, commandVars, dataVars, portVars
<1>1. ASSUME CommandThread PROVE UNCHANGED <<scenario, eNewState, pBuffers, bPopulated>>
  <2>1. CASE \E c \in Commands :
               \/ SameState(c) \/ Unsupported(c) \/ Switch(c) \/ BeginTransition(c)
               \/ Flush(c) \/ FlushSpins(c) \/ PortDisable(c) \/ PortEnable(c)
    BY <2>1
       DEF SameState, Unsupported, Switch, BeginTransition, Flush, FlushSpins, PortDisable,
           PortEnable
  <2>2. CASE Steps
    BY <2>2
       DEF Steps, WaitAllocIn, WaitAllocOut, WaitFreeIn, WaitFreeOut, PendAlloc, CreateBufThread,
           Created, OrderExit, WakeForExit, JoinBufThread, CloseVideoCodec, OrderRun, Start,
           SelectDecoder, OpenVpu, OrderPause, WakeForPause, ReturnBuffers, Paused
  <2> QED
    BY <1>1, <2>1, <2>2 DEF CommandThread
<1>2. ASSUME BufThread
      PROVE  /\ UNCHANGED <<scenario, eNewState, pBuffers, bPopulated>>
             /\ UNCHANGED <<cmdQueue, cmdPc, eCurState, hBufAllocSem>>
             /\ "new" \notin scenario.spsFound => bEnabled' = bEnabled
  <2>1. UNCHANGED <<requestVars, commandVars>>
    BY <1>2, BufThreadFrame
  <2>2. UNCHANGED <<hBufAllocSem, pBuffers, bPopulated>>
    BY <1>2
       DEF BufThread, BufBorn, BufOuter, BufPendCtrl, BufInner, BufPendChange, BufStop, BufRun, BufDisabled,
           BufEnabled, BufLock, NoDecoding, DecodeNothing, LearnSequence, InitializeFails, DecodeUnready, Decode,
           NoEos, EosTooEarly, EosPicture, EosMark
  <2>3. ~ LearnSequence => bEnabled' = bEnabled
    BY <1>2
       DEF BufThread, BufBorn, BufOuter, BufPendCtrl, BufInner, BufPendChange, BufStop, BufRun, BufDisabled,
           BufEnabled, BufLock, NoDecoding, DecodeNothing, InitializeFails, DecodeUnready, Decode,
           NoEos, EosTooEarly, EosPicture, EosMark
  <2>4. LearnSequence /\ "new" \notin scenario.spsFound => bEnabled' = bEnabled
    BY DEF LearnSequence
  <2> QED
    BY <2>1, <2>2, <2>3, <2>4
<1> QED
  BY <1>1, <1>2

\* The rest of a script disables no port if all of it does not.
LEMMA ScriptEnabled ==
  ASSUME TypeOK, NEW c, SendCommand(c), NoDisable(scenario)
  PROVE  NoDisable(scenario') /\ c.cmd # "PortDisable"
<1>1. /\ scenario \in ScenarioType /\ scenario.script \in Seq(SUBSET Commands)
      /\ scenario.script # <<>> /\ c \in Head(scenario.script)
      /\ scenario' = [scenario EXCEPT !.script = Tail(scenario.script)]
  BY DEF TypeOK, ScenarioType, SendCommand
<1> DEFINE s == scenario.script
           t == Tail(s)
<1>2. /\ Len(s) \in Nat /\ DOMAIN s = 1 .. Len(s) /\ DOMAIN t = 1 .. Len(t) /\ 1 \in DOMAIN s
      /\ Head(s) = s[1] /\ Len(t) = Len(s) - 1 /\ \A n \in 1 .. Len(t) : t[n] = s[n + 1]
  BY <1>1, HeadTailProperties
<1>3. scenario'.script = t /\ UNCHANGED scenario.spsFound
  BY <1>1 DEF ScenarioType
<1>4. \A n \in DOMAIN t : n + 1 \in DOMAIN s /\ t[n] = s[n + 1]
  BY <1>2
<1>5. \A n \in DOMAIN s : \A d \in s[n] : d.cmd # "PortDisable"
  BY DEF NoDisable
<1> HIDE DEF s, t
<1>6. /\ \A n \in DOMAIN t : \A d \in t[n] : d.cmd # "PortDisable"
      /\ c \in s[1]
  BY <1>1, <1>2, <1>4, <1>5 DEF s
<1> QED
  BY <1>2, <1>3, <1>5, <1>6 DEF NoDisable

LEMMA EnabledStep == ASSUME TypeOK, StaysEnabled, [Next]_vars PROVE StaysEnabled'
<1> USE DEF requestVars, dataVars, portVars
<1>1. ASSUME NEW c \in Commands, SendCommand(c) PROVE StaysEnabled'
  <2>1. NoDisable(scenario)' /\ c.cmd # "PortDisable"
    BY <1>1, ScriptEnabled DEF StaysEnabled
  <2>2. bEnabled' = bEnabled
    BY <1>1 DEF SendCommand
  <2>3. \A i \in DOMAIN cmdQueue' : cmdQueue'[i].cmd # "PortDisable"
    BY <1>1, <2>1, SentCommands DEF StaysEnabled
  <2> QED
    BY <2>1, <2>2, <2>3 DEF StaysEnabled
<1>2. ASSUME UNCHANGED <<scenario, cmdQueue, bEnabled>> PROVE StaysEnabled'
  BY <1>2 DEF StaysEnabled
<1>3. CASE Client /\ ~ \E c \in Commands : SendCommand(c)
  BY <1>2, <1>3
     DEF Client, UseBuffer, AllocateBuffer, Register, FreeBuffer, EmptyThisBuffer,
         EmptyThisBufferPush, FillThisBuffer
<1>4. CASE BufThread \/ UNCHANGED vars
  BY <1>2, <1>4, ThreadsFrame DEF vars, StaysEnabled, NoDisable
<1>5. ASSUME NEW c, Pop(c), scenario' = scenario,
             c.cmd # "PortDisable" => \A p \in Ports : bEnabled[p] => bEnabled'[p]
      PROVE  StaysEnabled'
  BY <1>5, LeftCommands DEF StaysEnabled
<1>6. CASE CommandThread
  <2>1. ASSUME NEW c, SameState(c) \/ Unsupported(c) \/ Switch(c) \/ BeginTransition(c)
                      \/ Flush(c) \/ FlushSpins(c) PROVE StaysEnabled'
    BY <1>5, <2>1 DEF SameState, Unsupported, Switch, BeginTransition, Flush, FlushSpins
  <2>2. ASSUME NEW c \in Commands, PortDisable(c) \/ PortEnable(c) PROVE StaysEnabled'
    <3>1. c.cmd # "PortDisable" => \A p \in Ports : bEnabled[p] => bEnabled'[p]
      BY <2>2 DEF PortDisable, PortEnable
    <3> QED
      BY <1>5, <2>2, <3>1 DEF PortDisable, PortEnable
  <2>3. CASE Steps
    BY <1>2, <2>3
       DEF Steps, WaitAllocIn, WaitAllocOut, WaitFreeIn, WaitFreeOut, PendAlloc, CreateBufThread,
           Created, OrderExit, WakeForExit, JoinBufThread, CloseVideoCodec, OrderRun, Start,
           SelectDecoder, OpenVpu, OrderPause, WakeForPause, ReturnBuffers, Paused
  <2> QED
    BY <1>6, <2>1, <2>2, <2>3 DEF CommandThread
<1> QED
  BY <1>1, <1>3, <1>4, <1>6 DEF Next

\* A change to the state s is waiting.
Ahead(s) == \E i \in DOMAIN cmdQueue : cmdQueue[i].cmd = "StateSet" /\ cmdQueue[i].arg = s

Leaving == FromIdle \ {"run", "start"}

\* Where Loaded is left or entered, and who has asked for it: while a buffer is
\* there in Loaded, a change to Idle is waiting or under way, and Loaded is
\* only asked for when no command is.
Awaiting ==
    /\ \A i \in DOMAIN cmdQueue : cmdQueue[i].cmd = "StateSet" /\ cmdQueue[i].arg = "Loaded" => i = 1
    /\ eNewState = "Idle" /\ (cmdPc \in Leaving \/ Ahead("Loaded")) => Ahead("Idle")
    /\ eCurState = "Loaded" /\ (eNewState = "Idle" \/ \E p \in Ports : pBuffers[p] # {})
         => Ahead("Idle") \/ cmdPc \in FromLoaded
    /\ eCurState = "Loaded" /\ eNewState = "Loaded" => \A p \in Ports : pBuffers[p] = {}

One(P) == IF P THEN 1 ELSE 0

\* The ports that are populated, those without a buffer, and the tokens a
\* transition out of Loaded or into it has taken.
Full == One(bPopulated["in"] /\ pBuffers["in"] = InBuffers)
        + One(bPopulated["out"] /\ pBuffers["out"] = OutBuffers)
Bare == One(pBuffers["in"] = {}) + One(pBuffers["out"] = {})
TokensTaken == One(cmdPc \in {"allocOut", "freeOut"})
               + 2 * One(cmdPc \in {"create", "created", "close"})

\* Every token of hBufAllocSem, taken or not, stands for a port: in Loaded for
\* one that is populated, elsewhere for one that is bare.
TokensCount ==
  /\ eCurState = "Loaded" => hBufAllocSem + TokensTaken <= Full
  /\ eCurState # "Loaded" => hBufAllocSem + TokensTaken <= Bare

LEMMA TokenTypes ==
  ASSUME TypeOK
  PROVE  /\ hBufAllocSem \in Nat /\ TokensTaken \in 0 .. 2 /\ Full \in 0 .. 2 /\ Bare \in 0 .. 2
         /\ Bare = 2 => \A p \in Ports : pBuffers[p] = {}
         /\ Full = 2 => \A p \in Ports : bPopulated[p] /\ pBuffers[p] = Slots(p)
<1>1. hBufAllocSem \in Nat
  BY VidDecAssumption DEF TypeOK
<1>2. TokensTaken \in 0 .. 2 /\ Full \in 0 .. 2 /\ Bare \in 0 .. 2
  BY DEF TokensTaken, Full, Bare, One
<1>3. Bare = 2 => \A p \in Ports : pBuffers[p] = {}
  BY DEF Bare, One, Ports
<1>4. Full = 2 => \A p \in Ports : bPopulated[p] /\ pBuffers[p] = Slots(p)
  BY DEF Full, One, Ports, Slots
<1> QED
  BY <1>1, <1>2, <1>3, <1>4

LEMMA AwaitingKept ==
  ASSUME Awaiting, UNCHANGED <<cmdQueue, eNewState, pBuffers>>,
         eCurState' = "Loaded" => eCurState = "Loaded",
         cmdPc' \in Leaving => cmdPc \in Leaving,
         eCurState' = "Loaded" /\ cmdPc \in FromLoaded => cmdPc' \in FromLoaded
  PROVE  Awaiting'
BY DEF Awaiting, Ahead

LEMMA TokensKept ==
  ASSUME TypeOK, TokensCount, UNCHANGED <<pBuffers, bPopulated>>,
         (eCurState' = "Loaded") <=> (eCurState = "Loaded"), hBufAllocSem' \in Nat,
         hBufAllocSem' + TokensTaken' <= hBufAllocSem + TokensTaken, TokensTaken' \in 0 .. 2
  PROVE  TokensCount'
<1>1. Full' = Full /\ Bare' = Bare
  BY DEF Full, Bare
<1> QED
  BY <1>1, TokenTypes DEF TokensCount

LEMMA AwaitSend ==
  ASSUME TypeOK, Awaiting, NEW c \in Commands, SendCommand(c) PROVE Awaiting'
<1>1. /\ UNCHANGED <<eCurState, cmdPc, pBuffers>>
      /\ eNewState' = IF c.cmd = "StateSet" THEN c.arg ELSE eNewState
      /\ c.arg = "Loaded" => cmdQueue = <<>> /\ cmdPc = "idle"
  BY DEF SendCommand, commandVars, dataVars, portVars, Quiet
<1>2. Ahead("Idle") => Ahead("Idle")'
  BY SentCommands DEF Ahead
<1>3. c.cmd = "StateSet" /\ c.arg = "Idle" => Ahead("Idle")'
  BY SentCommands DEF Ahead
<1>4. Ahead("Loaded")' => Ahead("Loaded") \/ (c.cmd = "StateSet" /\ c.arg = "Loaded")
  BY SentCommands DEF Ahead
<1>5. ASSUME NEW i \in DOMAIN cmdQueue', cmdQueue'[i].cmd = "StateSet", cmdQueue'[i].arg = "Loaded"
      PROVE  i = 1
  BY <1>1, <1>5, SentCommands DEF Awaiting
<1>6. eNewState' = "Idle" /\ (cmdPc' \in Leaving \/ Ahead("Loaded")') => Ahead("Idle")'
  BY <1>1, <1>2, <1>3, <1>4 DEF Awaiting
<1>7. eCurState' = "Loaded" /\ (eNewState' = "Idle" \/ \E p \in Ports : pBuffers'[p] # {})
        => Ahead("Idle")' \/ cmdPc' \in FromLoaded
  BY <1>1, <1>2, <1>3 DEF Awaiting
<1>8. eCurState' = "Loaded" /\ eNewState' = "Loaded" => \A p \in Ports : pBuffers'[p] = {}
  <2> SUFFICES ASSUME eCurState = "Loaded", c.cmd = "StateSet", c.arg = "Loaded"
               PROVE  \A p \in Ports : pBuffers[p] = {}
    BY <1>1 DEF Awaiting
  <2>1. ~ Ahead("Idle") /\ cmdPc \notin FromLoaded
    BY <1>1 DEF Ahead, FromLoaded
  <2> QED
    BY <2>1 DEF Awaiting
<1> QED
  BY <1>5, <1>6, <1>7, <1>8 DEF Awaiting

LEMMA AwaitClient ==
  ASSUME TypeOK, StaysEnabled, Awaiting, TokensCount, Client PROVE Awaiting' /\ TokensCount'
<1> USE DEF requestVars, commandVars, threadVars, bufferSems, dataVars, portVars
<1>0. hBufAllocSem \in Nat /\ pBuffers \in [Ports -> SUBSET (InBuffers \cup OutBuffers)]
      /\ bPopulated \in [Ports -> BOOLEAN] /\ MaxAlloc \in Nat
  BY TokenTypes, VidDecAssumption DEF TypeOK
<1>1. ASSUME NEW c \in Commands, SendCommand(c) PROVE Awaiting' /\ TokensCount'
  <2>1. Awaiting'
    BY <1>1, AwaitSend
  <2>2. UNCHANGED <<eCurState, cmdPc, pBuffers, bPopulated, hBufAllocSem>>
    BY <1>1 DEF SendCommand
  <2> QED
    BY <2>1, <2>2 DEF TokensCount, TokensTaken, Full, Bare
<1>2. ASSUME NEW p \in Ports, NEW b \in Slots(p), UseBuffer(p, b) \/ AllocateBuffer(p, b)
      PROVE  Awaiting' /\ TokensCount'
  <2>1. /\ eCurState = "Loaded" /\ eNewState = "Idle" /\ Register(p, b)
    BY <1>2 DEF UseBuffer, AllocateBuffer, Populating, StaysEnabled
  <2>2. /\ UNCHANGED <<eCurState, eNewState, cmdPc, cmdQueue>>
        /\ pBuffers[p] # Slots(p) /\ pBuffers' = [pBuffers EXCEPT ![p] = @ \cup {b}]
        /\ pBuffers'[p] = Slots(p) => /\ bPopulated' = [bPopulated EXCEPT ![p] = TRUE]
                                      /\ hBufAllocSem' = Posted(hBufAllocSem, MaxAlloc)
        /\ pBuffers'[p] # Slots(p) => UNCHANGED <<bPopulated, hBufAllocSem>>
    BY <2>1 DEF Register
  <2>3. Awaiting'
    BY <2>1, <2>2 DEF Awaiting, Ahead
  <2>4. Full' = Full + One(pBuffers'[p] = Slots(p))
    BY <1>0, <2>2 DEF Full, One, Slots, Ports
  <2>5. hBufAllocSem' <= hBufAllocSem + One(pBuffers'[p] = Slots(p)) /\ hBufAllocSem' \in Nat
    BY <1>0, <2>2 DEF Posted, One
  <2>6. TokensTaken' = TokensTaken /\ One(pBuffers'[p] = Slots(p)) \in 0 .. 1
    BY <2>2 DEF TokensTaken, One
  <2> QED
    BY <2>1, <2>2, <2>3, <2>4, <2>5, <2>6, TokenTypes DEF TokensCount
<1>3. ASSUME NEW p \in Ports, NEW b \in Slots(p), FreeBuffer(p, b) PROVE Awaiting' /\ TokensCount'
  <2>1. /\ eNewState = "Loaded" /\ pBuffers[p] # {}
    BY <1>3 DEF FreeBuffer, Depopulating, StaysEnabled
  <2>2. /\ UNCHANGED <<eCurState, eNewState, cmdPc, cmdQueue>>
        /\ pBuffers' = [pBuffers EXCEPT ![p] = @ \ {b}]
        /\ pBuffers'[p] = {} => hBufAllocSem' = Posted(hBufAllocSem, MaxAlloc)
        /\ pBuffers'[p] # {} => hBufAllocSem' = hBufAllocSem
    BY <1>3 DEF FreeBuffer
  <2>3. eCurState # "Loaded"
    BY <2>1 DEF Awaiting
  <2>4. Awaiting'
    BY <2>1, <2>2, <2>3 DEF Awaiting, Ahead
  <2>5. Bare' = Bare + One(pBuffers'[p] = {})
    BY <1>0, <2>1, <2>2 DEF Bare, One, Ports
  <2>6. hBufAllocSem' <= hBufAllocSem + One(pBuffers'[p] = {}) /\ hBufAllocSem' \in Nat
    BY <1>0, <2>2 DEF Posted, One
  <2>7. TokensTaken' = TokensTaken /\ One(pBuffers'[p] = {}) \in 0 .. 1
    BY <2>2 DEF TokensTaken, One
  <2> QED
    BY <2>2, <2>3, <2>4, <2>5, <2>6, <2>7, TokenTypes DEF TokensCount
<1>4. ASSUME UNCHANGED <<eCurState, eNewState, cmdPc, cmdQueue, pBuffers, bPopulated, hBufAllocSem>>
      PROVE  Awaiting' /\ TokensCount'
  BY <1>4 DEF Awaiting, Ahead, TokensCount, TokensTaken, Full, Bare
<1> QED
  BY <1>1, <1>2, <1>3, <1>4 DEF Client, EmptyThisBuffer, EmptyThisBufferPush, FillThisBuffer

LEMMA AwaitPop ==
  ASSUME TypeOK, Awaiting, TokensCount, NEW c, Pop(c),
         UNCHANGED <<eNewState, pBuffers, bPopulated, hBufAllocSem>>,
         cmdPc' \in {"idle", "spin", "allocIn", "exit", "run", "pause"},
         cmdPc' = "exit" => c.cmd = "StateSet" /\ c.arg = "Loaded",
         c.cmd = "StateSet" /\ c.arg = "Idle" /\ eCurState = "Loaded" => cmdPc' = "allocIn",
         (eCurState' = "Loaded") <=> (eCurState = "Loaded")
  PROVE  Awaiting' /\ TokensCount'
<1>1. \A s : Ahead(s) /\ ~ (c.cmd = "StateSet" /\ c.arg = s) => Ahead(s)'
  BY LeftCommands DEF Ahead
<1>2. ~ Ahead("Loaded")'
  BY LeftCommands DEF Ahead, Awaiting
<1>3. c.cmd = "StateSet" /\ c.arg = "Loaded" => Ahead("Loaded")
  BY LeftCommands DEF Ahead
<1>4. eNewState' = "Idle" /\ (cmdPc' \in Leaving \/ Ahead("Loaded")') => Ahead("Idle")'
  <2> SUFFICES ASSUME eNewState = "Idle", cmdPc' = "exit" PROVE Ahead("Idle")'
    BY <1>2 DEF Leaving, FromIdle
  <2> QED
    BY <1>1, <1>3 DEF Awaiting
<1>5. eCurState' = "Loaded" /\ (eNewState' = "Idle" \/ \E p \in Ports : pBuffers'[p] # {})
        => Ahead("Idle")' \/ cmdPc' \in FromLoaded
  <2> SUFFICES ASSUME eCurState = "Loaded", eNewState = "Idle" \/ \E p \in Ports : pBuffers[p] # {}
               PROVE  Ahead("Idle")' \/ cmdPc' \in FromLoaded
    OBVIOUS
  <2>1. Ahead("Idle")
    BY LeftCommands DEF Awaiting, FromLoaded
  <2> QED
    BY <1>1, <2>1 DEF FromLoaded
<1>6. Awaiting'
  BY <1>2, <1>4, <1>5 DEF Awaiting, Ahead
<1>7. TokensTaken = 0 /\ TokensTaken' = 0
  BY LeftCommands DEF TokensTaken, One
<1> QED
  BY <1>6, <1>7, TokenTypes, TokensKept

LEMMA AwaitCommand ==
  ASSUME TypeOK, Phases, StaysEnabled, Awaiting, TokensCount, CommandThread
  PROVE  Awaiting' /\ TokensCount'
<1> USE DEF requestVars, commandVars, threadVars, bufferSems, dataVars, portVars, At, Goto, Complete
<1>0. UNCHANGED <<eNewState, pBuffers, bPopulated>> /\ Full' = Full /\ Bare' = Bare
  BY ThreadsFrame DEF Full, Bare
<1>1. ASSUME NEW c \in Commands, SameState(c) \/ Flush(c) \/ FlushSpins(c) \/ PortDisable(c) \/ PortEnable(c)
      PROVE  Awaiting' /\ TokensCount'
  <2>1. /\ Pop(c) /\ UNCHANGED <<eCurState, hBufAllocSem>> /\ cmdPc' \in {"idle", "spin"}
        /\ ~ (c.cmd = "StateSet" /\ c.arg = "Idle" /\ eCurState = "Loaded")
    BY <1>1 DEF SameState, Flush, FlushSpins, Drains, PortDisable, PortEnable, Pop
  <2> QED
    BY <1>0, <2>1, AwaitPop
<1>2. ASSUME NEW c \in Commands, Unsupported(c) PROVE Awaiting' /\ TokensCount'
  <2>1. /\ Pop(c) /\ UNCHANGED <<eCurState, hBufAllocSem>> /\ cmdPc' = "idle"
        /\ ~ (c.cmd = "StateSet" /\ c.arg = "Idle" /\ eCurState = "Loaded")
    BY <1>2 DEF Unsupported, Supported
  <2> QED
    BY <1>0, <2>1, AwaitPop
<1>3. ASSUME NEW c \in Commands, Switch(c) PROVE Awaiting' /\ TokensCount'
  <2>1. /\ Pop(c) /\ UNCHANGED hBufAllocSem /\ cmdPc' = "idle"
        /\ eCurState # "Loaded" /\ eCurState' # "Loaded"
    BY <1>3 DEF Switch, Supported
  <2> QED
    BY <1>0, <2>1, AwaitPop
<1>4. ASSUME NEW c \in Commands, BeginTransition(c) PROVE Awaiting' /\ TokensCount'
  <2>1. /\ Pop(c) /\ UNCHANGED <<eCurState, hBufAllocSem>> /\ c.cmd = "StateSet"
        /\ cmdPc' = FirstPlace(eCurState, c.arg) /\ cmdPc' # "idle"
    BY <1>4 DEF BeginTransition
  <2>2. cmdPc' \in {"allocIn", "exit", "run", "pause"}
    BY <2>1 DEF FirstPlace
  <2>3. cmdPc' = "exit" => c.arg = "Loaded"
    BY <2>1 DEF FirstPlace
  <2>4. c.arg = "Idle" /\ eCurState = "Loaded" => cmdPc' = "allocIn"
    BY <2>1 DEF FirstPlace
  <2> QED
    BY <1>0, <2>1, <2>2, <2>3, <2>4, AwaitPop
<1> USE DEF Leaving, FromIdle, FromLoaded
<1>5. CASE WaitAllocIn \/ WaitAllocOut \/ WaitFreeIn \/ WaitFreeOut
  <2>1. /\ UNCHANGED <<eCurState, cmdQueue>> /\ hBufAllocSem > 0 /\ hBufAllocSem' = hBufAllocSem - 1
        /\ TokensTaken' = TokensTaken + 1 /\ TokensTaken' \in 0 .. 2
    BY <1>5
       DEF WaitAllocIn, WaitAllocOut, WaitFreeIn, WaitFreeOut, PendAlloc, TokensTaken, One,
           StaysEnabled, Ports
  <2>2. Awaiting'
    BY <1>0, <1>5, <2>1, AwaitingKept
       DEF WaitAllocIn, WaitAllocOut, WaitFreeIn, WaitFreeOut, PendAlloc
  <2> QED
    BY <1>0, <2>1, <2>2, TokenTypes, TokensKept
<1>6. ASSUME UNCHANGED <<eCurState, cmdQueue, hBufAllocSem>>, TokensTaken' = TokensTaken,
             cmdPc' \in Leaving => cmdPc \in Leaving,
             cmdPc \in FromLoaded => cmdPc' \in FromLoaded
      PROVE  Awaiting' /\ TokensCount'
  BY <1>0, <1>6, AwaitingKept, TokenTypes, TokensKept
<1>7. CASE CreateBufThread \/ OrderExit \/ WakeForExit \/ JoinBufThread
  BY <1>6, <1>7 DEF CreateBufThread, OrderExit, WakeForExit, JoinBufThread, TokensTaken, One
<1>8. CASE OrderRun \/ SelectDecoder \/ OpenVpu \/ OrderPause \/ WakeForPause \/ ReturnBuffers
  BY <1>6, <1>8
     DEF OrderRun, SelectDecoder, OpenVpu, OrderPause, WakeForPause, ReturnBuffers, TokensTaken, One
<1>9. CASE Start \/ Paused
  <2>1. /\ eCurState' # "Loaded" /\ eCurState # "Loaded" /\ UNCHANGED <<hBufAllocSem, cmdQueue>>
        /\ TokensTaken = 0 /\ TokensTaken' = 0 /\ cmdPc' \notin Leaving
    BY <1>9 DEF Start, Paused, TokensTaken, One, Phases, InTransition, FromExecuting
  <2> QED
    BY <1>0, <2>1, AwaitingKept, TokenTypes, TokensKept
<1>10. CASE Created
  <2>1. /\ eCurState' = "Idle" /\ UNCHANGED <<hBufAllocSem, cmdQueue>> /\ TokensTaken = 2
        /\ TokensTaken' = 0 /\ eCurState = "Loaded" /\ cmdPc' \notin Leaving
    BY <1>10 DEF Created, TokensTaken, One, Phases, InTransition
  <2> QED
    BY <1>0, <2>1, AwaitingKept, TokenTypes DEF TokensCount
<1>11. CASE CloseVideoCodec
  <2>1. /\ eCurState' = "Loaded" /\ UNCHANGED <<hBufAllocSem, cmdQueue>> /\ TokensTaken = 2
        /\ TokensTaken' = 0 /\ eCurState = "Idle" /\ cmdPc \in Leaving /\ cmdPc' = "idle"
    BY <1>11 DEF CloseVideoCodec, TokensTaken, One, Phases, InTransition
  <2>2. hBufAllocSem = 0 /\ Bare = 2
    BY <2>1, TokenTypes DEF TokensCount
  <2>3. Awaiting'
    BY <1>0, <2>1, <2>2, TokenTypes DEF Awaiting, Ahead
  <2> QED
    BY <1>0, <2>1, <2>2, <2>3, TokenTypes DEF TokensCount
<1> QED
  BY <1>1, <1>2, <1>3, <1>4, <1>5, <1>7, <1>8, <1>9, <1>10, <1>11 DEF CommandThread, Steps

LEMMA AwaitInit == ASSUME AllEnabled, Init PROVE StaysEnabled /\ Awaiting /\ TokensCount
<1>1. StaysEnabled /\ Awaiting
  BY DEF AllEnabled, Init, StaysEnabled, Awaiting, Ahead, Ports
<1>2. hBufAllocSem = 0 /\ TokensTaken = 0 /\ Full \in Nat /\ eCurState = "Loaded"
  BY DEF Init, TokensTaken, Full, One
<1> QED
  BY <1>1, <1>2 DEF TokensCount

LEMMA AwaitStep ==
  ASSUME TypeOK, Phases, StaysEnabled, Awaiting, TokensCount, [Next]_vars
  PROVE  Awaiting' /\ TokensCount'
<1>1. CASE BufThread \/ UNCHANGED vars
  <2>1. UNCHANGED <<eCurState, eNewState, cmdPc, cmdQueue, pBuffers, bPopulated, hBufAllocSem>>
    BY <1>1, ThreadsFrame DEF vars, requestVars, commandVars, dataVars, portVars
  <2> QED
    BY <2>1 DEF Awaiting, Ahead, TokensCount, TokensTaken, Full, Bare
<1> QED
  BY <1>1, AwaitClient, AwaitCommand DEF Next

LEMMA AwaitedIs == TypeOK /\ Phases /\ TokensCount => BuffersAwaited
<1> SUFFICES ASSUME TypeOK, Phases, TokensCount PROVE BuffersAwaited
  OBVIOUS
<1>1. cmdPc \in {"create", "created"} => Full = 2
  <2>1. cmdPc \in {"create", "created"} => eCurState = "Loaded" /\ TokensTaken = 2
    BY DEF Phases, InTransition, FromLoaded, TokensTaken, One
  <2> QED
    BY <2>1, TokenTypes DEF TokensCount
<1>2. cmdPc = "close" => Bare = 2
  <2>1. cmdPc = "close" => eCurState = "Idle" /\ TokensTaken = 2
    BY DEF Phases, InTransition, FromIdle, TokensTaken, One
  <2> QED
    BY <2>1, TokenTypes DEF TokensCount
<1> QED
  BY <1>1, <1>2, TokenTypes DEF BuffersAwaited

(***************************************************************************)
(* The transition out of Loaded ends with every port populated and the one *)
(* into Loaded with every port bare (BuffersAwaited), whatever the client  *)
(* does and however the VPU fails, as long as no port is disabled.  All    *)
(* the command thread waits for are two tokens of one semaphore, which say *)
(* neither which port posted them nor why; a port that is disabled posts   *)
(* tokens that nobody takes (README, "Divergences").                       *)
(***************************************************************************)
THEOREM BuffersAreAwaited == ASSUME AllEnabled PROVE Spec => []BuffersAwaited
<1>1. Init => StaysEnabled /\ Awaiting /\ TokensCount
  BY AwaitInit
<1>2. TypeOK /\ Phases /\ StaysEnabled /\ Awaiting /\ TokensCount /\ [Next]_vars
        => Phases' /\ StaysEnabled' /\ Awaiting' /\ TokensCount'
  BY PhasesStep, EnabledStep, AwaitStep
<1> QED
  BY <1>1, <1>2, AwaitedIs, PhasesInit, TypeCorrect, PTL DEF Spec

-----------------------------------------------------------------------------
(* The promise of OMXComponent                                             *)

\* The input the client is about to push still has its slot.
PushesRegistered == \A i \in DOMAIN etb : etb[i].buf \in pBuffers["in"]

Queued == HeldInputs \cup HeldOutputs
Registered == pBuffers["in"] \cup pBuffers["out"]

LEMMA PushesStep == ASSUME TypeOK, PushesRegistered, [Next]_vars PROVE PushesRegistered'
<1> USE DEF requestVars, commandVars, dataVars, portVars, inVars
<1>1. ASSUME UNCHANGED <<pBuffers, etb>> PROVE PushesRegistered'
  BY <1>1 DEF PushesRegistered
<1>2. ASSUME NEW p \in Ports, NEW b, UseBuffer(p, b) \/ AllocateBuffer(p, b) PROVE PushesRegistered'
  <2>1. pBuffers' = [pBuffers EXCEPT ![p] = @ \cup {b}] /\ etb' = etb
    BY <1>2 DEF UseBuffer, AllocateBuffer, Register
  <2>2. pBuffers["in"] \subseteq pBuffers'["in"]
    BY <2>1 DEF TypeOK, Ports
  <2> QED
    BY <2>1, <2>2 DEF PushesRegistered
<1>3. ASSUME NEW p \in Ports, NEW b, FreeBuffer(p, b) PROVE PushesRegistered'
  <2>1. pBuffers' = [pBuffers EXCEPT ![p] = @ \ {b}] /\ etb' = etb
        /\ b \notin {etb[i].buf : i \in 1 .. Len(etb)}
    BY <1>3 DEF FreeBuffer
  <2>2. pBuffers["in"] \ {b} \subseteq pBuffers'["in"]
    BY <2>1 DEF TypeOK, Ports
  <2>3. DOMAIN etb = 1 .. Len(etb)
    BY DEF TypeOK
  <2> QED
    BY <2>1, <2>2, <2>3 DEF PushesRegistered
<1>4. ASSUME NEW b, NEW d, EmptyThisBuffer(b, d) PROVE PushesRegistered'
  <2>1. /\ etb' = <<[buf |-> b, data |-> d]>> /\ b \in pBuffers["in"] /\ pBuffers' = pBuffers
    BY <1>4 DEF EmptyThisBuffer
  <2>2. DOMAIN etb' = {1} /\ etb'[1].buf = b
    BY <2>1
  <2> QED
    BY <2>1, <2>2 DEF PushesRegistered
<1>5. CASE EmptyThisBufferPush
  BY <1>5 DEF EmptyThisBufferPush, PushesRegistered
<1>6. ASSUME (\E c : SendCommand(c)) \/ (\E b : FillThisBuffer(b)) PROVE PushesRegistered'
  BY <1>1, <1>6 DEF SendCommand, FillThisBuffer
<1>7. CASE CommandThread
  <2>1. CASE \E c \in Commands :
               \/ SameState(c) \/ Unsupported(c) \/ Switch(c) \/ BeginTransition(c)
               \/ Flush(c) \/ FlushSpins(c) \/ PortDisable(c) \/ PortEnable(c)
    BY <1>1, <2>1
       DEF SameState, Unsupported, Switch, BeginTransition, Flush, FlushSpins, PortDisable,
           PortEnable
  <2>2. CASE Steps
    BY <1>1, <2>2
       DEF Steps, WaitAllocIn, WaitAllocOut, WaitFreeIn, WaitFreeOut, PendAlloc, CreateBufThread,
           Created, OrderExit, WakeForExit, JoinBufThread, CloseVideoCodec, OrderRun, Start,
           SelectDecoder, OpenVpu, OrderPause, WakeForPause, ReturnBuffers, Paused
  <2> QED
    BY <1>7, <2>1, <2>2 DEF CommandThread
<1>8. CASE BufThread \/ UNCHANGED vars
  BY <1>1, <1>8, ThreadsFrame, BufThreadFrame DEF vars
<1> QED
  BY <1>2, <1>3, <1>4, <1>5, <1>6, <1>7, <1>8 DEF Next, Client

\* The threads of the component only take buffers out of the queues.
LEMMA QueuedShrinks ==
  ASSUME Known, ~ bEnableThumbNailMode, CommandThread \/ BufThread PROVE Queued' \subseteq Queued
<1> USE DEF requestVars, dataVars, inVars, outVars
<1>1. pInputPortQueue' \in {pInputPortQueue, <<>>} \/ (pInputPortQueue # <<>> /\ pInputPortQueue' = Tail(pInputPortQueue))
  <2>1. CASE CommandThread
    <3>1. CASE \E c \in Commands :
                 \/ SameState(c) \/ Unsupported(c) \/ Switch(c) \/ BeginTransition(c)
                 \/ Flush(c) \/ FlushSpins(c) \/ PortDisable(c) \/ PortEnable(c)
      BY <3>1
         DEF SameState, Unsupported, Switch, BeginTransition, Flush, FlushSpins, PortDisable,
             PortEnable, InputIf
    <3>2. CASE Steps
      BY <3>2
         DEF Steps, WaitAllocIn, WaitAllocOut, WaitFreeIn, WaitFreeOut, PendAlloc, CreateBufThread,
             Created, OrderExit, WakeForExit, JoinBufThread, CloseVideoCodec, OrderRun, Start,
             SelectDecoder, OpenVpu, OrderPause, WakeForPause, ReturnBuffers, Paused
    <3> QED
      BY <2>1, <3>1, <3>2 DEF CommandThread
  <2>2. ASSUME NEW S, Consume(S)
        PROVE  pInputPortQueue # <<>> /\ pInputPortQueue' = Tail(pInputPortQueue)
    BY <2>2 DEF Consume, CanDecode
  <2>3. CASE BufThread
    BY <2>2, <2>3
       DEF BufThread, BufBorn, BufOuter, BufPendCtrl, BufInner, BufPendChange, BufStop, BufRun, BufDisabled,
           BufEnabled, BufLock, NoDecoding, DecodeNothing, LearnSequence, InitializeFails, DecodeUnready, Decode,
           NoEos, EosTooEarly, EosPicture, EosMark
  <2> QED
    BY <2>1, <2>3
<1>2. outBufferUseFlag' \subseteq outBufferUseFlag
  <2>1. CASE CommandThread
    <3>1. CASE \E c \in Commands :
                 \/ SameState(c) \/ Unsupported(c) \/ Switch(c) \/ BeginTransition(c)
                 \/ Flush(c) \/ FlushSpins(c) \/ PortDisable(c) \/ PortEnable(c)
      BY <3>1
         DEF SameState, Unsupported, Switch, BeginTransition, Flush, FlushSpins, PortDisable,
             PortEnable, FlushOutput, ClearFlags
    <3>2. CASE Steps
      BY <3>2
         DEF Steps, WaitAllocIn, WaitAllocOut, WaitFreeIn, WaitFreeOut, PendAlloc, CreateBufThread,
             Created, OrderExit, WakeForExit, JoinBufThread, CloseVideoCodec, OrderRun, Start,
             SelectDecoder, OpenVpu, OrderPause, WakeForPause, ReturnBuffers, Paused, ClearFlags
    <3> QED
      BY <2>1, <3>1, <3>2 DEF CommandThread
  <2>2. CASE BufThread
    BY <2>2
       DEF BufThread, BufBorn, BufOuter, BufPendCtrl, BufInner, BufPendChange, BufStop, BufRun, BufDisabled,
           BufEnabled, BufLock, NoDecoding, DecodeNothing, LearnSequence, InitializeFails, DecodeUnready, Decode,
           Deliver, NoEos, EosTooEarly, EosPicture, EosMark
  <2> QED
    BY <2>1, <2>2
<1>3. HeldInputs' \subseteq HeldInputs
  <2>1. ASSUME NEW i \in 1 .. Len(pInputPortQueue')
        PROVE  \E j \in 1 .. Len(pInputPortQueue) : pInputPortQueue[j] = pInputPortQueue'[i]
    <3>1. pInputPortQueue \in Seq(InputType)
      BY TypeQueues DEF Known
    <3>2. CASE pInputPortQueue' = pInputPortQueue
      BY <2>1, <3>2
    <3>3. CASE pInputPortQueue' = <<>>
      BY <2>1, <3>3
    <3>4. CASE pInputPortQueue # <<>> /\ pInputPortQueue' = Tail(pInputPortQueue)
      <4>1. /\ Len(pInputPortQueue) \in Nat /\ Len(pInputPortQueue') = Len(pInputPortQueue) - 1
            /\ \A k \in 1 .. Len(pInputPortQueue') : pInputPortQueue'[k] = pInputPortQueue[k + 1]
        BY <3>1, <3>4, HeadTailProperties
      <4> QED
        BY <2>1, <4>1
    <3> QED
      BY <1>1, <3>2, <3>3, <3>4
  <2> QED
    BY <2>1 DEF HeldInputs
<1>4. HeldOutputs' \subseteq HeldOutputs
  <2>1. bEnableThumbNailMode' = bEnableThumbNailMode
    BY ThreadsFrame DEF bEnableThumbNailMode
  <2> QED
    BY <1>2, <2>1 DEF HeldOutputs
<1> QED
  BY <1>3, <1>4 DEF Queued

\* Who holds a buffer, in the words of OMXComponent.
LEMMA LentIs ==
  ASSUME TypeOK, HeldByOneSide
  PROVE  /\ lent = [b \in Buffers |-> IF b \in Queued THEN 1 ELSE 0]
         /\ Component!Buffers = Buffers /\ Component!Held = Queued /\ Queued \subseteq Buffers
<1>1. lent = [b \in Buffers |-> IF b \in Queued THEN 1 ELSE 0]
  BY DEF TypeOK, HeldByOneSide, Queued, Buffers
<1>2. Queued \subseteq Buffers
  <2>1. HeldInputs \subseteq InBuffers
    <3>1. pInputPortQueue \in Seq(InputType)
      BY TypeQueues
    <3>2. ASSUME NEW i \in 1 .. Len(pInputPortQueue) PROVE pInputPortQueue[i].buf \in InBuffers
      <4>1. pInputPortQueue[i] \in InputType
        BY <3>1, <3>2, ElementOfSeq
      <4> QED
        BY <4>1 DEF InputType
    <3> QED
      BY <3>2 DEF HeldInputs
  <2>2. HeldOutputs \subseteq OutBuffers
    BY ElementOfSeq DEF HeldOutputs, TypeOK
  <2> QED
    BY <2>1, <2>2 DEF Queued, Buffers
<1> QED
  BY <1>1, <1>2 DEF Component!Held, Component!Buffers, Buffers

LEMMA LentIsAfter ==
  ASSUME TypeOK', HeldByOneSide' PROVE lent' = [b \in Buffers |-> IF b \in Queued' THEN 1 ELSE 0]
BY DEF TypeOK, HeldByOneSide, Queued, Buffers

LEMMA EnabledIs ==
  ASSUME TypeOK, TypeOK', StaysEnabled, StaysEnabled' PROVE bEnabled' = bEnabled
BY DEF TypeOK, StaysEnabled

\* Buffers come back.
LEMMA ReturnsAreDone ==
  ASSUME TypeOK, HeldByOneSide, TypeOK', HeldByOneSide', Queued' \subseteq Queued,
         UNCHANGED <<eCurState, bEnabled, pBuffers>>
  PROVE  Component!Next
<1>1. Component!Held = Queued /\ Component!Buffers = Buffers
  BY LentIs
<1>2. PICK S : S = Queued \ Queued'
  OBVIOUS
<1>3. lent' = [b \in Buffers |-> IF b \in S THEN 0 ELSE lent[b]]
  BY <1>2, LentIs, LentIsAfter
<1>4. Component!Return(S) /\ S \in SUBSET Component!Held
  BY <1>1, <1>2, <1>3 DEF Component!Return
<1>5. Component!Done(S)
  BY <1>4 DEF Component!Done
<1> QED
  BY <1>4, <1>5 DEF Component!Next

\* A buffer is brought, freed, or handed over.
LEMMA BufferSteps ==
  ASSUME NEW b \in Component!Buffers,
         Component!Register(b) \/ Component!Unregister(b) \/ Component!Give(b)
  PROVE  Component!Next
BY DEF Component!Next

LEMMA GivenIs ==
  ASSUME TypeOK, HeldByOneSide, NEW b \in Registered, b \notin Queued, eCurState # "Loaded",
         UNCHANGED <<eCurState, bEnabled, pBuffers>>, lent' = [lent EXCEPT ![b] = @ + 1]
  PROVE  Component!Next
<1>1. b \in Buffers
  BY DEF TypeOK, Registered, Ports, Buffers
<1>2. lent[b] = 0 /\ Component!Buffers = Buffers /\ Component!Held = Queued
  BY <1>1, LentIs
<1>3. lent' = [lent EXCEPT ![b] = 1]
  BY <1>2
<1>4. Component!Give(b)
  BY <1>2, <1>3 DEF Component!Give, Registered
<1> QED
  BY <1>1, <1>2, <1>4, BufferSteps

LEMMA ChangeSteps ==
  ASSUME NEW from \in Component!States, NEW to \in Component!States, Component!Change(from, to)
  PROVE  Component!Next
BY DEF Component!Next

LEMMA ClientKeeps ==
  ASSUME Known, ~ bEnableThumbNailMode, Sync, Emptied, PushesRegistered, bEnabled' = bEnabled, Client
  PROVE  Component!Next \/ UNCHANGED Component!vars
<1> USE DEF requestVars, commandVars, dataVars, portVars, Known
<1>0. Component!Buffers = Buffers /\ Component!Held = Queued
  BY LentIs
<1>1. ASSUME UNCHANGED <<eCurState, pBuffers, lent>> PROVE UNCHANGED Component!vars
  BY <1>1 DEF Component!vars
<1>2. ASSUME NEW c, SendCommand(c) PROVE UNCHANGED Component!vars
  BY <1>1, <1>2 DEF SendCommand
<1>3. ASSUME NEW p \in Ports, NEW b \in Slots(p), UseBuffer(p, b) \/ AllocateBuffer(p, b)
      PROVE  Component!Next
  <2>1. /\ pBuffers' = [pBuffers EXCEPT ![p] = @ \cup {b}] /\ UNCHANGED <<eCurState, lent>>
        /\ b \notin pBuffers[p]
    BY <1>3 DEF UseBuffer, AllocateBuffer, Register
  <2>2. b \in Buffers /\ \A q \in Ports \ {p} : b \notin Slots(q)
    BY VidDecAssumption DEF Buffers, Slots, Ports
  <2>3. b \notin Registered
    BY <2>1, <2>2 DEF TypeOK, Registered, Ports
  <2>4. Registered' = Registered \cup {b}
    BY <2>1 DEF TypeOK, Registered, Ports
  <2>5. Component!Register(b)
    BY <2>1, <2>3, <2>4 DEF Component!Register, Registered
  <2> QED
    BY <1>0, <2>2, <2>5, BufferSteps
<1>4. ASSUME NEW p \in Ports, NEW b \in Slots(p), FreeBuffer(p, b) PROVE Component!Next
  <2>1. /\ pBuffers' = [pBuffers EXCEPT ![p] = @ \ {b}] /\ UNCHANGED <<eCurState, lent>>
        /\ b \in pBuffers[p] /\ lent[b] <= 0
    BY <1>4 DEF FreeBuffer
  <2>2. b \in Buffers /\ \A q \in Ports \ {p} : b \notin Slots(q)
    BY VidDecAssumption DEF Buffers, Slots, Ports
  <2>3. b \in Registered \ Queued
    <3>1. lent[b] # 1
      BY <2>1
    <3>2. b \in Registered
      BY <2>1 DEF Registered, Ports
    <3> QED
      BY <2>2, <3>1, <3>2, LentIs
  <2>4. Registered' = Registered \ {b}
    BY <2>1, <2>2 DEF TypeOK, Registered, Ports
  <2>5. Component!Unregister(b)
    BY <1>0, <2>1, <2>3, <2>4 DEF Component!Unregister, Registered
  <2> QED
    BY <1>0, <2>2, <2>5, BufferSteps
<1>5. ASSUME NEW b, NEW d, EmptyThisBuffer(b, d) PROVE UNCHANGED Component!vars
  BY <1>1, <1>5 DEF EmptyThisBuffer
<1>6. CASE EmptyThisBufferPush
  <2>1. CASE UNCHANGED lent
    BY <1>1, <1>6, <2>1 DEF EmptyThisBufferPush
  <2>2. CASE ~ UNCHANGED lent
    <3>1. PICK b : b = etb[1].buf
      OBVIOUS
    <3>2. etb # <<>> /\ UNCHANGED <<eCurState, pBuffers>> /\ lent' = [lent EXCEPT ![b] = @ + 1]
      BY <1>6, <2>2, <3>1 DEF EmptyThisBufferPush
    <3>3. 1 \in DOMAIN etb
      BY <3>2, TypeQueues, EmptySeq, ElementOfSeq
    <3>4. b \in pBuffers["in"] /\ b \notin HeldInputs /\ eCurState # "Loaded"
      BY <3>1, <3>2, <3>3 DEF PushesRegistered, InRecords, Emptied
    <3>5. b \notin HeldOutputs
      <4>1. HeldOutputs \subseteq OutBuffers /\ b \in InBuffers
        BY <3>4 DEF TypeOK, HeldOutputs, Ports, Slots
      <4> QED
        BY <4>1, VidDecAssumption
    <3> QED
      BY <3>2, <3>4, <3>5, GivenIs DEF Registered, Queued
  <2> QED
    BY <2>1, <2>2
<1>7. ASSUME NEW b \in OutBuffers, FillThisBuffer(b) PROVE Component!Next \/ UNCHANGED Component!vars
  <2>1. UNCHANGED <<eCurState, pBuffers>> /\ b \in pBuffers["out"] /\ lent[b] <= 0 /\ Streaming("out")
    BY <1>7 DEF FillThisBuffer
  <2>2. eCurState # "Loaded"
    BY <2>1, StreamingRuns DEF TidyState
  <2>3. b \notin Queued
    <3>1. lent[b] # 1 /\ b \in Buffers
      BY <2>1 DEF Buffers
    <3> QED
      BY <3>1, LentIs
  <2>4. lent' = lent \/ lent' = [lent EXCEPT ![b] = @ + 1]
    BY <1>7 DEF FillThisBuffer, FillThumbnail, FillFrame
  <2> QED
    BY <1>1, <2>1, <2>2, <2>3, <2>4, GivenIs DEF Registered
<1> QED
  BY <1>2, <1>3, <1>4, <1>5, <1>6, <1>7 DEF Client

\* Where the state changes.
LEMMA StateChanges ==
  ASSUME TypeOK, HeldByOneSide, NEW from \in Component!States, NEW to \in Component!States,
         UNCHANGED <<bEnabled, pBuffers, lent>>, eCurState = from, eCurState' = to,
         <<from, to>> \in Supported,
         from = "Loaded" => Full = 2,
         to = "Loaded" => Bare = 2,
         to = "Idle" => Queued = {}
  PROVE  Component!Next
<1>1. Component!Held = Queued
  BY LentIs
<1>2. from = "Loaded" => \A p \in Component!Ports : Component!Of(p) \subseteq Registered
  BY DEF Full, One, Registered, Component!Ports, Component!Of
<1>3. to = "Loaded" => \A p \in Component!Ports : Component!Of(p) \cap Registered = {}
  BY DEF Bare, One, Registered, Component!Ports, Component!Of
<1>4. Component!Change(from, to)
  BY <1>1, <1>2, <1>3 DEF Component!Change, Supported, Registered
<1> QED
  BY <1>4, ChangeSteps

LEMMA CommandKeeps ==
  ASSUME Known, ~ bEnableThumbNailMode, Sync, Emptied, TokensCount, TypeOK', HeldByOneSide',
         bEnabled' = bEnabled, CommandThread
  PROVE  Component!Next
<1> USE DEF requestVars, commandVars, dataVars, portVars, At, Goto, Complete, Component!States, Known
<1>0. pBuffers' = pBuffers
  BY ThreadsFrame
<1>1. CASE UNCHANGED eCurState
  BY <1>0, <1>1, QueuedShrinks, ReturnsAreDone
<1>2. ASSUME eCurState \in {"Idle", "Loaded"} \/ cmdPc = "paused" PROVE Queued = {}
  <2>1. pInputPortQueue = <<>> /\ pOutputPortQueue = <<>>
    BY <1>2 DEF Emptied
  <2>2. HeldInputs = {}
    BY <2>1 DEF HeldInputs
  <2>3. HeldOutputs = {}
    BY <2>1, OutputsAre, TypeQueues DEF Elements
  <2> QED
    BY <2>2, <2>3 DEF Queued
<1>3. ASSUME NEW c \in Commands, Switch(c) PROVE Component!Next
  <2>1. /\ Pop(c) /\ c.cmd = "StateSet" /\ <<eCurState, c.arg>> \in Supported
        /\ "Pause" \in {eCurState, c.arg} /\ eCurState' = c.arg /\ lent' = lent
    BY <1>3 DEF Switch
  <2>2. c.arg = eNewState /\ cmdPc = "idle"
    BY <2>1, PoppedCommand DEF TidyState
  <2>3. <<eCurState, c.arg>> \in InOrder
    BY <2>1, <2>2 DEF Sync, Supported
  <2>4. /\ eCurState \in Component!States /\ c.arg \in Component!States
        /\ eCurState # "Loaded" /\ c.arg \notin {"Loaded", "Idle"}
    BY <2>1, <2>3 DEF InOrder, Supported
  <2> QED
    BY <1>0, <2>1, <2>4, StateChanges
<1>4. CASE Created
  <2>1. /\ eCurState = "Loaded" /\ eCurState' = "Idle" /\ lent' = lent /\ TokensTaken = 2
    BY <1>4 DEF Created, Phases, InTransition, FromLoaded, TokensTaken, One
  <2>2. Full = 2
    BY <2>1, TokenTypes DEF TokensCount
  <2> QED
    BY <1>0, <1>2, <2>1, <2>2, StateChanges DEF Supported
<1>5. CASE CloseVideoCodec
  <2>1. /\ eCurState = "Idle" /\ eCurState' = "Loaded" /\ lent' = lent /\ TokensTaken = 2
    BY <1>5 DEF CloseVideoCodec, Phases, InTransition, FromIdle, TokensTaken, One
  <2>2. Bare = 2
    BY <2>1, TokenTypes DEF TokensCount
  <2> QED
    BY <1>0, <2>1, <2>2, StateChanges DEF Supported
<1>6. CASE Start
  <2>1. eCurState = "Idle" /\ eCurState' = "Executing" /\ lent' = lent
    BY <1>6 DEF Start, Phases, InTransition, FromIdle
  <2> QED
    BY <1>0, <2>1, StateChanges DEF Supported
<1>7. CASE Paused
  <2>1. eCurState = "Executing" /\ eCurState' = "Idle" /\ lent' = lent /\ cmdPc = "paused"
    BY <1>7 DEF Paused, Phases, InTransition, FromExecuting
  <2> QED
    BY <1>0, <1>2, <2>1, StateChanges DEF Supported
<1>8. \/ UNCHANGED eCurState \/ \E c \in Commands : Switch(c)
      \/ Created \/ CloseVideoCodec \/ Start \/ Paused
  BY DEF CommandThread, SameState, Unsupported, BeginTransition, Flush, FlushSpins, PortDisable,
         PortEnable, Steps, WaitAllocIn, WaitAllocOut, WaitFreeIn, WaitFreeOut, PendAlloc,
         CreateBufThread, OrderExit, WakeForExit, JoinBufThread, OrderRun, SelectDecoder, OpenVpu,
         OrderPause, WakeForPause, ReturnBuffers
<1> QED
  BY <1>1, <1>3, <1>4, <1>5, <1>6, <1>7, <1>8

LEMMA PromiseStep ==
  ASSUME Known, ~ bEnableThumbNailMode, Sync, Emptied, StaysEnabled, TokensCount, PushesRegistered,
         Known', StaysEnabled', [Next]_vars
  PROVE  [Component!Next]_(Component!vars)
<1>0. bEnabled' = bEnabled
  BY EnabledIs DEF Known
<1>1. CASE UNCHANGED vars
  BY <1>1 DEF vars, commandVars, dataVars, portVars, Component!vars
<1>2. CASE BufThread
  <2>1. UNCHANGED <<eCurState, pBuffers>> /\ Queued' \subseteq Queued
    BY <1>2, ThreadsFrame, QueuedShrinks
  <2> QED
    BY <1>0, <2>1, ReturnsAreDone DEF Known
<1>3. CASE CommandThread
  BY <1>0, <1>3, CommandKeeps DEF Known
<1> QED
  BY <1>0, <1>1, <1>2, <1>3, ClientKeeps DEF Next

(***************************************************************************)
(* The decoder is an OMXComponent (KeepsItsPromise): out of Loaded with    *)
(* all its buffers and back without any, Idle without a buffer of the      *)
(* client, and no buffer handed back that it does not have.  So to a       *)
(* client that keeps its buffers tidy, asks for the transitions            *)
(* NX_VidDec_StateTransition has, and disables no port.                    *)
(***************************************************************************)
THEOREM KeepsItsPromiseAlways ==
  ASSUME AllKept, AllEnabled PROVE Spec /\ [][AsksInOrder]_eNewState => KeepsItsPromise
<1> DEFINE Inv == /\ Known /\ Sync /\ Emptied /\ ~ bEnableThumbNailMode
                  /\ StaysEnabled /\ Awaiting /\ TokensCount /\ PushesRegistered
<1>1. Init => Inv /\ Component!Init
  <2>1. TidyUse
    BY DEF AllKept, TidyUse
  <2>2. Init => PushesRegistered
    BY DEF Init, PushesRegistered
  <2>3. Init => Component!Init
    BY DEF Init, Component!Init, Component!Ports, Component!Buffers, Ports
  <2> QED
    BY <2>1, <2>2, <2>3, KnownInit, SyncInit, AwaitInit
<1>2. Inv /\ [Next]_vars /\ [AsksInOrder]_eNewState => Inv'
  <2> SUFFICES ASSUME Inv, [Next]_vars, [AsksInOrder]_eNewState PROVE Inv'
    OBVIOUS
  <2>1. (~ bEnableThumbNailMode)'
    BY KeptStep
  <2>2. StaysEnabled' /\ Awaiting' /\ TokensCount' /\ PushesRegistered'
    BY EnabledStep, AwaitStep, PushesStep DEF Known
  <2> QED
    BY <2>1, <2>2, KnownStep, SyncStep, EmptiedStep
<1>3. Inv /\ Inv' /\ [Next]_vars => [Component!Next]_(Component!vars)
  BY PromiseStep
<1> QED
  BY <1>1, <1>2, <1>3, PTL DEF Spec, KeepsItsPromise, Component!Spec

-----------------------------------------------------------------------------
(* Scripts                                                                 *)

\* Where a script has got to: the state its commands have asked for, and how
\* often they may still open a VPU handle.
Place == [at : States, opens : Nat]

Opens(p, c) == c.cmd = "StateSet" /\ p.at = "Idle" /\ c.arg = "Executing"

\* A command for a component that is in the state p.at: a transition it has, or
\* the state it is in; a port is enabled out of Loaded.
MayAsk(p, c) ==
  /\ c.cmd = "StateSet" => c.arg = p.at \/ <<p.at, c.arg>> \in InOrder
  /\ c.cmd = "PortEnable" => p.at # "Loaded"
  /\ Opens(p, c) => p.opens > 0

After(p, c) == [at |-> IF c.cmd = "StateSet" THEN c.arg ELSE p.at,
                opens |-> IF Opens(p, c) THEN p.opens - 1 ELSE p.opens]

\* Whatever is chosen from its sets, each command of the script may be asked for:
\* P[n] has the places its n-th command may be sent at.
Leads(P, script) ==
  \A n \in DOMAIN script : \A p \in P[n] : \A c \in script[n] :
    MayAsk(p, c) /\ After(p, c) \in P[n + 1]
Orderly(p, script) ==
  \E P \in [1 .. Len(script) + 1 -> SUBSET Place] : p \in P[1] /\ Leads(P, script)

Begin(n) == [at |-> "Loaded", opens |-> n]
AllOrderly == \A s \in Scenarios : \E n \in Nat : Orderly(Begin(n), s.script)
AllOpenOnce == \A s \in Scenarios : Orderly(Begin(1), s.script)

\* What remains of a script is orderly where its first command leads.
LEMMA OrderlySend ==
  ASSUME TypeOK, NEW c, SendCommand(c), NEW p, Orderly(p, scenario.script)
  PROVE  /\ p \in Place /\ MayAsk(p, c)
         /\ After(p, c) \in Place /\ Orderly(After(p, c), scenario'.script)
<1>1. /\ scenario \in ScenarioType /\ scenario.script \in Seq(SUBSET Commands)
      /\ scenario.script # <<>> /\ c \in Head(scenario.script)
      /\ scenario' = [scenario EXCEPT !.script = Tail(scenario.script)]
  BY DEF TypeOK, ScenarioType, SendCommand
<1> DEFINE s == scenario.script
           t == Tail(s)
           N == Len(s)
<1>2. /\ N \in Nat \ {0} /\ DOMAIN s = 1 .. N /\ DOMAIN t = 1 .. N - 1
      /\ c \in s[1] /\ Len(t) = N - 1 /\ \A n \in 1 .. N - 1 : t[n] = s[n + 1]
  BY <1>1, HeadTailProperties, EmptySeq
<1>3. scenario'.script = t
  BY <1>1 DEF ScenarioType
<1>4. PICK P \in [1 .. N + 1 -> SUBSET Place] : p \in P[1] /\ Leads(P, s)
  BY DEF Orderly
<1> HIDE DEF N, s, t
<1>5. 1 \in DOMAIN s /\ 1 \in 1 .. N + 1 /\ 2 \in 1 .. N + 1
  BY <1>2
<1>6. p \in Place /\ MayAsk(p, c) /\ After(p, c) \in P[1 + 1]
  BY <1>2, <1>4, <1>5 DEF Leads
<1>7. After(p, c) \in P[2] /\ After(p, c) \in Place
  BY <1>4, <1>5, <1>6
<1> DEFINE Q == [n \in 1 .. N |-> P[n + 1]]
<1>8. Q \in [1 .. N -> SUBSET Place] /\ Q[1] = P[2]
  BY <1>2, <1>4
<1>9. ASSUME NEW n \in DOMAIN t, NEW q \in Q[n], NEW d \in t[n]
      PROVE  MayAsk(q, d) /\ After(q, d) \in Q[n + 1]
  <2>1. /\ n \in 1 .. N - 1 /\ n + 1 \in DOMAIN s /\ n \in 1 .. N /\ n + 1 \in 1 .. N
        /\ t[n] = s[n + 1]
    BY <1>2
  <2>2. Q[n] = P[n + 1] /\ Q[n + 1] = P[(n + 1) + 1]
    BY <2>1
  <2>3. q \in P[n + 1] /\ d \in s[n + 1]
    BY <2>1, <2>2
  <2> HIDE DEF Q
  <2>4. MayAsk(q, d) /\ After(q, d) \in P[(n + 1) + 1]
    BY <1>4, <2>1, <2>3 DEF Leads
  <2> QED
    BY <2>2, <2>4
<1>10. Leads(Q, t)
  BY <1>9 DEF Leads
<1>11. Len(t) + 1 = N
  BY <1>2
<1> HIDE DEF Q
<1>12. Orderly(After(p, c), t)
  BY <1>7, <1>8, <1>10, <1>11 DEF Orderly
<1> QED
  BY <1>3, <1>6, <1>7, <1>12

\* The state asked for is where the script is; an enabling command waits out of
\* Loaded only.
InPlace == \E n \in Nat : Orderly([at |-> eNewState, opens |-> n], scenario.script)

\* The scripts of the runs are of this kind: up to Executing, there any flushes,
\* ports disabled and enabled, and down again.
Asks(s) == [cmd |-> "StateSet", arg |-> s]
OneSession(script) ==
  LET N == Len(script)
  IN /\ N >= 4
     /\ script[1] = {Asks("Idle")} /\ script[2] = {Asks("Executing")}
     /\ \A n \in 3 .. N - 2 : \A c \in script[n] : c.cmd # "StateSet"
     /\ script[N - 1] = {Asks("Idle")} /\ script[N] = {Asks("Loaded")}

LEMMA SessionsAreOrderly ==
  ASSUME NEW script \in Seq(SUBSET Commands), OneSession(script)
  PROVE  Orderly(Begin(1), script)
<1> DEFINE N == Len(script)
           In(s, n) == {[at |-> s, opens |-> n]}
           P == [n \in 1 .. N + 1 |->
                   IF n = 1 THEN In("Loaded", 1)
                   ELSE IF n = 2 THEN In("Idle", 1)
                   ELSE IF n <= N - 1 THEN In("Executing", 0)
                   ELSE IF n = N THEN In("Idle", 0) ELSE In("Loaded", 0)]
<1>1. /\ N \in Nat /\ N >= 4 /\ DOMAIN script = 1 .. N
      /\ script[1] = {Asks("Idle")} /\ script[2] = {Asks("Executing")}
      /\ \A n \in 3 .. N - 2 : \A c \in script[n] : c.cmd # "StateSet"
      /\ script[N - 1] = {Asks("Idle")} /\ script[N] = {Asks("Loaded")}
  BY DEF OneSession
<1>2. P \in [1 .. N + 1 -> SUBSET Place]
  BY DEF Place, States
<1> HIDE DEF N
<1>3. ASSUME NEW n \in 1 .. N, NEW p \in P[n], NEW c \in script[n]
      PROVE  MayAsk(p, c) /\ After(p, c) \in P[n + 1]
  <2> USE DEF MayAsk, After, Opens, Asks, InOrder, Supported
  <2>1. CASE n = 1
    <3>1. P[n] = In("Loaded", 1) /\ P[n + 1] = In("Idle", 1)
      BY <1>1, <2>1
    <3> QED
      BY <1>1, <2>1, <3>1
  <2>2. CASE n = 2
    <3>1. P[n] = In("Idle", 1) /\ P[n + 1] = In("Executing", 0)
      BY <1>1, <2>2
    <3> QED
      BY <1>1, <2>2, <3>1
  <2>3. CASE n \in 3 .. N - 2
    <3>1. P[n] = In("Executing", 0) /\ P[n + 1] = In("Executing", 0)
      BY <1>1, <2>3
    <3> QED
      BY <1>1, <2>3, <3>1
  <2>4. CASE n = N - 1
    <3>1. P[n] = In("Executing", 0) /\ P[n + 1] = In("Idle", 0)
      BY <1>1, <2>4
    <3> QED
      BY <1>1, <2>4, <3>1
  <2>5. CASE n = N
    <3>1. P[n] = In("Idle", 0) /\ P[n + 1] = In("Loaded", 0)
      BY <1>1, <2>5
    <3> QED
      BY <1>1, <2>5, <3>1
  <2> QED
    BY <1>1, <2>1, <2>2, <2>3, <2>4, <2>5
<1>4. Begin(1) \in P[1]
  BY <1>1 DEF Begin
<1> HIDE DEF P
<1>5. Leads(P, script)
  BY <1>1, <1>3 DEF Leads
<1> QED
  BY <1>2, <1>4, <1>5 DEF Orderly, N

\* A step of the command thread leaves no command waiting.
LEMMA QueueEmptied ==
  ASSUME Known, ~ bEnableThumbNailMode, CommandThread PROVE cmdQueue' = <<>>
<1>0. OneCommand /\ TypeOK
  BY DEF Known, TidyState
<1>1. CASE \E c \in Commands :
             \/ SameState(c) \/ Unsupported(c) \/ Switch(c) \/ BeginTransition(c)
             \/ Flush(c) \/ FlushSpins(c) \/ PortDisable(c) \/ PortEnable(c)
  <2>1. PICK c \in Commands : Pop(c)
    BY <1>1
       DEF SameState, Unsupported, Switch, BeginTransition, Flush, FlushSpins, PortDisable, PortEnable
  <2> QED
    BY <1>0, <2>1, PoppedCommand
<1>2. CASE Steps
  <2>1. cmdPc # "idle" /\ cmdQueue' = cmdQueue
    BY <1>2
       DEF Steps, WaitAllocIn, WaitAllocOut, WaitFreeIn, WaitFreeOut, PendAlloc, CreateBufThread,
           Created, OrderExit, WakeForExit, JoinBufThread, CloseVideoCodec, OrderRun, Start,
           SelectDecoder, OpenVpu, OrderPause, WakeForPause, ReturnBuffers, Paused, At, requestVars
  <2> QED
    BY <1>0, <2>1 DEF OneCommand
<1> QED
  BY <1>1, <1>2 DEF CommandThread

LEMMA InPlaceInit == ASSUME AllOrderly, Init PROVE InPlace /\ EnablesOutOfLoaded
<1>1. \E n \in Nat : Orderly(Begin(n), scenario.script)
  BY DEF Init, AllOrderly
<1>2. eNewState = "Loaded" /\ cmdQueue = <<>>
  BY DEF Init
<1>3. InPlace
  BY <1>1, <1>2 DEF InPlace, Begin
<1>4. EnablesOutOfLoaded
  BY <1>2 DEF EnablesOutOfLoaded
<1> QED
  BY <1>3, <1>4

\* Only SendCommand moves on in the script.
LEMMA ScriptFrame ==
  ASSUME [Next]_vars, \A c \in Commands : ~ SendCommand(c)
  PROVE  UNCHANGED <<scenario, eNewState>>
<1> USE DEF requestVars
<1>1. CASE Client
  BY <1>1
     DEF Client, UseBuffer, AllocateBuffer, Register, FreeBuffer, EmptyThisBuffer,
         EmptyThisBufferPush, FillThisBuffer
<1>2. CASE CommandThread \/ BufThread
  BY <1>2, ThreadsFrame
<1>3. CASE UNCHANGED vars
  BY <1>3 DEF vars
<1> QED
  BY <1>1, <1>2, <1>3 DEF Next

\* A command is sent to a component that is in the state it was last asked for.
LEMMA SentAtRest ==
  ASSUME Known, Sync, Kept(scenario), NEW c \in Commands, SendCommand(c)
  PROVE  /\ cmdQueue = <<>> /\ cmdPc = "idle" /\ eNewState = eCurState
         /\ UNCHANGED <<cmdPc, eCurState>>
         /\ eNewState' = IF c.cmd = "StateSet" THEN c.arg ELSE eNewState
         /\ DOMAIN cmdQueue' = {1} /\ cmdQueue'[1] = c
<1>1. cmdQueue = <<>> /\ cmdPc = "idle"
  BY DEF SendCommand, Kept, Quiet
<1>2. eNewState = eCurState
  BY <1>1 DEF Sync, Steady
<1>3. /\ UNCHANGED <<cmdPc, eCurState>> /\ cmdQueue' = <<c>>
      /\ eNewState' = IF c.cmd = "StateSet" THEN c.arg ELSE eNewState
  BY <1>1 DEF SendCommand, commandVars
<1> QED
  BY <1>1, <1>2, <1>3

LEMMA InPlaceStep ==
  ASSUME Known, ~ bEnableThumbNailMode, Sync, InPlace, [Next]_vars
  PROVE  InPlace' /\ [AsksInOrder]_eNewState
<1>1. ASSUME NEW c \in Commands, SendCommand(c) PROVE InPlace' /\ [AsksInOrder]_eNewState
  <2>1. PICK n \in Nat : Orderly([at |-> eNewState, opens |-> n], scenario.script)
    BY DEF InPlace
  <2>2. PICK p : p = [at |-> eNewState, opens |-> n]
    OBVIOUS
  <2>3. p \in Place /\ MayAsk(p, c) /\ After(p, c) \in Place /\ Orderly(After(p, c), scenario'.script)
    BY <1>1, <2>1, <2>2, OrderlySend DEF Known
  <2>4. eNewState = eCurState /\ eNewState' = IF c.cmd = "StateSet" THEN c.arg ELSE eNewState
    BY <1>1, SentAtRest DEF Known, TidyState
  <2>5. After(p, c) = [at |-> eNewState', opens |-> After(p, c).opens] /\ After(p, c).opens \in Nat
    BY <2>2, <2>3, <2>4 DEF After, Place
  <2>6. InPlace'
    BY <2>3, <2>5 DEF InPlace
  <2>7. eNewState' = eNewState \/ AsksInOrder
    BY <2>2, <2>3, <2>4 DEF MayAsk, AsksInOrder
  <2> QED
    BY <2>6, <2>7
<1> QED
  BY <1>1, ScriptFrame DEF InPlace

LEMMA EnablesStep ==
  ASSUME Known, ~ bEnableThumbNailMode, Sync, InPlace, EnablesOutOfLoaded, [Next]_vars
  PROVE  EnablesOutOfLoaded'
<1> USE DEF requestVars, commandVars
<1>1. ASSUME NEW c \in Commands, SendCommand(c) PROVE EnablesOutOfLoaded'
  <2>1. PICK n \in Nat : Orderly([at |-> eNewState, opens |-> n], scenario.script)
    BY DEF InPlace
  <2>2. PICK p : p = [at |-> eNewState, opens |-> n]
    OBVIOUS
  <2>3. MayAsk(p, c)
    BY <1>1, <2>1, <2>2, OrderlySend DEF Known
  <2>4. eNewState = eCurState /\ eCurState' = eCurState /\ DOMAIN cmdQueue' = {1} /\ cmdQueue'[1] = c
    BY <1>1, SentAtRest DEF Known, TidyState
  <2> QED
    BY <2>2, <2>3, <2>4 DEF MayAsk, EnablesOutOfLoaded
<1>2. ASSUME UNCHANGED <<cmdQueue, eCurState>> PROVE EnablesOutOfLoaded'
  BY <1>2 DEF EnablesOutOfLoaded
<1>3. CASE Client /\ ~ \E c \in Commands : SendCommand(c)
  BY <1>2, <1>3
     DEF Client, UseBuffer, AllocateBuffer, Register, FreeBuffer, EmptyThisBuffer,
         EmptyThisBufferPush, FillThisBuffer
<1>4. CASE BufThread \/ UNCHANGED vars
  BY <1>2, <1>4, ThreadsFrame DEF vars
<1>5. CASE CommandThread
  <2>1. cmdQueue' = <<>>
    BY <1>5, QueueEmptied
  <2> QED
    BY <2>1 DEF EnablesOutOfLoaded
<1> QED
  BY <1>1, <1>3, <1>4, <1>5 DEF Next

(***************************************************************************)
(* A client that sends a command when the one before is complete, and      *)
(* whose script is orderly, asks for the transitions the component has and *)
(* enables ports out of Loaded, whatever it chooses from the script: the   *)
(* state it has asked for is the one the component is in when it asks      *)
(* again.                                                                  *)
(***************************************************************************)
THEOREM ScriptsAreFollowed ==
  ASSUME AllKept, AllOrderly
  PROVE  Spec => [][AsksInOrder]_eNewState /\ []EnablesOutOfLoaded
<1> DEFINE Inv == /\ Known /\ Sync /\ ~ bEnableThumbNailMode
                  /\ InPlace /\ EnablesOutOfLoaded
<1>1. Init => Inv
  <2>1. TidyUse
    BY DEF AllKept, TidyUse
  <2> QED
    BY <2>1, KnownInit, SyncInit, InPlaceInit
<1>2. Inv /\ [Next]_vars => Inv' /\ [AsksInOrder]_eNewState
  <2> SUFFICES ASSUME Inv, [Next]_vars PROVE Inv' /\ [AsksInOrder]_eNewState
    OBVIOUS
  <2>1. (~ bEnableThumbNailMode)'
    BY KeptStep
  <2>2. InPlace' /\ [AsksInOrder]_eNewState
    BY InPlaceStep
  <2> QED
    BY <2>1, <2>2, KnownStep, SyncStep, EnablesStep
<1>3. Inv => EnablesOutOfLoaded
  OBVIOUS
<1> QED
  BY <1>1, <1>2, <1>3, PTL DEF Spec

(***************************************************************************)
(* IdleHoldsNothing, from conditions on the scripts alone.                 *)
(***************************************************************************)
THEOREM OrderlyClientHasAllAtRest ==
  ASSUME AllKept, AllOrderly PROVE Spec => []IdleHoldsNothing
BY NothingHeldAtRest, ScriptsAreFollowed, PTL

(***************************************************************************)
(* KeepsItsPromise, from conditions on the scripts alone: every step of    *)
(* the decoder is a step of OMXComponent or a stutter.                     *)
(***************************************************************************)
THEOREM OrderlyClientSeesPromiseKept ==
  ASSUME AllKept, AllOrderly, AllEnabled PROVE Spec => KeepsItsPromise
BY KeepsItsPromiseAlways, ScriptsAreFollowed, PTL

\* The component changes between the states as the client asks.
LEMMA ChangesInOrder ==
  ASSUME Known, ~ bEnableThumbNailMode, Sync, [Next]_vars
  PROVE  [NeverIdleAndPause]_eCurState
<1> USE DEF requestVars, commandVars
<1>1. CASE Client
  BY <1>1
     DEF Client, SendCommand, UseBuffer, AllocateBuffer, Register, FreeBuffer, EmptyThisBuffer,
         EmptyThisBufferPush, FillThisBuffer
<1>2. CASE BufThread \/ UNCHANGED vars
  BY <1>2, ThreadsFrame DEF vars
<1>3. ASSUME NEW c \in Commands,
             \/ SameState(c) \/ Unsupported(c) \/ BeginTransition(c)
             \/ Flush(c) \/ FlushSpins(c) \/ PortDisable(c) \/ PortEnable(c)
      PROVE  eCurState' = eCurState
  BY <1>3
     DEF SameState, Unsupported, BeginTransition, Flush, FlushSpins, PortDisable, PortEnable
<1>4. ASSUME NEW c \in Commands, Switch(c) PROVE NeverIdleAndPause
  <2>1. /\ Pop(c) /\ c.cmd = "StateSet" /\ eCurState' = c.arg
        /\ <<eCurState, c.arg>> \in Supported
    BY <1>4 DEF Switch
  <2>2. c.arg = eNewState /\ cmdPc = "idle"
    BY <2>1, PoppedCommand DEF Known, TidyState
  <2>3. eCurState # c.arg
    BY <2>1 DEF Supported
  <2>4. <<eCurState, c.arg>> \in InOrder
    BY <2>2, <2>3 DEF Sync
  <2> QED
    BY <2>1, <2>4 DEF InOrder, Supported, NeverIdleAndPause
<1>5. ASSUME Steps PROVE [NeverIdleAndPause]_eCurState
  <2>1. CASE Created \/ CloseVideoCodec \/ Start \/ Paused
    BY <2>1
       DEF Created, CloseVideoCodec, Start, Paused, At, Known, Phases, InTransition, FromLoaded,
           FromIdle, FromExecuting, NeverIdleAndPause
  <2>2. CASE WaitAllocIn \/ WaitAllocOut \/ WaitFreeIn \/ WaitFreeOut
    BY <2>2 DEF WaitAllocIn, WaitAllocOut, WaitFreeIn, WaitFreeOut, PendAlloc
  <2>3. CASE CreateBufThread \/ OrderExit \/ WakeForExit \/ JoinBufThread \/ OrderRun
               \/ SelectDecoder \/ OpenVpu \/ OrderPause \/ WakeForPause \/ ReturnBuffers
    BY <2>3
       DEF CreateBufThread, OrderExit, WakeForExit, JoinBufThread, OrderRun, SelectDecoder,
           OpenVpu, OrderPause, WakeForPause, ReturnBuffers, Complete
  <2> QED
    BY <1>5, <2>1, <2>2, <2>3 DEF Steps
<1> QED
  BY <1>1, <1>2, <1>3, <1>4, <1>5 DEF Next, CommandThread

(***************************************************************************)
(* ThreadFollowsState, from conditions on the scripts alone.               *)
(***************************************************************************)
THEOREM OrderlyClientSeesOrderFollow ==
  ASSUME AllKept, AllOrderly PROVE Spec => []ThreadFollowsState
<1> DEFINE Inv == /\ Known /\ Sync /\ ~ bEnableThumbNailMode
                  /\ InPlace /\ EnablesOutOfLoaded
<1>1. Init => Inv
  <2>1. TidyUse
    BY DEF AllKept, TidyUse
  <2> QED
    BY <2>1, KnownInit, SyncInit, InPlaceInit
<1>2. Inv /\ [Next]_vars => Inv' /\ [NeverIdleAndPause]_eCurState
  <2> SUFFICES ASSUME Inv, [Next]_vars PROVE Inv' /\ [NeverIdleAndPause]_eCurState
    OBVIOUS
  <2>1. (~ bEnableThumbNailMode)'
    BY KeptStep
  <2>2. InPlace' /\ [AsksInOrder]_eNewState
    BY InPlaceStep
  <2>3. [NeverIdleAndPause]_eCurState
    BY ChangesInOrder
  <2> QED
    BY <2>1, <2>2, <2>3, KnownStep, SyncStep, EnablesStep
<1> QED
  BY <1>1, <1>2, OrderFollowsState, PTL DEF Spec

-----------------------------------------------------------------------------
(* Scripts that open the VPU once                                          *)

Untouched ==
    /\ hVpuCodec = "NULL" /\ ~ bInitialized
    /\ \A b \in OutBuffers : outBufferValidFlag[b] = NoImage

\* A transition to Executing is asked for or under way.
Opening ==
    \/ cmdPc \in ToExecuting
    \/ /\ eCurState = "Idle"
       /\ \E i \in DOMAIN cmdQueue : cmdQueue[i].cmd = "StateSet" /\ cmdQueue[i].arg = "Executing"

\* A handle that the script may still open would be the first one, and so is the
\* one that is being opened, for which the script has accounted.
OpensFirst ==
    \E n \in 0 .. 1 :
      /\ Orderly([at |-> eNewState, opens |-> n], scenario.script)
      /\ n = 1 \/ Opening => Untouched
      /\ Opening => n = 0

LEMMA OpensFirstInit == ASSUME AllOpenOnce, Init PROVE OpensFirst
<1>1. Orderly([at |-> eNewState, opens |-> 1], scenario.script)
  BY DEF Init, AllOpenOnce, Begin
<1>2. ~ Opening /\ Untouched
  BY DEF Init, Opening, Untouched, ToExecuting
<1> QED
  BY <1>1, <1>2 DEF OpensFirst

\* Without a handle that is opened the VPU is left alone.
LEMMA UntouchedBufThread == ASSUME Untouched, BufThread PROVE Untouched'
<1> USE DEF dataVars, outVars, streamVars, vpuVars, Untouched
<1>1. CASE BufBorn \/ BufOuter \/ BufPendCtrl \/ BufInner \/ BufPendChange
             \/ BufStop \/ BufRun \/ BufDisabled \/ BufEnabled \/ BufLock
  BY <1>1
     DEF BufBorn, BufOuter, BufPendCtrl, BufInner, BufPendChange, BufStop, BufRun, BufDisabled, BufEnabled, BufLock
<1>2. CASE NoDecoding \/ NoEos \/ EosTooEarly
  BY <1>2 DEF NoDecoding, NoEos, EosTooEarly
<1>3. CASE DecodeNothing \/ LearnSequence \/ InitializeFails \/ DecodeUnready
  BY <1>3 DEF DecodeNothing, LearnSequence, InitializeFails, DecodeUnready
<1>4. CASE Decode
  BY <1>4 DEF Decode
<1>5. CASE EosPicture \/ EosMark
  BY <1>5 DEF EosPicture, EosMark
<1> QED
  BY <1>1, <1>2, <1>3, <1>4, <1>5 DEF BufThread

LEMMA UntouchedCommand == ASSUME Untouched, CommandThread, ~ OpenVpu PROVE Untouched'
<1> USE DEF dataVars, outVars, streamVars, vpuVars, Untouched
<1>1. CASE \E c \in Commands :
             \/ SameState(c) \/ Unsupported(c) \/ Switch(c) \/ BeginTransition(c)
             \/ Flush(c) \/ FlushSpins(c) \/ PortDisable(c) \/ PortEnable(c)
  BY <1>1
     DEF SameState, Unsupported, Switch, BeginTransition, Flush, FlushSpins, PortDisable, PortEnable
<1>2. CASE Steps
  BY <1>2
     DEF Steps, WaitAllocIn, WaitAllocOut, WaitFreeIn, WaitFreeOut, PendAlloc, CreateBufThread,
         Created, OrderExit, WakeForExit, JoinBufThread, CloseVideoCodec, OrderRun, Start,
         SelectDecoder, OrderPause, WakeForPause, ReturnBuffers, Paused
<1> QED
  BY <1>1, <1>2 DEF CommandThread

LEMMA UntouchedClient == ASSUME TypeOK, Untouched, Client PROVE Untouched'
<1> USE DEF dataVars, outVars, streamVars, vpuVars, Untouched
<1>1. CASE \E b \in OutBuffers : FillThisBuffer(b)
  <2>1. PICK b \in OutBuffers : FillThisBuffer(b)
    BY <1>1
  <2>2. UNCHANGED <<hVpuCodec, bInitialized>>
    BY <2>1 DEF FillThisBuffer
  <2>3. \/ outBufferValidFlag' = outBufferValidFlag
        \/ outBufferValidFlag' = [outBufferValidFlag EXCEPT ![b] = NoImage]
    BY <2>1 DEF FillThisBuffer, FillThumbnail, FillFrame
  <2>4. outBufferValidFlag \in [OutBuffers -> Images \cup {NoImage}]
    BY DEF TypeOK
  <2> QED
    BY <2>2, <2>3, <2>4
<1>2. CASE ~ \E b \in OutBuffers : FillThisBuffer(b)
  BY <1>2
     DEF Client, SendCommand, UseBuffer, AllocateBuffer, Register, FreeBuffer, EmptyThisBuffer,
         EmptyThisBufferPush
<1> QED
  BY <1>1, <1>2

LEMMA OpensFirstSend ==
  ASSUME Known, ~ bEnableThumbNailMode, Sync, OpensFirst, NEW c \in Commands, SendCommand(c)
  PROVE  OpensFirst'
<1>1. PICK n \in 0 .. 1 : /\ Orderly([at |-> eNewState, opens |-> n], scenario.script)
                          /\ n = 1 => Untouched
  BY DEF OpensFirst
<1>2. PICK p : p = [at |-> eNewState, opens |-> n]
  OBVIOUS
<1>3. MayAsk(p, c) /\ After(p, c) \in Place /\ Orderly(After(p, c), scenario'.script)
  BY <1>1, <1>2, OrderlySend DEF Known
<1>4. /\ cmdQueue = <<>> /\ cmdPc = "idle" /\ eNewState = eCurState
      /\ UNCHANGED <<cmdPc, eCurState>>
      /\ eNewState' = IF c.cmd = "StateSet" THEN c.arg ELSE eNewState
      /\ DOMAIN cmdQueue' = {1} /\ cmdQueue'[1] = c
  BY SentAtRest DEF Known, TidyState
<1>5. Untouched' <=> Untouched
  BY DEF SendCommand, dataVars, outVars, streamVars, vpuVars, Untouched
<1>6. Opening' <=> Opens(p, c)
  BY <1>2, <1>4 DEF Opening, Opens, ToExecuting
<1>7. After(p, c) = [at |-> eNewState', opens |-> IF Opens(p, c) THEN n - 1 ELSE n]
  BY <1>2, <1>4 DEF After
<1>8. CASE Opens(p, c)
  <2>1. n = 1
    BY <1>2, <1>3, <1>8 DEF MayAsk
  <2>2. Orderly([at |-> eNewState', opens |-> 0], scenario'.script)
    BY <1>3, <1>7, <1>8, <2>1
  <2> QED
    BY <1>1, <1>5, <2>1, <2>2 DEF OpensFirst
<1>9. CASE ~ Opens(p, c)
  <2>1. Orderly([at |-> eNewState', opens |-> n], scenario'.script)
    BY <1>3, <1>7, <1>9
  <2> QED
    BY <1>1, <1>5, <1>6, <1>9, <2>1 DEF OpensFirst
<1> QED
  BY <1>8, <1>9

LEMMA OpeningStep ==
  ASSUME Known, ~ bEnableThumbNailMode, [Next]_vars, Opening',
         \A c \in Commands : ~ SendCommand(c)
  PROVE  Opening /\ ~ OpenVpu
<1> USE DEF requestVars, commandVars
<1>1. CASE UNCHANGED <<cmdQueue, cmdPc, eCurState>> /\ ~ OpenVpu
  BY <1>1 DEF Opening
<1>2. CASE Client
  <2>1. UNCHANGED <<cmdQueue, cmdPc, eCurState>>
    BY <1>2
       DEF Client, UseBuffer, AllocateBuffer, Register, FreeBuffer, EmptyThisBuffer,
           EmptyThisBufferPush, FillThisBuffer
  <2> QED
    BY <1>1, <2>1 DEF OpenVpu, At, Complete, Goto
<1>3. CASE BufThread \/ UNCHANGED vars
  <2>1. UNCHANGED <<cmdQueue, cmdPc, eCurState>>
    BY <1>3, ThreadsFrame DEF vars
  <2> QED
    BY <1>1, <2>1 DEF OpenVpu, At, Complete, Goto
<1>4. CASE CommandThread
  <2>1. cmdQueue' = <<>> /\ cmdPc' \in ToExecuting
    BY <1>4, QueueEmptied DEF Opening
  <2>2. ~ OpenVpu
    BY <2>1 DEF OpenVpu, Complete, Goto, ToExecuting
  <2>3. Opening
    <3>1. ASSUME NEW c \in Commands,
                 \/ SameState(c) \/ Unsupported(c) \/ Switch(c)
                 \/ Flush(c) \/ FlushSpins(c) \/ PortDisable(c) \/ PortEnable(c)
          PROVE  cmdPc' \notin ToExecuting
      BY <3>1
         DEF SameState, Unsupported, Switch, Flush, FlushSpins, PortDisable, PortEnable,
             Pop, At, Complete, Goto, ToExecuting
    <3>2. ASSUME NEW c \in Commands, BeginTransition(c) PROVE Opening
      <4>1. cmdPc' = FirstPlace(eCurState, c.arg) /\ c.cmd = "StateSet" /\ Pop(c)
        BY <3>2 DEF BeginTransition, Goto
      <4>2. eCurState = "Idle" /\ c.arg = "Executing"
        BY <2>1, <4>1 DEF FirstPlace, ToExecuting
      <4>3. 1 \in DOMAIN cmdQueue /\ c = cmdQueue[1]
        BY <4>1, LeftCommands DEF Known
      <4> QED
        BY <4>1, <4>2, <4>3 DEF Opening
    <3>3. CASE Steps
      <4>1. CASE OrderRun \/ Start \/ SelectDecoder
        BY <4>1 DEF OrderRun, Start, SelectDecoder, At, Opening, ToExecuting
      <4>2. CASE WaitAllocIn \/ WaitAllocOut \/ WaitFreeIn \/ WaitFreeOut
        BY <2>1, <4>2
           DEF WaitAllocIn, WaitAllocOut, WaitFreeIn, WaitFreeOut, PendAlloc, Goto, ToExecuting
      <4>3. CASE CreateBufThread \/ Created \/ OrderExit \/ WakeForExit \/ JoinBufThread
                   \/ CloseVideoCodec \/ OrderPause \/ WakeForPause \/ ReturnBuffers \/ Paused
        BY <2>1, <4>3
           DEF CreateBufThread, Created, OrderExit, WakeForExit, JoinBufThread, CloseVideoCodec,
               OrderPause, WakeForPause, ReturnBuffers, Paused, Complete, Goto, ToExecuting
      <4> QED
        BY <2>2, <3>3, <4>1, <4>2, <4>3 DEF Steps
    <3> QED
      BY <1>4, <2>1, <3>1, <3>2, <3>3 DEF CommandThread
  <2> QED
    BY <2>2, <2>3
<1> QED
  BY <1>2, <1>3, <1>4 DEF Next

LEMMA OpensFirstStep ==
  ASSUME Known, ~ bEnableThumbNailMode, Sync, OpensFirst, [Next]_vars PROVE OpensFirst'
<1>1. CASE \E c \in Commands : SendCommand(c)
  BY <1>1, OpensFirstSend
<1>2. CASE \A c \in Commands : ~ SendCommand(c)
  <2>1. PICK n \in 0 .. 1 : /\ Orderly([at |-> eNewState, opens |-> n], scenario.script)
                            /\ n = 1 \/ Opening => Untouched
                            /\ Opening => n = 0
    BY DEF OpensFirst
  <2>2. UNCHANGED <<scenario, eNewState>>
    BY <1>2, ScriptFrame
  <2>3. Untouched /\ ~ OpenVpu => Untouched'
    <3>1. CASE UNCHANGED vars
      BY <3>1 DEF vars, dataVars, outVars, streamVars, vpuVars, Untouched
    <3> QED
      BY <3>1, UntouchedBufThread, UntouchedCommand, UntouchedClient DEF Next, Known
  <2>4. OpenVpu => Opening
    BY DEF OpenVpu, At, Opening, ToExecuting
  <2>5. Opening' => Opening /\ ~ OpenVpu
    BY <1>2, OpeningStep
  <2>6. n = 1 \/ Opening' => Untouched'
    BY <2>1, <2>3, <2>4, <2>5
  <2> QED
    BY <2>1, <2>2, <2>5, <2>6 DEF OpensFirst
<1> QED
  BY <1>1, <1>2

(***************************************************************************)
(* With such a client, a script that opens the VPU once opens it with      *)
(* bInitialized and outBufferValidFlag as OMX_ComponentInit left them.     *)
(***************************************************************************)
THEOREM OpensAfresh == ASSUME AllKept, AllOpenOnce PROVE Spec => []OpensFresh
<1> DEFINE Inv == /\ Known /\ Sync /\ ~ bEnableThumbNailMode
                  /\ InPlace /\ OpensFirst
<1>1. Init => Inv
  <2>1. TidyUse
    BY DEF AllKept, TidyUse
  <2>2. AllOrderly
    BY DEF AllOpenOnce, AllOrderly
  <2> QED
    BY <2>1, <2>2, KnownInit, SyncInit, InPlaceInit, OpensFirstInit
<1>2. Inv /\ [Next]_vars => Inv'
  <2> SUFFICES ASSUME Inv, [Next]_vars PROVE Inv'
    OBVIOUS
  <2>1. (~ bEnableThumbNailMode)'
    BY KeptStep
  <2>2. InPlace' /\ [AsksInOrder]_eNewState
    BY InPlaceStep
  <2> QED
    BY <2>1, <2>2, KnownStep, SyncStep, OpensFirstStep
<1>3. Inv => OpensFresh
  BY DEF OpensFirst, Opening, Untouched, OpensFresh, FreshOpen, ToExecuting
<1> QED
  BY <1>1, <1>2, <1>3, PTL DEF Spec

(***************************************************************************)
(* EveryImageComesBack, from conditions on the scripts alone: orderly ones *)
(* that open the VPU once.                                                 *)
(***************************************************************************)
THEOREM EveryImageOfOneSessionReturns ==
  ASSUME AllKeptAndSound, AllOpenOnce PROVE Spec => []EveryImageComesBack
<1>1. AllKept
  BY DEF AllKept, AllKeptAndSound
<1>2. OpensFresh => FreshOpen
  BY DEF OpensFresh
<1> QED
  BY <1>1, <1>2, EveryImageReturns, OpensAfresh, PTL

(***************************************************************************)
(* NoFault, from conditions on the scripts alone: orderly ones that open   *)
(* the VPU once.  The VPU may fail.                                        *)
(***************************************************************************)
THEOREM OrderlyClientSeesNoFault == ASSUME AllKept, AllOpenOnce PROVE Spec => []NoFault
<1>1. AllOrderly
  BY DEF AllOpenOnce, AllOrderly
<1> QED
  BY <1>1, PatientClientSeesNoFault, ScriptsAreFollowed, OpensAfresh, PTL

===============================================================================
