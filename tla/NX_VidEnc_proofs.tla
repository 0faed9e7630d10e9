--------------------------- MODULE NX_VidEnc_proofs ---------------------------
(***************************************************************************)
(* Proofs about NX_VidEnc, for any buffers, queue lengths and scenarios.   *)
(***************************************************************************)
EXTENDS NX_VidEnc, FiniteSetTheorems, SequenceTheorems, TLAPS

-----------------------------------------------------------------------------
(* Types                                                                   *)

\* The two penders of hBufCtrlSem, and a post.
LEMMA CtrlType ==
  ASSUME Ctrl!TypeOK,
         \/ \E t \in {"command", "buffer"} : Ctrl!PendCall(t) \/ Ctrl!Pend(t)
         \/ Ctrl!PostSem
         \/ hBufCtrlSem' = 0 /\ UNCHANGED pending
         \/ UNCHANGED ctrlVars
  PROVE  Ctrl!TypeOK'
<1> USE VidEncAssumption DEF Ctrl!TypeOK, Ctrl!Where
<1>1. ASSUME NEW t \in {"command", "buffer"}, Ctrl!PendCall(t) \/ Ctrl!Pend(t)
      PROVE  Ctrl!TypeOK'
  BY <1>1 DEF Ctrl!PendCall, Ctrl!Pend, Ctrl!PendTake, Ctrl!PendWait, Ctrl!PendResume,
              Ctrl!Decremented
<1>2. CASE Ctrl!PostSem
  BY <1>2 DEF Ctrl!PostSem, Ctrl!Signal, Ctrl!Sleepers, Ctrl!PostedValue
<1>3. CASE (hBufCtrlSem' = 0 /\ UNCHANGED pending) \/ UNCHANGED ctrlVars
  BY <1>3 DEF ctrlVars
<1> QED
  BY <1>1, <1>2, <1>3

LEMMA TypeInit == Init => TypeOK
<1> SUFFICES ASSUME Init PROVE TypeOK
  OBVIOUS
<1>1. Ctrl!TypeOK
  BY VidEncAssumption DEF Init, Ctrl!Init, Ctrl!TypeOK, Ctrl!Where
<1>2. /\ scenario \in ScenarioType /\ lent \in [Buffers -> Int]
      /\ cmd \in Seq(Commands) /\ Len(cmd) <= 1
  BY VidEncAssumption DEF Init
<1>3. \A p \in Ports : /\ pBuffers[p] \subseteq Slots(p) /\ call[p] = <<>>
                       /\ pBufQueue[p] \in Seq(Slots(p)) /\ Len(pBufQueue[p]) <= QueueMax
  BY VidEncAssumption DEF Init
<1>4. hBufAllocSem \in 0 .. MaxAlloc /\ hBufChangeSem = NULL
  BY VidEncAssumption DEF Init
<1>5. DOMAIN pBuffers = Ports /\ DOMAIN call = Ports /\ DOMAIN pBufQueue = Ports
  BY DEF Init
<1>6. {eCurState, eNewState} \subseteq States \cup Ports \cup {"all"}
  BY DEF Init, States
<1>7. /\ cmdPc \in Places /\ bufPc \in BufPlaces
      /\ eCmdBufThread \in {"PAUSE", "RUN", "EXIT"} /\ {hVpuCodec, hCSCMem} \subseteq {"NULL", "open"}
      /\ fault \in {"none", "semaphore", "codec", "image"}
  BY DEF Init, Places, BufPlaces
<1>8. /\ eosFlag \subseteq InBuffers /\ lost \subseteq Buffers
      /\ seqBufSize \in BOOLEAN /\ bSendCodecSpecificInfo \in BOOLEAN
  BY DEF Init
<1> QED
  BY <1>1, <1>2, <1>3, <1>4, <1>5, <1>6, <1>7, <1>8 DEF TypeOK

\* The client's calls.
LEMMA TypeSend == ASSUME TypeOK, NEW c \in Offered, SendCommand(c) PROVE TypeOK'
<1>1. scenario \in ScenarioType /\ scenario.script \in Seq(SUBSET Commands)
  BY DEF TypeOK, ScenarioType
<1>2. scenario.script # <<>> /\ c \in Commands
  BY <1>1 DEF Offered
<1>3. Tail(scenario.script) \in Seq(SUBSET Commands)
  BY <1>1, <1>2
<1>4. scenario' \in ScenarioType
  BY <1>1, <1>3 DEF SendCommand, ScenarioType
<1>5. cmd' \in Seq(Commands) /\ Len(cmd') <= 1
  BY <1>2 DEF SendCommand
<1>6. eNewState' \in States \cup Ports \cup {"all"}
  BY <1>2 DEF SendCommand, Commands, TypeOK
<1>7. Ctrl!TypeOK'
  BY CtrlType DEF TypeOK, SendCommand
<1> QED
  BY <1>4, <1>5, <1>6, <1>7
     DEF TypeOK, SendCommand, commandVars, threadVars, dataVars, portVars, bufferVars, streamVars

LEMMA TypeClient ==
  ASSUME TypeOK, NEW p \in Ports,
         \/ \E b \in Slots(p) : UseBuffer(p, b) \/ FreeBuffer(p, b)
         \/ \E b \in InBuffers : EmptyThisBuffer(b)
         \/ \E b \in OutBuffers : FillThisBuffer(b)
         \/ Push(p) \/ Post(p)
  PROVE  TypeOK'
<1> USE DEF clientVars, commandVars, threadVars, portVars, bufferVars, streamVars
<1>0. Ctrl!TypeOK'
  BY CtrlType DEF TypeOK, UseBuffer, FreeBuffer, EmptyThisBuffer, FillThisBuffer, Push, Post, Call
<1>1. ASSUME NEW b \in Slots(p), UseBuffer(p, b) \/ FreeBuffer(p, b) PROVE TypeOK'
  <2>1. /\ DOMAIN pBuffers' = Ports /\ \A q \in Ports : pBuffers'[q] \subseteq Slots(q)
    BY SMTT(30), <1>1 DEF TypeOK, UseBuffer, FreeBuffer
  <2>2. hBufAllocSem' \in 0 .. MaxAlloc
    BY <1>1, VidEncAssumption DEF TypeOK, UseBuffer, FreeBuffer, Posted
  <2> QED
    BY <1>0, <1>1, <2>1, <2>2 DEF TypeOK, UseBuffer, FreeBuffer
<1>2. ASSUME NEW b \in InBuffers, EmptyThisBuffer(b) PROVE TypeOK'
  BY <1>0, <1>2 DEF TypeOK, EmptyThisBuffer, Call, CallType, Slots
<1>3. ASSUME NEW b \in OutBuffers, FillThisBuffer(b) PROVE TypeOK'
  BY <1>0, <1>3 DEF TypeOK, FillThisBuffer, Call, CallType, Slots
<1>4. CASE Push(p)
  <2>1. /\ call[p] \in {<<c>> : c \in CallType(p)} /\ call[p][1] \in CallType(p)
        /\ pBufQueue[p] \in Seq(Slots(p)) /\ Len(pBufQueue[p]) <= QueueMax
        /\ DOMAIN call = Ports /\ DOMAIN pBufQueue = Ports
    BY <1>4 DEF TypeOK, Push
  <2>2. call[p][1].buf \in Slots(p) /\ [call[p][1] EXCEPT !.at = "post"] \in CallType(p)
    BY <2>1 DEF CallType
  <2>3. /\ DOMAIN call' = Ports
        /\ \A q \in Ports : call'[q] \in {<<>>} \cup {<<c>> : c \in CallType(q)}
    BY <1>4, <2>1, <2>2 DEF TypeOK, Push
  <2>4. /\ DOMAIN pBufQueue' = Ports
        /\ \A q \in Ports : /\ pBufQueue'[q] \in Seq(Slots(q))
                            /\ Len(pBufQueue'[q]) <= QueueMax
    <3>1. CASE Len(pBufQueue[p]) < QueueMax
      <4>1. /\ Append(pBufQueue[p], call[p][1].buf) \in Seq(Slots(p))
            /\ Len(Append(pBufQueue[p], call[p][1].buf)) <= QueueMax
        BY <2>1, <2>2, <3>1, VidEncAssumption
      <4> QED
        BY <1>4, <2>1, <3>1, <4>1 DEF TypeOK, Push
    <3>2. CASE ~ Len(pBufQueue[p]) < QueueMax
      BY <1>4, <2>1, <3>2 DEF TypeOK, Push
    <3> QED
      BY <3>1, <3>2
  <2>5. lent' \in [Buffers -> Int]
    BY <1>4, <2>2 DEF TypeOK, Push, Buffers, Slots
  <2> QED
    BY <1>0, <1>4, <2>3, <2>4, <2>5 DEF TypeOK, Push
<1>5. CASE Post(p)
  BY <1>0, <1>5, VidEncAssumption DEF TypeOK, Post, PostChange, Posted, NULL
<1> QED
  BY <1>1, <1>2, <1>3, <1>4, <1>5

\* The command thread.
LEMMA TypeCommand ==
  ASSUME TypeOK,
         \/ \E i \in DOMAIN cmd :
              \/ Unsupported(cmd[i]) \/ Switch(cmd[i]) \/ BeginTransition(cmd[i])
              \/ BadPort(cmd[i]) \/ PortCommand(cmd[i])
         \/ ToIdle \/ ToLoaded \/ ToExecuting
         \/ OrderPause \/ WakeForPause \/ Paused \/ TakeCtrl \/ PutCtrl
  PROVE  TypeOK'
<1> USE DEF clientVars, commandVars, threadVars, dataVars, portVars, bufferVars, streamVars, Goto,
            At
<1>1. ASSUME NEW i \in DOMAIN cmd,
             \/ Unsupported(cmd[i]) \/ Switch(cmd[i]) \/ BeginTransition(cmd[i])
             \/ BadPort(cmd[i]) \/ PortCommand(cmd[i])
      PROVE  TypeOK'
  <2>0. cmd[i] \in Commands
    BY DEF TypeOK
  <2>1. Ctrl!TypeOK'
    BY <1>1, CtrlType DEF TypeOK, Unsupported, Switch, BeginTransition, BadPort, PortCommand
  <2>2. /\ eCurState' \in States \cup Ports \cup {"all"}
        /\ cmdPc' \in Places /\ cmd' \in Seq(Commands) /\ Len(cmd') <= 1
        /\ fault' \in {"none", "semaphore", "codec", "image"}
    <3>1. cmd' = <<>>
      BY <1>1 DEF Unsupported, Switch, BeginTransition, BadPort, PortCommand, Pop
    <3>2. eCurState' \in States \cup Ports \cup {"all"}
      BY <1>1, <2>0
         DEF TypeOK, Unsupported, Switch, BeginTransition, BadPort, PortCommand, Commands
    <3>3. FirstPlace(eCurState, cmd[i].arg) \in Places
      BY DEF FirstPlace, StopBegins, Places
    <3>4. cmdPc' \in Places /\ fault' \in {"none", "semaphore", "codec", "image"}
      BY <1>1, <3>3
         DEF TypeOK, Unsupported, Switch, BeginTransition, BadPort, PortCommand, Places
    <3> QED
      BY <3>1, <3>2, <3>4
  <2> QED
    BY <1>1, <2>1, <2>2
       DEF TypeOK, Unsupported, Switch, BeginTransition, BadPort, PortCommand, Pop
<1>2. CASE WaitAllocIn \/ WaitAllocOut \/ WaitFreeIn \/ WaitFreeOut
  <2>1. Ctrl!TypeOK'
    BY <1>2, CtrlType DEF TypeOK, WaitAllocIn, WaitAllocOut, WaitFreeIn, WaitFreeOut, PendAlloc
  <2> QED
    BY <1>2, <2>1, VidEncAssumption
       DEF TypeOK, WaitAllocIn, WaitAllocOut, WaitFreeIn, WaitFreeOut, PendAlloc, Places
<1>3. CASE EncoderOpen \/ EncoderOpenFails \/ EncoderClose
  <2>1. Ctrl!TypeOK'
    BY <1>3, CtrlType DEF TypeOK, EncoderOpen, EncoderOpenFails, EncoderClose
  <2>2. SequenceHeader \in BOOLEAN
    BY DEF TypeOK, ScenarioType, SequenceHeader
  <2> QED
    BY <1>3, <2>1, <2>2 DEF TypeOK, EncoderOpen, EncoderOpenFails, EncoderClose, Places
<1>4. CASE CreateBufThread \/ JoinBufThread
  <2>1. Ctrl!TypeOK'
    BY <1>4, CtrlType DEF TypeOK, CreateBufThread, JoinBufThread
  <2> QED
    BY <1>4, <2>1, VidEncAssumption
       DEF TypeOK, CreateBufThread, JoinBufThread, Places, BufPlaces
<1>5. CASE AwaitThread \/ TakeCtrl \/ Start \/ Release \/ PutCtrl
  <2>1. Ctrl!TypeOK'
    BY <1>5, CtrlType
       DEF TypeOK, AwaitThread, TakeCtrl, Start, Release, PutCtrl, CommandPends, PostCtrl
  <2> QED
    BY <1>5, <2>1
       DEF TypeOK, AwaitThread, TakeCtrl, Start, Release, PutCtrl, CommandPends, PostCtrl, Places
<1>6. CASE Created \/ Freed \/ Started \/ Paused
  <2>1. Ctrl!TypeOK'
    BY <1>6, CtrlType DEF TypeOK, Created, Freed, Started, Paused, Reach
  <2> QED
    BY <1>6, <2>1 DEF TypeOK, Created, Freed, Started, Paused, Reach, Places, States
<1>7. CASE OrderExit \/ OrderRun \/ OrderPause
  <2>1. Ctrl!TypeOK'
    BY <1>7, CtrlType DEF TypeOK, OrderExit, OrderRun, OrderPause, Order
  <2> QED
    BY <1>7, <2>1 DEF TypeOK, OrderExit, OrderRun, OrderPause, Order, Places
<1>8. CASE WakeForExit \/ WakeForPause
  <2>1. Ctrl!TypeOK'
    BY <1>8, CtrlType DEF TypeOK, WakeForExit, WakeForPause, Wake
  <2> QED
    BY <1>8, <2>1, VidEncAssumption
       DEF TypeOK, WakeForExit, WakeForPause, Wake, PostChange, Posted, Places, NULL
<1> QED
  BY <1>1, <1>2, <1>3, <1>4, <1>5, <1>6, <1>7, <1>8 DEF ToIdle, ToLoaded, ToExecuting

\* Handing back keeps the type; so does a queue that loses its front or all.
LEMMA HandBackType ==
  ASSUME TypeOK, NEW q \in Seq(Buffers), HandBack(q)
  PROVE  lent' \in [Buffers -> Int]
<1>1. ASSUME NEW b \in Buffers PROVE Cardinality({i \in 1 .. Len(q) : q[i] = b}) \in Nat
  <2>1. IsFiniteSet(1 .. Len(q))
    BY FS_Interval
  <2> QED
    BY <2>1, FS_Subset, FS_CardinalityType
<1> QED
  BY SMTT(30), <1>1 DEF HandBack, TypeOK

LEMMA QueueType ==
  ASSUME TypeOK
  PROVE  /\ pBufQueue["in"] \in Seq(InBuffers) /\ pBufQueue["out"] \in Seq(OutBuffers)
         /\ pBufQueue["in"] \in Seq(Buffers) /\ pBufQueue["out"] \in Seq(Buffers)
         /\ Len(pBufQueue["in"]) <= QueueMax /\ Len(pBufQueue["out"]) <= QueueMax
         /\ "in" \in DOMAIN pBufQueue /\ "out" \in DOMAIN pBufQueue
<1>1. \A p \in Ports : pBufQueue[p] \in Seq(Slots(p)) /\ Len(pBufQueue[p]) <= QueueMax
  BY DEF TypeOK
<1>2. "in" \in Ports /\ "out" \in Ports /\ Slots("in") = InBuffers /\ Slots("out") = OutBuffers
  BY DEF Ports, Slots
<1>3. pBufQueue["in"] \in Seq(InBuffers) /\ pBufQueue["out"] \in Seq(OutBuffers)
  BY <1>1, <1>2
<1>4. pBufQueue["in"] \in Seq(Buffers) /\ pBufQueue["out"] \in Seq(Buffers)
  BY <1>3, SeqMonotonic DEF Buffers
<1> QED
  BY <1>1, <1>2, <1>3, <1>4 DEF TypeOK

\* What EncodeFrame leaves in the queues.
LEMMA EncodeQueues ==
  ASSUME TypeOK, CanEncode, NEW n \in 0 .. 2, Takes(n)
  PROVE  /\ DOMAIN pBufQueue' = Ports
         /\ pBufQueue'["in"] \in Seq(InBuffers) /\ pBufQueue'["out"] \in Seq(OutBuffers)
         /\ Len(pBufQueue["in"]) \in Nat \ {0} /\ Len(pBufQueue["out"]) \in Nat \ {0}
         /\ Len(pBufQueue'["in"]) = Len(pBufQueue["in"]) - 1
         /\ \A i \in 1 .. Len(pBufQueue'["in"]) : pBufQueue'["in"][i] = pBufQueue["in"][i + 1]
         /\ Len(pBufQueue'["out"]) = IF n < Len(pBufQueue["out"])
                                     THEN Len(pBufQueue["out"]) - n ELSE 0
         /\ \A i \in 1 .. Len(pBufQueue'["out"]) :
              pBufQueue'["out"][i] = pBufQueue["out"][i + n]
<1> DEFINE in == pBufQueue["in"]
           out == pBufQueue["out"]
<1>1. in \in Seq(InBuffers) /\ out \in Seq(OutBuffers) /\ in # <<>> /\ out # <<>>
  BY QueueType DEF CanEncode, Ports
<1>2. Len(in) \in Nat \ {0} /\ Len(out) \in Nat \ {0}
  BY <1>1, EmptySeq
<1>3. /\ DOMAIN pBufQueue' = Ports /\ pBufQueue'["in"] = Tail(in)
      /\ pBufQueue'["out"] = SubSeq(out, n + 1, Len(out))
  BY QueueType DEF Takes, TypeOK, Ports
<1> HIDE DEF in, out
<1>4. /\ Tail(in) \in Seq(InBuffers) /\ Len(Tail(in)) = Len(in) - 1
      /\ \A i \in 1 .. Len(Tail(in)) : Tail(in)[i] = in[i + 1]
  BY <1>1, HeadTailProperties
<1>5. \A i \in (n + 1) .. Len(out) : out[i] \in OutBuffers
  BY <1>1, <1>2, ElementOfSeq
<1>6. /\ SubSeq(out, n + 1, Len(out)) \in Seq(OutBuffers)
      /\ Len(SubSeq(out, n + 1, Len(out))) = IF n + 1 <= Len(out) THEN Len(out) - n ELSE 0
      /\ \A i \in 1 .. Len(out) - n : SubSeq(out, n + 1, Len(out))[i] = out[i + n]
  BY <1>2, <1>5, SubSeqProperties
<1>7. ASSUME NEW i \in 1 .. Len(SubSeq(out, n + 1, Len(out)))
      PROVE  SubSeq(out, n + 1, Len(out))[i] = out[i + n]
  BY <1>2, <1>6
<1> QED
  BY <1>2, <1>3, <1>4, <1>6, <1>7 DEF in, out

LEMMA EncodeBuffers ==
  ASSUME TypeOK, CanEncode
  PROVE  /\ Input \in InBuffers /\ Output \in OutBuffers /\ pOutBuf \in OutBuffers
         /\ <<Input, Output>> \in Seq(Buffers) /\ HeaderBuffer \in Seq(Buffers)
         /\ HeaderBuffer \o <<Input, pOutBuf>> \in Seq(Buffers)
         /\ 1 + Len(HeaderBuffer) \in {1, 2}
<1>1. /\ pBufQueue["in"] \in Seq(InBuffers) /\ pBufQueue["in"] # <<>>
      /\ pBufQueue["out"] \in Seq(OutBuffers) /\ pBufQueue["out"] # <<>>
  BY QueueType DEF CanEncode, Ports
<1>2. Input \in InBuffers /\ Output \in OutBuffers
  BY <1>1, HeadTailProperties DEF Input, Output
<1>3. pOutBuf \in OutBuffers
  BY <1>1, <1>2 DEF pOutBuf
<1>4. <<Input, Output>> \in Seq(Buffers) /\ HeaderBuffer \in Seq(Buffers)
      /\ <<Input, pOutBuf>> \in Seq(Buffers) /\ 1 + Len(HeaderBuffer) \in {1, 2}
  <2>1. Input \in Buffers /\ Output \in Buffers /\ pOutBuf \in Buffers
    BY <1>2, <1>3 DEF Buffers
  <2>2. \A a, b \in Buffers : <<a, b>> \in Seq(Buffers) /\ <<a>> \in Seq(Buffers)
                             /\ <<>> \in Seq(Buffers) /\ 1 + Len(<<a>>) = 2 /\ 1 + Len(<<>>) = 1
    OBVIOUS
  <2>3. HeaderBuffer \in {<<Output>>, <<>>}
    BY DEF HeaderBuffer
  <2> QED
    BY <2>1, <2>2, <2>3
<1> QED
  BY <1>2, <1>3, <1>4, ConcatProperties

\* Rounds of the buffer thread that encode nothing, and the returns.
LEMMA TypeBufThread ==
  ASSUME TypeOK,
         \/ BufBorn \/ BufOuter \/ BufPendCtrl \/ BufInner \/ BufPendChange
         \/ BufStop \/ BufRun \/ BufLock \/ NothingToEncode \/ UNCHANGED vars
  PROVE  TypeOK'
<1> USE DEF vars, clientVars, commandVars, threadVars, dataVars, portVars, bufferVars, streamVars,
            BufGoto
<1>1. Ctrl!TypeOK'
  BY CtrlType DEF TypeOK, BufBorn, BufOuter, BufPendCtrl, BufInner, BufPendChange, BufStop, BufRun, BufLock,
                  NothingToEncode
<1>2. bufPc' \in BufPlaces
  BY DEF TypeOK, BufBorn, BufOuter, BufPendCtrl, BufInner, BufPendChange, BufStop, BufRun, BufLock,
         NothingToEncode, BufPlaces
<1>3. hBufChangeSem' \in {NULL} \cup 0 .. MaxChange
  BY VidEncAssumption
     DEF TypeOK, BufBorn, BufOuter, BufPendCtrl, BufInner, BufPendChange, BufStop, BufRun, BufLock,
         NothingToEncode, NULL
<1> QED
  BY <1>1, <1>2, <1>3
     DEF TypeOK, BufBorn, BufOuter, BufPendCtrl, BufInner, BufPendChange, BufStop, BufRun, BufLock,
         NothingToEncode

LEMMA TypeEncode ==
  ASSUME TypeOK, EncodeEos \/ EncodeFrame \/ EncodeFails
  PROVE  TypeOK'
<1> USE DEF EosBack, clientVars, commandVars, threadVars, portVars, BufGoto
<1>1. PICK n \in {1, 2} : CanEncode /\ Encoding(n)
  <2>1. CanEncode
    BY DEF EncodeEos, EncodeFrame, EncodeFails, EncodePicture
  <2>2. 1 + Len(HeaderBuffer) \in {1, 2}
    BY <2>1, EncodeBuffers
  <2> QED
    BY <2>1, <2>2 DEF EncodeEos, EncodeFrame, EncodeFails, EncodePicture
<1>2. Ctrl!TypeOK'
  BY <1>1, CtrlType DEF TypeOK, Encoding
<1>3. \A p \in Ports : pBufQueue'[p] \in Seq(Slots(p)) /\ Len(pBufQueue'[p]) <= QueueMax
  BY <1>1, EncodeQueues, QueueType, VidEncAssumption DEF Encoding, Ports, Slots
<1>4. lent' \in [Buffers -> Int]
  BY <1>1, EncodeBuffers, HandBackType DEF EncodeEos, EncodeFrame, EncodeFails
<1>5. /\ lost' \subseteq Buffers /\ fault' \in {"none", "semaphore", "codec", "image"}
      /\ bSendCodecSpecificInfo' \in BOOLEAN /\ hCSCMem' \in {"NULL", "open"}
  BY <1>1, EncodeBuffers
     DEF EncodeEos, EncodeFrame, EncodeFails, EncodePicture, TypeOK, Buffers, HeaderDue, ImageOutcomes
<1>6. DOMAIN pBufQueue' = Ports /\ bufPc' \in BufPlaces
  BY <1>1, EncodeQueues DEF Encoding, BufPlaces
<1> QED
  BY <1>1, <1>2, <1>3, <1>4, <1>5, <1>6 DEF TypeOK, Encoding

LEMMA TypeUnmapped == ASSUME TypeOK, EncodeUnmapped PROVE TypeOK'
<1> USE DEF clientVars, commandVars, threadVars, portVars
<1>1. CanEncode /\ Takes(0) /\ 0 \in 0 .. 2
  BY DEF EncodeUnmapped
<1>2. Ctrl!TypeOK'
  BY CtrlType DEF TypeOK, EncodeUnmapped
<1>3. /\ DOMAIN pBufQueue' = Ports
      /\ \A p \in Ports : pBufQueue'[p] \in Seq(Slots(p)) /\ Len(pBufQueue'[p]) <= QueueMax
  BY <1>1, EncodeQueues, QueueType, VidEncAssumption DEF Ports, Slots
<1>4. lost' \subseteq Buffers
  BY <1>1, EncodeBuffers DEF EncodeUnmapped, TypeOK, Buffers
<1> QED
  BY <1>2, <1>3, <1>4 DEF TypeOK, EncodeUnmapped

LEMMA TypeReturn ==
  ASSUME TypeOK, ReturnBuffers \/ \E i \in DOMAIN cmd : Flush(cmd[i])
  PROVE  TypeOK'
<1> USE DEF clientVars, commandVars, threadVars, portVars, streamVars, At, Goto
<1>1. Ctrl!TypeOK'
  BY CtrlType DEF TypeOK, ReturnBuffers, Flush
<1>2. /\ \A p \in Ports : pBufQueue'[p] \in Seq(Slots(p)) /\ Len(pBufQueue'[p]) <= QueueMax
      /\ DOMAIN pBufQueue' = Ports
  <2>1. \A p \in Ports : pBufQueue'[p] \in {<<>>, pBufQueue[p]}
    BY DEF ReturnBuffers, Flush
  <2>2. \A p \in Ports : <<>> \in Seq(Slots(p)) /\ Len(<<>>) <= QueueMax
    BY VidEncAssumption
  <2>3. DOMAIN pBufQueue' = Ports
    BY DEF ReturnBuffers, Flush
  <2> QED
    BY <2>1, <2>2, <2>3 DEF TypeOK
<1>3. lent' \in [Buffers -> Int]
  <2>1. CASE ReturnBuffers
    BY <2>1, QueueType, ConcatProperties, HandBackType DEF ReturnBuffers
  <2>2. ASSUME NEW i \in DOMAIN cmd, Flush(cmd[i]) PROVE lent' \in [Buffers -> Int]
    <3> DEFINE Back(p) == IF cmd[i].arg \in {p, "all"} THEN pBufQueue[p] ELSE <<>>
    <3>1. Back("in") \in Seq(Buffers) /\ Back("out") \in Seq(Buffers)
      BY QueueType
    <3>2. HandBack(Back("in") \o Back("out"))
      BY <2>2 DEF Flush
    <3> HIDE DEF Back
    <3> QED
      BY <3>1, <3>2, ConcatProperties, HandBackType
  <2> QED
    BY <2>1, <2>2
<1>4. cmd' \in Seq(Commands) /\ Len(cmd') <= 1 /\ cmdPc' \in Places
  <2>1. cmd' \in {cmd, <<>>} /\ cmdPc' \in {cmdPc, "paused"}
    BY DEF ReturnBuffers, Flush, Pop
  <2>2. <<>> \in Seq(Commands) /\ Len(<<>>) <= 1 /\ "paused" \in Places
    BY DEF Places
  <2>3. cmd \in Seq(Commands) /\ Len(cmd) <= 1 /\ cmdPc \in Places
    BY DEF TypeOK
  <2> QED
    BY <2>1, <2>2, <2>3
<1> QED
  BY <1>1, <1>2, <1>3, <1>4 DEF TypeOK, ReturnBuffers, Flush

LEMMA TypeStep == ASSUME TypeOK, [Next]_vars PROVE TypeOK'
<1>1. ASSUME NEW p \in Ports, NEW b \in Slots(p), AllocateBuffer(p, b) PROVE TypeOK'
  BY <1>1, TypeClient DEF AllocateBuffer
<1>2. CASE Client
  BY <1>1, <1>2, TypeSend, TypeClient DEF Client, Ports
<1>3. CASE CommandThread
  BY <1>3, TypeCommand, TypeReturn DEF CommandThread, BackToIdle
<1>4. CASE BufThread \/ UNCHANGED vars
  BY <1>4, TypeBufThread, TypeEncode, TypeUnmapped DEF BufThread
<1> QED
  BY <1>2, <1>3, <1>4 DEF Next

(***************************************************************************)
(* The variables keep their types, whatever the scenario.                  *)
(***************************************************************************)
THEOREM TypeCorrect == Spec => []TypeOK
BY TypeInit, TypeStep, PTL DEF Spec

-----------------------------------------------------------------------------
(* Phases                                                                  *)

(***************************************************************************)
(* What a client must not do: ask for Executing or Pause, or send a port   *)
(* command, in Loaded, and leave Pause for Idle (README, "Divergences").   *)
(***************************************************************************)
NotInLoaded(c) == \/ c.cmd \in {"PortDisable", "PortEnable", "MarkBuffer"}
                  \/ c.cmd = "StateSet" /\ c.arg \in {"Executing", "Pause"}
Careful ==
  \A i \in DOMAIN cmd :
    /\ NotInLoaded(cmd[i]) => eCurState # "Loaded"
    /\ cmd[i].cmd = "StateSet" /\ cmd[i].arg = "Idle" => eCurState # "Pause"

Starting == {"allocIn", "allocOut", "open", "create", "handshake", "created"}
Ending == {"close", "exit", "wake", "release", "join", "freeIn", "freeOut", "freed"}
Going == {"run", "start", "started"}
Stopping == {"pause", "dummy", "return", "paused"}

\* A transition is from one state to the one that was asked for, and what was
\* asked for last is on its way.
Transitions ==
  /\ eCurState \in {"Loaded", "Idle", "Executing", "Pause"}
  /\ cmdPc \in Starting => eCurState = "Loaded" /\ eNewState = "Idle"
  /\ cmdPc \in Ending => eCurState = "Idle" /\ eNewState = "Loaded"
  /\ cmdPc \in Going => eCurState = "Idle" /\ eNewState = "Executing"
  /\ cmdPc \in Stopping => eCurState = "Executing" /\ eNewState = "Idle"
  /\ cmdPc \in {"take", "put"} => eCurState # "Loaded"
  /\ cmdPc # "idle" => cmd = <<>>
  /\ \A i \in DOMAIN cmd : cmd[i].cmd = "StateSet" => eNewState = cmd[i].arg
  /\ eCurState \in {"Loaded", "Idle"} /\ eNewState \in {"Executing", "Pause"} =>
       cmdPc \in Going \/ \E i \in DOMAIN cmd : cmd[i].cmd = "StateSet"

\* The buffer thread's semaphore is there from the creation of the thread to its
\* end, and the VPU from before to its closing.
Lives ==
  /\ hBufChangeSem = NULL =>
       \/ cmdPc \in {"allocIn", "allocOut", "open", "create", "freeIn", "freeOut", "freed"}
       \/ cmdPc = "idle" /\ eCurState = "Loaded"
  /\ hVpuCodec = "NULL" =>
       \/ cmdPc \in {"allocIn", "allocOut", "open"} \cup (Ending \ {"close"})
       \/ cmdPc = "idle" /\ eCurState = "Loaded"

\* Neither in Loaded nor in Idle are there buffers or calls.
Empty == NoCalls /\ \A p \in Ports : pBufQueue[p] = <<>>
Rests ==
  /\ ~ Settled => NoCalls
  /\ eCurState \in {"Loaded", "Idle"} \/ cmdPc = "paused" => Empty

\* While it owes an event the buffer thread is not ordered to run.
Ordered == cmdPc \in {"dummy", "wake"} => eCmdBufThread # "RUN"

Phases == Transitions /\ Lives /\ Rests /\ Ordered


LEMMA PhasesInit == Init => Phases
BY DEF Init, Phases, Transitions, Lives, Rests, Ordered, Empty, NoCalls, Starting, Ending, Going,
       Stopping, Ports, Settled

\* The client's calls.
LEMMA PhasesClient ==
  ASSUME TypeOK, Phases, Client
  PROVE  Phases'
<1> USE DEF clientVars, commandVars, threadVars, ctrlVars, dataVars, portVars, bufferVars, streamVars
<1>1. ASSUME NEW c \in Offered, SendCommand(c) PROVE Phases'
  <2>1. cmd = <<>> /\ cmdPc = "idle" /\ cmd' = <<c>>
    BY <1>1 DEF SendCommand, Quiet
  <2>2. Transitions'
    BY <1>1, <2>1 DEF SendCommand, Phases, Transitions, Starting, Ending, Going, Stopping
  <2>3. Lives' /\ Ordered'
    BY <1>1, <2>1 DEF SendCommand, Phases, Lives, Ordered, Ending
  <2>4. Rests'
    BY <1>1, <2>1 DEF SendCommand, Phases, Rests, Settled, Empty, NoCalls
  <2> QED
    BY <2>2, <2>3, <2>4 DEF Phases
<1>2. ASSUME NEW p \in Ports, NEW b \in Slots(p),
             UseBuffer(p, b) \/ AllocateBuffer(p, b) \/ FreeBuffer(p, b)
      PROVE  Phases'
  BY <1>2 DEF UseBuffer, AllocateBuffer, FreeBuffer, Phases, Transitions, Lives, Rests, Ordered,
              Settled, Empty, NoCalls
<1>3. ASSUME NEW p \in Ports, NEW b \in Slots(p), Call(p, b) PROVE Phases'
  <2>1. Settled /\ eNewState \in {"Executing", "Pause"} /\ cmdPc = "idle"
    BY <1>3 DEF Call, Streaming, Settled
  <2>2. \A i \in DOMAIN cmd : cmd[i].cmd # "StateSet"
    BY <2>1 DEF Settled, TypeOK
  <2>3. eCurState \notin {"Loaded", "Idle"}
    BY <2>1, <2>2 DEF Phases, Transitions, Going
  <2>4. Rests'
    BY <1>3, <2>1, <2>3 DEF Call, Rests, Settled
  <2> QED
    BY <1>3, <2>4 DEF Call, Phases, Transitions, Lives, Ordered
<1>4. ASSUME NEW p \in Ports, Push(p) \/ Post(p) PROVE Phases'
  <2>1. call[p] # <<>>
    BY <1>4 DEF Push, Post
  <2>2. Settled /\ eCurState \notin {"Loaded", "Idle"} /\ cmdPc = "idle"
    BY <2>1 DEF Phases, Rests, Empty, NoCalls, Settled
  <2>3. hBufChangeSem # NULL
    BY <2>2 DEF Phases, Lives
  <2>4. Rests'
    BY <1>4, <2>2 DEF Push, Post, Rests, Settled
  <2>5. hBufChangeSem' # NULL
    BY <1>4, <2>3, VidEncAssumption DEF Push, Post, PostChange, Posted, TypeOK, NULL
  <2> QED
    BY <1>4, <2>4, <2>5 DEF Push, Post, Phases, Transitions, Lives, Ordered
<1> QED
  BY <1>1, <1>2, <1>3, <1>4 DEF Client, EmptyThisBuffer, FillThisBuffer, Slots, Ports

\* The command thread.
LEMMA PhasesCommand ==
  ASSUME TypeOK, Phases, Careful, CommandThread
  PROVE  Phases'
<1> USE DEF clientVars, commandVars, threadVars, ctrlVars, dataVars, portVars, bufferVars,
            streamVars, At, Goto
<1>0. cmd \in Seq(Commands) /\ Len(cmd) <= 1
  BY DEF TypeOK
<1>1. ASSUME NEW i \in DOMAIN cmd,
             Unsupported(cmd[i]) \/ Switch(cmd[i]) \/ BeginTransition(cmd[i]) \/ BadPort(cmd[i])
               \/ PortCommand(cmd[i]) \/ Flush(cmd[i])
      PROVE  Phases'
  <2> DEFINE c == cmd[i]
  <2>1. cmdPc = "idle" /\ cmd = <<c>> /\ cmd' = <<>> /\ Pop(c) /\ i = 1
    BY <1>1, <1>0 DEF Unsupported, Switch, BeginTransition, BadPort, PortCommand, Flush, Pop
  <2>2. /\ c.cmd = "StateSet" => eNewState = c.arg /\ NoCalls
        /\ NotInLoaded(c) => eCurState # "Loaded"
        /\ c.cmd = "StateSet" /\ c.arg = "Idle" => eCurState # "Pause"
    BY <2>1 DEF Phases, Transitions, Rests, Settled, Careful
  <2>3. /\ eCurState \in {"Loaded", "Idle", "Executing", "Pause"}
        /\ c.cmd # "Flush" => NoCalls
    BY <2>1 DEF Phases, Transitions, Rests, Settled
  <2>4. eCurState # "Loaded" => hBufChangeSem # NULL /\ hVpuCodec # "NULL"
    BY <2>1 DEF Phases, Lives, Ending
  <2>5. eCurState \in {"Loaded", "Idle"} => Empty
    BY DEF Phases, Rests
  <2>6. c.cmd # "StateSet" /\ eCurState \in {"Loaded", "Idle"} => eNewState \notin {"Executing", "Pause"}
    BY <2>1 DEF Phases, Transitions, Going
  <2> HIDE DEF c
  <2>7. CASE Unsupported(c)
    <3>1. Transitions'
      BY <2>1, <2>2, <2>3, <2>7
         DEF Unsupported, Transitions, Supported, Starting, Ending, Going, Stopping, NotInLoaded
    <3>2. Lives' /\ Ordered'
      BY <2>1, <2>4, <2>7, <2>3 DEF Unsupported, Lives, Ordered
    <3>3. Rests'
      BY <2>2, <2>5, <2>7, <2>1 DEF Unsupported, Rests, Empty, NoCalls
    <3> QED
      BY <3>1, <3>2, <3>3 DEF Phases
  <2>8. CASE Switch(c)
    <3>1. eCurState' = c.arg /\ c.arg \in {"Executing", "Pause"} /\ eCurState # "Loaded"
      BY <2>2, <2>8 DEF Switch, Supported, NotInLoaded
    <3>2. Transitions'
      BY <2>1, <2>2, <2>8, <3>1 DEF Switch, Transitions, Starting, Ending, Going, Stopping
    <3>3. Lives' /\ Ordered'
      BY <2>1, <2>4, <2>8, <3>1 DEF Switch, Lives, Ordered
    <3>4. Rests'
      BY <2>2, <2>8, <2>1, <3>1 DEF Switch, Rests, NoCalls
    <3> QED
      BY <3>2, <3>3, <3>4 DEF Phases
  <2>9. CASE BeginTransition(c)
    <3>1. <<eCurState, c.arg, cmdPc'>> \in
            {<<"Loaded", "Idle", "allocIn">>, <<"Idle", "Loaded", "close">>,
             <<"Idle", "Executing", "run">>, <<"Executing", "Idle", "pause">>}
      BY <2>9 DEF BeginTransition, FirstPlace, StopBegins
    <3>2. Transitions'
      BY <2>1, <2>2, <2>9, <3>1 DEF BeginTransition, Transitions, Starting, Ending, Going, Stopping
    <3>3. Lives' /\ Ordered'
      BY <2>1, <2>4, <2>9, <3>1 DEF BeginTransition, Lives, Ordered, Ending
    <3>4. Rests'
      BY <2>2, <2>5, <2>9, <2>1, <3>1 DEF BeginTransition, Rests, NoCalls, Empty
    <3> QED
      BY <3>2, <3>3, <3>4 DEF Phases
  <2>10. CASE BadPort(c) \/ PortCommand(c)
    <3>1. /\ c.cmd \in {"PortDisable", "PortEnable", "MarkBuffer"}
          /\ cmdPc' \in {"idle", "take"} /\ eCurState # "Loaded"
      BY <2>10, <2>2, <2>1 DEF BadPort, PortCommand, NotInLoaded
    <3>2. Transitions'
      BY <2>1, <2>3, <2>6, <2>10, <3>1
         DEF BadPort, PortCommand, Transitions, Starting, Ending, Going, Stopping
    <3>3. Lives' /\ Ordered'
      BY <2>1, <2>4, <2>10, <3>1 DEF BadPort, PortCommand, Lives, Ordered, Ending
    <3>4. Rests'
      BY <2>3, <2>5, <2>10, <2>1, <3>1 DEF BadPort, PortCommand, Rests, NoCalls, Empty
    <3> QED
      BY <3>2, <3>3, <3>4 DEF Phases
  <2>11. CASE Flush(c)
    <3>1. Transitions'
      BY <2>1, <2>3, <2>6, <2>11 DEF Flush, Transitions, Starting, Ending, Going, Stopping
    <3>2. Lives' /\ Ordered'
      BY <2>1, <2>4, <2>11, <2>3 DEF Flush, Lives, Ordered
    <3>3. Rests'
      <4>1. Settled'
        BY <2>1, <2>11 DEF Flush, Settled
      <4>2. Empty => Empty'
        BY <2>11 DEF Flush, Empty, NoCalls
      <4>3. UNCHANGED <<eCurState, cmdPc>> /\ cmdPc = "idle"
        BY <2>1, <2>11 DEF Flush
      <4> QED
        BY <4>1, <4>2, <4>3, <2>5 DEF Rests
    <3> QED
      BY <3>1, <3>2, <3>3 DEF Phases
  <2> QED
    BY <1>1, <2>7, <2>8, <2>9, <2>10, <2>11 DEF c
<1>2. CASE ToIdle \/ ToLoaded \/ ToExecuting \/ BackToIdle \/ TakeCtrl \/ PutCtrl
  <2> USE DEF WaitAllocIn, WaitAllocOut, EncoderOpen, EncoderOpenFails, CreateBufThread,
        AwaitThread, Created, EncoderClose, OrderExit, WakeForExit, Release, JoinBufThread,
        WaitFreeIn, WaitFreeOut, Freed, OrderRun, Start, Started, OrderPause, WakeForPause,
        ReturnBuffers, Paused, TakeCtrl, PutCtrl, PendAlloc, CommandPends, Reach, Order, Wake,
        PostCtrl, ToIdle, ToLoaded, ToExecuting, BackToIdle
  <2>1. cmdPc # "idle" /\ cmd = <<>> /\ NoCalls /\ UNCHANGED <<clientVars, call>>
    <3>1. cmdPc # "idle" /\ UNCHANGED <<clientVars, call>>
      BY <1>2
    <3> QED
      BY <3>1 DEF Phases, Transitions, Rests, Settled
  <2>2. Transitions'
    BY <1>2, <2>1 DEF Phases, Transitions, Starting, Ending, Going, Stopping
  <2>3. Lives'
    <3>1. hBufChangeSem' = NULL => \/ hBufChangeSem = NULL
                                   \/ cmdPc = "join" /\ cmdPc' = "freeIn"
      BY <1>2, VidEncAssumption DEF TypeOK, PostChange, Posted, NULL
    <3>2. hVpuCodec' = "NULL" => \/ hVpuCodec = "NULL"
                                 \/ cmdPc = "close" /\ cmdPc' = "exit"
                                 \/ cmdPc = "open" /\ cmdPc' = "idle" /\ UNCHANGED eCurState
      BY <1>2
    <3>3. hBufChangeSem = NULL /\ hBufChangeSem' = NULL => 
             \/ cmdPc' \in {"allocIn", "allocOut", "open", "create", "freeIn", "freeOut", "freed"}
             \/ cmdPc' = "idle" /\ eCurState' = "Loaded"
      BY <1>2, <2>1, VidEncAssumption DEF Phases, Lives, Transitions, Starting, NULL
    <3>4. hVpuCodec = "NULL" /\ hVpuCodec' = "NULL" =>
             \/ cmdPc' \in {"allocIn", "allocOut", "open"} \cup (Ending \ {"close"})
             \/ cmdPc' = "idle" /\ eCurState' = "Loaded"
      BY <1>2, <2>1 DEF Phases, Lives, Transitions, Starting, Ending
    <3>5. cmdPc = "open" => eCurState = "Loaded"
      BY DEF Phases, Transitions, Starting
    <3> QED
      BY <3>1, <3>2, <3>3, <3>4, <3>5 DEF Lives, Ending
  <2>4. Ordered'
    BY <1>2 DEF Phases, Ordered
  <2>5. Rests'
    <3>1. NoCalls'
      BY <2>1 DEF NoCalls
    <3>2. pBufQueue' # pBufQueue => \A p \in Ports : pBufQueue'[p] = <<>>
      BY <1>2
    <3>3. eCurState' \in {"Loaded", "Idle"} \/ cmdPc' = "paused" =>
            eCurState \in {"Loaded", "Idle"} \/ cmdPc \in {"paused", "return"}
      BY <1>2 DEF Phases, Transitions, Starting, Ending, Going
    <3>4. cmdPc = "return" => \A p \in Ports : pBufQueue'[p] = <<>>
      BY <1>2
    <3> QED
      BY <3>1, <3>2, <3>3, <3>4 DEF Rests, Phases, Empty
  <2> QED
    BY <2>2, <2>3, <2>4, <2>5 DEF Phases
<1> QED
  BY <1>1, <1>2 DEF CommandThread

\* The buffer thread, and no step.
LEMMA PhasesBufThread ==
  ASSUME TypeOK, Phases, BufThread \/ UNCHANGED vars
  PROVE  Phases'
<1> USE DEF vars, clientVars, commandVars, threadVars, ctrlVars, dataVars, portVars, bufferVars,
            streamVars, BufGoto
<1>1. CASE EncodeEos \/ EncodeFrame \/ EncodeFails \/ EncodeUnmapped
  <2>1. CanEncode
    BY <1>1 DEF EncodeEos, EncodeFrame, EncodeFails, EncodePicture, EncodeUnmapped
  <2>2. ~ Empty
    BY <2>1 DEF Empty, CanEncode, Ports
  <2>3. eCurState \notin {"Loaded", "Idle"} /\ cmdPc # "paused"
    BY <2>2 DEF Phases, Rests
  <2>4. UNCHANGED <<clientVars, commandVars, eCmdBufThread, hBufChangeSem, hVpuCodec, call>>
    BY <1>1 DEF EncodeEos, EncodeFrame, EncodeFails, EncodePicture, EncodeUnmapped, Encoding
  <2>5. Rests'
    BY <2>3, <2>4 DEF Phases, Rests, Settled, NoCalls
  <2> QED
    BY <2>4, <2>5 DEF Phases, Transitions, Lives, Ordered
<1>2. CASE ~ (EncodeEos \/ EncodeFrame \/ EncodeFails \/ EncodeUnmapped)
  <2>1. /\ UNCHANGED <<clientVars, commandVars, eCmdBufThread, hVpuCodec, call, pBufQueue>>
        /\ \/ UNCHANGED hBufChangeSem
           \/ hBufChangeSem > 0 /\ hBufChangeSem' = hBufChangeSem - 1
    BY <1>2 DEF BufThread, BufBorn, BufOuter, BufPendCtrl, BufInner, BufPendChange, BufStop, BufRun, BufLock,
                NothingToEncode
  <2>2. hBufChangeSem' = NULL => hBufChangeSem = NULL
    BY <2>1, VidEncAssumption DEF TypeOK, NULL
  <2> QED
    BY <2>1, <2>2 DEF Phases, Transitions, Lives, Ordered, Rests, Settled, Empty, NoCalls
<1> QED
  BY <1>1, <1>2

LEMMA PhasesStep == ASSUME TypeOK, Phases, Careful, [Next]_vars PROVE Phases'
BY PhasesClient, PhasesCommand, PhasesBufThread DEF Next

LEMMA PhasesHold == Spec /\ []Careful => []Phases
BY TypeCorrect, PhasesInit, PhasesStep, PTL DEF Spec

\* After a fault there is no step.
LEMMA StepsRun == ASSUME Next PROVE Running
BY DEF Next, Client, CommandThread, BufThread, ToIdle, ToLoaded, ToExecuting, BackToIdle,
       SendCommand, UseBuffer, AllocateBuffer, FreeBuffer, EmptyThisBuffer, FillThisBuffer, Call,
       Push, Post, Unsupported, Switch, BeginTransition, Flush, BadPort, PortCommand, Pop, At,
       WaitAllocIn, WaitAllocOut, EncoderOpen, EncoderOpenFails, CreateBufThread, AwaitThread,
       Created, EncoderClose, OrderExit, WakeForExit, WakeForPause, Wake, Release, JoinBufThread,
       WaitFreeIn, WaitFreeOut, Freed, OrderRun, Start, Started, OrderPause, ReturnBuffers, Paused,
       TakeCtrl, PutCtrl, PendAlloc, CommandPends, Reach, Order, PostCtrl, BufGoto, BufBorn,
       BufOuter, BufPendCtrl, BufInner, BufPendChange, BufStop, BufRun, BufLock, NothingToEncode,
       EncodeEos, EncodeFrame, EncodeFails, EncodeUnmapped, EncodePicture, Encoding

\* No fault in one step.
LEMMA FaultlessStep ==
  ASSUME TypeOK, Phases, Careful, NoFault, [Next]_vars
  PROVE  NoFault'
<1> USE DEF vars, clientVars, commandVars, threadVars, dataVars, portVars, bufferVars,
            streamVars
<1>0. CASE UNCHANGED vars
  BY <1>0 DEF NoFault
<1> SUFFICES ASSUME Next PROVE NoFault'
  BY <1>0
<1>8. fault = "none"
  BY StepsRun DEF Running
<1>1. ASSUME NEW p \in Ports, Post(p) PROVE fault' = "none"
  <2>1. ~ NoCalls
    BY <1>1 DEF Post, NoCalls
  <2>2. cmdPc = "idle" /\ eCurState # "Loaded"
    BY <2>1 DEF Phases, Rests, Empty, Settled
  <2>3. hBufChangeSem # NULL
    BY <2>2 DEF Phases, Lives
  <2> QED
    BY <1>1, <1>8, <2>3 DEF Post, PostChange
<1>2. ASSUME WakeForExit \/ WakeForPause PROVE fault' = "none"
  <2>1. cmdPc \in {"wake", "dummy"} /\ PostChange
    BY <1>2 DEF WakeForExit, WakeForPause, Wake, At
  <2> QED
    BY <2>1 DEF PostChange, Phases, Lives
<1>3. CASE EncodeFrame
  <2>1. CanEncode
    BY <1>3 DEF EncodeFrame, EncodePicture
  <2>2. eCurState \notin {"Loaded", "Idle"}
    BY <2>1 DEF CanEncode, Phases, Rests, Empty, Ports
  <2>3. hVpuCodec # "NULL"
    BY <2>2 DEF Phases, Lives, Transitions, Starting, Ending
  <2> QED
    BY <1>3, <2>3 DEF EncodeFrame, NoFault
<1>4. ASSUME NEW i \in DOMAIN cmd, PortCommand(cmd[i]) PROVE fault' = "none"
  <2>1. cmdPc = "idle" /\ eCurState # "Loaded"
    BY <1>4 DEF PortCommand, Pop, At, Careful, NotInLoaded
  <2> QED
    BY <1>4, <1>8, <2>1 DEF PortCommand, Phases, Lives
<1>5. ASSUME Client PROVE fault' = "none"
  <2>1. ASSUME NEW c \in Offered, SendCommand(c) PROVE fault' = "none"
    BY <1>8, <2>1 DEF SendCommand
  <2>2. ASSUME NEW p \in Ports, NEW b \in Slots(p),
               \/ UseBuffer(p, b) \/ AllocateBuffer(p, b) \/ FreeBuffer(p, b)
               \/ Call(p, b) \/ Push(p)
        PROVE  fault' = "none"
    BY <1>8, <2>2 DEF UseBuffer, AllocateBuffer, FreeBuffer, Call, Push
  <2>3. ASSUME NEW p \in Ports, Push(p) PROVE fault' = "none"
    BY <1>8, <2>3 DEF Push
  <2> QED
    BY <1>1, <1>5, <2>1, <2>2, <2>3 DEF Client, EmptyThisBuffer, FillThisBuffer, Ports, Slots
<1>6. ASSUME CommandThread PROVE fault' = "none"
  BY <1>2, <1>8, <1>4, <1>6
     DEF CommandThread, Unsupported, Switch, BeginTransition, Flush, BadPort, ToIdle, ToLoaded,
         ToExecuting, BackToIdle, WaitAllocIn, WaitAllocOut, EncoderOpen, EncoderOpenFails,
         CreateBufThread, AwaitThread, Created, EncoderClose, OrderExit, Release, JoinBufThread,
         WaitFreeIn, WaitFreeOut, Freed, OrderRun, Start, Started, OrderPause, ReturnBuffers, Paused,
         TakeCtrl, PutCtrl, PendAlloc, CommandPends, Reach, Order, PostCtrl
<1>7. CASE EncodeFails \/ EncodeUnmapped
  BY <1>7 DEF EncodeFails, EncodeUnmapped, EncodePicture, Encoding, ImageOutcomes, NoFault
<1>9. ASSUME BufThread, ~ (EncodeFails \/ EncodeUnmapped \/ EncodeFrame) PROVE fault' = "none"
  BY <1>8, <1>9
     DEF BufThread, BufBorn, BufOuter, BufPendCtrl, BufInner, BufPendChange, BufStop, BufRun,
         BufLock, NothingToEncode, EncodeEos, Encoding
<1> QED
  BY <1>3, <1>5, <1>6, <1>7, <1>9 DEF Next, NoFault

(***************************************************************************)
(* With a careful client no call ends the program, however its calls, the  *)
(* commands and the two threads of the component interleave.               *)
(***************************************************************************)
THEOREM CarefulClientSeesNoFault == Spec /\ []Careful => []NoFault
<1>1. Init => NoFault
  BY DEF Init, NoFault
<1> QED
  BY <1>1, TypeCorrect, PhasesHold, FaultlessStep, PTL DEF Spec

-----------------------------------------------------------------------------
(* Rounds                                                                  *)

\* The ports whose thread has pushed and has not posted.
Announcing == {p \in Ports : call[p] # <<>> /\ call[p][1].at = "post"}
InRound == IF bufPc \in {"woken", "lock", "work"} THEN 1 ELSE 0

\* The buffer thread, ordered to stop, will take an event and do nothing with it.
Drops == IF eCmdBufThread # "RUN" /\ bufPc \in {"change", "woken"} THEN 1 ELSE 0

\* The command thread will post the event for that.
Owed == IF cmdPc \in {"dummy", "wake"} THEN 1 ELSE 0

\* There are rounds for the pairs that wait and for the one that does nothing.
Rounds ==
  hBufChangeSem # NULL =>
    Pairs + Drops <= hBufChangeSem + Cardinality(Announcing) + InRound + Owed

LEMMA RoundTypes ==
  ASSUME TypeOK
  PROVE  /\ IsFiniteSet(Announcing) /\ Cardinality(Announcing) \in Nat
         /\ Len(pBufQueue["in"]) \in Nat /\ Len(pBufQueue["out"]) \in Nat
         /\ Pairs \in Nat /\ Pairs <= QueueMax
         /\ Drops \in Nat /\ Drops <= 1 /\ InRound \in Nat /\ Owed \in Nat
         /\ hBufChangeSem # NULL => hBufChangeSem \in Nat /\ hBufChangeSem <= MaxChange
<1>1. IsFiniteSet({"in"}) /\ IsFiniteSet({"in"} \cup {"out"})
  BY FS_Singleton, FS_AddElement
<1>2. Ports = {"in"} \cup {"out"} /\ Announcing \subseteq Ports
  BY DEF Ports, Announcing
<1>3. IsFiniteSet(Announcing) /\ Cardinality(Announcing) \in Nat
  BY <1>1, <1>2, FS_Subset, FS_CardinalityType
<1>4. /\ Len(pBufQueue["in"]) \in Nat /\ Len(pBufQueue["out"]) \in Nat
      /\ Pairs \in Nat /\ Pairs <= QueueMax
  BY QueueType, VidEncAssumption DEF Pairs
<1>5. hBufChangeSem # NULL => hBufChangeSem \in Nat /\ hBufChangeSem <= MaxChange
  BY VidEncAssumption DEF TypeOK
<1> QED
  BY <1>3, <1>4, <1>5 DEF Drops, InRound, Owed

LEMMA RoundTypesAfter ==
  ASSUME TypeOK'
  PROVE  /\ Cardinality(Announcing') \in Nat
         /\ Len(pBufQueue'["in"]) \in Nat /\ Len(pBufQueue'["out"]) \in Nat
         /\ Pairs' \in Nat /\ Drops' \in Nat /\ InRound' \in Nat /\ Owed' \in Nat
<1>1. IsFiniteSet({"in"}) /\ IsFiniteSet({"in"} \cup {"out"})
  BY FS_Singleton, FS_AddElement
<1>2. Ports = {"in"} \cup {"out"} /\ Announcing' \subseteq Ports
  BY DEF Ports, Announcing
<1>3. Cardinality(Announcing') \in Nat
  BY <1>1, <1>2, FS_Subset, FS_CardinalityType
<1>4. Len(pBufQueue'["in"]) \in Nat /\ Len(pBufQueue'["out"]) \in Nat
  <2>1. /\ "in" \in Ports /\ "out" \in Ports
        /\ \A p \in Ports : pBufQueue'[p] \in Seq(Slots(p))
    BY DEF TypeOK, Ports
  <2> QED
    BY <2>1
<1> QED
  BY <1>3, <1>4 DEF Pairs, Drops, InRound, Owed

\* Rounds survives a step that touches no announcement, if the difference of
\* what is to do and what is to come does not grow.
LEMMA RoundsKept ==
  ASSUME TypeOK, TypeOK', Rounds, UNCHANGED <<call, hBufChangeSem>>,
         Pairs' + Drops' + InRound + Owed <= Pairs + Drops + InRound' + Owed'
  PROVE  Rounds'
<1>1. Announcing' = Announcing
  BY DEF Announcing
<1>2. /\ Pairs \in Nat /\ Drops \in Nat /\ InRound \in Nat /\ Owed \in Nat
      /\ Pairs' \in Nat /\ Drops' \in Nat /\ InRound' \in Nat /\ Owed' \in Nat
      /\ Cardinality(Announcing) \in Nat
      /\ hBufChangeSem # NULL => hBufChangeSem \in Nat
  BY RoundTypes, RoundTypesAfter
<1>3. PICK p, d, i, o \in Nat : p = Pairs' /\ d = Drops' /\ i = InRound' /\ o = Owed'
  BY <1>2
<1>4. p + d + InRound + Owed <= Pairs + Drops + i + o
  BY <1>3
<1>5. ASSUME hBufChangeSem # NULL
      PROVE  p + d <= hBufChangeSem + Cardinality(Announcing) + i + o
  <2>1. Pairs + Drops <= hBufChangeSem + Cardinality(Announcing) + InRound + Owed
    BY <1>5 DEF Rounds
  <2> QED
    BY <1>2, <1>4, <1>5, <2>1
<1> QED
  BY <1>1, <1>3, <1>5 DEF Rounds

\* The same step, when only places and orders change.
LEMMA RoundsMoved ==
  ASSUME TypeOK, TypeOK', Rounds, UNCHANGED <<call, hBufChangeSem, pBufQueue>>,
         Drops' + InRound + Owed <= Drops + InRound' + Owed'
  PROVE  Rounds'
<1>1. Pairs' = Pairs
  BY DEF Pairs
<1>2. /\ Pairs \in Nat /\ Drops \in Nat /\ InRound \in Nat /\ Owed \in Nat
      /\ Drops' \in Nat /\ InRound' \in Nat /\ Owed' \in Nat
  BY RoundTypes, RoundTypesAfter
<1>3. Pairs' + Drops' + InRound + Owed <= Pairs + Drops + InRound' + Owed'
  <2>1. \A p, d, i, o, d1, i1, o1 \in Nat :
          d1 + i + o <= d + i1 + o1 => p + d1 + i + o <= p + d + i1 + o1
    OBVIOUS
  <2> QED
    BY <1>1, <1>2, <2>1
<1> QED
  BY <1>3, RoundsKept

\* An event for a buffer that was pushed, or the one the command thread owes.
LEMMA RoundsPosted ==
  ASSUME TypeOK, TypeOK', Rounds, PostChange, hBufChangeSem # NULL,
         UNCHANGED <<pBufQueue, threadVars>>,
         Cardinality(Announcing) + Owed = Cardinality(Announcing') + Owed' + 1
  PROVE  Rounds'
<1>1. Pairs' = Pairs /\ Drops' = Drops /\ InRound' = InRound
  BY DEF Pairs, Drops, InRound, threadVars
<1>2. /\ Pairs \in Nat /\ Pairs <= QueueMax /\ Drops \in Nat /\ Drops <= 1 /\ InRound \in Nat /\ Owed \in Nat
      /\ Owed' \in Nat /\ Cardinality(Announcing) \in Nat /\ Cardinality(Announcing') \in Nat
      /\ hBufChangeSem \in Nat /\ hBufChangeSem <= MaxChange
  BY RoundTypes, RoundTypesAfter
<1>3. CASE hBufChangeSem < MaxChange
  BY <1>1, <1>2, <1>3 DEF Rounds, PostChange, Posted
<1>4. CASE hBufChangeSem = MaxChange
  <2>1. hBufChangeSem' = MaxChange /\ QueueMax + 1 <= MaxChange
    BY <1>2, <1>4, VidEncAssumption DEF PostChange, Posted
  <2> QED
    BY <1>1, <1>2, <2>1, VidEncAssumption DEF Rounds
<1> QED
  BY <1>2, <1>3, <1>4, VidEncAssumption

LEMMA RoundsClient ==
  ASSUME TypeOK, TypeOK', Phases, Rounds, Client
  PROVE  Rounds'
<1> USE DEF clientVars, commandVars, threadVars, ctrlVars, dataVars, portVars, bufferVars, streamVars
<1>0. Drops \in Nat /\ InRound \in Nat /\ Owed \in Nat
  BY RoundTypes
<1>1. ASSUME NEW c \in Offered, SendCommand(c) PROVE Rounds'
  BY <1>0, <1>1, RoundsMoved DEF SendCommand, Drops, InRound, Owed
<1>2. ASSUME NEW p \in Ports, NEW b \in Slots(p),
             UseBuffer(p, b) \/ AllocateBuffer(p, b) \/ FreeBuffer(p, b)
      PROVE  Rounds'
  BY <1>0, <1>2, RoundsMoved DEF UseBuffer, AllocateBuffer, FreeBuffer, Drops, InRound, Owed
<1>3. ASSUME NEW p \in Ports, NEW b \in Slots(p), Call(p, b) PROVE Rounds'
  <2>1. Announcing' = Announcing
    BY <1>3 DEF Call, Announcing, TypeOK
  <2> QED
    BY <1>3, <2>1 DEF Call, Rounds, Pairs, Drops, InRound, Owed
<1>4. ASSUME NEW p \in Ports, Push(p) PROVE Rounds'
  <2>1. /\ call[p] # <<>> /\ call[p][1].at = "push" /\ call[p][1] \in CallType(p)
        /\ DOMAIN call = Ports /\ DOMAIN pBufQueue = Ports /\ pBufQueue[p] \in Seq(Slots(p))
    BY <1>4 DEF Push, TypeOK
  <2>2. CASE Len(pBufQueue[p]) < QueueMax
    <3>1. Announcing' = Announcing \cup {p} /\ p \notin Announcing
      BY <1>4, <2>1, <2>2 DEF Push, Announcing, CallType
    <3>2. Cardinality(Announcing') = Cardinality(Announcing) + 1
      BY <3>1, RoundTypes, FS_AddElement
    <3>3. /\ Len(pBufQueue'[p]) = Len(pBufQueue[p]) + 1
          /\ \A q \in Ports \ {p} : pBufQueue'[q] = pBufQueue[q]
      BY <1>4, <2>1, <2>2 DEF Push
    <3>4. Pairs' <= Pairs + 1
      BY SMTT(30), <3>3, RoundTypes DEF Pairs, Ports
    <3>5. UNCHANGED <<hBufChangeSem, Drops, InRound, Owed>>
      BY <1>4 DEF Push, Drops, InRound, Owed
    <3>6. ASSUME hBufChangeSem # NULL
          PROVE  Pairs' + Drops <= hBufChangeSem + (Cardinality(Announcing) + 1) + InRound + Owed
      <4>1. Pairs + Drops <= hBufChangeSem + Cardinality(Announcing) + InRound + Owed
        BY <3>6 DEF Rounds
      <4>2. \A u, d, i, o, p1, e, n \in Nat :
              p1 <= u + 1 /\ u + d <= e + n + i + o => p1 + d <= e + (n + 1) + i + o
        OBVIOUS
      <4> QED
        BY <1>0, <3>4, <3>6, <4>1, <4>2, RoundTypes, RoundTypesAfter
    <3> QED
      BY <3>2, <3>5, <3>6 DEF Rounds
  <2>3. CASE ~ Len(pBufQueue[p]) < QueueMax
    <3>1. Announcing' = Announcing
      BY <1>4, <2>1, <2>3 DEF Push, Announcing, CallType
    <3> QED
      BY <1>4, <2>3, <3>1 DEF Push, Rounds, Pairs, Drops, InRound, Owed
  <2> QED
    BY <2>2, <2>3
<1>5. ASSUME NEW p \in Ports, Post(p) PROVE Rounds'
  <2>1. call[p] # <<>> /\ call[p][1].at = "post" /\ DOMAIN call = Ports
    BY <1>5 DEF Post, TypeOK
  <2>2. Announcing' = Announcing \ {p} /\ p \in Announcing
    BY <1>5, <2>1 DEF Post, Announcing
  <2>3. Cardinality(Announcing') = Cardinality(Announcing) - 1
    BY <2>2, RoundTypes, FS_RemoveElement
  <2>4. PostChange /\ UNCHANGED <<pBufQueue, threadVars, Owed>>
    BY <1>5 DEF Post, Announced, Owed
  <2>5. hBufChangeSem # NULL
    BY <2>1 DEF Phases, Rests, Empty, NoCalls, Lives, Settled
  <2>6. Cardinality(Announcing) + Owed = Cardinality(Announcing') + Owed' + 1
    BY <1>0, <2>3, <2>4, RoundTypes
  <2> QED
    BY <2>4, <2>5, <2>6, RoundsPosted
<1> QED
  BY <1>1, <1>2, <1>3, <1>4, <1>5 DEF Client, EmptyThisBuffer, FillThisBuffer, Slots, Ports

LEMMA RoundsCommand ==
  ASSUME TypeOK, TypeOK', Phases, Rounds, CommandThread
  PROVE  Rounds'
<1> USE DEF clientVars, commandVars, threadVars, ctrlVars, dataVars, portVars, bufferVars,
            streamVars, At, Goto
<1>0. /\ Drops \in Nat /\ InRound \in Nat /\ Owed \in Nat
      /\ Drops' \in Nat /\ InRound' \in Nat /\ Owed' \in Nat
  BY RoundTypes, RoundTypesAfter
<1>1. ASSUME NEW i \in DOMAIN cmd,
             Unsupported(cmd[i]) \/ Switch(cmd[i]) \/ BeginTransition(cmd[i]) \/ BadPort(cmd[i])
               \/ PortCommand(cmd[i])
      PROVE  Rounds'
  <2>1. FirstPlace(eCurState, cmd[i].arg) \notin {"dummy", "wake"}
    BY DEF FirstPlace, StopBegins
  <2>2. cmdPc = "idle" /\ cmdPc' \notin {"dummy", "wake"}
    BY <1>1, <2>1 DEF Unsupported, Switch, BeginTransition, BadPort, PortCommand, Pop
  <2>3. UNCHANGED <<call, hBufChangeSem, pBufQueue, Drops, InRound, Owed>>
    BY <1>1, <2>2
       DEF Unsupported, Switch, BeginTransition, BadPort, PortCommand, Drops, InRound, Owed
  <2> QED
    BY <1>0, <2>3, RoundsMoved
<1>2. CASE \/ WaitAllocIn \/ WaitAllocOut \/ EncoderOpen \/ EncoderOpenFails \/ AwaitThread
           \/ Created \/ EncoderClose \/ Release \/ WaitFreeIn \/ WaitFreeOut \/ Freed
           \/ Start \/ Started \/ Paused \/ TakeCtrl \/ PutCtrl
  <2>1. UNCHANGED <<call, hBufChangeSem, pBufQueue, Drops, InRound, Owed>>
    BY <1>2
       DEF WaitAllocIn, WaitAllocOut, EncoderOpen, EncoderOpenFails, AwaitThread, Created,
           EncoderClose, Release, WaitFreeIn, WaitFreeOut, Freed, Start, Started, Paused, TakeCtrl,
           PutCtrl, PendAlloc, CommandPends, Reach, PostCtrl, Drops, InRound, Owed
  <2> QED
    BY <1>0, <2>1, RoundsMoved
<1>3. CASE OrderExit \/ OrderRun \/ OrderPause
  <2>1. UNCHANGED <<call, hBufChangeSem, pBufQueue, bufPc, InRound>>
    BY <1>3 DEF OrderExit, OrderRun, OrderPause, Order, InRound
  <2>2. Drops' + Owed <= Drops + Owed'
    BY <1>3, <2>1 DEF OrderExit, OrderRun, OrderPause, Order, Drops, Owed
  <2>3. Drops' + InRound + Owed <= Drops + InRound' + Owed'
    <3>1. \A d, i, o, d1, o1 \in Nat : d1 + o <= d + o1 => d1 + i + o <= d + i + o1
      OBVIOUS
    <3> QED
      BY <1>0, <2>1, <2>2, <3>1
  <2> QED
    BY <2>1, <2>3, RoundsMoved
<1>4. CASE WakeForExit \/ WakeForPause
  <2>1. PostChange /\ UNCHANGED <<pBufQueue, threadVars, Announcing>> /\ Owed = Owed' + 1
    BY <1>4 DEF WakeForExit, WakeForPause, Wake, Announcing, Owed
  <2>2. hBufChangeSem # NULL
    BY <1>4 DEF Phases, Lives, WakeForExit, WakeForPause, Wake
  <2>3. Owed' \in Nat /\ Cardinality(Announcing) \in Nat
    BY RoundTypes DEF Owed
  <2> QED
    BY <2>1, <2>2, <2>3, RoundsPosted
<1>5. CASE CreateBufThread
  <2>1. Empty
    BY <1>5 DEF CreateBufThread, Phases, Transitions, Starting, Rests
  <2>2. Pairs' = 0 /\ Drops' = 0 /\ InRound' \in Nat /\ Owed' \in Nat
        /\ Cardinality(Announcing') \in Nat
    <3>1. pBufQueue' = pBufQueue /\ pBufQueue["in"] = <<>> /\ pBufQueue["out"] = <<>>
      BY <1>5, <2>1 DEF Empty, Ports, CreateBufThread
    <3>2. Drops' = 0
      BY <1>5 DEF Drops, CreateBufThread
    <3> QED
      BY <3>1, <3>2, RoundTypes, RoundTypesAfter DEF Pairs, InRound, Owed
  <2> QED
    BY <1>5, <2>2 DEF CreateBufThread, Rounds
<1>6. CASE JoinBufThread
  BY <1>6 DEF JoinBufThread, Rounds
<1>7. CASE ReturnBuffers \/ \E i \in DOMAIN cmd : Flush(cmd[i])
  <2>1. UNCHANGED <<call, hBufChangeSem, Drops, InRound, Owed>>
    BY <1>7 DEF ReturnBuffers, Flush, Pop, Drops, InRound, Owed
  <2>2. \A p \in Ports : pBufQueue'[p] \in {<<>>, pBufQueue[p]}
    BY <1>7 DEF ReturnBuffers, Flush
  <2>3. Pairs' <= Pairs
    BY <2>2, RoundTypes DEF Pairs, Ports
  <2> QED
    BY <1>0, <2>1, <2>3, RoundTypes, RoundTypesAfter, RoundsKept
<1> QED
  BY <1>1, <1>2, <1>3, <1>4, <1>5, <1>6, <1>7
     DEF CommandThread, ToIdle, ToLoaded, ToExecuting, BackToIdle

LEMMA RoundsBufThread ==
  ASSUME TypeOK, TypeOK', Rounds, BufThread \/ UNCHANGED vars
  PROVE  Rounds'
<1> USE DEF vars, clientVars, commandVars, threadVars, ctrlVars, dataVars, portVars, bufferVars,
            streamVars, BufGoto
<1>0. /\ Drops \in Nat /\ InRound \in Nat /\ Owed \in Nat
      /\ Drops' \in Nat /\ InRound' \in Nat /\ Owed' \in Nat
  BY RoundTypes, RoundTypesAfter
<1>1. CASE BufBorn \/ BufOuter \/ BufPendCtrl \/ BufInner \/ BufRun \/ BufLock \/ BufStop \/ UNCHANGED vars
  <2>1. UNCHANGED <<call, hBufChangeSem, pBufQueue, Owed>>
    BY <1>1 DEF BufBorn, BufOuter, BufPendCtrl, BufInner, BufRun, BufLock, BufStop, Owed
  <2>2. \/ UNCHANGED <<Drops, InRound>>
        \/ Drops = 1 /\ InRound = 1 /\ Drops' = 0 /\ InRound' = 0
    BY <1>1 DEF BufBorn, BufOuter, BufPendCtrl, BufInner, BufRun, BufLock, BufStop, Drops, InRound
  <2>3. Drops' + InRound + Owed <= Drops + InRound' + Owed'
    <3>1. CASE UNCHANGED <<Drops, InRound>>
      BY <1>0, <2>1, <3>1
    <3>2. CASE Drops = 1 /\ InRound = 1 /\ Drops' = 0 /\ InRound' = 0
      <4>1. 0 + 1 + Owed <= 1 + 0 + Owed
        BY <1>0
      <4> QED
        BY <2>1, <3>2, <4>1
    <3> QED
      BY <2>2, <3>1, <3>2
  <2> QED
    BY <2>1, <2>3, RoundsMoved
<1>2. CASE BufPendChange
  <2>1. UNCHANGED <<Pairs, Drops, Announcing, Owed>> /\ InRound = 0 /\ InRound' = 1
    BY <1>2 DEF BufPendChange, Pairs, Drops, Announcing, Owed, InRound
  <2>2. hBufChangeSem \in Nat \ {0} /\ hBufChangeSem' = hBufChangeSem - 1
    BY <1>2, VidEncAssumption DEF BufPendChange, TypeOK, NULL
  <2>3. hBufChangeSem # NULL
    BY <2>2 DEF NULL
  <2> QED
    BY <2>1, <2>2, <2>3, RoundTypes DEF Rounds
<1>3. CASE NothingToEncode
  <2>1. Pairs = 0 /\ Drops = 0 /\ Drops' = 0 /\ InRound = 1 /\ InRound' = 0
    <3>1. pBufQueue["in"] = <<>> \/ pBufQueue["out"] = <<>>
      BY <1>3 DEF NothingToEncode, CanEncode, Ports
    <3>2. Pairs = 0
      BY <3>1, RoundTypes DEF Pairs
    <3> QED
      BY <1>3, <3>2 DEF NothingToEncode, Drops, InRound
  <2>2. UNCHANGED <<Pairs, hBufChangeSem, Announcing, Owed>>
    BY <1>3 DEF NothingToEncode, Pairs, Announcing, Owed
  <2>3. hBufChangeSem # NULL =>
          Pairs <= hBufChangeSem + Cardinality(Announcing) + Owed
    BY <2>1, RoundTypes
  <2> QED
    BY <2>1, <2>2, <2>3, RoundTypes DEF Rounds
<1>4. CASE EncodeEos \/ EncodeFrame \/ EncodeFails
  <2>1. PICK n \in {1, 2} : CanEncode /\ Encoding(n)
    BY <1>4, EncodeBuffers DEF EncodeEos, EncodeFrame, EncodeFails, EncodePicture
  <2>2. UNCHANGED <<call, hBufChangeSem, Owed>>
    BY <2>1 DEF Encoding, Owed
  <2>3. Drops = 0 /\ Drops' = 0 /\ InRound = 1 /\ InRound' = 0
    BY <2>1 DEF Encoding, Drops, InRound
  <2>4. Pairs' + 1 <= Pairs
    <3>1. /\ Len(pBufQueue'["in"]) = Len(pBufQueue["in"]) - 1
          /\ Len(pBufQueue'["out"]) = IF n < Len(pBufQueue["out"]) THEN Len(pBufQueue["out"]) - n
                                                                   ELSE 0
          /\ Len(pBufQueue["in"]) \in Nat \ {0} /\ Len(pBufQueue["out"]) \in Nat \ {0}
      BY <2>1, EncodeQueues DEF Encoding
    <3> QED
      BY <3>1 DEF Pairs
  <2>5. PICK p \in Nat : p = Pairs'
    BY RoundTypesAfter
  <2>6. Pairs' + Drops' + InRound + Owed <= Pairs + Drops + InRound' + Owed'
    <3>1. p + 0 + 1 + Owed <= Pairs + 0 + 0 + Owed
      BY <1>0, <2>4, <2>5, RoundTypes
    <3> QED
      BY <2>2, <2>3, <2>5, <3>1
  <2> QED
    BY <2>2, <2>6, RoundsKept
<1>5. CASE EncodeUnmapped
  <2>1. CanEncode /\ Takes(0) /\ 0 \in 0 .. 2
    BY <1>5 DEF EncodeUnmapped
  <2>2. UNCHANGED <<call, hBufChangeSem, Owed, Drops, InRound>>
    BY <1>5 DEF EncodeUnmapped, Owed, Drops, InRound
  <2>3. Pairs' <= Pairs
    <3>1. /\ Len(pBufQueue'["in"]) = Len(pBufQueue["in"]) - 1
          /\ Len(pBufQueue'["out"]) = IF 0 < Len(pBufQueue["out"]) THEN Len(pBufQueue["out"]) - 0
                                                                   ELSE 0
          /\ Len(pBufQueue["in"]) \in Nat \ {0} /\ Len(pBufQueue["out"]) \in Nat \ {0}
      BY <2>1, EncodeQueues
    <3> QED
      BY <3>1 DEF Pairs
  <2>4. PICK p \in Nat : p = Pairs'
    BY RoundTypesAfter
  <2>5. Pairs' + Drops' + InRound + Owed <= Pairs + Drops + InRound' + Owed'
    <3>1. p + Drops + InRound + Owed <= Pairs + Drops + InRound + Owed
      BY <1>0, <2>3, <2>4, RoundTypes
    <3> QED
      BY <2>2, <2>4, <3>1
  <2> QED
    BY <2>2, <2>5, RoundsKept
<1> QED
  BY <1>1, <1>2, <1>3, <1>4, <1>5 DEF BufThread

LEMMA RoundsStep ==
  ASSUME TypeOK, TypeOK', Phases, Rounds, [Next]_vars
  PROVE  Rounds'
BY RoundsClient, RoundsCommand, RoundsBufThread DEF Next

\* While the buffer thread is to run, no event is owed and none will be dropped.
LEMMA RoundsSuffice == ASSUME TypeOK, Phases, Rounds PROVE NoWorkForgotten
<1> SUFFICES ASSUME hBufChangeSem # NULL, eCmdBufThread = "RUN" PROVE Pairs <= Coming
  BY DEF NoWorkForgotten
<1>1. Drops = 0 /\ Owed = 0
  BY DEF Drops, Owed, Phases, Ordered
<1>2. Coming = hBufChangeSem + Cardinality(Announcing) + InRound
  BY DEF Coming, Announcing, InRound
<1> QED
  BY <1>1, <1>2, RoundTypes DEF Rounds

(***************************************************************************)
(* No pair of buffers is forgotten: what the buffer thread drops when it   *)
(* is stopped, the client's two threads pushing and posting apart, and the *)
(* flushes, all leave a round to come for each pair; hBufChangeSem never   *)
(* saturates before that, because the queues are shorter than its maximum. *)
(***************************************************************************)
THEOREM CarefulClientIsNotForgotten == Spec /\ []Careful => []NoWorkForgotten
<1>1. Init => Rounds
  BY DEF Init, Rounds
<1> QED
  BY <1>1, TypeCorrect, PhasesHold, RoundsStep, RoundsSuffice, PTL DEF Spec

-----------------------------------------------------------------------------
(* Who holds what                                                          *)

(***************************************************************************)
(* The client keeps a second output buffer with the component for as long  *)
(* as the sequence header is due.                                          *)
(***************************************************************************)
AheadOfHeader == HeaderDue /\ CanEncode => Len(pBufQueue["out"]) > 1

Elements(s) == {s[i] : i \in DOMAIN s}
Distinct(s) == \A i, j \in DOMAIN s : s[i] = s[j] => i = j

\* A buffer is queued once, and neither the client nor the driver has it then.
Apart ==
  /\ \A p \in Ports : Distinct(pBufQueue[p])
  /\ lost \cap Queued = {}
  /\ \A p \in Ports : call[p] # <<>> /\ call[p][1].at = "push" =>
                        call[p][1].buf \notin Queued \cup lost

\* A sequence without duplicates, less its first n elements.
Behind(s, n) == Elements(s) \ {s[i] : i \in 1 .. n}

LEMMA Dropped ==
  ASSUME NEW S, NEW s \in Seq(S), NEW t \in Seq(S), NEW n \in 0 .. Len(s), Distinct(s),
         Len(t) = Len(s) - n, \A i \in 1 .. Len(t) : t[i] = s[i + n]
  PROVE  Distinct(t) /\ Elements(t) = Behind(s, n)
<1>1. DOMAIN s = 1 .. Len(s) /\ DOMAIN t = 1 .. Len(t) /\ Len(s) \in Nat /\ Len(t) \in Nat
  OBVIOUS
<1>2. \A i \in DOMAIN t : i + n \in DOMAIN s /\ t[i] = s[i + n] /\ i + n \notin 1 .. n
  BY <1>1
<1>3. Distinct(t)
  BY SMTT(30), <1>1, <1>2 DEF Distinct
<1>4. ASSUME NEW j \in DOMAIN t PROVE t[j] \in Behind(s, n)
  <2>1. t[j] = s[j + n] /\ s[j + n] \in Elements(s) /\ j + n \in DOMAIN s
    BY <1>2 DEF Elements
  <2>2. ASSUME NEW i \in 1 .. n PROVE s[i] # s[j + n]
    <3>1. i \in DOMAIN s /\ j + n \in DOMAIN s /\ i # j + n
      BY <1>1, <1>2, <2>2
    <3> QED
      BY <3>1 DEF Distinct
  <2> QED
    BY <2>1, <2>2 DEF Behind
<1>5. ASSUME NEW x \in Behind(s, n) PROVE x \in Elements(t)
  <2>1. PICK j \in DOMAIN s : x = s[j]
    BY <1>5 DEF Elements, Behind
  <2>2. j \notin 1 .. n
    BY <1>5, <2>1 DEF Behind
  <2>3. j - n \in DOMAIN t /\ (j - n) + n = j
    BY <1>1, <2>1, <2>2
  <2>4. x = t[j - n]
    BY <1>2, <2>1, <2>3
  <2> QED
    BY <2>3, <2>4 DEF Elements
<1> QED
  BY <1>3, <1>4, <1>5 DEF Elements

LEMMA Appended ==
  ASSUME NEW S, NEW s \in Seq(S), NEW e \in S, Distinct(s), e \notin Elements(s)
  PROVE  Distinct(Append(s, e)) /\ Elements(Append(s, e)) = Elements(s) \cup {e}
<1> DEFINE t == Append(s, e)
<1>1. /\ t \in Seq(S) /\ Len(t) = Len(s) + 1 /\ t[Len(s) + 1] = e
      /\ \A i \in 1 .. Len(s) : t[i] = s[i]
      /\ DOMAIN s = 1 .. Len(s) /\ DOMAIN t = 1 .. Len(t) /\ Len(s) \in Nat
  BY AppendProperties
<1> HIDE DEF t
<1>2. DOMAIN t = DOMAIN s \cup {Len(s) + 1}
  BY <1>1
<1>3. Elements(t) = Elements(s) \cup {e}
  <2>1. \A x : x \in Elements(t) <=> \E i \in DOMAIN t : x = t[i]
    BY DEF Elements
  <2>2. \A x : x \in Elements(s) <=> \E i \in DOMAIN s : x = s[i]
    BY DEF Elements
  <2> QED
    BY <1>1, <1>2, <2>1, <2>2
<1>4. ASSUME NEW i \in DOMAIN s PROVE t[i] = s[i] /\ t[i] # e
  <2>1. t[i] = s[i] /\ s[i] \in Elements(s)
    BY <1>1 DEF Elements
  <2> QED
    BY <2>1
<1>5. ASSUME NEW i \in DOMAIN t, NEW j \in DOMAIN t, t[i] = t[j] PROVE i = j
  BY <1>1, <1>2, <1>4, <1>5 DEF Distinct
<1> QED
  BY <1>3, <1>5 DEF t, Distinct

LEMMA Joined ==
  ASSUME NEW S, NEW s \in Seq(S), NEW t \in Seq(S), Distinct(s), Distinct(t),
         Elements(s) \cap Elements(t) = {}
  PROVE  Distinct(s \o t) /\ Elements(s \o t) = Elements(s) \cup Elements(t)
<1> DEFINE u == s \o t
<1>1. /\ u \in Seq(S) /\ Len(u) = Len(s) + Len(t) /\ Len(s) \in Nat /\ Len(t) \in Nat
      /\ DOMAIN s = 1 .. Len(s) /\ DOMAIN t = 1 .. Len(t) /\ DOMAIN u = 1 .. Len(u)
      /\ \A i \in 1 .. Len(s) : u[i] = s[i]
      /\ \A i \in 1 .. Len(t) : u[Len(s) + i] = t[i]
  BY ConcatProperties
<1> HIDE DEF u
<1>2. ASSUME NEW i \in DOMAIN u, i \notin DOMAIN s
      PROVE  i - Len(s) \in DOMAIN t /\ u[i] = t[i - Len(s)]
  <2>1. i - Len(s) \in DOMAIN t /\ Len(s) + (i - Len(s)) = i
    BY <1>1, <1>2
  <2> QED
    BY <1>1, <2>1
<1>3. ASSUME NEW i \in DOMAIN u, NEW j \in DOMAIN u, u[i] = u[j] PROVE i = j
  <2>1. CASE i \in DOMAIN s /\ j \in DOMAIN s
    BY <1>1, <1>3, <2>1 DEF Distinct
  <2>2. CASE i \notin DOMAIN s /\ j \notin DOMAIN s
    <3>1. i - Len(s) = j - Len(s)
      BY <1>2, <1>3, <2>2 DEF Distinct
    <3> QED
      BY <1>1, <3>1
  <2>3. ASSUME NEW k \in DOMAIN s, NEW l \in DOMAIN u, l \notin DOMAIN s PROVE u[k] # u[l]
    <3>1. u[k] = s[k] /\ u[l] = t[l - Len(s)] /\ l - Len(s) \in DOMAIN t
      BY <1>1, <1>2, <2>3
    <3>2. s[k] \in Elements(s) /\ t[l - Len(s)] \in Elements(t)
      BY <3>1, <2>3 DEF Elements
    <3> QED
      BY <3>1, <3>2
  <2> QED
    BY <1>3, <2>1, <2>2, <2>3
<1>4. Elements(u) \subseteq Elements(s) \cup Elements(t)
  BY <1>1, <1>2 DEF Elements
<1>5. Elements(s) \subseteq Elements(u)
  BY <1>1 DEF Elements
<1>6. ASSUME NEW x \in Elements(t) PROVE x \in Elements(u)
  <2>1. PICK i \in DOMAIN t : x = t[i]
    BY <1>6 DEF Elements
  <2>2. Len(s) + i \in DOMAIN u
    BY <1>1, <2>1
  <2> QED
    BY <1>1, <2>1, <2>2 DEF Elements
<1> QED
  BY <1>3, <1>4, <1>5, <1>6 DEF Distinct, u

\* How often a buffer is in a sequence without duplicates.
LEMMA Occurrences ==
  ASSUME NEW S, NEW q \in Seq(S), Distinct(q), NEW b
  PROVE  Cardinality({i \in 1 .. Len(q) : q[i] = b}) = IF b \in Elements(q) THEN 1 ELSE 0
<1>1. DOMAIN q = 1 .. Len(q)
  OBVIOUS
<1>2. CASE b \in Elements(q)
  <2>1. PICK i \in DOMAIN q : q[i] = b
    BY <1>2 DEF Elements
  <2>2. {j \in 1 .. Len(q) : q[j] = b} = {i}
    BY <1>1, <2>1 DEF Distinct
  <2> QED
    BY <1>2, <2>2, FS_Singleton
<1>3. CASE b \notin Elements(q)
  <2>1. {j \in 1 .. Len(q) : q[j] = b} = {}
    BY <1>1, <1>3 DEF Elements
  <2> QED
    BY <1>3, <2>1, FS_EmptySet
<1> QED
  BY <1>2, <1>3

\* What is handed back leaves the queues.
LEMMA HandedBack ==
  ASSUME TypeOK, HeldByOneSide, NEW q \in Seq(Buffers), Distinct(q), HandBack(q),
         Elements(q) \subseteq Queued \cup lost,
         Queued' \cup lost' = (Queued \cup lost) \ Elements(q)
  PROVE  HeldByOneSide'
<1> SUFFICES ASSUME NEW b \in Buffers
             PROVE  lent'[b] = IF b \in Queued' \cup lost' THEN 1 ELSE 0
  BY DEF HeldByOneSide
<1>1. lent'[b] = lent[b] - (IF b \in Elements(q) THEN 1 ELSE 0)
  BY Occurrences DEF HandBack
<1>2. lent[b] = IF b \in Queued \cup lost THEN 1 ELSE 0
  BY DEF HeldByOneSide
<1> QED
  BY <1>1, <1>2

LEMMA QueuedIs ==
  /\ Queued = Elements(pBufQueue["in"]) \cup Elements(pBufQueue["out"])
  /\ TypeOK => /\ Elements(pBufQueue["in"]) \subseteq InBuffers
               /\ Elements(pBufQueue["out"]) \subseteq OutBuffers
               /\ Elements(pBufQueue["in"]) \cap Elements(pBufQueue["out"]) = {}
<1>1. Queued = Elements(pBufQueue["in"]) \cup Elements(pBufQueue["out"])
  BY DEF Queued, Elements, Ports
<1>2. ASSUME TypeOK
      PROVE  /\ Elements(pBufQueue["in"]) \subseteq InBuffers
             /\ Elements(pBufQueue["out"]) \subseteq OutBuffers
  BY <1>2, QueueType, ElementOfSeq DEF Elements
<1> QED
  BY <1>1, <1>2, VidEncAssumption

LEMMA QueuedAfter == Queued' = Elements(pBufQueue'["in"]) \cup Elements(pBufQueue'["out"])
BY DEF Queued, Elements, Ports

\* Most steps touch neither the queues nor the calls.
LEMMA HeldKept ==
  ASSUME Apart, HeldByOneSide, UNCHANGED <<pBufQueue, call, lent, lost>>
  PROVE  Apart' /\ HeldByOneSide'
BY DEF Apart, HeldByOneSide, Queued, Distinct

LEMMA HeldClient ==
  ASSUME TypeOK, Apart, HeldByOneSide, Client
  PROVE  Apart' /\ HeldByOneSide'
<1> USE DEF clientVars, commandVars, threadVars, ctrlVars, dataVars, portVars, bufferVars, streamVars
<1>0. /\ DOMAIN call = Ports /\ DOMAIN pBufQueue = Ports /\ lent \in [Buffers -> Int]
      /\ \A p \in Ports : /\ call[p] \in {<<>>} \cup {<<c>> : c \in CallType(p)}
                          /\ pBufQueue[p] \in Seq(Slots(p))
      /\ \A p \in Ports : Slots(p) \subseteq Buffers
  BY DEF TypeOK, Slots, Buffers
<1>1. ASSUME NEW c \in Offered, SendCommand(c) PROVE Apart' /\ HeldByOneSide'
  BY <1>1, HeldKept DEF SendCommand
<1>2. ASSUME NEW p \in Ports, NEW b \in Slots(p),
             UseBuffer(p, b) \/ AllocateBuffer(p, b) \/ FreeBuffer(p, b)
      PROVE  Apart' /\ HeldByOneSide'
  BY <1>2, HeldKept DEF UseBuffer, AllocateBuffer, FreeBuffer
<1>3. ASSUME NEW p \in Ports, NEW b \in Slots(p), Call(p, b) PROVE Apart' /\ HeldByOneSide'
  <2>1. lent[b] <= 0 /\ b \in Buffers
    BY <1>0, <1>3 DEF Call
  <2>2. b \notin Queued \cup lost
    BY <2>1 DEF HeldByOneSide
  <2>3. /\ Queued' = Queued /\ UNCHANGED <<pBufQueue, lent, lost>>
        /\ call' = [call EXCEPT ![p] = <<[at |-> "push", buf |-> b]>>]
    BY <1>3 DEF Call, Queued
  <2>4. \A q \in Ports : call'[q] # <<>> /\ call'[q][1].at = "push" =>
                           call'[q][1].buf \notin Queued \cup lost
    BY <1>0, <2>2, <2>3 DEF Apart
  <2> QED
    BY <2>3, <2>4 DEF Apart, HeldByOneSide, Distinct
<1>4. ASSUME NEW p \in Ports, Push(p) PROVE Apart' /\ HeldByOneSide'
  <2> DEFINE b == call[p][1].buf
  <2>1. /\ call[p] # <<>> /\ call[p][1] \in CallType(p) /\ b \in Slots(p) /\ b \in Buffers
        /\ b \notin Queued \cup lost
    BY <1>0, <1>4 DEF Push, CallType, Apart
  <2>2. CASE Len(pBufQueue[p]) < QueueMax
    <3>1. /\ pBufQueue' = [pBufQueue EXCEPT ![p] = Append(@, b)]
          /\ lent' = [lent EXCEPT ![b] = @ + 1]
          /\ call' = [call EXCEPT ![p] = <<[@[1] EXCEPT !.at = "post"]>>]
          /\ lost' = lost
      BY <1>4, <2>2 DEF Push
    <3>2. call'[p][1].at = "post"
      BY <1>0, <2>1, <3>1 DEF CallType
    <3> HIDE DEF b
    <3>3. b \notin Elements(pBufQueue[p])
      BY <2>1 DEF Queued, Elements
    <3>4. /\ Distinct(pBufQueue'[p]) /\ Elements(pBufQueue'[p]) = Elements(pBufQueue[p]) \cup {b}
          /\ \A q \in Ports \ {p} : pBufQueue'[q] = pBufQueue[q]
      BY <1>0, <2>1, <3>1, <3>3, Appended DEF Apart
    <3>5. Queued' = Queued \cup {b}
      BY <3>4, QueuedIs, QueuedAfter DEF Ports
    <3>6. HeldByOneSide'
      BY <1>0, <2>1, <3>1, <3>5 DEF HeldByOneSide
    <3>7. ASSUME NEW q \in Ports, call'[q] # <<>>, call'[q][1].at = "push"
          PROVE  call'[q][1].buf \notin Queued' \cup lost'
      <4>1. q # p /\ call'[q] = call[q]
        BY <1>0, <3>1, <3>2, <3>7
      <4>2. call[q][1].buf \in Slots(q) /\ call[q][1].buf \notin Queued \cup lost
        BY <1>0, <3>7, <4>1 DEF Apart, CallType
      <4>3. call[q][1].buf # b
        BY <2>1, <4>1, <4>2, VidEncAssumption DEF Slots, Ports
      <4> QED
        BY <3>1, <3>5, <4>1, <4>2, <4>3
    <3>8. \A q \in Ports : Distinct(pBufQueue'[q])
      BY <3>4 DEF Apart
    <3>9. lost' \cap Queued' = {}
      BY <2>1, <3>1, <3>5 DEF Apart
    <3> QED
      BY <3>6, <3>7, <3>8, <3>9 DEF Apart, Distinct
  <2>3. CASE ~ Len(pBufQueue[p]) < QueueMax
    <3>1. call' = [call EXCEPT ![p] = <<>>] /\ UNCHANGED <<pBufQueue, lent, lost, Queued>>
      BY <1>4, <2>3 DEF Push, Queued
    <3>2. \A q \in Ports : call'[q] \in {<<>>, call[q]}
      BY <1>0, <3>1
    <3> QED
      BY <3>1, <3>2 DEF Apart, HeldByOneSide, Distinct
  <2> QED
    BY <2>2, <2>3
<1>5. ASSUME NEW p \in Ports, Post(p) PROVE Apart' /\ HeldByOneSide'
  <2>1. call' = [call EXCEPT ![p] = <<>>] /\ UNCHANGED <<pBufQueue, lent, lost, Queued>>
    BY <1>5 DEF Post, Queued
  <2>2. \A q \in Ports : call'[q] \in {<<>>, call[q]}
    BY <1>0, <2>1
  <2> QED
    BY <2>1, <2>2 DEF Apart, HeldByOneSide, Distinct
<1> QED
  BY <1>1, <1>2, <1>3, <1>4, <1>5 DEF Client, EmptyThisBuffer, FillThisBuffer, Slots, Ports

\* The queues that a stop or a flush empties are handed back.
LEMMA HeldReturn ==
  ASSUME TypeOK, Apart, HeldByOneSide, UNCHANGED <<call, lost>>,
         NEW meant \in SUBSET Ports,
         pBufQueue' = [p \in Ports |-> IF p \in meant THEN <<>> ELSE pBufQueue[p]],
         HandBack((IF "in" \in meant THEN pBufQueue["in"] ELSE <<>>)
                    \o (IF "out" \in meant THEN pBufQueue["out"] ELSE <<>>))
  PROVE  Apart' /\ HeldByOneSide'
<1> DEFINE in == IF "in" \in meant THEN pBufQueue["in"] ELSE <<>>
           out == IF "out" \in meant THEN pBufQueue["out"] ELSE <<>>
<1>1. Distinct(<<>>) /\ Elements(<<>>) = {} /\ <<>> \in Seq(Buffers)
  BY DEF Distinct, Elements
<1>2. /\ in \in Seq(Buffers) /\ out \in Seq(Buffers) /\ Distinct(in) /\ Distinct(out)
      /\ Elements(in) \subseteq Elements(pBufQueue["in"])
      /\ Elements(out) \subseteq Elements(pBufQueue["out"])
  BY <1>1, QueueType DEF Apart, Ports
<1>3. /\ Elements(pBufQueue'["in"]) = Elements(pBufQueue["in"]) \ Elements(in)
      /\ Elements(pBufQueue'["out"]) = Elements(pBufQueue["out"]) \ Elements(out)
      /\ \A p \in Ports : Distinct(pBufQueue'[p])
  BY <1>1 DEF Apart, Ports
<1>4. HandBack(in \o out)
  OBVIOUS
<1> HIDE DEF in, out
<1>5. in \o out \in Seq(Buffers) /\ Distinct(in \o out)
      /\ Elements(in \o out) = Elements(in) \cup Elements(out)
  BY <1>2, QueuedIs, Joined, ConcatProperties
<1>6. Queued' = Queued \ Elements(in \o out) /\ Elements(in \o out) \subseteq Queued
  BY <1>2, <1>3, <1>5, QueuedIs, QueuedAfter
<1>7. HeldByOneSide'
  <2>1. Queued' \cup lost' = (Queued \cup lost) \ Elements(in \o out)
    BY <1>6 DEF Apart
  <2> QED
    BY <1>4, <1>5, <1>6, <2>1, HandedBack
<1>8. Apart'
  BY <1>3, <1>6 DEF Apart, Distinct
<1> QED
  BY <1>7, <1>8

LEMMA HeldCommand ==
  ASSUME TypeOK, Apart, HeldByOneSide, CommandThread
  PROVE  Apart' /\ HeldByOneSide'
<1> USE DEF clientVars, commandVars, threadVars, ctrlVars, dataVars, portVars, bufferVars,
            streamVars
<1>1. CASE ReturnBuffers
  BY <1>1, HeldReturn DEF ReturnBuffers, Ports
<1>2. ASSUME NEW i \in DOMAIN cmd, Flush(cmd[i]) PROVE Apart' /\ HeldByOneSide'
  <2> DEFINE meant == {p \in Ports : cmd[i].arg \in {p, "all"}}
  <2>1. /\ UNCHANGED <<call, lost>> /\ meant \in SUBSET Ports
        /\ pBufQueue' = [p \in Ports |-> IF p \in meant THEN <<>> ELSE pBufQueue[p]]
        /\ HandBack((IF "in" \in meant THEN pBufQueue["in"] ELSE <<>>)
                      \o (IF "out" \in meant THEN pBufQueue["out"] ELSE <<>>))
    BY <1>2 DEF Flush, Ports
  <2> QED
    BY <2>1, HeldReturn
<1>3. CASE ~ ReturnBuffers /\ ~ \E i \in DOMAIN cmd : Flush(cmd[i])
  <2>1. UNCHANGED <<pBufQueue, call, lent, lost>>
    BY <1>3
       DEF CommandThread, Unsupported, Switch, BeginTransition, BadPort, PortCommand, ToIdle,
           ToLoaded, ToExecuting, BackToIdle, WaitAllocIn, WaitAllocOut, EncoderOpen,
           EncoderOpenFails, CreateBufThread, AwaitThread, Created, EncoderClose, OrderExit,
           WakeForExit, WakeForPause, Wake, Release, JoinBufThread, WaitFreeIn, WaitFreeOut, Freed,
           OrderRun, Start, Started, OrderPause, Paused, TakeCtrl, PutCtrl, PendAlloc, CommandPends,
           Reach, Order, PostCtrl
  <2> QED
    BY <2>1, HeldKept
<1> QED
  BY <1>1, <1>2, <1>3

\* EncodeFrame takes one input buffer and n output buffers.
LEMMA Taken ==
  ASSUME TypeOK, Apart, CanEncode, NEW n \in 0 .. 2, n <= Len(pBufQueue["out"]), Takes(n)
  PROVE  /\ \A p \in Ports : Distinct(pBufQueue'[p])
         /\ Input = pBufQueue["in"][1] /\ Output = pBufQueue["out"][1]
         /\ Queued' = Queued \ ({Input} \cup {pBufQueue["out"][i] : i \in 1 .. n})
         /\ Input \in Queued /\ Input \in InBuffers
         /\ \A i \in 1 .. n : pBufQueue["out"][i] \in Queued /\ pBufQueue["out"][i] \in OutBuffers
<1> DEFINE in == pBufQueue["in"]
           out == pBufQueue["out"]
<1>1. /\ in \in Seq(InBuffers) /\ out \in Seq(OutBuffers) /\ in # <<>> /\ out # <<>>
      /\ Distinct(in) /\ Distinct(out)
  BY QueueType DEF CanEncode, Ports, Apart
<1>2. Len(in) \in Nat \ {0} /\ Len(out) \in Nat \ {0}
      /\ DOMAIN in = 1 .. Len(in) /\ DOMAIN out = 1 .. Len(out)
  BY <1>1, EmptySeq
<1>3. /\ pBufQueue'["in"] \in Seq(InBuffers) /\ Len(pBufQueue'["in"]) = Len(in) - 1
      /\ \A i \in 1 .. Len(pBufQueue'["in"]) : pBufQueue'["in"][i] = in[i + 1]
      /\ pBufQueue'["out"] \in Seq(OutBuffers) /\ Len(pBufQueue'["out"]) = Len(out) - n
      /\ \A i \in 1 .. Len(pBufQueue'["out"]) : pBufQueue'["out"][i] = out[i + n]
  <2>1. n <= Len(out) /\ n \in Nat
    OBVIOUS
  <2>2. /\ pBufQueue'["in"] \in Seq(InBuffers) /\ Len(pBufQueue'["in"]) = Len(in) - 1
        /\ \A i \in 1 .. Len(pBufQueue'["in"]) : pBufQueue'["in"][i] = in[i + 1]
        /\ pBufQueue'["out"] \in Seq(OutBuffers)
        /\ Len(pBufQueue'["out"]) = IF n < Len(out) THEN Len(out) - n ELSE 0
        /\ \A i \in 1 .. Len(pBufQueue'["out"]) : pBufQueue'["out"][i] = out[i + n]
    BY EncodeQueues
  <2> HIDE DEF in, out
  <2>3. (IF n < Len(out) THEN Len(out) - n ELSE 0) = Len(out) - n
    <3>1. \A l, m \in Nat : m <= l => (IF m < l THEN l - m ELSE 0) = l - m
      OBVIOUS
    <3> QED
      BY <1>2, <2>1, <3>1
  <2> QED
    BY <2>2, <2>3
<1>4. Input = in[1] /\ Output = out[1]
  BY <1>1 DEF Input, Output
<1> HIDE DEF in, out
<1>5. /\ Distinct(pBufQueue'["in"])
      /\ Elements(pBufQueue'["in"]) = Behind(in, 1)
  <2>1. 1 \in 0 .. Len(in)
    BY <1>2
  <2>2. PICK t \in Seq(InBuffers) : t = pBufQueue'["in"]
    BY <1>3
  <2>3. Len(t) = Len(in) - 1 /\ \A i \in 1 .. Len(t) : t[i] = in[i + 1]
    BY <1>2, <1>3, <2>2
  <2>4. Distinct(t)
    BY <1>1, <2>1, <2>3, Dropped
  <2>5. Elements(t) = Behind(in, 1)
    BY <1>1, <2>1, <2>3, Dropped
  <2> QED
    BY <2>2, <2>4, <2>5
<1>6. /\ Distinct(pBufQueue'["out"])
      /\ Elements(pBufQueue'["out"]) = Behind(out, n)
  <2>1. PICK m \in 0 .. Len(out) : m = n
    BY <1>2 DEF out
  <2>2. PICK t \in Seq(OutBuffers) : t = pBufQueue'["out"]
    BY <1>3
  <2>3. Len(t) = Len(out) - m /\ \A i \in 1 .. Len(t) : t[i] = out[i + m]
    BY <1>2, <1>3, <2>1, <2>2
  <2>4. Distinct(t)
    BY <1>1, <2>1, <2>3, Dropped
  <2>5. out \in Seq(OutBuffers) /\ Distinct(out)
    BY <1>1
  <2>6. Elements(t) = Behind(out, m)
    BY <2>3, <2>5, Dropped
  <2> QED
    BY <2>1, <2>2, <2>4, <2>6
<1>7. /\ Behind(in, 1) = Elements(in) \ {in[1]}
      /\ Behind(out, n) = Elements(out) \ {out[i] : i \in 1 .. n}
  BY DEF Behind
<1>8. /\ in[1] \in Elements(in) /\ in[1] \in InBuffers
      /\ \A i \in 1 .. n : i \in DOMAIN out /\ out[i] \in Elements(out) /\ out[i] \in OutBuffers
  <2>1. 1 \in DOMAIN in /\ \A i \in 1 .. n : i \in DOMAIN out
    BY <1>2 DEF out
  <2> QED
    BY <1>1, <2>1, ElementOfSeq DEF Elements
<1>9. Elements(in) \subseteq InBuffers /\ Elements(out) \subseteq OutBuffers
      /\ Queued = Elements(in) \cup Elements(out)
  BY QueuedIs DEF in, out
<1>10. {out[i] : i \in 1 .. n} \subseteq OutBuffers
  BY <1>8
<1>11. Queued' = Queued \ ({in[1]} \cup {out[i] : i \in 1 .. n})
  BY <1>5, <1>6, <1>7, <1>8, <1>9, <1>10, QueuedAfter, VidEncAssumption
<1>12. \A p \in Ports : Distinct(pBufQueue'[p])
  BY <1>5, <1>6 DEF Ports
<1> QED
  BY <1>4, <1>8, <1>9, <1>11, <1>12 DEF in, out

\* What follows from it for either half of the pair: handed back or lost.
LEMMA HeldTaken ==
  ASSUME TypeOK, Apart, HeldByOneSide, call' = call,
         \A p \in Ports : Distinct(pBufQueue'[p]),
         NEW q \in Seq(Buffers), Distinct(q), HandBack(q),
         NEW L \in SUBSET Queued, Elements(q) \subseteq Queued, Elements(q) \cap L = {},
         Queued' = Queued \ (Elements(q) \cup L), lost' = lost \cup L
  PROVE  Apart' /\ HeldByOneSide'
<1>1. lost \cap Queued = {}
  BY DEF Apart
<1>2. Queued' \cup lost' = (Queued \cup lost) \ Elements(q)
  BY <1>1
<1>3. HeldByOneSide'
  BY <1>2, HandedBack
<1>4. lost' \cap Queued' = {}
  BY <1>1
<1>5. Queued' \cup lost' \subseteq Queued \cup lost
  BY <1>2
<1> QED
  BY <1>3, <1>4, <1>5 DEF Apart, Distinct

LEMMA HeldEncode ==
  ASSUME TypeOK, Apart, HeldByOneSide, AheadOfHeader, EncodeEos \/ EncodeFrame \/ EncodeFails \/ EncodeUnmapped
  PROVE  Apart' /\ HeldByOneSide'
<1> DEFINE in == pBufQueue["in"]
           out == pBufQueue["out"]
<1>0. CanEncode /\ Distinct(out) /\ Len(out) \in Nat \ {0}
      /\ DOMAIN out = 1 .. Len(out)
  <2>1. CanEncode
    BY DEF EncodeEos, EncodeFrame, EncodeFails, EncodePicture, EncodeUnmapped
  <2>2. out \in Seq(OutBuffers) /\ out # <<>>
    BY <2>1, QueueType DEF CanEncode, Ports
  <2> QED
    BY <2>1, <2>2, EmptySeq DEF Apart, Ports
<1>1. \A a, b, c : /\ a # b => Distinct(<<a, b>>)
                   /\ a # b /\ b # c /\ a # c => Distinct(<<a, b, c>>)
                   /\ Distinct(<<a>>) /\ Distinct(<<>>)
                   /\ Elements(<<a, b, c>>) = {a, b, c} /\ Elements(<<a, b>>) = {a, b}
                   /\ Elements(<<a>>) = {a} /\ Elements(<<>>) = {}
  BY DEF Distinct, Elements
<1>2. \A a, b, c \in Buffers : /\ <<a, b>> \in Seq(Buffers) /\ <<a, b, c>> \in Seq(Buffers)
                               /\ <<a>> \in Seq(Buffers) /\ <<>> \in Seq(Buffers)
  OBVIOUS
<1>3. InBuffers \cap OutBuffers = {} /\ InBuffers \subseteq Buffers /\ OutBuffers \subseteq Buffers
  BY VidEncAssumption DEF Buffers
<1>4. CASE Encoding(1) /\ \/ HandBack(<<Input, Output>>) /\ lost' = lost
                          \/ HandBack(<<>>) /\ lost' = lost \cup {Input, Output}
  <2>1. /\ \A p \in Ports : Distinct(pBufQueue'[p])
        /\ Queued' = Queued \ ({Input} \cup {out[i] : i \in 1 .. 1})
        /\ Output = out[1] /\ \A i \in 1 .. 1 : out[i] \in Queued /\ out[i] \in OutBuffers
        /\ Input \in Queued /\ Input \in InBuffers
    BY <1>0, <1>4, Taken DEF Encoding
  <2>0. call' = call
    BY <1>4 DEF Encoding
  <2>2. /\ Queued' = Queued \ {Input, Output} /\ Input \in Queued /\ Output \in Queued
        /\ Input \in InBuffers /\ Output \in OutBuffers /\ Input # Output
    <3>1. {out[i] : i \in 1 .. 1} = {out[1]}
      OBVIOUS
    <3> QED
      BY <1>3, <2>1, <3>1
  <2>3. CASE HandBack(<<Input, Output>>) /\ lost' = lost
    <3>1. /\ <<Input, Output>> \in Seq(Buffers) /\ Distinct(<<Input, Output>>)
          /\ Elements(<<Input, Output>>) = {Input, Output}
      BY <1>1, <1>2, <1>3, <2>2
    <3>2. /\ {} \in SUBSET Queued /\ {Input, Output} \cap {} = {} /\ lost' = lost \cup {}
          /\ Queued' = Queued \ ({Input, Output} \cup {})
      BY <2>2, <2>3
    <3> QED
      BY ZenonT(60), <2>0, <2>1, <2>2, <2>3, <3>1, <3>2, HeldTaken
  <2>4. CASE HandBack(<<>>) /\ lost' = lost \cup {Input, Output}
    <3>1. <<>> \in Seq(Buffers) /\ Distinct(<<>>) /\ Elements(<<>>) = {}
      BY <1>1, <1>2, <1>3, <2>2
    <3>2. Queued' = Queued \ ({} \cup {Input, Output}) /\ {Input, Output} \in SUBSET Queued
      BY <2>2
    <3> QED
      BY <2>0, <2>1, <2>4, <3>1, <3>2, HeldTaken
  <2> QED
    BY <1>4, <2>3, <2>4
<1>5. CASE /\ Encoding(2) /\ Len(out) > 1
           /\ \/ HandBack(<<Output, Input, out[2]>>) /\ lost' = lost
              \/ HandBack(<<Output>>) /\ lost' = lost \cup ({Input, out[2]} \ {Output})
  <2>1. /\ \A p \in Ports : Distinct(pBufQueue'[p])
        /\ Queued' = Queued \ ({Input} \cup {out[i] : i \in 1 .. 2})
        /\ Output = out[1] /\ \A i \in 1 .. 2 : out[i] \in Queued /\ out[i] \in OutBuffers
        /\ Input \in Queued /\ Input \in InBuffers
    BY <1>0, <1>5, Taken DEF Encoding
  <2>0. call' = call
    BY <1>5 DEF Encoding
  <2>2. {out[i] : i \in 1 .. 2} = {out[1], out[2]} /\ out[1] # out[2]
    BY <1>0, <1>5 DEF Distinct
  <2>3. /\ Queued' = Queued \ {Output, Input, out[2]} /\ Input \in Queued /\ Output \in Queued
        /\ out[2] \in Queued /\ Input \in Buffers /\ Output \in Buffers /\ out[2] \in Buffers
        /\ Input # Output /\ Input # out[2] /\ Output # out[2]
    BY <1>3, <2>1, <2>2
  <2> HIDE DEF out
  <2>4. CASE HandBack(<<Output, Input, out[2]>>) /\ lost' = lost
    <3>1. /\ <<Output, Input, out[2]>> \in Seq(Buffers) /\ Distinct(<<Output, Input, out[2]>>)
          /\ Elements(<<Output, Input, out[2]>>) = {Output, Input, out[2]}
      BY ZenonT(60), <1>1, <1>2, <2>3
    <3>2. /\ {} \in SUBSET Queued /\ {Output, Input, out[2]} \cap {} = {} /\ lost' = lost \cup {}
          /\ Queued' = Queued \ ({Output, Input, out[2]} \cup {})
      BY <2>3, <2>4
    <3> QED
      BY ZenonT(60), <2>0, <2>1, <2>3, <2>4, <3>1, <3>2, HeldTaken
  <2>5. CASE HandBack(<<Output>>) /\ lost' = lost \cup ({Input, out[2]} \ {Output})
    <3>1. <<Output>> \in Seq(Buffers) /\ Distinct(<<Output>>) /\ Elements(<<Output>>) = {Output}
      BY <1>1, <1>2, <2>3
    <3>2. /\ Queued' = Queued \ ({Output} \cup {Input, out[2]})
          /\ {Input, out[2]} \in SUBSET Queued /\ lost' = lost \cup {Input, out[2]}
          /\ {Output} \cap {Input, out[2]} = {} /\ {Output} \subseteq Queued
      BY <2>3, <2>5
    <3> QED
      BY ZenonT(60), <2>0, <2>1, <2>5, <3>1, <3>2, HeldTaken
  <2> QED
    BY <1>5, <2>4, <2>5
<1>6. CASE EncodeEos
  BY <1>4, <1>6 DEF EncodeEos, EosBack
<1>7. CASE (EncodeFrame \/ EncodeFails) /\ ~ HeaderDue
  <2>1. HeaderBuffer = <<>> /\ pOutBuf = Output
    BY <1>7 DEF HeaderBuffer, pOutBuf
  <2>2. Encoding(1 + Len(<<>>))
    BY <1>7, <2>1 DEF EncodeFrame, EncodeFails, EncodePicture
  <2>3. 1 + Len(<<>>) = 1 /\ <<>> \o <<Input, Output>> = <<Input, Output>>
        /\ {<<>>[i] : i \in DOMAIN <<>>} = {}
    OBVIOUS
  <2>4. \/ HandBack(<<Input, Output>>) /\ lost' = lost
        \/ HandBack(<<>>) /\ lost' = lost \cup {Input, Output}
    <3>1. CASE EncodeFrame
      BY <3>1, <2>1, <2>3 DEF EncodeFrame
    <3>2. CASE EncodeFails
      BY <3>2, <2>1, <2>3 DEF EncodeFails
    <3> QED
      BY <1>7, <3>1, <3>2
  <2> QED
    BY <1>4, <2>2, <2>3, <2>4
<1>8. CASE (EncodeFrame \/ EncodeFails) /\ HeaderDue
  <2>1. HeaderBuffer = <<Output>> /\ Len(out) > 1 /\ pOutBuf = out[2]
    BY <1>0, <1>8 DEF HeaderBuffer, pOutBuf, AheadOfHeader
  <2>2. Encoding(1 + Len(<<Output>>))
    BY <1>8, <2>1 DEF EncodeFrame, EncodeFails, EncodePicture
  <2> HIDE DEF out
  <2>3. 1 + Len(<<Output>>) = 2 /\ <<Output>> \o <<Input, out[2]>> = <<Output, Input, out[2]>>
        /\ {<<Output>>[i] : i \in DOMAIN <<Output>>} = {Output}
    <3>1. 1 + Len(<<Output>>) = 2 /\ <<Output>> \o <<Input, out[2]>> = <<Output, Input, out[2]>>
      <4> DEFINE s == <<Output>> \o <<Input, out[2]>>
                 t == <<Output, Input, out[2]>>
      <4>1. /\ <<Output>> \in Seq({Output, Input, out[2]})
            /\ <<Input, out[2]>> \in Seq({Output, Input, out[2]})
            /\ t \in Seq({Output, Input, out[2]}) /\ Len(t) = 3
            /\ t[1] = Output /\ t[2] = Input /\ t[3] = out[2]
            /\ Len(<<Output>>) = 1 /\ Len(<<Input, out[2]>>) = 2
            /\ <<Output>>[1] = Output
            /\ <<Input, out[2]>>[1] = Input /\ <<Input, out[2]>>[2] = out[2]
        OBVIOUS
      <4>2. /\ s \in Seq({Output, Input, out[2]}) /\ Len(s) = 3
            /\ s[1] = Output /\ s[1 + 1] = Input /\ s[1 + 2] = out[2]
        BY <4>1, ConcatProperties
      <4> HIDE DEF s, t
      <4>3. s = t
        BY <4>1, <4>2, SeqEqual
      <4> QED
        BY <4>3 DEF s, t
    <3>2. {<<Output>>[i] : i \in DOMAIN <<Output>>} = {Output}
      BY <1>1 DEF Elements
    <3> QED
      BY <3>1, <3>2
  <2>4. \/ HandBack(<<Output, Input, out[2]>>) /\ lost' = lost
        \/ HandBack(<<Output>>) /\ lost' = lost \cup ({Input, out[2]} \ {Output})
    <3>1. CASE EncodeFrame
      BY <3>1, <2>1, <2>3 DEF EncodeFrame
    <3>2. CASE EncodeFails
      BY <3>2, <2>1, <2>3 DEF EncodeFails
    <3> QED
      BY <1>8, <3>1, <3>2
  <2> QED
    BY <1>5, <2>1, <2>2, <2>3, <2>4
<1>9. CASE EncodeUnmapped
  <2>1. Takes(0) /\ lost' = lost \cup {Input} /\ lent' = lent /\ call' = call
    BY <1>9 DEF EncodeUnmapped
  <2>2. 0 \in 0 .. 2 /\ 0 <= Len(out)
    BY <1>0
  <2>3. /\ \A p \in Ports : Distinct(pBufQueue'[p])
        /\ Queued' = Queued \ ({Input} \cup {out[i] : i \in 1 .. 0}) /\ Input \in Queued
    BY <1>0, <2>1, <2>2, Taken
  <2>4. {out[i] : i \in 1 .. 0} = {}
    OBVIOUS
  <2>5. Queued' = Queued \ ({} \cup {Input}) /\ {Input} \in SUBSET Queued
    BY <2>3, <2>4
  <2>6. <<>> \in Seq(Buffers) /\ Distinct(<<>>) /\ Elements(<<>>) = {} /\ HandBack(<<>>)
    <3>1. <<>> \in Seq(Buffers) /\ Distinct(<<>>) /\ Elements(<<>>) = {}
      <4>1. <<>> \in Seq(Buffers)
        BY ONLY SMT
      <4> QED
        BY <1>1, <4>1
    <3>2. ASSUME NEW b \in Buffers
          PROVE  Cardinality({i \in 1 .. Len(<<>>) : <<>>[i] = b}) = 0
      <4>1. {i \in 1 .. Len(<<>>) : <<>>[i] = b} = {}
        OBVIOUS
      <4> QED
        BY <4>1, FS_EmptySet
    <3>3. lent \in [Buffers -> Int]
      BY DEF TypeOK
    <3>4. ASSUME NEW b \in Buffers PROVE lent[b] - 0 = lent[b]
      BY <3>3
    <3> QED
      BY <2>1, <3>1, <3>2, <3>3, <3>4 DEF HandBack
  <2> QED
    BY <2>1, <2>3, <2>5, <2>6, HeldTaken
<1> QED
  BY <1>6, <1>7, <1>8, <1>9

LEMMA HeldStep ==
  ASSUME TypeOK, Apart, HeldByOneSide, AheadOfHeader, [Next]_vars
  PROVE  Apart' /\ HeldByOneSide'
<1> USE DEF vars, clientVars, commandVars, threadVars, ctrlVars, dataVars, portVars, bufferVars,
            streamVars
<1>1. CASE \/ BufBorn \/ BufOuter \/ BufPendCtrl \/ BufInner \/ BufPendChange
           \/ BufStop \/ BufRun \/ BufLock \/ NothingToEncode \/ UNCHANGED vars
  BY <1>1, HeldKept
     DEF BufBorn, BufOuter, BufPendCtrl, BufInner, BufPendChange, BufStop, BufRun, BufLock, NothingToEncode
<1> QED
  BY <1>1, HeldClient, HeldCommand, HeldEncode DEF Next, BufThread

LEMMA HeldInit == Init => Apart /\ HeldByOneSide
<1> SUFFICES ASSUME Init PROVE Apart /\ HeldByOneSide
  OBVIOUS
<1>1. Queued = {} /\ lost = {} /\ lent = [b \in Buffers |-> 0]
  BY DEF Init, Queued, Ports
<1>2. \A p \in Ports : pBufQueue[p] = <<>> /\ call[p] = <<>>
  BY DEF Init
<1> QED
  BY <1>1, <1>2 DEF Apart, HeldByOneSide, Distinct

(***************************************************************************)
(* A buffer is with one side only, whatever is flushed, stopped, encoded   *)
(* or lost, to a client that gives the encoder a second output buffer      *)
(* while the sequence header is due.  Without that hypothesis EncodeFrame  *)
(* hands the one with the header back twice (README, "Divergences").       *)
(***************************************************************************)
THEOREM HeldByOneSideAlways == Spec /\ []AheadOfHeader => []HeldByOneSide
BY HeldInit, TypeCorrect, HeldStep, PTL DEF Spec

-----------------------------------------------------------------------------
(* The promise of OMXComponent                                             *)

(***************************************************************************)
(* The client does not ask for Loaded in Loaded.  After an EncoderOpen     *)
(* that failed that would let it free its buffers, whose tokens in         *)
(* hBufAllocSem the next transition to Idle takes for buffers brought      *)
(* (README, "Divergences").                                                *)
(***************************************************************************)
NotTwiceLoaded ==
  \A i \in DOMAIN cmd : cmd[i].cmd = "StateSet" /\ cmd[i].arg = "Loaded" => eCurState # "Loaded"

\* A call of the client is about a buffer the component has been brought.
CallsRegistered ==
  \A p \in Ports : call[p] # <<>> => /\ eNewState \in {"Executing", "Pause"}
                                     /\ call[p][1].buf \in pBuffers[p]

One(P) == IF P THEN 1 ELSE 0

\* The ports with all their buffers, those without any, and the tokens a
\* transition out of Loaded or into it has taken.
Full == One(pBuffers["in"] = InBuffers) + One(pBuffers["out"] = OutBuffers)
Bare == One(pBuffers["in"] = {}) + One(pBuffers["out"] = {})
TokensTaken == One(cmdPc \in {"allocOut", "freeOut"})
               + 2 * One(cmdPc \in {"open", "create", "handshake", "created", "freed"})

\* Every token of hBufAllocSem, taken or not, stands for a port: in Loaded for
\* one that is full, elsewhere for one that is bare.
TokensCount ==
  /\ eCurState = "Loaded" => hBufAllocSem + TokensTaken <= Full
  /\ eCurState # "Loaded" => hBufAllocSem + TokensTaken <= Bare
  /\ eCurState = "Loaded" /\ eNewState = "Loaded" => \A p \in Ports : pBuffers[p] = {}

\* The threads of the component leave the client's side alone.
LEMMA ThreadsFrame ==
  ASSUME CommandThread \/ BufThread
  PROVE  /\ UNCHANGED <<call, pBuffers, eNewState>>
         /\ BufThread => UNCHANGED <<eCurState, cmdPc, hBufAllocSem>>
<1> USE DEF clientVars, commandVars, threadVars, ctrlVars, dataVars, portVars, bufferVars, streamVars
<1>1. CASE CommandThread
  <2>1. UNCHANGED <<call, pBuffers, eNewState>>
    BY <1>1
       DEF CommandThread, Unsupported, Switch, BeginTransition, Flush, BadPort, PortCommand, ToIdle,
           ToLoaded, ToExecuting, BackToIdle, WaitAllocIn, WaitAllocOut, EncoderOpen,
           EncoderOpenFails, CreateBufThread, AwaitThread, Created, EncoderClose, OrderExit,
           WakeForExit, WakeForPause, Wake, Release, JoinBufThread, WaitFreeIn, WaitFreeOut, Freed,
           OrderRun, Start, Started, OrderPause, ReturnBuffers, Paused, TakeCtrl, PutCtrl, PendAlloc,
           CommandPends, Reach, Order, PostCtrl
  <2>2. BufThread => UNCHANGED <<eCurState, cmdPc, hBufAllocSem>>
    BY DEF BufThread, BufBorn, BufOuter, BufPendCtrl, BufInner, BufPendChange, BufStop, BufRun, BufLock,
           NothingToEncode, EncodeEos, EncodeFrame, EncodeFails, EncodeUnmapped, EncodePicture,
         Encoding
  <2> QED
    BY <2>1, <2>2
<1>2. CASE BufThread
  BY <1>2
     DEF BufThread, BufBorn, BufOuter, BufPendCtrl, BufInner, BufPendChange, BufStop, BufRun, BufLock,
         NothingToEncode, EncodeEos, EncodeFrame, EncodeFails, EncodeUnmapped, EncodePicture,
         Encoding
<1> QED
  BY <1>1, <1>2

LEMMA CallsStep ==
  ASSUME TypeOK, Phases, CallsRegistered, [Next]_vars PROVE CallsRegistered'
<1> USE DEF clientVars, commandVars, threadVars, ctrlVars, dataVars, portVars, bufferVars, streamVars
<1>1. ASSUME UNCHANGED <<call, pBuffers, eNewState>> PROVE CallsRegistered'
  BY <1>1 DEF CallsRegistered
<1>2. ASSUME NEW c \in Offered, SendCommand(c) PROVE CallsRegistered'
  <2>1. CASE c.cmd = "Flush"
    BY <1>1, <1>2, <2>1 DEF SendCommand
  <2>2. CASE c.cmd # "Flush"
    BY <1>2, <2>2 DEF SendCommand, NoCalls, CallsRegistered
  <2> QED
    BY <2>1, <2>2
<1>3. ASSUME NEW p \in Ports, NEW b \in Slots(p), UseBuffer(p, b) PROVE CallsRegistered'
  BY <1>3 DEF UseBuffer, CallsRegistered, TypeOK
<1>4. ASSUME NEW p \in Ports, NEW b \in Slots(p), FreeBuffer(p, b) PROVE CallsRegistered'
  BY <1>4 DEF FreeBuffer, CallsRegistered, TypeOK
<1>5. ASSUME NEW p \in Ports, NEW b \in Slots(p), Call(p, b) PROVE CallsRegistered'
  <2>1. /\ UNCHANGED <<pBuffers, eNewState>> /\ eNewState \in {"Executing", "Pause"}
        /\ b \in pBuffers[p] /\ call' = [call EXCEPT ![p] = <<[at |-> "push", buf |-> b]>>]
    BY <1>5 DEF Call, Streaming
  <2> QED
    BY <2>1 DEF CallsRegistered, TypeOK
<1>6. ASSUME NEW p \in Ports, Push(p) PROVE CallsRegistered'
  <2>1. /\ UNCHANGED <<pBuffers, eNewState>> /\ call[p] # <<>>
        /\ call' \in {[call EXCEPT ![p] = <<[@[1] EXCEPT !.at = "post"]>>], [call EXCEPT ![p] = <<>>]}
    BY <1>6 DEF Push
  <2>2. call[p][1] \in CallType(p) /\ DOMAIN call = Ports
    BY <2>1 DEF TypeOK
  <2>3. [call[p][1] EXCEPT !.at = "post"].buf = call[p][1].buf
    BY <2>2 DEF CallType
  <2>4. ASSUME NEW q \in Ports, call'[q] # <<>>
        PROVE  call[q] # <<>> /\ call'[q][1].buf = call[q][1].buf
    <3>1. CASE q # p
      BY <2>1, <2>2, <2>4, <3>1
    <3>2. CASE q = p
      <4> DEFINE c == call[p][1]
      <4>1. c = call[p][1] /\ [c EXCEPT !.at = "post"].buf = c.buf
        BY <2>3
      <4> HIDE DEF c
      <4>2. call'[p] = <<[c EXCEPT !.at = "post"]>>
        BY <2>1, <2>2, <2>4, <3>2, <4>1
      <4>3. call'[p][1] = [c EXCEPT !.at = "post"]
        BY <4>2
      <4>4. call'[p][1].buf = call[p][1].buf
        BY <4>1, <4>3
      <4> QED
        BY <2>1, <3>2, <4>4
    <3> QED
      BY <3>1, <3>2
  <2> QED
    BY <2>1, <2>4 DEF CallsRegistered
<1>7. ASSUME NEW p \in Ports, Post(p) PROVE CallsRegistered'
  <2>1. UNCHANGED <<pBuffers, eNewState>> /\ call' = [call EXCEPT ![p] = <<>>]
    BY <1>7 DEF Post
  <2> QED
    BY <2>1 DEF CallsRegistered, TypeOK
<1>8. CASE CommandThread \/ BufThread \/ UNCHANGED vars
  BY <1>1, <1>8, ThreadsFrame DEF vars
<1> QED
  BY <1>2, <1>3, <1>4, <1>5, <1>6, <1>7, <1>8
     DEF Next, Client, EmptyThisBuffer, FillThisBuffer, AllocateBuffer, Slots, Ports

LEMMA TokenTypes ==
  ASSUME TypeOK
  PROVE  /\ hBufAllocSem \in Nat /\ TokensTaken \in 0 .. 2 /\ Full \in 0 .. 2 /\ Bare \in 0 .. 2
         /\ Bare = 2 => \A p \in Ports : pBuffers[p] = {}
BY VidEncAssumption DEF TypeOK, TokensTaken, Full, Bare, One, Ports

LEMMA TokensClient ==
  ASSUME TypeOK, Phases, NotTwiceLoaded', TokensCount, Client PROVE TokensCount'
<1> USE DEF clientVars, commandVars, threadVars, ctrlVars, dataVars, portVars, bufferVars, streamVars
<1>1. ASSUME NEW c \in Offered, SendCommand(c) PROVE TokensCount'
  <2>1. /\ UNCHANGED <<eCurState, hBufAllocSem, pBuffers>> /\ cmd' = <<c>> /\ UNCHANGED cmdPc
        /\ eNewState' = IF c.cmd = "StateSet" THEN c.arg ELSE eNewState
    BY <1>1 DEF SendCommand
  <2>2. eCurState = "Loaded" /\ eNewState' = "Loaded" => eNewState = "Loaded"
    <3> SUFFICES ASSUME c.cmd = "StateSet", c.arg = "Loaded" PROVE eCurState # "Loaded"
      BY <2>1
    <3> QED
      BY <2>1 DEF NotTwiceLoaded
  <2> QED
    BY <2>1, <2>2 DEF TokensCount, TokensTaken, Full, Bare
<1>2. ASSUME NEW p \in Ports, NEW b \in Slots(p), UseBuffer(p, b) PROVE TokensCount'
  <2>1. /\ UNCHANGED <<eCurState, eNewState, cmdPc>> /\ eCurState = "Loaded" /\ eNewState = "Idle"
        /\ pBuffers[p] # Slots(p) /\ \A q \in Ports \ {p} : pBuffers'[q] = pBuffers[q]
        /\ hBufAllocSem' <= hBufAllocSem + One(pBuffers'[p] = Slots(p))
    BY <1>2, TokenTypes DEF UseBuffer, Posted, One, TypeOK
  <2>2. Full' = Full + One(pBuffers'[p] = Slots(p))
    BY <2>1 DEF Full, One, Slots, Ports
  <2> QED
    BY <1>2, <2>1, <2>2, TokenTypes, VidEncAssumption
       DEF TokensCount, TokensTaken, UseBuffer, Posted, TypeOK, One
<1>3. ASSUME NEW p \in Ports, NEW b \in Slots(p), FreeBuffer(p, b) PROVE TokensCount'
  <2>1. /\ UNCHANGED <<eCurState, eNewState, cmdPc>> /\ eNewState = "Loaded"
        /\ pBuffers[p] # {} /\ \A q \in Ports \ {p} : pBuffers'[q] = pBuffers[q]
        /\ hBufAllocSem' <= hBufAllocSem + One(pBuffers'[p] = {})
    BY <1>3, TokenTypes DEF FreeBuffer, Posted, One, TypeOK
  <2>2. Bare' = Bare + One(pBuffers'[p] = {})
    BY <2>1 DEF Bare, One, Ports
  <2>3. eCurState # "Loaded"
    BY <2>1 DEF TokensCount
  <2>4. hBufAllocSem' \in Nat /\ TokensTaken' = TokensTaken
    BY <1>3, <2>1, TokenTypes, VidEncAssumption
       DEF FreeBuffer, Posted, TypeOK, TokensTaken
  <2>5. Bare' \in 0 .. 2 /\ One(pBuffers'[p] = {}) \in 0 .. 1
    BY DEF Bare, One
  <2> QED
    BY <2>1, <2>2, <2>3, <2>4, <2>5, TokenTypes DEF TokensCount
<1>4. ASSUME NEW p \in Ports, NEW b, Call(p, b) \/ Push(p) \/ Post(p) PROVE TokensCount'
  BY <1>4 DEF Call, Push, Post, TokensCount, TokensTaken, Full, Bare
<1> QED
  BY <1>1, <1>2, <1>3, <1>4
     DEF Client, EmptyThisBuffer, FillThisBuffer, AllocateBuffer, Slots, Ports

LEMMA TokensCommand ==
  ASSUME TypeOK, Phases, TokensCount, CommandThread PROVE TokensCount'
<1> USE DEF clientVars, commandVars, threadVars, ctrlVars, dataVars, portVars, bufferVars,
            streamVars, At, Goto
<1>0. UNCHANGED <<pBuffers, eNewState>> /\ Full' = Full /\ Bare' = Bare
  BY ThreadsFrame DEF Full, Bare
<1>1. ASSUME (eCurState' = "Loaded") <=> (eCurState = "Loaded"), hBufAllocSem' \in Nat,
             hBufAllocSem' + TokensTaken' <= hBufAllocSem + TokensTaken, TokensTaken' \in 0 .. 2
      PROVE  TokensCount'
  BY <1>0, <1>1, TokenTypes DEF TokensCount
<1>2. ASSUME NEW i \in DOMAIN cmd,
             \/ Unsupported(cmd[i]) \/ Switch(cmd[i]) \/ BeginTransition(cmd[i])
             \/ Flush(cmd[i]) \/ BadPort(cmd[i]) \/ PortCommand(cmd[i])
      PROVE  TokensCount'
  <2>1. /\ cmdPc = "idle" /\ cmdPc' \in {"idle", "allocIn", "close", "run", "pause", "take"}
        /\ hBufAllocSem' = hBufAllocSem
    BY <1>2 DEF Unsupported, Switch, BeginTransition, Flush, BadPort, PortCommand, Pop, FirstPlace,
                StopBegins
  <2>2. TokensTaken = 0 /\ TokensTaken' = 0
    BY <2>1 DEF TokensTaken, One
  <2>3. (eCurState' = "Loaded") <=> (eCurState = "Loaded")
    BY <1>2 DEF Unsupported, Switch, BeginTransition, Flush, BadPort, PortCommand, Supported
  <2> QED
    BY <1>1, <2>1, <2>2, <2>3, TokenTypes
<1>3. ASSUME UNCHANGED <<eCurState, hBufAllocSem>>, TokensTaken' <= TokensTaken, TokensTaken' \in 0 .. 2
      PROVE  TokensCount'
  BY <1>1, <1>3, TokenTypes
<1>4. CASE WaitAllocIn \/ WaitAllocOut \/ WaitFreeIn \/ WaitFreeOut
  <2>1. /\ eCurState' = eCurState /\ hBufAllocSem > 0 /\ hBufAllocSem' = hBufAllocSem - 1
        /\ TokensTaken' = TokensTaken + 1 /\ TokensTaken' \in 0 .. 2
    BY <1>4 DEF WaitAllocIn, WaitAllocOut, WaitFreeIn, WaitFreeOut, PendAlloc, TokensTaken, One
  <2> QED
    BY <1>1, <2>1, TokenTypes
<1>5. CASE EncoderOpen \/ EncoderOpenFails \/ CreateBufThread \/ AwaitThread
  BY <1>3, <1>5
     DEF EncoderOpen, EncoderOpenFails, CreateBufThread, AwaitThread, CommandPends, TokensTaken, One
<1>6. CASE Created
  <2>1. eCurState' = "Idle" /\ hBufAllocSem' = hBufAllocSem /\ TokensTaken = 2 /\ TokensTaken' = 0
        /\ eCurState = "Loaded"
    BY <1>6 DEF Created, Reach, TokensTaken, One, Phases, Transitions, Starting
  <2> QED
    BY <1>0, <2>1, TokenTypes DEF TokensCount
<1>7. CASE \/ EncoderClose \/ OrderExit \/ WakeForExit \/ Release \/ JoinBufThread \/ OrderRun
           \/ Start \/ OrderPause \/ WakeForPause \/ ReturnBuffers \/ TakeCtrl \/ PutCtrl
  BY <1>3, <1>7
     DEF EncoderClose, OrderExit, WakeForExit, Release, JoinBufThread, OrderRun, Start, OrderPause,
         WakeForPause, ReturnBuffers, TakeCtrl, PutCtrl, Order, Wake, PostCtrl, CommandPends,
         TokensTaken, One
<1>8. CASE Freed
  <2>1. eCurState' = "Loaded" /\ hBufAllocSem' = hBufAllocSem /\ TokensTaken = 2 /\ TokensTaken' = 0
        /\ eCurState = "Idle"
    BY <1>8 DEF Freed, Reach, TokensTaken, One, Phases, Transitions, Ending
  <2> QED
    BY <1>0, <2>1, TokenTypes DEF TokensCount
<1>9. CASE Started \/ Paused
  <2>1. eCurState' # "Loaded" /\ eCurState # "Loaded" /\ hBufAllocSem' = hBufAllocSem
        /\ TokensTaken = 0 /\ TokensTaken' = 0
    BY <1>9 DEF Started, Paused, Reach, TokensTaken, One, Phases, Transitions, Going, Stopping
  <2> QED
    BY <1>0, <2>1, TokenTypes DEF TokensCount
<1> QED
  BY <1>2, <1>4, <1>5, <1>6, <1>7, <1>8, <1>9
     DEF CommandThread, ToIdle, ToLoaded, ToExecuting, BackToIdle

LEMMA TokensStep ==
  ASSUME TypeOK, Phases, NotTwiceLoaded', TokensCount, [Next]_vars PROVE TokensCount'
<1>1. CASE BufThread \/ UNCHANGED vars
  BY <1>1, ThreadsFrame
     DEF vars, clientVars, commandVars, dataVars, portVars, TokensCount, TokensTaken, Full, Bare
<1> QED
  BY <1>1, TokensClient, TokensCommand DEF Next

\* The threads of the component only take buffers out of the queues.
LEMMA QueuedShrinks ==
  ASSUME TypeOK, CommandThread \/ BufThread PROVE Queued' \subseteq Queued
<1> USE DEF clientVars, commandVars, threadVars, ctrlVars, dataVars, portVars, bufferVars, streamVars
<1>1. ASSUME \A p \in Ports : pBufQueue'[p] \in {pBufQueue[p], <<>>} PROVE Queued' \subseteq Queued
  <2>1. /\ pBufQueue'["in"] \in {pBufQueue["in"], <<>>}
        /\ pBufQueue'["out"] \in {pBufQueue["out"], <<>>}
    BY <1>1 DEF Ports
  <2>2. Elements(<<>>) = {}
    BY DEF Elements
  <2> QED
    BY <2>1, <2>2, QueuedIs, QueuedAfter
<1>2. ASSUME NEW n \in 0 .. 2, CanEncode, Takes(n) PROVE Queued' \subseteq Queued
  <2>1. ASSUME NEW i \in DOMAIN pBufQueue'["in"]
        PROVE  pBufQueue'["in"][i] \in Elements(pBufQueue["in"])
    <3>1. i \in 1 .. Len(pBufQueue'["in"]) /\ pBufQueue'["in"][i] = pBufQueue["in"][i + 1]
      BY <1>2, EncodeQueues
    <3>2. i + 1 \in DOMAIN pBufQueue["in"]
      BY <1>2, <3>1, EncodeQueues, QueueType
    <3> QED
      BY <3>1, <3>2 DEF Elements
  <2>2. ASSUME NEW i \in DOMAIN pBufQueue'["out"]
        PROVE  pBufQueue'["out"][i] \in Elements(pBufQueue["out"])
    <3>1. i \in 1 .. Len(pBufQueue'["out"]) /\ pBufQueue'["out"][i] = pBufQueue["out"][i + n]
      BY SMTT(30), <1>2, EncodeQueues
    <3>2. i + n \in DOMAIN pBufQueue["out"]
      BY <1>2, <3>1, EncodeQueues, QueueType
    <3> QED
      BY <3>1, <3>2 DEF Elements
  <2> QED
    BY <2>1, <2>2, QueuedIs, QueuedAfter DEF Elements
<1>3. CASE EncodeEos \/ EncodeUnmapped
  BY <1>2, <1>3 DEF EncodeEos, EncodeUnmapped, Encoding
<1>4. CASE EncodeFrame \/ EncodeFails
  BY <1>2, <1>4, EncodeBuffers DEF EncodeFrame, EncodeFails, EncodePicture, Encoding
<1>5. ASSUME UNCHANGED pBufQueue PROVE Queued' \subseteq Queued
  BY <1>1, <1>5
<1>6. CASE BufThread /\ ~ (EncodeEos \/ EncodeFrame \/ EncodeFails \/ EncodeUnmapped)
  BY <1>5, <1>6
     DEF BufThread, BufBorn, BufOuter, BufPendCtrl, BufInner, BufPendChange, BufStop, BufRun, BufLock,
         NothingToEncode
<1>7. CASE CommandThread
  BY <1>1, <1>5, <1>7
     DEF CommandThread, Unsupported, Switch, BeginTransition, Flush, BadPort, PortCommand, ToIdle,
         ToLoaded, ToExecuting, BackToIdle, WaitAllocIn, WaitAllocOut, EncoderOpen,
         EncoderOpenFails, CreateBufThread, AwaitThread, Created, EncoderClose, OrderExit,
         WakeForExit, WakeForPause, Wake, Release, JoinBufThread, WaitFreeIn, WaitFreeOut, Freed,
         OrderRun, Start, Started, OrderPause, ReturnBuffers, Paused, TakeCtrl, PutCtrl, PendAlloc,
         CommandPends, Reach, Order, PostCtrl
<1> QED
  BY <1>3, <1>4, <1>6, <1>7

\* Who holds a buffer, as the client sees it.
LentSeen == [b \in Buffers |-> IF b \in lost THEN 0 ELSE lent[b]]
Registered == pBuffers["in"] \cup pBuffers["out"]

LEMMA LentIs ==
  ASSUME TypeOK, Apart, HeldByOneSide
  PROVE  LentSeen = [b \in Buffers |-> IF b \in Queued THEN 1 ELSE 0] /\ Queued \subseteq Buffers
<1>1. Queued \subseteq Buffers
  BY QueuedIs DEF Buffers
<1> QED
  BY <1>1 DEF LentSeen, Apart, HeldByOneSide

LEMMA LentIsAfter ==
  ASSUME Apart', HeldByOneSide'
  PROVE  LentSeen' = [b \in Buffers |-> IF b \in Queued' THEN 1 ELSE 0]
BY DEF LentSeen, Apart, HeldByOneSide

\* Buffers come back.
LEMMA ReturnsAreDone ==
  ASSUME TypeOK, Apart, HeldByOneSide, Apart', HeldByOneSide', Queued' \subseteq Queued,
         UNCHANGED <<eCurState, pBuffers>>
  PROVE  Component!Next
<1>1. Component!Held = Queued /\ Component!Buffers = Buffers
  BY LentIs DEF Component!Held, Component!Buffers, Buffers, LentSeen
<1>2. PICK S : S = Queued \ Queued'
  OBVIOUS
<1>3. LentSeen' = [b \in Buffers |-> IF b \in S THEN 0 ELSE LentSeen[b]]
  BY <1>2, LentIs, LentIsAfter
<1>4. Component!Return(S) /\ S \in SUBSET Component!Held
  BY <1>1, <1>2, <1>3 DEF Component!Return, LentSeen
<1>5. Component!Done(S)
  BY <1>4 DEF Component!Done
<1> QED
  BY <1>4, <1>5 DEF Component!Next

\* A buffer is brought, freed, or handed over.
LEMMA BufferSteps ==
  ASSUME NEW b \in Component!Buffers,
         Component!Register(b) \/ Component!Unregister(b) \/ Component!Give(b)
  PROVE  Component!Next
BY DEF Component!Next

LEMMA ChangeSteps ==
  ASSUME NEW from \in Component!States, NEW to \in Component!States, Component!Change(from, to)
  PROVE  Component!Next
BY DEF Component!Next

\* The names of OMXComponent.
LEMMA ComponentNames ==
  ASSUME TypeOK, Apart, HeldByOneSide
  PROVE  Component!Buffers = Buffers /\ Component!Held = Queued
BY LentIs DEF Component!Held, Component!Buffers, Buffers, LentSeen

LEMMA ClientKeeps ==
  ASSUME TypeOK, Phases, Apart, HeldByOneSide, CallsRegistered, Apart', HeldByOneSide', Client
  PROVE  Component!Next \/ UNCHANGED Component!vars
<1> USE DEF clientVars, commandVars, threadVars, ctrlVars, dataVars, portVars, bufferVars, streamVars
<1>0. Component!Buffers = Buffers /\ Component!Held = Queued
  BY ComponentNames
<1>1. ASSUME UNCHANGED <<eCurState, pBuffers, lost, lent>> PROVE UNCHANGED Component!vars
  BY <1>1 DEF Component!vars
<1>2. ASSUME NEW c \in Offered, SendCommand(c) PROVE UNCHANGED Component!vars
  BY <1>1, <1>2 DEF SendCommand
<1>3. ASSUME NEW p \in Ports, NEW b \in Slots(p), UseBuffer(p, b) PROVE Component!Next
  <2>1. b \in Buffers /\ b \notin pBuffers[p] /\ \A q \in Ports \ {p} : b \notin Slots(q)
    BY <1>3, VidEncAssumption DEF UseBuffer, Buffers, Slots, Ports
  <2>2. b \notin Registered
    BY <2>1 DEF TypeOK, Registered, Ports
  <2>3. Registered' = Registered \cup {b}
    BY <1>3 DEF UseBuffer, TypeOK, Registered, Ports
  <2>4. Component!Register(b)
    BY <1>3, <2>2, <2>3 DEF UseBuffer, Component!Register, Registered
  <2> QED
    BY <1>0, <2>1, <2>4, BufferSteps
<1>4. ASSUME NEW p \in Ports, NEW b \in Slots(p), FreeBuffer(p, b) PROVE Component!Next
  <2>1. b \in Buffers /\ b \in pBuffers[p] /\ \A q \in Ports \ {p} : b \notin Slots(q)
    BY <1>4, VidEncAssumption DEF FreeBuffer, Buffers, Slots, Ports
  <2>2. b \in Registered \ Queued
    <3>1. lent[b] # 1
      BY <1>4 DEF FreeBuffer
    <3> QED
      BY <2>1, <3>1 DEF HeldByOneSide, Registered, Ports
  <2>3. Registered' = Registered \ {b}
    BY <1>4, <2>1 DEF FreeBuffer, TypeOK, Registered, Ports
  <2>4. Component!Unregister(b)
    BY <1>0, <1>4, <2>2, <2>3 DEF FreeBuffer, Component!Unregister, Registered
  <2> QED
    BY <1>0, <2>1, <2>4, BufferSteps
<1>5. ASSUME NEW p \in Ports, NEW b, Call(p, b) \/ Post(p) PROVE UNCHANGED Component!vars
  BY <1>1, <1>5 DEF Call, Post
<1>6. ASSUME NEW p \in Ports, Push(p) PROVE Component!Next \/ UNCHANGED Component!vars
  <2>1. CASE ~ Len(pBufQueue[p]) < QueueMax
    BY <1>1, <1>6, <2>1 DEF Push
  <2>2. CASE Len(pBufQueue[p]) < QueueMax
    <3>1. PICK b : b = call[p][1].buf
      OBVIOUS
    <3>2. call[p] # <<>> /\ call[p][1].at = "push" /\ UNCHANGED <<eCurState, pBuffers, lost>>
          /\ lent' = [lent EXCEPT ![b] = @ + 1]
      BY <1>6, <2>2, <3>1 DEF Push
    <3>3. b \in Registered /\ b \notin Queued \cup lost /\ eCurState # "Loaded"
      BY <3>1, <3>2 DEF CallsRegistered, Apart, Registered, Ports, Phases, Rests, Empty, NoCalls
    <3>4. b \in Buffers
      BY <3>3 DEF TypeOK, Registered, Ports, Buffers, Slots
    <3>5. LentSeen' = [LentSeen EXCEPT ![b] = 1]
      <4>1. lent[b] = 0 /\ lent \in [Buffers -> Int]
        BY <3>3, <3>4 DEF HeldByOneSide, TypeOK
      <4>2. lent' = [lent EXCEPT ![b] = 1] /\ lost' = lost /\ b \notin lost
        BY <3>2, <3>3, <4>1
      <4> QED
        BY <3>4, <4>1, <4>2 DEF LentSeen
    <3>6. Component!Give(b)
      BY <1>0, <3>2, <3>3, <3>5 DEF Component!Give, Registered, LentSeen
    <3> QED
      BY <1>0, <3>4, <3>6, BufferSteps
  <2> QED
    BY <2>1, <2>2
<1> QED
  BY <1>2, <1>3, <1>4, <1>5, <1>6
     DEF Client, EmptyThisBuffer, FillThisBuffer, AllocateBuffer, Slots, Ports

\* The threads of the component, where the state does not change.
LEMMA ThreadsKeep ==
  ASSUME TypeOK, Apart, HeldByOneSide, Apart', HeldByOneSide', CommandThread \/ BufThread,
         UNCHANGED eCurState
  PROVE  Component!Next
BY ThreadsFrame, QueuedShrinks, ReturnsAreDone

\* And where it does.
LEMMA StateChanges ==
  ASSUME TypeOK, Apart, HeldByOneSide, NEW from \in Component!States, NEW to \in Component!States,
         UNCHANGED <<pBuffers, lent, lost>>, eCurState = from, eCurState' = to, <<from, to>> \in Supported,
         from = "Loaded" => Full = 2,
         to = "Loaded" => Bare = 2,
         to = "Idle" => Queued = {}
  PROVE  Component!Next
<1>1. Component!Held = Queued
  BY ComponentNames
<1>2. from = "Loaded" => \A p \in Component!Ports : Component!Of(p) \subseteq Registered
  BY DEF Full, One, Registered, Component!Ports, Component!Of
<1>3. to = "Loaded" => \A p \in Component!Ports : Component!Of(p) \cap Registered = {}
  BY DEF Bare, One, Registered, Component!Ports, Component!Of
<1>4. Component!Change(from, to)
  BY <1>1, <1>2, <1>3 DEF Component!Change, Supported, Registered
<1> QED
  BY <1>4, ChangeSteps

LEMMA CommandKeeps ==
  ASSUME TypeOK, Phases, Apart, HeldByOneSide, TokensCount, Careful, Apart', HeldByOneSide',
         CommandThread
  PROVE  Component!Next
<1> USE DEF clientVars, commandVars, threadVars, ctrlVars, dataVars, portVars, bufferVars,
            streamVars, Component!States
<1>1. CASE UNCHANGED eCurState
  BY <1>1, ThreadsKeep
<1>2. ASSUME Empty PROVE Queued = {}
  BY <1>2 DEF Empty, Queued
<1>3. ASSUME NEW i \in DOMAIN cmd, Switch(cmd[i]) PROVE Component!Next
  <2>1. /\ <<eCurState, cmd[i].arg>> \in Supported /\ "Pause" \in {eCurState, cmd[i].arg}
        /\ eCurState' = cmd[i].arg /\ UNCHANGED <<pBuffers, lent, lost>> /\ cmd[i].cmd = "StateSet"
    BY <1>3 DEF Switch
  <2>2. eCurState = "Pause" => cmd[i].arg # "Idle"
    BY <2>1 DEF Careful
  <2>3. /\ eCurState \in Component!States /\ cmd[i].arg \in Component!States
        /\ eCurState # "Loaded" /\ cmd[i].arg \notin {"Loaded", "Idle"}
    BY <2>1, <2>2 DEF Supported
  <2> QED
    BY <2>1, <2>3, StateChanges
<1>4. CASE Created
  <2>1. /\ eCurState = "Loaded" /\ eCurState' = "Idle" /\ UNCHANGED <<pBuffers, lent, lost>>
        /\ TokensTaken = 2 /\ Empty
    BY <1>4 DEF Created, Reach, At, Phases, Transitions, Rests, Starting, TokensTaken, One
  <2>2. Full = 2
    BY <2>1, TokenTypes DEF TokensCount
  <2> QED
    BY <1>2, <2>1, <2>2, StateChanges DEF Supported
<1>5. CASE Freed
  <2>1. /\ eCurState = "Idle" /\ eCurState' = "Loaded" /\ UNCHANGED <<pBuffers, lent, lost>>
        /\ TokensTaken = 2
    BY <1>5 DEF Freed, Reach, At, Phases, Transitions, Ending, TokensTaken, One
  <2>2. Bare = 2
    BY <2>1, TokenTypes DEF TokensCount
  <2> QED
    BY <2>1, <2>2, StateChanges DEF Supported
<1>6. CASE Started
  <2>1. /\ eCurState = "Idle" /\ eCurState' = "Executing" /\ UNCHANGED <<pBuffers, lent, lost>>
    BY <1>6 DEF Started, Reach, At, Phases, Transitions, Going
  <2> QED
    BY <2>1, StateChanges DEF Supported
<1>7. CASE Paused
  <2>1. /\ eCurState = "Executing" /\ eCurState' = "Idle" /\ UNCHANGED <<pBuffers, lent, lost>>
        /\ Empty
    BY <1>7 DEF Paused, Reach, At, Phases, Transitions, Rests, Stopping
  <2> QED
    BY <1>2, <2>1, StateChanges DEF Supported
<1>8. \/ UNCHANGED eCurState \/ \E i \in DOMAIN cmd : Switch(cmd[i])
      \/ Created \/ Freed \/ Started \/ Paused
  BY DEF CommandThread, Unsupported, BeginTransition, Flush, BadPort, PortCommand, ToIdle,
         ToLoaded, ToExecuting, BackToIdle, WaitAllocIn, WaitAllocOut, EncoderOpen,
         EncoderOpenFails, CreateBufThread, AwaitThread, EncoderClose, OrderExit, WakeForExit,
         WakeForPause, Wake, Release, JoinBufThread, WaitFreeIn, WaitFreeOut, OrderRun, Start,
         OrderPause, ReturnBuffers, TakeCtrl, PutCtrl, PendAlloc, CommandPends, Order, PostCtrl
<1> QED
  BY <1>1, <1>3, <1>4, <1>5, <1>6, <1>7, <1>8

LEMMA PromiseStep ==
  ASSUME TypeOK, Phases, Apart, HeldByOneSide, CallsRegistered, TokensCount, Careful,
         Apart', HeldByOneSide', [Next]_vars
  PROVE  [Component!Next]_(Component!vars)
<1>1. CASE UNCHANGED vars
  BY <1>1 DEF vars, commandVars, dataVars, portVars, bufferVars, Component!vars
<1>2. CASE BufThread
  BY <1>2, ThreadsFrame, ThreadsKeep
<1> QED
  BY <1>1, <1>2, ClientKeeps, CommandKeeps DEF Next

(***************************************************************************)
(* The encoder is an OMXComponent, but for the buffers it loses: out of    *)
(* Loaded with all its buffers and back without any, Idle without a buffer *)
(* of the client, and none handed back that it does not have.  So to a     *)
(* client that keeps to three rules, each of them needed (README,          *)
(* "Divergences"): Careful, AheadOfHeader and NotTwiceLoaded.              *)
(***************************************************************************)
THEOREM KeepsItsPromiseAlways ==
  Spec /\ []Careful /\ []AheadOfHeader /\ []NotTwiceLoaded => KeepsItsPromise
<1>1. Init => Apart /\ HeldByOneSide /\ CallsRegistered /\ TokensCount /\ Component!Init
  <2> SUFFICES ASSUME Init
               PROVE  Apart /\ HeldByOneSide /\ CallsRegistered /\ TokensCount /\ Component!Init
    OBVIOUS
  <2>1. Queued = {} /\ lost = {} /\ lent = [b \in Buffers |-> 0]
    BY DEF Init, Queued, Ports
  <2>2. \A p \in Ports : pBufQueue[p] = <<>> /\ call[p] = <<>> /\ pBuffers[p] = {}
    BY DEF Init
  <2>3. Apart /\ HeldByOneSide /\ CallsRegistered
    BY <2>1, <2>2 DEF Apart, HeldByOneSide, Distinct, CallsRegistered
  <2>4. TokensCount
    <3>1. hBufAllocSem = 0 /\ TokensTaken = 0 /\ Full \in Nat /\ eCurState = "Loaded"
      BY DEF Init, TokensTaken, Full, One
    <3> QED
      BY <2>2, <3>1 DEF TokensCount
  <2>5. Component!Init
    BY <2>1, <2>2 DEF Init, Component!Init, Component!Ports, Component!Buffers, Buffers, Ports
  <2> QED
    BY <2>3, <2>4, <2>5
<1> QED
  BY <1>1, TypeCorrect, PhasesHold, HeldStep, CallsStep, TokensStep, PromiseStep, PTL
     DEF Spec, KeepsItsPromise, Component!Spec
-----------------------------------------------------------------------------
(* Scripts                                                                 *)

\* A command for an encoder that is in the state s; Loaded is not asked for in
\* the states of barred.
MayAsk(s, c, barred) ==
  /\ NotInLoaded(c) => s # "Loaded"
  /\ c.cmd = "StateSet" /\ c.arg = "Idle" => s # "Pause"
  /\ c.cmd = "StateSet" /\ c.arg = "Loaded" => s \notin barred

\* The states the command may leave the encoder in: EncoderOpen may fail.
Outcomes(s, c, fails) ==
  IF c.cmd = "StateSet" /\ <<s, c.arg>> \in Supported
  THEN {c.arg} \cup (IF fails THEN {s} \cap {"Loaded"} ELSE {})
  ELSE {s}

\* Whatever is chosen from its sets, each command of the script may be asked for:
\* P[n] has the states the encoder may be in when the n-th command is sent.
Leads(P, script, fails, barred) ==
  \A n \in DOMAIN script : \A s \in P[n] : \A c \in script[n] :
    MayAsk(s, c, barred) /\ Outcomes(s, c, fails) \subseteq P[n + 1]
Orderly(s, script, fails, barred) ==
  \E P \in [1 .. Len(script) + 1 -> SUBSET States] :
    s \in P[1] /\ Leads(P, script, fails, barred)

\* All scripts avoid what Careful forbids, and what NotTwiceLoaded forbids.
AllCareful == \A s \in Scenarios : Orderly("Loaded", s.script, s.openFails, {})
AllCarefulOnce == \A s \in Scenarios : Orderly("Loaded", s.script, s.openFails, {"Loaded"})

\* With more ways to ask a script stays orderly.
LEMMA OnceIsCareful == AllCarefulOnce => AllCareful
<1> SUFFICES ASSUME NEW s \in Scenarios, Orderly("Loaded", s.script, s.openFails, {"Loaded"})
             PROVE  Orderly("Loaded", s.script, s.openFails, {})
  BY DEF AllCarefulOnce, AllCareful
<1>1. PICK P \in [1 .. Len(s.script) + 1 -> SUBSET States] :
        "Loaded" \in P[1] /\ Leads(P, s.script, s.openFails, {"Loaded"})
  BY DEF Orderly
<1>2. Leads(P, s.script, s.openFails, {})
  BY <1>1 DEF Leads, MayAsk
<1> QED
  BY <1>1, <1>2 DEF Orderly

\* What remains of a script is orderly wherever its first command leads.
LEMMA OrderlySend ==
  ASSUME TypeOK, NEW c \in Offered, SendCommand(c), NEW barred, NEW s,
         Orderly(s, scenario.script, scenario.openFails, barred)
  PROVE  /\ MayAsk(s, c, barred) /\ scenario'.openFails = scenario.openFails
         /\ \A r \in Outcomes(s, c, scenario.openFails) :
              Orderly(r, scenario'.script, scenario'.openFails, barred)
<1> DEFINE t == scenario.script
           u == Tail(t)
           N == Len(t)
           fails == scenario.openFails
<1>1. /\ t \in Seq(SUBSET Commands) /\ 1 \in DOMAIN t /\ c \in t[1]
      /\ scenario' = [scenario EXCEPT !.script = u]
  BY DEF TypeOK, ScenarioType, SendCommand, Offered
<1>2. /\ N \in Nat \ {0} /\ DOMAIN t = 1 .. N /\ DOMAIN u = 1 .. N - 1
      /\ Len(u) = N - 1 /\ \A n \in 1 .. N - 1 : u[n] = t[n + 1]
  BY <1>1, HeadTailProperties, EmptySeq
<1>3. scenario'.script = u /\ scenario'.openFails = fails
  BY <1>1 DEF TypeOK, ScenarioType
<1>4. PICK P \in [1 .. N + 1 -> SUBSET States] : s \in P[1] /\ Leads(P, t, fails, barred)
  BY DEF Orderly
<1> HIDE DEF N, t, u, fails
<1>5. MayAsk(s, c, barred) /\ Outcomes(s, c, fails) \subseteq P[1 + 1]
  BY <1>1, <1>4 DEF Leads
<1> DEFINE Q == [n \in 1 .. N |-> P[n + 1]]
<1>6. Q \in [1 .. N -> SUBSET States] /\ Q[1] = P[2]
  BY <1>2, <1>4
<1>7. ASSUME NEW n \in DOMAIN u, NEW q \in Q[n], NEW d \in u[n]
      PROVE  MayAsk(q, d, barred) /\ Outcomes(q, d, fails) \subseteq Q[n + 1]
  <2>1. /\ n \in 1 .. N - 1 /\ n + 1 \in DOMAIN t /\ n \in 1 .. N /\ n + 1 \in 1 .. N
        /\ u[n] = t[n + 1]
    BY <1>2
  <2>2. Q[n] = P[n + 1] /\ Q[n + 1] = P[(n + 1) + 1]
    BY <2>1
  <2>3. q \in P[n + 1] /\ d \in t[n + 1]
    BY <2>1, <2>2
  <2> HIDE DEF Q
  <2>4. MayAsk(q, d, barred) /\ Outcomes(q, d, fails) \subseteq P[(n + 1) + 1]
    BY <1>4, <2>1, <2>3 DEF Leads
  <2> QED
    BY <2>2, <2>4
<1>8. Leads(Q, u, fails, barred)
  BY <1>7 DEF Leads
<1>9. Len(u) + 1 = N
  BY <1>2
<1> HIDE DEF Q
<1>10. ASSUME NEW r \in Outcomes(s, c, fails) PROVE Orderly(r, u, fails, barred)
  BY <1>5, <1>6, <1>8, <1>9, <1>10 DEF Orderly
<1> QED
  BY <1>3, <1>5, <1>10 DEF fails

\* The states in which the encoder may come to rest: those the command that
\* waits may leave it in, or the transition under way.
Due ==
  IF cmd # <<>> THEN Outcomes(eCurState, cmd[1], scenario.openFails)
  ELSE CASE cmdPc \in Starting -> {"Idle"} \cup (IF scenario.openFails THEN {"Loaded"} ELSE {})
         [] cmdPc \in Ending -> {"Loaded"}
         [] cmdPc \in Going -> {"Executing"}
         [] cmdPc \in Stopping -> {"Idle"}
         [] OTHER -> {eCurState}

\* The rest of the script is orderly wherever the encoder comes to rest, and the
\* command that waits is one of its kind.
Following(barred) ==
  /\ \A s \in Due : Orderly(s, scenario.script, scenario.openFails, barred)
  /\ \A i \in DOMAIN cmd : MayAsk(eCurState, cmd[i], barred)

LEMMA FollowingInit ==
  ASSUME Init, NEW barred, \A s \in Scenarios : Orderly("Loaded", s.script, s.openFails, barred)
  PROVE  Following(barred)
<1>1. cmd = <<>> /\ cmdPc = "idle" /\ eCurState = "Loaded" /\ scenario \in Scenarios
  BY DEF Init
<1>2. Due = {"Loaded"} /\ DOMAIN cmd = {}
  BY <1>1 DEF Due, Starting, Ending, Going, Stopping
<1> QED
  BY <1>1, <1>2 DEF Following

LEMMA FollowingSend ==
  ASSUME TypeOK, NEW barred, Following(barred), NEW c \in Offered, SendCommand(c)
  PROVE  Following(barred)'
<1>1. cmd = <<>> /\ cmdPc = "idle" /\ cmd' = <<c>> /\ UNCHANGED <<cmdPc, eCurState>>
  BY DEF SendCommand, Quiet, commandVars
<1>2. Due = {eCurState}
  BY <1>1 DEF Due, Starting, Ending, Going, Stopping
<1>3. Orderly(eCurState, scenario.script, scenario.openFails, barred)
  BY <1>2 DEF Following
<1>4. /\ MayAsk(eCurState, c, barred) /\ scenario'.openFails = scenario.openFails
      /\ \A r \in Outcomes(eCurState, c, scenario.openFails) :
           Orderly(r, scenario'.script, scenario'.openFails, barred)
  BY <1>3, OrderlySend
<1>5. cmd' # <<>> /\ cmd'[1] = c /\ DOMAIN cmd' = {1}
  BY <1>1
<1>6. Due' = Outcomes(eCurState, c, scenario.openFails)
  BY <1>1, <1>4, <1>5 DEF Due
<1> QED
  BY <1>1, <1>4, <1>5, <1>6 DEF Following

\* No other step adds to what the encoder may come to.
LEMMA DueShrinks ==
  ASSUME TypeOK, Phases, [Next]_vars, \A c \in Offered : ~ SendCommand(c)
  PROVE  /\ scenario' = scenario /\ Due' \subseteq Due
         /\ cmd' = <<>> \/ UNCHANGED <<cmd, eCurState>>
<1> USE DEF clientVars, commandVars, At, Goto
<1>1. ASSUME UNCHANGED <<scenario, cmd, cmdPc, eCurState>>
      PROVE  /\ scenario' = scenario /\ Due' \subseteq Due
             /\ cmd' = <<>> \/ UNCHANGED <<cmd, eCurState>>
  BY <1>1 DEF Due
<1>2. CASE Client
  BY <1>1, <1>2
     DEF Client, UseBuffer, AllocateBuffer, FreeBuffer, EmptyThisBuffer, FillThisBuffer, Call,
         Push, Post
<1>3. CASE BufThread \/ UNCHANGED vars
  BY <1>1, <1>3
     DEF BufThread, BufBorn, BufOuter, BufPendCtrl, BufInner, BufPendChange, BufStop, BufRun, BufLock,
         NothingToEncode, EncodeEos, EncodeFrame, EncodeFails, EncodeUnmapped, EncodePicture,
         Encoding, vars
<1>4. ASSUME NEW i \in DOMAIN cmd,
             Unsupported(cmd[i]) \/ Switch(cmd[i]) \/ BeginTransition(cmd[i]) \/ BadPort(cmd[i])
               \/ PortCommand(cmd[i]) \/ Flush(cmd[i])
      PROVE  scenario' = scenario /\ Due' \subseteq Due /\ cmd' = <<>>
  <2> DEFINE c == cmd[i]
  <2>1. cmdPc = "idle" /\ cmd = <<c>> /\ cmd' = <<>> /\ scenario' = scenario
    BY <1>4 DEF Unsupported, Switch, BeginTransition, BadPort, PortCommand, Flush, Pop
  <2>2. cmd # <<>> /\ cmd[1] = c
    BY <2>1
  <2> HIDE DEF c
  <2>3. Due = Outcomes(eCurState, c, scenario.openFails)
    BY <2>2 DEF Due
  <2>4. CASE Unsupported(c) \/ Flush(c) \/ BadPort(c)
    <3>1. UNCHANGED <<cmdPc, eCurState>>
      BY <2>4 DEF Unsupported, Flush, BadPort
    <3>2. Due' = {eCurState}
      BY <2>1, <3>1 DEF Due, Starting, Ending, Going, Stopping
    <3>3. eCurState \in Due
      BY <2>3, <2>4 DEF Outcomes, Unsupported, Flush, BadPort
    <3> QED
      BY <2>1, <3>2, <3>3
  <2>5. CASE PortCommand(c)
    <3>1. eCurState' = eCurState /\ cmdPc' \in {"idle", "take"}
      BY <2>1, <2>5 DEF PortCommand
    <3>2. Due' = {eCurState}
      BY <2>1, <3>1 DEF Due, Starting, Ending, Going, Stopping
    <3>3. eCurState \in Due
      BY <2>3, <2>5 DEF Outcomes, PortCommand
    <3> QED
      BY <2>1, <3>2, <3>3
  <2>6. CASE Switch(c)
    <3>1. cmdPc' = "idle" /\ eCurState' = c.arg /\ c.cmd = "StateSet" /\ <<eCurState, c.arg>> \in Supported
      BY <2>1, <2>6 DEF Switch
    <3>2. Due' = {c.arg}
      BY <2>1, <3>1 DEF Due, Starting, Ending, Going, Stopping
    <3>3. c.arg \in Due
      BY <2>3, <3>1 DEF Outcomes
    <3> QED
      BY <2>1, <3>2, <3>3
  <2>7. CASE BeginTransition(c)
    <3>1. /\ cmdPc' = FirstPlace(eCurState, c.arg) /\ cmdPc' # "idle" /\ eCurState' = eCurState
          /\ c.cmd = "StateSet"
      BY <2>7 DEF BeginTransition
    <3>2. \/ cmdPc' = "allocIn" /\ eCurState = "Loaded" /\ c.arg = "Idle"
          \/ cmdPc' = "close" /\ c.arg = "Loaded" /\ eCurState = "Idle"
          \/ cmdPc' = "run" /\ c.arg = "Executing" /\ eCurState = "Idle"
          \/ cmdPc' = "pause" /\ c.arg = "Idle" /\ eCurState = "Executing"
      BY <3>1 DEF FirstPlace, StopBegins
    <3>3. Due = {c.arg} \cup (IF scenario.openFails THEN {eCurState} \cap {"Loaded"} ELSE {})
      BY <2>3, <3>1, <3>2 DEF Outcomes, Supported
    <3>4. Due' \subseteq {c.arg} \cup (IF scenario.openFails THEN {eCurState} \cap {"Loaded"} ELSE {})
      BY <2>1, <3>2 DEF Due, Starting, Ending, Going, Stopping
    <3> QED
      BY <2>1, <3>3, <3>4
  <2> QED
    BY <1>4, <2>4, <2>5, <2>6, <2>7 DEF c
<1>5. CASE CommandThread /\ cmdPc # "idle"
  <2>1. cmd = <<>>
    BY <1>5 DEF Phases, Transitions
  <2>2. CASE ToIdle
    <3>1. /\ UNCHANGED <<cmd, scenario>> /\ cmdPc \in Starting
          /\ \/ cmdPc' \in Starting
             \/ cmdPc' = "idle" /\ eCurState' = "Idle"
             \/ cmdPc' = "idle" /\ eCurState' = eCurState /\ scenario.openFails
      BY <2>2
         DEF ToIdle, WaitAllocIn, WaitAllocOut, EncoderOpen, EncoderOpenFails, CreateBufThread,
             AwaitThread, Created, PendAlloc, CommandPends, Reach, Starting
    <3>2. eCurState = "Loaded"
      BY <3>1 DEF Phases, Transitions
    <3> QED
      BY <2>1, <3>1, <3>2 DEF Due, Starting, Ending, Going, Stopping
  <2>3. CASE ToLoaded
    <3>1. /\ UNCHANGED <<cmd, scenario>> /\ cmdPc \in Ending
          /\ cmdPc' \in Ending \/ (cmdPc' = "idle" /\ eCurState' = "Loaded")
      BY <2>3
         DEF ToLoaded, EncoderClose, OrderExit, WakeForExit, Release, JoinBufThread, WaitFreeIn,
             WaitFreeOut, Freed, PendAlloc, Order, Wake, PostCtrl, Reach, Ending
    <3> QED
      BY <2>1, <3>1 DEF Due, Starting, Ending, Going, Stopping
  <2>4. CASE ToExecuting
    <3>1. /\ UNCHANGED <<cmd, scenario>> /\ cmdPc \in Going
          /\ cmdPc' \in Going \/ (cmdPc' = "idle" /\ eCurState' = "Executing")
      BY <2>4 DEF ToExecuting, OrderRun, Start, Started, Order, PostCtrl, Reach, Going
    <3> QED
      BY <2>1, <3>1 DEF Due, Starting, Ending, Going, Stopping
  <2>5. CASE BackToIdle
    <3>1. /\ UNCHANGED <<cmd, scenario>> /\ cmdPc \in Stopping
          /\ cmdPc' \in Stopping \/ (cmdPc' = "idle" /\ eCurState' = "Idle")
      BY <2>5
         DEF BackToIdle, OrderPause, WakeForPause, ReturnBuffers, Paused, Order, Wake, Reach, Stopping
    <3> QED
      BY <2>1, <3>1 DEF Due, Starting, Ending, Going, Stopping
  <2>6. CASE TakeCtrl \/ PutCtrl
    <3>1. /\ UNCHANGED <<cmd, scenario, eCurState>>
          /\ cmdPc \in {"take", "put"} /\ cmdPc' \in {"take", "put", "idle"}
      BY <2>6 DEF TakeCtrl, PutCtrl, CommandPends, PostCtrl
    <3> QED
      BY <2>1, <3>1 DEF Due, Starting, Ending, Going, Stopping
  <2>7. ASSUME NEW i \in DOMAIN cmd PROVE FALSE
    BY <2>1, <2>7
  <2> QED
    BY <1>5, <2>2, <2>3, <2>4, <2>5, <2>6, <2>7 DEF CommandThread
<1>6. CASE CommandThread /\ cmdPc = "idle"
  <2>1. ~ (ToIdle \/ ToLoaded \/ ToExecuting \/ BackToIdle \/ TakeCtrl \/ PutCtrl)
    BY <1>6
       DEF ToIdle, WaitAllocIn, WaitAllocOut, EncoderOpen, EncoderOpenFails, CreateBufThread,
           AwaitThread, Created, PendAlloc, CommandPends, Reach,
           ToLoaded, EncoderClose, OrderExit, WakeForExit, Release, JoinBufThread, WaitFreeIn,
           WaitFreeOut, Freed, Order, Wake, PostCtrl,
           ToExecuting, OrderRun, Start, Started,
           BackToIdle, OrderPause, WakeForPause, ReturnBuffers, Paused, TakeCtrl, PutCtrl
  <2> QED
    BY <1>4, <1>6, <2>1 DEF CommandThread
<1> QED
  BY <1>2, <1>3, <1>5, <1>6 DEF Next

LEMMA FollowingStep ==
  ASSUME TypeOK, Phases, NEW barred, Following(barred), [Next]_vars PROVE Following(barred)'
<1>1. CASE \E c \in Offered : SendCommand(c)
  BY <1>1, FollowingSend
<1>2. CASE \A c \in Offered : ~ SendCommand(c)
  <2>1. /\ scenario' = scenario /\ Due' \subseteq Due
        /\ cmd' = <<>> \/ UNCHANGED <<cmd, eCurState>>
    BY <1>2, DueShrinks
  <2> QED
    BY <2>1 DEF Following
<1> QED
  BY <1>1, <1>2

LEMMA FollowingIsCareful ==
  ASSUME TypeOK, NEW barred, Following(barred) PROVE Careful /\ (barred = {"Loaded"} => NotTwiceLoaded)
BY DEF Following, MayAsk, Careful, NotTwiceLoaded

(***************************************************************************)
(* A client whose scripts are careful is: whatever it chooses from them    *)
(* and whether or not EncoderOpen fails, no command meets a state that is  *)
(* not one for it.                                                         *)
(***************************************************************************)
THEOREM ScriptsAreCareful == ASSUME AllCareful PROVE Spec => []Careful
<1>1. Init => Following({})
  BY FollowingInit DEF AllCareful
<1>2. TypeOK /\ Following({}) => Careful
  BY FollowingIsCareful
<1>3. TypeOK /\ Phases /\ Following({}) /\ [Next]_vars => Following({})'
  BY FollowingStep
<1>4. TypeOK /\ Phases /\ Careful /\ [Next]_vars => Phases'
  BY PhasesStep
<1> QED
  BY <1>1, <1>2, <1>3, <1>4, PhasesInit, TypeCorrect, PTL DEF Spec

(***************************************************************************)
(* One whose scripts do not ask for Loaded in Loaded, wherever a failing   *)
(* EncoderOpen leaves the encoder, does not either.                        *)
(***************************************************************************)
THEOREM ScriptsAskOnce == ASSUME AllCarefulOnce PROVE Spec => []NotTwiceLoaded
<1>1. Init => Following({"Loaded"})
  BY FollowingInit DEF AllCarefulOnce
<1>2. TypeOK /\ Following({"Loaded"}) => Careful /\ NotTwiceLoaded
  BY FollowingIsCareful
<1>3. TypeOK /\ Phases /\ Following({"Loaded"}) /\ [Next]_vars => Following({"Loaded"})'
  BY FollowingStep
<1>4. TypeOK /\ Phases /\ Careful /\ [Next]_vars => Phases'
  BY PhasesStep
<1> QED
  BY <1>1, <1>2, <1>3, <1>4, PhasesInit, TypeCorrect, PTL DEF Spec

-----------------------------------------------------------------------------
(* Two output buffers for the header                                       *)

\* A client of a stream with a sequence header keeps two output buffers ahead of
\* its input, flushes no output and does not end the stream.
KeepsAhead(s) ==
  s.header => /\ s.ahead /\ ~ s.ends
              /\ \A n \in DOMAIN s.script : \A c \in s.script[n] : c.cmd = "Flush" => c.arg = "in"
AllAhead == \A s \in Scenarios : KeepsAhead(s)

\* The encoder knows of the header out of Loaded; until it is sent nothing is
\* lost, and no input comes without two output buffers before it.
Led ==
  /\ KeepsAhead(scenario)
  /\ seqBufSize => scenario.header
  /\ eCurState # "Loaded" => seqBufSize = scenario.header
  /\ cmdPc \in {"create", "handshake", "created"} => seqBufSize = scenario.header
  /\ scenario.header =>
       /\ eosFlag = {}
       /\ \A i \in DOMAIN cmd : cmd[i].cmd = "Flush" => cmd[i].arg = "in"
       /\ Running /\ ~ bSendCodecSpecificInfo => lost = {}
  /\ HeaderDue /\ (call["in"] # <<>> \/ pBufQueue["in"] # <<>>) => Len(pBufQueue["out"]) > 1

LEMMA LedInit == ASSUME AllAhead, Init PROVE Led
BY DEF Init, AllAhead, Led, HeaderDue

LEMMA LedIsAhead == Led => AheadOfHeader
BY DEF Led, AheadOfHeader, CanEncode, Ports

\* Most steps leave alone what Led is about.
LEMMA LedKept ==
  ASSUME Running, Led, UNCHANGED <<scenario, seqBufSize, eCurState, cmdPc, eosFlag, cmd, bSendCodecSpecificInfo,
                          lost, call, pBufQueue>>
  PROVE  Led'
BY DEF Led, HeaderDue

LEMMA LedSend ==
  ASSUME Running, TypeOK, Led, NEW c \in Offered, SendCommand(c) PROVE Led'
<1> DEFINE t == scenario.script
           u == Tail(t)
<1>1. /\ t \in Seq(SUBSET Commands) /\ 1 \in DOMAIN t /\ c \in t[1]
      /\ scenario' = [scenario EXCEPT !.script = u]
  BY DEF TypeOK, ScenarioType, SendCommand, Offered
<1>2. /\ Len(t) \in Nat \ {0} /\ DOMAIN t = 1 .. Len(t) /\ DOMAIN u = 1 .. Len(t) - 1
      /\ \A n \in 1 .. Len(t) - 1 : u[n] = t[n + 1]
  BY <1>1, HeadTailProperties, EmptySeq
<1>3. /\ scenario'.script = u
      /\ UNCHANGED <<scenario.header, scenario.ahead, scenario.ends>>
  BY <1>1 DEF TypeOK, ScenarioType
<1>4. \A n \in DOMAIN u : n + 1 \in DOMAIN t /\ u[n] = t[n + 1]
  BY <1>2
<1>5. scenario.header => /\ scenario.ahead /\ ~ scenario.ends
                         /\ \A n \in DOMAIN t : \A d \in t[n] : d.cmd = "Flush" => d.arg = "in"
  BY DEF Led, KeepsAhead
<1> HIDE DEF t, u
<1>6. KeepsAhead(scenario')
  <2>1. scenario.header => \A n \in DOMAIN u : \A d \in u[n] : d.cmd = "Flush" => d.arg = "in"
    BY <1>4, <1>5
  <2> QED
    BY <1>3, <1>5, <2>1 DEF KeepsAhead
<1>7. scenario.header => (c.cmd = "Flush" => c.arg = "in")
  BY <1>1, <1>5
<1>8. cmd' = <<c>> /\ DOMAIN cmd' = {1} /\ cmd'[1] = c
  BY DEF SendCommand
<1>9. UNCHANGED <<seqBufSize, eCurState, cmdPc, eosFlag, bSendCodecSpecificInfo, lost, call, pBufQueue>>
  BY DEF SendCommand, commandVars, dataVars, bufferVars, streamVars
<1> QED
  BY <1>3, <1>6, <1>7, <1>8, <1>9 DEF Led, HeaderDue

\* What was tested before an input was let in.
LEMMA TwoAhead ==
  ASSUME TypeOK, HeldByOneSide, lost = {}, Ahead PROVE Len(pBufQueue["out"]) > 1
<1> DEFINE q == pBufQueue["out"]
           B == {b \in OutBuffers : lent[b] = 1}
<1>1. q \in Seq(OutBuffers) /\ Len(q) \in Nat /\ DOMAIN q = 1 .. Len(q)
  BY QueueType
<1>2. B \subseteq Elements(q)
  <2> SUFFICES ASSUME NEW b \in B PROVE b \in Elements(q)
    OBVIOUS
  <2>1. b \in Queued
    BY DEF HeldByOneSide, Buffers
  <2>2. b \notin Elements(pBufQueue["in"])
    BY QueuedIs, VidEncAssumption
  <2> QED
    BY <2>1, <2>2, QueuedIs
<1>3. Cardinality(B) >= 2
  BY DEF Ahead
<1> HIDE DEF B, q
<1>4. PICK a \in B : TRUE
  <2>1. B # {}
    BY <1>3, FS_EmptySet
  <2> QED
    BY <2>1
<1>5. PICK b \in B : b # a
  <2>1. Cardinality({a}) = 1
    BY FS_Singleton
  <2>2. B # {a}
    BY <1>3, <2>1
  <2> QED
    BY <1>4, <2>2
<1>6. PICK i, j \in DOMAIN q : q[i] = a /\ q[j] = b
  BY <1>2, <1>4, <1>5 DEF Elements
<1>7. i # j
  BY <1>5, <1>6
<1> QED
  BY <1>1, <1>6, <1>7 DEF q

LEMMA LedClient ==
  ASSUME Running, TypeOK, Phases, HeldByOneSide, Led, Client PROVE Led'
<1> USE DEF clientVars, commandVars, bufferVars, streamVars, dataVars
<1>1. ASSUME NEW p \in Ports, NEW b \in Slots(p),
             UseBuffer(p, b) \/ AllocateBuffer(p, b) \/ FreeBuffer(p, b) PROVE Led'
  BY <1>1, LedKept DEF UseBuffer, AllocateBuffer, FreeBuffer
<1>2. ASSUME NEW b \in InBuffers, EmptyThisBuffer(b) PROVE Led'
  <2>1. Call("in", b) /\ (scenario.ahead => Ahead)
    BY <1>2 DEF EmptyThisBuffer
  <2>2. UNCHANGED <<scenario, seqBufSize, eCurState, cmdPc, cmd, bSendCodecSpecificInfo, lost, pBufQueue>>
    BY <2>1 DEF Call
  <2>3. scenario.header => scenario.ahead /\ ~ scenario.ends
    BY DEF Led, KeepsAhead
  <2>4. scenario.header => eosFlag' = {}
    BY <1>2, <2>3 DEF EmptyThisBuffer, Led
  <2>5. HeaderDue => Len(pBufQueue["out"]) > 1
    <3>1. HeaderDue => scenario.header /\ lost = {}
      BY DEF Led, HeaderDue
    <3> QED
      BY <2>1, <2>3, <3>1, TwoAhead
  <2> QED
    BY <2>2, <2>4, <2>5 DEF Led, HeaderDue
<1>3. ASSUME NEW b \in OutBuffers, FillThisBuffer(b) PROVE Led'
  <2>1. /\ UNCHANGED <<scenario, seqBufSize, eCurState, cmdPc, cmd, bSendCodecSpecificInfo, lost,
                       pBufQueue, eosFlag>>
        /\ call'["in"] = call["in"]
    BY <1>3 DEF FillThisBuffer, Call, TypeOK, Ports
  <2> QED
    BY <2>1 DEF Led, HeaderDue
<1>4. ASSUME NEW p \in Ports, Push(p) PROVE Led'
  <2>1. /\ UNCHANGED <<scenario, seqBufSize, eCurState, cmdPc, cmd, bSendCodecSpecificInfo, lost, eosFlag>>
        /\ call[p] # <<>>
    BY <1>4 DEF Push
  <2>2. \/ pBufQueue' = pBufQueue
        \/ pBufQueue' = [pBufQueue EXCEPT ![p] = Append(pBufQueue[p], call[p][1].buf)]
    BY <1>4 DEF Push
  <2>3. \/ call' = [call EXCEPT ![p] = <<[call[p][1] EXCEPT !.at = "post"]>>]
        \/ call' = [call EXCEPT ![p] = <<>>]
    BY <1>4 DEF Push
  <2>4. /\ DOMAIN pBufQueue = Ports /\ DOMAIN call = Ports
        /\ pBufQueue["out"] \in Seq(OutBuffers) /\ Len(pBufQueue["out"]) \in Nat
        /\ call[p][1].buf \in Slots(p)
    BY <2>1, QueueType DEF TypeOK, CallType
  <2>5. CASE p = "in"
    <3>1. pBufQueue'["out"] = pBufQueue["out"]
      BY <2>2, <2>4, <2>5 DEF Ports
    <3> QED
      BY <2>1, <2>5, <3>1 DEF Led, HeaderDue
  <2>6. CASE p = "out"
    <3>1. pBufQueue'["in"] = pBufQueue["in"] /\ call'["in"] = call["in"]
      BY <2>2, <2>3, <2>4, <2>6 DEF Ports
    <3>2. Len(pBufQueue'["out"]) = Len(pBufQueue["out"]) \/ Len(pBufQueue'["out"]) = Len(pBufQueue["out"]) + 1
      BY <2>2, <2>4, <2>6, AppendProperties DEF Ports, Slots
    <3> QED
      BY <2>1, <2>4, <3>1, <3>2 DEF Led, HeaderDue
  <2> QED
    BY <2>5, <2>6 DEF Ports
<1>5. ASSUME NEW p \in Ports, Post(p) PROVE Led'
  <2>1. /\ UNCHANGED <<scenario, seqBufSize, eCurState, cmdPc, cmd, bSendCodecSpecificInfo, lost,
                       pBufQueue, eosFlag>>
        /\ call'["in"] # <<>> => call["in"] # <<>>
    BY <1>5 DEF Post, TypeOK, Ports
  <2> QED
    BY <2>1 DEF Led, HeaderDue
<1> QED
  BY <1>1, <1>2, <1>3, <1>4, <1>5, LedSend DEF Client

\* The command thread, on the way from one state to another.
LEMMA LedMoves ==
  ASSUME Running, TypeOK, Phases, Led,
         ToIdle \/ ToLoaded \/ ToExecuting \/ BackToIdle \/ TakeCtrl \/ PutCtrl
  PROVE  Led'
<1> USE DEF clientVars, commandVars, bufferVars, streamVars, dataVars, At, Goto
<1>1. CASE EncoderOpen
  <2>1. Empty /\ cmd = <<>>
    BY <1>1 DEF EncoderOpen, Phases, Transitions, Rests, Starting
  <2>2. call'["in"] = <<>> /\ pBufQueue'["in"] = <<>> /\ seqBufSize' = scenario.header
    BY <1>1, <2>1 DEF EncoderOpen, Empty, NoCalls, Ports, SequenceHeader
  <2> QED
    BY <1>1, <2>2 DEF EncoderOpen, Led
<1>2. CASE ReturnBuffers
  <2>1. NoCalls
    BY <1>2 DEF ReturnBuffers, Phases, Rests, Settled
  <2>2. call'["in"] = <<>> /\ pBufQueue'["in"] = <<>>
    BY <1>2, <2>1 DEF ReturnBuffers, NoCalls, Ports
  <2> QED
    BY <1>2, <2>2 DEF ReturnBuffers, Led
<1>3. CASE ToIdle /\ ~ EncoderOpen
  <2>1. /\ UNCHANGED <<scenario, seqBufSize, eosFlag, cmd, bSendCodecSpecificInfo, lost, call, pBufQueue>>
        /\ cmdPc' \in {"create", "handshake", "created"} => cmdPc \in {"create", "handshake"}
        /\ eCurState' = eCurState \/ cmdPc = "created"
    BY <1>3
       DEF ToIdle, WaitAllocIn, WaitAllocOut, EncoderOpenFails, CreateBufThread,
           AwaitThread, Created, PendAlloc, CommandPends, Reach
  <2> QED
    BY <2>1 DEF Led, HeaderDue
<1>4. CASE ToLoaded
  <2>1. /\ UNCHANGED <<scenario, seqBufSize, eosFlag, cmd, bSendCodecSpecificInfo, lost, call, pBufQueue>>
        /\ cmdPc' \notin {"create", "handshake", "created"}
        /\ eCurState' = eCurState \/ eCurState' = "Loaded"
    BY <1>4
       DEF ToLoaded, EncoderClose, OrderExit, WakeForExit, Release, JoinBufThread, WaitFreeIn,
           WaitFreeOut, Freed, PendAlloc, Order, Wake, PostCtrl, Reach
  <2> QED
    BY <2>1 DEF Led, HeaderDue
<1>5. CASE ToExecuting \/ (BackToIdle /\ ~ ReturnBuffers) \/ TakeCtrl \/ PutCtrl
  <2>1. /\ UNCHANGED <<scenario, seqBufSize, eosFlag, cmd, bSendCodecSpecificInfo, lost, call, pBufQueue>>
        /\ cmdPc' \notin {"create", "handshake", "created"}
        /\ eCurState' = eCurState \/ cmdPc \in {"started", "paused"}
    BY <1>5
       DEF ToExecuting, OrderRun, Start, Started, Order, PostCtrl, Reach,
           BackToIdle, OrderPause, WakeForPause, Paused, Wake, TakeCtrl, PutCtrl, CommandPends
  <2>2. cmdPc \in {"started", "paused"} => eCurState # "Loaded"
    BY DEF Phases, Transitions, Going, Stopping
  <2> QED
    BY <2>1, <2>2 DEF Led, HeaderDue
<1> QED
  BY <1>1, <1>2, <1>3, <1>4, <1>5

LEMMA LedCommand ==
  ASSUME Running, TypeOK, Phases, Careful, Led, CommandThread PROVE Led'
<1> USE DEF clientVars, commandVars, bufferVars, streamVars, dataVars, At, Goto
<1>1. ASSUME NEW i \in DOMAIN cmd,
             Unsupported(cmd[i]) \/ Switch(cmd[i]) \/ BeginTransition(cmd[i]) \/ BadPort(cmd[i])
               \/ PortCommand(cmd[i]) \/ Flush(cmd[i])
      PROVE  Led'
  <2> DEFINE c == cmd[i]
  <2>1. cmd' = <<>> /\ DOMAIN cmd' = {} /\ UNCHANGED <<scenario, seqBufSize, eosFlag, bSendCodecSpecificInfo, lost, call>>
    BY <1>1 DEF Unsupported, Switch, BeginTransition, BadPort, PortCommand, Flush, Pop
  <2>2. /\ NotInLoaded(c) => eCurState # "Loaded"
        /\ scenario.header /\ c.cmd = "Flush" => c.arg = "in"
    BY DEF Careful, Led
  <2> HIDE DEF c
  <2>3. CASE Unsupported(c) \/ BadPort(c) \/ PortCommand(c) \/ BeginTransition(c)
    <3>1. UNCHANGED <<eCurState, pBufQueue>> /\ cmdPc' \notin {"create", "handshake", "created"}
      BY <2>3
         DEF Unsupported, BadPort, PortCommand, BeginTransition, FirstPlace, StopBegins, Pop
    <3> QED
      BY <2>1, <3>1 DEF Led, HeaderDue
  <2>4. CASE Switch(c)
    <3>1. UNCHANGED <<cmdPc, pBufQueue>> /\ eCurState # "Loaded" /\ cmdPc = "idle"
      BY <2>2, <2>4 DEF Switch, Supported, Pop
    <3> QED
      BY <2>1, <3>1 DEF Led, HeaderDue
  <2>5. CASE Flush(c)
    <3>1. UNCHANGED <<cmdPc, eCurState>> /\ c.cmd = "Flush"
      BY <2>5 DEF Flush
    <3>2. /\ c.arg = "in" => pBufQueue'["out"] = pBufQueue["out"]
          /\ pBufQueue'["in"] = pBufQueue["in"] \/ pBufQueue'["in"] = <<>>
      BY <2>5 DEF Flush, Ports
    <3>3. HeaderDue => c.arg = "in"
      BY <2>2, <3>1 DEF Led, HeaderDue
    <3> QED
      BY <2>1, <3>1, <3>2, <3>3 DEF Led, HeaderDue
  <2> QED
    BY <1>1, <2>3, <2>4, <2>5 DEF c
<1> QED
  BY <1>1, LedMoves DEF CommandThread

LEMMA LedBufThread ==
  ASSUME Running, TypeOK, Phases, Led, BufThread PROVE Led'
<1> USE DEF clientVars, commandVars, bufferVars, streamVars, dataVars
<1>1. CASE \/ BufBorn \/ BufOuter \/ BufPendCtrl \/ BufInner \/ BufPendChange
           \/ BufStop \/ BufRun \/ BufLock \/ NothingToEncode
  BY <1>1, LedKept
     DEF BufBorn, BufOuter, BufPendCtrl, BufInner, BufPendChange, BufStop, BufRun, BufLock, NothingToEncode
<1>2. CASE EncodeEos \/ EncodeFrame \/ EncodeFails \/ EncodeUnmapped
  <2>1. UNCHANGED <<scenario, seqBufSize, eCurState, cmdPc, cmd, eosFlag, call>>
    BY <1>2 DEF EncodeEos, EncodeFrame, EncodeFails, EncodeUnmapped, EncodePicture, Encoding
  <2>2. CanEncode /\ pBufQueue["in"] # <<>>
    BY <1>2
       DEF EncodeEos, EncodeFrame, EncodeFails, EncodeUnmapped, EncodePicture, CanEncode, Ports
  <2>3. seqBufSize = scenario.header
    BY <2>2 DEF Led, Phases, Rests, Empty, Ports
  <2>4. EncodeEos => ~ scenario.header
    BY DEF EncodeEos, Led
  <2>5. CASE ~ EncodeUnmapped
    <3>1. scenario.header => bSendCodecSpecificInfo'
      BY <1>2, <2>3, <2>4, <2>5 DEF EncodeFrame, EncodeFails, EncodePicture, HeaderDue, TypeOK
    <3>2. ~ HeaderDue'
      BY <2>1, <2>3, <3>1 DEF HeaderDue
    <3> QED
      BY <2>1, <3>1, <3>2 DEF Led
  <2>6. CASE EncodeUnmapped
    <3>1. Takes(0) /\ 0 \in 0 .. 2 /\ UNCHANGED bSendCodecSpecificInfo /\ ~ Running'
      BY <2>6 DEF EncodeUnmapped, Running
    <3>2. /\ Len(pBufQueue["out"]) \in Nat \ {0}
          /\ Len(pBufQueue'["out"]) = IF 0 < Len(pBufQueue["out"]) THEN Len(pBufQueue["out"]) - 0
                                                                   ELSE 0
      BY <2>2, <3>1, EncodeQueues
    <3>3. Len(pBufQueue'["out"]) = Len(pBufQueue["out"])
      BY <3>2
    <3>4. HeaderDue' = HeaderDue
      BY <2>1, <3>1 DEF HeaderDue
    <3> QED
      BY <2>1, <2>2, <3>1, <3>3, <3>4 DEF Led
  <2> QED
    BY <2>5, <2>6
<1> QED
  BY <1>1, <1>2 DEF BufThread

LEMMA LedStep ==
  ASSUME TypeOK, Phases, Careful, HeldByOneSide, Led, [Next]_vars PROVE Led'
<1>1. CASE UNCHANGED vars
  BY <1>1 DEF Led, HeaderDue, Running, vars, clientVars, commandVars, bufferVars, streamVars, dataVars
<1>2. ASSUME Next PROVE Led'
  BY <1>2, StepsRun, LedClient, LedCommand, LedBufThread DEF Next
<1> QED
  BY <1>1, <1>2

(***************************************************************************)
(* The header takes an output buffer of its own, and there is one          *)
(* (AheadOfHeader), for a client that has two with the encoder whenever it *)
(* gives an input buffer: they stay there until the first picture, for     *)
(* which the header is sent.                                               *)
(***************************************************************************)
THEOREM HeaderHasRoom == ASSUME AllCareful, AllAhead PROVE Spec => []AheadOfHeader
<1>1. Init => Apart /\ HeldByOneSide
  BY HeldInit
<1>2. Init => Led
  BY LedInit
<1>3. TypeOK /\ Phases /\ Careful /\ HeldByOneSide /\ Led /\ [Next]_vars => Led'
  BY LedStep
<1>4. TypeOK /\ Apart /\ HeldByOneSide /\ AheadOfHeader /\ [Next]_vars => Apart' /\ HeldByOneSide'
  BY HeldStep
<1> QED
  BY <1>1, <1>2, <1>3, <1>4, LedIsAhead, TypeCorrect, ScriptsAreCareful, PhasesHold, PTL DEF Spec

(***************************************************************************)
(* NoFault and NoWorkForgotten, from conditions on the scripts alone.      *)
(***************************************************************************)
THEOREM ScriptedClientSeesNoFault ==
  ASSUME AllCareful PROVE Spec => []NoFault /\ []NoWorkForgotten
BY CarefulClientSeesNoFault, CarefulClientIsNotForgotten, ScriptsAreCareful, PTL

(***************************************************************************)
(* HeldByOneSide, from conditions on the client alone.                     *)
(***************************************************************************)
THEOREM ScriptedBuffersOnOneSide ==
  ASSUME AllCareful, AllAhead PROVE Spec => []HeldByOneSide
BY HeldByOneSideAlways, HeaderHasRoom, PTL

(***************************************************************************)
(* KeepsItsPromise, from conditions on the client alone: every step of the *)
(* encoder is a step of OMXComponent or a stutter.                         *)
(***************************************************************************)
THEOREM ScriptedClientSeesPromiseKept ==
  ASSUME AllCarefulOnce, AllAhead PROVE Spec => KeepsItsPromise
<1>1. AllCareful
  BY OnceIsCareful
<1> QED
  BY <1>1, KeepsItsPromiseAlways, ScriptsAreCareful, ScriptsAskOnce, HeaderHasRoom, PTL

===============================================================================
