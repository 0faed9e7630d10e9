-------------------------- MODULE NX_Sessions_proofs --------------------------
(***************************************************************************)
(* Proofs about the sessions of MC_Sessions, for any sizes, rates, roles   *)
(* and numbers of frames.  What a session holds of the kernel is what its  *)
(* calls left there, one by one, because a handle answers for everything   *)
(* an allocation leaves; a picture fits because sizes and buffers change   *)
(* together; and the VPU encodes as asked because every setting the client *)
(* makes is in the state until the next one.                               *)
(***************************************************************************)
EXTENDS MC_Sessions, FiniteSetTheorems, TLAPS

-----------------------------------------------------------------------------
(* Resources: counted in integers, added and subtracted by kind.           *)

Kinds == {"gem", "fd", "map"}
Resources == [Kinds -> Int]

LEMMA NothingType == Nothing \in Resources
BY DEF Nothing, Resources, Kinds

LEMMA PlusType ==
  ASSUME NEW a \in Resources, NEW b \in Resources
  PROVE  Plus(a, b) \in Resources /\ Minus(a, b) \in Resources
BY DEF Plus, Minus, Resources

LEMMA TimesType ==
  ASSUME NEW a \in Resources, NEW k \in Int
  PROVE  Times(k, a) \in Resources
BY DEF Times, Resources

LEMMA TimesZero == ASSUME NEW a \in Resources PROVE Times(0, a) = Nothing
BY DEF Times, Resources, Kinds, Nothing

LEMMA PlusNothing ==
  ASSUME NEW a \in Resources
  PROVE  Plus(a, Nothing) = a /\ Plus(Nothing, a) = a
BY DEF Plus, Resources, Kinds, Nothing

LEMMA PlusCommutes ==
  ASSUME NEW a \in Resources, NEW b \in Resources
  PROVE  Plus(a, b) = Plus(b, a)
BY DEF Plus, Resources

LEMMA PlusAssociates ==
  ASSUME NEW a \in Resources, NEW b \in Resources, NEW c \in Resources
  PROVE  Plus(Plus(a, b), c) = Plus(a, Plus(b, c))
BY DEF Plus, Resources

LEMMA MinusCancels ==
  ASSUME NEW a \in Resources, NEW b \in Resources
  PROVE  Minus(Plus(a, b), b) = a
BY DEF Plus, Minus, Resources

-----------------------------------------------------------------------------
(* Allocations                                                             *)

\* The planes of an allocation are finitely many.
LEMMA PlanesCounted ==
  ASSUME NEW n \in Nat, NEW at
  PROVE  Cardinality(Created(n, at)) \in Nat /\ Cardinality(Exported(n, at)) \in Nat
<1>1. IsFiniteSet(1 .. n)
  BY FS_Interval
<1> QED
  BY <1>1, FS_Subset, FS_CardinalityType DEF Created, Exported

\* An allocation that fails gives back all it took.
LEMMA FailureIsClean ==
  ASSUME NEW n \in Nat, NEW at, at # None
  PROVE  Allocated(n, at) = Nothing
BY PlanesCounted DEF Allocated, ErrorExit, Minus, Nothing

LEMMA AllocatedType == ASSUME NEW n \in Nat, NEW at PROVE Allocated(n, at) \in Resources
<1>1. CASE at = None
  BY <1>1, PlanesCounted DEF Allocated, Minus, Resources, Kinds
<1>2. CASE at # None
  BY <1>2, FailureIsClean, NothingType
<1> QED
  BY <1>1, <1>2

\* Whichever call fails, the kernel has no more than the handle answers for.
LEMMA MadeIsHeld ==
  ASSUME NEW n \in Nat, NEW at, NEW mapAt \in Int
  PROVE  Made(n, at, mapAt) = Held(n, at, mapAt) /\ Made(n, at, mapAt) \in Resources
<1>1. Mapped(n, mapAt) \in Resources
  BY DEF Mapped, Resources, Kinds
<1>2. CASE at = None
  BY <1>1, <1>2, AllocatedType, PlusType DEF Made, Held
<1>3. CASE at # None
  BY <1>3, FailureIsClean, NothingType, PlusNothing DEF Made, Held
<1> QED
  BY <1>2, <1>3

-----------------------------------------------------------------------------
(* The decoder                                                             *)

Pairs == Nat \X Nat
Definitions == [size : Pairs, count : Nat, min : Nat, bytes : Nat]
Handles == [bits : Resources, frames : Resources, num : Nat, min : Nat, streaming : BOOLEAN]

DecTypes ==
  /\ port \in [{0, 1} -> Definitions]
  /\ size \in Pairs /\ stream \in Pairs /\ shown \in Pairs
  /\ bNeedSequenceData \in BOOLEAN /\ bInitialized \in BOOLEAN /\ bEnabled \in BOOLEAN
  /\ failed \in BOOLEAN /\ outUsableBuffers \in Nat
  /\ client \in [buffers : Nat, nAllocLen : Nat, defined : BOOLEAN]
  /\ phase \in {"loaded", "idle", "executing"}
  /\ hVpuCodec \in Handles /\ kernel \in Resources /\ lost \in Resources

LEMMA OutputForType ==
  ASSUME NEW p \in Definitions, NEW codec, NEW s \in Pairs
  PROVE  OutputFor(p, codec, s) \in Definitions
<1>1. OutputCount(codec, s) \in {12, 22}
  BY DEF OutputCount, VID_OUTPORT_MIN_BUF_CNT, VID_OUTPORT_MIN_BUF_CNT_H264_UNDER720P,
         VID_OUTPORT_MIN_BUF_CNT_H264_1080P
<1>2. Width(s) \in Nat /\ Height(s) \in Nat
  BY DEF Width, Height, Pairs
<1>3. Width(s) * Height(s) \in Nat
  BY <1>2
<1>4. (Width(s) * Height(s) * 3) \div 2 \in Nat
  BY <1>3
<1>5. OutputCount(codec, s) \in Nat
  BY <1>1
<1> QED
  BY <1>4, <1>5 DEF OutputFor, Definitions

LEMMA ReconfiguredType ==
  ASSUME NEW s \in Pairs
  PROVE  (Aligned(Width(s)) * Aligned(Height(s)) * 3) \div 2 \in Nat
<1>1. Width(s) \in Nat /\ Height(s) \in Nat
  BY DEF Width, Height, Pairs
<1>2. Aligned(Width(s)) \in Nat /\ Aligned(Height(s)) \in Nat
  BY <1>1 DEF Aligned
<1>3. Aligned(Width(s)) * Aligned(Height(s)) \in Nat
  BY <1>2
<1> QED
  BY <1>3

\* What a failing call leaves is a resource, and the handle answers for it.
LEMMA OutcomeHeld ==
  ASSUME NEW o \in Outcomes, NEW n \in {1, 3}, NEW a, NEW b
  PROVE  /\ Made(n, At(o, a), At(o, b)) = Held(n, At(o, a), At(o, b))
         /\ Made(n, At(o, a), At(o, b)) \in Resources
<1>1. o.at \in Int
  BY DEF Outcomes, Outcome, AllocateCalls, MapCalls, None
<1>2. At(o, b) \in Int
  BY <1>1 DEF At, None
<1> QED
  BY <1>2, MadeIsHeld

\* The handle answers for frames only while its input queue is streaming, so
\* that a try that goes over a handle loses a bit stream buffer and no frames.
Memory == MemoryAccounted /\ (~ hVpuCodec.streaming => hVpuCodec.frames = Nothing)

LEMMA PrepareMemory ==
  ASSUME DecTypes, Memory, NEW min \in MinFrames, NEW o \in Outcomes, PrepareVpu(min, o)
  PROVE  hVpuCodec' \in Handles /\ kernel' \in Resources /\ lost' \in Resources /\ Memory'
<1> DEFINE num == min + outUsableBuffers
           bits == Made(1, At(o, "allocateBits"), At(o, "mapBits"))
           last == Made(3, At(o, "allocate"), At(o, "map"))
           framed == o.step \in {"allocate", "map"}
           frames == Plus(Times(Complete(o, num), Made(3, None, None)),
                          IF framed THEN last ELSE Nothing)
<1>1. /\ bits \in Resources /\ bits = Held(1, At(o, "allocateBits"), At(o, "mapBits"))
      /\ last \in Resources /\ last = Held(3, At(o, "allocate"), At(o, "map"))
      /\ Made(3, None, None) \in Resources
  <2>1. /\ bits \in Resources /\ bits = Held(1, At(o, "allocateBits"), At(o, "mapBits"))
        /\ last \in Resources /\ last = Held(3, At(o, "allocate"), At(o, "map"))
    BY OutcomeHeld
  <2>2. Made(3, None, None) \in Resources
    BY MadeIsHeld DEF None
  <2> QED
    BY <2>1, <2>2
<1>2. num \in Nat /\ Complete(o, num) \in Int
  BY SessionAssumption DEF DecTypes, Complete
<1>3. frames \in Resources
  BY <1>1, <1>2, NothingType, PlusType, TimesType
<1>4. o.step \notin {"done", "queue", "stream", "allocate", "map"} => frames = Nothing
  BY <1>1, TimesZero, PlusNothing, NothingType DEF Complete
<1>5. /\ hVpuCodec \in Handles /\ hVpuCodec.bits \in Resources /\ hVpuCodec.frames \in Resources
      /\ hVpuCodec.streaming \in BOOLEAN /\ kernel \in Resources /\ lost \in Resources
  BY DEF DecTypes, Handles
<1>6. CASE o.step = "format"
  <2>1. hVpuCodec' = hVpuCodec /\ lost' = lost /\ kernel' = Plus(kernel, Plus(Nothing, frames))
    BY <1>4, <1>6 DEF PrepareVpu
  <2>2. kernel' = kernel
    BY <1>4, <1>5, <1>6, <2>1, PlusNothing, NothingType
  <2> QED
    BY <1>5, <2>1, <2>2 DEF Memory, MemoryAccounted
<1>7. CASE o.step # "format"
  <2>1. /\ hVpuCodec' = [bits |-> bits, frames |-> frames, num |-> num, min |-> min,
                         streaming |-> o.step \notin {"allocateBits", "mapBits", "queueBits"}]
        /\ lost' = Plus(lost, hVpuCodec.bits) /\ kernel' = Plus(kernel, Plus(bits, frames))
        /\ ~ hVpuCodec.streaming
    BY <1>1, <1>7 DEF PrepareVpu
  <2>2. hVpuCodec' \in Handles
    BY <1>1, <1>2, <1>3, <2>1, SessionAssumption DEF Handles
  <2>3. ~ hVpuCodec'.streaming => hVpuCodec'.frames = Nothing
    BY <1>4, <2>1
  <2>4. kernel = Plus(lost, hVpuCodec.bits)
    BY <1>5, <2>1, PlusNothing DEF Memory, MemoryAccounted
  <2>5. MemoryAccounted'
    BY <2>1, <2>4 DEF MemoryAccounted
  <2>6. lost' \in Resources /\ kernel' \in Resources
    BY <1>1, <1>3, <1>5, <2>1, PlusType
  <2> QED
    BY <2>2, <2>3, <2>5, <2>6 DEF Memory
<1> QED
  BY <1>6, <1>7

\* Which flags a phase can have.  No port is disabled with a prepared VPU, for
\* only a sequence header disables it, and the VPU is not prepared before.
Flags ==
  /\ phase = "loaded" => outUsableBuffers = 0 /\ client.buffers = 0
  /\ phase # "executing" => ~ bInitialized /\ bEnabled /\ hVpuCodec = NoHandle
  /\ bInitialized => bEnabled /\ ~ (DecodeFrame = "AVC" /\ bNeedSequenceData)
  /\ ~ bEnabled => DecodeFrame = "AVC" /\ ~ bNeedSequenceData
  /\ shown # NoSize => bInitialized

DecInv == DecTypes /\ Memory /\ Flags

LEMMA DecInit == Init => DecInv
<1> SUFFICES ASSUME Init PROVE DecInv
  OBVIOUS
<1>1. NoHandle \in Handles /\ NoSize \in Pairs
  BY NothingType DEF NoHandle, Handles, NoSize, Pairs
<1>2. port \in [{0, 1} -> Definitions]
  BY <1>1 DEF Init, Definitions
<1>3. DecTypes
  BY <1>1, <1>2, NothingType DEF Init, DecTypes
<1>4. Memory
  BY NothingType, PlusNothing DEF Init, Memory, MemoryAccounted, NoHandle
<1>5. Flags
  BY DEF Init, Flags
<1> QED
  BY <1>3, <1>4, <1>5 DEF DecInv

\* The parameters of the client.
LEMMA SetInputStep ==
  ASSUME DecInv, NEW s \in Sizes, SetInputDefinition(s)
  PROVE  DecInv'
<1> USE DEF SetInputDefinition, memory
<1>1. s \in Pairs
  BY SessionAssumption DEF Pairs
<1>2. port' \in [{0, 1} -> Definitions]
  <2>1. port \in [{0, 1} -> Definitions] /\ port[0] \in Definitions /\ port[1] \in Definitions
    BY DEF DecInv, DecTypes
  <2>2. OutputFor(port[1], videoCodecId, s) \in Definitions
    BY <1>1, <2>1, OutputForType
  <2>3. [port[0] EXCEPT !.size = s] \in Definitions
    BY <1>1, <2>1 DEF Definitions
  <2>4. port' = [port EXCEPT ![0] = [port[0] EXCEPT !.size = s],
                             ![1] = OutputFor(port[1], videoCodecId, s)]
    BY <2>1
  <2> QED
    BY <2>1, <2>2, <2>3, <2>4
<1>3. client' \in [buffers : Nat, nAllocLen : Nat, defined : BOOLEAN]
      /\ client'.buffers = client.buffers
  BY DEF DecInv, DecTypes
<1>4. DecTypes'
  BY <1>1, <1>2, <1>3 DEF DecInv, DecTypes
<1>5. Memory' /\ Flags'
  BY <1>3 DEF DecInv, Memory, MemoryAccounted, Flags
<1> QED
  BY <1>4, <1>5 DEF DecInv

LEMMA SetOutputStep ==
  ASSUME DecInv, NEW more \in {0, 2}, SetOutputDefinition(more)
  PROVE  DecInv'
<1> USE DEF SetOutputDefinition, session, decoder, memory
<1>1. port' \in [{0, 1} -> Definitions]
  <2>1. port \in [{0, 1} -> Definitions] /\ port[1] \in Definitions
    BY DEF DecInv, DecTypes
  <2>2. [port[1] EXCEPT !.count = port[1].min + more] \in Definitions
    BY <2>1 DEF Definitions
  <2>3. port' = [port EXCEPT ![1] = [port[1] EXCEPT !.count = port[1].min + more]]
    BY <2>1
  <2> QED
    BY <2>1, <2>2, <2>3
<1>2. DecTypes'
  BY <1>1 DEF DecInv, DecTypes
<1>3. Memory' /\ Flags'
  BY DEF DecInv, Memory, MemoryAccounted, Flags
<1> QED
  BY <1>2, <1>3 DEF DecInv

\* The sequence header and the client's answer.
LEMMA SequenceStep == ASSUME DecInv, Sequence PROVE DecInv'
<1> USE DEF Sequence, Reconfigured, memory
<1>1. port' \in [{0, 1} -> Definitions] /\ size' \in Pairs /\ bEnabled' \in BOOLEAN
  <2>1. /\ port \in [{0, 1} -> Definitions] /\ port[1] \in Definitions
        /\ stream \in Pairs /\ size \in Pairs /\ bEnabled \in BOOLEAN
    BY DEF DecInv, DecTypes
  <2> DEFINE bytes == (Aligned(Width(stream)) * Aligned(Height(stream)) * 3) \div 2
  <2>2. bytes \in Nat
    BY <2>1, ReconfiguredType
  <2>3. [port[1] EXCEPT !.size = stream, !.bytes = bytes] \in Definitions
    BY <2>1, <2>2 DEF Definitions
  <2>4. stream # size => port' = [port EXCEPT ![1] = [port[1] EXCEPT !.size = stream,
                                                                      !.bytes = bytes]]
    BY <2>1
  <2> QED
    BY ZenonT(60), <2>1, <2>3, <2>4
<1>2. DecTypes'
  BY <1>1 DEF DecInv, DecTypes
<1>3. Memory' /\ Flags'
  BY DEF DecInv, Memory, MemoryAccounted, Flags
<1> QED
  BY <1>2, <1>3 DEF DecInv

\* The client allocates buffers of the count and size of the port.
LEMMA BuffersStep ==
  ASSUME DecInv, Populate \/ \E all \in {FALSE, AllPorts} : Reenable(all)
  PROVE  DecInv'
<1>1. port[1].count \in Nat /\ port[1].bytes \in Nat
  BY DEF DecInv, DecTypes, Definitions
<1>2. CASE Populate
  <2> USE <1>2 DEF Populate, memory
  <2>1. client' \in [buffers : Nat, nAllocLen : Nat, defined : BOOLEAN]
    BY <1>1 DEF DecInv, DecTypes
  <2>2. DecTypes'
    BY <1>1, <2>1 DEF DecInv, DecTypes
  <2>3. Memory' /\ Flags'
    BY DEF DecInv, Memory, MemoryAccounted, Flags
  <2> QED
    BY <2>2, <2>3 DEF DecInv
<1>3. ASSUME NEW all \in {FALSE, AllPorts}, Reenable(all) PROVE DecInv'
  <2> USE <1>3 DEF Reenable, CountAfterDisable, memory
  <2>1. client' \in [buffers : Nat, nAllocLen : Nat, defined : BOOLEAN]
    BY <1>1 DEF DecInv, DecTypes
  <2>2. DecTypes'
    BY <1>1, <2>1 DEF DecInv, DecTypes
  <2>3. Memory' /\ Flags'
    BY DEF DecInv, Memory, MemoryAccounted, Flags
  <2> QED
    BY <2>2, <2>3 DEF DecInv
<1> QED
  BY <1>2, <1>3

LEMMA StartStep == ASSUME DecInv, NEW s \in Sizes, Start(s) PROVE DecInv'
<1> USE DEF Start
<1>1. hVpuCodec' = hVpuCodec /\ hVpuCodec' \in Handles
  BY DEF DecInv, DecTypes, Flags
<1>2. size' \in Pairs /\ stream' \in Pairs
  BY SessionAssumption DEF DecInv, DecTypes, Definitions, Pairs
<1>3. DecTypes'
  BY <1>1, <1>2 DEF DecInv, DecTypes
<1>4. Memory' /\ Flags'
  BY <1>1 DEF DecInv, Memory, MemoryAccounted, Flags
<1> QED
  BY <1>3, <1>4 DEF DecInv

LEMMA InitializeStep ==
  ASSUME DecInv, NEW min \in MinFrames, NEW o \in Outcomes, InitializeCodaVpu(min, o)
  PROVE  DecInv'
<1>1. hVpuCodec' \in Handles /\ kernel' \in Resources /\ lost' \in Resources /\ Memory'
  BY PrepareMemory DEF DecInv, InitializeCodaVpu
<1>2. DecTypes'
  BY <1>1 DEF DecInv, DecTypes, InitializeCodaVpu
<1>3. Flags'
  BY DEF DecInv, Flags, InitializeCodaVpu
<1> QED
  BY <1>1, <1>2, <1>3 DEF DecInv

LEMMA StopStep == ASSUME DecInv, Stop PROVE DecInv'
<1> USE DEF Stop
<1>1. /\ hVpuCodec.bits \in Resources /\ hVpuCodec.frames \in Resources
      /\ kernel \in Resources /\ lost \in Resources
  BY DEF DecInv, DecTypes, Handles
<1>2. kernel' = Plus(lost, hVpuCodec.bits)
  <2>1. kernel = Plus(Plus(lost, hVpuCodec.bits), hVpuCodec.frames)
    BY <1>1, PlusAssociates DEF DecInv, Memory, MemoryAccounted
  <2> QED
    BY <1>1, <2>1, PlusType, MinusCancels DEF FreedFrames
<1>3. lost' \in Resources /\ kernel' \in Resources
  BY <1>1, <1>2, PlusType
<1>4. hVpuCodec' = NoHandle /\ hVpuCodec' \in Handles
  BY NothingType DEF NoHandle, Handles
<1>5. DecTypes'
  BY <1>3, <1>4 DEF DecInv, DecTypes, NoSize, Pairs
<1>6. Memory'
  <2>1. lost' = kernel' /\ kernel' = Plus(lost', Nothing) /\ Nothing = Plus(Nothing, Nothing)
    BY <1>2, <1>3, PlusNothing, NothingType
  <2>2. hVpuCodec'.bits = Nothing /\ hVpuCodec'.frames = Nothing
    BY <1>4 DEF NoHandle
  <2> QED
    BY <1>4, <2>1, <2>2 DEF Memory, MemoryAccounted
<1>7. Flags'
  BY DEF DecInv, Flags
<1> QED
  BY <1>5, <1>6, <1>7 DEF DecInv

\* The other steps.
LEMMA OtherDecStep ==
  ASSUME DecInv,
         \/ \E role \in Roles : SetRole(role)
         \/ \E tag \in Tags : SetCodecTag(tag)
         \/ Picture \/ UNCHANGED vars
  PROVE  DecInv'
<1> USE DEF SetRole, SetCodecTag, Picture, vars, session, decoder, memory
<1>1. DecTypes'
  BY DEF DecInv, DecTypes
<1>2. Memory' /\ Flags'
  BY DEF DecInv, Memory, MemoryAccounted, Flags
<1> QED
  BY <1>1, <1>2 DEF DecInv

LEMMA DecStep == ASSUME DecInv, [Next]_vars PROVE DecInv'
BY SetInputStep, SetOutputStep, SequenceStep, BuffersStep, StartStep, InitializeStep, StopStep,
   OtherDecStep DEF Next

-----------------------------------------------------------------------------
(* Sizes and buffers of the decoder                                        *)

\* A client that redefines the size before every session has the size of the
\* pictures on the output port, from its definition to the end of the session,
\* and while the port is enabled buffers of the port's size.
Agree ==
  /\ phase # "loaded" => client.defined
  /\ client.defined => port[1].size = size /\ BytesCopied(size) <= port[1].bytes
  /\ client.defined /\ phase # "executing" => port[0].size = size
  /\ phase # "loaded" /\ bEnabled => client.nAllocLen = port[1].bytes
  /\ shown # NoSize => shown = size
  /\ phase = "executing" /\ DecodeFrame = "AVC" /\ ~ bNeedSequenceData => size = stream

\* A picture of w times h and two planes of half its sides, rounded down, fit in
\* the bytes of a picture that is no smaller.
LEMMA PlanesFit ==
  ASSUME NEW w \in Nat, NEW h \in Nat, NEW a \in Nat, NEW b \in Nat, w <= a, h <= b
  PROVE  w * h + 2 * ((w \div 2) * (h \div 2)) <= (a * b * 3) \div 2
<1> DEFINE x == w \div 2
           y == h \div 2
<1>1. x \in Nat /\ y \in Nat /\ 2 * x <= w /\ 2 * y <= h
  OBVIOUS
<1> HIDE DEF x, y
<1>2. (2 * x) * (2 * y) <= w * h /\ w * h <= a * b
  <2>1. ASSUME NEW k \in Nat, NEW l \in Nat, NEW m \in Nat, NEW n \in Nat, k <= m, l <= n
        PROVE  k * l <= m * n
    BY <2>1
  <2> QED
    BY <1>1, <2>1
<1> QED
  BY <1>1, <1>2

LEMMA OutputRoom ==
  ASSUME NEW s \in Pairs
  PROVE  BytesCopied(s) <= (Width(s) * Height(s) * 3) \div 2
BY PlanesFit DEF BytesCopied, Width, Height, Pairs

LEMMA AlignedRoom ==
  ASSUME NEW s \in Pairs
  PROVE  BytesCopied(s) <= (Aligned(Width(s)) * Aligned(Height(s)) * 3) \div 2
<1>1. ASSUME NEW n \in Nat PROVE Aligned(n) \in Nat /\ n <= Aligned(n)
  BY DEF Aligned
<1> QED
  BY <1>1, PlanesFit DEF BytesCopied, Width, Height, Pairs

LEMMA AgreeInit == Init => Agree
BY DEF Init, Agree

LEMMA AgreeStep ==
  ASSUME Redefines, DecInv, Agree, [Next]_vars
  PROVE  Agree'
<1>0. port \in [{0, 1} -> Definitions] /\ stream \in Pairs /\ phase \in {"loaded", "idle", "executing"}
  BY DEF DecInv, DecTypes
<1>1. ASSUME NEW s \in Sizes, SetInputDefinition(s) PROVE Agree'
  <2> USE <1>1 DEF SetInputDefinition, memory
  <2>1. s \in Pairs
    BY SessionAssumption DEF Pairs
  <2>2. port'[0].size = s /\ port'[1] = OutputFor(port[1], videoCodecId, s)
    <3>1. port[0] \in Definitions
      BY <1>0
    <3>2. port'[0] = [port[0] EXCEPT !.size = s] /\ port'[1] = OutputFor(port[1], videoCodecId, s)
      BY <1>0
    <3> QED
      BY <3>1, <3>2 DEF Definitions
  <2>3. port'[1].size = s /\ port'[1].bytes = (Width(s) * Height(s) * 3) \div 2
    BY <1>0, <2>2 DEF OutputFor, Definitions
  <2>4. BytesCopied(size') <= port'[1].bytes
    BY <2>1, <2>3, OutputRoom
  <2>5. shown' = NoSize
    BY DEF DecInv, Flags
  <2> QED
    BY <2>2, <2>3, <2>4, <2>5 DEF Agree
<1>2. ASSUME NEW more \in {0, 2}, SetOutputDefinition(more) PROVE Agree'
  <2> USE <1>2 DEF SetOutputDefinition, session, decoder, memory
  <2>1. /\ port'[0] = port[0] /\ port'[1].size = port[1].size
        /\ port'[1].bytes = port[1].bytes
    BY <1>0 DEF Definitions
  <2> QED
    BY <2>1 DEF Agree, BytesCopied
<1>3. CASE Sequence
  <2> USE <1>3 DEF Sequence, Reconfigured, memory
  <2>1. shown = NoSize
    BY DEF DecInv, Flags
  <2>2. CASE stream = size
    BY <2>1, <2>2 DEF Agree, BytesCopied
  <2>3. CASE stream # size
    <3>1. /\ port'[1].size = stream /\ size' = stream /\ ~ bEnabled'
          /\ port'[1].bytes = (Aligned(Width(stream)) * Aligned(Height(stream)) * 3) \div 2
      BY <1>0, <2>3 DEF Definitions
    <3>2. BytesCopied(stream) <= port'[1].bytes
      BY <1>0, <3>1, AlignedRoom
    <3> QED
      BY <2>1, <3>1, <3>2 DEF Agree, BytesCopied
  <2> QED
    BY <2>2, <2>3
<1>4. CASE Populate
  BY <1>4 DEF Agree, Populate, memory, DecInv, DecTypes, Flags, BytesCopied
<1>5. ASSUME NEW all \in {FALSE, AllPorts}, Reenable(all) PROVE Agree'
  BY <1>5 DEF Agree, Reenable, memory, DecInv, DecTypes, Flags, BytesCopied
<1>6. ASSUME NEW s \in Sizes, Start(s) PROVE Agree'
  BY <1>6 DEF Agree, Start, memory, DecInv, DecTypes, Flags, BytesCopied
<1>7. ASSUME NEW min \in MinFrames, NEW o \in Outcomes, InitializeCodaVpu(min, o) PROVE Agree'
  BY <1>7 DEF Agree, InitializeCodaVpu, memory, DecInv, DecTypes, Flags, BytesCopied
<1>8. CASE Stop
  BY <1>8 DEF Agree, Stop, BytesCopied
<1>9. CASE Picture
  BY <1>9 DEF Agree, Picture, decoder, memory, BytesCopied
<1>10. CASE \/ \E role \in Roles : SetRole(role)
            \/ \E tag \in Tags : SetCodecTag(tag)
            \/ UNCHANGED vars
  BY <1>10 DEF Agree, SetRole, SetCodecTag, vars, session, decoder, memory, BytesCopied
<1> QED
  BY <1>1, <1>2, <1>3, <1>4, <1>5, <1>6, <1>7, <1>8, <1>9, <1>10 DEF Next

\* Buffers and frames are counted alike as long as no reallocation disables both
\* ports.  The output port asks for at most 22 buffers, the client for 2 more.
Frames ==
  /\ port[1].min \in {12, 22} /\ port[1].count <= port[1].min + 2 /\ client.buffers <= 24
  /\ ~ AllPorts => outUsableBuffers = client.buffers
  /\ bInitialized => /\ hVpuCodec.num = hVpuCodec.min + outUsableBuffers
                     /\ hVpuCodec.min \in MinFrames

LEMMA FramesInit == Init => Frames
BY DEF Init, Frames

LEMMA FramesStep == ASSUME DecInv, Frames, [Next]_vars PROVE Frames'
<1>0. /\ port \in [{0, 1} -> Definitions] /\ port[1] \in Definitions
      /\ port[1].min \in Nat /\ port[1].count \in Nat
      /\ client \in [buffers : Nat, nAllocLen : Nat, defined : BOOLEAN]
  BY DEF DecInv, DecTypes, Definitions
<1>1. ASSUME NEW s \in Sizes, SetInputDefinition(s) PROVE Frames'
  <2> USE <1>1 DEF SetInputDefinition, memory
  <2>1. port'[1] = OutputFor(port[1], videoCodecId, s)
    BY <1>0
  <2>2. port'[1].min \in {12, 22} /\ port'[1].count = port'[1].min
    BY <1>0, <2>1
       DEF OutputFor, OutputCount, VID_OUTPORT_MIN_BUF_CNT, Definitions,
           VID_OUTPORT_MIN_BUF_CNT_H264_UNDER720P, VID_OUTPORT_MIN_BUF_CNT_H264_1080P
  <2>3. client'.buffers = client.buffers
    BY <1>0
  <2> QED
    BY <2>2, <2>3 DEF Frames
<1>2. ASSUME NEW more \in {0, 2}, SetOutputDefinition(more) PROVE Frames'
  <2> USE <1>2 DEF SetOutputDefinition, session, decoder, memory
  <2>1. port'[1].min = port[1].min /\ port'[1].count = port[1].min + more
    BY <1>0 DEF Definitions
  <2> QED
    BY <1>0, <2>1 DEF Frames
<1>3. CASE Sequence
  <2> USE <1>3 DEF Sequence, Reconfigured, memory
  <2>1. port'[1].min = port[1].min /\ port'[1].count = port[1].count
    <3>1. CASE stream = size
      BY <3>1
    <3>2. CASE stream # size
      BY <1>0, <3>2 DEF Definitions
    <3> QED
      BY <3>1, <3>2
  <2> QED
    BY <2>1 DEF Frames
<1>4. CASE Populate
  <2>1. outUsableBuffers = 0 /\ ~ bInitialized
    BY <1>4 DEF DecInv, Flags, Populate
  <2> QED
    BY <1>0, <1>4, <2>1 DEF Frames, Populate, memory
<1>5. ASSUME NEW all \in {FALSE, AllPorts}, Reenable(all) PROVE Frames'
  <2>1. ~ bInitialized
    BY <1>5 DEF DecInv, Flags, Reenable
  <2>2. client'.buffers = port[1].count
    BY <1>0, <1>5 DEF Reenable
  <2>3. ~ AllPorts => outUsableBuffers' = port[1].count
    <3>1. ~ AllPorts => all = FALSE
      BY SessionAssumption
    <3>2. outUsableBuffers' = (IF all THEN outUsableBuffers ELSE 0) + port[1].count
      BY <1>5 DEF Reenable, CountAfterDisable
    <3> QED
      BY <1>0, <3>1, <3>2
  <2> QED
    BY <1>0, <1>5, <2>1, <2>2, <2>3 DEF Frames, Reenable
<1>6. ASSUME NEW s \in Sizes, Start(s) PROVE Frames'
  BY <1>6 DEF Frames, Start, DecInv, Flags
<1>7. ASSUME NEW min \in MinFrames, NEW o \in Outcomes, InitializeCodaVpu(min, o) PROVE Frames'
  BY <1>7 DEF Frames, InitializeCodaVpu, PrepareVpu
<1>8. CASE Stop
  BY <1>8 DEF Frames, Stop
<1>9. CASE \/ \E role \in Roles : SetRole(role)
           \/ \E tag \in Tags : SetCodecTag(tag)
           \/ Picture \/ UNCHANGED vars
  BY <1>9 DEF Frames, SetRole, SetCodecTag, Picture, vars, session, decoder, memory
<1> QED
  BY <1>1, <1>2, <1>3, <1>4, <1>5, <1>6, <1>7, <1>8, <1>9 DEF Next

-----------------------------------------------------------------------------
(* The encoder                                                             *)

\* The instance counts resources as the decoder does.
LEMMA SameResources ==
  /\ Enc!Nothing = Nothing
  /\ \A a, b : Enc!Plus(a, b) = Plus(a, b) /\ Enc!Minus(a, b) = Minus(a, b)
  /\ \A n, at, mapAt : Enc!Made(n, at, mapAt) = Made(n, at, mapAt)
                       /\ Enc!Held(n, at, mapAt) = Held(n, at, mapAt)
<1>1. Enc!Nothing = Nothing
  BY DEF Nothing, Enc!Nothing
<1>2. \A a, b : Enc!Plus(a, b) = Plus(a, b) /\ Enc!Minus(a, b) = Minus(a, b)
  BY DEF Plus, Minus, Enc!Plus, Enc!Minus
<1>3. \A n, at, mapAt : Enc!Made(n, at, mapAt) = Made(n, at, mapAt)
                        /\ Enc!Held(n, at, mapAt) = Held(n, at, mapAt)
  <2>1. Enc!None = None
    BY DEF None, Enc!None
  <2>2. ASSUME NEW n, NEW at
        PROVE  Enc!Created(n, at) = Created(n, at) /\ Enc!Exported(n, at) = Exported(n, at)
               /\ Enc!Mapped(n, at) = Mapped(n, at)
    BY <2>1 DEF Created, Enc!Created, Exported, Enc!Exported, Mapped, Enc!Mapped
  <2>3. ASSUME NEW n, NEW at PROVE Enc!Allocated(n, at) = Allocated(n, at)
    <3>1. \A S : Enc!Cardinality(S) = Cardinality(S)
      BY DEF Cardinality, Enc!Cardinality
    <3> QED
      BY <1>2, <2>1, <2>2, <3>1 DEF Allocated, Enc!Allocated, ErrorExit, Enc!ErrorExit
  <2>4. ASSUME NEW n, NEW at, NEW mapAt PROVE Enc!Made(n, at, mapAt) = Made(n, at, mapAt)
    BY <1>1, <1>2, <2>1, <2>2, <2>3 DEF Made, Enc!Made
  <2>5. ASSUME NEW n, NEW at, NEW mapAt PROVE Enc!Held(n, at, mapAt) = Held(n, at, mapAt)
    BY <1>1, <2>1, <2>4 DEF Held, Enc!Held
  <2> QED
    BY <2>4, <2>5
<1> QED
  BY <1>1, <1>2, <1>3

\* What the client has set is in the state, defaults filled in.
Settings ==
  /\ vpuCodecId = Unset \/ vpuCodecId = Enc!CodecOfRole(asked.role)
  /\ inputSize = asked.size
  /\ inputSize # NoSize => inputSize[1] # 0 /\ inputSize[2] # 0
  /\ encBitRate = Enc!Wanted(asked.bitRate, 3 * 1024 * 1024)
  /\ asked.overlaid \/ encFrameRate = Enc!Wanted(asked.frameRate, 30)
  /\ encIntraRefreshMbs = asked.refresh

\* The image is of the size of the session, and none is left from an earlier one.
Image ==
  /\ encSize # NoSize
  /\ eCurState = "loaded" => hCSCMem = Enc!NoImage
  /\ hCSCMem.size # NoSize => hCSCMem.size = encSize
  /\ hCSCMem.size = NoSize => hCSCMem = Enc!NoImage

\* The handle and the image answer for what the kernel holds.
EncMemory ==
  /\ hBitStreamBuf \in Resources /\ hCSCMem.holds \in Resources
  /\ encKernel \in Resources /\ encLost \in Resources
  /\ Enc!MemoryAccounted

Asked == [role : {Unset} \cup EncRoles, size : Pairs, bitRate : Nat, frameRate : Nat,
          refresh : {0, 10}, overlaid : BOOLEAN]

EncInv ==
  /\ eCurState \in {"loaded", "idle", "gone"}
  /\ asked \in Asked
  /\ Settings /\ Image /\ EncMemory /\ VpuAsAsked /\ Enc!ImageFits

LEMMA EncInit == Enc!Init => EncInv
<1> SUFFICES ASSUME Enc!Init PROVE EncInv
  OBVIOUS
<1> USE DEF Enc!Init
<1>1. Nothing \in Resources /\ Plus(Nothing, Nothing) = Nothing
  BY NothingType, PlusNothing
<1>2. asked \in Asked
  BY DEF Asked, Unset, Enc!Unset, Enc!NoSize, Pairs
<1>3. Settings
  BY DEF Settings, Unset, Enc!Unset, NoSize, Enc!NoSize, Pairs, Enc!Wanted,
         Enc!VIDENC_DEF_BITRATE, Enc!VIDENC_DEF_FRAMERATE
<1>4. Image
  BY DEF Image, Enc!NoImage, NoSize, Enc!NoSize
<1>5. EncMemory
  BY <1>1, SameResources DEF EncMemory, Enc!NoImage, Enc!MemoryAccounted
<1> QED
  BY <1>2, <1>3, <1>4, <1>5 DEF EncInv, VpuAsAsked, Enc!VpuAsAsked, Enc!ImageFits

\* Settings are made in the Loaded state, where there is no image.
LEMMA SettingStep ==
  ASSUME EncInv,
         \/ \E role \in EncRoles : Enc!SetRole(role)
         \/ \E s \in EncSizes : Enc!SetPortDefinition(s)
         \/ \E c \in DOMAIN params : Enc!SetVideoParam(c)
         \/ \E rate \in Rates : Enc!SetBitrate(rate) \/ Enc!SetFramerate(rate)
         \/ \E mbs \in {0, 10} : Enc!SetIntraRefresh(mbs)
         \/ UNCHANGED encVars
  PROVE  EncInv'
<1>1. asked \in Asked
  BY DEF EncInv
<1>2. /\ UNCHANGED <<encSize, eCurState, encVpu, hBitStreamBuf, hCSCMem, encKernel, encLost,
                     copied>>
      /\ eCurState = "loaded" \/ UNCHANGED asked
  BY DEF Enc!SetRole, Enc!SetPortDefinition, Enc!SetVideoParam, Enc!SetBitrate,
         Enc!SetFramerate, Enc!SetIntraRefresh, Enc!session, Enc!memory, encVars
<1>3. asked' \in Asked /\ Settings'
  <2>1. ASSUME NEW role \in EncRoles, Enc!SetRole(role) PROVE asked' \in Asked /\ Settings'
    BY <1>1, <2>1 DEF Enc!SetRole, EncInv, Settings, Asked
  <2>2. ASSUME NEW s \in EncSizes, Enc!SetPortDefinition(s) PROVE asked' \in Asked /\ Settings'
    <3>1. s \in Pairs /\ s[1] # 0 /\ s[2] # 0
      BY EncAssumption DEF Pairs
    <3> QED
      BY <1>1, <2>2, <3>1 DEF Enc!SetPortDefinition, EncInv, Settings, Asked
  <2>3. ASSUME NEW c \in DOMAIN params, Enc!SetVideoParam(c) PROVE asked' \in Asked /\ Settings'
    BY <1>1, <2>3 DEF Enc!SetVideoParam, EncInv, Settings
  <2>4. ASSUME NEW rate \in Rates, Enc!SetBitrate(rate) PROVE asked' \in Asked /\ Settings'
    BY <1>1, <2>4, EncAssumption
       DEF Enc!SetBitrate, EncInv, Settings, Asked, Enc!Wanted, Enc!OrDefault,
           Enc!VIDENC_DEF_BITRATE
  <2>5. ASSUME NEW rate \in Rates, Enc!SetFramerate(rate) PROVE asked' \in Asked /\ Settings'
    <3>1. rate \in Nat
      BY EncAssumption
    <3>2. Enc!OrDefault(rate, Enc!VIDENC_DEF_FRAMERATE) = Enc!Wanted(rate, 30)
      BY <3>1 DEF Enc!OrDefault, Enc!Wanted, Enc!VIDENC_DEF_FRAMERATE
    <3>3. /\ asked' = [asked EXCEPT !.frameRate = rate, !.overlaid = FALSE]
          /\ encFrameRate' = Enc!Wanted(rate, 30)
          /\ UNCHANGED <<vpuCodecId, inputSize, encBitRate, encIntraRefreshMbs>>
      BY <2>5, <3>2 DEF Enc!SetFramerate
    <3>4. /\ asked' \in Asked /\ asked'.frameRate = rate /\ asked'.refresh = asked.refresh
          /\ asked'.role = asked.role /\ asked'.size = asked.size
          /\ asked'.bitRate = asked.bitRate
      BY <1>1, <3>1, <3>3 DEF Asked
    <3> QED
      BY <3>3, <3>4 DEF EncInv, Settings
  <2>6. ASSUME NEW mbs \in {0, 10}, Enc!SetIntraRefresh(mbs) PROVE asked' \in Asked /\ Settings'
    <3>1. /\ asked' = [asked EXCEPT !.refresh = mbs, !.overlaid = TRUE]
          /\ encIntraRefreshMbs' = mbs
          /\ UNCHANGED <<vpuCodecId, inputSize, encBitRate>>
      BY <2>6 DEF Enc!SetIntraRefresh
    <3>2. /\ asked' \in Asked /\ asked'.refresh = mbs /\ asked'.overlaid = TRUE
          /\ asked'.role = asked.role /\ asked'.size = asked.size
          /\ asked'.bitRate = asked.bitRate
      BY <1>1, <3>1 DEF Asked
    <3> QED
      BY <3>1, <3>2 DEF EncInv, Settings, Enc!Wanted
  <2>7. CASE UNCHANGED encVars
    BY <1>1, <2>7 DEF encVars, EncInv, Settings
  <2> QED
    BY <2>1, <2>2, <2>3, <2>4, <2>5, <2>6, <2>7
<1> QED
  BY <1>2, <1>3 DEF EncInv, Image, EncMemory, VpuAsAsked, Enc!VpuAsAsked,
                    Enc!ImageFits, Enc!MemoryAccounted

\* The size that is encoded is what the client asked for, or the default.
LEMMA SizeAsked ==
  ASSUME EncInv
  PROVE  /\ Enc!SizeToEncode = IF asked.size = NoSize THEN <<1280, 720>> ELSE asked.size
         /\ Enc!SizeToEncode # NoSize
<1>1. inputSize \in Pairs /\ inputSize = asked.size
  BY DEF EncInv, Settings, Asked
<1>2. CASE inputSize = NoSize
  BY <1>1, <1>2 DEF Enc!SizeToEncode, NoSize
<1>3. CASE inputSize # NoSize
  BY <1>1, <1>3 DEF Enc!SizeToEncode, EncInv, Settings, NoSize
<1> QED
  BY <1>2, <1>3

LEMMA OpenStep ==
  ASSUME EncInv, NEW o \in Enc!OpenOutcomes, Enc!EncoderOpen(o)
  PROVE  EncInv'
<1> DEFINE mapAt == IF o[1] = "map" THEN 1 ELSE Enc!None
           bits == Enc!Made(1, o[2], mapAt)
           allocates == o[1] \notin {"open", "init"}
<1>1. /\ eCurState = "loaded" /\ vpuCodecId # Unset
      /\ encSize' = Enc!SizeToEncode
      /\ eCurState' = IF o[1] = "done" THEN "idle" ELSE "loaded"
      /\ encLost' = Enc!Plus(encLost, hBitStreamBuf)
      /\ hBitStreamBuf' = IF allocates THEN Enc!Held(1, o[2], mapAt) ELSE Enc!Nothing
      /\ encKernel' = IF allocates THEN Enc!Plus(encKernel, bits) ELSE encKernel
      /\ UNCHANGED <<vpuCodecId, inputSize, encFrameRate, encBitRate, encIntraRefreshMbs, hCSCMem,
                     copied, asked>>
      /\ o[1] = "done" =>
           encVpu' = [codec |-> vpuCodecId, size |-> encSize', gopSize |-> Enc!VIDENC_DEF_FRAMERATE,
                      fps |-> encFrameRate,
                      bitrate |-> IF encBitRate = 0 THEN 10 * 1024 * 1024 ELSE encBitRate,
                      numIntraRefreshMbs |-> encIntraRefreshMbs]
  BY DEF Enc!EncoderOpen, Enc!settings, Unset, Enc!Unset
<1> HIDE DEF bits, allocates, mapAt
<1>2. bits \in Resources /\ bits = Enc!Held(1, o[2], mapAt)
  <2>1. mapAt \in Int
    BY DEF mapAt, Enc!None
  <2> QED
    BY <2>1, MadeIsHeld, SameResources DEF bits
<1>3. Settings'
  BY <1>1 DEF EncInv, Settings
<1>4. Image'
  BY <1>1, SizeAsked DEF EncInv, Image, NoSize, Enc!NoImage, Enc!NoSize
<1>5. EncMemory'
  <2>1. /\ encKernel \in Resources /\ encLost \in Resources /\ hBitStreamBuf \in Resources
        /\ hCSCMem.holds = Nothing /\ hCSCMem'.holds = Nothing /\ Nothing \in Resources
    BY <1>1, NothingType, SameResources DEF EncInv, EncMemory, Image, Enc!NoImage
  <2>2. encLost' = Plus(encLost, hBitStreamBuf) /\ encLost' \in Resources
    BY <1>1, <2>1, SameResources, PlusType
  <2>3. encKernel = encLost'
    BY <2>1, <2>2, SameResources, PlusNothing DEF EncInv, EncMemory, Enc!MemoryAccounted
  <2>4. /\ hBitStreamBuf' \in Resources /\ encKernel' \in Resources
        /\ encKernel' = Plus(encLost', hBitStreamBuf')
    <3>1. CASE allocates
      BY <1>1, <1>2, <2>1, <2>2, <2>3, <3>1, SameResources, PlusType
    <3>2. CASE ~ allocates
      BY <1>1, <2>1, <2>2, <2>3, <3>2, SameResources, PlusNothing
    <3> QED
      BY <3>1, <3>2
  <2>5. encKernel' = Plus(encLost', Plus(hBitStreamBuf', hCSCMem'.holds))
    BY <2>1, <2>4, PlusNothing
  <2> QED
    BY <2>1, <2>2, <2>4, <2>5, SameResources DEF EncMemory, Enc!MemoryAccounted
<1>6. VpuAsAsked'
  <2> SUFFICES ASSUME eCurState' = "idle" PROVE VpuAsAsked'
    BY DEF VpuAsAsked, Enc!VpuAsAsked
  <2>1. o[1] = "done"
    BY <1>1
  <2>2. asked.bitRate \in Nat /\ encBitRate = Enc!Wanted(asked.bitRate, 3 * 1024 * 1024)
        /\ encBitRate # 0
    BY DEF EncInv, Settings, Asked, Enc!Wanted
  <2> QED
    BY <1>1, <2>1, <2>2, SizeAsked
       DEF VpuAsAsked, Enc!VpuAsAsked, EncInv, Settings, NoSize, Enc!NoSize,
           Enc!VIDENC_DEF_BITRATE, Enc!VIDENC_DEF_FRAMERATE
<1> QED
  BY <1>1, <1>3, <1>4, <1>5, <1>6 DEF EncInv, Enc!ImageFits

\* The image answers for what its allocation and mapping left, whichever of
\* their calls failed, and whether or not the program survives it.
LEMMA EncodeStep ==
  ASSUME EncInv,
         NEW allocAt \in Enc!AllocateCalls(3) \cup {Enc!None},
         NEW mapAt \in Enc!MapCalls(3) \cup {Enc!None},
         Enc!EncodeFrame(allocAt, mapAt)
  PROVE  EncInv'
<1> DEFINE made == Enc!Made(3, allocAt, mapAt)
<1>1. made \in Resources /\ made = Enc!Held(3, allocAt, mapAt)
  <2>1. mapAt \in Int
    BY DEF Enc!None, Enc!MapCalls
  <2> QED
    BY <2>1, MadeIsHeld, SameResources
<1>2. /\ eCurState = "idle" /\ eCurState' \in {"idle", "gone"}
      /\ UNCHANGED <<vpuCodecId, inputSize, encFrameRate, encBitRate, encIntraRefreshMbs, asked,
                     encSize, encVpu, hBitStreamBuf, encLost>>
  <2>1. Enc!Survives(mapAt) \subseteq {"idle", "gone"}
    BY DEF Enc!Survives
  <2> QED
    BY <2>1 DEF Enc!EncodeFrame, Enc!settings
<1>3. Settings' /\ VpuAsAsked'
  BY <1>2 DEF EncInv, Settings, VpuAsAsked, Enc!VpuAsAsked
<1>4. CASE hCSCMem.size # NoSize
  <2>1. /\ UNCHANGED <<hCSCMem, encKernel>>
        /\ copied' = IF allocAt = Enc!None THEN <<encSize, hCSCMem.size>> ELSE copied
    BY <1>4 DEF Enc!EncodeFrame, NoSize, Enc!NoSize
  <2> QED
    BY <1>2, <1>3, <1>4, <2>1
       DEF EncInv, Image, EncMemory, Enc!MemoryAccounted, Enc!ImageFits, NoSize, Enc!NoSize
<1>5. CASE hCSCMem.size = NoSize
  <2>1. hCSCMem.holds = Nothing
    BY <1>5, SameResources DEF EncInv, Image, Enc!NoImage
  <2>2. /\ encKernel' = Plus(encKernel, made)
        /\ hCSCMem' = IF allocAt # Enc!None THEN Enc!NoImage
                      ELSE [size |-> encSize, holds |-> Enc!Held(3, Enc!None, mapAt)]
        /\ copied' = IF allocAt = Enc!None THEN <<encSize, hCSCMem'.size>> ELSE copied
    BY <1>5, SameResources DEF Enc!EncodeFrame, NoSize, Enc!NoSize
  <2>3. hCSCMem'.holds = made
    <3>1. CASE allocAt = Enc!None
      BY <1>1, <2>2, <3>1
    <3>2. CASE allocAt # Enc!None
      BY <1>1, <2>2, <3>2 DEF Enc!Held, Enc!NoImage
    <3> QED
      BY <3>1, <3>2
  <2> HIDE DEF made
  <2>4. hBitStreamBuf \in Resources /\ encKernel \in Resources /\ encLost \in Resources
    BY DEF EncInv, EncMemory
  <2>5. EncMemory'
    <3>1. encKernel' \in Resources
      BY <1>1, <2>2, <2>4, PlusType
    <3>2. encKernel = Plus(encLost, hBitStreamBuf)
      BY <2>1, <2>4, SameResources, PlusNothing DEF EncInv, EncMemory, Enc!MemoryAccounted
    <3>3. encKernel' = Plus(encLost, Plus(hBitStreamBuf, made))
      BY <1>1, <2>2, <2>4, <3>2, PlusAssociates
    <3> QED
      BY <1>1, <1>2, <2>3, <2>4, <3>1, <3>3, SameResources DEF EncMemory, Enc!MemoryAccounted
  <2>6. Image' /\ Enc!ImageFits'
    <3>1. CASE allocAt = Enc!None
      BY <1>2, <1>5, <2>2, <3>1 DEF EncInv, Image, Enc!ImageFits, NoSize
    <3>2. CASE allocAt # Enc!None
      BY <1>2, <1>5, <2>2, <3>2 DEF EncInv, Image, Enc!ImageFits, NoSize, Enc!NoSize, Enc!NoImage
    <3> QED
      BY <3>1, <3>2
  <2> QED
    BY <1>2, <1>3, <2>5, <2>6 DEF EncInv
<1> QED
  BY <1>4, <1>5

LEMMA CloseStep == ASSUME EncInv, Enc!Close PROVE EncInv'
<1>1. /\ eCurState' = "loaded" /\ hBitStreamBuf' = Nothing /\ hCSCMem' = Enc!NoImage
      /\ encKernel' = Minus(encKernel, Plus(hBitStreamBuf, hCSCMem.holds))
      /\ UNCHANGED <<vpuCodecId, inputSize, encFrameRate, encBitRate, encIntraRefreshMbs, asked,
                     encSize, encLost, copied>>
  BY SameResources DEF Enc!Close, Enc!EncoderClose, Enc!settings
<1>2. Settings' /\ Image' /\ VpuAsAsked' /\ Enc!ImageFits'
  BY <1>1 DEF EncInv, Settings, Image, VpuAsAsked, Enc!VpuAsAsked, Enc!ImageFits, Enc!NoImage,
              NoSize, Enc!NoSize
<1>3. EncMemory'
  <2>1. /\ hBitStreamBuf \in Resources /\ hCSCMem.holds \in Resources
        /\ encKernel \in Resources /\ encLost \in Resources
        /\ encKernel = Plus(encLost, Plus(hBitStreamBuf, hCSCMem.holds))
    BY SameResources DEF EncInv, EncMemory, Enc!MemoryAccounted
  <2> DEFINE held == Plus(hBitStreamBuf, hCSCMem.holds)
  <2>2. held \in Resources
    BY <2>1, PlusType
  <2> HIDE DEF held
  <2>3. encKernel' = Minus(Plus(encLost, held), held)
    BY <1>1, <2>1 DEF held
  <2>4. encKernel' = encLost
    BY <2>1, <2>2, <2>3, MinusCancels
  <2>5. hCSCMem'.holds = Nothing /\ Nothing \in Resources /\ Plus(Nothing, Nothing) = Nothing
    BY <1>1, NothingType, PlusNothing, SameResources DEF Enc!NoImage
  <2>6. encKernel' = Plus(encLost', Plus(hBitStreamBuf', hCSCMem'.holds))
    BY <1>1, <2>1, <2>4, <2>5, PlusNothing
  <2> QED
    BY <1>1, <2>1, <2>4, <2>5, <2>6, SameResources DEF EncMemory, Enc!MemoryAccounted
<1> QED
  BY <1>1, <1>2, <1>3 DEF EncInv

LEMMA EncStep == ASSUME EncInv, Enc!Next \/ UNCHANGED encVars PROVE EncInv'
BY SettingStep, OpenStep, EncodeStep, CloseStep DEF Enc!Next

-----------------------------------------------------------------------------
(* Theorems                                                                *)

LEMMA DecInvariant == MCSpec => []DecInv
<1>1. MCInit => DecInv
  BY DecInit DEF MCInit
<1>2. DecInv /\ [MCNext]_<<component, vars, encVars>> => DecInv'
  BY DecStep DEF MCNext, DecoderMoves, EncoderMoves
<1> QED
  BY <1>1, <1>2, PTL DEF MCSpec

LEMMA EncInvariant == MCSpec => []EncInv
<1>1. MCInit => EncInv
  BY EncInit DEF MCInit
<1>2. EncInv /\ [MCNext]_<<component, vars, encVars>> => EncInv'
  BY EncStep DEF MCNext, DecoderMoves, EncoderMoves
<1> QED
  BY <1>1, <1>2, PTL DEF MCSpec

(***************************************************************************)
(* The kernel's memory is accounted for in the sessions of both            *)
(* components, however many there are and whichever calls fail.            *)
(***************************************************************************)
THEOREM MemoryIsAccounted == MCSpec => []AllMemoryAccounted
<1>1. DecInv /\ EncInv => AllMemoryAccounted
  BY DEF DecInv, Memory, EncInv, EncMemory, AllMemoryAccounted
<1> QED
  BY <1>1, DecInvariant, EncInvariant, PTL

(***************************************************************************)
(* The VPU encodes with what the client set last, whatever it set before.  *)
(***************************************************************************)
THEOREM VpuIsAsAsked == MCSpec => []VpuAsAsked
<1>1. EncInv => VpuAsAsked
  BY DEF EncInv
<1> QED
  BY <1>1, EncInvariant, PTL

(***************************************************************************)
(* A prepared VPU has its minimum of frames beside one for every output    *)
(* buffer, if no reallocation disables both ports at once; a minimum up to *)
(* 8 leaves the places of the handle enough for the most buffers a port    *)
(* can have.                                                               *)
(***************************************************************************)
THEOREM FramesAreCounted ==
  ASSUME ~ AllPorts, \A min \in MinFrames : min + 24 <= MAX_DEC_FRAME_BUFFERS
  PROVE  MCSpec => []FramesCounted
<1>1. MCInit => Frames
  BY FramesInit DEF MCInit
<1>2. DecInv /\ Frames /\ [MCNext]_<<component, vars, encVars>> => Frames'
  <2>1. UNCHANGED vars => [Next]_vars
    OBVIOUS
  <2> QED
    BY <2>1, FramesStep DEF MCNext, DecoderMoves, EncoderMoves
<1>3. DecInv /\ Frames => FramesCounted
  BY SessionAssumption DEF DecInv, DecTypes, Handles, Frames, FramesCounted, MAX_DEC_FRAME_BUFFERS
<1> QED
  BY <1>1, <1>2, <1>3, DecInvariant, PTL DEF MCSpec

LEMMA AgreeInvariant == ASSUME Redefines PROVE MCSpec => []Agree
<1>1. MCInit => Agree
  BY AgreeInit DEF MCInit
<1>2. DecInv /\ Agree /\ [MCNext]_<<component, vars, encVars>> => Agree'
  <2>1. UNCHANGED vars => [Next]_vars
    OBVIOUS
  <2> QED
    BY <2>1, AgreeStep DEF MCNext, DecoderMoves, EncoderMoves
<1> QED
  BY <1>1, <1>2, DecInvariant, PTL DEF MCSpec

(***************************************************************************)
(* Pictures of any size fit the memory they are copied into, if the client *)
(* sets the size of each stream on the input port of the decoder.          *)
(***************************************************************************)
THEOREM EveryPictureFits == ASSUME Redefines PROVE MCSpec => []PicturesFit
<1>1. DecInv /\ Agree => PictureFits
  <2> SUFFICES ASSUME DecInv, Agree PROVE PictureFits
    OBVIOUS
  <2>1. CASE shown = NoSize
    <3>1. BytesCopied(shown) = 0
      BY <2>1 DEF BytesCopied, Width, Height, NoSize
    <3>2. client.nAllocLen \in Nat
      BY DEF DecInv, DecTypes
    <3> QED
      BY <3>1, <3>2 DEF PictureFits
  <2>2. CASE shown # NoSize
    BY <2>2 DEF DecInv, Flags, DecTypes, Agree, PictureFits
  <2> QED
    BY <2>1, <2>2
<1>2. DecInv /\ Agree /\ EncInv => PicturesFit
  BY <1>1 DEF EncInv, PicturesFit
<1> QED
  BY <1>2, AgreeInvariant, DecInvariant, EncInvariant, PTL

(***************************************************************************)
(* Under the same condition a picture has the size that is announced for   *)
(* it, also when the sequence header changed the size.                     *)
(***************************************************************************)
THEOREM PictureIsAsAnnounced == ASSUME Redefines PROVE MCSpec => []PictureAsAnnounced
<1>1. DecInv /\ Agree => PictureAsAnnounced
  BY DEF DecInv, Flags, DecTypes, Agree, PictureAsAnnounced, OutputCrop
<1> QED
  BY <1>1, AgreeInvariant, DecInvariant, PTL

===============================================================================
