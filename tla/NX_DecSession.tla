----------------------------- MODULE NX_DecSession -----------------------------
(***************************************************************************)
(* From the parameters of the video decoder to its pictures: which decode  *)
(* function a session opens, which size its pictures and output buffers    *)
(* have, how many frame buffers the VPU gets, and what of the kernel's     *)
(* memory it holds.  A session allocates the output buffers (Populate),    *)
(* opens the codec (Start), looks at the first sequence header of an AVC   *)
(* stream (Sequence, after which the client reallocates: Reenable),        *)
(* prepares the VPU (InitializeCodaVpu, where any call may fail), copies   *)
(* pictures and closes the codec (Stop).                                   *)
(*                                                                         *)
(* NX_VidDec has the threads and buffers of a session; here it is a phase. *)
(* The client sets parameters in the Loaded state, as OMX_SetParameter     *)
(* asks, goes on only after an accepted size, and allocates buffers of the *)
(* size the port asks for.  Left out are the port formats, the profile and *)
(* level parameters, which are checked or stored and used by nothing else, *)
(* and the WMV parameter, which only the header of a VC-1 stream uses.     *)
(***************************************************************************)
EXTENDS NX_VpuMemory

CONSTANTS Roles,      \* roles the client sets
          Tags,       \* codec tags the client sets, as upper case strings
          Sizes,      \* picture sizes <<width, height>> in use
          MinFrames,  \* numbers of frame buffers the VPU may ask for
          Redefines,  \* does the client set the size of the stream on the input
                      \* port before every session?
          AllPorts,   \* may the client reallocate by disabling both ports at once?
          MaxLost     \* bound: sessions start while no more bit stream buffers are lost

\* Sizes have the type OMX_U32; a client that plays a stream has one.
ASSUME SessionAssumption ==
  /\ Sizes \subseteq (Nat \ {0}) \X (Nat \ {0})
  /\ MinFrames \subseteq Nat
  /\ Redefines \in BOOLEAN /\ AllPorts \in BOOLEAN

Unset == "unset"
NoSize == <<0, 0>>

\* videoCodecId as the role sets it; names drop the prefix video_decoder.
CodecOfRole(role) ==
  CASE role = "avc" -> "AVC"
    [] role \in {"mpeg4", "x-flv", "mp43"} -> "MP4"
    [] role = "mpeg2" -> "MP2"
    [] role \in {"h263", "3gpp"} -> "H263"
    [] role \in {"x-ms-wmv", "wvc1", "vc1"} -> "VC1"
    [] role = "x-pn-realvideo" -> "RV"
    [] role = "vp8" -> "VP8"

\* Two roles bring a codec tag, the others leave the tag that is there.
TagOfRole(role, tag) ==
  CASE role = "x-flv" -> "FLV1" [] role = "mp43" -> "MP43" [] OTHER -> tag

\* CodecTagToMp4Class: these tags make videoCodecId NX_DIV3_DEC; the mp4Class
\* it also finds is only traced.
Div3Tags == {"DIV3", "MP43", "MPG3", "DVX3", "AP41"}
CodecTagToMp4Class(tag, codecId) == IF tag \in Div3Tags THEN "DIV3" ELSE codecId

-----------------------------------------------------------------------------
VARIABLES
  videoCodecId, codecTag,
  port,                     \* 0, 1 -> size, count, min and bytes of stdPortDef
  refused,                  \* the last input size was answered with an error
  size,                     \* <<pDecComp->width, pDecComp->height>>
  bNeedSequenceData, bInitialized, bEnabled,
  DecodeFrame,              \* the decode function, Unset without a codec
  outUsableBuffers,
  client,                   \* what the client has: the number and the size of
                            \* its output buffers, and whether it has defined
                            \* the input size since the last session
  phase,                    \* "loaded", "idle" or "executing"
  stream,                   \* the size in the stream of the session
  shown,                    \* the size of the last picture copied, or NoSize
  hVpuCodec,                \* the handle: what its bit stream buffer (bits) and
                            \* its frame buffers (frames) hold, numFrameBuffers
                            \* (num), the minimum of the VPU (min), and whether
                            \* its input queue is streaming
  kernel,                   \* the resources in the kernel
  lost,                     \* those of bit stream buffers no handle names
  failed                    \* InitializeCodaVpu has failed in this session

format == <<videoCodecId, codecTag>>
decoder == <<size, bNeedSequenceData, bInitialized, bEnabled, DecodeFrame, outUsableBuffers>>
memory == <<hVpuCodec, kernel, lost, failed>>
session == <<decoder, phase, stream, shown, memory>>
vars == <<format, port, refused, client, session>>

VID_OUTPORT_MIN_BUF_CNT == 12
VID_OUTPORT_MIN_BUF_CNT_H264_UNDER720P == 22
VID_OUTPORT_MIN_BUF_CNT_H264_1080P == 12
MAX_DEC_FRAME_BUFFERS == 32

NoHandle == [bits |-> Nothing, frames |-> Nothing, num |-> 0, min |-> 0,
             streaming |-> FALSE]

Init ==
  /\ videoCodecId = Unset /\ codecTag = Unset
  /\ port = [p \in {0, 1} |->
               IF p = 0 THEN [size |-> NoSize, count |-> 6, min |-> 6, bytes |-> 4 * 1024 * 1024]
               ELSE [size |-> NoSize, count |-> 12, min |-> 12, bytes |-> 4 * 1024]]
  /\ refused = FALSE /\ size = NoSize
  /\ bNeedSequenceData = TRUE /\ bInitialized = FALSE /\ bEnabled = TRUE
  /\ DecodeFrame = Unset /\ outUsableBuffers = 0
  /\ client = [buffers |-> 0, nAllocLen |-> 0, defined |-> FALSE]
  /\ phase = "loaded" /\ stream = NoSize /\ shown = NoSize
  /\ hVpuCodec = NoHandle /\ kernel = Nothing /\ lost = Nothing /\ failed = FALSE

-----------------------------------------------------------------------------
(* SetParameter                                                            *)

\* OMX_IndexParamStandardComponentRole; an unknown role is refused with
\* nothing changed.
SetRole(role) ==
  /\ phase = "loaded"
  /\ videoCodecId' = CodecOfRole(role)
  /\ codecTag' = TagOfRole(role, codecTag)
  /\ UNCHANGED <<port, refused, client, session>>

\* OMX_IndexVideoDecoderCodecTag
SetCodecTag(tag) ==
  /\ phase = "loaded"
  /\ codecTag' = tag
  /\ UNCHANGED <<videoCodecId, port, refused, client, session>>

Width(s) == s[1]
Height(s) == s[2]
MBs(s) == ((Width(s) + 15) \div 16) * ((Height(s) + 15) \div 16)

\* Frames of the output port for an input size.
OutputCount(codec, s) ==
  IF codec # "AVC" THEN VID_OUTPORT_MIN_BUF_CNT
  ELSE IF MBs(s) <= 80 * 45 THEN VID_OUTPORT_MIN_BUF_CNT_H264_UNDER720P
  ELSE VID_OUTPORT_MIN_BUF_CNT_H264_1080P

\* Not the code: the output port keeps its buffer size.
OutputFor_BytesKept(p, codec, s) ==
  [p EXCEPT !.size = s, !.count = OutputCount(codec, s), !.min = OutputCount(codec, s)]

\* The output port after the input port has got size s.
OutputFor(p, codec, s) ==
  [p EXCEPT !.size = s, !.count = OutputCount(codec, s), !.min = OutputCount(codec, s),
            !.bytes = (Width(s) * Height(s) * 3) \div 2]

\* OMX_IndexParamPortDefinition of the input port: NX_BaseSetParameter, then
\* the component's part.  A size beyond 1920 x 1088 is refused only after
\* everything was set.
SetInputDefinition(s) ==
  /\ phase = "loaded"
  /\ size' = s
  /\ port' = [port EXCEPT ![0].size = s, ![1] = OutputFor(@, videoCodecId, s)]
  /\ refused' = (MBs(s) > 120 * 68)
  /\ client' = [client EXCEPT !.defined = TRUE]
  /\ UNCHANGED <<format, bNeedSequenceData, bInitialized, bEnabled, DecodeFrame,
                 outUsableBuffers, phase, stream, shown, memory>>

\* The same of the output port: the client changes the number of buffers in
\* the definition it has got.
SetOutputDefinition(more) ==
  /\ phase = "loaded" \/ ~bEnabled
  /\ port' = [port EXCEPT ![1].count = port[1].min + more]
  /\ UNCHANGED <<format, refused, client, session>>

\* OMX_IndexConfigCommonOutputCrop, as GetConfig answers it for port p.
OutputCrop(p) == port[p].size

-----------------------------------------------------------------------------
(* A session                                                               *)

\* The client allocates the output buffers and the component gets to Idle.
Populate ==
  /\ phase = "loaded" /\ videoCodecId # Unset /\ port[0].size # NoSize /\ ~refused
  /\ Redefines => client.defined
  /\ lost.fd <= MaxLost
  /\ client' = [client EXCEPT !.buffers = port[1].count, !.nAllocLen = port[1].bytes]
  /\ outUsableBuffers' = outUsableBuffers + port[1].count
  /\ phase' = "idle"
  /\ UNCHANGED <<format, port, refused, size, bNeedSequenceData, bInitialized, bEnabled,
                 DecodeFrame, stream, shown, memory>>

\* DecodeFrame for a videoCodecId.
Decoder(codecId) == IF codecId = "H263" THEN "MP4" ELSE codecId

\* Idle to Executing: openVideoCodec takes the size of the input port.
Start(s) ==
  /\ phase = "idle"
  /\ phase' = "executing" /\ stream' = s
  /\ Redefines /\ ~bNeedSequenceData => s = port[0].size
  /\ size' = port[0].size
  /\ videoCodecId' = CodecTagToMp4Class(codecTag, videoCodecId)
  /\ DecodeFrame' = Decoder(videoCodecId')
  /\ hVpuCodec' = NoHandle
  /\ UNCHANGED <<codecTag, port, refused, client, bNeedSequenceData, bInitialized, bEnabled,
                 outUsableBuffers, shown, kernel, lost, failed>>

Aligned(n) == ((n + 15) \div 16) * 16

\* Not the code: the size the pictures are copied with stays.
Reconfigured_PortOnly(s) ==
  /\ port' = [port EXCEPT ![1].size = s,
                          ![1].bytes = (Aligned(Width(s)) * Aligned(Height(s)) * 3) \div 2]
  /\ bEnabled' = FALSE
  /\ UNCHANGED size

\* What AVCCheckPortReconfiguration does for a new size: the number of buffers
\* and the input port stay.
Reconfigured(s) ==
  /\ port' = [port EXCEPT ![1].size = s,
                          ![1].bytes = (Aligned(Width(s)) * Aligned(Height(s)) * 3) \div 2]
  /\ bEnabled' = FALSE
  /\ size' = s

\* The first sequence header; only the first session of a component looks.
Sequence ==
  /\ phase = "executing" /\ DecodeFrame = "AVC" /\ bNeedSequenceData /\ bEnabled
  /\ bNeedSequenceData' = FALSE
  /\ IF stream # size THEN Reconfigured(stream) ELSE UNCHANGED <<port, bEnabled, size>>
  /\ UNCHANGED <<format, refused, client, bInitialized, DecodeFrame, outUsableBuffers, phase,
                 stream, shown, memory>>

\* Not the code: the output port being disabled leaves the count as it is.
CountAfterDisable_Stays(all) == outUsableBuffers

\* PortDisable of the output port resets the count, PortDisable(OMX_ALL) does
\* not.
CountAfterDisable(all) == IF all THEN outUsableBuffers ELSE 0

\* The client answers OMX_EventPortSettingsChanged: it disables the output
\* port, or both, allocates new buffers and enables the port.
Reenable(all) ==
  /\ phase = "executing" /\ ~bEnabled
  /\ bEnabled' = TRUE
  /\ client' = [client EXCEPT !.buffers = port[1].count, !.nAllocLen = port[1].bytes]
  /\ outUsableBuffers' = CountAfterDisable(all) + port[1].count
  /\ UNCHANGED <<format, port, refused, size, bNeedSequenceData, bInitialized, DecodeFrame,
                 phase, stream, shown, memory>>

\* The ways InitializeCodaVpu ends: the call that fails, and of an allocation
\* or a mapping which of its calls; frames all but the last are complete then.
\* "format" stands for VIDIOC_S_FMT and _REQBUFS, "queueBits" for VIDIOC_QBUF,
\* and "parse" for what follows in NX_V4l2DecParseVideoCfg; "request" and
\* "stream" are the first and the last call of NX_V4l2DecInit.
Outcome(step, at) == [step |-> step, at |-> at]
Outcomes ==
  {Outcome(s, None) : s \in {"done", "format", "queueBits", "parse", "request", "queue",
                             "stream"}}
  \cup {Outcome("allocateBits", at) : at \in AllocateCalls(1)}
  \cup {Outcome("mapBits", at) : at \in MapCalls(1)}
  \cup {Outcome("allocate", at) : at \in AllocateCalls(3)}
  \cup {Outcome("map", at) : at \in MapCalls(3)}

At(o, step) == IF o.step = step THEN o.at ELSE None

\* Frames that are allocated and mapped when it ends that way.
Complete(o, num) ==
  CASE o.step \in {"done", "queue", "stream"} -> num
    [] o.step \in {"allocate", "map"} -> num - 1
    [] OTHER -> 0

\* NX_V4l2DecParseVideoCfg and NX_V4l2DecInit.  Every try allocates a bit
\* stream buffer over the one that is there.  The driver does not take another
\* format for a queue that is streaming.
PrepareVpu(min, o) ==
  LET num == min + outUsableBuffers
      bitsAt == At(o, "allocateBits")
      frame == o.step \in {"allocate", "map"}
      madeBits == IF o.step = "format" THEN Nothing ELSE Made(1, bitsAt, At(o, "mapBits"))
      frames(last) == Plus(Times(Complete(o, num), Made(3, None, None)),
                           IF frame THEN last ELSE Nothing)
      frameAt == At(o, "allocate")
      frameMapAt == At(o, "map")
  IN /\ hVpuCodec.streaming => o.step = "format"
     /\ hVpuCodec' =
          IF o.step = "format" THEN hVpuCodec
          ELSE [bits |-> Held(1, bitsAt, At(o, "mapBits")), frames |-> frames(Held(3, frameAt, frameMapAt)),
                num |-> num, min |-> min,
                streaming |-> o.step \notin {"allocateBits", "mapBits", "queueBits"}]
     /\ lost' = IF o.step = "format" THEN lost ELSE Plus(lost, hVpuCodec.bits)
     /\ kernel' = Plus(kernel, Plus(madeBits, frames(Made(3, frameAt, frameMapAt))))

\* The decoders end the buffer thread after a failure; that of DivX 3 tries
\* again with the next input.
InitializeCodaVpu(min, o) ==
  /\ phase = "executing" /\ bEnabled /\ ~bInitialized
  /\ ~(DecodeFrame = "AVC" /\ bNeedSequenceData)
  /\ failed => DecodeFrame = "DIV3" /\ lost.fd <= MaxLost
  /\ PrepareVpu(min, o)
  /\ bInitialized' = (o.step = "done") /\ failed' = (o.step # "done")
  /\ UNCHANGED <<format, port, refused, client, size, bNeedSequenceData, bEnabled,
                 DecodeFrame, outUsableBuffers, phase, stream, shown>>

\* A picture is copied into an output buffer (CopyImageToBufferYV12).
Picture ==
  /\ phase = "executing" /\ bEnabled /\ bInitialized
  /\ shown' = size
  /\ UNCHANGED <<format, port, refused, client, decoder, phase, stream, memory>>

\* What NX_V4l2DecClose frees: the frames, and not the bit stream buffer.
FreedFrames == hVpuCodec.frames

\* Executing to Idle to Loaded: closeVideoCodec, and the buffers are freed.
Stop ==
  /\ phase = "executing" /\ bEnabled
  /\ phase' = "loaded" /\ shown' = NoSize /\ stream' = NoSize
  /\ client' = [buffers |-> 0, nAllocLen |-> 0, defined |-> FALSE]
  /\ DecodeFrame' = Unset /\ bInitialized' = FALSE /\ bNeedSequenceData' = FALSE
  /\ outUsableBuffers' = 0
  /\ kernel' = Minus(kernel, FreedFrames) /\ lost' = Plus(lost, hVpuCodec.bits)
  /\ hVpuCodec' = NoHandle /\ failed' = FALSE
  /\ UNCHANGED <<format, port, refused, size, bEnabled>>

-----------------------------------------------------------------------------
Next ==
  \/ \E role \in Roles : SetRole(role)
  \/ \E tag \in Tags : SetCodecTag(tag)
  \/ \E s \in Sizes : SetInputDefinition(s) \/ Start(s)
  \/ \E more \in {0, 2} : SetOutputDefinition(more)
  \/ Populate \/ Sequence
  \/ \E all \in {FALSE, AllPorts} : Reenable(all)
  \/ \E min \in MinFrames : \E o \in Outcomes : InitializeCodaVpu(min, o)
  \/ Picture \/ Stop

Spec == Init /\ [][Next]_vars

-----------------------------------------------------------------------------
(* Properties                                                              *)

\* Bytes CopyImageToBufferYV12 writes for a picture of size s.
BytesCopied(s) == Width(s) * Height(s) + 2 * ((Width(s) \div 2) * (Height(s) \div 2))

\* A picture fits the output buffer it is copied into: the size the codec is
\* opened or reconfigured with and the size the port asked of the client, set
\* at different times, agree.
PictureFits == BytesCopied(shown) <= client.nAllocLen

\* A picture has the size the output port and the crop rectangle announce when
\* it is copied, and in an AVC session the size of the stream.
PictureAsAnnounced ==
  shown # NoSize =>
    /\ shown = OutputCrop(1)
    /\ DecodeFrame = "AVC" => shown = stream

\* A prepared VPU has its minimum of frames beside one for every output buffer,
\* so that it can decode while all buffers show pictures, and no more frames
\* than its handle has places for.
FramesCounted ==
  bInitialized =>
    /\ hVpuCodec.num = hVpuCodec.min + client.buffers
    /\ hVpuCodec.num <= MAX_DEC_FRAME_BUFFERS

\* Whatever call of a session fails, the kernel holds nothing but what the open
\* handle will give back and bit stream buffers that were lost.
MemoryAccounted == kernel = Plus(lost, Plus(hVpuCodec.bits, hVpuCodec.frames))

=============================================================================
