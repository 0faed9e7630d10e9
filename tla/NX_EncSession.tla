----------------------------- MODULE NX_EncSession -----------------------------
(***************************************************************************)
(* From the parameters of the video encoder to its pictures: what          *)
(* EncoderOpen tells the VPU, the size of the image every picture is       *)
(* copied into, and what of the kernel's memory a session holds.  NX_VidEnc *)
(* has the threads and buffers of a session; here it is an open codec.     *)
(* The client sets parameters in the Loaded state.  The MPEG-4, AVC and    *)
(* H.263 structures are only stored; which one a call overwrites is kept,  *)
(* because GetParameter answers it.                                        *)
(***************************************************************************)
EXTENDS NX_VpuMemory

CONSTANTS Roles,   \* roles the client sets, without the prefix video_encoder.
          Sizes,   \* picture sizes <<width, height>> it sets on the input port
          Rates    \* bit rates and frame rates it sets; 0 asks for the default

Unset == "unset"
NoSize == <<0, 0>>
NoVpu == [codec |-> Unset]
VIDENC_DEF_FRAMERATE == 30
VIDENC_DEF_BITRATE == 3 * 1024 * 1024

VARIABLES
  vpuCodecId,
  inputSize,           \* of the definition of the input port
  encSize,             \* <<encWidth, encHeight>>
  encFrameRate, encBitRate, encIntraRefreshMbs,
  params,              \* "mp4", "avc", "h263" -> whose structure was last put there
  eCurState,           \* "loaded" or "idle", Executing not told apart; "gone": the
                       \* program died in EncodeFrame
  hVpuCodec,           \* what the open VPU was told, or NoVpu
  hBitStreamBuf,       \* what the bit stream buffer of hVpuCodec holds
  hCSCMem,             \* the size of the image, or NoSize, and what it holds
  kernel,              \* the resources in the kernel
  lost,                \* the resources of handles that were overwritten
  copied,              \* the sizes of the last picture and the image it went to
  asked                \* the client's view of what it has set; overlaid: an intra
                       \* refresh came after the frame rate

settings == <<vpuCodecId, inputSize, encFrameRate, encBitRate, encIntraRefreshMbs, params>>
memory == <<hVpuCodec, hBitStreamBuf, hCSCMem, kernel, lost>>
session == <<encSize, eCurState, memory, copied>>
vars == <<settings, session, asked>>

NoImage == [size |-> NoSize, holds |-> Nothing]

Init ==
  /\ vpuCodecId = Unset /\ inputSize = NoSize /\ encSize = <<1024, 768>>
  /\ encFrameRate = VIDENC_DEF_FRAMERATE /\ encBitRate = VIDENC_DEF_BITRATE
  /\ encIntraRefreshMbs = 0
  /\ params = [mp4 |-> "mp4", avc |-> "avc", h263 |-> "h263"]
  /\ eCurState = "loaded" /\ hVpuCodec = NoVpu /\ hBitStreamBuf = Nothing
  /\ hCSCMem = NoImage /\ kernel = Nothing /\ lost = Nothing
  /\ copied = <<NoSize, NoSize>>
  /\ asked = [role |-> Unset, size |-> NoSize, bitRate |-> 0, frameRate |-> 0, refresh |-> 0,
              overlaid |-> FALSE]

-----------------------------------------------------------------------------
(* SetParameter                                                            *)

CodecOfRole(role) == CASE role = "avc" -> "AVC" [] role = "mpeg4" -> "MP4"
                       [] role \in {"h263", "3gpp"} -> "H263"

SetRole(role) ==
  /\ eCurState = "loaded"
  /\ vpuCodecId' = CodecOfRole(role)
  /\ asked' = [asked EXCEPT !.role = role]
  /\ UNCHANGED <<inputSize, encFrameRate, encBitRate, encIntraRefreshMbs, params, session>>

SetPortDefinition(s) ==
  /\ eCurState = "loaded"
  /\ inputSize' = s
  /\ asked' = [asked EXCEPT !.size = s]
  /\ UNCHANGED <<vpuCodecId, encFrameRate, encBitRate, encIntraRefreshMbs, params, session>>

\* Where the structure of OMX_IndexParamVideoMpeg4, -Avc and -H263 is copied
\* to: that of AVC goes over the MPEG-4 parameters.
Destination(c) == IF c = "h263" THEN "h263" ELSE "mp4"

SetVideoParam(c) ==
  /\ eCurState = "loaded"
  /\ params' = [params EXCEPT ![Destination(c)] = c]
  /\ UNCHANGED <<vpuCodecId, inputSize, encFrameRate, encBitRate, encIntraRefreshMbs,
                 session, asked>>

\* A rate of 0 asks for the default.
OrDefault(rate, default) == IF rate = 0 THEN default ELSE rate

SetBitrate(rate) ==
  /\ eCurState = "loaded"
  /\ encBitRate' = OrDefault(rate, VIDENC_DEF_BITRATE)
  /\ asked' = [asked EXCEPT !.bitRate = rate]
  /\ UNCHANGED <<vpuCodecId, inputSize, encFrameRate, encIntraRefreshMbs, params, session>>

SetFramerate(rate) ==
  /\ eCurState = "loaded"
  /\ encFrameRate' = OrDefault(rate, VIDENC_DEF_FRAMERATE)
  /\ asked' = [asked EXCEPT !.frameRate = rate, !.overlaid = FALSE]
  /\ UNCHANGED <<vpuCodecId, inputSize, encBitRate, encIntraRefreshMbs, params, session>>

\* A cyclic intra refresh, the only mode that is not refused.  The case has no
\* break: the structure is read again as a frame rate, whose place holds
\* OMX_VIDEO_IntraRefreshCyclic, which is 0.
SetIntraRefresh(mbs) ==
  /\ eCurState = "loaded"
  /\ encIntraRefreshMbs' = mbs
  /\ encFrameRate' = OrDefault(0, VIDENC_DEF_FRAMERATE)
  /\ asked' = [asked EXCEPT !.refresh = mbs, !.overlaid = TRUE]
  /\ UNCHANGED <<vpuCodecId, inputSize, encBitRate, params, session>>

-----------------------------------------------------------------------------
(* A session                                                               *)

\* Not the code: the size of the first session stays.
SizeToEncode_First ==
  IF encSize # <<1024, 768>> THEN encSize
  ELSE IF 0 \in {inputSize[1], inputSize[2]} THEN <<1280, 720>> ELSE inputSize

SizeToEncode == IF 0 \in {inputSize[1], inputSize[2]} THEN <<1280, 720>> ELSE inputSize

\* The call of EncoderOpen that fails: "init" stands for the calls of
\* NX_V4l2EncInit before the bit stream buffer is allocated, "parse" for those
\* after it is mapped.
OpenOutcomes ==
  ({"done", "open", "init", "map", "parse"} \X {None}) \cup ({"allocate"} \X AllocateCalls(1))

\* EncoderOpen, Loaded to Idle: the sizes come from the input port, and the
\* key frame interval is always the default.  After a failure the component
\* stays in Loaded with the handle that is open by then; another try puts its
\* own in the place.
EncoderOpen(o) ==
  LET step == o[1]
      allocAt == o[2]
      mapAt == IF step = "map" THEN 1 ELSE None
      allocates == step \notin {"open", "init"}
  IN /\ eCurState = "loaded" /\ vpuCodecId # Unset
     /\ encSize' = SizeToEncode
     /\ hVpuCodec' =
          IF step = "open" THEN NoVpu
          ELSE [codec |-> vpuCodecId, size |-> encSize', gopSize |-> VIDENC_DEF_FRAMERATE,
                fps |-> encFrameRate,
                bitrate |-> IF encBitRate = 0 THEN 10 * 1024 * 1024 ELSE encBitRate,
                numIntraRefreshMbs |-> encIntraRefreshMbs]
     /\ hBitStreamBuf' = IF allocates THEN Held(1, allocAt, mapAt) ELSE Nothing
     /\ kernel' = IF allocates THEN Plus(kernel, Made(1, allocAt, mapAt)) ELSE kernel
     /\ eCurState' = IF step = "done" THEN "idle" ELSE "loaded"
     /\ lost' = Plus(lost, hBitStreamBuf)
     /\ UNCHANGED <<settings, hCSCMem, copied, asked>>

\* CopyImage writes to each plane that has pixels; the chroma planes of a
\* picture one pixel wide or high have none.  Planes from mapAt on are not mapped.
WritesUnmapped(mapAt) ==
  mapAt # None /\ (mapAt = 1 \/ (encSize[1] > 1 /\ encSize[2] > 1))

\* What EncodeFrame leaves of the program.  If the image could not be allocated
\* the VPU is given encIn.pImage as it happens to be on the stack, so that the
\* program faults, or the picture fails or is encoded from something else.
Survives(mapAt) == CASE WritesUnmapped(mapAt) -> {"gone"}
                     [] hCSCMem' = NoImage -> {"idle", "gone"}
                     [] OTHER -> {"idle"}

\* EncodeFrame.  The image is allocated and mapped with the first picture of a
\* session and kept; allocAt and mapAt are the calls that fail.  Neither failure
\* ends the function.  The image may be missing again with the next picture,
\* which then tries again; an image that is there is not mapped again.
EncodeFrame(allocAt, mapAt) ==
  /\ eCurState = "idle"
  /\ hCSCMem.size # NoSize => allocAt = None /\ mapAt = None
  /\ allocAt # None => mapAt = None
  /\ IF hCSCMem.size # NoSize THEN UNCHANGED <<hCSCMem, kernel>>
     ELSE /\ kernel' = Plus(kernel, Made(3, allocAt, mapAt))
          /\ hCSCMem' = IF allocAt # None THEN NoImage
                        ELSE [size |-> encSize, holds |-> Held(3, None, mapAt)]
  /\ copied' = IF allocAt = None THEN <<encSize, hCSCMem'.size>> ELSE copied
  /\ eCurState' \in Survives(mapAt)
  /\ UNCHANGED <<settings, encSize, hVpuCodec, hBitStreamBuf, lost, asked>>

EncoderClose ==
  /\ hVpuCodec' = NoVpu /\ hBitStreamBuf' = Nothing
  /\ hCSCMem' = NoImage
  /\ kernel' = Minus(kernel, Plus(hBitStreamBuf, hCSCMem.holds))

\* Idle to Loaded
Close ==
  /\ eCurState = "idle" /\ eCurState' = "loaded"
  /\ EncoderClose
  /\ UNCHANGED <<settings, encSize, lost, copied, asked>>

Next ==
  \/ \E role \in Roles : SetRole(role)
  \/ \E s \in Sizes : SetPortDefinition(s)
  \/ \E c \in DOMAIN params : SetVideoParam(c)
  \/ \E rate \in Rates : SetBitrate(rate) \/ SetFramerate(rate)
  \/ \E mbs \in {0, 10} : SetIntraRefresh(mbs)
  \/ \E o \in OpenOutcomes : EncoderOpen(o)
  \/ \E allocAt \in AllocateCalls(3) \cup {None}, mapAt \in MapCalls(3) \cup {None} :
        EncodeFrame(allocAt, mapAt)
  \/ Close

Spec == Init /\ [][Next]_vars

-----------------------------------------------------------------------------
(* Properties                                                              *)

\* What the client asked for, defaults filled in.
Wanted(rate, default) == IF rate > 0 THEN rate ELSE default

\* The VPU encodes with the codec, size and rates the client set last, in
\* whatever order and over whatever number of sessions it set them.  The frame
\* rate is looked at only if no intra refresh was set after it (FrameRateAsAsked).
VpuAsAsked ==
  eCurState = "idle" =>
    /\ hVpuCodec.codec = CodecOfRole(asked.role)
    /\ hVpuCodec.size = IF asked.size = NoSize THEN <<1280, 720>> ELSE asked.size
    /\ hVpuCodec.bitrate = Wanted(asked.bitRate, VIDENC_DEF_BITRATE)
    /\ asked.overlaid \/ hVpuCodec.fps = Wanted(asked.frameRate, VIDENC_DEF_FRAMERATE)
    /\ hVpuCodec.numIntraRefreshMbs = asked.refresh

\* The VPU encodes with the frame rate the client set last, also if it set an
\* intra refresh after it: OMX_IndexParamVideoIntraRefresh is documented with a
\* structure that has no frame rate (OMX_Video.h:303-325, OMX_Index.h:160).  The
\* code does not keep it (README, "Divergences").
FrameRateAsAsked ==
  eCurState = "idle" => hVpuCodec.fps = Wanted(asked.frameRate, VIDENC_DEF_FRAMERATE)

\* A picture goes into an image of its own size: an image is never left from a
\* session with another size.
ImageFits == copied[1] = copied[2]

\* The kernel holds what the handle and the image will give back, and what was
\* lost with the handles of failed EncoderOpens, whichever call failed, that of
\* an image included.
MemoryAccounted == kernel = Plus(lost, Plus(hBitStreamBuf, hCSCMem.holds))

=============================================================================
