----------------------------- MODULE NX_VidFrames -----------------------------
(***************************************************************************)
(* What the seven decode functions of the video decoder do with the        *)
(* buffers of a stream: how they start the VPU, which time stamp a picture *)
(* leaves with, and which pictures are given up.  One step is one round of *)
(* the buffer thread, one command, or one change of session.               *)
(*                                                                         *)
(* NX_VidDec has the threads, buffers and images; here a picture is a time *)
(* stamp and a type, and "room" says whether the output queue had a buffer *)
(* for it.  Calls of the VPU succeed, except its initialisation.  As built *)
(* without ANDROID there is no thumbnail mode and bInterlaced is 0.  The   *)
(* client neither flushes nor ends the stream before the VPU is            *)
(* initialised, and it flushes the output port, alone or with the input.   *)
(***************************************************************************)
EXTENDS Integers, Sequences, FiniteSets, SequencesExt, TLC

CONSTANTS Codecs,       \* the values of videoCodecId in use
          Streams,      \* sequences of buffers the client may send
          NX_OMX_MAX_BUF,  \* entries of the time stamp table
          Depth,        \* pictures the VPU holds back at most (external)
          MaxFlush,     \* bound: flushes of a session
          MaxSession    \* bound: times the codec is opened

\* nFilledLen > 0 is "data"; "head" says whether the data has a sequence
\* header, and whether it is the one the VPU knows.
Buffer == [pts : Nat, config : BOOLEAN, key : BOOLEAN, data : BOOLEAN, eos : BOOLEAN,
           head : {"none", "same", "new"}]

ASSUME VidFramesAssumption ==
  /\ Codecs \subseteq {"AVC", "MP2", "MP4", "DIV3", "VC1", "RV", "VP8"}
  /\ Streams \subseteq Seq(Buffer)
  /\ NX_OMX_MAX_BUF \in Nat \ {0} /\ Depth \in Nat /\ MaxFlush \in Nat /\ MaxSession \in Nat \ {0}

VARIABLES
  codec,              \* videoCodecId, which selects DecodeFrame
  bInitialized, isOutIdr, bNeedSequenceData, bFlush, bStartEoS,
  codecSpecificData,  \* the buffers whose data it holds
  pExtraData,         \* the same of the extra data
  outTimeStamp,       \* slot -> [timestamp, flag], or Free: the flag is -1
  input,              \* what the client has still to send, in order
  ended,              \* the buffer thread has left with an error
  driverKeeps,        \* what becomes of the picture in the data the VPU is
                      \* initialised with (external)
  bits,               \* pictures in the bit stream buffer (external)
  pictures,           \* pictures decoded and not handed out (external)
  seen,               \* what the client saw since the last opening or flush
  lost,               \* a stamp and its picture were parted since
  session             \* what happened in this session

control == <<codec, bInitialized, bNeedSequenceData, codecSpecificData, pExtraData>>
vpu == <<driverKeeps, bits, pictures>>
vars == <<control, isOutIdr, bFlush, bStartEoS, outTimeStamp, input, ended, vpu, seen, lost,
          session>>

\* The last three are history.  seen: the pictures shown, the time stamps of the
\* frames taken and of those whose picture was given up, whether an I picture
\* was decoded, and whether the empty end of stream buffer went out.
Blank == [shown |-> <<>>, taken |-> {}, givenUp |-> {}, keySince |-> FALSE, eosSent |-> FALSE]

-----------------------------------------------------------------------------
(* The time stamp table                                                    *)

Slots == 0..(NX_OMX_MAX_BUF - 1)
Free == [timestamp |-> 0, flag |-> "none"]
InitVideoTimeStamp == [i \in Slots |-> Free]
Used(tab) == {i \in Slots : tab[i] # Free}

StampOf(b) == [timestamp |-> b.pts, flag |-> IF b.eos THEN "eos" ELSE "frame"]

\* The first free slot; a full table drops the stamp.
PushVideoTimeStamp(tab, b) ==
  IF Used(tab) = Slots THEN tab
  ELSE LET i == CHOOSE j \in Slots \ Used(tab) : \A k \in Slots \ Used(tab) : j <= k
       IN [tab EXCEPT ![i] = StampOf(b)]

\* Not the code: the slot that was filled first.
PopIndex_First(tab) == CHOOSE i \in Used(tab) : \A j \in Used(tab) : i <= j

\* The smallest stamp, in its first slot.
PopIndex(tab) ==
  CHOOSE i \in Used(tab) : \A j \in Used(tab) :
    \/ tab[i].timestamp < tab[j].timestamp
    \/ tab[i].timestamp = tab[j].timestamp /\ i <= j

\* The table after a pop; an empty one answers -1 and stays.
PopVideoTimeStamp(tab) ==
  IF Used(tab) = {} THEN tab ELSE [tab EXCEPT ![PopIndex(tab)] = Free]

-----------------------------------------------------------------------------
(* How the decode functions differ                                         *)

\* What precedes the first frame in the data the VPU is initialised with.  The
\* functions for RV, VP8 and DivX 3 put a header made of the picture size in
\* front, which no property looks at.
Header ==
  CASE codec \in {"AVC", "MP2"} ->
         IF codecSpecificData = <<>> THEN pExtraData ELSE codecSpecificData
    [] codec = "MP4" -> codecSpecificData
    [] codec \in {"DIV3", "VC1", "RV"} -> pExtraData
    [] codec = "VP8" -> <<>>

\* keeps: a CODECCONFIG buffer is kept as configuration now; configStamped: one
\* that is not kept has its stamp pushed; decodesFirst: the frame the VPU was
\* initialised with is decoded in the same call; endsThread: the error of the
\* initialisation is returned.
NX_DecodeAvcFrame ==
  [keeps |-> bNeedSequenceData, configStamped |-> FALSE, decodesFirst |-> TRUE,
   endsThread |-> TRUE]
NX_DecodeMpeg2Frame ==
  [keeps |-> ~ bInitialized, configStamped |-> TRUE, decodesFirst |-> FALSE,
   endsThread |-> TRUE]
NX_DecodeMpeg4Frame ==
  [keeps |-> ~ bInitialized, configStamped |-> TRUE, decodesFirst |-> FALSE,
   endsThread |-> TRUE]
NX_DecodeDiv3Frame ==
  [keeps |-> FALSE, configStamped |-> FALSE, decodesFirst |-> FALSE, endsThread |-> FALSE]
NX_DecodeVC1Frame ==
  [keeps |-> ~ bInitialized, configStamped |-> TRUE, decodesFirst |-> FALSE,
   endsThread |-> TRUE]
NX_DecodeRVFrame ==
  [keeps |-> FALSE, configStamped |-> TRUE, decodesFirst |-> FALSE, endsThread |-> TRUE]
NX_DecodeVP8Frame ==
  [keeps |-> FALSE, configStamped |-> TRUE, decodesFirst |-> FALSE, endsThread |-> TRUE]

DecodeFrame ==
  CASE codec = "AVC" -> NX_DecodeAvcFrame    [] codec = "MP2" -> NX_DecodeMpeg2Frame
    [] codec = "MP4" -> NX_DecodeMpeg4Frame  [] codec = "DIV3" -> NX_DecodeDiv3Frame
    [] codec = "VC1" -> NX_DecodeVC1Frame    [] codec = "RV" -> NX_DecodeRVFrame
    [] codec = "VP8" -> NX_DecodeVP8Frame

\* What they do with a picture the VPU hands out: may it go out, given the
\* type of the frame decoded in that call, and does it set isOutIdr?
AvcShows(idr, type) == [may |-> TRUE, idr |-> TRUE]
Mpeg2Shows(idr, type) == [may |-> TRUE, idr |-> TRUE]
Mpeg4Shows(idr, type) == [may |-> TRUE, idr |-> TRUE]
Div3Shows(idr, type) == [may |-> idr \/ type = "I", idr |-> idr \/ type = "I"]
VC1Shows(idr, type) == [may |-> idr \/ type = "I", idr |-> idr \/ type = "I"]
RVShows(idr, type) == [may |-> TRUE, idr |-> idr]
VP8Shows(idr, type) == [may |-> TRUE, idr |-> TRUE]

Shows(idr, type) ==
  CASE codec = "AVC" -> AvcShows(idr, type)    [] codec = "MP2" -> Mpeg2Shows(idr, type)
    [] codec = "MP4" -> Mpeg4Shows(idr, type)  [] codec = "DIV3" -> Div3Shows(idr, type)
    [] codec = "VC1" -> VC1Shows(idr, type)    [] codec = "RV" -> RVShows(idr, type)
    [] codec = "VP8" -> VP8Shows(idr, type)

-----------------------------------------------------------------------------
(* Sessions                                                                *)

\* openVideoCodec for codec c, whose client will send stream s.
OpenCodec(c, s) ==
  /\ codec' = c /\ isOutIdr' = FALSE /\ outTimeStamp' = InitVideoTimeStamp
  /\ input' = s /\ bits' = <<>> /\ pictures' = {}

\* The configuration sent in session n, what the VPU was initialised with, and
\* the flushes.
NewSession(n) == [number |-> n, config |-> <<>>, initData |-> <<>>, flushes |-> 0]

Init ==
  /\ codec \in Codecs /\ input \in Streams
  /\ bInitialized = FALSE /\ isOutIdr = FALSE /\ bNeedSequenceData = TRUE
  /\ bFlush = FALSE /\ bStartEoS = FALSE
  /\ codecSpecificData = <<>> /\ pExtraData = <<>>
  /\ outTimeStamp = InitVideoTimeStamp /\ ended = FALSE
  /\ driverKeeps \in {"nothing", "decoded", "waiting"} /\ bits = <<>> /\ pictures = {}
  /\ seen = Blank /\ lost = FALSE /\ session = NewSession(1)

\* Not the code: the configuration stays.
closeVideoCodec_Keeps ==
  bInitialized' = FALSE /\ bNeedSequenceData' = FALSE /\ UNCHANGED codecSpecificData

\* closeVideoCodec; pExtraData and bFlush stay.
closeVideoCodec ==
  bInitialized' = FALSE /\ bNeedSequenceData' = FALSE /\ codecSpecificData' = <<>>

\* To Loaded, perhaps with another role, and back to Executing.
Reopen(c, s) ==
  /\ session.number < MaxSession
  /\ input = <<>> \/ ended
  /\ closeVideoCodec /\ OpenCodec(c, s)
  /\ bStartEoS' = FALSE /\ ended' = FALSE
  /\ seen' = Blank /\ lost' = FALSE /\ session' = NewSession(session.number + 1)
  /\ UNCHANGED <<pExtraData, bFlush, driverKeeps>>

-----------------------------------------------------------------------------
(* The VPU (external): it decodes a frame of its bit stream buffer per     *)
(* call and hands pictures out in display order, as late as it likes.      *)

FirstOf(s) == {s[i] : i \in DOMAIN s \cap {1}}
Picture(b) == [pts |-> b.pts, key |-> b.key]
FramesOf(bs) == {b \in Range(bs) : b.data /\ ~ b.config}

\* Pictures of dpb that nothing still to come precedes.
Due(dpb, coming) == {p \in dpb : \A q \in (dpb \ {p}) \cup coming : p.pts < q.pts}

-----------------------------------------------------------------------------
(* One call of DecodeFrame, with b the first input buffer                  *)

Running == ~ ended /\ input # <<>> /\ ~ bStartEoS

\* Not the code: flushVideoCodec keeps isOutIdr.
Idr_Kept == isOutIdr

\* flushVideoCodec, at the head of the call when bFlush is set.
Idr == isOutIdr /\ ~ bFlush
Stamps == IF bFlush THEN InitVideoTimeStamp ELSE outTimeStamp
Lost == IF bFlush THEN pictures # {} \/ bits # <<>> ELSE lost

\* The table once the stamp of b was pushed, and whether that stamp is one no
\* picture will take.
Stamped(b) == ~ b.config \/ DecodeFrame.configStamped
Pushed(b) == IF Stamped(b) THEN PushVideoTimeStamp(Stamps, b) ELSE Stamps
Parted(b) == (Stamped(b) /\ b.config) \/ (Stamped(b) /\ Used(Stamps) = Slots)

Take(b) ==
  /\ Running /\ b = Head(input) /\ input' = Tail(input)
  /\ bFlush' = FALSE /\ bStartEoS' = b.eos

\* What the client sees: b was taken; the pictures ps were given up.
Taken(b) == IF b.config THEN seen ELSE [seen EXCEPT !.taken = @ \cup {b.pts}]
GivenUp(s, ps) == [s EXCEPT !.givenUp = @ \cup {p.pts : p \in ps}]
PicturesOf(b) == IF b.config THEN {} ELSE {Picture(b)}

\* Not the code: a buffer with the EOS flag ends the stream, whatever is in it.
TakeEos_Data(b) ==
  /\ Take(b) /\ b.eos
  /\ isOutIdr' = Idr /\ outTimeStamp' = Stamps
  /\ lost' = Lost /\ seen' = IF b.data THEN Taken(b) ELSE seen
  /\ UNCHANGED <<control, ended, vpu, session>>

\* An empty buffer with the EOS flag.
TakeEos(b) ==
  /\ Take(b) /\ b.eos /\ ~ b.data
  /\ isOutIdr' = Idr /\ outTimeStamp' = Stamps
  /\ lost' = Lost
  /\ UNCHANGED <<control, ended, vpu, seen, session>>

KeepsConfig(b) == b.config /\ DecodeFrame.keeps

\* The configuration is copied, in place of an earlier one.
KeepConfig(b) ==
  /\ Take(b) /\ b.data /\ KeepsConfig(b)
  /\ IF codec = "VC1"
     THEN pExtraData' = <<b>> /\ UNCHANGED codecSpecificData
     ELSE codecSpecificData' = <<b>> /\ UNCHANGED pExtraData
  /\ bNeedSequenceData' = (bNeedSequenceData /\ codec # "AVC")
  /\ isOutIdr' = Idr /\ outTimeStamp' = Stamps
  /\ lost' = Lost /\ session' = [session EXCEPT !.config = Append(@, b)]
  /\ UNCHANGED <<codec, bInitialized, ended, vpu, seen>>

\* AVC drops frames until one has a sequence header; it keeps that one as
\* configuration, but does not decode it either.
WaitsForSequence == codec = "AVC" /\ bNeedSequenceData
DropBeforeSequence(b) ==
  /\ Take(b) /\ b.data /\ ~ KeepsConfig(b) /\ ~ bInitialized /\ WaitsForSequence
  /\ LET data == Append(Header, b)
         found == \E i \in DOMAIN data : data[i].head # "none"
     IN /\ bNeedSequenceData' = ~ found
        /\ codecSpecificData' = IF found THEN data ELSE codecSpecificData
  /\ isOutIdr' = Idr /\ outTimeStamp' = Pushed(b)
  /\ lost' = TRUE /\ seen' = GivenUp(Taken(b), PicturesOf(b))
  /\ UNCHANGED <<codec, bInitialized, pExtraData, ended, vpu, session>>

\* Not the code: the stamp of a picture held back stays.
HoldBack_Stays(tab) == tab

\* A picture that is not shown takes its stamp with it.
HoldBack(tab) == PopVideoTimeStamp(tab)

\* What the client gets with picture p: the stamp popped, or else another.
\* Nothing happened yet that parts stamps and pictures: sure.
Shown(p, tab, other, sure) ==
  LET stamp == IF Used(tab) = {} THEN other ELSE tab[PopIndex(tab)]
  IN [pts |-> p.pts, stamp |-> stamp.timestamp, flag |-> stamp.flag, sure |-> sure]

\* The VPU decodes the first of fs, and the picture it hands out, if any, goes
\* out or is cleared: by the decode function, or for want of an output buffer.
\* b is the input buffer, tab the table and s what was seen before.
Decode(b, fs, tab, s) ==
  LET now == FirstOf(fs)
      rest == SubSeq(fs, 2, Len(fs))
      dpb == pictures \cup now
      type == IF \E p \in now : p.key THEN "I" ELSE "P"
      noted == [s EXCEPT !.keySince = @ \/ type = "I"]
      coming == {Picture(c) : c \in FramesOf(Tail(input))} \cup Range(rest)
  IN /\ bits' = rest
     /\ \/ /\ Cardinality(dpb) <= Depth \/ Due(dpb, coming) = {}
           /\ pictures' = dpb /\ isOutIdr' = Idr
           /\ outTimeStamp' = tab /\ seen' = noted
        \/ \E p \in Due(dpb, coming), room \in BOOLEAN :
             LET shows == Shows(Idr, type)
             IN /\ pictures' = dpb \ {p} /\ isOutIdr' = shows.idr
                /\ IF shows.may /\ room
                   THEN /\ outTimeStamp' = PopVideoTimeStamp(tab)
                        /\ seen' = [noted EXCEPT !.shown = Append(@, Shown(p, tab, StampOf(b), ~ lost'))]
                   ELSE outTimeStamp' = HoldBack(tab) /\ seen' = GivenUp(noted, {p})

FramesIn(b) == IF b.config THEN <<>> ELSE <<Picture(b)>>

First(b) == Take(b) /\ b.data /\ ~ KeepsConfig(b) /\ ~ bInitialized /\ ~ WaitsForSequence

\* The driver forgets the frame the VPU was initialised with, and the function
\* does not decode it.
LosesFirst(b) == ~ DecodeFrame.decodesFirst /\ driverKeeps = "nothing" /\ ~ b.config

\* The first frame: the VPU is initialised with it.
InitializeCodaVpu(b) ==
  /\ First(b)
  /\ bInitialized' = TRUE
  /\ codecSpecificData' = IF codec \in {"VC1", "RV"} THEN pExtraData ELSE codecSpecificData
  /\ session' = [session EXCEPT !.initData = Append(Header, b),
                                !.config = IF b.config THEN Append(@, b) ELSE @]
  /\ lost' = (Lost \/ Parted(b) \/ LosesFirst(b))
  /\ IF DecodeFrame.decodesFirst /\ ~ b.config
     THEN Decode(b, FramesIn(b), Pushed(b), Taken(b))
     ELSE /\ isOutIdr' = Idr /\ outTimeStamp' = Pushed(b)
          /\ pictures' = IF driverKeeps = "decoded" THEN PicturesOf(b) ELSE {}
          /\ bits' = IF driverKeeps = "waiting" THEN FramesIn(b) ELSE <<>>
          /\ seen' = IF LosesFirst(b) THEN GivenUp(Taken(b), PicturesOf(b))
                     ELSE [Taken(b) EXCEPT !.keySince = b.key]
  /\ UNCHANGED <<codec, bNeedSequenceData, pExtraData, ended, driverKeeps>>

\* The VPU refuses: the buffer thread ends, unless the function is that for
\* DivX 3, which tries again with the next frame.
InitializeFails(b) ==
  /\ First(b)
  /\ ended' = DecodeFrame.endsThread
  /\ isOutIdr' = Idr /\ outTimeStamp' = Pushed(b)
  /\ lost' = TRUE /\ seen' = GivenUp(Taken(b), PicturesOf(b))
  /\ codecSpecificData' = IF codec \in {"VC1", "RV"} THEN pExtraData ELSE codecSpecificData
  /\ UNCHANGED <<codec, bInitialized, bNeedSequenceData, pExtraData, vpu, session>>

\* VC-1 drops a frame whose sequence header is not that of its configuration.
SequenceChanged(b) == codec = "VC1" /\ b.head = "new"

DropChanged(b) ==
  /\ Take(b) /\ b.data /\ bInitialized /\ SequenceChanged(b)
  /\ isOutIdr' = Idr /\ outTimeStamp' = Pushed(b)
  /\ lost' = TRUE /\ seen' = GivenUp(Taken(b), PicturesOf(b))
  /\ UNCHANGED <<control, ended, vpu, session>>

DecodeNext(b) ==
  /\ Take(b) /\ b.data /\ bInitialized /\ ~ SequenceChanged(b)
  /\ lost' = (Lost \/ Parted(b))
  /\ Decode(b, bits \o FramesIn(b), Pushed(b), Taken(b))
  /\ UNCHANGED <<control, ended, driverKeeps, session>>

-----------------------------------------------------------------------------
(* The end of the stream, and flushes                                      *)

NoStamp == [timestamp |-> -1, flag |-> "frame"]

\* processEOS: the VPU is drained a picture at a time; one that finds no output
\* buffer is cleared and its stamp stays.
DrainPicture ==
  /\ bStartEoS /\ ~ ended /\ bInitialized
  /\ LET dpb == pictures \cup Range(bits)
     IN \E p \in Due(dpb, {}), room \in BOOLEAN :
          /\ pictures' = dpb \ {p} /\ bits' = <<>>
          /\ IF room
             THEN /\ outTimeStamp' = PopVideoTimeStamp(outTimeStamp)
                  /\ seen' = [seen EXCEPT !.shown =
                                Append(@, Shown(p, outTimeStamp, NoStamp, ~ lost))]
             ELSE seen' = GivenUp(seen, {p}) /\ UNCHANGED outTimeStamp
          /\ lost' = (lost \/ ~ room)
  /\ UNCHANGED <<control, isOutIdr, bFlush, bStartEoS, input, ended, driverKeeps, session>>

\* No picture is left: an empty buffer with the EOS flag, at every later call.
SendEos ==
  /\ bStartEoS /\ ~ ended /\ bInitialized /\ pictures = {} /\ bits = <<>>
  /\ seen' = [seen EXCEPT !.eosSent = TRUE]
  /\ UNCHANGED <<control, isOutIdr, bFlush, bStartEoS, outTimeStamp, input, ended, vpu, lost,
                 session>>

\* OMX_CommandFlush of the output port, or of both: processEOSforFlush drains
\* the VPU and clears its pictures.  After a flush of both the client goes on
\* anywhere in one of its streams.
Flush(port, rest) ==
  /\ session.flushes < MaxFlush /\ bInitialized /\ ~ ended
  /\ rest = IF port = "out" THEN input ELSE rest
  /\ bits' = <<>> /\ pictures' = {}
  /\ bFlush' = TRUE /\ bStartEoS' = FALSE /\ input' = rest
  /\ seen' = Blank /\ session' = [session EXCEPT !.flushes = @ + 1]
  /\ UNCHANGED <<control, isOutIdr, outTimeStamp, ended, driverKeeps, lost>>

-----------------------------------------------------------------------------
\* Where the client may go on after a flush: not at a configuration.
Rests == {t \in UNION {Suffixes(s) : s \in Streams} : t # <<>> /\ ~ Head(t).config}

Next ==
  \/ \E c \in Codecs, s \in Streams : Reopen(c, s)
  \/ \E b \in FirstOf(input) :
       \/ TakeEos(b) \/ KeepConfig(b) \/ DropBeforeSequence(b)
       \/ InitializeCodaVpu(b) \/ InitializeFails(b) \/ DropChanged(b) \/ DecodeNext(b)
  \/ DrainPicture \/ SendEos
  \/ Flush("out", input) \/ \E rest \in Rests : Flush("all", rest)

Spec == Init /\ [][Next]_vars

-----------------------------------------------------------------------------
(* Properties                                                              *)

Stamp == [timestamp : Int, flag : {"frame", "eos"}]
TypeOK ==
  /\ codec \in Codecs /\ driverKeeps \in {"nothing", "decoded", "waiting"}
  /\ bInitialized \in BOOLEAN /\ isOutIdr \in BOOLEAN /\ bNeedSequenceData \in BOOLEAN
  /\ bFlush \in BOOLEAN /\ bStartEoS \in BOOLEAN /\ ended \in BOOLEAN /\ lost \in BOOLEAN
  /\ codecSpecificData \in Seq(Buffer) /\ pExtraData \in Seq(Buffer) /\ input \in Seq(Buffer)
  /\ outTimeStamp \in [Slots -> {Free} \cup Stamp]
  /\ bits \in Seq([pts : Nat, key : BOOLEAN]) /\ IsFiniteSet(pictures)
  /\ session.number \in 1..MaxSession /\ session.flushes \in 0..MaxFlush

\* The stamps of the pictures shown between two flushes increase, although the
\* stamps of the frames do not, some pictures are given up, and some stamps
\* have no picture (PopVideoTimeStamp, against all its callers).
StampsInOrder ==
  \A i, j \in DOMAIN seen.shown : i < j => seen.shown[i].stamp < seen.shown[j].stamp

\* A picture leaves with the stamp of its own frame, as long as no stamp and
\* picture were parted: the decode functions pop a stamp for every picture the
\* VPU hands out, shown or not, and a flush clears both.
StampOfPicture ==
  \A i \in DOMAIN seen.shown : seen.shown[i].sure => seen.shown[i].stamp = seen.shown[i].pts

\* The decoders of DivX 3 and VC-1 show nothing after a flush or at the start
\* before an I picture was decoded, until the end of the stream: processEOS
\* does not look at isOutIdr.
NoPictureBeforeKey ==
  codec \in {"DIV3", "VC1"} /\ ~ bStartEoS /\ seen.shown # <<>> => seen.keySince

\* The configuration among the buffers of a sequence, in their order.
Configs(s) ==
  LET among[n \in 0..Len(s)] ==
        IF n = 0 THEN <<>>
        ELSE IF s[n].config THEN Append(among[n - 1], s[n]) ELSE among[n - 1]
  IN among[Len(s)]

\* The VPU is initialised with the configuration the client sent in this
\* session and with no other, unless a VC-1 session left its extra data.
InitHasConfig ==
  bInitialized /\ codec \in {"AVC", "MP2", "MP4"} /\ (pExtraData = <<>> \/ codec = "MP4") =>
    Configs(session.initData) = session.config

\* The empty end of stream buffer goes out when every frame taken was shown or
\* given up: also the frame that came with the EOS flag.
EosComesLast ==
  seen.eosSent => seen.taken = {seen.shown[i].pts : i \in DOMAIN seen.shown} \cup seen.givenUp

=============================================================================
