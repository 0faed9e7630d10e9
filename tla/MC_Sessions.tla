------------------------------ MODULE MC_Sessions ------------------------------
(***************************************************************************)
(* The sessions of the two components.  They share nothing, so a behaviour *)
(* is one of the decoder or one of the encoder.                            *)
(***************************************************************************)
EXTENDS NX_DecSession

CONSTANTS EncRoles, EncSizes, Rates

ASSUME EncAssumption ==
  /\ EncSizes \subseteq (Nat \ {0}) \X (Nat \ {0})
  /\ Rates \subseteq Nat

VARIABLES component,   \* whose behaviour it is
          vpuCodecId, inputSize, encSize, encFrameRate, encBitRate, encIntraRefreshMbs,
          params, eCurState, encVpu, hBitStreamBuf, hCSCMem, encKernel, encLost, copied,
          asked

encVars == <<vpuCodecId, inputSize, encSize, encFrameRate, encBitRate, encIntraRefreshMbs,
             params, eCurState, encVpu, hBitStreamBuf, hCSCMem, encKernel, encLost, copied,
             asked>>

Enc == INSTANCE NX_EncSession
         WITH Roles <- EncRoles, Sizes <- EncSizes,
              hVpuCodec <- encVpu, kernel <- encKernel, lost <- encLost

\* Below 720p; odd, with as many macroblocks as the decoder takes; and more.
MCSizes == {<<320, 240>>, <<1919, 1087>>, <<2048, 1088>>}

\* Both differ from the default of 1280x720.
MCEncSizes == {<<320, 240>>, <<640, 480>>}

MCInit == Init /\ Enc!Init /\ component \in {"decoder", "encoder"}

DecoderMoves == component = "decoder" /\ Next /\ UNCHANGED <<component, encVars>>
EncoderMoves ==
  /\ component = "encoder" /\ Enc!Next
  /\ encKernel'.fd <= 4     \* bound: one bit stream buffer lost by a failed EncoderOpen
  /\ UNCHANGED <<component, vars>>
MCNext == DecoderMoves \/ EncoderMoves

MCSpec == MCInit /\ [][MCNext]_<<component, vars, encVars>>

\* Pictures fit the memory they are copied into: the decoder's the output
\* buffer, the encoder's the image.
PicturesFit == PictureFits /\ Enc!ImageFits

\* What the VPU encodes with is what the client set last.
VpuAsAsked == Enc!VpuAsAsked

\* The frame rate of the VPU is the one the client set last, whatever else it set.
\* In no run (README, "Divergences"): it is violated.
FrameRateAsAsked == Enc!FrameRateAsAsked

\* The kernel's memory is accounted for in the sessions of both components.
AllMemoryAccounted == MemoryAccounted /\ Enc!MemoryAccounted

=============================================================================
