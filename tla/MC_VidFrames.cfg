SPECIFICATION Spec
CONSTANTS
  Codecs = {"AVC", "MP2", "MP4", "DIV3", "VC1", "RV", "VP8"}
  Streams <- MCStreams
  NX_OMX_MAX_BUF = 5
  Depth = 2
  MaxFlush = 1
  MaxSession = 2
CHECK_DEADLOCK FALSE
INVARIANT StampsInOrder
INVARIANT StampOfPicture
INVARIANT NoPictureBeforeKey
INVARIANT InitHasConfig
INVARIANT EosComesLast
