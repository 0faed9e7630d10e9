CONSTANTS
    Roles = {"avc", "mpeg4", "mp43", "h263"}
    Tags = {"XVID", "DIV3"}
    Sizes <- MCSizes
    MinFrames = {2, 8}
    Redefines = TRUE
    AllPorts = FALSE
    MaxLost = 1
    EncRoles = {"avc"}
    EncSizes <- MCEncSizes
    Rates = {0, 500000}
SPECIFICATION MCSpec
INVARIANT PicturesFit
INVARIANT PictureAsAnnounced
INVARIANT FramesCounted
INVARIANT VpuAsAsked
INVARIANT AllMemoryAccounted
CHECK_DEADLOCK FALSE
