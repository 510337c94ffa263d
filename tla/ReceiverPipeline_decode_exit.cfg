\* A decoding error while the net reader is about to reserve its next slot.
CONSTANTS
    NumSpace = 65536
    PktCap = 2
    MemLimits = {104857600}
    ChunkCap = 2
    MaxPkts = 5
    DecodeErrors = TRUE
    NetErrors = TRUE
    WriteErrors = FALSE
SPECIFICATION Spec
INVARIANT NoExitOnDecodeError
