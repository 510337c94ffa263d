\* Channels of 2, up to 5 datagrams of any type, decoding and network
\* errors possible, writes always complete.
CONSTANTS
    NumSpace = 65536
    PktCap = 2
    MemLimits = {104857600}
    ChunkCap = 2
    MaxPkts = 5
    DecodeErrors = TRUE
    NetErrors = TRUE
    WriteErrors = FALSE
SPECIFICATION Spec
INVARIANTS TypeOK AllEmittedWritten FailureNotMasked
PROPERTIES PipelineTerminates
