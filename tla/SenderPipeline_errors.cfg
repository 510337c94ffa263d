\* Two buffers through channels of 3: every error path of the three threads
\* is enabled, and the input fits in the channels.
CONSTANTS
    NumSpace = 65536
    InCap = 3
    NetCap = 3
    MaxBufs = 2
    MaxEmits = 3
    ReadErrors = TRUE
    EncErrors = TRUE
    EmitErrors = TRUE
    NetErrors = TRUE
    NewErrors = TRUE
SPECIFICATION Spec
INVARIANTS TypeOK SuccessMeansDelivered ConfigErrorMatchesSpec
PROPERTY SenderTerminates
