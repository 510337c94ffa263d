\* Four buffers through channels of 2 (hgap_send's channels of 16 scaled
\* down): a hgap_enc_chunk_init error, a wirehair_write error, or a BEGIN
\* salvo failing because a host name became 255.255.255.255, each stops one
\* stage from consuming.
CONSTANTS
    NumSpace = 65536
    InCap = 2
    NetCap = 2
    MaxBufs = 4
    MaxEmits = 2
    ReadErrors = FALSE
    EncErrors = TRUE
    EmitErrors = TRUE
    NetErrors = FALSE
    NewErrors = FALSE
SPECIFICATION Spec
PROPERTY SenderTerminates
CHECK_DEADLOCK FALSE
