\* One buffer, every configuration, every error path.  hgap_send ends the
\* process on "0.0.0.0" (NULL sender freed) or on a failed keep-alive
\* (CHK_PERROR), returns success after a failed END salvo, and sends END
\* after a read, encoder or wirehair_write error.
CONSTANTS
    NumSpace = 65536
    InCap = 3
    NetCap = 3
    MaxBufs = 1
    MaxEmits = 3
    ReadErrors = TRUE
    EncErrors = TRUE
    EmitErrors = TRUE
    NetErrors = TRUE
    NewErrors = FALSE
SPECIFICATION Spec
INVARIANT OutcomeTruthful
