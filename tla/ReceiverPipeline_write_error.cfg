\* A short write with more chunks to come than chan_dec2out holds (1 here,
\* 256 in hgap_receive), or hairgapr -m 0, which makes pkt_chan_size 0.
\* The stuck state is the hang being shown, so deadlock is not reported
\* as such.
CONSTANTS
    NumSpace = 65536
    PktCap = 1
    MemLimits = {0, 104857600}
    ChunkCap = 1
    MaxPkts = 5
    DecodeErrors = FALSE
    NetErrors = FALSE
    WriteErrors = TRUE
SPECIFICATION Spec
PROPERTY PipelineTerminates
CHECK_DEADLOCK FALSE
