\* hgap_limiter_limit called from send_loop and from the keep-alive thread
\* (sender.c 69) without a lock.  Byterate 1 byte per tick, a check every
\* HLIM_CHK_PERIOD + 1 = 3 datagrams of 3 bytes, keep-alives of 1 byte.
\* Time stops at MaxTime, where a sleeping thread waits for good.
CONSTANTS
    Byterate = 1
    HLIM_CHK_PERIOD = 2
    PktLen = 3
    KaLen = 1
    EmitPkts = 8
    KaPkts = 2
    MaxTime = 24
INIT Init
NEXT Next
INVARIANT RateBound
CHECK_DEADLOCK FALSE
