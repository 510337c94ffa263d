\* 201 bytes (a chunk of 200 bytes in two blocks, then 1 byte) or 200 bytes
\* (then an empty chunk: read_loop sees EOF only on the next read); keep-alives
\* on or off (off: the socket timeout may fire whenever the link is idle).
\* Redundancy 3/2, BEGIN/END salvos of 2, FIFO link losing one datagram and
\* duplicating one.
CONSTANTS
    NumSpace = 65536
    InputLens = {200, 201}
    NPkt = 2
    PktSize = 124
    RecvPktSize = 124
    RedundNum = 3
    RedundDen = 2
    Salvo = 2
    MaxLoss = 1
    MaxDup = 1
    Reorder = FALSE
    KeepaliveModes = {TRUE, FALSE}
    MaxKeepalive = 1
SPECIFICATION Spec
INVARIANTS TypeOK OutputIsPrefix SuccessImpliesFidelity
PROPERTIES TransferSucceeds
