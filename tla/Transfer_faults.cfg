\* Chunks of one block (100, 100 and 1 bytes), BEGIN/END salvos of 2, a link
\* that may lose 2 datagrams and reorder them, and a receiver mtu (100) below
\* the sender -M (124), so that recvfrom truncates the DATA of full chunks.
\* Enough to lose the whole BEGIN salvo or every datagram of a chunk, to
\* deliver a chunk before an earlier one, or to decode a truncated block.
CONSTANTS
    NumSpace = 65536
    InputLens = {201}
    NPkt = 1
    PktSize = 124
    RecvPktSize = 100
    RedundNum = 3
    RedundDen = 2
    Salvo = 2
    MaxLoss = 2
    MaxDup = 0
    Reorder = TRUE
    KeepaliveModes = {FALSE}
    MaxKeepalive = 0
SPECIFICATION Spec
INVARIANT OutputFaithful
