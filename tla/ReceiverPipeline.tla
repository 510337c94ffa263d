--------------------------- MODULE ReceiverPipeline ---------------------------
(***************************************************************************)
(* The three threads of hgap_receive (src/lib/hgap_receive.c) and the two  *)
(* channels between them:                                                  *)
(*                                                                         *)
(*   net reader (main thread) --chan_net2dec--> decloop --chan_dec2out-->  *)
(*   writer                                                                *)
(*                                                                         *)
(* with their poison pills, the poisoning of chan_net2dec on a decoding    *)
(* error, the CHK that exits the process, the writer's error path and the  *)
(* joins that select the error returned.                                   *)
(*                                                                         *)
(* A channel is the bounded FIFO of ChannelQueue (Channel refines it):     *)
(* reserve/peek block until there is room/an element or the channel is     *)
(* poisoned, and every operation on a poisoned channel fails.  Datagrams   *)
(* are abstracted to their type; hgap_decoder_read is abstracted to its    *)
(* state machine (UpdateState of Encoding) and, for a DATA packet in state *)
(* T_DATA, to the class of its return value: 0, a ready chunk, or a        *)
(* decoding error (the choices the Transfer model resolves).               *)
(***************************************************************************)
EXTENDS Config, Sequences

CONSTANTS PktCap,        \* capacity of chan_net2dec when pkt_chan_size > 0
          MemLimits,     \* config->mem_limit values (bytes)
          ChunkCap,      \* capacity of chan_dec2out (chunk_chan_size)
          MaxPkts,       \* datagrams the net reader receives at most
          DecodeErrors,  \* may a DATA packet give a decoding error?
          NetErrors,     \* may recvfrom fail with another errno?
          WriteErrors    \* may write() be short?

ASSUME PktCap \in Nat \ {0} /\ ChunkCap \in Nat \ {0} /\ MaxPkts \in Nat \ {0}

\* hairgap.h error codes used here
HGAP_ERR_TIMEOUT    == 17
HGAP_ERR_NETWORK    == 18
HGAP_ERR_IPC        == 19

Pill == "PILL"    \* a NULL-data element: the poison pill of a pipeline stage
Chunk == "CHUNK"  \* a decoded chunk on chan_dec2out
ChunkReady == 1   \* a positive return of hgap_decoder_read: a chunk length

VARIABLES config,            \* the struct hgap_config passed to hgap_receive
          n2d, n2dPoisoned,   \* chan_net2dec: elements, poisoned flag
          d2o,                \* chan_dec2out (never poisoned)
          npc, held, npk, started, netret,   \* net reader and main thread
          dpc, dstate, dret, emitted,        \* decloop
          wpc, wret, written,                \* writer
          result              \* value hgap_receive returns

vars == <<config, n2d, n2dPoisoned, d2o, npc, held, npk, started, netret,
          dpc, dstate, dret, emitted, wpc, wret, written, result>>

\* HGAP_SELECT_ERROR, with its operands swapped in the first test
SelectErrorSwapped(e1, e2) ==
    IF e1 # HGAP_SUCCESS THEN e2
    ELSE IF e2 = HGAP_SUCCESS THEN e1 ELSE MinOf(e1, e2)

\* HGAP_SELECT_ERROR: the non-success one, or the smaller (more severe)
HGAP_SELECT_ERROR(e1, e2) ==
    IF e1 = HGAP_SUCCESS THEN e2
    ELSE IF e2 = HGAP_SUCCESS THEN e1 ELSE MinOf(e1, e2)

(* hgap_receive is called with any configuration; decloop and the writer *)
(* are not created yet.                                                   *)
Init == /\ config \in ReceiverConfigs(MemLimits)
        /\ n2d = <<>> /\ n2dPoisoned = FALSE /\ d2o = <<>>
        /\ npc = "check" /\ held = Pill /\ npk = 0 /\ started = FALSE
        /\ netret = HGAP_SUCCESS
        /\ dpc = "idle" /\ dstate = T_NEW /\ dret = HGAP_SUCCESS
        /\ emitted = 0
        /\ wpc = "idle" /\ wret = HGAP_SUCCESS /\ written = 0
        /\ result = HGAP_SUCCESS

NetVars == <<config, npc, held, npk, started, netret, result>>
DecVars == <<dpc, dstate, dret, emitted>>
WrVars  == <<wpc, wret, written>>

(* channel_new(pkt_size, pkt_chan_size) makes a ring of pkt_chan_size + 1 *)
(* slots: 0 gives a channel that is always full.  A positive size (tens   *)
(* of thousands) is scaled down to PktCap.                                *)
PktChanCap == IF pkt_chan_size(config) = 0 THEN 0 ELSE PktCap

\* Variant of the reserve test that never blocks on a full channel
CanReserveNoCap(q, cap, poisoned) == TRUE

\* channel_reserve returns (a slot, or NULL once poisoned) instead of blocking
CanReserve(q, cap, poisoned) == poisoned \/ Len(q) < cap

-----------------------------------------------------------------------------
(* hgapr_net_reader, then hgap_receive's joins (the same thread).          *)

\* hgap_receive: hgap_check_config_receiver, returning its error, else the
\* channels, the writer and decloop threads, then hgapr_net_reader
RecvCheck ==
    /\ npc = "check"
    /\ LET err == hgap_check_config_receiver(config)
       IN  IF err # HGAP_SUCCESS
             THEN result' = err /\ npc' = "done" /\ UNCHANGED <<dpc, wpc>>
             ELSE npc' = "open" /\ dpc' = "peek" /\ wpc' = "recv"
                  /\ UNCHANGED result
    /\ UNCHANGED <<config, n2d, n2dPoisoned, d2o, held, npk, started, netret>>
    /\ UNCHANGED <<dstate, dret, emitted, wret, written>>

(* hgapr_open_udp_socket: inet_addr of a name is INADDR_NONE and fails, as *)
(* socket() or bind() may (NetErrors); the reader then goes to "closing".  *)
NetOpen ==
    /\ npc = "open"
    /\ \/ /\ inet_addr(config.addr) # INADDR_NONE
          /\ npc' = "reserve" /\ UNCHANGED netret
       \/ /\ NetErrors \/ inet_addr(config.addr) = INADDR_NONE
          /\ netret' = HGAP_ERR_NETWORK /\ npc' = "pill"
    /\ UNCHANGED <<config, n2d, n2dPoisoned, d2o, held, npk, started, result>>
    /\ UNCHANGED DecVars /\ UNCHANGED WrVars

\* pkt = channel_reserve(chan); CHK(pkt): a NULL slot exits the process
NetReserve ==
    /\ npc = "reserve" /\ CanReserve(n2d, PktChanCap, n2dPoisoned)
    /\ npc' = IF n2dPoisoned THEN "exit" ELSE "recv"
    /\ UNCHANGED <<config, n2d, n2dPoisoned, d2o, held, npk, started, netret, result>>
    /\ UNCHANGED DecVars /\ UNCHANGED WrVars

(* recvfrom: a datagram (after MaxPkts - 1 of them, the END that closes    *)
(* the transfer), or, once the timeout is armed, ETIMEDOUT/EAGAIN, or      *)
(* another error.  The first BEGIN arms the timeout.                       *)
NetRecv ==
    /\ npc = "recv"
    /\ \/ \E k \in IF npk < MaxPkts - 1 THEN {"BEGIN", "DATA", "END"}
                   ELSE {"END"} :
            /\ held' = k /\ npk' = npk + 1
            /\ started' = (started \/ k = "BEGIN")
            /\ npc' = "commit" /\ UNCHANGED netret
       \/ /\ started /\ netret' = HGAP_ERR_TIMEOUT
          /\ npc' = "pill" /\ UNCHANGED <<held, npk, started>>
       \/ /\ NetErrors /\ netret' = HGAP_ERR_NETWORK
          /\ npc' = "pill" /\ UNCHANGED <<held, npk, started>>
    /\ UNCHANGED <<config, n2d, n2dPoisoned, d2o, result>>
    /\ UNCHANGED DecVars /\ UNCHANGED WrVars

\* channel_send_reserved; the loop stops after forwarding END
NetCommit ==
    /\ npc = "commit"
    /\ IF n2dPoisoned
         THEN netret' = HGAP_ERR_IPC /\ npc' = "pill" /\ UNCHANGED n2d
         ELSE /\ n2d' = Append(n2d, held) /\ UNCHANGED netret
              /\ npc' = IF held = "END" THEN "pill" ELSE "reserve"
    /\ UNCHANGED <<config, n2dPoisoned, d2o, held, npk, started, result>>
    /\ UNCHANGED DecVars /\ UNCHANGED WrVars

\* the closing poison pill: reserve (skipped if NULL), then send_reserved
NetPill ==
    /\ npc = "pill" /\ CanReserve(n2d, PktChanCap, n2dPoisoned)
    /\ npc' = IF n2dPoisoned THEN "join_dec" ELSE "pill_commit"
    /\ UNCHANGED <<config, n2d, n2dPoisoned, d2o, held, npk, started, netret, result>>
    /\ UNCHANGED DecVars /\ UNCHANGED WrVars

NetPillCommit ==
    /\ npc = "pill_commit"
    /\ IF n2dPoisoned
         THEN netret' = HGAP_ERR_IPC /\ UNCHANGED n2d
         ELSE n2d' = Append(n2d, Pill) /\ UNCHANGED netret
    /\ npc' = "join_dec"
    /\ UNCHANGED <<config, n2dPoisoned, d2o, held, npk, started, result>>
    /\ UNCHANGED DecVars /\ UNCHANGED WrVars

\* pthread_join(dec_thread): select its error against the net reader's
JoinDec ==
    /\ npc = "join_dec" /\ dpc = "done"
    /\ result' = IF dret # HGAP_SUCCESS THEN HGAP_SELECT_ERROR(dret, netret)
                 ELSE netret
    /\ npc' = "join_wr"
    /\ UNCHANGED <<config, n2d, n2dPoisoned, d2o, held, npk, started, netret>>
    /\ UNCHANGED DecVars /\ UNCHANGED WrVars

\* Variant that returns without waiting for the writer
JoinWrNoWait ==
    /\ npc = "join_wr"
    /\ result' = IF wret # HGAP_SUCCESS THEN HGAP_SELECT_ERROR(wret, result)
                 ELSE result
    /\ npc' = "done"
    /\ UNCHANGED <<config, n2d, n2dPoisoned, d2o, held, npk, started, netret>>
    /\ UNCHANGED DecVars /\ UNCHANGED WrVars

\* pthread_join(wr_thread), then return retval
JoinWr ==
    /\ npc = "join_wr" /\ wpc = "done"
    /\ result' = IF wret # HGAP_SUCCESS THEN HGAP_SELECT_ERROR(wret, result)
                 ELSE result
    /\ npc' = "done"
    /\ UNCHANGED <<config, n2d, n2dPoisoned, d2o, held, npk, started, netret>>
    /\ UNCHANGED DecVars /\ UNCHANGED WrVars

-----------------------------------------------------------------------------
(* decloop.                                                                 *)

\* the classes of hgap_decoder_read's return value for a datagram of type k
DecoderReturns(state, k) ==
    LET s == UpdateState(state, k) IN
    IF s < T_DATA THEN {0}
    ELSE IF s = T_STOPPED THEN {-HGAP_EOT}
    ELSE IF k # "DATA" THEN {0}
    ELSE {0, ChunkReady} \cup (IF DecodeErrors THEN {-HGAP_ERR_INCOMPLETE_CHUNK}
                                          ELSE {})

(* channel_peek; on the pill, leave the loop; else hgap_decoder_read,       *)
(* channel_ack, and: 0 -> next packet, -HGAP_EOT -> leave, error -> record  *)
(* it, poison chan_net2dec and leave, ready -> emit and send the chunk.     *)
DecStep ==
    /\ dpc = "peek" /\ npc # "exit"
    /\ n2dPoisoned \/ n2d # <<>>
    /\ IF n2dPoisoned
         THEN dret' = HGAP_ERR_IPC /\ dpc' = "pill"
              /\ UNCHANGED <<n2d, n2dPoisoned, dstate>>
       ELSE IF Head(n2d) = Pill
         THEN dpc' = "pill" /\ UNCHANGED <<n2d, n2dPoisoned, dstate, dret>>
       ELSE \E r \in DecoderReturns(dstate, Head(n2d)) :
              /\ dstate' = UpdateState(dstate, Head(n2d))
              /\ n2d' = Tail(n2d)
              /\ CASE r = 0 -> dpc' = "peek" /\ UNCHANGED <<n2dPoisoned, dret>>
                   [] r > 0 -> dpc' = "send"
                                   /\ UNCHANGED <<n2dPoisoned, dret>>
                   [] r = -HGAP_EOT -> dpc' = "pill"
                                       /\ UNCHANGED <<n2dPoisoned, dret>>
                   [] OTHER -> dret' = -r /\ n2dPoisoned' = TRUE
                               /\ dpc' = "pill"
    /\ UNCHANGED <<d2o, emitted>> /\ UNCHANGED NetVars /\ UNCHANGED WrVars

\* hairgap.h: wirehair_reconstruct failing in hgap_decoder_emit
HGAP_ERR_WIREHAIR_ERROR == 12

(* hgap_decoder_emit, then channel_send(chan_dec2out, &chunk) on success;  *)
(* a failed emit (wirehair_reconstruct: the chunk is complete and the      *)
(* buffer has its length) poisons chan_net2dec and leaves the loop, as a   *)
(* decode error does.                                                      *)
DecSend ==
    /\ dpc = "send" /\ npc # "exit"
    /\ \/ /\ Len(d2o) < ChunkCap
          /\ d2o' = Append(d2o, Chunk) /\ emitted' = emitted + 1
          /\ dpc' = "peek" /\ UNCHANGED <<n2dPoisoned, dret>>
       \/ /\ DecodeErrors /\ dret' = HGAP_ERR_WIREHAIR_ERROR
          /\ n2dPoisoned' = TRUE /\ dpc' = "pill"
          /\ UNCHANGED <<d2o, emitted>>
    /\ UNCHANGED <<n2d, dstate>>
    /\ UNCHANGED NetVars /\ UNCHANGED WrVars

\* Variant that ends decloop without its poison pill
DecPillMissing ==
    /\ dpc = "pill" /\ npc # "exit" /\ Len(d2o) < ChunkCap
    /\ dpc' = "done"
    /\ UNCHANGED <<d2o, n2d, n2dPoisoned, dstate, dret, emitted>>
    /\ UNCHANGED NetVars /\ UNCHANGED WrVars

\* the decoder's poison pill on chan_dec2out
DecPill ==
    /\ dpc = "pill" /\ npc # "exit" /\ Len(d2o) < ChunkCap
    /\ d2o' = Append(d2o, Pill) /\ dpc' = "done"
    /\ UNCHANGED <<n2d, n2dPoisoned, dstate, dret, emitted>>
    /\ UNCHANGED NetVars /\ UNCHANGED WrVars

-----------------------------------------------------------------------------
(* writer: channel_recv, stop on the pill; a short write stops the loop     *)
(* with HGAP_ERR_BAD_OUT_FD, leaving chan_dec2out as it is.                 *)
WrStep ==
    /\ wpc = "recv" /\ npc # "exit" /\ d2o # <<>>
    /\ d2o' = Tail(d2o)
    /\ IF Head(d2o) = Pill
         THEN wpc' = "done" /\ UNCHANGED <<wret, written>>
         ELSE \/ written' = written + 1 /\ UNCHANGED <<wpc, wret>>
              \/ /\ WriteErrors /\ wret' = HGAP_ERR_BAD_OUT_FD
                 /\ wpc' = "done" /\ UNCHANGED written
    /\ UNCHANGED <<n2d, n2dPoisoned>> /\ UNCHANGED NetVars
    /\ UNCHANGED DecVars

-----------------------------------------------------------------------------
NetStep == RecvCheck \/ NetOpen \/ NetReserve \/ NetRecv \/ NetCommit
           \/ NetPill \/ NetPillCommit \/ JoinDec \/ JoinWr

\* the process has returned from hgap_receive or exited
Ended == npc \in {"done", "exit"}

Terminated == Ended /\ UNCHANGED vars

Next == NetStep \/ DecStep \/ DecSend \/ DecPill \/ WrStep \/ Terminated

(* Each thread runs when it can: weak fairness per thread.  The blocking    *)
(* operations are enabled exactly when the channel lets them return.        *)
Spec == /\ Init /\ [][Next]_vars
        /\ WF_vars(NetStep)
        /\ WF_vars(DecStep \/ DecSend \/ DecPill)
        /\ WF_vars(WrStep)

-----------------------------------------------------------------------------
ErrorCodes == {HGAP_SUCCESS, HGAP_ERR_INVALID_ADDR, HGAP_ERR_BAD_OUT_FD, HGAP_ERR_INCOMPLETE_CHUNK,
               HGAP_ERR_WIREHAIR_ERROR, HGAP_ERR_TIMEOUT, HGAP_ERR_NETWORK, HGAP_ERR_IPC}

TypeOK ==
    /\ config \in ReceiverConfigs(MemLimits)
    /\ n2d \in Seq({"BEGIN", "DATA", "END", Pill}) /\ Len(n2d) <= PktCap
    /\ d2o \in Seq({Chunk, Pill}) /\ Len(d2o) <= ChunkCap
    /\ n2dPoisoned \in BOOLEAN /\ started \in BOOLEAN
    /\ npc \in {"check", "open", "reserve", "recv", "commit", "pill", "pill_commit",
                "join_dec", "join_wr", "done", "exit"}
    /\ dpc \in {"idle", "peek", "send", "pill", "done"}
    /\ wpc \in {"idle", "recv", "done"}
    /\ dstate \in T_NEW..T_STOPPED
    /\ {netret, dret, wret, result} \subseteq ErrorCodes
    /\ npk \in 0..MaxPkts /\ written <= emitted

(* hgap_receive returns (or the process exits): no thread of the pipeline  *)
(* stays blocked on a channel, whatever error stops another one.            *)
PipelineTerminates == <>Ended

(* When hgap_receive returns HGAP_SUCCESS, the writer has written every     *)
(* chunk decloop emitted: the pills end each stage after its data.          *)
AllEmittedWritten ==
    (npc = "done" /\ result = HGAP_SUCCESS) => written = emitted

(* An error of any thread is not masked: hgap_receive returns HGAP_SUCCESS  *)
(* only if the net reader, decloop and the writer all succeeded.            *)
FailureNotMasked ==
    (npc = "done" /\ result = HGAP_SUCCESS)
        => netret = HGAP_SUCCESS /\ dret = HGAP_SUCCESS /\ wret = HGAP_SUCCESS

(* A decoding error is returned by hgap_receive, as spec section 4.7 says   *)
(* ("poisons the upstream channel and surfaces the error"); the process is  *)
(* not ended by the CHK(pkt) of the net reader.                             *)
NoExitOnDecodeError == npc # "exit"
=============================================================================
