------------------------------ MODULE Transfer ------------------------------
(***************************************************************************)
(* One hairgap transfer end to end: the sender's emit loop, the UDP link   *)
(* and the receiver's protocol handling.                                   *)
(*                                                                         *)
(* Sender (src/lib/hgap_send.c, send_loop): a salvo of Salvo BEGIN         *)
(* packets, then for every chunk cut by read_loop the packets of           *)
(* hgap_enc_chunk_emit until the redundancy ratio reaches                  *)
(* RedundNum / RedundDen, then a salvo of END packets.  The keep-alive     *)
(* thread of src/lib/sender.c adds KEEPALIVE packets meanwhile.            *)
(*                                                                         *)
(* Link: datagrams in flight, in sending order.  Up to MaxLoss are lost    *)
(* and up to MaxDup duplicated; with Reorder any datagram in flight may    *)
(* arrive next.                                                            *)
(*                                                                         *)
(* Receiver (src/lib/hgap_receive.c): the net reader receives a datagram   *)
(* of at most RecvPktSize bytes, the decode loop runs hgap_decoder_read    *)
(* on it and, for a ready chunk, hgap_decoder_emit, and the writer appends *)
(* the chunk to the output.  The three threads are linked by FIFO channels *)
(* (module Channel), so the decoder sees the datagrams in the order the    *)
(* net reader got them and the writer the chunks in the order they were   *)
(* emitted: one atomic step per datagram has the same outcomes here.  The  *)
(* threads, their channels and their error paths are modelled apart.      *)
(***************************************************************************)
EXTENDS Encoding, Sequences, SequencesExt

CONSTANTS InputLens,    \* sizes of the sender's standard input to try
          NPkt,         \* config->n_pkt
          PktSize,      \* the sender's config->pkt_size (-M)
          RecvPktSize,  \* the receiver's config->pkt_size
          RedundNum,    \* config->redund = RedundNum / RedundDen
          RedundDen,
          Salvo,        \* HGAP_SALVE_LEN
          MaxLoss,      \* datagrams the link may lose
          MaxDup,       \* datagrams the link may duplicate
          Reorder,      \* may the link reorder datagrams?
          KeepaliveModes, \* values of config->keepalive > 0 to try
          MaxKeepalive  \* keep-alive packets sent during the transfer

ASSUME /\ PktSize > HGAP_HEADER_LEN /\ PktSize <= HGAP_MAX_PKT_SIZE
       /\ RecvPktSize > HGAP_HEADER_LEN
       /\ NPkt \in 1..HGAP_MAX_N_PKT
       /\ RedundNum >= RedundDen /\ RedundDen > 0
       /\ Salvo \in Nat \ {0}

VARIABLES inputLen, \* bytes on the sender's standard input
          kaOn,     \* config->keepalive > 0
          spc,      \* where send_loop is: "begin", "data", "end", "done"
          salvo,    \* packets of the current control salvo already sent
          sc,       \* number of the chunk being emitted
          sid,      \* chunk->next_pkt_id
          sgen,     \* chunk->total_gen
          kas,      \* keep-alive packets sent
          wire,     \* datagrams in flight
          lost,     \* datagrams lost so far
          dups,     \* datagrams duplicated so far
          started,  \* the net reader's "started" (socket timeout armed)
          dec,      \* the decoder (see Encoding)
          out,      \* chunks written by the writer, in order
          rstate,   \* "running" or "done"
          result    \* the receiver's return value

vars == <<inputLen, kaOn, spc, salvo, sc, sid, sgen, kas, wire, lost, dups,
          started, dec, out, rstate, result>>

HGAP_ERR_TIMEOUT == 17

\* content of a chunk reconstructed from bytes that were not its blocks
Corrupt == -2

-----------------------------------------------------------------------------
(* read_loop fills buffers of n_pkt * (pkt_size - HGAP_HEADER_LEN) bytes    *)
(* until EOF.  A buffer filled exactly does not see EOF yet, so the last    *)
(* buffer holds the remainder, possibly 0 bytes.                            *)
BufSize == NPkt * (PktSize - HGAP_HEADER_LEN)
NChunks == inputLen \div BufSize + 1
ChunkLen(c) == IF c < inputLen \div BufSize THEN BufSize ELSE inputLen % BufSize

\* the chunks whose bytes make up the input, in order (empty ones add none)
Expected == SelectSeq([i \in 1..NChunks |-> i - 1], LAMBDA c : ChunkLen(c) > 0)

Init == /\ inputLen \in InputLens /\ kaOn \in KeepaliveModes
        /\ spc = "begin" /\ salvo = 0
        /\ sc = 0 /\ sid = 0 /\ sgen = 0
        /\ kas = 0
        /\ wire = <<>> /\ lost = 0 /\ dups = 0
        /\ started = FALSE
        /\ dec = DecoderInit
        /\ out = <<>>
        /\ rstate = "running" /\ result = HGAP_SUCCESS

ReceiverVars == <<inputLen, kaOn, started, dec, out, rstate, result>>

-----------------------------------------------------------------------------
(* Sender.                                                                  *)

\* Variant whose salvo counter is not reset between two salvos
SendSalvoNoReset(from, pkt, to) ==
    /\ spc = from
    /\ wire' = Append(wire, pkt)
    /\ salvo' = salvo + 1
    /\ spc' = IF salvo + 1 = Salvo THEN to ELSE from
    /\ UNCHANGED <<sc, sid, sgen, kas, lost, dups>> /\ UNCHANGED ReceiverVars

\* hgap_sender_control: one packet of a BEGIN or END salvo
SendSalvo(from, pkt, to) ==
    /\ spc = from
    /\ wire' = Append(wire, pkt)
    /\ salvo' = (salvo + 1) % Salvo
    /\ spc' = IF salvo + 1 = Salvo THEN to ELSE from
    /\ UNCHANGED <<sc, sid, sgen, kas, lost, dups>> /\ UNCHANGED ReceiverVars

(* hgap_encoder_handwave into the send buffer of pkt_size bytes, then      *)
(* hgap_sender_control; its BUFFER_TOO_SMALL path needs pkt_size below the *)
(* header, which hgap_check_config_sender rejects.                         *)
Handwave == LET h == hgap_encoder_handwave(PktSize)
            IN  h.ret = HGAP_SUCCESS /\ SendSalvo("begin", h.pkt, "data")

\* hgap_encoder_teardown + hgap_sender_control ("proper exit" only)
Teardown == LET h == hgap_encoder_teardown(PktSize)
            IN  h.ret = HGAP_SUCCESS /\ SendSalvo("end", h.pkt, "done")

(* One pass of the do-while of send_loop: hgap_enc_chunk_emit writes packet *)
(* next_pkt_id of the chunk, hgap_sender_send sends it, and the chunk is    *)
(* freed once total_gen / len reaches redund.                               *)
Emit ==
    /\ spc = "data" /\ sc < NChunks
    /\ LET len   == ChunkLen(sc)
           psize == chunk_pkt_size(PktSize, len)
           e     == hgap_enc_chunk_emit(sc, len, psize, sid, sgen)
       IN /\ wire' = Append(wire, e.pkt)
          /\ IF KeepEmitting(e.gen, len, RedundNum, RedundDen)
               THEN sid' = sid + 1 /\ sgen' = e.gen /\ UNCHANGED sc
               ELSE sc' = sc + 1 /\ sid' = 0 /\ sgen' = 0
    /\ UNCHANGED <<spc, salvo, kas, lost, dups>> /\ UNCHANGED ReceiverVars

\* channel_recv gives the NULL chunk the encoder sends after the last one
NoMoreChunks ==
    /\ spc = "data" /\ sc = NChunks
    /\ spc' = "end"
    /\ UNCHANGED <<salvo, sc, sid, sgen, kas, wire, lost, dups>>
    /\ UNCHANGED ReceiverVars

\* keepalive_loop_thread: a header-only KEEPALIVE while the sender lives
Keepalive ==
    /\ kaOn /\ spc # "done" /\ kas < MaxKeepalive
    /\ wire' = Append(wire, ControlPacket(HGAP_KEEP_ALIVE))
    /\ kas' = kas + 1
    /\ UNCHANGED <<spc, salvo, sc, sid, sgen, lost, dups>>
    /\ UNCHANGED ReceiverVars

-----------------------------------------------------------------------------
(* Link.                                                                    *)
Lose(i) ==
    /\ lost < MaxLoss
    /\ wire' = RemoveAt(wire, i) /\ lost' = lost + 1
    /\ UNCHANGED <<spc, salvo, sc, sid, sgen, kas, dups>>
    /\ UNCHANGED ReceiverVars

Duplicate(i) ==
    /\ dups < MaxDup
    /\ wire' = InsertAt(wire, i + 1, wire[i]) /\ dups' = dups + 1
    /\ UNCHANGED <<spc, salvo, sc, sid, sgen, kas, lost>>
    /\ UNCHANGED ReceiverVars

-----------------------------------------------------------------------------
(* Receiver.                                                                *)

(* hgapr_net_reader receives datagram i (recvfrom truncates it to the       *)
(* mtu), arms the timeout on the first BEGIN and forwards it; decloop runs  *)
(* hgap_decoder_read and on a positive return hgap_decoder_emit; the writer *)
(* writes the chunk.  The transfer ends on END (the net reader stops and    *)
(* its poison pill stops the others), on -HGAP_EOT, or on a decoder error.  *)
Receive(i) ==
    /\ rstate = "running"
    /\ i = 1 \/ Reorder
    /\ LET p   == wire[i]
           len == MinOf(p.len, RecvPktSize)
           r   == hgap_decoder_read(dec, p, len)
           e   == hgap_decoder_emit(r.dec)
           \* the error decloop returns, HGAP_SUCCESS if none
           err == CASE r.ret < 0 /\ r.ret # -HGAP_EOT -> -r.ret
                    [] r.ret > 0                      -> e.ret
                    [] OTHER                          -> HGAP_SUCCESS
       IN /\ wire' = RemoveAt(wire, i)
          /\ started' = (started \/ hgap_pkt_type(p, len) = "BEGIN")
          /\ dec' = IF r.ret > 0 THEN e.dec ELSE r.dec
          /\ out' = IF r.ret > 0 /\ e.ret = HGAP_SUCCESS
                    THEN Append(out, IF r.dec.bad THEN Corrupt ELSE r.dec.num)
                    ELSE out
          /\ IF err # HGAP_SUCCESS
               THEN rstate' = "done" /\ result' = err
             ELSE IF r.ret = -HGAP_EOT \/ hgap_pkt_type(p, len) = "END"
               THEN rstate' = "done" /\ UNCHANGED result
             ELSE UNCHANGED <<rstate, result>>
    /\ UNCHANGED <<inputLen, kaOn, spc, salvo, sc, sid, sgen, kas, lost, dups>>

(* SO_RCVTIMEO, armed after the first BEGIN: nothing arrives any more.  The *)
(* keep-alives keep it from firing while the sender is alive.               *)
Timeout ==
    /\ rstate = "running" /\ started /\ wire = <<>>
    /\ spc = "done" \/ ~kaOn
    /\ rstate' = "done" /\ result' = HGAP_ERR_TIMEOUT
    /\ UNCHANGED <<inputLen, kaOn, started, dec, out>>
    /\ UNCHANGED <<spc, salvo, sc, sid, sgen, kas, wire, lost, dups>>

-----------------------------------------------------------------------------
SenderStep == Handwave \/ Emit \/ NoMoreChunks \/ Teardown

ReceiverStep == (\E i \in 1..Len(wire) : Receive(i)) \/ Timeout

Terminated == spc = "done" /\ rstate = "done" /\ UNCHANGED vars

Next == \/ SenderStep \/ Keepalive
        \/ \E i \in 1..Len(wire) : Lose(i) \/ Duplicate(i)
        \/ ReceiverStep
        \/ Terminated

(* Both peers run until they return; losses, duplicates and keep-alives     *)
(* are not forced to happen.                                                *)
Spec == Init /\ [][Next]_vars /\ WF_vars(SenderStep) /\ WF_vars(ReceiverStep)

-----------------------------------------------------------------------------
TypeOK ==
    /\ inputLen \in InputLens /\ kaOn \in KeepaliveModes
    /\ spc \in {"begin", "data", "end", "done"}
    /\ salvo \in 0..Salvo-1
    /\ sc \in 0..NChunks /\ sid \in Nat /\ sgen \in Nat
    /\ kas \in 0..MaxKeepalive /\ lost \in 0..MaxLoss /\ dups \in 0..MaxDup
    /\ wire \in Seq([num : Nat, size : Nat, id : Nat, dsize : Nat, len : Nat])
    /\ started \in BOOLEAN
    /\ dec.state \in T_NEW..T_STOPPED
    /\ out \in Seq((0..NChunks-1) \cup {Corrupt})
    /\ rstate \in {"running", "done"}
    /\ result \in {HGAP_SUCCESS, HGAP_ERR_INCOMPLETE_CHUNK,
                   HGAP_ERR_BAD_CHUNK, HGAP_ERR_TIMEOUT}

(* The receiver only ever writes the input's bytes, in order: what it has   *)
(* written is at every moment a prefix of the input (no chunk is skipped,   *)
(* repeated, reordered or corrupted), whatever the link did.                *)
OutputIsPrefix == IsPrefix(out, Expected)

(* A receiver that returns HGAP_SUCCESS has written the whole input: an     *)
(* unrecoverable loss is reported as a failure (spec section 7).            *)
SuccessImpliesFidelity ==
    (rstate = "done" /\ result = HGAP_SUCCESS) => out = Expected

(* What hairgapr writes to its output is the input, or a prefix of it:     *)
(* always a prefix, and the whole input once hgap_receive reports success, *)
(* whatever the link loses, reorders or truncates.                          *)
OutputFaithful == OutputIsPrefix /\ SuccessImpliesFidelity

(* With losses within the redundancy budget and keep-alives on, the         *)
(* receiver eventually returns HGAP_SUCCESS (without keep-alives the socket *)
(* timeout may end an idle transfer early).                                 *)
TransferSucceeds == kaOn => <>(rstate = "done" /\ result = HGAP_SUCCESS)
=============================================================================
