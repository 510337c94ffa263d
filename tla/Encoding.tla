------------------------------ MODULE Encoding ------------------------------
(***************************************************************************)
(* The wire format and the chunk encoder/decoder of hairgap, as operators: *)
(* src/lib/proto.h, src/lib/proto.c (packet classification and parsing)    *)
(* and src/lib/encoding.c (chunk emission, hgap_decoder_read/emit).        *)
(*                                                                         *)
(* Data abstraction.  A packet is a record of its four header fields and   *)
(* its datagram length; payload bytes are not represented.  The fountain   *)
(* code (wirehair) is abstracted to what the protocol relies on: a large   *)
(* chunk of len bytes cut in blocks of B bytes is recovered once           *)
(* ceil(len / B) distinct block ids have been read.  chunk_num is a 64-bit *)
(* word; NumSpace stands for 2^64 (the reserved values are its top 16).    *)
(***************************************************************************)
EXTENDS Integers, FiniteSets

CONSTANT NumSpace

\* proto.h
HGAP_HEADER_LEN     == 24
HGAP_MAX_PKT_SIZE   == 1500
HGAP_MAX_N_PKT      == 64000
HGAP_MAX_CHUNK_SIZE == HGAP_MAX_PKT_SIZE * HGAP_MAX_N_PKT
HGAP_NO_MORE_CHUNK  == NumSpace - 1
HGAP_BEGIN_BEACON   == NumSpace - 2
HGAP_KEEP_ALIVE     == NumSpace - 3
HGAP_FIRST_RESERVED == NumSpace - 16

\* hairgap.h error codes used by the decoder
HGAP_SUCCESS              == 0
HGAP_EOT                  == 1
HGAP_ERR_BUFFER_TOO_SMALL == 13
HGAP_ERR_INCOMPLETE_CHUNK == 14
HGAP_ERR_BAD_CHUNK        == 15

\* encoding.h, enum hgap_decoder_state
T_NEW     == 0
T_STARTED == 1
T_DATA    == 2
T_STOPPED == 3

MinOf(a, b) == IF a < b THEN a ELSE b

-----------------------------------------------------------------------------
(* Packets: the header fields written by hgap_write_header and the length  *)
(* of the datagram.  hgap_header_begin/end/keepalive zero every field but   *)
(* chunk_num; a control packet is header-only.                              *)
Packet(num, size, id, dsize, len) ==
    [num |-> num, size |-> size, id |-> id, dsize |-> dsize, len |-> len]

ControlPacket(num) == Packet(num, 0, 0, 0, HGAP_HEADER_LEN)

\* proto.h: HGAP_HEADER_LEN + HGAP_CONTROL_LEN, the latter 0
HGAP_MIN_BUF == HGAP_HEADER_LEN + 0

(* hgap_encoder_handwave / hgap_encoder_teardown into a buffer of size     *)
(* bytes: HGAP_ERR_BUFFER_TOO_SMALL below HGAP_MIN_BUF, else the BEGIN or  *)
(* END header, which is the whole datagram: *size = HGAP_HEADER_LEN.       *)
ControlEncode(num, size) ==
    [ret |-> IF size < HGAP_MIN_BUF THEN HGAP_ERR_BUFFER_TOO_SMALL
                                    ELSE HGAP_SUCCESS,
     pkt |-> ControlPacket(num)]

hgap_encoder_handwave(size) == ControlEncode(HGAP_BEGIN_BEACON, size)
hgap_encoder_teardown(size) == ControlEncode(HGAP_NO_MORE_CHUNK, size)

\* hgap_pkt_type: classification by chunk_num only
hgap_pkt_type(p, len) ==
    IF len < HGAP_HEADER_LEN THEN "UNKNOWN"
    ELSE CASE p.num = HGAP_BEGIN_BEACON -> "BEGIN"
           [] p.num = HGAP_NO_MORE_CHUNK -> "END"
           [] p.num = HGAP_KEEP_ALIVE    -> "KEEPALIVE"
           [] p.num >= HGAP_FIRST_RESERVED -> "UNKNOWN"
           [] OTHER -> "DATA"

\* hgap_pkt_parse: the datagram must hold the header and data_size bytes
ParseOK(p, len) == len >= HGAP_HEADER_LEN /\ len >= p.dsize + HGAP_HEADER_LEN

-----------------------------------------------------------------------------
(* Encoder side (hgap_enc_chunk_init / hgap_enc_chunk_emit).                *)
chunk_pkt_size(pkt_size, len) == MinOf(pkt_size, len + HGAP_HEADER_LEN)

hgap_enc_chunk_is_small(len, psize) == len <= psize - HGAP_HEADER_LEN

\* payload_size of one emitted packet
EmitPayload(len, psize) ==
    IF hgap_enc_chunk_is_small(len, psize) THEN len ELSE psize - HGAP_HEADER_LEN

\* Variant that accounts the whole packet, header included, in total_gen
TotalGenAfterPktSize(gen, len, psize) == gen + psize

\* chunk->total_gen after one more emitted packet
TotalGenAfter(gen, len, psize) == gen + EmitPayload(len, psize)

(* hgap_enc_chunk_emit for packet id of chunk num (len bytes, packets of   *)
(* psize bytes, gen bytes generated so far): the header written before the  *)
(* payload, the datagram of *size = psize bytes, and the new total_gen.     *)
(* The wirehair_write failure is an error path of SenderPipeline.           *)
hgap_enc_chunk_emit(num, len, psize, id, gen) ==
    [pkt |-> Packet(num, len, id, EmitPayload(len, psize), psize),
     gen |-> TotalGenAfter(gen, len, psize)]

(* The do-while of send_loop continues while total_gen / len < redund,      *)
(* redund = rn / rd.  For len = 0 the ratio is 0.0 / 0.0 = NaN and the      *)
(* comparison is false: an empty chunk is emitted once.                     *)
KeepEmitting(gen, len, rn, rd) == len > 0 /\ gen * rd < rn * len

-----------------------------------------------------------------------------
(* Decoder.  A record for struct hgap_decoder and its single chunk:         *)
(*   state, complete, emitted   as in struct hgap_decoder                   *)
(*   num, len, psize            chunk->num, chunk->len, chunk->pkt_size     *)
(*   data                       chunk->data != NULL (small-chunk copy)      *)
(*   ids                        distinct block ids read by wirehair         *)
(*   bad                        a block was read from a short datagram      *)
(* hgap_decoder_new: fresh zeroed chunk with num = -1 (as a uint64).        *)
DecoderInit ==
    [state |-> T_NEW, complete |-> TRUE, emitted |-> TRUE,
     num |-> HGAP_NO_MORE_CHUNK, len |-> 0, psize |-> 0,
     data |-> FALSE, ids |-> {}, bad |-> FALSE]

\* hgap_decoder_update_state
UpdateState(state, type) ==
    CASE type = "BEGIN" /\ state = T_NEW     -> T_STARTED
      [] type = "DATA"  /\ state = T_STARTED -> T_DATA
      [] type = "END"   /\ state >= T_STARTED -> T_STOPPED
      [] OTHER -> state

\* number of wirehair blocks of a large chunk
Blocks(len, psize) ==
    LET b == psize - HGAP_HEADER_LEN IN (len + b - 1) \div b

\* Variant that takes the chunk number from the packet id field
DecChunkInitById(d, p) == [d EXCEPT !.num = p.id, !.len = p.size,
                              !.psize = p.dsize + HGAP_HEADER_LEN,
                              !.data = FALSE, !.ids = {}, !.bad = FALSE,
                              !.complete = FALSE, !.emitted = FALSE]

\* hgap_enc_chunk_purge then hgap_dec_chunk_init from the first packet
DecChunkInit(d, p) ==
    [d EXCEPT !.num = p.num, !.len = p.size,
              !.psize = p.dsize + HGAP_HEADER_LEN,
              !.data = FALSE, !.ids = {}, !.bad = FALSE,
              !.complete = FALSE, !.emitted = FALSE]

(* hgap_dec_chunk_read: a small chunk is copied from its first packet; a    *)
(* large one feeds the block to wirehair, ready once enough distinct ids    *)
(* arrived.  short is TRUE when the datagram held fewer bytes than its      *)
(* data_size: the bytes read past its end are not the block.                *)
DecChunkRead(d, p, short) ==
    IF d.data THEN [dec |-> d, ret |-> d.len]
    ELSE IF hgap_enc_chunk_is_small(d.len, d.psize)
    THEN [dec |-> [d EXCEPT !.data = TRUE, !.bad = short], ret |-> d.len]
    ELSE LET d2 == [d EXCEPT !.ids = @ \cup {p.id}, !.bad = @ \/ short]
         IN [dec |-> d2,
             ret |-> IF Cardinality(d2.ids) >= Blocks(d.len, d.psize)
                     THEN d.len ELSE 0]

\* Variant that never records the chunk as complete
MarkCompleteMissing(d, ready) == d

\* if (ready > 0) dec->chunk_complete = 1
MarkComplete(d, ready) == IF ready > 0 THEN [d EXCEPT !.complete = TRUE] ELSE d

\* Variant that returns the length again once the chunk was emitted
AlreadyCompleteReemit(d) == d.len

\* the current chunk is complete: 0 once emitted, else its length
AlreadyComplete(d) == IF d.emitted THEN 0 ELSE d.len

(* hgap_decoder_read on a datagram of len bytes whose header is p.  The     *)
(* result of hgap_pkt_parse is not looked at.  Returns the new decoder and  *)
(* the return value: 0, a chunk length, -HGAP_EOT or -error.                *)
hgap_decoder_read(d, p, len) ==
    LET type  == hgap_pkt_type(p, len)
        d1    == [d EXCEPT !.state = UpdateState(d.state, type)]
        short == ~ParseOK(p, len)
    IN
    IF d1.state < T_DATA THEN [dec |-> d1, ret |-> 0]
    ELSE IF d1.state = T_STOPPED THEN [dec |-> d1, ret |-> -HGAP_EOT]
    ELSE IF type # "DATA" THEN [dec |-> d1, ret |-> 0]
    ELSE IF p.num # d1.num
    THEN IF ~d1.complete
         THEN [dec |-> d1, ret |-> -HGAP_ERR_INCOMPLETE_CHUNK]
         ELSE IF p.size > HGAP_MAX_CHUNK_SIZE
         THEN [dec |-> d1, ret |-> -HGAP_ERR_BAD_CHUNK]
         ELSE LET r == DecChunkRead(DecChunkInit(d1, p), p, short)
              IN [dec |-> MarkComplete(r.dec, r.ret), ret |-> r.ret]
    ELSE IF d1.complete THEN [dec |-> d1, ret |-> AlreadyComplete(d1)]
    ELSE LET r == DecChunkRead(d1, p, short)
         IN [dec |-> MarkComplete(r.dec, r.ret), ret |-> r.ret]

(* hgap_decoder_emit into a buffer of exactly the chunk's length (so never  *)
(* HGAP_ERR_BUFFER_TOO_SMALL); wirehair_reconstruct succeeds once ready.    *)
hgap_decoder_emit(d) ==
    IF ~d.complete THEN [dec |-> d, ret |-> HGAP_ERR_INCOMPLETE_CHUNK]
    ELSE [dec |-> [d EXCEPT !.emitted = TRUE], ret |-> HGAP_SUCCESS]
=============================================================================
