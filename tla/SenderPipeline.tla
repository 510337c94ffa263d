---------------------------- MODULE SenderPipeline ----------------------------
(***************************************************************************)
(* The three threads of hgap_send (src/lib/hgap_send.c) and the two        *)
(* channels of 16 between them:                                            *)
(*                                                                         *)
(*   read_loop --chan_in2enc--> encode_loop --chan_enc2net--> send_loop    *)
(*   (main thread)                                                         *)
(*                                                                         *)
(* with the poison pills (an element with NULL data / a NULL chunk), the   *)
(* error paths of each thread, the END salvo guarded by "!more_data", and  *)
(* the joins.  Channels are the bounded FIFO of ChannelQueue; nobody       *)
(* poisons a channel in the sender, so reserve and peek only block.        *)
(* Buffers and chunks are abstracted to their count; the packets of a      *)
(* chunk to the outcome of each hgap_enc_chunk_emit call.                  *)
(***************************************************************************)
EXTENDS Config, Sequences

CONSTANTS InCap,        \* capacity of chan_in2enc
          NetCap,       \* capacity of chan_enc2net
          MaxBufs,      \* buffers read_loop reads at most (the last at EOF)
          MaxEmits,     \* hgap_enc_chunk_emit calls per chunk at most
          ReadErrors,   \* may fread fail?
          EncErrors,    \* may hgap_enc_chunk_init fail (wirehair_encode)?
          EmitErrors,   \* may hgap_enc_chunk_emit fail (wirehair_write)?
          NetErrors,    \* may hgap_sender_control fail (sendto)?
          NewErrors     \* may hgap_sender_new fail (socket, inet_addr)?

ASSUME InCap \in Nat \ {0} /\ NetCap \in Nat \ {0} /\ MaxBufs \in Nat \ {0}
       /\ MaxEmits \in Nat \ {0}

\* hairgap.h error codes
HGAP_ERR_FILE_READ       == 9
HGAP_ERR_WIREHAIR_ERROR  == 12
HGAP_ERR_NETWORK         == 18
HGAP_ERR_INTERNAL        == 20

\* The poison element (NULL data, NULL chunk); buffers and chunks are 0, 1, ...
Pill == -1

VARIABLES config,           \* the struct hgap_config passed to hgap_send
          i2e,              \* chan_in2enc: buffer numbers or Pill
          e2n,              \* chan_enc2net: chunk numbers or Pill
          rpc, nread, rret, \* read_loop: pc, buffers read, retval
          epc, eret,        \* encode_loop: pc, retval
          spc, moreData, nemit, sret, \* send_loop: pc, more_data, emits, retval
          sentChunks,       \* chunks whose packets send_loop sent
          endSent,          \* the END salvo was sent
          result,           \* value hgap_send returns
          kpc, cont         \* keepalive_loop_thread: pc; the shared hs->cont

vars == <<config, i2e, e2n, rpc, nread, rret, epc, eret, spc, moreData, nemit, sret,
          sentChunks, endSent, result, kpc, cont>>

RdVars  == <<rpc, nread, rret>>
EncVars == <<epc, eret>>
SndVars == <<spc, moreData, nemit, sret, sentChunks, endSent, result, kpc, cont>>

HGAP_SELECT_ERROR(e1, e2) ==
    IF e1 = HGAP_SUCCESS THEN e2
    ELSE IF e2 = HGAP_SUCCESS THEN e1 ELSE IF e1 < e2 THEN e1 ELSE e2

(* hgap_send is called with any configuration; the reader and encoder      *)
(* threads are not created yet.                                           *)
Init == /\ config \in SenderConfigs
        /\ i2e = <<>> /\ e2n = <<>>
        /\ rpc = "idle" /\ nread = 0 /\ rret = HGAP_SUCCESS
        /\ epc = "idle" /\ eret = HGAP_SUCCESS
        /\ spc = "check" /\ moreData = TRUE /\ nemit = 0 /\ sret = HGAP_SUCCESS
        /\ sentChunks = 0 /\ endSent = FALSE /\ result = HGAP_SUCCESS
        /\ kpc = "none" /\ cont = FALSE

-----------------------------------------------------------------------------
(* read_loop: channel_reserve (blocks while full), read_chunk, then either  *)
(* a read error (break, leaving the slot reserved) or channel_send_reserved *)
(* and, at EOF, the end of the loop; finally the poison buffer.  The last   *)
(* of MaxBufs buffers is read at EOF.                                       *)
\* Mutant: the feof test is dropped, read_loop reads on past the end.
ReadBufIgnoreEof ==
    /\ rpc = "reserve" /\ Len(i2e) < InCap
    /\ \/ /\ i2e' = Append(i2e, nread) /\ nread' = nread + 1
          /\ \/ rpc' = "reserve"
             \/ rpc' = "pill"
          /\ UNCHANGED rret
       \/ /\ ReadErrors /\ rret' = HGAP_ERR_FILE_READ /\ rpc' = "pill"
          /\ UNCHANGED <<i2e, nread>>
    /\ UNCHANGED e2n /\ UNCHANGED EncVars /\ UNCHANGED SndVars
    /\ UNCHANGED config

ReadBuf ==
    /\ rpc = "reserve" /\ Len(i2e) < InCap
    /\ \/ /\ i2e' = Append(i2e, nread) /\ nread' = nread + 1
          /\ \/ nread + 1 < MaxBufs /\ rpc' = "reserve"
             \/ rpc' = "pill"
          /\ UNCHANGED rret
       \/ /\ ReadErrors /\ rret' = HGAP_ERR_FILE_READ /\ rpc' = "pill"
          /\ UNCHANGED <<i2e, nread>>
    /\ UNCHANGED e2n /\ UNCHANGED EncVars /\ UNCHANGED SndVars
    /\ UNCHANGED config

ReadPill ==
    /\ rpc = "pill" /\ Len(i2e) < InCap
    /\ i2e' = Append(i2e, Pill) /\ rpc' = "done"
    /\ UNCHANGED <<e2n, nread, rret>> /\ UNCHANGED EncVars /\ UNCHANGED SndVars
    /\ UNCHANGED config

-----------------------------------------------------------------------------
(* encode_loop: channel_peek; stop on the poison buffer; hgap_enc_chunk_init *)
(* (a failure breaks out of the loop, the buffer not acked); channel_send   *)
(* of the chunk, then channel_ack of the buffer; finally the NULL chunk.    *)
EncPeek ==
    /\ epc = "peek" /\ i2e # <<>>
    /\ IF Head(i2e) = Pill
         THEN epc' = "pill" /\ UNCHANGED eret
         ELSE \/ epc' = "send" /\ UNCHANGED eret
              \/ EncErrors /\ eret' = HGAP_ERR_WIREHAIR_ERROR /\ epc' = "pill"
    /\ UNCHANGED <<i2e, e2n>> /\ UNCHANGED RdVars /\ UNCHANGED SndVars
    /\ UNCHANGED config

EncSend ==
    /\ epc = "send" /\ Len(e2n) < NetCap
    /\ e2n' = Append(e2n, Head(i2e)) /\ i2e' = Tail(i2e)
    /\ epc' = "peek"
    /\ UNCHANGED eret /\ UNCHANGED RdVars /\ UNCHANGED SndVars
    /\ UNCHANGED config

\* Mutant: the poison is not propagated to chan_enc2net.
EncPillMissing ==
    /\ epc = "pill" /\ epc' = "done"
    /\ UNCHANGED <<i2e, e2n, eret>> /\ UNCHANGED RdVars /\ UNCHANGED SndVars
    /\ UNCHANGED config

EncPill ==
    /\ epc = "pill" /\ Len(e2n) < NetCap
    /\ e2n' = Append(e2n, Pill) /\ epc' = "done"
    /\ UNCHANGED <<i2e, eret>> /\ UNCHANGED RdVars /\ UNCHANGED SndVars
    /\ UNCHANGED config
-----------------------------------------------------------------------------
(* hgap_send: hgap_check_config_sender, returning its error, else the two *)
(* channels and the reader and encoder threads, then send_loop.           *)
SndCheck ==
    /\ spc = "check"
    /\ LET err == hgap_check_config_sender(config)
       IN  IF err # HGAP_SUCCESS
             THEN result' = err /\ spc' = "done" /\ UNCHANGED <<rpc, epc>>
             ELSE spc' = "new" /\ rpc' = "reserve" /\ epc' = "peek"
                  /\ UNCHANGED result
    /\ UNCHANGED <<moreData, nemit, sret, sentChunks, endSent, kpc, cont>>
    /\ UNCHANGED <<config, i2e, e2n, nread, rret, eret>>

(* send_loop, main thread.  hgap_sender_new fails when socket() fails or    *)
(* inet_addr(config->addr) is 0, as for "0.0.0.0": retval = INTERNAL and "goto send_loop_fail", whose *)
(* hgap_sender_free(hs) dereferences the NULL hs (sender.c:156): the        *)
(* process crashes.                                                         *)
SndNew ==
    /\ spc = "new"
    /\ \/ /\ inet_addr(config.addr) # INADDR_ANY
          /\ spc' = "handwave" /\ UNCHANGED sret
          /\ cont' = (config.keepalive > 0)
          /\ kpc' = IF config.keepalive > 0 THEN "loop" ELSE "none"
       \/ /\ NewErrors \/ inet_addr(config.addr) = INADDR_ANY
          /\ sret' = HGAP_ERR_INTERNAL /\ spc' = "crash"
          /\ UNCHANGED <<kpc, cont>>
    /\ UNCHANGED <<moreData, nemit, sentChunks, endSent, result>>
    /\ UNCHANGED <<config, i2e, e2n>> /\ UNCHANGED RdVars /\ UNCHANGED EncVars

(* The BEGIN salvo; an error of hgap_sender_control is NETWORK and goes to *)
(* send_loop_fail, returning without reading chan_enc2net.  A name gives   *)
(* INADDR_NONE, 255.255.255.255: sendto to the broadcast address without  *)
(* SO_BROADCAST fails (EACCES).                                            *)
SndHandwave ==
    /\ spc = "handwave"
    /\ \/ /\ inet_addr(config.addr) # INADDR_NONE
          /\ spc' = "recv" /\ UNCHANGED sret
       \/ /\ NetErrors \/ inet_addr(config.addr) = INADDR_NONE
          /\ sret' = HGAP_ERR_NETWORK /\ spc' = "free"
    /\ UNCHANGED <<moreData, nemit, sentChunks, endSent, result>>
    /\ UNCHANGED <<config, i2e, e2n>> /\ UNCHANGED RdVars /\ UNCHANGED EncVars
    /\ UNCHANGED <<kpc, cont>>

(* channel_recv of a chunk pointer; the NULL chunk ends the loop.          *)
SndRecv ==
    /\ spc = "recv" /\ e2n # <<>>
    /\ e2n' = Tail(e2n)
    /\ IF Head(e2n) = Pill
         THEN moreData' = FALSE /\ spc' = "end"
         ELSE spc' = "emit" /\ UNCHANGED moreData
    /\ UNCHANGED <<nemit, sret, sentChunks, endSent, result>>
    /\ UNCHANGED <<config, i2e>> /\ UNCHANGED RdVars /\ UNCHANGED EncVars
    /\ UNCHANGED <<kpc, cont>>

(* One hgap_enc_chunk_emit call of the do-while: the ratio stays below     *)
(* redund, reaches it (the chunk is freed and "while (more_data)" tested), *)
(* or is negative (retval = WIREHAIR_ERROR, more_data = 0, and since       *)
(* -1 < redund the do-while goes on).  A chunk takes at most MaxEmits      *)
(* calls and the last one reaches the ratio: a wirehair_write failing on   *)
(* every later call, which spins the do-while forever, is left out.        *)
SndEmit ==
    /\ spc = "emit" /\ nemit < MaxEmits
    /\ \/ /\ nemit + 1 < MaxEmits /\ nemit' = nemit + 1
          /\ UNCHANGED <<spc, moreData, sret, sentChunks>>
       \/ /\ nemit' = 0 /\ sentChunks' = sentChunks + 1
          /\ spc' = IF moreData THEN "recv" ELSE "end"
          /\ UNCHANGED <<moreData, sret>>
       \/ /\ EmitErrors /\ nemit + 1 < MaxEmits /\ nemit' = nemit + 1
          /\ sret' = HGAP_ERR_WIREHAIR_ERROR /\ moreData' = FALSE
          /\ UNCHANGED <<spc, sentChunks>>
    /\ UNCHANGED <<endSent, result>>
    /\ UNCHANGED <<config, i2e, e2n>> /\ UNCHANGED RdVars /\ UNCHANGED EncVars
    /\ UNCHANGED <<kpc, cont>>

(* After the loop: "Proper teardown only on proper exit": the END salvo is *)
(* sent when !more_data; the return of hgap_sender_control is ignored, so  *)
(* a failed salvo goes unreported.  Then send_loop_fail.                   *)
SndEnd ==
    /\ spc = "end"
    /\ \/ endSent' = (endSent \/ ~moreData)
       \/ NetErrors /\ UNCHANGED endSent
    /\ spc' = "free"
    /\ UNCHANGED <<moreData, nemit, sret, sentChunks, result>>
    /\ UNCHANGED <<config, i2e, e2n>> /\ UNCHANGED RdVars /\ UNCHANGED EncVars
    /\ UNCHANGED <<kpc, cont>>

(* send_loop_fail: hgap_sender_free(hs).  If hs->cont is set, clear it and *)
(* pthread_join the keep-alive thread; then free the limiter and hs.       *)
SndFree ==
    /\ spc = "free"
    /\ IF cont THEN cont' = FALSE /\ spc' = "join_ka"
               ELSE spc' = "join_rd" /\ UNCHANGED cont
    /\ UNCHANGED <<moreData, nemit, sret, sentChunks, endSent, result, kpc>>
    /\ UNCHANGED <<config, i2e, e2n>> /\ UNCHANGED RdVars /\ UNCHANGED EncVars

SndJoinKa ==
    /\ spc = "join_ka" /\ kpc = "stopped"
    /\ spc' = "join_rd"
    /\ UNCHANGED <<moreData, nemit, sret, sentChunks, endSent, result, kpc, cont>>
    /\ UNCHANGED <<config, i2e, e2n>> /\ UNCHANGED RdVars /\ UNCHANGED EncVars

-----------------------------------------------------------------------------
(* keepalive_loop_thread: its "while" reads *cont without a lock; the     *)
(* thread then sleeps and sends one KEEPALIVE through hgap_sender_send   *)
(* without testing the flag again.  A failed sendto is CHK_PERROR: exit()  *)
(* of the whole process.  A name's INADDR_NONE makes every sendto fail.    *)
KaLoop ==
    /\ kpc = "loop"
    /\ kpc' = IF cont THEN "send" ELSE "stopped"
    /\ UNCHANGED <<spc, moreData, nemit, sret, sentChunks, endSent, result, cont>>
    /\ UNCHANGED <<config, i2e, e2n>> /\ UNCHANGED RdVars /\ UNCHANGED EncVars

KaSend ==
    /\ kpc = "send"
    /\ \/ /\ inet_addr(config.addr) # INADDR_NONE
          /\ kpc' = "loop" /\ UNCHANGED spc
       \/ /\ NetErrors \/ inet_addr(config.addr) = INADDR_NONE
          /\ spc' = "exit" /\ UNCHANGED kpc
    /\ UNCHANGED <<moreData, nemit, sret, sentChunks, endSent, result, cont>>
    /\ UNCHANGED <<config, i2e, e2n>> /\ UNCHANGED RdVars /\ UNCHANGED EncVars

-----------------------------------------------------------------------------
(* hgap_send: pthread_join of the reader then of the encoder, each non-    *)
(* success return folded into send_loop's with HGAP_SELECT_ERROR.          *)
JoinRead ==
    /\ spc = "join_rd" /\ rpc = "done"
    /\ result' = IF rret # HGAP_SUCCESS THEN HGAP_SELECT_ERROR(rret, sret)
                                         ELSE sret
    /\ spc' = "join_enc"
    /\ UNCHANGED <<moreData, nemit, sret, sentChunks, endSent>>
    /\ UNCHANGED <<config, i2e, e2n>> /\ UNCHANGED RdVars /\ UNCHANGED EncVars
    /\ UNCHANGED <<kpc, cont>>

\* Mutant: the encoder's return value is not folded into the result.
JoinEncodeNoSelect ==
    /\ spc = "join_enc" /\ epc = "done"
    /\ spc' = "done"
    /\ UNCHANGED <<moreData, nemit, sret, sentChunks, endSent, result>>
    /\ UNCHANGED <<config, i2e, e2n>> /\ UNCHANGED RdVars /\ UNCHANGED EncVars
    /\ UNCHANGED <<kpc, cont>>

JoinEncode ==
    /\ spc = "join_enc" /\ epc = "done"
    /\ result' = IF eret # HGAP_SUCCESS THEN HGAP_SELECT_ERROR(eret, result)
                                         ELSE result
    /\ spc' = "done"
    /\ UNCHANGED <<moreData, nemit, sret, sentChunks, endSent>>
    /\ UNCHANGED <<config, i2e, e2n>> /\ UNCHANGED RdVars /\ UNCHANGED EncVars
    /\ UNCHANGED <<kpc, cont>>

\* A crash or an exit() of the process stops every thread.
Alive == spc \notin {"crash", "exit"}

ReadStep == Alive /\ (ReadBuf \/ ReadPill)
EncStep  == Alive /\ (EncPeek \/ EncSend \/ EncPill)
SndStep  == SndCheck \/ SndNew \/ SndHandwave \/ SndRecv \/ SndEmit \/ SndEnd
            \/ SndFree \/ SndJoinKa \/ JoinRead \/ JoinEncode
KaStep   == Alive /\ (KaLoop \/ KaSend)

\* hgap_send has returned, or the process has crashed or exited.
Ended == spc \in {"done", "crash", "exit"}

Terminated == Ended /\ UNCHANGED vars

Next == ReadStep \/ EncStep \/ SndStep \/ KaStep \/ Terminated

(* Each thread runs whenever it is not blocked: the channel operations    *)
(* wait on condition variables signalled by the other side; the keep-alive *)
(* sleep ends.  A crash or an exit stops every thread.                     *)
Spec == Init /\ [][Next]_vars
        /\ WF_vars(ReadStep) /\ WF_vars(EncStep) /\ WF_vars(SndStep)
        /\ WF_vars(KaStep)

-----------------------------------------------------------------------------
ErrorCodes == {HGAP_SUCCESS, HGAP_ERR_MTU_TOO_SMALL, HGAP_ERR_MTU_TOO_BIG,
               HGAP_ERR_INVALID_ADDR, HGAP_ERR_BAD_IN_FD, HGAP_ERR_BAD_N_PKT,
               HGAP_ERR_BAD_REDUND, HGAP_ERR_FILE_READ, HGAP_ERR_WIREHAIR_ERROR,
               HGAP_ERR_NETWORK, HGAP_ERR_INTERNAL}

TypeOK ==
    /\ config \in SenderConfigs
    /\ Len(i2e) <= InCap /\ Len(e2n) <= NetCap
    /\ rpc \in {"idle", "reserve", "pill", "done"} /\ nread \in 0..MaxBufs
    /\ epc \in {"idle", "peek", "send", "pill", "done"}
    /\ spc \in {"check", "new", "handwave", "recv", "emit", "end", "free",
                "join_ka", "join_rd", "join_enc", "done", "crash", "exit"}
    /\ kpc \in {"none", "loop", "send", "stopped"} /\ cont \in BOOLEAN
    /\ moreData \in BOOLEAN /\ nemit \in 0..MaxEmits
    /\ sentChunks \in 0..MaxBufs /\ endSent \in BOOLEAN
    /\ {rret, eret, sret, result} \subseteq ErrorCodes

(* hgap_send returns, or the process ends: every thread blocked on a      *)
(* channel is eventually released (hgap_send.c joins after send_loop).    *)
SenderTerminates == <>Ended

(* A success returned by hgap_send means every buffer the reader read was *)
(* emitted and no thread failed: HGAP_SELECT_ERROR at the joins never lets *)
(* a worker's error be lost.                                              *)
SuccessMeansDelivered ==
    (spc = "done" /\ result = HGAP_SUCCESS)
        => /\ sentChunks = nread
           /\ {rret, eret, sret} = {HGAP_SUCCESS}

(* Spec 8: hgap_send starts its threads only for a configuration with none *)
(* of the violations the spec lists, and a configuration with exactly one *)
(* is refused, before any thread starts, with that violation's error.  An *)
(* input stream in error, which the spec does not mention, is left out.   *)
ConfigErrorMatchesSpec ==
    /\ rpc # "idle" => SpecViolations(config) = {}
    /\ (/\ spc = "done" /\ rpc = "idle" /\ config.in # "error"
        /\ Cardinality(SpecViolations(config)) = 1)
          => result \in SpecViolations(config)

(* hairgap.h: hgap_send returns HGAP_SUCCESS on success and an HGAP_ERR_*  *)
(* on failure: it neither ends the process (NULL hs freed, CHK_PERROR in  *)
(* the keep-alive thread) nor reports success when the END salvo, which   *)
(* tells the receiver the transfer is over, was not sent.                 *)
ReturnsOutcome ==
    /\ spc \notin {"crash", "exit"}
    /\ (spc = "done" /\ result = HGAP_SUCCESS) => endSent

(* hgap_send.c:255 "Proper teardown only on proper exit": the END salvo    *)
(* tells hairgapr the input is complete, and hgap_receive then reports     *)
(* success on what it wrote.  END leaves only once read_loop reached EOF,  *)
(* every buffer it read was emitted and no thread failed.  In the code the *)
(* guard is "!more_data", which a read error, an encoder error (both end   *)
(* in the NULL chunk) and a wirehair_write error also make true.           *)
EndOnlyOnProperExit ==
    endSent => /\ {rret, eret, sret} = {HGAP_SUCCESS}
               /\ rpc = "done" /\ sentChunks = nread

(* hgap_send reports its outcome truthfully to both of its peers: to its   *)
(* caller by its return value (ReturnsOutcome) and to the receiver by the  *)
(* END salvo (EndOnlyOnProperExit).                                        *)
OutcomeTruthful == ReturnsOutcome /\ EndOnlyOnProperExit
=============================================================================
