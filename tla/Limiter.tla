------------------------------- MODULE Limiter -------------------------------
(***************************************************************************)
(* The rate limiter of src/lib/limiter.c as hgap_sender_send uses it       *)
(* (src/lib/sender.c): every datagram sent is counted by                   *)
(* hgap_limiter_limit, from the emit thread (send_loop) and from the       *)
(* keep-alive thread, on the one struct hgap_limiter and without a lock.   *)
(*                                                                         *)
(* Time is a tick counter "now", read by gettimeofday; a sendto takes at   *)
(* least one tick, and Tick lets time pass otherwise (usleep, the          *)
(* keep-alive period).  A data race on a counter is a read of the counter  *)
(* into the thread and a write of the incremented value back: another      *)
(* thread's write in between is lost, which is what the unsynchronised    *)
(* "+=" can do.  The window reset is taken as one step.                    *)
(***************************************************************************)
EXTENDS Naturals, FiniteSets

CONSTANTS Byterate,         \* hlim->byterate, bytes per tick (0: no limit)
          HLIM_CHK_PERIOD,  \* packets per check (1000 in limiter.c)
          PktLen,           \* bytes of a DATA datagram
          KaLen,            \* bytes of a KEEPALIVE datagram (the header)
          EmitPkts,         \* datagrams send_loop sends
          KaPkts,           \* keep-alives the keep-alive thread sends
          MaxTime           \* ticks explored

ASSUME /\ Byterate \in Nat /\ HLIM_CHK_PERIOD \in Nat
       /\ {PktLen, KaLen, EmitPkts, KaPkts, MaxTime} \subseteq Nat

Threads == {"emit", "ka"}

\* the bytes one hgap_sender_send call of a thread puts on the wire
SendLen(t) == IF t = "emit" THEN PktLen ELSE KaLen

VARIABLES now,     \* gettimeofday, in ticks
          since,   \* hlim->since
          nPkt,    \* hlim->n_pkt_sent
          nBytes,  \* hlim->n_bytes_sent
          pc,      \* per thread: "send", "read", "write", "check", "sleep"
          rp, rb,  \* per thread: the counter values it read
          left,    \* per thread: datagrams still to send
          wire     \* bytes sent on the socket so far

vars == <<now, since, nPkt, nBytes, pc, rp, rb, left, wire>>

(* hgap_limiter_new: hgap_limiter_reset_rate when hgap_sender_new runs.   *)
Init == /\ now = 0 /\ since = 0 /\ nPkt = 0 /\ nBytes = 0
        /\ pc = [t \in Threads |-> "send"]
        /\ rp = [t \in Threads |-> 0] /\ rb = [t \in Threads |-> 0]
        /\ left = [t \in Threads |-> IF t = "emit" THEN EmitPkts ELSE KaPkts]
        /\ wire = 0

-----------------------------------------------------------------------------
(* hgap_sender_send: sendto succeeds, then hgap_limiter_limit(ret).        *)
Send(t) ==
    /\ pc[t] = "send" /\ left[t] > 0 /\ now < MaxTime
    /\ wire' = wire + SendLen(t) /\ now' = now + 1
    /\ left' = [left EXCEPT ![t] = @ - 1]
    /\ pc' = [pc EXCEPT ![t] = "read"]
    /\ UNCHANGED <<since, nPkt, nBytes, rp, rb>>

(* hgap_limiter_limit: n_pkt_sent++ and n_bytes_sent += len, each a load  *)
(* and a store of a shared word.                                          *)
ReadCounters(t) ==
    /\ pc[t] = "read"
    /\ rp' = [rp EXCEPT ![t] = nPkt] /\ rb' = [rb EXCEPT ![t] = nBytes]
    /\ pc' = [pc EXCEPT ![t] = "write"]
    /\ UNCHANGED <<now, since, nPkt, nBytes, left, wire>>

WriteCounters(t) ==
    /\ pc[t] = "write"
    /\ nPkt' = rp[t] + 1 /\ nBytes' = rb[t] + SendLen(t)
    /\ pc' = [pc EXCEPT ![t] = "check"]
    /\ UNCHANGED <<now, since, rp, rb, left, wire>>

\* if (hlim->byterate && hlim->n_pkt_sent > HLIM_CHK_PERIOD)
Check(t) ==
    /\ pc[t] = "check"
    /\ pc' = [pc EXCEPT ![t] = IF Byterate # 0 /\ nPkt > HLIM_CHK_PERIOD
                                 THEN "sleep" ELSE "send"]
    /\ UNCHANGED <<now, since, nPkt, nBytes, rp, rb, left, wire>>

(* hgap_limiter_get_current_rate > byterate: n_bytes_sent / diff, and 0   *)
(* when diff is 0.  With diff > 0, rate > B is nBytes > B * diff.         *)
RateAbove(bytes, diff) == diff # 0 /\ bytes > Byterate * diff

(* hgap_limiter_reset_rate: a new window opens now, with no packet and   *)
(* no byte counted.                                                       *)
ResetRate == since' = now /\ nPkt' = 0 /\ nBytes' = 0

(* The busy-sleep loop ends once the rate is down to the byterate; then   *)
(* hgap_limiter_reset_rate opens a new window.  While it sleeps, only     *)
(* Tick (usleep) makes the rate fall.                                     *)
Sleep(t) ==
    /\ pc[t] = "sleep"
    /\ ~RateAbove(nBytes, now - since)
    /\ ResetRate
    /\ pc' = [pc EXCEPT ![t] = "send"]
    /\ UNCHANGED <<now, rp, rb, left, wire>>

Tick ==
    /\ now < MaxTime /\ now' = now + 1
    /\ UNCHANGED <<since, nPkt, nBytes, pc, rp, rb, left, wire>>

Next == \/ \E t \in Threads : Send(t) \/ ReadCounters(t) \/ WriteCounters(t)
                             \/ Check(t) \/ Sleep(t)
        \/ Tick

Spec == Init /\ [][Next]_vars /\ WF_vars(Next)

-----------------------------------------------------------------------------
TypeOK ==
    /\ now \in 0..MaxTime /\ since \in 0..now
    /\ pc \in [Threads -> {"send", "read", "write", "check", "sleep"}]
    /\ left \in [Threads -> Nat] /\ wire \in Nat
    /\ nPkt \in Nat /\ nBytes \in Nat

(* The burst spec section 4.5 allows: the datagrams of one check period   *)
(* (HLIM_CHK_PERIOD + 1 are counted before the check fires) and one more  *)
(* per thread, sent but not yet counted.                                  *)
Burst == (HLIM_CHK_PERIOD + Cardinality(Threads)) * PktLen

(* hgap_limiter_limit keeps the sender to its byterate: at every moment   *)
(* the bytes hgap_sender_send has put on the wire exceed byterate times   *)
(* the time elapsed by at most one burst.  The keep-alive thread's        *)
(* unlocked n_pkt_sent++ and n_bytes_sent += len can overwrite the emit   *)
(* thread's, and bytes that are never counted are never slept for.        *)
RateBound == wire <= Byterate * now + Burst
=============================================================================
