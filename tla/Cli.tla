--------------------------------- MODULE Cli ---------------------------------
(***************************************************************************)
(* The command line tools and the receive timeout they configure:          *)
(*   hgap_defaults (src/lib/config.c), then the options of main in         *)
(*   src/hairgaps.c (-k KEEPALIVE, in ms) and src/hairgapr.c (-t TIMEOUT,  *)
(*   "in seconds" says its usage);                                         *)
(*   the keep-alive period of keepalive_loop_thread (src/lib/sender.c);    *)
(*   hgapr_set_socket_timeout and the recvfrom of hgapr_net_reader         *)
(*   (src/lib/hgap_receive.c), whose timeout is armed at the first BEGIN.  *)
(*                                                                         *)
(* Time is in microseconds.  A step is the next datagram reaching the      *)
(* receiver after a silence: one of DataGaps while the sender's data       *)
(* flows or stalls, cut short by the next keep-alive when those are on.    *)
(* The other options (-p, -r, -b, -N, -M, -m), -h and the usage exits are  *)
(* left out: they do not touch the timeout.                                *)
(***************************************************************************)
EXTENDS Config

CONSTANTS Absent,       \* an option not given on the command line
          TArgs,        \* values of hairgapr -t to try, or Absent
          KArgs,        \* values of hairgaps -k to try, or Absent
          DataGaps,     \* silences (us) the sender's data stream may leave
          MaxArrivals   \* datagrams received at most

ASSUME /\ TArgs \subseteq Nat \cup {Absent} /\ KArgs \subseteq Nat \cup {Absent}
       /\ DataGaps \subseteq Nat \ {0} /\ MaxArrivals \in Nat

\* hairgap.h: HGAP_DEF_TIMEOUT is 1 * 1000 * 1000 (us); HGAP_DEF_MEM_LIMIT
HGAP_DEF_TIMEOUT   == 1000000
HGAP_DEF_MEM_LIMIT == 100 * 1024 * 1024

(* hgap_defaults: struct hgap_config as the HGAP_DEF_* values set it; in   *)
(* and out are stdin and stdout, addr is NULL, redund 1.2.                 *)
hgap_defaults ==
    [in |-> "ok", out |-> "ok", addr |-> "NULL", port |-> 11011,
     byterate |-> 0, n_pkt |-> 1000,
     pkt_size |-> HGAP_DEF_PKT_SIZE, redund10 |-> 12,
     keepalive |-> HGAP_DEF_KEEPALIVE, timeout |-> HGAP_DEF_TIMEOUT,
     mem_limit |-> HGAP_DEF_MEM_LIMIT]

\* the value an option sets, or the default when it is not given
Given(opt, default) == IF opt = Absent THEN default ELSE opt

\* hairgaps main: config.keepalive = atoi(optarg) for -k
hairgaps_main(k) == [hgap_defaults EXCEPT !.keepalive = Given(k, @)]

\* hairgapr main: config.timeout = atoi(optarg) for -t, unconverted
hairgapr_main(t) == [hgap_defaults EXCEPT !.timeout = Given(t, @)]

(* keepalive_loop_thread: sleep(keepalive / 1000) seconds from 1000 ms on, *)
(* usleep(keepalive * 1000) below; keepalive 0 starts no thread.           *)
KaPeriod(k) == IF k >= 1000 THEN (k \div 1000) * 1000000 ELSE k * 1000

\* hgapr_set_socket_timeout: the struct timeval given to SO_RCVTIMEO
RcvTimeo(timeout) == [sec |-> timeout \div 1000000, usec |-> timeout % 1000000]

\* recvfrom fails with EAGAIN once the timeval has elapsed; {0, 0} never
TimevalUs(tv) == tv.sec * 1000000 + tv.usec
TimesOut(tv, silence) == TimevalUs(tv) > 0 /\ silence >= TimevalUs(tv)

VARIABLES targ,        \* the -t given to hairgapr
          sconf,       \* hairgaps' config
          rconf,       \* hairgapr's config
          started,     \* the net reader has armed the timeout (first BEGIN)
          arrivals,    \* datagrams received
          rstate,      \* "recv", or "timeout" once hgap_receive gives up
          gaveUpAfter  \* the silence (us) after which it gave up

vars == <<targ, sconf, rconf, started, arrivals, rstate, gaveUpAfter>>

Init == /\ targ \in TArgs /\ rconf = hairgapr_main(targ)
        /\ sconf \in {hairgaps_main(k) : k \in KArgs}
        /\ started = FALSE /\ arrivals = 0
        /\ rstate = "recv" /\ gaveUpAfter = 0

\* the silences before the next datagram: a keep-alive ends any longer one
Silences ==
    IF sconf.keepalive > 0
    THEN {MinOf(g, KaPeriod(sconf.keepalive)) : g \in DataGaps}
    ELSE DataGaps

(* hgapr_net_reader: recvfrom waits for the next datagram; once the socket *)
(* timeout is armed, a silence that reaches it ends the transfer with      *)
(* HGAP_ERR_TIMEOUT.  The first datagram is BEGIN and arms the timeout.    *)
Arrive(g) ==
    /\ rstate = "recv" /\ arrivals < MaxArrivals
    /\ LET tv == RcvTimeo(rconf.timeout) IN
       IF started /\ TimesOut(tv, g)
       THEN /\ rstate' = "timeout" /\ gaveUpAfter' = TimevalUs(tv)
            /\ UNCHANGED <<started, arrivals>>
       ELSE /\ arrivals' = arrivals + 1 /\ started' = TRUE
            /\ UNCHANGED <<rstate, gaveUpAfter>>
    /\ UNCHANGED <<targ, sconf, rconf>>

Next == \E g \in Silences : Arrive(g)

Spec == Init /\ [][Next]_vars

-----------------------------------------------------------------------------
(* The timeout hairgapr's usage promises: -t TIMEOUT in seconds, 1 s by    *)
(* default (hgap_defaults).                                                *)
PromisedUs(t) == IF t = Absent THEN HGAP_DEF_TIMEOUT ELSE t * 1000000

(* hairgapr -t: "If no packets are received for <timeout> seconds, the     *)
(* transfer is interrupted".  The receiver gives up only after a silence   *)
(* of at least that long; main stores the number of seconds in             *)
(* config->timeout, which hgap_receive takes as microseconds.              *)
TimeoutAsDocumented ==
    rstate = "timeout" => gaveUpAfter >= PromisedUs(targ)
=============================================================================
