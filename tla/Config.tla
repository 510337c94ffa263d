------------------------------- MODULE Config -------------------------------
(***************************************************************************)
(* The configuration checks of src/lib/config.c and the two ways the       *)
(* library turns config->addr into an IPv4 address: getaddrinfo in         *)
(* check_addr, inet_addr in hgap_sender_new (sender.c) and                 *)
(* hgapr_open_udp_socket (hgap_receive.c).                                 *)
(*                                                                         *)
(* A configuration is a record over small sets of values at the bounds the *)
(* checks test, with keep-alives off or on.  An address is the class of    *)
(* string it is:                                                           *)
(*   "dotted"   a dotted quad of a host, e.g. "127.0.0.1";                 *)
(*   "zero"     "0.0.0.0";                                                 *)
(*   "hostname" a name the resolver knows, e.g. "localhost";               *)
(*   "garbage"  a string no resolver accepts, e.g. "impossibru !";         *)
(*   "NULL"     config->addr left NULL by hgap_defaults.                   *)
(* A FILE* is "ok", "NULL" or "error" (ferror set).  redund, a double, is  *)
(* kept in tenths.                                                         *)
(***************************************************************************)
EXTENDS Encoding
LOCAL INSTANCE SequencesExt

\* hairgap.h error codes returned by the checks
HGAP_ERR_MTU_TOO_SMALL == 3
HGAP_ERR_MTU_TOO_BIG   == 4
HGAP_ERR_INVALID_ADDR  == 5
HGAP_ERR_BAD_FD        == 6
HGAP_ERR_BAD_IN_FD     == 7
HGAP_ERR_BAD_OUT_FD    == 8
HGAP_ERR_BAD_N_PKT     == 10
HGAP_ERR_BAD_REDUND    == 11

\* hgap_defaults' keep-alive period in ms; 0 disables the keep-alive thread
HGAP_DEF_KEEPALIVE == 500

Addresses == {"dotted", "zero", "hostname", "garbage", "NULL"}
Files     == {"ok", "NULL", "error"}

\* in_addr_t values inet_addr returns: INADDR_ANY, INADDR_NONE, a host
INADDR_ANY  == 0
INADDR_NONE == -1    \* ((in_addr_t) 0xffffffff), i.e. (in_addr_t) -1
LOOPBACK    == 2130706433

\* getaddrinfo(addr, NULL, NULL, &res) == 0
getaddrinfo_ok(a) == a \in {"dotted", "zero", "hostname"}

\* inet_addr(addr): a name is not a dotted quad and gives INADDR_NONE
inet_addr(a) == CASE a = "dotted" -> LOOPBACK
                  [] a = "zero"   -> INADDR_ANY
                  [] OTHER        -> INADDR_NONE

check_addr(a) ==
    IF a = "NULL" \/ ~getaddrinfo_ok(a) THEN HGAP_ERR_INVALID_ADDR
                                        ELSE HGAP_SUCCESS

check_file(f) == IF f \in {"NULL", "error"} THEN HGAP_ERR_BAD_FD
                                            ELSE HGAP_SUCCESS

\* Mutant: the MTU bound tested with < instead of <=.
SenderChecksOffByOne(c) ==
    << [fails |-> c.pkt_size < HGAP_HEADER_LEN,    err |-> HGAP_ERR_MTU_TOO_SMALL],
       [fails |-> c.pkt_size > HGAP_MAX_PKT_SIZE,  err |-> HGAP_ERR_MTU_TOO_BIG],
       [fails |-> check_addr(c.addr) # HGAP_SUCCESS, err |-> check_addr(c.addr)],
       [fails |-> check_file(c.in) # HGAP_SUCCESS, err |-> HGAP_ERR_BAD_IN_FD],
       [fails |-> c.n_pkt < 1 \/ c.n_pkt > HGAP_MAX_N_PKT,
                                                   err |-> HGAP_ERR_BAD_N_PKT],
       [fails |-> c.redund10 < 10,                 err |-> HGAP_ERR_BAD_REDUND] >>

(* The tests of hgap_check_config_sender in the order the code makes them: *)
(* each is the condition of an early return and the value it returns.      *)
SenderChecks(c) ==
    << [fails |-> c.pkt_size <= HGAP_HEADER_LEN,   err |-> HGAP_ERR_MTU_TOO_SMALL],
       [fails |-> c.pkt_size > HGAP_MAX_PKT_SIZE,  err |-> HGAP_ERR_MTU_TOO_BIG],
       [fails |-> check_addr(c.addr) # HGAP_SUCCESS, err |-> check_addr(c.addr)],
       [fails |-> check_file(c.in) # HGAP_SUCCESS, err |-> HGAP_ERR_BAD_IN_FD],
       [fails |-> c.n_pkt < 1 \/ c.n_pkt > HGAP_MAX_N_PKT,
                                                   err |-> HGAP_ERR_BAD_N_PKT],
       [fails |-> c.redund10 < 10,                 err |-> HGAP_ERR_BAD_REDUND] >>

\* the value of the first early return taken, or HGAP_SUCCESS
FirstFailure(checks) ==
    LET i == SelectInSeq(checks, LAMBDA k : k.fails)
    IN  IF i = 0 THEN HGAP_SUCCESS ELSE checks[i].err

hgap_check_config_sender(c) == FirstFailure(SenderChecks(c))

hgap_check_config_receiver(c) ==
    IF check_file(c.out) # HGAP_SUCCESS THEN HGAP_ERR_BAD_OUT_FD
                                        ELSE check_addr(c.addr)

(* Reference: the violations spec section 8 ("Config validation") lists,  *)
(* each with the error kind the check must reject it with.                *)
SpecViolations(c) ==
    LET rules == {[holds |-> c.pkt_size <= HGAP_HEADER_LEN,  kind |-> HGAP_ERR_MTU_TOO_SMALL],
                  [holds |-> c.pkt_size > 1500,              kind |-> HGAP_ERR_MTU_TOO_BIG],
                  [holds |-> c.addr \in {"NULL", "garbage"}, kind |-> HGAP_ERR_INVALID_ADDR],
                  [holds |-> c.in = "NULL",                  kind |-> HGAP_ERR_BAD_IN_FD],
                  [holds |-> c.n_pkt \notin 1..64000,        kind |-> HGAP_ERR_BAD_N_PKT],
                  [holds |-> c.redund10 < 10,                kind |-> HGAP_ERR_BAD_REDUND]}
    IN  {r.kind : r \in {r \in rules : r.holds}}

(* The configurations enumerated: every field at the bounds its check     *)
(* tests, on both sides.                                                  *)
SenderConfigs ==
    [pkt_size : {HGAP_HEADER_LEN, HGAP_HEADER_LEN + 1,
                 HGAP_MAX_PKT_SIZE, HGAP_MAX_PKT_SIZE + 1},
     addr     : Addresses,
     in       : Files,
     n_pkt    : {0, 1, HGAP_MAX_N_PKT, HGAP_MAX_N_PKT + 1},
     redund10 : {9, 10},
     keepalive: {0, HGAP_DEF_KEEPALIVE}]

\* hgap_defaults' pkt_size; sizeof (struct sized_buf) on LP64
HGAP_DEF_PKT_SIZE == 1400
SIZEOF_SIZED_BUF  == 16

(* The receiver's configurations: the checked fields, and the mem_limit    *)
(* values given (hairgapr -m takes megabytes: 0, or at least 1 MiB).       *)
ReceiverConfigs(mems) ==
    [addr : Addresses, out : Files, pkt_size : {HGAP_DEF_PKT_SIZE},
     mem_limit : mems]

\* hgap_receive: the capacity of chan_net2dec, 0 for a small mem_limit
pkt_chan_size(c) == (c.mem_limit \div 2) \div (SIZEOF_SIZED_BUF + c.pkt_size)
=============================================================================
