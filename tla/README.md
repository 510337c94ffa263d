# TLA+ models of hairgap

hairgap moves a byte stream over a one-way UDP link (a data diode). Nothing
travels back, so the sender protects each chunk of input with a fountain code
(wirehair) and sends redundant packets. This directory holds TLA+ models of the
library under `src/src/lib/`, the TLC configurations that check them, and
`PROJECT.json`, which maps every definition to the source lines it models and
lists the runs, mutants, findings and hazards.

## 1. The system

| Part | Source | State | Operations |
|---|---|---|---|
| SPSC channel | `channel.c` | ring of capacity+1 slots, `wr_idx`, `rd_idx`, `poisoned`, one mutex, two condition variables | reserve, send_reserved, send, peek, ack, recv, poison |
| Wire format | `proto.c`, `proto.h` | none (a 24-byte header: chunk_num, chunk_size, data_id, data_size) | parse, classify, write header, BEGIN/END/KEEPALIVE headers |
| Encoder / decoder | `encoding.c` | per-chunk: num, len, pkt_size, next_pkt_id, total_gen, data, wirehair state; decoder: state NEW/STARTED/DATA/STOPPED, chunk_complete, chunk_emitted | enc_chunk_init, enc_chunk_emit, handwave, teardown, decoder_read, decoder_emit |
| Sender driver | `hgap_send.c` | three threads: read_loop → encode_loop → send_loop, two channels of 16 | chunking, encoding, BEGIN salvo, redundancy loop, END salvo |
| UDP sender | `sender.c` | socket, limiter, keep-alive thread and its `cont` flag | send, control (a salvo of 32), keep-alive loop, free |
| Rate limiter | `limiter.c` | window start, packet and byte counters | limit (check after more than 1000 packets), shared unlocked by the emit and keep-alive threads |
| Receiver driver | `hgap_receive.c` | three threads: net reader → decloop → writer, two channels; `started` (timeout armed) | receive, decode, emit, write, poison pills, error aggregation |
| Configuration | `config.c` | none | check_config_sender / receiver |
| CLI | `hairgaps.c`, `hairgapr.c`, `config.c` (`hgap_defaults`) | `struct hgap_config` | defaults, options, then one library call |
| Errors | `error.c`, `common.c` | none | messages |

How the parts interact:

- Sender: read_loop cuts stdin into buffers of `n_pkt * (pkt_size - 24)` bytes. encode_loop turns each buffer into a chunk. send_loop sends a salvo of 32 BEGIN packets, then packets of each chunk until `total_gen / len >= redund`, then 32 END packets.
- Keep-alives: a separate thread sends KEEPALIVE headers every `keepalive` ms through the same `hgap_sender_send`.
- Receiver: the net reader arms the socket timeout at the first BEGIN and stops after END. decloop feeds every datagram to `hgap_decoder_read` and emits ready chunks. The writer writes them.
- Thread shutdown: each thread ends the next one with a poison pill, a NULL element on the channel.
- Decode errors: decloop poisons its input channel on a decode error.
- Result: `hgap_receive` combines the thread results with `HGAP_SELECT_ERROR`.

What is hard here, and what a model checker reaches better than a test:

- The channel's blocking discipline:
  - unlocked first tests;
  - signals sent only on the empty→non-empty and full→non-full transitions;
  - poison with neither the mutex nor a re-test.
- The protocol over a lossy, duplicating or reordering link:
  - which losses the redundancy absorbs;
  - what the decoder does with datagrams of other chunks;
  - what it does with duplicates of an emitted chunk;
  - what happens when BEGIN or a whole chunk is lost.
- The error paths of the six threads: which thread blocks on which channel when another stops early.
- Numeric edges:
  - a zero-length last chunk;
  - a channel of capacity 0;
  - the NaN redundancy ratio of an empty chunk;
  - the receiver's datagram size being smaller than the sender's.

The properties each part needs:

- Channel:
  - it is a FIFO of at most N elements;
  - every value sent is delivered;
  - poison releases both ends.
- Transfer:
  - the output is always a prefix of the input;
  - success implies the whole input was written;
  - with losses within the redundancy, the transfer succeeds.
- Pipelines:
  - every thread terminates on every error;
  - no thread's error is masked by a success at the joins;
  - the library returns an error code rather than ending the process;
  - the sender reports success only when everything, END included, went out.
- Configuration: the checks reject exactly what spec section 8 lists, with the matching error, and an address they accept can be used.
- Keep-alive: the thread is joined before `hgap_send` returns.
- Rate limiter: the bytes sent never exceed byterate × elapsed time by more than one check period (spec 4.5).

## 2. Modules

| Module | Models | Kind |
|---|---|---|
| `ChannelQueue` | what a channel promises: a bounded FIFO with a closed flag | abstract spec |
| `Channel` | `channel.c` with the two threads of `src/test/channel_test.c` | state machine, refines `ChannelQueue` |
| `Encoding` | `proto.c` and `encoding.c` | operators (decoder as a record) |
| `Transfer` | `send_loop`, `sender.c` salvos and keep-alives, the UDP link, and the receiver's protocol handling | state machine, uses `Encoding` |
| `Config` | `config.c` (`hgap_check_config_sender/receiver`, `check_addr`, `check_file`) and `inet_addr` as `sender.c` and `hgap_receive.c` use it | operators over configuration records |
| `ReceiverPipeline` | `hgap_receive`: configuration check, socket opening, net reader, decloop, writer, their two channels and the joins | state machine, uses `Config` |
| `SenderPipeline` | `hgap_send`: configuration check, read_loop, encode_loop, send_loop, `hgap_sender_new/free`, the keep-alive thread and the joins | state machine, uses `Config` |
| `Limiter` | `limiter.c` and `hgap_sender_send`, called by send_loop and by the keep-alive thread | state machine with a bounded clock |
| `Cli` | `hgap_defaults`, the `-t` and `-k` options of the two mains, the keep-alive period and the receiver's socket timeout | state machine over arrival gaps, uses `Config` |

The two pipelines model the channels as the bounded FIFO of `ChannelQueue`
(`Channel` checks that `channel.c` implements it) and the data as counts or
packet types: what they check is which thread blocks, exits or returns what.
`Transfer` checks the data that goes through them.

### Channel

- Variables:
  - `slots`, `wr`, `rd` and `poisoned` are the fields of `struct channel`;
  - `mutex` is its owner;
  - `pc` is a program counter per thread.
- Actions:
  - `Enter`: the first POISON_CHECK and the unlocked test;
  - `Lock`, `Retest` and `Wait`: the `_channel_wait_lock` loop, with `pthread_cond_wait` split into release-and-sleep and re-lock;
  - `SpuriousWakeup`;
  - `CheckProducer` and `CheckConsumer`: the second POISON_CHECK and the use of the slot;
  - `PoisonCheck`: the poison check of `channel_send_reserved` and `channel_ack`;
  - `CommitLocked` and `AckLocked`: the locked index update and the conditional signal;
  - `PoisonSet` and `PoisonSignal`: `channel_poison`.
- A signal wakes a sleeping thread. It is lost if the thread is not yet asleep.
- The refinement maps the slots between `rd` and `wr` to the abstract queue. `ChannelRefinesQueue` checks `ChannelQueue!Spec`.

### Encoding

- A packet is a record of the four header fields and the datagram length.
- `chunk_num` is a 64-bit word. `NumSpace` stands for 2^64, and the reserved values are its top 16.
- The decoder is a record with these fields:
  - `state`, `complete` and `emitted`, as in `struct hgap_decoder`;
  - `num`, `len` and `psize`, from the chunk;
  - `data`: the small-chunk copy exists;
  - `ids`: the block ids fed to wirehair;
  - `bad`: a block came from a truncated datagram.
- wirehair is abstracted to its guarantee: a large chunk of `len` bytes in blocks of `B` bytes is recovered once `ceil(len/B)` distinct ids have been read.
- `hgap_decoder_read` follows the code branch for branch:
  - state update;
  - early returns;
  - new chunk number (INCOMPLETE, BAD_CHUNK, re-initialise);
  - already-complete chunk;
  - read.
- The result of `hgap_pkt_parse` is ignored, as in the code.
- Encoder side: `hgap_enc_chunk_emit` gives the header of packet `id`, the datagram size and the new `total_gen`. `hgap_encoder_handwave` and `hgap_encoder_teardown` give the BEGIN and END headers, or BUFFER_TOO_SMALL below `HGAP_MIN_BUF`. `Transfer` sends exactly these packets.

### Transfer

- `inputLen` and `kaOn` are chosen in `Init` from `InputLens` and `KeepaliveModes`: one run covers several input sizes with keep-alives on and off.
- Sender variables:
  - `spc` is send_loop's position: BEGIN salvo, data, END salvo, done;
  - `salvo` counts the current salvo;
  - `sc`, `sid` and `sgen` are the chunk being emitted, its `next_pkt_id` and its `total_gen`.
- The link: `wire` is the sequence of datagrams in flight.
  - `Lose` and `Duplicate` are bounded by `MaxLoss` and `MaxDup`.
  - With `Reorder`, any datagram may be received next.
- Receiver variables:
  - `started` is the net reader's flag;
  - `dec` is the decoder;
  - `out` is what the writer wrote, one chunk number per chunk, or `Corrupt`;
  - `rstate` and `result`.
- `Receive` is one datagram through net reader, decloop and writer. This is one atomic step because the channels between them are FIFO. The `Channel` module shows this, so the three threads see the datagrams and chunks in the same order.
- `Timeout` is the socket timeout. It is armed after the first BEGIN and fires when nothing arrives any more. Keep-alives hold it off while the sender runs.

### Config

- A configuration is a record whose fields take the values on both sides of
  every bound the checks test: `pkt_size` 24/25 and 1500/1501, `n_pkt`
  0/1/64000/64001, `redund` 0.9/1.0 (kept in tenths), keep-alive 0/500.
- An address is the class of string it is: a dotted quad, `"0.0.0.0"`, a
  host name, garbage, or NULL. `getaddrinfo_ok` (check_addr) accepts the
  first three; `inet_addr` gives a host, `INADDR_ANY` (0) or `INADDR_NONE`
  (-1, i.e. 255.255.255.255).
- `SenderChecks` is the list of early returns of `hgap_check_config_sender`
  in code order; `FirstFailure` takes the first one that fires.
- `SpecViolations` is the reference: the violations spec section 8 lists.

### ReceiverPipeline

- `config` is chosen in `Init` among all receiver configurations, with `mem_limit` from `MemLimits`.
- `PktChanCap` is the capacity of chan_net2dec. It is 0 when `pkt_chan_size(config)` (`(mem_limit / 2) / (16 + pkt_size)`, `hgap_receive.c:336`) is 0, as with `hairgapr -m 0`. A channel of capacity 0 is a ring of one slot that is always full. Otherwise the capacity is the `PktCap` bound.
- Net reader / main thread (`npc`): `RecvCheck` (hgap_check_config_receiver,
  then channels and threads), `NetOpen` (hgapr_open_udp_socket: a name is
  INADDR_NONE; socket or bind may fail), `NetReserve`, `NetRecv`,
  `NetCommit`, `NetPill`, `NetPillCommit`, `JoinDec`, `JoinWr`.
- decloop (`dpc`, `dstate`): `DecStep` is peek, hgap_decoder_read and ack
  with its four outcomes; `DecSend` (hgap_decoder_emit, whose failure,
  a `wirehair_reconstruct` error, poisons chan_net2dec as a decode error
  does, then channel_send); `DecPill`.  The poisoned branch of channel_peek
  is in `DecStep` as in the code, and never taken: only decloop poisons
  chan_net2dec, and it leaves the loop when it does.
- writer (`wpc`): `WrStep`, with a short write that breaks the loop.
- `CHK(pkt)` on a NULL reserve (a poisoned channel) is `npc = "exit"`.

### SenderPipeline

- `config` is chosen in `Init` among all sender configurations.
- read_loop (`rpc`): `ReadBuf` (reserve, read, send; EOF or a read error),
  `ReadPill`.
- encode_loop (`epc`): `EncPeek` (hgap_enc_chunk_init may fail), `EncSend`,
  `EncPill`.
- send_loop and hgap_send (`spc`): `SndCheck`, `SndNew` (hgap_sender_new
  rejects only inet_addr = 0, and a failure frees a NULL sender: `"crash"`),
  `SndHandwave` (BEGIN salvo), `SndRecv`, `SndEmit` (one
  hgap_enc_chunk_emit call), `SndEnd` (END salvo, result ignored),
  `SndFree` and `SndJoinKa` (hgap_sender_free), `JoinRead`, `JoinEncode`.
- keep-alive thread (`kpc`, `cont`): `KaLoop` tests the flag, `KaSend`
  sends after the sleep; a failed send is CHK_PERROR, `spc = "exit"`.

### Limiter

- Variables:
  - `since`, `nPkt` and `nBytes` are the fields of `struct hgap_limiter`;
  - `now` is `gettimeofday` in ticks, bounded by `MaxTime`;
  - `wire` counts the bytes `sendto` has sent;
  - `pc`, `rp` and `rb` are per thread: the position in `hgap_limiter_limit`, and the counter values loaded.
- Both threads, `"emit"` (send_loop) and `"ka"` (the keep-alive thread), run the same steps:
  - `Send`: `sendto`, which takes at least one tick;
  - `ReadCounters` and `WriteCounters`: the unlocked `n_pkt_sent++` and `n_bytes_sent += len`, as a load and a store;
  - `Check`: `byterate && n_pkt_sent > HLIM_CHK_PERIOD`;
  - `Sleep`: the busy-sleep. It leaves once `get_current_rate` is at most `byterate`, then `ResetRate` (`hgap_limiter_reset_rate`).
- `Tick` lets time pass: `usleep`, the keep-alive period.
- `rate > byterate` is `nBytes > byterate × (now − since)`, which is exact for the doubles of the code. A difference of 0 gives rate 0.
- The window reset is one step. A store of a thread preempted across it can only put old counts back, which makes the limiter slower, never faster.

### Cli

- The configurations: `hgap_defaults` is a record of the `HGAP_DEF_*` values. `hairgaps_main(k)` and `hairgapr_main(t)` replace its `keepalive` and `timeout` by the `-k` and `-t` argument, or keep the default when the option is absent (`Absent`). `hairgapr` stores the `-t` number as it is.
- `KaPeriod(k)` is the period of `keepalive_loop_thread`: `sleep(k / 1000)` whole seconds from 1000 ms on, `usleep(k * 1000)` below.
- `RcvTimeo` is the `struct timeval` of `hgapr_set_socket_timeout`. A `{0, 0}` timeval never times out.
- Variables: `targ`, `sconf` and `rconf` (the `-t` given and the two configurations); `started` (the net reader's flag, set at the first BEGIN); `arrivals`; `rstate` and `gaveUpAfter`.
- `Arrive(g)`: the next datagram reaches `recvfrom` after a silence of `g` µs. The silence is one of `DataGaps`, cut to the keep-alive period when keep-alives are on. Once the timeout is armed, a silence that reaches it ends the transfer with `HGAP_ERR_TIMEOUT`. Otherwise the datagram is received and arms the timeout (the first one is BEGIN).

## 3. Runs

| Run (cfg) | Expect | Bounds | What it shows |
|---|---|---|---|
| `Channel_fifo` | pass | Cap 2, 4 values, consumer may poison | FIFO refinement of `ChannelQueue`; every value delivered unless poisoned (475 states) |
| `Channel_poison_wakeup` | violation | Cap 1, 3 values | poison's unlocked signal is lost; the producer sleeps forever |
| `Transfer_lossy` | pass | 201 bytes (chunks of 200 = 2 blocks, and 1) and 200 bytes (chunks of 200 and 0); keep-alives on and off; redund 3/2; salvos of 2; 1 loss, 1 duplicate | output prefix, success ⇒ fidelity, and with keep-alives eventual success; the empty last chunk and a premature timeout never corrupt the output (24113 states) |
| `Transfer_faults` | violation | 201 bytes in three 1-block chunks, salvos of 2, 2 losses, reordering, receiver mtu 100 < sender 124 | `OutputFaithful` (output a prefix, and the whole input on success) fails: a lost BEGIN salvo or chunk is reported as success, a reordered or truncated datagram writes wrong data. Each of loss, reordering and truncation breaks it alone |
| `ReceiverPipeline_errors` | pass | channels of 2, 5 datagrams, every receiver configuration, decode and network errors | termination, no masked error, every chunk written (4451 states) |
| `ReceiverPipeline_decode_exit` | violation | channels of 2 | a decode error while the net reader reserves exits the process |
| `ReceiverPipeline_write_error` | violation | channels of 1, short writes, `mem_limit` 0 or 100 MiB | a short write hangs the receiver, and so does `hairgapr -m 0` (chan_net2dec of capacity 0) |
| `SenderPipeline_errors` | pass | channels of 3, 2 buffers, 3 emits per chunk, every sender configuration, every error | termination, success ⇒ all chunks and no failure, config errors as spec 8 (18248 states) |
| `SenderPipeline_hang` | violation | channels of 2, 4 buffers | an encoder error, a wirehair error or a failed BEGIN salvo hangs hgap_send |
| `SenderPipeline_outcome` | violation | 1 buffer, every error path | `OutcomeTruthful` fails: hgap_send ends the process, reports success without END, or sends END (and the receiver reports success) after a read, encoder or wirehair error. Each path breaks it alone |
| `Limiter_race` | violation | byterate 1 byte/tick, `HLIM_CHK_PERIOD` 2, DATA 3 bytes ×8, keep-alives 1 byte ×2, 24 ticks | a keep-alive's stale counter store erases counted DATA bytes; the sender exceeds its rate by more than one check period |
| `Cli_timeout` | violation | `-t` absent, 1 or 5; `-k` absent, 0 or 1500; gaps of 10 µs (data flowing) and 2 s (input stalled); 3 datagrams | `hairgapr -t 1` gives up after 1 µs of silence, not 1 s |

A violation run checks one property; where several code paths break it, each
was checked to break it alone (the findings list them). Runs are named in
`PROJECT.json` by the lower-case form of their cfg (`transfer_lossy`, ...).

Why these bounds are enough:

- **Channel.** Cap 2 with 4 values wraps the ring more than once. It reaches full, empty, and both threads asleep in turn.
- **Transfer, chunk shapes.** The inputs cover all three chunk shapes the code treats differently:
  - large: 2 blocks, 3 packets at redund 3/2;
  - small: 1 byte, 2 packets;
  - empty: emitted once because the ratio is NaN.
- **Transfer, link faults.** One loss and one duplicate can hit every packet. That includes the one surplus packet of a large chunk and one of the two copies of a small chunk, which is the most a redundancy of 3/2 promises to absorb.
- **Salvos.** A salvo of 2 instead of 32 keeps "a salvo survives one loss" true, which is what 32 packets are for.
- **Pipelines.** The pass runs keep the channels larger than the data (no stage can block on a full channel once another stops), so that termination is a property of the error handling; the violation runs make the input larger than the channels (16 in hgap_send, `pkt_chan_size` and 256 in hgap_receive), which is where the hangs are. In `SenderPipeline_errors` every error flag is on. In `ReceiverPipeline_errors` network and decode errors are on and short writes are off (`WriteErrors` FALSE), because a short write hangs the receiver (finding 5) and would make termination fail; `ReceiverPipeline_write_error` checks it. The pass runs therefore do not see a full channel, and the violation runs do.
- **Limiter.** With `HLIM_CHK_PERIOD` 2, a check happens every 3 datagrams and 8 DATA datagrams span several windows. The burst allowed is (`HLIM_CHK_PERIOD` + 2) × 3 bytes: one check period plus one datagram per thread not yet counted. With the load and store made one step, the same bounds keep the excess at 9 bytes or less, under the 12 allowed. The violation therefore comes from the race, not from the bound.
- **Cli.** The options cover the default, small values and `-k` above 1000 (the whole-second sleep). The gaps cover a flowing stream and a stall longer than the default timeout. Three datagrams arm the timeout and then wait once more.
- **Configurations.** Every field at both sides of each bound, and every class of address, so each early return of the checks fires first in some configuration.

Mutants: each property of a passing run is checked to fail on a plausible bug in the code it is about:

- a ring index that is not wrapped; an empty test pasted from the full test; a lost condvar signal;
- a salvo counter that is never reset; a decoder that re-emits a complete chunk; header bytes counted in `total_gen`; `chunk_complete` never set;
- a reserve that ignores the capacity; the writer not joined; `HGAP_SELECT_ERROR` with swapped operands; decloop without its poison pill;
- read_loop ignoring EOF; the encoder's error not folded in; encode_loop without its poison pill; the MTU bound tested with `<`.

## 4. Fairness

- **Channel.** Every thread step has weak fairness, because the OS runs a runnable thread. Taking the mutex has strong fairness: `pthread_mutex_lock` does not starve a thread when the mutex is released infinitely often. Spurious wake-ups have no fairness.
- **Transfer.** The sender and the receiver each have weak fairness: a process that can run does run. Loss, duplication and keep-alives have none: the link never has to misbehave, and the keep-alive thread may sleep.
- **Limiter.** Weak fairness on the whole next-state relation; only the violation run checks it, with a safety property.
- **Cli.** None: its one run checks a safety property.
- **Pipelines.** Weak fairness per thread (the keep-alive thread included: its sleep ends). A blocking channel operation is enabled exactly when the condition variable it waits on would be signalled, so a thread that stays enabled runs.

## 5. Findings

Each finding is a TLC counter-example to what the spec, a header comment or a test says. `PROJECT.json` has the details.

1. `channel_poison` signals without the mutex. A producer blocked on a full channel can miss the poison and hang (`channel.c:232`).
2. The receiver never checks that `chunk_num` increases by 1: a chunk lost whole, or a lost BEGIN salvo, is reported as success; reordered datagrams write chunks out of order or twice.
3. A truncated datagram is decoded, because the parse result is ignored (`encoding.c:364`).
4. Receiver: a decode error poisons chan_net2dec, and the net reader's `CHK(pkt)` then exits the process instead of returning the error (`hgap_receive.c:104`).
5. Receiver: a short write stops the writer without poisoning chan_dec2out; the other threads block and `hgap_receive` never returns (`hgap_receive.c:292`).
6. Sender: a failed BEGIN salvo, an encoder init error or a wirehair_write error stops one stage without poisoning; the others block and `hgap_send` never returns (`hgap_send.c:216`, `:149`, `:239`).
7. Sender: `hgap_sender_new` rejects only `inet_addr() == 0`. `"0.0.0.0"` passes the check and then makes it fail, and the NULL sender is freed (`hgap_send.c:264`). A host name, which `hairgap.h` documents and `check_addr` accepts, becomes 255.255.255.255: the BEGIN salvo fails, and with keep-alives on the keep-alive thread's CHK_PERROR exits the process (`sender.c:69`, `:92`). The receiver rejects the same name with HGAP_ERR_NETWORK.
8. Sender: the END salvo's result is ignored, so `hgap_send` can return success although the receiver never gets END (`hgap_send.c:259`).
9. Receiver: `pkt_chan_size` is `(mem_limit / 2) / (16 + pkt_size)`, and nothing checks that it is non-zero. With `hairgapr -m 0`, chan_net2dec is always full: the net reader blocks in its first `channel_reserve` and `hgap_receive` never returns (`hgap_receive.c:337`).
10. Limiter: spec 6 says only the emit thread calls the rate limiter and keep-alives bypass it. In the code the keep-alive thread sends through `hgap_sender_send`, which calls `hgap_limiter_limit` without a lock. A keep-alive whose load and store of the counters straddle several DATA sends erases their counts: those bytes are never slept for, and the sender exceeds the byterate by more than the one check period spec 4.5 allows (`sender.c:69`, `limiter.c:85`).
11. CLI: the usage of `hairgapr` says `-t TIMEOUT` is in seconds, but `main` stores the number unconverted in `config.timeout` (`hairgapr.c:54`), which `hairgap.h:63` and `hgapr_set_socket_timeout` read as microseconds. `hairgapr -t 5` ends a transfer after any 5 µs gap between datagrams. `-t 0` turns the timeout off.
12. Sender: the END salvo is guarded by `!more_data` ("Proper teardown only on proper exit", `hgap_send.c:255`). A read error, an encoder error and a wirehair_write error all end with `more_data` 0, so END goes out. `hgap_receive` then returns success on a truncated output, while `hgap_send` returns the error (`hgap_send.c:257`).

## 6. What is not modelled, and what is left

- **Rate limiter**: `total_data_sent`, which only `hgap_limiter_free` reads, for a debug message. `Limiter` is not composed with `SenderPipeline`: the limiter never fails and never blocks for good, so it changes no outcome that `SenderPipeline` checks.
- **wirehair**: external; abstracted to its recovery guarantee. `wirehair_init` failing and a `wirehair_write` that fails on every call (send_loop's do-while then spins forever, `hgap_send.c:237`) are left out of the pass runs' bounds.
- **Sender data packets**: a failed `sendto` of a DATA packet is ignored by send_loop; on the wire it is a lost packet, which `Transfer` models.
- **Header byte encoding** (`hgap_write_header`, big-endian): `chunk_num` and `chunk_size` are 64-bit words, and the reserved chunk numbers are within 16 of 2^64. TLC's integers are 32-bit, so a byte-level encoder cannot represent them faithfully. The header is a fixed-layout struct of four fields with no padding (8+8+4+4 = `HGAP_HEADER_LEN`), written and read by `htobe`/`be*toh` of the same width, so the model keeps the fields.
- **CLI** (`hairgaps.c`, `hairgapr.c`): `Cli` models the options that set the timeout and the keep-alive period. The other options only convert strings into fields whose checks `Config` models, and the pipelines start from every configuration the checks distinguish (`mem_limit` 0 is the `-m 0` case). Their integer edges lie beyond TLC's 32-bit integers: `-N` is truncated to `uint32_t`, so 2^32 + 1 becomes 1 and passes the check, and `-m` × 2^20 wraps `size_t`. `-h` and the usage exits change no library state.
- `hgap_config_dump`, the message table of `error.c` and logging change no state a property tells apart.
- Weak-memory effects of the unlocked index reads. The model reads the current value. On x86 and with aligned words the stale read costs only an extra locked re-test, which the model includes.
