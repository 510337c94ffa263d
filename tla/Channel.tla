------------------------------- MODULE Channel -------------------------------
(***************************************************************************)
(* The single-producer single-consumer ring buffer of src/lib/channel.c,   *)
(* at the level of its mutex and its two condition variables.              *)
(*                                                                         *)
(* One producer thread sends the values 0..NMsg-1 (reserve, fill, commit)  *)
(* and one consumer thread peeks, uses and acks them, as the two threads   *)
(* of src/test/channel_test.c do.  When ConsumerPoisons is TRUE the        *)
(* consumer may, after an ack, poison the channel and stop: this is what   *)
(* the receiver's decode loop does to its input channel on a decoding      *)
(* error (hgap_receive.c, decloop).                                        *)
(*                                                                         *)
(* Each thread has a program counter.  pthread_cond_wait is the pair of    *)
(* steps "wait" (release the mutex, go to sleep) and "relock"; a signal    *)
(* moves a sleeping thread to "relock" and is lost if nobody sleeps.       *)
(* The unlocked reads of the indices and of the poisoned flag read the     *)
(* current values (they are single machine words).                         *)
(***************************************************************************)
EXTENDS Naturals, Sequences

CONSTANTS Cap,              \* the capacity passed to channel_new
          NMsg,             \* number of values the producer sends
          ConsumerPoisons   \* may the consumer poison the channel?

ASSUME Cap \in Nat /\ NMsg \in Nat \ {0} /\ ConsumerPoisons \in BOOLEAN

Producer == "producer"
Consumer == "consumer"
Threads  == {Producer, Consumer}
NoOwner  == "none"
\* content of a slot never written (malloc'd memory, never read)
Garbage  == NMsg

VARIABLES slots,     \* chan->elts
          wr,        \* chan->wr_idx
          rd,        \* chan->rd_idx
          poisoned,  \* chan->poisoned
          mutex,     \* owner of chan->mutex
          pc,        \* program counter of each thread
          nsent,     \* the producer's loop counter i
          got        \* the values the consumer has used, in order

vars == <<slots, wr, rd, poisoned, mutex, pc, nsent, got>>

\* channel_new allocates capacity + 1 slots
Size == Cap + 1

\* Variant that forgets to wrap the index around
channel_nextNoWrap(idx) == idx + 1

channel_next(idx) == (idx + 1) % Size

channel_is_full == rd = channel_next(wr) /\ ~poisoned

\* Variant whose empty test is the full test pasted over
channel_is_emptyAsFull == rd = channel_next(wr) /\ ~poisoned

channel_is_empty == rd = wr /\ ~poisoned

\* the test _channel_wait_lock blocks on: full for the producer (its
\* condition variable is send_cond), empty for the consumer (recv_cond)
Blocked(t) == IF t = Producer THEN channel_is_full ELSE channel_is_empty

Other(t) == IF t = Producer THEN Consumer ELSE Producer

\* Variant of the signal that never wakes the sleeper
WakeLost(t) == pc[t]

\* pthread_cond_signal on the condition variable thread t waits on
Wake(t) == IF pc[t] = "sleep" THEN "relock" ELSE pc[t]

Goto(t, l) == pc' = [pc EXCEPT ![t] = l]

\* t moves to l and signals the other thread's condition variable if cond
GotoSignal(t, l, cond) ==
    pc' = [pc EXCEPT ![t] = l,
                     ![Other(t)] = IF cond THEN Wake(Other(t)) ELSE @]

Init == /\ slots = [i \in 0..Size-1 |-> Garbage]
        /\ wr = 0
        /\ rd = 0
        /\ poisoned = FALSE
        /\ mutex = NoOwner
        /\ pc = [t \in Threads |-> "enter"]
        /\ nsent = 0
        /\ got = <<>>

-----------------------------------------------------------------------------
(* channel_reserve and channel_peek: POISON_CHECK, then _channel_wait_lock  *)
(* with its unlocked first test.                                            *)
Enter(t) ==
    /\ pc[t] = "enter"
    /\ Goto(t, IF poisoned THEN "closed"
               ELSE IF Blocked(t) THEN "lock" ELSE "check")
    /\ UNCHANGED <<slots, wr, rd, poisoned, mutex, nsent, got>>

\* pthread_mutex_lock, the first time and after a wake-up
Lock(t) ==
    /\ pc[t] \in {"lock", "relock"}
    /\ mutex = NoOwner
    /\ mutex' = t
    /\ Goto(t, "test")
    /\ UNCHANGED <<slots, wr, rd, poisoned, nsent, got>>

\* the re-test of the while loop, with the mutex held
Retest(t) ==
    /\ pc[t] = "test"
    /\ IF Blocked(t)
         THEN Goto(t, "wait") /\ UNCHANGED mutex
         ELSE Goto(t, "check") /\ mutex' = NoOwner
    /\ UNCHANGED <<slots, wr, rd, poisoned, nsent, got>>

\* pthread_cond_wait: release the mutex and sleep
Wait(t) ==
    /\ pc[t] = "wait"
    /\ mutex' = NoOwner
    /\ Goto(t, "sleep")
    /\ UNCHANGED <<slots, wr, rd, poisoned, nsent, got>>

\* pthread_cond_wait may return without a signal
SpuriousWakeup(t) ==
    /\ pc[t] = "sleep"
    /\ Goto(t, "relock")
    /\ UNCHANGED <<slots, wr, rd, poisoned, mutex, nsent, got>>

(* The second POISON_CHECK of reserve/peek, then the caller's use of the    *)
(* slot: the producer writes its next value, the consumer reads the head.   *)
CheckProducer ==
    /\ pc[Producer] = "check"
    /\ IF poisoned
         THEN Goto(Producer, "closed") /\ UNCHANGED slots
         ELSE /\ slots' = [slots EXCEPT ![wr] = nsent]
              /\ Goto(Producer, "commit")
    /\ UNCHANGED <<wr, rd, poisoned, mutex, nsent, got>>

CheckConsumer ==
    /\ pc[Consumer] = "check"
    /\ IF poisoned
         THEN Goto(Consumer, "closed") /\ UNCHANGED got
         ELSE /\ got' = Append(got, slots[rd])
              /\ Goto(Consumer, "ack")
    /\ UNCHANGED <<slots, wr, rd, poisoned, mutex, nsent>>

-----------------------------------------------------------------------------
(* channel_send_reserved and channel_ack: a POISON_CHECK without the lock,  *)
(* then the index update under the lock.                                    *)
PoisonCheck(t, l) ==
    /\ pc[t] = l
    /\ Goto(t, IF poisoned THEN "closed" ELSE l \o "_lock")
    /\ UNCHANGED <<slots, wr, rd, poisoned, mutex, nsent, got>>

\* lock; was_empty; advance wr; signal recv_cond if was_empty; unlock.
\* The producer loop of chan_producer then sends its next value.
CommitLocked ==
    /\ pc[Producer] = "commit_lock"
    /\ mutex = NoOwner
    /\ wr' = channel_next(wr)
    /\ nsent' = nsent + 1
    /\ GotoSignal(Producer, IF nsent + 1 = NMsg THEN "end" ELSE "enter",
                  channel_is_empty)
    /\ UNCHANGED <<slots, rd, poisoned, mutex, got>>

\* lock; was_full; advance rd; signal send_cond if was_full; unlock.
\* The consumer of chan_consumer stops after NMsg values; the decode loop
\* may instead poison its input channel and stop.
AckLocked ==
    /\ pc[Consumer] = "ack_lock"
    /\ mutex = NoOwner
    /\ rd' = channel_next(rd)
    /\ \E l \in IF Len(got) = NMsg THEN {"end"}
                ELSE IF ConsumerPoisons THEN {"enter", "poison"}
                ELSE {"enter"} :
         GotoSignal(Consumer, l, channel_is_full)
    /\ UNCHANGED <<slots, wr, poisoned, mutex, nsent, got>>

(* channel_poison: set the flag, then signal both condition variables,      *)
(* all without the mutex.                                                   *)
PoisonSet ==
    /\ pc[Consumer] = "poison"
    /\ poisoned' = TRUE
    /\ Goto(Consumer, "poison_signal")
    /\ UNCHANGED <<slots, wr, rd, mutex, nsent, got>>

PoisonSignal ==
    /\ pc[Consumer] = "poison_signal"
    /\ GotoSignal(Consumer, "end", TRUE)
    /\ UNCHANGED <<slots, wr, rd, poisoned, mutex, nsent, got>>

-----------------------------------------------------------------------------
Finished == \A t \in Threads : pc[t] \in {"end", "closed"}

\* both threads have returned: the system stops
Terminated == Finished /\ UNCHANGED vars

Step(t) == \/ Enter(t) \/ Retest(t) \/ Wait(t)
           \/ (t = Producer /\ (CheckProducer \/ PoisonCheck(t, "commit")))
           \/ (t = Consumer /\ (CheckConsumer \/ PoisonCheck(t, "ack")
                                \/ PoisonSet \/ PoisonSignal))

\* the steps of t that take the mutex
LockStep(t) == \/ Lock(t)
               \/ (t = Producer /\ CommitLocked)
               \/ (t = Consumer /\ AckLocked)

Next == \/ \E t \in Threads : Step(t) \/ LockStep(t) \/ SpuriousWakeup(t)
        \/ Terminated

(* Threads are scheduled by the OS: a runnable thread eventually runs.      *)
(* Taking the mutex is strongly fair: a thread waiting for it gets it if it *)
(* is released infinitely often.  Spurious wake-ups are not fair.           *)
Spec == /\ Init /\ [][Next]_vars
        /\ \A t \in Threads : WF_vars(Step(t)) /\ SF_vars(LockStep(t))

-----------------------------------------------------------------------------
TypeOK ==
    /\ slots \in [0..Size-1 -> 0..NMsg]
    /\ wr \in 0..Size-1 /\ rd \in 0..Size-1
    /\ poisoned \in BOOLEAN
    /\ mutex \in Threads \cup {NoOwner}
    /\ pc \in [Threads -> {"enter", "lock", "test", "wait", "sleep", "relock",
                           "check", "commit", "commit_lock", "ack", "ack_lock",
                           "poison", "poison_signal", "end", "closed"}]
    /\ nsent \in 0..NMsg
    /\ got \in Seq(0..NMsg)

\* the elements between rd and wr, oldest first
Count == (wr + Size - rd) % Size
Queue == [i \in 1..Count |-> slots[(rd + i - 1) % Size]]

(* Refinement: the ring buffer, its indices and the poisoned flag behave as *)
(* the bounded FIFO queue of ChannelQueue: a commit appends the value the   *)
(* producer wrote to the reserved slot, an ack removes the oldest element,  *)
(* and the queue never holds more than Cap elements.                        *)
ABS == INSTANCE ChannelQueue WITH queue <- Queue, closed <- poisoned,
                                  Values <- 0..NMsg
ChannelRefinesQueue == ABS!Spec

(* Every value the producer sends reaches the consumer, in order, unless   *)
(* the consumer poisons the channel: no wake-up of channel_send_reserved or *)
(* channel_ack is lost and neither thread sleeps forever.                   *)
AllDelivered == <>(got = [i \in 1..NMsg |-> i - 1] \/ poisoned)

(* Once the channel is poisoned, the producer eventually returns from       *)
(* channel_reserve / channel_send_reserved (channel.h: "any further         *)
(* send/receive will fail"), even if it was blocked on a full channel.      *)
PoisonReleasesProducer ==
    poisoned ~> pc[Producer] \in {"end", "closed"}
=============================================================================
