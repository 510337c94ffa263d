---------------------------- MODULE ChannelQueue ----------------------------
(***************************************************************************)
(* What a hairgap channel promises (src/lib/channel.h): a bounded FIFO     *)
(* queue between one producer and one consumer, holding at most Cap        *)
(* elements, with a sticky "poisoned" flag.  The detailed ring buffer of   *)
(* src/lib/channel.c (module Channel) is checked to implement this.        *)
(*                                                                         *)
(* A commit or an ack that passed its poison check before the flag was set *)
(* still completes in the code, so Send and Recv are not guarded by        *)
(* ~closed here: the abstract queue only promises order and capacity.      *)
(***************************************************************************)
EXTENDS Naturals, Sequences

CONSTANTS Cap,      \* channel capacity as given to channel_new
          Values    \* the elements that may be carried

VARIABLES queue,    \* elements committed and not yet acknowledged
          closed    \* the poisoned flag

vars == <<queue, closed>>

Init == queue = <<>> /\ closed = FALSE

\* channel_send / channel_reserve + channel_send_reserved
Send(v) == /\ Len(queue) < Cap
           /\ queue' = Append(queue, v)
           /\ UNCHANGED closed

\* channel_recv / channel_peek + channel_ack: the head leaves the queue
Recv == /\ queue # <<>>
        /\ queue' = Tail(queue)
        /\ UNCHANGED closed

\* channel_poison: idempotent
Poison == closed' = TRUE /\ UNCHANGED queue

Next == (\E v \in Values : Send(v)) \/ Recv \/ Poison

Spec == Init /\ [][Next]_vars
=============================================================================
