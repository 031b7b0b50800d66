---------------------------- MODULE AsyncMsgFifo ----------------------------
(***************************************************************************)
(* uhd::transport::bounded_buffer<async_metadata_t>, the io_impl's         *)
(* async_msg_fifo: a FIFO of fixed capacity guarded by one mutex, so each  *)
(* operation is one atomic step on the sequence it is applied to.          *)
(* bounded_buffer.hpp is part of the UHD library, not of src/; these       *)
(* operators follow its documented behaviour.                              *)
(***************************************************************************)
EXTENDS Naturals, Sequences

CONSTANT Capacity   \* io_impl(): async_msg_fifo(100/*messages deep*/)

ASSUME Capacity \in Nat \ {0}

(* Fault variant: when full, the new element is discarded instead of the  *)
(* oldest one (push_with_haste semantics).                                 *)
PushDropNewest(q, e) ==
  IF Len(q) < Capacity THEN Append(q, e) ELSE q

(* Fault variant: the capacity is never checked. *)
PushUnbounded(q, e) == Append(q, e)

(* push_with_pop_on_full: always succeeds; when the buffer is full the    *)
(* oldest element is popped to make room.                                 *)
PushWithPopOnFull(q, e) ==
  IF Len(q) < Capacity THEN Append(q, e) ELSE Append(Tail(q), e)

(* pop_with_timed_wait on a non-empty buffer hands out the oldest element.*)
(* On an empty buffer it waits and returns false at the deadline, which   *)
(* changes nothing.                                                       *)
PopOldest(q) == Tail(q)
=============================================================================
