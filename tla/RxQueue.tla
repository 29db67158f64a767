------------------------------ MODULE RxQueue ------------------------------
(***************************************************************************)
(* What the receive ring of core/ringbuf.c promises to the rest of the     *)
(* library: a bounded FIFO of whole frames.  A frame that does not fit is  *)
(* dropped and counted, every other frame is delivered once, in order and  *)
(* intact.  RingBuf is shown to implement this module.                     *)
(***************************************************************************)
EXTENDS Integers, Sequences

CONSTANTS Frame,     \* the frames the radio may hand over
          Size,      \* Size[f]: bytes the record of f takes in the ring
          Cap,       \* TREENET_RX_RING_BYTES
          StatW,     \* 2^32, the range of the counter dropped
          NoFrame    \* nothing delivered yet

VARIABLES queue,     \* accepted frames, oldest first
          used,      \* bytes they occupy
          out,       \* the frame returned by the last successful pop
          dropped    \* rb->dropped

vars == <<queue, used, out, dropped>>

Init ==
  /\ queue = <<>>
  /\ used = 0
  /\ out = NoFrame
  /\ dropped = 0

\* tn_ringbuf_push returns true.
Accept(f) ==
  /\ used + Size[f] <= Cap
  /\ queue' = Append(queue, f)
  /\ used' = used + Size[f]
  /\ UNCHANGED <<out, dropped>>

\* tn_ringbuf_push returns false.
Drop(f) ==
  /\ used + Size[f] > Cap
  /\ dropped' = (dropped + 1) % StatW
  /\ UNCHANGED <<queue, used, out>>

\* tn_ringbuf_pop returns true.
Deliver ==
  /\ queue # <<>>
  /\ out' = Head(queue)
  /\ queue' = Tail(queue)
  /\ used' = used - Size[Head(queue)]
  /\ UNCHANGED dropped

Next == Deliver \/ \E f \in Frame : Accept(f) \/ Drop(f)

Spec == Init /\ [][Next]_vars
=============================================================================
