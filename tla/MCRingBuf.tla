----------------------------- MODULE MCRingBuf -----------------------------
(* Two frames of different length in a ring that holds two of them. *)
EXTENDS RingBuf
CONSTANTS a, b
MCFrame == {a, b}
MCFrameLen == [f \in MCFrame |-> IF f = a THEN 1 ELSE 2]
=============================================================================
