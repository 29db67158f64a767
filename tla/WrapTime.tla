------------------------------ MODULE WrapTime ------------------------------
(***************************************************************************)
(* core/util.h: millisecond time in a uint32_t that wraps every 49 days.   *)
(***************************************************************************)
EXTENDS Integers

CONSTANT TimeW       \* 2^32, the range of an instant

ASSUME TimeAssumption == TimeW \in Nat /\ TimeW > 1

Time == 0 .. TimeW - 1

later(at, ms) == (at + ms) % TimeW

\* tn_elapsed: milliseconds from one instant to a later one.
tn_elapsed(from, to) == (to - from) % TimeW

\* tn_time_after: the difference, read as an int32_t, is positive.
tn_time_after(a, b) == (a - b) % TimeW \in 1 .. (TimeW \div 2) - 1

\* deadline_in: milliseconds until an instant, 0 if it has passed.
deadline_in(due, now) ==
  IF tn_time_after(now, due) THEN 0 ELSE (due - now) % TimeW
=============================================================================
