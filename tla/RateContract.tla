---------------------------- MODULE RateContract ----------------------------
(***************************************************************************)
(* What a rate limiter promises, as a leaky bucket: the level drains by    *)
(* Leak units per clock tick, an event pours in Unit units, and the level  *)
(* never exceeds Burst.  Equivalently: in any window of d ticks at most    *)
(* (Burst + d * Leak) / Unit events happen.  What counts as an event is    *)
(* for the instance to say: a token taken (TokenBucket) or a hop on the    *)
(* wire (WireRate).                                                        *)
(***************************************************************************)
EXTENDS Integers

CONSTANTS Unit, Leak, Burst

VARIABLE level

Init == level = 0

\* A tick of the clock.
Drain == level' = IF level < Leak THEN 0 ELSE level - Leak

\* An event, possible only when it fits under the burst.
Grant ==
    /\ level + Unit <= Burst
    /\ level' = level + Unit

Next == Drain \/ Grant

Spec == Init /\ [][Next]_level
=============================================================================
