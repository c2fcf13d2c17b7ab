------------------------------ MODULE WireRate ------------------------------
(***************************************************************************)
(* The rate as the target sees it: HttpClient, unchanged, beside a leaky   *)
(* bucket at the target into which every hop pours when it goes on the     *)
(* wire.  It differs from the rate of the tokens in two ways.  A redirect  *)
(* that is followed goes out without a token (client.py 245), and a call   *)
(* that has its token may wait for a permit while the bucket fills again   *)
(* (client.py 119-120).                                                    *)
(***************************************************************************)
EXTENDS HttpClient

CONSTANT Leak      \* what the target drains per tick; a token is Unit

ASSUME LeakAssumption == Leak \in Nat \ {0}

\* History: the level at the target.  The client never reads it.
VARIABLE level

wireVars == <<vars, level>>

WireInit == Init /\ level = 0

\* A hop goes out: the first of a call, or one more redirect.
HopSent ==
    \E s \in Senders :
        pc'[s] = "wire" /\ (pc[s] # "wire" \/ chain'[s] # chain[s])

WireNext ==
    \/ Tick /\ level' = IF level < Leak THEN 0 ELSE level - Leak
    \/ Step /\ level' = IF HopSent THEN level + Unit ELSE level

WireSpec == WireInit /\ [][WireNext]_wireVars

\* With the fairness of the client; the level keeps no step from happening.
FairWireSpec == WireSpec /\ Fairness

-----------------------------------------------------------------------------
(* Properties.                                                             *)

HopsPerToken == 1 + MaxRedirects

\* A full bucket, and one token in the hand of every task.
WireBurst == HopsPerToken * (Full + Unit * Cardinality(Senders))

Seen == INSTANCE RateContract WITH Burst <- WireBurst

\* What the target can count on: drained at the rate of the bucket times the
\* hops one call may make, the hops never exceed those of a full bucket and
\* of one hoarded token per task (client.py 119-120, 208-245).
WireRateKept == Seen!Spec

\* The documented rate: HttpClient "wraps every outbound request in a
\* TokenBucket.acquire()" (http/rate_limit.py 3) and the bucket "enforces
\* requests_per_second" (docs/architecture.md 162-163), so at a target that
\* drains at that rate no more than a full bucket piles up.
DocumentedRate == level <= Full
=============================================================================
