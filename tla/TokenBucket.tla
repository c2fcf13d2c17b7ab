---------------------------- MODULE TokenBucket ----------------------------
(***************************************************************************)
(* The rate limiter of http/rate_limit.py.  Time is counted in ticks and a *)
(* tick earns 1/Unit of a token, so tokens are kept in units of 1/Unit and *)
(* the rate of the code is 1/Unit tokens per tick.                         *)
(*                                                                         *)
(* lag is the time since the last refill (now - _last).  It is not counted *)
(* past Full, the time in which an empty bucket fills: the min() of the    *)
(* refill makes every longer lag equivalent.                               *)
(*                                                                         *)
(* The body of "async with self._lock" awaits nothing, so one iteration of *)
(* the loop of acquire() runs without interleaving and is one action:      *)
(* TakeToken returns from acquire(), MissToken goes on to sleep.           *)
(***************************************************************************)
EXTENDS Integers

CONSTANTS
    Capacity,   \* tokens the bucket holds: max_concurrent_requests
    Unit        \* ticks needed to earn one token

ASSUME BucketAssumption == Capacity \in Nat \ {0} /\ Unit \in Nat \ {0}

VARIABLES
    tokens,     \* _tokens, in units
    lag         \* ticks since _last, at most Full

bucketVars == <<tokens, lag>>

Full == Capacity * Unit

Least(a, b) == IF a < b THEN a ELSE b

\* The token count after the refill that starts every iteration.
Refilled == Least(Full, tokens + lag)

BucketTypeOK == tokens \in 0..Full /\ lag \in 0..Full

\* The bucket starts full.
BucketInit == tokens = Full /\ lag = 0

\* Faulty variant: _last is not updated, so the same time is earned again.
MarkRefillForgotten == UNCHANGED lag

\* _last = now.
MarkRefill == lag' = 0

\* A token is there: consume it.
TakeToken ==
    /\ Refilled >= Unit
    /\ tokens' = Refilled - Unit
    /\ MarkRefill

\* Not enough for a token: keep the refill and sleep outside the lock.
MissToken ==
    /\ Refilled < Unit
    /\ tokens' = Refilled
    /\ MarkRefill

\* How long a miss sleeps.
WaitAfterMiss == Unit - Refilled

\* Time passes.
Elapse == lag' = Least(lag + 1, Full) /\ UNCHANGED tokens

BucketNext == TakeToken \/ MissToken \/ Elapse

BucketSpec == BucketInit /\ [][BucketNext]_bucketVars

-----------------------------------------------------------------------------
(* The events of the contract are tokens taken, and its level is what the  *)
(* bucket lacks to be full.  When a request goes out after its token, and  *)
(* how many hops it makes, is not the bucket's: see WireRate.              *)
Contract == INSTANCE RateContract
              WITH Leak <- 1, Burst <- Full, level <- Full - Refilled

\* The bucket keeps the rate contract: never more than Capacity tokens above
\* the refill rate are taken, whatever the order of takers, misses and ticks
\* (rate_limit.py 46-63).
RateKept == Contract!Spec
=============================================================================
