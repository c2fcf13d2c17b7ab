-------------------------- MODULE TokenBucketProofs --------------------------
(* The bucket implements the rate contract, for every capacity and rate.   *)
EXTENDS TokenBucket, TLAPS

\* A full bucket holds at least one token.
LEMMA FullFact == Full \in Nat /\ Unit \in Nat \ {0} /\ Unit <= Full
<1>1. Capacity \in Nat /\ Capacity >= 1 /\ Unit \in Nat \ {0}
  BY BucketAssumption
<1>2. Full \in Nat
  BY <1>1 DEF Full
<1>3. Capacity * Unit = Unit + (Capacity - 1) * Unit
  BY <1>1
<1>4. (Capacity - 1) * Unit >= 0
  BY <1>1
<1> QED
  BY <1>1, <1>2, <1>3, <1>4 DEF Full

\* The refill lands between empty and full.
LEMMA RefilledRange == BucketTypeOK => Refilled \in 0..Full
BY FullFact DEF BucketTypeOK, Refilled, Least

\* One step of the bucket keeps its types (rate_limit.py 46-63).
LEMMA BucketStepType == BucketTypeOK /\ [BucketNext]_bucketVars => BucketTypeOK'
<1> SUFFICES ASSUME BucketTypeOK, [BucketNext]_bucketVars
             PROVE  BucketTypeOK'
  OBVIOUS
<1>1. Refilled \in 0..Full /\ Full \in Nat /\ Unit \in Nat \ {0}
  BY FullFact, RefilledRange
<1>2. CASE TakeToken
  BY <1>1, <1>2 DEF TakeToken, MarkRefill, BucketTypeOK
<1>3. CASE MissToken
  BY <1>1, <1>3 DEF MissToken, MarkRefill, BucketTypeOK
<1>4. CASE Elapse
  BY <1>1, <1>4 DEF Elapse, Least, BucketTypeOK
<1>5. CASE UNCHANGED bucketVars
  BY <1>5 DEF bucketVars, BucketTypeOK
<1> QED
  BY <1>2, <1>3, <1>4, <1>5 DEF BucketNext

\* One step of the bucket is a grant, a drain or a stutter of the contract.
LEMMA BucketStepContract ==
    BucketTypeOK /\ [BucketNext]_bucketVars
      => [Contract!Next]_(Full - Refilled)
<1> SUFFICES ASSUME BucketTypeOK, [BucketNext]_bucketVars
             PROVE  [Contract!Next]_(Full - Refilled)
  OBVIOUS
<1>1. /\ tokens \in 0..Full /\ lag \in 0..Full
      /\ Full \in Nat /\ Full' = Full /\ Unit \in Nat \ {0} /\ Unit <= Full
  BY FullFact DEF BucketTypeOK, Full
<1>2. CASE TakeToken
  <2>1. Refilled' = Refilled - Unit
    BY <1>1, <1>2 DEF TakeToken, MarkRefill, Refilled, Least
  <2>2. Contract!Grant
    BY <1>1, <1>2, <2>1 DEF TakeToken, Contract!Grant, Refilled, Least
  <2> QED
    BY <2>2 DEF Contract!Next
<1>3. CASE MissToken
  <2>1. Refilled' = Refilled
    BY <1>1, <1>3 DEF MissToken, MarkRefill, Refilled, Least
  <2> QED
    BY <1>1, <2>1
<1>4. CASE Elapse
  <2>1. CASE Refilled = Full
    <3>1. Refilled' = Full
      BY <1>1, <1>4, <2>1 DEF Elapse, Refilled, Least
    <3> QED
      BY <1>1, <2>1, <3>1
  <2>2. CASE Refilled # Full
    <3>1. Refilled = tokens + lag /\ Refilled < Full
      BY <1>1, <2>2 DEF Refilled, Least
    <3>2. Refilled' = Refilled + 1
      BY <1>1, <1>4, <3>1 DEF Elapse, Refilled, Least
    <3>3. Contract!Drain
      BY <1>1, <3>1, <3>2 DEF Contract!Drain
    <3> QED
      BY <3>3 DEF Contract!Next
  <2> QED
    BY <2>1, <2>2
<1>5. CASE UNCHANGED bucketVars
  BY <1>1, <1>5 DEF bucketVars, Refilled
<1> QED
  BY <1>2, <1>3, <1>4, <1>5 DEF BucketNext

\* The token count stays within the bucket.
THEOREM BucketTypeCorrect == BucketSpec => []BucketTypeOK
<1>1. BucketInit => BucketTypeOK
  BY FullFact DEF BucketInit, BucketTypeOK
<1> QED
  BY <1>1, BucketStepType, PTL DEF BucketSpec

\* Whatever the order of takers, misses and ticks, sends start no faster
\* than the refill rate plus one burst of the capacity.
THEOREM BucketKeepsRate == BucketSpec => RateKept
<1>1. BucketInit => Contract!Init
  BY FullFact DEF BucketInit, Contract!Init, Refilled, Least
<1> QED
  BY <1>1, BucketStepContract, BucketTypeCorrect, PTL
  DEF BucketSpec, RateKept, Contract!Spec
=============================================================================
