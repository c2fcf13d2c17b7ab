---------------------------- MODULE DedupLemmas ----------------------------
(* What add() does to the stores of a deduplicator, for the proofs about    *)
(* the modules that use one.                                               *)
EXTENDS Dedup, TLAPS

\* The ranks are numbers.
LEMMA RanksAreNumbers ==
    \A s \in Severities : SeverityRank[s] \in Nat
BY DEF Severities, SeverityRank

-----------------------------------------------------------------------------
(* What add() does to the stores.                                          *)

\* The stores of a deduplicator whose findings are in S.
StoreOf(S) ==
    [byFingerprint : [Fingerprints -> S \cup {NoFinding}],
     byRootCause : [RootCauses -> S \cup {NoFinding}],
     noKey : SUBSET S]

\* The stores of a are those of d with m filed under k and, if there is one,
\* under r.
Filed(a, d, k, m) ==
    a.byFingerprint = [d.byFingerprint EXCEPT ![k] = m] /\ a.noKey = d.noKey
FiledToo(a, d, r, m) == a.byRootCause = [d.byRootCause EXCEPT ![r] = m]

\* The five ways of add().
AddsUnkeyed(d, f) ==
    /\ Unkeyed(f)
    /\ After(d, f).byFingerprint = d.byFingerprint
    /\ After(d, f).byRootCause = d.byRootCause
    /\ After(d, f).noKey = d.noKey \cup {f}

AddsRepeated(d, f) ==
    /\ f.fingerprint \in Fingerprints /\ d.byFingerprint[f.fingerprint] # NoFinding
    /\ Filed(After(d, f), d, f.fingerprint, MergeTwo(d.byFingerprint[f.fingerprint], f))
    /\ After(d, f).byRootCause = d.byRootCause

AddsJoined(d, f) ==
    LET head == d.byRootCause[f.rootCause]
        m == MergeCluster(head, f)
    IN  /\ f.fingerprint \in Fingerprints /\ f.rootCause \in RootCauses
        /\ ClusterByRootCause /\ head # NoFinding
        /\ d.byFingerprint[f.fingerprint] = NoFinding
        /\ Filed(After(d, f), d, m.fingerprint, m)
        /\ FiledToo(After(d, f), d, f.rootCause, m)

AddsFounder(d, f) ==
    /\ f.fingerprint \in Fingerprints /\ f.rootCause \in RootCauses
    /\ ClusterByRootCause /\ d.byRootCause[f.rootCause] = NoFinding
    /\ d.byFingerprint[f.fingerprint] = NoFinding
    /\ Filed(After(d, f), d, f.fingerprint, f)
    /\ FiledToo(After(d, f), d, f.rootCause, f)

AddsAlone(d, f) ==
    /\ f.fingerprint \in Fingerprints
    /\ ~ ClusterByRootCause \/ f.rootCause = NoRootCause
    /\ d.byFingerprint[f.fingerprint] = NoFinding
    /\ Filed(After(d, f), d, f.fingerprint, f)
    /\ After(d, f).byRootCause = d.byRootCause

\* There is no other way.
LEMMA WaysOfAdd ==
    ASSUME NEW S, NEW d \in StoreOf(S), NEW f,
           f.fingerprint \in Fingerprints \cup {NoFingerprint},
           f.rootCause \in RootCauses \cup {NoRootCause}
    PROVE  \/ AddsUnkeyed(d, f) \/ AddsRepeated(d, f) \/ AddsJoined(d, f)
           \/ AddsFounder(d, f) \/ AddsAlone(d, f)
<1>1. /\ Unkeyed(f) \/ f.fingerprint \in Fingerprints
      /\ f.rootCause = NoRootCause \/ f.rootCause \in RootCauses
      /\ Unkeyed(f) => f.fingerprint \notin Fingerprints
      /\ f.rootCause = NoRootCause => f.rootCause \notin RootCauses
  BY NoFingerprintAssumption, NoRootCauseAssumption DEF Unkeyed
<1>2. CASE Unkeyed(f)
  <2>1. After(d, f) = [d EXCEPT !.noKey = @ \cup {f}]
    BY <1>2 DEF After, Repeats, Joins, Clusters
  <2> QED
    BY <1>2, <2>1 DEF AddsUnkeyed, StoreOf
<1>3. CASE ~ Unkeyed(f) /\ Repeats(d, f)
  <2> DEFINE m == MergeTwo(d.byFingerprint[f.fingerprint], f)
  <2>1. After(d, f) = [d EXCEPT !.byFingerprint[f.fingerprint] = m]
    BY <1>3 DEF After, Merged, Joins, Clusters
  <2> HIDE DEF m
  <2>2. Filed(After(d, f), d, f.fingerprint, m) /\ After(d, f).byRootCause = d.byRootCause
    BY <2>1 DEF Filed, StoreOf
  <2> QED
    BY <1>1, <1>3, <2>1, <2>2 DEF AddsRepeated, Repeats, m
<1>4. CASE Clusters(d, f) /\ Joins(d, f)
  <2> DEFINE m == MergeCluster(d.byRootCause[f.rootCause], f)
  <2>1. After(d, f) = [d EXCEPT !.byFingerprint[m.fingerprint] = m,
                                !.byRootCause[f.rootCause] = m]
    BY <1>4 DEF After, Merged, Joins, Clusters
  <2> HIDE DEF m
  <2>2. Filed(After(d, f), d, m.fingerprint, m) /\ FiledToo(After(d, f), d, f.rootCause, m)
    BY <2>1 DEF Filed, FiledToo, StoreOf
  <2> QED
    BY <1>1, <1>4, <2>1, <2>2 DEF AddsJoined, Joins, Clusters, Repeats, HasCluster, m
<1>5. CASE Clusters(d, f) /\ ~ Joins(d, f)
  <2>1. After(d, f) = [d EXCEPT !.byFingerprint[f.fingerprint] = f,
                                !.byRootCause[f.rootCause] = f]
    BY <1>5 DEF After, Merged, Joins, Clusters
  <2>2. Filed(After(d, f), d, f.fingerprint, f) /\ FiledToo(After(d, f), d, f.rootCause, f)
    BY <2>1 DEF Filed, FiledToo, StoreOf
  <2> QED
    BY <1>1, <1>5, <2>1, <2>2 DEF AddsFounder, Joins, Clusters, Repeats, HasCluster
<1>6. CASE ~ Unkeyed(f) /\ ~ Repeats(d, f) /\ ~ Clusters(d, f)
  <2>1. After(d, f) = [d EXCEPT !.byFingerprint[f.fingerprint] = f]
    BY <1>6 DEF After, Joins
  <2>2. Filed(After(d, f), d, f.fingerprint, f) /\ After(d, f).byRootCause = d.byRootCause
    BY <2>1 DEF Filed, StoreOf
  <2> QED
    BY <1>1, <1>6, <2>1, <2>2 DEF AddsAlone, Clusters, Repeats, HasCluster
<1> QED
  BY <1>2, <1>3, <1>4, <1>5, <1>6

\* What add() returns, for each way.
LEMMA MergedOfWay ==
    ASSUME NEW d, NEW f
    PROVE  /\ AddsUnkeyed(d, f) => Merged(d, f) = f
           /\ AddsRepeated(d, f) => Merged(d, f) = MergeTwo(d.byFingerprint[f.fingerprint], f)
           /\ AddsJoined(d, f) => Merged(d, f) = MergeCluster(d.byRootCause[f.rootCause], f)
           /\ AddsFounder(d, f) => Merged(d, f) = f
           /\ AddsAlone(d, f) => Merged(d, f) = f
<1>1. NoFingerprint \notin Fingerprints /\ NoRootCause \notin RootCauses
  BY NoFingerprintAssumption, NoRootCauseAssumption
<1>2. ASSUME AddsUnkeyed(d, f) PROVE Merged(d, f) = f
  BY <1>2 DEF AddsUnkeyed, Merged, Repeats, Joins, Clusters
<1>3. ASSUME AddsRepeated(d, f)
      PROVE  Merged(d, f) = MergeTwo(d.byFingerprint[f.fingerprint], f)
  BY <1>1, <1>3 DEF AddsRepeated, Merged, Unkeyed, Repeats, Joins, Clusters
<1>4. ASSUME AddsJoined(d, f)
      PROVE  Merged(d, f) = MergeCluster(d.byRootCause[f.rootCause], f)
  BY <1>1, <1>4 DEF AddsJoined, Merged, Unkeyed, Repeats, Joins, Clusters, HasCluster
<1>5. ASSUME AddsFounder(d, f) PROVE Merged(d, f) = f
  BY <1>1, <1>5 DEF AddsFounder, Merged, Unkeyed, Repeats, Joins, Clusters
<1>6. ASSUME AddsAlone(d, f) PROVE Merged(d, f) = f
  BY <1>1, <1>6 DEF AddsAlone, Merged, Unkeyed, Repeats, Joins, Clusters, HasCluster
<1> QED
  BY <1>2, <1>3, <1>4, <1>5, <1>6

\* What is in a slot is a finding.
LEMMA SlotsHoldFindings ==
    ASSUME NEW S, NEW d \in StoreOf(S)
    PROVE  /\ \A k \in Fingerprints :
                 d.byFingerprint[k] # NoFinding => d.byFingerprint[k] \in S
           /\ \A r \in RootCauses :
                 d.byRootCause[r] # NoFinding => d.byRootCause[r] \in S
           /\ DOMAIN d.byFingerprint = Fingerprints /\ DOMAIN d.byRootCause = RootCauses
BY DEF StoreOf
=============================================================================
