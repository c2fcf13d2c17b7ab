---------------------------- MODULE DedupProofs ----------------------------
(* What the deduplicator keeps of the findings given to it, for every      *)
(* sequence of additions and clears.                                       *)
EXTENDS DedupSession, DedupLemmas, FiniteSetTheorems

\* The findings that can be there after n additions.
FindingsTo(n) ==
    [id : 1..n,
     fingerprint : Fingerprints \cup {NoFingerprint},
     rootCause : RootCauses \cup {NoRootCause},
     severity : Severities, confidence : Confidences, endpoint : Endpoints,
     evidence : SUBSET (1..n), size : 1..n, affected : SUBSET Endpoints]

-----------------------------------------------------------------------------
(* The merges.                                                             *)

\* No finding is the mark of an empty slot.
LEMMA FindingsAreFound ==
    ASSUME NEW n \in Nat, NEW f \in FindingsTo(n)
    PROVE  f # NoFinding
<1>1. f.id >= 1
  BY DEF FindingsTo
<1>2. NoFinding.id = 0
  BY DEF NoFinding
<1> QED
  BY <1>1, <1>2

\* A finding stays one as the count goes on.
LEMMA FindingsGrow ==
    ASSUME NEW n \in Nat, NEW f \in FindingsTo(n)
    PROVE  f \in FindingsTo(n + 1)
BY DEF FindingsTo

\* A merge by fingerprint keeps one of the two, with the evidence of both.
LEMMA MergeTwoKeeps ==
    ASSUME NEW n \in Nat, NEW a \in FindingsTo(n), NEW b \in FindingsTo(n),
           a.fingerprint = b.fingerprint
    PROVE  /\ MergeTwo(a, b) \in FindingsTo(n)
           /\ MergeTwo(a, b).fingerprint = a.fingerprint
           /\ MergeTwo(a, b).evidence = a.evidence \cup b.evidence
BY DEF MergeTwo, FindingsTo

\* A merge into a cluster keeps the more severe, with the evidence and the
\* endpoints of both.
LEMMA MergeClusterKeeps ==
    ASSUME NEW n \in Nat, NEW head \in FindingsTo(n), NEW new \in FindingsTo(n + 1),
           head.rootCause = new.rootCause
    PROVE  LET m == MergeCluster(head, new)
           IN  /\ m \in FindingsTo(n + 1)
               /\ m.rootCause = new.rootCause
               /\ \/ m.fingerprint = head.fingerprint /\ m.endpoint = head.endpoint
                  \/ m.fingerprint = new.fingerprint /\ m.endpoint = new.endpoint
               /\ m.evidence = head.evidence \cup new.evidence
               /\ m.affected = head.affected \cup {head.endpoint, new.endpoint}
               /\ SeverityRank[m.severity] >= SeverityRank[head.severity]
               /\ SeverityRank[m.severity] >= SeverityRank[new.severity]
<1> DEFINE m == MergeCluster(head, new)
<1>1. head \in FindingsTo(n + 1)
  BY FindingsGrow
<1>2. /\ SeverityRank[head.severity] \in Nat /\ SeverityRank[new.severity] \in Nat
      /\ head.size + 1 \in 1..(n + 1) /\ 2 \in 1..(n + 1)
  BY RanksAreNumbers DEF FindingsTo
<1>3. CASE Outranks(new, head)
  <2>1. m = [new EXCEPT !.evidence = head.evidence \cup new.evidence, !.size = 2,
                        !.affected = head.affected \cup {head.endpoint, new.endpoint}]
    BY <1>3 DEF MergeCluster
  <2>2. SeverityRank[new.severity] >= SeverityRank[head.severity]
    BY <1>2, <1>3 DEF Outranks
  <2> HIDE DEF m
  <2>3. m \in FindingsTo(n + 1)
    BY <1>1, <1>2, <2>1 DEF FindingsTo
  <2> QED
    BY <1>2, <2>1, <2>2, <2>3 DEF FindingsTo, m
<1>4. CASE ~ Outranks(new, head)
  <2>1. m = [head EXCEPT !.evidence = head.evidence \cup new.evidence, !.size = head.size + 1,
                         !.affected = head.affected \cup {head.endpoint, new.endpoint}]
    BY <1>4 DEF MergeCluster
  <2>2. SeverityRank[head.severity] >= SeverityRank[new.severity]
    BY <1>2, <1>4 DEF Outranks
  <2> HIDE DEF m
  <2>3. m \in FindingsTo(n + 1)
    BY <1>1, <1>2, <2>1 DEF FindingsTo
  <2> QED
    BY <1>2, <2>1, <2>2, <2>3 DEF FindingsTo, m
<1> QED
  BY <1>3, <1>4

-----------------------------------------------------------------------------
(* The ways of add() in a session.                                         *)

Store(n) == StoreOf(FindingsTo(n))

\* The route that the history names is the way that was taken.
LEMMA RouteOfWay ==
    ASSUME NEW d, NEW f
    PROVE  /\ AddsUnkeyed(d, f) => Route(d, f) = "unkeyed"
           /\ AddsRepeated(d, f) => Route(d, f) = "repeated"
           /\ AddsJoined(d, f) => Route(d, f) = "joined"
           /\ AddsFounder(d, f) => Route(d, f) = "founded"
           /\ AddsAlone(d, f) => Route(d, f) = "founded"
<1>1. NoFingerprint \notin Fingerprints /\ NoRootCause \notin RootCauses
  BY NoFingerprintAssumption, NoRootCauseAssumption
<1>2. ASSUME AddsUnkeyed(d, f) PROVE Route(d, f) = "unkeyed"
  BY <1>2 DEF AddsUnkeyed, Route, Repeats, Joins, Clusters
<1>3. ASSUME AddsRepeated(d, f) PROVE Route(d, f) = "repeated"
  BY <1>1, <1>3 DEF AddsRepeated, Route, Unkeyed, Repeats, Joins, Clusters
<1>4. ASSUME AddsJoined(d, f) PROVE Route(d, f) = "joined"
  BY <1>1, <1>4 DEF AddsJoined, Route, Unkeyed, Repeats, Joins, Clusters, HasCluster
<1>5. ASSUME AddsFounder(d, f) PROVE Route(d, f) = "founded"
  BY <1>1, <1>5 DEF AddsFounder, Route, Unkeyed, Repeats, Joins, Clusters
<1>6. ASSUME AddsAlone(d, f) PROVE Route(d, f) = "founded"
  BY <1>1, <1>6 DEF AddsAlone, Route, Unkeyed, Repeats, Joins, Clusters, HasCluster
<1> QED
  BY <1>2, <1>3, <1>4, <1>5, <1>6

\* Every addition goes one of the five ways.
LEMMA WayOfNew ==
    ASSUME NEW n \in Nat, NEW d \in Store(n), NEW f \in FindingsTo(n + 1)
    PROVE  \/ AddsUnkeyed(d, f) \/ AddsRepeated(d, f) \/ AddsJoined(d, f)
           \/ AddsFounder(d, f) \/ AddsAlone(d, f)
<1>1. /\ f.fingerprint \in Fingerprints \cup {NoFingerprint}
      /\ f.rootCause \in RootCauses \cup {NoRootCause}
  BY DEF FindingsTo
<1> QED
  BY <1>1, WaysOfAdd DEF Store

-----------------------------------------------------------------------------
(* The inductive invariant.                                                *)

\* Types, within what the additions so far can have made.
Stored ==
    /\ count \in 0..MaxAdds
    /\ dedup \in Store(count)
    /\ added \subseteq [finding : FindingsTo(count), route : Routes]

\* Every entry is under its own key, and every head under its fingerprint too.
FiledRight ==
    /\ \A k \in Fingerprints :
          dedup.byFingerprint[k] # NoFinding => dedup.byFingerprint[k].fingerprint = k
    /\ \A r \in RootCauses :
          dedup.byRootCause[r] # NoFinding =>
             /\ dedup.byRootCause[r].rootCause = r
             /\ dedup.byRootCause[r].fingerprint \in Fingerprints
             /\ dedup.byFingerprint[dedup.byRootCause[r].fingerprint] # NoFinding

\* A head covers its members; its own endpoint is among the affected ones as
\* soon as there are two of them, and only then.
ClusterCovers ==
    ClusterByRootCause =>
    \A r \in RootCauses : \A m \in Members(r) :
        /\ dedup.byRootCause[r] # NoFinding
        /\ SeverityRank[dedup.byRootCause[r].severity] >= SeverityRank[m.severity]
        /\ m.evidence \subseteq dedup.byRootCause[r].evidence
        /\ \/ m.endpoint = dedup.byRootCause[r].endpoint
           \/ m.endpoint \in dedup.byRootCause[r].affected
        /\ \A o \in Members(r) :
              o # m => dedup.byRootCause[r].endpoint \in dedup.byRootCause[r].affected

\* A head carries evidence of its root cause only, and its fingerprint is that
\* of a finding with its root cause.
ClusterGrounded ==
    \A r \in RootCauses :
        dedup.byRootCause[r] # NoFinding =>
            /\ \A x \in dedup.byRootCause[r].evidence :
                  \E h \in added : x \in h.finding.evidence /\ h.finding.rootCause = r
            /\ \E g \in added :
                  /\ g.finding.fingerprint = dedup.byRootCause[r].fingerprint
                  /\ g.finding.rootCause = r

\* An entry carries evidence of its fingerprint or of a root cause that goes
\* with its fingerprint.
KeyGrounded ==
    \A k \in Fingerprints :
        dedup.byFingerprint[k] # NoFinding =>
            \A x \in dedup.byFingerprint[k].evidence :
                \E h, g \in added :
                    /\ x \in h.finding.evidence
                    /\ g.finding.fingerprint = k
                    /\ h.finding.fingerprint = k \/ h.finding.rootCause = g.finding.rootCause

\* The findings without fingerprint are kept as they were added.
UnkeyedKept == \A e \in dedup.noKey : \E h \in added : h.finding = e

DedupInv ==
    /\ Stored /\ FiledRight /\ ClusterCovers
    /\ ClusterGrounded /\ KeyGrounded /\ UnkeyedKept

\* An empty deduplicator with nothing added satisfies it.
LEMMA EmptyIsFine ==
    ASSUME count \in 0..MaxAdds, dedup = Empty, added = {}
    PROVE  DedupInv
<1>1. /\ dedup.byFingerprint = [k \in Fingerprints |-> NoFinding]
      /\ dedup.byRootCause = [r \in RootCauses |-> NoFinding]
      /\ dedup.noKey = {}
  BY DEF Empty
<1>2. Stored
  BY DEF Stored, Store, StoreOf, Empty
<1>3. FiledRight /\ ClusterGrounded /\ KeyGrounded /\ UnkeyedKept
  BY <1>1 DEF FiledRight, ClusterGrounded, KeyGrounded, UnkeyedKept
<1>4. ClusterCovers
  BY DEF ClusterCovers, Members
<1> QED
  BY <1>2, <1>3, <1>4 DEF DedupInv

\* What a step that adds f leaves, in the terms of the invariant.
LEMMA AddedOne ==
    ASSUME DedupInv, NEW shape \in Shapes, Add(shape)
    PROVE  \E f \in FindingsTo(count + 1) :
              /\ count \in Nat /\ count' = count + 1 /\ count + 1 <= MaxAdds
              /\ dedup \in Store(count) /\ dedup' = After(dedup, f)
              /\ added' = added \cup {[finding |-> f, route |-> Route(dedup, f)]}
<1> DEFINE f == NewFinding(shape, count + 1)
<1>1. count \in Nat /\ count + 1 \in 1..(count + 1) /\ 1 \in 1..(count + 1)
  BY MaxAddsAssumption DEF DedupInv, Stored
<1>2. f \in FindingsTo(count + 1)
  BY <1>1, ShapesAssumption DEF FindingsTo, NewFinding
<1>3. /\ count' = count + 1 /\ count + 1 <= MaxAdds
      /\ added' = added \cup {[finding |-> f, route |-> Route(dedup, f)]}
      /\ dedup' = After(dedup, f)
  BY <1>1, MaxAddsAssumption DEF Add
<1> QED
  BY <1>1, <1>2, <1>3 DEF DedupInv, Stored

\* The stores stay stores of findings.
LEMMA AddKeepsTypes ==
    ASSUME DedupInv, NEW shape \in Shapes, Add(shape)
    PROVE  Stored'
<1>1. PICK f \in FindingsTo(count + 1) :
         /\ count \in Nat /\ count' = count + 1 /\ count + 1 <= MaxAdds
         /\ dedup \in Store(count) /\ dedup' = After(dedup, f)
         /\ added' = added \cup {[finding |-> f, route |-> Route(dedup, f)]}
  BY AddedOne
<1> DEFINE d == dedup
           Old == FindingsTo(count) \cup {NoFinding}
           New == FindingsTo(count + 1) \cup {NoFinding}
<1>2. FindingsTo(count) \subseteq FindingsTo(count + 1)
  BY <1>1, FindingsGrow
<1>3. /\ d.byFingerprint \in [Fingerprints -> Old] /\ d.byRootCause \in [RootCauses -> Old]
      /\ d.noKey \subseteq FindingsTo(count)
  BY <1>1 DEF Store, StoreOf
<1>4. /\ d.byFingerprint \in [Fingerprints -> New] /\ d.byRootCause \in [RootCauses -> New]
  BY <1>2, <1>3
<1>5. Route(d, f) \in Routes
  BY DEF Route, Routes
<1>6. dedup' = [byFingerprint |-> dedup'.byFingerprint, byRootCause |-> dedup'.byRootCause,
                noKey |-> dedup'.noKey]
  BY <1>1 DEF Store, StoreOf, After
<1>7. /\ dedup'.byFingerprint \in [Fingerprints -> New]
      /\ dedup'.byRootCause \in [RootCauses -> New]
      /\ dedup'.noKey \subseteq FindingsTo(count + 1)
  <2> HIDE DEF d, Old, New
  <2>0. f \in New
    BY DEF New
  <2>1. CASE AddsUnkeyed(d, f)
    BY <1>1, <1>2, <1>3, <1>4, <2>1 DEF AddsUnkeyed, d
  <2>2. CASE AddsRepeated(d, f)
    <3> DEFINE m == MergeTwo(d.byFingerprint[f.fingerprint], f)
    <3>1. /\ d.byFingerprint[f.fingerprint] \in FindingsTo(count + 1)
          /\ d.byFingerprint[f.fingerprint].fingerprint = f.fingerprint
      BY <1>2, <1>3, <2>2 DEF AddsRepeated, DedupInv, FiledRight, d, Old
    <3>2. m \in New
      BY <1>1, <3>1, MergeTwoKeeps DEF New
    <3> HIDE DEF m
    <3> QED
      BY <1>1, <1>2, <1>3, <1>4, <2>2, <3>2 DEF AddsRepeated, Filed, m, d
  <2>3. CASE AddsJoined(d, f)
    <3> DEFINE m == MergeCluster(d.byRootCause[f.rootCause], f)
    <3>1. /\ d.byRootCause[f.rootCause] \in FindingsTo(count)
          /\ d.byRootCause[f.rootCause].rootCause = f.rootCause
      BY <1>3, <2>3 DEF AddsJoined, DedupInv, FiledRight, d, Old
    <3>2. m \in New
      BY <1>1, <3>1, MergeClusterKeeps DEF New
    <3> HIDE DEF m
    <3> QED
      BY <1>1, <1>2, <1>3, <1>4, <2>3, <3>2 DEF AddsJoined, Filed, FiledToo, m, d
  <2>4. CASE AddsFounder(d, f)
    BY <1>1, <1>2, <1>3, <1>4, <2>0, <2>4 DEF AddsFounder, Filed, FiledToo, d
  <2>5. CASE AddsAlone(d, f)
    BY <1>1, <1>2, <1>3, <1>4, <2>0, <2>5 DEF AddsAlone, Filed, d
  <2> QED
    BY <1>1, <2>1, <2>2, <2>3, <2>4, <2>5, WayOfNew DEF d
<1>8. dedup' \in Store(count + 1)
  BY <1>6, <1>7 DEF Store, StoreOf
<1>9. added' \subseteq [finding : FindingsTo(count + 1), route : Routes]
  BY <1>1, <1>2, <1>5 DEF DedupInv, Stored
<1> QED
  BY <1>1, <1>8, <1>9, MaxAddsAssumption DEF Stored

\* The entries stay under their keys, and no slot is emptied.
LEMMA AddKeepsFiling ==
    ASSUME DedupInv, NEW shape \in Shapes, Add(shape)
    PROVE  /\ FiledRight'
           /\ \A k \in Fingerprints :
                 dedup.byFingerprint[k] # NoFinding => dedup'.byFingerprint[k] # NoFinding
           /\ dedup.noKey \subseteq dedup'.noKey
<1>1. PICK f \in FindingsTo(count + 1) :
         /\ count \in Nat /\ count' = count + 1 /\ count + 1 <= MaxAdds
         /\ dedup \in Store(count) /\ dedup' = After(dedup, f)
         /\ added' = added \cup {[finding |-> f, route |-> Route(dedup, f)]}
  BY AddedOne
<1> DEFINE d == dedup
<1>2. /\ \A k \in Fingerprints :
            d.byFingerprint[k] # NoFinding => d.byFingerprint[k].fingerprint = k
      /\ \A r \in RootCauses :
            d.byRootCause[r] # NoFinding =>
               /\ d.byRootCause[r].rootCause = r
               /\ d.byRootCause[r].fingerprint \in Fingerprints
               /\ d.byFingerprint[d.byRootCause[r].fingerprint] # NoFinding
  BY DEF DedupInv, FiledRight
<1>3. DOMAIN d.byFingerprint = Fingerprints /\ DOMAIN d.byRootCause = RootCauses
  BY <1>1, SlotsHoldFindings DEF Store
<1>4. f # NoFinding
  BY <1>1, FindingsAreFound
<1> SUFFICES /\ FiledRight'
             /\ \A k \in Fingerprints :
                   d.byFingerprint[k] # NoFinding => dedup'.byFingerprint[k] # NoFinding
             /\ d.noKey \subseteq dedup'.noKey
  OBVIOUS
<1> HIDE DEF d
<1>5. CASE AddsUnkeyed(d, f)
  BY <1>1, <1>2, <1>5 DEF AddsUnkeyed, FiledRight, d
<1>6. CASE AddsRepeated(d, f)
  <2> DEFINE m == MergeTwo(d.byFingerprint[f.fingerprint], f)
  <2>1. /\ d.byFingerprint[f.fingerprint] \in FindingsTo(count + 1)
        /\ d.byFingerprint[f.fingerprint].fingerprint = f.fingerprint
    BY <1>1, <1>2, <1>6, SlotsHoldFindings, FindingsGrow DEF AddsRepeated, d, Store
  <2>2. m \in FindingsTo(count + 1) /\ m.fingerprint = f.fingerprint
    BY <1>1, <2>1, MergeTwoKeeps
  <2>3. m # NoFinding
    BY <1>1, <2>2, FindingsAreFound
  <2> HIDE DEF m
  <2> QED
    BY <1>1, <1>2, <1>3, <1>6, <2>2, <2>3 DEF AddsRepeated, Filed, FiledRight, m, d
<1>7. CASE AddsJoined(d, f)
  <2> DEFINE head == d.byRootCause[f.rootCause]
             m == MergeCluster(head, f)
  <2>1. head \in FindingsTo(count) /\ head.rootCause = f.rootCause
        /\ head.fingerprint \in Fingerprints
    BY <1>1, <1>2, <1>7, SlotsHoldFindings DEF AddsJoined, d, Store
  <2>2. /\ m \in FindingsTo(count + 1) /\ m.rootCause = f.rootCause
        /\ m.fingerprint \in {head.fingerprint, f.fingerprint}
    BY <1>1, <2>1, MergeClusterKeeps
  <2>3. m # NoFinding
    BY <1>1, <2>2, FindingsAreFound
  <2> HIDE DEF m, head
  <2>4. /\ f.fingerprint \in Fingerprints /\ f.rootCause \in RootCauses
        /\ dedup'.byFingerprint = [d.byFingerprint EXCEPT ![m.fingerprint] = m]
        /\ dedup'.byRootCause = [d.byRootCause EXCEPT ![f.rootCause] = m]
        /\ dedup'.noKey = d.noKey
    BY <1>1, <1>7 DEF AddsJoined, Filed, FiledToo, m, head, d
  <2> QED
    BY <1>2, <1>3, <2>1, <2>2, <2>3, <2>4 DEF FiledRight
<1>8. CASE AddsFounder(d, f)
  <2>1. /\ f.fingerprint \in Fingerprints /\ f.rootCause \in RootCauses
        /\ dedup'.byFingerprint = [d.byFingerprint EXCEPT ![f.fingerprint] = f]
        /\ dedup'.byRootCause = [d.byRootCause EXCEPT ![f.rootCause] = f]
        /\ dedup'.noKey = d.noKey
    BY <1>1, <1>8 DEF AddsFounder, Filed, FiledToo, d
  <2> QED
    BY <1>2, <1>3, <1>4, <2>1 DEF FiledRight
<1>9. CASE AddsAlone(d, f)
  <2>1. /\ f.fingerprint \in Fingerprints
        /\ dedup'.byFingerprint = [d.byFingerprint EXCEPT ![f.fingerprint] = f]
        /\ dedup'.byRootCause = d.byRootCause
        /\ dedup'.noKey = d.noKey
    BY <1>1, <1>9 DEF AddsAlone, Filed, d
  <2> QED
    BY <1>2, <1>3, <1>4, <2>1 DEF FiledRight
<1> QED
  BY <1>1, <1>5, <1>6, <1>7, <1>8, <1>9, WayOfNew DEF d

\* The clusters cover their members, the new one included.
LEMMA AddKeepsClusters ==
    ASSUME DedupInv, NEW shape \in Shapes, Add(shape)
    PROVE  ClusterCovers'
<1>1. PICK f \in FindingsTo(count + 1) :
         /\ count \in Nat /\ count' = count + 1 /\ count + 1 <= MaxAdds
         /\ dedup \in Store(count) /\ dedup' = After(dedup, f)
         /\ added' = added \cup {[finding |-> f, route |-> Route(dedup, f)]}
  BY AddedOne
<1> DEFINE Covers(root, members) ==
      \A m \in members :
        /\ root # NoFinding
        /\ SeverityRank[root.severity] >= SeverityRank[m.severity]
        /\ m.evidence \subseteq root.evidence
        /\ m.endpoint = root.endpoint \/ m.endpoint \in root.affected
        /\ \A o \in members : o # m => root.endpoint \in root.affected
<1> SUFFICES ASSUME ClusterByRootCause, NEW r \in RootCauses
             PROVE  Covers(dedup'.byRootCause[r], Members(r)')
  BY DEF ClusterCovers
<1>2. Covers(dedup.byRootCause[r], Members(r))
  BY DEF DedupInv, ClusterCovers
<1>3. Members(r)' = IF Route(dedup, f) \in {"founded", "joined"} /\ f.rootCause = r
                    THEN Members(r) \cup {f} ELSE Members(r)
  <2> DEFINE new == [finding |-> f, route |-> Route(dedup, f)]
             Counts(x) == x.route \in {"founded", "joined"} /\ x.finding.rootCause = r
  <2>1. new.finding = f /\ (Counts(new) <=> Route(dedup, f) \in {"founded", "joined"}
                                           /\ f.rootCause = r)
    OBVIOUS
  <2>2. /\ Members(r)' = {h.finding : h \in {x \in added' : Counts(x)}}
        /\ Members(r) = {h.finding : h \in {x \in added : Counts(x)}}
    BY DEF Members
  <2>3. added' = added \cup {new}
    BY <1>1
  <2> HIDE DEF new, Counts
  <2>4. CASE Counts(new)
    <3>1. {x \in added' : Counts(x)} = {x \in added : Counts(x)} \cup {new}
      BY <2>3, <2>4
    <3>2. Members(r)' = Members(r) \cup {new.finding}
      BY <2>2, <3>1
    <3> QED
      BY <2>1, <2>4, <3>2
  <2>5. CASE ~ Counts(new)
    <3>1. {x \in added' : Counts(x)} = {x \in added : Counts(x)}
      BY <2>3, <2>5
    <3> QED
      BY <2>1, <2>2, <2>5, <3>1
  <2> QED
    BY <2>4, <2>5
<1>4. f # NoFinding /\ NoRootCause \notin RootCauses
  BY <1>1, FindingsAreFound, NoRootCauseAssumption
<1>5. DOMAIN dedup.byRootCause = RootCauses
  BY <1>1, SlotsHoldFindings DEF Store
<1>6. \A m \in Members(r) : m \in FindingsTo(count)
  BY DEF DedupInv, Stored, Members
<1> HIDE DEF Covers
<1>7. CASE AddsUnkeyed(dedup, f) \/ AddsRepeated(dedup, f) \/ AddsAlone(dedup, f)
  <2>1. dedup'.byRootCause = dedup.byRootCause
    BY <1>1, <1>7 DEF AddsUnkeyed, AddsRepeated, AddsAlone
  <2>2. Members(r)' = Members(r)
    BY <1>3, <1>4, <1>7, RouteOfWay DEF AddsUnkeyed, AddsRepeated, AddsAlone
  <2> QED
    BY <1>2, <2>1, <2>2
<1>8. CASE f.rootCause # r /\ (AddsJoined(dedup, f) \/ AddsFounder(dedup, f))
  <2>1. dedup'.byRootCause[r] = dedup.byRootCause[r]
    BY <1>1, <1>5, <1>8 DEF AddsJoined, AddsFounder, FiledToo
  <2>2. Members(r)' = Members(r)
    BY <1>3, <1>8
  <2> QED
    BY <1>2, <2>1, <2>2
<1>9. CASE f.rootCause = r /\ AddsFounder(dedup, f)
  <2>1. dedup.byRootCause[r] = NoFinding /\ dedup'.byRootCause[r] = f
    BY <1>1, <1>5, <1>9 DEF AddsFounder, FiledToo
  <2>2. Members(r) = {}
    BY <1>2, <2>1 DEF Covers
  <2>3. Members(r)' = {f}
    BY <1>3, <1>9, <2>2, RouteOfWay
  <2>4. SeverityRank[f.severity] \in Nat
    BY <1>1, RanksAreNumbers DEF FindingsTo
  <2> QED
    BY <1>4, <2>1, <2>3, <2>4 DEF Covers
<1>10. CASE f.rootCause = r /\ AddsJoined(dedup, f)
  <2> DEFINE head == dedup.byRootCause[r]
             m == MergeCluster(head, f)
  <2>1. /\ head \in FindingsTo(count) /\ head.rootCause = f.rootCause
        /\ dedup'.byRootCause[r] = m
        /\ Members(r)' = Members(r) \cup {f}
    BY <1>1, <1>3, <1>5, <1>10, RouteOfWay, SlotsHoldFindings
       DEF AddsJoined, FiledToo, DedupInv, FiledRight, Store
  <2>2. /\ m \in FindingsTo(count + 1)
        /\ m.endpoint \in {head.endpoint, f.endpoint}
        /\ m.evidence = head.evidence \cup f.evidence
        /\ m.affected = head.affected \cup {head.endpoint, f.endpoint}
        /\ SeverityRank[m.severity] >= SeverityRank[head.severity]
        /\ SeverityRank[m.severity] >= SeverityRank[f.severity]
    BY <1>1, <2>1, MergeClusterKeeps
  <2>3. m # NoFinding
    BY <1>1, <2>2, FindingsAreFound
  <2> HIDE DEF m
  <2>4. ASSUME NEW o \in Members(r)
        PROVE  SeverityRank[m.severity] >= SeverityRank[o.severity]
    <3>1. /\ SeverityRank[m.severity] \in Nat /\ SeverityRank[head.severity] \in Nat
          /\ SeverityRank[o.severity] \in Nat
      BY <1>6, <2>1, <2>2, RanksAreNumbers DEF FindingsTo
    <3>2. SeverityRank[head.severity] >= SeverityRank[o.severity]
      BY <1>2 DEF Covers
    <3> QED
      BY <2>2, <3>1, <3>2
  <2>5. ASSUME NEW o \in Members(r)
        PROVE  o.evidence \subseteq m.evidence /\ o.endpoint \in m.affected
    BY <1>2, <2>2 DEF Covers
  <2> HIDE DEF head
  <2>6. m.endpoint \in m.affected /\ f.endpoint \in m.affected /\ f.evidence \subseteq m.evidence
    BY <2>2
  <2> QED
    BY <2>1, <2>2, <2>3, <2>4, <2>5, <2>6 DEF Covers
<1> QED
  BY <1>1, <1>7, <1>8, <1>9, <1>10, WayOfNew

\* Evidence goes where its fingerprint or its root cause goes.
LEMMA AddKeepsGrounds ==
    ASSUME DedupInv, NEW shape \in Shapes, Add(shape)
    PROVE  ClusterGrounded' /\ KeyGrounded' /\ UnkeyedKept'
<1>1. PICK f \in FindingsTo(count + 1) :
         /\ count \in Nat /\ count' = count + 1 /\ count + 1 <= MaxAdds
         /\ dedup \in Store(count) /\ dedup' = After(dedup, f)
         /\ added' = added \cup {[finding |-> f, route |-> Route(dedup, f)]}
  BY AddedOne
<1> DEFINE new == [finding |-> f, route |-> Route(dedup, f)]
           OfCluster(e, r, seen) ==
             /\ \A x \in e.evidence :
                   \E h \in seen : x \in h.finding.evidence /\ h.finding.rootCause = r
             /\ \E g \in seen :
                   g.finding.fingerprint = e.fingerprint /\ g.finding.rootCause = r
           OfKey(e, k, seen) ==
             \A x \in e.evidence :
                \E h, g \in seen :
                   /\ x \in h.finding.evidence
                   /\ g.finding.fingerprint = k
                   /\ h.finding.fingerprint = k \/ h.finding.rootCause = g.finding.rootCause
<1>2. new \in added' /\ new.finding = f /\ added \subseteq added'
  BY <1>1
<1>3. /\ \A r \in RootCauses : dedup.byRootCause[r] # NoFinding =>
            /\ OfCluster(dedup.byRootCause[r], r, added)
            /\ dedup.byRootCause[r].rootCause = r
      /\ \A k \in Fingerprints : dedup.byFingerprint[k] # NoFinding =>
            OfKey(dedup.byFingerprint[k], k, added) /\ dedup.byFingerprint[k].fingerprint = k
      /\ \A e \in dedup.noKey : \E h \in added : h.finding = e
  BY DEF DedupInv, ClusterGrounded, KeyGrounded, UnkeyedKept, FiledRight
<1>4. ASSUME NEW e, NEW r PROVE OfCluster(e, r, added) => OfCluster(e, r, added')
  BY <1>2
<1>5. ASSUME NEW e, NEW k PROVE OfKey(e, k, added) => OfKey(e, k, added')
  BY <1>2
<1>6. ASSUME NEW e, NEW r, OfCluster(e, r, added')
      PROVE  OfKey(e, e.fingerprint, added')
  BY <1>6
<1>7. OfCluster(f, f.rootCause, added') /\ OfKey(f, f.fingerprint, added')
  BY <1>2
<1>8. DOMAIN dedup.byFingerprint = Fingerprints /\ DOMAIN dedup.byRootCause = RootCauses
  BY <1>1, SlotsHoldFindings DEF Store
<1> SUFFICES /\ \A r \in RootCauses : dedup'.byRootCause[r] # NoFinding =>
                   OfCluster(dedup'.byRootCause[r], r, added')
             /\ \A k \in Fingerprints : dedup'.byFingerprint[k] # NoFinding =>
                   OfKey(dedup'.byFingerprint[k], k, added')
             /\ \A e \in dedup'.noKey : \E h \in added' : h.finding = e
  BY DEF ClusterGrounded, KeyGrounded, UnkeyedKept
<1>9. ASSUME dedup'.noKey = dedup.noKey
      PROVE  \A e \in dedup'.noKey : \E h \in added' : h.finding = e
  BY <1>2, <1>3, <1>9
<1>10. CASE AddsUnkeyed(dedup, f)
  <2>1. /\ dedup'.byFingerprint = dedup.byFingerprint /\ dedup'.byRootCause = dedup.byRootCause
        /\ dedup'.noKey = dedup.noKey \cup {f}
    BY <1>1, <1>10 DEF AddsUnkeyed
  <2>2. \A e \in dedup'.noKey : \E h \in added' : h.finding = e
    BY <1>2, <1>3, <2>1
  <2> HIDE DEF OfCluster, OfKey
  <2> QED
    BY <1>3, <1>4, <1>5, <2>1, <2>2
<1>11. CASE AddsRepeated(dedup, f)
  <2> DEFINE old == dedup.byFingerprint[f.fingerprint]
             m == MergeTwo(old, f)
  <2>1. old \in FindingsTo(count + 1) /\ old.fingerprint = f.fingerprint /\ old # NoFinding
    BY <1>1, <1>3, <1>11, SlotsHoldFindings, FindingsGrow DEF AddsRepeated, Store
  <2>2. m.evidence = old.evidence \cup f.evidence
    BY <1>1, <2>1, MergeTwoKeeps
  <2>3. /\ f.fingerprint \in Fingerprints
        /\ dedup'.byFingerprint = [dedup.byFingerprint EXCEPT ![f.fingerprint] = m]
        /\ dedup'.byRootCause = dedup.byRootCause
        /\ dedup'.noKey = dedup.noKey
    BY <1>1, <1>11 DEF AddsRepeated, Filed
  <2>4. OfKey(old, f.fingerprint, added')
    <3> HIDE DEF OfKey, OfCluster
    <3> QED
      BY <1>3, <1>5, <2>1, <2>3
  <2> HIDE DEF m, old
  <2>5. OfKey(m, f.fingerprint, added')
    BY <1>7, <2>2, <2>4
  <2> HIDE DEF OfCluster, OfKey
  <2> QED
    BY <1>3, <1>4, <1>5, <1>8, <1>9, <2>3, <2>5
<1>12. CASE AddsJoined(dedup, f)
  <2> DEFINE head == dedup.byRootCause[f.rootCause]
             m == MergeCluster(head, f)
             r == f.rootCause
  <2>1. head \in FindingsTo(count) /\ head.rootCause = r /\ head # NoFinding
    BY <1>1, <1>3, <1>12, SlotsHoldFindings DEF AddsJoined, Store
  <2>2. /\ m.evidence = head.evidence \cup f.evidence
        /\ m.fingerprint \in {head.fingerprint, f.fingerprint}
    BY <1>1, <2>1, MergeClusterKeeps
  <2>3. /\ r \in RootCauses
        /\ dedup'.byFingerprint = [dedup.byFingerprint EXCEPT ![m.fingerprint] = m]
        /\ dedup'.byRootCause = [dedup.byRootCause EXCEPT ![r] = m]
        /\ dedup'.noKey = dedup.noKey
    BY <1>1, <1>12 DEF AddsJoined, Filed, FiledToo
  <2>4. OfCluster(head, r, added')
    <3> HIDE DEF OfKey, OfCluster
    <3> QED
      BY <1>3, <1>4, <2>1, <2>3
  <2> HIDE DEF m, head
  <2>5. OfCluster(m, r, added')
    BY <1>7, <2>2, <2>4
  <2>6. OfKey(m, m.fingerprint, added')
    BY <1>6, <2>5
  <2> HIDE DEF OfCluster, OfKey, r
  <2> QED
    BY <1>3, <1>4, <1>5, <1>8, <1>9, <2>3, <2>5, <2>6
<1>13. CASE AddsFounder(dedup, f)
  <2>1. /\ f.fingerprint \in Fingerprints /\ f.rootCause \in RootCauses
        /\ dedup'.byFingerprint = [dedup.byFingerprint EXCEPT ![f.fingerprint] = f]
        /\ dedup'.byRootCause = [dedup.byRootCause EXCEPT ![f.rootCause] = f]
        /\ dedup'.noKey = dedup.noKey
    BY <1>1, <1>13 DEF AddsFounder, Filed, FiledToo
  <2> HIDE DEF OfCluster, OfKey
  <2> QED
    BY <1>3, <1>4, <1>5, <1>7, <1>8, <1>9, <2>1
<1>14. CASE AddsAlone(dedup, f)
  <2>1. /\ f.fingerprint \in Fingerprints
        /\ dedup'.byFingerprint = [dedup.byFingerprint EXCEPT ![f.fingerprint] = f]
        /\ dedup'.byRootCause = dedup.byRootCause
        /\ dedup'.noKey = dedup.noKey
    BY <1>1, <1>14 DEF AddsAlone, Filed
  <2> HIDE DEF OfCluster, OfKey
  <2> QED
    BY <1>3, <1>4, <1>5, <1>7, <1>8, <1>9, <2>1
<1> HIDE DEF OfCluster, OfKey
<1> QED
  BY <1>1, <1>10, <1>11, <1>12, <1>13, <1>14, WayOfNew

\* Every step keeps the invariant.
LEMMA DedupStep ==
    ASSUME DedupInv, [Next]_vars
    PROVE  DedupInv'
<1>1. CASE Clear
  <2>1. count' \in 0..MaxAdds /\ dedup' = Empty /\ added' = {}
    BY <1>1 DEF Clear, Cleared, DedupInv, Stored
  <2>2. /\ dedup'.byFingerprint = [k \in Fingerprints |-> NoFinding]
        /\ dedup'.byRootCause = [r \in RootCauses |-> NoFinding]
        /\ dedup'.noKey = {}
    BY <2>1 DEF Empty
  <2>3. Stored' /\ ClusterCovers'
    BY <2>1 DEF Stored, Store, StoreOf, Empty, ClusterCovers, Members
  <2>4. FiledRight' /\ ClusterGrounded' /\ KeyGrounded' /\ UnkeyedKept'
    BY <2>2 DEF FiledRight, ClusterGrounded, KeyGrounded, UnkeyedKept
  <2> QED
    BY <2>3, <2>4 DEF DedupInv
<1>2. ASSUME NEW shape \in Shapes, Add(shape)
      PROVE  DedupInv'
  BY <1>2, AddKeepsTypes, AddKeepsFiling, AddKeepsClusters, AddKeepsGrounds DEF DedupInv
<1>3. CASE UNCHANGED vars
  <2>1. dedup' = dedup /\ count' = count /\ added' = added
    BY <1>3 DEF vars
  <2>2. Stored' /\ FiledRight'
    BY <2>1 DEF DedupInv, Stored, FiledRight
  <2>3. ClusterCovers'
    BY <2>1 DEF DedupInv, ClusterCovers, Members
  <2>4. ClusterGrounded' /\ KeyGrounded' /\ UnkeyedKept'
    BY <2>1 DEF DedupInv, ClusterGrounded, KeyGrounded, UnkeyedKept
  <2> QED
    BY <2>2, <2>3, <2>4 DEF DedupInv
<1> QED
  BY <1>1, <1>2, <1>3 DEF Next

\* The invariant holds in every reachable state.
THEOREM DedupInvariant == Spec => []DedupInv
<1>1. Init => DedupInv
  BY EmptyIsFine, MaxAddsAssumption DEF Init
<1>2. DedupInv /\ [Next]_vars => DedupInv'
  BY DedupStep
<1> QED
  BY <1>1, <1>2, PTL DEF Spec

-----------------------------------------------------------------------------
(* The theorems.                                                           *)

\* Type correctness, also of what the merges make.
THEOREM DedupTypes == Spec => []TypeOK
<1>1. DedupInv => TypeOK
  <2> SUFFICES ASSUME DedupInv PROVE TypeOK
    OBVIOUS
  <2>1. count \in Nat /\ count <= MaxAdds /\ count \in 0..MaxAdds
    BY MaxAddsAssumption DEF DedupInv, Stored
  <2>2. FindingsTo(count) \subseteq Findings
    BY <2>1, MaxAddsAssumption DEF FindingsTo, Findings
  <2> QED
    BY <2>1, <2>2 DEF TypeOK, DedupInv, Stored, Store, StoreOf
<1> QED
  BY <1>1, DedupInvariant, PTL

\* The two indexes agree after every sequence of additions (deduplicator.py 46-71).
THEOREM IndexesStayInAgreement == Spec => []IndexesAgree
<1>1. DedupInv => IndexesAgree
  BY DEF DedupInv, FiledRight, IndexesAgree
<1> QED
  BY <1>1, DedupInvariant, PTL

\* A cluster covers the findings that founded or joined it (deduplicator.py 8-13).
THEOREM ClustersAreSound == Spec => []ClusterSound
<1>1. DedupInv => ClusterSound
  <2> SUFFICES ASSUME DedupInv, ClusterByRootCause, NEW r \in RootCauses, NEW m \in Members(r),
                      Cardinality(Members(r)) > 1
               PROVE  m.endpoint \in dedup.byRootCause[r].affected
    BY DEF DedupInv, ClusterCovers, ClusterSound
  <2>1. \E o \in Members(r) : o # m
    <3>1. SUFFICES ASSUME \A o \in Members(r) : o = m PROVE FALSE
      OBVIOUS
    <3>2. Members(r) = {m}
      BY <3>1
    <3> QED
      BY <3>2, FS_Singleton
  <2> QED
    BY <2>1 DEF DedupInv, ClusterCovers
<1> QED
  BY <1>1, DedupInvariant, PTL

\* No evidence strays to an entry it has nothing to do with (deduplicator.py
\* 84-98, 104 and 116).
THEOREM EvidenceBelongs == Spec => []NoForeignEvidence
<1>1. DedupInv => NoForeignEvidence
  <2> SUFFICES ASSUME DedupInv, NEW e \in All(dedup), NEW x \in e.evidence
               PROVE  \E h \in added :
                         /\ x \in h.finding.evidence
                         /\ \/ h.finding = e
                            \/ /\ ~ Unkeyed(e)
                               /\ \E g \in added :
                                     /\ g.finding.fingerprint = e.fingerprint
                                     /\ h.finding.fingerprint = e.fingerprint
                                           \/ h.finding.rootCause = g.finding.rootCause
    BY DEF NoForeignEvidence
  <2>1. CASE e \in dedup.noKey
    BY <2>1 DEF DedupInv, UnkeyedKept
  <2>2. ASSUME NEW k \in Fingerprints, e = dedup.byFingerprint[k], e # NoFinding
        PROVE  \E h, g \in added :
                  /\ x \in h.finding.evidence /\ ~ Unkeyed(e)
                  /\ g.finding.fingerprint = e.fingerprint
                  /\ h.finding.fingerprint = e.fingerprint
                        \/ h.finding.rootCause = g.finding.rootCause
    <3>1. e.fingerprint = k /\ ~ Unkeyed(e)
      BY <2>2, NoFingerprintAssumption DEF DedupInv, FiledRight, Unkeyed
    <3> QED
      BY <2>2, <3>1 DEF DedupInv, KeyGrounded
  <2> QED
    BY <2>1, <2>2 DEF All
<1> QED
  BY <1>1, DedupInvariant, PTL

\* No addition removes a key that was there (deduplicator.py 73-82).
THEOREM KeysAreKept == Spec => KeysOnlyGrow
<1> DEFINE Kept ==
      count' > count =>
         /\ {e.fingerprint : e \in All(dedup)} \subseteq {e.fingerprint : e \in All(dedup')}
         /\ dedup.noKey \subseteq dedup'.noKey
<1>1. DedupInv /\ [Next]_vars => [Kept]_vars
  <2> SUFFICES ASSUME DedupInv, [Next]_vars, count' > count PROVE Kept
    OBVIOUS
  <2>1. PICK shape \in Shapes : Add(shape)
    <3>1. count \in Nat
      BY MaxAddsAssumption DEF DedupInv, Stored
    <3> QED
      BY <3>1 DEF Next, Clear, vars
  <2>2. /\ FiledRight' /\ FiledRight
        /\ \A k \in Fingerprints :
              dedup.byFingerprint[k] # NoFinding => dedup'.byFingerprint[k] # NoFinding
        /\ dedup.noKey \subseteq dedup'.noKey
    BY <2>1, AddKeepsFiling DEF DedupInv
  <2>3. ASSUME NEW e \in All(dedup)
        PROVE  \E n \in All(dedup') : n.fingerprint = e.fingerprint
    <3>1. CASE e \in dedup.noKey
      BY <2>2, <3>1 DEF All
    <3>2. ASSUME NEW k \in Fingerprints, e = dedup.byFingerprint[k], e # NoFinding
          PROVE  \E n \in All(dedup') : n.fingerprint = e.fingerprint
      BY <2>2, <3>2 DEF All, FiledRight
    <3> QED
      BY <3>1, <3>2 DEF All
  <2> QED
    BY <2>2, <2>3
<1> QED
  BY <1>1, DedupInvariant, PTL DEF Spec, KeysOnlyGrow
=============================================================================
