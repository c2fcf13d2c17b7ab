---------------------------- MODULE DedupSession ----------------------------
(***************************************************************************)
(* A deduplicator in use: findings are added one by one, each with an id   *)
(* and an evidence id of its own, and the deduplicator may be cleared.     *)
(***************************************************************************)
EXTENDS Dedup

CONSTANTS
    Shapes,     \* what checks produce: [fingerprint, rootCause, severity,
                \* confidence, endpoint]
    MaxAdds     \* bound on the number of findings added

ASSUME ShapesAssumption ==
    Shapes \subseteq
        [fingerprint : Fingerprints \cup {NoFingerprint},
         rootCause : RootCauses \cup {NoRootCause},
         severity : Severities, confidence : Confidences, endpoint : Endpoints]

ASSUME MaxAddsAssumption == MaxAdds \in Nat

VARIABLES
    dedup,      \* the deduplicator
    count,      \* how many findings were ever added: the last id
    added       \* history: what was added since the last clear, with the
                \* route it took

vars == <<dedup, count, added>>

Routes == {"unkeyed", "repeated", "joined", "founded"}

Init ==
    /\ dedup = Empty
    /\ count = 0
    /\ added = {}

\* A finding as a check builds it: evidence of its own, no cluster yet.
NewFinding(shape, n) ==
    [id |-> n, fingerprint |-> shape.fingerprint, rootCause |-> shape.rootCause,
     severity |-> shape.severity, confidence |-> shape.confidence,
     endpoint |-> shape.endpoint, evidence |-> {n}, size |-> 1, affected |-> {}]

Route(d, f) ==
    CASE Unkeyed(f)    -> "unkeyed"
      [] Repeats(d, f) -> "repeated"
      [] Joins(d, f)   -> "joined"
      [] OTHER         -> "founded"

Add(shape) ==
    LET f == NewFinding(shape, count + 1)
    IN  /\ count < MaxAdds
        /\ count' = count + 1
        /\ added' = added \cup {[finding |-> f, route |-> Route(dedup, f)]}
        /\ dedup' = After(dedup, f)

Clear ==
    /\ added # {}
    /\ dedup' = Cleared(dedup)
    /\ added' = {}
    /\ UNCHANGED count

Next == Clear \/ \E shape \in Shapes : Add(shape)

Spec == Init /\ [][Next]_vars

-----------------------------------------------------------------------------
(* Properties.                                                             *)

Findings ==
    [id : 1..MaxAdds,
     fingerprint : Fingerprints \cup {NoFingerprint},
     rootCause : RootCauses \cup {NoRootCause},
     severity : Severities, confidence : Confidences, endpoint : Endpoints,
     evidence : SUBSET (1..MaxAdds), size : 1..MaxAdds, affected : SUBSET Endpoints]

\* Types.
TypeOK ==
    /\ dedup \in [byFingerprint : [Fingerprints -> Findings \cup {NoFinding}],
                  byRootCause : [RootCauses -> Findings \cup {NoFinding}],
                  noKey : SUBSET Findings]
    /\ count \in 0..MaxAdds
    /\ added \subseteq [finding : Findings, route : Routes]

\* Each index files an entry under its own key, and the head of a cluster
\* always has an entry under its fingerprint, also after the head changed and
\* after merges by fingerprint that the root-cause index does not see
\* (deduplicator.py 46-71).
IndexesAgree ==
    /\ \A k \in Fingerprints :
          dedup.byFingerprint[k] # NoFinding => dedup.byFingerprint[k].fingerprint = k
    /\ \A r \in RootCauses :
          dedup.byRootCause[r] # NoFinding =>
             /\ dedup.byRootCause[r].rootCause = r
             /\ dedup.byFingerprint[dedup.byRootCause[r].fingerprint] # NoFinding

\* The members of a cluster: who founded it and who joined it.
Members(r) ==
    {h.finding : h \in {x \in added : x.route \in {"founded", "joined"}
                                        /\ x.finding.rootCause = r}}

\* For the findings that founded or joined it, the root-cause index keeps
\* what the module promises (deduplicator.py 8-13): a head at least as severe
\* as every member, the evidence of all, and the endpoint of each once there
\* are two of them.
ClusterSound ==
    ClusterByRootCause =>
    \A r \in RootCauses : \A m \in Members(r) :
        LET head == dedup.byRootCause[r]
        IN  /\ head # NoFinding
            /\ SeverityRank[head.severity] >= SeverityRank[m.severity]
            /\ m.evidence \subseteq head.evidence
            /\ Cardinality(Members(r)) > 1 => m.endpoint \in head.affected

\* No evidence strays: an entry of all() only carries its own evidence and
\* that of findings added since the last clear() with its fingerprint or with
\* the root cause of one that has its fingerprint (deduplicator.py 84-98, 104
\* and 116).
NoForeignEvidence ==
    \A e \in All(dedup) : \A x \in e.evidence :
        \E h \in added :
            /\ x \in h.finding.evidence
            /\ \/ h.finding = e
               \/ /\ ~ Unkeyed(e)
                  /\ \E g \in added :
                        /\ g.finding.fingerprint = e.fingerprint
                        /\ h.finding.fingerprint = e.fingerprint
                              \/ h.finding.rootCause = g.finding.rootCause

\* Adding a finding never removes a key that all() reports: the fingerprints
\* present stay present until clear() (deduplicator.py 73-82).
KeysOnlyGrow ==
    [][count' > count =>
         /\ {e.fingerprint : e \in All(dedup)} \subseteq {e.fingerprint : e \in All(dedup')}
         /\ dedup.noKey \subseteq dedup'.noKey]_vars

\* The documented cluster: it "accumulates evidence_ids from all merged
\* findings" (deduplicator.py 11), so no evidence is lost.
EvidenceAccumulated ==
    \A h \in added : \E e \in All(dedup) : h.finding.evidence \subseteq e.evidence

\* The documented merge of one endpoint: "keep the higher-severity one as the
\* head" (deduplicator.py 105), so that the entry of a fingerprint is as
\* severe as each finding that founded it or repeated it.
HigherSeverityKept ==
    \A h \in added :
        h.route \in {"founded", "repeated"} =>
            SeverityRank[dedup.byFingerprint[h.finding.fingerprint].severity]
                >= SeverityRank[h.finding.severity]

\* The documented size: "cluster_size is the number of merged findings"
\* (finding.py 71-73), for those that founded or joined the cluster.
ClusterSizeCounts ==
    \A r \in RootCauses :
        Members(r) # {} => dedup.byRootCause[r].size = Cardinality(Members(r))

\* The documented report: findings that share a root cause "are clustered
\* into one report-level finding" (finding.py 62-64, session_cookie.py 724).
OneFindingPerRootCause ==
    \A e1, e2 \in All(dedup) :
        e1.rootCause # NoRootCause /\ e1.rootCause = e2.rootCause => e1 = e2
=============================================================================
