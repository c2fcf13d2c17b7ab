------------------------------- MODULE Dedup -------------------------------
(***************************************************************************)
(* findings/deduplicator.py: findings merged by fingerprint (one endpoint) *)
(* and clustered by root cause (many endpoints).  The deduplicator is a    *)
(* value d with the two indexes of the code and the findings that have no  *)
(* fingerprint; Merged and After are what add() returns and leaves behind. *)
(*                                                                         *)
(* Of a finding only what the merges read or write is kept.  Evidence ids  *)
(* and affected endpoints are sets: no reader depends on their order.      *)
(***************************************************************************)
EXTENDS Integers, FiniteSets

CONSTANTS
    Fingerprints, NoFingerprint,
    RootCauses, NoRootCause,
    Endpoints,
    ClusterByRootCause     \* the constructor's cluster_by_root_cause

ASSUME NoFingerprintAssumption == NoFingerprint \notin Fingerprints
ASSUME NoRootCauseAssumption == NoRootCause \notin RootCauses
ASSUME ClusterAssumption == ClusterByRootCause \in BOOLEAN

Severities == {"info", "low", "medium", "high", "critical"}
Confidences == {"tentative", "low", "medium", "high", "confirmed"}

\* deduplicator.py 143 and 149: the numeric ranks.
SeverityRank == [info |-> 0, low |-> 1, medium |-> 2, high |-> 3, critical |-> 4]
ConfidenceRank == [tentative |-> 0, low |-> 1, medium |-> 2, high |-> 3, confirmed |-> 4]

\* The place of a severity's value in the order of Python strings.
SeverityText == [critical |-> 0, high |-> 1, info |-> 2, low |-> 3, medium |-> 4]

NoFinding == [id |-> 0]

-----------------------------------------------------------------------------
(* The merges.                                                             *)

\* _merge_two compares severity.value, which is a string.
MergeTwo(a, b) ==
    LET head == IF SeverityText[a.severity] >= SeverityText[b.severity] THEN a ELSE b
    IN  [head EXCEPT !.evidence = a.evidence \cup b.evidence]

\* Faulty variant: only the severity of the two is compared, the wrong way.
OutranksInverted(new, head) ==
    SeverityRank[new.severity] < SeverityRank[head.severity]

\* The new member takes over a cluster when it is more severe, or as severe
\* and more certain.
Outranks(new, head) ==
    \/ SeverityRank[new.severity] > SeverityRank[head.severity]
    \/ /\ SeverityRank[new.severity] = SeverityRank[head.severity]
       /\ ConfidenceRank[new.confidence] > ConfidenceRank[head.confidence]

\* Faulty variant: the members are counted from zero when the head changes.
MergeClusterUncounted(head, new) ==
    LET chosen == IF Outranks(new, head) THEN new ELSE head
    IN  [chosen EXCEPT
            !.evidence = head.evidence \cup new.evidence,
            !.size = IF Outranks(new, head) THEN 0 ELSE head.size + 1,
            !.affected = head.affected \cup {head.endpoint, new.endpoint}]

\* _merge_cluster: the size starts again from one when the head changes.
MergeCluster(head, new) ==
    LET chosen == IF Outranks(new, head) THEN new ELSE head
        before == IF Outranks(new, head) THEN 1 ELSE head.size
    IN  [chosen EXCEPT
            !.evidence = head.evidence \cup new.evidence,
            !.size = before + 1,
            !.affected = head.affected \cup {head.endpoint, new.endpoint}]

-----------------------------------------------------------------------------
(* add(), all() and clear().                                               *)

Empty == [byFingerprint |-> [k \in Fingerprints |-> NoFinding],
          byRootCause |-> [r \in RootCauses |-> NoFinding],
          noKey |-> {}]

Unkeyed(f) == f.fingerprint = NoFingerprint

Repeats(d, f) ==
    ~ Unkeyed(f) /\ d.byFingerprint[f.fingerprint] # NoFinding

HasCluster(f) == ClusterByRootCause /\ f.rootCause # NoRootCause

\* The finding is filed under its root cause: it joins the cluster that is
\* there, or founds one.
Clusters(d, f) == ~ Unkeyed(f) /\ ~ Repeats(d, f) /\ HasCluster(f)
Joins(d, f) == Clusters(d, f) /\ d.byRootCause[f.rootCause] # NoFinding

\* What add(f) returns.
Merged(d, f) ==
    CASE Repeats(d, f) -> MergeTwo(d.byFingerprint[f.fingerprint], f)
      [] Joins(d, f)   -> MergeCluster(d.byRootCause[f.rootCause], f)
      [] OTHER         -> f

\* Faulty variant: a cluster is indexed under the fingerprint of the newcomer.
AfterMisfiled(d, f) ==
    LET m == Merged(d, f)
    IN  CASE Unkeyed(f)    -> [d EXCEPT !.noKey = @ \cup {f}]
          [] Repeats(d, f) -> [d EXCEPT !.byFingerprint[f.fingerprint] = m]
          [] Clusters(d, f) -> [d EXCEPT !.byFingerprint[f.fingerprint] = m,
                                        !.byRootCause[f.rootCause] = m]
          [] OTHER         -> [d EXCEPT !.byFingerprint[f.fingerprint] = f]

\* Faulty variant: the findings without fingerprint share one slot.
AfterOneUnkeyed(d, f) ==
    LET m == Merged(d, f)
    IN  CASE Unkeyed(f)    -> [d EXCEPT !.noKey = {f}]
          [] Repeats(d, f) -> [d EXCEPT !.byFingerprint[f.fingerprint] = m]
          [] Clusters(d, f) -> [d EXCEPT !.byFingerprint[m.fingerprint] = m,
                                         !.byRootCause[f.rootCause] = m]
          [] OTHER         -> [d EXCEPT !.byFingerprint[f.fingerprint] = f]

\* A merge by fingerprint leaves the root-cause index alone; a cluster is
\* indexed under the fingerprint of its head, and one that is founded has
\* the newcomer for its head.
After(d, f) ==
    LET m == Merged(d, f)
    IN  CASE Unkeyed(f)    -> [d EXCEPT !.noKey = @ \cup {f}]
          [] Repeats(d, f) -> [d EXCEPT !.byFingerprint[f.fingerprint] = m]
          [] Clusters(d, f) -> [d EXCEPT !.byFingerprint[m.fingerprint] = m,
                                         !.byRootCause[f.rootCause] = m]
          [] OTHER         -> [d EXCEPT !.byFingerprint[f.fingerprint] = f]

\* Faulty variant: clear() leaves the clusters behind.
ClearedKeepsClusters(d) == [Empty EXCEPT !.byRootCause = d.byRootCause]

\* clear(): all three stores are emptied.
Cleared(d) == Empty

\* all(): ids are unique, each entry is there once.
All(d) ==
    ({d.byFingerprint[k] : k \in Fingerprints} \cup d.noKey) \ {NoFinding}
=============================================================================
