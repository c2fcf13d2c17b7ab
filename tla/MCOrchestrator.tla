--------------------------- MODULE MCOrchestrator ---------------------------
(* Small instance of Orchestrator: two checks.  The first one finds two    *)
(* endpoints of one root cause, the second the first endpoint again, judged *)
(* differently, and something without a fingerprint.                       *)
EXTENDS Orchestrator, TLC

CONSTANTS x1, x2, y1, y2, pre, k1, k2, r1, e1, e2

Seen(k, r, s, e) == [fingerprint |-> k, rootCause |-> r, severity |-> s, endpoint |-> e]

MCCandidates == 1 :> {x1, x2} @@ 2 :> {y1, y2}

MCProfile ==
    x1 :> Seen(k1, r1, "high", e1) @@ x2 :> Seen(k2, r1, "critical", e2)
    @@ y1 :> Seen(k1, r1, "medium", e1)
    @@ y2 :> Seen(NoFingerprint, NoRootCause, "low", e2)

\* One candidate has several items, one has none.
MCItems ==
    x1 :> {<<x1, 1>>, <<x1, 2>>} @@ x2 :> {<<x2, 1>>} @@ y1 :> {<<y1, 1>>} @@ y2 :> {}

\* One hook may name an id of its own that is in no store.
MCClaims == x1 :> {} @@ x2 :> {} @@ y1 :> {<<y1, 0>>} @@ y2 :> {}

MCPrepopulated ==
    {[id |-> pre, fingerprint |-> NoFingerprint, rootCause |-> NoRootCause,
      severity |-> "low", confidence |-> "low", endpoint |-> e1, evidence |-> {},
      size |-> 1, affected |-> {}, status |-> "LIKELY"]}
=============================================================================
