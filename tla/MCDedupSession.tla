--------------------------- MODULE MCDedupSession ---------------------------
(* Small instance of DedupSession: three endpoints of one root cause, a    *)
(* second root cause, and findings without fingerprint or root cause.      *)
EXTENDS DedupSession, TLC

CONSTANTS k1, k2, k3, k4, r1, r2, e1, e2, e3

Shape(k, r, s, c, e) ==
    [fingerprint |-> k, rootCause |-> r, severity |-> s, confidence |-> c, endpoint |-> e]

\* The second finding of k1 is judged differently from the first one.
MCShapes ==
    {Shape(k1, r1, "medium", "medium", e1), Shape(k1, r1, "high", "medium", e1),
     Shape(k2, r1, "high", "high", e2), Shape(k3, r1, "low", "low", e3),
     Shape(k4, r2, "info", "low", e1), Shape(k3, r2, "medium", "low", e3),
     Shape(k4, NoRootCause, "critical", "confirmed", e2),
     Shape(NoFingerprint, r1, "low", "medium", e2)}

\* Findings as checks/session_cookie.py builds them: a root cause and no
\* fingerprint.
MCSessionCookieShapes ==
    {Shape(NoFingerprint, r1, "medium", "medium", e1),
     Shape(NoFingerprint, r1, "medium", "medium", e2)}
=============================================================================
