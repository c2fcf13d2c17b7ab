\* Severities of one fingerprint are compared as text.
\* The additions are bounded: a session may stop.
SPECIFICATION Spec
CONSTANTS
    k1 = k1
    k2 = k2
    k3 = k3
    k4 = k4
    r1 = r1
    r2 = r2
    e1 = e1
    e2 = e2
    e3 = e3
    NoFingerprint = NoFingerprint
    NoRootCause = NoRootCause
    Fingerprints = {k1, k2, k3, k4}
    RootCauses = {r1, r2}
    Endpoints = {e1, e2, e3}
    ClusterByRootCause = TRUE
    Shapes <- MCShapes
    MaxAdds = 5
INVARIANT
    HigherSeverityKept
CHECK_DEADLOCK FALSE
