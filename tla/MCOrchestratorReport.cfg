\* Two findings of one fingerprint, no disturbance.
SPECIFICATION FairSpec
CONSTANTS
    x1 = x1
    x2 = x2
    y1 = y1
    y2 = y2
    pre = pre
    k1 = k1
    k2 = k2
    r1 = r1
    e1 = e1
    e2 = e2
    NoFingerprint = NoFingerprint
    NoRootCause = NoRootCause
    Fingerprints = {k1, k2}
    RootCauses = {r1}
    Endpoints = {e1, e2}
    ClusterByRootCause = TRUE
    NumChecks = 2
    Candidates <- MCCandidates
    Profile <- MCProfile
    Outlooks = {"medium"}
    Items <- MCItems
    Claims <- MCClaims
    Prepopulated <- MCPrepopulated
    MaxRaises = 0
    Cancellable = FALSE
INVARIANT
    ReportIsDeduplicated
