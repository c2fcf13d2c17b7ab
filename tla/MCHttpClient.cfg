\* Three concurrent callers, one connection, a budget of three; the target drains
\* two hops in the time of a token.
SPECIFICATION FairWireSpec
CONSTANTS
    Senders = {s1, s2, s3}
    Capacity = 1
    Unit = 2
    Leak = 2
    MaxRequests = 3
    MaxRedirects = 1
    FollowRedirects = TRUE
    NoHost = NoHost
    InHost = InHost
    OutHost = OutHost
    Home = Home
    Wipe = Wipe
    Off = Off
    Urls <- MCHarmlessUrls
    Methods <- MCMethods
    AllowedHosts <- MCAllowedHosts
    AllowedPaths <- MCAllowedPaths
    ExcludedPaths <- MCExcludedPaths
    DestructivePaths <- MCDestructivePaths
INVARIANTS
    TypeOK
    BoundedOvershoot
    PermitsConserved
    WireInScope
PROPERTIES
    EveryCallEnds
    WireRateKept
