\* Two concurrent callers, one connection, one redirect; the target drains at the
\* rate of the bucket.
SPECIFICATION WireSpec
CONSTANTS
    Senders = {s1, s2}
    Capacity = 1
    Unit = 2
    Leak = 1
    MaxRequests = 2
    MaxRedirects = 1
    FollowRedirects = TRUE
    NoHost = NoHost
    InHost = InHost
    OutHost = OutHost
    Home = Home
    Wipe = Wipe
    Off = Off
    Urls <- MCUrls
    Methods <- MCMethods
    AllowedHosts <- MCAllowedHosts
    AllowedPaths <- MCAllowedPaths
    ExcludedPaths <- MCExcludedPaths
    DestructivePaths <- MCDestructivePaths
INVARIANT DocumentedRate
