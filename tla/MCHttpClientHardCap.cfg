\* Two concurrent callers, one connection, a budget of two.
SPECIFICATION WireSpec
CONSTANTS
    Senders = {s1, s2}
    Capacity = 1
    Unit = 2
    Leak = 2
    MaxRequests = 2
    MaxRedirects = 0
    FollowRedirects = TRUE
    NoHost = NoHost
    InHost = InHost
    OutHost = OutHost
    Home = Home
    Wipe = Wipe
    Off = Off
    Urls <- MCUrls
    Methods <- MCMethods
    AllowedHosts <- MCAllowedHosts
    AllowedPaths <- MCAllowedPaths
    ExcludedPaths <- MCExcludedPaths
    DestructivePaths <- MCDestructivePaths
INVARIANT HardCap
