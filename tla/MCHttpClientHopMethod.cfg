\* One caller that follows a redirect.
SPECIFICATION WireSpec
CONSTANTS
    Senders = {s1}
    Capacity = 1
    Unit = 2
    Leak = 2
    MaxRequests = 2
    MaxRedirects = 1
    FollowRedirects = TRUE
    NoHost = NoHost
    InHost = InHost
    OutHost = OutHost
    Home = Home
    Wipe = Wipe
    Off = Off
    Urls <- MCUrls
    Methods <- MCMethods
    AllowedHosts <- MCAllowedHosts
    AllowedPaths <- MCAllowedPaths
    ExcludedPaths <- MCExcludedPaths
    DestructivePaths <- MCDestructivePaths
INVARIANT HopMethodInScope
