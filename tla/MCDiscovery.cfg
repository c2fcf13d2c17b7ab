\* Two sites of up to six reachable pages, four settings (no cap and a cap of
\* two or four pages, depth two or three, a negative depth), four robots
\* files, two probed hosts.
SPECIFICATION FairSpec
CONSTANTS
    home = home
    a = a
    b = b
    deep = deep
    rob = rob
    api = api
    ext = ext
    rob2 = rob2
    root = root
    sub = sub
    other = other
    www = www
    NoUrl = NoUrl
    Urls <- MCUrls
    Host <- MCHost
    RobotsOf <- MCRobotsOf
    RobotsFiles <- MCRobotsFiles
    Starts = {home, NoUrl}
    Settings <- MCSettings
    Webs <- MCWebs
    Redirects <- MCRedirects
    Subdomains = {root, sub, www}
    Common = {sub, www}
    InScope = {root, sub}
INVARIANTS
    TypeOK
    AskedOnce
    Polite
    CapHolds
    ShortestPath
    NothingMissed
    FingerprintsDistinct
    ReportedWereSeen
    SeenAreReported
    NoStrayProbe
PROPERTIES
    CrawlEnds
    ProbesEnd
