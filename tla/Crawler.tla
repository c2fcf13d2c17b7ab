------------------------------ MODULE Crawler ------------------------------
(***************************************************************************)
(* discovery/crawler.py: one call of crawl(), a breadth-first walk over    *)
(* the pages of a few hosts under a page cap, a depth limit, the excluded  *)
(* paths and the robots.txt of the start host.                             *)
(*                                                                         *)
(* A URL is a value whose host, robots rules and links are looked up; the  *)
(* parsing of hrefs and of robots.txt is abstracted to those relations.    *)
(* Every send() ends in a page, in a response that carries a transport     *)
(* error, or in an exception (a scope violation, the spent budget).  It    *)
(* may follow redirects on the way (client.py 208-245); the body that ends *)
(* the chain is read as the page of the URL the crawler asked for.  The    *)
(* order in which a Python set yields the links of a page is free.         *)
(***************************************************************************)
EXTENDS Integers, Sequences, FiniteSets

CONSTANTS
    Urls,          \* normalised http(s) URLs, no fragments
    NoUrl,         \* a start URL that is empty or of another scheme
    Host,          \* Host[u]: the host of u
    RobotsOf,      \* RobotsOf[u]: the robots.txt beside u
    RobotsFiles,   \* what a robots.txt can forbid: sets of URLs
    Starts,        \* the start URLs a caller can give
    Settings,      \* the CrawlerConfigs; excludedPaths holds the URLs under a prefix
    Webs,          \* the sites: functions from a URL to the links of its page
    Redirects      \* Redirects[u]: the URLs a request for u may be sent on to,
                   \* in scope and so followed by send()

ASSUME NoUrlAssumption == NoUrl \notin Urls
ASSUME LookupAssumption == RobotsOf \in [Urls -> Urls]
ASSUME StartsAssumption == Starts \subseteq Urls \cup {NoUrl}
ASSUME SettingsAssumption ==
    \A s \in Settings : s.maxPages \in Nat /\ s.maxDepth \in Int
ASSUME WebsAssumption == Webs \subseteq [Urls -> SUBSET Urls]
ASSUME RobotsFilesAssumption == RobotsFiles \subseteq SUBSET Urls
ASSUME RedirectsAssumption == Redirects \in [Urls -> SUBSET Urls]

VARIABLES
    config,     \* the CrawlerConfig
    web,        \* the site
    start,      \* the argument of crawl()
    phase,      \* where crawl() is
    robots,     \* self._robots[start host]: the forbidden URLs
    frontier,   \* the queue of entries [url, depth]
    page,       \* the entry whose links are being read
    links,      \* the links of it that are not looked at yet
    visited,    \* result.urls_visited
    skipped,    \* result.urls_skipped
    crawled,    \* result.pages_crawled
    errors,     \* result.errors
    log         \* history: every page request, [url, depth, fate, hops], with
                \* the URLs its send() was redirected to and asked for

inputVars == <<config, web, start>>
resultVars == <<visited, skipped, crawled, errors>>
crawlVars == <<inputVars, phase, robots, frontier, page, links, resultVars, log>>

Fates == {"page", "error", "raised"}
NoPage == [url |-> NoUrl, depth |-> 0]

CrawlInit ==
    /\ config \in Settings
    /\ web \in Webs
    /\ start \in Starts
    /\ phase = "called"
    /\ robots = {}
    /\ frontier = <<>>
    /\ page = NoPage
    /\ links = {}
    /\ visited = {}
    /\ skipped = 0
    /\ crawled = 0
    /\ errors = {}
    /\ log = <<>>

\* crawl() up to its loop; a start URL it cannot use is an empty result.
Begin ==
    /\ phase = "called"
    /\ IF start = NoUrl
       THEN phase' = "done" /\ UNCHANGED frontier
       ELSE /\ phase' = IF config.honorRobots THEN "robots" ELSE "walking"
            /\ frontier' = <<[url |-> start, depth |-> 0]>>
    /\ UNCHANGED <<inputVars, robots, page, links, resultVars, log>>

\* _fetch_robots asks twice: after an answer to the first request the host is
\* still unknown, and the same lines follow once more.
AskRobots ==
    /\ phase = "robots"
    /\ \/ phase' = "walking" /\ UNCHANGED visited          \* it raised
       \/ phase' = "robots again" /\ visited' = visited \cup {RobotsOf[start]}
    /\ UNCHANGED <<inputVars, robots, frontier, page, links, skipped, crawled, errors, log>>

\* The second answer counts; no rules come of an exception or an error.
AskRobotsAgain ==
    /\ phase = "robots again"
    /\ robots' \in RobotsFiles \cup {{}}
    /\ phase' = "walking"
    /\ UNCHANGED <<inputVars, frontier, page, links, resultVars, log>>

-----------------------------------------------------------------------------
(* The loop.                                                               *)

\* config.allowed_hosts, or else the host of the start URL.
AllowedHosts == IF config.allowedHosts = {} THEN {Host[start]} ELSE config.allowedHosts

\* The rules are those of the start host; no other robots.txt is ever asked for.
Disallowed(u) == Host[u] = Host[start] /\ u \in robots

\* Faulty variant: the depth limit is left to the frontier.
ShouldEnqueueAnyDepth(u, depth) ==
    Host[u] \in AllowedHosts /\ ~ Disallowed(u) /\ u \notin config.excludedPaths

\* The predicates of _should_enqueue, which the loop applies once more to what
\* it takes from the frontier.
ShouldEnqueue(u, depth) ==
    /\ depth <= config.maxDepth
    /\ Host[u] \in AllowedHosts
    /\ ~ Disallowed(u)
    /\ u \notin config.excludedPaths

\* Faulty variant: the cap is compared too late.
CapReachedLate == config.maxPages > 0 /\ crawled > config.maxPages

\* max_pages = 0 is no cap.
CapReached == config.maxPages > 0 /\ crawled >= config.maxPages

\* The loop is about to test its condition.
AtLoop == phase = "walking" /\ links = {}

DropRest ==
    /\ AtLoop /\ frontier # <<>> /\ CapReached
    /\ skipped' = skipped + Len(frontier)
    /\ phase' = "done"
    /\ UNCHANGED <<inputVars, robots, frontier, page, links, visited, crawled, errors, log>>

\* Faulty variant: the entry that is skipped stays at the head.
SkipAtHead ==
    /\ AtLoop /\ frontier # <<>> /\ ~ CapReached
    /\ ~ ShouldEnqueue(Head(frontier).url, Head(frontier).depth)
    /\ UNCHANGED crawlVars

Skip ==
    /\ AtLoop /\ frontier # <<>> /\ ~ CapReached
    /\ ~ ShouldEnqueue(Head(frontier).url, Head(frontier).depth)
    /\ skipped' = skipped + 1
    /\ frontier' = Tail(frontier)
    /\ UNCHANGED <<inputVars, phase, robots, page, links, visited, crawled, errors, log>>

\* The request for the head of the frontier.  A response that carries an error
\* is recorded; an exception is recorded nowhere.  The hops of a redirect are
\* requested inside send(), past all the predicates of the crawler.
Visit ==
    /\ AtLoop /\ frontier # <<>> /\ ~ CapReached
    /\ LET entry == Head(frontier)
       IN  /\ ShouldEnqueue(entry.url, entry.depth)
           /\ frontier' = Tail(frontier)
           /\ visited' = visited \cup {entry.url}
           /\ \E fate \in Fates, hops \in SUBSET Redirects[entry.url] :
                 /\ log' = Append(log, [url |-> entry.url, depth |-> entry.depth,
                                        fate |-> fate, hops |-> hops])
                 /\ errors' = IF fate = "error" THEN errors \cup {entry.url} ELSE errors
                 /\ IF fate = "page"
                    THEN /\ crawled' = crawled + 1
                         /\ links' = web[entry.url]
                         /\ page' = entry
                    ELSE UNCHANGED <<crawled, links, page>>
    /\ UNCHANGED <<inputVars, phase, robots, skipped>>

\* Faulty variant: a link is marked visited only when it is requested.
FollowUnmarked(link) ==
    IF link \in visited THEN UNCHANGED <<visited, skipped, frontier>>
    ELSE IF ShouldEnqueue(link, page.depth + 1)
    THEN /\ frontier' = Append(frontier, [url |-> link, depth |-> page.depth + 1])
         /\ UNCHANGED <<visited, skipped>>
    ELSE skipped' = skipped + 1 /\ UNCHANGED <<visited, frontier>>

\* Faulty variant: links are put at the front, so the walk goes depth first.
FollowAtFront(link) ==
    IF link \in visited THEN UNCHANGED <<visited, skipped, frontier>>
    ELSE IF ShouldEnqueue(link, page.depth + 1)
    THEN /\ visited' = visited \cup {link}
         /\ frontier' = <<[url |-> link, depth |-> page.depth + 1]>> \o frontier
         /\ UNCHANGED skipped
    ELSE skipped' = skipped + 1 /\ UNCHANGED <<visited, frontier>>

\* A link not seen before is marked visited when it is queued.
Follow(link) ==
    IF link \in visited THEN UNCHANGED <<visited, skipped, frontier>>
    ELSE IF ShouldEnqueue(link, page.depth + 1)
    THEN /\ visited' = visited \cup {link}
         /\ frontier' = Append(frontier, [url |-> link, depth |-> page.depth + 1])
         /\ UNCHANGED skipped
    ELSE skipped' = skipped + 1 /\ UNCHANGED <<visited, frontier>>

\* Faulty variant: a link already visited ends the reading of the page.
ReadLinkOrStop ==
    /\ phase = "walking"
    /\ \E link \in links :
          /\ Follow(link)
          /\ links' = IF link \in visited THEN {} ELSE links \ {link}
    /\ UNCHANGED <<inputVars, phase, robots, page, crawled, errors, log>>

ReadLink ==
    /\ phase = "walking"
    /\ \E link \in links : Follow(link) /\ links' = links \ {link}
    /\ UNCHANGED <<inputVars, phase, robots, page, crawled, errors, log>>

EndCrawl ==
    /\ AtLoop /\ frontier = <<>>
    /\ phase' = "done"
    /\ UNCHANGED <<inputVars, robots, frontier, page, links, resultVars, log>>

CrawlStep ==
    \/ Begin \/ AskRobots \/ AskRobotsAgain
    \/ DropRest \/ Skip \/ Visit \/ ReadLink \/ EndCrawl

CrawlDone == phase = "done" /\ UNCHANGED crawlVars

CrawlSpec == CrawlInit /\ [][CrawlStep \/ CrawlDone]_crawlVars /\ WF_crawlVars(CrawlStep)

-----------------------------------------------------------------------------
(* Properties.                                                             *)

Requested == {log[i].url : i \in DOMAIN log}
Read == {i \in DOMAIN log : log[i].fate = "page"}

\* Types.
CrawlTypeOK ==
    /\ phase \in {"called", "robots", "robots again", "walking", "done"}
    /\ robots \subseteq Urls
    /\ frontier \in Seq([url : Urls, depth : Nat])
    /\ page \in [url : Urls \cup {NoUrl}, depth : Nat]
    /\ links \subseteq Urls
    /\ visited \subseteq Urls
    /\ skipped \in Nat
    /\ crawled \in Nat
    /\ errors \subseteq Urls
    /\ log \in Seq([url : Urls, depth : Nat, fate : Fates, hops : SUBSET Urls])

\* The crawler asks for no page twice, however many pages link to it and
\* whichever of them fail: a URL is marked when it is queued and not only when
\* it is sent (252, 277-286).  Page requests only: robots.txt is asked for
\* twice, and a redirect may lead to a page that is asked for as well.
AskedOnce == \A i, j \in DOMAIN log : log[i].url = log[j].url => i = j

\* What the crawler itself asks for is on an allowed host, under no excluded
\* path, within the depth limit (a negative one admits nothing) and not
\* forbidden by the rules the crawl ended up with: the rules are known before
\* the first page is requested (214-252, 312-363).  Where send() is redirected
\* from there is another matter, see ExcludedIsNeverCalled.
Polite ==
    \A i \in DOMAIN log :
        /\ Host[log[i].url] \in AllowedHosts
        /\ log[i].url \notin config.excludedPaths
        /\ log[i].depth <= config.maxDepth
        /\ ~ Disallowed(log[i].url)

\* The cap bounds the pages that are read and stops every later request
\* (222-225); requests that fail do not count towards it.
CapHolds ==
    config.maxPages > 0 =>
        \A i \in DOMAIN log : Cardinality({j \in Read : j < i}) < config.maxPages

\* The depth of a request is its distance over the pages read: it was found on
\* a page one level up, and no page read further up links to it (219, 277-286).
ShortestPath ==
    \A i \in DOMAIN log :
        /\ log[i].depth > 0 =>
              \E j \in Read : log[j].depth = log[i].depth - 1 /\ log[i].url \in web[log[j].url]
        /\ \A j \in Read : log[i].url \in web[log[j].url] => log[i].depth <= log[j].depth + 1

\* A crawl that ends below its cap has asked for every link of every page it
\* read, but for what it must not ask for and its robots.txt (221-291).
NothingMissed ==
    phase = "done" /\ ~ CapReached =>
        \A j \in Read : \A u \in web[log[j].url] :
            \/ u \in Requested
            \/ ~ ShouldEnqueue(u, log[j].depth + 1)
            \/ u = RobotsOf[start]

\* The walk ends on every site, also one whose pages link in circles.
CrawlEnds == <>(phase = "done")

\* The documented exclusion: excluded_paths are "skipped without an HTTP call"
\* (crawler.py 59-60), so none is requested, by whichever way.
ExcludedIsNeverCalled ==
    \A i \in DOMAIN log : ({log[i].url} \cup log[i].hops) \cap config.excludedPaths = {}

\* The documented depth limit: "Negative depths are treated as 0" (crawler.py
\* 54), so a start URL that nothing else forbids is requested.
NegativeDepthIsZero ==
    phase = "done" /\ config.maxDepth < 0 /\ start # NoUrl =>
        \/ start \in Requested
        \/ Host[start] \notin AllowedHosts
        \/ start \in config.excludedPaths
        \/ Disallowed(start)

\* The documented errors: what send() raises is "caught and recorded in
\* errors" (crawler.py 17-18).
FailuresAreRecorded ==
    \A i \in DOMAIN log : log[i].fate # "page" => log[i].url \in errors
=============================================================================
