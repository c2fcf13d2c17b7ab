-------------------------- MODULE DiscoveryProofs --------------------------
(* What a crawl and the subdomain check around it may be relied on for, on  *)
(* every site, under every configuration and whatever the requests bring.  *)
EXTENDS Discovery, TLAPS, SequenceTheorems, FiniteSetTheorems

-----------------------------------------------------------------------------
(* The inductive invariant of crawl().                                     *)

\* The arguments, and where the crawl can be with them.
InputsOK ==
    /\ config \in Settings /\ web \in Webs /\ start \in Starts
    /\ phase \in {"robots", "robots again", "walking"} => start \in Urls
    /\ phase \notin {"walking", "done"} => log = <<>>
    /\ phase = "called" => frontier = <<>>
    /\ phase # "walking" => links = {}

\* Before the first request there is at most the start URL.
Fresh ==
    log = <<>> =>
        /\ links = {}
        /\ \A u \in visited : u = RobotsOf[start]
        /\ Len(frontier) <= 1
        /\ frontier # <<>> => frontier[1] = [url |-> start, depth |-> 0]

\* After it everything asked for and everything queued is marked, what is
\* queued was found on a page and may be asked for.
Queued ==
    log # <<>> =>
        /\ \A i \in DOMAIN log : log[i].url \in visited
        /\ \A i \in DOMAIN frontier :
              /\ frontier[i].url \in visited
              /\ frontier[i].depth > 0
              /\ ShouldEnqueue(frontier[i].url, frontier[i].depth)

\* Nothing is queued twice, nor queued after it was asked for.
QueuedOnce ==
    /\ \A i, j \in DOMAIN frontier : frontier[i].url = frontier[j].url => i = j
    /\ \A i \in DOMAIN log : \A j \in DOMAIN frontier : log[i].url # frontier[j].url

\* What is marked was asked for, is queued, or is the robots.txt.
MarkedFor ==
    \A u \in visited :
        \/ u = RobotsOf[start]
        \/ \E i \in DOMAIN log : log[i].url = u
        \/ \E i \in DOMAIN frontier : frontier[i].url = u

\* The depths never fall along the log and the frontier, and rise by one at most.
LevelByLevel ==
    /\ \A i, j \in DOMAIN log : i <= j => log[i].depth <= log[j].depth
    /\ \A i, j \in DOMAIN frontier : i <= j => frontier[i].depth <= frontier[j].depth
    /\ \A i \in DOMAIN log : \A j \in DOMAIN frontier : log[i].depth <= frontier[j].depth
    /\ log # <<>> => \A j \in DOMAIN frontier : frontier[j].depth <= log[Len(log)].depth + 1

\* The links still to be read are those of the page asked for last.
PageOK ==
    links # {} =>
        /\ log # <<>>
        /\ log[Len(log)].fate = "page"
        /\ page.url = log[Len(log)].url /\ page.depth = log[Len(log)].depth
        /\ links \subseteq web[page.url]

\* The links of a page read that have been looked at.
Looked(j) == IF j = Len(log) THEN web[log[j].url] \ links ELSE web[log[j].url]

\* A link looked at is marked or refused, and wherever it is on the way it is
\* at most one level below the page.
Examined ==
    \A j \in Read : \A u \in Looked(j) :
        /\ u \in visited \/ ~ ShouldEnqueue(u, log[j].depth + 1)
        /\ \A i \in DOMAIN log : log[i].url = u => log[i].depth <= log[j].depth + 1
        /\ \A i \in DOMAIN frontier :
              frontier[i].url = u => frontier[i].depth <= log[j].depth + 1

\* A page one level up, which was read, links to u.
FoundAt(u, depth) == \E j \in Read : log[j].depth = depth - 1 /\ u \in web[log[j].url]

Found ==
    /\ \A i \in DOMAIN log : log[i].depth > 0 => FoundAt(log[i].url, log[i].depth)
    /\ \A i \in DOMAIN frontier :
          frontier[i].depth > 0 => FoundAt(frontier[i].url, frontier[i].depth)

\* The pages read are counted.
Counted == crawled = Cardinality(Read)

\* The crawl ends with an empty frontier or at its cap.
Ended == phase = "done" => frontier = <<>> \/ CapReached

CrawlInv ==
    /\ CrawlTypeOK /\ InputsOK /\ Fresh
    /\ Queued /\ QueuedOnce /\ MarkedFor /\ AskedOnce
    /\ Polite
    /\ LevelByLevel /\ PageOK /\ Examined /\ Found
    /\ Counted /\ CapHolds /\ Ended

Entries == [url : Urls, depth : Nat]
Fetches == [url : Urls, depth : Nat, fate : Fates, hops : SUBSET Urls]

-----------------------------------------------------------------------------
(* The steps before the first request and after the last.                  *)

\* As long as nothing is asked for, most of the invariant says nothing.
LEMMA NothingAskedYet ==
    ASSUME frontier' \in Seq(Entries), log' = <<>>, links' = {}, Len(frontier') <= 1,
           frontier' # <<>> => frontier'[1] = [url |-> start', depth |-> 0]
    PROVE  /\ Queued' /\ QueuedOnce' /\ AskedOnce' /\ Polite'
           /\ LevelByLevel' /\ PageOK' /\ Examined' /\ Found' /\ CapHolds'
<1>1. DOMAIN log' = {} /\ Read' = {}
  BY DEF Read
<1>2. /\ DOMAIN frontier' = 1..Len(frontier') /\ Len(frontier') \in Nat
  BY LenProperties
<1>3. \A i \in DOMAIN frontier' : i = 1 /\ frontier'[i].depth = 0
  BY <1>2, EmptySeq
<1>4. Queued' /\ AskedOnce' /\ Polite' /\ PageOK' /\ CapHolds'
  BY <1>1 DEF Queued, AskedOnce, Polite, PageOK, CapHolds
<1>5. QueuedOnce' /\ LevelByLevel' /\ Found' /\ Examined'
  BY <1>1, <1>3 DEF QueuedOnce, LevelByLevel, Found, Examined
<1> QED
  BY <1>4, <1>5

LEMMA BeginKeepsInv ==
    ASSUME CrawlInv, Begin
    PROVE  CrawlInv'
<1> USE DEF CrawlInv
<1>1. /\ phase = "called" /\ frontier = <<>> /\ log = <<>> /\ links = {}
      /\ start \in Urls \cup {NoUrl} /\ NoUrl \notin Urls
  BY StartsAssumption, NoUrlAssumption DEF Begin, InputsOK, Fresh
<1>2. /\ UNCHANGED <<inputVars, robots, page, links, resultVars, log>>
      /\ \/ start = NoUrl /\ phase' = "done" /\ frontier' = <<>>
         \/ /\ start \in Urls /\ phase' \in {"robots", "walking"}
            /\ frontier' = <<[url |-> start, depth |-> 0]>>
  BY <1>1 DEF Begin
<1>3. /\ frontier' \in Seq(Entries) /\ Len(frontier') <= 1
      /\ frontier' # <<>> => frontier'[1] = [url |-> start', depth |-> 0]
      /\ phase' = "done" => frontier' = <<>>
  <2>1. CASE frontier' = <<>>
    BY <2>1, EmptySeq
  <2>2. CASE phase' # "done" /\ frontier' = <<[url |-> start, depth |-> 0]>> /\ start \in Urls
    BY <1>2, <2>2 DEF inputVars, Entries
  <2> QED
    BY <1>2, <2>1, <2>2
<1>4. CrawlTypeOK'
  BY <1>2, <1>3 DEF CrawlTypeOK, inputVars, resultVars, Entries
<1>5. InputsOK' /\ Fresh' /\ Ended'
  BY <1>1, <1>2, <1>3 DEF InputsOK, Fresh, Ended, inputVars, resultVars
<1>6. MarkedFor' /\ Counted'
  BY <1>1, <1>2 DEF MarkedFor, Counted, Read, Fresh, inputVars, resultVars
<1> QED
  BY <1>1, <1>2, <1>3, <1>4, <1>5, <1>6, NothingAskedYet

LEMMA RobotsKeepsInv ==
    ASSUME CrawlInv, AskRobots \/ AskRobotsAgain
    PROVE  CrawlInv'
<1> USE DEF CrawlInv
<1>1. /\ phase \in {"robots", "robots again"} /\ log = <<>> /\ links = {} /\ start \in Urls
      /\ frontier \in Seq(Entries) /\ Len(frontier) <= 1
      /\ frontier # <<>> => frontier[1] = [url |-> start, depth |-> 0]
  BY DEF AskRobots, AskRobotsAgain, InputsOK, Fresh, CrawlTypeOK, Entries
<1>2. /\ UNCHANGED <<inputVars, frontier, page, links, skipped, crawled, errors, log>>
      /\ phase' \in {"robots again", "walking"}
      /\ robots' \subseteq Urls
      /\ visited' \subseteq visited \cup {RobotsOf[start]}
  BY RobotsFilesAssumption DEF AskRobots, AskRobotsAgain, CrawlTypeOK, resultVars
<1>3. RobotsOf[start] \in Urls
  BY <1>1, LookupAssumption
<1>4. CrawlTypeOK'
  BY <1>2, <1>3 DEF CrawlTypeOK, inputVars
<1>5. InputsOK' /\ Fresh' /\ Ended'
  BY <1>1, <1>2 DEF InputsOK, Fresh, Ended, inputVars
<1>6. MarkedFor' /\ Counted'
  BY <1>1, <1>2 DEF MarkedFor, Counted, Read, Fresh, inputVars
<1>7. /\ frontier' \in Seq(Entries) /\ Len(frontier') <= 1 /\ log' = <<>> /\ links' = {}
      /\ frontier' # <<>> => frontier'[1] = [url |-> start', depth |-> 0]
  BY <1>1, <1>2 DEF inputVars
<1> QED
  BY <1>4, <1>5, <1>6, <1>7, NothingAskedYet

\* The end of the loop changes nothing that the invariant is about.
LEMMA EndKeepsInv ==
    ASSUME CrawlInv, DropRest \/ EndCrawl
    PROVE  CrawlInv'
<1> USE DEF CrawlInv
<1>1. /\ UNCHANGED <<inputVars, robots, frontier, page, links, visited, crawled, errors, log>>
      /\ phase = "walking" /\ phase' = "done" /\ links = {}
      /\ frontier = <<>> \/ CapReached
      /\ skipped' \in Nat
  <2>1. CASE DropRest
    BY <2>1, LenProperties DEF DropRest, AtLoop, CrawlTypeOK
  <2>2. CASE EndCrawl
    BY <2>2 DEF EndCrawl, AtLoop, CrawlTypeOK, resultVars
  <2> QED
    BY <2>1, <2>2
<1>2. CrawlTypeOK'
  BY <1>1 DEF CrawlTypeOK, inputVars
<1>3. InputsOK' /\ Fresh' /\ Ended'
  BY <1>1 DEF InputsOK, Fresh, Ended, CapReached, inputVars
<1>5. Queued'
  BY <1>1 DEF Queued, ShouldEnqueue, AllowedHosts, Disallowed, inputVars
<1>6. QueuedOnce' /\ MarkedFor' /\ AskedOnce' /\ LevelByLevel'
  BY <1>1 DEF QueuedOnce, MarkedFor, AskedOnce, LevelByLevel, inputVars
<1>7. Polite'
  BY <1>1 DEF Polite, AllowedHosts, Disallowed, inputVars
<1>8. PageOK' /\ Found' /\ Counted' /\ CapHolds'
  BY <1>1 DEF PageOK, Found, FoundAt, Counted, CapHolds, Read, inputVars
<1>9. Examined'
  BY <1>1 DEF Examined, Looked, Read, ShouldEnqueue, AllowedHosts, Disallowed, inputVars
<1> QED
  BY <1>2, <1>3, <1>5, <1>6, <1>7, <1>8, <1>9

-----------------------------------------------------------------------------
(* A step from the frontier.                                               *)

\* Only a start URL that must not be asked for is ever skipped.
LEMMA SkipKeepsInv ==
    ASSUME CrawlInv, Skip
    PROVE  CrawlInv'
<1> USE DEF CrawlInv
<1>1. /\ UNCHANGED <<inputVars, phase, robots, page, links, visited, crawled, errors, log>>
      /\ phase = "walking" /\ links = {} /\ frontier # <<>>
      /\ frontier' = Tail(frontier) /\ skipped' = skipped + 1
      /\ ~ ShouldEnqueue(frontier[1].url, frontier[1].depth)
      /\ frontier \in Seq(Entries) /\ Len(frontier) \in Nat \ {0}
      /\ Head(frontier) = frontier[1] /\ 1 \in DOMAIN frontier
  BY LenProperties, EmptySeq DEF Skip, AtLoop, CrawlTypeOK, Entries
<1>2. log = <<>> /\ Len(frontier) = 1
  <2>1. log = <<>>
    BY <1>1 DEF Queued
  <2>2. Len(frontier) <= 1
    BY <2>1 DEF Fresh
  <2>3. Len(frontier) \in Int /\ Len(frontier) >= 1
    BY <1>1
  <2> QED
    BY <2>1, <2>2, <2>3
<1>3. frontier' = <<>> /\ frontier' \in Seq(Entries) /\ Len(frontier') <= 1
  BY <1>1, <1>2, HeadTailProperties, EmptySeq
<1>4. CrawlTypeOK'
  BY <1>1, <1>3 DEF CrawlTypeOK, inputVars, Entries
<1>5. InputsOK' /\ Fresh' /\ Ended'
  BY <1>1, <1>2, <1>3 DEF InputsOK, Fresh, Ended, inputVars
<1>6. MarkedFor' /\ Counted'
  BY <1>1, <1>2 DEF MarkedFor, Counted, Read, Fresh, inputVars
<1> QED
  BY <1>1, <1>2, <1>3, <1>4, <1>5, <1>6, NothingAskedYet

\* What a visit does to the two sequences and to the pages read.
LEMMA VisitEffect ==
    ASSUME CrawlInv, Visit
    PROVE  /\ phase = "walking" /\ links = {} /\ ~ CapReached
           /\ UNCHANGED <<inputVars, phase, robots, skipped>>
           /\ Len(frontier) \in Nat /\ Len(frontier) >= 1 /\ Len(log) \in Nat
           /\ frontier[1] \in Entries
           /\ ShouldEnqueue(frontier[1].url, frontier[1].depth)
           /\ visited' = visited \cup {frontier[1].url}
           /\ frontier' \in Seq(Entries) /\ log' \in Seq(Fetches)
           /\ DOMAIN frontier = 1..Len(frontier) /\ DOMAIN frontier' = 1..(Len(frontier) - 1)
           /\ Len(frontier') = Len(frontier) - 1
           /\ \A i \in 1..(Len(frontier) - 1) : frontier'[i] = frontier[i + 1]
           /\ DOMAIN log = 1..Len(log) /\ DOMAIN log' = 1..(Len(log) + 1)
           /\ Len(log') = Len(log) + 1 /\ log' # <<>>
           /\ \A i \in 1..Len(log) : log'[i] = log[i]
           /\ log'[Len(log) + 1].url = frontier[1].url
           /\ log'[Len(log) + 1].depth = frontier[1].depth
           /\ \E fate \in Fates :
                 /\ log'[Len(log) + 1].fate = fate
                 /\ errors' \subseteq errors \cup {frontier[1].url}
                 /\ IF fate = "page"
                    THEN /\ Read' = Read \cup {Len(log) + 1}
                         /\ crawled' = crawled + 1
                         /\ links' = web[frontier[1].url]
                         /\ page' = frontier[1]
                    ELSE Read' = Read /\ UNCHANGED <<crawled, links, page>>
<1> DEFINE entry == frontier[1]
<1>1. /\ frontier \in Seq(Entries) /\ log \in Seq(Fetches) /\ frontier # <<>>
      /\ Head(frontier) = entry
  <2>1. frontier \in Seq(Entries) /\ log \in Seq(Fetches) /\ frontier # <<>>
    BY DEF CrawlInv, CrawlTypeOK, Entries, Fetches, Visit
  <2> QED
    BY <2>1
<1>2. /\ Len(frontier) \in Nat /\ Len(frontier) >= 1 /\ Len(log) \in Nat
      /\ DOMAIN frontier = 1..Len(frontier) /\ DOMAIN log = 1..Len(log)
      /\ entry \in Entries
  BY <1>1, LenProperties, EmptySeq, HeadTailProperties
<1>3. /\ phase = "walking" /\ links = {} /\ ~ CapReached
      /\ UNCHANGED <<inputVars, phase, robots, skipped>>
      /\ ShouldEnqueue(entry.url, entry.depth)
      /\ frontier' = Tail(frontier)
      /\ visited' = visited \cup {entry.url}
  BY <1>1 DEF Visit, AtLoop
<1>4. PICK fate \in Fates, hops \in SUBSET Redirects[entry.url] :
         /\ log' = Append(log, [url |-> entry.url, depth |-> entry.depth,
                                fate |-> fate, hops |-> hops])
         /\ errors' = IF fate = "error" THEN errors \cup {entry.url} ELSE errors
         /\ IF fate = "page"
            THEN crawled' = crawled + 1 /\ links' = web[entry.url] /\ page' = entry
            ELSE UNCHANGED <<crawled, links, page>>
  BY <1>1 DEF Visit
<1> DEFINE new == [url |-> entry.url, depth |-> entry.depth, fate |-> fate, hops |-> hops]
<1>5. new \in Fetches
  <2>1. hops \in SUBSET Urls
    BY <1>2, RedirectsAssumption DEF Entries
  <2> QED
    BY <1>2, <2>1 DEF Entries, Fetches
<1>6. /\ frontier' \in Seq(Entries) /\ Len(frontier') = Len(frontier) - 1
      /\ \A i \in 1..(Len(frontier) - 1) : frontier'[i] = frontier[i + 1]
  BY <1>1, <1>3, HeadTailProperties
<1>7. /\ log' \in Seq(Fetches) /\ Len(log') = Len(log) + 1 /\ log' # <<>>
      /\ \A i \in 1..Len(log) : log'[i] = log[i]
      /\ log'[Len(log) + 1] = new
  <2> HIDE DEF new
  <2> QED
    BY <1>1, <1>4, <1>5, AppendProperties DEF new
<1>8. DOMAIN frontier' = 1..(Len(frontier) - 1) /\ DOMAIN log' = 1..(Len(log) + 1)
  BY <1>6, <1>7, LenProperties
<1>9. Read' = IF fate = "page" THEN Read \cup {Len(log) + 1} ELSE Read
  BY <1>2, <1>7, <1>8 DEF Read
<1> QED
  BY <1>2, <1>3, <1>4, <1>6, <1>7, <1>8, <1>9

\* A visit moves the head of the frontier to the end of the log.
LEMMA VisitKeepsQueue ==
    ASSUME CrawlInv, Visit
    PROVE  /\ CrawlTypeOK' /\ InputsOK' /\ Fresh' /\ Ended'
           /\ Queued' /\ QueuedOnce' /\ MarkedFor' /\ AskedOnce' /\ Polite'
<1> USE DEF CrawlInv
<1> DEFINE entry == frontier[1]
           n == Len(log)
           m == Len(frontier)
<1>1. /\ phase = "walking" /\ links = {}
      /\ UNCHANGED <<inputVars, phase, robots, skipped>>
      /\ m \in Nat /\ m >= 1 /\ n \in Nat
      /\ entry \in Entries
      /\ ShouldEnqueue(entry.url, entry.depth)
      /\ visited' = visited \cup {entry.url}
  BY VisitEffect
<1>2. /\ frontier' \in Seq(Entries) /\ log' \in Seq(Fetches)
      /\ DOMAIN frontier = 1..m /\ DOMAIN frontier' = 1..(m - 1)
      /\ \A i \in 1..(m - 1) : frontier'[i] = frontier[i + 1]
      /\ DOMAIN log = 1..n /\ DOMAIN log' = 1..(n + 1) /\ log' # <<>>
      /\ \A i \in 1..n : log'[i] = log[i]
  BY VisitEffect
<1>3. log'[n + 1].url = entry.url /\ log'[n + 1].depth = entry.depth
  BY VisitEffect
<1>4. /\ errors' \subseteq errors \cup {entry.url}
      /\ crawled' \in {crawled, crawled + 1}
      /\ links' \in {links, web[entry.url]}
      /\ page' \in {page, entry}
  BY VisitEffect
<1>5. log = <<>> => n = 0 /\ m = 1
  <2>1. log = <<>> => m <= 1 /\ n = 0
    BY DEF Fresh
  <2> HIDE DEF m, n
  <2> QED
    BY <1>1, <2>1
<1> HIDE DEF entry, n, m
<1>6. web[entry.url] \subseteq Urls /\ entry.url \in Urls /\ entry.depth \in Nat
  BY <1>1, WebsAssumption DEF InputsOK, Entries
<1>7. CrawlTypeOK'
  BY <1>1, <1>2, <1>4, <1>6 DEF CrawlTypeOK, Entries, Fetches, inputVars
<1>8. InputsOK' /\ Fresh' /\ Ended'
  BY <1>1, <1>2 DEF InputsOK, Fresh, Ended, inputVars
<1>9. Queued'
  <2>1. ASSUME NEW i \in 1..(n + 1) PROVE log'[i].url \in visited'
    <3>1. CASE i = n + 1
      BY <1>1, <1>3, <3>1
    <3>2. CASE i \in 1..n
      BY <1>1, <1>2, <1>5, <3>2 DEF Queued
    <3> QED
      BY <1>1, <3>1, <3>2
  <2>2. ASSUME NEW i \in 1..(m - 1)
        PROVE  /\ frontier'[i].url \in visited' /\ frontier'[i].depth > 0
               /\ ShouldEnqueue(frontier'[i].url, frontier'[i].depth)
    <3>1. log # <<>> /\ i + 1 \in 1..m /\ frontier'[i] = frontier[i + 1]
      BY <1>1, <1>2, <1>5
    <3> QED
      BY <1>1, <1>2, <3>1 DEF Queued
  <2> QED
    BY <1>1, <1>2, <2>1, <2>2 DEF Queued, ShouldEnqueue, AllowedHosts, Disallowed, inputVars
<1>10. QueuedOnce'
  <2>1. ASSUME NEW i \in 1..(m - 1), NEW j \in 1..(m - 1), frontier'[i].url = frontier'[j].url
        PROVE  i = j
    <3>1. i + 1 \in 1..m /\ j + 1 \in 1..m /\ frontier[i + 1].url = frontier[j + 1].url
      BY <1>1, <1>2, <2>1
    <3>2. i + 1 = j + 1
      BY <1>2, <3>1 DEF QueuedOnce
    <3> QED
      BY <3>2
  <2>2. ASSUME NEW i \in 1..(n + 1), NEW j \in 1..(m - 1)
        PROVE  log'[i].url # frontier'[j].url
    <3>1. j + 1 \in 1..m /\ frontier'[j] = frontier[j + 1] /\ j + 1 # 1 /\ 1 \in 1..m
      BY <1>1, <1>2
    <3>2. CASE i = n + 1
      <4>1. frontier[1].url # frontier[j + 1].url
        BY <1>2, <3>1 DEF QueuedOnce
      <4> QED
        BY <1>3, <3>1, <3>2, <4>1 DEF entry
    <3>3. CASE i \in 1..n
      BY <1>2, <3>1, <3>3 DEF QueuedOnce
    <3> QED
      BY <1>1, <3>2, <3>3
  <2> QED
    BY <1>2, <2>1, <2>2 DEF QueuedOnce
<1>11. MarkedFor'
  <2> SUFFICES ASSUME NEW u \in visited', u # RobotsOf[start]
               PROVE  \/ \E i \in 1..(n + 1) : log'[i].url = u
                      \/ \E i \in 1..(m - 1) : frontier'[i].url = u
    BY <1>1, <1>2 DEF MarkedFor, inputVars
  <2>1. CASE u = entry.url
    BY <1>1, <1>3, <2>1
  <2>2. CASE \E i \in 1..n : log[i].url = u
    BY <1>1, <1>2, <2>2
  <2>3. ASSUME NEW i \in 1..m, frontier[i].url = u, u # entry.url
        PROVE  \E j \in 1..(m - 1) : frontier'[j].url = u
    <3>1. i - 1 \in 1..(m - 1) /\ (i - 1) + 1 = i
      BY <1>1, <2>3 DEF entry
    <3> QED
      BY <1>2, <2>3, <3>1
  <2> QED
    BY <1>1, <1>2, <2>1, <2>2, <2>3 DEF MarkedFor
<1>12. AskedOnce'
  <2>1. 1 \in 1..m
    BY <1>1
  <2>2. \A i \in 1..n : log[i].url # entry.url
    BY <1>2, <2>1 DEF QueuedOnce, entry
  <2>3. ASSUME NEW i \in 1..(n + 1), NEW j \in 1..(n + 1), log'[i].url = log'[j].url
        PROVE  i = j
    <3>1. CASE i \in 1..n /\ j \in 1..n
      BY <1>2, <2>3, <3>1 DEF AskedOnce
    <3>2. CASE i = n + 1 /\ j \in 1..n
      BY <1>2, <1>3, <2>2, <2>3, <3>2
    <3>3. CASE i \in 1..n /\ j = n + 1
      BY <1>2, <1>3, <2>2, <2>3, <3>3
    <3> QED
      BY <1>1, <3>1, <3>2, <3>3
  <2> QED
    BY <1>2, <2>3 DEF AskedOnce
<1>13. Polite'
  <2>1. /\ Host[entry.url] \in AllowedHosts /\ entry.url \notin config.excludedPaths
        /\ entry.depth <= config.maxDepth /\ ~ Disallowed(entry.url)
    BY <1>1 DEF ShouldEnqueue
  <2>2. ASSUME NEW i \in 1..(n + 1)
        PROVE  /\ Host[log'[i].url] \in AllowedHosts
               /\ log'[i].url \notin config.excludedPaths
               /\ log'[i].depth <= config.maxDepth
               /\ ~ Disallowed(log'[i].url)
    <3>1. CASE i = n + 1
      BY <1>3, <2>1, <3>1
    <3>2. CASE i \in 1..n
      BY <1>2, <3>2 DEF Polite
    <3> QED
      BY <1>1, <3>1, <3>2
  <2> QED
    BY <1>1, <1>2, <2>2 DEF Polite, AllowedHosts, Disallowed, inputVars
<1> QED
  BY <1>7, <1>8, <1>9, <1>10, <1>11, <1>12, <1>13

\* The walk stays level by level, and the page read is counted.
LEMMA VisitKeepsOrder ==
    ASSUME CrawlInv, Visit
    PROVE  LevelByLevel' /\ PageOK' /\ Examined' /\ Found' /\ Counted' /\ CapHolds'
<1> USE DEF CrawlInv
<1> DEFINE entry == frontier[1]
           n == Len(log)
           m == Len(frontier)
<1>1. /\ links = {} /\ ~ CapReached
      /\ UNCHANGED <<inputVars, robots>>
      /\ m \in Nat /\ m >= 1 /\ n \in Nat
      /\ entry \in Entries
      /\ visited' = visited \cup {entry.url}
  BY VisitEffect
<1>2. /\ frontier' \in Seq(Entries) /\ log' \in Seq(Fetches)
      /\ DOMAIN frontier = 1..m /\ DOMAIN frontier' = 1..(m - 1)
      /\ \A i \in 1..(m - 1) : frontier'[i] = frontier[i + 1]
      /\ DOMAIN log = 1..n /\ DOMAIN log' = 1..(n + 1) /\ log' # <<>> /\ Len(log') = n + 1
      /\ \A i \in 1..n : log'[i] = log[i]
      /\ log'[n + 1].url = entry.url /\ log'[n + 1].depth = entry.depth
  BY VisitEffect
<1>3. PICK fate \in Fates :
         /\ log'[n + 1].fate = fate
         /\ IF fate = "page"
            THEN /\ Read' = Read \cup {n + 1} /\ crawled' = crawled + 1
                 /\ links' = web[entry.url] /\ page' = entry
            ELSE Read' = Read /\ UNCHANGED <<crawled, links, page>>
  BY VisitEffect
<1>4. log = <<>> => m = 1
  <2>1. log = <<>> => m <= 1
    BY DEF Fresh
  <2> HIDE DEF m, n
  <2> QED
    BY <1>1, <2>1
<1>5. log # <<>> => n \in 1..n
  <2>1. log \in Seq(Fetches)
    BY DEF CrawlTypeOK, Fetches
  <2>2. log # <<>> => n # 0
    BY <2>1, EmptySeq
  <2> HIDE DEF m, n
  <2> QED
    BY <1>1, <2>2
<1>6. /\ \A i \in 1..n : log[i] \in Fetches
      /\ \A i \in 1..m : frontier[i] \in Entries
  <2>1. log \in Seq(Fetches) /\ frontier \in Seq(Entries)
    BY DEF CrawlTypeOK, Fetches, Entries
  <2> QED
    BY <2>1, ElementOfSeq
<1> HIDE DEF entry, n, m
<1>7. 1 \in 1..m /\ entry = frontier[1] /\ Read \subseteq 1..n
  BY <1>1, <1>2 DEF entry, Read
<1>8. LevelByLevel'
  <2>1. ASSUME NEW i \in 1..(n + 1), NEW j \in 1..(n + 1), i <= j
        PROVE  log'[i].depth <= log'[j].depth
    <3>1. CASE j \in 1..n
      <4>1. i \in 1..n
        BY <1>1, <2>1, <3>1
      <4> QED
        BY <1>2, <2>1, <3>1, <4>1 DEF LevelByLevel
    <3>2. CASE j = n + 1 /\ i \in 1..n
      BY <1>2, <1>7, <3>2 DEF LevelByLevel
    <3>3. CASE j = n + 1 /\ i = n + 1
      BY <1>1, <1>2, <3>3 DEF Entries
    <3> QED
      BY <1>1, <3>1, <3>2, <3>3
  <2>2. ASSUME NEW i \in 1..(m - 1), NEW j \in 1..(m - 1), i <= j
        PROVE  frontier'[i].depth <= frontier'[j].depth
    <3>1. i + 1 \in 1..m /\ j + 1 \in 1..m /\ i + 1 <= j + 1
      BY <1>1, <2>2
    <3> QED
      BY <1>2, <3>1 DEF LevelByLevel
  <2>3. ASSUME NEW i \in 1..(n + 1), NEW j \in 1..(m - 1)
        PROVE  log'[i].depth <= frontier'[j].depth
    <3>1. j + 1 \in 1..m /\ 1 <= j + 1
      BY <1>1
    <3>2. CASE i \in 1..n
      BY <1>2, <3>1, <3>2 DEF LevelByLevel
    <3>3. CASE i = n + 1
      BY <1>2, <1>7, <3>1, <3>3 DEF LevelByLevel
    <3> QED
      BY <1>1, <3>2, <3>3
  <2>4. ASSUME NEW j \in 1..(m - 1)
        PROVE  frontier'[j].depth <= log'[n + 1].depth + 1
    <3>1. j + 1 \in 1..m /\ log # <<>>
      BY <1>1, <1>4
    <3>2. frontier[j + 1].depth <= log[n].depth + 1 /\ log[n].depth <= frontier[1].depth
      BY <1>2, <1>5, <1>7, <3>1 DEF LevelByLevel, n
    <3>3. /\ frontier[j + 1].depth \in Nat /\ frontier[1].depth \in Nat
          /\ log[n].depth \in Nat
      BY <1>5, <1>6, <1>7, <3>1 DEF Entries, Fetches
    <3>4. frontier[j + 1].depth <= frontier[1].depth + 1
      BY <3>2, <3>3
    <3> QED
      BY <1>2, <1>7, <3>4
  <2> QED
    BY <1>2, <2>1, <2>2, <2>3, <2>4 DEF LevelByLevel
<1>9. PageOK'
  BY <1>1, <1>2, <1>3 DEF PageOK, inputVars
<1>10. Examined'
  <2> SUFFICES ASSUME NEW j \in Read', NEW u \in Looked(j)'
               PROVE  /\ u \in visited' \/ ~ ShouldEnqueue(u, log[j].depth + 1)'
                      /\ \A i \in 1..(n + 1) :
                            log'[i].url = u => log'[i].depth <= log'[j].depth + 1
                      /\ \A i \in 1..(m - 1) :
                            frontier'[i].url = u => frontier'[i].depth <= log'[j].depth + 1
    BY <1>2 DEF Examined, ShouldEnqueue, AllowedHosts, Disallowed
  <2>1. j # n + 1
    BY <1>1, <1>2, <1>3, <1>7 DEF Looked, inputVars
  <2>2. j \in Read /\ j \in 1..n /\ log'[j] = log[j] /\ u \in Looked(j)
    BY <1>1, <1>2, <1>3, <1>7, <2>1 DEF Looked, inputVars
  <2>3. /\ u \in visited \/ ~ ShouldEnqueue(u, log[j].depth + 1)
        /\ \A i \in 1..n : log[i].url = u => log[i].depth <= log[j].depth + 1
        /\ \A i \in 1..m : frontier[i].url = u => frontier[i].depth <= log[j].depth + 1
    BY <1>2, <2>2 DEF Examined
  <2>4. u \in visited' \/ ~ ShouldEnqueue(u, log[j].depth + 1)'
    BY <1>1, <2>2, <2>3 DEF ShouldEnqueue, AllowedHosts, Disallowed, inputVars
  <2>5. ASSUME NEW i \in 1..(n + 1), log'[i].url = u
        PROVE  log'[i].depth <= log'[j].depth + 1
    <3>1. CASE i \in 1..n
      BY <1>2, <2>2, <2>3, <2>5, <3>1
    <3>2. CASE i = n + 1
      BY <1>2, <1>7, <2>2, <2>3, <2>5, <3>2
    <3> QED
      BY <1>1, <3>1, <3>2
  <2>6. ASSUME NEW i \in 1..(m - 1), frontier'[i].url = u
        PROVE  frontier'[i].depth <= log'[j].depth + 1
    <3>1. i + 1 \in 1..m
      BY <1>1
    <3> QED
      BY <1>2, <2>2, <2>3, <2>6, <3>1
  <2> QED
    BY <2>4, <2>5, <2>6
<1>11. Found'
  <2> DEFINE FoundAfter(u, d) == \E j \in Read' : log'[j].depth = d - 1 /\ u \in web'[log'[j].url]
  <2>1. ASSUME NEW u, NEW d, FoundAt(u, d)
        PROVE  FoundAfter(u, d)
    BY <1>1, <1>2, <1>3, <1>7, <2>1 DEF FoundAt, inputVars
  <2>2. ASSUME NEW i \in 1..(n + 1), log'[i].depth > 0
        PROVE  FoundAfter(log'[i].url, log'[i].depth)
    <3>1. CASE i \in 1..n
      <4>1. FoundAt(log[i].url, log[i].depth)
        BY <1>2, <2>2, <3>1 DEF Found
      <4> QED
        BY <1>2, <2>1, <3>1, <4>1
    <3>2. CASE i = n + 1
      <4>1. FoundAt(entry.url, entry.depth)
        BY <1>2, <1>7, <2>2, <3>2 DEF Found
      <4> QED
        BY <1>2, <2>1, <3>2, <4>1
    <3> QED
      BY <1>1, <3>1, <3>2
  <2>3. ASSUME NEW i \in 1..(m - 1), frontier'[i].depth > 0
        PROVE  FoundAfter(frontier'[i].url, frontier'[i].depth)
    <3>1. i + 1 \in 1..m
      BY <1>1
    <3>2. FoundAt(frontier[i + 1].url, frontier[i + 1].depth)
      BY <1>2, <2>3, <3>1 DEF Found
    <3> QED
      BY <1>2, <2>1, <3>1, <3>2
  <2> QED
    BY <1>2, <2>2, <2>3 DEF Found, FoundAt
<1>12. IsFiniteSet(Read) /\ Cardinality(Read) \in Nat /\ n + 1 \notin Read
  <2>1. IsFiniteSet(1..n)
    BY <1>1, FS_Interval
  <2>2. IsFiniteSet(Read)
    BY <1>7, <2>1, FS_Subset
  <2>3. n + 1 \notin 1..n
    BY <1>1
  <2> QED
    BY <1>7, <2>2, <2>3, FS_CardinalityType
<1>13. Counted'
  BY <1>3, <1>12, FS_AddElement DEF Counted
<1>14. CapHolds'
  <2> SUFFICES ASSUME config.maxPages > 0, NEW i \in 1..(n + 1)
               PROVE  Cardinality({j \in Read' : j < i}) < config.maxPages
    BY <1>1, <1>2 DEF CapHolds, inputVars
  <2>1. {j \in Read' : j < i} = {j \in Read : j < i}
    BY <1>1, <1>3, <1>7
  <2>2. CASE i \in 1..n
    BY <1>2, <2>1, <2>2 DEF CapHolds
  <2>3. CASE i = n + 1
    <3>1. {j \in Read : j < i} = Read
      <4>1. \A j \in 1..n : j < i
        BY <1>1, <2>3
      <4> QED
        BY <1>7, <4>1
    <3>2. ~ (crawled >= config.maxPages) /\ crawled = Cardinality(Read)
      BY <1>1 DEF CapReached, Counted
    <3>3. config.maxPages \in Nat
      BY SettingsAssumption DEF InputsOK
    <3> QED
      BY <1>12, <2>1, <3>1, <3>2, <3>3
  <2> QED
    BY <1>1, <2>2, <2>3
<1> QED
  BY <1>8, <1>9, <1>10, <1>11, <1>13, <1>14

-----------------------------------------------------------------------------
(* A link of the page read.                                                *)

\* Where the links being read come from.
LEMMA LinkOfPage ==
    ASSUME CrawlInv, ReadLink
    PROVE  /\ UNCHANGED <<inputVars, phase, robots, page, crawled, errors, log>>
           /\ phase = "walking" /\ start \in Urls
           /\ log # <<>> /\ Len(log) \in Nat /\ Len(log) \in Read
           /\ DOMAIN log = 1..Len(log) /\ Len(log) \in 1..Len(log)
           /\ page \in Entries /\ page.url = log[Len(log)].url
           /\ page.depth = log[Len(log)].depth
           /\ \A i \in DOMAIN log :
                 log[i].depth \in Nat /\ log[i].depth <= page.depth
           /\ \A i \in DOMAIN frontier :
                 frontier[i].depth \in Nat /\ frontier[i].depth <= page.depth + 1
           /\ \A link \in links : link \in Urls /\ link \in web[page.url]
<1> USE DEF CrawlInv
<1>1. /\ log \in Seq(Fetches) /\ frontier \in Seq(Entries)
      /\ page \in [url : Urls \cup {NoUrl}, depth : Nat] /\ links \subseteq Urls
  BY DEF CrawlTypeOK, Fetches, Entries
<1>2. /\ UNCHANGED <<inputVars, phase, robots, page, crawled, errors, log>>
      /\ phase = "walking" /\ links # {}
  BY DEF ReadLink
<1>3. /\ log # <<>> /\ log[Len(log)].fate = "page"
      /\ page.url = log[Len(log)].url /\ page.depth = log[Len(log)].depth
      /\ links \subseteq web[page.url]
  BY <1>2 DEF PageOK
<1>4. /\ Len(log) \in Nat /\ DOMAIN log = 1..Len(log) /\ Len(log) \in 1..Len(log)
  <2>1. Len(log) \in Nat /\ Len(log) # 0
    BY <1>1, <1>3, EmptySeq, LenProperties
  <2>2. DOMAIN log = 1..Len(log)
    BY <1>1, LenProperties
  <2> QED
    BY <2>1, <2>2
<1>5. Len(log) \in Read
  BY <1>3, <1>4 DEF Read
<1>6. log[Len(log)] \in Fetches
  BY <1>1, <1>4, ElementOfSeq
<1>7. page \in Entries
  BY <1>1, <1>3, <1>6 DEF Entries, Fetches
<1>8. ASSUME NEW i \in DOMAIN log
      PROVE  log[i].depth \in Nat /\ log[i].depth <= page.depth
  <2>1. log[i] \in Fetches /\ i <= Len(log) /\ Len(log) \in DOMAIN log
    BY <1>1, <1>4, ElementOfSeq
  <2>2. log[i].depth <= log[Len(log)].depth
    BY <1>4, <2>1 DEF LevelByLevel
  <2> QED
    BY <1>3, <2>1, <2>2 DEF Fetches
<1>9. ASSUME NEW i \in DOMAIN frontier
      PROVE  frontier[i].depth \in Nat /\ frontier[i].depth <= page.depth + 1
  <2>1. frontier[i] \in Entries
    BY <1>1, LenProperties, ElementOfSeq
  <2>2. frontier[i].depth <= log[Len(log)].depth + 1
    BY <1>3 DEF LevelByLevel
  <2> QED
    BY <1>3, <2>1, <2>2 DEF Entries
<1>10. start \in Urls
  BY <1>2 DEF InputsOK
<1> QED
  BY <1>1, <1>2, <1>3, <1>4, <1>5, <1>7, <1>8, <1>9, <1>10

\* A link that is already marked, or refused, leaves the frontier as it is.
LEMMA PassLinkKeepsInv ==
    ASSUME CrawlInv, ReadLink, NEW link \in links, links' = links \ {link},
           link \in visited \/ ~ ShouldEnqueue(link, page.depth + 1),
           UNCHANGED <<visited, frontier>>, skipped' \in Nat
    PROVE  CrawlInv'
<1> USE DEF CrawlInv
<1>1. /\ UNCHANGED <<inputVars, phase, robots, page, crawled, errors, log>>
      /\ phase = "walking" /\ log # <<>>
      /\ page.depth = log[Len(log)].depth
      /\ \A i \in DOMAIN log : log[i].depth \in Nat /\ log[i].depth <= page.depth
      /\ \A i \in DOMAIN frontier :
            frontier[i].depth \in Nat /\ frontier[i].depth <= page.depth + 1
      /\ page.depth \in Nat
  BY LinkOfPage DEF Entries
<1>2. CrawlTypeOK' /\ InputsOK' /\ Fresh' /\ Ended'
  BY <1>1 DEF CrawlTypeOK, InputsOK, Fresh, Ended, inputVars
<1>3. Queued'
  BY <1>1 DEF Queued, ShouldEnqueue, AllowedHosts, Disallowed, inputVars
<1>4. QueuedOnce' /\ MarkedFor' /\ AskedOnce' /\ LevelByLevel'
  BY <1>1 DEF QueuedOnce, MarkedFor, AskedOnce, LevelByLevel, inputVars
<1>5. Polite'
  BY <1>1 DEF Polite, AllowedHosts, Disallowed, inputVars
<1>6. PageOK' /\ Found' /\ Counted' /\ CapHolds'
  BY <1>1 DEF PageOK, Found, FoundAt, Counted, CapHolds, Read, inputVars
<1>7. Examined'
  <2> SUFFICES ASSUME NEW j \in Read, NEW u \in Looked(j)'
               PROVE  /\ u \in visited \/ ~ ShouldEnqueue(u, log[j].depth + 1)
                      /\ \A i \in DOMAIN log : log[i].url = u => log[i].depth <= log[j].depth + 1
                      /\ \A i \in DOMAIN frontier :
                            frontier[i].url = u => frontier[i].depth <= log[j].depth + 1
    BY <1>1 DEF Examined, Read, ShouldEnqueue, AllowedHosts, Disallowed, inputVars
  <2>1. CASE u \in Looked(j)
    BY <2>1 DEF Examined
  <2>2. CASE u \notin Looked(j)
    <3>1. j = Len(log) /\ u = link
      BY <1>1, <2>2 DEF Looked, inputVars
    <3>2. \A i \in DOMAIN log : log[i].depth <= page.depth + 1
      BY <1>1
    <3> QED
      BY <1>1, <3>1, <3>2
  <2> QED
    BY <2>1, <2>2
<1> QED
  BY <1>2, <1>3, <1>4, <1>5, <1>6, <1>7

\* A link that is queued: no page read before links to it, or it would have
\* been queued then, since it may be asked for at a lesser depth as well.
LEMMA EnqueueKeepsInv ==
    ASSUME CrawlInv, ReadLink, NEW link \in links, links' = links \ {link},
           link \notin visited, ShouldEnqueue(link, page.depth + 1),
           visited' = visited \cup {link}, UNCHANGED skipped,
           frontier' = Append(frontier, [url |-> link, depth |-> page.depth + 1])
    PROVE  CrawlInv'
<1> USE DEF CrawlInv
<1> DEFINE new == [url |-> link, depth |-> page.depth + 1]
           m == Len(frontier)
           n == Len(log)
<1>1. /\ UNCHANGED <<inputVars, phase, robots, page, crawled, errors, log>>
      /\ phase = "walking" /\ log # <<>> /\ n \in Read /\ DOMAIN log = 1..n
      /\ n \in Nat /\ n \in 1..n
      /\ page.depth \in Nat /\ page.url = log[n].url /\ page.depth = log[n].depth
      /\ \A i \in DOMAIN log : log[i].depth \in Nat /\ log[i].depth <= page.depth
      /\ \A i \in DOMAIN frontier :
            frontier[i].depth \in Nat /\ frontier[i].depth <= page.depth + 1
      /\ link \in Urls /\ link \in web[page.url]
  BY LinkOfPage DEF Entries
<1>2. frontier \in Seq(Entries) /\ new \in Entries
  BY <1>1 DEF CrawlTypeOK, Entries
<1>3. /\ m \in Nat /\ DOMAIN frontier = 1..m
      /\ frontier' \in Seq(Entries) /\ DOMAIN frontier' = 1..(m + 1)
      /\ \A i \in 1..m : frontier'[i] = frontier[i]
      /\ frontier'[m + 1].url = link /\ frontier'[m + 1].depth = page.depth + 1
  <2> HIDE DEF new
  <2>1. /\ frontier' \in Seq(Entries) /\ Len(frontier') = m + 1
        /\ \A i \in 1..m : frontier'[i] = frontier[i]
        /\ frontier'[m + 1] = new
    BY <1>2, AppendProperties DEF new
  <2>2. m \in Nat /\ DOMAIN frontier = 1..m /\ DOMAIN frontier' = 1..(m + 1)
    BY <1>2, <2>1, LenProperties
  <2> QED
    BY <2>1, <2>2 DEF new
<1> HIDE DEF new, m, n
<1>4. /\ \A i \in 1..n : log[i].url # link
      /\ \A i \in 1..m : frontier[i].url # link
  BY <1>1, <1>3 DEF Queued
<1>5. CrawlTypeOK' /\ InputsOK' /\ Fresh' /\ Ended'
  BY <1>1, <1>3 DEF CrawlTypeOK, InputsOK, Fresh, Ended, Entries, inputVars
<1>6. Queued'
  <2>1. ASSUME NEW i \in 1..(m + 1)
        PROVE  /\ frontier'[i].url \in visited' /\ frontier'[i].depth > 0
               /\ ShouldEnqueue(frontier'[i].url, frontier'[i].depth)
    <3>1. CASE i \in 1..m
      BY <1>1, <1>3, <3>1 DEF Queued
    <3>2. CASE i = m + 1
      BY <1>1, <1>3, <3>2
    <3> QED
      BY <1>3, <3>1, <3>2
  <2> QED
    BY <1>1, <1>3, <2>1 DEF Queued, ShouldEnqueue, AllowedHosts, Disallowed, inputVars
<1>7. QueuedOnce'
  <2>1. ASSUME NEW i \in 1..(m + 1), NEW j \in 1..(m + 1), frontier'[i].url = frontier'[j].url
        PROVE  i = j
    <3>1. CASE i \in 1..m /\ j \in 1..m
      BY <1>3, <2>1, <3>1 DEF QueuedOnce
    <3>2. CASE i = m + 1 /\ j \in 1..m
      BY <1>3, <1>4, <2>1, <3>2
    <3>3. CASE i \in 1..m /\ j = m + 1
      BY <1>3, <1>4, <2>1, <3>3
    <3> QED
      BY <1>3, <3>1, <3>2, <3>3
  <2>2. ASSUME NEW i \in 1..n, NEW j \in 1..(m + 1)
        PROVE  log'[i].url # frontier'[j].url
    <3>1. CASE j \in 1..m
      BY <1>1, <1>3, <3>1 DEF QueuedOnce
    <3>2. CASE j = m + 1
      BY <1>1, <1>3, <1>4, <3>2
    <3> QED
      BY <1>3, <3>1, <3>2
  <2> QED
    BY <1>1, <1>3, <2>1, <2>2 DEF QueuedOnce
<1>8. MarkedFor'
  <2> SUFFICES ASSUME NEW u \in visited', u # RobotsOf[start]
               PROVE  \/ \E i \in 1..n : log[i].url = u
                      \/ \E i \in 1..(m + 1) : frontier'[i].url = u
    BY <1>1, <1>3 DEF MarkedFor, inputVars
  <2>1. CASE u = link
    BY <1>3, <2>1
  <2>2. CASE \E i \in 1..m : frontier[i].url = u
    BY <1>3, <2>2
  <2> QED
    BY <1>1, <1>3, <2>1, <2>2 DEF MarkedFor
<1>9. AskedOnce' /\ Polite' /\ Counted' /\ CapHolds'
  BY <1>1 DEF AskedOnce, Polite, AllowedHosts, Disallowed, Counted, CapHolds, Read, inputVars
<1>10. PageOK'
  BY <1>1 DEF PageOK, inputVars
<1>11. LevelByLevel'
  <2>1. ASSUME NEW i \in 1..(m + 1), NEW j \in 1..(m + 1), i <= j
        PROVE  frontier'[i].depth <= frontier'[j].depth
    <3>1. CASE i \in 1..m /\ j \in 1..m
      BY <1>3, <2>1, <3>1 DEF LevelByLevel
    <3>2. CASE i \in 1..m /\ j = m + 1
      BY <1>1, <1>3, <3>2
    <3>3. CASE i = m + 1 /\ j = m + 1
      BY <1>1, <1>3, <3>3
    <3> QED
      BY <1>3, <2>1, <3>1, <3>2, <3>3
  <2>2. ASSUME NEW i \in 1..n, NEW j \in 1..(m + 1)
        PROVE  log[i].depth <= frontier'[j].depth
    <3>1. CASE j \in 1..m
      BY <1>1, <1>3, <3>1 DEF LevelByLevel
    <3>2. CASE j = m + 1
      BY <1>1, <1>3, <3>2
    <3> QED
      BY <1>3, <3>1, <3>2
  <2>3. ASSUME NEW j \in 1..(m + 1)
        PROVE  frontier'[j].depth <= log[n].depth + 1
    <3>1. CASE j \in 1..m
      BY <1>1, <1>3, <3>1
    <3>2. CASE j = m + 1
      BY <1>1, <1>3, <3>2
    <3> QED
      BY <1>3, <3>1, <3>2
  <2> QED
    BY <1>1, <1>3, <2>1, <2>2, <2>3 DEF LevelByLevel, n
<1>12. Found'
  <2>1. FoundAt(link, page.depth + 1)
    BY <1>1 DEF FoundAt
  <2>2. ASSUME NEW i \in 1..(m + 1), frontier'[i].depth > 0
        PROVE  FoundAt(frontier'[i].url, frontier'[i].depth)
    <3>1. CASE i \in 1..m
      BY <1>3, <2>2, <3>1 DEF Found
    <3>2. CASE i = m + 1
      BY <1>3, <2>1, <3>2
    <3> QED
      BY <1>3, <3>1, <3>2
  <2> QED
    BY <1>1, <1>3, <2>2 DEF Found, FoundAt, Read, inputVars
<1>13. Examined'
  <2> SUFFICES ASSUME NEW j \in Read, NEW u \in Looked(j)'
               PROVE  /\ u \in visited' \/ ~ ShouldEnqueue(u, log[j].depth + 1)
                      /\ \A i \in 1..n : log[i].url = u => log[i].depth <= log[j].depth + 1
                      /\ \A i \in 1..(m + 1) :
                            frontier'[i].url = u => frontier'[i].depth <= log[j].depth + 1
    BY <1>1, <1>3 DEF Examined, Read, ShouldEnqueue, AllowedHosts, Disallowed, inputVars
  <2>1. CASE u \in Looked(j)
    <3>1. u # link
      <4>1. SUFFICES ASSUME u = link PROVE FALSE
        OBVIOUS
      <4>2. ~ ShouldEnqueue(link, log[j].depth + 1)
        BY <2>1, <4>1 DEF Examined
      <4>3. log[j].depth \in Nat /\ log[j].depth <= page.depth
        BY <1>1 DEF Read
      <4>4. config.maxDepth \in Int
        BY SettingsAssumption DEF InputsOK
      <4> QED
        BY <1>1, <4>2, <4>3, <4>4 DEF ShouldEnqueue
    <3>2. ASSUME NEW i \in 1..(m + 1), frontier'[i].url = u
          PROVE  i \in 1..m
      BY <1>3, <3>1, <3>2
    <3> QED
      BY <1>1, <1>3, <2>1, <3>2 DEF Examined
  <2>2. CASE u \notin Looked(j)
    <3>1. j = n /\ u = link
      BY <1>1, <2>2 DEF Looked, inputVars, n
    <3>2. \A i \in 1..(m + 1) : frontier'[i].depth <= page.depth + 1
      <4>1. ASSUME NEW i \in 1..(m + 1) PROVE frontier'[i].depth <= page.depth + 1
        <5>1. CASE i \in 1..m
          BY <1>1, <1>3, <5>1
        <5>2. CASE i = m + 1
          BY <1>1, <1>3, <5>2
        <5> QED
          BY <1>3, <5>1, <5>2
      <4> QED
        BY <4>1
    <3> QED
      BY <1>1, <1>4, <3>1, <3>2
  <2> QED
    BY <2>1, <2>2
<1> QED
  BY <1>5, <1>6, <1>7, <1>8, <1>9, <1>10, <1>11, <1>12, <1>13

\* The links of a page are passed over or queued.
LEMMA ReadLinkKeepsInv ==
    ASSUME CrawlInv, ReadLink
    PROVE  CrawlInv'
<1>1. PICK link \in links : Follow(link) /\ links' = links \ {link}
  BY DEF ReadLink
<1>2. skipped \in Nat
  BY DEF CrawlInv, CrawlTypeOK
<1>3. CASE link \in visited
  BY <1>1, <1>2, <1>3, PassLinkKeepsInv DEF Follow
<1>4. CASE link \notin visited /\ ~ ShouldEnqueue(link, page.depth + 1)
  BY <1>1, <1>2, <1>4, PassLinkKeepsInv DEF Follow
<1>5. CASE link \notin visited /\ ShouldEnqueue(link, page.depth + 1)
  BY <1>1, <1>5, EnqueueKeepsInv DEF Follow
<1> QED
  BY <1>3, <1>4, <1>5

-----------------------------------------------------------------------------
(* What the crawl promises.                                                *)

\* The invariant holds when crawl() is called.
LEMMA CrawlStarts ==
    ASSUME CrawlInit
    PROVE  CrawlInv
<1> USE DEF CrawlInit
<1>1. DOMAIN log = {} /\ DOMAIN frontier = {} /\ Read = {} /\ frontier \in Seq(Entries)
      /\ log \in Seq(Fetches) /\ Len(frontier) = 0
  BY EmptySeq DEF Read
<1>2. CrawlTypeOK
  BY <1>1 DEF CrawlTypeOK, NoPage, Entries, Fetches
<1>3. InputsOK /\ Fresh /\ Queued /\ QueuedOnce /\ MarkedFor /\ AskedOnce /\ Polite /\ Ended
  BY <1>1 DEF InputsOK, Fresh, Queued, QueuedOnce, MarkedFor, AskedOnce, Polite, Ended
<1>4. LevelByLevel /\ PageOK /\ Examined /\ Found /\ CapHolds
  BY <1>1 DEF LevelByLevel, PageOK, Examined, Found, CapHolds
<1>5. Counted
  BY <1>1, FS_EmptySet DEF Counted
<1> QED
  BY <1>2, <1>3, <1>4, <1>5 DEF CrawlInv

\* Every step of crawl() keeps the invariant.
LEMMA CrawlKeepsInv ==
    ASSUME CrawlInv, CrawlStep
    PROVE  CrawlInv'
<1>1. CASE Visit
  BY <1>1, VisitKeepsQueue, VisitKeepsOrder DEF CrawlInv
<1>2. CASE Begin \/ AskRobots \/ AskRobotsAgain \/ DropRest \/ Skip \/ ReadLink \/ EndCrawl
  BY <1>2, BeginKeepsInv, RobotsKeepsInv, EndKeepsInv, SkipKeepsInv, ReadLinkKeepsInv
<1> QED
  BY <1>1, <1>2 DEF CrawlStep

\* The page a request was found on is one level up, and every page read that
\* links to it is at most one level up.
LEMMA InvShortestPath ==
    ASSUME CrawlInv
    PROVE  ShortestPath
<1>1. ASSUME NEW i \in DOMAIN log, log[i].depth > 0
      PROVE  \E j \in Read : log[j].depth = log[i].depth - 1 /\ log[i].url \in web[log[j].url]
  BY <1>1 DEF CrawlInv, Found, FoundAt
<1>2. ASSUME NEW i \in DOMAIN log, NEW j \in Read, log[i].url \in web[log[j].url]
      PROVE  log[i].depth <= log[j].depth + 1
  <2>1. CASE log[i].url \in Looked(j)
    BY <2>1 DEF CrawlInv, Examined
  <2>2. CASE log[i].url \notin Looked(j)
    <3>1. log \in Seq(Fetches) /\ j = Len(log) /\ j \in DOMAIN log
      <4>1. log \in Seq(Fetches)
        BY DEF CrawlInv, CrawlTypeOK, Fetches
      <4>2. j = Len(log) /\ j \in DOMAIN log
        BY <1>2, <2>2 DEF Looked, Read
      <4> QED
        BY <4>1, <4>2
    <3>2. DOMAIN log = 1..Len(log)
      BY <3>1, LenProperties
    <3>3. log[i].depth <= log[j].depth
      BY <3>1, <3>2 DEF CrawlInv, LevelByLevel
    <3>4. log[i] \in Fetches /\ log[j] \in Fetches
      BY <3>1, <3>2, ElementOfSeq
    <3>5. log[i].depth \in Nat /\ log[j].depth \in Nat
      BY <3>4 DEF Fetches
    <3> QED
      BY <3>3, <3>5
  <2> QED
    BY <2>1, <2>2
<1> QED
  BY <1>1, <1>2 DEF ShortestPath

\* With an empty frontier every link that may be asked for was asked for.
LEMMA InvNothingMissed ==
    ASSUME CrawlInv
    PROVE  NothingMissed
<1> SUFFICES ASSUME phase = "done", ~ CapReached, NEW j \in Read, NEW u \in web[log[j].url]
             PROVE  \/ u \in Requested
                    \/ ~ ShouldEnqueue(u, log[j].depth + 1)
                    \/ u = RobotsOf[start]
  BY DEF NothingMissed
<1>1. frontier = <<>> /\ links = {}
  BY DEF CrawlInv, Ended, InputsOK
<1>2. u \in Looked(j)
  BY <1>1 DEF Looked
<1>3. u \in visited \/ ~ ShouldEnqueue(u, log[j].depth + 1)
  BY <1>2 DEF CrawlInv, Examined
<1>4. DOMAIN frontier = {}
  BY <1>1, EmptySeq
<1> QED
  BY <1>3, <1>4 DEF CrawlInv, MarkedFor, Requested

-----------------------------------------------------------------------------
(* The inductive invariant of discover().                                  *)

\* The types of its own variables.
ProbeTypeOK ==
    /\ stage \in {"crawling", "probing", "returned", "cancelled"}
    /\ probe \in [Common -> ProbeStates]
    /\ awaited \subseteq Common

\* Probing begins after the crawl.
CrawlFirst ==
    /\ stage # "crawling" => phase = "done"
    /\ stage = "crawling" => \A h \in Common : probe[h] = "none"

\* A host is found when it resolved or answered, and only an ended task is awaited.
FoundIfShown ==
    /\ shown = {h \in Common : probe[h] = "found"}
    /\ \A h \in awaited : probe[h] \in {"found", "absent"}

\* What is returned is the join of the two signals, and all tasks are over.
Joined ==
    IF stage = "returned"
    THEN /\ awaited = Common
         /\ candidates = Candidates
         /\ DOMAIN evidence = Crawled \cup Probed
    ELSE candidates = {} /\ evidence = <<>>

DiscoveryInv == CrawlInv /\ ProbeTypeOK /\ CrawlFirst /\ FoundIfShown /\ Joined

\* The invariant holds before discover() has done anything.
LEMMA DiscoveryStarts ==
    ASSUME Init
    PROVE  DiscoveryInv
<1>1. CrawlInv
  BY CrawlStarts DEF Init
<1>2. ProbeTypeOK /\ CrawlFirst /\ FoundIfShown /\ Joined
  BY DEF Init, ProbeTypeOK, CrawlFirst, FoundIfShown, Joined, ProbeStates
<1> QED
  BY <1>1, <1>2 DEF DiscoveryInv

\* The crawl's part of the invariant speaks of the crawl's variables only.
LEMMA CrawlInvStutters ==
    ASSUME CrawlInv, UNCHANGED crawlVars
    PROVE  CrawlInv'
<1> USE DEF CrawlInv, crawlVars, inputVars, resultVars
<1>1. CrawlTypeOK' /\ InputsOK' /\ Fresh'
  BY DEF CrawlTypeOK, InputsOK, Fresh
<1>2. Queued' /\ Polite' /\ Ended'
  BY DEF Queued, Polite, Ended, CapReached, ShouldEnqueue, AllowedHosts, Disallowed
<1>3. QueuedOnce' /\ MarkedFor' /\ AskedOnce' /\ LevelByLevel' /\ PageOK'
  BY DEF QueuedOnce, MarkedFor, AskedOnce, LevelByLevel, PageOK
<1>4. Examined'
  BY DEF Examined, Looked, Read, ShouldEnqueue, AllowedHosts, Disallowed
<1>5. Found' /\ Counted' /\ CapHolds'
  BY DEF Found, FoundAt, Counted, CapHolds, Read
<1> QED
  BY <1>1, <1>2, <1>3, <1>4, <1>5

\* A crawl that has ended takes no step.
LEMMA EndedCrawlRests ==
    ASSUME CrawlInv, phase = "done"
    PROVE  ~ CrawlStep
BY DEF CrawlStep, Begin, AskRobots, AskRobotsAgain, DropRest, Skip, Visit, ReadLink, EndCrawl, AtLoop

\* Every step of discover() keeps the invariant.
LEMMA DiscoveryKeepsInv ==
    ASSUME DiscoveryInv, [Next]_vars
    PROVE  DiscoveryInv'
<1> USE DEF DiscoveryInv
<1>1. CASE Crawl
  <2>1. CrawlStep /\ UNCHANGED probeVars /\ stage = "crawling"
    BY <1>1, EndedCrawlRests DEF Crawl, CrawlFirst, ProbeTypeOK
  <2>2. CrawlInv'
    BY <2>1, CrawlKeepsInv
  <2>3. ProbeTypeOK' /\ CrawlFirst' /\ FoundIfShown' /\ Joined'
    BY <2>1 DEF ProbeTypeOK, CrawlFirst, FoundIfShown, Joined, probeVars
  <2> QED
    BY <2>2, <2>3
<1>2. CASE StartProbes
  <2>1. CrawlInv'
    BY <1>2, CrawlInvStutters DEF StartProbes
  <2>2. /\ stage = "crawling" /\ phase = "done" /\ stage' = "probing"
        /\ probe' = [h \in Common |-> "resolving"]
        /\ UNCHANGED <<crawlVars, awaited, candidates, evidence, shown>>
    BY <1>2 DEF StartProbes
  <2>3. awaited = {} /\ shown = {}
    BY <2>2 DEF ProbeTypeOK, CrawlFirst, FoundIfShown
  <2>4. ProbeTypeOK' /\ CrawlFirst' /\ FoundIfShown' /\ Joined'
    BY <2>2, <2>3
       DEF ProbeTypeOK, CrawlFirst, FoundIfShown, Joined, ProbeStates, crawlVars
  <2> QED
    BY <2>1, <2>4
<1>3. ASSUME NEW h \in Common, Resolve(h) \/ AskHead(h)
      PROVE  DiscoveryInv'
  <2>1. PICK s \in {"found", "asking", "absent"} :
           /\ probe' = [probe EXCEPT ![h] = s]
           /\ shown' = IF s = "found" THEN shown \cup {h} ELSE shown
           /\ UNCHANGED <<crawlVars, stage, awaited, candidates, evidence>>
           /\ probe[h] \in {"resolving", "asking"}
    BY <1>3 DEF Resolve, AskHead, HttpHeadOk, HeadAnswers
  <2>2. CrawlInv'
    BY <2>1, CrawlInvStutters
  <2>3. h \notin awaited /\ stage \in {"probing", "cancelled"}
    BY <2>1 DEF FoundIfShown, CrawlFirst, Joined, ProbeTypeOK
  <2>4. ProbeTypeOK' /\ CrawlFirst'
    BY <2>1, <2>3 DEF ProbeTypeOK, CrawlFirst, ProbeStates, crawlVars
  <2>5. FoundIfShown' /\ Joined'
    BY <2>1, <2>3 DEF FoundIfShown, Joined, ProbeTypeOK
  <2> QED
    BY <2>2, <2>4, <2>5
<1>4. ASSUME NEW h \in Common, Await(h)
      PROVE  DiscoveryInv'
  <2>1. CrawlInv'
    BY <1>4, CrawlInvStutters DEF Await
  <2>2. ProbeTypeOK' /\ CrawlFirst' /\ FoundIfShown' /\ Joined'
    BY <1>4 DEF Await, ProbeTypeOK, CrawlFirst, FoundIfShown, Joined, crawlVars
  <2> QED
    BY <2>1, <2>2
<1>5. CASE Join
  <2>1. CrawlInv'
    BY <1>5, CrawlInvStutters DEF Join
  <2>2. ProbeTypeOK' /\ CrawlFirst' /\ FoundIfShown'
    BY <1>5 DEF Join, ProbeTypeOK, CrawlFirst, FoundIfShown, crawlVars
  <2>3. Joined'
    BY <1>5 DEF Join, AllAwaited, Joined, Candidates, Crawled, Probed, crawlVars, resultVars
  <2> QED
    BY <2>1, <2>2, <2>3
<1>6. CASE Cancel
  <2>1. CrawlInv'
    BY <1>6, CrawlInvStutters DEF Cancel
  <2>2. /\ stage = "probing" /\ stage' = "cancelled"
        /\ UNCHANGED <<crawlVars, awaited, candidates, evidence, shown>>
    BY <1>6 DEF Cancel
  <2>3. CASE UNCHANGED probe
    BY <2>1, <2>2, <2>3 DEF ProbeTypeOK, CrawlFirst, FoundIfShown, Joined, crawlVars
  <2>4. ASSUME NEW h \in Common \ awaited, probe[h] \in {"resolving", "asking"},
               probe' = [probe EXCEPT ![h] = "cancelled"]
        PROVE  DiscoveryInv'
    BY <2>1, <2>2, <2>4
       DEF ProbeTypeOK, CrawlFirst, FoundIfShown, Joined, ProbeStates, crawlVars
  <2> QED
    BY <1>6, <2>3, <2>4 DEF Cancel
<1>7. CASE UNCHANGED vars
  <2>1. UNCHANGED crawlVars /\ UNCHANGED probeVars
    BY <1>7 DEF vars
  <2>2. CrawlInv'
    BY <2>1, CrawlInvStutters
  <2>3. ProbeTypeOK' /\ CrawlFirst' /\ FoundIfShown' /\ Joined'
    BY <2>1 DEF ProbeTypeOK, CrawlFirst, FoundIfShown, Joined, Candidates, Crawled, Probed,
                probeVars, crawlVars, resultVars
  <2> QED
    BY <2>2, <2>3
<1> QED
  BY <1>1, <1>2, <1>3, <1>4, <1>5, <1>6, <1>7 DEF Next, Step, Over

\* The invariant holds in every reachable state.
THEOREM DiscoveryInvariant == Spec => []DiscoveryInv
<1>1. Init => DiscoveryInv
  BY DiscoveryStarts
<1>2. DiscoveryInv /\ [Next]_vars => DiscoveryInv'
  BY DiscoveryKeepsInv
<1> QED
  BY <1>1, <1>2, PTL DEF Spec

-----------------------------------------------------------------------------
(* The theorems.                                                           *)

\* Type correctness; the candidates are subdomains of the target.
THEOREM DiscoveryTypes == Spec => []TypeOK
<1>1. DiscoveryInv => TypeOK
  <2> SUFFICES ASSUME DiscoveryInv PROVE TypeOK
    OBVIOUS
  <2>1. Crawled \subseteq Subdomains /\ Probed \subseteq Subdomains
    BY CommonAssumption DEF Crawled, Probed, DiscoveryInv, ProbeTypeOK
  <2>2. candidates \subseteq [subdomain : Subdomains, source : {"crawl", "probe"}]
    BY <2>1 DEF DiscoveryInv, Joined, Candidates
  <2>3. DOMAIN evidence \subseteq Subdomains
    BY <2>1 DEF DiscoveryInv, Joined
  <2>4. shown \subseteq Common
    BY DEF DiscoveryInv, FoundIfShown
  <2> QED
    BY <2>2, <2>3, <2>4 DEF TypeOK, DiscoveryInv, CrawlInv, ProbeTypeOK
<1> QED
  BY <1>1, DiscoveryInvariant, PTL

\* No page is asked for twice (crawler.py 252, 277-286).
THEOREM PagesAskedOnce == Spec => []AskedOnce
<1>1. DiscoveryInv => AskedOnce
  BY DEF DiscoveryInv, CrawlInv
<1> QED
  BY <1>1, DiscoveryInvariant, PTL

\* What the crawler itself asks for keeps to its hosts, its paths, its depth and
\* the rules it read (crawler.py 214-252, 312-363).  The theorem says nothing of
\* where a redirect leads from there.
THEOREM CrawlPolite == Spec => []Polite
<1>1. DiscoveryInv => Polite
  BY DEF DiscoveryInv, CrawlInv
<1> QED
  BY <1>1, DiscoveryInvariant, PTL

\* The page cap stops every request after the last page (crawler.py 222-225).
THEOREM PageCapHolds == Spec => []CapHolds
<1>1. DiscoveryInv => CapHolds
  BY DEF DiscoveryInv, CrawlInv
<1> QED
  BY <1>1, DiscoveryInvariant, PTL

\* The walk is breadth first: a depth is a distance (crawler.py 219, 277-286).
THEOREM DepthIsDistance == Spec => []ShortestPath
<1>1. DiscoveryInv => ShortestPath
  BY InvShortestPath DEF DiscoveryInv
<1> QED
  BY <1>1, DiscoveryInvariant, PTL

\* Below the cap no link of a page read is forgotten (crawler.py 221-291).
THEOREM CrawlComplete == Spec => []NothingMissed
<1>1. DiscoveryInv => NothingMissed
  BY InvNothingMissed DEF DiscoveryInv
<1> QED
  BY <1>1, DiscoveryInvariant, PTL

\* No two findings of one discover() share a fingerprint (subdomain.py 144-170).
THEOREM DistinctFingerprints == Spec => []FingerprintsDistinct
<1>1. DiscoveryInv => FingerprintsDistinct
  BY DEF DiscoveryInv, Joined, Candidates, FingerprintsDistinct, FindingOf
<1> QED
  BY <1>1, DiscoveryInvariant, PTL

\* Every candidate goes back to an answer or to a URL of the site
\* (subdomain_finder.py 82-151, 180-229).
THEOREM ReportsAreGrounded == Spec => []ReportedWereSeen
<1>1. DiscoveryInv => ReportedWereSeen
  <2> SUFFICES ASSUME DiscoveryInv, NEW c \in candidates
               PROVE  IF c.source = "probe" THEN c.subdomain \in shown
                      ELSE \E u \in visited :
                              /\ Host[u] = c.subdomain
                              /\ \/ u \in Requested \cup {RobotsOf[start]}
                                 \/ \E j \in Read : u \in web[log[j].url]
    BY DEF ReportedWereSeen
  <2>1. CASE c \in [subdomain : Probed \ Crawled, source : {"probe"}]
    BY <2>1 DEF DiscoveryInv, ProbeTypeOK, FoundIfShown, Probed
  <2>2. CASE c \in [subdomain : Crawled, source : {"crawl"}]
    <3>1. PICK u \in visited : Host[u] = c.subdomain
      BY <2>2 DEF Crawled
    <3>2. ASSUME NEW i \in DOMAIN frontier, frontier[i].url = u, u # RobotsOf[start]
          PROVE  \E j \in Read : u \in web[log[j].url]
      <4>1. log # <<>>
        BY <3>2 DEF DiscoveryInv, CrawlInv, Fresh
      <4>2. FoundAt(frontier[i].url, frontier[i].depth)
        BY <4>1 DEF DiscoveryInv, CrawlInv, Queued, Found
      <4> QED
        BY <3>2, <4>2 DEF FoundAt
    <3>3. u \in Requested \cup {RobotsOf[start]} \/ \E j \in Read : u \in web[log[j].url]
      BY <3>2 DEF DiscoveryInv, CrawlInv, MarkedFor, Requested
    <3> QED
      BY <2>2, <3>1, <3>3
  <2> QED
    BY <2>1, <2>2 DEF DiscoveryInv, Joined, Candidates
<1> QED
  BY <1>1, DiscoveryInvariant, PTL

\* A host in scope that resolved or answered is among the candidates
\* (subdomain_finder.py 155-178).
THEOREM AnswersAreReported == Spec => []SeenAreReported
<1>1. DiscoveryInv => SeenAreReported
  <2> SUFFICES ASSUME DiscoveryInv, stage = "returned", NEW h \in shown \cap InScope
               PROVE  \E c \in candidates : c.subdomain = h
    BY DEF SeenAreReported
  <2>1. h \in Probed
    BY DEF DiscoveryInv, FoundIfShown, Joined, Probed
  <2>2. CASE h \in Crawled
    <3>1. [subdomain |-> h, source |-> "crawl"] \in candidates
      BY <2>2 DEF DiscoveryInv, Joined, Candidates
    <3> QED
      BY <3>1
  <2>3. CASE h \notin Crawled
    <3>1. [subdomain |-> h, source |-> "probe"] \in candidates
      BY <2>1, <2>3 DEF DiscoveryInv, Joined, Candidates
    <3> QED
      BY <3>1
  <2> QED
    BY <2>2, <2>3
<1> QED
  BY <1>1, DiscoveryInvariant, PTL

\* No probe outlives a discover() that returned (subdomain_finder.py 155-178).
THEOREM ProbesAreOver == Spec => []NoStrayProbe
<1>1. DiscoveryInv => NoStrayProbe
  BY DEF DiscoveryInv, FoundIfShown, Joined, NoStrayProbe
<1> QED
  BY <1>1, DiscoveryInvariant, PTL
=============================================================================
