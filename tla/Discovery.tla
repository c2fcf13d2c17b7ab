----------------------------- MODULE Discovery -----------------------------
(***************************************************************************)
(* plugins/discovery/subdomain.py with discovery/subdomain_finder.py: one  *)
(* discover() of the subdomain check.  It crawls the target, takes the     *)
(* hosts of the URLs visited, probes the common prefixes in concurrent     *)
(* tasks (DNS first, then HTTP HEAD) and joins the two lists into          *)
(* candidates, each of which becomes a finding.                            *)
(***************************************************************************)
EXTENDS Crawler

CONSTANTS
    Subdomains,   \* the hosts is_subdomain accepts, the root among them
    Common,       \* {prefix}.{root} for the COMMON_PREFIXES
    InScope       \* those of them the ScopeController lets requests out to

ASSUME CommonAssumption == Common \subseteq Subdomains /\ InScope \subseteq Subdomains

VARIABLES
    stage,        \* where discover() is
    probe,        \* the state of each probing task
    awaited,      \* the tasks probe_common has awaited
    candidates,   \* what discover() returned: [subdomain, source]
    evidence,     \* self._evidence_cache: a host to the source it was seen by
    shown         \* history: the hosts that resolved or answered

probeVars == <<stage, probe, awaited, candidates, evidence, shown>>
vars == <<crawlVars, probeVars>>

ProbeStates == {"none", "resolving", "asking", "found", "absent", "cancelled"}

Init ==
    /\ CrawlInit
    /\ stage = "crawling"
    /\ probe = [h \in Common |-> "none"]
    /\ awaited = {}
    /\ candidates = {}
    /\ evidence = <<>>
    /\ shown = {}

\* The crawl inside discover().
Crawl == CrawlStep /\ UNCHANGED probeVars

\* The tasks of probe_common are created together.
StartProbes ==
    /\ stage = "crawling" /\ phase = "done"
    /\ stage' = "probing"
    /\ probe' = [h \in Common |-> "resolving"]
    /\ UNCHANGED <<crawlVars, awaited, candidates, evidence, shown>>

\* The DNS half of _probe_one, which asks no scope; a resolver that raises
\* counts as no address.
Resolve(h) ==
    /\ probe[h] = "resolving"
    /\ \/ probe' = [probe EXCEPT ![h] = "found"] /\ shown' = shown \cup {h}
       \/ probe' = [probe EXCEPT ![h] = "asking"] /\ UNCHANGED shown
    /\ UNCHANGED <<crawlVars, stage, awaited, candidates, evidence>>

\* What HEAD can bring: a 2xx or 3xx, another status, an error or an exception,
\* and nothing but the exception for a host out of scope.
HeadAnswers(h) ==
    IF h \in InScope THEN {"alive", "refused", "error", "raised"} ELSE {"raised"}

\* Faulty variant: every answer without an error counts.
HttpHeadOkAnyStatus(answer) == answer \in {"alive", "refused"}

\* _http_head_ok.
HttpHeadOk(answer) == answer = "alive"

\* Faulty variant: an exception sends the probe back to its first half.
AskHeadAgain(h) ==
    /\ probe[h] = "asking"
    /\ \E answer \in HeadAnswers(h) :
          /\ probe' = [probe EXCEPT ![h] = IF HttpHeadOk(answer) THEN "found"
                                          ELSE IF answer = "raised" THEN "resolving"
                                          ELSE "absent"]
          /\ shown' = IF answer = "alive" THEN shown \cup {h} ELSE shown
    /\ UNCHANGED <<crawlVars, stage, awaited, candidates, evidence>>

\* The HTTP half of _probe_one.
AskHead(h) ==
    /\ probe[h] = "asking"
    /\ \E answer \in HeadAnswers(h) :
          /\ probe' = [probe EXCEPT ![h] = IF HttpHeadOk(answer) THEN "found" ELSE "absent"]
          /\ shown' = IF answer = "alive" THEN shown \cup {h} ELSE shown
    /\ UNCHANGED <<crawlVars, stage, awaited, candidates, evidence>>

\* probe_common awaits its tasks one after the other.
Await(h) ==
    /\ stage = "probing"
    /\ probe[h] \in {"found", "absent"} /\ h \notin awaited
    /\ awaited' = awaited \cup {h}
    /\ UNCHANGED <<crawlVars, stage, probe, candidates, evidence, shown>>

\* Faulty variant: the hosts of all visited URLs.
CrawledAnyHost == {Host[u] : u \in visited}

\* extract_from_urls over urls_visited.
Crawled == {Host[u] : u \in visited} \cap Subdomains
Probed == {h \in awaited : probe[h] = "found"}

\* Faulty variant: probing is the fallback of a crawl that saw no subdomain.
CandidatesFallback ==
    IF Crawled # {} THEN [subdomain : Crawled, source : {"crawl"}]
    ELSE [subdomain : Probed, source : {"probe"}]

\* Faulty variant: a host seen by both signals is listed for each.
CandidatesPerSignal ==
    [subdomain : Crawled, source : {"crawl"}] \cup [subdomain : Probed, source : {"probe"}]

\* The crawl wins ties.
Candidates ==
    [subdomain : Crawled, source : {"crawl"}]
        \cup [subdomain : Probed \ Crawled, source : {"probe"}]

\* Faulty variant: the tasks are joined as soon as one of them is over.
AllAwaitedEarly == awaited # {} \/ Common = {}

AllAwaited == awaited = Common

\* The end of discover(): the candidates, and the evidence made for each.
Join ==
    /\ stage = "probing" /\ AllAwaited
    /\ stage' = "returned"
    /\ candidates' = Candidates
    /\ evidence' = [h \in Crawled \cup Probed |-> IF h \in Crawled THEN "crawl" ELSE "probe"]
    /\ UNCHANGED <<crawlVars, probe, awaited, shown>>

\* The scan is cancelled: the task being awaited is cancelled with it, the
\* other tasks go on.
Cancel ==
    /\ stage = "probing"
    /\ stage' = "cancelled"
    /\ \/ \E h \in Common \ awaited :
             /\ probe[h] \in {"resolving", "asking"}
             /\ probe' = [probe EXCEPT ![h] = "cancelled"]
       \/ AllAwaited /\ UNCHANGED probe
    /\ UNCHANGED <<crawlVars, awaited, candidates, evidence, shown>>

\* assess(): one finding of a fingerprint of its own per candidate.
FindingOf(c) ==
    [fingerprint |-> c.subdomain, severity |-> "info", confidence |-> "high",
     status |-> "CONFIRMED", evidence |-> evidence[c.subdomain]]

Step ==
    \/ Crawl \/ StartProbes \/ Join
    \/ \E h \in Common : Resolve(h) \/ AskHead(h) \/ Await(h)

Over == stage \in {"returned", "cancelled"} /\ UNCHANGED vars

Next == Step \/ Cancel \/ Over

Spec == Init /\ [][Next]_vars
FairSpec == Spec /\ WF_vars(Step)

-----------------------------------------------------------------------------
(* Properties.                                                             *)

\* Types.
TypeOK ==
    /\ CrawlTypeOK
    /\ stage \in {"crawling", "probing", "returned", "cancelled"}
    /\ probe \in [Common -> ProbeStates]
    /\ awaited \subseteq Common
    /\ candidates \subseteq [subdomain : Subdomains, source : {"crawl", "probe"}]
    /\ DOMAIN evidence \subseteq Subdomains
    /\ shown \subseteq Common

\* Two findings of one discover() never share a fingerprint, so the
\* deduplicator merges a subdomain only with itself (subdomain.py 144-170).
FingerprintsDistinct ==
    \A c, d \in candidates :
        FindingOf(c).fingerprint = FindingOf(d).fingerprint => c = d

\* A subdomain reported by probing resolved or answered HEAD with a 2xx or
\* 3xx; one reported by crawling is the host of a URL that was asked for, that
\* a page read links to, or of the robots.txt asked for
\* (subdomain_finder.py 82-151, 180-229).
ReportedWereSeen ==
    \A c \in candidates :
        IF c.source = "probe" THEN c.subdomain \in shown
        ELSE \E u \in visited :
                /\ Host[u] = c.subdomain
                /\ \/ u \in Requested \cup {RobotsOf[start]}
                   \/ \E j \in Read : u \in web[log[j].url]

\* Every host in scope that resolved or answered by the time discover()
\* returns is reported, by whichever signal (subdomain_finder.py 155-178).
SeenAreReported ==
    stage = "returned" => shown \cap InScope \subseteq {c.subdomain : c \in candidates}

\* The documented scope of the probes: for a host out of scope "we record
\* nothing for that candidate" (plugins/discovery/subdomain.py 16-18).
ProbesInScope ==
    \A c \in candidates : c.source = "probe" => c.subdomain \in InScope

\* Nothing is sent for a discover() that has returned (155-178); one that was
\* cancelled leaves its other probes behind.
NoStrayProbe ==
    stage = "returned" => \A h \in Common : probe[h] \in {"found", "absent"}

\* Every probe comes to its end, also the ones left behind by a cancellation.
ProbesEnd ==
    <>[](/\ stage \in {"returned", "cancelled"}
         /\ \A h \in Common : probe[h] \notin {"resolving", "asking"})
=============================================================================
