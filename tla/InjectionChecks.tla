-------------------------- MODULE InjectionChecks --------------------------
(***************************************************************************)
(* The checks that send payloads in parameters: sqli.py,                   *)
(* command_injection.py, path_traversal.py, xss.py and ssrf.py.            *)
(*                                                                         *)
(* Of every check X: XAllowed are the early returns of discover() before   *)
(* its plan, XRequests what it may send in order, XSkips(log, r) that the  *)
(* answers so far make it leave out r, XCandidates(log) what it returns,   *)
(* XVerdict is validate() and XSeverity what assess() puts into the        *)
(* finding.  a is the effective AuthorizationConfig.                       *)
(***************************************************************************)
EXTENDS Probing

\* Times are in units of 100 ms.
Threshold == 20
Ratio == 3

Baseline(p, i) == Get(p, <<"baseline", i>>)
First == "1st"
Second == "2nd"
Samples == {First, Second}
Probe(p, x) == Get(p, <<"probe", x>>)

\* The guard of the checks that look at both flags.
ActiveAndAcknowledged(a) == a.active /\ a.acknowledged

-----------------------------------------------------------------------------
(* sqli.py                                                                 *)

SqliAllowed(a) == ActiveAndAcknowledged(a)
SqliPlan == HarmlessPlan("LOW")

\* _measure_median: samples that raised are left out, none at all is zero.
SqliMedian(log, p) ==
    LET samples == {i \in Samples : Returned(log, Baseline(p, i))}
        time(i) == log[Baseline(p, i)].time
    IN  IF samples = {} THEN 0
        ELSE IF samples = Samples THEN (time(First) + time(Second)) \div 2
        ELSE time(CHOOSE i \in samples : TRUE)

SqliRequests ==
    Each(Params, LAMBDA p : <<Baseline(p, First), Baseline(p, Second)>>
                            \o [x \in DOMAIN Payloads |-> Probe(p, Payloads[x])])

SqliSkips(log, r) == r.with[1] = "probe" /\ SqliMedian(log, r.at) = 0

\* Slower than the baseline by both thresholds; whether it failed is not asked.
SqliSlow(log, r) ==
    LET base == SqliMedian(log, r.at)
    IN  /\ Returned(log, r)
        /\ log[r].time > 0
        /\ log[r].time >= base + Threshold
        /\ log[r].time >= base * Ratio

\* Every slow payload is a candidate: a parameter may yield several.
SqliCandidates(log) ==
    {Candidate(r, "sqli") :
        r \in {q \in DOMAIN log : q.with[1] = "probe" /\ SqliSlow(log, q)}}

SqliVerdict(log, c) ==
    LET delay == log[c.tells].time
        base == SqliMedian(log, c.tells.at)
    IN  IF delay >= 3 * base /\ delay >= 20 THEN Confirmed
        ELSE IF delay >= 2 * base /\ delay >= 15 THEN Likely("medium")
        ELSE FalsePositive

SqliSeverity(c) == "high"

-----------------------------------------------------------------------------
(* command_injection.py                                                    *)

CmdiAllowed(a) == ActiveAndAcknowledged(a)
CmdiPlan == HarmlessPlan("LOW")

\* _measure_baseline.
CmdiBaseline(log, p) ==
    LET samples == {i \in Samples : Returned(log, Baseline(p, i))}
        time(i) == log[Baseline(p, i)].time
    IN  IF samples = {} THEN 0
        ELSE IF samples = Samples THEN (time(First) + time(Second)) \div 2
        ELSE time(CHOOSE i \in samples : TRUE)

CmdiSlow(log, r) ==
    /\ Returned(log, r)
    /\ log[r].time > 0
    /\ log[r].time >= CmdiBaseline(log, r.at) + 20
    /\ log[r].time >= CmdiBaseline(log, r.at) * 3

CmdiRequests ==
    Each(Params, LAMBDA p : <<Baseline(p, First), Baseline(p, Second)>>
                            \o [x \in DOMAIN Payloads |-> Probe(p, Payloads[x])])

CmdiHits(log) == {r \in DOMAIN log : r.with[1] = "probe" /\ CmdiSlow(log, r)}

\* The first slow payload ends the parameter.
CmdiSkips(log, r) ==
    /\ r.with[1] = "probe"
    /\ CmdiBaseline(log, r.at) = 0 \/ \E hit \in CmdiHits(log) : hit.at = r.at

CmdiCandidates(log) == {Candidate(r, "cmdi") : r \in CmdiHits(log)}

CmdiVerdict(c) == Confirmed
CmdiSeverity(c) == "critical"

-----------------------------------------------------------------------------
(* path_traversal.py                                                       *)

TraversalAllowed(a) == ActiveAndAcknowledged(a)
TraversalPlan == HarmlessPlan("LOW")

TraversalRequests ==
    Each(Params, LAMBDA p : <<Baseline(p, First)>>
                            \o [x \in DOMAIN Payloads |-> Probe(p, Payloads[x])])

\* Status or length differs from the baseline's, failures included.
TraversalDiffers(log, r) ==
    LET base == Baseline(r.at, First)
    IN  /\ r.with[1] = "probe" /\ Returned(log, r)
        /\ \/ log[r].status # log[base].status
           \/ log[r].size # log[base].size

\* No probe without a baseline, and none after the first that differed.
TraversalSkips(log, r) ==
    /\ r.with[1] = "probe"
    /\ \/ ~ Returned(log, Baseline(r.at, First))
       \/ \E hit \in DOMAIN log : hit.at = r.at /\ TraversalDiffers(log, hit)

\* An echo of the canary that the baseline lacks overrides the behaviour.
TraversalCandidates(log) ==
    LET base(r) == log[Baseline(r.at, First)]
        behavior(r) ==
            IF "canary" \in log[r].marks \ base(r).marks THEN "canary_reflected"
            ELSE IF log[r].status # base(r).status THEN "different_status"
            ELSE "different_length"
    IN  {Candidate(r, behavior(r)) : r \in {q \in DOMAIN log : TraversalDiffers(log, q)}}

\* Faulty variant: an echo of the canary is dismissed.
TraversalVerdictNoEcho(c) ==
    IF c.issue = "canary_reflected" THEN FalsePositive ELSE Confirmed

TraversalVerdict(c) ==
    IF c.issue = "canary_reflected" THEN Likely("low") ELSE Confirmed

TraversalSeverity(c) == "high"

-----------------------------------------------------------------------------
(* xss.py                                                                  *)

XssAllowed(a) == ActiveAndAcknowledged(a)

\* The plan carries a level though it is not destructive.
XssPlan == [risk |-> "LOW", destructive |-> FALSE, level |-> 1, word |-> FALSE]

\* A parameter that only the home page names.
Linked == "linked"
Json(path) == Request("POST", path, <<"canary">>)

XssRequests ==
    <<Home>>
    \o [i \in 1..Len(Params) + 1 |-> Get(Append(Params, Linked)[i], <<"canary">>)]
    \o [i \in DOMAIN Paths |-> Json(Paths[i])]

\* discover() gives up when the home page cannot be had.
XssSkips(log, r) ==
    /\ r # Home
    /\ \/ ~ Returned(log, Home)
       \/ r.at = Linked /\ ~ Marked(log, Home, "link")

XssCandidates(log) ==
    {Candidate(r, "reflected") :
        r \in {q \in DOMAIN log \ {Home} : Status(log, q, {200}) /\ Marked(log, q, "canary")}}

\* No candidate is escaped: the canary holds no character that is.
XssVerdict(c) == Confirmed
XssSeverity(c) == "high"

-----------------------------------------------------------------------------
(* ssrf.py                                                                 *)

\* Faulty variant: a callback domain is taken for the consent.
SsrfAllowedByCallback(a) == a.callback = "outside"

\* The callback domain must be set and hold no internal host; the terms are
\* not looked at.
SsrfAllowed(a) == a.active /\ a.callback = "outside"
SsrfPlan == HarmlessPlan("LOW")

Callback(method, p) == Request(method, p, <<"callback">>)

\* The URL-like parameters of the links, then those of the forms.
SsrfRequests ==
    <<Home>>
    \o [i \in DOMAIN Params |-> Callback("GET", Params[i])]
    \o [i \in DOMAIN Params |-> Callback("POST", Params[i])]

SsrfSkips(log, r) ==
    /\ r # Home
    /\ ~ Marked(log, Home, IF r.method = "GET" THEN "link" ELSE "form")

\* _classify_indicator; "none" stands for None.
SsrfIndicator(ans) ==
    IF ans.status \in 300..399 /\ "location" \in ans.marks THEN "redirect"
    ELSE IF "canary" \in ans.marks THEN "body_reference"
    ELSE IF {"header", "location"} \cap ans.marks # {} THEN "successful_fetch"
    ELSE "none"

SsrfCandidates(log) ==
    {Candidate(r, SsrfIndicator(log[r])) :
        r \in {q \in DOMAIN log \ {Home} :
                  Returned(log, q) /\ SsrfIndicator(log[q]) # "none"}}

SsrfVerdict(c) == Likely(IF c.issue = "redirect" THEN "medium" ELSE "low")
SsrfSeverity(c) == "high"
=============================================================================
