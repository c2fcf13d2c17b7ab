--------------------------- MODULE SurfaceChecks ---------------------------
(***************************************************************************)
(* The checks that look at what a page and its headers give away:          *)
(* headers_security.py, cors.py, http_methods.py, disclosure.py,           *)
(* source_maps.py, redirect.py, graphql.py and session_cookie.py.  The     *)
(* operators are named as in InjectionChecks; all but graphql.py are of    *)
(* profile PASSIVE and ask neither the authorization nor the gate.         *)
(***************************************************************************)
EXTENDS Probing

OK == {200}
AtPaths(F(_)) == [i \in DOMAIN Paths |-> F(Paths[i])]
NoHome(log, r) == r # Home /\ ~ Returned(log, Home)

-----------------------------------------------------------------------------
(* headers_security.py, with two of its six rules: a header that is missed *)
(* or judged by its value, and one of which any value will do.             *)

HeadersRequests == <<Home>>

\* Missing headers count also of an answer that is a transport error.
HeadersCandidates(log) ==
    IF ~ Returned(log, Home) THEN {}
    ELSE {Candidate(Home, i) : i \in
            (IF "csp" \in log[Home].marks THEN {} ELSE {"csp missing"})
            \cup (IF {"csp", "csp wildcard"} \subseteq log[Home].marks
                  THEN {"csp wildcard"} ELSE {})
            \cup (IF "permissions" \in log[Home].marks THEN {} ELSE {"permissions missing"})}

HeadersVerdict(c) == Confirmed
HeadersSeverity(c) ==
    CASE c.issue = "csp missing" -> "medium"
      [] c.issue = "csp wildcard" -> "high"
      [] c.issue = "permissions missing" -> "low"

-----------------------------------------------------------------------------
(* cors.py                                                                 *)

Preflight(p) == Request("OPTIONS", p, <<"evil origin">>)
Crossing(p) == Get(p, <<"evil origin">>)

CorsRequests == Each(Paths, LAMBDA p : <<Preflight(p), Crossing(p)>>)

\* _analyze; "none" stands for None.
CorsIssue(ans) ==
    IF {"origin *", "credentials"} \subseteq ans.marks THEN "wildcard_with_credentials"
    ELSE IF "origin echoed" \in ans.marks THEN "reflected_origin"
    ELSE IF "origin *" \in ans.marks THEN "wildcard_origin"
    ELSE "none"

\* One candidate per path and issue; of two that agree the preflight's stays.
CorsCandidates(log) ==
    {Candidate(r, CorsIssue(log[r])) :
        r \in {q \in DOMAIN log :
                  /\ CorsIssue(log[q]) # "none"
                  /\ q.method = "GET" =>
                        CorsIssue(log[q]) # CorsIssue(log[Preflight(q.at)])}}

CorsVerdict(c) == Confirmed

\* Both exchanges of the path, whichever of them told.
CorsEvidence(c) == {Preflight(c.tells.at), Crossing(c.tells.at)}
CorsSeverity(c) ==
    CASE c.issue = "wildcard_with_credentials" -> "critical"
      [] c.issue = "reflected_origin" -> "high"
      [] OTHER -> "low"

-----------------------------------------------------------------------------
(* http_methods.py; its five methods are represented by two.               *)

Dangerous == <<"DELETE", "TRACE">>
Options(p) == Request("OPTIONS", p, <<"methods">>)
Direct(m, p) == Request(m, p, <<"methods">>)

\* The methods are sent whatever the answer to OPTIONS.
MethodsRequests ==
    Each(Paths, LAMBDA p :
            <<Options(p)>> \o [i \in DOMAIN Dangerous |-> Direct(Dangerous[i], p)])

\* _classify
MethodsIssue(m) == IF m = "TRACE" THEN "trace_enabled" ELSE "method_allowed_without_auth"

Worked(log) == {r \in DOMAIN log : r.method # "OPTIONS" /\ log[r].status \in 200..299}
Advertised(log) ==
    {r \in DOMAIN log : r.method # "OPTIONS" /\ Marked(log, Options(r.at), r.method)}

\* A method that is advertised is known from OPTIONS, though its evidence will
\* show the direct request; one that worked takes the place of the former.
MethodsCandidates(log) ==
    {Candidate(r, MethodsIssue(r.method)) : r \in Worked(log)}
    \cup {[Candidate(r, "method_advertised_in_allow") EXCEPT !.tells = Options(r.at)] :
             r \in Advertised(log) \ Worked(log)}

MethodsVerdict(c) == Confirmed

\* The direct request, also of a method that is only known from OPTIONS.
MethodsEvidence(c) == {c.shown}
MethodsSeverity(c) == IF c.shown.method = "TRACE" THEN "medium" ELSE "high"

-----------------------------------------------------------------------------
(* disclosure.py                                                           *)

Debug(p) == Get(p, <<"debug">>)
Backup(p) == Get(p, <<"backup">>)

DisclosureRequests == <<Home>> \o AtPaths(Debug) \o AtPaths(Backup)
DisclosureSkips(log, r) == NoHome(log, r)

\* What the home page is searched for, with its severity.  Of the debug
\* paths, the well known ones are asked for and never reported; they are left out.
Leaks == [banner |-> "medium", stacktrace |-> "high", comment |-> "low"]

DisclosureCandidates(log) ==
    {Candidate(Home, leak) : leak \in {k \in DOMAIN Leaks : Marked(log, Home, k)}}
    \cup {Candidate(r, IF r.with[1] = "backup" THEN "backup_file" ELSE "exposed_debug") :
             r \in {q \in DOMAIN log \ {Home} : Status(log, q, OK) /\ log[q].size > 0}}

DisclosureVerdict(c) == Confirmed

\* The first path stands for the debug paths that are rated high, the others
\* for those that are rated lower.
DisclosureSeverity(c) ==
    CASE c.issue \in DOMAIN Leaks -> Leaks[c.issue]
      [] c.issue = "exposed_debug" /\ c.tells.at # Paths[1] -> "low"
      [] OTHER -> "high"

-----------------------------------------------------------------------------
(* source_maps.py                                                          *)

\* The script tags that a page may have: one, the same once more, and one whose
\* map is at a path that is tried in any case.
Tags == 1..3
ScriptAt == <<"script", "script", Paths[1]>>

\* The number tells apart requests for the same thing; a common path has none.
Source(n) == Get(ScriptAt[n], <<"source", n>>)
SourceMap(n) == Get(ScriptAt[n], <<"map", n>>)
CommonMap(p) == Get(p, <<"map", 0>>)

\* Every tag and every common path, whatever else names the same.
MapsRequests ==
    <<Home>> \o [n \in Tags |-> Source(n)] \o [n \in Tags |-> SourceMap(n)]
             \o AtPaths(CommonMap)

TagsOf(log) ==
    IF ~ Marked(log, Home, "script") THEN {}
    ELSE IF Marked(log, Home, "several") THEN Tags ELSE {1}

\* Without a page nothing is asked for, without a script only the common paths.
MapsSkips(log, r) ==
    \/ NoHome(log, r)
    \/ \E n \in Tags \ TagsOf(log) : r \in {Source(n), SourceMap(n)}

\* The status of the script is not asked for, that of a map is.
MapsCandidates(log) ==
    {Candidate(r, "inline_source_map_ref") :
        r \in {q \in DOMAIN log : q.with[1] = "source" /\ Marked(log, q, "map reference")}}
    \cup {Candidate(r, "exposed_source_map") :
             r \in {q \in DOMAIN log :
                       q.with[1] = "map" /\ Status(log, q, OK) /\ Marked(log, q, "json")}}

MapsVerdict(c) == IF c.issue = "exposed_source_map" THEN Confirmed ELSE Likely("medium")
MapsSeverity(c) == "medium"

-----------------------------------------------------------------------------
(* redirect.py                                                             *)

Probed(p) == Get(p, <<"next=">>)

\* One of the paths that are probed is the literal /logout.
SignOut == Get("/logout", <<"next=", "logout">>)

RedirectRequests == <<Home>> \o AtPaths(Probed) \o <<SignOut>>
RedirectSkips(log, r) == NoHome(log, r)

\* One candidate for every parameter of every link, and for every probe that
\* is redirected.
RedirectCandidates(log) ==
    (IF Marked(log, Home, "redirect link")
     THEN {Nth(n, Candidate(Home, "redirect_param")) : n \in Copies(log[Home])} ELSE {})
    \cup {Candidate(r, "redirect_param_confirmed") :
             r \in {q \in DOMAIN log \ {Home} :
                       Status(log, q, 300..399) /\ Marked(log, q, "location")}}

RedirectVerdict(c) == Likely(IF c.issue = "redirect_param" THEN "low" ELSE "medium")
RedirectSeverity(c) == "low"

-----------------------------------------------------------------------------
(* graphql.py                                                              *)

\* Active testing and the terms, but no gate.
GraphqlAllowed(a) == a.active /\ a.acknowledged

Introspection(p) == Request("POST", p, <<"__schema">>)
TypeQuery(p) == Request("POST", p, <<"__type">>)

GraphqlRequests == Each(Paths, LAMBDA p : <<Introspection(p), TypeQuery(p)>>)

\* Faulty variant: any JSON answer will do.
Json200AnyData(log, r, mark) == Status(log, r, OK) /\ Marked(log, r, "json")

\* _looks_like_json_response, and the part of data that is looked for.
Json200(log, r, mark) == Status(log, r, OK) /\ {"json", mark} \subseteq log[r].marks

\* No second query after one that raised or one that was answered.
GraphqlSkips(log, r) ==
    /\ r = TypeQuery(r.at)
    /\ \/ ~ Returned(log, Introspection(r.at))
       \/ Json200(log, Introspection(r.at), "schema")

GraphqlCandidates(log) ==
    {Candidate(r, IF r.with = <<"__type">> THEN "type_query_works" ELSE "introspection_enabled") :
        r \in {q \in DOMAIN log :
                  Json200(log, q, IF q.with = <<"__type">> THEN "type" ELSE "schema")}}

\* The size of an answer stands for the length of its list of types.
GraphqlVerdict(log, c) ==
    IF c.issue = "introspection_enabled" /\ log[c.tells].size = 0 THEN Likely("medium")
    ELSE Confirmed

GraphqlSeverity(c) == "medium"
=============================================================================
