--------------------------- MODULE SessionCookie ---------------------------
(***************************************************************************)
(* checks/session_cookie.py with validation/confidence.py and the oracle   *)
(* classes: what the session cookie of the home page is exposed to, and    *)
(* how assess() scores it.                                                 *)
(*                                                                         *)
(* The cookie is in the marks of the home page: "cookie" that there is     *)
(* one, "httponly", "samesite" and "secure" its attributes, "short token"  *)
(* and "weak token" what its value comes to, "token leaked" a token in the *)
(* body.  With "several" there is a second cookie, which is bare, and a    *)
(* second token.  The operators are named as in InjectionChecks.           *)
(***************************************************************************)
EXTENDS Probing

Canary(p) == Get(p, <<"canary">>)

CookieRequests == <<Home>> \o [i \in DOMAIN Params |-> Canary(Params[i])]

\* _quick_xss_probe: the requests whose canary came back.
Reflected(log) == {r \in DOMAIN log \ {Home} : Status(log, r, {200}) /\ Marked(log, r, "canary")}

\* Without a cookie there is no probe, and none after the first that is reflected.
CookieSkips(log, r) == r # Home /\ (~ Marked(log, Home, "cookie") \/ Reflected(log) # {})

\* The attributes of a session cookie and what its value comes to.
CookieMarks(log, n) == IF n = 1 THEN log[Home].marks ELSE {}

\* _check_browser_vector: with a reflection the gap is a chain, shown by the probe.
Browser(log, n) ==
    LET gaps == {"httponly", "samesite"} \ CookieMarks(log, n)
        chained(gap) == IF gap = "httponly" THEN "xss_steals_session" ELSE "csrf_via_xss"
        alone(gap) == IF gap = "httponly" THEN "httponly_missing_no_xss" ELSE "samesite_missing"
    IN  IF Reflected(log) = {} THEN {Candidate(Home, alone(gap)) : gap \in gaps}
        ELSE {Candidate(r, chained(gap)) : r \in Reflected(log), gap \in gaps}

\* _check_network_vector
Network(https, log, n) ==
    IF https /\ "secure" \notin CookieMarks(log, n)
    THEN {Candidate(Home, "secure_missing_over_https")} ELSE {}

\* _check_server_vector: low entropy, or fewer characters than a token has.
Server(log, n) ==
    IF {"short token", "weak token"} \cap CookieMarks(log, n) # {}
    THEN {Candidate(Home, "weak_token")} ELSE {}

\* _token_leakage_candidates, also of a page without a cookie: one for every
\* token name in it.
Leakage(log) ==
    IF Marked(log, Home, "token leaked")
    THEN {Nth(n, Candidate(Home, "token_in_response_body")) : n \in Copies(log[Home])} ELSE {}

\* The vectors of one cookie, then of the next.
OfCookie(https, log, n) == Browser(log, n) \cup Network(https, log, n) \cup Server(log, n)

CookieCandidates(https, log) ==
    Leakage(log)
    \cup IF Marked(log, Home, "cookie")
         THEN UNION {{Nth(n, c) : c \in OfCookie(https, log, n)} : n \in Copies(log[Home])}
         ELSE {}

Gaps == {"httponly_missing_no_xss", "samesite_missing"}
Chains == {"xss_steals_session", "csrf_via_xss"}

\* Of enough entropy and merely short.
Borderline(log, c) == c.issue = "weak_token" /\ "weak token" \notin log[Home].marks

\* Faulty variant: a chain of two observations is held to be likely only.
CookieVerdictChained(log, c) ==
    CASE c.issue \in Gaps \cup Chains -> Likely("low")
      [] Borderline(log, c) -> Likely("medium")
      [] OTHER -> Confirmed

CookieVerdict(log, c) ==
    CASE c.issue \in Gaps -> Likely("low")
      [] Borderline(log, c) -> Likely("medium")
      [] OTHER -> Confirmed

CookieSeverity(c) ==
    CASE c.issue = "xss_steals_session" -> "critical"
      [] c.issue \in Gaps -> "low"
      [] OTHER -> "high"

-----------------------------------------------------------------------------
(* The confidence that assess() computes; weights are in tenths, scores in *)
(* thousandths.                                                            *)

Signal(dimension, weight) == [dimension |-> dimension, weight |-> weight]

\* _signals_for_subkind
Signals(log, c) ==
    CASE c.issue \in Chains -> {Signal("response", 10), Signal("response", 8)}
      [] c.issue \in Gaps -> {Signal("response", 4)}
      [] Borderline(log, c) -> {Signal("behavior", 5)}
      [] c.issue = "weak_token" /\ ~ Borderline(log, c) -> {Signal("behavior", 10)}
      [] OTHER -> {Signal("response", 10)}

\* _oracle_for_subkind
OracleOf(c) ==
    CASE c.issue \in Chains -> 4
      [] c.issue \in Gaps -> 1
      [] OTHER -> 2

\* ConfidenceScorer.score: of every dimension the heaviest signal counts, and
\* each dimension after the first adds half of the oracle, up to the fourth.
Score(oracle, signals) ==
    LET dimensions == {s.dimension : s \in signals}
        heaviest(d) == Max({s.weight : s \in {t \in signals : t.dimension = d}})
        aggregated == FoldSet(LAMBDA d, sum : sum + heaviest(d), 0, dimensions)
        halves == 1 + Min({Cardinality(dimensions), 4})
    IN  IF signals = {} THEN 0
        ELSE (oracle * halves * (1000 + 5 * aggregated)) \div 2

\* ConfidenceScore.to_confidence
ToConfidence(score) ==
    CASE score >= 4000 -> "confirmed"
      [] score >= 3000 /\ score < 4000 -> "high"
      [] score >= 2000 /\ score < 3000 -> "medium"
      [] score >= 1000 /\ score < 2000 -> "low"
      [] OTHER -> "tentative"

Scored(log, c) == ToConfidence(Score(OracleOf(c), Signals(log, c)))
=============================================================================
