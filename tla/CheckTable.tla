---------------------------- MODULE CheckTable ----------------------------
(***************************************************************************)
(* The hooks of every check, by name, as plugins/base.py declares them and *)
(* the orchestrator calls them.                                            *)
(*                                                                         *)
(* s is the setting of a scan: the effective authorization auth, the       *)
(* principals ps, the identities ids of the ApplicationModel, the scheme   *)
(* https of the target, and plan and ceiling, the ones that a check from   *)
(* an entry point of another package ("plugin") gives to the gate.         *)
(***************************************************************************)
EXTENDS InjectionChecks, AccessChecks, SurfaceChecks, SessionCookie

Passive == {"security-headers", "information-disclosure", "cors-policy", "http-methods",
            "open-redirect-indicator", "source-map-exposure", "session-cookie",
            "mass-assignment"}
Gated == {"sqli-time-based", "command-injection", "path-traversal", "xss-reflected", "ssrf",
          "bola-idor", "bfla-behavior", "plugin"}
Ungated == {"bfla", "graphql", "session-invalidation"}
CheckNames == Passive \cup Gated \cup Ungated

\* The early returns of discover() before anything is sent or asked.
AllowedBy(check, s) ==
    CASE check \in Passive \cup {"plugin"} -> TRUE
      [] check = "sqli-time-based" -> SqliAllowed(s.auth)
      [] check = "command-injection" -> CmdiAllowed(s.auth)
      [] check = "path-traversal" -> TraversalAllowed(s.auth)
      [] check = "xss-reflected" -> XssAllowed(s.auth)
      [] check = "ssrf" -> SsrfAllowed(s.auth)
      [] check = "bola-idor" -> BolaAllowed(s.auth, s.ps)
      [] check = "bfla" -> BflaAllowed(s.auth, s.ps)
      [] check = "bfla-behavior" -> BehaviorAllowed(s.auth, s.ids)
      [] check = "session-invalidation" -> InvalidationAllowed(s.auth, s.ids)
      [] check = "graphql" -> GraphqlAllowed(s.auth)

\* The ActionPlan of a gated check.
PlanOf(check, s) ==
    CASE check = "sqli-time-based" -> SqliPlan
      [] check = "command-injection" -> CmdiPlan
      [] check = "path-traversal" -> TraversalPlan
      [] check = "xss-reflected" -> XssPlan
      [] check = "ssrf" -> SsrfPlan
      [] check = "bola-idor" -> BolaPlan
      [] check = "bfla-behavior" -> BehaviorPlan
      [] check = "plugin" -> s.plan

\* What gate.ask() gets for max_destructive_level: no check of this package
\* passes any, so it is the default.
CeilingOf(check, s) == IF check = "plugin" THEN s.ceiling ELSE 2

\* Everything discover() may send, in order.
RequestsOf(check, s) ==
    CASE check = "sqli-time-based" -> SqliRequests
      [] check = "command-injection" -> CmdiRequests
      [] check = "path-traversal" -> TraversalRequests
      [] check = "xss-reflected" -> XssRequests
      [] check = "ssrf" -> SsrfRequests
      [] check = "bola-idor" -> BolaRequests(s.ps)
      [] check = "bfla" -> BflaRequests(s.ps)
      [] check = "bfla-behavior" -> BehaviorRequests(s.ids)
      [] check = "session-invalidation" -> InvalidationRequests(s.ids)
      [] check = "mass-assignment" -> AssignmentRequests
      [] check = "security-headers" -> HeadersRequests
      [] check = "cors-policy" -> CorsRequests
      [] check = "http-methods" -> MethodsRequests
      [] check = "information-disclosure" -> DisclosureRequests
      [] check = "source-map-exposure" -> MapsRequests
      [] check = "open-redirect-indicator" -> RedirectRequests
      [] check = "graphql" -> GraphqlRequests
      [] check = "session-cookie" -> CookieRequests
      [] check = "plugin" -> <<Home>>

\* What discover() leaves out after the answers so far.
SkipsBy(check, s, log, r) ==
    CASE check = "sqli-time-based" -> SqliSkips(log, r)
      [] check = "command-injection" -> CmdiSkips(log, r)
      [] check = "path-traversal" -> TraversalSkips(log, r)
      [] check = "xss-reflected" -> XssSkips(log, r)
      [] check = "ssrf" -> SsrfSkips(log, r)
      [] check = "bola-idor" -> BolaSkips(s.ps, log, r)
      [] check = "session-invalidation" -> InvalidationSkips(log, r)
      [] check = "information-disclosure" -> DisclosureSkips(log, r)
      [] check = "source-map-exposure" -> MapsSkips(log, r)
      [] check = "open-redirect-indicator" -> RedirectSkips(log, r)
      [] check = "graphql" -> GraphqlSkips(log, r)
      [] check = "session-cookie" -> CookieSkips(log, r)
      [] OTHER -> FALSE

\* discover() has no except clause around its requests.
LetsRaise == {"cors-policy", "http-methods"}

CandidatesOf(check, s, log) ==
    CASE check = "sqli-time-based" -> SqliCandidates(log)
      [] check = "command-injection" -> CmdiCandidates(log)
      [] check = "path-traversal" -> TraversalCandidates(log)
      [] check = "xss-reflected" -> XssCandidates(log)
      [] check = "ssrf" -> SsrfCandidates(log)
      [] check = "bola-idor" -> BolaCandidates(s.ps, log)
      [] check = "bfla" -> BflaCandidates(log)
      [] check = "bfla-behavior" -> BehaviorCandidates(s.ids, log)
      [] check = "session-invalidation" -> InvalidationCandidates(log)
      [] check = "mass-assignment" -> AssignmentCandidates(log)
      [] check = "security-headers" -> HeadersCandidates(log)
      [] check = "cors-policy" -> CorsCandidates(log)
      [] check = "http-methods" -> MethodsCandidates(log)
      [] check = "information-disclosure" -> DisclosureCandidates(log)
      [] check = "source-map-exposure" -> MapsCandidates(log)
      [] check = "open-redirect-indicator" -> RedirectCandidates(log)
      [] check = "graphql" -> GraphqlCandidates(log)
      [] check = "session-cookie" -> CookieCandidates(s.https, log)
      [] check = "plugin" -> {}

\* validate()
VerdictOf(check, log, c) ==
    CASE check = "sqli-time-based" -> SqliVerdict(log, c)
      [] check = "command-injection" -> CmdiVerdict(c)
      [] check = "path-traversal" -> TraversalVerdict(c)
      [] check = "xss-reflected" -> XssVerdict(c)
      [] check = "ssrf" -> SsrfVerdict(c)
      [] check = "bola-idor" -> BolaVerdict(c)
      [] check = "bfla" -> BflaVerdict(log, c)
      [] check = "bfla-behavior" -> BehaviorVerdict(c)
      [] check = "session-invalidation" -> InvalidationVerdict(c)
      [] check = "mass-assignment" -> AssignmentVerdict(c)
      [] check = "security-headers" -> HeadersVerdict(c)
      [] check = "cors-policy" -> CorsVerdict(c)
      [] check = "http-methods" -> MethodsVerdict(c)
      [] check = "information-disclosure" -> DisclosureVerdict(c)
      [] check = "source-map-exposure" -> MapsVerdict(c)
      [] check = "open-redirect-indicator" -> RedirectVerdict(c)
      [] check = "graphql" -> GraphqlVerdict(log, c)
      [] check = "session-cookie" -> CookieVerdict(log, c)

\* The exchanges that collect_evidence() hands on.
EvidenceOf(check, s, c) ==
    CASE check = "bola-idor" -> BolaEvidence(s.ps, c)
      [] check = "cors-policy" -> CorsEvidence(c)
      [] check = "http-methods" -> MethodsEvidence(c)
      [] OTHER -> {c.shown}

\* The severity of assess().
SeverityOf(check, c) ==
    CASE check = "sqli-time-based" -> SqliSeverity(c)
      [] check = "command-injection" -> CmdiSeverity(c)
      [] check = "path-traversal" -> TraversalSeverity(c)
      [] check = "xss-reflected" -> XssSeverity(c)
      [] check = "ssrf" -> SsrfSeverity(c)
      [] check = "bola-idor" -> BolaSeverity(c)
      [] check = "bfla" -> BflaSeverity(c)
      [] check = "bfla-behavior" -> BehaviorSeverity(c)
      [] check = "session-invalidation" -> InvalidationSeverity(c)
      [] check = "mass-assignment" -> AssignmentSeverity(c)
      [] check = "security-headers" -> HeadersSeverity(c)
      [] check = "cors-policy" -> CorsSeverity(c)
      [] check = "http-methods" -> MethodsSeverity(c)
      [] check = "information-disclosure" -> DisclosureSeverity(c)
      [] check = "source-map-exposure" -> MapsSeverity(c)
      [] check = "open-redirect-indicator" -> RedirectSeverity(c)
      [] check = "graphql" -> GraphqlSeverity(c)
      [] check = "session-cookie" -> CookieSeverity(c)
===========================================================================
