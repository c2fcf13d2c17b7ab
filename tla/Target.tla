------------------------------- MODULE Target -------------------------------
(***************************************************************************)
(* The server under test, as far as the checks can tell: what one that has *)
(* the flaw a check looks for and one that has not typically answer, and   *)
(* the answers that are out of the ordinary.  It is not part of the        *)
(* repository; the answers are those that the tests of the checks serve.   *)
(***************************************************************************)
EXTENDS CheckTable

Page(marks) == Answer(200, 2, 5, marks)
Refusal(status) == Answer(status, 2, 1, {})
TimedOut == Answer(Failed, 100, 0, {})
RaisedAnswer == Answer(Raised, 0, 0, {})

If(flawed, marks) == IF flawed THEN marks ELSE {}

\* The home page: links, forms, a script, and a cookie well or badly set.
HomePage(check, flawed) ==
    LET shared == {"link", "form", "script"}
    IN  CASE check = "security-headers" ->
               Page(IF flawed THEN {"csp", "csp wildcard"} ELSE {"csp", "permissions"})
          [] check = "session-cookie" ->
               Page(IF flawed THEN {"cookie", "token leaked", "short token"}
                    ELSE {"cookie", "httponly", "samesite", "secure"})
          [] check = "information-disclosure" -> Page(If(flawed, {"banner", "stacktrace"}))
          [] check = "open-redirect-indicator" -> Page(If(flawed, {"redirect link"}))
          [] OTHER -> Page(shared)

\* A page that the credentials of r may see unless their session is over.
Owned(r, dead) == IF r.by \in dead THEN Refusal(401) ELSE Page({"record"})

\* The answer of an ordinary moment.  dead holds the principals logged out.
Typical(check, s, flawed, r, dead) ==
    IF r = Home THEN HomePage(check, flawed)
    ELSE
    CASE check \in {"sqli-time-based", "command-injection"} ->
            IF flawed /\ r.with[1] = "probe" THEN Answer(200, 60, 5, {}) ELSE Page({})
      [] check = "path-traversal" ->
            IF flawed /\ r.with[1] = "probe" THEN Answer(200, 2, 9, {"canary"}) ELSE Page({})
      [] check \in {"xss-reflected", "session-cookie"} -> Page(If(flawed, {"canary"}))
      [] check = "ssrf" -> Page(If(flawed, {"canary"}))
      [] check = "bola-idor" ->
            IF flawed \/ r.with[2] = 1 THEN Owned(r, dead) ELSE Refusal(403)
      [] check = "bfla" -> IF flawed THEN Page(AdminMarkers) ELSE Refusal(403)
      [] check = "bfla-behavior" -> IF flawed THEN Page({}) ELSE Refusal(403)
      [] check = "session-invalidation" ->
            IF r.with[1] = "logout" THEN Page({}) ELSE Owned(r, dead)
      [] check = "mass-assignment" ->
            Page({"json"} \cup If(flawed, {"is_admin", "balance"}))
      [] check = "cors-policy" -> Page(If(flawed, {"origin echoed", "credentials"}))
      [] check = "http-methods" ->
            IF r.method = "OPTIONS" THEN Page(If(flawed, {"DELETE"}))
            ELSE IF flawed /\ r.method = "DELETE" THEN Page({}) ELSE Refusal(405)
      [] check = "information-disclosure" -> IF flawed THEN Page({}) ELSE Refusal(404)
      [] check = "source-map-exposure" ->
            IF r.with[1] = "source" THEN Page(If(flawed, {"map reference"}))
            ELSE IF flawed THEN Page({"json"}) ELSE Refusal(404)
      [] check = "open-redirect-indicator" -> Refusal(404)
      [] check = "graphql" ->
            IF flawed THEN Page({"json"} \cup (IF r.with = <<"__type">> THEN {"type"} ELSE {"schema"}))
            ELSE Page({"json"})
      [] OTHER -> Refusal(404)

\* What else a check is prepared for.
Quirks(check, r) ==
    CASE check \in {"sqli-time-based", "command-injection"} -> {Answer(200, 30, 5, {})}
      [] check = "path-traversal" -> {Answer(200, 2, 9, {}), Answer(404, 2, 5, {"canary"})}
      [] check = "bfla" -> {Page({"users", "role"})}
      [] check = "mass-assignment" -> {Page({"json", "email_verified"}), Page({"is_admin"})}
      [] check = "cors-policy" -> {Page({"origin *"}), Page({"origin *", "credentials"})}
      [] check = "http-methods" -> {Page({"DELETE", "TRACE"}), Refusal(204)}
      [] check = "graphql" -> {Answer(200, 2, 0, {"json", "schema"}), Page({"schema"})}
      [] check = "ssrf" -> {Page({"header"}), Page({"link"})}
      [] check = "session-cookie" ->
            {Page({"cookie", "weak token", "secure"}),
             Page({"cookie", "httponly", "short token", "token leaked", "several"})}
      [] check = "security-headers" -> {Page({"permissions"})}
      [] check = "open-redirect-indicator" -> {Page({"redirect link", "several"})}
      [] check = "source-map-exposure" -> {Page({"script", "several"})}
      [] check = "information-disclosure" -> {Page({"comment"}), Answer(200, 2, 0, {})}
      [] OTHER -> {Page({"link"})}

\* A redirect is seen as such only by a client that does not follow it; one
\* that follows gets the page it leads to, a login form or, since the override
\* of a principal is not sent along, a record that the client itself may see.
Redirected(follow) ==
    IF follow THEN {Page({"form", "redirected"}), Page({"record", "redirected"})}
    ELSE {Answer(302, 2, 0, {"location"})}

Odd(check, s, flawed, r, dead) ==
    ({RaisedAnswer, TimedOut, Refusal(500), Typical(check, s, ~ flawed, r, dead)}
     \cup Redirected(s.follow) \cup Quirks(check, r))
        \ {Typical(check, s, flawed, r, dead)}
=============================================================================
