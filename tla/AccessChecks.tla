--------------------------- MODULE AccessChecks ---------------------------
(***************************************************************************)
(* The checks that compare what different credentials may do: bola.py,     *)
(* bfla.py, bfla_behavior.py, session_invalidation.py, and                 *)
(* mass_assignment.py.  The operators are named as in InjectionChecks.     *)
(*                                                                         *)
(* ps are the principals of the configuration and ids the identities of    *)
(* the ApplicationModel, both in order.                                    *)
(***************************************************************************)
EXTENDS Probing

CONSTANT Logouts      \* the logout paths that are tried, in order

ASSUME LogoutsAssumption == Order(Logouts) /\ Logouts # <<>>

Success == 200..299

-----------------------------------------------------------------------------
(* bola.py                                                                 *)

BolaAllowed(a, ps) == a.active /\ a.acknowledged /\ Len(ps) >= 2
BolaPlan == HarmlessPlan("MEDIUM")

\* A resource is named in the path or in a query parameter.
BolaResources == [i \in DOMAIN Paths |-> Get(Paths[i], <<"path id">>)]
                 \o [i \in DOMAIN Paths |-> Get(Paths[i], <<"query id">>)]

\* _send_as the principal at the place i; two principals may share a name.
SentAs(ps, i, r) == As(ps[i], Get(r.at, <<r.with[1], i>>))
OfOwner(ps, r) == SentAs(ps, 1, r)

\* The owner, who is the first principal, then the others.
BolaRequests(ps) ==
    Each(BolaResources, LAMBDA r : [i \in DOMAIN ps |-> SentAs(ps, i, r)])

\* Faulty variant: the others are asked whatever the owner was told.
BolaSkipsNever(ps, log, r) == FALSE

\* Nobody else is asked for what the owner does not get.
BolaSkips(ps, log, r) == r.with[2] # 1 /\ ~ Status(log, OfOwner(ps, r), {200})

\* _body_shape: the length and the start.  Equal bodies have equal shapes.
BolaShape(ans) == <<ans.size, "record" \in ans.marks>>

\* Faulty variant: any answer but a refusal counts.
BolaVerdictOfLax(owner, other) ==
    IF other.status \in {401, 403, 404} THEN "none"
    ELSE IF BolaShape(owner) = BolaShape(other) THEN "confirmed" ELSE "likely"

\* _evaluate; a redirect that is not followed counts as access.
BolaVerdictOf(owner, other) ==
    IF other.status \notin 200..399 THEN "none"
    ELSE IF BolaShape(owner) = BolaShape(other) THEN "confirmed" ELSE "likely"

BolaCandidates(ps, log) ==
    LET pairs == {r \in DOMAIN log : r.with[2] # 1 /\ Returned(log, r)}
        verdict(r) == BolaVerdictOf(log[OfOwner(ps, r)], log[r])
    IN  {Naming(r.by, Candidate(r, verdict(r))) :
            r \in {p \in pairs : verdict(p) # "none"}}

BolaVerdict(c) ==
    CASE c.issue = "confirmed" -> Confirmed
      [] c.issue = "likely" -> Likely("medium")

BolaSeverity(c) == "high"

\* The exchange of the owner and that of the other.
BolaEvidence(ps, c) == {OfOwner(ps, c.tells), c.tells}

-----------------------------------------------------------------------------
(* bfla.py                                                                 *)

\* No gate is asked.
BflaAllowed(a, ps) == a.active /\ a.acknowledged /\ Len(ps) >= 1

\* As the first principal, whatever its role.
BflaRequests(ps) == [i \in DOMAIN Paths |-> As(ps[1], Get(Paths[i], <<"admin page">>))]

AdminMarkers == {"users", "role", "config"}
Markers(ans) == Cardinality(ans.marks \cap AdminMarkers)

BflaCandidates(log) ==
    {Naming(r.by, Candidate(r, "bfla")) :
        r \in {q \in DOMAIN log : log[q].status \in {200, 201} /\ Markers(log[q]) >= 2}}

BflaVerdict(log, c) ==
    CASE Markers(log[c.tells]) >= 3 -> Confirmed
      [] Markers(log[c.tells]) = 2 -> Likely("medium")
      [] OTHER -> FalsePositive

BflaSeverity(c) == "high"

-----------------------------------------------------------------------------
(* bfla_behavior.py                                                        *)

BehaviorAllowed(a, ids) == a.active /\ a.acknowledged /\ Len(ids) >= 1
BehaviorPlan == HarmlessPlan("MEDIUM")

\* Where in the list those are that are not admins.
NonAdmins(ids) == {i \in DOMAIN ids : ids[i].role # "admin"}

\* The requests carry no override: they go out under the client's own
\* credentials.
BehaviorRequests(ids) ==
    IF NonAdmins(ids) = {} THEN <<>>
    ELSE [i \in DOMAIN Paths |-> Get(Paths[i], <<"admin function">>)]

\* The candidate names the first identity that is not an admin.
BehaviorCandidates(ids, log) ==
    {Naming(ids[Min(NonAdmins(ids))].name, Candidate(r, "bfla")) :
        r \in {q \in DOMAIN log : log[q].status \in {200, 201, 202}}}

\* discover() hands on no other status.
BehaviorVerdict(c) == Confirmed
BehaviorSeverity(c) == "high"

-----------------------------------------------------------------------------
(* session_invalidation.py                                                 *)

\* Neither the terms nor the gate are asked.
InvalidationAllowed(a, ids) == a.active /\ Len(ids) >= 1

\* Where in the list those are that count as authenticated.
Authenticated(ids) == {i \in DOMAIN ids : ids[i].auth # "none"}

Before(p) == Get(p, <<"before">>)
Logout(l) == Request("POST", l, <<"logout">>)
After(p, l) == Get(p, <<"after", l>>)

\* Look for a page that the identity may see; then, for one logout path after
\* the other, log out and look again.
InvalidationOf(name) ==
    LET all == [i \in DOMAIN Paths |-> Before(Paths[i])]
               \o Each(Logouts, LAMBDA l :
                     <<Logout(l)>> \o [i \in DOMAIN Paths |-> After(Paths[i], l)])
    IN  [i \in DOMAIN all |-> As(name, all[i])]

\* Faulty variant: every authenticated identity is tested.
InvalidationRequestsOfAll(ids) ==
    FlattenSeq([i \in DOMAIN ids |->
        IF i \in Authenticated(ids) THEN InvalidationOf(ids[i].name) ELSE <<>>])

\* Only the first of those that are authenticated is tested.
InvalidationRequests(ids) ==
    IF Authenticated(ids) = {} THEN <<>>
    ELSE InvalidationOf(ids[Min(Authenticated(ids))].name)

Seen(log, kind) == {r \in DOMAIN log : r.with[1] = kind /\ log[r].status \in Success}

\* Faulty variant: a page seen ends the pages of its logout path only.
InvalidationSkipsPerLogout(log, r) ==
    CASE r.with[1] = "before" -> Seen(log, "before") # {}
      [] r.with[1] = "logout" -> Seen(log, "before") = {}
      [] r.with[1] = "after" ->
            \/ ~ Returned(log, As(r.by, Logout(r.with[2])))
            \/ \E q \in Seen(log, "after") : q.with = r.with

\* One page seen is enough on either side; a logout that raised is passed over,
\* one that ended in a transport error is not.
InvalidationSkips(log, r) ==
    CASE r.with[1] = "before" -> Seen(log, "before") # {}
      [] r.with[1] = "logout" -> Seen(log, "before") = {} \/ Seen(log, "after") # {}
      [] r.with[1] = "after" ->
            \/ ~ Returned(log, As(r.by, Logout(r.with[2])))
            \/ Seen(log, "after") # {}

InvalidationCandidates(log) ==
    {Naming(r.by, Candidate(r, "session kept")) : r \in Seen(log, "after")}

InvalidationVerdict(c) == Confirmed
InvalidationSeverity(c) == "high"

-----------------------------------------------------------------------------
(* mass_assignment.py                                                      *)

\* The sensitive fields, by the severity of their pattern.
Fields == [is_admin |-> "high", balance |-> "medium", email_verified |-> "low"]

AssignmentRequests == [i \in DOMAIN Paths |-> Get(Paths[i], <<"profile">>)]

\* One candidate per field name of every JSON answer with status 200.
AssignmentCandidates(log) ==
    UNION {{Candidate(r, f) : f \in log[r].marks \cap DOMAIN Fields} :
              r \in {q \in DOMAIN log : log[q].status = 200 /\ Marked(log, q, "json")}}

AssignmentVerdict(c) == Likely(IF Fields[c.issue] = "high" THEN "medium" ELSE "low")
AssignmentSeverity(c) == Fields[c.issue]
===========================================================================
