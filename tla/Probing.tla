------------------------------ MODULE Probing ------------------------------
(***************************************************************************)
(* What the checks are made of: the requests of a discover(), its log of   *)
(* the answers, and the candidates and verdicts drawn from the log.        *)
(*                                                                         *)
(* An answer is what send() hands back or does: a status (None if it       *)
(* raised, 0 if the transport failed), the time it took, the length of     *)
(* the body and the set of marks that a check looks for in body and        *)
(* headers.  Payload texts, URLs and patterns are abstracted to where a    *)
(* request goes, what it carries (a tuple of words) and which marks come   *)
(* back.                                                                   *)
(***************************************************************************)
EXTENDS Integers, Sequences, FiniteSets, SequencesExt

CONSTANTS
    Params,      \* the parameter names a check tries, in order
    Payloads,    \* the payloads it tries for each, in order
    Paths        \* the paths a check tries, in order

\* A list as the checks spell them out: nothing is in it twice.
Order(list) == list \in Seq(Range(list)) /\ IsInjective(list)

ASSUME OrdersAssumption == Order(Params) /\ Order(Payloads) /\ Order(Paths)
\* They are literals, and not empty.
ASSUME AttemptsAssumption == Params # <<>> /\ Payloads # <<>> /\ Paths # <<>>

Session == "session"      \* the credentials the client itself is built with
Nobody == "nobody"

Request(method, at, with) == [method |-> method, at |-> at, with |-> with, by |-> Session]
Get(at, with) == Request("GET", at, with)
Home == Get("/", <<"nothing">>)

\* A request with the auth_override_* of a principal.  They go out with the first
\* hop only: after a redirect the client asks under its own credentials.
As(principal, r) == [r EXCEPT !.by = principal]

Answer(status, time, size, marks) ==
    [status |-> status, time |-> time, size |-> size, marks |-> marks]

Raised == -1
Failed == 0

\* send() returned from r, with an answer of the target or with one that carries a
\* transport error.
Returned(log, r) == r \in DOMAIN log /\ log[r].status # Raised
Status(log, r, codes) == Returned(log, r) /\ log[r].status \in codes
Marked(log, r, mark) == Returned(log, r) /\ mark \in log[r].marks

\* F(s[1]) \o F(s[2]) \o ...
Each(s, F(_)) == FlattenSeq([i \in DOMAIN s |-> F(s[i])])

\* What discover() returns: the exchange it rests on, the one its evidence will
\* show, what it says of them, the principal it names, and which of several like
\* things on a page it is about.
Candidate(r, issue) ==
    [tells |-> r, shown |-> r, issue |-> issue, names |-> Nobody, nth |-> 1]
Nth(n, c) == [c EXCEPT !.nth = n]

\* Of what a page has it may have several: two stand for them.
Copies(ans) == 1..(IF "several" \in ans.marks THEN 2 ELSE 1)

Naming(principal, c) == [c EXCEPT !.names = principal]

\* ValidationResult.
Confirmed == [outcome |-> "CONFIRMED", confidence |-> "high"]
Likely(confidence) == [outcome |-> "LIKELY", confidence |-> confidence]
FalsePositive == [outcome |-> "FALSE_POSITIVE", confidence |-> "low"]

\* ActionPlan, as far as the gate looks at it.  NoLevel stands for None.
NoLevel == 0
HarmlessPlan(risk) ==
    [risk |-> risk, destructive |-> FALSE, level |-> NoLevel, word |-> FALSE]
=============================================================================
