------------------------------ MODULE CheckRun ------------------------------
(***************************************************************************)
(* The checks in a scan: launched from the command line (or, for one       *)
(* check, by a caller that builds the ApplicationModel itself), asked      *)
(* through the gate, sending their requests to a target one after the      *)
(* other, and leaving their findings.                                      *)
(*                                                                         *)
(* The orchestrator calls discover() of every check in three phases; only  *)
(* the candidates of the last become findings, but all of them send.  The  *)
(* events, the evidence store and the deduplicator are in Orchestrator and *)
(* DedupSession; the client with its limits is in HttpClient.              *)
(***************************************************************************)
EXTENDS Target, Gate, Launch

CONSTANTS
    Files,        \* the scope files, NoFile among them
    CommandLines, \* what the options of the command line can be
    Registries,   \* the checks registered, in order
    Plans,        \* what a check of another package gives to the gate
    Callers,      \* the settings of callers other than the command line
    Passes,       \* bound: how often a scan calls discover() (three times)
    MaxOdd        \* bound: extraordinary answers within one discover()

ASSUME BoundsAssumption == Passes \in Nat \ {0} /\ MaxOdd \in Nat
\* registry.py refuses a second check of one name; "plugin" stands for all that
\* other packages bring.
ASSUME RegistriesAssumption ==
    \A r \in Registries :
        /\ r # <<>> /\ r \in Seq(CheckNames)
        /\ \A i, j \in DOMAIN r : r[i] = r[j] => i = j \/ r[i] = "plugin"

ASSUME FilesAssumption ==
    \A file \in Files \ {NoFile} : file.principals \in Seq(Range(file.principals))

ASSUME CallersAssumption ==
    \A s \in Callers :
        /\ s.caller \in CheckNames \ {"plugin"} /\ s.passes \in Nat \ {0}
        /\ s.ps \in Seq(Range(s.ps)) /\ s.ids \in Seq(Range(s.ids))

VARIABLES
    setting,      \* what the checks are given, see CheckTable
    flags,        \* the options of the command line
    flawed,       \* whether the target has what the checks look for
    registry,     \* the checks
    pass, turn,   \* the phase and the check whose turn it is
    stage,        \* "asking" the gate, "sending", "over", "failed"
    reply,        \* what the operator typed at the last prompt, or "unasked"
    log,          \* the requests of this discover() with their answers
    next,         \* the index of the next request it may send
    odd,          \* how many of the answers were out of the ordinary
    dead,         \* the principals whose session the target has ended
    signedOut,    \* whether the target has ended the session of the client itself
    findings,     \* what the scan has found
    clear         \* history: checks that in the last pass got ordinary answers only

launchVars == <<setting, flags, flawed, registry>>
vars == <<launchVars, pass, turn, stage, reply, log, next, odd, dead, signedOut,
          findings, clear>>

Nothing == [r \in {} |-> RaisedAnswer]

\* The setting of a scan from the command line.
ScanSetting(file, f, plan) ==
    [auth |-> Effective(file, f), mode |-> ModeOf(f), ps |-> Principals(file),
     ids |-> Identities(Principals(file)), https |-> f.https, follow |-> f.follow,
     plan |-> plan.plan, ceiling |-> plan.ceiling, passes |-> Passes, caller |-> "scan"]

Init ==
    /\ flags \in CommandLines
    /\ \/ \E file \in Files, plan \in Plans :
             Starts(file, flags) /\ setting = ScanSetting(file, flags, plan)
       \/ setting \in Callers
    /\ flawed \in BOOLEAN
    /\ registry \in Registries
    /\ registry # <<"plugin">> => setting.plan = HarmlessPlan("LOW")   \* not asked for
    /\ setting.caller # "scan" => registry = <<setting.caller>>
    /\ pass = 1 /\ turn = 1
    /\ stage = "asking"
    /\ reply = "unasked"
    /\ log = Nothing /\ next = 1 /\ odd = 0
    /\ dead = {} /\ signedOut = FALSE
    /\ findings = {}
    /\ clear = {}

Check == registry[turn]

\* Faulty variant: the turn goes one past the last check.
AdvanceBeyond ==
    /\ log' = Nothing /\ next' = 1 /\ odd' = 0
    /\ CASE turn <= Len(registry) -> turn' = turn + 1 /\ pass' = pass /\ stage' = "asking"
         [] OTHER -> stage' = "over" /\ UNCHANGED <<turn, pass>>

\* The check is through: on to the next one, the next phase or the end.
Advance ==
    /\ log' = Nothing /\ next' = 1 /\ odd' = 0
    /\ CASE turn < Len(registry) -> turn' = turn + 1 /\ pass' = pass /\ stage' = "asking"
         [] turn = Len(registry) /\ pass < setting.passes ->
               turn' = 1 /\ pass' = pass + 1 /\ stage' = "asking"
         [] OTHER -> stage' = "over" /\ UNCHANGED <<turn, pass>>

\* discover() returns before it asks or sends.
Decline ==
    /\ stage = "asking"
    /\ ~ AllowedBy(Check, setting)
    /\ Advance
    /\ reply' = "unasked"
    /\ UNCHANGED <<launchVars, dead, signedOut, findings, clear>>

\* discover() gets to its requests without a gate.
Enter ==
    /\ stage = "asking"
    /\ AllowedBy(Check, setting) /\ Check \notin Gated
    /\ stage' = "sending"
    /\ reply' = "unasked"
    /\ UNCHANGED <<launchVars, pass, turn, log, next, odd, dead, signedOut, findings, clear>>

\* discover() asks the gate, in every phase anew; every check that does has the
\* same lines for it, with a plan of its own.
AskGate ==
    /\ stage = "asking"
    /\ AllowedBy(Check, setting) /\ Check \in Gated
    /\ LET plan == PlanOf(Check, setting)
           asked == Prompts(setting.mode, plan, setting.auth.allowDestructive,
                            CeilingOf(Check, setting))
       IN  \E answer \in (IF asked THEN Replies ELSE {"unasked"}) :
              /\ reply' = answer
              /\ IF Approves(setting.mode, plan, setting.auth.allowDestructive,
                             CeilingOf(Check, setting), answer)
                 THEN stage' = "sending" /\ UNCHANGED <<pass, turn, log, next, odd>>
                 ELSE Advance
    /\ UNCHANGED <<launchVars, dead, signedOut, findings, clear>>

\* The requests from the next index on that are not left out.
Left ==
    LET requests == RequestsOf(Check, setting)
    IN  {i \in next..Len(requests) : ~ SkipsBy(Check, setting, log, requests[i])}

\* A logout that reaches the target ends the session of its principal; a
\* target with the flaw keeps it, and of one that gave no answer nobody knows.
Ended(r, answer) ==
    IF r.with[1] # "logout" \/ flawed THEN {{}}
    ELSE IF answer.status \in {Failed, Raised} THEN {{}, {r.by}}
    ELSE {{r.by}}

\* What a GET of /logout does to the session of the client is up to the target.
ClientSession(r) == IF r = SignOut THEN {signedOut, TRUE} ELSE {signedOut}

Send ==
    /\ stage = "sending" /\ Left # {}
    /\ LET i == Min(Left)
           r == RequestsOf(Check, setting)[i]
           typical == Typical(Check, setting, flawed, r, dead)
       IN  \E answer \in {typical}
                         \cup (IF odd < MaxOdd THEN Odd(Check, setting, flawed, r, dead) ELSE {}) :
              /\ log' = [q \in DOMAIN log \cup {r} |-> IF q = r THEN answer ELSE log[q]]
              /\ next' = i + 1
              /\ odd' = IF answer = typical THEN odd ELSE odd + 1
              /\ \E ended \in Ended(r, answer) : dead' = dead \cup ended
              /\ signedOut' \in ClientSession(r)
              /\ stage' = IF answer.status = Raised /\ Check \in LetsRaise
                          THEN "failed" ELSE "sending"
    /\ UNCHANGED <<launchVars, pass, turn, reply, findings, clear>>

\* assess(), with the confidence and the status that the orchestrator takes
\* over from validate().
FindingOf(c) ==
    LET verdict == VerdictOf(Check, log, c)
    IN  [check |-> Check, tells |-> c.tells, shown |-> c.shown, issue |-> c.issue,
         names |-> c.names, nth |-> c.nth,
         evidence |-> EvidenceOf(Check, setting, c), severity |-> SeverityOf(Check, c),
         status |-> verdict.outcome, confidence |-> verdict.confidence,
         scored |-> IF Check = "session-cookie" THEN Scored(log, c) ELSE verdict.confidence]

\* discover() returns; in the last phase its candidates are validated, and
\* what is no false positive is reported.
Close ==
    /\ stage = "sending" /\ Left = {}
    /\ IF pass = setting.passes
       THEN /\ findings' = findings \cup
                  {FindingOf(c) : c \in {d \in CandidatesOf(Check, setting, log) :
                      VerdictOf(Check, log, d).outcome # "FALSE_POSITIVE"}}
            /\ clear' = IF odd = 0 /\ log # Nothing THEN clear \cup {Check} ELSE clear
       ELSE UNCHANGED <<findings, clear>>
    /\ Advance
    /\ UNCHANGED <<launchVars, reply, dead, signedOut>>

Halted == stage \in {"over", "failed"} /\ UNCHANGED vars

Next == Decline \/ Enter \/ AskGate \/ Send \/ Close \/ Halted

Spec == Init /\ [][Next]_vars

-----------------------------------------------------------------------------
(* Properties.                                                             *)

\* Types.
TypeOK ==
    /\ pass \in 1..setting.passes /\ turn \in DOMAIN registry
    /\ stage \in {"asking", "sending", "over", "failed"}
    /\ reply \in Replies \cup {"unasked"}
    /\ \A r \in DOMAIN log : log[r].status \in Int /\ log[r].time \in Nat /\ log[r].size \in Nat
    /\ next \in Nat \ {0}
    /\ odd \in 0..MaxOdd
    /\ dead \subseteq {setting.ids[i].name : i \in DOMAIN setting.ids}
    /\ signedOut \in BOOLEAN
    /\ \A f \in findings :
          /\ f.check \in CheckNames /\ f.status \in {"CONFIRMED", "LIKELY"}
          /\ f.severity \in {"critical", "high", "medium", "low"}
          /\ f.confidence \in {"high", "medium", "low"}
    /\ clear \subseteq CheckNames

\* The requests that a step sends.
Sent == DOMAIN log' \ DOMAIN log

\* No active check of this package sends anything in a scan without --active on
\* the command line, whatever the scope file says.  The checks that ask the gate
\* send nothing of more than low risk in strict mode, nor in interactive mode
\* without a yes to the prompt of this very phase (cli.py 232-256, gate.py
\* 146-193, and the guards of every discover()).  In the mode non_interactive
\* they send unasked, see MediumDeniedByDefault, and the checks of Ungated ask
\* nobody in any mode.
SentWithConsent ==
    [][Sent # {} /\ setting.caller = "scan" /\ Check \notin Passive \cup {"plugin"} =>
          /\ flags.active
          /\ Check \in Gated /\ PlanOf(Check, setting).risk \notin LowRisks =>
                /\ flags.mode # "strict"
                /\ flags.mode = "interactive" => reply = "yes"]_vars

\* A destructive plan is carried out only if --allow-destructive is given, its
\* level is within the ceiling that the check hands to the gate (not the one of
\* the operator, see OperatorsCeiling), the mode is not non_interactive, and the
\* operator has answered this very prompt, from level 3 on with a word of the
\* plan.  BLOCKED plans are carried out like the others, see BlockedNeverRuns
\* (gate.py 101-144, 195-256).
NoDestructionUnasked ==
    [][Sent # {} /\ Check = "plugin" /\ IsDestructive(setting.plan) =>
          /\ flags.allowDestructive
          /\ LevelOf(setting.plan) <= setting.ceiling
          /\ ModeOf(flags) # "non_interactive"
          /\ reply \in (IF LevelOf(setting.plan) <= 2 THEN {"yes"} ELSE {"word", "confirm"})
          /\ reply = "word" => setting.plan.word]_vars

\* Without --active the only methods sent but GET and OPTIONS are the DELETE and
\* TRACE of http-methods (the guards of every discover(), ssrf.py 219-241).  A
\* GET may change the target as well, see OnlyObserves.
OnlyReadsUnlessActive ==
    [][setting.caller = "scan" /\ ~ flags.active =>
          \A r \in Sent : \/ r.method \in {"GET", "OPTIONS"}
                          \/ Check = "http-methods" /\ r.method \in Range(Dangerous)]_vars

\* The checks that take a failed request for an observation.
Blind == {"path-traversal", "security-headers", "sqli-time-based", "command-injection"}

\* What tells a finding is never a request that failed or raised: a transport
\* error is a response with status 0, and it must not count as access, as a
\* difference or as an exposure.  Four checks do count it, see ProofIsAResponse;
\* of the other half of a comparison see RestsOnBaseline and FollowsALogout.
FailureSaysNothing ==
    [][\A f \in findings' \ findings :
          f.check \notin Blind => log[f.tells].status \notin {Failed, Raised}]_vars

\* A finding that compares rests on the other half of the comparison: baselines
\* that took measurable time, a baseline request that was sent and did not raise,
\* the owner's own success with the same resource, a page that the principal was
\* seen to have and a logout of it that did not raise.  A baseline or a logout
\* may have ended in a transport error.  Where a request carries the credentials
\* of a principal the finding names that one, and its evidence shows what it
\* rests on (but for a method that OPTIONS advertised).
RestsOnBaseline ==
    [][\A f \in findings' \ findings :
          /\ f.tells \in f.evidence \/ f.issue = "method_advertised_in_allow"
          /\ f.evidence \subseteq DOMAIN log
          /\ f.check \in {"bola-idor", "bfla", "session-invalidation"} => f.names = f.tells.by
          /\ f.check = "sqli-time-based" => SqliMedian(log, f.tells.at) > 0
          /\ f.check = "command-injection" => CmdiBaseline(log, f.tells.at) > 0
          /\ f.check = "path-traversal" => Returned(log, Baseline(f.tells.at, First))
          /\ f.check = "bola-idor" =>
                /\ f.tells # OfOwner(setting.ps, f.tells)
                /\ Status(log, OfOwner(setting.ps, f.tells), {200})
          /\ f.check = "session-invalidation" =>
                /\ \E r \in Seen(log, "before") : r.by = f.names
                /\ Returned(log, As(f.names, Logout(f.tells.with[2])))]_vars

\* A check that meets only ordinary answers of a target with the flaw reports
\* it: no early return, skipped request or verdict loses it on the way.
FlawIsFound == flawed => \A k \in clear \ {"plugin"} : \E f \in findings : f.check = k

\* And it reports nothing of a target without the flaw.
NoFalseAlarm == ~ flawed => \A f \in findings : f.check \notin clear

\* The checks that fold what they see of one place into one candidate.
Folding == {"http-methods", "cors-policy", "command-injection", "path-traversal",
            "graphql", "session-invalidation"}

\* What tells two findings of such a check apart.
Place(f) ==
    CASE f.check \in {"command-injection", "path-traversal", "graphql"} -> <<f.shown.at>>
      [] f.check = "http-methods" -> <<f.shown.at, f.shown.method>>
      [] f.check = "cors-policy" -> <<f.shown.at, f.issue>>
      [] f.check = "session-invalidation" -> <<f.names>>

\* The fingerprints are empty, so nothing merges findings later: of the checks
\* that fold, one flaw in one place is one finding already when discover()
\* returns (http_methods.py 199-245, cors.py 140-148, command_injection.py
\* 151-186).  The others report a place as often as they come upon it: a source
\* map named by two script tags and a common path, a parameter in two links.
OneFindingPerPlace ==
    \A f, g \in findings :
        f.check \in Folding /\ f.check = g.check /\ Place(f) = Place(g) => f = g

\* At most one principal is logged out, the first that is authenticated
\* (session_invalidation.py 78-84); in a scan none is, since the identities that
\* mapper.py 76-84 makes never count as authenticated.  The session of the
\* client itself is another matter, see OnlyObserves.
NoMassLogout ==
    \A name \in dead :
        \E i \in Authenticated(setting.ids) :
            /\ name = setting.ids[i].name
            /\ \A j \in Authenticated(setting.ids) : i <= j

Rank == [tentative |-> 0, low |-> 1, medium |-> 2, high |-> 3, confirmed |-> 4]

\* The confidence reported, which is validate()'s, never turns round what
\* the scorer says of two findings (session_cookie.py 484-541, orchestrator.py 385-404).
RankingKept ==
    \A f, g \in findings :
        f.check = "session-cookie" /\ g.check = "session-cookie" =>
            (Rank[f.scored] > Rank[g.scored] => Rank[f.confidence] >= Rank[g.confidence])

-----------------------------------------------------------------------------
(* What the documents say and the code does not do.                        *)


\* The documented sentinel: a BLOCKED plan is to "never execute, even with
\* explicit user approval" (risk.py 35).
BlockedNeverRuns ==
    [][Sent # {} /\ Check = "plugin" => setting.plan.risk # "BLOCKED"]_vars

\* The documented ceiling: --max-destructive-level is the "Operator's ceiling for
\* destructive actions" (cli.py 225-228).
OperatorsCeiling ==
    [][Sent # {} /\ Check = "plugin" /\ IsDestructive(setting.plan) =>
          LevelOf(setting.plan) <= flags.level]_vars

\* The documented profile: http-methods is "read-only" (http_methods.py 17).
MethodsOnlyRead ==
    [][Check = "http-methods" => \A r \in Sent : r.method \in {"GET", "OPTIONS", "TRACE"}]_vars

\* The documented default profile: passive is "only observation" (README.md 235),
\* so that a scan without --active leaves the session of the client alone.
OnlyObserves == setting.caller = "scan" /\ ~ flags.active => ~ signedOut

\* The documented procedure of session-invalidation, first part: the page is seen
\* "After hitting a logout endpoint" (session_invalidation.py 60).
FollowsALogout ==
    [][\A f \in findings' \ findings :
          f.check = "session-invalidation" =>
              ~ Status(log, As(f.names, Logout(f.tells.with[2])), {Failed})]_vars

\* The documented procedure, second part: it is "the same authenticated endpoint"
\* that is visited before and after (session_invalidation.py 8).
SamePageAgain ==
    [][\A f \in findings' \ findings :
          f.check = "session-invalidation" =>
              As(f.names, Before(f.tells.at)) \in Seen(log, "before")]_vars

\* The documented plan of bfla-behavior: its requests go out "using a non-admin
\* principal's cookies" (bfla_behavior.py 89-90).
AsTheNamed ==
    [][\A f \in findings' \ findings : f.check = "bfla-behavior" => f.tells.by = f.names]_vars

\* The documented override of bola-idor: it amounts to "re-authenticating as the
\* named principal for that single request" (bola.py 28-29), so that the page
\* compared is not one seen under other credentials.
OverrideHolds ==
    [][\A f \in findings' \ findings :
          f.check = "bola-idor" => ~ Marked(log, f.tells, "redirected")]_vars

\* The documented proof: "The proof is the RESPONSE PATTERN" (path_traversal.py
\* 5), "The proof is the OBSERVED response delay" (sqli.py 4-5,
\* command_injection.py 4-5): it takes a response.
ProofIsAResponse ==
    [][\A f \in findings' \ findings :
          f.check \in {"path-traversal", "sqli-time-based", "command-injection"} =>
              log[f.tells].status # Failed]_vars
=============================================================================
