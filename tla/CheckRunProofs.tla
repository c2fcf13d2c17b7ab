--------------------------- MODULE CheckRunProofs ---------------------------
(***************************************************************************)
(* The checks in a scan, for every command line, scope file, registry of   *)
(* checks, plan, caller and target: what consent their requests rest on,   *)
(* what their findings rest on, that one flaw in one place is one finding, *)
(* and that ordinary answers give the flaw away where there is one and     *)
(* nothing where there is none.                                            *)
(*                                                                         *)
(* The invariants build on one another:                                    *)
(*    ConsentInv  the guards and the gate let the check send               *)
(*    TypeInv     the types                                                *)
(*    SendingInv  every request in the log had its grounds, and has them   *)
(*    SinglesInv  at most one probe of a place says anything               *)
(*    OnceInv     findings are of checks that had their turn               *)
(*    OrdinaryInv what an ordinary target has answered so far              *)
(***************************************************************************)
EXTENDS CheckLemmas, FiniteSetTheorems

-----------------------------------------------------------------------------
(* What the gate and the guards give.                                      *)

\* Of a destructive plan the gate approves what the operator confirmed.
LEMMA ApprovedDestruction ==
    ASSUME NEW mode, NEW plan, NEW allow, NEW ceiling, NEW answer,
           Approves(mode, plan, allow, ceiling, answer), IsDestructive(plan)
    PROVE  /\ allow /\ LevelOf(plan) <= ceiling /\ mode # "non_interactive"
           /\ ConfirmedBy(answer, plan)
BY DEF Approves, Prompts

\* Beyond low risk it approves what the mode or the operator approved.
LEMMA ApprovedRisk ==
    ASSUME NEW mode, NEW plan, NEW allow, NEW ceiling, NEW answer,
           Approves(mode, plan, allow, ceiling, answer), ~ IsDestructive(plan),
           plan.risk \notin LowRisks
    PROVE  mode # "strict" /\ (mode = "interactive" => answer = "yes")
BY DEF Approves, Prompts

\* The guard of every check that is not passive looks at the active flag.
LEMMA AllowedIfActive ==
    ASSUME NEW check \in CheckNames \ (Passive \cup {"plugin"}), NEW s, AllowedBy(check, s)
    PROVE  s.auth.active
BY DEF CheckNames, Gated, Ungated, Passive, AllowedBy, SqliAllowed, CmdiAllowed,
       TraversalAllowed, XssAllowed, SsrfAllowed, BolaAllowed, BflaAllowed, BehaviorAllowed,
       InvalidationAllowed, GraphqlAllowed, ActiveAndAcknowledged

\* No check of the package calls its plan destructive.
LEMMA PlansOfThePackage ==
    ASSUME NEW check \in Gated \ {"plugin"}, NEW s
    PROVE  ~ IsDestructive(PlanOf(check, s))
BY DEF Gated, PlanOf, IsDestructive, HarmlessPlan, SqliPlan, CmdiPlan, TraversalPlan, XssPlan,
       SsrfPlan, BolaPlan, BehaviorPlan

-----------------------------------------------------------------------------
(* The inductive invariant.                                                *)

\* A scan has the authorization and the mode of its command line; other
\* callers run one check, which is not the one of another package.
SettingOK ==
    /\ setting.caller = "scan" \/ registry = <<setting.caller>>
    /\ setting.caller = "scan" =>
          \E file \in Files, plan \in Plans : setting = ScanSetting(file, flags, plan)
    /\ setting.caller # "scan" => setting.caller \in CheckNames \ {"plugin"}

\* It is the turn of a registered check.
TurnOK == registry \in Seq(CheckNames) /\ turn \in 1..Len(registry)

\* A check that sends got past its guards and, if it asks it, past the gate
\* with the reply that is remembered.
SendingIsAllowed ==
    stage = "sending" =>
        /\ AllowedBy(Check, setting)
        /\ Check \in Gated =>
              Approves(setting.mode, PlanOf(Check, setting), setting.auth.allowDestructive,
                       CeilingOf(Check, setting), reply)

ConsentInv == SettingOK /\ TurnOK /\ SendingIsAllowed

\* The invariant holds when the scan is launched.
LEMMA ConsentStarts ==
    ASSUME Init
    PROVE  ConsentInv
<1>1. SettingOK
  BY CallersAssumption DEF Init, SettingOK, ScanSetting, CheckNames, Passive, Gated, Ungated
<1>2. TurnOK
  <2>1. registry \in Seq(CheckNames) /\ registry # <<>> /\ turn = 1
    BY RegistriesAssumption DEF Init
  <2>2. Len(registry) \in Nat /\ Len(registry) # 0
    BY <2>1
  <2>3. 1 \in 1..Len(registry)
    BY <2>2
  <2> QED
    BY <2>1, <2>3 DEF TurnOK
<1>3. SendingIsAllowed
  BY DEF Init, SendingIsAllowed
<1> QED
  BY <1>1, <1>2, <1>3 DEF ConsentInv

\* The turn goes on to a check that has yet to ask.
LEMMA AdvanceKeepsTurn ==
    ASSUME TurnOK, Advance, UNCHANGED registry
    PROVE  TurnOK' /\ stage' # "sending" /\ log' = Nothing
<1>1. Len(registry) \in Nat /\ turn \in Nat /\ turn >= 1 /\ turn <= Len(registry)
  BY DEF TurnOK
<1>2. CASE turn < Len(registry)
  BY <1>1, <1>2 DEF Advance, TurnOK
<1>3. CASE turn = Len(registry) /\ pass < setting.passes
  BY <1>1, <1>3 DEF Advance, TurnOK
<1>4. CASE turn = Len(registry) /\ ~ (pass < setting.passes)
  BY <1>1, <1>4 DEF Advance, TurnOK
<1> QED
  BY <1>1, <1>2, <1>3, <1>4

\* Only Send sends, and every step keeps the invariant.
LEMMA ConsentStep ==
    ASSUME ConsentInv, [Next]_vars
    PROVE  /\ ConsentInv'
           /\ Sent # {} => stage = "sending" /\ UNCHANGED <<launchVars, turn, reply>>
<1> USE DEF ConsentInv
<1>1. UNCHANGED launchVars
  BY DEF Next, Decline, Enter, AskGate, Send, Close, Halted, vars
<1>2. SettingOK'
  BY <1>1 DEF SettingOK, launchVars
<1>3. log' = Nothing \/ UNCHANGED log => Sent = {}
  BY DEF Sent, Nothing
<1>4. ASSUME Advance
      PROVE  ConsentInv' /\ Sent = {}
  BY <1>1, <1>2, <1>3, <1>4, AdvanceKeepsTurn DEF SendingIsAllowed, launchVars
<1>5. CASE Decline \/ Close
  BY <1>4, <1>5 DEF Decline, Close
<1>6. CASE Enter
  BY <1>1, <1>2, <1>3, <1>6 DEF Enter, TurnOK, SendingIsAllowed, Check, launchVars
<1>7. CASE AskGate
  <2>1. PICK answer :
           /\ reply' = answer
           /\ \/ Advance
              \/ /\ stage' = "sending" /\ UNCHANGED <<pass, turn, log>>
                 /\ AllowedBy(Check, setting)
                 /\ Approves(setting.mode, PlanOf(Check, setting),
                             setting.auth.allowDestructive, CeilingOf(Check, setting), answer)
    BY <1>7 DEF AskGate
  <2>2. CASE Advance
    BY <1>4, <2>2
  <2>3. CASE ~ Advance
    BY <1>1, <1>2, <1>3, <2>1, <2>3 DEF TurnOK, SendingIsAllowed, Check, launchVars
  <2> QED
    BY <2>2, <2>3
<1>8. CASE Send
  BY <1>1, <1>2, <1>8 DEF Send, TurnOK, SendingIsAllowed, Check, launchVars
<1>9. CASE UNCHANGED vars
  BY <1>1, <1>2, <1>3, <1>9 DEF vars, TurnOK, SendingIsAllowed, Check, launchVars
<1> QED
  BY <1>5, <1>6, <1>7, <1>8, <1>9 DEF Next, Halted

-----------------------------------------------------------------------------
(* The theorems.                                                           *)

\* The authorization and the mode of a scan are those of its command line.
LEMMA ScanOfItsFlags ==
    ASSUME SettingOK, setting.caller = "scan"
    PROVE  /\ setting.auth.active = flags.active
           /\ setting.auth.allowDestructive = flags.allowDestructive
           /\ setting.mode = ModeOf(flags)
<1>1. PICK file \in Files, plan \in Plans : setting = ScanSetting(file, flags, plan)
  BY DEF SettingOK
<1>2. setting.auth = Effective(file, flags) /\ setting.mode = ModeOf(flags)
  BY <1>1 DEF ScanSetting
<1> QED
  BY <1>2 DEF Effective, FromFlags

\* No active check of a scan sends anything without --active.  Of those that ask
\* the gate none with a plan of more than low risk sends in strict mode, nor in
\* interactive mode without a yes to its own prompt.  About the mode
\* non_interactive, where such plans are sent unasked, and about the checks that
\* never ask the theorem says no more than the first sentence (cli.py 232-256,
\* gate.py 146-193).
THEOREM ActiveNeedsConsent == Spec => SentWithConsent
<1> DEFINE Consent ==
      Sent # {} /\ setting.caller = "scan" /\ Check \notin Passive \cup {"plugin"} =>
          /\ flags.active
          /\ Check \in Gated /\ PlanOf(Check, setting).risk \notin LowRisks =>
                /\ flags.mode # "strict"
                /\ flags.mode = "interactive" => reply = "yes"
<1>1. Init => ConsentInv
  BY ConsentStarts
<1>2. ConsentInv /\ [Next]_vars => ConsentInv' /\ [Consent]_vars
  <2> SUFFICES ASSUME ConsentInv, [Next]_vars, Sent # {}, setting.caller = "scan",
                      Check \notin Passive \cup {"plugin"}
               PROVE  /\ flags.active
                      /\ Check \in Gated /\ PlanOf(Check, setting).risk \notin LowRisks =>
                            /\ flags.mode # "strict"
                            /\ flags.mode = "interactive" => reply = "yes"
    BY ConsentStep
  <2>1. stage = "sending"
    BY ConsentStep
  <2>2. Check \in CheckNames
    BY DEF ConsentInv, TurnOK, Check
  <2>3. flags.active
    BY <2>1, <2>2, AllowedIfActive, ScanOfItsFlags DEF ConsentInv, SendingIsAllowed
  <2>4. ASSUME Check \in Gated, PlanOf(Check, setting).risk \notin LowRisks
        PROVE  flags.mode # "strict" /\ (flags.mode = "interactive" => reply = "yes")
    <3>1. setting.mode # "strict" /\ (setting.mode = "interactive" => reply = "yes")
      BY <2>1, <2>4, ApprovedRisk, PlansOfThePackage DEF ConsentInv, SendingIsAllowed
    <3> QED
      BY <3>1, ScanOfItsFlags DEF ConsentInv, ModeOf
  <2> QED
    BY <2>3, <2>4
<1> HIDE DEF Consent
<1>3. Spec => [][Consent]_vars
  BY <1>1, <1>2, PTL DEF Spec
<1> QED
  BY <1>3 DEF SentWithConsent, Consent

\* A check of another package whose plan is destructive sends only after the
\* operator of this scan has confirmed it, with the option and the ceiling on
\* its side (gate.py 101-144, 195-256).
THEOREM DestructionIsConfirmed == Spec => NoDestructionUnasked
<1> DEFINE Confirmation ==
      Sent # {} /\ Check = "plugin" /\ IsDestructive(setting.plan) =>
          /\ flags.allowDestructive
          /\ LevelOf(setting.plan) <= setting.ceiling
          /\ ModeOf(flags) # "non_interactive"
          /\ reply \in (IF LevelOf(setting.plan) <= 2 THEN {"yes"} ELSE {"word", "confirm"})
          /\ reply = "word" => setting.plan.word
<1>1. Init => ConsentInv
  BY ConsentStarts
<1>2. ConsentInv /\ [Next]_vars => ConsentInv' /\ [Confirmation]_vars
  <2> SUFFICES ASSUME ConsentInv, [Next]_vars, Sent # {}, Check = "plugin",
                      IsDestructive(setting.plan)
               PROVE  /\ flags.allowDestructive
                      /\ LevelOf(setting.plan) <= setting.ceiling
                      /\ ModeOf(flags) # "non_interactive"
                      /\ reply \in (IF LevelOf(setting.plan) <= 2 THEN {"yes"}
                                    ELSE {"word", "confirm"})
                      /\ reply = "word" => setting.plan.word
    BY ConsentStep
  <2>1. setting.caller = "scan"
    <3>1. SUFFICES ASSUME setting.caller # "scan" PROVE FALSE
      OBVIOUS
    <3>2. registry = <<setting.caller>> /\ setting.caller # "plugin"
      BY <3>1 DEF ConsentInv, SettingOK
    <3>3. Len(registry) = 1
      BY <3>2
    <3>4. turn = 1
      BY <3>3 DEF ConsentInv, TurnOK
    <3> QED
      BY <3>2, <3>4 DEF Check
  <2>2. Approves(setting.mode, setting.plan, setting.auth.allowDestructive,
                 setting.ceiling, reply)
    BY ConsentStep DEF ConsentInv, SendingIsAllowed, Gated, PlanOf, CeilingOf
  <2>3. /\ setting.auth.allowDestructive /\ LevelOf(setting.plan) <= setting.ceiling
        /\ setting.mode # "non_interactive" /\ ConfirmedBy(reply, setting.plan)
    BY <2>2, ApprovedDestruction
  <2>4. /\ reply \in (IF LevelOf(setting.plan) <= 2 THEN {"yes"} ELSE {"word", "confirm"})
        /\ reply = "word" => setting.plan.word
    BY <2>3 DEF ConfirmedBy, Expected
  <2> QED
    BY <2>1, <2>3, <2>4, ScanOfItsFlags DEF ConsentInv
<1> HIDE DEF Confirmation
<1>3. Spec => [][Confirmation]_vars
  BY <1>1, <1>2, PTL DEF Spec
<1> QED
  BY <1>3 DEF NoDestructionUnasked, Confirmation

-----------------------------------------------------------------------------
(* What a failed request can say.                                          *)

\* An answer that is a failure carries nothing to look for.
Blank(answer) == answer.status \in {Failed, Raised} => answer.marks = {}

BlankFailures == \A r \in DOMAIN log : Blank(log[r])

\* An ordinary answer is no failure.
LEMMA TypicalAnswers ==
    ASSUME NEW check, NEW s, NEW flaw, NEW r, NEW gone
    PROVE  Typical(check, s, flaw, r, gone).status \notin {Failed, Raised}
<1> DEFINE Good(a) == a.status \notin {Failed, Raised}
<1>1. /\ \A marks : Good(Page(marks))
      /\ \A status \in {401, 403, 404, 405} : Good(Refusal(status))
      /\ \A time, size, marks : Good(Answer(200, time, size, marks))
  BY DEF Page, Refusal, Answer, Failed, Raised
<1>2. Good(Refusal(401)) /\ Good(Refusal(403)) /\ Good(Refusal(404)) /\ Good(Refusal(405))
  BY <1>1
<1> HIDE DEF Good
<1>3. \E marks : HomePage(check, flaw) = Page(marks)
  BY ZenonT(60) DEF HomePage
<1>4. Good(HomePage(check, flaw))
  BY <1>1, <1>3
<1>5. Good(Owned(r, gone))
  BY <1>1, <1>2 DEF Owned
<1>6. Good(Typical(check, s, flaw, r, gone))
  BY <1>1, <1>2, <1>4, <1>5, ZenonT(120) DEF Typical
<1> QED
  BY <1>6 DEF Good

\* Neither is any that is out of the ordinary, unless it is blank.
LEMMA OddAnswers ==
    ASSUME NEW check, NEW s, NEW flaw, NEW r, NEW gone,
           NEW answer \in Odd(check, s, flaw, r, gone)
    PROVE  Blank(answer)
<1>1. /\ Blank(RaisedAnswer) /\ Blank(TimedOut)
      /\ \A marks : Blank(Page(marks))
      /\ \A status \in {204, 500} : Blank(Refusal(status))
      /\ \A time, size, marks : Blank(Answer(200, time, size, marks))
      /\ \A time, size, marks : Blank(Answer(302, time, size, marks))
      /\ \A time, size, marks : Blank(Answer(404, time, size, marks))
  BY DEF Blank, RaisedAnswer, TimedOut, Page, Refusal, Answer, Failed, Raised
<1>2. Blank(Refusal(204)) /\ Blank(Refusal(500))
  BY <1>1
<1>3. Blank(Typical(check, s, ~ flaw, r, gone))
  BY TypicalAnswers DEF Blank
<1>4. \A a \in Redirected(s.follow) : Blank(a)
  BY <1>1 DEF Redirected
<1> DEFINE AllBlank(S) == \A a \in S : Blank(a)
<1>5. \A a, b : Blank(a) /\ Blank(b) => AllBlank({a}) /\ AllBlank({a, b})
  OBVIOUS
<1> HIDE DEF AllBlank
<1>6. AllBlank(Quirks(check, r))
  <2>1. \A m, n : AllBlank({Page(m)}) /\ AllBlank({Page(m), Page(n)})
    BY <1>1, <1>5
  <2>2. \A m : AllBlank({Page(m), Refusal(204)})
    BY <1>1, <1>2, <1>5
  <2>3. /\ Blank(Answer(200, 30, 5, {})) /\ Blank(Answer(200, 2, 9, {}))
        /\ Blank(Answer(404, 2, 5, {"canary"})) /\ Blank(Answer(200, 2, 0, {"json", "schema"}))
        /\ Blank(Answer(200, 2, 0, {}))
    BY <1>1
  <2>4. AllBlank({Answer(200, 30, 5, {})})
    BY <1>5, <2>3
  <2>5. AllBlank({Answer(200, 2, 9, {}), Answer(404, 2, 5, {"canary"})})
    BY <1>5, <2>3
  <2>6. \A m : AllBlank({Answer(200, 2, 0, {"json", "schema"}), Page(m)})
    BY <1>1, <1>5, <2>3
  <2>7. \A m : AllBlank({Page(m), Answer(200, 2, 0, {})})
    BY <1>1, <1>5, <2>3
  <2> QED
    BY <2>1, <2>2, <2>4, <2>5, <2>6, <2>7, ZenonT(60) DEF Quirks
<1>7. \A a \in Quirks(check, r) : Blank(a)
  BY <1>6 DEF AllBlank
<1> QED
  BY <1>1, <1>2, <1>3, <1>4, <1>7 DEF Odd

\* The answers that are logged stay blank if they failed.
LEMMA BlankStep ==
    ASSUME BlankFailures, [Next]_vars
    PROVE  BlankFailures'
<1>1. CASE log' = Nothing
  BY <1>1 DEF BlankFailures, Nothing
<1>2. CASE UNCHANGED log
  BY <1>2 DEF BlankFailures
<1>3. CASE Send
  <2>1. PICK r, answer :
           /\ log' = [q \in DOMAIN log \cup {r} |-> IF q = r THEN answer ELSE log[q]]
           /\ \/ answer = Typical(Check, setting, flawed, r, dead)
              \/ answer \in Odd(Check, setting, flawed, r, dead)
    <3> DEFINE Exchanged(r, answer) ==
                  /\ log' = [q \in DOMAIN log \cup {r} |-> IF q = r THEN answer ELSE log[q]]
                  /\ answer \in {Typical(Check, setting, flawed, r, dead)}
                                \cup (IF odd < MaxOdd THEN Odd(Check, setting, flawed, r, dead)
                                      ELSE {})
    <3>1. \E r, answer : Exchanged(r, answer)
      BY <1>3 DEF Send
    <3>2. PICK r, answer : Exchanged(r, answer)
      BY <3>1
    <3>3. \/ answer = Typical(Check, setting, flawed, r, dead)
          \/ answer \in Odd(Check, setting, flawed, r, dead)
      BY <3>2
    <3> QED
      BY <3>2, <3>3
  <2>2. Blank(answer)
    BY <2>1, TypicalAnswers, OddAnswers DEF Blank
  <2> QED
    BY <2>1, <2>2 DEF BlankFailures
<1> QED
  BY <1>1, <1>2, <1>3
     DEF Next, Decline, Enter, AskGate, Close, Advance, Halted, vars

\* A request that was answered by the target.
Speaks(r) == r \in DOMAIN log /\ log[r].status \notin {Failed, Raised}

\* What the checks look for is in such answers only.
LEMMA FoundInAnswers ==
    ASSUME BlankFailures, NEW r
    PROVE  /\ \A mark : Marked(log, r, mark) => Speaks(r)
           /\ \A codes : Status(log, r, codes) /\ codes \cap {Failed, Raised} = {} => Speaks(r)
           /\ r \in DOMAIN log /\ CorsIssue(log[r]) # "none" => Speaks(r)
           /\ r \in DOMAIN log /\ SsrfIndicator(log[r]) # "none" => Speaks(r)
<1>1. ASSUME r \in DOMAIN log, log[r].marks # {}
      PROVE  Speaks(r)
  BY <1>1 DEF BlankFailures, Blank, Speaks
<1>2. ASSUME NEW mark, Marked(log, r, mark) PROVE Speaks(r)
  BY <1>1, <1>2 DEF Marked, Returned
<1>3. ASSUME NEW codes, Status(log, r, codes), codes \cap {Failed, Raised} = {}
      PROVE  Speaks(r)
  BY <1>3 DEF Status, Returned, Speaks
<1>4. ASSUME NEW a, a.marks = {} PROVE CorsIssue(a) = "none" /\ SsrfIndicator(a) = "none"
  <2>1. /\ ~ ({"origin *", "credentials"} \subseteq a.marks) /\ "origin echoed" \notin a.marks
        /\ "origin *" \notin a.marks /\ "location" \notin a.marks /\ "canary" \notin a.marks
        /\ ~ ({"header", "location"} \cap a.marks # {})
    BY <1>4
  <2> QED
    BY <2>1, Zenon DEF CorsIssue, SsrfIndicator
<1> QED
  BY <1>1, <1>2, <1>3, <1>4

\* One of several like things is told and shown like the only one.
LEMMA NthFields ==
    ASSUME NEW n, NEW r, NEW issue
    PROVE  /\ Nth(n, Candidate(r, issue)).tells = r /\ Nth(n, Candidate(r, issue)).shown = r
           /\ Nth(n, Candidate(r, issue)).issue = issue
           /\ Nth(n, Candidate(r, issue)).names = Nobody
BY DEF Nth, Candidate

\* What is returned of a cookie is told by a mark of the page or a reflection.
LEMMA CookieShape ==
    ASSUME NEW https, NEW answers, NEW d \in CookieCandidates(https, answers)
    PROVE  \E n, r, issue, mark :
              d = Nth(n, Candidate(r, issue)) /\ Marked(answers, r, mark)
<1> DEFINE Seems(e, r) == \E issue : e = Candidate(r, issue)
<1>1. ASSUME NEW n, NEW e \in Browser(answers, n)
      PROVE  Seems(e, Home) \/ \E r \in Reflected(answers) : Seems(e, r)
  <2>1. CASE Reflected(answers) = {}
    <3>1. \E gap : e = Candidate(Home, IF gap = "httponly" THEN "httponly_missing_no_xss"
                                       ELSE "samesite_missing")
      BY <1>1, <2>1 DEF Browser
    <3> QED
      BY <3>1, Zenon
  <2>2. CASE Reflected(answers) # {}
    <3>1. \E r \in Reflected(answers) : \E gap :
             e = Candidate(r, IF gap = "httponly" THEN "xss_steals_session" ELSE "csrf_via_xss")
      BY <1>1, <2>2 DEF Browser
    <3> QED
      BY <3>1, Zenon
  <2> QED
    BY <2>1, <2>2, Zenon
<1>2. \A n : \A e \in Network(https, answers, n) \cup Server(answers, n) : Seems(e, Home)
  BY Zenon DEF Network, Server
<1>3. \A r \in Reflected(answers) : Marked(answers, r, "canary")
  BY DEF Reflected
<1>4. ASSUME NEW n, NEW e \in OfCookie(https, answers, n), Marked(answers, Home, "cookie")
      PROVE  \E r, issue, mark : e = Candidate(r, issue) /\ Marked(answers, r, mark)
  <2>1. Seems(e, Home) \/ \E r \in Reflected(answers) : Seems(e, r)
    BY <1>1, <1>2, <1>4 DEF OfCookie
  <2> QED
    BY <1>3, <1>4, <2>1
<1>5. CASE d \in Leakage(answers)
  <2>1. /\ Marked(answers, Home, "token leaked")
        /\ \E n : d = Nth(n, Candidate(Home, "token_in_response_body"))
    BY <1>5, Zenon DEF Leakage
  <2> QED
    BY <2>1, Zenon
<1>6. CASE d \notin Leakage(answers)
  <2>1. /\ Marked(answers, Home, "cookie")
        /\ d \in UNION {{Nth(n, c) : c \in OfCookie(https, answers, n)} : n \in Copies(answers[Home])}
    BY <1>6, Zenon DEF CookieCandidates
  <2>2. PICK n, e : e \in OfCookie(https, answers, n) /\ d = Nth(n, e)
    BY <2>1
  <2> QED
    BY <1>4, <2>1, <2>2
<1> QED
  BY <1>5, <1>6

\* What is returned of a redirect is told by a mark.
LEMMA RedirectShape ==
    ASSUME NEW answers, NEW d \in RedirectCandidates(answers)
    PROVE  \E n, r, issue, mark :
              d = Nth(n, Candidate(r, issue)) /\ Marked(answers, r, mark)
<1>1. \/ /\ Marked(answers, Home, "redirect link")
         /\ \E n : d = Nth(n, Candidate(Home, "redirect_param"))
      \/ \E r : Marked(answers, r, "location") /\ d = Candidate(r, "redirect_param_confirmed")
  BY Zenon DEF RedirectCandidates
<1>2. \A r, issue : Candidate(r, issue) = Nth(1, Candidate(r, issue))
  BY DEF Nth, Candidate
<1> QED
  BY <1>1, <1>2, Zenon

\* No candidate of a check that is not blind is told by a failed request.
LEMMA CandidatesAreTold ==
    ASSUME BlankFailures, NEW check \in CheckNames \ Blind, NEW s,
           NEW c \in CandidatesOf(check, s, log)
    PROVE  Speaks(c.tells)
<1> DEFINE Told(S) == \A d \in S : Speaks(d.tells)
<1>1. \A r, issue, p :
         Candidate(r, issue).tells = r /\ Naming(p, Candidate(r, issue)).tells = r
  BY DEF Candidate, Naming
<1>2. \A r, mark : Marked(log, r, mark) => Speaks(r)
  BY FoundInAnswers
<1>3. Told({})
  OBVIOUS
<1>4. Told(XssCandidates(log)) /\ Told(SsrfCandidates(log)) /\ Told(GraphqlCandidates(log))
  BY <1>1, FoundInAnswers
     DEF XssCandidates, SsrfCandidates, GraphqlCandidates, Json200, OK, Failed, Raised, Returned
<1>5. Told(BolaCandidates(s.ps, log))
  BY <1>1 DEF BolaCandidates, BolaVerdictOf, Speaks, Failed, Raised, Returned
<1>6. /\ Told(BflaCandidates(log)) /\ Told(BehaviorCandidates(s.ids, log))
      /\ Told(InvalidationCandidates(log)) /\ Told(AssignmentCandidates(log))
  <2>1. Told(BflaCandidates(log))
    BY <1>1 DEF BflaCandidates, Speaks, Failed, Raised
  <2>2. Told(BehaviorCandidates(s.ids, log))
    BY <1>1 DEF BehaviorCandidates, Speaks, Failed, Raised
  <2>3. Told(InvalidationCandidates(log))
    <3>1. \A r \in Seen(log, "after") : Speaks(r)
      BY DEF Seen, Success, Speaks, Failed, Raised
    <3> QED
      BY <3>1 DEF InvalidationCandidates, Candidate, Naming
  <2>4. Told(AssignmentCandidates(log))
    BY <1>1, FoundInAnswers DEF AssignmentCandidates
  <2> QED
    BY <2>1, <2>2, <2>3, <2>4
<1>7. Told(CorsCandidates(log)) /\ Told(MapsCandidates(log)) /\ Told(RedirectCandidates(log))
  <2>1. Told(CorsCandidates(log))
    BY <1>1, FoundInAnswers DEF CorsCandidates
  <2>2. Told(MapsCandidates(log))
    <3>1. \A q, mark, issue : Marked(log, q, mark) => Speaks(Candidate(q, issue).tells)
      BY <1>2, <1>1
    <3> QED
      BY <3>1, Zenon DEF MapsCandidates
  <2>3. Told(RedirectCandidates(log))
    BY <1>2, RedirectShape, NthFields
  <2> QED
    BY <2>1, <2>2, <2>3
<1>8. Told(MethodsCandidates(log))
  <2>1. \A r \in Worked(log) : Speaks(r)
    BY DEF Worked, Speaks, Failed, Raised
  <2>2. \A r \in Advertised(log) : Speaks(Options(r.at))
    BY FoundInAnswers DEF Advertised
  <2>3. \A r, issue, told : [Candidate(r, issue) EXCEPT !.tells = told].tells = told
    BY DEF Candidate
  <2>4. Told({Candidate(r, MethodsIssue(r.method)) : r \in Worked(log)})
    BY <1>1, <2>1
  <2>5. Told({[Candidate(r, "method_advertised_in_allow") EXCEPT !.tells = Options(r.at)] :
                 r \in Advertised(log) \ Worked(log)})
    BY <2>2 DEF Candidate
  <2> QED
    BY <2>4, <2>5 DEF MethodsCandidates
<1>9. Told(DisclosureCandidates(log))
  BY <1>1, FoundInAnswers DEF DisclosureCandidates, OK, Failed, Raised
<1>10. Told(CookieCandidates(s.https, log))
  BY <1>2, CookieShape, NthFields
<1> HIDE DEF Told
<1>11. Told(CandidatesOf(check, s, log))
  BY <1>3, <1>4, <1>5, <1>6, <1>7, <1>8, <1>9, <1>10, ZenonT(120)
     DEF CandidatesOf, CheckNames, Passive, Gated, Ungated, Blind
<1> QED
  BY <1>11 DEF Told

\* No finding of a check that is not blind to it rests on a request that failed
\* or raised, whichever of its answers the target gives (what discover()
\* of every check asks of an answer before it makes a candidate).
THEOREM FailuresProveNothing == Spec => FailureSaysNothing
<1> DEFINE Told ==
      \A f \in findings' \ findings :
          f.check \notin Blind => log[f.tells].status \notin {Failed, Raised}
<1>1. Init => ConsentInv /\ BlankFailures
  BY ConsentStarts DEF Init, BlankFailures, Nothing
<1>2. ConsentInv /\ BlankFailures /\ [Next]_vars => (ConsentInv /\ BlankFailures)' /\ [Told]_vars
  <2> SUFFICES ASSUME ConsentInv, BlankFailures, [Next]_vars,
                      NEW f \in findings' \ findings, f.check \notin Blind
               PROVE  log[f.tells].status \notin {Failed, Raised}
    BY ConsentStep, BlankStep
  <2>1. PICK c \in CandidatesOf(Check, setting, log) : f = FindingOf(c)
    BY DEF Next, Decline, Enter, AskGate, Send, Close, Halted, vars
  <2>2. f.check = Check /\ f.tells = c.tells
    BY <2>1 DEF FindingOf
  <2>3. Check \in CheckNames \ Blind
    BY <2>2 DEF ConsentInv, TurnOK, Check
  <2> QED
    BY <2>1, <2>2, <2>3, CandidatesAreTold DEF Speaks
<1> HIDE DEF Told
<1>3. Spec => [][Told]_vars
  BY <1>1, <1>2, PTL DEF Spec
<1> QED
  BY <1>3 DEF FailureSaysNothing, Told

-----------------------------------------------------------------------------
(* Types.                                                                  *)

\* What the answers are made of.
Typed(answer) == answer.status \in Int /\ answer.time \in Nat /\ answer.size \in Nat

\* An answer made of numbers is typed, an ordinary one and any other.
LEMMA TypicalTyped ==
    ASSUME NEW check, NEW s, NEW flaw, NEW r, NEW gone
    PROVE  Typed(Typical(check, s, flaw, r, gone))
<1>1. /\ \A marks : Typed(Page(marks))
      /\ \A status \in Int : Typed(Refusal(status))
      /\ \A status \in Int, time, size \in Nat : \A marks : Typed(Answer(status, time, size, marks))
  BY DEF Page, Refusal, Answer, Typed
<1>2. /\ Typed(Refusal(401)) /\ Typed(Refusal(403)) /\ Typed(Refusal(404)) /\ Typed(Refusal(405))
      /\ \A marks : Typed(Answer(200, 60, 5, marks)) /\ Typed(Answer(200, 2, 9, marks))
  BY <1>1
<1> HIDE DEF Typed
<1>3. Typed(HomePage(check, flaw))
  <2>1. \E marks : HomePage(check, flaw) = Page(marks)
    BY ZenonT(60) DEF HomePage
  <2> QED
    BY <1>1, <2>1
<1>4. Typed(Owned(r, gone))
  BY <1>1, <1>2 DEF Owned
<1> QED
  BY <1>1, <1>2, <1>3, <1>4, ZenonT(120) DEF Typical

LEMMA OddTyped ==
    ASSUME NEW check, NEW s, NEW flaw, NEW r, NEW gone,
           NEW answer \in Odd(check, s, flaw, r, gone)
    PROVE  Typed(answer)
<1>1. /\ Typed(RaisedAnswer) /\ Typed(TimedOut) /\ Typed(Refusal(500)) /\ Typed(Refusal(204))
      /\ \A marks : /\ Typed(Page(marks)) /\ Typed(Answer(200, 30, 5, marks))
                    /\ Typed(Answer(200, 2, 9, marks)) /\ Typed(Answer(404, 2, 5, marks))
                    /\ Typed(Answer(200, 2, 0, marks)) /\ Typed(Answer(302, 2, 0, marks))
  BY DEF Typed, RaisedAnswer, TimedOut, Page, Refusal, Answer, Failed, Raised
<1>2. \A a \in Redirected(s.follow) : Typed(a)
  BY <1>1 DEF Redirected
<1>3. Typed(Typical(check, s, ~ flaw, r, gone))
  BY TypicalTyped
<1> DEFINE AllTyped(S) == \A a \in S : Typed(a)
<1>4. \A a, b : Typed(a) /\ Typed(b) => AllTyped({a}) /\ AllTyped({a, b})
  OBVIOUS
<1> HIDE DEF AllTyped
<1>5. AllTyped(Quirks(check, r))
  <2>1. \A m, n : AllTyped({Page(m)}) /\ AllTyped({Page(m), Page(n)})
    BY <1>1, <1>4
  <2>2. \A m : AllTyped({Page(m), Refusal(204)})
    BY <1>1, <1>4
  <2>3. AllTyped({Answer(200, 30, 5, {})})
    BY <1>1, <1>4
  <2>4. AllTyped({Answer(200, 2, 9, {}), Answer(404, 2, 5, {"canary"})})
    <3>1. Typed(Answer(200, 2, 9, {})) /\ Typed(Answer(404, 2, 5, {"canary"}))
      BY <1>1
    <3> QED
      BY <1>4, <3>1
  <2>5. \A m : AllTyped({Answer(200, 2, 0, {"json", "schema"}), Page(m)})
    BY <1>1, <1>4
  <2>6. \A m : AllTyped({Page(m), Answer(200, 2, 0, {})})
    BY <1>1, <1>4
  <2> QED
    BY <2>1, <2>2, <2>3, <2>4, <2>5, <2>6, ZenonT(60) DEF Quirks
<1>6. \A a \in Quirks(check, r) : Typed(a)
  BY <1>5 DEF AllTyped
<1> QED
  BY <1>1, <1>2, <1>3, <1>6 DEF Odd

Verdicts == {Confirmed, Likely("medium"), Likely("low"), FalsePositive}
Severities == {"critical", "high", "medium", "low"}

\* Whatever a check returns it can judge.
LEMMA CandidatesAreJudged ==
    ASSUME NEW check \in CheckNames, NEW s, NEW answers, NEW c \in CandidatesOf(check, s, answers)
    PROVE  VerdictOf(check, answers, c) \in Verdicts /\ SeverityOf(check, c) \in Severities
<1> DEFINE Judged == VerdictOf(check, answers, c) \in Verdicts
           Rated == SeverityOf(check, c) \in Severities
<1>1. \A r, issue : Candidate(r, issue).issue = issue
  BY DEF Candidate
<1>2. \A p, d : Naming(p, d).issue = d.issue
  BY DEF Naming
<1>3. CASE check \in {"sqli-time-based", "command-injection", "path-traversal", "xss-reflected", "ssrf"}
  BY <1>3 DEF VerdictOf, SeverityOf, Verdicts, Severities, SqliVerdict, SqliSeverity, CmdiVerdict,
              CmdiSeverity, TraversalVerdict, TraversalSeverity, XssVerdict, XssSeverity,
              SsrfVerdict, SsrfSeverity
<1>4. CASE check = "bola-idor"
  <2>1. c.issue \in {"confirmed", "likely"}
    <3>1. \A a, b : BolaVerdictOf(a, b) \in {"none", "confirmed", "likely"}
      BY DEF BolaVerdictOf
    <3>2. c \in BolaCandidates(s.ps, answers)
      BY <1>4 DEF CandidatesOf
    <3>3. \E r, p, a, b : c = Naming(p, Candidate(r, BolaVerdictOf(a, b))) /\ BolaVerdictOf(a, b) # "none"
      BY <3>2 DEF BolaCandidates
    <3> QED
      BY <1>1, <1>2, <3>1, <3>3
  <2> QED
    BY <1>4, <2>1 DEF VerdictOf, SeverityOf, Verdicts, Severities, BolaVerdict, BolaSeverity
<1>5. CASE check \in {"bfla", "bfla-behavior", "session-invalidation"}
  BY <1>5 DEF VerdictOf, SeverityOf, Verdicts, Severities, BflaVerdict, BflaSeverity,
              BehaviorVerdict, BehaviorSeverity, InvalidationVerdict, InvalidationSeverity
<1>6. CASE check = "mass-assignment"
  <2>1. c.issue \in DOMAIN Fields
    <3>1. c \in AssignmentCandidates(answers)
      BY <1>6 DEF CandidatesOf
    <3>2. \E r : \E f \in DOMAIN Fields : c = Candidate(r, f)
      BY <3>1 DEF AssignmentCandidates
    <3> QED
      BY <1>1, <3>2
  <2>2. \A f \in DOMAIN Fields : Fields[f] \in Severities
    BY DEF Fields, Severities
  <2>3. SeverityOf(check, c) = Fields[c.issue] /\ VerdictOf(check, answers, c) = AssignmentVerdict(c)
    BY <1>6 DEF VerdictOf, SeverityOf, AssignmentSeverity
  <2> QED
    BY <2>1, <2>2, <2>3 DEF AssignmentVerdict, Verdicts
<1>7. CASE check = "security-headers"
  <2>1. c.issue \in {"csp missing", "csp wildcard", "permissions missing"}
    <3>1. c \in HeadersCandidates(answers)
      BY <1>7 DEF CandidatesOf
    <3>2. \E i \in {"csp missing", "csp wildcard", "permissions missing"} : c = Candidate(Home, i)
      BY <3>1 DEF HeadersCandidates
    <3> QED
      BY <1>1, <3>2
  <2>2. VerdictOf(check, answers, c) = Confirmed /\ SeverityOf(check, c) = HeadersSeverity(c)
    BY <1>7 DEF VerdictOf, SeverityOf, HeadersVerdict
  <2> QED
    BY <2>1, <2>2 DEF Verdicts, Severities, HeadersSeverity
<1>8. CASE check \in {"cors-policy", "http-methods", "source-map-exposure", "open-redirect-indicator", "graphql"}
  BY <1>8 DEF VerdictOf, SeverityOf, Verdicts, Severities, CorsVerdict, CorsSeverity, MethodsVerdict,
              MethodsSeverity, MapsVerdict, MapsSeverity, RedirectVerdict, RedirectSeverity,
              GraphqlVerdict, GraphqlSeverity
<1>9. CASE check = "information-disclosure"
  <2>1. VerdictOf(check, answers, c) = Confirmed /\ SeverityOf(check, c) = DisclosureSeverity(c)
    BY <1>9 DEF VerdictOf, SeverityOf, DisclosureVerdict
  <2>2. \A leak \in DOMAIN Leaks : Leaks[leak] \in Severities
    BY DEF Leaks, Severities
  <2> QED
    BY <2>1, <2>2 DEF DisclosureSeverity, Verdicts, Severities
<1>10. CASE check = "session-cookie"
  BY <1>10 DEF VerdictOf, SeverityOf, Verdicts, Severities, CookieVerdict, CookieSeverity
<1>11. check # "plugin"
  BY DEF CandidatesOf
<1> HIDE DEF Judged, Rated
<1> QED
  BY <1>3, <1>4, <1>5, <1>6, <1>7, <1>8, <1>9, <1>10, <1>11
     DEF CheckNames, Passive, Gated, Ungated, Judged, Rated

\* The registry and the callers are those the scan was launched with.
LaunchOK ==
    /\ registry \in Registries
    /\ setting.caller # "scan" => setting \in Callers

\* The principals and the identities are lists, and there is a last pass.
LEMMA SettingLists ==
    ASSUME SettingOK, LaunchOK
    PROVE  IsList(setting.ps) /\ IsList(setting.ids) /\ setting.passes \in Nat \ {0}
<1>1. CASE setting.caller # "scan"
  BY <1>1, CallersAssumption DEF LaunchOK, IsList
<1>2. CASE setting.caller = "scan"
  <2>1. PICK file \in Files, plan \in Plans : setting = ScanSetting(file, flags, plan)
    BY <1>2 DEF SettingOK
  <2>2. /\ setting.ps = Principals(file) /\ setting.ids = Identities(Principals(file))
        /\ setting.passes = Passes
    BY <2>1 DEF ScanSetting
  <2>3. IsList(Principals(file))
    BY FilesAssumption, ShortLists DEF Principals, IsList
  <2>4. IsList(Identities(Principals(file)))
    <3> DEFINE ids == Identities(Principals(file))
    <3>1. ids = [i \in DOMAIN Principals(file) |-> ids[i]]
      BY DEF Identities
    <3> HIDE DEF ids
    <3>2. IsList(ids)
      BY <2>3, <3>1, MadeOf
    <3> QED
      BY <3>2 DEF ids
  <2> QED
    BY <2>2, <2>3, <2>4, BoundsAssumption
<1> QED
  BY <1>1, <1>2

\* A request that a step sends is one of those its check may ask for.
LEMMA SentIsAsked ==
    ASSUME ConsentInv, LaunchOK, next \in Nat \ {0}, Left # {}
    PROVE  /\ IsList(RequestsOf(Check, setting))
           /\ Min(Left) \in DOMAIN RequestsOf(Check, setting) /\ Min(Left) >= next
           /\ RequestsOf(Check, setting)[Min(Left)] \in Asked(Check, setting)
           /\ ~ SkipsBy(Check, setting, log, RequestsOf(Check, setting)[Min(Left)])
           /\ \A j \in DOMAIN RequestsOf(Check, setting) :
                 j >= next /\ j < Min(Left) => SkipsBy(Check, setting, log, RequestsOf(Check, setting)[j])
<1>1. Check \in CheckNames
  BY DEF ConsentInv, TurnOK, Check
<1> DEFINE q == RequestsOf(Check, setting)
           least == Min(Left)
<1>2. IsList(q) /\ Range(q) = Asked(Check, setting)
  BY <1>1, SettingLists, RequestsAsked DEF ConsentInv
<1>3. Left = {i \in next..Len(q) : ~ SkipsBy(Check, setting, log, q[i])}
  BY DEF Left
<1> HIDE DEF q
<1>4. Left \subseteq Nat
  BY <1>3
<1>5. least \in Left
  BY <1>4, MinIsLeast
<1> HIDE DEF least
<1>6. /\ least \in next..Len(q) /\ ~ SkipsBy(Check, setting, log, q[least])
  BY <1>3, <1>5
<1>7. least \in DOMAIN q /\ least >= next
  BY <1>2, <1>6 DEF IsList
<1>8. q[least] \in Asked(Check, setting)
  BY <1>2, <1>7 DEF Range
<1>9. ASSUME NEW j \in DOMAIN q, j >= next, j < least
      PROVE  SkipsBy(Check, setting, log, q[j])
  <2>1. j \notin Left
    <3>1. ASSUME j \in Left PROVE Min(Left) <= j
      BY <1>4, <3>1, MinIsLeast
    <3>2. j \in Nat /\ least \in Nat
      BY <1>2, <1>4, <1>5 DEF IsList
    <3> QED
      BY <1>9, <3>1, <3>2 DEF least
  <2> QED
    BY <1>2, <1>3, <1>9, <2>1 DEF IsList
<1> QED
  BY <1>2, <1>6, <1>7, <1>8, <1>9 DEF q, least

\* r, which has the index i, is sent and answered.
Exchanges(i, r, answer) ==
    /\ i \in DOMAIN RequestsOf(Check, setting) /\ i >= next /\ r = RequestsOf(Check, setting)[i]
    /\ r \in Asked(Check, setting) /\ ~ SkipsBy(Check, setting, log, r)
    /\ \A j \in DOMAIN RequestsOf(Check, setting) :
          j >= next /\ j < i => SkipsBy(Check, setting, log, RequestsOf(Check, setting)[j])
    /\ log' = [q \in DOMAIN log \cup {r} |-> IF q = r THEN answer ELSE log[q]]
    /\ next' = i + 1
    /\ \/ answer = Typical(Check, setting, flawed, r, dead) /\ odd' = odd
       \/ /\ answer \in Odd(Check, setting, flawed, r, dead) /\ odd < MaxOdd
          /\ odd' \in {odd, odd + 1}
    /\ odd' = odd => answer = Typical(Check, setting, flawed, r, dead)
    /\ \E ended \in Ended(r, answer) : dead' = dead \cup ended
    /\ signedOut' \in {signedOut, TRUE}
    /\ stage = "sending" /\ stage' \in {"sending", "failed"}
    /\ stage' = "failed" => answer.status = Raised /\ Check \in LetsRaise
    /\ UNCHANGED <<launchVars, pass, turn, reply, findings, clear>>

LEMMA SendExchanges ==
    ASSUME ConsentInv, LaunchOK, next \in Nat \ {0}, odd \in Nat, Send
    PROVE  \E i, r, answer : Exchanges(i, r, answer)
<1> DEFINE i == Min(Left)
           r == RequestsOf(Check, setting)[i]
           typical == Typical(Check, setting, flawed, r, dead)
<1>1. /\ i \in DOMAIN RequestsOf(Check, setting) /\ i >= next
      /\ r \in Asked(Check, setting) /\ ~ SkipsBy(Check, setting, log, r)
      /\ \A j \in DOMAIN RequestsOf(Check, setting) :
            j >= next /\ j < i => SkipsBy(Check, setting, log, RequestsOf(Check, setting)[j])
  BY SentIsAsked DEF Send
<1>2. PICK answer \in {typical} \cup (IF odd < MaxOdd THEN Odd(Check, setting, flawed, r, dead) ELSE {}) :
         /\ log' = [q \in DOMAIN log \cup {r} |-> IF q = r THEN answer ELSE log[q]]
         /\ next' = i + 1
         /\ odd' = IF answer = typical THEN odd ELSE odd + 1
         /\ \E ended \in Ended(r, answer) : dead' = dead \cup ended
         /\ signedOut' \in ClientSession(r)
         /\ stage' = IF answer.status = Raised /\ Check \in LetsRaise THEN "failed" ELSE "sending"
  BY DEF Send
<1>3. stage = "sending" /\ UNCHANGED <<launchVars, pass, turn, reply, findings, clear>>
  BY DEF Send
<1> HIDE DEF typical
<1>4. /\ \/ answer = typical /\ odd' = odd
         \/ /\ answer \in Odd(Check, setting, flawed, r, dead) /\ odd < MaxOdd
            /\ odd' \in {odd, odd + 1}
      /\ odd' = odd => answer = typical
  BY <1>2
<1>5. stage' \in {"sending", "failed"} /\ (stage' = "failed" => answer.status = Raised /\ Check \in LetsRaise)
  BY <1>2
<1>6. signedOut' \in {signedOut, TRUE}
  BY <1>2 DEF ClientSession
<1> HIDE DEF i
<1> QED
  BY <1>1, <1>2, <1>3, <1>4, <1>5, <1>6 DEF Exchanges, typical

\* The types, and the launch they rest on.
TypeInv == ConsentInv /\ LaunchOK /\ TypeOK

\* What the turn going on leaves of the types.
LEMMA AdvanceKeepsTypes ==
    ASSUME TypeInv, Advance, UNCHANGED <<launchVars>>
    PROVE  /\ pass' \in 1..setting'.passes /\ turn' \in DOMAIN registry'
           /\ stage' \in {"asking", "over"}
           /\ \A r \in DOMAIN log' : Typed(log'[r])
           /\ next' = 1 /\ odd' = 0
<1>1. TurnOK' /\ log' = Nothing /\ next' = 1 /\ odd' = 0
  BY AdvanceKeepsTurn DEF TypeInv, ConsentInv, launchVars, Advance
<1>2. turn' \in DOMAIN registry'
  <2>1. registry' \in Seq(CheckNames) /\ turn' \in 1..Len(registry')
    BY <1>1 DEF TurnOK
  <2> QED
    BY <2>1
<1>3. /\ turn \in Nat /\ Len(registry) \in Nat /\ pass \in 1..setting.passes
      /\ setting.passes \in Nat \ {0}
  BY SettingLists DEF TypeInv, ConsentInv, TurnOK, TypeOK
<1>4. pass' \in 1..setting.passes /\ stage' \in {"asking", "over"}
  BY <1>3 DEF Advance
<1>5. setting' = setting
  BY DEF launchVars
<1> QED
  BY <1>1, <1>2, <1>4, <1>5 DEF Nothing

\* A finding has what the report needs of it.
FindingTyped(f) ==
    /\ f.check \in CheckNames /\ f.status \in {"CONFIRMED", "LIKELY"}
    /\ f.severity \in {"critical", "high", "medium", "low"}
    /\ f.confidence \in {"high", "medium", "low"}

LEMMA FindingsTyped ==
    ASSUME Check \in CheckNames, NEW c \in CandidatesOf(Check, setting, log),
           VerdictOf(Check, log, c).outcome # "FALSE_POSITIVE"
    PROVE  FindingTyped(FindingOf(c))
<1> DEFINE verdict == VerdictOf(Check, log, c)
<1>1. verdict \in Verdicts /\ SeverityOf(Check, c) \in Severities
  BY CandidatesAreJudged
<1> HIDE DEF verdict
<1>2. verdict.outcome \in {"CONFIRMED", "LIKELY", "FALSE_POSITIVE"} /\ verdict.confidence \in {"high", "medium", "low"}
  BY <1>1 DEF Verdicts, Confirmed, Likely, FalsePositive
<1>3. /\ FindingOf(c).check = Check /\ FindingOf(c).status = verdict.outcome
      /\ FindingOf(c).confidence = verdict.confidence /\ FindingOf(c).severity = SeverityOf(Check, c)
  BY DEF FindingOf, verdict
<1> QED
  BY <1>1, <1>2, <1>3 DEF FindingTyped, Severities, verdict

\* Who may be logged out.
Names == {setting.ids[i].name : i \in DOMAIN setting.ids}

\* The one that is logged out, if any is.
FirstOf(name) ==
    \E i \in Authenticated(setting.ids) :
        /\ name = setting.ids[i].name
        /\ \A j \in Authenticated(setting.ids) : i <= j

\* Only the first principal that is authenticated is logged out, and none of a
\* scan.
LEMMA WhoIsLoggedOut ==
    ASSUME ConsentInv, LaunchOK, NEW i, NEW r, NEW answer, Exchanges(i, r, answer)
    PROVE  /\ dead' \subseteq dead \cup Names
           /\ \A name \in dead' \ dead : FirstOf(name)
           /\ setting.caller = "scan" => dead' = dead
<1>1. PICK ended \in Ended(r, answer) : dead' = dead \cup ended
  BY DEF Exchanges
<1>2. ended \in {{}, {r.by}} /\ (r.with[1] # "logout" => ended = {})
  BY <1>1 DEF Ended
<1>3. Check \in CheckNames
  BY DEF ConsentInv, TurnOK, Check
<1>4. ASSUME r.with[1] = "logout"
      PROVE  /\ r.by \in Names /\ FirstOf(r.by)
             /\ setting.caller # "scan"
  <2>1. Authenticated(setting.ids) # {} /\ r.by = setting.ids[Min(Authenticated(setting.ids))].name
    BY <1>3, <1>4, AskedFields DEF Exchanges
  <2>2. Authenticated(setting.ids) \subseteq DOMAIN setting.ids
    BY DEF Authenticated
  <2>3. DOMAIN setting.ids \subseteq Nat
    BY SettingLists DEF ConsentInv, IsList
  <2>4. Min(Authenticated(setting.ids)) \in DOMAIN setting.ids
    BY <2>1, <2>2, <2>3, MinIsLeast
  <2>5. r.by \in Names /\ FirstOf(r.by)
    <3>1. Authenticated(setting.ids) \subseteq Nat
      BY <2>2, <2>3
    <3>2. /\ Min(Authenticated(setting.ids)) \in Authenticated(setting.ids)
          /\ \A j \in Authenticated(setting.ids) : Min(Authenticated(setting.ids)) <= j
      BY <2>1, <3>1, MinIsLeast
    <3> QED
      BY <2>1, <2>4, <3>2 DEF Names, FirstOf
  <2>6. ASSUME setting.caller = "scan"
        PROVE  FALSE
    <3>1. PICK file \in Files, plan \in Plans : setting = ScanSetting(file, flags, plan)
      BY <2>6 DEF ConsentInv, SettingOK
    <3>2. setting.ids = Identities(Principals(file))
      BY <3>1 DEF ScanSetting
    <3>3. \A k \in DOMAIN Identities(Principals(file)) : Identities(Principals(file))[k].auth = "none"
      BY DEF Identities
    <3> QED
      BY <2>1, <3>2, <3>3 DEF Authenticated
  <2> QED
    BY <2>5, <2>6
<1> QED
  BY <1>1, <1>2, <1>4

\* The types are kept.
LEMMA TypeStep ==
    ASSUME TypeInv, [Next]_vars
    PROVE  TypeInv'
<1>1. UNCHANGED launchVars
  BY DEF Next, Decline, Enter, AskGate, Send, Close, Halted, vars
<1>2. ConsentInv' /\ LaunchOK'
  BY <1>1, ConsentStep DEF TypeInv, LaunchOK, launchVars
<1>3. Check \in CheckNames
  BY DEF TypeInv, ConsentInv, TurnOK, Check
<1> DEFINE Findings(S) == \A f \in S : FindingTyped(f)
<1>4. /\ Findings(findings) /\ clear \subseteq CheckNames /\ dead \subseteq Names
      /\ reply \in Replies \cup {"unasked"} /\ signedOut \in BOOLEAN
  BY DEF TypeInv, TypeOK, FindingTyped, Names
<1>5. ASSUME /\ pass' \in 1..setting'.passes /\ turn' \in DOMAIN registry'
             /\ stage' \in {"asking", "sending", "over", "failed"}
             /\ \A r \in DOMAIN log' : Typed(log'[r])
             /\ next' \in Nat \ {0} /\ odd' \in 0..MaxOdd,
             reply' \in Replies \cup {"unasked"}, dead' \subseteq Names, signedOut' \in BOOLEAN,
             Findings(findings'), clear' \subseteq CheckNames
      PROVE  TypeInv'
  <2>1. Names = {setting'.ids[i].name : i \in DOMAIN setting'.ids}
    BY <1>1 DEF Names, launchVars
  <2> QED
    BY <1>2, <1>5, <2>1 DEF TypeInv, TypeOK, Typed, FindingTyped
<1> DEFINE Through ==
      /\ pass' \in 1..setting'.passes /\ turn' \in DOMAIN registry'
      /\ stage' \in {"asking", "over"}
      /\ \A r \in DOMAIN log' : Typed(log'[r])
      /\ next' = 1 /\ odd' = 0
<1>6. Advance => Through
  BY <1>1, AdvanceKeepsTypes
<1>7. /\ pass \in 1..setting.passes /\ turn \in DOMAIN registry
      /\ stage \in {"asking", "sending", "over", "failed"}
      /\ \A r \in DOMAIN log : Typed(log[r])
      /\ next \in Nat \ {0} /\ odd \in 0..MaxOdd
  BY DEF TypeInv, TypeOK, Typed
<1>8. setting' = setting /\ registry' = registry
  BY <1>1 DEF launchVars
<1>9. MaxOdd \in Nat
  BY BoundsAssumption
<1> DEFINE Kept == /\ pass' = pass /\ turn' = turn /\ log' = log /\ next' = next /\ odd' = odd
<1>10. Through \/ (Kept /\ stage' \in {"asking", "sending", "over", "failed"}) =>
          /\ pass' \in 1..setting'.passes /\ turn' \in DOMAIN registry'
          /\ stage' \in {"asking", "sending", "over", "failed"}
          /\ \A r \in DOMAIN log' : Typed(log'[r])
          /\ next' \in Nat \ {0} /\ odd' \in 0..MaxOdd
  BY <1>7, <1>8, <1>9
<1> HIDE DEF Findings, Through
<1>11. CASE Decline
  BY <1>4, <1>5, <1>6, <1>10, <1>11 DEF Decline
<1>12. CASE Enter
  BY <1>4, <1>5, <1>10, <1>12 DEF Enter
<1>13. CASE AskGate
  <2>1. Advance \/ (Kept /\ stage' = "sending")
    BY <1>13 DEF AskGate
  <2>2. reply' \in Replies \cup {"unasked"} /\ UNCHANGED <<dead, signedOut, findings, clear>>
    BY <1>13 DEF AskGate
  <2> QED
    BY <1>4, <1>5, <1>6, <1>10, <2>1, <2>2
<1>14. CASE Send
  <2>1. PICK i, r, answer : Exchanges(i, r, answer)
    BY <1>7, <1>14, SendExchanges DEF TypeInv
  <2>2. Typed(answer)
    BY <2>1, TypicalTyped, OddTyped DEF Exchanges
  <2>3. \A t \in DOMAIN log' : Typed(log'[t])
    BY <1>7, <2>1, <2>2 DEF Exchanges
  <2>4. dead' \subseteq Names
    BY <1>4, <2>1, WhoIsLoggedOut DEF TypeInv
  <2>5. next' \in Nat \ {0}
    <3>1. IsList(RequestsOf(Check, setting))
      BY <1>3, SettingLists, RequestsAsked DEF TypeInv, ConsentInv
    <3>2. i \in Nat /\ next' = i + 1
      BY <2>1, <3>1 DEF Exchanges, IsList
    <3> QED
      BY <3>2
  <2>6. odd' \in 0..MaxOdd
    BY <1>7, <1>9, <2>1 DEF Exchanges
  <2>7. /\ pass' = pass /\ turn' = turn /\ stage' \in {"sending", "failed"} /\ reply' = reply
        /\ findings' = findings /\ clear' = clear /\ signedOut' \in BOOLEAN
    BY <1>4, <2>1 DEF Exchanges
  <2> QED
    BY <1>4, <1>5, <1>7, <1>8, <2>3, <2>4, <2>5, <2>6, <2>7
<1>15. CASE Close
  <2>1. Advance /\ reply' = reply /\ dead' = dead /\ signedOut' = signedOut
    BY <1>15 DEF Close
  <2>2. clear' \subseteq CheckNames
    BY <1>3, <1>4, <1>15 DEF Close
  <2>3. Findings(findings')
    <3>1. \A f \in findings' \ findings :
             \E c \in CandidatesOf(Check, setting, log) :
                f = FindingOf(c) /\ VerdictOf(Check, log, c).outcome # "FALSE_POSITIVE"
      BY <1>15 DEF Close
    <3>2. \A f \in findings' \ findings : FindingTyped(f)
      BY <1>3, <3>1, FindingsTyped
    <3> QED
      BY <1>4, <3>2 DEF Findings
  <2> QED
    BY <1>4, <1>5, <1>6, <1>10, <2>1, <2>2, <2>3
<1>16. CASE UNCHANGED vars
  BY <1>4, <1>5, <1>7, <1>10, <1>16 DEF vars
<1> QED
  BY <1>11, <1>12, <1>13, <1>14, <1>15, <1>16 DEF Next, Halted

\* The invariant holds when the scan is launched.
LEMMA TypeStarts ==
    ASSUME Init
    PROVE  TypeInv
<1>1. ConsentInv
  BY ConsentStarts
<1>2. LaunchOK
  BY DEF Init, LaunchOK, ScanSetting
<1>3. 1 \in 1..setting.passes
  BY <1>1, <1>2, SettingLists DEF ConsentInv
<1>4. turn \in DOMAIN registry
  <2>1. registry \in Seq(CheckNames) /\ turn \in 1..Len(registry)
    BY <1>1 DEF ConsentInv, TurnOK
  <2> QED
    BY <2>1
<1>5. 0 \in 0..MaxOdd
  BY BoundsAssumption
<1>6. DOMAIN log = {}
  BY DEF Init, Nothing
<1>7. /\ pass = 1 /\ stage = "asking" /\ reply = "unasked" /\ next = 1 /\ odd = 0
      /\ dead = {} /\ signedOut \in BOOLEAN /\ findings = {} /\ clear = {}
  BY DEF Init
<1> QED
  BY <1>1, <1>2, <1>3, <1>4, <1>5, <1>6, <1>7 DEF TypeInv, TypeOK

\* The types, of whatever the scan is given and whatever the target answers.
THEOREM ChecksAreTyped == Spec => []TypeOK
<1>1. Init => TypeInv
  BY TypeStarts
<1>2. TypeInv /\ [Next]_vars => TypeInv'
  BY TypeStep
<1>3. TypeInv => TypeOK
  BY DEF TypeInv
<1> QED
  BY <1>1, <1>2, <1>3, PTL DEF Spec

\* Whoever the callers are and whatever the scope file holds, nobody is logged
\* out but the first principal that is authenticated (session_invalidation.py
\* 78-84, mapper.py 76-84).  This is about the sessions of the principals; the
\* GET of /logout under the credentials of the client is not bounded by it.
THEOREM LogoutIsSingle == Spec => []NoMassLogout
<1> DEFINE Inv == TypeInv /\ NoMassLogout
<1>1. Init => Inv
  BY TypeStarts DEF Init, NoMassLogout
<1>2. Inv /\ [Next]_vars => Inv'
  <2> SUFFICES ASSUME TypeInv, NoMassLogout, [Next]_vars
               PROVE  TypeInv' /\ NoMassLogout'
    OBVIOUS
  <2>1. TypeInv'
    BY TypeStep
  <2>2. setting' = setting
    BY DEF Next, Decline, Enter, AskGate, Send, Close, Halted, vars, launchVars
  <2>3. CASE Send
    <3>1. next \in Nat \ {0} /\ odd \in Nat
      BY DEF TypeInv, TypeOK
    <3>2. PICK i, r, answer : Exchanges(i, r, answer)
      BY <2>3, <3>1, SendExchanges DEF TypeInv
    <3>3. \A name \in dead' : FirstOf(name)
      BY <3>2, WhoIsLoggedOut DEF TypeInv, NoMassLogout, FirstOf
    <3> QED
      BY <2>1, <2>2, <3>3 DEF NoMassLogout, FirstOf
  <2>4. CASE ~ Send
    <3>1. dead' = dead
      BY <2>4 DEF Next, Decline, Enter, AskGate, Close, Halted, vars
    <3> QED
      BY <2>1, <2>2, <3>1 DEF NoMassLogout
  <2> QED
    BY <2>3, <2>4
<1>3. Inv => NoMassLogout
  OBVIOUS
<1> HIDE DEF Inv
<1> QED
  BY <1>1, <1>2, <1>3, PTL DEF Spec

\* Without --active no method is sent but GET, OPTIONS and those of http-methods
\* (the guards of every discover(), ssrf.py 219-241); what a GET does to the
\* target is another matter.
THEOREM ReadingUnlessActive == Spec => OnlyReadsUnlessActive
<1> DEFINE Reading ==
      setting.caller = "scan" /\ ~ flags.active =>
          \A r \in Sent : \/ r.method \in {"GET", "OPTIONS"}
                          \/ Check = "http-methods" /\ r.method \in Range(Dangerous)
<1>1. Init => TypeInv
  BY TypeStarts
<1>2. TypeInv /\ [Next]_vars => TypeInv' /\ [Reading]_vars
  <2> SUFFICES ASSUME TypeInv, [Next]_vars, setting.caller = "scan", ~ flags.active,
                      NEW r \in Sent
               PROVE  \/ r.method \in {"GET", "OPTIONS"}
                      \/ Check = "http-methods" /\ r.method \in Range(Dangerous)
    BY TypeStep
  <2>1. Check \in CheckNames
    BY DEF TypeInv, ConsentInv, TurnOK, Check
  <2>2. stage = "sending"
    BY ConsentStep DEF TypeInv
  <2>3. Check \in Passive \cup {"plugin"}
    BY <2>1, <2>2, AllowedIfActive, ScanOfItsFlags DEF TypeInv, ConsentInv, SendingIsAllowed
  <2>4. Send
    <3>1. log' # log /\ log' # Nothing
      BY DEF Sent, Nothing
    <3> QED
      BY <3>1 DEF Next, Decline, Enter, AskGate, Close, Advance, Halted, vars
  <2>5. next \in Nat \ {0} /\ odd \in Nat
    BY DEF TypeInv, TypeOK
  <2>6. PICK i, t, answer : Exchanges(i, t, answer)
    BY <2>4, <2>5, SendExchanges DEF TypeInv
  <2>7. r = t /\ t \in Asked(Check, setting)
    BY <2>6 DEF Exchanges, Sent
  <2> QED
    BY <2>1, <2>3, <2>7, AskedFields
<1> HIDE DEF Reading
<1>3. Spec => [][Reading]_vars
  BY <1>1, <1>2, PTL DEF Spec
<1> QED
  BY <1>3 DEF OnlyReadsUnlessActive, Reading

-----------------------------------------------------------------------------
(* What the scorer and validate() make of a session cookie.                *)

Heaviest(signals, d) == Max({s.weight : s \in {t \in signals : t.dimension = d}})

Sums(signals, D, it) ==
    it = [S \in SUBSET D |->
             IF S = {} THEN 0
             ELSE it[S \ {CHOOSE d \in S : TRUE}] + Heaviest(signals, CHOOSE d \in S : TRUE)]

\* The score of n dimensions whose heaviest signals weigh w together.
Weighed(oracle, n, w) == (oracle * (1 + n) * (1000 + 5 * w)) \div 2

\* All signals of the session cookie are of one dimension, of which the
\* heaviest counts.
LEMMA ScoreOfOneDimension ==
    ASSUME NEW oracle \in Nat, NEW signals, NEW d, signals # {},
           \A s \in signals : s.dimension = d, Heaviest(signals, d) \in Nat
    PROVE  Score(oracle, signals) = Weighed(oracle, 1, Heaviest(signals, d))
<1> DEFINE it == CHOOSE g : Sums(signals, {d}, g)
           sum == [S \in SUBSET {d} |-> IF S = {} THEN 0 ELSE Heaviest(signals, d)]
           added(D) == (CHOOSE g : Sums(signals, D, g))[D]
<1>1. Score(oracle, signals) =
         IF signals = {} THEN 0
         ELSE Weighed(oracle, Min({Cardinality({s.dimension : s \in signals}), 4}),
                      added({s.dimension : s \in signals}))
  BY Zenon DEF Score, Heaviest, FoldSet, MapThenFoldSet, Sums, Weighed
<1>2. Sums(signals, {d}, sum)
  <2>1. \A S \in SUBSET {d} : S = {} \/ S = {d}
    OBVIOUS
  <2>2. (CHOOSE x \in {d} : TRUE) = d
    OBVIOUS
  <2>3. sum[{}] = 0 /\ {d} \ {d} = {}
    OBVIOUS
  <2>4. \A S \in SUBSET {d} :
           sum[S] = IF S = {} THEN 0
                    ELSE sum[S \ {CHOOSE x \in S : TRUE}] + Heaviest(signals, CHOOSE x \in S : TRUE)
    BY <2>1, <2>2, <2>3
  <2> QED
    BY <2>4 DEF Sums
<1>3. Sums(signals, {d}, it)
  BY <1>2
<1> HIDE DEF it
<1>4. \A S \in SUBSET {d} :
         it[S] = IF S = {} THEN 0
                 ELSE it[S \ {CHOOSE x \in S : TRUE}] + Heaviest(signals, CHOOSE x \in S : TRUE)
  BY <1>3 DEF Sums
<1>5. it[{}] = 0
  BY <1>4
<1>6. it[{d}] = Heaviest(signals, d)
  <2>1. (CHOOSE x \in {d} : TRUE) = d /\ {d} # {} /\ {d} \in SUBSET {d}
    OBVIOUS
  <2>2. it[{d}] = it[{d} \ {d}] + Heaviest(signals, d)
    BY <1>4, <2>1, Zenon
  <2>3. {d} \ {d} = {}
    OBVIOUS
  <2>4. it[{d}] = 0 + Heaviest(signals, d)
    BY <1>5, <2>2, <2>3, Zenon
  <2> QED
    BY <2>4
<1>7. {s.dimension : s \in signals} = {d}
  OBVIOUS
<1>8. Min({Cardinality({d}), 4}) = 1
  <2>1. Cardinality({d}) = 1
    BY FS_Singleton
  <2>2. Min({1, 4}) \in {1, 4} /\ \A n \in {1, 4} : Min({1, 4}) <= n
    BY MinIsLeast
  <2> QED
    BY <2>1, <2>2
<1>9. added({d}) = Heaviest(signals, d)
  BY <1>6 DEF it
<1> HIDE DEF added
<1> QED
  BY <1>1, <1>7, <1>8, <1>9, Zenon

\* Max finds the greatest of two.
LEMMA MaxOfTwo ==
    ASSUME NEW a \in Nat, NEW b \in Nat, b <= a
    PROVE  Max({a, b}) = a /\ Max({a}) = a
BY DEF Max

\* What assess() computes of a candidate and what validate() says of it.
Scores(log1, c) ==
    <<Scored(log1, c), CookieVerdict(log1, c).confidence>>

LEMMA CookieScores ==
    ASSUME NEW answers, NEW c
    PROVE  Scores(answers, c) \in
              {<<"confirmed", "high">>, <<"low", "low">>, <<"medium", "medium">>, <<"medium", "high">>}
<1>1. /\ "httponly_missing_no_xss" \notin Chains /\ "samesite_missing" \notin Chains
      /\ "weak_token" \notin Chains \cup Gaps /\ Chains \cap Gaps = {}
  BY DEF Chains, Gaps
<1>2. \A w \in Nat : \A dim :
         /\ {Signal(dim, w)} # {} /\ (\A s \in {Signal(dim, w)} : s.dimension = dim)
         /\ Heaviest({Signal(dim, w)}, dim) = w
  <2> SUFFICES ASSUME NEW w \in Nat, NEW dim
               PROVE  /\ {Signal(dim, w)} # {} /\ (\A s \in {Signal(dim, w)} : s.dimension = dim)
                      /\ Heaviest({Signal(dim, w)}, dim) = w
    OBVIOUS
  <2>1. Signal(dim, w).weight = w /\ Signal(dim, w).dimension = dim
    BY DEF Signal
  <2>2. {t \in {Signal(dim, w)} : t.dimension = dim} = {Signal(dim, w)}
    BY <2>1
  <2>3. {s.weight : s \in {Signal(dim, w)}} = {w}
    BY <2>1
  <2>4. Max({w}) = w
    BY MaxOfTwo
  <2>5. Heaviest({Signal(dim, w)}, dim) = Max({s.weight : s \in {t \in {Signal(dim, w)} : t.dimension = dim}})
    BY DEF Heaviest
  <2> QED
    BY <2>1, <2>2, <2>3, <2>4, <2>5, Zenon
<1>3. \A oracle, w \in Nat : \A dim : Score(oracle, {Signal(dim, w)}) = Weighed(oracle, 1, w)
  <2> SUFFICES ASSUME NEW oracle \in Nat, NEW w \in Nat, NEW dim
               PROVE  Score(oracle, {Signal(dim, w)}) = Weighed(oracle, 1, w)
    OBVIOUS
  <2> DEFINE signals == {Signal(dim, w)}
  <2>1. signals # {} /\ (\A s \in signals : s.dimension = dim) /\ Heaviest(signals, dim) = w
    BY <1>2
  <2> HIDE DEF signals
  <2>3. Heaviest(signals, dim) \in Nat
    BY <2>1
  <2>2. Score(oracle, signals) = Weighed(oracle, 1, Heaviest(signals, dim))
    BY <2>1, <2>3, ScoreOfOneDimension
  <2> QED
    BY <2>1, <2>2 DEF signals
<1>7. /\ c.issue \in Chains =>
            /\ Signals(answers, c) = {Signal("response", 10), Signal("response", 8)}
            /\ OracleOf(c) = 4 /\ CookieVerdict(answers, c) = Confirmed
      /\ c.issue \in Gaps =>
            /\ Signals(answers, c) = {Signal("response", 4)}
            /\ OracleOf(c) = 1 /\ CookieVerdict(answers, c) = Likely("low")
      /\ c.issue \notin Chains \cup Gaps =>
            /\ OracleOf(c) = 2
            /\ Borderline(answers, c) =>
                  /\ Signals(answers, c) = {Signal("behavior", 5)}
                  /\ CookieVerdict(answers, c) = Likely("medium")
            /\ ~ Borderline(answers, c) =>
                  /\ Signals(answers, c) \in {{Signal("behavior", 10)}, {Signal("response", 10)}}
                  /\ CookieVerdict(answers, c) = Confirmed
  <2>1. c.issue \in Chains => ~ (c.issue \in Gaps) /\ ~ Borderline(answers, c) /\ c.issue # "weak_token"
    BY <1>1 DEF Borderline
  <2>2. c.issue \in Gaps => ~ (c.issue \in Chains) /\ ~ Borderline(answers, c) /\ c.issue # "weak_token"
    BY <1>1 DEF Borderline
  <2>3. CASE c.issue \in Chains
    <3>0. c.issue \in Chains /\ ~ (c.issue \in Gaps) /\ ~ Borderline(answers, c)
                /\ c.issue # "weak_token"
      BY <2>1, <2>3
    <3>1. Signals(answers, c) = {Signal("response", 10), Signal("response", 8)}
      <4>1. Signals(answers, c) \in {{Signal("response", 10), Signal("response", 8)}}
        BY <3>0 DEF Signals
      <4> QED
        BY <4>1
    <3>2. OracleOf(c) = 4 /\ CookieVerdict(answers, c) = Confirmed
      BY <3>0 DEF OracleOf, CookieVerdict
    <3> QED
      BY <3>0, <3>1, <3>2
  <2>4. CASE c.issue \in Gaps
    <3>0. c.issue \in Gaps /\ ~ (c.issue \in Chains) /\ ~ Borderline(answers, c)
                /\ c.issue # "weak_token"
      BY <2>2, <2>4
    <3>1. Signals(answers, c) = {Signal("response", 4)}
      <4>1. Signals(answers, c) \in {{Signal("response", 4)}}
        BY <3>0 DEF Signals
      <4> QED
        BY <4>1
    <3>2. OracleOf(c) = 1 /\ CookieVerdict(answers, c) = Likely("low")
      BY <3>0 DEF OracleOf, CookieVerdict
    <3> QED
      BY <3>0, <3>1, <3>2
  <2>5. CASE c.issue \notin Chains \cup Gaps
    <3>1. ~ (c.issue \in Chains) /\ ~ (c.issue \in Gaps)
      BY <2>5
    <3>2. Borderline(answers, c) => c.issue = "weak_token"
      BY DEF Borderline
    <3>3. OracleOf(c) = 2
      BY <3>1 DEF OracleOf
    <3>4. CASE Borderline(answers, c)
      <4>1. Signals(answers, c) = {Signal("behavior", 5)}
        <5>1. Signals(answers, c) \in {{Signal("behavior", 5)}}
          BY <3>1, <3>4 DEF Signals
        <5> QED
          BY <5>1
      <4>2. CookieVerdict(answers, c) = Likely("medium")
        BY <3>1, <3>4 DEF CookieVerdict
      <4> QED
        BY <2>5, <3>3, <3>4, <4>1, <4>2
    <3>5. CASE ~ Borderline(answers, c)
      <4>1. Signals(answers, c) \in {{Signal("behavior", 10)}, {Signal("response", 10)}}
        BY <3>1, <3>5 DEF Signals
      <4>2. CookieVerdict(answers, c) = Confirmed
        BY <3>1, <3>5 DEF CookieVerdict
      <4> QED
        BY <2>5, <3>3, <3>5, <4>1, <4>2
    <3> QED
      BY <3>4, <3>5
  <2> QED
    BY <2>3, <2>4, <2>5
<1>4. CASE c.issue \in Chains
  <2> DEFINE signals == {Signal("response", 10), Signal("response", 8)}
  <2>1. Heaviest(signals, "response") = 10
    <3>1. \A w : Signal("response", w).weight = w /\ Signal("response", w).dimension = "response"
      BY DEF Signal
    <3>2. {t \in signals : t.dimension = "response"} = signals
      BY <3>1
    <3>3. {s.weight : s \in signals} = {10, 8}
      BY <3>1
    <3>4. Max({10, 8}) = 10
      <4>1. 8 \in Nat /\ 10 \in Nat /\ 8 <= 10
        OBVIOUS
      <4> QED
        BY <4>1, MaxOfTwo, Zenon
    <3> HIDE DEF signals
    <3> QED
      BY <3>2, <3>3, <3>4, Zenon DEF Heaviest
  <2>2. signals # {} /\ \A s \in signals : s.dimension = "response"
    BY DEF Signal
  <2>3. Signals(answers, c) = signals /\ OracleOf(c) = 4
    BY <1>1, <1>4, <1>7
  <2> HIDE DEF signals
  <2>4. Score(4, signals) = Weighed(4, 1, Heaviest(signals, "response"))
    BY <2>1, <2>2, ScoreOfOneDimension
  <2>5. Score(4, signals) = 4200
    BY <2>1, <2>4 DEF Weighed
  <2>6. Scored(answers, c) = "confirmed"
    BY <2>3, <2>5 DEF Scored, ToConfidence
  <2>7. CookieVerdict(answers, c) = Confirmed
    BY <1>1, <1>4, <1>7
  <2> QED
    BY <2>6, <2>7 DEF Scores, Confirmed
<1>5. CASE c.issue \in Gaps
  <2>1. Signals(answers, c) = {Signal("response", 4)} /\ OracleOf(c) = 1
    BY <1>1, <1>5, <1>7
  <2>2. Score(1, {Signal("response", 4)}) = 1020
    BY <1>3 DEF Weighed
  <2>3. Scored(answers, c) = "low"
    BY <2>1, <2>2 DEF Scored, ToConfidence
  <2>4. CookieVerdict(answers, c) = Likely("low")
    BY <1>1, <1>5, <1>7
  <2> QED
    BY <2>3, <2>4 DEF Scores, Likely
<1>6. CASE c.issue \notin Chains \cup Gaps
  <2>0. OracleOf(c) = 2
    BY <1>6, <1>7
  <2>1. CASE Borderline(answers, c)
    <3>1. Signals(answers, c) = {Signal("behavior", 5)}
      BY <1>6, <1>7, <2>1
    <3>2. Score(2, {Signal("behavior", 5)}) = 2050
      BY <1>3 DEF Weighed
    <3>3. Scored(answers, c) = "medium"
      BY <2>0, <3>1, <3>2 DEF Scored, ToConfidence
    <3>4. CookieVerdict(answers, c) = Likely("medium")
      BY <1>6, <1>7, <2>1
    <3> QED
      BY <3>3, <3>4 DEF Scores, Likely
  <2>2. CASE ~ Borderline(answers, c)
    <3>1. \E dim : Signals(answers, c) = {Signal(dim, 10)}
      BY <1>6, <1>7, <2>2
    <3>2. \A dim : Score(2, {Signal(dim, 10)}) = 2100
      BY <1>3 DEF Weighed
    <3>3. Scored(answers, c) = "medium"
      BY <2>0, <3>1, <3>2 DEF Scored, ToConfidence
    <3>4. CookieVerdict(answers, c) = Confirmed
      BY <1>6, <1>7, <2>2
    <3> QED
      BY <3>3, <3>4 DEF Scores, Confirmed
  <2> QED
    BY <2>1, <2>2
<1> QED
  BY <1>4, <1>5, <1>6

\* What is found is a candidate of the check that closes its last phase.
LEMMA FoundAtClose ==
    ASSUME [Next]_vars, NEW f \in findings', f \notin findings
    PROVE  /\ Close /\ pass = setting.passes
           /\ \E c \in CandidatesOf(Check, setting, log) :
                 f = FindingOf(c) /\ VerdictOf(Check, log, c).outcome # "FALSE_POSITIVE"
<1>1. Close
  BY DEF Next, Decline, Enter, AskGate, Send, Halted, vars
<1>2. pass = setting.passes
  BY <1>1 DEF Close
<1> QED
  BY <1>1, <1>2 DEF Close

\* The pairs of what is scored and what is reported of a cookie.
CookieRanks ==
    {<<"confirmed", "high">>, <<"low", "low">>, <<"medium", "medium">>, <<"medium", "high">>}

CookiesRanked ==
    \A f \in findings : f.check = "session-cookie" => <<f.scored, f.confidence>> \in CookieRanks

\* Of two cookie findings the one that scores higher is not reported with less
\* confidence (session_cookie.py 484-541, confidence.py, orchestrator.py 385-404).
THEOREM RankingIsKept == Spec => []RankingKept
<1>1. Init => CookiesRanked
  BY DEF Init, CookiesRanked
<1>2. CookiesRanked /\ [Next]_vars => CookiesRanked'
  <2> SUFFICES ASSUME CookiesRanked, [Next]_vars, NEW f \in findings', f.check = "session-cookie"
               PROVE  <<f.scored, f.confidence>> \in CookieRanks
    BY DEF CookiesRanked
  <2>1. CASE f \in findings
    BY <2>1 DEF CookiesRanked
  <2>2. CASE f \notin findings
    <3>1. PICK c : f = FindingOf(c)
      BY <2>2, FoundAtClose
    <3>2. Check = "session-cookie"
      BY <3>1 DEF FindingOf
    <3>3. VerdictOf(Check, log, c) = CookieVerdict(log, c)
      BY <3>2 DEF VerdictOf
    <3>4. f.scored = Scored(log, c) /\ f.confidence = CookieVerdict(log, c).confidence
      BY <3>1, <3>2, <3>3 DEF FindingOf
    <3> QED
      BY <3>4, CookieScores DEF Scores, CookieRanks
  <2> QED
    BY <2>1, <2>2
<1>3. CookiesRanked => RankingKept
  <2> SUFFICES ASSUME CookiesRanked, NEW f \in findings, NEW g \in findings,
                      f.check = "session-cookie", g.check = "session-cookie",
                      Rank[f.scored] > Rank[g.scored]
               PROVE  Rank[f.confidence] >= Rank[g.confidence]
    BY DEF RankingKept
  <2>1. /\ <<f.scored, f.confidence>> \in CookieRanks
        /\ <<g.scored, g.confidence>> \in CookieRanks
    BY DEF CookiesRanked
  <2>2. /\ Rank["low"] = 1 /\ Rank["medium"] = 2 /\ Rank["high"] = 3 /\ Rank["confirmed"] = 4
    BY DEF Rank
  <2> QED
    BY <2>1, <2>2 DEF CookieRanks
<1> QED
  BY <1>1, <1>2, <1>3, PTL DEF Spec

-----------------------------------------------------------------------------
(* What a finding rests on.                                                *)

\* r was sent on the grounds of these answers.
Grounds(check, s, answers, r) ==
    /\ check = "sqli-time-based" /\ r.with[1] = "probe" => SqliMedian(answers, r.at) # 0
    /\ check = "command-injection" /\ r.with[1] = "probe" => CmdiBaseline(answers, r.at) # 0
    /\ check = "path-traversal" /\ r.with[1] = "probe" => Returned(answers, Baseline(r.at, First))
    /\ check = "bola-idor" /\ r.with[2] # 1 => Status(answers, OfOwner(s.ps, r), {200})
    /\ check = "graphql" /\ r = TypeQuery(r.at) => ~ Json200(answers, Introspection(r.at), "schema")
    /\ check = "session-invalidation" /\ r.with[1] = "logout" => Seen(answers, "before") # {}
    /\ check = "session-invalidation" /\ r.with[1] = "after" =>
          Returned(answers, As(r.by, Logout(r.with[2])))

\* What is not left out has its grounds.
LEMMA SentOnGrounds ==
    ASSUME NEW check, NEW s, NEW answers, NEW r, ~ SkipsBy(check, s, answers, r)
    PROVE  Grounds(check, s, answers, r)
<1>1. CASE check = "sqli-time-based"
  BY <1>1 DEF SkipsBy, SqliSkips, Grounds
<1>2. CASE check = "command-injection"
  BY <1>2 DEF SkipsBy, CmdiSkips, Grounds
<1>3. CASE check = "path-traversal"
  BY <1>3 DEF SkipsBy, TraversalSkips, Grounds
<1>4. CASE check = "bola-idor"
  BY <1>4 DEF SkipsBy, BolaSkips, Grounds
<1>5. CASE check = "graphql"
  BY <1>5 DEF SkipsBy, GraphqlSkips, Grounds
<1>6. CASE check = "session-invalidation"
  <2>1. ~ InvalidationSkips(answers, r)
    BY <1>6 DEF SkipsBy
  <2>2. r.with[1] = "logout" => Seen(answers, "before") # {}
    BY <2>1 DEF InvalidationSkips
  <2>3. r.with[1] = "after" => Returned(answers, As(r.by, Logout(r.with[2])))
    BY <2>1 DEF InvalidationSkips
  <2> QED
    BY <1>6, <2>2, <2>3 DEF Grounds
<1> QED
  BY <1>1, <1>2, <1>3, <1>4, <1>5, <1>6 DEF Grounds

\* answers with one more, which may be a repetition.
Extended(answers, t, answer) ==
    [q \in DOMAIN answers \cup {t} |-> IF q = t THEN answer ELSE answers[q]]

\* Whoever is logged out looked at the paths under one name.
LEMMA LookedAsOne ==
    ASSUME NEW s, NEW r \in Asked("session-invalidation", s)
    PROVE  /\ r.by = s.ids[Min(Authenticated(s.ids))].name
           /\ r.with[1] \in {"before", "logout", "after"}
           /\ r.with[1] = "before" => \E p \in Range(Paths) : r = As(r.by, Before(p))
<1>1. Authenticated(s.ids) # {} /\ r \in LogoutRequests(s.ids[Min(Authenticated(s.ids))].name)
  BY DEF Asked, Comparing
<1> DEFINE n == s.ids[Min(Authenticated(s.ids))].name
<1> HIDE DEF n
<1>2. \/ \E p \in Range(Paths) : r = As(n, Before(p))
      \/ \E l : r = As(n, Logout(l))
      \/ \E p, l : r = As(n, After(p, l))
  BY <1>1 DEF LogoutRequests, n
<1>3. \A p, l : /\ As(n, Before(p)).by = n /\ As(n, Before(p)).with[1] = "before"
                /\ As(n, Logout(l)).by = n /\ As(n, Logout(l)).with[1] = "logout"
                /\ As(n, After(p, l)).by = n /\ As(n, After(p, l)).with[1] = "after"
  BY DEF As, Before, Logout, After, Get, Request
<1>4. r.by = n /\ r.with[1] \in {"before", "logout", "after"}
  BY <1>2, <1>3
<1>5. r.with[1] = "before" => \E p \in Range(Paths) : r = As(n, Before(p))
  BY <1>2, <1>3
<1> QED
  BY <1>4, <1>5 DEF n

\* An answer that r does not rest on leaves r its grounds.
LEMMA GroundsStay ==
    ASSUME NEW check, NEW s, NEW answers, NEW r \in Asked(check, s), NEW t \in Asked(check, s), NEW answer,
           Grounds(check, s, answers, r), t \notin RestsOn(check, s, r)
    PROVE  Grounds(check, s, Extended(answers, t, answer), r)
<1> DEFINE more == Extended(answers, t, answer)
<1>1. /\ DOMAIN more = DOMAIN answers \cup {t}
      /\ \A q \in DOMAIN answers \cup {t} : q # t => more[q] = answers[q]
  BY DEF Extended
<1> HIDE DEF more
<1>2. ASSUME NEW q, q # t
      PROVE  /\ Returned(more, q) <=> Returned(answers, q)
             /\ Returned(answers, q) => more[q] = answers[q]
  BY <1>1, <1>2 DEF Returned
<1>3. ASSUME check \in Comparing, r.with[1] = "probe"
      PROVE  \A i \in Samples : Baseline(r.at, i) # t
  <2>1. RestsOn(check, s, r) = {Baseline(r.at, i) : i \in Samples}
    BY <1>3 DEF RestsOn, Comparing
  <2> QED
    BY <2>1
<1>4. CASE check = "sqli-time-based" /\ r.with[1] = "probe"
  <2>1. SqliMedian(more, r.at) = SqliMedian(answers, r.at)
    BY <1>2, <1>3, <1>4 DEF Comparing, SqliMedian, Samples
  <2> QED
    BY <1>4, <2>1 DEF Grounds, more
<1>5. CASE check = "command-injection" /\ r.with[1] = "probe"
  <2>1. CmdiBaseline(more, r.at) = CmdiBaseline(answers, r.at)
    BY <1>2, <1>3, <1>5 DEF Comparing, CmdiBaseline, Samples
  <2> QED
    BY <1>5, <2>1 DEF Grounds, more
<1>6. CASE check = "path-traversal" /\ r.with[1] = "probe"
  <2>1. Returned(more, Baseline(r.at, First))
    BY <1>2, <1>3, <1>6 DEF Comparing, Samples, Grounds
  <2> QED
    BY <1>6, <2>1 DEF Grounds, more
<1>7. CASE check = "bola-idor" /\ r.with[2] # 1
  <2>1. OfOwner(s.ps, r) # t
    BY <1>7 DEF RestsOn, Comparing
  <2>2. Status(more, OfOwner(s.ps, r), {200})
    BY <1>2, <1>7, <2>1 DEF Grounds, Status
  <2> QED
    BY <1>7, <2>2 DEF Grounds, more
<1>8. CASE check = "graphql" /\ r = TypeQuery(r.at)
  <2>1. Introspection(r.at) # t
    BY <1>8 DEF RestsOn, Comparing
  <2>2. ~ Json200(more, Introspection(r.at), "schema")
    BY <1>2, <1>8, <2>1 DEF Grounds, Json200, Status
  <2> QED
    BY <1>8, <2>2 DEF Grounds, more
<1>9. CASE check = "session-invalidation" /\ r.with[1] = "logout"
  <2>1. RestsOn(check, s, r) = {As(r.by, Before(p)) : p \in Range(Paths)}
    BY <1>9 DEF RestsOn, Comparing
  <2>2. t.with[1] # "before"
    BY <1>9, <2>1, LookedAsOne
  <2>3. Seen(answers, "before") \subseteq Seen(more, "before")
    BY <1>1, <2>2 DEF Seen
  <2> QED
    BY <1>9, <2>3 DEF Grounds, more
<1>10. CASE check = "session-invalidation" /\ r.with[1] = "after"
  <2>1. As(r.by, Logout(r.with[2])) # t
    BY <1>10 DEF RestsOn, Comparing
  <2>2. Returned(more, As(r.by, Logout(r.with[2])))
    BY <1>2, <1>10, <2>1 DEF Grounds
  <2> QED
    BY <1>10, <2>2 DEF Grounds, more
<1> QED
  BY <1>4, <1>5, <1>6, <1>7, <1>8, <1>9, <1>10 DEF Grounds

\* The checks that leave requests out after some answers.
Skipping ==
    {"sqli-time-based", "command-injection", "path-traversal", "xss-reflected", "ssrf", "bola-idor",
     "session-invalidation", "information-disclosure", "source-map-exposure",
     "open-redirect-indicator", "graphql", "session-cookie"}

\* What is in the log was asked for, on grounds that no later answer changes,
\* and a check that leaves nothing out has all requests before the next one.
Sound(check, s, answers, n) ==
    /\ DOMAIN answers \subseteq Asked(check, s)
    /\ \A r \in DOMAIN answers :
          /\ Grounds(check, s, answers, r)
          /\ \A j \in DOMAIN RequestsOf(check, s) :
                j >= n => RequestsOf(check, s)[j] \notin RestsOn(check, s, r)
    /\ check \notin Skipping =>
          \A j \in DOMAIN RequestsOf(check, s) : j < n => RequestsOf(check, s)[j] \in DOMAIN answers

LEMMA SoundAtFirst ==
    ASSUME NEW check \in CheckNames, NEW s, IsList(s.ps)
    PROVE  Sound(check, s, Nothing, 1)
<1>1. DOMAIN Nothing = {}
  BY DEF Nothing
<1>2. IsList(RequestsOf(check, s))
  BY RequestsAsked
<1>3. \A j \in DOMAIN RequestsOf(check, s) : ~ (j < 1)
  BY <1>2 DEF IsList
<1> QED
  BY <1>1, <1>3 DEF Sound

LEMMA SoundOnSending ==
    ASSUME TypeInv, Sound(Check, setting, log, next), NEW i, NEW r, NEW answer, Exchanges(i, r, answer)
    PROVE  Sound(Check, setting, log', next')
<1> DEFINE q == RequestsOf(Check, setting)
<1>1. Check \in CheckNames /\ IsList(setting.ps)
  BY SettingLists DEF TypeInv, ConsentInv, TurnOK, Check
<1>2. IsList(q) /\ InOrder(Check, setting, q)
  BY <1>1, RequestsAsked, RequestsInOrder
<1>3. next \in Nat
  BY DEF TypeInv, TypeOK
<1>4. /\ i \in DOMAIN q /\ i >= next /\ next' = i + 1 /\ r = q[i] /\ r \in Asked(Check, setting)
      /\ ~ SkipsBy(Check, setting, log, r)
      /\ \A j \in DOMAIN q : j >= next /\ j < i => SkipsBy(Check, setting, log, q[j])
      /\ log' = Extended(log, r, answer)
  BY DEF Exchanges, Extended
<1>5. /\ DOMAIN log \subseteq Asked(Check, setting)
      /\ \A t \in DOMAIN log :
            /\ Grounds(Check, setting, log, t)
            /\ \A j \in DOMAIN q : j >= next => q[j] \notin RestsOn(Check, setting, t)
      /\ Check \notin Skipping => \A j \in DOMAIN q : j < next => q[j] \in DOMAIN log
  BY DEF Sound
<1>6. DOMAIN log' = DOMAIN log \cup {r}
  BY <1>4 DEF Extended
<1> HIDE DEF q
<1>7. DOMAIN q \subseteq Nat
  BY <1>2 DEF IsList
<1>8. DOMAIN log' \subseteq Asked(Check, setting)
  BY <1>4, <1>5, <1>6
<1>9. ASSUME NEW t \in DOMAIN log'
      PROVE  /\ Grounds(Check, setting, log', t)
             /\ \A j \in DOMAIN q : j >= next' => q[j] \notin RestsOn(Check, setting, t)
  <2>1. Grounds(Check, setting, log, t) /\ r \notin RestsOn(Check, setting, t)
    <3>1. CASE t = r
      <4>1. Grounds(Check, setting, log, r)
        BY <1>4, SentOnGrounds
      <4>2. i <= i
        BY <1>4, <1>7
      <4>3. r \notin RestsOn(Check, setting, r)
        BY <1>2, <1>4, <4>2 DEF InOrder
      <4> QED
        BY <3>1, <4>1, <4>3
    <3>2. CASE t # r
      <4>1. t \in DOMAIN log
        BY <1>6, <3>2
      <4> QED
        BY <1>4, <1>5, <4>1
    <3> QED
      BY <3>1, <3>2
  <2>2. Grounds(Check, setting, log', t)
    BY <1>4, <1>8, <2>1, GroundsStay
  <2>3. ASSUME NEW j \in DOMAIN q, j >= next'
        PROVE  q[j] \notin RestsOn(Check, setting, t)
    <3>1. j \in Nat /\ i \in Nat /\ i <= j /\ next <= j
      BY <1>3, <1>4, <1>7, <2>3
    <3>2. CASE t = r
      BY <1>2, <1>4, <3>1, <3>2 DEF InOrder
    <3>3. CASE t # r
      BY <1>5, <1>6, <3>1, <3>3
    <3> QED
      BY <3>2, <3>3
  <2> QED
    BY <2>2, <2>3
<1>10. ASSUME Check \notin Skipping, NEW j \in DOMAIN q, j < next'
       PROVE  q[j] \in DOMAIN log'
  <2>1. j \in Nat /\ i \in Nat
    BY <1>4, <1>7
  <2>2. \A t : ~ SkipsBy(Check, setting, log, t)
    BY <1>10 DEF SkipsBy, Skipping
  <2>3. CASE j < next
    BY <1>5, <1>6, <1>10, <2>3
  <2>4. CASE j >= next /\ j < i
    BY <1>4, <2>2, <2>4
  <2>5. CASE j = i
    BY <1>4, <1>6, <2>5
  <2> QED
    BY <1>3, <1>4, <1>10, <2>1, <2>3, <2>4, <2>5
<1> QED
  BY <1>8, <1>9, <1>10 DEF Sound, q

\* The types, and while a check sends its requests the grounds of its log.
SendingInv ==
    /\ TypeInv
    /\ stage = "asking" => log = Nothing /\ next = 1
    /\ stage = "sending" => Sound(Check, setting, log, next)

LEMMA SendingStarts ==
    ASSUME Init
    PROVE  SendingInv
BY TypeStarts DEF Init, SendingInv

LEMMA SendingStep ==
    ASSUME SendingInv, [Next]_vars
    PROVE  SendingInv'
<1>1. TypeInv'
  BY TypeStep DEF SendingInv
<1>2. setting' = setting /\ registry' = registry
  BY DEF Next, Decline, Enter, AskGate, Send, Close, Halted, vars, launchVars
<1>3. CASE Advance
  <2>1. stage' \in {"asking", "over"} /\ log' = Nothing /\ next' = 1
    BY <1>3 DEF Advance
  <2> QED
    BY <1>1, <2>1 DEF SendingInv
<1>4. CASE stage = "asking" /\ stage' = "sending" /\ UNCHANGED <<turn, log, next>>
  <2>1. Check' \in CheckNames /\ IsList(setting'.ps)
    <3>1. Check \in CheckNames /\ IsList(setting.ps)
      BY SettingLists DEF SendingInv, TypeInv, ConsentInv, TurnOK, Check
    <3>2. Check' = Check
      BY <1>2, <1>4 DEF Check
    <3> QED
      BY <1>2, <3>1, <3>2
  <2>2. log' = Nothing /\ next' = 1
    BY <1>4 DEF SendingInv
  <2>3. Sound(Check', setting', log', next')
    BY <2>1, <2>2, SoundAtFirst
  <2> QED
    BY <1>1, <1>4, <2>3 DEF SendingInv
<1>5. CASE Send
  <2>1. next \in Nat \ {0} /\ odd \in Nat
    BY DEF SendingInv, TypeInv, TypeOK
  <2>2. PICK i, r, answer : Exchanges(i, r, answer)
    BY <1>5, <2>1, SendExchanges DEF SendingInv, TypeInv
  <2>3. stage = "sending" /\ stage' # "asking" /\ turn' = turn
    BY <2>2 DEF Exchanges
  <2>4. Sound(Check, setting, log', next')
    BY <2>2, <2>3, SoundOnSending DEF SendingInv
  <2>5. Check' = Check
    BY <1>2, <2>3 DEF Check
  <2> QED
    BY <1>1, <1>2, <2>3, <2>4, <2>5 DEF SendingInv
<1>6. CASE UNCHANGED vars
  <2>1. UNCHANGED <<stage, log, next>> /\ Check' = Check
    BY <1>6 DEF vars, launchVars, Check
  <2> QED
    BY <1>1, <1>2, <2>1 DEF SendingInv
<1>7. CASE Enter
  BY <1>4, <1>7 DEF Enter
<1>8. CASE AskGate
  BY <1>3, <1>4, <1>8 DEF AskGate
<1> QED
  BY <1>3, <1>5, <1>6, <1>7, <1>8 DEF Next, Decline, Close, Halted

\* A candidate is told by an exchange of the log, which its evidence shows, but
\* for a method that OPTIONS advertised.
LEMMA CandidatesAreShown ==
    ASSUME NEW check \in CheckNames, NEW s, NEW answers, NEW c \in CandidatesOf(check, s, answers)
    PROVE  /\ c.shown \in DOMAIN answers
           /\ check = "http-methods" => c.shown = c.tells \/ c.issue = "method_advertised_in_allow"
           /\ check # "http-methods" => c.shown = c.tells
<1> DEFINE Shown(S) == \A d \in S : d.shown \in DOMAIN answers /\ d.shown = d.tells
<1>1. \A r, issue, p :
         /\ Candidate(r, issue).tells = r /\ Candidate(r, issue).shown = r
         /\ Naming(p, Candidate(r, issue)).tells = r /\ Naming(p, Candidate(r, issue)).shown = r
  BY DEF Candidate, Naming
<1>2. \A r, mark : Marked(answers, r, mark) => r \in DOMAIN answers
  BY DEF Marked, Returned
<1>3. Shown({})
  OBVIOUS
<1>4. \A r \in DOMAIN answers : \A issue, p :
         Shown({Candidate(r, issue)}) /\ Shown({Naming(p, Candidate(r, issue))})
  BY <1>1
<1>5. /\ Shown(SqliCandidates(answers)) /\ Shown(CmdiCandidates(answers))
      /\ Shown(TraversalCandidates(answers)) /\ Shown(XssCandidates(answers))
      /\ Shown(SsrfCandidates(answers)) /\ Shown(GraphqlCandidates(answers))
  <2>1. Shown(SqliCandidates(answers))
    BY <1>1 DEF SqliCandidates
  <2>2. Shown(CmdiCandidates(answers))
    BY <1>1 DEF CmdiCandidates, CmdiHits
  <2>3. Shown(TraversalCandidates(answers))
    BY <1>1 DEF TraversalCandidates
  <2>4. Shown(XssCandidates(answers))
    BY <1>1 DEF XssCandidates
  <2>5. Shown(SsrfCandidates(answers))
    BY <1>1 DEF SsrfCandidates
  <2>6. Shown(GraphqlCandidates(answers))
    BY <1>1 DEF GraphqlCandidates
  <2> QED
    BY <2>1, <2>2, <2>3, <2>4, <2>5, <2>6
<1>6. /\ Shown(BolaCandidates(s.ps, answers)) /\ Shown(BflaCandidates(answers))
      /\ Shown(BehaviorCandidates(s.ids, answers)) /\ Shown(InvalidationCandidates(answers))
      /\ Shown(AssignmentCandidates(answers))
  <2>1. Shown(BolaCandidates(s.ps, answers))
    BY <1>1 DEF BolaCandidates
  <2>2. Shown(BflaCandidates(answers))
    BY <1>1 DEF BflaCandidates
  <2>3. Shown(BehaviorCandidates(s.ids, answers))
    BY <1>1 DEF BehaviorCandidates
  <2>4. Shown(InvalidationCandidates(answers))
    <3>1. Seen(answers, "after") \subseteq DOMAIN answers
      BY DEF Seen
    <3>2. \A d \in InvalidationCandidates(answers) :
             \E r \in DOMAIN answers : \E p, issue : d = Naming(p, Candidate(r, issue))
      BY <3>1 DEF InvalidationCandidates
    <3> QED
      BY <1>1, <3>2
  <2>5. Shown(AssignmentCandidates(answers))
    BY <1>1 DEF AssignmentCandidates
  <2> QED
    BY <2>1, <2>2, <2>3, <2>4, <2>5
<1>7. /\ Shown(CorsCandidates(answers)) /\ Shown(MapsCandidates(answers))
      /\ Shown(RedirectCandidates(answers)) /\ Shown(DisclosureCandidates(answers))
  <2>1. Shown(CorsCandidates(answers))
    BY <1>1 DEF CorsCandidates
  <2>2. Shown(MapsCandidates(answers))
    <3>1. \A d \in MapsCandidates(answers) :
             \E r \in DOMAIN answers : \E issue : d = Candidate(r, issue)
      BY Zenon DEF MapsCandidates
    <3> QED
      BY <1>1, <3>1
  <2>3. Shown(RedirectCandidates(answers))
    BY <1>2, RedirectShape, NthFields
  <2>4. Shown(DisclosureCandidates(answers))
    BY <1>1, <1>2 DEF DisclosureCandidates
  <2> QED
    BY <2>1, <2>2, <2>3, <2>4
<1>8. Shown(HeadersCandidates(answers))
  <2>1. ASSUME NEW d \in HeadersCandidates(answers)
        PROVE  Home \in DOMAIN answers /\ \E issue : d = Candidate(Home, issue)
    BY DEF HeadersCandidates, Returned, Status
  <2> QED
    BY <1>1, <2>1
<1>9. Shown(CookieCandidates(s.https, answers))
  BY <1>2, CookieShape, NthFields
<1>10. ASSUME NEW d \in MethodsCandidates(answers)
       PROVE  /\ d.shown \in DOMAIN answers
              /\ d.shown = d.tells \/ d.issue = "method_advertised_in_allow"
  <2>2. /\ \A r \in Worked(answers) : r \in DOMAIN answers
        /\ \A r \in Advertised(answers) : r \in DOMAIN answers
    BY DEF Worked, Advertised
  <2>3. \/ \E r \in Worked(answers) : d = Candidate(r, MethodsIssue(r.method))
        \/ \E r \in Advertised(answers) :
              d = [Candidate(r, "method_advertised_in_allow") EXCEPT !.tells = Options(r.at)]
    BY DEF MethodsCandidates
  <2>4. CASE \E r \in Worked(answers) : d = Candidate(r, MethodsIssue(r.method))
    BY <1>1, <2>2, <2>4
  <2>5. ASSUME NEW r \in Advertised(answers),
               d = [Candidate(r, "method_advertised_in_allow") EXCEPT !.tells = Options(r.at)]
        PROVE  d.shown = r /\ d.issue = "method_advertised_in_allow"
    BY <2>5 DEF Candidate
  <2> QED
    BY <2>2, <2>3, <2>4, <2>5
<1>11. check # "http-methods" => Shown(CandidatesOf(check, s, answers))
  <2> HIDE DEF Shown
  <2> QED
    BY <1>3, <1>5, <1>6, <1>7, <1>8, <1>9, ZenonT(120) DEF CandidatesOf, CheckNames, Passive, Gated, Ungated
<1> QED
  BY <1>10, <1>11 DEF CandidatesOf

\* The two requests of a path that cors.py sends.
LEMMA CorsPairs ==
    ASSUME NEW s, NEW r \in Asked("cors-policy", s)
    PROVE  /\ r = Preflight(r.at) \/ r = Crossing(r.at)
           /\ Preflight(r.at) \in Asked("cors-policy", s) /\ Crossing(r.at) \in Asked("cors-policy", s)
<1>1. Asked("cors-policy", s) = PathRequests(Preflight) \cup PathRequests(Crossing)
  BY DEF Asked
<1>2. PICK p \in Range(Paths) : r = Preflight(p) \/ r = Crossing(p)
  BY <1>1 DEF PathRequests
<1>3. Preflight(p).at = p /\ Crossing(p).at = p
  BY DEF Preflight, Crossing, Get, Request
<1>4. r.at = p
  BY <1>2, <1>3
<1> QED
  BY <1>1, <1>2, <1>4 DEF PathRequests

\* When cors.py returns it has sent everything.
LEMMA CorsIsThrough ==
    ASSUME SendingInv, stage = "sending", Left = {}, Check = "cors-policy"
    PROVE  Asked(Check, setting) \subseteq DOMAIN log
<1> DEFINE q == RequestsOf(Check, setting)
<1>1. Check \in CheckNames /\ IsList(setting.ps) /\ next \in Nat
  BY SettingLists DEF SendingInv, TypeInv, ConsentInv, TurnOK, Check, TypeOK
<1>2. IsList(q) /\ Range(q) = Asked(Check, setting)
  BY <1>1, RequestsAsked
<1>3. \A j \in DOMAIN q : j < next => q[j] \in DOMAIN log
  BY DEF SendingInv, Sound, Skipping
<1>4. \A t : ~ SkipsBy(Check, setting, log, t)
  BY DEF SkipsBy
<1>5. Left = {j \in next..Len(q) : ~ SkipsBy(Check, setting, log, q[j])}
  BY DEF Left
<1> HIDE DEF q
<1>6. ASSUME NEW j \in DOMAIN q, j >= next PROVE FALSE
  BY <1>1, <1>2, <1>4, <1>5, <1>6 DEF IsList
<1>7. \A j \in DOMAIN q : q[j] \in DOMAIN log
  BY <1>1, <1>2, <1>3, <1>6 DEF IsList
<1> QED
  BY <1>2, <1>7 DEF Range

\* The evidence of what is returned is of this log.
LEMMA EvidenceIsLogged ==
    ASSUME SendingInv, stage = "sending", Left = {}, NEW c \in CandidatesOf(Check, setting, log)
    PROVE  /\ c.tells \in EvidenceOf(Check, setting, c) \/ c.issue = "method_advertised_in_allow"
           /\ EvidenceOf(Check, setting, c) \subseteq DOMAIN log
<1>1. Check \in CheckNames /\ Sound(Check, setting, log, next)
  BY DEF SendingInv, TypeInv, ConsentInv, TurnOK, Check
<1>2. /\ c.shown \in DOMAIN log
      /\ Check = "http-methods" => c.shown = c.tells \/ c.issue = "method_advertised_in_allow"
      /\ Check # "http-methods" => c.shown = c.tells
  BY <1>1, CandidatesAreShown
<1>3. CASE Check = "bola-idor"
  <2>1. EvidenceOf(Check, setting, c) = {OfOwner(setting.ps, c.tells), c.tells}
    BY <1>3 DEF EvidenceOf, BolaEvidence
  <2>2. c.tells \in DOMAIN log /\ c.tells.with[2] # 1
    <3>1. PICK r, p, issue : r \in DOMAIN log /\ r.with[2] # 1 /\ c = Naming(p, Candidate(r, issue))
      BY <1>3 DEF CandidatesOf, BolaCandidates
    <3> QED
      BY <3>1 DEF Naming, Candidate
  <2>3. OfOwner(setting.ps, c.tells) \in DOMAIN log
    BY <1>1, <1>3, <2>2 DEF Sound, Grounds, Status, Returned
  <2> QED
    BY <2>1, <2>2, <2>3
<1>4. CASE Check = "cors-policy"
  <2>1. EvidenceOf(Check, setting, c) = {Preflight(c.tells.at), Crossing(c.tells.at)}
    BY <1>4 DEF EvidenceOf, CorsEvidence
  <2>2. c.tells \in Asked("cors-policy", setting)
    BY <1>1, <1>2, <1>4 DEF Sound
  <2>3. /\ c.tells = Preflight(c.tells.at) \/ c.tells = Crossing(c.tells.at)
        /\ Preflight(c.tells.at) \in Asked("cors-policy", setting)
        /\ Crossing(c.tells.at) \in Asked("cors-policy", setting)
    BY <2>2, CorsPairs
  <2>4. Asked("cors-policy", setting) \subseteq DOMAIN log
    BY <1>4, CorsIsThrough
  <2> QED
    BY <2>1, <2>3, <2>4
<1>5. CASE Check \notin {"bola-idor", "cors-policy"}
  <2>1. EvidenceOf(Check, setting, c) = {c.shown}
    BY <1>5 DEF EvidenceOf, MethodsEvidence
  <2> QED
    BY <1>2, <2>1
<1> QED
  BY <1>3, <1>4, <1>5

\* What a candidate rests on, by its check.
LEMMA CandidatesRest ==
    ASSUME SendingInv, stage = "sending", NEW c \in CandidatesOf(Check, setting, log)
    PROVE  /\ Check = "sqli-time-based" => SqliMedian(log, c.tells.at) > 0
           /\ Check = "command-injection" => CmdiBaseline(log, c.tells.at) > 0
           /\ Check = "path-traversal" => Returned(log, Baseline(c.tells.at, First))
           /\ Check \in {"bola-idor", "bfla", "session-invalidation"} => c.names = c.tells.by
           /\ Check = "bola-idor" =>
                 /\ c.tells # OfOwner(setting.ps, c.tells)
                 /\ Status(log, OfOwner(setting.ps, c.tells), {200})
           /\ Check = "session-invalidation" =>
                 /\ \E r \in Seen(log, "before") : r.by = c.names
                 /\ Returned(log, As(c.names, Logout(c.tells.with[2])))
<1>1. /\ DOMAIN log \subseteq Asked(Check, setting)
      /\ \A r \in DOMAIN log : Grounds(Check, setting, log, r)
  BY DEF SendingInv, Sound
<1>2. \A r \in DOMAIN log : log[r].time \in Nat
  BY DEF SendingInv, TypeInv, TypeOK
<1>3. \A r, issue, p : /\ Candidate(r, issue).tells = r
                       /\ Naming(p, Candidate(r, issue)).tells = r
                       /\ Naming(p, Candidate(r, issue)).names = p
  BY DEF Candidate, Naming
<1>4. ASSUME Check = "sqli-time-based" PROVE SqliMedian(log, c.tells.at) > 0
  <2>1. c.tells \in DOMAIN log /\ c.tells.with[1] = "probe"
    BY <1>3, <1>4 DEF CandidatesOf, SqliCandidates
  <2>2. SqliMedian(log, c.tells.at) # 0
    BY <1>1, <1>4, <2>1 DEF Grounds
  <2>3. SqliMedian(log, c.tells.at) \in Nat
    BY <1>2 DEF SqliMedian, Returned, Samples
  <2> QED
    BY <2>2, <2>3
<1>5. ASSUME Check = "command-injection" PROVE CmdiBaseline(log, c.tells.at) > 0
  <2>1. c.tells \in DOMAIN log /\ c.tells.with[1] = "probe"
    BY <1>3, <1>5 DEF CandidatesOf, CmdiCandidates, CmdiHits
  <2>2. CmdiBaseline(log, c.tells.at) # 0
    BY <1>1, <1>5, <2>1 DEF Grounds
  <2>3. CmdiBaseline(log, c.tells.at) \in Nat
    BY <1>2 DEF CmdiBaseline, Returned, Samples
  <2> QED
    BY <2>2, <2>3
<1>6. ASSUME Check = "path-traversal" PROVE Returned(log, Baseline(c.tells.at, First))
  <2>1. c.tells \in DOMAIN log /\ c.tells.with[1] = "probe"
    BY <1>3, <1>6 DEF CandidatesOf, TraversalCandidates, TraversalDiffers
  <2> QED
    BY <1>1, <1>6, <2>1 DEF Grounds
<1>7. ASSUME Check = "bola-idor"
      PROVE  /\ c.names = c.tells.by /\ c.tells # OfOwner(setting.ps, c.tells)
             /\ Status(log, OfOwner(setting.ps, c.tells), {200})
  <2>1. PICK r, issue : r \in DOMAIN log /\ r.with[2] # 1 /\ c = Naming(r.by, Candidate(r, issue))
    BY <1>7 DEF CandidatesOf, BolaCandidates
  <2>2. c.tells = r /\ c.names = r.by
    BY <1>3, <2>1
  <2>3. OfOwner(setting.ps, r).with[2] = 1
    BY SentFields DEF OfOwner
  <2>4. Status(log, OfOwner(setting.ps, r), {200})
    BY <1>1, <1>7, <2>1 DEF Grounds
  <2> QED
    BY <2>1, <2>2, <2>3, <2>4
<1>8. ASSUME Check = "session-invalidation"
      PROVE  /\ c.names = c.tells.by
             /\ \E r \in Seen(log, "before") : r.by = c.names
             /\ Returned(log, As(c.names, Logout(c.tells.with[2])))
  <2>1. PICK r \in Seen(log, "after") : c = Naming(r.by, Candidate(r, "session kept"))
    BY <1>8 DEF CandidatesOf, InvalidationCandidates
  <2>2. c.tells = r /\ c.names = r.by
    BY <2>1 DEF Candidate, Naming
  <2>3. r \in DOMAIN log /\ r.with[1] = "after"
    BY <2>1 DEF Seen
  <2> DEFINE out == As(r.by, Logout(r.with[2]))
  <2>4. Returned(log, out)
    BY <1>1, <1>8, <2>3 DEF Grounds
  <2>5. out \in DOMAIN log /\ out.with[1] = "logout"
    BY <2>4 DEF Returned, As, Logout, Request
  <2> HIDE DEF out
  <2>6. Seen(log, "before") # {}
    BY <1>1, <1>8, <2>5 DEF Grounds
  <2>7. \A t \in DOMAIN log : t.by = setting.ids[Min(Authenticated(setting.ids))].name
    BY <1>1, <1>8, LookedAsOne
  <2>8. PICK t \in Seen(log, "before") : TRUE
    BY <2>6
  <2>9. t \in DOMAIN log /\ t.by = r.by
    BY <2>3, <2>7, <2>8 DEF Seen
  <2> QED
    BY <2>2, <2>4, <2>8, <2>9 DEF out
<1>9. ASSUME Check = "bfla" PROVE c.names = c.tells.by
  <2>1. \E r, issue : c = Naming(r.by, Candidate(r, issue))
    BY <1>9 DEF CandidatesOf, BflaCandidates
  <2> QED
    BY <1>3, <2>1
<1> QED
  BY <1>4, <1>5, <1>6, <1>7, <1>8, <1>9

\* A finding that compares rests on the other half of the comparison, and its
\* evidence shows what it rests on: no order of answers, failures among them,
\* makes a check return a candidate whose baseline was never sent or raised.  A
\* baseline or a logout that ended in a transport error counts as sent, and of the
\* checks whose requests carry a principal's credentials the finding names that one
\* (sqli.py, command_injection.py, path_traversal.py, bola.py, session_invalidation.py).
THEOREM FindingsRestOnBaselines == Spec => RestsOnBaseline
<1> DEFINE Rests(f) ==
      /\ f.tells \in f.evidence \/ f.issue = "method_advertised_in_allow"
      /\ f.evidence \subseteq DOMAIN log
      /\ f.check \in {"bola-idor", "bfla", "session-invalidation"} => f.names = f.tells.by
      /\ f.check = "sqli-time-based" => SqliMedian(log, f.tells.at) > 0
      /\ f.check = "command-injection" => CmdiBaseline(log, f.tells.at) > 0
      /\ f.check = "path-traversal" => Returned(log, Baseline(f.tells.at, First))
      /\ f.check = "bola-idor" =>
            /\ f.tells # OfOwner(setting.ps, f.tells)
            /\ Status(log, OfOwner(setting.ps, f.tells), {200})
      /\ f.check = "session-invalidation" =>
            /\ \E r \in Seen(log, "before") : r.by = f.names
            /\ Returned(log, As(f.names, Logout(f.tells.with[2])))
           AllRest == \A f \in findings' \ findings : Rests(f)
<1>1. Init => SendingInv
  BY SendingStarts
<1>2. SendingInv /\ [Next]_vars => SendingInv' /\ [AllRest]_vars
  <2> SUFFICES ASSUME SendingInv, [Next]_vars, NEW f \in findings' \ findings
               PROVE  Rests(f)
    BY SendingStep
  <2>1. Close /\ stage = "sending" /\ Left = {}
    BY FoundAtClose DEF Close
  <2>2. PICK c \in CandidatesOf(Check, setting, log) : f = FindingOf(c)
    BY FoundAtClose
  <2>3. /\ f.check = Check /\ f.tells = c.tells /\ f.names = c.names /\ f.issue = c.issue
        /\ f.evidence = EvidenceOf(Check, setting, c)
    BY <2>2 DEF FindingOf
  <2> QED
    BY <2>1, <2>2, <2>3, EvidenceIsLogged, CandidatesRest
<1> HIDE DEF AllRest
<1>3. Spec => [][AllRest]_vars
  BY <1>1, <1>2, PTL DEF Spec
<1> QED
  BY <1>3 DEF RestsOnBaseline, AllRest

-----------------------------------------------------------------------------
(* One finding in one place.                                               *)

\* What the checks that stop at the first hit have found so far.
Single(check, answers) ==
    /\ check = "command-injection" => \A a, b \in CmdiHits(answers) : a.at = b.at => a = b
    /\ check = "path-traversal" =>
          \A a, b \in DOMAIN answers :
             TraversalDiffers(answers, a) /\ TraversalDiffers(answers, b) /\ a.at = b.at => a = b
    /\ check = "session-invalidation" => \A a, b \in Seen(answers, "after") : a = b

LEMMA SingleStays ==
    ASSUME NEW check, NEW s, NEW answers, NEW t, NEW answer,
           ~ SkipsBy(check, s, answers, t),
           \A r \in DOMAIN answers :
              Grounds(check, s, answers, r) /\ t \notin RestsOn(check, s, r),
           t \notin RestsOn(check, s, t),
           Single(check, answers)
    PROVE  Single(check, Extended(answers, t, answer))
<1> DEFINE more == Extended(answers, t, answer)
<1>1. /\ DOMAIN more = DOMAIN answers \cup {t}
      /\ \A q \in DOMAIN answers \cup {t} : q # t => more[q] = answers[q]
  BY DEF Extended
<1> HIDE DEF more
<1>2. ASSUME NEW q, q # t
      PROVE  /\ Returned(more, q) <=> Returned(answers, q)
             /\ Returned(answers, q) => more[q] = answers[q]
             /\ q \in DOMAIN more => q \in DOMAIN answers /\ more[q] = answers[q]
  BY <1>1, <1>2 DEF Returned
<1>3. ASSUME check \in Comparing, NEW r \in DOMAIN answers, r.with[1] = "probe"
      PROVE  \A i \in Samples : Baseline(r.at, i) # t
  <2>1. RestsOn(check, s, r) = {Baseline(r.at, i) : i \in Samples}
    BY <1>3 DEF RestsOn, Comparing
  <2> QED
    BY <2>1
<1>4. CASE check = "command-injection"
  <2>1. ASSUME NEW b \in CmdiHits(more), b # t
        PROVE  b \in CmdiHits(answers)
    <3>1. b \in DOMAIN answers /\ b.with[1] = "probe" /\ CmdiSlow(more, b) /\ more[b] = answers[b]
      BY <1>2, <2>1 DEF CmdiHits
    <3>2. CmdiBaseline(more, b.at) = CmdiBaseline(answers, b.at)
      BY <1>2, <1>3, <1>4, <3>1 DEF Comparing, CmdiBaseline, Samples
    <3> QED
      BY <1>2, <2>1, <3>1, <3>2 DEF CmdiHits, CmdiSlow
  <2>2. ASSUME t \in CmdiHits(more), NEW b \in CmdiHits(answers)
        PROVE  b.at # t.at
    <3>1. ~ CmdiSkips(answers, t)
      BY <1>4 DEF SkipsBy
    <3> QED
      BY <2>2, <3>1 DEF CmdiSkips, CmdiHits
  <2>3. ASSUME NEW a \in CmdiHits(more), NEW b \in CmdiHits(more), a.at = b.at
        PROVE  a = b
    BY <1>4, <2>1, <2>2, <2>3 DEF Single
  <2> QED
    BY <1>4, <2>3 DEF Single, more
<1>5. CASE check = "path-traversal"
  <2> DEFINE Hit(b) == b \in DOMAIN more /\ TraversalDiffers(more, b)
             Old(b) == b \in DOMAIN answers /\ TraversalDiffers(answers, b)
  <2>1. ASSUME NEW b, Hit(b), b # t
        PROVE  Old(b)
    <3>1. b \in DOMAIN answers /\ b.with[1] = "probe" /\ Returned(more, b) /\ more[b] = answers[b]
      BY <1>2, <2>1 DEF TraversalDiffers
    <3>2. Returned(answers, Baseline(b.at, First)) /\ Baseline(b.at, First) # t
      BY <1>3, <1>5, <3>1 DEF Comparing, Grounds, Samples
    <3>3. more[Baseline(b.at, First)] = answers[Baseline(b.at, First)]
      BY <1>2, <3>2
    <3> QED
      BY <1>2, <2>1, <3>1, <3>3 DEF TraversalDiffers
  <2>2. ASSUME Hit(t), NEW b, Old(b)
        PROVE  b.at # t.at
    <3>1. ~ TraversalSkips(answers, t)
      BY <1>5 DEF SkipsBy
    <3>2. t.with[1] = "probe"
      BY <2>2 DEF TraversalDiffers
    <3> QED
      BY <2>2, <3>1, <3>2 DEF TraversalSkips
  <2>3. \A a, b : Old(a) /\ Old(b) /\ a.at = b.at => a = b
    BY <1>5 DEF Single
  <2> HIDE DEF Hit, Old
  <2>4. ASSUME NEW a, NEW b, Hit(a), Hit(b), a.at = b.at
        PROVE  a = b
    BY <2>1, <2>2, <2>3, <2>4
  <2> QED
    BY <1>5, <2>4 DEF Single, Hit, more
<1>7. CASE check = "session-invalidation"
  <2>1. ~ InvalidationSkips(answers, t)
    BY <1>7 DEF SkipsBy
  <2>2. ASSUME NEW b \in Seen(more, "after"), b # t
        PROVE  b \in Seen(answers, "after")
    BY <1>2, <2>2 DEF Seen
  <2>3. ASSUME t \in Seen(more, "after")
        PROVE  Seen(answers, "after") = {}
    <3>1. t.with[1] = "after"
      BY <2>3 DEF Seen
    <3> QED
      BY <2>1, <3>1 DEF InvalidationSkips
  <2>4. ASSUME NEW a \in Seen(more, "after"), NEW b \in Seen(more, "after")
        PROVE  a = b
    BY <1>7, <2>2, <2>3, <2>4 DEF Single
  <2> QED
    BY <1>7, <2>4 DEF Single, more
<1> QED
  BY <1>4, <1>5, <1>7 DEF Single

\* Where a candidate of a check that folds is found.
PlaceOf(check, c) ==
    CASE check \in {"command-injection", "path-traversal", "graphql"} -> <<c.shown.at>>
      [] check = "http-methods" -> <<c.shown.at, c.shown.method>>
      [] check = "cors-policy" -> <<c.shown.at, c.issue>>
      [] check = "session-invalidation" -> <<c.names>>

\* Of the two queries of a path the second is sent when the first gave nothing.
LEMMA GraphqlPlaces ==
    ASSUME NEW s, NEW answers, DOMAIN answers \subseteq Asked("graphql", s),
           \A r \in DOMAIN answers : Grounds("graphql", s, answers, r),
           NEW c \in GraphqlCandidates(answers), NEW d \in GraphqlCandidates(answers),
           c.shown.at = d.shown.at
    PROVE  c = d
<1> DEFINE Kind(r) == IF r.with = <<"__type">> THEN "type" ELSE "schema"
           Issue(r) == IF r.with = <<"__type">> THEN "type_query_works" ELSE "introspection_enabled"
<1>1. \A e \in GraphqlCandidates(answers) :
         \E r \in DOMAIN answers : Json200(answers, r, Kind(r)) /\ e = Candidate(r, Issue(r))
  BY DEF GraphqlCandidates
<1>2. PICK r \in DOMAIN answers : Json200(answers, r, Kind(r)) /\ c = Candidate(r, Issue(r))
  BY <1>1
<1>3. PICK q \in DOMAIN answers : Json200(answers, q, Kind(q)) /\ d = Candidate(q, Issue(q))
  BY <1>1
<1>4. r.at = q.at
  BY <1>2, <1>3 DEF Candidate
<1>5. \A t \in DOMAIN answers : t = Introspection(t.at) \/ t = TypeQuery(t.at)
  <2> SUFFICES ASSUME NEW t \in DOMAIN answers
               PROVE  t = Introspection(t.at) \/ t = TypeQuery(t.at)
    OBVIOUS
  <2>1. Asked("graphql", s) = PathRequests(Introspection) \cup PathRequests(TypeQuery)
    BY DEF Asked
  <2>2. PICK p : t = Introspection(p) \/ t = TypeQuery(p)
    BY <2>1 DEF PathRequests
  <2>3. Introspection(p).at = p /\ TypeQuery(p).at = p
    BY DEF Introspection, TypeQuery, Request
  <2> QED
    BY <2>2, <2>3
<1>6. \A p : Kind(Introspection(p)) = "schema" /\ Kind(TypeQuery(p)) = "type"
  BY DEF Introspection, TypeQuery, Request
<1>7. ASSUME NEW a \in DOMAIN answers, NEW b \in DOMAIN answers,
             a = Introspection(a.at), b = TypeQuery(b.at), a.at = b.at, Json200(answers, a, Kind(a))
      PROVE  FALSE
  <2>1. ~ Json200(answers, Introspection(b.at), "schema")
    BY <1>7 DEF Grounds
  <2> QED
    BY <1>6, <1>7, <2>1
<1> HIDE DEF Kind
<1>8. r = q
  BY <1>2, <1>3, <1>4, <1>5, <1>7
<1> QED
  BY <1>2, <1>3, <1>8

\* A method of a path worked or was advertised.
LEMMA MethodsPlaces ==
    ASSUME NEW s, NEW answers, DOMAIN answers \subseteq Asked("http-methods", s),
           NEW c \in MethodsCandidates(answers), NEW d \in MethodsCandidates(answers),
           c.shown.at = d.shown.at, c.shown.method = d.shown.method
    PROVE  c = d
<1> DEFINE Worker(r) == Candidate(r, MethodsIssue(r.method))
           Listed(r) == [Candidate(r, "method_advertised_in_allow") EXCEPT !.tells = Options(r.at)]
           Is(e, r) == \/ r \in Worked(answers) /\ e = Worker(r)
                       \/ r \in Advertised(answers) \ Worked(answers) /\ e = Listed(r)
<1>1. \A e \in MethodsCandidates(answers) : \E r : Is(e, r)
  BY DEF MethodsCandidates
<1>2. \A r : Worker(r).shown = r /\ Listed(r).shown = r
  BY DEF Candidate
<1>3. PICK r : Is(c, r)
  BY <1>1
<1>4. PICK q : Is(d, q)
  BY <1>1
<1>5. c.shown = r /\ d.shown = q
  BY <1>2, <1>3, <1>4
<1>6. \A t \in Worked(answers) \cup Advertised(answers) :
         t \in DOMAIN answers /\ t.method # "OPTIONS"
  BY DEF Worked, Advertised
<1>7. \A t \in DOMAIN answers : t.method # "OPTIONS" => t = Direct(t.method, t.at)
  <2> SUFFICES ASSUME NEW t \in DOMAIN answers, t.method # "OPTIONS"
               PROVE  t = Direct(t.method, t.at)
    OBVIOUS
  <2>1. \E m, p : t = Options(p) \/ t = Direct(m, p)
    <3>1. Asked("http-methods", s) =
             PathRequests(Options) \cup {Direct(m, p) : m \in {"DELETE", "TRACE"}, p \in Range(Paths)}
      BY DEF Asked
    <3> QED
      BY <3>1 DEF PathRequests
  <2> QED
    BY <2>1 DEF Options, Direct, Request
<1>8. r \in Worked(answers) \cup Advertised(answers) /\ q \in Worked(answers) \cup Advertised(answers)
  BY <1>3, <1>4
<1>9. r = q
  BY <1>5, <1>6, <1>7, <1>8
<1> HIDE DEF Worker, Listed
<1> QED
  BY <1>3, <1>4, <1>9

\* Of two exchanges of a path that show the same the preflight tells.
LEMMA CorsPlaces ==
    ASSUME NEW s, NEW answers, DOMAIN answers \subseteq Asked("cors-policy", s),
           NEW c \in CorsCandidates(answers), NEW d \in CorsCandidates(answers),
           c.shown.at = d.shown.at, c.issue = d.issue
    PROVE  c = d
<1> DEFINE Is(e, r) ==
      /\ r \in DOMAIN answers /\ e = Candidate(r, CorsIssue(answers[r]))
      /\ r.method = "GET" => CorsIssue(answers[r]) # CorsIssue(answers[Preflight(r.at)])
<1>1. \A e \in CorsCandidates(answers) : \E r : Is(e, r)
  BY DEF CorsCandidates
<1>2. PICK r : Is(c, r)
  BY <1>1
<1>3. PICK q : Is(d, q)
  BY <1>1
<1>4. r.at = q.at /\ CorsIssue(answers[r]) = CorsIssue(answers[q])
  BY <1>2, <1>3 DEF Candidate
<1>5. r \in Asked("cors-policy", s) /\ q \in Asked("cors-policy", s)
  BY <1>2, <1>3
<1>6. /\ r = Preflight(r.at) \/ r = Crossing(r.at)
      /\ q = Preflight(q.at) \/ q = Crossing(q.at)
  BY <1>5, CorsPairs
<1>7. \A p : Crossing(p).method = "GET" /\ Crossing(p).at = p
  BY DEF Crossing, Get, Request
<1>8. r = q
  <2>1. ASSUME r = Preflight(r.at), q = Crossing(q.at) PROVE FALSE
    BY <1>3, <1>4, <1>7, <2>1
  <2>2. ASSUME q = Preflight(q.at), r = Crossing(r.at) PROVE FALSE
    BY <1>2, <1>4, <1>7, <2>2
  <2> QED
    BY <1>4, <1>6, <2>1, <2>2
<1> QED
  BY <1>2, <1>3, <1>8

\* A check that folds returns no two candidates of one place.
LEMMA PlacesDiffer ==
    ASSUME NEW check \in Folding, NEW s, NEW answers, DOMAIN answers \subseteq Asked(check, s),
           \A r \in DOMAIN answers : Grounds(check, s, answers, r), Single(check, answers),
           NEW c \in CandidatesOf(check, s, answers), NEW d \in CandidatesOf(check, s, answers),
           PlaceOf(check, c) = PlaceOf(check, d)
    PROVE  c = d
<1>1. \A r, issue, p :
         /\ Candidate(r, issue).tells = r /\ Candidate(r, issue).shown = r
         /\ Candidate(r, issue).issue = issue
         /\ Naming(p, Candidate(r, issue)).tells = r /\ Naming(p, Candidate(r, issue)).shown = r
         /\ Naming(p, Candidate(r, issue)).issue = issue /\ Naming(p, Candidate(r, issue)).names = p
  BY DEF Candidate, Naming
<1>2. CASE check = "command-injection"
  <2>1. c.shown.at = d.shown.at
    BY <1>2 DEF PlaceOf
  <2>2. PICK r \in CmdiHits(answers) : c = Candidate(r, "cmdi")
    BY <1>2 DEF CandidatesOf, CmdiCandidates
  <2>3. PICK q \in CmdiHits(answers) : d = Candidate(q, "cmdi")
    BY <1>2 DEF CandidatesOf, CmdiCandidates
  <2>4. r.at = q.at
    BY <1>1, <2>1, <2>2, <2>3
  <2> QED
    BY <1>2, <2>2, <2>3, <2>4 DEF Single
<1>3. CASE check = "path-traversal"
  <2> DEFINE base(r) == answers[Baseline(r.at, First)]
             issue(r) == IF "canary" \in answers[r].marks \ base(r).marks THEN "canary_reflected"
                         ELSE IF answers[r].status # base(r).status THEN "different_status"
                         ELSE "different_length"
  <2>1. c.shown.at = d.shown.at
    BY <1>3 DEF PlaceOf
  <2>2. CandidatesOf(check, s, answers) =
           {Candidate(r, issue(r)) : r \in {q \in DOMAIN answers : TraversalDiffers(answers, q)}}
    BY <1>3 DEF CandidatesOf, TraversalCandidates
  <2> HIDE DEF issue
  <2>3. PICK r \in DOMAIN answers : TraversalDiffers(answers, r) /\ c = Candidate(r, issue(r))
    BY <2>2
  <2>4. PICK q \in DOMAIN answers : TraversalDiffers(answers, q) /\ d = Candidate(q, issue(q))
    BY <2>2
  <2>5. r.at = q.at
    BY <1>1, <2>1, <2>3, <2>4
  <2>6. r = q
    BY <1>3, <2>3, <2>4, <2>5 DEF Single
  <2> QED
    BY <2>3, <2>4, <2>6
<1>4. CASE check = "graphql"
  <2>1. c.shown.at = d.shown.at
    BY <1>4 DEF PlaceOf
  <2>2. c \in GraphqlCandidates(answers) /\ d \in GraphqlCandidates(answers)
    BY <1>4 DEF CandidatesOf
  <2> QED
    BY <1>4, <2>1, <2>2, GraphqlPlaces
<1>5. CASE check = "http-methods"
  <2>1. c.shown.at = d.shown.at /\ c.shown.method = d.shown.method
    BY <1>5 DEF PlaceOf
  <2>2. c \in MethodsCandidates(answers) /\ d \in MethodsCandidates(answers)
    BY <1>5 DEF CandidatesOf
  <2> QED
    BY <1>5, <2>1, <2>2, MethodsPlaces
<1>6. CASE check = "cors-policy"
  <2>1. c.shown.at = d.shown.at /\ c.issue = d.issue
    BY <1>6 DEF PlaceOf
  <2>2. c \in CorsCandidates(answers) /\ d \in CorsCandidates(answers)
    BY <1>6 DEF CandidatesOf
  <2> QED
    BY <1>6, <2>1, <2>2, CorsPlaces
<1>8. CASE check = "session-invalidation"
  <2>1. \E r \in Seen(answers, "after") : c = Naming(r.by, Candidate(r, "session kept"))
    BY <1>8 DEF CandidatesOf, InvalidationCandidates
  <2>2. \E q \in Seen(answers, "after") : d = Naming(q.by, Candidate(q, "session kept"))
    BY <1>8 DEF CandidatesOf, InvalidationCandidates
  <2> QED
    BY <1>8, <2>1, <2>2 DEF Single
<1> QED
  BY <1>2, <1>3, <1>4, <1>5, <1>6, <1>8 DEF Folding

\* While its check sends, what it has hit so far is single.
SinglesInv ==
    /\ SendingInv
    /\ stage = "sending" => Single(Check, log)

LEMMA SinglesStart ==
    ASSUME Init
    PROVE  SinglesInv
BY SendingStarts DEF Init, SinglesInv

LEMMA SinglesStep ==
    ASSUME SinglesInv, [Next]_vars
    PROVE  SinglesInv'
<1>1. SendingInv'
  BY SendingStep DEF SinglesInv
<1>2. setting' = setting /\ registry' = registry
  BY DEF Next, Decline, Enter, AskGate, Send, Close, Halted, vars, launchVars
<1>3. CASE stage' # "sending"
  BY <1>1, <1>3 DEF SinglesInv
<1>4. CASE stage = "asking" /\ log' = log
  <2>1. DOMAIN log' = {}
    BY <1>4 DEF SinglesInv, SendingInv, Nothing
  <2>2. \A check : Single(check, log')
    BY <2>1 DEF Single, CmdiHits, Reflected, Seen
  <2> QED
    BY <1>1, <2>2 DEF SinglesInv
<1>5. CASE Send
  <2>1. next \in Nat \ {0} /\ odd \in Nat
    BY DEF SinglesInv, SendingInv, TypeInv, TypeOK
  <2>2. PICK i, r, answer : Exchanges(i, r, answer)
    BY <1>5, <2>1, SendExchanges DEF SinglesInv, SendingInv, TypeInv
  <2>3. /\ stage = "sending" /\ turn' = turn /\ ~ SkipsBy(Check, setting, log, r)
        /\ log' = Extended(log, r, answer)
    BY <2>2 DEF Exchanges, Extended
  <2>4. Sound(Check, setting, log, next) /\ Single(Check, log)
    BY <2>3 DEF SinglesInv, SendingInv
  <2>5. \A t \in DOMAIN log : Grounds(Check, setting, log, t) /\ r \notin RestsOn(Check, setting, t)
    BY <2>2, <2>4 DEF Sound, Exchanges
  <2>6. r \notin RestsOn(Check, setting, r)
    <3>1. Check \in CheckNames /\ IsList(setting.ps)
      BY SettingLists DEF SinglesInv, SendingInv, TypeInv, ConsentInv, TurnOK, Check
    <3>2. IsList(RequestsOf(Check, setting)) /\ InOrder(Check, setting, RequestsOf(Check, setting))
      BY <3>1, RequestsAsked, RequestsInOrder
    <3>3. i \in DOMAIN RequestsOf(Check, setting) /\ r = RequestsOf(Check, setting)[i]
      BY <2>2 DEF Exchanges
    <3>4. i <= i
      BY <3>2, <3>3 DEF IsList
    <3> QED
      BY <3>2, <3>3, <3>4 DEF InOrder
  <2>7. Single(Check, log')
    BY <2>3, <2>4, <2>5, <2>6, SingleStays
  <2>8. Check' = Check
    BY <1>2, <2>3 DEF Check
  <2> QED
    BY <1>1, <2>7, <2>8 DEF SinglesInv
<1>6. CASE UNCHANGED vars
  BY <1>1, <1>6 DEF SinglesInv, vars, launchVars, Check
<1> QED
  BY <1>3, <1>4, <1>5, <1>6 DEF Next, Decline, Enter, AskGate, Close, Halted, Advance

\* Findings are those of the checks whose turn in the last phase is over.
Attributed ==
    \A f \in findings :
       \E k \in DOMAIN registry :
          /\ f.check = registry[k] /\ f.check # "plugin"
          /\ k < turn \/ stage = "over"

OnceInv ==
    /\ SinglesInv
    /\ pass # setting.passes => findings = {}
    /\ Attributed
    /\ OneFindingPerPlace

\* In the last phase the turn only goes on, until the scan is over.
LEMMA TurnGoesOn ==
    ASSUME TypeInv, TypeInv', [Next]_vars, pass = setting.passes
    PROVE  /\ pass' = pass /\ turn \in Nat /\ turn' \in Nat /\ turn <= turn'
           /\ stage = "over" => stage' = "over"
           /\ Close => turn < turn' \/ stage' = "over"
<1>1. turn \in Nat /\ turn' \in Nat /\ pass \in Nat /\ Len(registry) \in Nat
  <2>1. TurnOK /\ TurnOK' /\ pass \in 1..setting.passes /\ setting.passes \in Nat
    BY SettingLists DEF TypeInv, ConsentInv, TypeOK
  <2> QED
    BY <2>1 DEF TurnOK
<1>2. stage = "over" => stage' = "over"
  BY DEF Next, Decline, Enter, AskGate, Send, Close, Halted, vars
<1>3. CASE Advance
  <2>1. \/ turn' = turn + 1 /\ pass' = pass
        \/ turn' = turn /\ pass' = pass /\ stage' = "over"
    <3>1. ~ (turn = Len(registry) /\ pass < setting.passes)
      BY <1>1
    <3>2. CASE turn < Len(registry)
      BY <1>3, <3>1, <3>2 DEF Advance
    <3>3. CASE ~ (turn < Len(registry))
      BY <1>3, <3>1, <3>3 DEF Advance
    <3> QED
      BY <3>2, <3>3
  <2> QED
    BY <1>1, <1>2, <2>1
<1>4. CASE ~ Advance
  <2>1. UNCHANGED <<pass, turn>> /\ ~ Close
    BY <1>4 DEF Next, Decline, Enter, AskGate, Send, Close, Halted, vars
  <2> QED
    BY <1>1, <1>2, <2>1
<1> QED
  BY <1>3, <1>4

\* What the turn going on leaves of the order of the findings.
LEMMA OnceInTurn ==
    ASSUME OnceInv, [Next]_vars, findings' = findings
    PROVE  OnceInv'
<1>1. SinglesInv'
  BY SinglesStep DEF OnceInv
<1>2. OneFindingPerPlace'
  BY DEF OnceInv, OneFindingPerPlace, Place
<1>3. setting' = setting /\ registry' = registry
  BY DEF Next, Decline, Enter, AskGate, Send, Close, Halted, vars, launchVars
<1>4. /\ turn \in Nat /\ turn' \in Nat
      /\ pass \in Nat /\ setting.passes \in Nat /\ pass <= setting.passes
  <2>1. TurnOK /\ TurnOK' /\ pass \in 1..setting.passes /\ setting.passes \in Nat
    BY <1>1, SettingLists DEF OnceInv, SinglesInv, SendingInv, TypeInv, ConsentInv, TypeOK
  <2> QED
    BY <2>1 DEF TurnOK
<1>5. CASE findings = {}
  BY <1>1, <1>2, <1>5 DEF OnceInv, Attributed
<1>6. CASE findings # {}
  <2>1. pass = setting.passes
    BY <1>6 DEF OnceInv
  <2>2. /\ pass' = pass /\ turn' >= turn
        /\ stage = "over" => stage' = "over"
    BY <1>1, <1>4, <2>1, TurnGoesOn DEF OnceInv, SinglesInv, SendingInv
  <2>3. Attributed'
    <3> SUFFICES ASSUME NEW f \in findings
                 PROVE  \E k \in DOMAIN registry :
                           /\ f.check = registry[k] /\ f.check # "plugin"
                           /\ k < turn' \/ stage' = "over"
      BY <1>3 DEF Attributed
    <3>1. PICK k \in DOMAIN registry :
             f.check = registry[k] /\ f.check # "plugin" /\ (k < turn \/ stage = "over")
      BY DEF OnceInv, Attributed
    <3>2. k \in Int
      <4>1. registry \in Seq(CheckNames)
        BY DEF OnceInv, SinglesInv, SendingInv, TypeInv, ConsentInv, TurnOK
      <4> QED
        BY <4>1
    <3>3. k < turn' \/ stage' = "over"
      BY <1>4, <2>2, <3>1, <3>2
    <3> QED
      BY <3>1, <3>3
  <2> QED
    BY <1>1, <1>2, <1>3, <2>1, <2>2, <2>3 DEF OnceInv
<1> QED
  BY <1>5, <1>6

\* The place of a finding is that of its candidate.
LEMMA PlaceOfFinding ==
    ASSUME NEW c
    PROVE  Place(FindingOf(c)) = PlaceOf(Check, c) /\ FindingOf(c).check = Check
<1>1. /\ FindingOf(c).check = Check /\ FindingOf(c).shown = c.shown /\ FindingOf(c).tells = c.tells
      /\ FindingOf(c).issue = c.issue /\ FindingOf(c).names = c.names
  BY DEF FindingOf
<1> QED
  BY <1>1 DEF Place, PlaceOf, Folding

\* What the last phase adds is of the check whose turn it is, and in places of
\* its own.
LEMMA OnceInLastPass ==
    ASSUME OnceInv, [Next]_vars, findings' # findings
    PROVE  OnceInv'
<1>1. SinglesInv'
  BY SinglesStep DEF OnceInv
<1>2. setting' = setting /\ registry' = registry
  BY DEF Next, Decline, Enter, AskGate, Send, Close, Halted, vars, launchVars
<1>3. Close /\ pass = setting.passes /\ stage = "sending" /\ findings \subseteq findings' /\ Advance
  BY DEF Next, Decline, Enter, AskGate, Send, Close, Halted, vars
<1>4. /\ TurnOK /\ registry \in Registries /\ Check \in CheckNames
      /\ Sound(Check, setting, log, next) /\ Single(Check, log)
      /\ pass \in Nat
  BY <1>3 DEF OnceInv, SinglesInv, SendingInv, TypeInv, ConsentInv, LaunchOK, TurnOK, Check, TypeOK
<1>5. /\ pass' = setting'.passes
      /\ turn' = turn + 1 \/ (turn' = turn /\ stage' = "over")
  <2>1. ~ (turn = Len(registry) /\ pass < setting.passes)
    BY <1>3, <1>4
  <2>2. CASE turn < Len(registry)
    BY <1>2, <1>3, <2>1, <2>2 DEF Advance
  <2>3. CASE ~ (turn < Len(registry))
    BY <1>2, <1>3, <2>1, <2>3 DEF Advance
  <2> QED
    BY <2>2, <2>3
<1>6. \A f \in findings' \ findings :
         \E c \in CandidatesOf(Check, setting, log) : f = FindingOf(c)
  BY FoundAtClose
<1>7. \A f \in findings' \ findings : f.check = Check /\ f.check # "plugin"
  BY <1>6, PlaceOfFinding DEF CandidatesOf
<1>8. turn \in Nat /\ turn \in DOMAIN registry /\ DOMAIN registry \subseteq Nat
  BY <1>4 DEF TurnOK
<1>9. ASSUME NEW f \in findings
      PROVE  \E k \in DOMAIN registry : f.check = registry[k] /\ f.check # "plugin" /\ k < turn
  BY <1>3 DEF OnceInv, Attributed
<1>10. Attributed'
  <2>1. ASSUME NEW f \in findings
        PROVE  \E k \in DOMAIN registry' :
                  /\ f.check = registry'[k] /\ f.check # "plugin"
                  /\ k < turn' \/ stage' = "over"
    BY <1>2, <1>5, <1>8, <1>9
  <2>2. ASSUME NEW f \in findings' \ findings
        PROVE  \E k \in DOMAIN registry' :
                  /\ f.check = registry'[k] /\ f.check # "plugin"
                  /\ k < turn' \/ stage' = "over"
    BY <1>2, <1>5, <1>7, <1>8 DEF Check
  <2> QED
    BY <2>1, <2>2 DEF Attributed
<1>11. \A f \in findings, g \in findings' \ findings : f.check # g.check
  <2> SUFFICES ASSUME NEW f \in findings, NEW g \in findings' \ findings
               PROVE  f.check # g.check
    OBVIOUS
  <2>1. PICK k \in DOMAIN registry : f.check = registry[k] /\ f.check # "plugin" /\ k < turn
    BY <1>9
  <2>2. g.check = registry[turn]
    BY <1>7 DEF Check
  <2>3. registry[k] # registry[turn]
    BY <1>4, <1>8, <2>1, RegistriesAssumption
  <2> QED
    BY <2>1, <2>2, <2>3
<1>12. ASSUME NEW f \in findings' \ findings, NEW g \in findings' \ findings,
              f.check \in Folding, Place(f) = Place(g)
       PROVE  f = g
  <2>1. PICK c \in CandidatesOf(Check, setting, log) : f = FindingOf(c)
    BY <1>6
  <2>2. PICK d \in CandidatesOf(Check, setting, log) : g = FindingOf(d)
    BY <1>6
  <2>3. PlaceOf(Check, c) = PlaceOf(Check, d)
    BY <1>12, <2>1, <2>2, PlaceOfFinding
  <2>4. c = d
    BY <1>4, <1>7, <1>12, <2>3, PlacesDiffer DEF Sound
  <2> QED
    BY <2>1, <2>2, <2>4
<1>13. OneFindingPerPlace'
  <2>1. \A f, g \in findings :
           f.check \in Folding /\ f.check = g.check /\ Place(f) = Place(g) => f = g
    BY DEF OnceInv, OneFindingPerPlace
  <2>2. \A f, g \in findings' :
           f.check \in Folding /\ f.check = g.check /\ Place(f) = Place(g) => f = g
    BY <1>11, <1>12, <2>1
  <2> QED
    BY <2>2 DEF OneFindingPerPlace, Place
<1> QED
  BY <1>1, <1>5, <1>10, <1>13 DEF OnceInv

\* One flaw in one place is reported once by the checks that fold what they see
\* of it, in whatever order the checks and their requests are given and answered.
\* The other checks report a place as often as they come upon it, and nothing is
\* said of them (http_methods.py 199-245, cors.py
\* 140-148, command_injection.py 151-186).
THEOREM PlacesAreSingle == Spec => []OneFindingPerPlace
<1>1. Init => OnceInv
  BY SinglesStart DEF Init, OnceInv, Attributed, OneFindingPerPlace
<1>2. OnceInv /\ [Next]_vars => OnceInv'
  BY OnceInTurn, OnceInLastPass
<1>3. OnceInv => OneFindingPerPlace
  BY DEF OnceInv
<1> QED
  BY <1>1, <1>2, <1>3, PTL DEF Spec

-----------------------------------------------------------------------------
(* The answers of ordinary moments.                                        *)

\* Each answer is the typical one of a moment when some of those were logged
\* out that are by now; who looks again after a logout was among them, unless
\* the target has the flaw.
Ordinary(check, s, bad, answers, out) ==
    /\ \A r \in DOMAIN answers : \E gone \in SUBSET out :
          /\ answers[r] = Typical(check, s, bad, r, gone)
          /\ ~ bad /\ check = "session-invalidation" /\ r.with[1] = "after" => r.by \in gone
    /\ ~ bad => \A r \in DOMAIN answers : r.with[1] = "logout" => r.by \in out

Undisturbed ==
    /\ flawed => dead = {}
    /\ stage = "sending" /\ odd = 0 => Ordinary(Check, setting, flawed, log, dead)

LEMMA UndisturbedStep ==
    ASSUME SendingInv, Undisturbed, [Next]_vars
    PROVE  Undisturbed'
<1>1. UNCHANGED <<setting, flawed, registry>>
  BY DEF Next, Decline, Enter, AskGate, Send, Close, Halted, vars, launchVars
<1>2. CASE dead' = dead /\ stage' # "sending"
  BY <1>1, <1>2 DEF Undisturbed
<1>3. CASE dead' = dead /\ stage = "asking" /\ log' = log
  <2>1. DOMAIN log' = {}
    BY <1>3 DEF SendingInv, Nothing
  <2> QED
    BY <1>1, <1>3, <2>1 DEF Undisturbed, Ordinary
<1>4. CASE UNCHANGED vars
  <2>1. UNCHANGED <<stage, log, odd, dead>> /\ Check' = Check
    BY <1>4 DEF vars, launchVars, Check
  <2> QED
    BY <1>1, <2>1 DEF Undisturbed
<1>5. CASE Send
  <2>1. next \in Nat \ {0} /\ odd \in Nat /\ stage = "sending"
    BY <1>5 DEF SendingInv, TypeInv, TypeOK, Send
  <2>2. PICK i, r, answer : Exchanges(i, r, answer)
    BY <1>5, <2>1, SendExchanges DEF SendingInv, TypeInv
  <2>3. /\ log' = Extended(log, r, answer) /\ Check' = Check
        /\ odd' \in {odd, odd + 1}
        /\ odd' = odd => answer = Typical(Check, setting, flawed, r, dead)
        /\ ~ SkipsBy(Check, setting, log, r)
    BY <1>1, <2>2 DEF Exchanges, Extended, Check
  <2>4. PICK ended \in Ended(r, answer) : dead' = dead \cup ended
    BY <2>2 DEF Exchanges
  <2>5. flawed => dead' = {}
    BY <2>4 DEF Undisturbed, Ended
  <2>6. ASSUME odd' = 0
        PROVE  Ordinary(Check, setting, flawed, log', dead')
    <3>1. answer = Typical(Check, setting, flawed, r, dead)
          /\ Ordinary(Check, setting, flawed, log, dead)
      BY <2>1, <2>3, <2>6 DEF Undisturbed
    <3>2. answer.status \notin {Failed, Raised}
      BY <3>1, TypicalAnswers
    <3>3. ~ flawed /\ r.with[1] = "logout" => r.by \in dead'
      BY <2>4, <3>2 DEF Ended
    <3>4. ASSUME ~ flawed, Check = "session-invalidation", r.with[1] = "after"
          PROVE  r.by \in dead
      <4> DEFINE l == As(r.by, Logout(r.with[2]))
      <4>1. Returned(log, l)
        BY <2>3, <3>4, SentOnGrounds DEF Grounds
      <4>2. l.with[1] = "logout" /\ l.by = r.by
        BY DEF As, Logout, Request
      <4> HIDE DEF l
      <4> QED
        BY <3>1, <3>4, <4>1, <4>2 DEF Ordinary, Returned
    <3>5. /\ DOMAIN log' = DOMAIN log \cup {r} /\ log'[r] = answer
          /\ \A t \in DOMAIN log : t # r => log'[t] = log[t]
      BY <2>3 DEF Extended
    <3>6. ASSUME NEW t \in DOMAIN log'
          PROVE  \E gone \in SUBSET dead' :
                    /\ log'[t] = Typical(Check, setting, flawed, t, gone)
                    /\ ~ flawed /\ Check = "session-invalidation" /\ t.with[1] = "after" => t.by \in gone
      <4>1. CASE t = r
        BY <2>4, <3>1, <3>4, <3>5, <4>1
      <4>2. CASE t # r
        <5>1. t \in DOMAIN log /\ log'[t] = log[t]
          BY <3>5, <4>2
        <5>2. PICK gone \in SUBSET dead :
                 /\ log[t] = Typical(Check, setting, flawed, t, gone)
                 /\ ~ flawed /\ Check = "session-invalidation" /\ t.with[1] = "after" => t.by \in gone
          BY <3>1, <5>1 DEF Ordinary
        <5>3. gone \in SUBSET dead'
          BY <2>4
        <5> QED
          BY <5>1, <5>2, <5>3
      <4> QED
        BY <4>1, <4>2
    <3>7. ~ flawed => \A t \in DOMAIN log' : t.with[1] = "logout" => t.by \in dead'
      BY <2>4, <3>1, <3>3, <3>5 DEF Ordinary
    <3> QED
      BY <3>6, <3>7 DEF Ordinary
  <2> QED
    BY <1>1, <2>3, <2>5, <2>6 DEF Undisturbed
<1> QED
  BY <1>2, <1>3, <1>4, <1>5 DEF Next, Decline, Enter, AskGate, Close, Halted, Advance

\* Whoever is asked for anything but the home page is asked for something.
LEMMA NotAtHome ==
    ASSUME NEW check \in CheckNames, NEW s, NEW r \in Asked(check, s),
           check \notin {"xss-reflected", "ssrf", "security-headers", "information-disclosure",
                         "source-map-exposure", "open-redirect-indicator", "session-cookie", "plugin"}
    PROVE  r # Home
<1> SUFFICES r.with[1] # "nothing"
  BY DEF Home, Get, Request
<1> DEFINE Elsewhere == r.with[1] # "nothing"
<1>1. CASE check \in Comparing
  <2>1. PICK samples : r \in Tries(samples)
    BY <1>1, AskedByCheck DEF Comparing
  <2>2. \E p, x : r = Baseline(p, x) \/ r = Probe(p, x)
    BY <2>1 DEF Tries
  <2> QED
    BY <2>2 DEF Baseline, Probe, Get, Request
<1>2. CASE check = "bola-idor"
  <2>1. PICK i, t : r = SentAs(s.ps, i, t) /\ t \in Range(BolaResources)
    BY <1>2 DEF Asked
  <2>2. r.with[1] = t.with[1]
    BY <2>1, SentFields
  <2>3. PICK p : t = Get(p, <<"path id">>) \/ t = Get(p, <<"query id">>)
    BY <2>1, ResourcesDiffer
  <2>4. /\ Get(p, <<"path id">>).with[1] = "path id"
        /\ Get(p, <<"query id">>).with[1] = "query id"
    BY DEF Get, Request
  <2> QED
    BY <2>2, <2>3, <2>4
<1>3. CASE check = "bfla"
  <2>1. Asked("bfla", s) = {As(s.ps[1], Get(p, <<"admin page">>)) : p \in Range(Paths)}
    BY AskedByCheck
  <2>2. PICK p : r = As(s.ps[1], Get(p, <<"admin page">>))
    BY <1>3, <2>1
  <2>3. \A n : As(n, Get(p, <<"admin page">>)).with[1] = "admin page"
    BY DEF As, Get, Request
  <2> QED
    BY <2>2, <2>3
<1>4. CASE check = "bfla-behavior"
  <2>1. Asked("bfla-behavior", s) = IF NonAdmins(s.ids) = {} THEN {}
                                    ELSE {Get(p, <<"admin function">>) : p \in Range(Paths)}
    BY AskedByCheck
  <2>2. PICK p : r = Get(p, <<"admin function">>)
    BY <1>4, <2>1
  <2> QED
    BY <2>2 DEF Get, Request
<1>5. CASE check = "mass-assignment"
  <2>1. \E p : r = Get(p, <<"profile">>)
    BY <1>5 DEF Asked
  <2> QED
    BY <2>1 DEF Get, Request
<1>6. CASE check = "session-invalidation"
  <2>1. r.with[1] \in {"before", "logout", "after"}
    BY <1>6, LookedAsOne
  <2> QED
    BY <2>1
<1>7. CASE check = "cors-policy"
  <2>1. PICK p : r = Preflight(p) \/ r = Crossing(p)
    BY <1>7 DEF Asked, PathRequests
  <2>2. Preflight(p).with[1] = "evil origin" /\ Crossing(p).with[1] = "evil origin"
    BY DEF Preflight, Crossing, Get, Request
  <2> QED
    BY <2>1, <2>2
<1>8. CASE check = "http-methods"
  <2>1. \E m, p : r = Options(p) \/ r = Direct(m, p)
    BY <1>8 DEF Asked, PathRequests
  <2> QED
    BY <2>1 DEF Options, Direct, Request
<1>9. CASE check = "graphql"
  <2>1. \E p : r = Introspection(p) \/ r = TypeQuery(p)
    BY <1>9 DEF Asked, PathRequests
  <2> QED
    BY <2>1 DEF Introspection, TypeQuery, Request
<1> HIDE DEF Elsewhere
<1> QED
  BY <1>1, <1>2, <1>3, <1>4, <1>5, <1>6, <1>7, <1>8, <1>9, Zenon
     DEF CheckNames, Passive, Gated, Ungated, Comparing, Elsewhere

\* What a target without the flaw says of r.
Quiet(check, r, a) ==
    /\ check \in Comparing \cup {"cors-policy"} => a = Page({})
    /\ check \in {"xss-reflected", "ssrf"} /\ r # Home => a = Page({})
    /\ check = "session-cookie" =>
          a = IF r = Home THEN Page({"cookie", "httponly", "samesite", "secure"}) ELSE Page({})
    /\ check = "bola-idor" /\ r.with[2] # 1 => a = Refusal(403)
    /\ check \in {"bfla", "bfla-behavior"} => a = Refusal(403)
    /\ check \in {"mass-assignment", "graphql"} => a = Page({"json"})
    /\ check = "security-headers" => a = Page({"csp", "permissions"})
    /\ check = "http-methods" => a = IF r.method = "OPTIONS" THEN Page({}) ELSE Refusal(405)
    /\ check \in {"information-disclosure", "open-redirect-indicator"} =>
          a = IF r = Home THEN Page({}) ELSE Refusal(404)
    /\ check = "source-map-exposure" /\ r # Home =>
          a = IF r.with[1] = "source" THEN Page({}) ELSE Refusal(404)

LEMMA QuietAnswers ==
    ASSUME NEW check \in CheckNames, NEW s, NEW r \in Asked(check, s), NEW gone, NEW a, NEW bad,
           ~ bad, a = Typical(check, s, bad, r, gone)
    PROVE  /\ Quiet(check, r, a)
           /\ check = "session-invalidation" /\ r.with[1] = "after" /\ r.by \in gone => a = Refusal(401)
<1>1. \A m : If(bad, m) = {}
  BY DEF If
<1>2. CASE check = "session-cookie"
  BY <1>1, <1>2 DEF Quiet, Typical, HomePage, Comparing
<1>3. CASE check \in Comparing \cup {"cors-policy"}
  <2>1. r # Home
    BY <1>3, NotAtHome DEF Comparing
  <2> QED
    BY <1>1, <1>3, <2>1 DEF Quiet, Typical, Comparing
<1>4. CASE check \in {"xss-reflected", "ssrf"}
  BY <1>1, <1>4 DEF Quiet, Typical, Comparing
<1>5. CASE check = "bola-idor"
  <2>1. r # Home
    BY <1>5, NotAtHome
  <2> QED
    BY <1>5, <2>1 DEF Quiet, Typical, Comparing
<1>6. CASE check \in {"bfla", "bfla-behavior"}
  <2>1. r # Home
    BY <1>6, NotAtHome
  <2> QED
    BY <1>6, <2>1 DEF Quiet, Typical, Comparing
<1>7. CASE check = "session-invalidation"
  <2>1. r # Home
    BY <1>7, NotAtHome
  <2> QED
    BY <1>7, <2>1 DEF Quiet, Typical, Owned, Comparing
<1>8. CASE check \in {"mass-assignment", "graphql"}
  <2>1. r # Home
    BY <1>8, NotAtHome
  <2>2. {"json"} \cup {} = {"json"}
    OBVIOUS
  <2> QED
    BY <1>1, <1>8, <2>1, <2>2 DEF Quiet, Typical, Comparing
<1>9. CASE check = "security-headers"
  <2>1. r = Home
    BY <1>9 DEF Asked
  <2> QED
    BY <1>9, <2>1 DEF Quiet, Typical, HomePage, Comparing
<1>10. CASE check = "http-methods"
  <2>1. r # Home
    BY <1>10, NotAtHome
  <2> QED
    BY <1>1, <1>10, <2>1 DEF Quiet, Typical, Comparing
<1>11. CASE check \in {"information-disclosure", "open-redirect-indicator"}
  BY <1>1, <1>11 DEF Quiet, Typical, HomePage, Comparing
<1>12. CASE check = "source-map-exposure"
  BY <1>1, <1>12 DEF Quiet, Typical, Comparing
<1>13. CASE check = "plugin"
  BY <1>13 DEF Quiet, Comparing
<1> QED
  BY <1>2, <1>3, <1>4, <1>5, <1>6, <1>7, <1>8, <1>9, <1>10, <1>11, <1>12, <1>13
     DEF CheckNames, Passive, Gated, Ungated, Comparing

\* Two baselines that took 200 ms each, or what is left of them.
LEMMA SteadyBaseline ==
    ASSUME NEW answers, NEW p,
           \A i \in Samples : Returned(answers, Baseline(p, i)) => answers[Baseline(p, i)].time = 2
    PROVE  /\ SqliMedian(answers, p) \in {0, 2} /\ CmdiBaseline(answers, p) \in {0, 2}
           /\ (\A i \in Samples : Returned(answers, Baseline(p, i))) =>
                 SqliMedian(answers, p) = 2 /\ CmdiBaseline(answers, p) = 2
<1> DEFINE samples == {i \in Samples : Returned(answers, Baseline(p, i))}
           time(i) == answers[Baseline(p, i)].time
<1>1. \A i \in samples : time(i) = 2
  OBVIOUS
<1>2. samples \subseteq Samples
  OBVIOUS
<1>3. (\A i \in Samples : Returned(answers, Baseline(p, i))) => samples = Samples /\ samples # {}
  BY DEF Samples
<1>4. (2 + 2) \div 2 = 2
  OBVIOUS
<1>5. /\ SqliMedian(answers, p) =
            IF samples = {} THEN 0
            ELSE IF samples = Samples THEN (time(First) + time(Second)) \div 2
            ELSE time(CHOOSE i \in samples : TRUE)
      /\ CmdiBaseline(answers, p) =
            IF samples = {} THEN 0
            ELSE IF samples = Samples THEN (time(First) + time(Second)) \div 2
            ELSE time(CHOOSE i \in samples : TRUE)
  BY Zenon DEF SqliMedian, CmdiBaseline
<1> HIDE DEF samples, time
<1>6. samples # {} => time(CHOOSE i \in samples : TRUE) = 2
  BY <1>1
<1>7. samples = Samples => time(First) = 2 /\ time(Second) = 2
  BY <1>1 DEF Samples
<1> QED
  BY <1>3, <1>4, <1>5, <1>6, <1>7

\* On a target without the flaw the answers of ordinary moments are no reason
\* for a candidate.
LEMMA NothingSuspicious ==
    ASSUME NEW check \in CheckNames, NEW s, NEW answers, NEW out, NEW bad,
           DOMAIN answers \subseteq Asked(check, s),
           \A r \in DOMAIN answers : Grounds(check, s, answers, r),
           ~ bad, Ordinary(check, s, bad, answers, out)
    PROVE  CandidatesOf(check, s, answers) = {}
<1>1. ASSUME NEW r \in DOMAIN answers
      PROVE  /\ Quiet(check, r, answers[r])
             /\ check = "session-invalidation" /\ r.with[1] = "after" => answers[r] = Refusal(401)
  <2>1. PICK gone \in SUBSET out :
           /\ answers[r] = Typical(check, s, bad, r, gone)
           /\ ~ bad /\ check = "session-invalidation" /\ r.with[1] = "after" => r.by \in gone
    BY DEF Ordinary
  <2>2. r \in Asked(check, s)
    OBVIOUS
  <2> QED
    BY <2>1, <2>2, QuietAnswers
<1>2. /\ \A m : Page(m).status = 200 /\ Page(m).time = 2 /\ Page(m).size = 5 /\ Page(m).marks = m
      /\ \A n : Refusal(n).status = n /\ Refusal(n).time = 2 /\ Refusal(n).size = 1 /\ Refusal(n).marks = {}
  BY DEF Page, Refusal, Answer
<1>3. ASSUME check \in Comparing, NEW r \in DOMAIN answers
      PROVE  answers[r].status = 200 /\ answers[r].time = 2 /\ answers[r].size = 5 /\ answers[r].marks = {}
  BY <1>1, <1>2, <1>3 DEF Quiet
<1>4. ASSUME check \in Comparing, NEW p
      PROVE  SqliMedian(answers, p) \in {0, 2} /\ CmdiBaseline(answers, p) \in {0, 2}
  <2>1. \A i \in Samples : Returned(answers, Baseline(p, i)) => answers[Baseline(p, i)].time = 2
    BY <1>3, <1>4 DEF Returned
  <2> QED
    BY <2>1, SteadyBaseline
<1>5. CASE check = "sqli-time-based"
  <2>1. \A r \in DOMAIN answers : ~ SqliSlow(answers, r)
    BY <1>3, <1>4, <1>5 DEF Comparing, SqliSlow, Threshold
  <2>2. SqliCandidates(answers) = {}
    BY <2>1 DEF SqliCandidates
  <2> QED
    BY <1>5, <2>2 DEF CandidatesOf
<1>6. CASE check = "command-injection"
  <2>1. \A r \in DOMAIN answers : ~ CmdiSlow(answers, r)
    BY <1>3, <1>4, <1>6 DEF Comparing, CmdiSlow
  <2>2. CmdiCandidates(answers) = {}
    BY <2>1 DEF CmdiCandidates, CmdiHits
  <2> QED
    BY <1>6, <2>2 DEF CandidatesOf
<1>7. CASE check = "path-traversal"
  <2>1. ASSUME NEW r \in DOMAIN answers
        PROVE  ~ TraversalDiffers(answers, r)
    <3>1. r.with[1] = "probe" => Baseline(r.at, First) \in DOMAIN answers
      BY <1>7 DEF Grounds, Returned
    <3> QED
      BY <1>3, <1>7, <3>1 DEF Comparing, TraversalDiffers
  <2>2. TraversalCandidates(answers) = {}
    BY <2>1 DEF TraversalCandidates
  <2> QED
    BY <1>7, <2>2 DEF CandidatesOf
<1>8. CASE check = "xss-reflected"
  <2>1. \A r \in DOMAIN answers \ {Home} : ~ Marked(answers, r, "canary")
    BY <1>1, <1>2, <1>8 DEF Quiet, Marked
  <2>2. XssCandidates(answers) = {}
    BY <2>1 DEF XssCandidates
  <2> QED
    BY <1>8, <2>2 DEF CandidatesOf
<1>9. CASE check = "ssrf"
  <2>1. ASSUME NEW r \in DOMAIN answers \ {Home}
        PROVE  SsrfIndicator(answers[r]) = "none"
    <3>1. answers[r].marks = {}
      BY <1>1, <1>2, <1>9 DEF Quiet
    <3>2. {"header", "location"} \cap answers[r].marks = {}
      BY <3>1
    <3> QED
      BY <3>1, <3>2 DEF SsrfIndicator
  <2>2. SsrfCandidates(answers) = {}
    BY <2>1 DEF SsrfCandidates
  <2> QED
    BY <1>9, <2>2 DEF CandidatesOf
<1>10. CASE check = "bola-idor"
  <2>1. ASSUME NEW r \in DOMAIN answers, r.with[2] # 1
        PROVE  \A owner : BolaVerdictOf(owner, answers[r]) = "none"
    <3>1. answers[r].status = 403
      BY <1>1, <1>2, <1>10, <2>1 DEF Quiet
    <3> QED
      BY <3>1 DEF BolaVerdictOf
  <2>2. BolaCandidates(s.ps, answers) = {}
    BY <2>1 DEF BolaCandidates
  <2> QED
    BY <1>10, <2>2 DEF CandidatesOf
<1>11. CASE check \in {"bfla", "bfla-behavior"}
  <2>1. \A r \in DOMAIN answers : answers[r].status = 403
    BY <1>1, <1>2, <1>11 DEF Quiet
  <2>2. BflaCandidates(answers) = {} /\ BehaviorCandidates(s.ids, answers) = {}
    BY <2>1 DEF BflaCandidates, BehaviorCandidates
  <2> QED
    BY <1>11, <2>2 DEF CandidatesOf
<1>12. CASE check = "session-invalidation"
  <2>1. Seen(answers, "after") = {}
    BY <1>1, <1>2, <1>12 DEF Quiet, Seen, Success
  <2>2. InvalidationCandidates(answers) = {}
    BY <2>1 DEF InvalidationCandidates
  <2> QED
    BY <1>12, <2>2 DEF CandidatesOf
<1>13. CASE check = "mass-assignment"
  <2>1. "json" \notin DOMAIN Fields
    BY DEF Fields
  <2>2. \A r \in DOMAIN answers : answers[r].marks \cap DOMAIN Fields = {}
    BY <1>1, <1>2, <1>13, <2>1 DEF Quiet
  <2>3. AssignmentCandidates(answers) = {}
    BY <2>2 DEF AssignmentCandidates
  <2> QED
    BY <1>13, <2>3 DEF CandidatesOf
<1>14. CASE check = "security-headers"
  <2>1. ASSUME Home \in DOMAIN answers
        PROVE  /\ "csp" \in answers[Home].marks /\ "permissions" \in answers[Home].marks
               /\ "csp wildcard" \notin answers[Home].marks
    <3>1. answers[Home] = Page({"csp", "permissions"})
      BY <1>1, <1>14, <2>1 DEF Quiet
    <3>2. answers[Home].marks = {"csp", "permissions"}
      BY <1>2, <3>1
    <3> QED
      BY <3>2
  <2>2. HeadersCandidates(answers) = {}
    BY <2>1 DEF HeadersCandidates, Returned
  <2> QED
    BY <1>14, <2>2 DEF CandidatesOf
<1>15. CASE check = "cors-policy"
  <2>1. ASSUME NEW r \in DOMAIN answers
        PROVE  CorsIssue(answers[r]) = "none"
    <3>1. answers[r].marks = {}
      BY <1>1, <1>2, <1>15 DEF Quiet
    <3> QED
      BY <3>1 DEF CorsIssue
  <2>2. CorsCandidates(answers) = {}
    BY <2>1 DEF CorsCandidates
  <2> QED
    BY <1>15, <2>2 DEF CandidatesOf
<1>16. CASE check = "http-methods"
  <2>1. \A r \in DOMAIN answers : answers[r].marks = {} /\ (r.method # "OPTIONS" => answers[r].status = 405)
    BY <1>1, <1>2, <1>16 DEF Quiet
  <2>2. Worked(answers) = {} /\ Advertised(answers) = {}
    BY <2>1 DEF Worked, Advertised, Marked, Returned
  <2>3. MethodsCandidates(answers) = {}
    BY <2>2 DEF MethodsCandidates
  <2> QED
    BY <1>16, <2>3 DEF CandidatesOf
<1>17. CASE check = "information-disclosure"
  <2>1. \A r \in DOMAIN answers : answers[r].marks = {} /\ (r # Home => answers[r].status = 404)
    BY <1>1, <1>2, <1>17 DEF Quiet
  <2>2. \A leak : ~ Marked(answers, Home, leak)
    BY <2>1 DEF Marked, Returned
  <2>3. \A r \in DOMAIN answers \ {Home} : ~ Status(answers, r, OK)
    BY <2>1 DEF Status, OK
  <2>4. DisclosureCandidates(answers) = {}
    BY <2>2, <2>3 DEF DisclosureCandidates
  <2> QED
    BY <1>17, <2>4 DEF CandidatesOf
<1>18. CASE check = "source-map-exposure"
  <2>1. Home.with[1] = "nothing"
    BY DEF Home, Get, Request
  <2>2. \A r \in DOMAIN answers : r.with[1] = "source" => ~ Marked(answers, r, "map reference")
    <3> SUFFICES ASSUME NEW r \in DOMAIN answers, r.with[1] = "source"
                 PROVE  ~ Marked(answers, r, "map reference")
      OBVIOUS
    <3>1. answers[r] = Page({})
      BY <1>1, <1>18, <2>1 DEF Quiet
    <3>2. answers[r].marks = {}
      BY <1>2, <3>1
    <3> QED
      BY <3>2 DEF Marked
  <2>3. \A r \in DOMAIN answers : r.with[1] = "map" => ~ Status(answers, r, OK)
    BY <1>1, <1>2, <1>18, <2>1 DEF Quiet, Status, OK
  <2>4. MapsCandidates(answers) = {}
    BY <2>2, <2>3 DEF MapsCandidates
  <2> QED
    BY <1>18, <2>4 DEF CandidatesOf
<1>19. CASE check = "open-redirect-indicator"
  <2>1. \A r \in DOMAIN answers : answers[r].marks = {}
    BY <1>1, <1>2, <1>19 DEF Quiet
  <2>2. \A r, mark : ~ Marked(answers, r, mark)
    BY <2>1 DEF Marked, Returned
  <2>3. RedirectCandidates(answers) = {}
    BY <2>2, RedirectShape
  <2> QED
    BY <1>19, <2>3 DEF CandidatesOf
<1>20. CASE check = "graphql"
  <2>1. \A r \in DOMAIN answers : answers[r].marks = {"json"}
    BY <1>1, <1>2, <1>20 DEF Quiet
  <2>2. \A r \in DOMAIN answers : ~ Json200(answers, r, "type") /\ ~ Json200(answers, r, "schema")
    BY <2>1 DEF Json200
  <2>3. GraphqlCandidates(answers) = {}
    BY <2>2 DEF GraphqlCandidates
  <2> QED
    BY <1>20, <2>3 DEF CandidatesOf
<1>21. CASE check = "session-cookie"
  <2>1. Home \in DOMAIN answers => answers[Home].marks = {"cookie", "httponly", "samesite", "secure"}
    <3>1. Home \in DOMAIN answers =>
             answers[Home] = Page({"cookie", "httponly", "samesite", "secure"})
      BY <1>1, <1>21 DEF Quiet
    <3> QED
      BY <1>2, <3>1
  <2>2. Reflected(answers) = {}
    BY <1>1, <1>2, <1>21 DEF Quiet, Reflected, Marked
  <2>3. ASSUME Home \in DOMAIN answers
        PROVE  Copies(answers[Home]) = {1} /\ OfCookie(s.https, answers, 1) = {}
    <3>1. answers[Home].marks = {"cookie", "httponly", "samesite", "secure"}
      BY <2>1, <2>3
    <3>2. {"httponly", "samesite"} \ answers[Home].marks = {}
      BY <3>1
    <3>3. "secure" \in answers[Home].marks /\ {"short token", "weak token"} \cap answers[Home].marks = {}
      BY <3>1
    <3>4. CookieMarks(answers, 1) = answers[Home].marks
      BY DEF CookieMarks
    <3>5. Browser(answers, 1) = {}
      BY <2>2, <3>2, <3>4 DEF Browser
    <3>6. Network(s.https, answers, 1) = {} /\ Server(answers, 1) = {}
      BY <3>3, <3>4 DEF Network, Server
    <3>7. "several" \notin answers[Home].marks
      BY <3>1
    <3>8. Copies(answers[Home]) = {1}
      BY <3>7 DEF Copies
    <3> QED
      BY <3>5, <3>6, <3>8 DEF OfCookie
  <2>4. Leakage(answers) = {}
    <3>1. ASSUME Home \in DOMAIN answers PROVE "token leaked" \notin answers[Home].marks
      <4>1. answers[Home].marks = {"cookie", "httponly", "samesite", "secure"}
        BY <2>1, <3>1
      <4> QED
        BY <4>1
    <3>2. ~ Marked(answers, Home, "token leaked")
      BY <3>1 DEF Marked, Returned
    <3> QED
      BY <3>2 DEF Leakage
  <2>5. CookieCandidates(s.https, answers) = {}
    <3>1. CASE Marked(answers, Home, "cookie")
      <4>1. Copies(answers[Home]) = {1} /\ OfCookie(s.https, answers, 1) = {}
        BY <2>3, <3>1 DEF Marked, Returned
      <4>2. CookieCandidates(s.https, answers)
              = UNION {{Nth(n, c) : c \in OfCookie(s.https, answers, n)} : n \in Copies(answers[Home])}
        BY <2>4, <3>1 DEF CookieCandidates
      <4> QED
        BY <4>1, <4>2
    <3>2. CASE ~ Marked(answers, Home, "cookie")
      BY <2>4, <3>2 DEF CookieCandidates
    <3> QED
      BY <3>1, <3>2
  <2> QED
    BY <1>21, <2>5 DEF CandidatesOf
<1>22. CASE check = "plugin"
  BY <1>22 DEF CandidatesOf
<1> QED
  BY <1>5, <1>6, <1>7, <1>8, <1>9, <1>10, <1>11, <1>12, <1>13, <1>14, <1>15, <1>16, <1>17,
     <1>18, <1>19, <1>20, <1>21, <1>22 DEF CheckNames, Passive, Gated, Ungated

\* What met ordinary answers only has had its turn in the last phase.
ClearInTurn ==
    /\ pass # setting.passes => clear = {}
    /\ \A c \in clear : \E k \in DOMAIN registry : registry[k] = c /\ (k < turn \/ stage = "over")

LEMMA ClearStep ==
    ASSUME TypeInv, ClearInTurn, [Next]_vars
    PROVE  ClearInTurn'
<1>1. UNCHANGED <<setting, registry>> /\ TypeInv'
  BY TypeStep DEF Next, Decline, Enter, AskGate, Send, Close, Halted, vars, launchVars
<1>2. turn \in DOMAIN registry /\ DOMAIN registry \subseteq Nat
  BY DEF TypeInv, ConsentInv, TurnOK
<1>3. clear' = clear \/ (Close /\ pass = setting.passes /\ clear' = clear \cup {Check})
  BY DEF Next, Decline, Enter, AskGate, Send, Close, Halted, vars
<1>4. CASE clear' = {}
  BY <1>4 DEF ClearInTurn
<1>5. CASE clear' # {}
  <2>1. pass = setting.passes
    BY <1>3, <1>5 DEF ClearInTurn
  <2>2. /\ pass' = pass /\ turn \in Nat /\ turn' \in Nat /\ turn <= turn'
        /\ stage = "over" => stage' = "over"
        /\ Close => turn < turn' \/ stage' = "over"
    BY <1>1, <2>1, TurnGoesOn
  <2>3. ASSUME NEW c \in clear'
        PROVE  \E k \in DOMAIN registry : registry[k] = c /\ (k < turn' \/ stage' = "over")
    <3>1. CASE c \in clear
      <4>1. PICK k \in DOMAIN registry : registry[k] = c /\ (k < turn \/ stage = "over")
        BY <3>1 DEF ClearInTurn
      <4>2. k < turn' \/ stage' = "over"
        BY <1>2, <2>2, <4>1
      <4> QED
        BY <4>1, <4>2
    <3>2. CASE c \notin clear
      <4>1. Close /\ c = registry[turn]
        BY <1>3, <2>3, <3>2 DEF Check
      <4> QED
        BY <1>2, <2>2, <4>1
    <3> QED
      BY <3>1, <3>2
  <2> QED
    BY <1>1, <2>1, <2>2, <2>3 DEF ClearInTurn
<1> QED
  BY <1>4, <1>5

\* A check has one turn in a phase.
LEMMA OneTurnEach ==
    ASSUME TypeInv, stage = "sending", NEW k \in DOMAIN registry, k < turn \/ stage = "over",
           registry[k] = Check
    PROVE  Check = "plugin"
<1>1. registry \in Registries /\ turn \in DOMAIN registry /\ k < turn /\ turn \in Nat
  BY DEF TypeInv, ConsentInv, TurnOK, LaunchOK
<1> QED
  BY <1>1, RegistriesAssumption DEF Check

OrdinaryInv == OnceInv /\ Undisturbed /\ ClearInTurn

LEMMA OrdinaryStarts ==
    ASSUME Init
    PROVE  OrdinaryInv
BY SinglesStart DEF Init, OrdinaryInv, OnceInv, Attributed, OneFindingPerPlace, Undisturbed, ClearInTurn

LEMMA OrdinaryStep ==
    ASSUME OrdinaryInv, [Next]_vars
    PROVE  OrdinaryInv'
<1>1. OnceInv'
  BY OnceInTurn, OnceInLastPass DEF OrdinaryInv
<1>2. Undisturbed'
  BY UndisturbedStep DEF OrdinaryInv, OnceInv, SinglesInv
<1>3. ClearInTurn'
  BY ClearStep DEF OrdinaryInv, OnceInv, SinglesInv, SendingInv
<1> QED
  BY <1>1, <1>2, <1>3 DEF OrdinaryInv

\* A check that meets ordinary answers only reports nothing of a target without
\* the flaw: neither failed requests nor comparisons with one half missing
\* make a verdict of what every server answers (the discover() of all checks).
THEOREM NothingIsImagined == Spec => []NoFalseAlarm
<1>1. Init => OrdinaryInv /\ NoFalseAlarm
  BY OrdinaryStarts DEF Init, NoFalseAlarm
<1>2. OrdinaryInv /\ NoFalseAlarm /\ [Next]_vars => OrdinaryInv' /\ NoFalseAlarm'
  <2> SUFFICES ASSUME OrdinaryInv, NoFalseAlarm, [Next]_vars
               PROVE  NoFalseAlarm'
    BY OrdinaryStep
  <2>1. flawed' = flawed
    BY DEF Next, Decline, Enter, AskGate, Send, Close, Halted, vars, launchVars
  <2> SUFFICES ASSUME ~ flawed, NEW f \in findings', f.check \in clear'
               PROVE  FALSE
    BY <2>1 DEF NoFalseAlarm
  <2>2. /\ TypeInv /\ Attributed /\ ClearInTurn /\ Undisturbed
        /\ stage = "sending" => Sound(Check, setting, log, next)
    BY DEF OrdinaryInv, OnceInv, SinglesInv, SendingInv
  <2>3. CASE f \in findings
    <3>1. f.check \notin clear
      BY <2>3 DEF NoFalseAlarm
    <3>2. Close /\ f.check = Check /\ stage = "sending"
      BY <3>1 DEF Next, Decline, Enter, AskGate, Send, Close, Halted, vars
    <3>3. PICK k \in DOMAIN registry : f.check = registry[k] /\ f.check # "plugin" /\ (k < turn \/ stage = "over")
      BY <2>2, <2>3 DEF Attributed
    <3> QED
      BY <2>2, <3>2, <3>3, OneTurnEach
  <2>4. CASE f \notin findings
    <3>1. PICK c \in CandidatesOf(Check, setting, log) : f = FindingOf(c)
      BY <2>4, FoundAtClose
    <3>2. Close /\ stage = "sending"
      BY <2>4, FoundAtClose DEF Close
    <3>3. f.check = Check
      BY <3>1, PlaceOfFinding
    <3>4. Check # "plugin"
      BY <3>1 DEF CandidatesOf
    <3>5. CASE Check \in clear
      <4>1. PICK k \in DOMAIN registry : registry[k] = Check /\ (k < turn \/ stage = "over")
        BY <2>2, <3>5 DEF ClearInTurn
      <4> QED
        BY <2>2, <3>2, <3>4, <4>1, OneTurnEach
    <3>6. CASE Check \notin clear
      <4>1. odd = 0
        BY <3>2, <3>3, <3>6 DEF Close
      <4>2. Ordinary(Check, setting, flawed, log, dead)
        BY <2>2, <3>2, <4>1 DEF Undisturbed
      <4>3. Check \in CheckNames
        BY <2>2 DEF TypeInv, ConsentInv, TurnOK, Check
      <4>4. /\ DOMAIN log \subseteq Asked(Check, setting)
            /\ \A r \in DOMAIN log : Grounds(Check, setting, log, r)
        BY <2>2, <3>2 DEF Sound
      <4> QED
        BY <3>1, <4>2, <4>3, <4>4, NothingSuspicious
    <3> QED
      BY <3>5, <3>6
  <2> QED
    BY <2>3, <2>4
<1> QED
  BY <1>1, <1>2, PTL DEF Spec

-----------------------------------------------------------------------------
(* What a target with the flaw is bound to show.                           *)

\* The requests whose ordinary answer gives the flaw away.
Telling(check, r) ==
    CASE check \in Comparing -> r.with[1] = "probe"
      [] check \in {"xss-reflected", "ssrf"} -> r # Home
      [] check = "bola-idor" -> r.with[2] # 1
      [] check = "session-invalidation" -> r.with[1] = "after"
      [] check = "cors-policy" -> r.method = "OPTIONS"
      [] check = "http-methods" -> r.method = "DELETE"
      [] check = "source-map-exposure" -> r = Source(1)
      [] check = "graphql" -> r.with = <<"__schema">>
      [] check \in {"security-headers", "information-disclosure", "open-redirect-indicator",
                    "session-cookie"} -> r = Home
      [] check \in {"bfla", "bfla-behavior", "mass-assignment"} -> TRUE

\* What a target with the flaw, where nobody is logged out, says of r.
Loud(check, r, a) ==
    /\ check \in {"sqli-time-based", "command-injection"} =>
          a = IF r.with[1] = "probe" THEN Answer(200, 60, 5, {}) ELSE Page({})
    /\ check = "path-traversal" =>
          a = IF r.with[1] = "probe" THEN Answer(200, 2, 9, {"canary"}) ELSE Page({})
    /\ check \in {"xss-reflected", "ssrf"} =>
          a = IF r = Home THEN Page({"link", "form", "script"}) ELSE Page({"canary"})
    /\ check = "session-cookie" /\ r = Home => a = Page({"cookie", "token leaked", "short token"})
    /\ check \in {"bola-idor", "session-invalidation"} => a \in {Page({"record"}), Page({})}
    /\ check = "bfla" => a = Page(AdminMarkers)
    /\ check = "bfla-behavior" => a = Page({})
    /\ check = "mass-assignment" => a = Page({"json"} \cup {"is_admin", "balance"})
    /\ check = "security-headers" => a = Page({"csp", "csp wildcard"})
    /\ check = "cors-policy" => a = Page({"origin echoed", "credentials"})
    /\ check = "http-methods" /\ r.method = "DELETE" => a = Page({})
    /\ check = "information-disclosure" /\ r = Home => a = Page({"banner", "stacktrace"})
    /\ check = "open-redirect-indicator" /\ r = Home => a = Page({"redirect link"})
    /\ check = "source-map-exposure" =>
          /\ r = Home => a = Page({"link", "form", "script"})
          /\ r = Source(1) => a = Page({"map reference"})
    /\ check = "graphql" /\ r.with = <<"__schema">> => a = Page({"json"} \cup {"schema"})

LEMMA LoudAnswers ==
    ASSUME NEW check \in CheckNames, NEW s, NEW r \in Asked(check, s), NEW a, NEW bad,
           bad, a = Typical(check, s, bad, r, {})
    PROVE  Loud(check, r, a)
<1>1. \A m : If(bad, m) = m
  BY DEF If
<1>2. Owned(r, {}) = Page({"record"})
  BY DEF Owned
<1>3. CASE check \in {"sqli-time-based", "command-injection"}
  <2>1. r # Home
    BY <1>3, NotAtHome
  <2> QED
    BY <1>3, <2>1 DEF Typical, Loud
<1>4. CASE check = "path-traversal"
  <2>1. r # Home
    BY <1>4, NotAtHome
  <2> QED
    BY <1>4, <2>1 DEF Typical, Loud
<1>5. CASE check \in {"xss-reflected", "ssrf"}
  BY <1>1, <1>5 DEF Typical, HomePage, Loud
<1>6. CASE check = "session-cookie"
  BY <1>6 DEF Typical, HomePage, Loud
<1>7. CASE check = "bola-idor"
  <2>1. r # Home
    BY <1>7, NotAtHome
  <2> QED
    BY <1>2, <1>7, <2>1 DEF Typical, Loud
<1>8. CASE check = "session-invalidation"
  <2>1. r # Home
    BY <1>8, NotAtHome
  <2> QED
    BY <1>2, <1>8, <2>1 DEF Typical, Loud
<1>9. CASE check = "bfla"
  <2>1. r # Home
    BY <1>9, NotAtHome
  <2> QED
    BY <1>9, <2>1 DEF Typical, Loud
<1>10. CASE check = "bfla-behavior"
  <2>1. r # Home
    BY <1>10, NotAtHome
  <2> QED
    BY <1>10, <2>1 DEF Typical, Loud
<1>11. CASE check = "mass-assignment"
  <2>1. r # Home
    BY <1>11, NotAtHome
  <2> QED
    BY <1>1, <1>11, <2>1 DEF Typical, Loud
<1>12. CASE check = "security-headers"
  <2>1. r = Home
    BY <1>12 DEF Asked, Comparing
  <2> QED
    BY <1>12, <2>1 DEF Typical, HomePage, Loud
<1>13. CASE check = "cors-policy"
  <2>1. r # Home
    BY <1>13, NotAtHome
  <2> QED
    BY <1>1, <1>13, <2>1 DEF Typical, Loud
<1>14. CASE check = "http-methods"
  <2>1. r # Home
    BY <1>14, NotAtHome
  <2> QED
    BY <1>14, <2>1 DEF Typical, Loud
<1>15. CASE check \in {"information-disclosure", "open-redirect-indicator"}
  BY <1>1, <1>15 DEF Typical, HomePage, Loud
<1>16. CASE check = "source-map-exposure"
  <2>1. Source(1) # Home /\ Source(1).with[1] = "source"
    BY DEF Source, Home, Get, Request
  <2>2. r = Home => a = Page({"link", "form", "script"})
    BY <1>16 DEF Typical, HomePage
  <2>3. r = Source(1) => a = Page({"map reference"})
    BY <1>1, <1>16, <2>1 DEF Typical, Comparing
  <2> QED
    BY <1>16, <2>2, <2>3 DEF Loud
<1>17. CASE check = "graphql"
  <2>1. r # Home
    BY <1>17, NotAtHome
  <2>2. <<"__schema">> # <<"__type">>
    OBVIOUS
  <2> QED
    BY <1>17, <2>1, <2>2 DEF Typical, Loud
<1>18. CASE check = "plugin"
  BY <1>18 DEF Loud
<1> QED
  BY <1>3, <1>4, <1>5, <1>6, <1>7, <1>8, <1>9, <1>10, <1>11, <1>12, <1>13, <1>14, <1>15, <1>16,
     <1>17, <1>18 DEF CheckNames, Passive, Gated, Ungated

\* Not what validate() dismisses.
Reported(check, answers, c) == VerdictOf(check, answers, c).outcome # "FALSE_POSITIVE"

\* r was answered with a page of these marks.
Shows(answers, r, marks) ==
    answers[r].status = 200 /\ answers[r].status # Raised /\ answers[r].marks = marks

LEMMA FirstOfCopies ==
    ASSUME NEW a
    PROVE  1 \in Copies(a)
BY DEF Copies

\* On a target with the flaw a telling answer makes a candidate that lasts.
LEMMA TellingIsReported ==
    ASSUME NEW check \in CheckNames, NEW s, NEW answers, NEW bad,
           DOMAIN answers \subseteq Asked(check, s),
           \A r \in DOMAIN answers : Grounds(check, s, answers, r),
           bad, Ordinary(check, s, bad, answers, {}),
           NEW t \in DOMAIN answers, Telling(check, t), check # "plugin"
    PROVE  \E c \in CandidatesOf(check, s, answers) : Reported(check, answers, c)
<1>1. ASSUME NEW r \in DOMAIN answers
      PROVE  Loud(check, r, answers[r])
  <2>1. PICK gone \in SUBSET {} : answers[r] = Typical(check, s, bad, r, gone)
    BY DEF Ordinary
  <2>2. gone = {}
    BY <2>1
  <2> QED
    BY <2>1, <2>2, LoudAnswers
<1>2. /\ \A m : Page(m).status = 200 /\ Page(m).time = 2 /\ Page(m).size = 5 /\ Page(m).marks = m
      /\ \A time, size, m : /\ Answer(200, time, size, m).status = 200
                            /\ Answer(200, time, size, m).time = time
                            /\ Answer(200, time, size, m).size = size
                            /\ Answer(200, time, size, m).marks = m
  BY DEF Page, Answer
<1>a. \A r, m : answers[r] = Page(m) => Shows(answers, r, m)
  BY DEF Page, Answer, Raised, Shows
<1>3. /\ \A c : c = Confirmed => c.outcome # "FALSE_POSITIVE"
      /\ \A confidence, c : c = Likely(confidence) => c.outcome # "FALSE_POSITIVE"
  BY DEF Confirmed, Likely
<1>4. \A r, issue, p : /\ Candidate(r, issue).tells = r /\ Naming(p, Candidate(r, issue)).tells = r
                       /\ Candidate(r, issue).issue = issue /\ Naming(p, Candidate(r, issue)).issue = issue
  BY DEF Candidate, Naming
<1>5. ASSUME check \in {"sqli-time-based", "command-injection"}
      PROVE  /\ t.with[1] = "probe" /\ answers[t].time = 60 /\ answers[t].status = 200
             /\ SqliMedian(answers, t.at) \in {0, 2} /\ CmdiBaseline(answers, t.at) \in {0, 2}
  <2>1. t.with[1] = "probe"
    BY <1>5 DEF Telling, Comparing
  <2>2. answers[t] = Answer(200, 60, 5, {})
    BY <1>1, <1>5, <2>1 DEF Loud
  <2>3. ASSUME NEW i \in Samples, Returned(answers, Baseline(t.at, i))
        PROVE  answers[Baseline(t.at, i)].time = 2
    <3>1. Baseline(t.at, i) \in DOMAIN answers /\ Baseline(t.at, i).with[1] # "probe"
      BY <2>3 DEF Returned, Baseline, Get, Request
    <3>2. answers[Baseline(t.at, i)] = Page({})
      BY <1>1, <1>5, <3>1 DEF Loud
    <3> QED
      BY <1>2, <3>2
  <2> QED
    BY <1>2, <2>1, <2>2, <2>3, SteadyBaseline
<1>6. CASE check = "sqli-time-based"
  <2>1. SqliSlow(answers, t)
    BY <1>5, <1>6 DEF SqliSlow, Returned, Raised, Threshold, Ratio
  <2>2. Candidate(t, "sqli") \in CandidatesOf(check, s, answers)
    BY <1>5, <1>6, <2>1 DEF CandidatesOf, SqliCandidates
  <2>3. SqliVerdict(answers, Candidate(t, "sqli")) = Confirmed
    BY <1>4, <1>5, <1>6 DEF SqliVerdict
  <2> QED
    BY <1>3, <1>6, <2>2, <2>3 DEF Reported, VerdictOf
<1>7. CASE check = "command-injection"
  <2>1. CmdiSlow(answers, t)
    BY <1>5, <1>7 DEF CmdiSlow, Returned, Raised
  <2>2. Candidate(t, "cmdi") \in CandidatesOf(check, s, answers)
    BY <1>5, <1>7, <2>1 DEF CandidatesOf, CmdiCandidates, CmdiHits
  <2> QED
    BY <1>3, <1>7, <2>2 DEF Reported, VerdictOf, CmdiVerdict
<1>8. CASE check = "path-traversal"
  <2>1. t.with[1] = "probe"
    BY <1>8 DEF Telling, Comparing
  <2>2. answers[t].status = 200 /\ answers[t].size = 9
    BY <1>1, <1>2, <1>8, <2>1 DEF Loud
  <2>3. Baseline(t.at, First) \in DOMAIN answers /\ Baseline(t.at, First).with[1] # "probe"
    BY <1>8, <2>1 DEF Grounds, Returned, Baseline, Get, Request
  <2>4. answers[Baseline(t.at, First)].size = 5
    BY <1>1, <1>2, <1>8, <2>3 DEF Loud
  <2>5. TraversalDiffers(answers, t)
    BY <2>1, <2>2, <2>4 DEF TraversalDiffers, Returned, Raised
  <2>6. \E issue : Candidate(t, issue) \in CandidatesOf(check, s, answers)
    BY <1>8, <2>5 DEF CandidatesOf, TraversalCandidates
  <2>7. \A c : Reported(check, answers, c)
    BY <1>3, <1>8 DEF Reported, VerdictOf, TraversalVerdict
  <2> QED
    BY <2>6, <2>7
<1>9. CASE check = "xss-reflected"
  <2>1. t # Home
    BY <1>9 DEF Telling, Comparing
  <2>2. answers[t].status = 200 /\ "canary" \in answers[t].marks
    BY <1>1, <1>2, <1>9, <2>1 DEF Loud
  <2>3. Candidate(t, "reflected") \in CandidatesOf(check, s, answers)
    BY <1>9, <2>1, <2>2 DEF CandidatesOf, XssCandidates, Status, Marked, Returned, Raised
  <2> QED
    BY <1>3, <1>9, <2>3 DEF Reported, VerdictOf, XssVerdict
<1>10. CASE check = "ssrf"
  <2>1. t # Home
    BY <1>10 DEF Telling, Comparing
  <2>2. answers[t].status = 200 /\ "canary" \in answers[t].marks
    BY <1>1, <1>2, <1>10, <2>1 DEF Loud
  <2>3. SsrfIndicator(answers[t]) # "none" /\ Returned(answers, t)
    BY <2>2 DEF SsrfIndicator, Returned, Raised
  <2>4. \E issue : Candidate(t, issue) \in CandidatesOf(check, s, answers)
    BY <1>10, <2>1, <2>3 DEF CandidatesOf, SsrfCandidates
  <2>5. \A c : Reported(check, answers, c)
    BY <1>3, <1>10 DEF Reported, VerdictOf, SsrfVerdict
  <2> QED
    BY <2>4, <2>5
<1>11. CASE check = "bola-idor"
  <2>1. t.with[2] # 1
    BY <1>11 DEF Telling, Comparing
  <2>2. answers[t].status = 200
    BY <1>1, <1>2, <1>11 DEF Loud
  <2> DEFINE verdict == BolaVerdictOf(answers[OfOwner(s.ps, t)], answers[t])
  <2>3. verdict \in {"confirmed", "likely"}
    BY <2>2 DEF BolaVerdictOf
  <2>4. Naming(t.by, Candidate(t, verdict)) \in CandidatesOf(check, s, answers)
    BY <1>11, <2>1, <2>2, <2>3 DEF CandidatesOf, BolaCandidates, Returned, Raised
  <2> HIDE DEF verdict
  <2>5. Reported(check, answers, Naming(t.by, Candidate(t, verdict)))
    BY <1>3, <1>4, <1>11, <2>3 DEF Reported, VerdictOf, BolaVerdict
  <2> QED
    BY <2>4, <2>5
<1>12. CASE check = "bfla"
  <2>1. answers[t].status = 200 /\ answers[t].marks = AdminMarkers
    BY <1>1, <1>2, <1>12 DEF Loud
  <2>2. Markers(answers[t]) = 3
    <3>1. answers[t].marks \cap AdminMarkers = AdminMarkers
      BY <2>1
    <3>2. Cardinality({"users", "role", "config"}) = 3
      <4>1. Cardinality({"users"}) = 1 /\ IsFiniteSet({"users"})
        BY FS_Singleton
      <4>a. "role" \notin {"users"} /\ "config" \notin {"users"} \cup {"role"}
        OBVIOUS
      <4>b. /\ IsFiniteSet({"users"} \cup {"role"})
            /\ Cardinality({"users"} \cup {"role"}) = Cardinality({"users"}) + 1
        BY <4>1, <4>a, FS_AddElement, Zenon
      <4>2. Cardinality({"users"} \cup {"role"}) = 2
        BY <4>1, <4>b
      <4>c. Cardinality(({"users"} \cup {"role"}) \cup {"config"})
               = Cardinality({"users"} \cup {"role"}) + 1
        BY <4>a, <4>b, FS_AddElement, Zenon
      <4>3. Cardinality(({"users"} \cup {"role"}) \cup {"config"}) = 3
        BY <4>2, <4>c
      <4>4. ({"users"} \cup {"role"}) \cup {"config"} = {"users", "role", "config"}
        OBVIOUS
      <4> QED
        BY <4>3, <4>4
    <3> QED
      BY <3>1, <3>2 DEF Markers, AdminMarkers
  <2>3. Naming(t.by, Candidate(t, "bfla")) \in CandidatesOf(check, s, answers)
    BY <1>12, <2>1, <2>2 DEF CandidatesOf, BflaCandidates
  <2>4. BflaVerdict(answers, Naming(t.by, Candidate(t, "bfla"))) = Confirmed
    BY <1>4, <2>2 DEF BflaVerdict
  <2> QED
    BY <1>3, <1>12, <2>3, <2>4 DEF Reported, VerdictOf
<1>13. CASE check = "bfla-behavior"
  <2>1. answers[t].status = 200
    BY <1>1, <1>2, <1>13 DEF Loud
  <2>2. \E p : Naming(p, Candidate(t, "bfla")) \in CandidatesOf(check, s, answers)
    BY <1>13, <2>1 DEF CandidatesOf, BehaviorCandidates
  <2>3. \A c : Reported(check, answers, c)
    BY <1>3, <1>13 DEF Reported, VerdictOf, BehaviorVerdict
  <2> QED
    BY <2>2, <2>3
<1>14. CASE check = "session-invalidation"
  <2>1. t.with[1] = "after"
    BY <1>14 DEF Telling, Comparing
  <2>2. answers[t].status = 200
    BY <1>1, <1>2, <1>14 DEF Loud
  <2>3. t \in Seen(answers, "after")
    BY <2>1, <2>2 DEF Seen, Success
  <2>4. Naming(t.by, Candidate(t, "session kept")) \in CandidatesOf(check, s, answers)
    BY <1>14, <2>3 DEF CandidatesOf, InvalidationCandidates
  <2> QED
    BY <1>3, <1>14, <2>4 DEF Reported, VerdictOf, InvalidationVerdict
<1>15. CASE check = "mass-assignment"
  <2>1. answers[t].status = 200 /\ "json" \in answers[t].marks /\ "is_admin" \in answers[t].marks
    <3>1. answers[t] = Page({"json"} \cup {"is_admin", "balance"})
      BY <1>1, <1>15 DEF Loud
    <3>2. answers[t].marks = {"json"} \cup {"is_admin", "balance"} /\ answers[t].status = 200
      BY <1>2, <3>1
    <3> QED
      BY <3>2
  <2>2. "is_admin" \in DOMAIN Fields
    BY DEF Fields
  <2>3. Candidate(t, "is_admin") \in CandidatesOf(check, s, answers)
    BY <1>15, <2>1, <2>2 DEF CandidatesOf, AssignmentCandidates, Marked, Returned, Raised
  <2>4. \A c : Reported(check, answers, c)
    BY <1>3, <1>15 DEF Reported, VerdictOf, AssignmentVerdict
  <2> QED
    BY <2>3, <2>4
<1>16. CASE check = "security-headers"
  <2>1. t = Home
    BY <1>16 DEF Telling, Comparing
  <2>2. Returned(answers, Home) /\ "permissions" \notin answers[Home].marks
    <3>0. Home \in DOMAIN answers
      BY <2>1
    <3>1. answers[Home] = Page({"csp", "csp wildcard"})
      BY <1>1, <1>16, <3>0 DEF Loud
    <3>2. Shows(answers, Home, {"csp", "csp wildcard"})
      BY <1>a, <3>1, Zenon
    <3>3. "permissions" \notin {"csp", "csp wildcard"}
      BY Zenon
    <3>4. Returned(answers, Home)
      BY <3>0, <3>2, Zenon DEF Returned, Shows
    <3> QED
      BY <3>2, <3>3, <3>4, Zenon DEF Shows
  <2>b. \A S : "permissions missing" \in S => Candidate(Home, "permissions missing") \in {Candidate(Home, i) : i \in S}
    BY Zenon
  <2>3. Candidate(Home, "permissions missing") \in HeadersCandidates(answers)
    <3> HIDE DEF Candidate
    <3> QED
      BY <2>2, <2>b, Zenon DEF HeadersCandidates
  <2>4. \A c : Reported(check, answers, c)
    BY <1>3, <1>16 DEF Reported, VerdictOf, HeadersVerdict
  <2> QED
    BY <1>16, <2>3, <2>4 DEF CandidatesOf
<1>17. CASE check = "cors-policy"
  <2>1. t.method = "OPTIONS"
    BY <1>17 DEF Telling, Comparing
  <2>2. answers[t].marks = {"origin echoed", "credentials"}
    BY <1>1, <1>2, <1>17 DEF Loud
  <2>3. CorsIssue(answers[t]) # "none"
    BY <2>2 DEF CorsIssue
  <2>4. Candidate(t, CorsIssue(answers[t])) \in CandidatesOf(check, s, answers)
    BY <1>17, <2>1, <2>3 DEF CandidatesOf, CorsCandidates
  <2> QED
    BY <1>3, <1>17, <2>4 DEF Reported, VerdictOf, CorsVerdict
<1>18. CASE check = "http-methods"
  <2>1. t.method = "DELETE"
    BY <1>18 DEF Telling, Comparing
  <2>2. answers[t].status = 200
    BY <1>1, <1>2, <1>18, <2>1 DEF Loud
  <2>3. t \in Worked(answers)
    BY <2>1, <2>2 DEF Worked
  <2>4. Candidate(t, MethodsIssue(t.method)) \in CandidatesOf(check, s, answers)
    BY <1>18, <2>3 DEF CandidatesOf, MethodsCandidates
  <2> QED
    BY <1>3, <1>18, <2>4 DEF Reported, VerdictOf, MethodsVerdict
<1>19. CASE check = "information-disclosure"
  <2>1. t = Home
    BY <1>19 DEF Telling, Comparing
  <2>2. answers[Home].status = 200 /\ "banner" \in answers[Home].marks
    <3>0. Home \in DOMAIN answers
      BY <2>1
    <3>1. answers[Home] = Page({"banner", "stacktrace"})
      BY <1>1, <1>19, <3>0 DEF Loud
    <3>2. answers[Home].marks = {"banner", "stacktrace"} /\ answers[Home].status = 200
      BY <3>1 DEF Page, Answer
    <3> QED
      BY <3>2
  <2>3. "banner" \in DOMAIN Leaks /\ Marked(answers, Home, "banner")
    BY <2>1, <2>2 DEF Leaks, Marked, Returned, Raised
  <2>4. Candidate(Home, "banner") \in CandidatesOf(check, s, answers)
    BY <1>19, <2>3 DEF CandidatesOf, DisclosureCandidates
  <2> QED
    BY <1>3, <1>19, <2>4 DEF Reported, VerdictOf, DisclosureVerdict
<1>20. CASE check = "source-map-exposure"
  <2>1. t = Source(1) /\ t.with[1] = "source"
    BY <1>20 DEF Telling, Comparing, Source, Get, Request
  <2>2. Marked(answers, t, "map reference")
    <3>1. answers[t] = Page({"map reference"})
      BY <1>1, <1>20, <2>1 DEF Loud
    <3>2. Shows(answers, t, {"map reference"})
      BY <1>a, <3>1, Zenon
    <3>3. "map reference" \in {"map reference"}
      BY Zenon
    <3> QED
      BY <3>2, <3>3, Zenon DEF Marked, Returned, Shows
  <2>b. Candidate(t, "inline_source_map_ref") \in MapsCandidates(answers)
    <3> HIDE DEF Candidate
    <3>1. t \in {q \in DOMAIN answers : q.with[1] = "source" /\ Marked(answers, q, "map reference")}
      BY <2>1, <2>2, Zenon
    <3> QED
      BY <3>1, Zenon DEF MapsCandidates
  <2>3. Candidate(t, "inline_source_map_ref") \in CandidatesOf(check, s, answers)
    BY <1>20, <2>b DEF CandidatesOf
  <2>4. \A c : Reported(check, answers, c)
    BY <1>3, <1>20 DEF Reported, VerdictOf, MapsVerdict
  <2> QED
    BY <2>3, <2>4
<1>21. CASE check = "open-redirect-indicator"
  <2>1. t = Home
    BY <1>21 DEF Telling, Comparing
  <2>2. Marked(answers, t, "redirect link")
    <3>1. answers[t] = Page({"redirect link"})
      BY <1>1, <1>21, <2>1 DEF Loud
    <3>2. Shows(answers, t, {"redirect link"})
      BY <1>a, <3>1, Zenon
    <3>3. "redirect link" \in {"redirect link"}
      BY Zenon
    <3> QED
      BY <3>2, <3>3, Zenon DEF Marked, Returned, Shows
  <2>a. 1 \in Copies(answers[Home])
    BY FirstOfCopies
  <2>b. \E c : c \in RedirectCandidates(answers)
    BY <2>1, <2>2, <2>a, Zenon DEF RedirectCandidates
  <2>3. \E c : c \in CandidatesOf(check, s, answers)
    BY <1>21, <2>b DEF CandidatesOf
  <2>4. \A c : Reported(check, answers, c)
    BY <1>3, <1>21 DEF Reported, VerdictOf, RedirectVerdict
  <2> QED
    BY <2>3, <2>4
<1>22. CASE check = "graphql"
  <2>1. t.with = <<"__schema">> /\ <<"__schema">> # <<"__type">>
    BY <1>22 DEF Telling, Comparing
  <2>2. answers[t].status = 200 /\ answers[t].size = 5 /\ {"json", "schema"} \subseteq answers[t].marks
    <3>1. answers[t] = Page({"json"} \cup {"schema"})
      BY <1>1, <1>22, <2>1 DEF Loud
    <3>2. answers[t].marks = {"json"} \cup {"schema"}
      BY <1>2, <3>1
    <3> QED
      BY <1>2, <3>1, <3>2
  <2>3. Json200(answers, t, "schema")
    BY <2>2 DEF Json200, Status, Returned, Raised, OK
  <2>4. Candidate(t, "introspection_enabled") \in CandidatesOf(check, s, answers)
    BY <1>22, <2>1, <2>3 DEF CandidatesOf, GraphqlCandidates
  <2>5. GraphqlVerdict(answers, Candidate(t, "introspection_enabled")) = Confirmed
    BY <1>4, <2>2 DEF GraphqlVerdict
  <2> QED
    BY <1>3, <1>22, <2>4, <2>5 DEF Reported, VerdictOf
<1>23. CASE check = "session-cookie"
  <2>1. t = Home
    BY <1>23 DEF Telling, Comparing
  <2>3. Marked(answers, Home, "token leaked")
    <3>0. Home \in DOMAIN answers
      BY <2>1
    <3>1. answers[Home] = Page({"cookie", "token leaked", "short token"})
      BY <1>1, <1>23, <3>0 DEF Loud
    <3>2. Shows(answers, Home, {"cookie", "token leaked", "short token"})
      BY <1>a, <3>1, Zenon
    <3>3. "token leaked" \in {"cookie", "token leaked", "short token"}
      BY Zenon
    <3> QED
      BY <3>0, <3>2, <3>3, Zenon DEF Marked, Returned, Shows
  <2>a. 1 \in Copies(answers[Home])
    BY FirstOfCopies
  <2>4. \E c : c \in Leakage(answers)
    BY <2>3, <2>a, Zenon DEF Leakage
  <2>5. \E c : c \in CandidatesOf(check, s, answers)
    <3>1. Leakage(answers) \subseteq CookieCandidates(s.https, answers)
      BY DEF CookieCandidates
    <3> QED
      BY <1>23, <2>4, <3>1 DEF CandidatesOf
  <2>6. \A c : Reported(check, answers, c)
    <3>1. \A c : CookieVerdict(answers, c) \in {Likely("low"), Likely("medium"), Confirmed}
      BY Zenon DEF CookieVerdict
    <3> QED
      BY <1>3, <1>23, <3>1 DEF Reported, VerdictOf
  <2> QED
    BY <2>5, <2>6
<1> QED
  BY <1>6, <1>7, <1>8, <1>9, <1>10, <1>11, <1>12, <1>13, <1>14, <1>15, <1>16, <1>17, <1>18,
     <1>19, <1>20, <1>21, <1>22, <1>23 DEF CheckNames, Passive, Gated, Ungated

-----------------------------------------------------------------------------
(* Nothing that is left out would have been needed.                        *)

\* The checks that begin with the home page.
FromHome == {"xss-reflected", "ssrf", "information-disclosure", "source-map-exposure",
             "open-redirect-indicator", "session-cookie"}

\* The first of a concatenation.
LEMMA FirstOfTwo ==
    ASSUME NEW p, NEW q, IsList(p), IsList(q), 1 \in DOMAIN p
    PROVE  IsList(p \o q) /\ 1 \in DOMAIN (p \o q) /\ (p \o q)[1] = p[1]
<1>1. /\ IsList(p \o q) /\ Len(p \o q) = Len(p) + Len(q)
      /\ \A i \in 1..Len(p) : (p \o q)[i] = p[i]
  BY Concatenation
<1>2. /\ Len(p) \in Nat /\ DOMAIN p = 1..Len(p) /\ Len(q) \in Nat
      /\ DOMAIN (p \o q) = 1..Len(p \o q)
  BY <1>1 DEF IsList
<1> QED
  BY <1>1, <1>2

LEMMA HomeIsFirst ==
    ASSUME NEW check \in FromHome, NEW s
    PROVE  1 \in DOMAIN RequestsOf(check, s) /\ RequestsOf(check, s)[1] = Home
<1> DEFINE Begins(q) == 1 \in DOMAIN q /\ q[1] = Home
<1>1. IsList(<<Home>>) /\ Begins(<<Home>>) /\ IsList(<<SignOut>>)
  <2>1. \A u : 1 \in DOMAIN <<u>> /\ <<u>>[1] = u
    OBVIOUS
  <2> QED
    BY <2>1, ShortLists
<1>2. \A p, q : IsList(p) /\ IsList(q) /\ Begins(p) => IsList(p \o q) /\ Begins(p \o q)
  BY FirstOfTwo
<1>3. \A q : q = [i \in DOMAIN Paths |-> q[i]] => IsList(q)
  BY GivenLists, Listing
<1>4. \A q : q = [i \in DOMAIN Params |-> q[i]] => IsList(q)
  BY GivenLists, Listing
<1>5. \A q : q = [i \in 1..Len(Params) + 1 |-> q[i]] => IsList(q)
  <2>1. Len(Params) + 1 \in Nat
    BY GivenLists
  <2> QED
    BY <2>1, Listing
<1> HIDE DEF Begins
<1>6. Begins(XssRequests)
  <2> DEFINE gets == [i \in 1..Len(Params) + 1 |-> Get(Append(Params, Linked)[i], <<"canary">>)]
             posts == [i \in DOMAIN Paths |-> Json(Paths[i])]
  <2>1. gets = [i \in 1..Len(Params) + 1 |-> gets[i]] /\ posts = [i \in DOMAIN Paths |-> posts[i]]
    OBVIOUS
  <2>2. XssRequests = (<<Home>> \o gets) \o posts
    BY DEF XssRequests
  <2> HIDE DEF gets, posts
  <2>3. IsList(gets) /\ IsList(posts)
    BY <1>3, <1>5, <2>1
  <2> QED
    BY <1>1, <1>2, <2>2, <2>3
<1>7. Begins(SsrfRequests)
  <2> DEFINE gets == [i \in DOMAIN Params |-> Callback("GET", Params[i])]
             posts == [i \in DOMAIN Params |-> Callback("POST", Params[i])]
  <2>1. gets = [i \in DOMAIN Params |-> gets[i]] /\ posts = [i \in DOMAIN Params |-> posts[i]]
    OBVIOUS
  <2>2. SsrfRequests = (<<Home>> \o gets) \o posts
    BY DEF SsrfRequests
  <2> HIDE DEF gets, posts
  <2>3. IsList(gets) /\ IsList(posts)
    BY <1>4, <2>1
  <2> QED
    BY <1>1, <1>2, <2>2, <2>3
<1>8. Begins(DisclosureRequests)
  <2> DEFINE debug == [i \in DOMAIN Paths |-> Debug(Paths[i])]
             backup == [i \in DOMAIN Paths |-> Backup(Paths[i])]
  <2>1. debug = [i \in DOMAIN Paths |-> debug[i]] /\ backup = [i \in DOMAIN Paths |-> backup[i]]
    OBVIOUS
  <2>2. DisclosureRequests = (<<Home>> \o debug) \o backup
    BY DEF DisclosureRequests, AtPaths
  <2> HIDE DEF debug, backup
  <2>3. IsList(debug) /\ IsList(backup)
    BY <1>3, <2>1
  <2> QED
    BY <1>1, <1>2, <2>2, <2>3
<1>9. Begins(MapsRequests)
  <2> DEFINE sources == [n \in Tags |-> Source(n)]
             maps == [n \in Tags |-> SourceMap(n)]
             common == [i \in DOMAIN Paths |-> CommonMap(Paths[i])]
  <2>1. /\ common = [i \in DOMAIN Paths |-> common[i]]
        /\ sources = [n \in 1..3 |-> sources[n]] /\ maps = [n \in 1..3 |-> maps[n]]
    BY DEF Tags
  <2>2. MapsRequests = ((<<Home>> \o sources) \o maps) \o common
    BY DEF MapsRequests, AtPaths
  <2> HIDE DEF common, sources, maps
  <2>3. IsList(common) /\ IsList(sources) /\ IsList(maps)
    BY <1>3, <2>1, Listing
  <2>4. IsList((<<Home>> \o sources) \o maps) /\ Begins((<<Home>> \o sources) \o maps)
    BY <1>1, <1>2, <2>3
  <2> QED
    BY <1>2, <2>2, <2>3, <2>4
<1>10. Begins(RedirectRequests)
  <2> DEFINE probed == [i \in DOMAIN Paths |-> Probed(Paths[i])]
  <2>1. probed = [i \in DOMAIN Paths |-> probed[i]]
    OBVIOUS
  <2>2. RedirectRequests = (<<Home>> \o probed) \o <<SignOut>>
    BY DEF RedirectRequests, AtPaths
  <2> HIDE DEF probed
  <2>3. IsList(probed)
    BY <1>3, <2>1
  <2> QED
    BY <1>1, <1>2, <2>2, <2>3
<1>11. Begins(CookieRequests)
  <2> DEFINE canaries == [i \in DOMAIN Params |-> Canary(Params[i])]
  <2>1. canaries = [i \in DOMAIN Params |-> canaries[i]]
    OBVIOUS
  <2>2. CookieRequests = <<Home>> \o canaries
    BY DEF CookieRequests
  <2> HIDE DEF canaries
  <2>3. IsList(canaries)
    BY <1>4, <2>1
  <2> QED
    BY <1>1, <1>2, <2>2, <2>3
<1>12. Begins(RequestsOf(check, s))
  BY <1>6, <1>7, <1>8, <1>9, <1>10, <1>11 DEF RequestsOf, FromHome
<1> QED
  BY <1>12 DEF Begins

\* The requests whose answers decide whether r is left out.
Needed(check, s, r) ==
    (RestsOn(check, s, r) \cap Asked(check, s))
    \cup (IF check \in FromHome /\ r # Home THEN {Home} ELSE {})

\* They come before r.
LEMMA NeededBefore ==
    ASSUME NEW check \in CheckNames, NEW s, IsList(s.ps),
           NEW i \in DOMAIN RequestsOf(check, s), NEW t \in Needed(check, s, RequestsOf(check, s)[i])
    PROVE  \E k \in DOMAIN RequestsOf(check, s) : k < i /\ RequestsOf(check, s)[k] = t
<1> DEFINE q == RequestsOf(check, s)
<1>1. IsList(q) /\ Range(q) = Asked(check, s) /\ InOrder(check, s, q)
  BY RequestsAsked, RequestsInOrder
<1>2. check \in FromHome => 1 \in DOMAIN q /\ q[1] = Home
  BY HomeIsFirst
<1> HIDE DEF q
<1>3. DOMAIN q \subseteq Nat \ {0} /\ i \in DOMAIN q
  BY <1>1 DEF IsList, q
<1>4. CASE t \in RestsOn(check, s, q[i]) /\ t \in Asked(check, s)
  <2>1. PICK k \in DOMAIN q : q[k] = t
    BY <1>1, <1>4 DEF Range
  <2>2. ~ (i <= k)
    BY <1>1, <1>3, <1>4, <2>1 DEF InOrder
  <2>3. k < i
    BY <1>3, <2>2
  <2> QED
    BY <2>1, <2>3 DEF q
<1>5. CASE check \in FromHome /\ q[i] # Home /\ t = Home
  <2>1. 1 \in DOMAIN q /\ q[1] = t /\ i # 1
    BY <1>2, <1>5
  <2>2. 1 < i
    BY <1>3, <2>1
  <2> QED
    BY <2>1, <2>2 DEF q
<1> QED
  BY <1>4, <1>5 DEF Needed, q

\* The requests for the script tags that a page may have besides the first.
OfOtherTags ==
    {Source(n) : n \in Tags \ {1}} \cup {SourceMap(n) : n \in Tags \ {1}}

\* r was sent, or the flaw is given away without it; of the looks before the
\* logout one is enough, and of the script tags the first.
Reached(check, answers, r) ==
    \/ r \in DOMAIN answers
    \/ \E t \in DOMAIN answers : Telling(check, t)
    \/ check = "session-invalidation" /\ r.with[1] = "before"
          /\ \E t \in DOMAIN answers : t.with[1] = "before"
    \/ check = "source-map-exposure" /\ r \in OfOtherTags

\* There is something to try.
LEMMA SomethingToTry ==
    /\ Params[1] \in Range(Params) /\ Payloads[1] \in Range(Payloads)
    /\ Paths[1] \in Range(Paths) /\ Logouts[1] \in Range(Logouts)
<1>1. \A q : IsList(q) /\ q # <<>> => q[1] \in Range(q)
  <2> SUFFICES ASSUME NEW q, IsList(q), q # <<>>
               PROVE  q[1] \in Range(q)
    OBVIOUS
  <2>1. 1 \in DOMAIN q
    BY DEF IsList
  <2> QED
    BY <2>1 DEF Range
<1> QED
  BY <1>1, GivenLists, AttemptsAssumption, LogoutsAssumption

\* On a target with the flaw a request is left out only if it is reached.
LEMMA SkippedIsReached ==
    ASSUME NEW check \in CheckNames, NEW s, IsList(s.ps), NEW answers, NEW bad,
           DOMAIN answers \subseteq Asked(check, s),
           bad, Ordinary(check, s, bad, answers, {}),
           NEW r \in Asked(check, s), SkipsBy(check, s, answers, r),
           \A t \in Needed(check, s, r) : Reached(check, answers, t)
    PROVE  Reached(check, answers, r)
<1> SUFFICES ASSUME \A t \in DOMAIN answers : ~ Telling(check, t)
             PROVE  Reached(check, answers, r)
  BY DEF Reached
<1>1. ASSUME NEW t \in DOMAIN answers
      PROVE  Loud(check, t, answers[t])
  <2>1. PICK gone \in SUBSET {} : answers[t] = Typical(check, s, bad, t, gone)
    BY DEF Ordinary
  <2>2. gone = {}
    BY <2>1
  <2> QED
    BY <2>1, <2>2, LoudAnswers
<1>2. \A t : answers[t] \in {Page({}), Page({"record"})} =>
                answers[t].status = 200 /\ answers[t].time = 2 /\ answers[t].status # Raised
  BY DEF Page, Answer, Raised
<1>3. \A t \in RestsOn(check, s, r) : t \in Asked(check, s) => Reached(check, answers, t)
  BY DEF Needed
<1>4. check \in FromHome /\ r # Home => Reached(check, answers, Home)
  BY DEF Needed
<1>5. check \notin {"session-invalidation", "source-map-exposure"} =>
         \A t : Reached(check, answers, t) => t \in DOMAIN answers
  BY DEF Reached
<1>a. check \in FromHome /\ Reached(check, answers, Home) => Home \in DOMAIN answers
  <2>1. Home \notin OfOtherTags
    BY DEF OfOtherTags, Source, SourceMap, Home, Get, Request
  <2> QED
    BY <2>1 DEF Reached, FromHome
<1>6. ASSUME check \in Comparing, r.with[1] = "probe"
      PROVE  /\ r.at \in Range(Params)
             /\ \A i \in Samples : Baseline(r.at, i) \in Asked(check, s) =>
                   /\ Baseline(r.at, i) \in DOMAIN answers
                   /\ answers[Baseline(r.at, i)].status # Raised
                   /\ answers[Baseline(r.at, i)].time = 2
  <2>1. \E samples : r \in Tries(samples)
    BY <1>6, AskedByCheck DEF Comparing
  <2>2. \E p \in Range(Params) : \E x : r = Baseline(p, x) \/ r = Probe(p, x)
    BY <2>1 DEF Tries
  <2>3. r.at \in Range(Params)
    BY <2>2, ProbingFields
  <2>4. \A i \in Samples : Baseline(r.at, i) \in RestsOn(check, s, r)
    <3>1. RestsOn(check, s, r) = {Baseline(r.at, i) : i \in Samples}
      BY <1>6 DEF RestsOn, Comparing
    <3> QED
      BY <3>1
  <2>5. ASSUME NEW i \in Samples, Baseline(r.at, i) \in Asked(check, s)
        PROVE  Baseline(r.at, i) \in DOMAIN answers /\ answers[Baseline(r.at, i)] = Page({})
    <3>1. check \notin {"session-invalidation", "source-map-exposure"}
      BY <1>6 DEF Comparing
    <3>2. Baseline(r.at, i) \in DOMAIN answers
      BY <1>3, <1>5, <2>4, <2>5, <3>1
    <3>3. Baseline(r.at, i).with[1] # "probe"
      BY ProbingFields
    <3> QED
      BY <1>1, <1>6, <3>2, <3>3 DEF Loud, Comparing
  <2> QED
    BY <1>2, <2>3, <2>5
<1>7. CASE check \in {"sqli-time-based", "command-injection"}
  <2>1. r.with[1] = "probe"
    BY <1>7 DEF SkipsBy, SqliSkips, CmdiSkips
  <2>2. \A i \in Samples : Baseline(r.at, i) \in Asked(check, s)
    <3>1. Asked(check, s) = Tries(Samples)
      BY <1>7, AskedByCheck
    <3> QED
      BY <1>6, <1>7, <2>1, <3>1 DEF Tries, Comparing
  <2>3. \A i \in Samples : Returned(answers, Baseline(r.at, i)) /\ answers[Baseline(r.at, i)].time = 2
    BY <1>6, <1>7, <2>1, <2>2 DEF Returned, Comparing
  <2>4. SqliMedian(answers, r.at) = 2 /\ CmdiBaseline(answers, r.at) = 2
    BY <2>3, SteadyBaseline
  <2>5. CmdiHits(answers) = {} \/ check # "command-injection"
    BY DEF CmdiHits, Telling, Comparing
  <2> QED
    BY <1>7, <2>1, <2>4, <2>5 DEF SkipsBy, SqliSkips, CmdiSkips
<1>8. CASE check = "path-traversal"
  <2>1. r.with[1] = "probe"
    BY <1>8 DEF SkipsBy, TraversalSkips
  <2>2. Baseline(r.at, First) \in Asked(check, s) /\ First \in Samples
    <3>1. Asked(check, s) = Tries({First})
      BY <1>8, AskedByCheck
    <3> QED
      BY <1>6, <1>8, <2>1, <3>1 DEF Tries, Comparing, Samples
  <2>3. Returned(answers, Baseline(r.at, First))
    BY <1>6, <1>8, <2>1, <2>2 DEF Returned, Comparing
  <2>4. \A t \in DOMAIN answers : t.with[1] # "probe"
    BY <1>8 DEF Telling, Comparing
  <2> QED
    BY <1>8, <2>3, <2>4 DEF SkipsBy, TraversalSkips, TraversalDiffers
<1>9. CASE check = "bola-idor"
  <2>1. r.with[2] # 1 /\ ~ Status(answers, OfOwner(s.ps, r), {200})
    BY <1>9 DEF SkipsBy, BolaSkips
  <2>2. PICK i \in DOMAIN s.ps, t \in Range(BolaResources) : r = SentAs(s.ps, i, t)
    BY <1>9 DEF Asked
  <2>3. OfOwner(s.ps, r) = SentAs(s.ps, 1, t) /\ 1 \in DOMAIN s.ps
    <3>1. r.at = t.at /\ r.with[1] = t.with[1]
      BY <2>2, SentFields
    <3>2. 1 \in DOMAIN s.ps
      BY <2>2 DEF IsList
    <3> QED
      BY <3>1, <3>2 DEF OfOwner, SentAs
  <2>4. OfOwner(s.ps, r) \in Asked(check, s)
    BY <1>9, <2>2, <2>3 DEF Asked
  <2>5. OfOwner(s.ps, r) \in RestsOn(check, s, r)
    BY <1>9, <2>1 DEF RestsOn, Comparing
  <2>6. OfOwner(s.ps, r) \in DOMAIN answers
    BY <1>3, <1>5, <1>9, <2>4, <2>5
  <2>7. answers[OfOwner(s.ps, r)] \in {Page({"record"}), Page({})}
    BY <1>1, <1>9, <2>6 DEF Loud
  <2> QED
    BY <1>2, <2>1, <2>6, <2>7 DEF Status, Returned
<1>10. CASE check = "graphql"
  <2>1. r = TypeQuery(r.at)
    BY <1>10 DEF SkipsBy, GraphqlSkips
  <2>2. PICK p \in Range(Paths) : r = Introspection(p) \/ r = TypeQuery(p)
    BY <1>10 DEF Asked, PathRequests
  <2>3. r.at = p
    BY <2>2 DEF Introspection, TypeQuery, Request
  <2>4. Introspection(r.at) \in Asked(check, s)
    BY <1>10, <2>2, <2>3 DEF Asked, PathRequests
  <2>5. Introspection(r.at) \in RestsOn(check, s, r)
    BY <1>10, <2>1 DEF RestsOn, Comparing
  <2>6. Introspection(r.at) \in DOMAIN answers
    BY <1>3, <1>5, <1>10, <2>4, <2>5
  <2>7. Introspection(r.at).with = <<"__schema">>
    BY DEF Introspection, Request
  <2> QED
    BY <1>10, <2>6, <2>7 DEF Telling, Comparing
<1>11. CASE check = "session-invalidation"
  <2>1. /\ r.with[1] \in {"before", "logout", "after"} /\ Authenticated(s.ids) # {}
        /\ r.by = s.ids[Min(Authenticated(s.ids))].name
        /\ r \in LogoutRequests(r.by) /\ Asked(check, s) = LogoutRequests(r.by)
    <3>1. Asked(check, s) = IF Authenticated(s.ids) = {} THEN {}
                            ELSE LogoutRequests(s.ids[Min(Authenticated(s.ids))].name)
      BY <1>11 DEF Asked
    <3>2. /\ r.by = s.ids[Min(Authenticated(s.ids))].name
          /\ r.with[1] \in {"before", "logout", "after"}
      BY <1>11, LookedAsOne
    <3> QED
      BY <3>1, <3>2
  <2>2. \A t \in DOMAIN answers : answers[t].status = 200 /\ answers[t].status # Raised
    BY <1>1, <1>2, <1>11 DEF Loud
  <2>3. Seen(answers, "after") = {}
    BY <1>11 DEF Seen, Telling, Comparing
  <2>4. \A t \in DOMAIN answers : t.with[1] = "before" => Seen(answers, "before") # {}
    BY <2>2 DEF Seen, Success
  <2>5. CASE r.with[1] = "before"
    <3>1. Seen(answers, "before") # {}
      BY <1>11, <2>5 DEF SkipsBy, InvalidationSkips
    <3>2. \E t \in DOMAIN answers : t.with[1] = "before"
      BY <3>1 DEF Seen
    <3> QED
      BY <1>11, <2>5, <3>2 DEF Reached
  <2>6. CASE r.with[1] = "logout"
    <3>1. Seen(answers, "before") = {}
      BY <1>11, <2>3, <2>6 DEF SkipsBy, InvalidationSkips
    <3>2. PICK p : p \in Range(Paths)
      BY SomethingToTry
    <3>3. As(r.by, Before(p)) \in RestsOn(check, s, r) /\ As(r.by, Before(p)).with[1] = "before"
      <4>1. RestsOn(check, s, r) = {As(r.by, Before(x)) : x \in Range(Paths)}
        BY <1>11, <2>6 DEF RestsOn, Comparing
      <4>2. As(r.by, Before(p)).with[1] = "before"
        BY DEF As, Before, Get, Request
      <4> QED
        BY <3>2, <4>1, <4>2
    <3>4. As(r.by, Before(p)) \in Asked(check, s)
      BY <2>1, <3>2 DEF LogoutRequests
    <3>5. Reached(check, answers, As(r.by, Before(p)))
      BY <1>3, <3>3, <3>4
    <3> QED
      BY <1>11, <2>4, <3>1, <3>3, <3>5 DEF Reached
  <2>7. CASE r.with[1] = "after"
    <3> DEFINE l == As(r.by, Logout(r.with[2]))
    <3>1. ~ Returned(answers, l)
      BY <1>11, <2>3, <2>7 DEF SkipsBy, InvalidationSkips
    <3>2. l \in RestsOn(check, s, r)
      <4>1. RestsOn(check, s, r) = {As(r.by, Before(x)) : x \in Range(Paths)} \cup {l}
        BY <1>11, <2>7 DEF RestsOn, Comparing
      <4> QED
        BY <4>1
    <3>3. l \in Asked(check, s) /\ l.with[1] = "logout"
      <4> DEFINE n == r.by
      <4> HIDE DEF n
      <4>1. \/ \E p \in Range(Paths) : r = As(n, Before(p))
            \/ \E x \in Range(Logouts) : r = As(n, Logout(x))
            \/ \E p \in Range(Paths), x \in Range(Logouts) : r = As(n, After(p, x))
        BY <2>1, Zenon DEF LogoutRequests, n
      <4>2. \A p, x : /\ As(n, Before(p)).with[1] = "before" /\ As(n, Logout(x)).with[1] = "logout"
                      /\ As(n, After(p, x)).with[2] = x
        BY DEF As, Before, Logout, After, Get, Request
      <4>3. r.with[2] \in Range(Logouts)
        BY <2>7, <4>1, <4>2
      <4>4. l \in LogoutRequests(r.by)
        BY <4>3, Zenon DEF LogoutRequests
      <4> QED
        BY <2>1, <4>2, <4>4 DEF n
    <3> HIDE DEF l
    <3>4. l \in DOMAIN answers
      <4>1. Reached(check, answers, l)
        BY <1>3, <3>2, <3>3
      <4> QED
        BY <1>11, <3>3, <4>1 DEF Reached
    <3> QED
      BY <2>2, <3>1, <3>4 DEF Returned
  <2> QED
    BY <2>1, <2>5, <2>6, <2>7
<1>12. ASSUME check \in FromHome, r # Home
       PROVE  /\ Home \in DOMAIN answers
              /\ check \in {"xss-reflected", "ssrf", "source-map-exposure"}
              /\ answers[Home] = Page({"link", "form", "script"})
  <2>1. Home \in DOMAIN answers
    BY <1>4, <1>a, <1>12
  <2>2. check \notin {"information-disclosure", "open-redirect-indicator", "session-cookie"}
    BY <2>1 DEF Telling, Comparing
  <2>3. check \in {"xss-reflected", "ssrf", "source-map-exposure"}
    BY <1>12, <2>2 DEF FromHome
  <2> QED
    BY <1>1, <2>1, <2>3 DEF Loud
<1>13. ASSUME check \in FromHome, r # Home
       PROVE  /\ Returned(answers, Home) /\ Marked(answers, Home, "link")
              /\ Marked(answers, Home, "form") /\ Marked(answers, Home, "script")
  <2>1. Home \in DOMAIN answers /\ answers[Home] = Page({"link", "form", "script"})
    BY <1>12, <1>13
  <2>2. answers[Home].status # Raised /\ answers[Home].marks = {"link", "form", "script"}
    BY <2>1 DEF Page, Answer, Raised
  <2> QED
    BY <2>1, <2>2 DEF Returned, Marked
<1>14. CASE check \in FromHome
  <2>1. r # Home
    <3>1. ASSUME r = Home PROVE ~ SkipsBy(check, s, answers, r)
      <4>1. Home.at # "script" /\ \A n : Home \notin {Source(n), SourceMap(n)}
        BY DEF Source, SourceMap, Home, Get, Request
      <4> QED
        BY <1>14, <3>1, <4>1 DEF SkipsBy, XssSkips, SsrfSkips, DisclosureSkips, MapsSkips,
                                 RedirectSkips, CookieSkips, NoHome, FromHome
    <3> QED
      BY <3>1
  <2>2. CASE check = "source-map-exposure"
    <3>1. 1 \in TagsOf(answers)
      BY <1>13, <1>14, <2>1 DEF TagsOf, Tags
    <3>2. PICK n \in Tags \ TagsOf(answers) : r \in {Source(n), SourceMap(n)}
      BY <1>13, <1>14, <2>1, <2>2 DEF SkipsBy, MapsSkips, NoHome
    <3>3. r \in OfOtherTags
      BY <3>1, <3>2 DEF OfOtherTags
    <3> QED
      BY <2>2, <3>3 DEF Reached
  <2>3. CASE check # "source-map-exposure"
    BY <1>12, <1>13, <1>14, <2>1, <2>3 DEF SkipsBy, XssSkips, SsrfSkips, NoHome
  <2> QED
    BY <2>2, <2>3
<1> QED
  BY <1>7, <1>8, <1>9, <1>10, <1>11, <1>14 DEF SkipsBy, FromHome

\* All requests before the n-th are reached.
ReachedBefore(check, s, answers, n) ==
    \A j \in DOMAIN RequestsOf(check, s) : j < n => Reached(check, answers, RequestsOf(check, s)[j])

\* Those that are left out go with them.
LEMMA ReachedUpTo ==
    ASSUME NEW check \in CheckNames, NEW s, IsList(s.ps), NEW answers, NEW bad,
           DOMAIN answers \subseteq Asked(check, s),
           bad, Ordinary(check, s, bad, answers, {}),
           NEW n \in Nat, NEW m \in Nat, ReachedBefore(check, s, answers, n),
           \A j \in DOMAIN RequestsOf(check, s) :
              j >= n /\ j < m => SkipsBy(check, s, answers, RequestsOf(check, s)[j])
    PROVE  ReachedBefore(check, s, answers, m)
<1> DEFINE q == RequestsOf(check, s)
           T == {j \in DOMAIN q : j < m /\ ~ Reached(check, answers, q[j])}
<1>1. IsList(q) /\ Range(q) = Asked(check, s)
  BY RequestsAsked
<1> HIDE DEF q
<1>2. DOMAIN q \subseteq Nat
  BY <1>1 DEF IsList
<1> SUFFICES ASSUME T # {}
             PROVE  FALSE
  BY DEF ReachedBefore, q
<1>3. PICK j \in T : \A k \in T : j <= k
  BY <1>2, LeastNumber
<1>4. /\ j \in DOMAIN q /\ j \in Nat /\ j < m /\ ~ Reached(check, answers, q[j])
      /\ \A k \in DOMAIN q : k < j => Reached(check, answers, q[k])
  <2>1. j \in DOMAIN q /\ j \in Nat /\ j < m /\ ~ Reached(check, answers, q[j])
    BY <1>2, <1>3
  <2>2. ASSUME NEW k \in DOMAIN q, k < j, ~ Reached(check, answers, q[k])
        PROVE  FALSE
    <3>1. k \in Nat /\ k < m
      BY <1>2, <2>1, <2>2
    <3>2. k \in T
      BY <2>2, <3>1
    <3> QED
      BY <1>3, <2>1, <2>2, <3>1, <3>2
  <2> QED
    BY <2>1, <2>2
<1>5. j >= n
  BY <1>4 DEF ReachedBefore, q
<1>6. SkipsBy(check, s, answers, q[j]) /\ q[j] \in Asked(check, s)
  BY <1>1, <1>4, <1>5 DEF q, Range
<1>7. \A t \in Needed(check, s, q[j]) : Reached(check, answers, t)
  BY <1>4, NeededBefore DEF q
<1>8. Reached(check, answers, q[j])
  BY <1>6, <1>7, SkippedIsReached
<1> QED
  BY <1>4, <1>8

\* While only ordinary answers come from a target with the flaw, all requests
\* so far are reached.
AllReached ==
    flawed /\ stage = "sending" /\ odd = 0 => ReachedBefore(Check, setting, log, next)

\* The log maps requests to answers.
LogIsMap == log = [r \in DOMAIN log |-> log[r]]

LEMMA MapStep ==
    ASSUME LogIsMap, [Next]_vars
    PROVE  LogIsMap'
<1>1. log' = log \/ log' = Nothing \/ \E r, a : log' = [q \in DOMAIN log \cup {r} |-> IF q = r THEN a ELSE log[q]]
  BY DEF Next, Decline, Enter, AskGate, Send, Close, Halted, Advance, vars
<1>2. LogIsMap' = (log' = [r \in DOMAIN log' |-> log'[r]])
  BY DEF LogIsMap
<1>3. CASE log' = log
  BY <1>2, <1>3 DEF LogIsMap
<1>4. CASE log' = Nothing
  BY <1>2, <1>4 DEF Nothing
<1>5. CASE \E r, a : log' = [q \in DOMAIN log \cup {r} |-> IF q = r THEN a ELSE log[q]]
  BY <1>2, <1>5
<1> QED
  BY <1>1, <1>3, <1>4, <1>5

LEMMA ReachedStep ==
    ASSUME OrdinaryInv, AllReached, [Next]_vars
    PROVE  AllReached'
<1>1. UNCHANGED <<setting, flawed, registry>>
  BY DEF Next, Decline, Enter, AskGate, Send, Close, Halted, vars, launchVars
<1>2. SendingInv /\ Undisturbed
  BY DEF OrdinaryInv, OnceInv, SinglesInv
<1>3. CASE stage' # "sending"
  BY <1>3 DEF AllReached
<1>4. CASE stage = "asking" /\ stage' = "sending" /\ UNCHANGED <<turn, log, next>>
  <2>1. Check' \in CheckNames /\ IsList(setting'.ps)
    <3>1. Check \in CheckNames /\ IsList(setting.ps)
      BY <1>2, SettingLists DEF SendingInv, TypeInv, ConsentInv, TurnOK, Check
    <3>2. Check' = Check
      BY <1>1, <1>4 DEF Check
    <3> QED
      BY <1>1, <3>1, <3>2
  <2>2. next' = 1
    BY <1>2, <1>4 DEF SendingInv
  <2>3. IsList(RequestsOf(Check', setting'))
    BY <2>1, RequestsAsked
  <2>4. \A j \in DOMAIN RequestsOf(Check', setting') : ~ (j < 1)
    BY <2>3 DEF IsList
  <2> QED
    BY <2>2, <2>4 DEF AllReached, ReachedBefore
<1>5. CASE UNCHANGED vars
  <2>1. UNCHANGED <<stage, log, next, odd>> /\ Check' = Check
    BY <1>5 DEF vars, launchVars, Check
  <2> QED
    BY <1>1, <2>1 DEF AllReached
<1>6. CASE Send
  <2>1. next \in Nat \ {0} /\ odd \in Nat /\ TypeInv
    BY <1>2 DEF SendingInv, TypeInv, TypeOK
  <2>2. PICK i, r, answer : Exchanges(i, r, answer)
    BY <1>6, <2>1, SendExchanges DEF TypeInv
  <2>3. /\ i \in DOMAIN RequestsOf(Check, setting) /\ next' = i + 1 /\ stage = "sending"
        /\ r = RequestsOf(Check, setting)[i]
        /\ \A j \in DOMAIN RequestsOf(Check, setting) :
              j >= next /\ j < i => SkipsBy(Check, setting, log, RequestsOf(Check, setting)[j])
        /\ log' = Extended(log, r, answer) /\ Check' = Check
        /\ odd' \in {odd, odd + 1}
    BY <1>1, <2>2 DEF Exchanges, Extended, Check
  <2> SUFFICES ASSUME flawed, odd' = 0
               PROVE  ReachedBefore(Check, setting, log', next')
    BY <1>1, <2>3 DEF AllReached
  <2>4. odd = 0
    BY <2>1, <2>3
  <2>5. /\ Check \in CheckNames /\ IsList(setting.ps)
        /\ IsList(RequestsOf(Check, setting))
    <3>1. Check \in CheckNames /\ IsList(setting.ps)
      BY <2>1, SettingLists DEF TypeInv, ConsentInv, TurnOK, Check
    <3> QED
      BY <3>1, RequestsAsked
  <2>6. DOMAIN log \subseteq Asked(Check, setting) /\ Ordinary(Check, setting, flawed, log, {})
    BY <1>2, <2>3, <2>4 DEF SendingInv, Sound, Undisturbed
  <2>7. i \in Nat /\ next \in Nat /\ DOMAIN RequestsOf(Check, setting) \subseteq Nat
    BY <2>1, <2>3, <2>5 DEF IsList
  <2>8. ReachedBefore(Check, setting, log, i)
    <3>1. ReachedBefore(Check, setting, log, next)
      BY <2>3, <2>4 DEF AllReached
    <3> QED
      BY <2>3, <2>5, <2>6, <2>7, <3>1, ReachedUpTo
  <2>9. DOMAIN log' = DOMAIN log \cup {r}
    BY <2>3 DEF Extended
  <2>10. ASSUME NEW j \in DOMAIN RequestsOf(Check, setting), j < i + 1
         PROVE  Reached(Check, log', RequestsOf(Check, setting)[j])
    <3>1. CASE j = i
      BY <2>3, <2>9, <3>1 DEF Reached
    <3>2. CASE j < i
      <4>1. Reached(Check, log, RequestsOf(Check, setting)[j])
        BY <2>8, <3>2 DEF ReachedBefore
      <4> QED
        BY <2>9, <4>1 DEF Reached
    <3> QED
      BY <2>7, <2>10, <3>1, <3>2
  <2> QED
    BY <2>3, <2>10 DEF ReachedBefore
<1>7. CASE Enter
  BY <1>4, <1>7 DEF Enter
<1>8. CASE AskGate
  BY <1>3, <1>4, <1>8 DEF AskGate, Advance
<1> QED
  BY <1>3, <1>5, <1>6, <1>7, <1>8 DEF Next, Decline, Close, Halted, Advance

\* Whatever a check is asked for, an answer to some request would tell.
LEMMA TellingIsAsked ==
    ASSUME NEW check \in CheckNames, check # "plugin", NEW s, IsList(s.ps),
           Asked(check, s) # {}, check = "bola-idor" => Len(s.ps) >= 2
    PROVE  \E t \in Asked(check, s) :
              /\ Telling(check, t)
              /\ check = "session-invalidation" => t.with[1] # "before"
              /\ check = "source-map-exposure" => t \notin OfOtherTags
<1>1. CASE check \in Comparing
  <2> DEFINE t == Probe(Params[1], Payloads[1])
  <2>1. t \in Asked(check, s)
    <3>1. \E samples : Asked(check, s) = Tries(samples)
      BY <1>1, AskedByCheck DEF Comparing
    <3> QED
      BY <3>1, SomethingToTry DEF Tries
  <2>2. t.with[1] = "probe"
    BY ProbingFields
  <2> QED
    BY <1>1, <2>1, <2>2 DEF Telling, Comparing
<1>2. CASE check = "xss-reflected"
  <2> DEFINE t == Get(Linked, <<"canary">>)
  <2>1. t \in Asked(check, s)
    BY <1>2 DEF Asked, Comparing
  <2>2. t # Home
    BY DEF Get, Request, Home
  <2> QED
    BY <1>2, <2>1, <2>2 DEF Telling, Comparing
<1>3. CASE check = "ssrf"
  <2> DEFINE t == Callback("GET", Params[1])
  <2>1. t \in Asked(check, s)
    BY <1>3, SomethingToTry DEF Asked, Comparing
  <2>2. t # Home
    BY DEF Callback, Get, Request, Home
  <2> QED
    BY <1>3, <2>1, <2>2 DEF Telling, Comparing
<1>4. CASE check = "bola-idor"
  <2>1. PICK x : x \in Range(BolaResources)
    BY <1>4 DEF Asked
  <2>2. 2 \in DOMAIN s.ps
    BY <1>4 DEF IsList
  <2>3. SentAs(s.ps, 2, x) \in Asked(check, s)
    BY <1>4, <2>1, <2>2 DEF Asked
  <2>4. SentAs(s.ps, 2, x).with[2] # 1
    BY DEF SentAs, As, Get, Request
  <2> QED
    BY <1>4, <2>3, <2>4 DEF Telling, Comparing
<1>5. CASE check = "session-invalidation"
  <2> DEFINE n == s.ids[Min(Authenticated(s.ids))].name
             t == As(n, After(Paths[1], Logouts[1]))
  <2>1. Asked(check, s) = LogoutRequests(n)
    BY <1>5 DEF Asked
  <2> HIDE DEF n
  <2>2. t \in LogoutRequests(n)
    BY SomethingToTry DEF LogoutRequests
  <2>3. t.with[1] = "after"
    BY DEF As, After, Get, Request
  <2> QED
    BY <1>5, <2>1, <2>2, <2>3 DEF Telling, Comparing
<1>6. CASE check = "cors-policy"
  <2>1. Preflight(Paths[1]) \in Asked(check, s)
    BY <1>6, SomethingToTry DEF Asked, PathRequests
  <2>2. Preflight(Paths[1]).method = "OPTIONS"
    BY DEF Preflight, Request
  <2> QED
    BY <1>6, <2>1, <2>2 DEF Telling, Comparing
<1>7. CASE check = "http-methods"
  <2>1. Direct("DELETE", Paths[1]) \in Asked(check, s)
    BY <1>7, SomethingToTry DEF Asked
  <2>2. Direct("DELETE", Paths[1]).method = "DELETE"
    BY DEF Direct, Request
  <2> QED
    BY <1>7, <2>1, <2>2 DEF Telling, Comparing
<1>8. CASE check = "source-map-exposure"
  <2>1. Source(1) \in Asked(check, s)
    BY <1>8 DEF Asked, MapRequests, Tags
  <2>2. Source(1) \notin OfOtherTags
    BY DEF OfOtherTags, Source, SourceMap, Get, Request
  <2> QED
    BY <1>8, <2>1, <2>2 DEF Telling, Comparing
<1>9. CASE check = "graphql"
  <2>1. Introspection(Paths[1]) \in Asked(check, s)
    BY <1>9, SomethingToTry DEF Asked, PathRequests
  <2>2. Introspection(Paths[1]).with = <<"__schema">>
    BY DEF Introspection, Request
  <2> QED
    BY <1>9, <2>1, <2>2 DEF Telling, Comparing
<1>10. CASE check \in {"security-headers", "information-disclosure", "open-redirect-indicator",
                       "session-cookie"}
  <2>1. check \in FromHome => Home \in Asked(check, s)
    BY HomeIsFirst, RequestsAsked DEF Range
  <2>2. check = "security-headers" => Home \in Asked(check, s)
    BY DEF Asked, Comparing
  <2>3. Telling(check, Home)
    BY <1>10 DEF Telling, Comparing
  <2> QED
    BY <1>10, <2>1, <2>2, <2>3 DEF FromHome
<1>11. CASE check \in {"bfla", "bfla-behavior", "mass-assignment"}
  BY <1>11 DEF Telling, Comparing
<1> QED
  BY <1>1, <1>2, <1>3, <1>4, <1>5, <1>6, <1>7, <1>8, <1>9, <1>10, <1>11
     DEF CheckNames, Passive, Gated, Ungated, Comparing

\* A check that is through with ordinary answers of a target with the flaw has
\* a candidate that lasts.
LEMMA FlawAtClose ==
    ASSUME OrdinaryInv, AllReached, LogIsMap, Close, flawed, odd = 0, log # Nothing,
           Check # "plugin"
    PROVE  \E c \in CandidatesOf(Check, setting, log) : Reported(Check, log, c)
<1>1. SendingInv /\ Undisturbed /\ TypeInv /\ stage = "sending" /\ Left = {}
  BY DEF OrdinaryInv, OnceInv, SinglesInv, SendingInv, Close
<1>2. Check \in CheckNames /\ IsList(setting.ps)
  BY <1>1, SettingLists DEF TypeInv, ConsentInv, TurnOK, Check
<1> DEFINE q == RequestsOf(Check, setting)
<1>3. IsList(q) /\ Range(q) = Asked(Check, setting)
  BY <1>2, RequestsAsked
<1>4. /\ DOMAIN log \subseteq Asked(Check, setting) /\ Ordinary(Check, setting, flawed, log, {})
      /\ \A r \in DOMAIN log : Grounds(Check, setting, log, r)
  BY <1>1 DEF SendingInv, Sound, Undisturbed
<1>5. next \in Nat /\ Len(q) \in Nat /\ DOMAIN q = 1..Len(q)
  BY <1>1, <1>3 DEF TypeInv, TypeOK, IsList
<1>6. \A j \in DOMAIN q : j >= next /\ j < Len(q) + 1 => SkipsBy(Check, setting, log, q[j])
  <2>1. \A j \in next..Len(q) : SkipsBy(Check, setting, log, q[j])
    BY <1>1 DEF Left
  <2> HIDE DEF q
  <2> QED
    BY <1>5, <2>1
<1>7. ReachedBefore(Check, setting, log, Len(q) + 1)
  <2>1. ReachedBefore(Check, setting, log, next)
    BY <1>1 DEF AllReached
  <2>2. Len(q) + 1 \in Nat
    BY <1>5
  <2> QED
    BY <1>2, <1>4, <1>5, <1>6, <2>1, <2>2, ReachedUpTo
<1>8. PICK t \in Asked(Check, setting) :
         /\ Telling(Check, t)
         /\ Check = "session-invalidation" => t.with[1] # "before"
         /\ Check = "source-map-exposure" => t \notin OfOtherTags
  <2>1. Asked(Check, setting) # {}
    <3>1. DOMAIN log # {}
      BY DEF LogIsMap, Nothing
    <3> QED
      BY <1>4, <3>1
  <2>2. Check = "bola-idor" => Len(setting.ps) >= 2
    <3>1. AllowedBy(Check, setting)
      BY <1>1 DEF TypeInv, ConsentInv, SendingIsAllowed
    <3> QED
      BY <3>1 DEF AllowedBy, BolaAllowed, Passive
  <2> QED
    BY <1>2, <2>1, <2>2, TellingIsAsked
<1>9. Reached(Check, log, t)
  <2>1. PICK j \in DOMAIN q : q[j] = t
    BY <1>3 DEF Range
  <2>2. j < Len(q) + 1
    BY <1>5, <2>1
  <2> QED
    BY <1>7, <2>1, <2>2 DEF ReachedBefore
<1>10. \E x \in DOMAIN log : Telling(Check, x)
  BY <1>8, <1>9 DEF Reached
<1> HIDE DEF q
<1> QED
  BY <1>2, <1>4, <1>10, TellingIsReported

\* A check that meets only ordinary answers of a target with the flaw reports
\* it, whatever it is given to try: no early return, request that is left out
\* or verdict loses the flaw on the way (the discover() and validate() of all checks).
THEOREM FlawsAreFound == Spec => []FlawIsFound
<1> DEFINE Inv == OrdinaryInv /\ AllReached /\ LogIsMap /\ FlawIsFound
<1>1. Init => Inv
  BY OrdinaryStarts DEF Init, AllReached, LogIsMap, Nothing, FlawIsFound
<1>2. Inv /\ [Next]_vars => Inv'
  <2> SUFFICES ASSUME Inv, [Next]_vars
               PROVE  FlawIsFound'
    BY OrdinaryStep, ReachedStep, MapStep
  <2>1. flawed' = flawed /\ findings \subseteq findings'
    BY DEF Next, Decline, Enter, AskGate, Send, Close, Halted, vars, launchVars
  <2> SUFFICES ASSUME flawed, NEW k \in clear' \ {"plugin"}
               PROVE  \E f \in findings' : f.check = k
    BY <2>1 DEF FlawIsFound
  <2>2. CASE k \in clear
    BY <2>1, <2>2 DEF FlawIsFound
  <2>3. CASE k \notin clear
    <3>1. Close /\ pass = setting.passes /\ odd = 0 /\ log # Nothing /\ k = Check
      BY <2>3 DEF Next, Decline, Enter, AskGate, Send, Close, Halted, vars
    <3>2. PICK c \in CandidatesOf(Check, setting, log) : Reported(Check, log, c)
      BY <3>1, FlawAtClose
    <3>3. FindingOf(c) \in findings'
      BY <3>1, <3>2 DEF Close, Reported
    <3>4. FindingOf(c).check = Check
      BY DEF FindingOf
    <3> QED
      BY <3>1, <3>3, <3>4
  <2> QED
    BY <2>2, <2>3
<1>3. Inv => FlawIsFound
  OBVIOUS
<1> QED
  BY <1>1, <1>2, <1>3, PTL DEF Spec
=============================================================================
