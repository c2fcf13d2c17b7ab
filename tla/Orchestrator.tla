---------------------------- MODULE Orchestrator ----------------------------
(***************************************************************************)
(* core/orchestrator.py: one run of the pipeline over the registered       *)
(* checks, with the event bus (core/event_bus.py), the lifecycle           *)
(* (core/lifecycle.py) and the deduplicator it drives.                     *)
(*                                                                         *)
(* A check is known by its position in the registry; what its hooks return *)
(* or raise is free at every call, so the three calls of discover() need   *)
(* not agree.  An action is what run() does between two awaits that may    *)
(* suspend or raise.  A subscriber may raise while an event is delivered   *)
(* (at most MaxRaises times), and the task may be cancelled while it is    *)
(* suspended.                                                              *)
(***************************************************************************)
EXTENDS Dedup, Lifecycle

CONSTANTS
    NumChecks,       \* the number of registered checks
    Candidates,      \* Candidates[c]: what check c can ever find
    Profile,         \* Profile[x]: [fingerprint, rootCause, severity, endpoint] of
                     \* the finding made of candidate x
    Outlooks,        \* the confidences validations report
    Items,           \* Items[x]: the evidence candidate x can ever have
    Claims,          \* Claims[x]: the evidence ids assess() may itself put into
                     \* the finding of candidate x, stored or not
    Prepopulated,    \* findings the caller put into the context
    MaxRaises,       \* bound on subscribers that raise
    Cancellable      \* may the task be cancelled

ASSUME CountsAssumption == NumChecks \in Nat /\ MaxRaises \in Nat
ASSUME CancellableAssumption == Cancellable \in BOOLEAN
ASSUME OutlooksAssumption == Outlooks \subseteq Confidences

AllCandidates == UNION {Candidates[c] : c \in 1..NumChecks}

ASSUME ProfileAssumption ==
    \A x \in AllCandidates :
        /\ Profile[x].fingerprint \in Fingerprints \cup {NoFingerprint}
        /\ Profile[x].rootCause \in RootCauses \cup {NoRootCause}

\* The caller's findings have ids of their own, and no evidence in the store
\* of this run.
ASSUME PrepopulatedAssumption ==
    \A f \in Prepopulated : f.id \notin AllCandidates /\ f.evidence = {}

VARIABLES
    state,      \* ScanContext.state
    findings,   \* ScanContext.findings
    event,      \* the last event in the history of the bus
    pc,         \* where run() is
    turn,       \* the check it is busy with
    todo,       \* what is left of the list it iterates over
    current,    \* the candidate being validated
    outcome,    \* and the outcome of its validation
    gathered,   \* the evidence of the candidate
    pending,    \* the part of it that is not stored yet
    store,      \* the evidence store
    dedup,      \* the deduplicator
    assessed,   \* history: every finding as the checks' assess() returned it
    raises,     \* how many deliveries raised
    cancelled   \* was the task cancelled

candidateVars == <<current, outcome, gathered, pending>>
workVars == <<turn, todo, candidateVars>>
resultVars == <<findings, store, dedup, assessed>>
vars == <<state, event, pc, workVars, resultVars, raises, cancelled>>

Outcomes == {"CONFIRMED", "LIKELY", "INCONCLUSIVE", "FALSE_POSITIVE"}

Silence == [type |-> "NONE", source |-> 0]
NoCandidate == "none"

Init ==
    /\ state = "INITIALIZED"
    /\ findings = Prepopulated
    /\ event = Silence
    /\ pc = "idle"
    /\ turn = 0
    /\ todo = {}
    /\ current = NoCandidate
    /\ outcome = "none"
    /\ gathered = {}
    /\ pending = {}
    /\ store = {}
    /\ dedup = Empty
    /\ assessed = {}
    /\ raises = 0
    /\ cancelled = FALSE

\* ScanContext.transition: an illegal move raises; TLC reports it as a
\* deadlock, for no run ever attempts one.
Transition(target) == target \in Allowed[state] /\ state' = target

\* EventBus.publish: the event is in the history before it is delivered, and
\* a subscriber that raises makes publish raise.
Publish(type, source, next, handler) ==
    /\ event' = [type |-> type, source |-> source]
    /\ \/ pc' = next /\ UNCHANGED raises
       \/ /\ raises < MaxRaises
          /\ raises' = raises + 1
          /\ pc' = handler

-----------------------------------------------------------------------------
(* run(): the opening, outside its try block, and the discovery phase.     *)

Start ==
    /\ pc = "idle"
    /\ Publish("SCAN_STARTED", 0, "started", "raised")
    /\ UNCHANGED <<state, workVars, resultVars, cancelled>>

BeginDiscovery ==
    /\ pc = "started"
    /\ Transition("DISCOVERING")
    /\ Publish("DISCOVERY_STARTED", 0, "mapping", "failing")
    /\ UNCHANGED <<workVars, resultVars, cancelled>>

\* The application model is built or not: an error is swallowed, and the
\* publish that would report it is never awaited, so it publishes nothing.
BuildModel ==
    /\ pc = "mapping"
    /\ pc' = "discovering"
    /\ turn' = 1
    /\ UNCHANGED <<state, event, todo, candidateVars, resultVars, raises, cancelled>>

\* Faulty variant: the loop over the registry runs past its end.
DiscoverPastEnd ==
    /\ pc = "discovering" /\ turn <= NumChecks + 1
    /\ turn' = turn + 1
    /\ UNCHANGED <<state, event, pc, todo, candidateVars, resultVars, raises, cancelled>>

\* The first discover() of a check: its result is thrown away.
Discover ==
    /\ pc = "discovering" /\ turn <= NumChecks
    /\ turn' = turn + 1
    /\ UNCHANGED <<state, event, pc, todo, candidateVars, resultVars, raises, cancelled>>

EndDiscovery ==
    /\ pc = "discovering" /\ turn > NumChecks
    /\ Publish("DISCOVERY_ENDED", 0, "discovered", "failing")
    /\ UNCHANGED <<state, workVars, resultVars, cancelled>>

CompleteDiscovery ==
    /\ pc = "discovered"
    /\ Transition("DISCOVERY_COMPLETE")
    /\ pc' = "opening_checks"
    /\ UNCHANGED <<event, workVars, resultVars, raises, cancelled>>

-----------------------------------------------------------------------------
(* _check_phase: every check announces its candidates.                     *)

BeginChecks ==
    /\ pc = "opening_checks"
    /\ Transition("CHECKING")
    /\ pc' = "check"
    /\ turn' = 1
    /\ UNCHANGED <<event, todo, candidateVars, resultVars, raises, cancelled>>

StartCheck ==
    /\ pc = "check" /\ turn <= NumChecks
    /\ Publish("CHECK_STARTED", turn, "checking", "failing")
    /\ UNCHANGED <<state, workVars, resultVars, cancelled>>

\* The second discover().
Detect ==
    /\ pc = "checking"
    /\ todo' \in SUBSET Candidates[turn]
    /\ pc' = "detecting"
    /\ UNCHANGED <<state, event, turn, candidateVars, resultVars, raises, cancelled>>

AnnounceCandidate ==
    /\ pc = "detecting"
    /\ \E x \in todo : todo' = todo \ {x}
    /\ Publish("FINDING_DETECTED", turn, "detecting", "failing")
    /\ UNCHANGED <<state, turn, candidateVars, resultVars, cancelled>>

\* Faulty variant: a check that found nothing is left without CHECK_ENDED.
EndCheckIfFound ==
    /\ pc = "detecting" /\ todo = {}
    /\ IF event.type = "CHECK_STARTED"
       THEN pc' = "check" /\ UNCHANGED <<event, raises>>
       ELSE Publish("CHECK_ENDED", turn, "check", "failing")
    /\ turn' = turn + 1
    /\ UNCHANGED <<state, todo, candidateVars, resultVars, cancelled>>

EndCheck ==
    /\ pc = "detecting" /\ todo = {}
    /\ Publish("CHECK_ENDED", turn, "check", "failing")
    /\ turn' = turn + 1
    /\ UNCHANGED <<state, todo, candidateVars, resultVars, cancelled>>

-----------------------------------------------------------------------------
(* _validate_phase: the findings already in the context are announced,     *)
(* then each check is asked once more and its candidates are validated.    *)

BeginValidation ==
    /\ pc = "check" /\ turn > NumChecks
    /\ Transition("VALIDATING")
    /\ pc' = "announcing"
    /\ turn' = 0
    /\ todo' = {f.id : f \in findings}
    /\ UNCHANGED <<event, candidateVars, resultVars, raises, cancelled>>

AnnouncePrepopulated ==
    /\ pc = "announcing"
    /\ \E x \in todo : todo' = todo \ {x}
    /\ Publish("VALIDATION_STARTED", 0, "announcing", "failing")
    /\ UNCHANGED <<state, turn, candidateVars, resultVars, cancelled>>

\* The list at hand is exhausted: the next check, if any, is due.
CheckIsOver == pc \in {"announcing", "candidates"} /\ todo = {}

\* The third discover().
Revisit ==
    /\ CheckIsOver /\ turn < NumChecks
    /\ turn' = turn + 1
    /\ todo' \in SUBSET Candidates[turn + 1]
    /\ pc' = "candidates"
    /\ UNCHANGED <<state, event, candidateVars, resultVars, raises, cancelled>>

StartValidation ==
    /\ pc = "candidates"
    /\ \E x \in todo : current' = x /\ todo' = todo \ {x}
    /\ Publish("VALIDATION_STARTED", turn, "validating", "failing")
    /\ UNCHANGED <<state, turn, outcome, gathered, pending, resultVars, cancelled>>

\* validate(); a check without it counts as LIKELY.
Validate ==
    /\ pc = "validating"
    /\ outcome' \in Outcomes
    /\ Publish("VALIDATION_ENDED", turn,
               IF outcome' = "FALSE_POSITIVE" THEN "candidates" ELSE "collecting", "failing")
    /\ UNCHANGED <<state, turn, todo, current, gathered, pending, resultVars, cancelled>>

\* The evidence of validate() and that of collect_evidence(), either of them
\* possibly none.
CollectEvidence ==
    /\ pc = "collecting"
    /\ gathered' \in SUBSET Items[current]
    /\ pending' = gathered'
    /\ pc' = "capturing"
    /\ UNCHANGED <<state, event, turn, todo, current, outcome, resultVars, raises, cancelled>>

\* Faulty variant: evidence is announced, and stored only if it is the
\* candidate's first.
CaptureFirst ==
    /\ pc = "capturing"
    /\ \E ev \in pending :
          /\ pending' = pending \ {ev}
          /\ store' = IF pending = gathered THEN store \cup {ev} ELSE store
    /\ Publish("EVIDENCE_CAPTURED", turn, "capturing", "failing")
    /\ UNCHANGED <<state, turn, todo, current, outcome, gathered, findings, dedup, assessed,
                   cancelled>>

\* An item is in the store before it is announced.
Capture ==
    /\ pc = "capturing"
    /\ \E ev \in pending : pending' = pending \ {ev} /\ store' = store \cup {ev}
    /\ Publish("EVIDENCE_CAPTURED", turn, "capturing", "failing")
    /\ UNCHANGED <<state, turn, todo, current, outcome, gathered, findings, dedup, assessed,
                   cancelled>>

\* assess() returned no finding: the evidence stays behind without one.
AssessNothing ==
    /\ pc = "capturing" /\ pending = {}
    /\ pc' = "candidates"
    /\ UNCHANGED <<state, event, workVars, resultVars, raises, cancelled>>

\* The finding of the current candidate, with the confidence and the status
\* of its validation.  The ids the hook put into it (own) stay in it beside
\* those of the evidence that was gathered.
FindingWith(confidence, own) ==
    [id |-> current, fingerprint |-> Profile[current].fingerprint,
     rootCause |-> Profile[current].rootCause, severity |-> Profile[current].severity,
     confidence |-> confidence, endpoint |-> Profile[current].endpoint,
     evidence |-> own \cup gathered, size |-> 1, affected |-> {}, status |-> outcome]

\* Faulty variant: a finding that the deduplicator merged into another one is
\* taken to be in the list already.
RegisterUnmerged(list, merged, f) == IF merged = f THEN list \cup {f} ELSE list

\* Faulty variant: two findings are taken for the same by their fingerprints.
RegisterByFingerprint(list, merged, f) ==
    IF merged.fingerprint \in {g.fingerprint : g \in list} THEN list ELSE list \cup {merged}

\* The deduplicated finding is appended unless its id is there already; what
\* the list holds under that id is not replaced.
Register(list, merged, f) ==
    IF merged.id \in {g.id : g \in list} THEN list ELSE list \cup {merged}

Assess ==
    /\ pc = "capturing" /\ pending = {}
    /\ \E confidence \in Outlooks, own \in SUBSET Claims[current] :
          LET f == FindingWith(confidence, own)
          IN  /\ dedup' = After(dedup, f)
              /\ findings' = Register(findings, Merged(dedup, f), f)
              /\ assessed' = assessed \cup {[f EXCEPT !.evidence = own]}
    /\ \/ /\ outcome = "CONFIRMED"
          /\ Publish("FINDING_CONFIRMED", turn, "candidates", "failing")
       \/ /\ outcome # "CONFIRMED"
          /\ pc' = "candidates"
          /\ UNCHANGED <<event, raises>>
    /\ UNCHANGED <<state, workVars, store, cancelled>>

-----------------------------------------------------------------------------
(* _report_phase and the two ways out of run().                            *)

Report ==
    /\ CheckIsOver /\ turn = NumChecks
    /\ Transition("REPORTING")
    /\ Publish("REPORT_GENERATED", 0, "reported", "failing")
    /\ UNCHANGED <<workVars, resultVars, cancelled>>

Finish ==
    /\ pc = "reported"
    /\ Transition("COMPLETED")
    /\ Publish("SCAN_FINISHED", 0, "returned", "raised")
    /\ UNCHANGED <<workVars, resultVars, cancelled>>

\* The except clause; a subscriber that raises here ends it early.
Fail ==
    /\ pc = "failing"
    /\ Transition("FAILED")
    /\ Publish("ERROR", 0, "failed", "raised")
    /\ UNCHANGED <<workVars, resultVars, cancelled>>

\* Faulty variant: the except clause raises again without SCAN_FINISHED.
ReraiseAtOnce ==
    /\ pc = "failed"
    /\ pc' = "raised"
    /\ UNCHANGED <<state, event, workVars, resultVars, raises, cancelled>>

\* Whether this delivery raises or not, run() raises.
FinishFailed ==
    /\ pc = "failed"
    /\ event' = [type |-> "SCAN_FINISHED", source |-> 0]
    /\ pc' = "raised"
    /\ UNCHANGED <<state, workVars, resultVars, raises, cancelled>>

-----------------------------------------------------------------------------
(* What the checks and the event loop do.                                  *)

\* run() waits for a hook of a check.
InHook ==
    \/ pc = "discovering" /\ turn <= NumChecks
    \/ pc \in {"checking", "validating", "collecting"}
    \/ CheckIsOver /\ turn < NumChecks
    \/ pc = "capturing" /\ pending = {}

\* A hook raises something other than NotImplementedError: a request over the
\* budget, a URL out of scope, a defect of the check.
CheckRaises ==
    /\ InHook
    /\ pc' = "failing"
    /\ UNCHANGED <<state, event, workVars, resultVars, raises, cancelled>>

\* CancelledError is no Exception: it passes the except clause by.  No await
\* separates the transition that opens a phase from the first event in it.
Cancel ==
    /\ Cancellable
    /\ pc \notin {"idle", "opening_checks", "failing", "returned", "raised"}
    /\ pc = "check" => event.type = "CHECK_ENDED"
    /\ pc = "announcing" => event.type = "VALIDATION_STARTED" \/ todo = {}
    /\ cancelled' = TRUE
    /\ pc' = "raised"
    /\ UNCHANGED <<state, event, workVars, resultVars, raises>>

Step ==
    \/ Start \/ BeginDiscovery \/ BuildModel \/ Discover \/ EndDiscovery \/ CompleteDiscovery
    \/ BeginChecks \/ StartCheck \/ Detect \/ AnnounceCandidate \/ EndCheck
    \/ BeginValidation \/ AnnouncePrepopulated \/ Revisit \/ StartValidation
    \/ Validate \/ CollectEvidence \/ Capture \/ AssessNothing \/ Assess
    \/ Report \/ Finish \/ Fail \/ FinishFailed
    \/ CheckRaises

\* The run is over: nothing is left to do.
Done == pc \in {"returned", "raised"} /\ UNCHANGED vars

Next == Step \/ Cancel \/ Done

Spec == Init /\ [][Next]_vars

\* The event loop resumes the task when what it waits for is over; every hook
\* and every delivery ends.
FairSpec == Spec /\ WF_vars(Step)

-----------------------------------------------------------------------------
(* Properties.                                                             *)

\* Types.
TypeOK ==
    /\ state \in ScanStates
    /\ event.source \in 0..NumChecks
    /\ turn \in 0..(NumChecks + 1)
    /\ current \in AllCandidates \cup {NoCandidate}
    /\ outcome \in Outcomes \cup {"none"}
    /\ pending \subseteq gathered
    /\ store \subseteq UNION {Items[x] : x \in AllCandidates}
    /\ {f.id : f \in assessed} \subseteq AllCandidates
    /\ raises \in 0..MaxRaises
    /\ cancelled \in BOOLEAN

\* The events of a run and the states of its context follow the protocol:
\* every phase, check and candidate is opened and closed in order, in the
\* state that belongs to it, whatever the checks, the subscribers and a
\* cancellation do (run 145-207 and the phases it calls).
Protocol == INSTANCE ScanProtocol
FollowsProtocol == Protocol!Spec

\* The evidence ids that assess() returned in its findings; nothing compares
\* them with the store (384).
NamedByHooks == UNION {f.evidence : f \in assessed}

\* run() itself adds no reference that dangles: every evidence id a finding
\* refers to, in the list handed to the reports or in the deduplicator, is in
\* the evidence store or was named by a hook, also when a run is cut short
\* between the items of a candidate (345-384).
EvidenceGrounded ==
    \A f \in findings \cup All(dedup) : f.evidence \subseteq store \cup NamedByHooks

\* The list and the deduplicator do not drift apart: each entry of all() has
\* its id in the list, also after the head of a cluster changed (407-409).
DedupCovered == {f.id : f \in All(dedup)} \subseteq {f.id : f \in findings}

\* Every finding a check returned has one in the list that stands for it:
\* itself, one with its fingerprint, or one with its root cause (407-409).
EveryFindingRepresented ==
    \A f \in assessed : \E g \in findings :
        \/ g.id = f.id
        \/ ~ Unkeyed(f) /\ g.fingerprint = f.fingerprint
        \/ f.rootCause # NoRootCause /\ g.rootCause = f.rootCause

\* Once the run is in its try block it comes to an end with SCAN_FINISHED,
\* unless the task is cancelled or the delivery of ERROR raises (165-198).
TerminalSignal ==
    pc = "started" ~>
        /\ pc \in {"returned", "raised"}
        /\ \/ event.type = "SCAN_FINISHED"
           \/ event.type = "ERROR" /\ raises > 0
           \/ cancelled

\* The documented terminal signal: SCAN_FINISHED is published on the way out,
\* on success and on failure (orchestrator.py 153-155).
AlwaysFinished == pc \in {"returned", "raised"} => event.type = "SCAN_FINISHED"

\* The documented report: the list is deduplicated when REPORT_GENERATED is
\* published (orchestrator.py 272 and 427).
ReportIsDeduplicated ==
    event.type = "REPORT_GENERATED" =>
        \A f, g \in findings :
            ~ Unkeyed(f) /\ f.fingerprint = g.fingerprint => f = g
=============================================================================
