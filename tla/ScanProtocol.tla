---------------------------- MODULE ScanProtocol ----------------------------
(***************************************************************************)
(* What a subscriber of the event bus may rely on: the order of the events *)
(* of one scan and the lifecycle state each one is published in.  This is  *)
(* the abstract specification of the orchestrator, stated over the last    *)
(* event published and the state of the scan context.                      *)
(*                                                                         *)
(* The source of an event is the position of its check in the registry, or *)
(* 0 for the orchestrator.                                                 *)
(***************************************************************************)
EXTENDS Lifecycle, Naturals

CONSTANT NumChecks    \* the number of registered checks

VARIABLES event, state

Silence == [type |-> "NONE", source |-> 0]

\* Each check takes its turn once, in registry order, and its findings are
\* announced within its turn.
TurnFollows(e, f) ==
    CASE f.type = "CHECK_STARTED" ->
            e.type \in {"DISCOVERY_ENDED", "CHECK_ENDED"} /\ f.source = e.source + 1
      [] f.type \in {"FINDING_DETECTED", "CHECK_ENDED"} ->
            e.type \in {"CHECK_STARTED", "FINDING_DETECTED"} /\ f.source = e.source
      [] OTHER -> FALSE

ChecksAreOver(e) == e.type \in {"DISCOVERY_ENDED", "CHECK_ENDED"} /\ e.source = NumChecks

\* What may come right before the validation of the next candidate or before
\* the report: a candidate may be dropped after its validation, may be
\* assessed without evidence, and is not always confirmed.
CandidateIsOver(e) ==
    \/ e.type \in {"VALIDATION_ENDED", "EVIDENCE_CAPTURED", "FINDING_CONFIRMED"}
    \/ e.type = "VALIDATION_STARTED" /\ e.source = 0    \* a finding found in the context

\* Candidates are validated check by check, each one from its announcement
\* over its evidence to its confirmation.
ValidationFollows(e, f) ==
    CASE f.type = "VALIDATION_STARTED" ->
            ChecksAreOver(e) \/ (CandidateIsOver(e) /\ f.source >= e.source)
      [] f.type = "VALIDATION_ENDED" ->
            e.type = "VALIDATION_STARTED" /\ f.source = e.source /\ f.source # 0
      [] f.type \in {"EVIDENCE_CAPTURED", "FINDING_CONFIRMED"} ->
            e.type \in {"VALIDATION_ENDED", "EVIDENCE_CAPTURED"} /\ f.source = e.source
      [] OTHER -> FALSE

\* The orchestrator's own events.
PhaseFollows(e, f) ==
    /\ f.source = 0
    /\ CASE f.type = "SCAN_STARTED"      -> e.type = "NONE"
         [] f.type = "DISCOVERY_STARTED" -> e.type = "SCAN_STARTED"
         [] f.type = "DISCOVERY_ENDED"   -> e.type = "DISCOVERY_STARTED"
         [] f.type = "REPORT_GENERATED"  -> ChecksAreOver(e) \/ CandidateIsOver(e)
         [] f.type = "ERROR" ->
               e.type \notin {"NONE", "SCAN_STARTED", "ERROR", "SCAN_FINISHED"}
         [] f.type = "SCAN_FINISHED"     -> e.type \in {"REPORT_GENERATED", "ERROR"}
         [] OTHER -> FALSE

Follows(e, f) == TurnFollows(e, f) \/ ValidationFollows(e, f) \/ PhaseFollows(e, f)

\* The state an event is published in.
StateFor ==
    [SCAN_STARTED |-> "INITIALIZED",
     DISCOVERY_STARTED |-> "DISCOVERING", DISCOVERY_ENDED |-> "DISCOVERING",
     CHECK_STARTED |-> "CHECKING", FINDING_DETECTED |-> "CHECKING",
     CHECK_ENDED |-> "CHECKING",
     VALIDATION_STARTED |-> "VALIDATING", VALIDATION_ENDED |-> "VALIDATING",
     EVIDENCE_CAPTURED |-> "VALIDATING", FINDING_CONFIRMED |-> "VALIDATING",
     REPORT_GENERATED |-> "REPORTING", ERROR |-> "FAILED"]

EventTypes == DOMAIN StateFor \cup {"SCAN_FINISHED"}
Events == [type : EventTypes, source : 0..NumChecks]

Init == event = Silence /\ state = "INITIALIZED"

\* The state moves with the event that opens a phase, or ahead of it.
Moves == state' = state \/ state' \in Allowed[state]

Publish(f) ==
    /\ Follows(event, f)
    /\ event' = f
    /\ Moves
    /\ state' = IF f.type # "SCAN_FINISHED" THEN StateFor[f.type]
                ELSE IF event.type = "ERROR" THEN "FAILED" ELSE "COMPLETED"

Move == Moves /\ UNCHANGED event

Next == Move \/ \E f \in Events : Publish(f)

Spec == Init /\ [][Next]_<<event, state>>
=============================================================================
