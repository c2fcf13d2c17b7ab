------------------------- MODULE OrchestratorProofs -------------------------
(* What a run of the pipeline keeps, for every registry of checks, whatever *)
(* their hooks and the subscribers do.                                     *)
EXTENDS Orchestrator, DedupLemmas

-----------------------------------------------------------------------------
(* What add() does to a deduplicator whose entries are made of candidates. *)

AllItems == UNION {Items[x] : x \in AllCandidates}

AllClaims == UNION {Claims[x] : x \in AllCandidates}

\* The findings that candidates and merges of their findings can be.
Made ==
    [id : AllCandidates,
     fingerprint : Fingerprints \cup {NoFingerprint},
     rootCause : RootCauses \cup {NoRootCause},
     severity : {Profile[x].severity : x \in AllCandidates},
     confidence : Outlooks,
     endpoint : {Profile[x].endpoint : x \in AllCandidates},
     evidence : SUBSET (AllItems \cup AllClaims), size : Int,
     affected : SUBSET {Profile[x].endpoint : x \in AllCandidates},
     status : Outcomes]

\* A finding has the keys of the candidate it is named after.
Profiled(f) ==
    f.id \in AllCandidates =>
        /\ f.fingerprint = Profile[f.id].fingerprint
        /\ f.rootCause = Profile[f.id].rootCause

\* A finding of the deduplicator, with evidence that is in the set.
Fits(f, evidence) == f \in Made /\ Profiled(f) /\ f.evidence \subseteq evidence

\* A deduplicator of such findings, each of them under its key.
Sound(d, evidence) ==
    /\ d \in StoreOf(Made)
    /\ \A k \in Fingerprints :
          d.byFingerprint[k] # NoFinding =>
             Fits(d.byFingerprint[k], evidence) /\ d.byFingerprint[k].fingerprint = k
    /\ \A r \in RootCauses :
          d.byRootCause[r] # NoFinding =>
             /\ Fits(d.byRootCause[r], evidence) /\ d.byRootCause[r].rootCause = r
             /\ d.byRootCause[r].fingerprint \in Fingerprints
    /\ \A e \in d.noKey : Fits(e, evidence)

\* A merge by fingerprint fits if the two findings do.
LEMMA MergeTwoFits ==
    ASSUME NEW E, NEW a, NEW b, Fits(a, E), Fits(b, E), a.fingerprint = b.fingerprint
    PROVE  Fits(MergeTwo(a, b), E) /\ MergeTwo(a, b).fingerprint = b.fingerprint
BY DEF MergeTwo, Fits, Made, Profiled

\* So does a merge into a cluster.
LEMMA MergeClusterFits ==
    ASSUME NEW E, NEW head, NEW new, Fits(head, E), Fits(new, E),
           head.rootCause = new.rootCause
    PROVE  /\ Fits(MergeCluster(head, new), E)
           /\ MergeCluster(head, new).rootCause = new.rootCause
           /\ MergeCluster(head, new).fingerprint \in {head.fingerprint, new.fingerprint}
<1> DEFINE m == MergeCluster(head, new)
<1>1. /\ head \in Made /\ new \in Made /\ Profiled(head) /\ Profiled(new)
      /\ head.evidence \subseteq E /\ new.evidence \subseteq E
  BY DEF Fits
<1>2. PICK size \in Int :
         LET chosen == IF Outranks(new, head) THEN new ELSE head
         IN  m = [chosen EXCEPT !.evidence = head.evidence \cup new.evidence, !.size = size,
                                !.affected = head.affected \cup {head.endpoint, new.endpoint}]
  <2>1. head.size + 1 \in Int /\ 1 + 1 \in Int
    BY <1>1 DEF Made
  <2> QED
    BY <2>1 DEF MergeCluster
<1> HIDE DEF m
<1>3. /\ m \in Made
      /\ m.evidence = head.evidence \cup new.evidence
      /\ \/ m.id = head.id /\ m.fingerprint = head.fingerprint /\ m.rootCause = head.rootCause
         \/ m.id = new.id /\ m.fingerprint = new.fingerprint /\ m.rootCause = new.rootCause
  BY <1>1, <1>2 DEF Made
<1> QED
  BY <1>1, <1>3 DEF Fits, Profiled, m

\* An addition keeps the deduplicator sound; what it returns is the only new
\* entry and shares the id, the fingerprint or the root cause of what was added.
LEMMA AddFits ==
    ASSUME NEW E, NEW d, NEW f, Sound(d, E), Fits(f, E)
    PROVE  /\ Sound(After(d, f), E)
           /\ Fits(Merged(d, f), E)
           /\ All(After(d, f)) \subseteq All(d) \cup {Merged(d, f)}
           /\ \/ Merged(d, f) = f
              \/ ~ Unkeyed(f) /\ Merged(d, f).fingerprint = f.fingerprint
              \/ f.rootCause # NoRootCause /\ Merged(d, f).rootCause = f.rootCause
<1> DEFINE a == After(d, f)
           m == Merged(d, f)
<1>1. /\ f \in Made /\ d \in StoreOf(Made)
      /\ f.fingerprint \in Fingerprints \cup {NoFingerprint}
      /\ f.rootCause \in RootCauses \cup {NoRootCause}
  BY DEF Fits, Made, Sound
<1>2. /\ DOMAIN d.byFingerprint = Fingerprints /\ DOMAIN d.byRootCause = RootCauses
      /\ NoFingerprint \notin Fingerprints /\ NoRootCause \notin RootCauses
  BY <1>1, SlotsHoldFindings, NoFingerprintAssumption, NoRootCauseAssumption
<1>3. /\ a.byFingerprint \in [Fingerprints -> Made \cup {NoFinding}]
      /\ a.byRootCause \in [RootCauses -> Made \cup {NoFinding}]
      /\ a.noKey \subseteq Made
      => a \in StoreOf(Made)
  <2>1. a = [byFingerprint |-> a.byFingerprint, byRootCause |-> a.byRootCause, noKey |-> a.noKey]
    BY <1>1 DEF After, StoreOf
  <2> HIDE DEF a
  <2> QED
    BY <2>1 DEF StoreOf
<1>4. /\ d.byFingerprint \in [Fingerprints -> Made \cup {NoFinding}]
      /\ d.byRootCause \in [RootCauses -> Made \cup {NoFinding}]
      /\ d.noKey \subseteq Made
  BY <1>1 DEF StoreOf
<1> HIDE DEF a, m
<1>5. CASE AddsUnkeyed(d, f)
  <2>1. /\ m = f /\ a.byFingerprint = d.byFingerprint /\ a.byRootCause = d.byRootCause
        /\ a.noKey = d.noKey \cup {f}
    BY <1>5, MergedOfWay DEF AddsUnkeyed, a, m
  <2> QED
    BY <1>1, <1>3, <1>4, <2>1 DEF Sound, All, a, m
<1>6. ASSUME NEW k \in Fingerprints, Fits(m, E), m.fingerprint = k,
             a.byFingerprint = [d.byFingerprint EXCEPT ![k] = m], a.noKey = d.noKey,
             \/ a.byRootCause = d.byRootCause
             \/ \E r \in RootCauses :
                   m.rootCause = r /\ a.byRootCause = [d.byRootCause EXCEPT ![r] = m]
      PROVE  Sound(a, E) /\ All(a) \subseteq All(d) \cup {m}
  <2>1. m \in Made
    BY <1>6 DEF Fits
  <2>2. a \in StoreOf(Made)
    BY <1>3, <1>4, <1>6, <2>1
  <2>3. Sound(a, E)
    BY <1>2, <1>6, <2>2 DEF Sound
  <2>4. All(a) \subseteq All(d) \cup {m}
    BY <1>2, <1>6 DEF All
  <2> QED
    BY <2>3, <2>4
<1>7. CASE AddsRepeated(d, f)
  <2> DEFINE old == d.byFingerprint[f.fingerprint]
  <2>1. /\ m = MergeTwo(old, f) /\ f.fingerprint \in Fingerprints
        /\ a.byFingerprint = [d.byFingerprint EXCEPT ![f.fingerprint] = m]
        /\ a.byRootCause = d.byRootCause /\ a.noKey = d.noKey
    BY <1>7, MergedOfWay DEF AddsRepeated, Filed, a, m
  <2>2. Fits(old, E) /\ old.fingerprint = f.fingerprint
    BY <1>7 DEF AddsRepeated, Sound
  <2> HIDE DEF old
  <2>3. Fits(m, E) /\ m.fingerprint = f.fingerprint
    BY <2>1, <2>2, MergeTwoFits
  <2>4. Sound(a, E) /\ All(a) \subseteq All(d) \cup {m}
    BY <1>6, <2>1, <2>3
  <2> QED
    BY <1>2, <2>1, <2>3, <2>4 DEF Unkeyed, a, m
<1>8. CASE AddsJoined(d, f)
  <2> DEFINE head == d.byRootCause[f.rootCause]
  <2>1. /\ m = MergeCluster(head, f) /\ f.rootCause \in RootCauses
        /\ a.byFingerprint = [d.byFingerprint EXCEPT ![m.fingerprint] = m]
        /\ a.byRootCause = [d.byRootCause EXCEPT ![f.rootCause] = m] /\ a.noKey = d.noKey
    BY <1>8, MergedOfWay DEF AddsJoined, Filed, FiledToo, a, m
  <2>2. /\ Fits(head, E) /\ head.rootCause = f.rootCause
        /\ head.fingerprint \in Fingerprints /\ f.fingerprint \in Fingerprints
    BY <1>8 DEF AddsJoined, Sound
  <2> HIDE DEF head
  <2>3. /\ Fits(m, E) /\ m.rootCause = f.rootCause
        /\ m.fingerprint \in Fingerprints
    BY <2>1, <2>2, MergeClusterFits
  <2> QED
    BY <1>2, <1>6, <2>1, <2>3 DEF a, m
<1>9. CASE AddsFounder(d, f) \/ AddsAlone(d, f)
  <2>1. /\ m = f /\ f.fingerprint \in Fingerprints
        /\ a.byFingerprint = [d.byFingerprint EXCEPT ![f.fingerprint] = f] /\ a.noKey = d.noKey
        /\ \/ a.byRootCause = d.byRootCause
           \/ /\ f.rootCause \in RootCauses
              /\ a.byRootCause = [d.byRootCause EXCEPT ![f.rootCause] = f]
    BY <1>9, MergedOfWay DEF AddsFounder, AddsAlone, Filed, FiledToo, a, m
  <2> QED
    BY <1>6, <2>1 DEF a, m
<1> QED
  BY <1>1, <1>5, <1>7, <1>8, <1>9, WaysOfAdd

-----------------------------------------------------------------------------
(* The inductive invariant.                                                *)

Validation == {"candidates", "validating", "collecting", "capturing"}

\* run() is busy with a check of the registry whenever it uses one.
TurnInv ==
    /\ turn \in 0..(NumChecks + 1)
    /\ pc \in {"checking", "detecting"} \cup Validation => turn \in 1..NumChecks
    /\ pc = "announcing" => turn = 0
    /\ pc = "check" => turn >= 1

\* The candidate at hand is one of the candidates, and what is gathered of its
\* evidence is stored or still pending.
CandidateInv ==
    /\ current \in AllCandidates \cup {NoCandidate}
    /\ outcome \in Outcomes \cup {"none"}
    /\ pending \subseteq gathered
    /\ pc \in Validation => todo \subseteq AllCandidates
    /\ pc \in Validation \ {"candidates"} => current \in AllCandidates
    /\ pc \in {"collecting", "capturing"} => outcome \in Outcomes
    /\ pc = "capturing" => gathered \subseteq Items[current] /\ gathered \subseteq store \cup pending

\* The ids somebody answers for.
Known == store \cup NamedByHooks

\* What the findings refer to is stored or named by a hook, the list follows
\* the deduplicator, and every assessed finding is represented.
ResultInv ==
    /\ store \subseteq AllItems
    /\ Sound(dedup, Known)
    /\ \A f \in findings : Profiled(f) /\ f.evidence \subseteq Known
    /\ DedupCovered
    /\ {f.id : f \in assessed} \subseteq AllCandidates
    /\ EveryFindingRepresented

\* The place of run(), the state of the context and the last event go together.
At(places, s, types, source) ==
    pc \in places => state = s /\ event.type \in types /\ event.source = source

PlaceInv ==
    /\ event.source \in 0..NumChecks
    /\ raises \in 0..MaxRaises /\ cancelled \in BOOLEAN /\ state \in ScanStates
    /\ At({"idle"}, "INITIALIZED", {"NONE"}, 0)
    /\ At({"started"}, "INITIALIZED", {"SCAN_STARTED"}, 0)
    /\ At({"mapping", "discovering"}, "DISCOVERING", {"DISCOVERY_STARTED"}, 0)
    /\ At({"discovered"}, "DISCOVERING", {"DISCOVERY_ENDED"}, 0)
    /\ At({"opening_checks"}, "DISCOVERY_COMPLETE", {"DISCOVERY_ENDED"}, 0)
    /\ At({"check"}, "CHECKING", {"DISCOVERY_ENDED", "CHECK_ENDED"}, turn - 1)
    /\ At({"checking", "detecting"}, "CHECKING", {"CHECK_STARTED", "FINDING_DETECTED"}, turn)
    /\ pc \in {"announcing", "candidates"} =>
          /\ state = "VALIDATING"
          /\ \/ Protocol!ChecksAreOver(event)
             \/ Protocol!CandidateIsOver(event) /\ event.source <= turn
    /\ At({"validating"}, "VALIDATING", {"VALIDATION_STARTED"}, turn)
    /\ At({"collecting"}, "VALIDATING", {"VALIDATION_ENDED"}, turn)
    /\ At({"capturing"}, "VALIDATING", {"VALIDATION_ENDED", "EVIDENCE_CAPTURED"}, turn)
    /\ At({"reported"}, "REPORTING", {"REPORT_GENERATED"}, 0)
    /\ pc = "failing" =>
          /\ state \in {"DISCOVERING", "CHECKING", "VALIDATING", "REPORTING"}
          /\ event.type \notin {"NONE", "SCAN_STARTED", "ERROR", "SCAN_FINISHED"}
    /\ At({"failed"}, "FAILED", {"ERROR"}, 0)

RunInv == TurnInv /\ CandidateInv /\ ResultInv /\ PlaceInv

\* It holds before the run.
LEMMA RunStarts ==
    ASSUME Init
    PROVE  RunInv
<1>1. TurnInv
  BY CountsAssumption DEF Init, TurnInv, Validation
<1>2. CandidateInv
  BY DEF Init, CandidateInv, Validation
<1>3. PlaceInv
  <2>1. pc = "idle" /\ event.type = "NONE" /\ event.source = 0 /\ state = "INITIALIZED"
    BY DEF Init, Silence
  <2>2. raises \in 0..MaxRaises /\ 0 \in 0..NumChecks
    BY CountsAssumption DEF Init
  <2>3. cancelled \in BOOLEAN
    BY DEF Init
  <2> QED
    BY <2>1, <2>2, <2>3 DEF PlaceInv, At, ScanStates
<1>4. ResultInv
  <2>1. Sound(dedup, Known)
    BY DEF Init, Sound, Empty, StoreOf
  <2>2. All(dedup) = {}
    BY DEF Init, Empty, All
  <2> QED
    BY <2>1, <2>2, PrepopulatedAssumption
       DEF Init, ResultInv, Profiled, DedupCovered, EveryFindingRepresented
<1> QED
  BY <1>1, <1>2, <1>3, <1>4 DEF RunInv

\* What a step leaves alone of the results is left as it was.
LEMMA ResultsKept ==
    ASSUME ResultInv, UNCHANGED resultVars
    PROVE  ResultInv'
<1>1. Known' = Known
  BY DEF Known, NamedByHooks, resultVars
<1> QED
  BY <1>1 DEF ResultInv, resultVars, DedupCovered, EveryFindingRepresented, All, Sound, Fits,
              Profiled

\* The opening of a run and its discovery phase keep the invariant.
LEMMA OpeningSteps ==
    ASSUME RunInv,
           Start \/ BeginDiscovery \/ BuildModel \/ Discover \/ EndDiscovery \/
           CompleteDiscovery
    PROVE  RunInv'
<1>1. ResultInv'
  <2>1. UNCHANGED resultVars
    BY DEF Start, BeginDiscovery, BuildModel, Discover, EndDiscovery, CompleteDiscovery,
           resultVars
  <2> QED
    BY <2>1, ResultsKept DEF RunInv
<1> USE CountsAssumption DEF RunInv, TurnInv, CandidateInv, PlaceInv, At, Validation,
                             workVars, candidateVars
<1>2. CASE Start
  BY <1>1, <1>2 DEF Start, Publish
<1>3. CASE BeginDiscovery
  BY <1>1, <1>3 DEF BeginDiscovery, Publish, Transition, ScanStates
<1>4. CASE BuildModel
  BY <1>1, <1>4 DEF BuildModel
<1>5. CASE Discover
  BY <1>1, <1>5 DEF Discover
<1>6. CASE EndDiscovery
  BY <1>1, <1>6 DEF EndDiscovery, Publish
<1>7. CASE CompleteDiscovery
  BY <1>1, <1>7 DEF CompleteDiscovery, Transition, ScanStates
<1> QED
  BY <1>2, <1>3, <1>4, <1>5, <1>6, <1>7

\* So does the check phase.
LEMMA CheckSteps ==
    ASSUME RunInv,
           BeginChecks \/ StartCheck \/ Detect \/ AnnounceCandidate \/ EndCheck
    PROVE  RunInv'
<1>1. ResultInv'
  <2>1. UNCHANGED resultVars
    BY DEF BeginChecks, StartCheck, Detect, AnnounceCandidate, EndCheck, resultVars
  <2> QED
    BY <2>1, ResultsKept DEF RunInv
<1> USE CountsAssumption DEF RunInv, TurnInv, CandidateInv, PlaceInv, At, Validation,
                             workVars, candidateVars
<1>2. CASE BeginChecks
  BY <1>1, <1>2 DEF BeginChecks, Transition, ScanStates
<1>3. CASE StartCheck
  BY <1>1, <1>3 DEF StartCheck, Publish
<1>4. CASE Detect
  BY <1>1, <1>4 DEF Detect
<1>5. CASE AnnounceCandidate
  BY <1>1, <1>5 DEF AnnounceCandidate, Publish
<1>6. CASE EndCheck
  BY <1>1, <1>6 DEF EndCheck, Publish
<1> QED
  BY <1>2, <1>3, <1>4, <1>5, <1>6

\* So does the validation of a candidate, but for what it stores.
LEMMA ValidationSteps ==
    ASSUME RunInv,
           BeginValidation \/ AnnouncePrepopulated \/ Revisit \/ StartValidation \/
           Validate \/ CollectEvidence \/ AssessNothing
    PROVE  RunInv'
<1>1. ResultInv'
  <2>1. UNCHANGED resultVars
    BY DEF BeginValidation, AnnouncePrepopulated, Revisit, StartValidation, Validate,
           CollectEvidence, AssessNothing, resultVars
  <2> QED
    BY <2>1, ResultsKept DEF RunInv
<1> USE CountsAssumption DEF RunInv, TurnInv, CandidateInv, PlaceInv, At, Validation,
                             workVars, candidateVars, Protocol!ChecksAreOver,
                             Protocol!CandidateIsOver
<1>2. CASE BeginValidation
  BY <1>1, <1>2 DEF BeginValidation, Transition, ScanStates
<1>3. CASE AnnouncePrepopulated
  BY <1>1, <1>3 DEF AnnouncePrepopulated, Publish
<1>4. CASE Revisit
  <2>1. turn + 1 \in 1..NumChecks /\ Candidates[turn + 1] \subseteq AllCandidates
    BY <1>4 DEF Revisit, AllCandidates
  <2> QED
    BY <1>1, <1>4, <2>1 DEF Revisit, CheckIsOver
<1>5. CASE StartValidation
  BY <1>1, <1>5 DEF StartValidation, Publish
<1>6. CASE Validate
  BY <1>1, <1>6 DEF Validate, Publish
<1>7. CASE CollectEvidence
  BY <1>1, <1>7 DEF CollectEvidence
<1>8. CASE AssessNothing
  BY <1>1, <1>8 DEF AssessNothing
<1> QED
  BY <1>2, <1>3, <1>4, <1>5, <1>6, <1>7, <1>8

\* So do the ways out of a run.
LEMMA ClosingSteps ==
    ASSUME RunInv,
           Report \/ Finish \/ Fail \/ FinishFailed \/ CheckRaises \/ Cancel
    PROVE  RunInv'
<1>1. ResultInv'
  <2>1. UNCHANGED resultVars
    BY DEF Report, Finish, Fail, FinishFailed, CheckRaises, Cancel, resultVars
  <2> QED
    BY <2>1, ResultsKept DEF RunInv
<1> USE CountsAssumption DEF RunInv, TurnInv, CandidateInv, PlaceInv, At, Validation,
                             workVars, candidateVars
<1>2. CASE Report
  BY <1>1, <1>2 DEF Report, Publish, Transition, ScanStates
<1>3. CASE Finish
  BY <1>1, <1>3 DEF Finish, Publish, Transition, ScanStates
<1>4. CASE Fail
  BY <1>1, <1>4 DEF Fail, Publish, Transition, ScanStates
<1>5. CASE FinishFailed
  BY <1>1, <1>5 DEF FinishFailed
<1>6. CASE CheckRaises
  BY <1>1, <1>6 DEF CheckRaises, InHook, CheckIsOver, Protocol!ChecksAreOver,
                    Protocol!CandidateIsOver
<1>7. CASE Cancel
  BY <1>1, <1>7 DEF Cancel
<1> QED
  BY <1>2, <1>3, <1>4, <1>5, <1>6, <1>7

\* More evidence does not harm.
LEMMA SoundGrows ==
    ASSUME NEW E, NEW F, E \subseteq F, NEW d, Sound(d, E)
    PROVE  Sound(d, F)
BY DEF Sound, Fits

\* An item that is stored is one of the candidate's.
LEMMA CaptureStep ==
    ASSUME RunInv, Capture
    PROVE  RunInv'
<1>1. PICK ev \in pending : pending' = pending \ {ev} /\ store' = store \cup {ev}
  BY DEF Capture
<1>2. /\ pc = "capturing" /\ findings' = findings /\ dedup' = dedup /\ assessed' = assessed
      /\ gathered' = gathered /\ current' = current /\ outcome' = outcome
      /\ todo' = todo /\ turn' = turn /\ state' = state /\ cancelled' = cancelled
      /\ Publish("EVIDENCE_CAPTURED", turn, "capturing", "failing")
  BY DEF Capture
<1>3. ev \in AllItems
  BY <1>2 DEF RunInv, CandidateInv, Validation, AllItems
<1>4. ResultInv'
  <2>1. Known \subseteq Known' /\ store' \subseteq AllItems
    BY <1>1, <1>2, <1>3 DEF RunInv, ResultInv, Known, NamedByHooks
  <2>2. Sound(dedup, Known')
    BY <2>1, SoundGrows DEF RunInv, ResultInv
  <2>3. \A f \in findings : Profiled(f) /\ f.evidence \subseteq Known'
    BY <2>1 DEF RunInv, ResultInv
  <2> QED
    BY <1>2, <2>1, <2>2, <2>3
       DEF RunInv, ResultInv, DedupCovered, EveryFindingRepresented, All
<1>5. CandidateInv' /\ TurnInv'
  BY <1>1, <1>2 DEF RunInv, CandidateInv, TurnInv, Validation, Publish
<1>6. PlaceInv'
  BY <1>2, CountsAssumption
     DEF RunInv, TurnInv, PlaceInv, At, Validation, Publish, Protocol!ChecksAreOver,
         Protocol!CandidateIsOver
<1> QED
  BY <1>4, <1>5, <1>6 DEF RunInv

\* The finding of the candidate brings its evidence, which is stored or named
\* by its hook; what the deduplicator makes of it stands for it in the list.
LEMMA AssessStep ==
    ASSUME RunInv, Assess
    PROVE  RunInv'
<1>1. PICK confidence \in Outlooks, own \in SUBSET Claims[current] :
         LET f == FindingWith(confidence, own)
         IN  /\ dedup' = After(dedup, f)
             /\ findings' = Register(findings, Merged(dedup, f), f)
             /\ assessed' = assessed \cup {[f EXCEPT !.evidence = own]}
  BY DEF Assess
<1> DEFINE f == FindingWith(confidence, own)
           back == [f EXCEPT !.evidence = own]
           m == Merged(dedup, f)
<1>2. /\ pc = "capturing" /\ pending = {} /\ current \in AllCandidates /\ outcome \in Outcomes
      /\ gathered \subseteq store /\ gathered \subseteq AllItems
  BY DEF Assess, RunInv, CandidateInv, Validation, AllItems
<1>3. /\ Fits(f, Known') /\ f.id \in AllCandidates /\ Known \subseteq Known'
      /\ back.id = f.id /\ back.fingerprint = f.fingerprint /\ back.rootCause = f.rootCause
  <2>1. own \subseteq AllClaims
    BY <1>2 DEF AllClaims
  <2>2. own \cup gathered \in SUBSET (AllItems \cup AllClaims)
    BY <1>2, <2>1
  <2>3. f \in Made
    BY <1>2, <2>2, ProfileAssumption DEF FindingWith, Made
  <2>4. f.id = current /\ Profiled(f) /\ f.evidence = own \cup gathered
    BY DEF FindingWith, Profiled
  <2>5. /\ back.id = f.id /\ back.fingerprint = f.fingerprint
        /\ back.rootCause = f.rootCause /\ back.evidence = own
    BY DEF FindingWith
  <2>6. store' = store /\ assessed' = assessed \cup {back}
    BY <1>1 DEF Assess
  <2>7. Known \subseteq Known' /\ own \subseteq Known'
    BY <2>5, <2>6 DEF Known, NamedByHooks
  <2>8. gathered \subseteq Known
    BY <1>2 DEF Known
  <2> QED
    BY <1>2, <2>3, <2>4, <2>5, <2>7, <2>8 DEF Fits
<1>11. Sound(dedup, Known')
  BY <1>3, SoundGrows DEF RunInv, ResultInv
<1>12. dedup' = After(dedup, f) /\ findings' = Register(findings, m, f)
       /\ assessed' = assessed \cup {back}
  BY <1>1
<1> HIDE DEF f, back
<1>4. /\ Sound(dedup', Known') /\ Fits(m, Known')
      /\ All(dedup') \subseteq All(dedup) \cup {m}
      /\ \/ m = f
         \/ ~ Unkeyed(f) /\ m.fingerprint = f.fingerprint
         \/ f.rootCause # NoRootCause /\ m.rootCause = f.rootCause
  BY <1>3, <1>11, <1>12, AddFits
<1>5. m.id \in AllCandidates /\ Profiled(m) /\ m.evidence \subseteq Known'
  BY <1>4 DEF Fits, Made
<1> HIDE DEF m
<1>6. /\ findings \subseteq findings' /\ findings' \subseteq findings \cup {m}
      /\ \E g \in findings' : g.id = m.id
  BY <1>12 DEF Register
<1>7. ResultInv'
  <2>1. store' = store /\ assessed' = assessed \cup {back}
    BY <1>12 DEF Assess
  <2>2. \A g \in findings' : Profiled(g) /\ g.evidence \subseteq Known'
    BY <1>3, <1>5, <1>6 DEF RunInv, ResultInv
  <2>3. DedupCovered'
    BY <1>4, <1>6 DEF RunInv, ResultInv, DedupCovered
  <2>4. ASSUME NEW h \in assessed'
        PROVE  \E g \in findings' :
                  \/ g.id = h.id
                  \/ ~ Unkeyed(h) /\ g.fingerprint = h.fingerprint
                  \/ h.rootCause # NoRootCause /\ g.rootCause = h.rootCause
    <3>1. CASE h \in assessed
      BY <1>6, <3>1 DEF RunInv, ResultInv, EveryFindingRepresented
    <3>2. CASE h = back
      <4>1. PICK g \in findings' : g.id = m.id
        BY <1>6
      <4>2. g.fingerprint = m.fingerprint /\ g.rootCause = m.rootCause
        BY <1>5, <2>2, <4>1 DEF Profiled
      <4>3. ~ Unkeyed(f) => ~ Unkeyed(back)
        BY <1>3 DEF Unkeyed
      <4> QED
        BY <1>3, <1>4, <3>2, <4>1, <4>2, <4>3
    <3> QED
      BY <2>1, <3>1, <3>2
  <2> QED
    BY <1>3, <1>4, <2>1, <2>2, <2>3, <2>4 DEF RunInv, ResultInv, EveryFindingRepresented
<1>8. /\ UNCHANGED <<state, workVars, store, cancelled>>
      /\ \/ Publish("FINDING_CONFIRMED", turn, "candidates", "failing")
         \/ pc' = "candidates" /\ UNCHANGED <<event, raises>>
  BY DEF Assess
<1>9. CandidateInv' /\ TurnInv'
  BY <1>2, <1>8
     DEF RunInv, CandidateInv, TurnInv, Validation, Publish, workVars, candidateVars
<1>10. PlaceInv'
  BY <1>2, <1>8, CountsAssumption
     DEF RunInv, TurnInv, PlaceInv, At, Validation, Publish, workVars, candidateVars,
         Protocol!ChecksAreOver, Protocol!CandidateIsOver
<1> QED
  BY <1>7, <1>9, <1>10 DEF RunInv

\* Every step keeps the invariant.
LEMMA RunStep ==
    ASSUME RunInv, [Next]_vars
    PROVE  RunInv'
<1>1. CASE UNCHANGED vars
  <2>1. UNCHANGED resultVars
    BY <1>1 DEF vars, resultVars
  <2>2. ResultInv'
    BY <2>1, ResultsKept DEF RunInv
  <2>3. /\ state' = state /\ event' = event /\ pc' = pc /\ turn' = turn /\ todo' = todo
        /\ current' = current /\ outcome' = outcome /\ gathered' = gathered
        /\ pending' = pending /\ store' = store /\ raises' = raises /\ cancelled' = cancelled
    BY <1>1 DEF vars, workVars, candidateVars, resultVars
  <2>4. TurnInv' /\ CandidateInv'
    BY <2>3 DEF RunInv, TurnInv, CandidateInv, Validation
  <2>5. PlaceInv'
    BY <2>3 DEF RunInv, PlaceInv, At, Protocol!ChecksAreOver, Protocol!CandidateIsOver
  <2> QED
    BY <2>2, <2>4, <2>5 DEF RunInv
<1>2. CASE Done
  BY <1>1, <1>2 DEF Done
<1>3. CASE Step \/ Cancel
  BY <1>3, OpeningSteps, CheckSteps, ValidationSteps, ClosingSteps, CaptureStep, AssessStep
     DEF Step
<1> QED
  BY <1>1, <1>2, <1>3 DEF Next

\* The invariant holds in every reachable state.
THEOREM RunInvariant == Spec => []RunInv
<1>1. RunInv /\ [Next]_vars => RunInv'
  BY RunStep
<1> QED
  BY <1>1, RunStarts, PTL DEF Spec

-----------------------------------------------------------------------------
(* The protocol of the events.                                             *)

\* What the protocol lets follow a check's events.
LEMMA TurnRules ==
    ASSUME NEW e, NEW f
    PROVE  /\ /\ f.type = "CHECK_STARTED" /\ f.source = e.source + 1
              /\ e.type \in {"DISCOVERY_ENDED", "CHECK_ENDED"}
              => Protocol!Follows(e, f)
           /\ /\ f.type \in {"FINDING_DETECTED", "CHECK_ENDED"} /\ f.source = e.source
              /\ e.type \in {"CHECK_STARTED", "FINDING_DETECTED"}
              => Protocol!Follows(e, f)
BY Zenon DEF Protocol!Follows, Protocol!TurnFollows

\* What it lets follow in the validation.
LEMMA ValidationRules ==
    ASSUME NEW e, NEW f
    PROVE  /\ /\ f.type = "VALIDATION_STARTED"
              /\ Protocol!ChecksAreOver(e) \/ (Protocol!CandidateIsOver(e) /\ f.source >= e.source)
              => Protocol!Follows(e, f)
           /\ /\ f.type = "VALIDATION_ENDED" /\ f.source = e.source /\ f.source # 0
              /\ e.type = "VALIDATION_STARTED"
              => Protocol!Follows(e, f)
           /\ /\ f.type \in {"EVIDENCE_CAPTURED", "FINDING_CONFIRMED"} /\ f.source = e.source
              /\ e.type \in {"VALIDATION_ENDED", "EVIDENCE_CAPTURED"}
              => Protocol!Follows(e, f)
BY Zenon DEF Protocol!Follows, Protocol!ValidationFollows

\* And what the orchestrator's own events may follow.
LEMMA PhaseRules ==
    ASSUME NEW e, NEW f, f.source = 0
    PROVE  /\ f.type = "SCAN_STARTED" /\ e.type = "NONE" => Protocol!Follows(e, f)
           /\ f.type = "DISCOVERY_STARTED" /\ e.type = "SCAN_STARTED" => Protocol!Follows(e, f)
           /\ f.type = "DISCOVERY_ENDED" /\ e.type = "DISCOVERY_STARTED"
              => Protocol!Follows(e, f)
           /\ /\ f.type = "REPORT_GENERATED"
              /\ Protocol!ChecksAreOver(e) \/ Protocol!CandidateIsOver(e)
              => Protocol!Follows(e, f)
           /\ /\ f.type = "ERROR"
              /\ e.type \notin {"NONE", "SCAN_STARTED", "ERROR", "SCAN_FINISHED"}
              => Protocol!Follows(e, f)
           /\ f.type = "SCAN_FINISHED" /\ e.type \in {"REPORT_GENERATED", "ERROR"}
              => Protocol!Follows(e, f)
BY Zenon DEF Protocol!Follows, Protocol!PhaseFollows

\* The states that events are published in.
LEMMA StatesForEvents ==
    /\ Protocol!StateFor["SCAN_STARTED"] = "INITIALIZED"
    /\ \A t \in {"DISCOVERY_STARTED", "DISCOVERY_ENDED"} :
          Protocol!StateFor[t] = "DISCOVERING"
    /\ \A t \in {"CHECK_STARTED", "FINDING_DETECTED", "CHECK_ENDED"} :
          Protocol!StateFor[t] = "CHECKING"
    /\ \A t \in {"VALIDATION_STARTED", "VALIDATION_ENDED", "EVIDENCE_CAPTURED",
                 "FINDING_CONFIRMED"} :
          Protocol!StateFor[t] = "VALIDATING"
    /\ Protocol!StateFor["REPORT_GENERATED"] = "REPORTING"
    /\ Protocol!StateFor["ERROR"] = "FAILED"
BY DEF Protocol!StateFor

\* The events.
LEMMA EventsOfRuns ==
    ASSUME NEW t \in {"SCAN_STARTED", "DISCOVERY_STARTED", "DISCOVERY_ENDED", "CHECK_STARTED",
                      "FINDING_DETECTED", "CHECK_ENDED", "VALIDATION_STARTED",
                      "VALIDATION_ENDED", "EVIDENCE_CAPTURED", "FINDING_CONFIRMED",
                      "REPORT_GENERATED", "ERROR", "SCAN_FINISHED"},
           NEW s \in 0..NumChecks
    PROVE  [type |-> t, source |-> s] \in Protocol!Events
BY DEF Protocol!Events, Protocol!EventTypes, Protocol!StateFor

\* An event that follows, in its state, is a step of the protocol.
LEMMA PublishedInOrder ==
    ASSUME NEW t \in {"SCAN_STARTED", "DISCOVERY_STARTED", "DISCOVERY_ENDED", "CHECK_STARTED",
                      "FINDING_DETECTED", "CHECK_ENDED", "VALIDATION_STARTED",
                      "VALIDATION_ENDED", "EVIDENCE_CAPTURED", "FINDING_CONFIRMED",
                      "REPORT_GENERATED", "ERROR", "SCAN_FINISHED"},
           NEW s \in 0..NumChecks,
           event' = [type |-> t, source |-> s],
           Protocol!Follows(event, [type |-> t, source |-> s]),
           state' = state \/ state' \in Allowed[state],
           \/ t # "SCAN_FINISHED" /\ state' = Protocol!StateFor[t]
           \/ t = "SCAN_FINISHED" /\ event.type = "ERROR" /\ state' = "FAILED"
           \/ t = "SCAN_FINISHED" /\ event.type # "ERROR" /\ state' = "COMPLETED"
    PROVE  Protocol!Next
<1> DEFINE f == [type |-> t, source |-> s]
<1>1. f \in Protocol!Events /\ f.type = t
  BY EventsOfRuns
<1>2. Protocol!Moves
  BY DEF Protocol!Moves, Protocol!Allowed, Allowed, Protocol!ScanStates, ScanStates
<1> HIDE DEF f
<1>3. Protocol!Publish(f)
  BY <1>1, <1>2 DEF Protocol!Publish, f
<1> QED
  BY <1>1, <1>3 DEF Protocol!Next

\* Every step of a run is one of the protocol or leaves both alone.
LEMMA StepFollowsProtocol ==
    ASSUME RunInv, [Next]_vars
    PROVE  [Protocol!Next]_<<event, state>>
<1> USE CountsAssumption DEF RunInv, TurnInv, PlaceInv, At, Validation
<1>1. CASE Start
  <2> DEFINE f == [type |-> "SCAN_STARTED", source |-> 0]
  <2>1. /\ event' = f /\ f.type = "SCAN_STARTED" /\ f.source = 0 /\ 0 \in 0..NumChecks
        /\ state' = state \/ state' \in Allowed[state]
    BY <1>1 DEF Start, Publish, Transition
  <2>2. Protocol!Follows(event, f)
    BY <1>1, <2>1, PhaseRules DEF Start
  <2> QED
    BY <1>1, <2>1, <2>2, PublishedInOrder, StatesForEvents DEF Start, Transition
<1>2. CASE BeginDiscovery
  <2> DEFINE f == [type |-> "DISCOVERY_STARTED", source |-> 0]
  <2>1. /\ event' = f /\ f.type = "DISCOVERY_STARTED" /\ f.source = 0 /\ 0 \in 0..NumChecks
        /\ state' = state \/ state' \in Allowed[state]
    BY <1>2 DEF BeginDiscovery, Publish, Transition
  <2>2. Protocol!Follows(event, f)
    BY <1>2, <2>1, PhaseRules DEF BeginDiscovery
  <2> QED
    BY <1>2, <2>1, <2>2, PublishedInOrder, StatesForEvents DEF BeginDiscovery, Transition
<1>3. CASE EndDiscovery
  <2> DEFINE f == [type |-> "DISCOVERY_ENDED", source |-> 0]
  <2>1. /\ event' = f /\ f.type = "DISCOVERY_ENDED" /\ f.source = 0 /\ 0 \in 0..NumChecks
        /\ state' = state \/ state' \in Allowed[state]
    BY <1>3 DEF EndDiscovery, Publish, Transition
  <2>2. Protocol!Follows(event, f)
    BY <1>3, <2>1, PhaseRules DEF EndDiscovery
  <2> QED
    BY <1>3, <2>1, <2>2, PublishedInOrder, StatesForEvents DEF EndDiscovery, Transition
<1>4. CASE StartCheck
  <2> DEFINE f == [type |-> "CHECK_STARTED", source |-> turn]
  <2>1. /\ event' = f /\ f.type = "CHECK_STARTED" /\ f.source = turn /\ turn \in 0..NumChecks
        /\ state' = state \/ state' \in Allowed[state]
    BY <1>4 DEF StartCheck, Publish, Transition
  <2>2. Protocol!Follows(event, f)
    BY <1>4, <2>1, TurnRules DEF StartCheck
  <2> QED
    BY <1>4, <2>1, <2>2, PublishedInOrder, StatesForEvents DEF StartCheck, Transition
<1>5. CASE AnnounceCandidate
  <2> DEFINE f == [type |-> "FINDING_DETECTED", source |-> turn]
  <2>1. /\ event' = f /\ f.type = "FINDING_DETECTED" /\ f.source = turn /\ turn \in 0..NumChecks
        /\ state' = state \/ state' \in Allowed[state]
    BY <1>5 DEF AnnounceCandidate, Publish, Transition
  <2>2. Protocol!Follows(event, f)
    BY <1>5, <2>1, TurnRules DEF AnnounceCandidate
  <2> QED
    BY <1>5, <2>1, <2>2, PublishedInOrder, StatesForEvents DEF AnnounceCandidate, Transition
<1>6. CASE EndCheck
  <2> DEFINE f == [type |-> "CHECK_ENDED", source |-> turn]
  <2>1. /\ event' = f /\ f.type = "CHECK_ENDED" /\ f.source = turn /\ turn \in 0..NumChecks
        /\ state' = state \/ state' \in Allowed[state]
    BY <1>6 DEF EndCheck, Publish, Transition
  <2>2. Protocol!Follows(event, f)
    BY <1>6, <2>1, TurnRules DEF EndCheck
  <2> QED
    BY <1>6, <2>1, <2>2, PublishedInOrder, StatesForEvents DEF EndCheck, Transition
<1>7. CASE AnnouncePrepopulated
  <2> DEFINE f == [type |-> "VALIDATION_STARTED", source |-> 0]
  <2>1. /\ event' = f /\ f.type = "VALIDATION_STARTED" /\ f.source = 0 /\ 0 \in 0..NumChecks
        /\ state' = state \/ state' \in Allowed[state]
    BY <1>7 DEF AnnouncePrepopulated, Publish, Transition
  <2>2. Protocol!Follows(event, f)
    BY <1>7, <2>1, ValidationRules DEF AnnouncePrepopulated
  <2> QED
    BY <1>7, <2>1, <2>2, PublishedInOrder, StatesForEvents DEF AnnouncePrepopulated, Transition
<1>8. CASE StartValidation
  <2> DEFINE f == [type |-> "VALIDATION_STARTED", source |-> turn]
  <2>1. /\ event' = f /\ f.type = "VALIDATION_STARTED" /\ f.source = turn /\ turn \in 0..NumChecks
        /\ state' = state \/ state' \in Allowed[state]
    BY <1>8 DEF StartValidation, Publish, Transition
  <2>2. Protocol!Follows(event, f)
    BY <1>8, <2>1, ValidationRules DEF StartValidation
  <2> QED
    BY <1>8, <2>1, <2>2, PublishedInOrder, StatesForEvents DEF StartValidation, Transition
<1>9. CASE Validate
  <2> DEFINE f == [type |-> "VALIDATION_ENDED", source |-> turn]
  <2>1. /\ event' = f /\ f.type = "VALIDATION_ENDED" /\ f.source = turn /\ turn \in 0..NumChecks
        /\ state' = state \/ state' \in Allowed[state]
    BY <1>9 DEF Validate, Publish, Transition
  <2>2. Protocol!Follows(event, f)
    BY <1>9, <2>1, ValidationRules DEF Validate
  <2> QED
    BY <1>9, <2>1, <2>2, PublishedInOrder, StatesForEvents DEF Validate, Transition
<1>10. CASE Capture
  <2> DEFINE f == [type |-> "EVIDENCE_CAPTURED", source |-> turn]
  <2>1. /\ event' = f /\ f.type = "EVIDENCE_CAPTURED" /\ f.source = turn /\ turn \in 0..NumChecks
        /\ state' = state \/ state' \in Allowed[state]
    BY <1>10 DEF Capture, Publish, Transition
  <2>2. Protocol!Follows(event, f)
    BY <1>10, <2>1, ValidationRules DEF Capture
  <2> QED
    BY <1>10, <2>1, <2>2, PublishedInOrder, StatesForEvents DEF Capture, Transition
<1>11. CASE Report
  <2> DEFINE f == [type |-> "REPORT_GENERATED", source |-> 0]
  <2>1. /\ event' = f /\ f.type = "REPORT_GENERATED" /\ f.source = 0 /\ 0 \in 0..NumChecks
        /\ state' = state \/ state' \in Allowed[state]
    BY <1>11 DEF Report, Publish, Transition
  <2>2. Protocol!Follows(event, f)
    BY <1>11, <2>1, PhaseRules DEF Report, CheckIsOver
  <2> QED
    BY <1>11, <2>1, <2>2, PublishedInOrder, StatesForEvents DEF Report, Transition
<1>12. CASE Finish
  <2> DEFINE f == [type |-> "SCAN_FINISHED", source |-> 0]
  <2>1. /\ event' = f /\ f.type = "SCAN_FINISHED" /\ f.source = 0 /\ 0 \in 0..NumChecks
        /\ state' = state \/ state' \in Allowed[state]
    BY <1>12 DEF Finish, Publish, Transition
  <2>2. Protocol!Follows(event, f)
    BY <1>12, <2>1, PhaseRules DEF Finish
  <2> QED
    BY <1>12, <2>1, <2>2, PublishedInOrder, StatesForEvents DEF Finish, Transition
<1>13. CASE Fail
  <2> DEFINE f == [type |-> "ERROR", source |-> 0]
  <2>1. /\ event' = f /\ f.type = "ERROR" /\ f.source = 0 /\ 0 \in 0..NumChecks
        /\ state' = state \/ state' \in Allowed[state]
    BY <1>13 DEF Fail, Publish, Transition
  <2>2. Protocol!Follows(event, f)
    BY <1>13, <2>1, PhaseRules DEF Fail
  <2> QED
    BY <1>13, <2>1, <2>2, PublishedInOrder, StatesForEvents DEF Fail, Transition
<1>14. CASE FinishFailed
  <2> DEFINE f == [type |-> "SCAN_FINISHED", source |-> 0]
  <2>1. /\ event' = f /\ f.type = "SCAN_FINISHED" /\ f.source = 0 /\ 0 \in 0..NumChecks
        /\ state' = state \/ state' \in Allowed[state]
    BY <1>14 DEF FinishFailed, Publish, Transition
  <2>2. Protocol!Follows(event, f)
    BY <1>14, <2>1, PhaseRules DEF FinishFailed
  <2> QED
    BY <1>14, <2>1, <2>2, PublishedInOrder, StatesForEvents DEF FinishFailed, Transition
<1>15. CASE Assess
  <2>1. state' = state
    BY <1>15 DEF Assess
  <2>2. CASE UNCHANGED event
    BY <2>1, <2>2
  <2>3. CASE Publish("FINDING_CONFIRMED", turn, "candidates", "failing")
    <3> DEFINE f == [type |-> "FINDING_CONFIRMED", source |-> turn]
    <3>1. event' = f /\ f.type = "FINDING_CONFIRMED" /\ f.source = turn /\ turn \in 0..NumChecks
      BY <1>15, <2>3 DEF Assess, Publish
    <3>2. Protocol!Follows(event, f)
      BY <1>15, <3>1, ValidationRules DEF Assess
    <3> QED
      BY <1>15, <2>1, <3>1, <3>2, PublishedInOrder, StatesForEvents DEF Assess
  <2> QED
    BY <1>15, <2>2, <2>3 DEF Assess
<1>16. CASE CompleteDiscovery \/ BeginChecks \/ BeginValidation
  <2>1. state' \in Allowed[state] /\ event' = event
    BY <1>16 DEF CompleteDiscovery, BeginChecks, BeginValidation, Transition
  <2>2. Protocol!Moves
    BY <2>1 DEF Protocol!Moves, Protocol!Allowed, Allowed, Protocol!ScanStates, ScanStates
  <2> QED
    BY <2>1, <2>2 DEF Protocol!Next, Protocol!Move
<1>17. CASE BuildModel \/ Discover \/ Detect \/ Revisit \/ CollectEvidence \/ AssessNothing
            \/ CheckRaises \/ Cancel \/ UNCHANGED vars
  BY <1>17
     DEF BuildModel, Discover, Detect, Revisit, CollectEvidence, AssessNothing, CheckRaises,
         Cancel, vars
<1> QED
  BY <1>1, <1>2, <1>3, <1>4, <1>5, <1>6, <1>7, <1>8, <1>9, <1>10, <1>11, <1>12, <1>13, <1>14,
     <1>15, <1>16, <1>17
     DEF Next, Step, Done

-----------------------------------------------------------------------------
(* The theorems.                                                           *)

\* Type correctness.
THEOREM RunTypes == Spec => []TypeOK
<1>1. RunInv => TypeOK
  BY DEF RunInv, TurnInv, CandidateInv, ResultInv, PlaceInv, TypeOK, AllItems
<1> QED
  BY <1>1, RunInvariant, PTL

\* Every run implements the protocol: whatever the hooks of the checks return
\* or raise, whichever delivery raises and whenever the task is cancelled, the
\* events come in the documented order, each in its state (orchestrator.py
\* 145-207).
THEOREM EventsInOrder == Spec => FollowsProtocol
<1>1. Init => Protocol!Init
  BY DEF Init, Protocol!Init, Silence, Protocol!Silence
<1>2. RunInv /\ [Next]_vars => [Protocol!Next]_<<event, state>>
  BY StepFollowsProtocol
<1> QED
  BY <1>1, <1>2, RunInvariant, PTL DEF Spec, FollowsProtocol, Protocol!Spec

\* Every evidence id of a finding, in the list or in the deduplicator, is
\* stored or was named by an assess() itself: the orchestrator adds no id
\* before its item is stored (orchestrator.py 345-384).
THEOREM EvidenceIsStored == Spec => []EvidenceGrounded
<1>1. RunInv => EvidenceGrounded
  BY DEF RunInv, ResultInv, EvidenceGrounded, Known, Sound, Fits, All
<1> QED
  BY <1>1, RunInvariant, PTL

\* The list covers the deduplicator (orchestrator.py 407-409).
THEOREM ListCoversDeduplicator == Spec => []DedupCovered
<1>1. RunInv => DedupCovered
  BY DEF RunInv, ResultInv
<1> QED
  BY <1>1, RunInvariant, PTL

\* No finding that a check assessed is lost without another that stands for
\* it (orchestrator.py 407-409).
THEOREM FindingsAreRepresented == Spec => []EveryFindingRepresented
<1>1. RunInv => EveryFindingRepresented
  BY DEF RunInv, ResultInv
<1> QED
  BY <1>1, RunInvariant, PTL
=============================================================================
