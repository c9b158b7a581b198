------------------------------ MODULE LotCase ------------------------------
(***************************************************************************)
(* The case of one monitored lot, from its registration to its release:    *)
(* readings, excursions, investigations, actions, the reviewer's preview   *)
(* and decision, and the scan for overdue actions (internal/app/service.go *)
(* and investigation_queries.go).                                          *)
(*                                                                         *)
(* A handler is one Store.Update and therefore one step: module Store      *)
(* shows that updates are atomic and ordered.  What a client or the        *)
(* scanner reads in one call and uses in a later one is state of its own:  *)
(* seen and scanner.                                                       *)
(*                                                                         *)
(* An excursion's ID is given to its fingerprint once and kept when it is  *)
(* revoked and comes back (service.go:361-397), so the fingerprint stands  *)
(* for the ID.                                                             *)
(*                                                                         *)
(* Operators whose name starts with Bug are used by no definition: see     *)
(* module Store.                                                           *)
(***************************************************************************)
EXTENDS Naturals, FiniteSets

CONSTANTS
  Readings,     \* the readings that may be accepted for the lot
  Fingerprints, \* of the excursions they may give rise to
  Calc,         \* domain.Evaluate: from sets of readings to excursions
  Inv, Act,     \* investigations and actions; each is created at most once
  MaxTime,      \* bound on the clock
  MaxEvidence,  \* bound on the evidence of an investigation
  MaxHolds,     \* bound on HOLD decisions
  CanVoid       \* VoidInvestigation is called (no route of the server does)

Severities == {"MINOR", "MAJOR", "CRITICAL"}
Excursion == [fp : Fingerprints, gap : BOOLEAN, sev : Severities]
Ids(excursions) == {e.fp : e \in excursions}

ASSUME LotAssumption ==
  /\ \A R \in SUBSET Readings :
       /\ Calc[R] \subseteq Excursion
       /\ \A d, e \in Calc[R] : d.fp = e.fp => d = e
  /\ Calc[{}] = {}
  /\ IsFiniteSet(Act) /\ "none" \notin Inv
  /\ {MaxTime, MaxEvidence, MaxHolds} \subseteq Nat
  /\ CanVoid \in BOOLEAN

VARIABLES
  status, version, evaluated,  \* lot.Status, Version, EvaluationVersion
  readings,                    \* accepted readings
  active, revoked,             \* excursions; of the revoked ones, the IDs
  inv, act,                    \* investigations and actions
  now,                         \* the clock
  scanner,                     \* ScanOverdue between its View and its Update
  seen,                        \* the preview in the reviewer's hands
  holds                        \* HOLD decisions so far

lot == <<status, version, evaluated>>
excursions == <<active, revoked>>
aside == <<now, scanner, seen, holds>>
vars == <<lot, readings, excursions, inv, act, aside>>

Terminal == {"RELEASED", "REJECTED"}
NoAction == [inv |-> "none", due |-> 0, status |-> "none", notified |-> FALSE]

Init ==
  /\ status = "none" /\ version = 0 /\ evaluated = 0
  /\ readings = {} /\ active = {} /\ revoked = {}
  /\ inv = [i \in Inv |-> [status |-> "none", scope |-> {}, evidence |-> 0]]
  /\ act = [a \in Act |-> NoAction]
  /\ now = 0 /\ scanner = "idle" /\ holds = 0
  /\ seen = [version |-> 0, clear |-> FALSE]

----------------------------------------------------------------------------
(* Readings and evaluation.                                                *)

BugForgetRevoked(R) ==
  /\ active' = Calc[R]
  /\ revoked' = Ids(active) \ Ids(Calc[R])

\* evaluateState, but for the version.
Recalculate(R) ==
  /\ active' = Calc[R]
  /\ revoked' = (Ids(active) \cup revoked) \ Ids(Calc[R])

\* Every other change of the case: lot.Version++, EvaluationVersion = Version.
Touch ==
  /\ version' = version + 1
  /\ evaluated' = version'
  /\ UNCHANGED status

CreateLot ==
  /\ status = "none"
  /\ status' = "MONITORING" /\ version' = 1
  /\ UNCHANGED <<evaluated, readings, excursions, inv, act, aside>>

BugEvaluateLater(new) ==
  /\ status = "MONITORING" /\ new # {}
  /\ readings' = readings \cup new
  /\ version' = version + 1
  /\ UNCHANGED <<status, evaluated, excursions, inv, act, aside>>

\* A batch; duplicates of accepted readings change nothing.
AddReadings(new) ==
  /\ status = "MONITORING" /\ new # {}
  /\ readings' = readings \cup new
  /\ Recalculate(readings')
  /\ Touch
  /\ UNCHANGED <<inv, act, aside>>

BugEvaluateCounts ==
  /\ status # "none"
  /\ Recalculate(readings)
  /\ evaluated' = version + 1
  /\ UNCHANGED <<status, version, readings, inv, act, aside>>

\* On request and from the background jobs, in any status.
Evaluate ==
  /\ status # "none"
  /\ Recalculate(readings)
  /\ evaluated' = version
  /\ UNCHANGED <<status, version, readings, inv, act, aside>>

CloseMonitoring ==
  /\ status = "MONITORING"
  /\ status' = "UNDER_REVIEW"
  /\ version' = version + 1 /\ evaluated' = version'
  /\ Recalculate(readings)
  /\ UNCHANGED <<readings, inv, act, aside>>

----------------------------------------------------------------------------
(* Investigations and actions.                                             *)

CreateInvestigation(i, scope) ==
  /\ status \in {"MONITORING", "UNDER_REVIEW"}
  /\ inv[i].status = "none"
  /\ scope # {} /\ scope \subseteq Ids(active)
  /\ inv' = [inv EXCEPT ![i] = [status |-> "OPEN", scope |-> scope, evidence |-> 0]]
  /\ Touch
  /\ UNCHANGED <<readings, excursions, act, aside>>

\* The status of the lot is not looked at.
AddEvidence(i) ==
  /\ inv[i].status = "OPEN" /\ inv[i].evidence < MaxEvidence
  /\ inv' = [inv EXCEPT ![i].evidence = @ + 1]
  /\ Touch
  /\ UNCHANGED <<readings, excursions, act, aside>>

BugActionOnAnyInvestigation(a, i, due) ==
  /\ act[a].status = "none" /\ inv[i].status # "none"
  /\ act' = [act EXCEPT ![a] = [inv |-> i, due |-> due, status |-> "OPEN", notified |-> FALSE]]
  /\ Touch
  /\ UNCHANGED <<readings, excursions, inv, aside>>

CreateAction(a, i, due) ==
  /\ act[a].status = "none" /\ inv[i].status = "OPEN"
  /\ act' = [act EXCEPT ![a] = [inv |-> i, due |-> due, status |-> "OPEN", notified |-> FALSE]]
  /\ Touch
  /\ UNCHANGED <<readings, excursions, inv, aside>>

BugUpdateUnversioned(a, result) ==
  /\ act[a].status = "OPEN"
  /\ act' = [act EXCEPT ![a].status = result]
  /\ UNCHANGED <<lot, readings, excursions, inv, aside>>

UpdateAction(a, result) ==
  /\ act[a].status = "OPEN"
  /\ act' = [act EXCEPT ![a].status = result]
  /\ Touch
  /\ UNCHANGED <<readings, excursions, inv, aside>>

Submitted == {i \in Inv : inv[i].status = "SUBMITTED"}

InScopeOfOther(i) == \E j \in Submitted \ {i} : inv[i].scope \cap inv[j].scope # {}

BugSubmitTwice(i) ==
  /\ inv[i].status = "OPEN" /\ inv[i].evidence > 0
  /\ inv[i].scope \subseteq Ids(active)
  /\ inv' = [inv EXCEPT ![i].status = "SUBMITTED"]
  /\ Touch
  /\ UNCHANGED <<readings, excursions, act, aside>>

SubmitInvestigation(i) ==
  /\ inv[i].status = "OPEN" /\ inv[i].evidence > 0
  /\ inv[i].scope \subseteq Ids(active)
  /\ ~InScopeOfOther(i)
  /\ inv' = [inv EXCEPT ![i].status = "SUBMITTED"]
  /\ Touch
  /\ UNCHANGED <<readings, excursions, act, aside>>

VoidInvestigation(i) ==
  /\ CanVoid
  /\ inv[i].status = "OPEN" /\ status \notin Terminal
  /\ inv' = [inv EXCEPT ![i].status = "VOID"]
  /\ Touch
  /\ UNCHANGED <<readings, excursions, act, aside>>

----------------------------------------------------------------------------
(* Preview and decision.                                                   *)

BugGraveIsCritical == {e \in active : e.sev = "CRITICAL"}

Grave == {e \in active : e.sev \in {"MAJOR", "CRITICAL"}}

OpenActions(e) ==
  {a \in Act : /\ act[a].status = "OPEN" /\ act[a].inv \in Submitted
               /\ e.fp \in inv[act[a].inv].scope}

Uncovered(e) == \A i \in Submitted : e.fp \notin inv[i].scope

BlockerIf(code, condition) == IF condition THEN {<<code, "lot">>} ELSE {}

Overdue(a) == act[a].status = "OPEN" /\ act[a].due < now

\* What an open action is called depends on the clock.
ActionCode(a) == IF Overdue(a) THEN "OVERDUE_ACTION" ELSE "OPEN_ACTION"

Blockers ==
  UNION {BlockerIf("MONITORING_NOT_CLOSED", status # "UNDER_REVIEW"),
         BlockerIf("STALE_EVALUATION", evaluated # version),
         BlockerIf("NO_READINGS", readings = {}),
         {<<"OPEN_INVESTIGATION", i>> : i \in {j \in Inv : inv[j].status = "OPEN"}},
         {<<"READING_GAP", e.fp>> : e \in {d \in active : d.gap}},
         {<<"UNINVESTIGATED_EXCURSION", e.fp>> : e \in {d \in Grave : Uncovered(d)}},
         {<<ActionCode(a), a>> : a \in UNION {OpenActions(e) : e \in Grave}}}

ReleasePreview ==
  /\ status # "none"
  /\ seen' = [version |-> version, clear |-> Blockers = {}]
  /\ UNCHANGED <<lot, readings, excursions, inv, act, now, scanner, holds>>

Decided(decision) ==
  /\ status' = CASE decision = "RELEASE" -> "RELEASED"
                 [] decision = "REJECT"  -> "REJECTED"
                 [] decision = "HOLD"    -> status
  /\ holds' = IF decision = "HOLD" THEN holds + 1 ELSE holds
  /\ version' = version + 1 /\ evaluated' = version'
  /\ UNCHANGED <<readings, excursions, inv, act, now, scanner, seen>>

BugDecideOnAnyVersion(decision, expected) ==
  /\ status = "UNDER_REVIEW"
  /\ decision = "RELEASE" => Blockers = {}
  /\ decision = "HOLD" => holds < MaxHolds
  /\ Decided(decision)

BugReleaseUnchecked(decision, expected) ==
  /\ status = "UNDER_REVIEW" /\ expected = version
  /\ decision = "HOLD" => holds < MaxHolds
  /\ Decided(decision)

CreateDecision(decision, expected) ==
  /\ status = "UNDER_REVIEW" /\ expected = version
  /\ decision = "RELEASE" => Blockers = {}
  /\ decision = "HOLD" => holds < MaxHolds
  /\ Decided(decision)

----------------------------------------------------------------------------
(* The clock and the scan for overdue actions, which looks for work in a   *)
(* View and does it in an Update.                                          *)

Due == {a \in Act : Overdue(a) /\ ~act[a].notified}

Tick ==
  /\ now < MaxTime
  /\ now' = now + 1
  /\ UNCHANGED <<lot, readings, excursions, inv, act, scanner, seen, holds>>

BugScanUnderReviewOnly ==
  /\ scanner = "idle" /\ Due # {} /\ status \notin Terminal
  /\ scanner' = "due"
  /\ UNCHANGED <<lot, readings, excursions, inv, act, now, seen, holds>>

ScanView ==
  /\ scanner = "idle" /\ Due # {}
  /\ scanner' = "due"
  /\ UNCHANGED <<lot, readings, excursions, inv, act, now, seen, holds>>

\* The version goes up once for each action, and stays when none is left.
ScanUpdate ==
  /\ scanner = "due"
  /\ scanner' = "idle"
  /\ act' = [a \in Act |-> IF a \in Due THEN [act[a] EXCEPT !.notified = TRUE] ELSE act[a]]
  /\ version' = version + Cardinality(Due)
  /\ evaluated' = IF Due = {} THEN evaluated ELSE version'
  /\ UNCHANGED <<status, readings, excursions, inv, now, seen, holds>>

----------------------------------------------------------------------------

\* A decision carries the version of the preview the reviewer has seen
\* (README.md:37).
Next ==
  \/ CreateLot
  \/ \E new \in SUBSET (Readings \ readings) : AddReadings(new)
  \/ Evaluate
  \/ CloseMonitoring
  \/ \E i \in Inv, scope \in SUBSET Ids(active) : CreateInvestigation(i, scope)
  \/ \E i \in Inv : AddEvidence(i) \/ SubmitInvestigation(i) \/ VoidInvestigation(i)
  \/ \E a \in Act, i \in Inv, due \in 0..MaxTime : CreateAction(a, i, due)
  \/ \E a \in Act, result \in {"COMPLETED", "CANCELLED"} : UpdateAction(a, result)
  \/ ReleasePreview
  \/ \E decision \in {"RELEASE", "REJECT", "HOLD"} : CreateDecision(decision, seen.version)
  \/ Tick
  \/ ScanView \/ ScanUpdate

Spec == Init /\ [][Next]_vars

\* The overdue loop of the job manager runs as long as the process does.
FairSpec == Spec /\ WF_vars(ScanView) /\ WF_vars(ScanUpdate)

----------------------------------------------------------------------------
(* Properties.                                                             *)

InvestigationRecord ==
  [status : {"none", "OPEN", "SUBMITTED", "VOID"}, scope : SUBSET Fingerprints,
   evidence : 0..MaxEvidence]
ActionRecord ==
  [inv : Inv \cup {"none"}, due : 0..MaxTime, notified : BOOLEAN,
   status : {"none", "OPEN", "COMPLETED", "CANCELLED"}]

TypeOK ==
  /\ status \in {"none", "MONITORING", "UNDER_REVIEW"} \cup Terminal
  /\ version \in Nat /\ evaluated \in 0..version
  /\ readings \subseteq Readings
  /\ active \subseteq Excursion /\ revoked \subseteq Fingerprints
  /\ inv \in [Inv -> InvestigationRecord] /\ act \in [Act -> ActionRecord]
  /\ now \in 0..MaxTime /\ scanner \in {"idle", "due"} /\ holds \in 0..MaxHolds
  /\ seen \in [version : Nat, clear : BOOLEAN]

\* A released lot is, and stays through every later call, one whose readings
\* have no gap, whose investigations are closed and whose grave excursions are
\* all in a submitted investigation without open actions (CreateDecision,
\* releasePreview).
ReleasedSafe ==
  status = "RELEASED" =>
    /\ readings # {}
    /\ \A i \in Inv : inv[i].status # "OPEN"
    /\ \A e \in active : ~e.gap
    /\ \A e \in Grave : ~Uncovered(e) /\ OpenActions(e) = {}

\* A lot is only released by a reviewer whose preview showed no blocker: the
\* version a decision carries stands for the preview it was made on.
ReleasedAsPreviewed ==
  [][status # "RELEASED" /\ status' = "RELEASED" => seen.clear]_vars

\* What blocks, whatever it is called: time makes an OPEN_ACTION of the list an
\* OVERDUE_ACTION, with no call and no new version, and a decision records the
\* list of its own moment.
Blocking ==
  {IF b[1] = "OVERDUE_ACTION" THEN <<"OPEN_ACTION", b[2]>> ELSE b : b \in Blockers}

\* Under review, nothing starts or stops blocking without a new version, and
\* while the clock stands still the list of blockers is the same to the letter
\* (releasePreview; the version is all CreateDecision compares).
VersionGuardsBlockers ==
  [][status = "UNDER_REVIEW" /\ version' = version =>
       Blocking' = Blocking /\ (now' = now => Blockers' = Blockers)]_vars

\* No excursion belongs to two submitted investigations, not even one that was
\* revoked and came back (SubmitInvestigation).
OneSubmittedOwner ==
  \A i, j \in Submitted : i # j => inv[i].scope \cap inv[j].scope = {}

\* EvaluationVersion = Version says that the active excursions are those of
\* all accepted readings.  Most handlers set it without an evaluation.
EvaluationCurrent == evaluated = version => active = Calc[readings]

\* What an investigation covers never disappears from the lot's excursions,
\* active or revoked: the exported case holds it (evaluateState, Export).
CaseFileComplete ==
  \A i \in Inv : inv[i].scope \subseteq Ids(active) \cup revoked

\* An open action past its due date is notified or ended, whatever becomes of
\* the lot (ScanOverdue).
OverdueNoticed ==
  \A a \in Act : Overdue(a) ~> (act[a].notified \/ act[a].status # "OPEN")

\* Under review, an open investigation can still be brought to an end: its
\* scope is active and free, or it can be voided.
OpenInvestigationCanEnd ==
  \A i \in Inv :
    status = "UNDER_REVIEW" /\ inv[i].status = "OPEN"
      => CanVoid \/ (inv[i].scope \subseteq Ids(active) /\ ~InScopeOfOther(i))

=============================================================================
