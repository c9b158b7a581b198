--------------------------- MODULE LotCaseProofs ---------------------------
(***************************************************************************)
(* Theorems about LotCase, for any number of readings, investigations and  *)
(* actions, any evaluation and any bounds; and about Compliance: what the  *)
(* summary and the exported case file say of a lot agrees with the case,   *)
(* and with its release.                                                   *)
(***************************************************************************)
EXTENDS Compliance, FiniteSetTheorems, TLAPS

----------------------------------------------------------------------------
(* Types.                                                                  *)

LEMMA CalcTypes ==
  ASSUME NEW R \in SUBSET Readings
  PROVE  Calc[R] \subseteq Excursion /\ Ids(Calc[R]) \subseteq Fingerprints
BY LotAssumption DEF Ids, Excursion

\* A call that is one lot.Version++ with its EvaluationVersion.
LEMMA TouchTypes ==
  ASSUME TypeOK, Touch
  PROVE  status' = status /\ version' \in Nat /\ version' > version
         /\ evaluated' \in 0..version' /\ evaluated' = version'
BY DEF TypeOK, Touch

LEMMA RecalculateTypes ==
  ASSUME TypeOK, NEW R \in SUBSET Readings, Recalculate(R)
  PROVE  active' \subseteq Excursion /\ revoked' \subseteq Fingerprints
<1>1. Calc[R] \subseteq Excursion
  BY CalcTypes
<1>2. Ids(active) \subseteq Fingerprints
  BY DEF TypeOK, Ids, Excursion
<1> QED
  BY <1>1, <1>2 DEF TypeOK, Recalculate

\* The scan marks actions and changes nothing else of them.
LEMMA ScanMarks ==
  ASSUME TypeOK, ScanUpdate
  PROVE  /\ act' \in [Act -> ActionRecord]
         /\ \A a \in Act : act'[a].status = act[a].status /\ act'[a].inv = act[a].inv
<1>1. \A a \in Act : act[a] \in ActionRecord
  BY DEF TypeOK
<1>2. \A a \in Act :
        /\ [act[a] EXCEPT !.notified = TRUE] \in ActionRecord
        /\ [act[a] EXCEPT !.notified = TRUE].status = act[a].status
        /\ [act[a] EXCEPT !.notified = TRUE].inv = act[a].inv
  BY <1>1, Zenon DEF ActionRecord
<1>3. act' \in [Act -> ActionRecord]
  BY <1>1, <1>2 DEF ScanUpdate
<1>4. \A a \in Act : act'[a].status = act[a].status /\ act'[a].inv = act[a].inv
  BY <1>2, Zenon DEF ScanUpdate
<1> QED
  BY <1>3, <1>4

LEMMA DueCounted ==
  ASSUME TypeOK
  PROVE  /\ Cardinality(Due) \in Nat
         /\ Cardinality(Due) = 0 <=> Due = {}
<1>1. IsFiniteSet(Due)
  BY LotAssumption, FS_Subset DEF Due
<1> QED
  BY <1>1, FS_CardinalityType, FS_EmptySet

\* Before the lot is registered there is nothing of it.
Unregistered ==
  status = "none" =>
    /\ version = 0 /\ evaluated = 0
    /\ \A i \in Inv : inv[i].status = "none"
    /\ \A a \in Act : act[a].status = "none"

LEMMA TypeKept ==
  ASSUME TypeOK, Unregistered, [Next]_vars
  PROVE  TypeOK'
<1> USE LotAssumption DEF Terminal
<1>1. ASSUME CreateLot PROVE TypeOK'
  BY <1>1 DEF CreateLot, TypeOK, Unregistered, excursions, aside
<1>2. ASSUME NEW new \in SUBSET (Readings \ readings), AddReadings(new) PROVE TypeOK'
  <2>1. readings' \in SUBSET Readings
    BY <1>2 DEF AddReadings, TypeOK
  <2>2. active' \subseteq Excursion /\ revoked' \subseteq Fingerprints
    BY <1>2, <2>1, RecalculateTypes DEF AddReadings
  <2> QED
    BY <1>2, <2>1, <2>2, TouchTypes DEF AddReadings, TypeOK, aside
<1>3. ASSUME Evaluate PROVE TypeOK'
  <2>1. active' \subseteq Excursion /\ revoked' \subseteq Fingerprints
    BY <1>3, RecalculateTypes DEF Evaluate, TypeOK
  <2> QED
    BY <1>3, <2>1 DEF Evaluate, TypeOK, aside
<1>4. ASSUME CloseMonitoring PROVE TypeOK'
  <2>1. active' \subseteq Excursion /\ revoked' \subseteq Fingerprints
    BY <1>4, RecalculateTypes DEF CloseMonitoring, TypeOK
  <2> QED
    BY <1>4, <2>1 DEF CloseMonitoring, TypeOK, aside
<1>5. ASSUME NEW i \in Inv, NEW scope \in SUBSET Ids(active), CreateInvestigation(i, scope)
      PROVE  TypeOK'
  <2>1. Ids(active) \subseteq Fingerprints
    BY DEF TypeOK, Ids, Excursion
  <2>2. [status |-> "OPEN", scope |-> scope, evidence |-> 0] \in InvestigationRecord
    BY <2>1 DEF InvestigationRecord
  <2>3. inv' \in [Inv -> InvestigationRecord]
    BY <1>5, <2>2 DEF CreateInvestigation, TypeOK
  <2> QED
    BY <1>5, <2>3, TouchTypes DEF CreateInvestigation, TypeOK, excursions, aside
<1>6. ASSUME NEW i \in Inv, AddEvidence(i) PROVE TypeOK'
  <2>1. inv' \in [Inv -> InvestigationRecord]
    BY <1>6 DEF AddEvidence, TypeOK, InvestigationRecord
  <2> QED
    BY <1>6, <2>1, TouchTypes DEF AddEvidence, TypeOK, excursions, aside
<1>7. ASSUME NEW i \in Inv, SubmitInvestigation(i) \/ VoidInvestigation(i) PROVE TypeOK'
  <2>1. inv' \in [Inv -> InvestigationRecord]
    BY <1>7 DEF SubmitInvestigation, VoidInvestigation, TypeOK, InvestigationRecord
  <2> QED
    BY <1>7, <2>1, TouchTypes DEF SubmitInvestigation, VoidInvestigation, TypeOK, excursions, aside
<1>8. ASSUME NEW a \in Act, NEW i \in Inv, NEW due \in 0..MaxTime, CreateAction(a, i, due)
      PROVE  TypeOK'
  <2>1. act' \in [Act -> ActionRecord]
    BY <1>8 DEF CreateAction, TypeOK, ActionRecord
  <2> QED
    BY <1>8, <2>1, TouchTypes DEF CreateAction, TypeOK, excursions, aside
<1>9. ASSUME NEW a \in Act, NEW result \in {"COMPLETED", "CANCELLED"}, UpdateAction(a, result)
      PROVE  TypeOK'
  <2>1. act' \in [Act -> ActionRecord]
    BY <1>9 DEF UpdateAction, TypeOK, ActionRecord
  <2> QED
    BY <1>9, <2>1, TouchTypes DEF UpdateAction, TypeOK, excursions, aside
<1>10. ASSUME ReleasePreview PROVE TypeOK'
  BY <1>10 DEF ReleasePreview, TypeOK, lot, excursions
<1>11. ASSUME NEW decision \in {"RELEASE", "REJECT", "HOLD"}, CreateDecision(decision, seen.version)
       PROVE  TypeOK'
  <2>1. status' \in {"UNDER_REVIEW"} \cup Terminal
    BY <1>11 DEF CreateDecision, Decided
  <2>2. holds' \in 0..MaxHolds
    BY <1>11 DEF CreateDecision, Decided, TypeOK
  <2> QED
    BY <1>11, <2>1, <2>2 DEF CreateDecision, Decided, TypeOK, excursions
<1>12. ASSUME Tick PROVE TypeOK'
  BY <1>12 DEF Tick, TypeOK, lot, excursions
<1>13. ASSUME ScanView PROVE TypeOK'
  BY <1>13 DEF ScanView, TypeOK, lot, excursions
<1>14. ASSUME ScanUpdate PROVE TypeOK'
  <2>1. act' \in [Act -> ActionRecord]
    BY <1>14, ScanMarks
  <2>2. version' \in Nat /\ evaluated' \in 0..version'
    BY <1>14, DueCounted DEF ScanUpdate, TypeOK
  <2> QED
    BY <1>14, <2>1, <2>2 DEF ScanUpdate, TypeOK, excursions
<1>15. CASE UNCHANGED vars
  BY <1>15 DEF vars, lot, excursions, aside, TypeOK
<1> QED
  BY <1>1, <1>2, <1>3, <1>4, <1>5, <1>6, <1>7, <1>8, <1>9, <1>10, <1>11, <1>12,
     <1>13, <1>14, <1>15 DEF Next

LEMMA InitTypes ==
  ASSUME Init
  PROVE  TypeOK
<1>1. [status |-> "none", scope |-> {}, evidence |-> 0] \in InvestigationRecord
  BY LotAssumption DEF InvestigationRecord
<1>2. NoAction \in ActionRecord
  BY LotAssumption DEF NoAction, ActionRecord
<1> QED
  BY <1>1, <1>2, LotAssumption DEF Init, TypeOK, Terminal

LEMMA UnregisteredKept ==
  ASSUME TypeOK, Unregistered, [Next]_vars
  PROVE  Unregistered'
<1> SUFFICES ASSUME status = "none", status' = "none" PROVE Unregistered'
  <2>1. CASE status' # "none"
    BY <2>1 DEF Unregistered
  <2>2. CASE status # "none"
    <3>1. status' # "none"
      BY <2>2 DEF Next, vars, lot, CreateLot, AddReadings, Evaluate, CloseMonitoring,
                  CreateInvestigation, AddEvidence, SubmitInvestigation, VoidInvestigation,
                  CreateAction, UpdateAction, ReleasePreview, CreateDecision, Decided, Tick,
                  ScanView, ScanUpdate, Touch
    <3> QED
      BY <3>1 DEF Unregistered
  <2> QED
    BY <2>1, <2>2
<1>1. /\ version = 0 /\ evaluated = 0
      /\ \A i \in Inv : inv[i].status = "none"
      /\ \A a \in Act : act[a].status = "none"
  BY DEF Unregistered
<1>2. Due = {}
  BY <1>1 DEF Due, Overdue
<1>3. CASE ScanUpdate
  <2>1. version' = 0 /\ evaluated' = 0 /\ inv' = inv
    BY <1>1, <1>2, <1>3, FS_EmptySet DEF ScanUpdate
  <2> QED
    BY <1>1, <1>3, <2>1, ScanMarks DEF Unregistered
<1>4. CASE UNCHANGED vars
  BY <1>1, <1>4 DEF vars, lot, Unregistered
<1>5. CASE ReleasePreview \/ Tick \/ ScanView
  BY <1>1, <1>5 DEF ReleasePreview, Tick, ScanView, lot, Unregistered
<1>6. CASE Next /\ ~ScanUpdate /\ ~ReleasePreview /\ ~Tick /\ ~ScanView
  BY <1>1, <1>6 DEF Next, CreateLot, AddReadings, Evaluate, CloseMonitoring,
                    CreateInvestigation, AddEvidence, SubmitInvestigation,
                    VoidInvestigation, CreateAction, UpdateAction, CreateDecision
<1> QED
  BY <1>3, <1>4, <1>5, <1>6

\* Every call keeps the types of the case (service.go).
THEOREM TypeCorrect == Spec => []TypeOK
<1>1. Init => TypeOK /\ Unregistered
  BY InitTypes DEF Init, Unregistered, NoAction
<1>2. TypeOK /\ Unregistered /\ [Next]_vars => (TypeOK /\ Unregistered)'
  BY TypeKept, UnregisteredKept
<1> QED
  BY <1>1, <1>2, PTL DEF Spec

----------------------------------------------------------------------------
(* What a step leaves alone.                                               *)

\* Four calls change investigations.
LEMMA InvFrame ==
  ASSUME [Next]_vars
  PROVE  \/ inv' = inv
         \/ \E i \in Inv, scope \in SUBSET Ids(active) : CreateInvestigation(i, scope)
         \/ \E i \in Inv : AddEvidence(i) \/ SubmitInvestigation(i) \/ VoidInvestigation(i)
BY DEF Next, vars, aside, CreateLot, AddReadings, Evaluate, CloseMonitoring, CreateAction,
       UpdateAction, ReleasePreview, CreateDecision, Decided, Tick, ScanView, ScanUpdate

\* Three calls evaluate: the new excursions are those of the new readings, and
\* no ID is lost.
LEMMA EvaluationFrame ==
  ASSUME [Next]_vars
  PROVE  \/ UNCHANGED <<readings, active, revoked>>
         \/ /\ active' = Calc[readings']
            /\ Ids(active) \cup revoked \subseteq Ids(active)' \cup revoked'
            /\ \/ status = "MONITORING"
               \/ UNCHANGED <<status, version, readings, inv, act, seen>> /\ evaluated' = version
<1>1. ASSUME NEW R, Recalculate(R)
      PROVE  active' = Calc[R] /\ Ids(active) \cup revoked \subseteq Ids(active)' \cup revoked'
  BY <1>1 DEF Recalculate, Ids
<1>2. CASE \E new \in SUBSET (Readings \ readings) : AddReadings(new)
  BY <1>1, <1>2 DEF AddReadings
<1>3. CASE Evaluate
  BY <1>1, <1>3 DEF Evaluate, aside
<1>4. CASE CloseMonitoring
  BY <1>1, <1>4 DEF CloseMonitoring
<1>5. CASE ~(\E new \in SUBSET (Readings \ readings) : AddReadings(new))
           /\ ~Evaluate /\ ~CloseMonitoring
  BY <1>5 DEF Next, vars, excursions, CreateLot, CreateInvestigation, AddEvidence,
              SubmitInvestigation, VoidInvestigation, CreateAction, UpdateAction,
              ReleasePreview, CreateDecision, Decided, Tick, ScanView, ScanUpdate
<1> QED
  BY <1>2, <1>3, <1>4, <1>5

\* The version never falls, and a step that keeps it changes nothing a blocker
\* is made of but EvaluationVersion.
LEMMA VersionFrame ==
  ASSUME TypeOK, Unregistered, [Next]_vars
  PROVE  /\ version' >= version
         /\ version' = version =>
              /\ UNCHANGED <<status, readings, inv, act>>
              /\ UNCHANGED evaluated \/ evaluated' = version
<1> USE DEF TypeOK
<1>1. CASE ScanUpdate
  <2>1. version' = version => Due = {}
    BY <1>1, DueCounted DEF ScanUpdate
  <2>2. Due = {} => act' = act
    BY <1>1 DEF ScanUpdate
  <2> QED
    BY <1>1, <2>1, <2>2, DueCounted DEF ScanUpdate
<1>2. CASE CreateLot
  BY <1>2 DEF CreateLot, Unregistered
<1>3. CASE Evaluate \/ ReleasePreview \/ Tick \/ ScanView \/ UNCHANGED vars
  BY <1>3 DEF Evaluate, ReleasePreview, Tick, ScanView, vars, lot
<1>4. CASE \/ \E new \in SUBSET (Readings \ readings) : AddReadings(new)
           \/ \E i \in Inv, scope \in SUBSET Ids(active) : CreateInvestigation(i, scope)
           \/ \E i \in Inv : AddEvidence(i) \/ SubmitInvestigation(i) \/ VoidInvestigation(i)
           \/ \E a \in Act, i \in Inv, due \in 0..MaxTime : CreateAction(a, i, due)
           \/ \E a \in Act, result \in {"COMPLETED", "CANCELLED"} : UpdateAction(a, result)
  <2>1. Touch
    BY <1>4 DEF AddReadings, CreateInvestigation, AddEvidence, SubmitInvestigation,
                VoidInvestigation, CreateAction, UpdateAction
  <2> QED
    BY <2>1 DEF Touch
<1>5. CASE CloseMonitoring
  BY <1>5 DEF CloseMonitoring
<1>6. CASE \E decision \in {"RELEASE", "REJECT", "HOLD"} : CreateDecision(decision, seen.version)
  <2>1. version' = version + 1
    BY <1>6 DEF CreateDecision, Decided
  <2> QED
    BY <2>1
<1> QED
  BY <1>1, <1>2, <1>3, <1>4, <1>5, <1>6 DEF Next

----------------------------------------------------------------------------
(* Excursions.                                                             *)

\* The active excursions are those of all accepted readings: only the calls
\* that change the readings or the evaluation's result evaluate.
ActiveIsCalc == active = Calc[readings]

LEMMA ActiveIsCalcKept ==
  ASSUME ActiveIsCalc, [Next]_vars
  PROVE  ActiveIsCalc'
BY EvaluationFrame DEF ActiveIsCalc

\* EvaluationVersion = Version never says "current" of excursions that are not
\* (evaluateState).
THEOREM EvaluationIsCurrent == Spec => []EvaluationCurrent
<1>1. Init => ActiveIsCalc
  BY LotAssumption DEF Init, ActiveIsCalc
<1>2. ActiveIsCalc /\ [Next]_vars => ActiveIsCalc'
  BY ActiveIsCalcKept
<1>3. ActiveIsCalc => EvaluationCurrent
  BY DEF ActiveIsCalc, EvaluationCurrent
<1> QED
  BY <1>1, <1>2, <1>3, PTL DEF Spec

LEMMA CaseFileKept ==
  ASSUME TypeOK, CaseFileComplete, [Next]_vars
  PROVE  CaseFileComplete'
<1>1. Ids(active) \cup revoked \subseteq Ids(active)' \cup revoked'
  <2>1. CASE UNCHANGED <<readings, active, revoked>>
    BY <2>1 DEF Ids
  <2> QED
    BY <2>1, EvaluationFrame
<1>2. ASSUME NEW k \in Inv
      PROVE  inv'[k].scope = inv[k].scope \/ inv'[k].scope \subseteq Ids(active)
  <2>1. CASE inv' = inv
    BY <2>1
  <2>2. ASSUME NEW i \in Inv, NEW scope \in SUBSET Ids(active), CreateInvestigation(i, scope)
        PROVE  inv'[k].scope = inv[k].scope \/ inv'[k].scope \subseteq Ids(active)
    BY <2>2 DEF CreateInvestigation, TypeOK
  <2>3. ASSUME NEW i \in Inv, AddEvidence(i) \/ SubmitInvestigation(i) \/ VoidInvestigation(i)
        PROVE  inv'[k].scope = inv[k].scope
    BY <2>3 DEF AddEvidence, SubmitInvestigation, VoidInvestigation, TypeOK, InvestigationRecord
  <2> QED
    BY <2>1, <2>2, <2>3, InvFrame
<1> QED
  BY <1>1, <1>2 DEF CaseFileComplete

\* Whatever is evaluated, revoked or found again, what an investigation covers
\* stays in the case that Export writes.
THEOREM CaseFileStaysComplete == Spec => []CaseFileComplete
<1>1. Init => CaseFileComplete
  BY DEF Init, CaseFileComplete
<1>2. TypeOK /\ CaseFileComplete /\ [Next]_vars => CaseFileComplete'
  BY CaseFileKept
<1> QED
  BY <1>1, <1>2, TypeCorrect, PTL DEF Spec

----------------------------------------------------------------------------
(* Investigations.                                                         *)

\* Apart from SubmitInvestigation, no call makes an investigation submitted or
\* moves the scope of one that is.
LEMMA OwnersKept ==
  ASSUME TypeOK, OneSubmittedOwner, [Next]_vars
  PROVE  OneSubmittedOwner'
<1>1. CASE inv' = inv
  BY <1>1 DEF OneSubmittedOwner, Submitted
<1>2. ASSUME NEW i \in Inv, NEW scope \in SUBSET Ids(active), CreateInvestigation(i, scope)
      PROVE  OneSubmittedOwner'
  <2>1. Submitted' \subseteq Submitted /\ \A k \in Submitted' : inv'[k].scope = inv[k].scope
    BY <1>2 DEF CreateInvestigation, TypeOK, Submitted
  <2> QED
    BY <2>1 DEF OneSubmittedOwner
<1>3. ASSUME NEW i \in Inv, AddEvidence(i) PROVE OneSubmittedOwner'
  <2>1. \A k \in Inv : inv'[k].status = inv[k].status /\ inv'[k].scope = inv[k].scope
    BY <1>3 DEF AddEvidence, TypeOK, InvestigationRecord
  <2> QED
    BY <2>1 DEF OneSubmittedOwner, Submitted
<1>4. ASSUME NEW i \in Inv, VoidInvestigation(i) PROVE OneSubmittedOwner'
  <2>1. \A k \in Inv : inv'[k].scope = inv[k].scope
    BY <1>4 DEF VoidInvestigation, TypeOK, InvestigationRecord
  <2>2. Submitted' \subseteq Submitted
    BY <1>4 DEF VoidInvestigation, TypeOK, InvestigationRecord, Submitted
  <2> QED
    BY <2>1, <2>2 DEF OneSubmittedOwner, Submitted
<1>5. ASSUME NEW i \in Inv, SubmitInvestigation(i) PROVE OneSubmittedOwner'
  <2>1. \A k \in Inv : inv'[k].scope = inv[k].scope
    BY <1>5 DEF SubmitInvestigation, TypeOK, InvestigationRecord
  <2>2. Submitted' = Submitted \cup {i}
    BY <1>5 DEF SubmitInvestigation, TypeOK, InvestigationRecord, Submitted
  <2>3. \A j \in Submitted \ {i} : inv[i].scope \cap inv[j].scope = {}
    BY <1>5 DEF SubmitInvestigation, InScopeOfOther
  <2> QED
    BY <2>1, <2>2, <2>3 DEF OneSubmittedOwner, Submitted
<1> QED
  BY <1>1, <1>2, <1>3, <1>4, <1>5, InvFrame

\* An excursion has one submitted owner at most, also one that was revoked and
\* came back with its old ID (SubmitInvestigation).
THEOREM SubmittedOwnersDisjoint == Spec => []OneSubmittedOwner
<1>1. Init => OneSubmittedOwner
  BY DEF Init, OneSubmittedOwner, Submitted
<1>2. TypeOK /\ OneSubmittedOwner /\ [Next]_vars => OneSubmittedOwner'
  BY OwnersKept
<1> QED
  BY <1>1, <1>2, TypeCorrect, PTL DEF Spec

----------------------------------------------------------------------------
(* The release.                                                            *)

\* An empty list of blockers, blocker by blocker (releasePreview).
LEMMA NoBlockers ==
  ASSUME Blockers = {}
  PROVE  /\ status = "UNDER_REVIEW" /\ evaluated = version /\ readings # {}
         /\ \A i \in Inv : inv[i].status # "OPEN"
         /\ \A e \in active : ~e.gap
         /\ \A e \in Grave : ~Uncovered(e) /\ OpenActions(e) = {}
<1>1. /\ BlockerIf("MONITORING_NOT_CLOSED", status # "UNDER_REVIEW") = {}
      /\ BlockerIf("STALE_EVALUATION", evaluated # version) = {}
      /\ BlockerIf("NO_READINGS", readings = {}) = {}
      /\ {<<"OPEN_INVESTIGATION", i>> : i \in {j \in Inv : inv[j].status = "OPEN"}} = {}
      /\ {<<"READING_GAP", e.fp>> : e \in {d \in active : d.gap}} = {}
      /\ {<<"UNINVESTIGATED_EXCURSION", e.fp>> : e \in {d \in Grave : Uncovered(d)}} = {}
      /\ {<<ActionCode(a), a>> : a \in UNION {OpenActions(e) : e \in Grave}} = {}
  BY Zenon DEF Blockers
<1>2. status = "UNDER_REVIEW" /\ evaluated = version /\ readings # {}
  BY <1>1 DEF BlockerIf
<1>3. {j \in Inv : inv[j].status = "OPEN"} = {}
  BY <1>1
<1>4. {d \in active : d.gap} = {} /\ {d \in Grave : Uncovered(d)} = {}
  BY <1>1, Zenon
<1>5. \A S : {<<ActionCode(a), a>> : a \in S} = {} => S = {}
  OBVIOUS
<1>6. \A e \in Grave : OpenActions(e) = {}
  <2>1. UNION {OpenActions(e) : e \in Grave} = {}
    BY <1>1, <1>5, Zenon
  <2> QED
    BY <2>1
<1> QED
  BY <1>2, <1>3, <1>4, <1>6, Zenon

\* A released lot is out of every call's reach that could unsettle it: no
\* investigation is open, so none can be worked on and no action created.
LEMMA ReleasedKept ==
  ASSUME TypeOK, Unregistered, ActiveIsCalc, ReleasedSafe, [Next]_vars
  PROVE  ReleasedSafe'
<1> SUFFICES ASSUME status' = "RELEASED" PROVE ReleasedSafe'
  BY DEF ReleasedSafe
<1>1. CASE \E decision \in {"RELEASE", "REJECT", "HOLD"} : CreateDecision(decision, seen.version)
  <2>1. PICK decision \in {"RELEASE", "REJECT", "HOLD"} : CreateDecision(decision, seen.version)
    BY <1>1
  <2>2. decision = "RELEASE"
    BY <2>1 DEF CreateDecision, Decided
  <2>3. Blockers = {} /\ UNCHANGED <<readings, active, inv, act>>
    BY <2>1, <2>2 DEF CreateDecision, Decided, excursions
  <2> QED
    BY <2>3, NoBlockers DEF ReleasedSafe, Grave, Uncovered, OpenActions, Submitted
<1>2. CASE ~\E decision \in {"RELEASE", "REJECT", "HOLD"} : CreateDecision(decision, seen.version)
  <2>1. status = "RELEASED"
    BY <1>2 DEF Next, vars, lot, CreateLot, AddReadings, Evaluate, CloseMonitoring,
                CreateInvestigation, AddEvidence, SubmitInvestigation, VoidInvestigation,
                CreateAction, UpdateAction, ReleasePreview, Tick, ScanView, ScanUpdate, Touch
  <2>2. /\ readings # {}
        /\ \A i \in Inv : inv[i].status # "OPEN"
        /\ \A e \in active : ~e.gap
        /\ \A e \in Grave : ~Uncovered(e) /\ OpenActions(e) = {}
    BY <2>1, Zenon DEF ReleasedSafe
  <2>3. inv' = inv
    BY <2>1, <2>2, InvFrame
       DEF CreateInvestigation, AddEvidence, SubmitInvestigation, VoidInvestigation
  <2>4. readings' = readings /\ active' = active
    BY <2>1, EvaluationFrame DEF ActiveIsCalc
  <2>5. \A a \in Act : act'[a].status = "OPEN" =>
          act[a].status = "OPEN" /\ act'[a].inv = act[a].inv
    <3>1. CASE ScanUpdate
      BY <3>1, ScanMarks
    <3>2. ASSUME NEW a \in Act, NEW result \in {"COMPLETED", "CANCELLED"}, UpdateAction(a, result)
          PROVE  <2>5
      BY <3>2 DEF UpdateAction, TypeOK, ActionRecord
    <3>3. CASE /\ ~ScanUpdate
               /\ ~\E a \in Act, result \in {"COMPLETED", "CANCELLED"} : UpdateAction(a, result)
      <4>1. act' = act
        BY <3>3, <1>2, <2>2 DEF Next, vars, aside, CreateLot, AddReadings, Evaluate,
           CloseMonitoring, CreateInvestigation, AddEvidence, SubmitInvestigation,
           VoidInvestigation, CreateAction, ReleasePreview, Tick, ScanView
      <4> QED
        BY <4>1
    <3> QED
      BY <3>1, <3>2, <3>3
  <2>6. Submitted' = Submitted /\ Grave' = Grave
    BY <2>3, <2>4 DEF Submitted, Grave
  <2>7. \A e \in Grave : OpenActions(e)' \subseteq OpenActions(e)
    BY <2>3, <2>5, <2>6 DEF OpenActions
  <2>8. \A e \in Grave : ~Uncovered(e)'
    BY <2>2, <2>3, <2>6 DEF Uncovered
  <2> QED
    BY <2>2, <2>3, <2>4, <2>6, <2>7, <2>8 DEF ReleasedSafe
<1> QED
  BY <1>1, <1>2

\* Nothing that happens to a released lot takes back what it was released on
\* (CreateDecision, and every call a released lot still accepts).
THEOREM ReleasedStaysSafe == Spec => []ReleasedSafe
<1>1. Init => TypeOK /\ Unregistered /\ ActiveIsCalc /\ ReleasedSafe
  BY InitTypes, LotAssumption DEF Init, Unregistered, ActiveIsCalc, ReleasedSafe, NoAction
<1>2. TypeOK /\ Unregistered /\ ActiveIsCalc /\ ReleasedSafe /\ [Next]_vars
        => (TypeOK /\ Unregistered /\ ActiveIsCalc /\ ReleasedSafe)'
  BY TypeKept, UnregisteredKept, ActiveIsCalcKept, ReleasedKept
<1> QED
  BY <1>1, <1>2, PTL DEF Spec

----------------------------------------------------------------------------
(* The version a decision is made on.                                      *)

\* From the close on the evaluation is never stale: no call can change a
\* blocker by bringing EvaluationVersion up to date.
ReviewIsEvaluated == status \in {"UNDER_REVIEW"} \cup Terminal => evaluated = version

LEMMA ReviewIsEvaluatedKept ==
  ASSUME TypeOK, Unregistered, ReviewIsEvaluated, [Next]_vars
  PROVE  ReviewIsEvaluated'
<1>1. CASE version' = version
  BY <1>1, VersionFrame DEF ReviewIsEvaluated, Terminal
<1>2. CASE version' # version
  <2>1. evaluated' = version' \/ status' = "MONITORING"
    <3>1. CASE ScanUpdate
      <4>1. Due # {}
        BY <1>2, <3>1, DueCounted DEF ScanUpdate, TypeOK
      <4> QED
        BY <3>1, <4>1 DEF ScanUpdate
    <3>2. CASE ~ScanUpdate
      BY <1>2, <3>2 DEF Next, vars, lot, CreateLot, AddReadings, Evaluate, CloseMonitoring,
         CreateInvestigation, AddEvidence, SubmitInvestigation, VoidInvestigation,
         CreateAction, UpdateAction, ReleasePreview, CreateDecision, Decided, Tick,
         ScanView, Touch
    <3> QED
      BY <3>1, <3>2
  <2> QED
    BY <2>1 DEF ReviewIsEvaluated, Terminal
<1> QED
  BY <1>1, <1>2

Called(b) == IF b[1] = "OVERDUE_ACTION" THEN <<"OPEN_ACTION", b[2]>> ELSE b

\* The list of blockers is empty exactly when nothing blocks.
LEMMA NothingBlocks == Blockers = {} <=> Blocking = {}
  BY DEF Blocking

\* The same after a step.
LEMMA NothingBlocksThen == (Blockers = {})' <=> (Blocking = {})'
  BY NothingBlocks, PTL

ActionsBlocking == UNION {OpenActions(e) : e \in Grave}

OtherBlockers ==
  UNION {BlockerIf("MONITORING_NOT_CLOSED", status # "UNDER_REVIEW"),
         BlockerIf("STALE_EVALUATION", evaluated # version),
         BlockerIf("NO_READINGS", readings = {}),
         {<<"OPEN_INVESTIGATION", i>> : i \in {j \in Inv : inv[j].status = "OPEN"}},
         {<<"READING_GAP", e.fp>> : e \in {d \in active : d.gap}},
         {<<"UNINVESTIGATED_EXCURSION", e.fp>> : e \in {d \in Grave : Uncovered(d)}}}

InParts ==
  Blockers = OtherBlockers \cup {<<ActionCode(a), a>> : a \in ActionsBlocking}

\* The clock is only in the code that an action has in Blockers.
BlockingInParts ==
  Blocking = {Called(b) : b \in OtherBlockers} \cup {<<"OPEN_ACTION", a>> : a \in ActionsBlocking}

\* The open actions apart from the other blockers (releasePreview).
LEMMA BlockersInParts == InParts /\ BlockingInParts
<1>1. InParts
  BY Zenon DEF InParts, Blockers, OtherBlockers, ActionsBlocking
<1>2. Blocking = {Called(b) : b \in OtherBlockers}
                   \cup {Called(<<ActionCode(a), a>>) : a \in ActionsBlocking}
  BY <1>1 DEF Blocking, Called, InParts
<1>3. \A a : Called(<<ActionCode(a), a>>) = <<"OPEN_ACTION", a>>
  BY DEF Called, ActionCode
<1> QED
  BY <1>1, <1>2, <1>3 DEF BlockingInParts

\* The same after a step.
LEMMA InPartsThen == InParts' /\ BlockingInParts'
  BY BlockersInParts, PTL

\* A step that keeps the version of a lot under review keeps what blocks it.
LEMMA BlockersKept ==
  ASSUME TypeOK, Unregistered, ActiveIsCalc, ReviewIsEvaluated, [Next]_vars,
         status = "UNDER_REVIEW", version' = version
  PROVE  /\ status' = "UNDER_REVIEW" /\ Blocking' = Blocking
         /\ now' = now => Blockers' = Blockers
<1>1. UNCHANGED <<status, version, evaluated, readings, inv, act>>
  BY VersionFrame DEF ReviewIsEvaluated
<1>2. active' = active
  BY <1>1, EvaluationFrame DEF ActiveIsCalc
<1>3. Submitted' = Submitted /\ Grave' = Grave
  BY <1>1, <1>2 DEF Submitted, Grave
<1>4. \A e : Uncovered(e)' = Uncovered(e) /\ OpenActions(e)' = OpenActions(e)
  BY <1>1, <1>3 DEF Uncovered, OpenActions
<1>5. ActionsBlocking' = ActionsBlocking
  BY <1>3, <1>4 DEF ActionsBlocking
<1>6. OtherBlockers' = OtherBlockers
  BY <1>1, <1>2, <1>3, <1>4 DEF OtherBlockers, BlockerIf
<1>7. Blocking' = Blocking
  BY <1>5, <1>6, BlockersInParts, InPartsThen DEF BlockingInParts, Called
<1>8. ASSUME now' = now PROVE Blockers' = Blockers
  <2>1. \A a : ActionCode(a)' = ActionCode(a)
    BY <1>1, <1>8 DEF ActionCode, Overdue
  <2> QED
    BY <1>5, <1>6, <2>1, BlockersInParts, InPartsThen DEF InParts
<1> QED
  BY <1>1, <1>7, <1>8

\* The reviewer's preview is never of a later version than the lot's, and
\* while it is of the lot's own version it says what a preview would say now.
SeenTrue ==
  /\ seen.version <= version
  /\ status = "UNDER_REVIEW" /\ seen.version = version /\ Blockers = {} => seen.clear

LEMMA SeenTrueKept ==
  ASSUME TypeOK, Unregistered, ActiveIsCalc, ReviewIsEvaluated, SeenTrue, [Next]_vars
  PROVE  SeenTrue'
<1>1. CASE ReleasePreview
  <2>1. /\ UNCHANGED <<status, version, evaluated, readings, active, inv, act>>
        /\ seen' = [version |-> version, clear |-> Blockers = {}]
    BY <1>1 DEF ReleasePreview, lot, excursions
  <2>2. seen'.version = version' /\ (Blockers = {} => seen'.clear)
    BY <2>1, Zenon
  <2>3. status' = "UNDER_REVIEW" => (Blockers' = {} => Blockers = {})
    <3>1. ASSUME status' = "UNDER_REVIEW", Blockers' = {} PROVE Blockers = {}
      <4>1. Blocking' = Blocking
        BY <2>1, <3>1, BlockersKept
      <4> QED
        BY <3>1, <4>1, NothingBlocks, NothingBlocksThen
    <3> QED
      BY <3>1
  <2>4. version' \in Nat
    BY <2>1 DEF TypeOK
  <2> QED
    BY <2>2, <2>3, <2>4 DEF SeenTrue
<1>2. CASE ~ReleasePreview
  <2>1. seen' = seen
    BY <1>2 DEF Next, vars, aside, CreateLot, AddReadings, Evaluate, CloseMonitoring,
       CreateInvestigation, AddEvidence, SubmitInvestigation, VoidInvestigation,
       CreateAction, UpdateAction, CreateDecision, Decided, Tick, ScanView, ScanUpdate
  <2>2. seen.version \in Nat /\ version \in Nat /\ version' \in Nat /\ version' >= version
    BY TypeKept, VersionFrame DEF TypeOK
  <2>3. seen'.version <= version'
    BY <2>1, <2>2 DEF SeenTrue
  <2>4. ASSUME status' = "UNDER_REVIEW", seen'.version = version', Blockers' = {}
        PROVE  seen'.clear
    <3>1. version' = version /\ seen.version = version
      BY <2>1, <2>2, <2>4 DEF SeenTrue
    <3>2. status = "UNDER_REVIEW"
      BY <2>4, <3>1, VersionFrame
    <3>3. Blocking' = Blocking
      BY <3>1, <3>2, BlockersKept
    <3>4. Blockers = {}
      BY <2>4, <3>3, NothingBlocks, NothingBlocksThen
    <3> QED
      BY <2>1, <3>1, <3>2, <3>4 DEF SeenTrue
  <2> QED
    BY <2>3, <2>4 DEF SeenTrue
<1> QED
  BY <1>1, <1>2

ReviewInv ==
  TypeOK /\ Unregistered /\ ActiveIsCalc /\ ReviewIsEvaluated /\ SeenTrue

LEMMA ReviewInvariant == Spec => []ReviewInv
<1>1. Init => ReviewInv
  <2>1. ASSUME Init PROVE SeenTrue
    BY <2>1 DEF Init, SeenTrue
  <2> QED
    BY <2>1, InitTypes, LotAssumption
       DEF Init, ReviewInv, Unregistered, NoAction, ActiveIsCalc, ReviewIsEvaluated, Terminal
<1>2. ReviewInv /\ [Next]_vars => ReviewInv'
  BY TypeKept, UnregisteredKept, ActiveIsCalcKept, ReviewIsEvaluatedKept, SeenTrueKept
     DEF ReviewInv
<1> QED
  BY <1>1, <1>2, PTL DEF Spec

\* Under review no call, not even an evaluation or the overdue scan, and no
\* time that passes changes what blocks without raising the version that
\* decisions are checked against; time alone may turn an open action of the
\* list into an overdue one (releasePreview).
THEOREM VersionStandsForBlockers == Spec => VersionGuardsBlockers
<1>1. ReviewInv /\ [Next]_vars
        => [status = "UNDER_REVIEW" /\ version' = version =>
              Blocking' = Blocking /\ (now' = now => Blockers' = Blockers)]_vars
  BY BlockersKept DEF ReviewInv
<1> QED
  BY <1>1, ReviewInvariant, PTL DEF Spec, VersionGuardsBlockers

\* The step from any other status to RELEASED is taken by a reviewer whose
\* preview showed no blocker (CreateDecision's ExpectedVersion).
THEOREM ReleaseNeedsClearPreview == Spec => ReleasedAsPreviewed
<1>1. ASSUME ReviewInv, [Next]_vars, status # "RELEASED", status' = "RELEASED"
      PROVE  seen.clear
  <2>1. PICK decision \in {"RELEASE", "REJECT", "HOLD"} : CreateDecision(decision, seen.version)
    BY <1>1 DEF Next, vars, lot, CreateLot, AddReadings, Evaluate, CloseMonitoring,
       CreateInvestigation, AddEvidence, SubmitInvestigation, VoidInvestigation,
       CreateAction, UpdateAction, ReleasePreview, Tick, ScanView, ScanUpdate, Touch
  <2>2. decision = "RELEASE"
    BY <1>1, <2>1 DEF CreateDecision, Decided
  <2>3. status = "UNDER_REVIEW" /\ seen.version = version /\ Blockers = {}
    BY <2>1, <2>2 DEF CreateDecision
  <2> QED
    BY <1>1, <2>3 DEF ReviewInv, SeenTrue
<1>2. ReviewInv /\ [Next]_vars
        => [status # "RELEASED" /\ status' = "RELEASED" => seen.clear]_vars
  BY <1>1
<1> QED
  BY <1>2, ReviewInvariant, PTL DEF Spec, ReleasedAsPreviewed

----------------------------------------------------------------------------
(* What the readers of the case rely on without looking.                   *)

\* No excursion is active and revoked.
Apart == Ids(active) \cap revoked = {}

\* A submitted investigation has evidence.
Evidenced == \A i \in Submitted : inv[i].evidence # 0

\* An action that was not created belongs to no investigation.
Unlinked == \A a \in Act : act[a].status = "none" => act[a].inv = "none"

CaseInv ==
  /\ TypeOK /\ Unregistered /\ ActiveIsCalc /\ CaseFileComplete
  /\ Apart /\ Evidenced /\ Unlinked

LEMMA ApartKept ==
  ASSUME Apart, [Next]_vars
  PROVE  Apart'
<1>1. ASSUME NEW R, Recalculate(R) PROVE Apart'
  BY <1>1 DEF Recalculate, Apart, Ids
<1>2. CASE \E new \in SUBSET (Readings \ readings) : AddReadings(new)
  BY <1>1, <1>2 DEF AddReadings
<1>3. CASE Evaluate \/ CloseMonitoring
  BY <1>1, <1>3 DEF Evaluate, CloseMonitoring
<1>4. CASE ~(\E new \in SUBSET (Readings \ readings) : AddReadings(new))
           /\ ~Evaluate /\ ~CloseMonitoring
  <2>1. UNCHANGED <<active, revoked>>
    BY <1>4 DEF Next, vars, excursions, CreateLot, CreateInvestigation, AddEvidence,
                SubmitInvestigation, VoidInvestigation, CreateAction, UpdateAction,
                ReleasePreview, CreateDecision, Decided, Tick, ScanView, ScanUpdate
  <2> QED
    BY <2>1 DEF Apart, Ids
<1> QED
  BY <1>2, <1>3, <1>4

\* Evidence is only added, and a submission asks for it.
LEMMA EvidencedKept ==
  ASSUME TypeOK, Evidenced, [Next]_vars
  PROVE  Evidenced'
<1> USE DEF Evidenced, Submitted
<1>1. CASE inv' = inv
  BY <1>1
<1>2. ASSUME NEW i \in Inv, NEW scope \in SUBSET Ids(active), CreateInvestigation(i, scope)
      PROVE  Evidenced'
  BY <1>2 DEF CreateInvestigation, TypeOK
<1>3. ASSUME NEW i \in Inv, AddEvidence(i) PROVE Evidenced'
  <2>1. inv[i].evidence + 1 # 0
    BY LotAssumption DEF TypeOK, InvestigationRecord
  <2> QED
    BY <1>3, <2>1 DEF AddEvidence, TypeOK, InvestigationRecord
<1>4. ASSUME NEW i \in Inv, SubmitInvestigation(i) PROVE Evidenced'
  BY <1>4 DEF SubmitInvestigation, TypeOK, InvestigationRecord
<1>5. ASSUME NEW i \in Inv, VoidInvestigation(i) PROVE Evidenced'
  BY <1>5 DEF VoidInvestigation, TypeOK, InvestigationRecord
<1> QED
  BY <1>1, <1>2, <1>3, <1>4, <1>5, InvFrame

\* Three calls change actions.
LEMMA ActFrame ==
  ASSUME [Next]_vars
  PROVE  \/ act' = act
         \/ \E a \in Act, i \in Inv, due \in 0..MaxTime : CreateAction(a, i, due)
         \/ \E a \in Act, result \in {"COMPLETED", "CANCELLED"} : UpdateAction(a, result)
         \/ ScanUpdate
BY DEF Next, vars, aside, CreateLot, AddReadings, Evaluate, CloseMonitoring,
       CreateInvestigation, AddEvidence, SubmitInvestigation, VoidInvestigation,
       ReleasePreview, CreateDecision, Decided, Tick, ScanView

LEMMA UnlinkedKept ==
  ASSUME TypeOK, Unlinked, [Next]_vars
  PROVE  Unlinked'
<1> USE DEF Unlinked
<1>1. CASE act' = act
  BY <1>1
<1>2. ASSUME NEW a \in Act, NEW i \in Inv, NEW due \in 0..MaxTime, CreateAction(a, i, due)
      PROVE  Unlinked'
  BY <1>2 DEF CreateAction, TypeOK
<1>3. ASSUME NEW a \in Act, NEW result \in {"COMPLETED", "CANCELLED"}, UpdateAction(a, result)
      PROVE  Unlinked'
  BY <1>3 DEF UpdateAction, TypeOK, ActionRecord
<1>4. CASE ScanUpdate
  BY <1>4, ScanMarks
<1> QED
  BY <1>1, <1>2, <1>3, <1>4, ActFrame

LEMMA CaseInvariant == Spec => []CaseInv
<1>1. Init => CaseInv
  BY InitTypes, LotAssumption
     DEF Init, CaseInv, Unregistered, NoAction, ActiveIsCalc, CaseFileComplete, Apart,
         Evidenced, Submitted, Unlinked, Ids
<1>2. CaseInv /\ [Next]_vars => CaseInv'
  BY TypeKept, UnregisteredKept, ActiveIsCalcKept, CaseFileKept, ApartKept, EvidencedKept,
     UnlinkedKept DEF CaseInv
<1> QED
  BY <1>1, <1>2, PTL DEF Spec

----------------------------------------------------------------------------
(* The case file.                                                          *)

\* An investigation is complete when it was submitted, for none of the four
\* things a submission asks for is missing then.
LEMMA CompleteIsSubmitted ==
  ASSUME TypeOK, Evidenced, NEW i \in Inv
  PROVE  InvestigationCase(i).complete <=> inv[i].status = "SUBMITTED"
<1>1. inv[i].status = "SUBMITTED" => Missing(i) = {}
  BY DEF Evidenced, Submitted, Missing
<1>2. InvestigationCase(i).complete <=> inv[i].status = "SUBMITTED" /\ Missing(i) = {}
  BY Zenon DEF InvestigationCase
<1> QED
  BY <1>1, <1>2, Zenon

\* The fields of the case of an investigation.
LEMMA CaseFields ==
  ASSUME NEW i \in Inv
  PROVE  /\ InvestigationCase(i).excursions = inv[i].scope \cap (Ids(active) \cup revoked)
         /\ InvestigationCase(i).actions = Of(i)
BY Zenon DEF InvestigationCase

\* The fields of the case file that the properties look at.
LEMMA FileFields ==
  /\ Export.investigations = {i \in Inv : inv[i].status # "none"}
  /\ Export.actions = UNION {Of(i) : i \in {j \in Inv : inv[j].status # "none"}}
  /\ Export.compliance = Summary
BY Zenon DEF Export

LEMMA SummaryFields ==
  /\ Summary.open = InvestigationsIn("OPEN")
  /\ Summary.submitted = InvestigationsIn("SUBMITTED")
  /\ Summary.void = InvestigationsIn("VOID")
  /\ Summary.active = Ids(active) /\ Summary.revoked = revoked
  /\ Summary.major = BySeverity("MAJOR") /\ Summary.critical = BySeverity("CRITICAL")
  /\ Summary.uncovered = Ids(active) \ Covered
  /\ Summary.openActions = ActionsIn("OPEN")
  /\ Summary.endedActions = ActionsIn("COMPLETED") \cup ActionsIn("CANCELLED")
BY Zenon DEF Summary

\* The actions reached through the investigations are those the summary
\* counts, in one of three statuses.
LEMMA ActionsListed ==
  ASSUME TypeOK, Unlinked
  PROVE  /\ UNION {Of(i) : i \in {j \in Inv : inv[j].status # "none"}} = Listed
         /\ ActionsIn("OPEN") \cup ActionsIn("COMPLETED") \cup ActionsIn("CANCELLED") = Listed
<1>1. \A a \in Listed : act[a].status \in {"OPEN", "COMPLETED", "CANCELLED"}
  BY LotAssumption DEF Listed, Unlinked, TypeOK, ActionRecord
<1>2. ActionsIn("OPEN") \cup ActionsIn("COMPLETED") \cup ActionsIn("CANCELLED") = Listed
  BY <1>1 DEF ActionsIn
<1>3. \A a \in Listed : act[a].inv \in Inv /\ inv[act[a].inv].status # "none"
  BY DEF Listed
<1>4. UNION {Of(i) : i \in {j \in Inv : inv[j].status # "none"}} = Listed
  BY <1>3 DEF Of
<1> QED
  BY <1>2, <1>4

\* The case file hangs together: excursions, investigations and actions that
\* one part of it counts are in the others (Export, buildInvestigationCase,
\* buildComplianceSummary).
THEOREM CaseFileAlwaysHolds == Spec => []CaseFileHolds
<1>1. ASSUME CaseInv PROVE CaseFileHolds
  <2>1. TypeOK /\ CaseFileComplete /\ Apart /\ Evidenced /\ Unlinked
    BY <1>1 DEF CaseInv
  <2>2. ASSUME NEW i \in Export.investigations
        PROVE  /\ InvestigationCase(i).excursions = inv[i].scope
               /\ InvestigationCase(i).actions \subseteq Export.actions
               /\ InvestigationCase(i).complete <=> i \in Export.compliance.submitted
    <3>1. i \in Inv /\ inv[i].status # "none"
      BY <2>2, FileFields
    <3>2. InvestigationCase(i).excursions = inv[i].scope
      BY <2>1, <3>1, CaseFields DEF CaseFileComplete
    <3>3. InvestigationCase(i).actions \subseteq Export.actions
      BY <3>1, CaseFields, FileFields
    <3>4. i \in Export.compliance.submitted <=> inv[i].status = "SUBMITTED"
      BY <3>1, FileFields, SummaryFields DEF InvestigationsIn
    <3>5. InvestigationCase(i).complete <=> inv[i].status = "SUBMITTED"
      BY <2>1, <3>1, CompleteIsSubmitted
    <3> QED
      BY <3>2, <3>3, <3>4, <3>5, Zenon
  <2>3. InvestigationsIn("OPEN") \cup InvestigationsIn("SUBMITTED") \cup InvestigationsIn("VOID")
          = {i \in Inv : inv[i].status # "none"}
    BY <2>1 DEF InvestigationsIn, TypeOK, InvestigationRecord
  <2>4. /\ Export.compliance.open \cup Export.compliance.submitted \cup Export.compliance.void
             = Export.investigations
        /\ Export.compliance.openActions \cup Export.compliance.endedActions = Export.actions
        /\ Export.compliance.active \cap Export.compliance.revoked = {}
    BY <2>1, <2>3, FileFields, SummaryFields, ActionsListed DEF Apart
  <2> QED
    BY <2>2, <2>4, Zenon DEF CaseFileHolds
<1> QED
  BY <1>1, CaseInvariant, PTL

\* A released lot's own file shows that it could be released, at the release
\* and after every later call: the loops of the summary agree with those of
\* releasePreview.
THEOREM FileAlwaysBearsOutRelease == Spec => []FileBearsOutRelease
<1>1. ASSUME CaseInv, ReleasedSafe PROVE FileBearsOutRelease
  <2> SUFFICES ASSUME status = "RELEASED" PROVE FileBearsOutRelease
    BY DEF FileBearsOutRelease
  <2> DEFINE grave == Export.compliance.major \cup Export.compliance.critical
  <2>1. /\ \A i \in Inv : inv[i].status # "OPEN"
        /\ \A e \in Grave : ~Uncovered(e) /\ OpenActions(e) = {}
    BY <1>1, Zenon DEF ReleasedSafe
  <2>2. grave = BySeverity("MAJOR") \cup BySeverity("CRITICAL")
    BY FileFields, SummaryFields
  <2>3. ASSUME NEW x \in grave
        PROVE  /\ x \notin Export.compliance.uncovered
               /\ \E i \in Export.investigations :
                    /\ x \in InvestigationCase(i).excursions /\ InvestigationCase(i).complete
                    /\ InvestigationCase(i).actions \cap Export.compliance.openActions = {}
    <3>1. PICK e \in Grave : e.fp = x
      BY <2>2 DEF BySeverity, Grave
    <3>2. PICK i \in Submitted : x \in inv[i].scope
      BY <2>1, <3>1 DEF Uncovered
    <3>3. i \in Inv /\ inv[i].status = "SUBMITTED" /\ x \in Ids(active)
      BY <3>1, <3>2 DEF Submitted, Grave, Ids
    <3>4. x \in Covered
      BY <3>2, <3>3 DEF Covered, InvestigationsIn
    <3>5. x \notin Export.compliance.uncovered
      BY <3>4, FileFields, SummaryFields
    <3>6. Of(i) \cap ActionsIn("OPEN") \subseteq OpenActions(e)
      BY <3>1, <3>2 DEF Of, ActionsIn, Listed, OpenActions
    <3>7. InvestigationCase(i).actions \cap Export.compliance.openActions = {}
      BY <2>1, <3>3, <3>6, CaseFields, FileFields, SummaryFields
    <3>8. i \in Export.investigations /\ x \in InvestigationCase(i).excursions
      BY <3>2, <3>3, CaseFields, FileFields
    <3>9. InvestigationCase(i).complete
      BY <1>1, <3>3, CompleteIsSubmitted DEF CaseInv
    <3> QED
      BY <3>5, <3>7, <3>8, <3>9, Zenon
  <2>4. Export.compliance.open = {}
    BY <2>1, FileFields, SummaryFields DEF InvestigationsIn
  <2>5. Export.compliance.uncovered \cap grave = {}
    BY <2>3
  <2> QED
    BY <2>3, <2>4, <2>5, Zenon DEF FileBearsOutRelease
<1> QED
  BY <1>1, CaseInvariant, ReleasedStaysSafe, PTL

----------------------------------------------------------------------------
(* After the release.                                                      *)

\* Every handler that does not look at the status of the lot needs an open
\* investigation, and a released lot has none; an evaluation finds what it
\* found before.
THEOREM ReleasedFileOnlyEndsActions == Spec => ReleasedFileStays
<1> DEFINE Ended(a) ==
      /\ act[a].status = "OPEN"
      /\ act'[a] = [act[a] EXCEPT !.status = act'[a].status, !.notified = act'[a].notified]
<1>1. ASSUME CaseInv, ReleasedSafe, Next, status = "RELEASED"
      PROVE  /\ status' = status
             /\ UNCHANGED <<readings, active, revoked, inv>>
             /\ \A a \in Act : act'[a] # act[a] => Ended(a)
  <2>1. TypeOK /\ ActiveIsCalc /\ Apart /\ \A i \in Inv : inv[i].status # "OPEN"
    BY <1>1, Zenon DEF CaseInv, ReleasedSafe
  <2>2. status' = status
    BY <1>1, <2>1 DEF Next, lot, CreateLot, AddReadings, Evaluate, CloseMonitoring,
       CreateInvestigation, AddEvidence, SubmitInvestigation, VoidInvestigation,
       CreateAction, UpdateAction, ReleasePreview, CreateDecision, Tick, ScanView,
       ScanUpdate, Touch
  <2>3. inv' = inv
    BY <1>1, <2>1, InvFrame
       DEF CreateInvestigation, AddEvidence, SubmitInvestigation, VoidInvestigation
  <2>4. UNCHANGED <<readings, active, revoked>>
    <3>1. CASE Evaluate
      <4>1. readings' = readings /\ active' = active
        BY <3>1, <2>1 DEF Evaluate, Recalculate, ActiveIsCalc
      <4>2. revoked' = (Ids(active) \cup revoked) \ Ids(active)
        BY <3>1, <2>1 DEF Evaluate, Recalculate, ActiveIsCalc
      <4> QED
        BY <2>1, <4>1, <4>2 DEF Apart
    <3>2. CASE ~Evaluate
      BY <1>1, <2>1, <3>2 DEF Next, excursions, CreateLot, AddReadings, CloseMonitoring,
         CreateInvestigation, AddEvidence, SubmitInvestigation, VoidInvestigation,
         CreateAction, UpdateAction, ReleasePreview, CreateDecision, Tick, ScanView, ScanUpdate
    <3> QED
      BY <3>1, <3>2
  <2>5. ASSUME NEW a \in Act, act'[a] # act[a] PROVE Ended(a)
    <3>1. act[a] \in ActionRecord
      BY <2>1 DEF TypeOK
    <3>2. ASSUME NEW b \in Act, NEW result, UpdateAction(b, result) PROVE Ended(a)
      <4>1. act[a].status = "OPEN" /\ act'[a] = [act[a] EXCEPT !.status = result]
        BY <2>1, <2>5, <3>2 DEF UpdateAction, TypeOK
      <4> QED
        BY <3>1, <4>1, Zenon DEF ActionRecord
    <3>3. CASE ScanUpdate
      <4>1. a \in Due /\ act'[a] = [act[a] EXCEPT !.notified = TRUE]
        BY <2>5, <3>3, Zenon DEF ScanUpdate
      <4>2. act[a].status = "OPEN"
        BY <4>1 DEF Due, Overdue
      <4> QED
        BY <3>1, <4>1, <4>2, Zenon DEF ActionRecord
    <3>4. CASE act' = act
      BY <2>5, <3>4
    <3>5. ~\E b \in Act, i \in Inv, due \in 0..MaxTime : CreateAction(b, i, due)
      BY <2>1 DEF CreateAction
    <3> QED
      BY <1>1, <3>2, <3>3, <3>4, <3>5, ActFrame
  <2> QED
    BY <2>2, <2>3, <2>4, <2>5, Zenon
<1>2. CaseInv /\ ReleasedSafe /\ [Next]_vars
        => [status = "RELEASED" =>
              /\ status' = status
              /\ UNCHANGED <<readings, active, revoked, inv>>
              /\ \A a \in Act : act'[a] # act[a] => Ended(a)]_vars
  BY <1>1, Zenon
<1> QED
  BY <1>2, CaseInvariant, ReleasedStaysSafe, PTL DEF Spec, ReleasedFileStays
=============================================================================
