----------------------------- MODULE Compliance -----------------------------
(***************************************************************************)
(* What is read off the case of a lot: the compliance summary              *)
(* (internal/app/compliance.go), the case of an investigation and the list *)
(* of actions (investigation_queries.go) and the exported case file        *)
(* (service.go).  Each is computed from one state, by loops of its own     *)
(* that do not share code with releasePreview.                             *)
(***************************************************************************)
EXTENDS LotCase

InvestigationsIn(s) == {i \in Inv : inv[i].status = s}

\* Actions are found through the investigations of the lot.
Listed == {a \in Act : act[a].inv \in Inv /\ inv[act[a].inv].status # "none"}
ActionsIn(s) == {a \in Listed : act[a].status = s}
Of(i) == {a \in Listed : act[a].inv = i}

Covered == UNION {inv[i].scope : i \in InvestigationsIn("SUBMITTED")}

BySeverity(s) == {e.fp : e \in {d \in active : d.sev = s}}

\* The summary shows numbers where sets stand here, except for the IDs of
\* uncovered excursions and open actions.
Summary ==
  [open       |-> InvestigationsIn("OPEN"),
   submitted  |-> InvestigationsIn("SUBMITTED"),
   void       |-> InvestigationsIn("VOID"),
   active     |-> Ids(active),
   revoked    |-> revoked,
   minor      |-> BySeverity("MINOR"),
   major      |-> BySeverity("MAJOR"),
   critical   |-> BySeverity("CRITICAL"),
   uncovered  |-> Ids(active) \ Covered,
   openActions |-> ActionsIn("OPEN"),
   endedActions |-> ActionsIn("COMPLETED") \cup ActionsIn("CANCELLED"),
   overdue    |-> {a \in ActionsIn("OPEN") : act[a].due < now},
   blockers   |-> Blockers]

\* The texts of an investigation come with its submission, the summary also
\* with its end as void.
Missing(i) ==
  {m \in {"EVIDENCE", "ROOT_CAUSE", "IMPACT", "SUMMARY"} :
     \/ m = "EVIDENCE" /\ inv[i].evidence = 0
     \/ m \in {"ROOT_CAUSE", "IMPACT"} /\ inv[i].status # "SUBMITTED"
     \/ m = "SUMMARY" /\ inv[i].status \notin {"SUBMITTED", "VOID"}}

BugCaseOfActive(i) ==
  [excursions |-> inv[i].scope \cap Ids(active),
   evidence   |-> inv[i].evidence,
   actions    |-> Of(i),
   overdue    |-> {a \in Of(i) : Overdue(a)},
   complete   |-> inv[i].status = "SUBMITTED" /\ Missing(i) = {}]

InvestigationCase(i) ==
  [excursions |-> inv[i].scope \cap (Ids(active) \cup revoked),
   evidence   |-> inv[i].evidence,
   actions    |-> Of(i),
   overdue    |-> {a \in Of(i) : Overdue(a)},
   complete   |-> inv[i].status = "SUBMITTED" /\ Missing(i) = {}]

Export ==
  LET mine == {i \in Inv : inv[i].status # "none"}
  IN [readings |-> readings, excursions |-> Ids(active) \cup revoked,
      investigations |-> mine, actions |-> UNION {Of(i) : i \in mine},
      compliance |-> Summary]

----------------------------------------------------------------------------
(* Properties.                                                             *)

\* The case file hangs together at every moment: each excursion an
\* investigation covers is in it, whether it was revoked or not, each action
\* and each investigation its summary counts is in it, and an investigation is
\* complete when, and only when, it was submitted (Export,
\* buildInvestigationCase, buildComplianceSummary).
CaseFileHolds ==
  LET file == Export  summary == file.compliance
  IN /\ \A i \in file.investigations :
          LET case == InvestigationCase(i)
          IN /\ case.excursions = inv[i].scope
             /\ case.actions \subseteq file.actions
             /\ case.complete <=> i \in summary.submitted
     /\ summary.open \cup summary.submitted \cup summary.void = file.investigations
     /\ summary.openActions \cup summary.endedActions = file.actions
     /\ summary.active \cap summary.revoked = {}

\* The case file of a released lot bears the release out: nothing is open but
\* actions that no grave excursion hangs on, and each grave excursion is in a
\* complete investigation.
FileBearsOutRelease ==
  status = "RELEASED" =>
    LET file == Export  summary == file.compliance
        grave == summary.major \cup summary.critical
    IN /\ summary.open = {}
       /\ summary.uncovered \cap grave = {}
       /\ \A x \in grave : \E i \in file.investigations :
            LET case == InvestigationCase(i)
            IN x \in case.excursions /\ case.complete /\ case.actions \cap summary.openActions = {}

\* After the release the file only changes by the end of an action and by the
\* notice that one is overdue, though many handlers never look at the status
\* of the lot (AddEvidence, CreateAction, UpdateAction, SubmitInvestigation,
\* Evaluate).  The version, the decisions and the audit of the lot, which the
\* exported file has as well, do change and are not in Export here.
ReleasedFileStays ==
  [][status = "RELEASED" =>
       /\ status' = status
       /\ UNCHANGED <<readings, active, revoked, inv>>
       /\ \A a \in Act : act'[a] # act[a] =>
            /\ act[a].status = "OPEN"
            /\ act'[a] = [act[a] EXCEPT !.status = act'[a].status, !.notified = act'[a].notified]
    ]_vars
=============================================================================
