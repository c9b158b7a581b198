---------------------------- MODULE ReadingStream ----------------------------
(***************************************************************************)
(* The readings of one lot under monitoring, arriving in any order, and    *)
(* the excursions evaluated from them after each (service.go: AddReadings, *)
(* evaluateState).  An ID is random; here it is any number not yet used.   *)
(***************************************************************************)
EXTENDS Evaluation, FiniteSetsExt

CONSTANTS Times, Temperatures,   \* what a device may report
          Ids                    \* bounds the readings of the lot

ASSUME StreamAssumption == [id : Ids, at : Times, c : Temperatures] \subseteq Reading

VARIABLE readings

Init == readings = {}

Arrive(at, c) ==
  \E id \in Ids \ {r.id : r \in readings} :
    readings' = readings \cup {[id |-> id, at |-> at, c |-> c]}

Next == \E at \in Times, c \in Temperatures : Arrive(at, c)

Spec == Init /\ [][Next]_readings

----------------------------------------------------------------------------
(* What the excursions of a lot are, without a scan: stretches of time of  *)
(* which nothing but readings out of range on one side is known.           *)

At == {r.at : r \in readings}
TieFree == \A r, s \in readings : r.at = s.at => r = s
Within(start, end) == {r \in readings : start <= r.at /\ r.at <= end}
Adjacent == {p \in readings \X readings :
               p[1].at < p[2].at /\ Within(p[1].at, p[2].at) = {p[1], p[2]}}

Gaps == {p \in Adjacent : p[2].at - p[1].at > MaxGap}

\* The adjacent pairs of a stretch.
Steps(start, end) == {p \in Adjacent : start <= p[1].at /\ p[2].at <= end}

Stretches(kind) ==
  {w \in At \X At : /\ w[1] <= w[2]
                    /\ \A r \in Within(w[1], w[2]) : Kind(r) = kind
                    /\ Steps(w[1], w[2]) \cap Gaps = {}}

Maximal(windows) ==
  {w \in windows : \A v \in windows : v[1] <= w[1] /\ w[2] <= v[2] => v = w}

ExposureIn(w) ==
  SumFunction([p \in Steps(w[1], w[2]) |-> Delta(p[2]) * (p[2].at - p[1].at)])

Peak(kind, w) ==
  LET temps == {r.c : r \in Within(w[1], w[2])}
  IN IF kind = "HIGH" THEN Max(temps) ELSE Min(temps)

OutOfRange ==
  UNION {{Segment(kind, w[1], w[2], Peak(kind, w), ExposureIn(w))
            : w \in Maximal(Stretches(kind))} : kind \in {"HIGH", "LOW"}}

Expected ==
  LET total   == SumFunction([s \in OutOfRange |-> Duration(s)])
      lasting == {s \in OutOfRange : Duration(s) > 0}
  IN {Segment("GAP", p[1].at, p[2].at, p[2].at - p[1].at, 0) : p \in Gaps}
     \cup {s \in OutOfRange : Duration(s) >= Continuous}
     \cup IF total < Cumulative THEN {}
          ELSE {Segment("CUMULATIVE", Min({s.start : s \in lasting}),
                        Max({s.end : s \in lasting}), total,
                        SumFunction([s \in OutOfRange |-> s.exposure]))}

----------------------------------------------------------------------------
(* Properties.                                                             *)

\* Whatever order and IDs the readings came with, the scan finds exactly the
\* gaps, the maximal stretches out of range and their total, when no two
\* readings have the same time (evaluate.go:18-102).
ScanFindsStretches == TieFree => ToSet(Found(readings)) = Expected

\* No two excursions of a lot share a fingerprint, even when readings share
\* their times: evaluateState finds an excursion's ID by its fingerprint
\* (service.go:361-379) and would give two of them one ID.
FingerprintsUnique ==
  LET found == Found(readings)
  IN \A i, j \in DOMAIN found : Fingerprint(found[i]) = Fingerprint(found[j]) => i = j

\* A later reading of a time of its own never lowers the severity of a
\* temperature excursion that keeps its fingerprint (evaluate.go:57-69,
\* 103-123): what an investigation was opened for cannot be talked down while
\* it stands.  Readings of equal times can, see the README.
SeverityNeverDrops ==
  [][TieFree' =>
       \A s \in ToSet(Found(readings)), t \in ToSet(Found(readings')) :
         /\ Fingerprint(s) = Fingerprint(t) /\ s.kind \in {"HIGH", "LOW"}
         /\ Severity(s) # "MINOR"
         => Severity(t) \in {Severity(s), "CRITICAL"}]_readings

=============================================================================
