----------------------------- MODULE Evaluation -----------------------------
(***************************************************************************)
(* How temperature readings become excursions: domain.Evaluate             *)
(* (src/internal/domain/evaluate.go), as operators.                        *)
(*                                                                         *)
(* Times are whole minutes and temperatures whole degrees; the quotients   *)
(* the code computes in floating point are compared by multiplying out.    *)
(* A fingerprint, the code's hash of lot, kind, start and end, is the      *)
(* triple <<kind, start, end>> (one lot).                                  *)
(*                                                                         *)
(* Operators whose name starts with Bug are used by no definition: see     *)
(* module Store.                                                           *)
(***************************************************************************)
EXTENDS Integers, Sequences, FiniteSets, SequencesExt

CONSTANTS MinC, MaxC,                \* the permitted temperatures
          MaxGap,                    \* minutes allowed between two readings
          Continuous, Cumulative,    \* minutes that make an excursion
          MajorDelta, CriticalDelta  \* degrees that raise the severity

\* domain.ValidatePolicy
ValidPolicy ==
  /\ {MinC, MaxC} \subseteq -100..100 /\ MinC < MaxC
  /\ {MaxGap, Continuous, Cumulative} \subseteq Nat \ {0}
  /\ {MajorDelta, CriticalDelta} \subseteq Nat \ {0} /\ MajorDelta < CriticalDelta

ASSUME PolicyAssumption == ValidPolicy

Reading == [id : Nat, at : Nat, c : -100..100]

----------------------------------------------------------------------------
(* Segments: stretches of time, in the order in which they are found.      *)

Segment(kind, start, end, peak, exposure) ==
  [kind |-> kind, start |-> start, end |-> end, peak |-> peak, exposure |-> exposure]

Fingerprint(s) == <<s.kind, s.start, s.end>>
Duration(s) == s.end - s.start

Kind(r) == IF r.c < MinC THEN "LOW" ELSE IF r.c > MaxC THEN "HIGH" ELSE "NORMAL"
Delta(r) == IF r.c < MinC THEN MinC - r.c ELSE r.c - MaxC

\* By time; readings of the same time by their ID, which is random.
Before(r, s) == r.at < s.at \/ (r.at = s.at /\ r.id < s.id)
InOrder(readings) ==
  CHOOSE items \in [1..Cardinality(readings) -> readings] :
    \A i, j \in DOMAIN items : i < j => Before(items[i], items[j])

BugGapAtTheLimit(items, i) == i > 1 /\ items[i].at - items[i-1].at >= MaxGap
AfterGap(items, i) == i > 1 /\ items[i].at - items[i-1].at > MaxGap

\* The scan holds the finished segments and the one being built, if any.
None == Segment("none", 0, 0, 0, 0)
Flush(scan) ==
  IF scan.current = None THEN scan
  ELSE [done |-> Append(scan.done, scan.current), current |-> None]

NoteGap(scan, items, i) ==
  IF AfterGap(items, i)
    THEN LET p == items[i-1].at  q == items[i].at
         IN [done    |-> Append(Flush(scan).done, Segment("GAP", p, q, q - p, 0)),
             current |-> None]
    ELSE scan

BugPeakIsMildest(s, r) ==
  Segment(s.kind, s.start, r.at,
          IF (s.kind = "HIGH") = (r.c < s.peak) THEN r.c ELSE s.peak,
          s.exposure + Delta(r) * (r.at - s.end))

Extended(s, r) ==
  Segment(s.kind, s.start, r.at,
          IF (s.kind = "HIGH") = (r.c > s.peak) THEN r.c ELSE s.peak,
          s.exposure + Delta(r) * (r.at - s.end))

Step(items, scan, i) ==
  LET r == items[i]  noted == NoteGap(scan, items, i)
  IN IF Kind(r) = "NORMAL" THEN Flush(noted)
     ELSE IF Kind(r) = noted.current.kind
       THEN [done |-> noted.done, current |-> Extended(noted.current, r)]
     ELSE [done    |-> Flush(noted).done,
           current |-> Segment(Kind(r), r.at, r.at, r.c, 0)]

\* The scan after each number of readings.
Scan(items) ==
  LET scan[i \in 0..Len(items)] ==
        IF i = 0 THEN [done |-> <<>>, current |-> None]
        ELSE Step(items, scan[i-1], i)
  IN scan

Segments(readings) ==
  LET items == InOrder(readings)
  IN Flush(Scan(items)[Len(items)]).done

----------------------------------------------------------------------------
(* Excursions.                                                             *)

BugKeepShort(s) == TRUE
LongEnough(s) == Duration(s) >= Continuous

NoTime == -1   \* the zero time, before any reading

\* The excursions so far, and what the segments out of range, short ones
\* included, add up to; it lasts from the first to the last that took any time.
Collect(tally, s) ==
  IF s.kind = "GAP" THEN [tally EXCEPT !.result = Append(@, s)]
  ELSE [result   |-> IF LongEnough(s) THEN Append(tally.result, s) ELSE tally.result,
        total    |-> tally.total + Duration(s),
        exposure |-> tally.exposure + s.exposure,
        start    |-> IF Duration(s) > 0 /\ tally.start = NoTime
                       THEN s.start ELSE tally.start,
        end      |-> IF Duration(s) > 0 THEN s.end ELSE tally.end]

\* The tally after each number of segments.
Tally(segments) ==
  LET tally[k \in 0..Len(segments)] ==
        IF k = 0
          THEN [result |-> <<>>, total |-> 0, exposure |-> 0, start |-> NoTime, end |-> NoTime]
        ELSE Collect(tally[k-1], segments[k])
  IN tally

\* In the order found; the code sorts them by start and type.
Found(readings) ==
  LET segments == Segments(readings)
      last     == Tally(segments)[Len(segments)]
  IN IF last.total < Cumulative THEN last.result
     ELSE Append(last.result,
                 Segment("CUMULATIVE", last.start, last.end, last.total, last.exposure))

Minutes(s) == IF s.kind = "CUMULATIVE" THEN s.peak ELSE Duration(s)

\* The code's delta >= degrees.
DeltaReaches(s, degrees) ==
  \/ s.kind = "HIGH" /\ s.peak - MaxC >= degrees
  \/ s.kind = "LOW"  /\ MinC - s.peak >= degrees
  \/ s.kind = "GAP"  /\ Duration(s) >= degrees * MaxGap
  \/ s.kind = "CUMULATIVE" /\ s.exposure >= degrees * Minutes(s)

Severity(s) ==
  IF DeltaReaches(s, CriticalDelta) \/ Minutes(s) >= 4 * Continuous THEN "CRITICAL"
  ELSE IF DeltaReaches(s, MajorDelta) \/ Minutes(s) >= 2 * Continuous THEN "MAJOR"
  ELSE "MINOR"

=============================================================================
