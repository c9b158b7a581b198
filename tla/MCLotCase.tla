----------------------------- MODULE MCLotCase -----------------------------
(***************************************************************************)
(* Instances of LotCase, with what Compliance reads off it, for TLC; Calc  *)
(* is from module Evaluation.  The readings are few, and chosen for what   *)
(* they make happen.                                                       *)
(***************************************************************************)
EXTENDS Compliance, FiniteSetsExt, TLC

\* 2 to 8 degrees, 4 minutes between readings, 3 minutes on end or the given
\* number in all, MAJOR from 3 degrees and CRITICAL from 6.
Policy(cumulative) == INSTANCE Evaluation WITH
  MinC <- 2, MaxC <- 8, MaxGap <- 4, Continuous <- 3, Cumulative <- cumulative,
  MajorDelta <- 3, CriticalDelta <- 6

Sample(id, at, c) == [id |-> id, at |-> at, c |-> c]
Warm(id, at) == Sample(id, at, 10)

\* The reading between the two others closes a gap, or makes a second excursion.
GapReadings == {Warm(1, 0), Sample(2, 3, 12), Warm(3, 6)}

\* A normal reading revokes a continuous and a cumulative excursion; two more
\* bring the cumulative one back under its fingerprint.
ReturnReadings == {Warm(1, 0), Warm(2, 1), Sample(3, 2, 5), Warm(4, 3), Warm(5, 4)}

\* The first two of them.
PairReadings == {Warm(1, 0), Sample(2, 3, 12)}

Excursions(R, cumulative) ==
  {[fp |-> Policy(cumulative)!Fingerprint(s), gap |-> s.kind = "GAP",
    sev |-> Policy(cumulative)!Severity(s)]
     : s \in Policy(cumulative)!ToSet(Policy(cumulative)!Found(R))}

TableFor(all, cumulative) ==
  FoldSet(LAMBDA R, table : table @@ (R :> Excursions(R, cumulative)), <<>>, SUBSET all)
FpsOf(table) == UNION {Ids(table[R]) : R \in DOMAIN table}

\* TLC evaluates a definition without parameters once, but not the one a
\* constant is given: hence the two names.
GapTable    == TableFor(GapReadings, 6)
GapFps      == FpsOf(GapTable)
ReturnTable == TableFor(ReturnReadings, 2)
ReturnFps   == FpsOf(ReturnTable)
GapCalc            == GapTable
GapFingerprints    == GapFps
ReturnCalc         == ReturnTable
ReturnFingerprints == ReturnFps

Symmetry == Permutations(Inv)
=============================================================================
