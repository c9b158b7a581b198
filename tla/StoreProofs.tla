---------------------------- MODULE StoreProofs ----------------------------
(***************************************************************************)
(* What module Store's runs show on a few transactions, proved for every   *)
(* set of transactions, every choice of faults and any number of crashes.  *)
(***************************************************************************)
EXTENDS Store, SequenceTheorems, TLAPS

----------------------------------------------------------------------------
(* The journal's operators.                                                *)

\* The kinds of line a write may leave are lines.
LEMMA LineTypes ==
  ASSUME NEW s \in State
  PROVE  /\ Whole(s) \in Line /\ Unterminated(s) \in Line
         /\ \A b \in BOOLEAN : Garbage(b) \in Line
BY EmptySeq DEF Whole, Unterminated, Garbage, Line, State

\* Writing after a line without a newline spoils that line and adds none.
LEMMA WrittenMerges ==
  ASSUME NEW j \in Seq(Line), NEW l \in Line, j # <<>>, ~j[Len(j)].nl
  PROVE  /\ Written(j, l) \in Seq(Line)
         /\ Len(Written(j, l)) = Len(j)
         /\ Written(j, l)[Len(j)] = Garbage(l.nl)
         /\ \A i \in 1..Len(j)-1 : Written(j, l)[i] = j[i]
<1>1. Len(j) \in Nat \ {0}
  BY EmptySeq
<1>2. l.nl \in BOOLEAN
  BY DEF Line
<1>3. Garbage(l.nl) \in Line
  BY <1>2, EmptySeq DEF Garbage, Line, State
<1>4. Written(j, l) = [j EXCEPT ![Len(j)] = Garbage(l.nl)]
  BY DEF Written
<1> HIDE DEF Written, Garbage
<1> QED
  BY <1>1, <1>3, <1>4, ExceptSeq

\* Writing after a complete line adds a line.
LEMMA WrittenAppends ==
  ASSUME NEW j \in Seq(Line), NEW l \in Line, j = <<>> \/ j[Len(j)].nl
  PROVE  /\ Written(j, l) \in Seq(Line)
         /\ Len(Written(j, l)) = Len(j) + 1
         /\ Written(j, l)[Len(j) + 1] = l
         /\ \A i \in 1..Len(j) : Written(j, l)[i] = j[i]
<1>1. Written(j, l) = Append(j, l)
  BY DEF Written
<1> QED
  BY <1>1, AppendProperties

LEMMA WrittenType ==
  ASSUME NEW j \in Seq(Line), NEW l \in Line
  PROVE  Written(j, l) \in Seq(Line)
<1>1. CASE j # <<>> /\ ~j[Len(j)].nl
  BY <1>1, WrittenMerges
<1>2. CASE j = <<>> \/ j[Len(j)].nl
  BY <1>2, WrittenAppends
<1> QED
  BY <1>1, <1>2

\* Whatever a write leaves is a journal.
LEMMA LeftoversType ==
  ASSUME NEW j \in Seq(Line), NEW s \in State
  PROVE  Leftovers(j, s) \subseteq Seq(Line)
BY LineTypes, WrittenType DEF Leftovers

LEMMA AfterCutType ==
  ASSUME TypeOK
  PROVE  AfterCut \subseteq View
<1>1. journal \in Seq(Line) /\ next \in State /\ older \subseteq View
  BY DEF TypeOK
<1>2. Now \in View
  BY DEF Now, View, TypeOK
<1>3. OlderOrNow \subseteq View
  BY <1>1, <1>2 DEF OlderOrNow, Undoable
<1>4. ASSUME NEW v \in View, NEW j \in Seq(Line)
      PROVE  [snap |-> v.snap, journal |-> j] \in View
  BY <1>4 DEF View
<1>5. Leftovers(journal, next) \subseteq Seq(Line)
  BY <1>1, LeftoversType
<1> QED
  BY <1>3, <1>4, <1>5 DEF AfterCut

\* Open that refuses gives up what load() had found, and no more.
LEMMA RefuseFacts ==
  ASSUME LoadRefused \/ AuditRefused
  PROVE  /\ pc = "load" /\ pc' = "refused" /\ mem' = <<>> /\ pos' = 1
         /\ UNCHANGED <<next, snap, journal, older, compactor, crashes, promised, outcome>>
<1>1. pc = "load" /\ Refuse
  BY DEF LoadRefused, AuditRefused, Loading, Loaded
<1> QED
  BY <1>1 DEF Refuse, files, history

----------------------------------------------------------------------------
(* Type correctness.                                                       *)

LEMMA StopType ==
  ASSUME TypeOK, Stop
  PROVE  /\ pc' \in Up \cup Off \cup {"load"}
         /\ mem' \in State /\ next' \in State /\ promised' \in State
         /\ pos' \in Nat \ {0} /\ tail' \in BOOLEAN
         /\ compactor' \in {"idle", "due"} /\ crashes' \in 0..MaxCrashes
         /\ outcome' \in [Tx -> {"none", "running", "declined", "ok", "error", "unknown"}]
<1>1. tail' \in BOOLEAN
  BY Zenon DEF Stop
<1>2. <<>> \in State
  BY EmptySeq DEF State
<1>3. outcome' \in [Tx -> {"none", "running", "declined", "ok", "error", "unknown"}]
  BY DEF TypeOK, Stop
<1> QED
  BY StoreAssumption, <1>1, <1>2, <1>3 DEF TypeOK, Stop, Off

LEMMA ReturnType ==
  ASSUME TypeOK, NEW r \in {"ok", "error"}, Return(r)
  PROVE  /\ pc' \in Up \cup Off \cup {"load"} /\ next' \in State
         /\ outcome' \in [Tx -> {"none", "running", "declined", "ok", "error", "unknown"}]
BY EmptySeq DEF TypeOK, Return, Up, State

\* Every variable keeps its type, whatever fails: no reachable journal holds
\* anything but lines, no state anything but transactions.
THEOREM TypeCorrect == Spec => []TypeOK
<1>1. Init => TypeOK
  <2>1. Init => tail \in BOOLEAN
    BY Zenon DEF Init
  <2>2. <<>> \in State /\ <<>> \in Seq(Line)
    BY EmptySeq DEF State
  <2> QED
    BY StoreAssumption, <2>1, <2>2 DEF Init, TypeOK, Off
<1>2. TypeOK /\ [Next]_vars => TypeOK'
  <2> SUFFICES ASSUME TypeOK, [Next]_vars
               PROVE  TypeOK'
    OBVIOUS
  <2>t. /\ pc \in Up \cup Off \cup {"load"}
        /\ mem \in State /\ next \in State /\ snap \in State /\ promised \in State
        /\ journal \in Seq(Line) /\ older \subseteq View
        /\ pos \in Nat \ {0} /\ tail \in BOOLEAN
        /\ compactor \in {"idle", "due"} /\ crashes \in 0..MaxCrashes
        /\ outcome \in [Tx -> {"none", "running", "declined", "ok", "error", "unknown"}]
    BY DEF TypeOK
  <2>e. <<>> \in State /\ <<>> \in Seq(Line)
    BY EmptySeq DEF State
  <2>n. Undoable({Now}) \subseteq View /\ OlderOrNow \subseteq View
    BY DEF TypeOK, Undoable, OlderOrNow, Now, View
  <2>w. Whole(next) \in Line
    BY LineTypes DEF TypeOK
  <2>1. ASSUME NEW t \in Tx, Decline(t) PROVE TypeOK'
    BY <2>1 DEF TypeOK, Decline, files, View
  <2>2. ASSUME NEW t \in Tx, Begin(t) PROVE TypeOK'
    <3>1. next' \in State
      BY <2>2, AppendProperties DEF Begin, TypeOK, State
    <3> QED
      BY <2>2, <3>1 DEF TypeOK, Begin, files, View, Up, Updating
  <2>3. CASE AppendJournal
    <3>1. journal' \in Seq(Line)
      BY <2>3, <2>t, <2>w, WrittenType DEF AppendJournal
    <3> QED
      BY <2>3, <2>t, <3>1 DEF TypeOK, AppendJournal, history, Up, Updating
  <2>4. CASE AppendFails
    <3>1. journal' \in Seq(Line)
      BY <2>4, <2>t, <2>w, WrittenType, LeftoversType DEF AppendFails
    <3>2. older' \subseteq View
      BY <2>4, AfterCutType DEF AppendFails
    <3> QED
      BY <2>4, <2>t, <3>1, <3>2, ReturnType DEF TypeOK, AppendFails
  <2>5. CASE RenameSnapshot
    BY <2>5, <2>t, <2>n DEF TypeOK, RenameSnapshot, history, Up, Updating
  <2>6. CASE SnapshotFails
    BY <2>6, <2>t, ReturnType DEF TypeOK, SnapshotFails, files
  <2>7. CASE Publish
    BY <2>7, <2>t, ReturnType DEF TypeOK, Publish, files
  <2>8. CASE Inspect
    BY <2>8, <2>t DEF TypeOK, Inspect, files, history
  <2>9. CASE BeginCompact
    BY <2>9, <2>t DEF TypeOK, BeginCompact, files, history, Up, Compacting
  <2>10. CASE CompactSnapshot
    BY <2>10, <2>t, <2>n DEF TypeOK, CompactSnapshot, history, Up, Compacting
  <2>11. CASE CompactJournal
    BY <2>11, <2>t, <2>n, <2>e DEF TypeOK, CompactJournal, history, Up
  <2>12. CASE CompactFails
    BY <2>12, <2>t DEF TypeOK, CompactFails, files, history, Up
  <2>13. CASE Kill
    <3>1. journal' \in Seq(Line)
      BY <2>13, <2>t, LeftoversType DEF Kill
    <3>2. older' \subseteq View
      BY <2>13, <2>t, AfterCutType DEF Kill
    <3> QED
      BY <2>13, <2>t, <3>1, <3>2, StopType DEF TypeOK, Kill
  <2>14. CASE PowerCut
    <3>1. journal' \in Seq(Line) /\ snap' \in State
      BY <2>14, AfterCutType DEF PowerCut, View
    <3> QED
      BY <2>14, <3>1, StopType DEF TypeOK, PowerCut
  <2>15. CASE Open
    BY <2>15, <2>t DEF TypeOK, Open, files, history
  <2>16. CASE LoadLine
    <3>1. pos \in 1..Len(journal) /\ Len(journal) \in Nat
      BY <2>16, <2>t, LenProperties DEF LoadLine, Loading
    <3>2. Current \in Line
      BY <2>t, <3>1, ElementOfSeq DEF Current
    <3>6. Current.st \in State
      BY <3>2 DEF Line
    <3>3. Whole(Current.st) \in Line
      BY <3>6, LineTypes
    <3>4. journal' \in Seq(Line) /\ older' \subseteq View
      BY <2>16, <2>t, <3>1, <3>3, ExceptSeq DEF LoadLine
    <3>5. mem' \in State
      BY <2>16, <2>t, <3>6 DEF LoadLine
    <3> QED
      BY <2>16, <2>t, <3>4, <3>5 DEF TypeOK, LoadLine, history
  <2>17. CASE LoadTail
    <3>1. pos \in 1..Len(journal) /\ Len(journal) \in Nat
      BY <2>17, <2>t, LenProperties DEF LoadTail, Loading
    <3>2. \A i \in 1..pos-1 : journal[i] \in Line
      BY <2>t, <3>1, ElementOfSeq
    <3>3. journal' \in Seq(Line)
      BY <2>17, <3>1, <3>2, SubSeqProperties DEF LoadTail
    <3> QED
      BY <2>17, <2>t, <2>n, <3>3 DEF TypeOK, LoadTail, history
  <2>18. CASE LoadRefused \/ AuditRefused
    <3>1. tail' \in BOOLEAN
      BY <2>18, Zenon DEF LoadRefused, AuditRefused, Refuse
    <3> QED
      BY <2>18, <2>t, <2>e, <3>1, RefuseFacts DEF TypeOK, Off
  <2>19. CASE LoadFails
    <3>1. /\ pc' = "down" /\ mem' = <<>> /\ pos' = 1 /\ tail' = FALSE
          /\ UNCHANGED <<next, files, compactor, crashes, history>>
      BY <2>19 DEF LoadFails
    <3>2. tail' \in BOOLEAN
      BY <3>1, Zenon
    <3> QED
      BY <2>t, <2>e, <3>1, <3>2 DEF TypeOK, files, history, Off
  <2>20. CASE LoadDone
    BY <2>20, <2>t DEF TypeOK, LoadDone, files, Up
  <2>21. CASE UNCHANGED vars
    BY <2>21, <2>t DEF TypeOK, vars
  <2> QED
    BY <2>1, <2>2, <2>3, <2>4, <2>5, <2>6, <2>7, <2>8, <2>9, <2>10, <2>11,
       <2>12, <2>13, <2>14, <2>15, <2>16, <2>17, <2>18, <2>19, <2>20, <2>21
       DEF Next, Update, Compact, Load
<1> QED
  BY <1>1, <1>2, PTL DEF Spec

----------------------------------------------------------------------------
(* The inductive invariant.  NoRollback says what a restart may show; what *)
(* it shows was written by many earlier steps, so the invariant says what  *)
(* the files and load() always have in common with what was promised.      *)

\* s is what t starts with.
Agree(s, t) == Len(s) <= Len(t) /\ \A i \in 1..Len(s) : s[i] = t[i]

\* s is a past, the present, or one transaction more than the present.
OneOff(s, p) == Agree(s, p) \/ (Len(s) = Len(p) + 1 /\ Agree(p, s))

\* No line is more than one revision ahead, and one that is continues p.
LinesNear(j, p) ==
  \A i \in 1..Len(j) : j[i].ok =>
    /\ 1 <= Len(j[i].st) /\ Len(j[i].st) <= Len(p) + 1
    /\ Len(j[i].st) = Len(p) + 1 => Agree(p, j[i].st)

\* The first line of a revision behind the snapshot is a past of p ...
FirstLinesTrue(s, j, p) ==
  \A i \in 1..Len(j) :
    /\ FirstOfRevision(j, i)
    /\ Len(s) < Len(j[i].st) /\ Len(j[i].st) <= Len(p)
    => Agree(j[i].st, p)

\* ... and every such revision has one.
LinesCover(s, j, p) ==
  \A r \in Len(s)+1..Len(p) :
    \E i \in 1..Len(j) : FirstOfRevision(j, i) /\ Len(j[i].st) = r

\* A line the snapshot does not reach comes after one of the revision before.
NoJump(s, j) ==
  \A i \in 1..Len(j) : j[i].ok /\ Len(s) + 1 < Len(j[i].st) =>
    \E k \in 1..i-1 : j[k].ok /\ Len(j[k].st) + 1 = Len(j[i].st)

\* Only the last line may lack its newline; if it parses, nobody was told.
NewlineLast(j, p) ==
  \A i \in 1..Len(j) : ~j[i].nl =>
    i = Len(j) /\ (j[i].ok => Len(j[i].st) = Len(p) + 1)

FilesOK(s, j, p) ==
  /\ OneOff(s, p)
  /\ LinesNear(j, p) /\ FirstLinesTrue(s, j, p) /\ LinesCover(s, j, p)
  /\ NoJump(s, j) /\ NewlineLast(j, p)

\* What the steps of Update and Compact rely on.
ServingOK ==
  /\ pc \in Up => mem = promised
  /\ pc \in Updating => \E t \in Tx : next = Append(promised, t)
  /\ pc \in {"snapshot", "publish"} => journal # <<>> /\ journal[Len(journal)].nl
  /\ pc = "publish" => snap = next
  /\ pc = "truncate" => snap = promised

\* What load() has established when it comes to line pos.
LoadOK ==
  pc = "load" =>
    /\ pos <= Len(journal) + 1
    /\ Agree(snap, mem) /\ OneOff(mem, promised)
    /\ \A i \in 1..pos-1 :
         journal[i].ok /\ journal[i].nl /\ Len(journal[i].st) <= Len(mem)
    /\ \A i \in 1..pos-1 :
         FirstOfRevision(journal, i) /\ Len(snap) < Len(journal[i].st)
           => Agree(journal[i].st, mem)
    /\ \A r \in Len(snap)+1..Len(mem) :
         \E i \in 1..pos-1 : FirstOfRevision(journal, i) /\ Len(journal[i].st) = r

IInv == FilesOK(snap, journal, promised) /\ ServingOK /\ LoadOK

\* Without short writes no complete line is spoiled.
NoSpoiledLine ==
  /\ \A i \in 1..Len(journal) : ~journal[i].ok => i = Len(journal) /\ ~journal[i].nl
  /\ pc \in Up => \A i \in 1..Len(journal) : journal[i].nl

----------------------------------------------------------------------------
(* Facts about sequences.                                                  *)

LEMMA StateLen ==
  ASSUME NEW s \in State
  PROVE  Len(s) \in Nat
BY LenProperties DEF State

LEMMA LineFacts ==
  ASSUME NEW j \in Seq(Line)
  PROVE  /\ Len(j) \in Nat
         /\ \A i \in 1..Len(j) : j[i].st \in State /\ Len(j[i].st) \in Nat
<1>1. Len(j) \in Nat
  BY LenProperties
<1>2. ASSUME NEW i \in 1..Len(j) PROVE j[i].st \in State
  <2>1. j[i] \in Line
    BY ElementOfSeq
  <2> QED
    BY <2>1 DEF Line
<1> QED
  BY <1>1, <1>2, StateLen

LEMMA AppendAgrees ==
  ASSUME NEW s \in State, NEW t \in Tx
  PROVE  /\ Append(s, t) \in State
         /\ Len(Append(s, t)) = Len(s) + 1
         /\ Agree(s, Append(s, t))
<1>1. Len(s) \in Nat
  BY StateLen
<1> QED
  BY <1>1, AppendProperties DEF State, Agree

LEMMA AgreeEqual ==
  ASSUME NEW s \in State, NEW t \in State, Agree(s, t), Len(t) <= Len(s)
  PROVE  s = t
<1>1. Len(s) \in Nat /\ Len(t) \in Nat
  BY StateLen
<1> QED
  BY <1>1, SeqEqual DEF Agree, State

LEMMA AgreeReflexive ==
  ASSUME NEW s \in State
  PROVE  Agree(s, s)
BY StateLen DEF Agree

LEMMA AgreeTransitive ==
  ASSUME NEW s \in State, NEW t \in State, NEW u \in State, Agree(s, t), Agree(t, u)
  PROVE  Agree(s, u)
BY StateLen DEF Agree

\* Two beginnings of the same sequence agree, the shorter with the longer.
LEMMA AgreeLinear ==
  ASSUME NEW s \in State, NEW t \in State, NEW u \in State,
         Agree(s, u), Agree(t, u), Len(s) <= Len(t)
  PROVE  Agree(s, t)
BY StateLen DEF Agree

LEMMA AgreeSubSeq ==
  ASSUME NEW s \in State, NEW t \in State, Agree(s, t)
  PROVE  s = SubSeq(t, 1, Len(s))
<1>1. Len(s) \in Nat /\ Len(t) \in Nat /\ Len(s) <= Len(t)
  BY StateLen DEF Agree
<1>2. \A i \in 1..Len(s) : t[i] \in Tx
  BY <1>1, ElementOfSeq DEF State
<1>3. /\ SubSeq(t, 1, Len(s)) \in Seq(Tx)
      /\ Len(SubSeq(t, 1, Len(s))) = IF 1 <= Len(s) THEN Len(s) - 1 + 1 ELSE 0
      /\ \A i \in 1..Len(s) - 1 + 1 : SubSeq(t, 1, Len(s))[i] = t[1 + i - 1]
  BY <1>1, <1>2, SubSeqProperties DEF State
<1>4. Len(SubSeq(t, 1, Len(s))) = Len(s)
  BY <1>1, <1>3
<1>5. \A i \in 1..Len(s) : s[i] = SubSeq(t, 1, Len(s))[i]
  BY <1>1, <1>3 DEF Agree
<1> QED
  BY <1>3, <1>4, <1>5, SeqEqual DEF State

LEMMA AgreeIsPrefix ==
  ASSUME NEW s \in State, NEW t \in State, Agree(s, t)
  PROVE  IsPrefix(s, t)
<1>1. s = SubSeq(t, 1, Len(s))
  BY AgreeSubSeq
<1>2. SubSeq(s, 1, Len(s)) = s
  BY SubSeqFull DEF State
<1> QED
  BY <1>1, <1>2 DEF IsPrefix, Agree

----------------------------------------------------------------------------
(* A write to the journal, finished or cut off, keeps the files in order.  *)

LEMMA WriteKeepsFiles ==
  ASSUME NEW s \in State, NEW p \in State, NEW j \in Seq(Line), NEW l \in Line,
         l.ok => Len(l.st) = Len(p) + 1 /\ Agree(p, l.st),
         FilesOK(s, j, p)
  PROVE  FilesOK(s, Written(j, l), p)
<1> DEFINE w == Written(j, l)
<1> HIDE DEF w
<1>0. /\ Len(s) \in Nat /\ Len(p) \in Nat /\ Len(j) \in Nat
      /\ \A i \in 1..Len(j) : Len(j[i].st) \in Nat
  BY StateLen, LineFacts
<1>1. CASE j # <<>> /\ ~j[Len(j)].nl
  <2>1. /\ Len(w) = Len(j) /\ w[Len(j)] = Garbage(l.nl)
        /\ \A i \in 1..Len(j)-1 : w[i] = j[i]
    BY <1>1, WrittenMerges DEF w
  <2>2. ~w[Len(j)].ok
    BY <2>1 DEF Garbage
  <2>3. Len(j) >= 1
    BY <1>0, <1>1, EmptySeq
  <2>4. j[Len(j)].ok => Len(j[Len(j)].st) = Len(p) + 1
    BY <1>0, <1>1, <2>3 DEF FilesOK, NewlineLast
  <2>5. LinesNear(w, p)
    <3>1. SUFFICES ASSUME NEW i \in 1..Len(w), w[i].ok
                   PROVE  /\ 1 <= Len(w[i].st) /\ Len(w[i].st) <= Len(p) + 1
                          /\ Len(w[i].st) = Len(p) + 1 => Agree(p, w[i].st)
      BY DEF LinesNear
    <3>2. i \in 1..Len(j) /\ w[i] = j[i]
      BY <1>0, <2>1, <2>2, <3>1
    <3> QED
      BY <3>1, <3>2 DEF FilesOK, LinesNear
  <2>6. \A i \in 1..Len(j)-1 : FirstOfRevision(w, i) <=> FirstOfRevision(j, i)
    <3>1. ASSUME NEW i \in 1..Len(j)-1
          PROVE  w[i] = j[i] /\ \A k \in 1..i-1 : w[k] = j[k]
      BY <1>0, <2>1
    <3> QED
      BY <3>1, Zenon DEF FirstOfRevision
  <2>7. ~FirstOfRevision(w, Len(j))
    BY <2>2 DEF FirstOfRevision
  <2>8. FirstLinesTrue(s, w, p)
    BY <1>0, <2>1, <2>6, <2>7 DEF FilesOK, FirstLinesTrue
  <2>9. LinesCover(s, w, p)
    <3>1. SUFFICES ASSUME NEW r \in Len(s)+1..Len(p)
                   PROVE  \E i \in 1..Len(w) : FirstOfRevision(w, i) /\ Len(w[i].st) = r
      BY DEF LinesCover
    <3>2. PICK i \in 1..Len(j) : FirstOfRevision(j, i) /\ Len(j[i].st) = r
      BY <3>1 DEF FilesOK, LinesCover
    <3>3. i # Len(j)
      BY <1>0, <2>4, <3>1, <3>2 DEF FirstOfRevision
    <3> QED
      BY <1>0, <2>1, <2>6, <3>2, <3>3
  <2>10. NoJump(s, w)
    <3>1. SUFFICES ASSUME NEW i \in 1..Len(w), w[i].ok, Len(s) + 1 < Len(w[i].st)
                   PROVE  \E k \in 1..i-1 : w[k].ok /\ Len(w[k].st) + 1 = Len(w[i].st)
      BY DEF NoJump
    <3>2. i \in 1..Len(j)-1 /\ w[i] = j[i]
      BY <1>0, <2>1, <2>2, <3>1
    <3>3. PICK k \in 1..i-1 : j[k].ok /\ Len(j[k].st) + 1 = Len(j[i].st)
      BY <1>0, <3>1, <3>2 DEF FilesOK, NoJump
    <3>4. w[k] = j[k]
      BY <1>0, <2>1, <3>2
    <3> QED
      BY <3>2, <3>3, <3>4, Zenon
  <2>11. NewlineLast(w, p)
    BY <1>0, <2>1, <2>2 DEF FilesOK, NewlineLast
  <2> QED
    BY <2>5, <2>8, <2>9, <2>10, <2>11 DEF FilesOK, w
<1>2. CASE j = <<>> \/ j[Len(j)].nl
  <2>1. /\ Len(w) = Len(j) + 1 /\ w[Len(j) + 1] = l
        /\ \A i \in 1..Len(j) : w[i] = j[i]
    BY <1>2, WrittenAppends DEF w
  <2>2. \A i \in 1..Len(j) : j[i].nl
    <3>1. j = <<>> => Len(j) = 0
      BY EmptySeq
    <3> QED
      BY <1>0, <1>2, <3>1 DEF FilesOK, NewlineLast
  <2>3. LinesNear(w, p)
    BY <1>0, <2>1 DEF FilesOK, LinesNear
  <2>4. \A i \in 1..Len(j) : FirstOfRevision(w, i) <=> FirstOfRevision(j, i)
    <3>1. SUFFICES ASSUME NEW i \in 1..Len(j)
                   PROVE  FirstOfRevision(w, i) <=> FirstOfRevision(j, i)
      OBVIOUS
    <3>2. w[i] = j[i] /\ \A k \in 1..i-1 : w[k] = j[k]
      BY <1>0, <2>1, <3>1
    <3> QED
      BY <3>2, Zenon DEF FirstOfRevision
  <2>5. FirstLinesTrue(s, w, p)
    <3>1. SUFFICES ASSUME NEW i \in 1..Len(w), FirstOfRevision(w, i),
                          Len(s) < Len(w[i].st), Len(w[i].st) <= Len(p)
                   PROVE  Agree(w[i].st, p)
      BY DEF FirstLinesTrue
    <3>2. i # Len(j) + 1
      BY <1>0, <2>1, <3>1 DEF FirstOfRevision
    <3>3. i \in 1..Len(j) /\ w[i] = j[i]
      BY <1>0, <2>1, <3>2
    <3> QED
      BY <2>4, <3>1, <3>3 DEF FilesOK, FirstLinesTrue
  <2>6. LinesCover(s, w, p)
    BY <1>0, <2>1, <2>4 DEF FilesOK, LinesCover
  <2>7. NoJump(s, w)
    <3>1. SUFFICES ASSUME NEW i \in 1..Len(w), w[i].ok, Len(s) + 1 < Len(w[i].st)
                   PROVE  \E k \in 1..i-1 : w[k].ok /\ Len(w[k].st) + 1 = Len(w[i].st)
      BY DEF NoJump
    <3>2. CASE i \in 1..Len(j)
      <4>1. PICK k \in 1..i-1 : j[k].ok /\ Len(j[k].st) + 1 = Len(j[i].st)
        BY <2>1, <3>1, <3>2 DEF FilesOK, NoJump
      <4>2. w[k] = j[k] /\ w[i] = j[i]
        BY <1>0, <2>1, <3>2
      <4> QED
        BY <4>1, <4>2, Zenon
    <3>3. CASE i = Len(j) + 1
      <4>1. Len(w[i].st) = Len(p) + 1
        BY <2>1, <3>1, <3>3
      <4>2. Len(p) \in Len(s)+1..Len(p)
        BY <1>0, <3>1, <4>1
      <4>3. PICK k \in 1..Len(j) : FirstOfRevision(j, k) /\ Len(j[k].st) = Len(p)
        BY <4>2 DEF FilesOK, LinesCover
      <4>4. k \in 1..i-1 /\ w[k] = j[k] /\ Len(w[k].st) + 1 = Len(w[i].st)
        BY <1>0, <2>1, <3>3, <4>1, <4>3
      <4> QED
        BY <4>3, <4>4, Zenon DEF FirstOfRevision
    <3>4. i \in 1..Len(j) \/ i = Len(j) + 1
      BY <1>0, <2>1, <3>1
    <3> QED
      BY <3>2, <3>3, <3>4, Zenon
  <2>8. NewlineLast(w, p)
    BY <1>0, <2>1, <2>2 DEF FilesOK, NewlineLast
  <2> QED
    BY <2>3, <2>5, <2>6, <2>7, <2>8 DEF FilesOK, w
<1> QED
  BY <1>1, <1>2

LEMMA LeftoversKeepFiles ==
  ASSUME NEW s \in State, NEW p \in State, NEW j \in Seq(Line), NEW t \in Tx,
         NEW w \in Leftovers(j, Append(p, t)), FilesOK(s, j, p)
  PROVE  FilesOK(s, w, p)
<1> DEFINE x == Append(p, t)
<1>1. x \in State /\ Len(x) = Len(p) + 1 /\ Agree(p, x)
  BY AppendAgrees
<1> HIDE DEF x
<1>2. Whole(x) \in Line /\ Unterminated(x) \in Line /\ Garbage(FALSE) \in Line
  BY <1>1, LineTypes
<1>3. Whole(x).st = x /\ Unterminated(x).st = x /\ ~Garbage(FALSE).ok
  BY DEF Whole, Unterminated, Garbage
<1>4. /\ FilesOK(s, Written(j, Whole(x)), p)
      /\ FilesOK(s, Written(j, Unterminated(x)), p)
      /\ FilesOK(s, Written(j, Garbage(FALSE)), p)
  BY <1>1, <1>2, <1>3, WriteKeepsFiles
<1>5. w \in {j, Written(j, Garbage(FALSE)), Written(j, Unterminated(x)), Written(j, Whole(x))}
  BY DEF Leftovers, x
<1> QED
  BY <1>4, <1>5

\* After a finished write the last line is complete.
LEMMA WrittenEndsLine ==
  ASSUME NEW j \in Seq(Line), NEW x \in State
  PROVE  Written(j, Whole(x)) # <<>> /\ Written(j, Whole(x))[Len(Written(j, Whole(x)))].nl
<1> DEFINE l == Whole(x)
           w == Written(j, l)
<1>1. l \in Line /\ l.nl
  BY LineTypes DEF Whole
<1>2. Len(j) \in Nat /\ (j # <<>> => Len(j) >= 1)
  BY LenProperties, EmptySeq
<1>3. Garbage(l.nl).nl
  BY <1>1 DEF Garbage
<1> HIDE DEF l
<1>4. CASE j # <<>> /\ ~j[Len(j)].nl
  <2>1. Len(w) = Len(j) /\ w[Len(j)] = Garbage(l.nl)
    BY <1>1, <1>4, WrittenMerges
  <2>2. w # <<>>
    BY <1>2, <1>4, <2>1, EmptySeq
  <2> QED
    BY <1>3, <2>1, <2>2 DEF l
<1>5. CASE j = <<>> \/ j[Len(j)].nl
  <2>1. Len(w) = Len(j) + 1 /\ w[Len(j) + 1] = l
    BY <1>1, <1>5, WrittenAppends
  <2>2. w # <<>>
    BY <1>2, <2>1, EmptySeq
  <2> QED
    BY <1>1, <2>1, <2>2 DEF l
<1> QED
  BY <1>4, <1>5

----------------------------------------------------------------------------
(* The snapshot's steps keep the files in order.                           *)

LEMMA SnapshotAhead ==
  ASSUME NEW s \in State, NEW p \in State, NEW j \in Seq(Line), NEW t \in Tx,
         FilesOK(s, j, p)
  PROVE  FilesOK(Append(p, t), j, p)
<1> DEFINE x == Append(p, t)
<1>1. x \in State /\ Len(x) = Len(p) + 1 /\ Agree(p, x)
  BY AppendAgrees
<1> HIDE DEF x
<1>2. /\ Len(p) \in Nat /\ Len(j) \in Nat
      /\ \A i \in 1..Len(j) : Len(j[i].st) \in Nat
  BY StateLen, LineFacts
<1>3. OneOff(x, p)
  BY <1>1 DEF OneOff
<1>4. FirstLinesTrue(x, j, p) /\ LinesCover(x, j, p)
  BY <1>1, <1>2 DEF FirstLinesTrue, LinesCover
<1>5. NoJump(x, j)
  BY <1>1, <1>2 DEF NoJump, FilesOK, LinesNear
<1> QED
  BY <1>3, <1>4, <1>5 DEF FilesOK, x

LEMMA SnapshotNow ==
  ASSUME NEW s \in State, NEW p \in State, NEW j \in Seq(Line), FilesOK(s, j, p)
  PROVE  FilesOK(p, j, p)
<1>1. /\ Len(p) \in Nat /\ Len(j) \in Nat
      /\ \A i \in 1..Len(j) : Len(j[i].st) \in Nat
  BY StateLen, LineFacts
<1>2. OneOff(p, p)
  BY AgreeReflexive DEF OneOff
<1>3. FirstLinesTrue(p, j, p) /\ LinesCover(p, j, p)
  BY <1>1 DEF FirstLinesTrue, LinesCover
<1>4. NoJump(p, j)
  BY <1>1 DEF NoJump, FilesOK, LinesNear
<1> QED
  BY <1>2, <1>3, <1>4 DEF FilesOK

LEMMA EmptyJournal ==
  ASSUME NEW p \in State
  PROVE  FilesOK(p, <<>>, p)
<1>1. Len(<<>>) = 0 /\ Len(p) \in Nat
  BY StateLen, EmptySeq
<1>2. OneOff(p, p)
  BY AgreeReflexive DEF OneOff
<1> QED
  BY <1>1, <1>2 DEF FilesOK, LinesNear, FirstLinesTrue, LinesCover, NoJump, NewlineLast

\* Publishing the state that the snapshot holds.
LEMMA PublishSnapshot ==
  ASSUME NEW p \in State, NEW j \in Seq(Line), NEW t \in Tx,
         FilesOK(Append(p, t), j, p), \A i \in 1..Len(j) : j[i].nl
  PROVE  FilesOK(Append(p, t), j, Append(p, t))
<1> DEFINE x == Append(p, t)
<1>1. x \in State /\ Len(x) = Len(p) + 1
  BY AppendAgrees
<1>h. FilesOK(x, j, p)
  OBVIOUS
<1> HIDE DEF x
<1>2. /\ Len(p) \in Nat /\ Len(j) \in Nat
      /\ \A i \in 1..Len(j) : Len(j[i].st) \in Nat
  BY StateLen, LineFacts
<1>3. OneOff(x, x)
  BY <1>1, AgreeReflexive DEF OneOff
<1>4. LinesNear(j, x)
  BY <1>1, <1>2, <1>h DEF FilesOK, LinesNear
<1>5. FirstLinesTrue(x, j, x) /\ LinesCover(x, j, x)
  BY <1>1, <1>2 DEF FirstLinesTrue, LinesCover
<1>6. NoJump(x, j)
  BY <1>h DEF FilesOK
<1>7. NewlineLast(j, x)
  BY DEF NewlineLast
<1> QED
  BY <1>3, <1>4, <1>5, <1>6, <1>7 DEF FilesOK, x

----------------------------------------------------------------------------
(* load() keeps the files in order.                                        *)

\* Adding the missing newline changes no line's content.
LEMMA SameLines ==
  ASSUME NEW s \in State, NEW p \in State, NEW j \in Seq(Line), NEW w \in Seq(Line),
         Len(w) = Len(j),
         \A i \in 1..Len(j) : w[i].st = j[i].st /\ (w[i].ok <=> j[i].ok),
         \A i \in 1..Len(j) : j[i].nl => w[i].nl,
         FilesOK(s, j, p)
  PROVE  /\ FilesOK(s, w, p)
         /\ \A i \in 1..Len(j) : FirstOfRevision(w, i) <=> FirstOfRevision(j, i)
<1>1. \A i \in 1..Len(j) : 1..i-1 \subseteq 1..Len(j)
  BY LenProperties
<1>2. \A i \in 1..Len(j) : FirstOfRevision(w, i) <=> FirstOfRevision(j, i)
  <2>1. ASSUME NEW i \in 1..Len(j)
        PROVE  /\ w[i].st = j[i].st /\ (w[i].ok <=> j[i].ok)
               /\ \A k \in 1..i-1 : w[k].st = j[k].st /\ (w[k].ok <=> j[k].ok)
    BY <1>1, Zenon
  <2> QED
    BY <2>1, Zenon DEF FirstOfRevision
<1>3. LinesNear(w, p)
  BY Zenon DEF FilesOK, LinesNear
<1>4. FirstLinesTrue(s, w, p)
  BY <1>2, Zenon DEF FilesOK, FirstLinesTrue
<1>5. LinesCover(s, w, p)
  BY <1>2, Zenon DEF FilesOK, LinesCover
<1>6. NoJump(s, w)
  <2>1. SUFFICES ASSUME NEW i \in 1..Len(w), w[i].ok, Len(s) + 1 < Len(w[i].st)
                 PROVE  \E k \in 1..i-1 : w[k].ok /\ Len(w[k].st) + 1 = Len(w[i].st)
    BY DEF NoJump
  <2>2. w[i].st = j[i].st /\ j[i].ok
    BY <2>1, Zenon
  <2>3. PICK k \in 1..i-1 : j[k].ok /\ Len(j[k].st) + 1 = Len(j[i].st)
    BY <2>1, <2>2, Zenon DEF FilesOK, NoJump
  <2>4. k \in 1..Len(j)
    BY <1>1, <2>1
  <2> QED
    BY <2>2, <2>3, <2>4, Zenon
<1>7. NewlineLast(w, p)
  BY Zenon DEF FilesOK, NewlineLast
<1> QED
  BY <1>2, <1>3, <1>4, <1>5, <1>6, <1>7 DEF FilesOK

\* Cutting off a last line that does not parse loses nothing.
LEMMA CutTail ==
  ASSUME NEW s \in State, NEW p \in State, NEW j \in Seq(Line), NEW w \in Seq(Line),
         Len(j) = Len(w) + 1, \A i \in 1..Len(w) : w[i] = j[i] /\ j[i].nl,
         ~j[Len(j)].ok, FilesOK(s, j, p)
  PROVE  /\ FilesOK(s, w, p)
         /\ \A i \in 1..Len(w) : FirstOfRevision(w, i) <=> FirstOfRevision(j, i)
<1>0. Len(j) \in Nat /\ Len(w) \in Nat
  BY LenProperties
<1>1. \A i \in 1..Len(w) : i \in 1..Len(j) /\ 1..i-1 \subseteq 1..Len(w)
  BY <1>0
<1>2. \A i \in 1..Len(w) : FirstOfRevision(w, i) <=> FirstOfRevision(j, i)
  <2>1. ASSUME NEW i \in 1..Len(w)
        PROVE  w[i] = j[i] /\ \A k \in 1..i-1 : w[k] = j[k]
    BY <1>1, Zenon
  <2> QED
    BY <2>1, Zenon DEF FirstOfRevision
<1>3. LinesNear(w, p)
  BY <1>1, Zenon DEF FilesOK, LinesNear
<1>4. FirstLinesTrue(s, w, p)
  BY <1>1, <1>2, Zenon DEF FilesOK, FirstLinesTrue
<1>5. LinesCover(s, w, p)
  <2>1. SUFFICES ASSUME NEW r \in Len(s)+1..Len(p)
                 PROVE  \E i \in 1..Len(w) : FirstOfRevision(w, i) /\ Len(w[i].st) = r
    BY DEF LinesCover
  <2>2. PICK i \in 1..Len(j) : FirstOfRevision(j, i) /\ Len(j[i].st) = r
    BY DEF FilesOK, LinesCover
  <2>3. i # Len(j)
    BY <2>2, Zenon DEF FirstOfRevision
  <2>4. i \in 1..Len(w)
    BY <1>0, <2>3
  <2> QED
    BY <1>2, <2>2, <2>4, Zenon
<1>6. NoJump(s, w)
  <2>1. SUFFICES ASSUME NEW i \in 1..Len(w), w[i].ok, Len(s) + 1 < Len(w[i].st)
                 PROVE  \E k \in 1..i-1 : w[k].ok /\ Len(w[k].st) + 1 = Len(w[i].st)
    BY DEF NoJump
  <2>2. w[i] = j[i] /\ i \in 1..Len(j)
    BY <1>1, <2>1, Zenon
  <2>3. PICK k \in 1..i-1 : j[k].ok /\ Len(j[k].st) + 1 = Len(j[i].st)
    BY <2>1, <2>2, Zenon DEF FilesOK, NoJump
  <2>4. k \in 1..Len(w)
    BY <1>1, <2>1
  <2> QED
    BY <2>2, <2>3, <2>4, Zenon
<1>7. NewlineLast(w, p)
  BY Zenon DEF NewlineLast
<1> QED
  BY <1>2, <1>3, <1>4, <1>5, <1>6, <1>7 DEF FilesOK

\* The next line, when load() takes it: it continues mem as was promised.
LEMMA NextLineTrue ==
  ASSUME TypeOK, IInv, LoadLine, Len(Current.st) > Len(mem)
  PROVE  /\ Len(Current.st) = Len(mem) + 1
         /\ FirstOfRevision(journal, pos)
         /\ Agree(mem, Current.st)
         /\ OneOff(Current.st, promised)
<1> USE DEF Current
<1>1. /\ mem \in State /\ promised \in State /\ snap \in State
      /\ journal \in Seq(Line) /\ pos \in Nat \ {0}
  BY DEF TypeOK
<1>2. /\ Len(mem) \in Nat /\ Len(promised) \in Nat /\ Len(snap) \in Nat
      /\ Len(journal) \in Nat
      /\ \A i \in 1..Len(journal) : journal[i].st \in State /\ Len(journal[i].st) \in Nat
  BY <1>1, StateLen, LineFacts
<1>3. pc = "load" /\ pos \in 1..Len(journal) /\ journal[pos].ok
  BY <1>1, <1>2 DEF LoadLine, Loading
<1>4. Len(journal[pos].st) <= Len(mem) + 1
  BY DEF LoadLine, Revision
<1>5. Len(journal[pos].st) = Len(mem) + 1
  BY <1>2, <1>3, <1>4
<1>6. /\ Agree(snap, mem) /\ OneOff(mem, promised)
      /\ \A i \in 1..pos-1 :
           journal[i].ok /\ journal[i].nl /\ Len(journal[i].st) <= Len(mem)
  BY <1>3 DEF IInv, LoadOK
<1>7. FirstOfRevision(journal, pos)
  <2>1. ASSUME NEW k \in 1..pos-1 PROVE Revision(journal[k].st) # Revision(journal[pos].st)
    <3>1. k \in 1..Len(journal)
      BY <1>2, <1>3
    <3> QED
      BY <1>2, <1>5, <1>6, <3>1 DEF Revision
  <2> QED
    BY <1>3, <2>1, Zenon DEF FirstOfRevision
<1>8. /\ Len(journal[pos].st) <= Len(promised) + 1
      /\ Len(journal[pos].st) = Len(promised) + 1 => Agree(promised, journal[pos].st)
  BY <1>3 DEF IInv, FilesOK, LinesNear
<1>9. Len(snap) <= Len(mem)
  BY <1>6 DEF Agree
<1>10. CASE Len(journal[pos].st) <= Len(promised)
  <2>1. Len(snap) < Len(journal[pos].st)
    BY <1>2, <1>3, <1>5, <1>9
  <2>2. Agree(journal[pos].st, promised)
    BY <1>3, <1>7, <1>10, <2>1 DEF IInv, FilesOK, FirstLinesTrue
  <2>3. Agree(mem, promised)
    BY <1>2, <1>3, <1>5, <1>6, <1>10 DEF OneOff
  <2>4. Agree(mem, journal[pos].st)
    BY <1>1, <1>2, <1>3, <1>5, <2>2, <2>3, AgreeLinear
  <2> QED
    BY <1>5, <1>7, <2>2, <2>4 DEF OneOff
<1>11. CASE Len(journal[pos].st) = Len(promised) + 1
  <2>1. Len(mem) = Len(promised)
    BY <1>2, <1>5, <1>11
  <2>2. Agree(mem, promised)
    BY <1>2, <1>6, <2>1 DEF OneOff
  <2>3. Agree(mem, journal[pos].st)
    BY <1>1, <1>2, <1>3, <1>8, <1>11, <2>2, AgreeTransitive
  <2> QED
    BY <1>5, <1>7, <1>8, <1>11, <2>3 DEF OneOff
<1> QED
  BY <1>2, <1>3, <1>8, <1>10, <1>11

LEMMA LoadLineKeeps ==
  ASSUME TypeOK, TypeOK', IInv, LoadLine
  PROVE  IInv'
<1>1. /\ mem \in State /\ mem' \in State /\ promised \in State /\ snap \in State
      /\ journal \in Seq(Line) /\ journal' \in Seq(Line) /\ pos \in Nat \ {0}
  BY DEF TypeOK
<1>2. /\ pc = "load" /\ pc' = "load" /\ pos \in 1..Len(journal) /\ Len(journal) \in Nat
      /\ pos' = pos + 1 /\ snap' = snap /\ promised' = promised
  BY <1>1, LineFacts DEF LoadLine, Loading, history
<1>3. /\ Len(journal') = Len(journal)
      /\ \A i \in 1..Len(journal) : i # pos => journal'[i] = journal[i]
      /\ Current.nl => journal'[pos] = Current
      /\ ~Current.nl => journal'[pos] = Whole(Current.st)
  <2>1. CASE Current.nl
    BY <1>2, <2>1 DEF LoadLine, Current
  <2>2. CASE ~Current.nl
    <3>1. journal' = [journal EXCEPT ![pos] = Whole(Current.st)]
      BY <2>2 DEF LoadLine
    <3>2. Current.st \in State
      BY <1>1, <1>2, LineFacts DEF Current
    <3>3. Whole(Current.st) \in Line
      BY <3>2, LineTypes
    <3> HIDE DEF Current
    <3> QED
      BY <1>1, <1>2, <2>2, <3>1, <3>3, ExceptSeq
  <2> QED
    BY <2>1, <2>2
<1>4. Current = journal[pos] /\ journal[pos].ok
  BY DEF LoadLine, Current
<1>5. /\ \A i \in 1..Len(journal) :
           journal'[i].st = journal[i].st /\ (journal'[i].ok <=> journal[i].ok)
      /\ \A i \in 1..Len(journal) : journal[i].nl => journal'[i].nl
      /\ journal'[pos].nl
  <2>1. journal'[pos].st = journal[pos].st /\ journal'[pos].ok /\ journal'[pos].nl
    BY <1>3, <1>4 DEF Whole
  <2> QED
    BY <1>3, <1>4, <2>1, Zenon
<1>6. /\ FilesOK(snap, journal', promised)
      /\ \A i \in 1..Len(journal) :
           FirstOfRevision(journal', i) <=> FirstOfRevision(journal, i)
  <2>1. FilesOK(snap, journal, promised)
    BY DEF IInv
  <2> QED
    BY <1>1, <1>3, <1>5, <2>1, SameLines
<1>7. /\ Agree(snap, mem) /\ OneOff(mem, promised)
      /\ \A i \in 1..pos-1 :
           journal[i].ok /\ journal[i].nl /\ Len(journal[i].st) <= Len(mem)
      /\ \A i \in 1..pos-1 :
           FirstOfRevision(journal, i) /\ Len(snap) < Len(journal[i].st)
             => Agree(journal[i].st, mem)
      /\ \A r \in Len(snap)+1..Len(mem) :
           \E i \in 1..pos-1 : FirstOfRevision(journal, i) /\ Len(journal[i].st) = r
  BY <1>2 DEF IInv, LoadOK
<1>8. /\ Len(mem) \in Nat /\ Len(mem') \in Nat /\ Len(snap) \in Nat
      /\ \A i \in 1..Len(journal) : journal[i].st \in State /\ Len(journal[i].st) \in Nat
  BY <1>1, StateLen, LineFacts
<1>9. Agree(mem, mem') /\ OneOff(mem', promised) /\ Len(journal[pos].st) <= Len(mem')
  <2>1. CASE Len(Current.st) > Len(mem)
    <3>1. mem' = Current.st
      BY <2>1 DEF LoadLine, Revision
    <3> QED
      BY <1>2, <1>4, <1>8, <2>1, <3>1, NextLineTrue
  <2>2. CASE ~(Len(Current.st) > Len(mem))
    <3>1. mem' = mem
      BY <2>2 DEF LoadLine, Revision
    <3> QED
      BY <1>1, <1>2, <1>4, <1>7, <1>8, <2>2, <3>1, AgreeReflexive
  <2> QED
    BY <2>1, <2>2
<1>10. Agree(snap, mem')
  BY <1>1, <1>7, <1>9, AgreeTransitive
<1>11. \A i \in 1..pos :
         journal'[i].ok /\ journal'[i].nl /\ Len(journal'[i].st) <= Len(mem')
  <2>1. SUFFICES ASSUME NEW i \in 1..pos
                 PROVE  journal'[i].ok /\ journal'[i].nl /\ Len(journal'[i].st) <= Len(mem')
    OBVIOUS
  <2>2. i \in 1..Len(journal) /\ Len(mem) <= Len(mem')
    BY <1>2, <1>9 DEF Agree
  <2>3. CASE i = pos
    BY <1>2, <1>4, <1>5, <1>9, <2>2, <2>3
  <2>4. CASE i \in 1..pos-1
    BY <1>5, <1>7, <1>8, <2>2, <2>4
  <2> QED
    BY <1>2, <2>3, <2>4
<1>12. \A i \in 1..pos :
         FirstOfRevision(journal', i) /\ Len(snap) < Len(journal'[i].st)
           => Agree(journal'[i].st, mem')
  <2>1. SUFFICES ASSUME NEW i \in 1..pos,
                        FirstOfRevision(journal, i), Len(snap) < Len(journal[i].st)
                 PROVE  Agree(journal[i].st, mem')
    <3>1. 1..pos \subseteq 1..Len(journal)
      BY <1>2
    <3> QED
      BY <1>5, <1>6, <3>1
  <2>2. i \in 1..Len(journal)
    BY <1>2
  <2>3. CASE i \in 1..pos-1
    BY <1>1, <1>7, <1>8, <1>9, <2>1, <2>2, <2>3, AgreeTransitive
  <2>4. CASE i = pos /\ Len(Current.st) > Len(mem)
    <3>1. mem' = journal[i].st
      BY <1>4, <2>4 DEF LoadLine, Revision
    <3> QED
      BY <1>1, <3>1, AgreeReflexive
  <2>5. CASE i = pos /\ ~(Len(Current.st) > Len(mem))
    <3>1. Len(journal[pos].st) \in Len(snap)+1..Len(mem)
      BY <1>2, <1>4, <1>8, <2>1, <2>5
    <3>2. PICK k \in 1..pos-1 : FirstOfRevision(journal, k) /\ Len(journal[k].st) = Len(journal[pos].st)
      BY <1>7, <3>1
    <3>3. journal[k].ok
      BY <1>7
    <3> QED
      BY <2>1, <2>5, <3>2, <3>3, Zenon DEF FirstOfRevision, Revision
  <2> QED
    BY <1>2, <2>3, <2>4, <2>5
<1>13. \A r \in Len(snap)+1..Len(mem') :
         \E i \in 1..pos : FirstOfRevision(journal', i) /\ Len(journal'[i].st) = r
  <2>1. SUFFICES ASSUME NEW r \in Len(snap)+1..Len(mem')
                 PROVE  \E i \in 1..pos : FirstOfRevision(journal, i) /\ Len(journal[i].st) = r
    <3>1. 1..pos \subseteq 1..Len(journal)
      BY <1>2
    <3> QED
      BY <1>5, <1>6, <3>1
  <2>2. CASE r <= Len(mem)
    <3>1. r \in Len(snap)+1..Len(mem)
      BY <1>8, <2>2
    <3>2. PICK i \in 1..pos-1 : FirstOfRevision(journal, i) /\ Len(journal[i].st) = r
      BY <1>7, <3>1
    <3>3. i \in 1..pos
      BY <1>2
    <3> QED
      BY <3>2, <3>3
  <2>3. CASE r > Len(mem)
    <3>1. mem' = Current.st /\ Len(Current.st) > Len(mem)
      BY <1>8, <2>3 DEF LoadLine, Revision
    <3>2. FirstOfRevision(journal, pos) /\ Len(journal[pos].st) = r
      BY <1>4, <1>8, <2>3, <3>1, NextLineTrue
    <3> QED
      BY <1>2, <3>2
  <2> QED
    BY <1>8, <2>2, <2>3
<1>14. LoadOK'
  <2>1. pos'-1 = pos /\ pos' <= Len(journal') + 1
    BY <1>2, <1>3
  <2> QED
    BY <1>2, <1>9, <1>10, <1>11, <1>12, <1>13, <2>1 DEF LoadOK
<1>15. ServingOK'
  BY <1>2 DEF ServingOK, Up, Updating, Compacting
<1> QED
  BY <1>2, <1>6, <1>14, <1>15 DEF IInv

LEMMA LoadTailKeeps ==
  ASSUME TypeOK, TypeOK', IInv, LoadTail
  PROVE  IInv'
<1>1. /\ snap \in State /\ promised \in State
      /\ journal \in Seq(Line) /\ journal' \in Seq(Line) /\ pos \in Nat \ {0}
  BY DEF TypeOK
<1>2. /\ pc = "load" /\ pc' = "load" /\ pos \in 1..Len(journal) /\ Len(journal) \in Nat
      /\ pos' = pos /\ snap' = snap /\ promised' = promised /\ mem' = mem
  BY <1>1, LineFacts DEF LoadTail, Loading, history
<1>3. ~journal[pos].ok /\ ~journal[pos].nl
  BY DEF LoadTail, Current
<1>4. pos = Len(journal)
  BY <1>2, <1>3 DEF IInv, FilesOK, NewlineLast
<1>5. Len(journal') = pos - 1 /\ \A i \in 1..pos-1 : journal'[i] = journal[i]
  <2>1. \A i \in 1..pos-1 : journal[i] \in Line
    BY <1>1, <1>2, ElementOfSeq
  <2>2. journal' = SubSeq(journal, 1, pos - 1)
    BY DEF LoadTail
  <2>3. 1 \in Int /\ pos - 1 \in Int /\ (pos - 1) - 1 + 1 = pos - 1
    BY <1>1
  <2>4. /\ Len(SubSeq(journal, 1, pos - 1)) = IF 1 <= pos - 1 THEN (pos - 1) - 1 + 1 ELSE 0
        /\ \A i \in 1..(pos - 1) - 1 + 1 : SubSeq(journal, 1, pos - 1)[i] = journal[1 + i - 1]
    BY <2>1, <2>3, SubSeqProperties
  <2> QED
    BY <1>1, <2>2, <2>3, <2>4
<1>6. /\ Agree(snap, mem) /\ OneOff(mem, promised)
      /\ \A i \in 1..pos-1 :
           journal[i].ok /\ journal[i].nl /\ Len(journal[i].st) <= Len(mem)
      /\ \A i \in 1..pos-1 :
           FirstOfRevision(journal, i) /\ Len(snap) < Len(journal[i].st)
             => Agree(journal[i].st, mem)
      /\ \A r \in Len(snap)+1..Len(mem) :
           \E i \in 1..pos-1 : FirstOfRevision(journal, i) /\ Len(journal[i].st) = r
  BY <1>2 DEF IInv, LoadOK
<1>7. /\ FilesOK(snap, journal', promised)
      /\ \A i \in 1..pos-1 : FirstOfRevision(journal', i) <=> FirstOfRevision(journal, i)
  <2>1. FilesOK(snap, journal, promised)
    BY DEF IInv
  <2>2. /\ Len(journal) = Len(journal') + 1 /\ ~journal[Len(journal)].ok
        /\ 1..Len(journal') = 1..pos-1
    BY <1>2, <1>3, <1>4, <1>5
  <2>3. \A i \in 1..Len(journal') : journal'[i] = journal[i] /\ journal[i].nl
    BY <1>5, <1>6, <2>2, Zenon
  <2> QED
    BY <1>1, <2>1, <2>2, <2>3, CutTail
<1>8. LoadOK'
  <2>1. pos' <= Len(journal') + 1
    BY <1>1, <1>2, <1>5
  <2>2. /\ \A i \in 1..pos-1 :
             journal'[i].ok /\ journal'[i].nl /\ Len(journal'[i].st) <= Len(mem)
        /\ \A i \in 1..pos-1 :
             FirstOfRevision(journal', i) /\ Len(snap) < Len(journal'[i].st)
               => Agree(journal'[i].st, mem)
        /\ \A r \in Len(snap)+1..Len(mem) :
             \E i \in 1..pos-1 : FirstOfRevision(journal', i) /\ Len(journal'[i].st) = r
    BY <1>5, <1>6, <1>7, Zenon
  <2> QED
    BY <1>2, <1>6, <2>1, <2>2 DEF LoadOK
<1>9. ServingOK'
  BY <1>2 DEF ServingOK, Up, Updating, Compacting
<1> QED
  BY <1>2, <1>7, <1>8, <1>9 DEF IInv

\* What a finished load() makes visible continues what was promised.
LEMMA LoadDoneKeeps ==
  ASSUME TypeOK, IInv, LoadDone
  PROVE  IInv' /\ Agree(promised, promised')
<1>1. /\ snap \in State /\ promised \in State /\ mem \in State /\ journal \in Seq(Line)
  BY DEF TypeOK
<1>2. /\ Len(journal) \in Nat /\ Len(snap) \in Nat /\ Len(mem) \in Nat /\ Len(promised) \in Nat
      /\ \A i \in 1..Len(journal) : journal[i].st \in State /\ Len(journal[i].st) \in Nat
  BY <1>1, StateLen, LineFacts
<1>3. /\ pc = "load" /\ pc' = "idle" /\ pos = Len(journal) + 1
      /\ snap' = snap /\ journal' = journal /\ mem' = mem /\ promised' = mem
  BY DEF LoadDone, Loaded, files
<1>4. /\ Agree(snap, mem) /\ OneOff(mem, promised)
      /\ \A i \in 1..Len(journal) :
           journal[i].ok /\ journal[i].nl /\ Len(journal[i].st) <= Len(mem)
      /\ \A i \in 1..Len(journal) :
           FirstOfRevision(journal, i) /\ Len(snap) < Len(journal[i].st)
             => Agree(journal[i].st, mem)
      /\ \A r \in Len(snap)+1..Len(mem) :
           \E i \in 1..Len(journal) : FirstOfRevision(journal, i) /\ Len(journal[i].st) = r
  <2>1. pos - 1 = Len(journal)
    BY <1>2, <1>3
  <2> QED
    BY <1>3, <2>1 DEF IInv, LoadOK
<1>5. Len(promised) <= Len(mem)
  <2>1. SUFFICES ASSUME Len(mem) < Len(promised)
                 PROVE  FALSE
    BY <1>2
  <2>2. Len(promised) \in Len(snap)+1..Len(promised)
    BY <1>2, <1>4, <2>1 DEF Agree
  <2>3. PICK i \in 1..Len(journal) :
          FirstOfRevision(journal, i) /\ Len(journal[i].st) = Len(promised)
    BY <2>2 DEF IInv, FilesOK, LinesCover
  <2> QED
    BY <1>2, <1>4, <2>1, <2>3
<1>6. Agree(promised, mem)
  <2>1. CASE Agree(mem, promised)
    BY <1>1, <1>5, <2>1, AgreeEqual, AgreeReflexive
  <2> QED
    BY <1>4, <2>1 DEF OneOff
<1>7. FilesOK(snap, journal, mem)
  <2>1. OneOff(snap, mem)
    BY <1>4 DEF OneOff
  <2>2. LinesNear(journal, mem)
    BY <1>2, <1>4 DEF IInv, FilesOK, LinesNear
  <2>3. FirstLinesTrue(snap, journal, mem) /\ LinesCover(snap, journal, mem)
    BY <1>4 DEF FirstLinesTrue, LinesCover
  <2>4. NewlineLast(journal, mem)
    BY <1>4, Zenon DEF NewlineLast
  <2> QED
    BY <2>1, <2>2, <2>3, <2>4 DEF IInv, FilesOK
<1>8. ServingOK'
  BY <1>3 DEF ServingOK, Up, Updating, Compacting
<1>9. LoadOK'
  BY <1>3 DEF LoadOK
<1> QED
  BY <1>3, <1>6, <1>7, <1>8, <1>9 DEF IInv

----------------------------------------------------------------------------
(* Without power cuts, every step keeps the invariant and what was         *)
(* promised.                                                               *)

LEMMA StepKeeps ==
  ASSUME "power" \notin Faults, TypeOK, TypeOK', IInv, [Next]_vars
  PROVE  IInv' /\ Agree(promised, promised')
<1>1. /\ snap \in State /\ promised \in State /\ mem \in State /\ next \in State
      /\ journal \in Seq(Line) /\ FilesOK(snap, journal, promised)
  BY DEF TypeOK, IInv
<1>2. Agree(promised, promised)
  BY <1>1, AgreeReflexive
<1>3. ASSUME NEW t \in Tx, Decline(t) PROVE IInv' /\ Agree(promised, promised')
  BY <1>2, <1>3 DEF Decline, files, IInv, ServingOK, LoadOK, Up, Updating, Compacting
<1>4. ASSUME NEW t \in Tx, Begin(t) PROVE IInv' /\ Agree(promised, promised')
  BY <1>1, <1>2, <1>4 DEF Begin, files, IInv, ServingOK, LoadOK, Up, Updating, Compacting
<1>5. CASE AppendJournal
  <2>1. /\ pc = "append" /\ pc' = "snapshot" /\ journal' = Written(journal, Whole(next))
        /\ UNCHANGED <<mem, next, snap, promised>>
    BY <1>5 DEF AppendJournal, history
  <2>2. PICK t \in Tx : next = Append(promised, t)
    BY <2>1 DEF IInv, ServingOK, Updating
  <2>3. journal' \in Leftovers(journal, Append(promised, t))
    BY <2>1, <2>2 DEF Leftovers
  <2>4. FilesOK(snap, journal', promised)
    BY <1>1, <2>3, LeftoversKeepFiles
  <2>5. journal' # <<>> /\ journal'[Len(journal')].nl
    BY <1>1, <2>1, WrittenEndsLine
  <2>6. ServingOK'
    BY <2>1, <2>2, <2>5 DEF IInv, ServingOK, Up, Updating, Compacting
  <2> QED
    BY <1>2, <2>1, <2>4, <2>6 DEF IInv, LoadOK
<1>6. CASE AppendFails
  <2>1. /\ pc = "append" /\ pc' = "idle" /\ journal' \in Leftovers(journal, next)
        /\ UNCHANGED <<mem, snap, promised>>
    BY <1>6 DEF AppendFails, Return, Leftovers
  <2>2. PICK t \in Tx : next = Append(promised, t)
    BY <2>1 DEF IInv, ServingOK, Updating
  <2>3. FilesOK(snap, journal', promised)
    BY <1>1, <2>1, <2>2, LeftoversKeepFiles
  <2>4. ServingOK'
    BY <2>1 DEF IInv, ServingOK, Up, Updating, Compacting
  <2> QED
    BY <1>2, <2>1, <2>3, <2>4 DEF IInv, LoadOK
<1>7. CASE RenameSnapshot
  <2>1. /\ pc = "snapshot" /\ pc' = "publish" /\ snap' = next
        /\ UNCHANGED <<mem, next, journal, promised>>
    BY <1>7 DEF RenameSnapshot, history
  <2>2. PICK t \in Tx : next = Append(promised, t)
    BY <2>1 DEF IInv, ServingOK, Updating
  <2>3. FilesOK(snap', journal, promised)
    BY <1>1, <2>1, <2>2, SnapshotAhead
  <2>4. ServingOK'
    BY <2>1, <2>2 DEF IInv, ServingOK, Up, Updating, Compacting
  <2> QED
    BY <1>2, <2>1, <2>3, <2>4 DEF IInv, LoadOK
<1>8. CASE SnapshotFails
  <2>1. pc = "snapshot" /\ pc' = "idle" /\ UNCHANGED <<mem, snap, journal, promised>>
    BY <1>8 DEF SnapshotFails, Return, files
  <2> QED
    BY <1>1, <1>2, <2>1 DEF IInv, ServingOK, LoadOK, Up, Updating, Compacting
<1>9. CASE Publish
  <2>1. /\ pc = "publish" /\ pc' = "idle" /\ mem' = next /\ promised' = next
        /\ UNCHANGED <<snap, journal>>
    BY <1>9 DEF Publish, Return, files
  <2>2. PICK t \in Tx : next = Append(promised, t)
    BY <2>1 DEF IInv, ServingOK, Updating
  <2>3. snap = next /\ journal[Len(journal)].nl
    BY <2>1 DEF IInv, ServingOK
  <2>4. \A i \in 1..Len(journal) : journal[i].nl
    BY <1>1, <2>3, Zenon DEF FilesOK, NewlineLast
  <2>5. FilesOK(next, journal, next)
    BY <1>1, <2>2, <2>3, <2>4, PublishSnapshot
  <2>6. ServingOK'
    BY <2>1 DEF ServingOK, Up, Updating, Compacting
  <2>7. Agree(promised, next)
    BY <1>1, <2>2, AppendAgrees
  <2> QED
    BY <2>1, <2>3, <2>5, <2>6, <2>7 DEF IInv, LoadOK
<1>10. CASE Inspect
  BY <1>1, <1>2, <1>10 DEF Inspect, files, history, IInv, ServingOK, LoadOK, Up, Updating, Compacting
<1>11. CASE BeginCompact
  BY <1>1, <1>2, <1>11 DEF BeginCompact, files, history, IInv, ServingOK, LoadOK, Up, Updating, Compacting
<1>12. CASE CompactSnapshot
  <2>1. /\ pc = "compact" /\ pc' = "truncate" /\ snap' = mem
        /\ UNCHANGED <<mem, next, journal, promised>>
    BY <1>12 DEF CompactSnapshot, history
  <2>2. mem = promised
    BY <2>1 DEF IInv, ServingOK, Up, Compacting
  <2>3. FilesOK(snap', journal, promised)
    BY <1>1, <2>1, <2>2, SnapshotNow
  <2>4. ServingOK'
    BY <2>1, <2>2 DEF ServingOK, Up, Updating, Compacting
  <2> QED
    BY <1>2, <2>1, <2>3, <2>4 DEF IInv, LoadOK
<1>13. CASE CompactJournal
  <2>1. /\ pc = "truncate" /\ pc' = "idle" /\ journal' = <<>>
        /\ UNCHANGED <<mem, next, snap, promised>>
    BY <1>13 DEF CompactJournal, history
  <2>2. snap = promised /\ mem = promised
    BY <2>1 DEF IInv, ServingOK, Up, Compacting
  <2>3. FilesOK(snap, journal', promised)
    BY <1>1, <2>1, <2>2, EmptyJournal
  <2>4. ServingOK'
    BY <2>1, <2>2 DEF ServingOK, Up, Updating, Compacting
  <2> QED
    BY <1>2, <2>1, <2>3, <2>4 DEF IInv, LoadOK
<1>14. CASE CompactFails
  <2>1. pc \in Compacting /\ pc' = "idle" /\ UNCHANGED <<mem, next, snap, journal, promised>>
    BY <1>14 DEF CompactFails, files, history
  <2> QED
    BY <1>1, <1>2, <2>1 DEF IInv, ServingOK, LoadOK, Up, Updating, Compacting
<1>15. CASE Kill
  <2>1. pc' = "down" /\ UNCHANGED <<snap, promised>>
    BY <1>15 DEF Kill, Stop
  <2>2. FilesOK(snap, journal', promised)
    <3>1. CASE pc = "append"
      <4>1. PICK t \in Tx : next = Append(promised, t)
        BY <3>1 DEF IInv, ServingOK, Updating
      <4>2. journal' \in Leftovers(journal, next)
        BY <1>15, <3>1 DEF Kill
      <4> QED
        BY <1>1, <4>1, <4>2, LeftoversKeepFiles
    <3>2. CASE pc # "append"
      BY <1>1, <1>15, <3>2 DEF Kill
    <3> QED
      BY <3>1, <3>2
  <2>3. ServingOK'
    BY <2>1 DEF ServingOK, Up, Updating, Compacting
  <2> QED
    BY <1>2, <2>1, <2>2, <2>3 DEF IInv, LoadOK
<1>16. CASE PowerCut
  BY <1>16 DEF PowerCut
<1>17. CASE Open
  <2>1. /\ pc' = "load" /\ mem' = snap /\ pos' = 1
        /\ UNCHANGED <<snap, journal, promised>>
    BY <1>17 DEF Open, files, history
  <2>2. Agree(snap, snap) /\ OneOff(snap, promised) /\ Len(journal) \in Nat /\ Len(snap) \in Nat
    BY <1>1, AgreeReflexive, StateLen, LineFacts DEF FilesOK
  <2>3. LoadOK'
    BY <2>1, <2>2 DEF LoadOK
  <2>4. ServingOK'
    BY <2>1 DEF ServingOK, Up, Updating, Compacting
  <2> QED
    BY <1>1, <1>2, <2>1, <2>3, <2>4 DEF IInv
<1>18. CASE LoadLine
  BY <1>2, <1>18, LoadLineKeeps DEF LoadLine, history
<1>19. CASE LoadTail
  BY <1>2, <1>19, LoadTailKeeps DEF LoadTail, history
<1>20. CASE LoadRefused \/ AuditRefused
  BY <1>1, <1>2, <1>20, RefuseFacts DEF IInv, ServingOK, LoadOK, Up, Updating, Compacting
<1>21. CASE LoadFails
  <2>1. pc' = "down" /\ UNCHANGED <<snap, journal, promised>>
    BY <1>21 DEF LoadFails, files, history
  <2> QED
    BY <1>1, <1>2, <2>1 DEF IInv, ServingOK, LoadOK, Up, Updating, Compacting
<1>22. CASE LoadDone
  BY <1>22, LoadDoneKeeps
<1>23. CASE UNCHANGED vars
  BY <1>2, <1>23 DEF vars, IInv, ServingOK, LoadOK
<1> QED
  BY <1>3, <1>4, <1>5, <1>6, <1>7, <1>8, <1>9, <1>10, <1>11, <1>12, <1>13, <1>14,
     <1>15, <1>16, <1>17, <1>18, <1>19, <1>20, <1>21, <1>22, <1>23
     DEF Next, Update, Compact, Load

LEMMA InitHolds == Init => IInv
<1> SUFFICES ASSUME Init
             PROVE  IInv
  OBVIOUS
<1>1. <<>> \in State /\ <<>> \in Seq(Line) /\ snap = <<>> /\ journal = <<>> /\ promised = <<>>
  BY EmptySeq DEF Init, State
<1>2. FilesOK(snap, journal, promised)
  BY <1>1, EmptyJournal
<1>3. ServingOK /\ LoadOK
  BY DEF Init, ServingOK, LoadOK, Up, Updating, Compacting
<1> QED
  BY <1>2, <1>3 DEF IInv

\* However often the process is killed and whichever writes and renames fail,
\* the files and load() stay in order (Update, load, Compact; no power cuts).
THEOREM FilesInOrder ==
  ASSUME "power" \notin Faults
  PROVE  Spec => []IInv
<1>1. Init => IInv
  BY InitHolds
<1>2. TypeOK /\ TypeOK' /\ IInv /\ [Next]_vars => IInv'
  BY StepKeeps
<1> QED
  BY <1>1, <1>2, TypeCorrect, PTL DEF Spec

\* What callers have been shown is never taken back or replaced.
THEOREM NeverRollsBack ==
  ASSUME "power" \notin Faults
  PROVE  Spec => NoRollback
<1>1. TypeOK /\ TypeOK' /\ IInv /\ [Next]_vars => [IsPrefix(promised, promised')]_vars
  <2> SUFFICES ASSUME TypeOK, TypeOK', IInv, [Next]_vars
               PROVE  IsPrefix(promised, promised')
    OBVIOUS
  <2>1. Agree(promised, promised')
    BY StepKeeps
  <2>2. promised \in State /\ promised' \in State
    BY DEF TypeOK
  <2> QED
    BY <2>1, <2>2, AgreeIsPrefix
<1> QED
  BY <1>1, TypeCorrect, FilesInOrder, PTL DEF Spec, NoRollback

\* At every moment, in the middle of a call or of a restart too, the snapshot
\* and the journal hold all that callers have been shown.
THEOREM FilesSuffice ==
  ASSUME "power" \notin Faults
  PROVE  Spec => []FilesCoverPromise
<1>1. TypeOK /\ IInv => FilesCoverPromise
  <2> SUFFICES ASSUME TypeOK, IInv
               PROVE  FilesCoverPromise
    OBVIOUS
  <2>1. /\ snap \in State /\ promised \in State /\ journal \in Seq(Line)
        /\ FilesOK(snap, journal, promised)
    BY DEF TypeOK, IInv
  <2>2. /\ Len(snap) \in Nat /\ Len(promised) \in Nat
        /\ \A i \in 1..Len(journal) : journal[i].st \in State
    BY <2>1, StateLen, LineFacts
  <2>3. Near(snap, promised)
    <3>1. CASE Len(snap) <= Len(promised)
      <4>1. Agree(snap, promised)
        BY <2>1, <2>2, <3>1 DEF FilesOK, OneOff
      <4> QED
        BY <2>1, <3>1, <4>1, AgreeIsPrefix DEF Near
    <3>2. CASE ~(Len(snap) <= Len(promised))
      <4>1. Len(snap) = Len(promised) + 1 /\ Agree(promised, snap)
        BY <2>1, <3>2 DEF FilesOK, OneOff, Agree
      <4> QED
        BY <2>1, <3>2, <4>1, AgreeIsPrefix DEF Near
    <3> QED
      BY <3>1, <3>2
  <2>4. ASSUME NEW r \in Len(snap)+1..Len(promised)
        PROVE  \E i \in 1..Len(journal) :
                 FirstOfRevision(journal, i) /\ journal[i].st = SubSeq(promised, 1, r)
    <3>1. PICK i \in 1..Len(journal) : FirstOfRevision(journal, i) /\ Len(journal[i].st) = r
      BY <2>1, <2>4 DEF FilesOK, LinesCover
    <3>2. Agree(journal[i].st, promised)
      BY <2>1, <2>2, <2>4, <3>1 DEF FilesOK, FirstLinesTrue
    <3>3. journal[i].st = SubSeq(promised, 1, r)
      BY <2>1, <2>2, <3>1, <3>2, AgreeSubSeq
    <3> QED
      BY <3>1, <3>3
  <2> QED
    BY <2>3, <2>4 DEF FilesCoverPromise
<1> QED
  BY <1>1, TypeCorrect, FilesInOrder, PTL

LEMMA AgreeContains ==
  ASSUME NEW s \in State, NEW t \in State, NEW e \in Tx, Agree(s, t), Contains(s, e)
  PROVE  Contains(t, e)
<1>1. Len(s) \in Nat /\ Len(t) \in Nat
  BY StateLen
<1> QED
  BY <1>1 DEF Agree, Contains

\* Only the step that publishes a transaction reports it as done.
LEMMA OkMeansPublished ==
  ASSUME TypeOK, [Next]_vars, NEW t \in Tx, outcome'[t] = "ok"
  PROVE  outcome[t] = "ok" \/ (pc = "publish" /\ t = next[Len(next)] /\ promised' = next)
<1>1. outcome \in [Tx -> {"none", "running", "declined", "ok", "error", "unknown"}]
  BY DEF TypeOK
<1>2. ASSUME NEW u \in Tx, Decline(u) \/ Begin(u) PROVE outcome[t] = "ok"
  BY <1>1, <1>2 DEF Decline, Begin
<1>3. CASE AppendFails \/ SnapshotFails
  BY <1>1, <1>3 DEF AppendFails, SnapshotFails, Return
<1>4. CASE Publish
  BY <1>1, <1>4 DEF Publish, Return
<1>5. CASE Kill \/ PowerCut
  BY <1>1, <1>5 DEF Kill, PowerCut, Stop
<1>6. CASE AppendJournal \/ RenameSnapshot \/ Inspect \/ Compact
  BY <1>1, <1>6 DEF AppendJournal, RenameSnapshot, Inspect, Compact, BeginCompact,
                    CompactSnapshot, CompactJournal, CompactFails, history
<1>7. CASE Load \/ UNCHANGED vars
  BY <1>1, <1>7, RefuseFacts DEF Load, Open, LoadLine, LoadTail, LoadFails, LoadDone,
                                 history, vars
<1> QED
  BY <1>2, <1>3, <1>4, <1>5, <1>6, <1>7 DEF Next, Update

\* A transaction reported as done stays part of the visible state.
THEOREM OkStays ==
  ASSUME "power" \notin Faults
  PROVE  Spec => []OkIsStored
<1>1. Init => OkIsStored
  BY DEF Init, OkIsStored
<1>2. TypeOK /\ TypeOK' /\ IInv /\ OkIsStored /\ [Next]_vars => OkIsStored'
  <2> SUFFICES ASSUME TypeOK, TypeOK', IInv, OkIsStored, [Next]_vars,
                      NEW t \in Tx, outcome'[t] = "ok"
               PROVE  Contains(promised', t)
    BY DEF OkIsStored
  <2>1. promised \in State /\ promised' \in State /\ Agree(promised, promised')
    BY StepKeeps DEF TypeOK
  <2>2. CASE outcome[t] = "ok"
    <3>1. Contains(promised, t)
      BY <2>2 DEF OkIsStored
    <3> QED
      BY <2>1, <3>1, AgreeContains
  <2>3. CASE pc = "publish" /\ t = next[Len(next)] /\ promised' = next
    <3>1. PICK u \in Tx : next = Append(promised, u)
      BY <2>3 DEF IInv, ServingOK, Updating
    <3>2. Len(next) = Len(promised) + 1 /\ Len(promised) \in Nat
      BY <2>1, <3>1, AppendAgrees, StateLen
    <3> QED
      BY <2>3, <3>2 DEF Contains
  <2> QED
    BY <2>2, <2>3, OkMeansPublished
<1> QED
  BY <1>1, <1>2, TypeCorrect, FilesInOrder, PTL DEF Spec

----------------------------------------------------------------------------
(* Without short writes as well, a restart is never refused.               *)

\* A kill leaves at most one line that does not parse, the last, if every
\* line before it was complete.
LEMMA LeftoversSpoilNothing ==
  ASSUME NEW j \in Seq(Line), NEW x \in State, NEW w \in Leftovers(j, x),
         \A i \in 1..Len(j) : j[i].ok /\ j[i].nl
  PROVE  \A i \in 1..Len(w) : ~w[i].ok => i = Len(w) /\ ~w[i].nl
<1>1. Len(j) \in Nat /\ (j # <<>> => Len(j) \in 1..Len(j))
  BY LenProperties, EmptySeq
<1>2. j = <<>> \/ j[Len(j)].nl
  BY <1>1, Zenon
<1>3. ASSUME NEW l \in Line, w = Written(j, l), ~l.ok => ~l.nl
      PROVE  \A i \in 1..Len(w) : ~w[i].ok => i = Len(w) /\ ~w[i].nl
  <2>1. /\ Len(w) = Len(j) + 1 /\ w[Len(j) + 1] = l
        /\ \A i \in 1..Len(j) : w[i] = j[i]
    BY <1>2, <1>3, WrittenAppends
  <2>2. \A i \in 1..Len(w) : i \in 1..Len(j) \/ i = Len(w)
    BY <1>1, <2>1
  <2> QED
    BY <1>3, <2>1, <2>2, Zenon
<1>4. /\ Whole(x) \in Line /\ Unterminated(x) \in Line /\ Garbage(FALSE) \in Line
      /\ Whole(x).ok /\ Unterminated(x).ok /\ ~Garbage(FALSE).nl
  BY LineTypes DEF Whole, Unterminated, Garbage
<1>5. w \in {j, Written(j, Garbage(FALSE)), Written(j, Unterminated(x)), Written(j, Whole(x))}
  BY DEF Leftovers
<1>6. CASE w = j
  BY <1>6, Zenon
<1>7. CASE w = Written(j, Garbage(FALSE))
  BY <1>3, <1>4, <1>7
<1>8. CASE w = Written(j, Unterminated(x))
  BY <1>3, <1>4, <1>8
<1>9. CASE w = Written(j, Whole(x))
  BY <1>3, <1>4, <1>9
<1> QED
  BY <1>5, <1>6, <1>7, <1>8, <1>9

LEMMA WholeSpoilsNothing ==
  ASSUME NEW j \in Seq(Line), NEW x \in State, \A i \in 1..Len(j) : j[i].ok /\ j[i].nl
  PROVE  \A i \in 1..Len(Written(j, Whole(x))) :
           Written(j, Whole(x))[i].ok /\ Written(j, Whole(x))[i].nl
<1> DEFINE w == Written(j, Whole(x))
<1>1. Len(j) \in Nat /\ (j # <<>> => Len(j) \in 1..Len(j))
  BY LenProperties, EmptySeq
<1>2. j = <<>> \/ j[Len(j)].nl
  BY <1>1, Zenon
<1>3. Whole(x) \in Line /\ Whole(x).ok /\ Whole(x).nl
  BY LineTypes DEF Whole
<1>4. /\ Len(w) = Len(j) + 1 /\ w[Len(j) + 1] = Whole(x)
      /\ \A i \in 1..Len(j) : w[i] = j[i]
  BY <1>2, <1>3, WrittenAppends
<1> HIDE DEF w
<1>5. \A i \in 1..Len(w) : i \in 1..Len(j) \/ i = Len(j) + 1
  BY <1>1, <1>4
<1> QED
  BY <1>3, <1>4, <1>5, Zenon DEF w

LEMMA StepSpoilsNothing ==
  ASSUME "power" \notin Faults, "short" \notin Faults,
         TypeOK, IInv, NoSpoiledLine, [Next]_vars
  PROVE  NoSpoiledLine'
<1>1. journal \in Seq(Line) /\ next \in State
  BY DEF TypeOK
<1>2. pc \in Up => \A i \in 1..Len(journal) : journal[i].ok /\ journal[i].nl
  BY Zenon DEF NoSpoiledLine
<1>3. CASE journal' = journal /\ (pc' \in Up => pc \in Up)
  BY <1>3, Zenon DEF NoSpoiledLine
<1>4. CASE \E t \in Tx : Decline(t) \/ Begin(t)
  <2>1. pc \in Up /\ journal' = journal
    BY <1>4 DEF Decline, Begin, Up, Updating, files
  <2> QED
    BY <1>3, <2>1, Zenon
<1>5. CASE journal' = Written(journal, Whole(next)) /\ pc \in Up /\ pc' \in Up
  <2>1. \A i \in 1..Len(journal') : journal'[i].ok /\ journal'[i].nl
    BY <1>1, <1>2, <1>5, WholeSpoilsNothing
  <2> QED
    BY <2>1, Zenon DEF NoSpoiledLine
<1>6. CASE AppendJournal \/ AppendFails
  <2>1. /\ pc \in Up /\ pc' \in Up
        /\ journal' = journal \/ journal' = Written(journal, Whole(next))
    BY <1>6 DEF AppendJournal, AppendFails, Return, Up, Updating
  <2> QED
    BY <1>3, <1>5, <2>1, Zenon
<1>7. CASE RenameSnapshot \/ SnapshotFails \/ Publish \/ Inspect
  <2>1. pc \in Up /\ journal' = journal
    BY <1>7 DEF RenameSnapshot, SnapshotFails, Publish, Inspect, Return, Up, Updating, files
  <2> QED
    BY <1>3, <2>1, Zenon
<1>8. CASE BeginCompact \/ CompactSnapshot \/ CompactFails
  <2>1. pc \in Up /\ journal' = journal
    BY <1>8 DEF BeginCompact, CompactSnapshot, CompactFails, Up, Compacting, files
  <2> QED
    BY <1>3, <2>1, Zenon
<1>9. CASE CompactJournal
  <2>1. pc' = "idle" /\ journal' = <<>> /\ Len(<<>>) = 0
    BY <1>9, EmptySeq DEF CompactJournal
  <2> QED
    BY <2>1 DEF NoSpoiledLine
<1>10. CASE Kill
  <2>1. pc' = "down" /\ pc' \notin Up
    BY <1>10 DEF Kill, Stop, Up, Updating, Compacting
  <2>2. CASE pc = "append"
    <3>1. journal' \in Leftovers(journal, next) /\ pc \in Up
      BY <1>10, <2>2 DEF Kill, Up, Updating
    <3>2. \A i \in 1..Len(journal') : ~journal'[i].ok => i = Len(journal') /\ ~journal'[i].nl
      BY <1>1, <1>2, <3>1, LeftoversSpoilNothing
    <3> QED
      BY <2>1, <3>2, Zenon DEF NoSpoiledLine
  <2>3. CASE pc # "append"
    <3>1. journal' = journal
      BY <1>10, <2>3 DEF Kill
    <3> QED
      BY <1>3, <2>1, <3>1, Zenon
  <2> QED
    BY <2>2, <2>3
<1>11. CASE PowerCut
  BY <1>11 DEF PowerCut
<1>12. CASE Open \/ LoadFails
  <2>1. pc' \in {"load", "down"} /\ journal' = journal
    BY <1>12 DEF Open, LoadFails, files
  <2> QED
    BY <1>3, <2>1 DEF Up, Updating, Compacting
<1>13. CASE LoadLine
  <2>1. pc' = "load" /\ pos \in 1..Len(journal) /\ Current = journal[pos] /\ Current.ok
    <3>1. Len(journal) \in Nat /\ pos \in Nat \ {0}
      BY <1>1, LenProperties DEF TypeOK
    <3> QED
      BY <1>13, <3>1 DEF LoadLine, Loading, Current
  <2>2. Whole(Current.st) \in Line /\ Whole(Current.st).ok
    <3>1. Current.st \in State
      BY <1>1, <2>1, LineFacts
    <3> QED
      BY <3>1, LineTypes DEF Whole
  <2>3. /\ Len(journal') = Len(journal)
        /\ \A i \in 1..Len(journal) : journal'[i] = journal[i] \/ journal'[i].ok
    <3>1. CASE Current.nl
      BY <1>13, <3>1, Zenon DEF LoadLine
    <3>2. CASE ~Current.nl
      <4>1. journal' = [journal EXCEPT ![pos] = Whole(Current.st)]
        BY <1>13, <3>2 DEF LoadLine
      <4>2. /\ Len(journal') = Len(journal)
            /\ \A i \in 1..Len(journal) :
                 journal'[i] = IF i = pos THEN Whole(Current.st) ELSE journal[i]
        BY <1>1, <2>1, <2>2, <4>1, ExceptSeq
      <4> QED
        BY <2>2, <4>2, Zenon
    <3> QED
      BY <3>1, <3>2
  <2>4. \A i \in 1..Len(journal') : ~journal'[i].ok => i = Len(journal') /\ ~journal'[i].nl
    BY <2>3, Zenon DEF NoSpoiledLine
  <2>5. pc' \notin Up
    BY <2>1 DEF Up, Updating, Compacting
  <2> QED
    BY <2>4, <2>5, Zenon DEF NoSpoiledLine
<1>14. CASE LoadTail
  <2>1. pc' = "load" /\ pos \in 1..Len(journal) /\ journal' = SubSeq(journal, 1, pos - 1)
    <3>1. Len(journal) \in Nat /\ pos \in Nat \ {0}
      BY <1>1, LenProperties DEF TypeOK
    <3> QED
      BY <1>14, <3>1 DEF LoadTail, Loading
  <2>2. \A i \in 1..pos-1 : journal[i] \in Line /\ journal[i].ok
    <3>1. \A i \in 1..pos-1 : journal[i].ok
      BY <1>14 DEF LoadTail, Loading, IInv, LoadOK
    <3>2. \A i \in 1..pos-1 : i \in 1..Len(journal)
      BY <1>1, <2>1, LenProperties
    <3> QED
      BY <1>1, <3>1, <3>2, ElementOfSeq
  <2>3. \A i \in 1..Len(journal') : journal'[i].ok
    <3>1. pos - 1 \in Int /\ 1 \in Int /\ (pos - 1) - 1 + 1 = pos - 1 /\ pos - 1 >= 0
      BY <2>1, <1>1, LenProperties
    <3>2. /\ Len(journal') = IF 1 <= pos - 1 THEN (pos - 1) - 1 + 1 ELSE 0
          /\ \A i \in 1..(pos - 1) - 1 + 1 : journal'[i] = journal[1 + i - 1]
      BY <2>1, <2>2, <3>1, SubSeqProperties
    <3>3. Len(journal') = pos - 1 /\ \A i \in 1..pos-1 : journal'[i] = journal[i]
      BY <3>1, <3>2
    <3> QED
      BY <2>2, <3>3, Zenon
  <2>4. pc' \notin Up
    BY <2>1 DEF Up, Updating, Compacting
  <2> QED
    BY <2>3, <2>4, Zenon DEF NoSpoiledLine
<1>15. CASE LoadRefused \/ AuditRefused
  <2>1. pc' \notin Up /\ journal' = journal
    BY <1>15, RefuseFacts DEF Up, Updating, Compacting
  <2> QED
    BY <1>3, <2>1, Zenon
<1>16. CASE LoadDone
  <2>1. pc' = "idle" /\ journal' = journal
    BY <1>16 DEF LoadDone, files
  <2>2. \A i \in 1..Len(journal) : journal[i].nl
    <3>1. Len(journal) \in Nat /\ pc = "load" /\ pos = Len(journal) + 1
      BY <1>1, <1>16, LenProperties DEF LoadDone, Loaded
    <3>2. pos - 1 = Len(journal)
      BY <3>1
    <3> QED
      BY <3>1, <3>2 DEF IInv, LoadOK
  <2> QED
    BY <2>1, <2>2, Zenon DEF NoSpoiledLine
<1>17. CASE UNCHANGED vars
  BY <1>17, Zenon DEF vars, NoSpoiledLine
<1> QED
  BY <1>4, <1>6, <1>7, <1>8, <1>9, <1>10, <1>11, <1>12, <1>13, <1>14, <1>15, <1>16, <1>17
     DEF Next, Update, Compact, Load

----------------------------------------------------------------------------
(* Nothing in memory, in the files or in what a power cut may bring back   *)
(* was never asked for, or was declined.  It is what turns a refusal of    *)
(* load() into a statement about the calls before it.                      *)

Begun(o) == {t \in Tx : o[t] \notin {"none", "declined"}}

From(s, B) == \A i \in 1..Len(s) : s[i] \in B
LinesFrom(j, B) == \A i \in 1..Len(j) : From(j[i].st, B)
ViewsFrom(views, B) == \A v \in views : From(v.snap, B) /\ LinesFrom(v.journal, B)

AllFrom(B) ==
  /\ From(mem, B) /\ From(next, B) /\ From(snap, B) /\ From(promised, B)
  /\ LinesFrom(journal, B) /\ ViewsFrom(older, B)

OnlyBegun == AllFrom(Begun(outcome))

LEMMA EmptyFrom ==
  ASSUME NEW B
  PROVE  From(<<>>, B) /\ LinesFrom(<<>>, B) /\ ViewsFrom({}, B)
<1>1. Len(<<>>) = 0
  BY EmptySeq
<1> QED
  BY <1>1 DEF From, LinesFrom, ViewsFrom

LEMMA FromGrows ==
  ASSUME NEW B, NEW C, B \subseteq C
  PROVE  /\ \A s : From(s, B) => From(s, C)
         /\ \A j : LinesFrom(j, B) => LinesFrom(j, C)
         /\ \A views : ViewsFrom(views, B) => ViewsFrom(views, C)
<1>1. \A s : From(s, B) => From(s, C)
  BY DEF From
<1>2. \A j : LinesFrom(j, B) => LinesFrom(j, C)
  BY <1>1 DEF LinesFrom
<1>3. \A views : ViewsFrom(views, B) => ViewsFrom(views, C)
  BY <1>1, <1>2 DEF ViewsFrom
<1> QED
  BY <1>1, <1>2, <1>3

LEMMA WrittenFrom ==
  ASSUME NEW j \in Seq(Line), NEW l \in Line, NEW B, LinesFrom(j, B), From(l.st, B)
  PROVE  LinesFrom(Written(j, l), B)
<1> DEFINE w == Written(j, l)
<1>1. Len(j) \in Nat
  BY LenProperties
<1>2. CASE j # <<>> /\ ~j[Len(j)].nl
  <2>1. /\ Len(w) = Len(j) /\ w[Len(j)] = Garbage(l.nl)
        /\ \A i \in 1..Len(j)-1 : w[i] = j[i]
    BY <1>2, WrittenMerges
  <2>2. w[Len(j)].st = <<>>
    BY <2>1 DEF Garbage
  <2>3. \A i \in 1..Len(j) : i \in 1..Len(j)-1 \/ i = Len(j)
    BY <1>1
  <2> HIDE DEF w
  <2>4. LinesFrom(w, B)
    BY <2>1, <2>2, <2>3, EmptyFrom DEF LinesFrom
  <2> QED
    BY <2>4 DEF w
<1>3. CASE j = <<>> \/ j[Len(j)].nl
  <2>1. /\ Len(w) = Len(j) + 1 /\ w[Len(j) + 1] = l
        /\ \A i \in 1..Len(j) : w[i] = j[i]
    BY <1>3, WrittenAppends
  <2>2. \A i \in 1..Len(j)+1 : i \in 1..Len(j) \/ i = Len(j) + 1
    BY <1>1
  <2> HIDE DEF w
  <2>3. LinesFrom(w, B)
    BY <2>1, <2>2 DEF LinesFrom
  <2> QED
    BY <2>3 DEF w
<1> QED
  BY <1>2, <1>3

LEMMA LeftoversFrom ==
  ASSUME NEW j \in Seq(Line), NEW x \in State, NEW w \in Leftovers(j, x), NEW B,
         LinesFrom(j, B), From(x, B)
  PROVE  LinesFrom(w, B)
<1>1. /\ Whole(x) \in Line /\ Unterminated(x) \in Line /\ Garbage(FALSE) \in Line
      /\ Whole(x).st = x /\ Unterminated(x).st = x /\ Garbage(FALSE).st = <<>>
  BY LineTypes DEF Whole, Unterminated, Garbage
<1>2. w \in {j, Written(j, Garbage(FALSE)), Written(j, Unterminated(x)), Written(j, Whole(x))}
  BY DEF Leftovers
<1>3. /\ LinesFrom(Written(j, Garbage(FALSE)), B) /\ LinesFrom(Written(j, Unterminated(x)), B)
      /\ LinesFrom(Written(j, Whole(x)), B)
  BY <1>1, WrittenFrom, EmptyFrom
<1> QED
  BY <1>2, <1>3

LEMMA CutFrom ==
  ASSUME TypeOK, NEW B, AllFrom(B)
  PROVE  ViewsFrom(OlderOrNow, B) /\ ViewsFrom(Undoable({Now}), B) /\ ViewsFrom(AfterCut, B)
<1>1. journal \in Seq(Line) /\ next \in State
  BY DEF TypeOK
<1>2. ViewsFrom(older \cup {Now}, B) /\ ViewsFrom({Now}, B)
  BY DEF AllFrom, ViewsFrom, Now
<1>3. ViewsFrom(OlderOrNow, B) /\ ViewsFrom(Undoable({Now}), B)
  BY <1>2, EmptyFrom DEF OlderOrNow, Undoable
<1>4. ASSUME NEW v \in OlderOrNow, NEW j \in Leftovers(journal, next)
      PROVE  From(v.snap, B) /\ LinesFrom(j, B)
  BY <1>1, <1>3, LeftoversFrom DEF AllFrom, ViewsFrom
<1>5. ASSUME NEW v \in AfterCut
      PROVE  From(v.snap, B) /\ LinesFrom(v.journal, B)
  <2>1. CASE v \in OlderOrNow
    BY <1>3, <2>1 DEF ViewsFrom
  <2>2. CASE v \notin OlderOrNow
    <3>1. \E u \in OlderOrNow, j \in Leftovers(journal, next) :
            v = [snap |-> u.snap, journal |-> j]
      BY <2>2 DEF AfterCut
    <3>2. PICK u \in OlderOrNow, j \in Leftovers(journal, next) :
            v.snap = u.snap /\ v.journal = j
      BY <3>1
    <3> QED
      BY <1>4, <3>2
  <2> QED
    BY <2>1, <2>2
<1> QED
  BY <1>3, <1>5 DEF ViewsFrom

\* An answer never turns into one that says that nothing was kept.
LEMMA BegunGrows ==
  ASSUME TypeOK, [Next]_vars
  PROVE  Begun(outcome) \subseteq Begun(outcome')
<1> SUFFICES ASSUME NEW t \in Tx, outcome[t] \notin {"none", "declined"}
             PROVE  outcome'[t] \notin {"none", "declined"}
  BY DEF Begun
<1>1. outcome \in [Tx -> {"none", "running", "declined", "ok", "error", "unknown"}]
  BY DEF TypeOK
<1>2. ASSUME NEW u \in Tx, Decline(u) \/ Begin(u) PROVE outcome'[t] = outcome[t]
  BY <1>1, <1>2 DEF Decline, Begin
<1>3. CASE AppendFails \/ SnapshotFails \/ Publish
  BY <1>1, <1>3 DEF AppendFails, SnapshotFails, Publish, Return
<1>4. CASE Kill \/ PowerCut
  BY <1>1, <1>4 DEF Kill, PowerCut, Stop
<1>5. CASE AppendJournal \/ RenameSnapshot \/ Inspect \/ Compact
  BY <1>1, <1>5 DEF AppendJournal, RenameSnapshot, Inspect, Compact, BeginCompact,
                    CompactSnapshot, CompactJournal, CompactFails, history
<1>6. CASE Load \/ UNCHANGED vars
  BY <1>1, <1>6, RefuseFacts DEF Load, Open, LoadLine, LoadTail, LoadFails, LoadDone,
                                 history, vars
<1> QED
  BY <1>2, <1>3, <1>4, <1>5, <1>6 DEF Next, Update

LEMMA StepKeepsBegun ==
  ASSUME TypeOK, OnlyBegun, [Next]_vars
  PROVE  OnlyBegun'
<1> DEFINE B == Begun(outcome)
           C == Begun(outcome')
<1>1. B \subseteq C
  BY BegunGrows
<1>2. AllFrom(B) /\ journal \in Seq(Line) /\ next \in State /\ mem \in State
  BY DEF OnlyBegun, TypeOK
<1> HIDE DEF B, C
<1>3. AllFrom(C)
  BY <1>1, <1>2, FromGrows DEF AllFrom
<1>4. SUFFICES /\ From(mem', C) /\ From(next', C) /\ From(snap', C) /\ From(promised', C)
               /\ LinesFrom(journal', C) /\ ViewsFrom(older', C)
  BY DEF OnlyBegun, AllFrom, C
<1>5. /\ ViewsFrom(AfterCut, C) /\ ViewsFrom(OlderOrNow, C)
      /\ \A j \in Leftovers(journal, next) : LinesFrom(j, C)
      /\ Whole(next) \in Line /\ Whole(next).st = next
      /\ From(<<>>, C) /\ ViewsFrom({}, C)
  BY <1>2, <1>3, CutFrom, LeftoversFrom, EmptyFrom, LineTypes DEF AllFrom, Whole
<1>6. LinesFrom(Written(journal, Whole(next)), C)
  BY <1>2, <1>3, <1>5, WrittenFrom DEF AllFrom
<1>7. CASE /\ mem' \in {mem, next, snap, <<>>} /\ next' \in {next, <<>>}
           /\ snap' \in {snap, next, mem} /\ promised' \in {promised, next, mem}
           /\ journal' \in {journal, <<>>}
           /\ older' = older \/ older' = OlderOrNow \/ older' = Undoable({Now})
  <2>1. ViewsFrom(Undoable({Now}), C)
    BY <1>3, CutFrom
  <2>2. LinesFrom(<<>>, C)
    BY EmptyFrom
  <2> QED
    BY <1>3, <1>5, <1>7, <2>1, <2>2 DEF AllFrom
<1>8. ASSUME NEW t \in Tx, Decline(t)
      PROVE  /\ From(mem', C) /\ From(next', C) /\ From(snap', C) /\ From(promised', C)
             /\ LinesFrom(journal', C) /\ ViewsFrom(older', C)
  BY <1>7, <1>8 DEF Decline, files
<1>9. ASSUME NEW t \in Tx, Begin(t)
      PROVE  /\ From(mem', C) /\ From(next', C) /\ From(snap', C) /\ From(promised', C)
             /\ LinesFrom(journal', C) /\ ViewsFrom(older', C)
  <2>1. /\ next' = Append(mem, t) /\ outcome' = [outcome EXCEPT ![t] = "running"]
        /\ UNCHANGED <<mem, snap, promised, journal, older>>
    BY <1>9 DEF Begin, files
  <2>2. t \in C
    BY <2>1 DEF C, Begun, TypeOK
  <2>3. From(next', C)
    <3>1. /\ Len(next') = Len(mem) + 1 /\ next'[Len(mem) + 1] = t /\ Len(mem) \in Nat
          /\ \A i \in 1..Len(mem) : next'[i] = mem[i]
      BY <1>2, <2>1, AppendProperties, LenProperties DEF State
    <3>2. \A i \in 1..Len(mem)+1 : i \in 1..Len(mem) \/ i = Len(mem) + 1
      BY <3>1
    <3> QED
      BY <1>3, <2>2, <3>1, <3>2 DEF From, AllFrom
  <2> QED
    BY <1>3, <2>1, <2>3 DEF AllFrom
<1>10. CASE AppendJournal
  BY <1>3, <1>5, <1>6, <1>10 DEF AppendJournal, AllFrom, history
<1>11. CASE AppendFails
  <2>1. journal' = journal \/ journal' = Written(journal, Whole(next))
          \/ journal' \in Leftovers(journal, next)
    BY <1>11 DEF AppendFails
  <2>2. next' = <<>> /\ older' = AfterCut /\ UNCHANGED <<mem, snap, promised>>
    BY <1>11 DEF AppendFails, Return
  <2> QED
    BY <1>3, <1>5, <1>6, <2>1, <2>2 DEF AllFrom
<1>12. CASE RenameSnapshot \/ SnapshotFails \/ Publish
  BY <1>7, <1>12 DEF RenameSnapshot, SnapshotFails, Publish, Return, files, history
<1>13. CASE Inspect \/ Compact
  BY <1>7, <1>13 DEF Inspect, Compact, BeginCompact, CompactSnapshot, CompactJournal,
                     CompactFails, files, history
<1>14. CASE Kill
  <2>1. mem' = <<>> /\ next' = <<>> /\ UNCHANGED <<snap, promised>>
    BY <1>14 DEF Kill, Stop
  <2>2. \/ journal' \in Leftovers(journal, next) /\ older' = AfterCut
        \/ UNCHANGED <<journal, older>>
    BY <1>14 DEF Kill
  <2> QED
    BY <1>3, <1>5, <2>1, <2>2 DEF AllFrom
<1>15. CASE PowerCut
  <2>1. mem' = <<>> /\ next' = <<>> /\ promised' = promised /\ older' = {}
    BY <1>15 DEF PowerCut, Stop
  <2>2. PICK v \in AfterCut : snap' = v.snap /\ journal' = v.journal
    BY <1>15 DEF PowerCut
  <2>3. From(snap', C) /\ LinesFrom(journal', C)
    BY <1>5, <2>2 DEF ViewsFrom
  <2> QED
    BY <1>3, <1>5, <2>1, <2>3 DEF AllFrom
<1>16. CASE LoadLine
  <2>1. pos \in 1..Len(journal) /\ Len(journal) \in Nat
    BY <1>2, <1>16, LenProperties DEF LoadLine, Loading, TypeOK
  <2>2. Current.st \in State /\ From(Current.st, C)
    BY <1>2, <1>3, <2>1, LineFacts DEF AllFrom, LinesFrom, Current
  <2>3. Whole(Current.st) \in Line /\ Whole(Current.st).st = Current.st
    BY <2>2, LineTypes DEF Whole
  <2>4. LinesFrom(journal', C) /\ ViewsFrom(older', C)
    <3>1. CASE UNCHANGED <<journal, older>>
      BY <1>3, <3>1 DEF AllFrom
    <3>2. CASE journal' = [journal EXCEPT ![pos] = Whole(Current.st)] /\ older' = {}
      <4>1. /\ Len(journal') = Len(journal)
            /\ \A i \in 1..Len(journal) :
                 journal'[i] = IF i = pos THEN Whole(Current.st) ELSE journal[i]
        BY <1>2, <2>1, <2>3, <3>2, ExceptSeq
      <4> QED
        BY <1>3, <1>5, <2>2, <2>3, <3>2, <4>1 DEF AllFrom, LinesFrom
    <3> QED
      BY <1>16, <3>1, <3>2 DEF LoadLine
  <2>5. mem' \in {mem, Current.st} /\ UNCHANGED <<next, snap, promised>>
    BY <1>16 DEF LoadLine, history
  <2> QED
    BY <1>3, <2>2, <2>4, <2>5 DEF AllFrom
<1>17. CASE LoadTail
  <2>1. pos \in 1..Len(journal) /\ Len(journal) \in Nat
    BY <1>2, <1>17, LenProperties DEF LoadTail, Loading, TypeOK
  <2>2. /\ journal' = SubSeq(journal, 1, pos - 1) /\ older' = OlderOrNow
        /\ UNCHANGED <<mem, next, snap, promised>>
    BY <1>17 DEF LoadTail, history
  <2>3. LinesFrom(journal', C)
    <3>1. \A i \in 1..pos-1 : i \in 1..Len(journal) /\ journal[i] \in Line
      BY <1>2, <2>1, ElementOfSeq
    <3>2. pos - 1 \in Int /\ 1 \in Int /\ (pos - 1) - 1 + 1 = pos - 1 /\ pos - 1 >= 0
      BY <2>1
    <3>3. /\ Len(journal') = IF 1 <= pos - 1 THEN (pos - 1) - 1 + 1 ELSE 0
          /\ \A i \in 1..(pos - 1) - 1 + 1 : journal'[i] = journal[1 + i - 1]
      BY <2>2, <3>1, <3>2, SubSeqProperties
    <3>4. Len(journal') = pos - 1 /\ \A i \in 1..pos-1 : journal'[i] = journal[i]
      BY <3>2, <3>3
    <3> QED
      BY <1>3, <3>1, <3>4 DEF AllFrom, LinesFrom
  <2> QED
    BY <1>3, <1>5, <2>2, <2>3 DEF AllFrom
<1>18. CASE LoadRefused \/ AuditRefused
  BY <1>7, <1>18, RefuseFacts
<1>19. CASE Open \/ LoadFails \/ LoadDone
  BY <1>7, <1>19 DEF Open, LoadFails, LoadDone, files, history
<1>20. CASE UNCHANGED vars
  BY <1>7, <1>20 DEF vars, files
<1> QED
  BY <1>8, <1>9, <1>10, <1>11, <1>12, <1>13, <1>14, <1>15, <1>16, <1>17, <1>18, <1>19,
     <1>20 DEF Next, Update, Load

\* Whatever fails and wherever the process is killed or the machine stops,
\* nothing is shown, held or found on disk that was declined or never asked
\* for (Update, Compact, load).
THEOREM OnlyBegunIsKept == Spec => []OnlyBegun
<1>1. Init => OnlyBegun
  <2> SUFFICES ASSUME Init
               PROVE  OnlyBegun
    OBVIOUS
  <2>1. /\ mem = <<>> /\ next = <<>> /\ snap = <<>> /\ promised = <<>>
        /\ journal = <<>> /\ older = {}
    BY DEF Init
  <2> QED
    BY <2>1, EmptyFrom DEF OnlyBegun, AllFrom
<1>2. TypeOK /\ OnlyBegun /\ [Next]_vars => OnlyBegun'
  BY StepKeepsBegun
<1> QED
  BY <1>1, <1>2, TypeCorrect, PTL DEF Spec

----------------------------------------------------------------------------
(* Refusals.                                                               *)

\* The refusal of the chain, or of a checksum, is that of a text that was
\* brought in by an Update.
LEMMA BadTextBegun ==
  ASSUME TypeOK, OnlyBegun,
         \/ Loaded /\ ~ChainHolds(mem)
         \/ Loading /\ ~Agrees(Current.st)
  PROVE  TextBegun
<1>1. SUFFICES \E t \in BadText : t \in Begun(outcome)
  BY DEF TextBegun, Begun
<1>2. CASE Loaded /\ ~ChainHolds(mem)
  <2>1. PICK i \in 1..Len(mem) : mem[i] \in BadActor
    BY <1>2 DEF ChainHolds
  <2> QED
    BY <2>1, StoreAssumption DEF OnlyBegun, AllFrom, From
<1>3. CASE Loading /\ ~Agrees(Current.st)
  <2>1. journal \in Seq(Line) /\ Len(journal) \in Nat /\ pos \in 1..Len(journal)
    BY <1>3, LenProperties DEF TypeOK, Loading
  <2>2. Current.st \in State /\ From(Current.st, Begun(outcome))
    BY <2>1, LineFacts DEF OnlyBegun, AllFrom, LinesFrom, Current
  <2>3. Current.st # <<>> /\ Current.st[Len(Current.st)] \in BadText
    BY <1>3 DEF Agrees, Last
  <2>4. Len(Current.st) \in 1..Len(Current.st)
    BY <2>2, <2>3, EmptySeq, LenProperties DEF State
  <2> QED
    BY <2>2, <2>3, <2>4 DEF From
<1> QED
  BY <1>2, <1>3

\* Once such a text was given to an Update, it was.
LEMMA TextStays ==
  ASSUME TypeOK, [Next]_vars, TextBegun
  PROVE  TextBegun'
<1>1. Begun(outcome) \subseteq Begun(outcome')
  BY BegunGrows
<1>2. PICK t \in BadText : t \in Begun(outcome)
  BY StoreAssumption DEF TextBegun, Begun
<1> QED
  BY <1>1, <1>2 DEF TextBegun, Begun

\* A step that refuses is one of load() or of VerifyAudit.
LEMMA OnlyOpenRefuses ==
  ASSUME [Next]_vars, pc' = "refused"
  PROVE  pc = "refused" \/ LoadRefused \/ AuditRefused
<1>1. ~\E t \in Tx : Decline(t) \/ Begin(t)
  BY DEF Decline, Begin
<1>2. ~(AppendJournal \/ AppendFails \/ RenameSnapshot \/ SnapshotFails \/ Publish \/ Inspect)
  BY DEF AppendJournal, AppendFails, RenameSnapshot, SnapshotFails, Publish, Return, Inspect
<1>3. ~(BeginCompact \/ CompactSnapshot \/ CompactJournal \/ CompactFails)
  BY DEF BeginCompact, CompactSnapshot, CompactJournal, CompactFails
<1>4. ~(Kill \/ PowerCut \/ Open \/ LoadLine \/ LoadTail \/ LoadFails \/ LoadDone)
  BY DEF Kill, PowerCut, Stop, Open, LoadLine, LoadTail, Loading, LoadFails, LoadDone
<1>5. UNCHANGED vars => pc = "refused"
  BY DEF vars
<1> QED
  BY <1>1, <1>2, <1>3, <1>4, <1>5 DEF Next, Update, Compact, Load

\* Without short writes and such texts load() finds no reason to refuse.
LEMMA RefusalHasText ==
  ASSUME TypeOK, IInv, NoSpoiledLine, OnlyBegun, LoadRefused
  PROVE  TextBegun
<1> SUFFICES ASSUME Agrees(Current.st)
             PROVE  FALSE
  BY BadTextBegun DEF LoadRefused
<1>1. journal \in Seq(Line)
  BY DEF TypeOK
<1>2. /\ pc = "load" /\ pos \in 1..Len(journal) /\ Len(journal) \in Nat
      /\ \A i \in 1..Len(journal) : Len(journal[i].st) \in Nat
  <2>1. Len(journal) \in Nat /\ pos \in Nat \ {0}
    BY <1>1, LenProperties DEF TypeOK
  <2> QED
    BY <1>1, <2>1, LineFacts DEF LoadRefused, Loading
<1>3. CASE ~journal[pos].ok
  <2>1. journal[pos].nl
    BY <1>3 DEF LoadRefused, Current
  <2> QED
    BY <1>2, <1>3, <2>1, Zenon DEF NoSpoiledLine
<1>4. CASE journal[pos].ok
  <2>1. Len(journal[pos].st) > Len(mem) + 1
    BY <1>4 DEF LoadRefused, Current, Revision
  <2>2. Len(snap) <= Len(mem) /\ Len(snap) \in Nat /\ Len(mem) \in Nat
    BY <1>2, StateLen DEF TypeOK, IInv, LoadOK, Agree
  <2>3. Len(snap) + 1 < Len(journal[pos].st)
    BY <1>2, <2>1, <2>2
  <2>4. PICK k \in 1..pos-1 : journal[k].ok /\ Len(journal[k].st) + 1 = Len(journal[pos].st)
    BY <1>2, <1>4, <2>3 DEF IInv, FilesOK, NoJump
  <2>5. Len(journal[k].st) <= Len(mem)
    BY <1>2, <2>4 DEF IInv, LoadOK
  <2>6. k \in 1..Len(journal)
    BY <1>2
  <2> QED
    BY <1>2, <2>1, <2>2, <2>4, <2>5, <2>6
<1> QED
  BY <1>3, <1>4

\* When no write stops short, Open refuses the directory the program left, at
\* whatever step it was killed and whichever other call failed, only after an
\* Update was given a text that is not UTF-8.
THEOREM AlwaysReopens ==
  ASSUME "power" \notin Faults, "short" \notin Faults
  PROVE  Spec => []Reopenable
<1>1. Init => NoSpoiledLine /\ Reopenable
  BY EmptySeq DEF Init, NoSpoiledLine, Reopenable, Up, Updating, Compacting
<1>2. TypeOK /\ IInv /\ NoSpoiledLine /\ [Next]_vars => NoSpoiledLine'
  BY StepSpoilsNothing
<1>3. TypeOK /\ IInv /\ NoSpoiledLine /\ OnlyBegun /\ Reopenable /\ [Next]_vars => Reopenable'
  <2> SUFFICES ASSUME TypeOK, IInv, NoSpoiledLine, OnlyBegun, Reopenable, [Next]_vars,
                      pc' = "refused"
               PROVE  TextBegun'
    BY DEF Reopenable
  <2>1. CASE pc = "refused"
    BY <2>1, TextStays DEF Reopenable
  <2>2. CASE LoadRefused
    BY <2>2, RefusalHasText, TextStays
  <2>3. CASE AuditRefused
    BY <2>3, BadTextBegun, TextStays DEF AuditRefused
  <2> QED
    BY <2>1, <2>2, <2>3, OnlyOpenRefuses
<1> QED
  BY <1>1, <1>2, <1>3, TypeCorrect, FilesInOrder, OnlyBegunIsKept, PTL DEF Spec

=============================================================================
