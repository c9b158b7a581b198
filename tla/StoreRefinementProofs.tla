----------------------- MODULE StoreRefinementProofs -----------------------
(***************************************************************************)
(* Module Store implements module DurableLog, proved for every set of      *)
(* transactions, any number of kills and every failing call except a power *)
(* cut.                                                                    *)
(*                                                                         *)
(* What the log forbids is that a restart shows a transaction nobody asked *)
(* for, one that was declined, or one a second time.  So the invariant     *)
(* follows the answers: every state, in a file or half loaded, that a      *)
(* restart could show beyond the promised one ends in a transaction that   *)
(* is still being carried out or whose caller was told of no success.      *)
(***************************************************************************)
EXTENDS StoreProofs

Answers == {"none", "running", "declined", "ok", "error", "unknown"}

Latest(s) == s[Len(s)]

\* A transaction that may yet be shown: asked for, without a success.
Unanswered(t, o) == o[t] \in {"running", "error", "unknown"}

\* If state s goes beyond p, its last transaction is new and may be shown.
Ahead(s, p, o) ==
  Len(s) = Len(p) + 1 => ~Contains(p, Latest(s)) /\ Unanswered(Latest(s), o)

LinesAhead(j, p, o) == \A i \in 1..Len(j) : j[i].ok => Ahead(j[i].st, p, o)

\* What is shown was asked for, and was not declined.
ShownAnswers(p, o) ==
  \A i \in 1..Len(p) : o[p[i]] \in {"ok", "error", "unknown"}

\* Only the transaction the holder of the lock works on is being carried out.
OneRunning ==
  \A t \in Tx : outcome[t] = "running" <=> pc \in Updating /\ t = Latest(next)

AnswersOK ==
  /\ ShownAnswers(promised, outcome) /\ OneRunning
  /\ Ahead(snap, promised, outcome) /\ LinesAhead(journal, promised, outcome)
  /\ pc = "load" => Ahead(mem, promised, outcome)

----------------------------------------------------------------------------
(* How a step may change the answers.                                      *)

\* Answers change as they do when no transaction is acknowledged.
Moves(o, n) ==
  \A t \in Tx :
    \/ n[t] = o[t]
    \/ o[t] = "none"
    \/ o[t] = "running" /\ n[t] \in {"error", "unknown"}

LEMMA LatestIn ==
  ASSUME NEW s \in State, Len(s) # 0
  PROVE  Latest(s) \in Tx /\ Contains(s, Latest(s))
<1>1. Len(s) \in 1..Len(s)
  BY StateLen
<1>2. Latest(s) \in Tx
  BY <1>1, ElementOfSeq DEF State, Latest
<1> QED
  BY <1>1, <1>2 DEF Contains, Latest

LEMMA AheadMoves ==
  ASSUME NEW s \in State, NEW p \in State, NEW o, NEW n, Moves(o, n), Ahead(s, p, o)
  PROVE  Ahead(s, p, n)
<1> SUFFICES ASSUME Len(s) = Len(p) + 1
             PROVE  ~Contains(p, Latest(s)) /\ Unanswered(Latest(s), n)
  BY DEF Ahead
<1>1. Len(p) \in Nat
  BY StateLen
<1>2. Latest(s) \in Tx
  BY <1>1, LatestIn
<1>3. ~Contains(p, Latest(s)) /\ Unanswered(Latest(s), o)
  BY DEF Ahead
<1> QED
  BY <1>2, <1>3 DEF Moves, Unanswered

LEMMA LinesAheadMove ==
  ASSUME NEW j \in Seq(Line), NEW p \in State, NEW o, NEW n, Moves(o, n), LinesAhead(j, p, o)
  PROVE  LinesAhead(j, p, n)
<1> SUFFICES ASSUME NEW i \in 1..Len(j), j[i].ok
             PROVE  Ahead(j[i].st, p, n)
  BY DEF LinesAhead
<1>1. j[i].st \in State
  BY LineFacts
<1>2. Ahead(j[i].st, p, o)
  BY DEF LinesAhead
<1> QED
  BY <1>1, <1>2, AheadMoves

LEMMA ShownMoves ==
  ASSUME NEW p \in State, NEW o, NEW n, Moves(o, n), ShownAnswers(p, o)
  PROVE  ShownAnswers(p, n)
<1>1. \A i \in 1..Len(p) : p[i] \in Tx
  BY ElementOfSeq DEF State
<1> QED
  BY <1>1 DEF ShownAnswers, Moves

\* A state that is no longer than p + 1 and of which p has caught up.
LEMMA NotAhead ==
  ASSUME NEW s \in State, NEW p \in State, NEW q \in State, NEW o,
         Len(s) <= Len(p) + 1, Len(q) = Len(p) + 1
  PROVE  Ahead(s, q, o)
<1>1. Len(s) \in Nat /\ Len(p) \in Nat /\ Len(q) \in Nat
  BY StateLen
<1> QED
  BY <1>1 DEF Ahead

LEMMA NoLinesAhead ==
  ASSUME NEW j \in Seq(Line), NEW p \in State, NEW q \in State, NEW o,
         LinesNear(j, p), Len(q) = Len(p) + 1
  PROVE  LinesAhead(j, q, o)
<1> SUFFICES ASSUME NEW i \in 1..Len(j), j[i].ok
             PROVE  Ahead(j[i].st, q, o)
  BY DEF LinesAhead
<1>1. j[i].st \in State /\ Len(j[i].st) <= Len(p) + 1
  BY LineFacts DEF LinesNear
<1> QED
  BY <1>1, NotAhead

\* A write adds at most the line that was to be written.
LEMMA WrittenAhead ==
  ASSUME NEW j \in Seq(Line), NEW l \in Line, NEW p, NEW o,
         LinesAhead(j, p, o), l.ok => Ahead(l.st, p, o)
  PROVE  LinesAhead(Written(j, l), p, o)
<1> DEFINE w == Written(j, l)
<1> HIDE DEF w
<1>0. Len(j) \in Nat
  BY LenProperties
<1>1. CASE j # <<>> /\ ~j[Len(j)].nl
  <2>1. /\ Len(w) = Len(j) /\ w[Len(j)] = Garbage(l.nl)
        /\ \A i \in 1..Len(j)-1 : w[i] = j[i]
    BY <1>1, WrittenMerges DEF w
  <2>2. ~w[Len(j)].ok
    BY <2>1 DEF Garbage
  <2>3. \A i \in 1..Len(j) : i \in 1..Len(j)-1 \/ i = Len(j)
    BY <1>0
  <2>4. \A i \in 1..Len(w) : w[i].ok => w[i] = j[i]
    BY <2>1, <2>2, <2>3
  <2>5. LinesAhead(w, p, o)
    BY <2>1, <2>4 DEF LinesAhead
  <2> QED
    BY <2>5 DEF w
<1>2. CASE j = <<>> \/ j[Len(j)].nl
  <2>1. /\ Len(w) = Len(j) + 1 /\ w[Len(j) + 1] = l
        /\ \A i \in 1..Len(j) : w[i] = j[i]
    BY <1>2, WrittenAppends DEF w
  <2>2. \A i \in 1..Len(w) : i \in 1..Len(j) \/ i = Len(j) + 1
    BY <1>0, <2>1
  <2>3. LinesAhead(w, p, o)
    BY <2>1, <2>2 DEF LinesAhead
  <2> QED
    BY <2>3 DEF w
<1> QED
  BY <1>1, <1>2

LEMMA LeftoversAhead ==
  ASSUME NEW j \in Seq(Line), NEW x \in State, NEW w \in Leftovers(j, x), NEW p, NEW o,
         LinesAhead(j, p, o), Ahead(x, p, o)
  PROVE  LinesAhead(w, p, o)
<1>1. /\ Whole(x) \in Line /\ Unterminated(x) \in Line /\ Garbage(FALSE) \in Line
      /\ Whole(x).st = x /\ Unterminated(x).st = x /\ ~Garbage(FALSE).ok
  BY LineTypes DEF Whole, Unterminated, Garbage
<1>2. w \in {j, Written(j, Garbage(FALSE)), Written(j, Unterminated(x)), Written(j, Whole(x))}
  BY DEF Leftovers
<1>3. CASE w = j
  BY <1>3
<1>4. CASE w = Written(j, Garbage(FALSE))
  BY <1>1, <1>4, WrittenAhead
<1>5. CASE w = Written(j, Unterminated(x))
  BY <1>1, <1>5, WrittenAhead
<1>6. CASE w = Written(j, Whole(x))
  BY <1>1, <1>6, WrittenAhead
<1> QED
  BY <1>2, <1>3, <1>4, <1>5, <1>6

----------------------------------------------------------------------------
(* The answers stay in order.                                              *)

LEMMA NextFacts ==
  ASSUME TypeOK, IInv, OneRunning, ShownAnswers(promised, outcome), pc \in Updating
  PROVE  /\ Latest(next) \in Tx /\ next = Append(promised, Latest(next))
         /\ outcome[Latest(next)] = "running" /\ ~Contains(promised, Latest(next))
         /\ Len(next) = Len(promised) + 1
         /\ \A i \in 1..Len(promised) : next[i] = promised[i]
         /\ Ahead(next, promised, outcome)
<1>1. promised \in State /\ Len(promised) \in Nat
  BY StateLen DEF TypeOK
<1>2. PICK t \in Tx : next = Append(promised, t)
  BY DEF IInv, ServingOK
<1>3. /\ Len(next) = Len(promised) + 1 /\ next[Len(promised) + 1] = t
      /\ \A i \in 1..Len(promised) : next[i] = promised[i]
  BY <1>1, <1>2, AppendProperties DEF State
<1>4. Latest(next) = t
  BY <1>3 DEF Latest
<1>5. outcome[t] = "running"
  BY <1>4 DEF OneRunning
<1>6. ~Contains(promised, t)
  BY <1>5 DEF Contains, ShownAnswers
<1> QED
  BY <1>2, <1>3, <1>4, <1>5, <1>6 DEF Ahead, Unanswered

LEMMA KeptAhead ==
  ASSUME TypeOK, AnswersOK, Moves(outcome, outcome'), promised' = promised
  PROVE  /\ ShownAnswers(promised, outcome)'
         /\ Ahead(snap, promised', outcome')
         /\ LinesAhead(journal, promised', outcome')
         /\ pc = "load" => Ahead(mem, promised', outcome')
         /\ Ahead(next, promised, outcome) => Ahead(next, promised', outcome')
<1>1. /\ snap \in State /\ mem \in State /\ next \in State /\ promised \in State
      /\ journal \in Seq(Line)
  BY DEF TypeOK
<1>2. ShownAnswers(promised, outcome')
  BY <1>1, ShownMoves DEF AnswersOK
<1>3. /\ Ahead(snap, promised, outcome')
      /\ pc = "load" => Ahead(mem, promised, outcome')
      /\ Ahead(next, promised, outcome) => Ahead(next, promised, outcome')
  BY <1>1, AheadMoves DEF AnswersOK
<1>4. LinesAhead(journal, promised, outcome')
  BY <1>1, LinesAheadMove DEF AnswersOK
<1> QED
  BY <1>2, <1>3, <1>4

\* Return ends the only transaction that was being carried out.
LEMMA ReturnMoves ==
  ASSUME TypeOK, IInv, AnswersOK, pc \in Updating, NEW r \in {"ok", "error"}, Return(r)
  PROVE  /\ OneRunning' /\ pc' = "idle"
         /\ outcome' = [outcome EXCEPT ![Latest(next)] = r]
         /\ \A t \in Tx : outcome'[t] = IF t = Latest(next) THEN r ELSE outcome[t]
         /\ r = "error" => Moves(outcome, outcome')
<1>1. outcome \in [Tx -> Answers] /\ Latest(next) \in Tx /\ outcome[Latest(next)] = "running"
  BY NextFacts DEF TypeOK, AnswersOK, Answers
<1>2. pc' = "idle" /\ outcome' = [outcome EXCEPT ![Latest(next)] = r]
  BY DEF Return, Latest
<1>3. \A t \in Tx : outcome'[t] = IF t = Latest(next) THEN r ELSE outcome[t]
  BY <1>1, <1>2
<1>4. OneRunning'
  BY <1>2, <1>3 DEF OneRunning, AnswersOK, Updating
<1> QED
  BY <1>1, <1>2, <1>3, <1>4 DEF Moves

LEMMA StopMoves ==
  ASSUME TypeOK, AnswersOK, Stop
  PROVE  /\ OneRunning' /\ pc' = "down" /\ promised' = promised
         /\ outcome' = [t \in Tx |-> IF outcome[t] = "running" THEN "unknown" ELSE outcome[t]]
         /\ Moves(outcome, outcome')
<1>1. /\ pc' = "down" /\ promised' = promised
      /\ outcome' = [t \in Tx |-> IF outcome[t] = "running" THEN "unknown" ELSE outcome[t]]
  BY DEF Stop
<1>2. OneRunning'
  BY <1>1 DEF OneRunning, Updating
<1> QED
  BY <1>1, <1>2 DEF Moves

\* A transaction that is shown when its Update returns, or at a restart.
LEMMA ShownGrows ==
  ASSUME NEW p \in State, NEW q \in State, NEW o, NEW n,
         Len(q) = Len(p) + 1, \A i \in 1..Len(p) : q[i] = p[i],
         ShownAnswers(p, o), n[Latest(q)] \in {"ok", "error", "unknown"},
         \A t \in Tx : t # Latest(q) => n[t] = o[t]
  PROVE  ShownAnswers(q, n)
<1> SUFFICES ASSUME NEW i \in 1..Len(q)
             PROVE  n[q[i]] \in {"ok", "error", "unknown"}
  BY DEF ShownAnswers
<1>1. Len(p) \in Nat /\ q[i] \in Tx
  BY StateLen, ElementOfSeq DEF State
<1>2. CASE q[i] = Latest(q)
  BY <1>2
<1>3. CASE q[i] # Latest(q)
  <2>1. i \in 1..Len(p)
    BY <1>1, <1>3 DEF Latest
  <2> QED
    BY <1>1, <1>3, <2>1 DEF ShownAnswers
<1> QED
  BY <1>2, <1>3

\* Once the promise has caught up, no file goes beyond it.
LEMMA CaughtUp ==
  ASSUME TypeOK, IInv, NEW q \in State, Len(q) = Len(promised) + 1
  PROVE  Ahead(snap, q, outcome') /\ LinesAhead(journal, q, outcome')
<1>1. /\ snap \in State /\ promised \in State /\ journal \in Seq(Line)
      /\ Len(snap) \in Nat /\ Len(promised) \in Nat
  BY StateLen DEF TypeOK
<1>2. Len(snap) <= Len(promised) + 1 /\ LinesNear(journal, promised)
  BY <1>1 DEF IInv, FilesOK, OneOff, Agree
<1> QED
  BY <1>1, <1>2, NotAhead, NoLinesAhead

----------------------------------------------------------------------------
(* Every step keeps the answers in order and is a step of the log, or one  *)
(* that the log does not see.                                              *)

LogStep == Durable!LogNext \/ UNCHANGED <<promised, outcome>>

\* Steps that change no answer and nothing that is shown.
LEMMA SilentKeeps ==
  ASSUME TypeOK, AnswersOK, UNCHANGED <<promised, outcome>>,
         next' = next \/ pc' \notin Updating, pc' \in Updating <=> pc \in Updating,
         Ahead(snap', promised, outcome), LinesAhead(journal', promised, outcome),
         pc' = "load" => Ahead(mem', promised, outcome)
  PROVE  AnswersOK' /\ LogStep
<1>1. OneRunning'
  BY DEF AnswersOK, OneRunning
<1>2. ShownAnswers(promised, outcome)'
  BY DEF AnswersOK, ShownAnswers
<1>3. /\ Ahead(snap, promised, outcome)' /\ LinesAhead(journal, promised, outcome)'
      /\ (pc = "load" => Ahead(mem, promised, outcome))'
  <2>1. promised' = promised /\ outcome' = outcome
    OBVIOUS
  <2> QED
    BY <2>1 DEF Ahead, LinesAhead, Unanswered
<1> QED
  BY <1>1, <1>2, <1>3 DEF AnswersOK, LogStep

LEMMA StepRefines ==
  ASSUME "power" \notin Faults, TypeOK, TypeOK', IInv, AnswersOK, [Next]_vars
  PROVE  AnswersOK' /\ LogStep
<1>1. /\ snap \in State /\ mem \in State /\ next \in State /\ promised \in State
      /\ journal \in Seq(Line) /\ outcome \in [Tx -> Answers] /\ Len(promised) \in Nat
  BY StateLen DEF TypeOK, Answers
<1>2. /\ OneRunning /\ ShownAnswers(promised, outcome)
      /\ Ahead(snap, promised, outcome) /\ LinesAhead(journal, promised, outcome)
      /\ pc = "load" => Ahead(mem, promised, outcome)
  BY DEF AnswersOK
<1>3. ASSUME NEW t \in Tx, Decline(t)
      PROVE  AnswersOK' /\ LogStep
  <2>1. /\ pc = "idle" /\ outcome[t] = "none" /\ outcome' = [outcome EXCEPT ![t] = "declined"]
        /\ UNCHANGED <<pc, mem, next, snap, journal, promised>>
    BY <1>3 DEF Decline, files
  <2>2. \A u \in Tx : outcome'[u] = IF u = t THEN "declined" ELSE outcome[u]
    BY <1>1, <2>1
  <2>3. Moves(outcome, outcome') /\ OneRunning'
    BY <1>2, <2>1, <2>2 DEF Moves, OneRunning, Updating
  <2>4. AnswersOK'
    BY <2>1, <2>3, KeptAhead DEF AnswersOK
  <2>5. Durable!Refuse(t)
    BY <2>1 DEF Durable!Refuse, Durable!Becomes
  <2> QED
    BY <2>4, <2>5 DEF LogStep, Durable!LogNext
<1>4. ASSUME NEW t \in Tx, Begin(t)
      PROVE  AnswersOK' /\ LogStep
  <2>1. /\ pc = "idle" /\ outcome[t] = "none" /\ outcome' = [outcome EXCEPT ![t] = "running"]
        /\ pc' = "append" /\ next' = Append(mem, t)
        /\ UNCHANGED <<mem, snap, journal, promised>>
    BY <1>4 DEF Begin, files
  <2>2. \A u \in Tx : outcome'[u] = IF u = t THEN "running" ELSE outcome[u]
    BY <1>1, <2>1
  <2>3. Latest(next') = t
    BY <1>1, <2>1, AppendProperties DEF Latest, State
  <2>4. Moves(outcome, outcome') /\ OneRunning'
    BY <1>2, <2>1, <2>2, <2>3 DEF Moves, OneRunning, Updating
  <2>5. AnswersOK'
    BY <2>1, <2>4, KeptAhead DEF AnswersOK
  <2>6. Durable!Submit(t)
    BY <2>1 DEF Durable!Submit, Durable!Becomes
  <2> QED
    BY <2>5, <2>6 DEF LogStep, Durable!LogNext
<1>5. CASE AppendJournal
  <2>1. /\ pc = "append" /\ pc' = "snapshot" /\ journal' = Written(journal, Whole(next))
        /\ UNCHANGED <<snap, next, promised, outcome>>
    BY <1>5 DEF AppendJournal, history
  <2>2. Ahead(next, promised, outcome)
    BY <1>2, <2>1, NextFacts DEF Updating
  <2>3. Whole(next) \in Line /\ Whole(next).st = next
    BY <1>1, LineTypes DEF Whole
  <2>4. LinesAhead(journal', promised, outcome)
    BY <1>1, <1>2, <2>1, <2>2, <2>3, WrittenAhead
  <2> QED
    BY <1>2, <2>1, <2>4, SilentKeeps DEF Updating
<1>6. CASE AppendFails \/ SnapshotFails
  <2>1. /\ pc \in Updating /\ Return("error") /\ UNCHANGED <<snap, promised>>
        /\ journal' = journal \/ journal' \in Leftovers(journal, next)
    BY <1>6 DEF AppendFails, SnapshotFails, Updating, files, Leftovers
  <2>2. /\ OneRunning' /\ pc' = "idle" /\ Moves(outcome, outcome')
        /\ outcome' = [outcome EXCEPT ![Latest(next)] = "error"]
    BY <2>1, ReturnMoves
  <2>3. /\ ShownAnswers(promised, outcome)' /\ Ahead(snap, promised', outcome')
        /\ LinesAhead(journal, promised', outcome')
        /\ Ahead(next, promised', outcome')
    BY <1>2, <2>1, <2>2, KeptAhead, NextFacts
  <2>4. LinesAhead(journal', promised', outcome')
    BY <1>1, <2>1, <2>3, LeftoversAhead
  <2>5. AnswersOK'
    BY <2>1, <2>2, <2>3, <2>4 DEF AnswersOK
  <2>6. Latest(next) \in Tx /\ outcome[Latest(next)] = "running"
    BY <1>2, <2>1, NextFacts
  <2>7. Durable!Error(Latest(next))
    BY <2>1, <2>2, <2>6 DEF Durable!Error, Durable!Becomes
  <2> QED
    BY <2>5, <2>6, <2>7 DEF LogStep, Durable!LogNext
<1>7. CASE RenameSnapshot
  <2>1. /\ pc = "snapshot" /\ pc' = "publish" /\ snap' = next
        /\ UNCHANGED <<journal, next, promised, outcome>>
    BY <1>7 DEF RenameSnapshot, history
  <2>2. Ahead(next, promised, outcome)
    BY <1>2, <2>1, NextFacts DEF Updating
  <2> QED
    BY <1>2, <2>1, <2>2, SilentKeeps DEF Updating
<1>8. CASE Publish
  <2>1. /\ pc = "publish" /\ Return("ok") /\ promised' = next
        /\ UNCHANGED <<snap, journal>>
    BY <1>8 DEF Publish, files
  <2>2. /\ Latest(next) \in Tx /\ next = Append(promised, Latest(next))
        /\ outcome[Latest(next)] = "running"
        /\ Len(next) = Len(promised) + 1 /\ \A i \in 1..Len(promised) : next[i] = promised[i]
    BY <1>2, <2>1, NextFacts DEF Updating
  <2>3. /\ OneRunning' /\ pc' = "idle"
        /\ outcome' = [outcome EXCEPT ![Latest(next)] = "ok"]
        /\ \A t \in Tx : outcome'[t] = IF t = Latest(next) THEN "ok" ELSE outcome[t]
    BY <2>1, ReturnMoves DEF Updating
  <2>4. ShownAnswers(next, outcome')
    <3>1. outcome'[Latest(next)] = "ok" /\ \A t \in Tx : t # Latest(next) => outcome'[t] = outcome[t]
      BY <2>2, <2>3
    <3> QED
      BY <1>1, <1>2, <2>2, <3>1, ShownGrows
  <2>5. Ahead(snap, next, outcome') /\ LinesAhead(journal, next, outcome')
    BY <1>1, <2>2, CaughtUp
  <2>6. AnswersOK'
    BY <2>1, <2>3, <2>4, <2>5 DEF AnswersOK
  <2>7. Durable!Ack(Latest(next))
    BY <2>1, <2>2, <2>3 DEF Durable!Ack, Durable!Becomes
  <2> QED
    BY <2>2, <2>6, <2>7 DEF LogStep, Durable!LogNext
<1>9. CASE Inspect \/ BeginCompact \/ CompactFails
  <2>1. /\ pc \notin Updating /\ pc' \notin Updating /\ pc' # "load"
        /\ UNCHANGED <<snap, journal, promised, outcome>>
    BY <1>9 DEF Inspect, BeginCompact, CompactFails, Updating, Compacting, files, history
  <2> QED
    BY <1>2, <2>1, SilentKeeps
<1>10. CASE CompactSnapshot
  <2>1. /\ pc = "compact" /\ pc' = "truncate" /\ snap' = mem
        /\ UNCHANGED <<journal, promised, outcome>>
    BY <1>10 DEF CompactSnapshot, history
  <2>2. mem = promised
    BY <2>1 DEF IInv, ServingOK, Up, Compacting
  <2>3. Ahead(mem, promised, outcome)
    BY <1>1, <2>2 DEF Ahead
  <2> QED
    BY <1>2, <2>1, <2>3, SilentKeeps DEF Updating
<1>11. CASE CompactJournal
  <2>1. /\ pc = "truncate" /\ pc' = "idle" /\ journal' = <<>>
        /\ UNCHANGED <<snap, promised, outcome>>
    BY <1>11 DEF CompactJournal, history
  <2>2. LinesAhead(<<>>, promised, outcome)
    BY EmptySeq DEF LinesAhead
  <2> QED
    BY <1>2, <2>1, <2>2, SilentKeeps DEF Updating
<1>12. CASE Kill
  <2>1. /\ Stop /\ snap' = snap
        /\ journal' = journal \/ (pc = "append" /\ journal' \in Leftovers(journal, next))
    BY <1>12 DEF Kill
  <2>2. /\ OneRunning' /\ pc' = "down" /\ promised' = promised /\ Moves(outcome, outcome')
        /\ outcome' = [t \in Tx |-> IF outcome[t] = "running" THEN "unknown" ELSE outcome[t]]
    BY <2>1, StopMoves
  <2>3. /\ ShownAnswers(promised, outcome)' /\ Ahead(snap, promised', outcome')
        /\ LinesAhead(journal, promised', outcome')
        /\ Ahead(next, promised, outcome) => Ahead(next, promised', outcome')
    BY <2>2, KeptAhead
  <2>4. LinesAhead(journal', promised', outcome')
    <3>1. CASE journal' = journal
      BY <2>3, <3>1
    <3>2. CASE pc = "append" /\ journal' \in Leftovers(journal, next)
      <4>1. Ahead(next, promised', outcome')
        BY <1>2, <2>3, <3>2, NextFacts DEF Updating
      <4> QED
        BY <1>1, <2>3, <3>2, <4>1, LeftoversAhead
    <3> QED
      BY <2>1, <3>1, <3>2
  <2>5. AnswersOK'
    BY <2>1, <2>2, <2>3, <2>4 DEF AnswersOK
  <2>6. Durable!Lose
    BY <2>2 DEF Durable!Lose
  <2> QED
    BY <2>5, <2>6 DEF LogStep, Durable!LogNext
<1>13. CASE PowerCut
  BY <1>13 DEF PowerCut
<1>14. CASE Open
  <2>1. /\ pc \notin Updating /\ pc' = "load" /\ mem' = snap
        /\ UNCHANGED <<snap, journal, promised, outcome>>
    BY <1>14 DEF Open, Off, Updating, files, history
  <2> QED
    BY <1>2, <2>1, SilentKeeps DEF Updating
<1>15. CASE LoadLine
  <2>1. /\ pc = "load" /\ pc' = "load" /\ pos \in 1..Len(journal)
        /\ UNCHANGED <<snap, promised, outcome>>
    <3>1. Len(journal) \in Nat /\ pos \in Nat \ {0}
      BY LenProperties DEF TypeOK
    <3> QED
      BY <1>15, <3>1 DEF LoadLine, Loading, history
  <2>2. Current.st \in State /\ Current = journal[pos] /\ Current.ok
    BY <1>1, <1>15, <2>1, LineFacts DEF LoadLine, Current
  <2>3. Ahead(Current.st, promised, outcome)
    BY <1>2, <2>1, <2>2 DEF LinesAhead
  <2>4. Ahead(mem', promised, outcome)
    BY <1>2, <1>15, <2>1, <2>3 DEF LoadLine
  <2>5. LinesAhead(journal', promised, outcome)
    <3>1. CASE Current.nl
      BY <1>2, <1>15, <3>1 DEF LoadLine
    <3>2. CASE ~Current.nl
      <4>1. journal' = [journal EXCEPT ![pos] = Whole(Current.st)]
        BY <1>15, <3>2 DEF LoadLine
      <4>2. Whole(Current.st) \in Line /\ Whole(Current.st).st = Current.st
        BY <2>2, LineTypes DEF Whole
      <4>3. /\ Len(journal') = Len(journal)
            /\ \A i \in 1..Len(journal) :
                 journal'[i] = IF i = pos THEN Whole(Current.st) ELSE journal[i]
        BY <1>1, <2>1, <4>1, <4>2, ExceptSeq
      <4> QED
        BY <1>2, <2>3, <4>2, <4>3 DEF LinesAhead
    <3> QED
      BY <3>1, <3>2
  <2> QED
    BY <1>2, <2>1, <2>4, <2>5, SilentKeeps DEF Updating
<1>16. CASE LoadTail
  <2>1. /\ pc = "load" /\ pos \in 1..Len(journal) /\ Len(journal) \in Nat
        /\ journal' = SubSeq(journal, 1, pos - 1)
        /\ UNCHANGED <<pc, mem, snap, promised, outcome>>
    <3>1. Len(journal) \in Nat /\ pos \in Nat \ {0}
      BY LenProperties DEF TypeOK
    <3> QED
      BY <1>16, <3>1 DEF LoadTail, Loading, history
  <2>2. Len(journal') = pos - 1 /\ \A i \in 1..pos-1 : journal'[i] = journal[i]
    <3>1. \A i \in 1..pos-1 : journal[i] \in Line
      BY <1>1, <2>1, ElementOfSeq
    <3>2. pos - 1 \in Int /\ 1 \in Int /\ (pos - 1) - 1 + 1 = pos - 1 /\ pos - 1 >= 0
      BY <2>1
    <3>3. /\ Len(journal') = IF 1 <= pos - 1 THEN (pos - 1) - 1 + 1 ELSE 0
          /\ \A i \in 1..(pos - 1) - 1 + 1 : journal'[i] = journal[1 + i - 1]
      BY <2>1, <3>1, <3>2, SubSeqProperties
    <3> QED
      BY <3>2, <3>3
  <2>3. \A i \in 1..Len(journal') : i \in 1..Len(journal) /\ journal'[i] = journal[i]
    BY <2>1, <2>2
  <2>4. LinesAhead(journal', promised, outcome)
    BY <1>2, <2>3 DEF LinesAhead
  <2> QED
    BY <1>2, <2>1, <2>4, SilentKeeps DEF Updating
<1>17. CASE LoadRefused \/ AuditRefused \/ LoadFails
  <2>1. /\ pc \notin Updating /\ pc' \notin Updating /\ pc' # "load"
        /\ UNCHANGED <<snap, journal, promised, outcome>>
    BY <1>17, RefuseFacts DEF LoadFails, Loading, Updating, files, history
  <2> QED
    BY <1>2, <2>1, SilentKeeps
<1>18. CASE LoadDone
  <2>1. /\ pc = "load" /\ pc' = "idle" /\ promised' = mem
        /\ UNCHANGED <<snap, journal, outcome>>
    BY <1>18 DEF LoadDone, Loaded, files
  <2>2. Agree(promised, mem) /\ OneOff(mem, promised) /\ Len(mem) \in Nat
    BY <1>1, <2>1, StepKeeps, StateLen DEF IInv, LoadOK
  <2>3. OneRunning' /\ \A t \in Tx : outcome[t] # "running"
    BY <1>2, <2>1 DEF OneRunning, Updating
  <2>4. CASE Len(mem) <= Len(promised)
    <3>1. mem = promised
      BY <1>1, <2>2, <2>4, AgreeEqual
    <3>2. UNCHANGED <<promised, outcome>>
      BY <2>1, <3>1
    <3> QED
      BY <1>2, <2>1, <3>2, SilentKeeps DEF Updating
  <2>5. CASE Len(mem) > Len(promised)
    <3>1. Len(mem) = Len(promised) + 1 /\ \A i \in 1..Len(promised) : mem[i] = promised[i]
      BY <1>1, <2>2, <2>5 DEF OneOff, Agree
    <3>2. Latest(mem) \in Tx
      BY <1>1, <3>1, LatestIn
    <3>3. outcome[Latest(mem)] \in {"error", "unknown"} /\ ~Contains(promised, Latest(mem))
      BY <1>2, <2>1, <2>3, <3>1, <3>2 DEF Ahead, Unanswered
    <3>4. mem = Append(promised, Latest(mem))
      <4>1. /\ Append(promised, Latest(mem)) \in Seq(Tx)
            /\ Len(Append(promised, Latest(mem))) = Len(promised) + 1
            /\ Append(promised, Latest(mem))[Len(promised) + 1] = Latest(mem)
            /\ \A i \in 1..Len(promised) : Append(promised, Latest(mem))[i] = promised[i]
        BY <1>1, <3>2, AppendProperties DEF State
      <4>2. \A i \in 1..Len(mem) : i \in 1..Len(promised) \/ i = Len(promised) + 1
        BY <1>1, <3>1
      <4>3. \A i \in 1..Len(mem) : mem[i] = Append(promised, Latest(mem))[i]
        BY <3>1, <4>1, <4>2 DEF Latest
      <4> QED
        BY <1>1, <3>1, <4>1, <4>3, SeqEqual DEF State
    <3>5. ShownAnswers(mem, outcome')
      BY <1>1, <1>2, <2>1, <3>1, <3>3, ShownGrows
    <3>6. Ahead(snap, mem, outcome') /\ LinesAhead(journal, mem, outcome')
      BY <1>1, <3>1, CaughtUp
    <3>7. AnswersOK'
      BY <2>1, <2>3, <3>5, <3>6 DEF AnswersOK
    <3>8. Durable!Resurface(Latest(mem))
      BY <2>1, <3>3, <3>4 DEF Durable!Resurface, Durable!Contains, Contains
    <3> QED
      BY <3>2, <3>7, <3>8 DEF LogStep, Durable!LogNext
  <2> QED
    BY <1>1, <2>2, <2>4, <2>5
<1>19. CASE UNCHANGED vars
  BY <1>2, <1>19, SilentKeeps DEF vars
<1> QED
  BY <1>3, <1>4, <1>5, <1>6, <1>7, <1>8, <1>9, <1>10, <1>11, <1>12, <1>13, <1>14,
     <1>15, <1>16, <1>17, <1>18, <1>19 DEF Next, Update, Compact, Load

\* Whatever fails and however often the process is killed, callers see a log
\* that only grows: an acknowledged transaction is in it at once and for ever, a
\* declined one never, and one that returned an error or whose answer was lost
\* turns up once at most, at a restart, as the next entry (Update, load, Compact).
THEOREM StoreIsALog ==
  ASSUME "power" \notin Faults
  PROVE  Spec => ImplementsDurableLog
<1>1. Init => AnswersOK /\ Durable!LogInit
  <2> SUFFICES ASSUME Init
               PROVE  AnswersOK /\ Durable!LogInit
    OBVIOUS
  <2>1. /\ pc = "down" /\ snap = <<>> /\ journal = <<>> /\ promised = <<>>
        /\ outcome = [t \in Tx |-> "none"] /\ Len(<<>>) = 0
    BY EmptySeq DEF Init
  <2>2. OneRunning
    BY <2>1 DEF OneRunning, Updating
  <2>3. /\ ShownAnswers(promised, outcome) /\ Ahead(snap, promised, outcome)
        /\ LinesAhead(journal, promised, outcome)
    BY <2>1 DEF ShownAnswers, Ahead, LinesAhead
  <2> QED
    BY <2>1, <2>2, <2>3 DEF AnswersOK, Durable!LogInit
<1>2. TypeOK /\ TypeOK' /\ IInv /\ AnswersOK /\ [Next]_vars
        => AnswersOK' /\ [Durable!LogNext]_(Durable!logVars)
  BY StepRefines DEF LogStep, Durable!logVars
<1> QED
  BY <1>1, <1>2, TypeCorrect, FilesInOrder, PTL DEF Spec, ImplementsDurableLog, Durable!LogSpec

=============================================================================
