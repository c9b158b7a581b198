-------------------------- MODULE StorePowerProofs --------------------------
(***************************************************************************)
(* What the store keeps when the machine can stop, proved for every set of *)
(* transactions and any number of kills and power cuts.  A power cut may   *)
(* bring back a directory of before the last renames, so what a restart    *)
(* serves is not what was served last; the invariant says that all the     *)
(* directories that may be found agree on every answered transaction.      *)
(***************************************************************************)
EXTENDS StoreProofs

----------------------------------------------------------------------------
(* What a directory recovers.                                              *)

Bare(j) == \A i \in 1..Len(j) : ~j[i].ok

\* load() of snapshot s and journal j accepts them and ends with state r.
Recovers(s, j, r) ==
  /\ Agree(s, r)
  /\ \A i \in 1..Len(j) : j[i].ok => Agree(j[i].st, r)
  /\ \A i \in 1..Len(j) : (j[i].ok /\ j[i].nl) \/ (i = Len(j) /\ ~j[i].nl)
  /\ NoJump(s, j)
  /\ Bare(j) => s = r
  /\ Bare(j) \/ \E i \in 1..Len(j) : j[i].ok /\ j[i].st = r

Complete(j) == \A i \in 1..Len(j) : j[i].ok /\ j[i].nl

LEMMA RecoversSnapshot ==
  ASSUME NEW s \in State, NEW j \in Seq(Line), NEW r \in State, Recovers(s, j, r)
  PROVE  Recovers(r, j, r)
<1>1. \A i \in 1..Len(j) : j[i].ok => Agree(j[i].st, r)
  BY Zenon DEF Recovers
<1>2. NoJump(r, j)
  <2>1. \A i \in 1..Len(j) : j[i].ok => Len(j[i].st) <= Len(r)
    BY <1>1, Zenon DEF Agree
  <2>2. Len(r) \in Nat /\ \A i \in 1..Len(j) : Len(j[i].st) \in Nat
    BY StateLen, LineFacts
  <2> QED
    BY <2>1, <2>2 DEF NoJump
<1>3. Agree(r, r)
  BY AgreeReflexive
<1> QED
  BY <1>1, <1>2, <1>3, Zenon DEF Recovers

LEMMA RecoversEmpty ==
  ASSUME NEW s \in State
  PROVE  Recovers(s, <<>>, s) /\ Bare(<<>>)
<1>1. Len(<<>>) = 0 /\ Agree(s, s)
  BY EmptySeq, AgreeReflexive
<1>2. \A i \in 1..Len(<<>>) : FALSE
  BY <1>1
<1> QED
  BY <1>1, <1>2, Zenon DEF Recovers, NoJump, Bare

\* A journal and what it starts from recover one state.
LEMMA RecoversOne ==
  ASSUME NEW s \in State, NEW t \in State, NEW j \in Seq(Line),
         NEW r \in State, NEW q \in State,
         Recovers(s, j, r), Recovers(t, j, q), Bare(j) => s = t
  PROVE  r = q
<1>1. CASE Bare(j)
  BY <1>1, Zenon DEF Recovers
<1>2. CASE ~Bare(j)
  <2>1. Agree(r, q) /\ Agree(q, r)
    BY <1>2, Zenon DEF Recovers
  <2>2. Len(q) <= Len(r)
    BY <2>1 DEF Agree
  <2> QED
    BY <2>1, <2>2, AgreeEqual
<1> QED
  BY <1>1, <1>2

\* A line that continues what is recovered is recovered.
LEMMA RecoversLine ==
  ASSUME NEW s \in State, NEW j \in Seq(Line), NEW p \in State, NEW t \in Tx,
         NEW w \in Seq(Line), Complete(j), Recovers(s, j, p),
         Len(w) = Len(j) + 1, \A i \in 1..Len(j) : w[i] = j[i],
         w[Len(j) + 1].ok, w[Len(j) + 1].st = Append(p, t)
  PROVE  Recovers(s, w, Append(p, t)) /\ ~Bare(w)
<1> DEFINE x == Append(p, t)
           n == Len(j) + 1
<1>1. x \in State /\ Len(x) = Len(p) + 1 /\ Agree(p, x)
  BY AppendAgrees
<1>2. /\ Len(s) \in Nat /\ Len(p) \in Nat /\ Len(j) \in Nat
      /\ \A i \in 1..Len(j) : j[i].st \in State /\ Len(j[i].st) \in Nat
  BY StateLen, LineFacts
<1>3. w[n].ok /\ w[n].st = x
  OBVIOUS
<1> HIDE DEF x
<1>4. /\ n \in 1..Len(w) /\ n = Len(w)
      /\ \A i \in 1..Len(w) : i \in 1..Len(j) \/ i = n
      /\ 1..n-1 = 1..Len(j)
  BY <1>2
<1>5. Agree(s, x)
  BY <1>1, AgreeTransitive DEF Recovers
<1>6. ASSUME NEW i \in 1..Len(w) PROVE w[i].ok => Agree(w[i].st, x)
  <2>1. CASE i = n
    BY <1>1, <1>3, <2>1, AgreeReflexive
  <2>2. CASE i \in 1..Len(j)
    <3>1. w[i] = j[i] /\ j[i].ok
      BY <2>2, Zenon DEF Complete
    <3>2. Agree(j[i].st, p)
      BY <2>2, <3>1, Zenon DEF Recovers
    <3> QED
      BY <1>1, <1>2, <2>2, <3>1, <3>2, AgreeTransitive
  <2> QED
    BY <1>4, <2>1, <2>2
<1> HIDE DEF n
<1>7. \A i \in 1..Len(w) : (w[i].ok /\ w[i].nl) \/ (i = Len(w) /\ ~w[i].nl)
  BY <1>3, <1>4, Zenon DEF Complete
<1>8. NoJump(s, w)
  <2>1. SUFFICES ASSUME NEW i \in 1..Len(w), w[i].ok, Len(s) + 1 < Len(w[i].st)
                 PROVE  \E k \in 1..i-1 : w[k].ok /\ Len(w[k].st) + 1 = Len(w[i].st)
    BY DEF NoJump
  <2>2. CASE i = n
    <3>1. s # p
      BY <1>1, <1>2, <1>3, <2>1, <2>2
    <3>2. PICK k \in 1..Len(j) : j[k].ok /\ j[k].st = p
      BY <3>1, Zenon DEF Recovers
    <3>3. w[k] = j[k] /\ k \in 1..i-1
      BY <1>4, <2>2
    <3>4. Len(w[k].st) + 1 = Len(w[i].st)
      BY <1>1, <1>3, <2>2, <3>2, <3>3
    <3> QED
      BY <3>2, <3>3, <3>4, Zenon
  <2>3. CASE i \in 1..Len(j)
    <3>1. w[i] = j[i] /\ 1..i-1 \subseteq 1..Len(j)
      BY <1>2, <2>3
    <3>2. PICK k \in 1..i-1 : j[k].ok /\ Len(j[k].st) + 1 = Len(j[i].st)
      BY <2>1, <2>3, <3>1, Zenon DEF Recovers, NoJump
    <3> QED
      BY <3>1, <3>2, Zenon
  <2> QED
    BY <1>4, <2>2, <2>3
<1>9. ~Bare(w)
  BY <1>3, <1>4, Zenon DEF Bare
<1> QED
  BY <1>3, <1>4, <1>5, <1>6, <1>7, <1>8, <1>9, Zenon DEF Recovers, x

\* A line that does not parse adds nothing to what is recovered.
LEMMA RecoversTorn ==
  ASSUME NEW s \in State, NEW j \in Seq(Line), NEW p \in State,
         NEW w \in Seq(Line), Complete(j), Recovers(s, j, p),
         Len(w) = Len(j) + 1, \A i \in 1..Len(j) : w[i] = j[i],
         ~w[Len(j) + 1].ok, ~w[Len(j) + 1].nl
  PROVE  Recovers(s, w, p) /\ (Bare(w) => Bare(j))
<1> DEFINE n == Len(j) + 1
<1>1. Len(j) \in Nat
  BY LineFacts
<1>2. ~w[n].ok /\ ~w[n].nl
  OBVIOUS
<1>3. /\ n \in 1..Len(w) /\ n = Len(w)
      /\ \A i \in 1..Len(w) : i \in 1..Len(j) \/ i = n
      /\ \A i \in 1..Len(j) : i \in 1..Len(w)
  BY <1>1
<1> HIDE DEF n
<1>4. \A i \in 1..Len(w) : w[i].ok => i \in 1..Len(j) /\ w[i] = j[i]
  BY <1>2, <1>3, Zenon
<1>5. \A i \in 1..Len(w) : w[i].ok => Agree(w[i].st, p)
  BY <1>4, Zenon DEF Recovers
<1>6. \A i \in 1..Len(w) : (w[i].ok /\ w[i].nl) \/ (i = Len(w) /\ ~w[i].nl)
  BY <1>2, <1>3, Zenon DEF Complete
<1>7. NoJump(s, w)
  <2>1. SUFFICES ASSUME NEW i \in 1..Len(w), w[i].ok, Len(s) + 1 < Len(w[i].st)
                 PROVE  \E k \in 1..i-1 : w[k].ok /\ Len(w[k].st) + 1 = Len(w[i].st)
    BY DEF NoJump
  <2>2. i \in 1..Len(j) /\ w[i] = j[i] /\ j[i].ok
    BY <1>4, <2>1, Zenon
  <2>3. 1..i-1 \subseteq 1..Len(j)
    BY <1>1, <2>2
  <2>4. PICK k \in 1..i-1 : j[k].ok /\ Len(j[k].st) + 1 = Len(j[i].st)
    BY <2>1, <2>2, Zenon DEF Recovers, NoJump
  <2> QED
    BY <2>2, <2>3, <2>4, Zenon
<1>8. Bare(w) => Bare(j)
  BY <1>3, Zenon DEF Bare
<1>9. Bare(w) \/ \E i \in 1..Len(w) : w[i].ok /\ w[i].st = p
  <2>1. CASE Bare(j)
    BY <1>4, <2>1, Zenon DEF Bare
  <2>2. CASE ~Bare(j)
    BY <1>3, <2>2, Zenon DEF Recovers
  <2> QED
    BY <2>1, <2>2
<1>10. Agree(s, p) /\ (Bare(j) => s = p)
  BY Zenon DEF Recovers
<1> QED
  BY <1>5, <1>6, <1>7, <1>8, <1>9, <1>10, Zenon DEF Recovers

\* load() adds the missing newline of a last line that parses.
LEMMA RecoversNewline ==
  ASSUME NEW s \in State, NEW j \in Seq(Line), NEW w \in Seq(Line), NEW r \in State,
         Len(w) = Len(j), Complete(w),
         \A i \in 1..Len(j) : j[i].ok /\ w[i].st = j[i].st, Recovers(s, j, r)
  PROVE  Recovers(s, w, r)
<1>1. NoJump(s, w)
  <2>1. SUFFICES ASSUME NEW i \in 1..Len(w), w[i].ok, Len(s) + 1 < Len(w[i].st)
                 PROVE  \E k \in 1..i-1 : w[k].ok /\ Len(w[k].st) + 1 = Len(w[i].st)
    BY DEF NoJump
  <2>2. w[i].st = j[i].st /\ j[i].ok
    BY <2>1, Zenon
  <2>3. PICK k \in 1..i-1 : j[k].ok /\ Len(j[k].st) + 1 = Len(j[i].st)
    BY <2>1, <2>2, Zenon DEF Recovers, NoJump
  <2>4. k \in 1..Len(j)
    BY <2>1, LineFacts
  <2> QED
    BY <2>2, <2>3, <2>4, Zenon DEF Complete
<1> QED
  BY <1>1, Zenon DEF Recovers, Complete, Bare

\* load() cuts off a last line that does not parse.
LEMMA RecoversTail ==
  ASSUME NEW s \in State, NEW j \in Seq(Line), NEW w \in Seq(Line), NEW r \in State,
         Len(j) = Len(w) + 1, \A i \in 1..Len(w) : w[i] = j[i],
         Complete(w), ~j[Len(j)].ok, Recovers(s, j, r)
  PROVE  Recovers(s, w, r) /\ (Bare(w) => Bare(j))
<1>1. Len(j) \in Nat /\ Len(w) \in Nat
  BY LineFacts
<1>2. /\ \A i \in 1..Len(j) : i \in 1..Len(w) \/ i = Len(j)
      /\ \A i \in 1..Len(w) : i \in 1..Len(j)
  BY <1>1
<1>3. \A i \in 1..Len(j) : j[i].ok => i \in 1..Len(w) /\ w[i] = j[i]
  BY <1>2, Zenon
<1>4. NoJump(s, w)
  <2>1. SUFFICES ASSUME NEW i \in 1..Len(w), w[i].ok, Len(s) + 1 < Len(w[i].st)
                 PROVE  \E k \in 1..i-1 : w[k].ok /\ Len(w[k].st) + 1 = Len(w[i].st)
    BY DEF NoJump
  <2>2. w[i] = j[i] /\ i \in 1..Len(j) /\ j[i].ok
    BY <1>2, <2>1, Zenon
  <2>3. PICK k \in 1..i-1 : j[k].ok /\ Len(j[k].st) + 1 = Len(j[i].st)
    BY <2>1, <2>2, Zenon DEF Recovers, NoJump
  <2>4. k \in 1..Len(w)
    BY <1>1, <2>1
  <2> QED
    BY <2>2, <2>3, <2>4, Zenon
<1>5. Bare(w) => Bare(j)
  BY <1>3, Zenon DEF Bare
<1>6. Bare(w) \/ \E i \in 1..Len(w) : w[i].ok /\ w[i].st = r
  <2>1. CASE Bare(j)
    BY <1>2, <2>1, Zenon DEF Bare
  <2>2. CASE ~Bare(j)
    BY <1>3, <2>2, Zenon DEF Recovers
  <2> QED
    BY <2>1, <2>2
<1>7. \A i \in 1..Len(w) : w[i].ok => Agree(w[i].st, r)
  BY <1>2, Zenon DEF Recovers
<1>8. Agree(s, r) /\ (Bare(j) => s = r)
  BY Zenon DEF Recovers
<1> QED
  BY <1>4, <1>5, <1>6, <1>7, <1>8, Zenon DEF Recovers, Complete

\* What a write of the next state leaves, cut off anywhere, recovers the state
\* before it or the state after it.
LEMMA LeftoversRecover ==
  ASSUME NEW s \in State, NEW j \in Seq(Line), NEW p \in State, NEW t \in Tx,
         NEW w \in Leftovers(j, Append(p, t)), Complete(j), Recovers(s, j, p)
  PROVE  /\ Recovers(s, w, p) \/ Recovers(s, w, Append(p, t))
         /\ Bare(w) => Bare(j)
<1> DEFINE x == Append(p, t)
<1>1. x \in State
  BY AppendAgrees
<1>2. Len(j) \in Nat /\ (j # <<>> => Len(j) \in 1..Len(j))
  BY LenProperties, EmptySeq
<1>3. j = <<>> \/ j[Len(j)].nl
  BY <1>2, Zenon DEF Complete
<1>4. ASSUME NEW l \in Line
      PROVE  /\ Written(j, l) \in Seq(Line)
             /\ Len(Written(j, l)) = Len(j) + 1
             /\ Written(j, l)[Len(j) + 1] = l
             /\ \A i \in 1..Len(j) : Written(j, l)[i] = j[i]
  BY <1>3, WrittenAppends
<1> HIDE DEF x
<1>5. /\ Whole(x) \in Line /\ Unterminated(x) \in Line /\ Garbage(FALSE) \in Line
      /\ Whole(x).ok /\ Unterminated(x).ok /\ ~Garbage(FALSE).ok /\ ~Garbage(FALSE).nl
      /\ Whole(x).st = x /\ Unterminated(x).st = x
  BY <1>1, LineTypes DEF Whole, Unterminated, Garbage
<1>6. ASSUME NEW l \in Line, l.ok, l.st = x
      PROVE  Recovers(s, Written(j, l), x) /\ ~Bare(Written(j, l))
  <2> DEFINE v == Written(j, l)
  <2>1. /\ v \in Seq(Line) /\ Len(v) = Len(j) + 1 /\ v[Len(j) + 1].ok
        /\ v[Len(j) + 1].st = Append(p, t) /\ \A i \in 1..Len(j) : v[i] = j[i]
    BY <1>4, <1>6 DEF x
  <2>2. Recovers(s, v, Append(p, t)) /\ ~Bare(v)
    <3> HIDE DEF v
    <3> QED
      BY <2>1, RecoversLine
  <2> QED
    BY <2>2 DEF x
<1>7. /\ Recovers(s, Written(j, Garbage(FALSE)), p)
      /\ Bare(Written(j, Garbage(FALSE))) => Bare(j)
  <2> DEFINE v == Written(j, Garbage(FALSE))
  <2>1. /\ v \in Seq(Line) /\ Len(v) = Len(j) + 1 /\ ~v[Len(j) + 1].ok
        /\ ~v[Len(j) + 1].nl /\ \A i \in 1..Len(j) : v[i] = j[i]
    BY <1>4, <1>5
  <2> HIDE DEF v
  <2>2. Recovers(s, v, p) /\ (Bare(v) => Bare(j))
    BY <2>1, RecoversTorn
  <2> QED
    BY <2>2 DEF v
<1>8. w \in {j, Written(j, Garbage(FALSE)), Written(j, Unterminated(x)), Written(j, Whole(x))}
  BY DEF Leftovers, x
<1>9. CASE w = j
  BY <1>9
<1>10. CASE w = Written(j, Garbage(FALSE))
  BY <1>7, <1>10
<1>11. CASE w = Written(j, Unterminated(x))
  BY <1>5, <1>6, <1>11 DEF x
<1>12. CASE w = Written(j, Whole(x))
  BY <1>5, <1>6, <1>12 DEF x
<1> QED
  BY <1>8, <1>9, <1>10, <1>11, <1>12

----------------------------------------------------------------------------
(* Answers.                                                                *)

\* s and t hold the transactions that were answered at the same places.
Same(s, t, o) ==
  /\ \A i \in 1..Len(s) : o[s[i]] = "ok" => i <= Len(t) /\ t[i] = s[i]
  /\ \A i \in 1..Len(t) : o[t[i]] = "ok" => i <= Len(s) /\ s[i] = t[i]

Answerable == {"ok", "unknown", "running"}

Asked(s, o) == \A i \in 1..Len(s) : o[s[i]] \in Answerable

LEMMA SameReflexive ==
  ASSUME NEW s \in State, NEW o
  PROVE  Same(s, s, o)
BY StateLen DEF Same

LEMMA SameThrough ==
  ASSUME NEW r \in State, NEW s \in State, NEW p \in State, NEW o,
         Same(r, p, o), Same(s, p, o)
  PROVE  Same(r, s, o)
<1>1. Len(r) \in Nat /\ Len(s) \in Nat /\ Len(p) \in Nat
  BY StateLen
<1>2. ASSUME NEW i \in 1..Len(r), o[r[i]] = "ok" PROVE i <= Len(s) /\ s[i] = r[i]
  <2>1. i <= Len(p) /\ p[i] = r[i]
    BY <1>2 DEF Same
  <2>2. i \in 1..Len(p) /\ o[p[i]] = "ok"
    BY <1>1, <1>2, <2>1
  <2> QED
    BY <2>1, <2>2 DEF Same
<1>3. ASSUME NEW i \in 1..Len(s), o[s[i]] = "ok" PROVE i <= Len(r) /\ r[i] = s[i]
  <2>1. i <= Len(p) /\ p[i] = s[i]
    BY <1>3 DEF Same
  <2>2. i \in 1..Len(p) /\ o[p[i]] = "ok"
    BY <1>1, <1>3, <2>1
  <2> QED
    BY <2>1, <2>2 DEF Same
<1> QED
  BY <1>2, <1>3 DEF Same

\* An unanswered transaction more makes no difference.
LEMMA SameAppend ==
  ASSUME NEW p \in State, NEW t \in Tx, NEW o, Asked(p, o),
         o[t] \in Answerable \ {"ok"}
  PROVE  Same(Append(p, t), p, o) /\ Asked(Append(p, t), o)
<1>1. /\ Len(p) \in Nat /\ Len(Append(p, t)) = Len(p) + 1
      /\ \A i \in 1..Len(p) : Append(p, t)[i] = p[i]
      /\ Append(p, t)[Len(p) + 1] = t
  BY StateLen, AppendProperties DEF State
<1> QED
  BY <1>1 DEF Same, Asked

\* What a directory recovers, when it is no matter which of them is found.
Held(v, r, p, o) == Recovers(v.snap, v.journal, r) /\ Same(r, p, o) /\ Asked(r, o)

\* outcome moves to o without answering anyone.
Unanswered(o, oo) ==
  \A t \in Tx : (oo[t] = "ok" <=> o[t] = "ok")
             /\ (o[t] \in Answerable => oo[t] \in Answerable)

LEMMA AnswersMove ==
  ASSUME NEW r \in State, NEW p \in State, NEW o, NEW oo, Unanswered(o, oo)
  PROVE  /\ Same(r, p, o) => Same(r, p, oo)
         /\ Asked(r, o) => Asked(r, oo)
<1>1. \A i \in 1..Len(r) : r[i] \in Tx
  BY ElementOfSeq DEF State
<1>2. \A i \in 1..Len(p) : p[i] \in Tx
  BY ElementOfSeq DEF State
<1> QED
  BY <1>1, <1>2 DEF Same, Asked, Unanswered

----------------------------------------------------------------------------
(* The inductive invariant.                                                *)

Views == {Now} \cup older

ViewsHeld == \A v \in Views : \E r \in State : Held(v, r, promised, outcome)

\* Directories without a line that parses have the snapshot in common.
BareAlike ==
  \A v, w \in Views : Bare(v.journal) /\ Bare(w.journal) => v.snap = w.snap

AnswersKnown ==
  /\ \A i \in 1..Len(promised) : outcome[promised[i]] \in {"ok", "unknown"}
  /\ \A t \in Tx : outcome[t] = "running" => pc \in Updating /\ t = next[Len(next)]

ServingPower ==
  /\ pc \in Up => mem = promised /\ Complete(journal)
  /\ pc \in {"idle", "append"} \cup Compacting => Recovers(snap, journal, promised)
  /\ pc \in Updating => \E t \in Tx : next = Append(promised, t) /\ outcome[t] = "running"
  /\ pc \in {"snapshot", "publish"} =>
       journal # <<>> /\ \A v \in Views : Recovers(v.snap, v.journal, next)
  /\ pc \in Compacting => journal # <<>>
  /\ compactor = "due" => pc \in Up \ Compacting /\ journal # <<>>
  /\ pc = "truncate" => snap = promised /\ \A v \in older : v.journal = journal

LoadingPower ==
  pc = "load" =>
    /\ pos <= Len(journal) + 1 /\ Agree(snap, mem)
    /\ \A i \in 1..pos-1 :
         journal[i].ok /\ journal[i].nl /\ Len(journal[i].st) <= Len(mem)
    /\ \E r \in State : Held(Now, r, promised, outcome) /\ Agree(mem, r)

PowerInv == ViewsHeld /\ BareAlike /\ AnswersKnown /\ ServingPower /\ LoadingPower

LEMMA ViewTypes ==
  ASSUME TypeOK
  PROVE  /\ Now \in Views /\ Now.snap = snap /\ Now.journal = journal
         /\ Views \subseteq View
         /\ \A v \in Views : v.snap \in State /\ v.journal \in Seq(Line)
BY DEF TypeOK, Now, Views, View

\* A journal of complete lines that is not empty has one that parses.
LEMMA CompleteNotBare ==
  ASSUME NEW j \in Seq(Line), Complete(j), j # <<>>
  PROVE  ~Bare(j)
<1>1. Len(j) \in 1..Len(j)
  BY LenProperties, EmptySeq
<1> QED
  BY <1>1, Zenon DEF Complete, Bare

----------------------------------------------------------------------------
(* Steps that leave the directory alone.                                   *)

LEMMA FilesStay ==
  ASSUME TypeOK, ViewsHeld, BareAlike, UNCHANGED <<snap, journal, older, promised>>,
         Unanswered(outcome, outcome')
  PROVE  ViewsHeld' /\ BareAlike' /\ Views' = Views
<1>1. Views' = Views
  BY DEF Views, Now
<1>2. BareAlike'
  BY <1>1, Zenon DEF BareAlike
<1>3. ASSUME NEW v \in Views PROVE \E r \in State : Held(v, r, promised', outcome')
  <2>1. PICK r \in State : Held(v, r, promised, outcome)
    BY Zenon DEF ViewsHeld
  <2>2. Same(r, promised, outcome') /\ Asked(r, outcome')
    BY <2>1, AnswersMove DEF Held, TypeOK
  <2> QED
    BY <2>1, <2>2 DEF Held
<1> QED
  BY <1>1, <1>2, <1>3, Zenon DEF ViewsHeld

LEMMA OutcomeStays ==
  ASSUME UNCHANGED outcome
  PROVE  Unanswered(outcome, outcome')
BY DEF Unanswered

LEMMA BeginKeeps ==
  ASSUME TypeOK, PowerInv, NEW t \in Tx, Decline(t) \/ Begin(t)
  PROVE  PowerInv'
<1>1. /\ pc = "idle" /\ outcome[t] = "none" /\ UNCHANGED <<mem, files, compactor, promised>>
      /\ \E x \in {"declined", "running"} : outcome' = [outcome EXCEPT ![t] = x]
      /\ \/ pc' = "idle" /\ outcome'[t] = "declined"
         \/ pc' = "append" /\ next' = Append(mem, t) /\ outcome'[t] = "running"
  BY DEF Decline, Begin, TypeOK
<1>2. Unanswered(outcome, outcome')
  BY <1>1 DEF Unanswered, Answerable, TypeOK
<1>3. ViewsHeld' /\ BareAlike'
  BY <1>1, <1>2, FilesStay DEF PowerInv, files
<1>4. mem = promised /\ mem \in State /\ Complete(journal) /\ Recovers(snap, journal, promised)
  BY <1>1 DEF PowerInv, ServingPower, Up, TypeOK
<1>5. AnswersKnown'
  <2>1. \A u \in Tx : u # t => outcome'[u] = outcome[u] /\ outcome[u] # "running"
    BY <1>1 DEF PowerInv, AnswersKnown, Updating, TypeOK
  <2>2. \A i \in 1..Len(promised) : promised[i] \in Tx
    BY <1>4, ElementOfSeq DEF State
  <2>3. \A i \in 1..Len(promised) : outcome'[promised[i]] \in {"ok", "unknown"}
    BY <1>1, <2>1, <2>2 DEF PowerInv, AnswersKnown
  <2>4. pc' = "append" => t = next'[Len(next')]
    BY <1>1, <1>4, AppendProperties, StateLen DEF State
  <2> QED
    BY <1>1, <2>1, <2>3, <2>4 DEF AnswersKnown, Updating
<1>6. ServingPower'
  BY <1>1, <1>4 DEF PowerInv, ServingPower, Up, Updating, Compacting, files
<1>7. LoadingPower'
  BY <1>1 DEF LoadingPower
<1> QED
  BY <1>3, <1>5, <1>6, <1>7 DEF PowerInv

----------------------------------------------------------------------------
(* Update's steps.                                                         *)

LEMMA AppendKeeps ==
  ASSUME TypeOK, TypeOK', PowerInv, AppendJournal
  PROVE  PowerInv'
<1>1. /\ pc = "append" /\ pc' = "snapshot" /\ older' = {}
      /\ journal' = Written(journal, Whole(next))
      /\ UNCHANGED <<mem, next, snap, compactor, promised, outcome>>
  BY DEF AppendJournal, history
<1>2. /\ snap \in State /\ promised \in State /\ next \in State
      /\ journal \in Seq(Line) /\ journal' \in Seq(Line)
  BY DEF TypeOK
<1>3. mem = promised /\ Complete(journal) /\ Recovers(snap, journal, promised)
  BY <1>1 DEF PowerInv, ServingPower, Up, Updating
<1>4. PICK t \in Tx : next = Append(promised, t) /\ outcome[t] = "running"
  BY <1>1 DEF PowerInv, ServingPower, Updating
<1>5. Recovers(snap, journal', next) /\ ~Bare(journal')
  <2>1. /\ Len(journal) \in Nat
        /\ journal # <<>> => Len(journal) \in 1..Len(journal)
    BY <1>2, LenProperties, EmptySeq
  <2>2. journal = <<>> \/ journal[Len(journal)].nl
    BY <1>3, <2>1, Zenon DEF Complete
  <2>3. Whole(next) \in Line /\ Whole(next).ok /\ Whole(next).st = next
    BY <1>2, LineTypes DEF Whole
  <2>4. /\ Len(journal') = Len(journal) + 1 /\ journal'[Len(journal) + 1] = Whole(next)
        /\ \A i \in 1..Len(journal) : journal'[i] = journal[i]
    BY <1>1, <1>2, <2>2, <2>3, WrittenAppends
  <2>5. journal'[Len(journal) + 1].ok /\ journal'[Len(journal) + 1].st = Append(promised, t)
    BY <1>4, <2>3, <2>4
  <2>6. Recovers(snap, journal', Append(promised, t)) /\ ~Bare(journal')
    BY <1>2, <1>3, <2>4, <2>5, RecoversLine
  <2> QED
    BY <1>4, <2>6
<1>6. Complete(journal') /\ journal' # <<>>
  <2>1. Complete(journal')
    BY <1>1, <1>2, <1>3, WholeSpoilsNothing DEF Complete
  <2>2. journal' # <<>>
    BY <1>1, <1>2, WrittenEndsLine
  <2> QED
    BY <2>1, <2>2
<1>7. Asked(promised, outcome)
  BY DEF PowerInv, AnswersKnown, Asked, Answerable
<1>8. Same(next, promised, outcome) /\ Asked(next, outcome)
  BY <1>2, <1>4, <1>7, SameAppend DEF Answerable
<1>9. /\ \A v \in Views' : v.snap = snap /\ v.journal = journal'
      /\ \A v, w \in Views' : v.snap = w.snap
  BY <1>1 DEF Views, Now
<1>10. ViewsHeld'
  <2>1. \A v \in Views' : Held(v, next, promised', outcome')
    BY <1>1, <1>5, <1>8, <1>9 DEF Held
  <2> QED
    BY <1>2, <2>1 DEF ViewsHeld
<1>11. BareAlike'
  BY <1>9 DEF BareAlike
<1>12. AnswersKnown'
  BY <1>1 DEF PowerInv, AnswersKnown, Updating
<1>13. ServingPower'
  <2>1. \A v \in Views' : Recovers(v.snap, v.journal, next)
    BY <1>5, <1>9
  <2> QED
    BY <1>1, <1>3, <1>4, <1>6, <2>1 DEF ServingPower, Up, Updating, Compacting
<1>14. LoadingPower'
  BY <1>1 DEF LoadingPower
<1> QED
  BY <1>10, <1>11, <1>12, <1>13, <1>14 DEF PowerInv

LEMMA RenameKeeps ==
  ASSUME TypeOK, TypeOK', PowerInv, RenameSnapshot
  PROVE  PowerInv'
<1>1. /\ pc = "snapshot" /\ pc' = "publish" /\ older' = Undoable({Now}) /\ snap' = next
      /\ UNCHANGED <<mem, next, journal, compactor, promised, outcome>>
  BY DEF RenameSnapshot, history
<1>2. /\ snap \in State /\ promised \in State /\ next \in State /\ journal \in Seq(Line)
  BY DEF TypeOK
<1>3. mem = promised /\ Complete(journal) /\ journal # <<>>
  BY <1>1 DEF PowerInv, ServingPower, Up, Updating
<1>4. PICK t \in Tx : next = Append(promised, t) /\ outcome[t] = "running"
  BY <1>1 DEF PowerInv, ServingPower, Updating
<1>5. Recovers(snap, journal, next)
  BY <1>1, ViewTypes DEF PowerInv, ServingPower
<1>6. Recovers(next, journal, next) /\ ~Bare(journal)
  BY <1>2, <1>3, <1>5, RecoversSnapshot, CompleteNotBare
<1>7. \A v \in Views' : v.journal = journal /\ (v.snap = snap \/ v.snap = next)
  BY <1>1 DEF Views, Now, Undoable
<1>8. \A v \in Views' : Recovers(v.snap, v.journal, next)
  BY <1>5, <1>6, <1>7
<1>9. Asked(promised, outcome)
  BY DEF PowerInv, AnswersKnown, Asked, Answerable
<1>10. Same(next, promised, outcome) /\ Asked(next, outcome)
  BY <1>2, <1>4, <1>9, SameAppend DEF Answerable
<1>11. ViewsHeld'
  <2>1. \A v \in Views' : Held(v, next, promised', outcome')
    BY <1>1, <1>8, <1>10 DEF Held
  <2> QED
    BY <1>2, <2>1 DEF ViewsHeld
<1>12. BareAlike'
  BY <1>6, <1>7 DEF BareAlike
<1>13. AnswersKnown'
  BY <1>1 DEF PowerInv, AnswersKnown, Updating
<1>14. ServingPower'
  BY <1>1, <1>3, <1>4, <1>8 DEF PowerInv, ServingPower, Up, Updating, Compacting
<1>15. LoadingPower'
  BY <1>1 DEF LoadingPower
<1> QED
  BY <1>11, <1>12, <1>13, <1>14, <1>15 DEF PowerInv

LEMMA PublishKeeps ==
  ASSUME TypeOK, TypeOK', PowerInv, Publish
  PROVE  PowerInv' /\ Same(promised, promised', outcome)
<1>1. /\ pc = "publish" /\ pc' = "idle" /\ mem' = next /\ promised' = next
      /\ outcome' = [outcome EXCEPT ![next[Len(next)]] = "ok"]
      /\ UNCHANGED <<snap, journal, older, compactor>>
  BY DEF Publish, Return, files
<1>2. /\ snap \in State /\ promised \in State /\ next \in State /\ journal \in Seq(Line)
  BY DEF TypeOK
<1>3. Complete(journal) /\ journal # <<>>
  BY <1>1 DEF PowerInv, ServingPower, Up, Updating
<1>4. PICK t \in Tx : next = Append(promised, t) /\ outcome[t] = "running"
  BY <1>1 DEF PowerInv, ServingPower, Updating
<1>5. t = next[Len(next)]
  BY <1>4 DEF PowerInv, AnswersKnown
<1>6. /\ outcome'[t] = "ok"
      /\ \A u \in Tx : u # t => outcome'[u] = outcome[u] /\ outcome'[u] # "running"
  BY <1>1, <1>4, <1>5 DEF PowerInv, AnswersKnown, TypeOK
<1>7. /\ \A i \in 1..Len(promised) : promised[i] \in Tx
      /\ Len(promised) \in Nat /\ Len(next) = Len(promised) + 1
      /\ \A i \in 1..Len(promised) : next[i] = promised[i]
  BY <1>2, <1>4, StateLen, ElementOfSeq, AppendProperties DEF State
<1>8. \A i \in 1..Len(next) : outcome'[next[i]] \in {"ok", "unknown"}
  <2>1. SUFFICES ASSUME NEW i \in 1..Len(next)
                 PROVE  outcome'[next[i]] \in {"ok", "unknown"}
    OBVIOUS
  <2>2. CASE i = Len(next)
    BY <1>5, <1>6, <2>2
  <2>3. CASE i # Len(next)
    <3>1. i \in 1..Len(promised)
      BY <1>7, <2>3
    <3>2. next[i] = promised[i] /\ promised[i] \in Tx
          /\ outcome[promised[i]] \in {"ok", "unknown"}
      BY <1>7, <3>1 DEF PowerInv, AnswersKnown
    <3> QED
      BY <1>6, <3>2
  <2> QED
    BY <2>2, <2>3
<1>9. Asked(next, outcome') /\ Same(next, next, outcome')
  BY <1>2, <1>8, SameReflexive DEF Asked, Answerable
<1>10. Views' = Views /\ Now \in Views /\ Now.snap = snap /\ Now.journal = journal
  BY <1>1, ViewTypes DEF Views, Now
<1>11. \A v \in Views : Recovers(v.snap, v.journal, next)
  BY <1>1 DEF PowerInv, ServingPower
<1>12. ViewsHeld'
  <2>1. \A v \in Views' : Held(v, next, promised', outcome')
    BY <1>1, <1>9, <1>10, <1>11 DEF Held
  <2> QED
    BY <1>2, <2>1 DEF ViewsHeld
<1>13. BareAlike'
  BY <1>10, Zenon DEF PowerInv, BareAlike
<1>14. AnswersKnown'
  BY <1>1, <1>6, <1>8 DEF AnswersKnown
<1>15. ServingPower'
  <2>1. Recovers(snap, journal, next)
    BY <1>10, <1>11
  <2> QED
    BY <1>1, <1>3, <2>1 DEF PowerInv, ServingPower, Up, Updating, Compacting
<1>16. LoadingPower'
  BY <1>1 DEF LoadingPower
<1>17. Same(promised, promised', outcome)
  <2>1. Asked(promised, outcome)
    BY DEF PowerInv, AnswersKnown, Asked, Answerable
  <2>2. Same(next, promised, outcome)
    BY <1>2, <1>4, <2>1, SameAppend DEF Answerable
  <2> QED
    BY <1>1, <2>2 DEF Same
<1> QED
  BY <1>12, <1>13, <1>14, <1>15, <1>16, <1>17 DEF PowerInv

----------------------------------------------------------------------------
(* Compaction's steps.                                                     *)

LEMMA InspectKeeps ==
  ASSUME TypeOK, TypeOK', PowerInv, Inspect \/ BeginCompact
  PROVE  PowerInv'
<1>1. /\ pc = "idle" /\ UNCHANGED <<mem, next, snap, journal, older, promised, outcome>>
      /\ \/ pc' = "idle" /\ compactor' = "due" /\ journal # <<>>
         \/ pc' = "compact" /\ compactor = "due" /\ compactor' = "idle"
  BY DEF Inspect, BeginCompact, files, history
<1>2. ViewsHeld' /\ BareAlike'
  BY <1>1, FilesStay, OutcomeStays DEF PowerInv
<1>3. AnswersKnown'
  BY <1>1 DEF PowerInv, AnswersKnown, Updating
<1>4. ServingPower'
  BY <1>1 DEF PowerInv, ServingPower, Up, Updating, Compacting
<1>5. LoadingPower'
  BY <1>1 DEF LoadingPower
<1> QED
  BY <1>2, <1>3, <1>4, <1>5 DEF PowerInv

LEMMA CompactSnapshotKeeps ==
  ASSUME TypeOK, TypeOK', PowerInv, CompactSnapshot
  PROVE  PowerInv'
<1>1. /\ pc = "compact" /\ pc' = "truncate" /\ older' = Undoable({Now}) /\ snap' = mem
      /\ UNCHANGED <<mem, next, journal, compactor, promised, outcome>>
  BY DEF CompactSnapshot, history
<1>2. snap \in State /\ promised \in State /\ journal \in Seq(Line)
  BY DEF TypeOK
<1>3. /\ mem = promised /\ Complete(journal) /\ journal # <<>>
      /\ Recovers(snap, journal, promised)
  BY <1>1 DEF PowerInv, ServingPower, Up, Compacting
<1>4. Recovers(promised, journal, promised) /\ ~Bare(journal)
  BY <1>2, <1>3, RecoversSnapshot, CompleteNotBare
<1>5. \A v \in Views' : v.journal = journal /\ (v.snap = snap \/ v.snap = promised)
  BY <1>1, <1>3 DEF Views, Now, Undoable
<1>6. Same(promised, promised, outcome) /\ Asked(promised, outcome)
  BY <1>2, SameReflexive DEF PowerInv, AnswersKnown, Asked, Answerable
<1>7. ViewsHeld'
  <2>1. \A v \in Views' : Held(v, promised, promised', outcome')
    BY <1>1, <1>3, <1>4, <1>5, <1>6 DEF Held
  <2> QED
    BY <1>2, <2>1 DEF ViewsHeld
<1>8. BareAlike'
  BY <1>4, <1>5 DEF BareAlike
<1>9. AnswersKnown'
  BY <1>1 DEF PowerInv, AnswersKnown, Updating
<1>10. ServingPower'
  <2>1. \A v \in older' : v.journal = journal
    BY <1>5 DEF Views
  <2> QED
    BY <1>1, <1>3, <1>4, <2>1 DEF PowerInv, ServingPower, Up, Updating, Compacting
<1>11. LoadingPower'
  BY <1>1 DEF LoadingPower
<1> QED
  BY <1>7, <1>8, <1>9, <1>10, <1>11 DEF PowerInv

LEMMA CompactJournalKeeps ==
  ASSUME TypeOK, TypeOK', PowerInv, CompactJournal
  PROVE  PowerInv'
<1>1. /\ pc = "truncate" /\ pc' = "idle" /\ older' = OlderOrNow /\ journal' = <<>>
      /\ UNCHANGED <<mem, next, snap, compactor, promised, outcome>>
  BY DEF CompactJournal, history
<1>2. snap \in State /\ promised \in State /\ journal \in Seq(Line)
  BY DEF TypeOK
<1>3. /\ mem = promised /\ Complete(journal) /\ journal # <<>> /\ snap = promised
      /\ \A v \in older : v.journal = journal
      /\ compactor # "due"
  BY <1>1 DEF PowerInv, ServingPower, Up, Compacting
<1>4. ~Bare(journal) /\ Recovers(promised, <<>>, promised) /\ Complete(<<>>)
  <2>1. Complete(<<>>)
    BY EmptySeq DEF Complete
  <2> QED
    BY <1>2, <1>3, <2>1, CompleteNotBare, RecoversEmpty
<1>5. \A v \in Views' :
        (v \in Views /\ v.journal = journal) \/ (v.snap = promised /\ v.journal = <<>>)
  BY <1>1, <1>3, ViewTypes DEF Views, Now, OlderOrNow, Undoable
<1>6. Same(promised, promised, outcome) /\ Asked(promised, outcome)
  BY <1>2, SameReflexive DEF PowerInv, AnswersKnown, Asked, Answerable
<1>7. ViewsHeld'
  <2>1. ASSUME NEW v \in Views' PROVE \E r \in State : Held(v, r, promised', outcome')
    <3>1. CASE v \in Views
      BY <1>1, <3>1 DEF PowerInv, ViewsHeld
    <3>2. CASE v.snap = promised /\ v.journal = <<>>
      <4>1. Held(v, promised, promised', outcome')
        BY <1>1, <1>4, <1>6, <3>2 DEF Held
      <4> QED
        BY <1>2, <4>1
    <3> QED
      BY <1>5, <3>1, <3>2
  <2> QED
    BY <2>1 DEF ViewsHeld
<1>8. BareAlike'
  <2>1. \A v \in Views' : Bare(v.journal) => v.snap = promised
    BY <1>4, <1>5
  <2> QED
    BY <2>1 DEF BareAlike
<1>9. AnswersKnown'
  BY <1>1 DEF PowerInv, AnswersKnown, Updating
<1>10. ServingPower'
  BY <1>1, <1>3, <1>4 DEF ServingPower, Up, Updating, Compacting
<1>11. LoadingPower'
  BY <1>1 DEF LoadingPower
<1> QED
  BY <1>7, <1>8, <1>9, <1>10, <1>11 DEF PowerInv

----------------------------------------------------------------------------
(* Kills and power cuts.                                                   *)

\* v is a directory of now or before, or one with the journal as the write in
\* progress leaves it when it is cut off.
Cut(v) ==
  \E w \in Views :
    /\ v.snap = w.snap
    /\ \/ v.journal = w.journal
       \/ pc = "append" /\ w.journal = journal /\ v.journal \in Leftovers(journal, next)

LEMMA AfterCutIsCut ==
  ASSUME NEW v \in AfterCut
  PROVE  Cut(v)
<1>1. OlderOrNow \subseteq Views
  BY DEF OlderOrNow, Undoable, Views
<1>2. CASE v \in OlderOrNow
  BY <1>1, <1>2, Zenon DEF Cut
<1>3. CASE v \notin OlderOrNow
  <2> DEFINE Kept == {u \in OlderOrNow : u.journal = journal}
  <2>1. /\ pc = "append"
        /\ v \in {[snap |-> u.snap, journal |-> j] : u \in Kept, j \in Leftovers(journal, next)}
    BY <1>3 DEF AfterCut
  <2>2. PICK u \in Kept, j \in Leftovers(journal, next) : v = [snap |-> u.snap, journal |-> j]
    BY <2>1
  <2>3. v.snap = u.snap /\ v.journal = j /\ u \in Views /\ u.journal = journal
    BY <1>1, <2>2
  <2> QED
    BY <2>1, <2>3 DEF Cut
<1> QED
  BY <1>2, <1>3

LEMMA KillCuts ==
  ASSUME Kill
  PROVE  \A v \in Views' : Cut(v)
<1>1. CASE pc # "append"
  <2>1. Views' = Views
    BY <1>1 DEF Kill, Views, Now
  <2> QED
    BY <2>1, Zenon DEF Cut
<1>2. CASE pc = "append"
  <2>1. /\ snap' = snap /\ older' = AfterCut /\ journal' \in Leftovers(journal, next)
    BY <1>2 DEF Kill
  <2>2. Now' \in Views' /\ Now'.snap = snap /\ Now'.journal = journal'
        /\ \A v \in Views' : v = Now' \/ v \in AfterCut
    BY <2>1 DEF Views, Now
  <2>3. Now \in Views /\ Now.snap = snap /\ Now.journal = journal
    BY DEF Views, Now
  <2>4. Cut(Now')
    BY <1>2, <2>1, <2>2, <2>3 DEF Cut
  <2> QED
    BY <2>2, <2>4, AfterCutIsCut, Zenon
<1> QED
  BY <1>1, <1>2

LEMMA PowerCutCuts ==
  ASSUME PowerCut
  PROVE  \A v \in Views' : Cut(v)
<1>1. PICK u \in AfterCut : snap' = u.snap /\ journal' = u.journal
  BY DEF PowerCut
<1>2. Cut(u)
  BY AfterCutIsCut
<1>3. \A v \in Views' : v.snap = u.snap /\ v.journal = u.journal
  BY <1>1 DEF PowerCut, Views, Now
<1> QED
  BY <1>2, <1>3 DEF Cut

LEMMA CrashKeeps ==
  ASSUME TypeOK, TypeOK', PowerInv, Stop, \A v \in Views' : Cut(v)
  PROVE  PowerInv'
<1>1. /\ pc' = "down" /\ compactor' = "idle" /\ promised' = promised
      /\ outcome' = [t \in Tx |-> IF outcome[t] = "running" THEN "unknown" ELSE outcome[t]]
  BY DEF Stop
<1>2. /\ snap \in State /\ promised \in State /\ next \in State /\ journal \in Seq(Line)
      /\ \A v \in Views : v.snap \in State /\ v.journal \in Seq(Line)
      /\ Now \in Views /\ Now.snap = snap /\ Now.journal = journal
  BY ViewTypes DEF TypeOK
<1>3. Unanswered(outcome, outcome') /\ \A t \in Tx : outcome'[t] # "running"
  BY <1>1 DEF Unanswered, Answerable, TypeOK
<1>4. Same(promised, promised, outcome') /\ Asked(promised, outcome')
  <2>1. Asked(promised, outcome)
    BY DEF PowerInv, AnswersKnown, Asked, Answerable
  <2> QED
    BY <1>2, <1>3, <2>1, AnswersMove, SameReflexive
<1>5. ASSUME NEW v \in Views', NEW w \in Views, pc = "append", v.snap = w.snap,
             w.journal = journal, v.journal \in Leftovers(journal, next)
      PROVE  /\ \E r \in State : Held(v, r, promised, outcome')
             /\ Bare(v.journal) => Bare(w.journal)
  <2>1. PICK t \in Tx : next = Append(promised, t) /\ outcome[t] = "running"
    BY <1>5 DEF PowerInv, ServingPower, Updating
  <2>2. Complete(journal) /\ Recovers(snap, journal, promised)
    BY <1>5 DEF PowerInv, ServingPower, Up, Updating
  <2>3. PICK r \in State : Recovers(w.snap, journal, r)
    BY <1>5 DEF PowerInv, ViewsHeld, Held
  <2>4. Bare(journal) => w.snap = snap
    BY <1>2, <1>5, Zenon DEF PowerInv, BareAlike
  <2>5. r = promised
    BY <1>2, <2>2, <2>3, <2>4, RecoversOne
  <2>6. /\ Recovers(w.snap, v.journal, promised) \/ Recovers(w.snap, v.journal, next)
        /\ Bare(v.journal) => Bare(journal)
    BY <1>2, <1>5, <2>1, <2>2, <2>3, <2>5, LeftoversRecover
  <2>7. outcome'[t] = "unknown"
    BY <1>1, <2>1
  <2>8. Same(next, promised, outcome') /\ Asked(next, outcome')
    BY <1>2, <1>4, <2>1, <2>7, SameAppend DEF Answerable
  <2>9. Held(v, promised, promised, outcome') \/ Held(v, next, promised, outcome')
    BY <1>4, <1>5, <2>6, <2>8 DEF Held
  <2> QED
    BY <1>2, <1>5, <2>6, <2>9
<1>6. ASSUME NEW v \in Views', NEW w \in Views, v.snap = w.snap, v.journal = w.journal
      PROVE  \E r \in State : Held(v, r, promised, outcome')
  <2>1. PICK r \in State : Held(w, r, promised, outcome)
    BY DEF PowerInv, ViewsHeld
  <2>2. Same(r, promised, outcome') /\ Asked(r, outcome')
    BY <1>2, <1>3, <2>1, AnswersMove DEF Held
  <2>3. Held(v, r, promised, outcome')
    BY <1>6, <2>1, <2>2 DEF Held
  <2> QED
    BY <2>3
<1>7. ASSUME NEW v \in Views'
      PROVE  /\ \E r \in State : Held(v, r, promised, outcome')
             /\ \E w \in Views : v.snap = w.snap /\ (Bare(v.journal) => Bare(w.journal))
  <2>1. PICK w \in Views :
          /\ v.snap = w.snap
          /\ \/ v.journal = w.journal
             \/ pc = "append" /\ w.journal = journal /\ v.journal \in Leftovers(journal, next)
    BY DEF Cut
  <2>2. CASE v.journal = w.journal
    BY <1>6, <2>1, <2>2
  <2>3. CASE pc = "append" /\ w.journal = journal /\ v.journal \in Leftovers(journal, next)
    BY <1>5, <2>1, <2>3
  <2> QED
    BY <2>1, <2>2, <2>3
<1>8. ViewsHeld'
  BY <1>1, <1>7 DEF ViewsHeld
<1>9. BareAlike'
  <2>1. SUFFICES ASSUME NEW v \in Views', NEW w \in Views', Bare(v.journal), Bare(w.journal)
                 PROVE  v.snap = w.snap
    BY DEF BareAlike
  <2>2. PICK vv \in Views : v.snap = vv.snap /\ Bare(vv.journal)
    BY <1>7, <2>1
  <2>3. PICK ww \in Views : w.snap = ww.snap /\ Bare(ww.journal)
    BY <1>7, <2>1
  <2> QED
    BY <2>2, <2>3 DEF PowerInv, BareAlike
<1>10. AnswersKnown'
  <2>1. \A i \in 1..Len(promised) : promised[i] \in Tx
    BY <1>2, ElementOfSeq DEF State
  <2>2. \A i \in 1..Len(promised) : outcome'[promised[i]] \in {"ok", "unknown"}
    BY <1>1, <2>1 DEF PowerInv, AnswersKnown
  <2> QED
    BY <1>1, <1>3, <2>2 DEF AnswersKnown
<1>11. ServingPower'
  BY <1>1 DEF ServingPower, Up, Updating, Compacting
<1>12. LoadingPower'
  BY <1>1 DEF LoadingPower
<1> QED
  BY <1>8, <1>9, <1>10, <1>11, <1>12 DEF PowerInv

----------------------------------------------------------------------------
(* load().                                                                 *)

LEMMA OpenKeeps ==
  ASSUME TypeOK, TypeOK', PowerInv, Open
  PROVE  PowerInv'
<1>1. /\ pc \in Off /\ pc' = "load" /\ mem' = snap /\ pos' = 1
      /\ UNCHANGED <<next, snap, journal, older, compactor, promised, outcome>>
  BY DEF Open, files, history
<1>2. snap \in State /\ Len(journal) \in Nat /\ Len(snap) \in Nat /\ Agree(snap, snap)
  BY AgreeReflexive, StateLen, LineFacts DEF TypeOK
<1>3. ViewsHeld' /\ BareAlike' /\ Views' = Views
  BY <1>1, FilesStay, OutcomeStays DEF PowerInv
<1>4. AnswersKnown'
  BY <1>1 DEF PowerInv, AnswersKnown, Updating, Off
<1>5. ServingPower'
  BY <1>1 DEF PowerInv, ServingPower, Up, Updating, Compacting, Off
<1>6. LoadingPower'
  <2>1. Now \in Views /\ Now.snap = snap /\ Now' = Now
    BY <1>1 DEF Views, Now
  <2>2. PICK r \in State : Held(Now, r, promised, outcome)
    BY <2>1 DEF PowerInv, ViewsHeld
  <2>3. Agree(snap, r)
    BY <2>1, <2>2 DEF Held, Recovers
  <2> QED
    BY <1>1, <1>2, <2>1, <2>2, <2>3 DEF LoadingPower
<1> QED
  BY <1>3, <1>4, <1>5, <1>6 DEF PowerInv

\* What every step of load() finds.
LEMMA LoadingFacts ==
  ASSUME TypeOK, PowerInv, Loading
  PROVE  /\ pc = "load" /\ pos \in 1..Len(journal) /\ pos <= Len(journal) /\ Len(journal) \in Nat
         /\ \A i \in 1..pos-1 : i \in 1..Len(journal)
         /\ journal[pos].st \in State /\ Len(journal[pos].st) \in Nat
         /\ Len(mem) \in Nat /\ Len(snap) \in Nat
         /\ \/ journal[pos].ok /\ journal[pos].nl
            \/ pos = Len(journal) /\ ~journal[pos].nl
<1>1. /\ mem \in State /\ snap \in State /\ journal \in Seq(Line) /\ pos \in Nat \ {0}
  BY DEF TypeOK
<1>2. /\ Len(journal) \in Nat /\ Len(mem) \in Nat /\ Len(snap) \in Nat
      /\ \A i \in 1..Len(journal) : journal[i].st \in State /\ Len(journal[i].st) \in Nat
  BY <1>1, StateLen, LineFacts
<1>3. pc = "load" /\ pos \in 1..Len(journal)
  BY <1>1, <1>2 DEF Loading
<1>4. PICK r \in State : Held(Now, r, promised, outcome)
  BY <1>3 DEF PowerInv, LoadingPower
<1>5. Now.journal = journal
  BY DEF Now
<1>6. (journal[pos].ok /\ journal[pos].nl) \/ (pos = Len(journal) /\ ~journal[pos].nl)
  BY <1>3, <1>4, <1>5, Zenon DEF Held, Recovers
<1>7. \A i \in 1..pos-1 : i \in 1..Len(journal)
  BY <1>2, <1>3
<1> QED
  BY <1>2, <1>3, <1>6, <1>7

LEMMA LoadLinePowerKeeps ==
  ASSUME TypeOK, TypeOK', PowerInv, LoadLine
  PROVE  PowerInv'
<1>1. /\ pc' = "load" /\ pos' = pos + 1
      /\ UNCHANGED <<next, snap, compactor, promised, outcome>>
  BY DEF LoadLine, Loading, history
<1>2. journal[pos].ok /\ Loading
  BY DEF LoadLine, Current
<1>3. /\ mem' = IF Len(journal[pos].st) > Len(mem) THEN journal[pos].st ELSE mem
  BY DEF LoadLine, Current, Revision
<1>4. \/ journal[pos].nl /\ journal' = journal /\ older' = older
      \/ /\ ~journal[pos].nl /\ older' = {}
         /\ journal' = [journal EXCEPT ![pos] = Whole(journal[pos].st)]
  BY Zenon DEF LoadLine, Current
<1>5. /\ mem \in State /\ snap \in State /\ promised \in State
      /\ journal \in Seq(Line) /\ journal' \in Seq(Line) /\ pos \in Nat \ {0}
  BY DEF TypeOK
<1>6. /\ pc = "load" /\ pos \in 1..Len(journal) /\ pos <= Len(journal) /\ Len(journal) \in Nat
      /\ \A i \in 1..pos-1 : i \in 1..Len(journal)
      /\ journal[pos].st \in State /\ Len(journal[pos].st) \in Nat
      /\ Len(mem) \in Nat /\ Len(snap) \in Nat
  BY <1>2, LoadingFacts
<1>7. PICK r \in State : Held(Now, r, promised, outcome) /\ Agree(mem, r)
  BY <1>6 DEF PowerInv, LoadingPower
<1>8. Recovers(snap, journal, r) /\ Same(r, promised, outcome) /\ Asked(r, outcome)
  BY <1>7 DEF Held, Now
<1>9. Agree(mem', r) /\ Agree(snap, mem') /\ Len(mem') >= Len(mem)
      /\ Len(mem') \in Nat /\ Len(journal[pos].st) <= Len(mem')
  <2>1. Agree(journal[pos].st, r)
    BY <1>2, <1>6, <1>8, Zenon DEF Recovers
  <2>2. Agree(snap, mem)
    BY <1>6 DEF PowerInv, LoadingPower
  <2>3. CASE Len(journal[pos].st) > Len(mem)
    <3>1. Agree(mem, journal[pos].st)
      BY <1>5, <1>6, <1>7, <2>1, <2>3, AgreeLinear
    <3>2. Agree(snap, journal[pos].st)
      BY <1>5, <1>6, <2>2, <3>1, AgreeTransitive
    <3> QED
      BY <1>3, <1>6, <2>1, <2>3, <3>2
  <2>4. CASE ~(Len(journal[pos].st) > Len(mem))
    BY <1>3, <1>6, <1>7, <2>2, <2>4
  <2> QED
    BY <2>3, <2>4
<1>10. /\ \A i \in 1..pos-1 : journal[i].ok /\ journal[i].nl
       /\ \A i \in 1..pos-1 : Len(journal[i].st) <= Len(mem)
  <2>1. \A i \in 1..pos-1 : journal[i].ok /\ journal[i].nl /\ Len(journal[i].st) <= Len(mem)
    BY <1>6 DEF PowerInv, LoadingPower
  <2> QED
    BY <2>1, Zenon
<1>11. /\ Len(journal') = Len(journal)
       /\ \A i \in 1..pos-1 : journal'[i] = journal[i]
       /\ journal'[pos].ok /\ journal'[pos].nl /\ journal'[pos].st = journal[pos].st
       /\ Recovers(snap, journal', r)
       /\ Bare(journal') => Bare(journal)
  <2>1. CASE journal[pos].nl
    <3>1. journal' = journal
      BY <1>4, <2>1, Zenon
    <3> QED
      BY <1>2, <1>8, <2>1, <3>1, Zenon
  <2>2. CASE ~journal[pos].nl
    <3>1. journal' = [journal EXCEPT ![pos] = Whole(journal[pos].st)]
      BY <1>4, <2>2, Zenon
    <3>2. Whole(journal[pos].st) \in Line
      BY <1>6, LineTypes
    <3>3. /\ Len(journal') = Len(journal)
          /\ \A i \in 1..Len(journal) :
               journal'[i] = IF i = pos THEN Whole(journal[pos].st) ELSE journal[i]
      BY <1>5, <1>6, <3>1, <3>2, ExceptSeq
    <3>4. /\ Whole(journal[pos].st).ok /\ Whole(journal[pos].st).nl
          /\ Whole(journal[pos].st).st = journal[pos].st
      BY DEF Whole
    <3>5. journal'[pos] = Whole(journal[pos].st)
      BY <1>6, <3>3
    <3>6. \A i \in 1..pos-1 : journal'[i] = journal[i]
      BY <1>6, <3>3
    <3>7. pos = Len(journal)
      BY <1>2, <2>2, LoadingFacts, Zenon
    <3>8. \A i \in 1..Len(journal) : i \in 1..pos-1 \/ i = pos
      BY <1>6, <3>7
    <3>9. Complete(journal')
      BY <1>10, <3>3, <3>4, <3>5, <3>6, <3>8, Zenon DEF Complete
    <3>10. \A i \in 1..Len(journal) : journal[i].ok /\ journal'[i].st = journal[i].st
      BY <1>2, <1>10, <3>4, <3>5, <3>6, <3>8, Zenon
    <3>11. Recovers(snap, journal', r)
      BY <1>5, <1>8, <3>3, <3>9, <3>10, RecoversNewline
    <3>12. ~Bare(journal')
      BY <1>6, <3>3, <3>4, <3>5, Zenon DEF Bare
    <3> QED
      BY <3>3, <3>4, <3>5, <3>6, <3>11, <3>12, Zenon
  <2> QED
    BY <2>1, <2>2, Zenon
<1>12. /\ Now'.snap = snap /\ Now'.journal = journal'
       /\ \A v \in Views' : v = Now' \/ v \in Views
       /\ Now \in Views /\ Now.snap = snap /\ Now.journal = journal
  <2>1. older' \subseteq older
    BY <1>4
  <2> QED
    BY <1>1, <2>1 DEF Views, Now
<1>13. Held(Now', r, promised, outcome)
  BY <1>8, <1>11, <1>12 DEF Held
<1>14. ViewsHeld'
  <2>1. \A v \in Views' : \E q \in State : Held(v, q, promised, outcome)
    BY <1>7, <1>12, <1>13 DEF PowerInv, ViewsHeld
  <2> QED
    BY <1>1, <2>1 DEF ViewsHeld
<1>15. BareAlike'
  <2>1. \A v \in Views' : \E w \in Views : v.snap = w.snap /\ (Bare(v.journal) => Bare(w.journal))
    BY <1>11, <1>12
  <2> QED
    BY <2>1 DEF PowerInv, BareAlike
<1>16. AnswersKnown'
  BY <1>1, <1>6 DEF PowerInv, AnswersKnown, Updating
<1>17. ServingPower'
  BY <1>1, <1>6 DEF PowerInv, ServingPower, Up, Updating, Compacting
<1>18. LoadingPower'
  <2>1. pos' <= Len(journal') + 1
    BY <1>1, <1>5, <1>6, <1>11
  <2>2. \A i \in 1..pos'-1 : i \in 1..pos-1 \/ i = pos
    BY <1>1, <1>5, <1>6
  <2>3. \A i \in 1..pos'-1 : journal'[i].ok /\ journal'[i].nl
    BY <1>10, <1>11, <2>2, Zenon
  <2>4. \A i \in 1..pos'-1 : Len(journal'[i].st) <= Len(mem')
    <3>1. ASSUME NEW i \in 1..pos-1 PROVE Len(journal'[i].st) <= Len(mem')
      <4>1. journal'[i].st = journal[i].st /\ Len(journal[i].st) <= Len(mem)
        BY <1>10, <1>11, <3>1
      <4>2. Len(journal[i].st) \in Nat
        BY <1>5, <1>6, <3>1, LineFacts
      <4> QED
        BY <1>6, <1>9, <4>1, <4>2
    <3>2. Len(journal'[pos].st) <= Len(mem')
      BY <1>9, <1>11
    <3> QED
      BY <2>2, <3>1, <3>2
  <2>5. \A i \in 1..pos'-1 : journal'[i].ok /\ journal'[i].nl /\ Len(journal'[i].st) <= Len(mem')
    BY <2>3, <2>4, Zenon
  <2> QED
    BY <1>1, <1>7, <1>9, <1>13, <2>1, <2>5 DEF LoadingPower
<1> QED
  BY <1>14, <1>15, <1>16, <1>17, <1>18 DEF PowerInv

LEMMA LoadTailPowerKeeps ==
  ASSUME TypeOK, TypeOK', PowerInv, LoadTail
  PROVE  PowerInv'
<1>1. /\ Loading /\ pc' = "load"
      /\ journal' = SubSeq(journal, 1, pos - 1) /\ older' = OlderOrNow
      /\ UNCHANGED <<mem, next, pos, snap, compactor, promised, outcome>>
  BY DEF LoadTail, Loading, history
<1>2. ~journal[pos].ok /\ ~journal[pos].nl
  BY Zenon DEF LoadTail, Current
<1>3. /\ mem \in State /\ snap \in State /\ promised \in State
      /\ journal \in Seq(Line) /\ journal' \in Seq(Line) /\ pos \in Nat \ {0}
  BY DEF TypeOK
<1>4. /\ pc = "load" /\ pos \in 1..Len(journal) /\ Len(journal) \in Nat
      /\ \A i \in 1..pos-1 : i \in 1..Len(journal)
  BY <1>1, LoadingFacts
<1>5. pos = Len(journal)
  BY <1>1, <1>2, LoadingFacts, Zenon
<1>6. \A i \in 1..pos-1 :
        journal[i].ok /\ journal[i].nl /\ Len(journal[i].st) <= Len(mem)
  BY <1>4 DEF PowerInv, LoadingPower
<1>7. Len(journal') = pos - 1 /\ \A i \in 1..pos-1 : journal'[i] = journal[i]
  <2>1. \A i \in 1..pos-1 : journal[i] \in Line
    BY <1>3, <1>4, ElementOfSeq
  <2>2. pos - 1 \in Int /\ 1 \in Int /\ (pos - 1) - 1 + 1 = pos - 1 /\ pos - 1 >= 0
    BY <1>3
  <2>3. /\ Len(journal') = IF 1 <= pos - 1 THEN (pos - 1) - 1 + 1 ELSE 0
        /\ \A i \in 1..(pos - 1) - 1 + 1 : journal'[i] = journal[1 + i - 1]
    BY <1>1, <2>1, <2>2, SubSeqProperties
  <2> QED
    BY <2>2, <2>3
<1>8. PICK r \in State : Held(Now, r, promised, outcome) /\ Agree(mem, r)
  BY <1>4 DEF PowerInv, LoadingPower
<1>9. Recovers(snap, journal, r) /\ Same(r, promised, outcome) /\ Asked(r, outcome)
  BY <1>8 DEF Held, Now
<1>10. Recovers(snap, journal', r) /\ (Bare(journal') => Bare(journal))
  <2>1. /\ Len(journal) = Len(journal') + 1 /\ ~journal[Len(journal)].ok
    BY <1>2, <1>4, <1>5, <1>7
  <2>2. \A i \in 1..Len(journal') : journal'[i] = journal[i]
    BY <1>7
  <2>3. Complete(journal')
    BY <1>6, <1>7, Zenon DEF Complete
  <2> QED
    BY <1>3, <1>9, <2>1, <2>2, <2>3, RecoversTail
<1>11. /\ Now'.snap = snap /\ Now'.journal = journal'
       /\ \A v \in Views' : v = Now' \/ v \in Views
       /\ Now \in Views /\ Now.snap = snap /\ Now.journal = journal
  <2>1. OlderOrNow \subseteq Views
    BY DEF OlderOrNow, Undoable, Views
  <2> QED
    BY <1>1, <2>1 DEF Views, Now
<1>12. Held(Now', r, promised, outcome)
  BY <1>9, <1>10, <1>11 DEF Held
<1>13. ViewsHeld'
  <2>1. \A v \in Views' : \E q \in State : Held(v, q, promised, outcome)
    BY <1>8, <1>11, <1>12 DEF PowerInv, ViewsHeld
  <2> QED
    BY <1>1, <2>1 DEF ViewsHeld
<1>14. BareAlike'
  <2>1. \A v \in Views' : \E w \in Views : v.snap = w.snap /\ (Bare(v.journal) => Bare(w.journal))
    BY <1>10, <1>11
  <2> QED
    BY <2>1 DEF PowerInv, BareAlike
<1>15. AnswersKnown'
  BY <1>1, <1>4 DEF PowerInv, AnswersKnown, Updating
<1>16. ServingPower'
  BY <1>1, <1>4 DEF PowerInv, ServingPower, Up, Updating, Compacting
<1>17. LoadingPower'
  <2>1. pos' <= Len(journal') + 1
    BY <1>1, <1>3, <1>7
  <2>2. \A i \in 1..pos'-1 :
          journal'[i].ok /\ journal'[i].nl /\ Len(journal'[i].st) <= Len(mem')
    BY <1>1, <1>6, <1>7, Zenon
  <2>3. Agree(snap, mem)
    BY <1>4 DEF PowerInv, LoadingPower
  <2> QED
    BY <1>1, <1>8, <1>12, <2>1, <2>2, <2>3 DEF LoadingPower
<1> QED
  BY <1>13, <1>14, <1>15, <1>16, <1>17 DEF PowerInv

\* Without texts that are not UTF-8 load() finds no reason to refuse.
LEMMA PowerRefusalHasText ==
  ASSUME TypeOK, PowerInv, OnlyBegun, LoadRefused
  PROVE  TextBegun
<1> SUFFICES ASSUME Agrees(Current.st)
             PROVE  FALSE
  BY BadTextBegun DEF LoadRefused
<1>1. Loading
  BY DEF LoadRefused
<1>2. /\ pc = "load" /\ pos \in 1..Len(journal) /\ Len(journal) \in Nat
      /\ \A i \in 1..pos-1 : i \in 1..Len(journal)
      /\ journal[pos].st \in State /\ Len(journal[pos].st) \in Nat
      /\ Len(mem) \in Nat /\ Len(snap) \in Nat
  BY <1>1, LoadingFacts
<1>3. journal[pos].ok
  <2>1. \/ journal[pos].ok /\ journal[pos].nl
        \/ pos = Len(journal) /\ ~journal[pos].nl
    BY <1>1, LoadingFacts, Zenon
  <2> QED
    BY <2>1, Zenon DEF LoadRefused, Current
<1>4. Len(journal[pos].st) > Len(mem) + 1
  BY <1>3 DEF LoadRefused, Current, Revision
<1>5. PICK r \in State : Held(Now, r, promised, outcome)
  BY <1>2 DEF PowerInv, LoadingPower
<1>6. NoJump(snap, journal)
  BY <1>5 DEF Held, Recovers, Now
<1>7. Len(snap) <= Len(mem)
  BY <1>2 DEF PowerInv, LoadingPower, Agree
<1>8. Len(snap) + 1 < Len(journal[pos].st)
  BY <1>2, <1>4, <1>7
<1>9. PICK k \in 1..pos-1 : Len(journal[k].st) + 1 = Len(journal[pos].st)
  BY <1>2, <1>3, <1>6, <1>8, Zenon DEF NoJump
<1>10. Len(journal[k].st) <= Len(mem) /\ Len(journal[k].st) \in Nat
  <2>1. Len(journal[k].st) <= Len(mem)
    BY <1>2 DEF PowerInv, LoadingPower
  <2> QED
    BY <1>2, <2>1, LineFacts DEF TypeOK
<1> QED
  BY <1>2, <1>4, <1>9, <1>10

\* A refusal leaves the directory as it is.
LEMMA RefusedKeeps ==
  ASSUME TypeOK, TypeOK', PowerInv, LoadRefused \/ AuditRefused
  PROVE  PowerInv'
<1>1. /\ pc = "load" /\ pc' = "refused"
      /\ UNCHANGED <<next, snap, journal, older, compactor, promised, outcome>>
  BY RefuseFacts
<1>2. ViewsHeld' /\ BareAlike' /\ Views' = Views
  BY <1>1, FilesStay, OutcomeStays DEF PowerInv
<1>3. AnswersKnown'
  BY <1>1 DEF PowerInv, AnswersKnown, Updating
<1>4. ServingPower'
  BY <1>1 DEF PowerInv, ServingPower, Up, Updating, Compacting
<1>5. LoadingPower'
  BY <1>1 DEF LoadingPower
<1> QED
  BY <1>2, <1>3, <1>4, <1>5 DEF PowerInv

\* When load() is done it has what the directory recovers.
LEMMA LoadDonePowerKeeps ==
  ASSUME TypeOK, TypeOK', PowerInv, LoadDone
  PROVE  PowerInv' /\ Same(promised, promised', outcome)
<1>1. /\ pc = "load" /\ pc' = "idle" /\ pos = Len(journal) + 1 /\ promised' = mem
      /\ UNCHANGED <<mem, next, snap, journal, older, compactor, outcome>>
  BY DEF LoadDone, Loaded, files
<1>2. /\ mem \in State /\ snap \in State /\ promised \in State
      /\ journal \in Seq(Line) /\ Len(journal) \in Nat
  BY LenProperties DEF TypeOK
<1>3. PICK r \in State : Held(Now, r, promised, outcome) /\ Agree(mem, r)
  BY <1>1 DEF PowerInv, LoadingPower
<1>4. Recovers(snap, journal, r) /\ Same(r, promised, outcome) /\ Asked(r, outcome)
  BY <1>3 DEF Held, Now
<1>5. /\ \A i \in 1..Len(journal) : journal[i].ok /\ journal[i].nl
      /\ \A i \in 1..Len(journal) : Len(journal[i].st) <= Len(mem)
  <2>1. pos - 1 = Len(journal)
    BY <1>1, <1>2
  <2>2. \A i \in 1..pos-1 :
          journal[i].ok /\ journal[i].nl /\ Len(journal[i].st) <= Len(mem)
    BY <1>1 DEF PowerInv, LoadingPower
  <2> QED
    BY <2>1, <2>2, Zenon
<1>6. Complete(journal)
  BY <1>5, Zenon DEF Complete
<1>7. mem = r
  <2>1. Len(r) <= Len(mem)
    <3>1. CASE Bare(journal)
      <4>1. snap = r
        BY <1>4, <3>1, Zenon DEF Recovers
      <4> QED
        BY <1>1, <4>1 DEF PowerInv, LoadingPower, Agree
    <3>2. CASE ~Bare(journal)
      <4>1. PICK i \in 1..Len(journal) : journal[i].st = r
        BY <1>4, <3>2, Zenon DEF Recovers
      <4> QED
        BY <1>5, <4>1
    <3> QED
      BY <3>1, <3>2
  <2> QED
    BY <1>2, <1>3, <2>1, AgreeEqual
<1>8. ViewsHeld' /\ BareAlike'
  <2>1. Views' = Views
    BY <1>1 DEF Views, Now
  <2>2. ASSUME NEW v \in Views PROVE \E q \in State : Held(v, q, mem, outcome)
    <3>1. PICK q \in State : Held(v, q, promised, outcome)
      BY DEF PowerInv, ViewsHeld
    <3>2. Same(q, mem, outcome)
      BY <1>2, <1>4, <1>7, <3>1, SameThrough DEF Held
    <3> QED
      BY <3>1, <3>2 DEF Held
  <2>3. BareAlike'
    BY <2>1, Zenon DEF PowerInv, BareAlike
  <2> QED
    BY <1>1, <2>1, <2>2, <2>3 DEF ViewsHeld
<1>9. AnswersKnown'
  <2>1. \A t \in Tx : outcome[t] # "running"
    BY <1>1 DEF PowerInv, AnswersKnown, Updating
  <2>2. \A i \in 1..Len(mem) : mem[i] \in Tx
    BY <1>2, ElementOfSeq DEF State
  <2>3. \A i \in 1..Len(mem) : outcome[mem[i]] \in {"ok", "unknown"}
    BY <1>4, <1>7, <2>1, <2>2 DEF Asked, Answerable
  <2> QED
    BY <1>1, <2>1, <2>3 DEF AnswersKnown
<1>10. ServingPower'
  BY <1>1, <1>4, <1>6, <1>7 DEF PowerInv, ServingPower, Up, Updating, Compacting
<1>11. LoadingPower'
  BY <1>1 DEF LoadingPower
<1>12. Same(promised, promised', outcome)
  BY <1>1, <1>4, <1>7 DEF Same
<1> QED
  BY <1>8, <1>9, <1>10, <1>11, <1>12 DEF PowerInv

----------------------------------------------------------------------------
(* The theorems.                                                           *)

LEMMA StepKeepsPower ==
  ASSUME Faults \subseteq {"power"}, TypeOK, TypeOK', PowerInv, [Next]_vars
  PROVE  PowerInv' /\ Same(promised, promised', outcome)
<1>1. Same(promised, promised, outcome)
  BY SameReflexive DEF TypeOK
<1>2. ASSUME NEW t \in Tx, Decline(t) \/ Begin(t)
      PROVE  PowerInv' /\ promised' = promised
  BY <1>2, BeginKeeps DEF Decline, Begin
<1>3. CASE AppendJournal
  BY <1>1, <1>3, AppendKeeps DEF AppendJournal, history
<1>4. CASE AppendFails \/ SnapshotFails \/ CompactFails \/ LoadFails
  BY <1>4 DEF AppendFails, SnapshotFails, CompactFails, LoadFails
<1>5. CASE RenameSnapshot
  BY <1>1, <1>5, RenameKeeps DEF RenameSnapshot, history
<1>6. CASE Publish
  BY <1>6, PublishKeeps
<1>7. CASE Inspect \/ BeginCompact
  BY <1>1, <1>7, InspectKeeps DEF Inspect, BeginCompact, history
<1>8. CASE CompactSnapshot
  BY <1>1, <1>8, CompactSnapshotKeeps DEF CompactSnapshot, history
<1>9. CASE CompactJournal
  BY <1>1, <1>9, CompactJournalKeeps DEF CompactJournal, history
<1>10. CASE Kill
  <2>1. Stop
    BY <1>10 DEF Kill
  <2> QED
    BY <1>1, <1>10, <2>1, KillCuts, CrashKeeps DEF Stop
<1>11. CASE PowerCut
  <2>1. Stop
    BY <1>11 DEF PowerCut
  <2> QED
    BY <1>1, <1>11, <2>1, PowerCutCuts, CrashKeeps DEF Stop
<1>12. CASE Open
  BY <1>1, <1>12, OpenKeeps DEF Open, history
<1>13. CASE LoadLine
  BY <1>1, <1>13, LoadLinePowerKeeps DEF LoadLine, history
<1>14. CASE LoadTail
  BY <1>1, <1>14, LoadTailPowerKeeps DEF LoadTail, history
<1>15. CASE LoadRefused \/ AuditRefused
  BY <1>1, <1>15, RefusedKeeps, RefuseFacts
<1>16. CASE LoadDone
  BY <1>16, LoadDonePowerKeeps
<1>17. CASE UNCHANGED vars
  <2>1. /\ UNCHANGED <<pc, mem, next, pos, snap, journal, older, compactor, promised, outcome>>
    BY <1>17, Zenon DEF vars, files
  <2>2. ViewsHeld' /\ BareAlike' /\ Views' = Views
    BY <2>1, FilesStay, OutcomeStays DEF PowerInv
  <2>3. AnswersKnown'
    BY <2>1 DEF PowerInv, AnswersKnown
  <2>4. ServingPower'
    BY <2>1, <2>2 DEF PowerInv, ServingPower
  <2>5. LoadingPower'
    <3>1. Now' = Now
      BY <2>1 DEF Now
    <3> QED
      BY <2>1, <3>1 DEF PowerInv, LoadingPower
  <2> QED
    BY <1>1, <2>1, <2>2, <2>3, <2>4, <2>5 DEF PowerInv
<1> QED
  BY <1>1, <1>2, <1>3, <1>4, <1>5, <1>6, <1>7, <1>8, <1>9, <1>10, <1>11, <1>12, <1>13,
     <1>14, <1>15, <1>16, <1>17 DEF Next, Update, Compact, Load

LEMMA PowerInit ==
  ASSUME Init
  PROVE  PowerInv
<1>1. /\ pc = "down" /\ snap = <<>> /\ journal = <<>> /\ older = {} /\ promised = <<>>
      /\ compactor = "idle" /\ outcome = [t \in Tx |-> "none"]
  BY DEF Init
<1>2. <<>> \in State /\ Len(<<>>) = 0 /\ Recovers(<<>>, <<>>, <<>>)
  BY EmptySeq, RecoversEmpty DEF State
<1>3. \A v \in Views : v.snap = <<>> /\ v.journal = <<>>
  BY <1>1 DEF Views, Now
<1>4. ViewsHeld
  <2>1. Same(<<>>, <<>>, outcome) /\ Asked(<<>>, outcome)
    BY <1>2 DEF Same, Asked
  <2>2. \A v \in Views : Held(v, <<>>, promised, outcome)
    BY <1>1, <1>2, <1>3, <2>1 DEF Held
  <2> QED
    BY <1>2, <2>2 DEF ViewsHeld
<1>5. BareAlike
  BY <1>3 DEF BareAlike
<1>6. AnswersKnown
  BY <1>1, <1>2 DEF AnswersKnown
<1>7. ServingPower /\ LoadingPower
  BY <1>1 DEF ServingPower, LoadingPower, Up, Updating, Compacting
<1> QED
  BY <1>4, <1>5, <1>6, <1>7 DEF PowerInv

\* Every directory that a kill or a power cut may leave recovers a state that
\* agrees with what is promised on each transaction whose caller was told that
\* it is done (Update, Compact, load; kills and power cuts, no failing calls).
THEOREM DirectoriesAgree ==
  ASSUME Faults \subseteq {"power"}
  PROVE  Spec => []PowerInv
<1>1. Init => PowerInv
  BY PowerInit
<1>2. TypeOK /\ TypeOK' /\ PowerInv /\ [Next]_vars => PowerInv'
  BY StepKeepsPower
<1> QED
  BY <1>1, <1>2, TypeCorrect, PTL DEF Spec

\* A power cut takes back only transactions whose callers never got an answer,
\* and moves no other.
THEOREM OnlyUnansweredRollsBack ==
  ASSUME Faults \subseteq {"power"}
  PROVE  Spec => RollsBackUnansweredOnly
<1>1. TypeOK /\ TypeOK' /\ PowerInv /\ [Next]_vars =>
        [\A i \in 1..Len(promised) :
           outcome[promised[i]] # "unknown" =>
             i <= Len(promised') /\ promised'[i] = promised[i]]_vars
  <2> SUFFICES ASSUME TypeOK, TypeOK', PowerInv, [Next]_vars,
                      NEW i \in 1..Len(promised), outcome[promised[i]] # "unknown"
               PROVE  i <= Len(promised') /\ promised'[i] = promised[i]
    OBVIOUS
  <2>1. outcome[promised[i]] = "ok"
    BY DEF PowerInv, AnswersKnown
  <2>2. Same(promised, promised', outcome)
    BY StepKeepsPower
  <2> QED
    BY <2>1, <2>2 DEF Same
<1> QED
  BY <1>1, TypeCorrect, DirectoriesAgree, PTL DEF Spec, RollsBackUnansweredOnly

\* A transaction reported as done stays part of the visible state, also when
\* the machine stops right after the answer.
THEOREM OkSurvivesPowerCuts ==
  ASSUME Faults \subseteq {"power"}
  PROVE  Spec => []OkIsStored
<1>1. Init => OkIsStored
  BY DEF Init, OkIsStored
<1>2. TypeOK /\ TypeOK' /\ PowerInv /\ OkIsStored /\ [Next]_vars => OkIsStored'
  <2> SUFFICES ASSUME TypeOK, TypeOK', PowerInv, OkIsStored, [Next]_vars,
                      NEW t \in Tx, outcome'[t] = "ok"
               PROVE  Contains(promised', t)
    BY DEF OkIsStored
  <2>1. /\ promised \in State /\ promised' \in State
        /\ Len(promised) \in Nat /\ Len(promised') \in Nat
    BY StateLen DEF TypeOK
  <2>2. CASE outcome[t] = "ok"
    <3>1. PICK i \in 1..Len(promised) : promised[i] = t
      BY <2>2 DEF OkIsStored, Contains
    <3>2. i <= Len(promised') /\ promised'[i] = t
      BY <2>2, <3>1, StepKeepsPower DEF Same
    <3> QED
      BY <2>1, <3>1, <3>2 DEF Contains
  <2>3. CASE pc = "publish" /\ t = next[Len(next)] /\ promised' = next
    <3>1. PICK u \in Tx : next = Append(promised, u)
      BY <2>3 DEF PowerInv, ServingPower, Updating
    <3>2. Len(next) = Len(promised) + 1
      BY <2>1, <3>1, AppendAgrees
    <3> QED
      BY <2>1, <2>3, <3>2 DEF Contains
  <2> QED
    BY <2>2, <2>3, OkMeansPublished
<1> QED
  BY <1>1, <1>2, TypeCorrect, DirectoriesAgree, PTL DEF Spec

\* Open refuses a directory that a kill or a power cut left only after an Update
\* was given a text that is not UTF-8.
THEOREM ReopensAfterPowerCut ==
  ASSUME Faults \subseteq {"power"}
  PROVE  Spec => []Reopenable
<1>1. Init => Reopenable
  BY DEF Init, Reopenable
<1>2. TypeOK /\ PowerInv /\ OnlyBegun /\ Reopenable /\ [Next]_vars => Reopenable'
  <2> SUFFICES ASSUME TypeOK, PowerInv, OnlyBegun, Reopenable, [Next]_vars, pc' = "refused"
               PROVE  TextBegun'
    BY DEF Reopenable
  <2>1. CASE pc = "refused"
    BY <2>1, TextStays DEF Reopenable
  <2>2. CASE LoadRefused
    BY <2>2, PowerRefusalHasText, TextStays
  <2>3. CASE AuditRefused
    BY <2>3, BadTextBegun, TextStays DEF AuditRefused
  <2> QED
    BY <2>1, <2>2, <2>3, OnlyOpenRefuses
<1> QED
  BY <1>1, <1>2, TypeCorrect, DirectoriesAgree, OnlyBegunIsKept, PTL DEF Spec

=============================================================================
