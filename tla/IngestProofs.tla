---------------------------- MODULE IngestProofs ----------------------------
(***************************************************************************)
(* Theorems about Ingest, for any requests, lots and readings, any number  *)
(* of attempts, failures and restarts.                                     *)
(*                                                                         *)
(* An update that failed may turn up at a restart, so what holds of the    *)
(* state must hold of every state in failed too: the invariant speaks of   *)
(* all the states that Current collects.                                   *)
(***************************************************************************)
EXTENDS Ingest, FiniteSetTheorems, TLAPS

Current == {st} \cup failed

----------------------------------------------------------------------------
(* The invariant.                                                          *)

\* An ID was drawn by the attempt that made the thing, or it is one of the
\* numbers that were given out.
Minted(id, a, next) == id.by = <<a>> \/ (id.by = <<>> /\ id.n < next)

Batches(s, l) == {r.by : r \in {q \in s.readings : q.lot = l.id}}

NoTwins(s) ==
  /\ \A k, l \in s.lots : k.code = l.code \/ k.id = l.id => k = l
  /\ \A r, q \in s.readings : (r.lot = q.lot /\ r.key = q.key) \/ r.id = q.id => r = q
  /\ \A l \in s.lots, r \in s.readings : l.id # r.id

RecordsAre(s) ==
  s.idempotency = {[lot |-> r.lot, key |-> r.key, digest |-> r.content, result |-> r.id]
                     : r \in s.readings}

\* Where a lot and a reading come from.
Rooted(s) ==
  /\ \A l \in s.lots :
       /\ Ask(l.by).kind = "lot" /\ Ask(l.by).code = l.code
       /\ Minted(l.id, l.by, s.nextId)
  /\ \A r \in s.readings :
       /\ Ask(r.by).kind = "readings"
       /\ \E l \in s.lots : l.id = r.lot /\ l.code = Ask(r.by).code
       /\ \E i \in DOMAIN Ask(r.by).batch :
            r.key = Ask(r.by).batch[i].key /\ r.content = Ask(r.by).batch[i].content
       /\ Minted(r.id, r.by, s.nextId)

Counted(s) ==
  \A l \in s.lots :
    /\ IsFiniteSet(Batches(s, l))
    /\ l.version = 1 + Cardinality(Batches(s, l)) + IF l.status = "MONITORING" THEN 0 ELSE 1

Coherent(s) == s \in State /\ NoTwins(s) /\ RecordsAre(s) /\ Rooted(s) /\ Counted(s)

\* What a later state keeps of an earlier one.
Grows(s, t) ==
  /\ s.policy = "PUBLISHED" => t.policy = "PUBLISHED"
  /\ \A l \in s.lots : \E k \in t.lots :
       /\ k.id = l.id /\ k.code = l.code /\ k.by = l.by
       /\ l.status # "MONITORING" => k.status # "MONITORING"
  /\ s.readings \subseteq t.readings

\* The attempts that may have left something: those that were answered with
\* success or with a failure of the store.
Effective == {t.attempt : t \in {u \in told : u.status \in {201, 500}}}
MadeBy(s) == {x.by : x \in s.lots \cup s.readings}

\* What an answer promises, of a state.
Promise(t, s) ==
  LET q == Ask(t.attempt)
  IN t.status = 201 =>
       /\ q.kind = "publish" => s.policy = "PUBLISHED"
       /\ q.kind = "lot" => \E l \in s.lots : l.by = t.attempt /\ l.code = q.code
       /\ q.kind = "close" => \E l \in s.lots : l.code = q.code /\ l.status # "MONITORING"
       /\ q.kind = "readings" =>
            \E l \in s.lots : l.code = q.code /\ \A i \in DOMAIN q.batch :
              \E r \in s.readings : /\ r.lot = l.id /\ r.key = q.batch[i].key
                                    /\ r.content = q.batch[i].content
                                    /\ [key |-> r.key, id |-> r.id] \in t.result

Reason(t, s) ==
  t.status = 409 /\ Ask(t.attempt).kind = "readings" /\ Agreed(t.attempt[1])
    => \E l \in s.lots : l.code = Ask(t.attempt).code /\ l.status # "MONITORING"

IngestInv ==
  /\ TypeOK
  /\ \A t, u \in told : t.attempt = u.attempt => t = u
  /\ \A s \in Current : Coherent(s) /\ Grows(st, s) /\ MadeBy(s) \subseteq Effective
  /\ \A t \in told : Promise(t, st) /\ Reason(t, st)

----------------------------------------------------------------------------
(* IDs.                                                                    *)

\* The first of the numbers in a set, as the loops over a batch find it.
LEMMA LeastOne ==
  ASSUME NEW S \in SUBSET Nat, S # {}
  PROVE  Min(S) \in S
<1>1. PICK x \in S : \A y \in S : ~(<<y, x>> \in OpToRel(<, Nat))
  BY WFMin, NatLessThanWellFounded
<1>2. \A y \in S : y < x => <<y, x>> \in OpToRel(<, Nat)
  BY DEF OpToRel
<1>3. \A y \in S : ~(y < x)
  BY <1>1, <1>2, Zenon
<1>4. \A y \in S : x =< y
  BY <1>3
<1> QED
  BY <1>4, Zenon DEF Min

\* A new ID: of the attempt, or a number not given out before.
Fresh(id, a) == id.by = <<a>> \/ (id.by = <<>> /\ id.n >= st.nextId)

\* The numbers of a draw follow one another.
LEMMA Rank ==
  ASSUME NEW f, IsFiniteSet(f), f \subseteq Nat, NEW i \in f
  PROVE  /\ Cardinality({j \in f : j < i}) \in Nat
         /\ Cardinality({j \in f : j < i}) < Cardinality(f)
         /\ \A k \in f : i < k =>
              Cardinality({j \in f : j < i}) < Cardinality({j \in f : j < k})
<1>1. ASSUME NEW T \in SUBSET f, NEW U \in SUBSET T, U # T
      PROVE  Cardinality(U) \in Nat /\ Cardinality(T) \in Nat /\ Cardinality(U) < Cardinality(T)
  <2>1. IsFiniteSet(T) /\ IsFiniteSet(U)
    BY <1>1, FS_Subset
  <2>2. Cardinality(U) <= Cardinality(T) /\ (Cardinality(T) = Cardinality(U) => T = U)
    BY <2>1, FS_Subset
  <2>3. Cardinality(U) \in Nat /\ Cardinality(T) \in Nat
    BY <2>1, FS_CardinalityType
  <2> QED
    BY <1>1, <2>2, <2>3
<1>2. {j \in f : j < i} \in SUBSET f /\ {j \in f : j < i} # f
  OBVIOUS
<1>3. ASSUME NEW k \in f, i < k
      PROVE  /\ {j \in f : j < k} \in SUBSET f
             /\ {j \in f : j < i} \in SUBSET {j \in f : j < k}
             /\ {j \in f : j < i} # {j \in f : j < k}
  <2>1. i \in {j \in f : j < k} /\ i \notin {j \in f : j < i}
    BY <1>3
  <2>2. \A j \in f : j < i => j < k
    BY <1>3
  <2>3. {j \in f : j < i} \subseteq {j \in f : j < k}
    BY <2>2
  <2> QED
    BY <2>1, <2>3, Zenon
<1> QED
  BY <1>1, <1>2, <1>3

\* What a draw gives: IDs that differ from one another and from every ID that
\* is in the store (NextID).
LEMMA DrawnIDs ==
  ASSUME st.nextId \in Nat, NEW a \in Attempt, NEW n \in Nat, NEW need \in SUBSET (1..n),
         NEW draw \in Draws(need)
  PROVE  /\ draw.next \in Nat /\ draw.next >= st.nextId
         /\ \A i \in need : /\ ID(a, i, draw) \in AnID
                            /\ Minted(ID(a, i, draw), a, draw.next)
                            /\ Fresh(ID(a, i, draw), a)
         /\ \A i, j \in need : ID(a, i, draw) = ID(a, j, draw) => i = j
<1>1. PICK f \in SUBSET need : draw = [fallback |-> f, next |-> st.nextId + Cardinality(f)]
  BY DEF Draws
<1>2. draw.fallback = f /\ draw.next = st.nextId + Cardinality(f)
  BY <1>1
<1>3. IsFiniteSet(f) /\ f \subseteq Nat
  <2>1. f \in SUBSET (1..n) /\ f \subseteq Nat
    OBVIOUS
  <2>2. IsFiniteSet(1..n)
    BY FS_Interval
  <2>3. IsFiniteSet(f)
    BY <2>1, <2>2, FS_Subset, Zenon
  <2> QED
    BY <2>1, <2>3
<1>4. Cardinality(f) \in Nat
  BY <1>3, FS_CardinalityType
<1> DEFINE rank == [i \in f |-> Cardinality({j \in f : j < i})]
<1>5. \A i \in f : /\ rank[i] \in Nat /\ rank[i] < Cardinality(f)
                   /\ \A k \in f : i < k => rank[i] < rank[k]
  BY <1>3, Rank
<1>6. \A i \in f : ID(a, i, draw) = [by |-> <<>>, n |-> st.nextId + rank[i]]
  BY <1>2, Zenon DEF ID, Fallback
<1>7. \A i \in need \ f : ID(a, i, draw) = [by |-> <<a>>, n |-> i]
  BY <1>2 DEF ID, Drawn
<1> HIDE DEF rank
<1>8. draw.next \in Nat /\ draw.next >= st.nextId
  BY <1>2, <1>4
<1>9. ASSUME NEW i \in need
      PROVE  /\ ID(a, i, draw) \in AnID /\ Minted(ID(a, i, draw), a, draw.next)
             /\ Fresh(ID(a, i, draw), a)
  <2>1. CASE i \in f
    <3>1. st.nextId + rank[i] \in Nat /\ st.nextId + rank[i] < draw.next /\ st.nextId + rank[i] >= st.nextId
      BY <1>2, <1>4, <1>5, <2>1
    <3> QED
      BY <1>6, <2>1, <3>1 DEF AnID, Minted, Fresh
  <2>2. CASE i \notin f
    BY <1>7, <2>2 DEF AnID, Minted, Fresh
  <2> QED
    BY <2>1, <2>2
<1>10. ASSUME NEW i \in need, NEW j \in need, ID(a, i, draw) = ID(a, j, draw) PROVE i = j
  <2>1. i \in f <=> j \in f
    <3>1. \A k \in need : k \in f => ID(a, k, draw).by = <<>>
      BY <1>6
    <3>2. \A k \in need : k \notin f => ID(a, k, draw).by = <<a>>
      BY <1>7
    <3>3. <<a>> # <<>>
      OBVIOUS
    <3>4. ID(a, i, draw).by = ID(a, j, draw).by
      BY <1>10
    <3>5. CASE i \in f /\ j \notin f
      <4>1. ID(a, i, draw).by = <<>>
        BY <3>1, <3>5
      <4>2. ID(a, j, draw).by = <<a>>
        BY <3>2, <3>5
      <4> QED
        BY <3>3, <3>4, <4>1, <4>2
    <3>6. CASE i \notin f /\ j \in f
      <4>1. ID(a, i, draw).by = <<a>>
        BY <3>2, <3>6
      <4>2. ID(a, j, draw).by = <<>>
        BY <3>1, <3>6
      <4> QED
        BY <3>3, <3>4, <4>1, <4>2
    <3> QED
      BY <3>5, <3>6
  <2>2. CASE i \in f
    <3>1. st.nextId + rank[i] = st.nextId + rank[j]
      BY <1>6, <1>10, <2>1, <2>2
    <3>2. rank[i] = rank[j]
      BY <1>5, <2>1, <2>2, <3>1
    <3>3. rank[i] \in Nat /\ rank[j] \in Nat /\ ~(i < j) /\ ~(j < i)
      BY <1>5, <2>1, <2>2, <3>2
    <3> QED
      BY <1>3, <2>1, <2>2, <3>3
  <2>3. CASE i \notin f
    BY <1>7, <1>10, <2>1, <2>3
  <2> QED
    BY <2>2, <2>3
<1> QED
  BY <1>8, <1>9, <1>10

\* An ID of an attempt that was handled is never drawn again.
LEMMA NewIDs ==
  ASSUME st.nextId \in Nat, NEW a, NEW b, a # b, NEW old \in AnID, NEW id,
         Minted(old, b, st.nextId), Fresh(id, a)
  PROVE  old # id
<1>1. <<a>> # <<b>> /\ <<a>> # <<>> /\ <<b>> # <<>>
  OBVIOUS
<1>2. SUFFICES ASSUME old = id PROVE FALSE
  OBVIOUS
<1>3. old.by = <<>> /\ old.n < st.nextId /\ old.n >= st.nextId
  BY <1>1, <1>2, Zenon DEF Minted, Fresh
<1>4. old.n \in Nat
  BY DEF AnID
<1> QED
  BY <1>3, <1>4

----------------------------------------------------------------------------
(* The records of the store.                                               *)

LEMMA WithLotIs ==
  ASSUME NEW s \in State, NEW l \in Lot
  PROVE  /\ WithLot(s, l) \in State
         /\ WithLot(s, l).policy = s.policy
         /\ WithLot(s, l).lots = {k \in s.lots : k.id # l.id} \cup {l}
         /\ WithLot(s, l).readings = s.readings
         /\ WithLot(s, l).idempotency = s.idempotency
         /\ WithLot(s, l).nextId = s.nextId
<1>1. {k \in s.lots : k.id # l.id} \cup {l} \in SUBSET Lot
  BY DEF State
<1> QED
  BY <1>1, Zenon DEF WithLot, State

LEMMA StateIs ==
  ASSUME NEW s \in State
  PROVE  /\ s.policy \in {"DRAFT", "PUBLISHED"} /\ s.lots \subseteq Lot
         /\ s.readings \subseteq Reading /\ s.idempotency \subseteq Record /\ s.nextId \in Nat
BY DEF State

\* The lot of a batch or of the end of monitoring, one version later.
LEMMA LotIs ==
  ASSUME NEW l \in Lot, NEW status \in {"MONITORING", "UNDER_REVIEW"}
  PROVE  LET k == [l EXCEPT !.status = status, !.version = @ + 1]
         IN  /\ k \in Lot /\ k.id = l.id /\ k.code = l.code /\ k.by = l.by
             /\ k.status = status /\ k.version = l.version + 1
<1>1. l.version + 1 \in Nat
  BY DEF Lot
<1> QED
  BY <1>1, Zenon DEF Lot

\* A commit and a failure concern the same next state.
LEMMA GrowsReflexive ==
  ASSUME NEW s \in State
  PROVE  Grows(s, s)
BY DEF Grows

\* What an answer promises of a state, it promises of all that grew from it.
LEMMA PromiseKept ==
  ASSUME NEW s, NEW u, Grows(s, u), NEW t
  PROVE  (Promise(t, s) => Promise(t, u)) /\ (Reason(t, s) => Reason(t, u))
<1> USE DEF Grows
<1>1. ASSUME Promise(t, s) PROVE Promise(t, u)
  <2> SUFFICES ASSUME t.status = 201 PROVE Promise(t, u)
    BY DEF Promise
  <2> DEFINE q == Ask(t.attempt)
  <2>1. q.kind = "publish" => u.policy = "PUBLISHED"
    BY <1>1 DEF Promise
  <2>2. q.kind = "lot" => \E l \in u.lots : l.by = t.attempt /\ l.code = q.code
    BY <1>1 DEF Promise
  <2>3. q.kind = "close" => \E l \in u.lots : l.code = q.code /\ l.status # "MONITORING"
    BY <1>1 DEF Promise
  <2>4. ASSUME q.kind = "readings"
        PROVE  \E l \in u.lots : l.code = q.code /\ \A i \in DOMAIN q.batch :
                 \E r \in u.readings : /\ r.lot = l.id /\ r.key = q.batch[i].key
                                       /\ r.content = q.batch[i].content
                                       /\ [key |-> r.key, id |-> r.id] \in t.result
    <3>1. PICK l \in s.lots : l.code = q.code /\ \A i \in DOMAIN q.batch :
                 \E r \in s.readings : /\ r.lot = l.id /\ r.key = q.batch[i].key
                                       /\ r.content = q.batch[i].content
                                       /\ [key |-> r.key, id |-> r.id] \in t.result
      BY <1>1, <2>4 DEF Promise
    <3>2. PICK k \in u.lots : k.id = l.id /\ k.code = l.code
      OBVIOUS
    <3>3. ASSUME NEW i \in DOMAIN q.batch
          PROVE  \E r \in u.readings : /\ r.lot = k.id /\ r.key = q.batch[i].key
                                        /\ r.content = q.batch[i].content
                                        /\ [key |-> r.key, id |-> r.id] \in t.result
      <4>1. PICK r \in s.readings : /\ r.lot = l.id /\ r.key = q.batch[i].key
                                    /\ r.content = q.batch[i].content
                                    /\ [key |-> r.key, id |-> r.id] \in t.result
        BY <3>1
      <4>2. r \in u.readings
        OBVIOUS
      <4> QED
        BY <3>2, <4>1, <4>2
    <3>4. k.code = q.code
      BY <3>1, <3>2
    <3> QED
      BY <3>3, <3>4, Zenon
  <2> QED
    BY <2>1, <2>2, <2>3, <2>4, Zenon DEF Promise
<1>2. ASSUME Reason(t, s) PROVE Reason(t, u)
  BY <1>2 DEF Reason
<1> QED
  BY <1>1, <1>2

Codings == {"OK", "STORE", "NOT_FOUND", "CONFLICT", "INVALID_STATE", "VALIDATION_FAILED"}

LEMMA StatusTypes ==
  /\ \A code \in Codings : HttpStatus(code) \in {201, 404, 409, 422, 500}
  /\ HttpStatus("OK") = 201 /\ HttpStatus("STORE") = 500
BY DEF Codings, HttpStatus

\* One more answer, of an attempt that had none.
LEMMA AnswerAdded ==
  ASSUME IngestInv, NEW a \in Attempt, \A t \in told : t.attempt # a,
         NEW code \in Codings, NEW result \in SUBSET Result, Answer(a, code, result)
  PROVE  /\ told' = told \cup {[attempt |-> a, status |-> HttpStatus(code), result |-> result]}
         /\ told' \subseteq [attempt : Attempt, status : {201, 404, 409, 422, 500},
                             result : SUBSET Result]
         /\ \A t, u \in told' : t.attempt = u.attempt => t = u
         /\ Effective \subseteq Effective'
<1>1. told' = told \cup {[attempt |-> a, status |-> HttpStatus(code), result |-> result]}
  BY DEF Answer
<1>2. [attempt |-> a, status |-> HttpStatus(code), result |-> result]
        \in [attempt : Attempt, status : {201, 404, 409, 422, 500}, result : SUBSET Result]
  BY StatusTypes
<1>3. told \subseteq [attempt : Attempt, status : {201, 404, 409, 422, 500}, result : SUBSET Result]
  BY DEF IngestInv, TypeOK
<1>4. \A t, u \in told : t.attempt = u.attempt => t = u
  BY DEF IngestInv
<1>5. \A t, u \in told' : t.attempt = u.attempt => t = u
  BY <1>1, <1>4
<1>6. Effective \subseteq Effective'
  BY <1>1 DEF Effective
<1> QED
  BY <1>1, <1>2, <1>3, <1>5, <1>6

\* An answer that changes nothing in the store.
LEMMA AnswerKeeps ==
  ASSUME IngestInv, NEW a \in Attempt, \A t \in told : t.attempt # a,
         NEW code \in Codings, NEW result \in SUBSET Result, Answer(a, code, result), Unchanged,
         Promise([attempt |-> a, status |-> HttpStatus(code), result |-> result], st),
         Reason([attempt |-> a, status |-> HttpStatus(code), result |-> result], st)
  PROVE  IngestInv'
<1>1. UNCHANGED <<st, failed, failures, crashes>>
  BY DEF Unchanged
<1>2. /\ told' = told \cup {[attempt |-> a, status |-> HttpStatus(code), result |-> result]}
      /\ told' \subseteq [attempt : Attempt, status : {201, 404, 409, 422, 500},
                          result : SUBSET Result]
      /\ \A t, u \in told' : t.attempt = u.attempt => t = u
      /\ Effective \subseteq Effective'
  BY AnswerAdded
<1>3. TypeOK'
  BY <1>1, <1>2 DEF IngestInv, TypeOK
<1>4. \A s \in Current' : Coherent(s) /\ Grows(st', s) /\ MadeBy(s) \subseteq Effective'
  BY <1>1, <1>2 DEF IngestInv, Current
<1>5. \A t \in told' : Promise(t, st') /\ Reason(t, st')
  BY <1>1, <1>2 DEF IngestInv
<1> QED
  BY <1>2, <1>3, <1>4, <1>5 DEF IngestInv

\* A refusal promises nothing.
LEMMA RefuseKeeps ==
  ASSUME IngestInv, NEW a \in Attempt, \A t \in told : t.attempt # a,
         NEW code \in {"NOT_FOUND", "CONFLICT", "INVALID_STATE", "VALIDATION_FAILED"},
         Refuse(a, code),
         Reason([attempt |-> a, status |-> HttpStatus(code), result |-> {}], st)
  PROVE  IngestInv'
<1>1. code \in Codings /\ HttpStatus(code) # 201 /\ {} \in SUBSET Result
  BY DEF Codings, HttpStatus
<1>2. Promise([attempt |-> a, status |-> HttpStatus(code), result |-> {}], st)
  BY <1>1 DEF Promise
<1> QED
  BY <1>1, <1>2, AnswerKeeps DEF Refuse

\* An update, whether it succeeds or fails: what it leaves, or may leave, is
\* coherent and has grown from the state of the store.
LEMMA UpdateKeeps ==
  ASSUME IngestInv, NEW a \in Attempt, \A t \in told : t.attempt # a,
         NEW next, Coherent(next), Grows(st, next), MadeBy(next) \subseteq Effective \cup {a},
         NEW result \in SUBSET Result,
         Promise([attempt |-> a, status |-> 201, result |-> result], next),
         Update(a, next, result)
  PROVE  IngestInv'
<1>1. next \in State
  BY DEF Coherent
<1>2. ASSUME NEW code \in {"OK", "STORE"}, NEW answer \in SUBSET Result, Answer(a, code, answer)
      PROVE  MadeBy(next) \subseteq Effective'
  <2>1. /\ told' = told \cup {[attempt |-> a, status |-> HttpStatus(code), result |-> answer]}
        /\ Effective \subseteq Effective'
    BY <1>2, AnswerAdded DEF Codings
  <2>2. HttpStatus(code) \in {201, 500}
    BY StatusTypes
  <2> DEFINE new == [attempt |-> a, status |-> HttpStatus(code), result |-> answer]
  <2>3. new \in told' /\ new.status \in {201, 500} /\ new.attempt = a
    BY <2>1, <2>2
  <2> HIDE DEF new
  <2>4. a \in {t.attempt : t \in {u \in told' : u.status \in {201, 500}}}
    BY <2>3
  <2> QED
    BY <2>1, <2>4 DEF Effective
<1>3. CASE Commit(a, next, result)
  <2>1. /\ st' = next /\ failed' = {} /\ Answer(a, "OK", result)
        /\ UNCHANGED <<failures, crashes>>
    BY <1>3 DEF Commit
  <2>2. /\ told' = told \cup {[attempt |-> a, status |-> 201, result |-> result]}
        /\ told' \subseteq [attempt : Attempt, status : {201, 404, 409, 422, 500},
                            result : SUBSET Result]
        /\ \A t, u \in told' : t.attempt = u.attempt => t = u
    BY <2>1, AnswerAdded, StatusTypes DEF Codings
  <2>3. TypeOK'
    BY <1>1, <2>1, <2>2 DEF IngestInv, TypeOK
  <2>4. \A s \in Current' : Coherent(s) /\ Grows(st', s) /\ MadeBy(s) \subseteq Effective'
    BY <1>1, <1>2, <2>1, GrowsReflexive DEF Current
  <2>5. \A t \in told : Promise(t, next) /\ Reason(t, next)
    BY PromiseKept DEF IngestInv
  <2>6. Reason([attempt |-> a, status |-> 201, result |-> result], next)
    BY DEF Reason
  <2>7. \A t \in told' : Promise(t, st') /\ Reason(t, st')
    BY <2>1, <2>2, <2>5, <2>6
  <2> QED
    BY <2>2, <2>3, <2>4, <2>7 DEF IngestInv
<1>4. CASE Fail(a, next)
  <2>1. /\ failures' \in 0..MaxFailures
        /\ failed' \subseteq failed \cup {next} /\ Answer(a, "STORE", {})
        /\ UNCHANGED <<st, crashes>>
    BY <1>4, IngestAssumption DEF Fail, IngestInv, TypeOK
  <2>2. /\ told' = told \cup {[attempt |-> a, status |-> 500, result |-> {}]}
        /\ told' \subseteq [attempt : Attempt, status : {201, 404, 409, 422, 500},
                            result : SUBSET Result]
        /\ \A t, u \in told' : t.attempt = u.attempt => t = u
        /\ Effective \subseteq Effective'
    BY <2>1, AnswerAdded, StatusTypes DEF Codings
  <2>3. TypeOK'
    BY <1>1, <2>1, <2>2 DEF IngestInv, TypeOK
  <2>4. MadeBy(next) \subseteq Effective'
    BY <1>2, <2>1
  <2>5. \A s \in Current' : Coherent(s) /\ Grows(st', s) /\ MadeBy(s) \subseteq Effective'
    BY <2>1, <2>2, <2>4 DEF Current, IngestInv
  <2>6. /\ Reason([attempt |-> a, status |-> 500, result |-> {}], st)
        /\ Promise([attempt |-> a, status |-> 500, result |-> {}], st)
    BY DEF Reason, Promise
  <2>7. \A t \in told' : Promise(t, st') /\ Reason(t, st')
    BY <2>1, <2>2, <2>6 DEF IngestInv
  <2> QED
    BY <2>2, <2>3, <2>5, <2>7 DEF IngestInv
<1> QED
  BY <1>3, <1>4 DEF Update

\* A restart finds the state of the store, or one whose update had failed.
LEMMA RestartKeeps ==
  ASSUME IngestInv, Restart
  PROVE  IngestInv'
<1>1. st' \in Current /\ failed' \subseteq failed /\ told' = told /\ failures' = failures
  BY DEF Restart, Current
<1>2. Coherent(st') /\ Grows(st, st') /\ MadeBy(st') \subseteq Effective
  BY <1>1 DEF IngestInv
<1>3. st' \in State
  BY <1>2 DEF Coherent
<1>4. TypeOK'
  BY <1>1, <1>3, IngestAssumption DEF IngestInv, TypeOK, Restart
<1>5. Effective' = Effective
  BY <1>1 DEF Effective
<1>6. \A s \in Current' : Coherent(s) /\ Grows(st', s) /\ MadeBy(s) \subseteq Effective'
  <2>1. CASE UNCHANGED <<st, failed>>
    BY <1>5, <2>1 DEF IngestInv, Current
  <2>2. CASE failed' = {}
    BY <1>2, <1>3, <1>5, <2>2, GrowsReflexive DEF Current
  <2> QED
    BY <2>1, <2>2 DEF Restart
<1>7. \A t \in told' : Promise(t, st') /\ Reason(t, st')
  BY <1>1, <1>2, PromiseKept DEF IngestInv
<1> QED
  BY <1>1, <1>4, <1>6, <1>7 DEF IngestInv

----------------------------------------------------------------------------
(* Policies and lots.                                                      *)

\* What a handler finds: nothing in the store is of the attempt it handles.
LEMMA Found ==
  ASSUME IngestInv, NEW a \in Attempt, \A t \in told : t.attempt # a
  PROVE  /\ Coherent(st) /\ MadeBy(st) \subseteq Effective
         /\ \A x \in st.lots \cup st.readings : x.by # a
<1>1. Coherent(st) /\ MadeBy(st) \subseteq Effective
  BY DEF IngestInv, Current
<1>2. a \notin Effective
  BY DEF Effective
<1> QED
  BY <1>1, <1>2 DEF MadeBy

LEMMA AskTypes ==
  ASSUME NEW a \in Attempt
  PROVE  /\ a[1] \in Asks /\ Ask(a).kind \in Kinds /\ Ask(a).code \in Codes
         /\ Ask(a).batch \in Seq(Item)
BY IngestAssumption DEF Ask

\* Only a batch of readings can be refused for a conflict of keys.
LEMMA NoReason ==
  ASSUME NEW t, Ask(t.attempt).kind # "readings" \/ t.status # 409, NEW s
  PROVE  Reason(t, s)
BY DEF Reason

LEMMA PublishKeeps ==
  ASSUME IngestInv, NEW a \in Attempt, PublishPolicy(a)
  PROVE  IngestInv'
<1> DEFINE next == [st EXCEPT !.policy = "PUBLISHED"]
<1>1. Ask(a).kind = "publish" /\ \A t \in told : t.attempt # a
  BY DEF PublishPolicy, Handles
<1>2. CASE Refuse(a, "INVALID_STATE")
  <2>1. Reason([attempt |-> a, status |-> HttpStatus("INVALID_STATE"), result |-> {}], st)
    BY <1>1, NoReason
  <2> QED
    BY <1>1, <1>2, <2>1, RefuseKeeps
<1>3. CASE Update(a, next, {})
  <2>1. Coherent(st) /\ MadeBy(st) \subseteq Effective
    BY <1>1, Found
  <2>2. st \in State
    BY <2>1 DEF Coherent
  <2>3. /\ next \in State /\ next.policy = "PUBLISHED" /\ next.lots = st.lots
        /\ next.readings = st.readings /\ next.idempotency = st.idempotency
        /\ next.nextId = st.nextId
    BY <2>2, Zenon DEF State
  <2> HIDE DEF next
  <2>4. Coherent(next)
    <3>1. NoTwins(next) /\ RecordsAre(next) /\ Rooted(next)
      BY <2>1, <2>3 DEF Coherent, NoTwins, RecordsAre, Rooted
    <3>2. \A l : Batches(next, l) = Batches(st, l)
      BY <2>3 DEF Batches
    <3>3. Counted(next)
      BY <2>1, <2>3, <3>2 DEF Coherent, Counted
    <3> QED
      BY <2>3, <3>1, <3>3 DEF Coherent
  <2>5. Grows(st, next) /\ MadeBy(next) = MadeBy(st)
    BY <2>3 DEF Grows, MadeBy
  <2>6. Promise([attempt |-> a, status |-> 201, result |-> {}], next)
    BY <1>1, <2>3 DEF Promise
  <2> QED
    BY <1>1, <1>3, <2>1, <2>4, <2>5, <2>6, UpdateKeeps
<1> QED
  BY <1>2, <1>3 DEF PublishPolicy

\* Minted once is minted for good.
LEMMA MintedLater ==
  ASSUME NEW id \in AnID, NEW a, NEW n \in Nat, NEW m \in Nat, n <= m, Minted(id, a, n)
  PROVE  Minted(id, a, m)
BY DEF Minted, AnID

\* What a drawn ID is not: the ID of a lot or reading in the store.
LEMMA DrawnIsNew ==
  ASSUME Coherent(st), NEW a, \A x \in st.lots \cup st.readings : x.by # a, NEW id, Fresh(id, a)
  PROVE  \A x \in st.lots \cup st.readings : x.id # id
<1>1. st \in State
  BY DEF Coherent
<1>2. \A x \in st.lots \cup st.readings : x.id \in AnID /\ Minted(x.id, x.by, st.nextId)
  BY <1>1 DEF Coherent, Rooted, State, Lot, Reading
<1>3. st.nextId \in Nat
  BY <1>1 DEF State
<1> QED
  BY <1>2, <1>3, NewIDs

LEMMA CreateLotKeeps ==
  ASSUME IngestInv, NEW a \in Attempt, CreateLot(a)
  PROVE  IngestInv'
<1>1. Ask(a).kind = "lot" /\ \A t \in told : t.attempt # a
  BY DEF CreateLot, Handles
<1>2. ASSUME NEW code \in {"INVALID_STATE", "CONFLICT"}, Refuse(a, code) PROVE IngestInv'
  <2>1. Reason([attempt |-> a, status |-> HttpStatus(code), result |-> {}], st)
    BY <1>1, NoReason
  <2> QED
    BY <1>1, <1>2, <2>1, RefuseKeeps
<1>3. ASSUME LotsOf(Ask(a).code) = {}, NEW draw \in Draws({1}), Update(a, Created(a, draw), {})
      PROVE  IngestInv'
  <2>1. /\ Coherent(st) /\ MadeBy(st) \subseteq Effective
        /\ \A x \in st.lots \cup st.readings : x.by # a
    BY <1>1, Found
  <2>2. st \in State
    BY <2>1 DEF Coherent
  <2>3. /\ draw.next \in Nat /\ draw.next >= st.nextId
        /\ ID(a, 1, draw) \in AnID /\ Minted(ID(a, 1, draw), a, draw.next)
        /\ Fresh(ID(a, 1, draw), a)
    <3>1. {1} \in SUBSET (1..1) /\ st.nextId \in Nat
      BY <2>2 DEF State
    <3> QED
      BY <3>1, DrawnIDs
  <2>4. \A x \in st.lots \cup st.readings : x.id # ID(a, 1, draw)
    BY <2>1, <2>3, DrawnIsNew
  <2> DEFINE new == [id |-> ID(a, 1, draw), code |-> Ask(a).code, status |-> "MONITORING",
                     version |-> 1, by |-> a]
             one == [st EXCEPT !.nextId = draw.next]
             next == Created(a, draw)
  <2>5. new \in Lot
    BY <2>3, AskTypes DEF Lot
  <2>6. /\ one \in State /\ one.policy = st.policy /\ one.lots = st.lots
        /\ one.readings = st.readings /\ one.idempotency = st.idempotency
        /\ one.nextId = draw.next
    BY <2>2, <2>3, Zenon DEF State
  <2>7. next = WithLot(one, new)
    BY Zenon DEF Created
  <2>8. /\ new.id = ID(a, 1, draw) /\ new.code = Ask(a).code /\ new.status = "MONITORING"
        /\ new.version = 1 /\ new.by = a
    OBVIOUS
  <2> HIDE DEF new, one, next
  <2>9. /\ next \in State /\ next.policy = st.policy /\ next.lots = st.lots \cup {new}
        /\ next.readings = st.readings /\ next.idempotency = st.idempotency
        /\ next.nextId = draw.next
    <3>1. {k \in one.lots : k.id # new.id} = st.lots
      BY <2>4, <2>6, <2>8
    <3> QED
      BY <2>5, <2>6, <2>7, <3>1, WithLotIs
  <2>10. NoTwins(next)
    <3>1. \A l \in st.lots : l.code # new.code
      BY <1>3, <2>8 DEF LotsOf
    <3> QED
      BY <2>1, <2>4, <2>8, <2>9, <3>1 DEF Coherent, NoTwins
  <2>11. RecordsAre(next)
    BY <2>1, <2>9 DEF Coherent, RecordsAre
  <2>12. Rooted(next)
    <3>1. ASSUME NEW x \in st.lots \cup st.readings PROVE Minted(x.id, x.by, next.nextId)
      <4>1. x.id \in AnID /\ Minted(x.id, x.by, st.nextId) /\ st.nextId \in Nat
        BY <2>1, <2>2 DEF Coherent, Rooted, State, Lot, Reading
      <4> QED
        BY <2>3, <2>9, <4>1, MintedLater
    <3>2. Ask(new.by).kind = "lot" /\ Ask(new.by).code = new.code /\ Minted(new.id, new.by, next.nextId)
      BY <1>1, <2>3, <2>8, <2>9
    <3> QED
      BY <2>1, <2>9, <3>1, <3>2 DEF Coherent, Rooted
  <2>13. Counted(next)
    <3>1. \A r \in st.readings : r.lot # new.id
      BY <2>1, <2>4, <2>8 DEF Coherent, Rooted
    <3>2. Batches(next, new) = {}
      BY <2>9, <3>1 DEF Batches
    <3>3. \A l \in st.lots : Batches(next, l) = Batches(st, l)
      BY <2>9 DEF Batches
    <3> QED
      BY <2>1, <2>8, <2>9, <3>2, <3>3, FS_EmptySet DEF Coherent, Counted
  <2>14. Grows(st, next) /\ MadeBy(next) \subseteq Effective \cup {a}
    BY <2>1, <2>8, <2>9 DEF Grows, MadeBy
  <2>15. Promise([attempt |-> a, status |-> 201, result |-> {}], next)
    BY <1>1, <2>8, <2>9 DEF Promise
  <2>16. Coherent(next)
    BY <2>9, <2>10, <2>11, <2>12, <2>13 DEF Coherent
  <2> QED
    BY <1>1, <1>3, <2>14, <2>15, <2>16, UpdateKeeps DEF next
<1> QED
  BY <1>2, <1>3 DEF CreateLot

\* A lot that is put back under its ID, code and creator, not counting what it
\* counts.
LEMMA Replaced ==
  ASSUME Coherent(st), NEW l \in st.lots, NEW k \in Lot,
         k.id = l.id, k.code = l.code, k.by = l.by,
         l.status # "MONITORING" => k.status # "MONITORING",
         NEW next, next.lots = {x \in st.lots : x.id # k.id} \cup {k}
  PROVE  /\ next.lots = (st.lots \ {l}) \cup {k}
         /\ \A x, y \in next.lots : x.code = y.code \/ x.id = y.id => x = y
         /\ \A x \in next.lots : \E y \in st.lots : y.id = x.id /\ y.code = x.code /\ y.by = x.by
         /\ \A y \in st.lots : \E x \in next.lots :
              /\ x.id = y.id /\ x.code = y.code /\ x.by = y.by
              /\ y.status # "MONITORING" => x.status # "MONITORING"
<1>1. \A x, y \in st.lots : x.code = y.code \/ x.id = y.id => x = y
  BY DEF Coherent, NoTwins
<1>2. next.lots = (st.lots \ {l}) \cup {k}
  BY <1>1
<1> QED
  BY <1>1, <1>2

LEMMA CloseKeeps ==
  ASSUME IngestInv, NEW a \in Attempt, CloseMonitoring(a)
  PROVE  IngestInv'
<1>1. Ask(a).kind = "close" /\ \A t \in told : t.attempt # a
  BY DEF CloseMonitoring, Handles
<1>2. ASSUME NEW code \in {"NOT_FOUND", "INVALID_STATE"}, Refuse(a, code) PROVE IngestInv'
  <2>1. Reason([attempt |-> a, status |-> HttpStatus(code), result |-> {}], st)
    BY <1>1, NoReason
  <2> QED
    BY <1>1, <1>2, <2>1, RefuseKeeps
<1>3. ASSUME NEW l \in LotsOf(Ask(a).code), l.status = "MONITORING",
             Update(a, WithLot(st, [l EXCEPT !.status = "UNDER_REVIEW", !.version = @ + 1]), {})
      PROVE  IngestInv'
  <2>1. Coherent(st) /\ MadeBy(st) \subseteq Effective
    BY <1>1, Found
  <2>2. st \in State
    BY <2>1 DEF Coherent
  <2>3. l \in st.lots /\ l.code = Ask(a).code /\ l \in Lot
    BY <2>2 DEF LotsOf, State
  <2> DEFINE k == [l EXCEPT !.status = "UNDER_REVIEW", !.version = @ + 1]
             next == WithLot(st, k)
  <2>4. /\ k \in Lot /\ k.id = l.id /\ k.code = l.code /\ k.by = l.by
        /\ k.status = "UNDER_REVIEW" /\ k.version = l.version + 1
    BY <2>3, LotIs, Zenon
  <2>5. Update(a, next, {})
    BY <1>3
  <2> HIDE DEF k
  <2>6. /\ next \in State /\ next.policy = st.policy
        /\ next.lots = {x \in st.lots : x.id # k.id} \cup {k}
        /\ next.readings = st.readings /\ next.idempotency = st.idempotency
        /\ next.nextId = st.nextId
    BY <2>2, <2>4, WithLotIs
  <2> HIDE DEF next
  <2>7. /\ next.lots = (st.lots \ {l}) \cup {k}
        /\ \A x, y \in next.lots : x.code = y.code \/ x.id = y.id => x = y
        /\ \A x \in next.lots : \E y \in st.lots : y.id = x.id /\ y.code = x.code /\ y.by = x.by
        /\ \A y \in st.lots : \E x \in next.lots :
             /\ x.id = y.id /\ x.code = y.code /\ x.by = y.by
             /\ y.status # "MONITORING" => x.status # "MONITORING"
    BY <2>1, <2>3, <2>4, <2>6, Replaced
  <2>8. NoTwins(next) /\ RecordsAre(next)
    BY <2>1, <2>6, <2>7 DEF Coherent, NoTwins, RecordsAre
  <2>9. Rooted(next)
    BY <2>1, <2>6, <2>7 DEF Coherent, Rooted
  <2>10. Counted(next)
    <3>1. \A x : Batches(next, x) = Batches(st, x)
      BY <2>6 DEF Batches
    <3>2. Batches(next, k) = Batches(st, l)
      BY <2>4, <2>6 DEF Batches
    <3>3. /\ IsFiniteSet(Batches(st, l)) /\ Cardinality(Batches(st, l)) \in Nat
          /\ l.version = 1 + Cardinality(Batches(st, l)) + 0
      BY <1>3, <2>1, <2>3, FS_CardinalityType DEF Coherent, Counted
    <3>4. k.version = 1 + Cardinality(Batches(next, k)) + 1
      BY <2>4, <3>2, <3>3
    <3> QED
      BY <2>1, <2>4, <2>7, <3>1, <3>2, <3>3, <3>4 DEF Coherent, Counted
  <2>11. Coherent(next)
    BY <2>6, <2>8, <2>9, <2>10 DEF Coherent
  <2>12. Grows(st, next)
    BY <2>6, <2>7 DEF Grows
  <2>13. MadeBy(next) \subseteq Effective \cup {a}
    BY <2>1, <2>6, <2>7 DEF MadeBy
  <2>14. Promise([attempt |-> a, status |-> 201, result |-> {}], next)
    BY <1>1, <2>3, <2>4, <2>6 DEF Promise
  <2> QED
    BY <1>1, <2>5, <2>11, <2>12, <2>13, <2>14, UpdateKeeps
<1> QED
  BY <1>2, <1>3 DEF CloseMonitoring

----------------------------------------------------------------------------
(* Batches of readings.                                                    *)

\* A reading without offence.
LEMMA Inoffensive ==
  ASSUME NEW l, NEW batch, NEW i \in DOMAIN batch
  PROVE  /\ Offence(l, batch, i) \in {"OK", "VALIDATION_FAILED", "CONFLICT"}
         /\ Offence(l, batch, i) = "OK" <=>
              /\ batch[i].content \in Valid
              /\ \A j \in 1..(i-1) : batch[j].key # batch[i].key
              /\ \A r \in Recorded(l, batch[i].key) : r.digest = batch[i].content
         /\ Offence(l, batch, i) = "CONFLICT" =>
              \/ \E j \in 1..(i-1) : batch[j].key = batch[i].key
              \/ \E r \in Recorded(l, batch[i].key) : r.digest # batch[i].content
BY DEF Offence

\* The verdict on a batch is the offence of one of its readings, if any has one.
LEMMA Verdicts ==
  ASSUME NEW l, NEW batch \in Seq(Item)
  PROVE  /\ Verdict(l, batch) \in {"OK", "VALIDATION_FAILED", "INVALID_STATE", "CONFLICT"}
         /\ Verdict(l, batch) = "OK" <=>
              /\ Len(batch) \in 1..MaxBatch /\ l.status = "MONITORING"
              /\ \A i \in DOMAIN batch : Offence(l, batch, i) = "OK"
         /\ Verdict(l, batch) = "INVALID_STATE" => l.status # "MONITORING"
         /\ Verdict(l, batch) = "CONFLICT" =>
              \E i \in DOMAIN batch : Offence(l, batch, i) = "CONFLICT"
<1> DEFINE bad == {i \in DOMAIN batch : Offence(l, batch, i) # "OK"}
<1>1. bad \in SUBSET Nat
  OBVIOUS
<1>2. bad # {} => Min(bad) \in bad
  BY <1>1, LeastOne
<1>3. Verdict(l, batch) =
        IF Len(batch) \notin 1..MaxBatch THEN "VALIDATION_FAILED"
        ELSE IF l.status # "MONITORING" THEN "INVALID_STATE"
        ELSE IF bad = {} THEN "OK" ELSE Offence(l, batch, Min(bad))
  BY DEF Verdict
<1>4. bad = {} <=> \A i \in DOMAIN batch : Offence(l, batch, i) = "OK"
  OBVIOUS
<1>5. CASE bad = {}
  BY <1>3, <1>4, <1>5
<1>6. CASE bad # {}
  <2>1. /\ Min(bad) \in DOMAIN batch /\ Offence(l, batch, Min(bad)) # "OK"
        /\ Offence(l, batch, Min(bad)) \in {"OK", "VALIDATION_FAILED", "CONFLICT"}
    BY <1>2, <1>6, Inoffensive
  <2> HIDE DEF bad
  <2> QED
    BY <1>3, <1>4, <1>6, <2>1
<1> QED
  BY <1>5, <1>6

\* In an accepted batch the keys differ, and what is known of them agrees.
LEMMA AcceptedBatch ==
  ASSUME NEW l, NEW batch \in Seq(Item), Verdict(l, batch) = "OK"
  PROVE  /\ l.status = "MONITORING"
         /\ \A i \in DOMAIN batch : /\ batch[i].content \in Valid /\ batch[i].key \in Keys
                                    /\ \A r \in Recorded(l, batch[i].key) :
                                         r.digest = batch[i].content
         /\ \A i, j \in DOMAIN batch : batch[i].key = batch[j].key => i = j
<1>1. /\ l.status = "MONITORING" /\ \A i \in DOMAIN batch : Offence(l, batch, i) = "OK"
  BY Verdicts
<1>2. \A i \in DOMAIN batch : batch[i].key \in Keys
  <2>1. \A i \in DOMAIN batch : batch[i] \in Item
    OBVIOUS
  <2> QED
    BY <2>1 DEF Item
<1>3. ASSUME NEW i \in DOMAIN batch, NEW j \in DOMAIN batch, batch[i].key = batch[j].key
      PROVE  ~(i < j)
  <2>1. i < j => i \in 1..(j-1)
    OBVIOUS
  <2> QED
    BY <1>1, <1>3, <2>1, Inoffensive
<1>4. ASSUME NEW i \in DOMAIN batch, NEW j \in DOMAIN batch, batch[i].key = batch[j].key
      PROVE  i = j
  <2>1. ~(i < j) /\ ~(j < i)
    BY <1>3, <1>4
  <2> QED
    BY <2>1
<1> QED
  BY <1>1, <1>2, <1>4, Inoffensive

\* A key is recorded when, and as, there is a reading of it.
LEMMA RecordedReadings ==
  ASSUME NEW s, s = st, RecordsAre(s), NEW l, NEW key
  PROVE  Recorded(l, key) =
           {[lot |-> r.lot, key |-> r.key, digest |-> r.content, result |-> r.id]
              : r \in {q \in s.readings : q.lot = l.id /\ q.key = key}}
BY DEF Recorded, RecordsAre

\* What an accepted batch brings, and how what it brings is told.
Added(a, l, batch, draw) ==
  {[lot |-> l.id, id |-> ID(a, i, draw), key |-> batch[i].key,
    content |-> batch[i].content, by |-> a] : i \in New(l, batch)}

LEMMA ResultsAnswer ==
  ASSUME IngestInv, NEW a \in Attempt, \A t \in told : t.attempt # a,
         NEW l \in st.lots, NEW batch \in Seq(Item), Verdict(l, batch) = "OK",
         NEW draw \in Draws(New(l, batch))
  PROVE  /\ Results(a, l, batch, draw) \in SUBSET Result
         /\ \A i \in DOMAIN batch : \E r \in st.readings \cup Added(a, l, batch, draw) :
              /\ r.lot = l.id /\ r.key = batch[i].key /\ r.content = batch[i].content
              /\ [key |-> r.key, id |-> r.id] \in Results(a, l, batch, draw)
<1>1. Coherent(st) /\ st \in State /\ RecordsAre(st) /\ st.nextId \in Nat
  BY Found DEF Coherent, State
<1>2. New(l, batch) \in SUBSET (1..Len(batch)) /\ Len(batch) \in Nat
  BY DEF New
<1>3. \A i \in New(l, batch) : ID(a, i, draw) \in AnID
  BY <1>1, <1>2, DrawnIDs
<1>4. \A i \in DOMAIN batch : batch[i].key \in Keys
                              /\ \A r \in Recorded(l, batch[i].key) : r.digest = batch[i].content
  BY AcceptedBatch
<1>5. \A i \in DOMAIN batch : \A r \in Recorded(l, batch[i].key) : r \in Record
  BY <1>1 DEF Recorded, State
<1>6. Results(a, l, batch, draw) \in SUBSET Result
  <2>1. \A i \in New(l, batch) : [key |-> batch[i].key, id |-> ID(a, i, draw)] \in Result
    BY <1>3, <1>4 DEF New, Result
  <2>2. \A i \in DOMAIN batch : \A r \in Recorded(l, batch[i].key) :
          [key |-> r.key, id |-> r.result] \in Result
    BY <1>5 DEF Record, Result
  <2> QED
    BY <2>1, <2>2 DEF Results
<1>7. ASSUME NEW i \in DOMAIN batch
      PROVE  \E r \in st.readings \cup Added(a, l, batch, draw) :
               /\ r.lot = l.id /\ r.key = batch[i].key /\ r.content = batch[i].content
               /\ [key |-> r.key, id |-> r.id] \in Results(a, l, batch, draw)
  <2>1. CASE i \in New(l, batch)
    <3> DEFINE r == [lot |-> l.id, id |-> ID(a, i, draw), key |-> batch[i].key,
                     content |-> batch[i].content, by |-> a]
    <3>1. r \in Added(a, l, batch, draw)
      BY <2>1 DEF Added
    <3>2. [key |-> batch[i].key, id |-> ID(a, i, draw)] \in Results(a, l, batch, draw)
      BY <2>1 DEF Results
    <3>3. /\ r.lot = l.id /\ r.key = batch[i].key /\ r.content = batch[i].content
          /\ r.id = ID(a, i, draw)
      OBVIOUS
    <3> HIDE DEF r
    <3> QED
      BY <3>1, <3>2, <3>3
  <2>2. CASE i \notin New(l, batch)
    <3>1. PICK d \in Recorded(l, batch[i].key) : TRUE
      BY <2>2 DEF New
    <3>2. PICK r \in st.readings :
            /\ r.lot = l.id /\ r.key = batch[i].key
            /\ d = [lot |-> r.lot, key |-> r.key, digest |-> r.content, result |-> r.id]
      BY <1>1, <3>1, RecordedReadings
    <3>3. d.digest = r.content /\ d.key = r.key /\ d.result = r.id /\ d.digest = batch[i].content
      BY <1>4, <3>1, <3>2
    <3>4. [key |-> d.key, id |-> d.result] \in Results(a, l, batch, draw)
      BY <3>1 DEF Results
    <3> QED
      BY <3>2, <3>3, <3>4
  <2> QED
    BY <2>1, <2>2
<1> QED
  BY <1>6, <1>7

\* The state that an accepted batch with a new reading leaves.
LEMMA BatchCoherent ==
  ASSUME IngestInv, NEW a \in Attempt, \A t \in told : t.attempt # a, Ask(a).kind = "readings",
         NEW l \in st.lots, l.code = Ask(a).code, Verdict(l, Ask(a).batch) = "OK",
         New(l, Ask(a).batch) # {}, NEW draw \in Draws(New(l, Ask(a).batch)),
         NEW next, next = WithReadings(a, l, Ask(a).batch, draw)
  PROVE  /\ Coherent(next) /\ Grows(st, next) /\ MadeBy(next) \subseteq Effective \cup {a}
         /\ next.readings = st.readings \cup Added(a, l, Ask(a).batch, draw)
         /\ \E k \in next.lots : k.id = l.id /\ k.code = l.code
<1> DEFINE batch == Ask(a).batch
           new == New(l, batch)
           added == Added(a, l, batch, draw)
           k == [l EXCEPT !.version = @ + 1]
           records == {[lot |-> l.id, key |-> batch[i].key, digest |-> batch[i].content,
                        result |-> ID(a, i, draw)] : i \in new}
<1>1. /\ Coherent(st) /\ MadeBy(st) \subseteq Effective
      /\ \A x \in st.lots \cup st.readings : x.by # a
  BY Found
<1>2. st \in State /\ NoTwins(st) /\ RecordsAre(st) /\ Rooted(st) /\ Counted(st)
  BY <1>1 DEF Coherent
<1>3. batch \in Seq(Item) /\ l \in Lot /\ st.nextId \in Nat
  BY <1>2, AskTypes DEF State
<1>4. new \in SUBSET (1..Len(batch)) /\ Len(batch) \in Nat /\ new \subseteq DOMAIN batch
  BY <1>3 DEF New
<1>5. /\ draw.next \in Nat /\ draw.next >= st.nextId
      /\ \A i \in new : /\ ID(a, i, draw) \in AnID
                        /\ Minted(ID(a, i, draw), a, draw.next)
                        /\ Fresh(ID(a, i, draw), a)
      /\ \A i, j \in new : ID(a, i, draw) = ID(a, j, draw) => i = j
  <2>1. draw \in Draws(new)
    OBVIOUS
  <2> HIDE DEF new
  <2> QED
    BY <1>3, <1>4, <2>1, DrawnIDs
<1>6. \A x \in st.lots \cup st.readings, i \in new : x.id # ID(a, i, draw)
  BY <1>1, <1>5, DrawnIsNew
<1>7. /\ l.status = "MONITORING"
      /\ \A i \in DOMAIN batch : batch[i].content \in Valid /\ batch[i].key \in Keys
      /\ \A i, j \in DOMAIN batch : batch[i].key = batch[j].key => i = j
  BY <1>3, AcceptedBatch
<1>8. \A r \in st.readings, i \in new : ~(r.lot = l.id /\ r.key = batch[i].key)
  <2>1. ASSUME NEW r \in st.readings, NEW i \in new, r.lot = l.id, r.key = batch[i].key
        PROVE  Recorded(l, batch[i].key) # {}
    <3> DEFINE key == batch[i].key
    <3>1. r \in {q \in st.readings : q.lot = l.id /\ q.key = key}
      BY <2>1
    <3> HIDE DEF key
    <3>2. Recorded(l, key) =
            {[lot |-> s.lot, key |-> s.key, digest |-> s.content, result |-> s.id]
               : s \in {q \in st.readings : q.lot = l.id /\ q.key = key}}
      BY <1>2, RecordedReadings
    <3>3. Recorded(l, key) # {}
      BY <3>1, <3>2, Zenon
    <3> QED
      BY <3>3 DEF key
  <2> QED
    BY <2>1 DEF New
<1>9. /\ k \in Lot /\ k.id = l.id /\ k.code = l.code /\ k.by = l.by
      /\ k.status = l.status /\ k.version = l.version + 1
  <2>1. l.version + 1 \in Nat
    BY <1>3 DEF Lot
  <2> QED
    BY <1>3, <2>1, Zenon DEF Lot
<1>10. added \subseteq Reading /\ records \subseteq Record
  <2>1. l.id \in AnID
    BY <1>3 DEF Lot
  <2>2. \A i \in new : /\ batch[i].content \in Valid /\ batch[i].key \in Keys
                       /\ ID(a, i, draw) \in AnID
    BY <1>4, <1>5, <1>7
  <2>3. added \subseteq Reading
    BY <2>1, <2>2 DEF Added, Reading
  <2>4. records \subseteq Record
    BY <2>1, <2>2 DEF Record
  <2> QED
    BY <2>3, <2>4
<1>11. next = [WithLot(st, k) EXCEPT !.readings = @ \cup added, !.idempotency = @ \cup records,
                                     !.nextId = draw.next]
  BY Zenon DEF WithReadings, Added
<1>12. \A r \in added : \E i \in new :
         /\ r.lot = l.id /\ r.id = ID(a, i, draw) /\ r.key = batch[i].key
         /\ r.content = batch[i].content /\ r.by = a
  BY DEF Added
<1>13. \E r \in added : r.lot = l.id
  <2>1. PICK i \in new : TRUE
    OBVIOUS
  <2> DEFINE r == [lot |-> l.id, id |-> ID(a, i, draw), key |-> batch[i].key,
                   content |-> batch[i].content, by |-> a]
  <2>2. r \in added /\ r.lot = l.id
    BY DEF Added
  <2> HIDE DEF r
  <2> QED
    BY <2>2
<1>14. records = {[lot |-> r.lot, key |-> r.key, digest |-> r.content, result |-> r.id]
                    : r \in added}
  <2>1. ASSUME NEW i \in new
        PROVE  LET r == [lot |-> l.id, id |-> ID(a, i, draw), key |-> batch[i].key,
                         content |-> batch[i].content, by |-> a]
               IN  /\ r \in added
                   /\ [lot |-> r.lot, key |-> r.key, digest |-> r.content, result |-> r.id]
                        = [lot |-> l.id, key |-> batch[i].key, digest |-> batch[i].content,
                           result |-> ID(a, i, draw)]
    BY DEF Added
  <2>2. ASSUME NEW r \in added
        PROVE  [lot |-> r.lot, key |-> r.key, digest |-> r.content, result |-> r.id] \in records
    <3>1. PICK i \in new :
            /\ r.lot = l.id /\ r.id = ID(a, i, draw) /\ r.key = batch[i].key
            /\ r.content = batch[i].content /\ r.by = a
      BY <1>12
    <3> QED
      BY <3>1
  <2> HIDE DEF added
  <2>3. ASSUME NEW d \in records
        PROVE  d \in {[lot |-> r.lot, key |-> r.key, digest |-> r.content, result |-> r.id]
                        : r \in added}
    <3>1. PICK i \in new : d = [lot |-> l.id, key |-> batch[i].key,
                                digest |-> batch[i].content, result |-> ID(a, i, draw)]
      OBVIOUS
    <3> QED
      BY <2>1, <3>1, Zenon
  <2> HIDE DEF records
  <2> QED
    BY <2>2, <2>3
<1> HIDE DEF k, records, added, new
<1>15. /\ next \in State /\ next.policy = st.policy
       /\ next.lots = {x \in st.lots : x.id # k.id} \cup {k}
       /\ next.readings = st.readings \cup added
       /\ next.idempotency = st.idempotency \cup records /\ next.nextId = draw.next
  <2>1. /\ WithLot(st, k) \in State /\ WithLot(st, k).policy = st.policy
        /\ WithLot(st, k).lots = {x \in st.lots : x.id # k.id} \cup {k}
        /\ WithLot(st, k).readings = st.readings
        /\ WithLot(st, k).idempotency = st.idempotency
    BY <1>2, <1>9, WithLotIs
  <2> DEFINE one == WithLot(st, k)
  <2> HIDE DEF one
  <2>2. /\ next \in State /\ next.policy = one.policy /\ next.lots = one.lots
        /\ next.readings = one.readings \cup added
        /\ next.idempotency = one.idempotency \cup records /\ next.nextId = draw.next
    <3>1. one \in State
      BY <2>1 DEF one
    <3>2. next = [one EXCEPT !.readings = @ \cup added, !.idempotency = @ \cup records,
                             !.nextId = draw.next]
      BY <1>11, Zenon DEF one
    <3>3. one.readings \cup added \in SUBSET Reading /\ one.idempotency \cup records \in SUBSET Record
      BY <1>10, <3>1 DEF State
    <3> QED
      BY <1>5, <3>1, <3>2, <3>3, Zenon DEF State
  <2> QED
    BY <2>1, <2>2 DEF one
<1>16. /\ next.lots = (st.lots \ {l}) \cup {k}
       /\ \A x, y \in next.lots : x.code = y.code \/ x.id = y.id => x = y
       /\ \A x \in next.lots : \E y \in st.lots : y.id = x.id /\ y.code = x.code /\ y.by = x.by
       /\ \A y \in st.lots : \E x \in next.lots :
            /\ x.id = y.id /\ x.code = y.code /\ x.by = y.by
            /\ y.status # "MONITORING" => x.status # "MONITORING"
  BY <1>1, <1>9, <1>15, Replaced
<1>17. NoTwins(next)
  <2>1. \A r, q \in st.readings : (r.lot = q.lot /\ r.key = q.key) \/ r.id = q.id => r = q
    BY <1>2 DEF NoTwins
  <2>2. ASSUME NEW r \in added, NEW q \in added, (r.lot = q.lot /\ r.key = q.key) \/ r.id = q.id
        PROVE  r = q
    <3>1. PICK i \in new : r = [lot |-> l.id, id |-> ID(a, i, draw), key |-> batch[i].key,
                                content |-> batch[i].content, by |-> a]
      BY DEF added, new, Added
    <3>2. PICK j \in new : q = [lot |-> l.id, id |-> ID(a, j, draw), key |-> batch[j].key,
                                content |-> batch[j].content, by |-> a]
      BY DEF added, new, Added
    <3>3. r.key = batch[i].key /\ q.key = batch[j].key /\ r.id = ID(a, i, draw) /\ q.id = ID(a, j, draw)
      BY <3>1, <3>2
    <3>4. i = j
      BY <1>4, <1>5, <1>7, <2>2, <3>3
    <3> QED
      BY <3>1, <3>2, <3>4, Zenon
  <2>3. \A r \in added, q \in st.readings : ~(r.lot = q.lot /\ r.key = q.key) /\ r.id # q.id
    BY <1>6, <1>8, <1>12
  <2>4. \A x \in st.lots, r \in st.readings \cup added : x.id # r.id
    BY <1>2, <1>6, <1>12 DEF NoTwins
  <2>5. \A x \in next.lots, r \in next.readings : x.id # r.id
    BY <1>15, <1>16, <2>4
  <2>6. \A r, q \in next.readings : (r.lot = q.lot /\ r.key = q.key) \/ r.id = q.id => r = q
    BY <1>15, <2>1, <2>2, <2>3
  <2> QED
    BY <1>16, <2>5, <2>6 DEF NoTwins
<1>18. RecordsAre(next)
  BY <1>2, <1>14, <1>15 DEF RecordsAre
<1>19. Rooted(next)
  <2>1. ASSUME NEW x \in st.lots \cup st.readings PROVE Minted(x.id, x.by, next.nextId)
    <3>1. x.id \in AnID /\ Minted(x.id, x.by, st.nextId) /\ st.nextId \in Nat
      BY <1>2 DEF Rooted, State, Lot, Reading
    <3> QED
      BY <1>5, <1>15, <3>1, MintedLater
  <2>2. \A x \in next.lots : /\ Ask(x.by).kind = "lot" /\ Ask(x.by).code = x.code
                             /\ Minted(x.id, x.by, next.nextId)
    BY <1>2, <1>16, <2>1 DEF Rooted
  <2>3. ASSUME NEW r \in st.readings
        PROVE  /\ Ask(r.by).kind = "readings" /\ Minted(r.id, r.by, next.nextId)
               /\ \E x \in next.lots : x.id = r.lot /\ x.code = Ask(r.by).code
               /\ \E i \in DOMAIN Ask(r.by).batch :
                    r.key = Ask(r.by).batch[i].key /\ r.content = Ask(r.by).batch[i].content
    BY <1>2, <1>16, <2>1 DEF Rooted
  <2>4. ASSUME NEW r \in added
        PROVE  /\ Ask(r.by).kind = "readings" /\ Minted(r.id, r.by, next.nextId)
               /\ \E x \in next.lots : x.id = r.lot /\ x.code = Ask(r.by).code
               /\ \E i \in DOMAIN Ask(r.by).batch :
                    r.key = Ask(r.by).batch[i].key /\ r.content = Ask(r.by).batch[i].content
    <3>1. PICK i \in new : /\ r.lot = l.id /\ r.id = ID(a, i, draw) /\ r.key = batch[i].key
                           /\ r.content = batch[i].content /\ r.by = a
      BY <1>12
    <3>2. i \in DOMAIN batch /\ Minted(ID(a, i, draw), a, next.nextId)
      BY <1>4, <1>5, <1>15
    <3>3. k \in next.lots /\ k.id = l.id /\ k.code = Ask(a).code
      BY <1>9, <1>15
    <3> QED
      BY <3>1, <3>2, <3>3
  <2> QED
    BY <1>15, <2>2, <2>3, <2>4 DEF Rooted
<1>20. Counted(next)
  <2>1. ASSUME NEW x \in st.lots \ {l} PROVE Batches(next, x) = Batches(st, x)
    <3>1. x.id # l.id
      BY <1>2, <2>1 DEF NoTwins
    <3>2. {q \in next.readings : q.lot = x.id} = {q \in st.readings : q.lot = x.id}
      BY <1>12, <1>15, <3>1
    <3> QED
      BY <3>2 DEF Batches
  <2>2. Batches(next, k) = Batches(st, l) \cup {a}
    <3>1. {q \in next.readings : q.lot = k.id} = {q \in st.readings : q.lot = l.id} \cup added
      BY <1>9, <1>12, <1>15
    <3>2. {r.by : r \in added} = {a}
      BY <1>12, <1>13
    <3> QED
      BY <3>1, <3>2 DEF Batches
  <2>3. a \notin Batches(st, l)
    BY <1>1 DEF Batches
  <2>4. /\ IsFiniteSet(Batches(st, l)) /\ Cardinality(Batches(st, l)) \in Nat
        /\ l.version = 1 + Cardinality(Batches(st, l)) + 0
    BY <1>2, <1>7, FS_CardinalityType DEF Counted
  <2>5. /\ IsFiniteSet(Batches(next, k))
        /\ Cardinality(Batches(next, k)) = Cardinality(Batches(st, l)) + 1
    BY <2>2, <2>3, <2>4, FS_AddElement
  <2>6. k.version = 1 + Cardinality(Batches(next, k)) + 0
    BY <1>9, <2>4, <2>5
  <2> QED
    BY <1>2, <1>7, <1>9, <1>16, <2>1, <2>5, <2>6 DEF Counted
<1>21. Grows(st, next)
  BY <1>15, <1>16 DEF Grows
<1>22. MadeBy(next) \subseteq Effective \cup {a}
  <2>1. \A x \in st.lots \cup st.readings : x.by \in Effective
    BY <1>1 DEF MadeBy
  <2>2. \A x \in next.lots \cup next.readings : x.by \in Effective \cup {a}
    BY <1>12, <1>15, <1>16, <2>1
  <2> QED
    BY <2>2 DEF MadeBy
<1>23. Coherent(next)
  BY <1>15, <1>17, <1>18, <1>19, <1>20 DEF Coherent
<1>24. next.readings = st.readings \cup Added(a, l, Ask(a).batch, draw)
  BY <1>15 DEF added
<1> QED
  BY <1>9, <1>15, <1>21, <1>22, <1>23, <1>24

LEMMA AcceptKeeps ==
  ASSUME IngestInv, NEW a \in Attempt, \A t \in told : t.attempt # a, Ask(a).kind = "readings",
         NEW l \in st.lots, l.code = Ask(a).code, Accept(a, l, Ask(a).batch)
  PROVE  IngestInv'
<1> DEFINE batch == Ask(a).batch
<1>1. batch \in Seq(Item) /\ Verdict(l, batch) = "OK"
  BY AskTypes DEF Accept
<1>2. PICK draw \in Draws(New(l, batch)) :
        \/ /\ New(l, batch) # {}
           /\ Update(a, WithReadings(a, l, batch, draw), Results(a, l, batch, draw))
        \/ /\ New(l, batch) = {}
           /\ Answer(a, "OK", Results(a, l, batch, draw)) /\ Unchanged
  BY DEF Accept
<1> DEFINE results == Results(a, l, batch, draw)
<1>3. /\ results \in SUBSET Result
      /\ \A i \in DOMAIN batch : \E r \in st.readings \cup Added(a, l, batch, draw) :
           /\ r.lot = l.id /\ r.key = batch[i].key /\ r.content = batch[i].content
           /\ [key |-> r.key, id |-> r.id] \in results
  BY <1>1, ResultsAnswer
<1> HIDE DEF results
<1>4. ASSUME NEW s, s.readings = st.readings \cup Added(a, l, batch, draw),
             NEW k \in s.lots, k.id = l.id, k.code = l.code
      PROVE  Promise([attempt |-> a, status |-> 201, result |-> results], s)
  <2>1. \A i \in DOMAIN batch : \E r \in s.readings :
          /\ r.lot = k.id /\ r.key = batch[i].key /\ r.content = batch[i].content
          /\ [key |-> r.key, id |-> r.id] \in results
    BY <1>3, <1>4
  <2>2. k.code = Ask(a).code
    BY <1>4
  <2> DEFINE t == [attempt |-> a, status |-> 201, result |-> results]
  <2>3. t.attempt = a /\ t.result = results
    OBVIOUS
  <2> HIDE DEF t
  <2>4. Promise(t, s)
    BY <2>1, <2>2, <2>3 DEF Promise
  <2> QED
    BY <2>4 DEF t
<1>5. CASE /\ New(l, batch) # {}
           /\ Update(a, WithReadings(a, l, batch, draw), Results(a, l, batch, draw))
  <2> DEFINE next == WithReadings(a, l, batch, draw)
  <2>1. /\ Coherent(next) /\ Grows(st, next) /\ MadeBy(next) \subseteq Effective \cup {a}
        /\ next.readings = st.readings \cup Added(a, l, batch, draw)
        /\ \E k \in next.lots : k.id = l.id /\ k.code = l.code
    <3>1. /\ New(l, batch) # {} /\ draw \in Draws(New(l, batch)) /\ Verdict(l, batch) = "OK"
          /\ next = WithReadings(a, l, batch, draw)
      BY <1>1, <1>5
    <3> HIDE DEF next
    <3> QED
      BY <3>1, BatchCoherent
  <2>2. Update(a, next, results)
    BY <1>5 DEF results
  <2> HIDE DEF next
  <2>3. Promise([attempt |-> a, status |-> 201, result |-> results], next)
    BY <1>4, <2>1
  <2> QED
    BY <1>3, <2>1, <2>2, <2>3, UpdateKeeps
<1>6. CASE New(l, batch) = {} /\ Answer(a, "OK", Results(a, l, batch, draw)) /\ Unchanged
  <2>1. Added(a, l, batch, draw) = {}
    BY <1>6 DEF Added
  <2>2. Promise([attempt |-> a, status |-> 201, result |-> results], st)
    BY <1>4, <2>1
  <2>3. Reason([attempt |-> a, status |-> 201, result |-> results], st)
    BY DEF Reason
  <2>4. Answer(a, "OK", results)
    BY <1>6 DEF results
  <2> QED
    BY <1>3, <1>6, <2>2, <2>3, <2>4, StatusTypes, AnswerKeeps DEF Codings
<1> QED
  BY <1>2, <1>5, <1>6

\* A batch whose keys mean the same to all is never in conflict with a key.
LEMMA AgreedHasNoConflict ==
  ASSUME IngestInv, NEW a \in Attempt, Ask(a).kind = "readings", Agreed(a[1]),
         NEW l \in st.lots, l.code = Ask(a).code,
         NEW i \in DOMAIN Ask(a).batch
  PROVE  Offence(l, Ask(a).batch, i) # "CONFLICT"
<1> DEFINE q == a[1]
           batch == Ask(a).batch
<1>1. q \in Asks /\ batch = What[q].batch /\ batch \in Seq(Item)
  BY AskTypes DEF Ask
<1>2. \A j \in 1..(i-1) : batch[j].key # batch[i].key
  <2>1. \A j \in 1..(i-1) : j \in DOMAIN batch /\ j # i
    BY <1>1
  <2> QED
    BY <1>1, <2>1 DEF Agreed
<1>3. ASSUME NEW d \in Recorded(l, batch[i].key) PROVE d.digest = batch[i].content
  <2>1. Coherent(st)
    BY DEF IngestInv, Current
  <2>2. PICK r \in st.readings :
          /\ r.lot = l.id /\ r.key = batch[i].key
          /\ d = [lot |-> r.lot, key |-> r.key, digest |-> r.content, result |-> r.id]
    BY <1>3, <2>1, RecordedReadings DEF Coherent
  <2>3. /\ \E k \in st.lots : k.id = r.lot /\ k.code = Ask(r.by).code
        /\ \E j \in DOMAIN Ask(r.by).batch :
             r.key = Ask(r.by).batch[j].key /\ r.content = Ask(r.by).batch[j].content
        /\ r.by \in Attempt
    BY <2>1 DEF Coherent, Rooted, State, Reading
  <2> DEFINE p == r.by[1]
  <2>4. p \in Asks /\ Ask(r.by) = What[p]
    BY <2>3, AskTypes DEF Ask
  <2>5. What[p].code = What[q].code
    <3>1. l.code = Ask(r.by).code
      BY <2>1, <2>2, <2>3 DEF Coherent, NoTwins
    <3> QED
      BY <2>4, <3>1 DEF Ask
  <2>6. PICK j \in DOMAIN What[p].batch :
          r.key = What[p].batch[j].key /\ r.content = What[p].batch[j].content
    BY <2>3, <2>4
  <2>7. r.content = batch[i].content
    <3>1. What[p].batch[j].key = What[q].batch[i].key /\ i \in DOMAIN What[q].batch
      BY <1>1, <2>2, <2>6
    <3>2. What[p].batch[j].content = What[q].batch[i].content
      BY <2>4, <2>5, <2>6, <3>1, Zenon DEF Agreed
    <3> QED
      BY <1>1, <2>6, <3>2
  <2> QED
    BY <2>2, <2>7
<1> QED
  BY <1>2, <1>3, Inoffensive

LEMMA AddReadingsKeeps ==
  ASSUME IngestInv, NEW a \in Attempt, AddReadings(a)
  PROVE  IngestInv'
<1>1. Ask(a).kind = "readings" /\ \A t \in told : t.attempt # a
  BY DEF AddReadings, Handles
<1>2. CASE Refuse(a, "NOT_FOUND")
  <2>1. HttpStatus("NOT_FOUND") # 409
    BY DEF HttpStatus
  <2>2. Reason([attempt |-> a, status |-> HttpStatus("NOT_FOUND"), result |-> {}], st)
    BY <2>1, NoReason
  <2> QED
    BY <1>1, <1>2, <2>2, RefuseKeeps
<1>3. ASSUME NEW l \in LotsOf(Ask(a).code), Verdict(l, Ask(a).batch) # "OK",
             Refuse(a, Verdict(l, Ask(a).batch))
      PROVE  IngestInv'
  <2> DEFINE code == Verdict(l, Ask(a).batch)
             t == [attempt |-> a, status |-> HttpStatus(code), result |-> {}]
  <2>1. l \in st.lots /\ l.code = Ask(a).code /\ Ask(a).batch \in Seq(Item)
    BY AskTypes DEF LotsOf
  <2>2. code \in {"NOT_FOUND", "CONFLICT", "INVALID_STATE", "VALIDATION_FAILED"}
    BY <1>3, <2>1, Verdicts
  <2>3. code = "INVALID_STATE" => l.status # "MONITORING"
    BY <2>1, Verdicts
  <2>4. code = "CONFLICT" => \E i \in DOMAIN Ask(a).batch : Offence(l, Ask(a).batch, i) = "CONFLICT"
    BY <2>1, Verdicts
  <2> HIDE DEF code
  <2>5. HttpStatus(code) = 409 => code \in {"CONFLICT", "INVALID_STATE"}
    BY <2>2 DEF HttpStatus
  <2>6. t.attempt = a /\ t.status = HttpStatus(code)
    OBVIOUS
  <2> HIDE DEF t
  <2>7. Reason(t, st)
    BY <1>1, <2>1, <2>3, <2>4, <2>5, <2>6, AgreedHasNoConflict DEF Reason
  <2> QED
    BY <1>1, <1>3, <2>2, <2>7, RefuseKeeps DEF code, t
<1>4. ASSUME NEW l \in LotsOf(Ask(a).code), Accept(a, l, Ask(a).batch) PROVE IngestInv'
  BY <1>1, <1>4, AcceptKeeps DEF LotsOf
<1> QED
  BY <1>2, <1>3, <1>4 DEF AddReadings

----------------------------------------------------------------------------
(* Theorems.                                                               *)

LEMMA IngestInvariant == Spec => []IngestInv
<1>1. ASSUME Init PROVE IngestInv
  <2>1. /\ st.policy = "DRAFT" /\ st.lots = {} /\ st.readings = {} /\ st.idempotency = {}
        /\ st.nextId = 1 /\ failed = {} /\ told = {} /\ failures = 0 /\ crashes = 0
    BY <1>1 DEF Init
  <2>2. st \in State
    BY <1>1 DEF Init, State
  <2>3. TypeOK
    BY <2>1, <2>2, IngestAssumption DEF TypeOK
  <2>4. NoTwins(st) /\ RecordsAre(st) /\ Rooted(st) /\ Counted(st)
    BY <2>1 DEF NoTwins, RecordsAre, Rooted, Counted
  <2>5. MadeBy(st) \subseteq Effective
    BY <2>1 DEF MadeBy
  <2>6. \A s \in Current : s = st
    BY <2>1 DEF Current
  <2> QED
    BY <2>1, <2>2, <2>3, <2>4, <2>5, <2>6, GrowsReflexive DEF IngestInv, Coherent
<1>2. ASSUME IngestInv, [Next]_vars PROVE IngestInv'
  <2>1. CASE UNCHANGED vars
    BY <1>2, <2>1 DEF vars, IngestInv, TypeOK, Current, Effective
  <2> QED
    BY <1>2, <2>1, PublishKeeps, CreateLotKeeps, CloseKeeps, AddReadingsKeeps, RestartKeeps
       DEF Next
<1> QED
  BY <1>1, <1>2, PTL DEF Spec

\* Every handler, failure and restart keeps the types of the store (service.go).
THEOREM IngestTypes == Spec => []TypeOK
<1>1. IngestInv => TypeOK
  BY DEF IngestInv
<1> QED
  BY <1>1, IngestInvariant, PTL

\* No repeat, delay, failure or restart makes a lot, a reading or an ID twice
\* (CreateLot, AddReadings, NextID).
THEOREM NothingIsMadeTwice == Spec => []NothingTwice
<1>1. IngestInv => NothingTwice
  BY DEF IngestInv, Current, Coherent, NoTwins, RecordsAre, NothingTwice
<1> QED
  BY <1>1, IngestInvariant, PTL

\* An answer of success stays true of the store, whatever update fails after it
\* and is found at a restart (Update, AddReadings).
THEOREM AnswersAlwaysStand == Spec => []AnswersStand
<1>1. IngestInv => AnswersStand
  BY DEF IngestInv, Promise, AnswersStand
<1> QED
  BY <1>1, IngestInvariant, PTL

\* What was refused never happened and never turns up: only attempts that were
\* answered with success or with 500 have left anything (writeError).
THEOREM RefusalsAreFinal == Spec => []RefusedNeverHappened
<1>1. ASSUME IngestInv PROVE RefusedNeverHappened
  <2>1. MadeBy(st) \subseteq Effective /\ \A t, u \in told : t.attempt = u.attempt => t = u
    BY <1>1 DEF IngestInv, Current
  <2>2. \A t \in told : t.status \in {404, 409, 422} => t.attempt \notin Effective
    BY <2>1 DEF Effective
  <2>3. \A x \in st.lots \cup st.readings : x.by \in Effective
    BY <2>1 DEF MadeBy
  <2> QED
    BY <2>2, <2>3 DEF RefusedNeverHappened
<1> QED
  BY <1>1, IngestInvariant, PTL

\* A repeat of a clean batch is never told of a conflict of keys; 409 then says
\* that monitoring has ended (AddReadings).
THEOREM ConflictsAreTrue == Spec => []NoFalseConflict
<1>1. IngestInv => NoFalseConflict
  BY DEF IngestInv, Reason, NoFalseConflict, LotsOf
<1> QED
  BY <1>1, IngestInvariant, PTL

\* The loop of ValidateReadings and that of AddReadings come to the same
\* verdict, and to the same numbers.
THEOREM DryRunAlwaysPredicts == Spec => []DryRunPredicts
<1>1. ASSUME NEW q \in Asks, NEW l
      PROVE  LET batch == What[q].batch  dry == DryRun(l, batch)
             IN  /\ dry.ok <=> Verdict(l, batch) = "OK"
                 /\ dry.ok => dry.new = Cardinality(New(l, batch)) /\ dry.new + dry.duplicates = Len(batch)
  <2> DEFINE batch == What[q].batch
             known == {i \in DOMAIN batch : \E r \in st.idempotency : r.lot = l.id /\ r.key = batch[i].key}
             accepted == /\ Len(batch) \in 1..MaxBatch /\ l.status = "MONITORING"
                         /\ \A i \in DOMAIN batch :
                              /\ batch[i].content \in Valid
                              /\ \A j \in 1..(i-1) : batch[j].key # batch[i].key
                              /\ \A r \in st.idempotency :
                                   r.lot = l.id /\ r.key = batch[i].key => r.digest = batch[i].content
  <2>1. batch \in Seq(Item)
    BY IngestAssumption
  <2>2. DryRun(l, batch) =
          IF accepted
            THEN [ok |-> TRUE, new |-> Len(batch) - Cardinality(known),
                  duplicates |-> Cardinality(known)]
            ELSE [ok |-> FALSE, new |-> 0, duplicates |-> 0]
    BY Zenon DEF DryRun, Quantify
  <2>3. Verdict(l, batch) = "OK" <=> accepted
    <3>1. \A i \in DOMAIN batch : Offence(l, batch, i) = "OK" <=>
            /\ batch[i].content \in Valid
            /\ \A j \in 1..(i-1) : batch[j].key # batch[i].key
            /\ \A r \in Recorded(l, batch[i].key) : r.digest = batch[i].content
      BY Inoffensive
    <3>2. \A i \in DOMAIN batch :
            (\A r \in Recorded(l, batch[i].key) : r.digest = batch[i].content) <=>
            \A r \in st.idempotency :
              r.lot = l.id /\ r.key = batch[i].key => r.digest = batch[i].content
      BY DEF Recorded
    <3>3. Verdict(l, batch) = "OK" <=>
            /\ Len(batch) \in 1..MaxBatch /\ l.status = "MONITORING"
            /\ \A i \in DOMAIN batch : Offence(l, batch, i) = "OK"
      BY <2>1, Verdicts
    <3> HIDE DEF batch
    <3> QED
      BY <3>1, <3>2, <3>3, Zenon
  <2>4. /\ Cardinality(New(l, batch)) = Len(batch) - Cardinality(known)
        /\ Cardinality(known) \in Nat /\ Len(batch) \in Nat
    <3>1. /\ IsFiniteSet(1..Len(batch)) /\ Cardinality(1..Len(batch)) = Len(batch)
          /\ Len(batch) \in Nat /\ DOMAIN batch = 1..Len(batch)
      BY <2>1, FS_Interval
    <3>2. New(l, batch) = (1..Len(batch)) \ known
      BY <3>1 DEF New, Recorded
    <3>3. known \in SUBSET (1..Len(batch))
      BY <3>1
    <3> HIDE DEF known
    <3>4. /\ IsFiniteSet(known) /\ Cardinality(known) \in Nat
      BY <3>1, <3>3, FS_Subset, FS_CardinalityType
    <3>5. (1..Len(batch)) \cap known = known
      BY <3>3
    <3>6. Cardinality((1..Len(batch)) \ known)
            = Cardinality(1..Len(batch)) - Cardinality((1..Len(batch)) \cap known)
      BY <3>1, FS_Difference
    <3>7. Cardinality((1..Len(batch)) \ known) = Len(batch) - Cardinality(known)
      BY <3>1, <3>5, <3>6
    <3> QED
      BY <3>1, <3>2, <3>4, <3>7
  <2> HIDE DEF accepted, known, batch
  <2>5. CASE accepted
    <3>0. DryRun(l, batch) = [ok |-> TRUE, new |-> Len(batch) - Cardinality(known),
                              duplicates |-> Cardinality(known)]
      BY <2>2, <2>5, Zenon
    <3>1. /\ DryRun(l, batch).ok = TRUE /\ DryRun(l, batch).new = Len(batch) - Cardinality(known)
          /\ DryRun(l, batch).duplicates = Cardinality(known)
      BY <3>0
    <3>2. /\ DryRun(l, batch).new = Cardinality(New(l, batch))
          /\ DryRun(l, batch).new + DryRun(l, batch).duplicates = Len(batch)
      BY <2>4, <3>1
    <3> QED
      BY <2>3, <2>5, <3>1, <3>2, Zenon DEF batch
  <2>6. CASE ~accepted
    <3>0. DryRun(l, batch) = [ok |-> FALSE, new |-> 0, duplicates |-> 0]
      BY <2>2, <2>6, Zenon
    <3>1. DryRun(l, batch).ok = FALSE
      BY <3>0
    <3> QED
      BY <2>3, <2>6, <3>1, Zenon DEF batch
  <2> QED
    BY <2>5, <2>6
<1>2. DryRunPredicts
  BY <1>1, Zenon DEF DryRunPredicts
<1> QED
  BY <1>2, PTL

\* The version of a lot counts the batches that brought something and the end
\* of monitoring; no repeat moves it (AddReadings, acceptance_test.go:190).
THEOREM VersionAlwaysCounts == Spec => []VersionCountsBatches
<1>1. IngestInv => VersionCountsBatches
  BY DEF IngestInv, Current, Coherent, Counted, Batches, VersionCountsBatches
<1> QED
  BY <1>1, IngestInvariant, PTL
=============================================================================
