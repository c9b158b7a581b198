------------------------------- MODULE Ingest -------------------------------
(***************************************************************************)
(* How lots and readings come in (CreateLot, AddReadings, ValidateReadings *)
(* and what they need of PublishPolicy and CloseMonitoring, service.go),   *)
(* with clients that repeat a request until they are satisfied, requests   *)
(* and answers that are late or lost, updates that fail and restarts.  An  *)
(* attempt that was not handled is on its way, or still to be sent, or     *)
(* lost; attempts arrive in any order, a later one before an earlier.      *)
(*                                                                         *)
(* Of the store below, module Store shows that an update is one step, that *)
(* what was answered stays, and that an update which failed may turn up at *)
(* a restart as long as no later one succeeded.  (Power cuts that undo the *)
(* rename of the snapshot are left to that module.)                        *)
(*                                                                         *)
(* The digest of a reading is its content.  A key is a text in UTF-8: JSON *)
(* changes any other (module Store), so that the record of such a key is   *)
(* not found again and a repeat would be stored twice.                     *)
(* Requests name a lot by its code here and by its ID in the program; the  *)
(* one policy exists from the start.                                       *)
(*                                                                         *)
(* Operators whose name starts with Bug are used by no definition: see     *)
(* module Store.                                                           *)
(***************************************************************************)
EXTENDS Naturals, Sequences, FiniteSetsExt

CONSTANTS
  Asks, What,     \* requests, and what each asks for
  Codes, Keys,    \* of lots; idempotency keys of readings
  Contents, Valid,  \* of readings; those ValidateReading accepts
  MaxBatch,       \* the code's 1000 readings
  Attempt,        \* the times a client sends one: pairs of a request and a number
  MaxFailures, MaxCrashes, MaxFallbacks
                  \* bounds on failing updates, restarts and IDs not drawn at random

Item == [key : Keys, content : Contents]
Kinds == {"publish", "lot", "readings", "close"}

ASSUME IngestAssumption ==
  /\ \A q \in Asks : What[q] \in [kind : Kinds, code : Codes, batch : Seq(Item)]
  /\ Attempt \subseteq Asks \X Nat
  /\ Valid \subseteq Contents
  /\ {MaxBatch, MaxFailures, MaxCrashes, MaxFallbacks} \subseteq Nat

VARIABLES
  st,         \* the state of the store
  failed,     \* states of updates that failed since the last that succeeded
  told,       \* the answers given, whether they reached a client or not
  failures, crashes   \* counters for the bounds

vars == <<st, failed, told, failures, crashes>>

Ask(a) == What[a[1]]

Init ==
  /\ st = [policy |-> "DRAFT", lots |-> {}, readings |-> {}, idempotency |-> {}, nextId |-> 1]
  /\ failed = {} /\ told = {}
  /\ failures = 0 /\ crashes = 0

----------------------------------------------------------------------------
(* Answers, and what becomes of an update.                                 *)

\* writeError: the store's own errors become 500, the domain's a 4xx.
BugFailureIsConflict(code) == IF code = "OK" THEN 201 ELSE 409
HttpStatus(code) ==
  IF code = "OK" THEN 201
  ELSE IF code = "STORE" THEN 500
  ELSE IF code = "NOT_FOUND" THEN 404
  ELSE IF code \in {"CONFLICT", "INVALID_STATE"} THEN 409
  ELSE 422

\* Whether it arrives makes no difference here: a client may always try again.
Answer(a, code, result) ==
  told' = told \cup {[attempt |-> a, status |-> HttpStatus(code), result |-> result]}

Unchanged == UNCHANGED <<st, failed, failures, crashes>>

Refuse(a, code) == Answer(a, code, {}) /\ Unchanged

\* The error leaves memory as it was; the journal may or may not have the line.
Fail(a, next) ==
  /\ failures < MaxFailures /\ failures' = failures + 1
  /\ failed' \in {failed, failed \cup {next}}
  /\ Answer(a, "STORE", {})
  /\ UNCHANGED <<st, crashes>>

Commit(a, next, result) ==
  /\ st' = next /\ failed' = {}
  /\ Answer(a, "OK", result)
  /\ UNCHANGED <<failures, crashes>>

Drawn(a, i)  == [by |-> <<a>>, n |-> i]
Fallback(n) == [by |-> <<>>, n |-> n]

BugFallbackNotCounted(need) ==
  {[fallback |-> f, next |-> st.nextId] : f \in {g \in SUBSET need : Cardinality(g) <= MaxFallbacks}}

\* NextID: where the entropy source fails the ID is the persisted number, which
\* goes back with an update that fails.
Draws(need) ==
  {[fallback |-> f, next |-> st.nextId + Cardinality(f)] :
     f \in {g \in SUBSET need : g = {} \/ st.nextId + Cardinality(g) <= MaxFallbacks + 1}}

ID(a, i, draw) ==
  IF i \in draw.fallback THEN Fallback(st.nextId + Cardinality({j \in draw.fallback : j < i}))
                         ELSE Drawn(a, i)

Update(a, next, result) == Commit(a, next, result) \/ Fail(a, next)

----------------------------------------------------------------------------
(* The handlers.                                                           *)

Handles(a, kind) == Ask(a).kind = kind /\ \A t \in told : t.attempt # a

LotsOf(code) == {l \in st.lots : l.code = code}
WithLot(s, l) == [s EXCEPT !.lots = {k \in @ : k.id # l.id} \cup {l}]

PublishPolicy(a) ==
  /\ Handles(a, "publish")
  /\ \/ st.policy = "DRAFT" /\ Update(a, [st EXCEPT !.policy = "PUBLISHED"], {})
     \/ st.policy # "DRAFT" /\ Refuse(a, "INVALID_STATE")

Created(a, draw) ==
  WithLot([st EXCEPT !.nextId = draw.next],
          [id |-> ID(a, 1, draw), code |-> Ask(a).code, status |-> "MONITORING", version |-> 1,
           by |-> a])

CreateLot(a) ==
  /\ Handles(a, "lot")
  /\ \/ st.policy # "PUBLISHED" /\ Refuse(a, "INVALID_STATE")
     \/ /\ st.policy = "PUBLISHED" /\ LotsOf(Ask(a).code) # {}
        /\ Refuse(a, "CONFLICT")
     \/ /\ st.policy = "PUBLISHED" /\ LotsOf(Ask(a).code) = {}
        /\ \E draw \in Draws({1}) : Update(a, Created(a, draw), {})

CloseMonitoring(a) ==
  /\ Handles(a, "close")
  /\ \/ LotsOf(Ask(a).code) = {} /\ Refuse(a, "NOT_FOUND")
     \/ \E l \in LotsOf(Ask(a).code) :
          \/ /\ l.status = "MONITORING"
             /\ Update(a, WithLot(st, [l EXCEPT !.status = "UNDER_REVIEW", !.version = @ + 1]), {})
          \/ l.status # "MONITORING" /\ Refuse(a, "INVALID_STATE")

\* The idempotency records of a key of a lot: at most one.
Recorded(l, key) == {r \in st.idempotency : r.lot = l.id /\ r.key = key}

BugDigestOfTheAttempt(l, batch, i) ==
  IF Recorded(l, batch[i].key) # {} THEN "CONFLICT" ELSE "OK"

BugNotValidated(l, batch, i) ==
  IF \/ \E j \in 1..(i-1) : batch[j].key = batch[i].key
     \/ \E r \in Recorded(l, batch[i].key) : r.digest # batch[i].content
    THEN "CONFLICT" ELSE "OK"

\* What is wrong with a reading of a batch.
Offence(l, batch, i) ==
  IF batch[i].content \notin Valid THEN "VALIDATION_FAILED"
  ELSE IF \/ \E j \in 1..(i-1) : batch[j].key = batch[i].key
          \/ \E r \in Recorded(l, batch[i].key) : r.digest # batch[i].content
    THEN "CONFLICT"
  ELSE "OK"

\* The error of the first reading that has one refuses the whole batch.
Verdict(l, batch) ==
  LET bad == {i \in DOMAIN batch : Offence(l, batch, i) # "OK"}
  IN IF Len(batch) \notin 1..MaxBatch THEN "VALIDATION_FAILED"
     ELSE IF l.status # "MONITORING" THEN "INVALID_STATE"
     ELSE IF bad = {} THEN "OK" ELSE Offence(l, batch, Min(bad))

New(l, batch) == {i \in DOMAIN batch : Recorded(l, batch[i].key) = {}}

BugResultOfTheAttempt(a, l, batch, draw) ==
  {[key |-> batch[i].key, id |-> ID(a, i, draw)] : i \in DOMAIN batch}

\* Every key of the batch with its reading, old or new.
Results(a, l, batch, draw) ==
  {[key |-> batch[i].key, id |-> ID(a, i, draw)] : i \in New(l, batch)}
  \cup UNION {{[key |-> r.key, id |-> r.result] : r \in Recorded(l, batch[i].key)}
               : i \in DOMAIN batch}

WithReadings(a, l, batch, draw) ==
  [WithLot(st, [l EXCEPT !.version = @ + 1]) EXCEPT
     !.readings = @ \cup {[lot |-> l.id, id |-> ID(a, i, draw), key |-> batch[i].key,
                           content |-> batch[i].content, by |-> a] : i \in New(l, batch)},
     !.idempotency = @ \cup {[lot |-> l.id, key |-> batch[i].key, digest |-> batch[i].content,
                              result |-> ID(a, i, draw)] : i \in New(l, batch)},
     !.nextId = draw.next]

BugVersionOnEveryBatch(a, l, batch) ==
  /\ Verdict(l, batch) = "OK"
  /\ \E draw \in Draws(New(l, batch)) :
       Update(a, WithReadings(a, l, batch, draw), Results(a, l, batch, draw))

\* A batch of known readings changes nothing and is answered like the first.
Accept(a, l, batch) ==
  /\ Verdict(l, batch) = "OK"
  /\ \E draw \in Draws(New(l, batch)) :
       \/ /\ New(l, batch) # {}
          /\ Update(a, WithReadings(a, l, batch, draw), Results(a, l, batch, draw))
       \/ New(l, batch) = {} /\ Answer(a, "OK", Results(a, l, batch, draw)) /\ Unchanged

AddReadings(a) ==
  /\ Handles(a, "readings")
  /\ \/ LotsOf(Ask(a).code) = {} /\ Refuse(a, "NOT_FOUND")
     \/ \E l \in LotsOf(Ask(a).code) :
          \/ Verdict(l, Ask(a).batch) # "OK" /\ Refuse(a, Verdict(l, Ask(a).batch))
          \/ Accept(a, l, Ask(a).batch)

BugDryRunPerReading(l, batch) ==
  IF \E i \in DOMAIN batch : \/ batch[i].content \notin Valid
                             \/ \E r \in Recorded(l, batch[i].key) : r.digest # batch[i].content
    THEN [ok |-> FALSE, new |-> 0, duplicates |-> 0]
  ELSE [ok |-> l.status = "MONITORING" /\ Len(batch) \in 1..MaxBatch,
        new |-> Len(batch), duplicates |-> 0]

\* ValidateReadings, the importer's dry run: a loop of its own, which counts.
DryRun(l, batch) ==
  LET known(i) == \E r \in st.idempotency : r.lot = l.id /\ r.key = batch[i].key
      clean(i) == /\ batch[i].content \in Valid
                  /\ \A j \in 1..(i-1) : batch[j].key # batch[i].key
                  /\ \A r \in st.idempotency :
                       r.lot = l.id /\ r.key = batch[i].key => r.digest = batch[i].content
      duplicates == Quantify(DOMAIN batch, known)
  IN IF /\ Len(batch) \in 1..MaxBatch /\ l.status = "MONITORING"
        /\ \A i \in DOMAIN batch : clean(i)
       THEN [ok |-> TRUE, new |-> Len(batch) - duplicates, duplicates |-> duplicates]
       ELSE [ok |-> FALSE, new |-> 0, duplicates |-> 0]

----------------------------------------------------------------------------

\* The process stops and starts again, on the last state that was written or
\* on one of those whose update failed.
Restart ==
  /\ crashes < MaxCrashes /\ crashes' = crashes + 1
  /\ \/ UNCHANGED <<st, failed>>
     \/ st' \in failed /\ failed' = {}
  /\ UNCHANGED <<told, failures>>

Next ==
  \/ \E a \in Attempt : PublishPolicy(a) \/ CreateLot(a) \/ AddReadings(a) \/ CloseMonitoring(a)
  \/ Restart

Spec == Init /\ [][Next]_vars

----------------------------------------------------------------------------
(* Properties.                                                             *)

AnID == [by : {<<>>} \cup {<<a>> : a \in Attempt}, n : Nat]
Lot == [id : AnID, code : Codes, status : {"MONITORING", "UNDER_REVIEW"}, version : Nat,
        by : Attempt]
Reading == [lot : AnID, id : AnID, key : Keys, content : Valid, by : Attempt]
Record == [lot : AnID, key : Keys, digest : Valid, result : AnID]
State == [policy : {"DRAFT", "PUBLISHED"}, lots : SUBSET Lot, readings : SUBSET Reading,
          idempotency : SUBSET Record, nextId : Nat]
Result == [key : Keys, id : AnID]

TypeOK ==
  /\ st \in State /\ failed \subseteq State
  /\ told \subseteq [attempt : Attempt, status : {201, 404, 409, 422, 500}, result : SUBSET Result]
  /\ failures \in 0..MaxFailures /\ crashes \in 0..MaxCrashes

\* However often requests are repeated, late or turn up at a restart, and with
\* IDs from the fallback number: no two lots share a code, no two readings of a
\* lot a key, no two of all these an ID, and the idempotency records are those
\* of the readings (service.go:106-117, 271-289, store.go:218-232).
NothingTwice ==
  /\ \A k, l \in st.lots : k.code = l.code \/ k.id = l.id => k = l
  /\ \A r, s \in st.readings : (r.lot = s.lot /\ r.key = s.key) \/ r.id = s.id => r = s
  /\ \A l \in st.lots, r \in st.readings : l.id # r.id
  /\ st.idempotency = {[lot |-> r.lot, key |-> r.key, digest |-> r.content, result |-> r.id]
                         : r \in st.readings}

\* An answer that was given stays true: the lot, and for each key of a batch the
\* one reading that was named, also for another client that sent the same
\* reading, and after failures and restarts (acceptance_test.go:157-182).
AnswersStand ==
  \A t \in told : t.status = 201 =>
    LET q == Ask(t.attempt)
    IN /\ q.kind = "publish" => st.policy = "PUBLISHED"
       /\ q.kind = "lot" => \E l \in st.lots : l.by = t.attempt /\ l.code = q.code
       /\ q.kind = "close" => \E l \in st.lots : l.code = q.code /\ l.status # "MONITORING"
       /\ q.kind = "readings" =>
            \E l \in st.lots : l.code = q.code /\ \A i \in DOMAIN q.batch :
              \E r \in st.readings : /\ r.lot = l.id /\ r.key = q.batch[i].key
                                     /\ r.content = q.batch[i].content
                                     /\ [key |-> r.key, id |-> r.id] \in t.result

\* A request answered with a 4xx has no effect, not even after a restart; only
\* one answered with 500 may (writeError, Update).
RefusedNeverHappened ==
  \A t \in told : t.status \in {404, 409, 422} =>
    /\ \A l \in st.lots : l.by # t.attempt
    /\ \A r \in st.readings : r.by # t.attempt

\* Whoever repeats a clean batch whose keys mean the same to all others is
\* never told of a conflict of keys (service.go:271-281).
Agreed(q) ==
  \A p \in Asks : What[p].code = What[q].code =>
    \A i \in DOMAIN What[p].batch, j \in DOMAIN What[q].batch :
      What[p].batch[i].key = What[q].batch[j].key =>
        (p # q \/ i = j) /\ What[p].batch[i].content = What[q].batch[j].content
NoFalseConflict ==
  \A t \in told : t.status = 409 /\ Ask(t.attempt).kind = "readings" /\ Agreed(t.attempt[1])
    => \E l \in LotsOf(Ask(t.attempt).code) : l.status # "MONITORING"

\* The dry run of a batch says what the import of it would: whether it is
\* accepted, and how many readings are new (service.go:183-233, 243-297).
DryRunPredicts ==
  \A q \in Asks, l \in st.lots :
    LET batch == What[q].batch  dry == DryRun(l, batch)
    IN /\ dry.ok <=> Verdict(l, batch) = "OK"
       /\ dry.ok => dry.new = Cardinality(New(l, batch)) /\ dry.new + dry.duplicates = Len(batch)

\* The version of a lot moves once for each batch that brought a reading, and
\* for the end of monitoring; never for a repeat (acceptance_test.go:190).
VersionCountsBatches ==
  \A l \in st.lots :
    l.version = 1 + Cardinality({r.by : r \in {s \in st.readings : s.lot = l.id}})
                  + IF l.status = "MONITORING" THEN 0 ELSE 1
=============================================================================
