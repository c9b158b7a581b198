---------------------------- MODULE StoreReaders ----------------------------
(***************************************************************************)
(* Readers of the store beside its writers, failures and restarts: clients *)
(* that page through the audit of a lot or the list of lots (Audit,        *)
(* ListLots, internal/app/service.go), and backups of the audit chain      *)
(* (internal/store/backup.go, and VerifyAudit of store.go).                *)
(*                                                                         *)
(* A transaction is about a lot or about none (policies, ScanOverdue); the *)
(* first about a lot creates it.  IDs of lots are random numbers.  Lots    *)
(* are listed without the filters of ListLots.                             *)
(*                                                                         *)
(* A hash is the content hashed: digests of different contents differ.     *)
(* A reader changes nothing, so a behaviour has one reader at most.        *)
(***************************************************************************)
EXTENDS Store, FiniteSetsExt

CONSTANTS LotOf,      \* the ID of the lot each transaction is about, or NoLot
          Limit,      \* of entries in a page
          ReadLimit   \* what ValidateBackup reads of a backup, in audit events

NoLot == 0

ASSUME ReadersAssumption ==
  LotOf \in [Tx -> Nat] /\ Limit \in Nat \ {0} /\ ReadLimit \in Nat

VARIABLES
  walk,     \* a client that pages through a listing
  backup    \* the backup that was written

readers == <<walk, backup>>
allVars == <<vars, readers>>

----------------------------------------------------------------------------
(* The audit chain.                                                        *)

\* A hash covers the event and, by the hash before it, all that came before.
AuditHash(e) == Append(e.previous, <<e.sequence, e.tx>>)

\* The hash of the last of the first n events of s; <<>> stands for none.
HashOf(s, n) == [k \in 1..n |-> <<k, s[k]>>]

\* Update builds an event on the hash of the last one.
Audit(s) ==
  [i \in 1..Len(s) |->
     [sequence |-> i, tx |-> s[i], previous |-> HashOf(s, i-1),
      hash |-> AuditHash([sequence |-> i, tx |-> s[i], previous |-> HashOf(s, i-1)])]]

\* Of events that were read back from JSON: an actor that is not UTF-8 is then
\* another text than the one that was hashed.
VerifyAudit(events) ==
  \A i \in 1..Len(events) :
    /\ events[i].sequence = i /\ events[i].tx \notin BadActor
    /\ events[i].previous = IF i = 1 THEN <<>> ELSE events[i-1].hash
    /\ events[i].hash = AuditHash(events[i])

AuditHead(events) == IF events = <<>> THEN <<>> ELSE Last(events).hash

NoBackup == [format |-> "none"]
NoReader == backup = NoBackup /\ walk.phase = "none"

SchemaVersion == 1

\* The checksum of a state stands for all of it.
BackupOf(s) ==
  LET st == [schema |-> SchemaVersion, revision |-> Revision(s), audit |-> Audit(s)]
  IN [format |-> "v1", revision |-> Revision(s), checksum |-> st,
      auditHead |-> AuditHead(Audit(s)), state |-> st]

BugBackupWithoutLock ==
  /\ pc \in Up /\ NoReader
  /\ backup' = BackupOf(snap)
  /\ UNCHANGED <<vars, walk>>

\* Under the read lock, of a copy of the state in memory that was read back;
\* refused when its chain does not verify, and never for its size.
WriteBackup ==
  /\ pc = "idle" /\ NoReader
  /\ VerifyAudit(Audit(mem))
  /\ backup' = BackupOf(mem)
  /\ UNCHANGED <<vars, walk>>

BugHeadNotCompared(b) ==
  /\ Len(b.state.audit) <= ReadLimit
  /\ b.format = "v1" /\ b.state.schema = SchemaVersion
  /\ b.checksum = b.state /\ b.revision = b.state.revision
  /\ VerifyAudit(b.state.audit)

\* The JSON text of a larger state is cut off at 64 MiB and does not decode.
ValidateBackup(b) ==
  /\ Len(b.state.audit) <= ReadLimit
  /\ b.format = "v1" /\ b.state.schema = SchemaVersion
  /\ b.checksum = b.state /\ b.revision = b.state.revision
  /\ VerifyAudit(b.state.audit)
  /\ b.state.audit # <<>> => b.auditHead = AuditHead(b.state.audit)

----------------------------------------------------------------------------
(* Paging.  A listing is a set of entries with distinct keys.              *)

\* What the audit route of a lot lists; NoLot stands for the list of lots.
Listing(lot, s) ==
  IF lot = NoLot
    THEN {[key |-> LotOf[s[i]], entry |-> LotOf[s[i]]] :
            i \in {j \in 1..Len(s) : LotOf[s[j]] # NoLot}}
    ELSE {[key |-> i, entry |-> s[i]] : i \in {j \in 1..Len(s) : LotOf[s[j]] = lot}}

Keys(entries) == {e.key : e \in entries}
Beyond(entries, cursor) == {e \in entries : e.key > cursor}

BugNextIsTheFollowing(entries, cursor) ==
  LET rest == Beyond(entries, cursor)
      out  == {e \in rest : Cardinality({d \in rest : d.key <= e.key}) <= Limit}
  IN [out |-> out, next |-> IF out = rest THEN 0 ELSE Min(Keys(rest \ out))]

\* The first Limit entries past the cursor; next is 0 on the last page.
Page(entries, cursor) ==
  LET rest == Beyond(entries, cursor)
      out  == {e \in rest : Cardinality({d \in rest : d.key <= e.key}) <= Limit}
  IN [out |-> out, next |-> IF out = rest THEN 0 ELSE Max(Keys(out))]

\* A page is read under the read lock; the client goes on until next is 0.
ReadPage(lot) ==
  LET entries == Listing(lot, mem)
      page    == Page(entries, walk.cursor)
  IN /\ pc = "idle"
     /\ \/ NoReader /\ (lot = NoLot \/ Listing(lot, mem) # {})
        \/ walk.phase = "next" /\ lot = walk.lot
     /\ walk' = [phase  |-> IF page.next = 0 THEN "done" ELSE "next",
                 lot    |-> lot, cursor |-> page.next,
                 got    |-> walk.got \cup page.out,
                 twice  |-> walk.twice \cup (walk.got \cap page.out),
                 since  |-> IF walk.phase = "none" THEN entries ELSE walk.since]
     /\ UNCHANGED <<vars, backup>>

----------------------------------------------------------------------------

ReadersInit ==
  /\ Init
  /\ walk = [phase |-> "none", lot |-> NoLot, cursor |-> 0, got |-> {}, twice |-> {},
             since |-> {}]
  /\ backup = NoBackup

ReadersNext ==
  \/ Next /\ UNCHANGED readers
  \/ WriteBackup
  \/ \E lot \in {NoLot} \cup {LotOf[t] : t \in Tx} : ReadPage(lot)

ReadersSpec == ReadersInit /\ [][ReadersNext]_allVars

----------------------------------------------------------------------------
(* Properties.                                                             *)

\* A client that follows the cursors gets every entry once that was there when
\* it began, and nothing that was not there, though entries are added between
\* its pages and the service fails and restarts; of an audit, which only grows
\* at its end, it also gets what was added in the meantime.
WalkSeesAll ==
  LET passed == IF walk.phase = "next" THEN {e \in walk.since : e.key <= walk.cursor}
                                       ELSE walk.since
      all    == Listing(walk.lot, promised)
  IN /\ passed \subseteq walk.got /\ walk.got \subseteq all /\ walk.twice = {}
     /\ walk.lot # NoLot => \A e \in all, d \in walk.got : e.key <= d.key => e \in walk.got

\* A backup holds a state that callers were shown: never one that is still being
\* written, and none that a later state does not go on from.  It validates as
\* long as it is not larger than what ValidateBackup reads, and never beyond.
BackupIsPromised ==
  backup # NoBackup =>
    /\ ValidateBackup(backup) <=> Len(backup.state.audit) <= ReadLimit
    /\ \E s \in {SubSeq(promised, 1, n) : n \in 0..Len(promised)} : backup = BackupOf(s)

\* The states that differ from st by one event, lost, changed, or put again, or
\* by the version of their schema.
Altered(st) ==
  LET With(events) == [st EXCEPT !.audit = events]
  IN {With(RemoveAt(st.audit, i)) : i \in 1..Len(st.audit)}
     \cup {With([st.audit EXCEPT ![i].tx = t]) : i \in 1..Len(st.audit), t \in Tx}
     \cup {With([st.audit EXCEPT ![i].previous = <<>>]) : i \in 2..Len(st.audit)}
     \cup {With(Append(st.audit, st.audit[i])) : i \in 1..Len(st.audit)}
     \cup {[st EXCEPT !.schema = SchemaVersion + 1]}

\* A backup that is damaged is refused, also when its checksum was computed
\* anew: a lost, changed or repeated event breaks the chain, a lost last one
\* does not go with the head, another schema is not known.  The head of a backup without events is not
\* looked at, so one that lost them all would pass with a new checksum.
DamageIsNoticed ==
  backup # NoBackup =>
    /\ \A st \in Altered(backup.state) \ {backup.state} :
         /\ ~ValidateBackup([backup EXCEPT !.state = st])
         /\ st.audit # <<>> => ~ValidateBackup([backup EXCEPT !.state = st, !.checksum = st])
    /\ \A r \in 0..Cardinality(Tx) \ {backup.revision} :
         ~ValidateBackup([backup EXCEPT !.revision = r])
    /\ backup.auditHead # <<>> => ~ValidateBackup([backup EXCEPT !.auditHead = <<>>])
=============================================================================
