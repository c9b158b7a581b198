------------------------------- MODULE Store -------------------------------
(***************************************************************************)
(* The file store of thermoguard (src/internal/store/store.go): the state  *)
(* in memory, the full snapshot state.json and the append-only journal     *)
(* events.ndjson, on one data directory opened by one process.             *)
(*                                                                         *)
(* A State is abstracted to the sequence of the transactions it is the     *)
(* result of (the code's State carries exactly that sequence as its audit  *)
(* log, one event per transaction), so State.Revision is the length.       *)
(* What a transaction does to lots and readings is module LotCase's        *)
(* subject; here it is a name.                                             *)
(*                                                                         *)
(* Faults chooses what the environment may do besides killing the process: *)
(*   "append"   opening, writing (nothing written) or syncing the journal  *)
(*              fails and the process lives on with the error              *)
(*   "short"    the journal write stops short (disk full) and the process  *)
(*              lives on with the error                                    *)
(*   "replace"  writing or renaming a replacement file fails               *)
(*   "power"    the machine stops: directory changes that no later fsync   *)
(*              followed may be undone, the latest first                   *)
(*                                                                         *)
(* An operator whose name starts with Bug is a slip this code could have   *)
(* had.  No action uses one; each is there to be put in the place of the   *)
(* definition that follows it, to see a property fail.                     *)
(***************************************************************************)
EXTENDS Naturals, Sequences, SequencesExt

CONSTANTS Tx,          \* transactions; each is asked for at most once
          BadText,     \* those whose actor or idempotency key is not UTF-8
          BadActor,    \* those whose actor is not
          Faults,      \* see above
          MaxCrashes   \* bound on kills and power cuts

ASSUME StoreAssumption ==
  /\ BadActor \subseteq BadText /\ BadText \subseteq Tx
  /\ Faults \subseteq {"append", "short", "replace", "power"}
  /\ MaxCrashes \in Nat

VARIABLES
  pc,         \* where the holder of the store's lock is ("idle": nobody)
  mem,        \* s.state
  next,       \* Update's next, <<>> outside of an Update
  pos,        \* the journal line load() reads next
  tail,       \* s.tailTruncated
  snap,       \* state.json
  journal,    \* events.ndjson
  older,      \* directory contents a power cut may bring back
  compactor,  \* MaybeCompact between its inspection and its Compact
  crashes,    \* crashes so far
  promised,   \* history: the state last made visible to callers
  outcome     \* history: what the caller of each transaction knows

files == <<snap, journal, older>>
history == <<promised, outcome>>
vars == <<pc, mem, next, pos, tail, snap, journal, older, compactor, crashes,
          promised, outcome>>

State == Seq(Tx)
Revision(s) == Len(s)

Updating  == {"append", "snapshot", "publish"}
Compacting == {"compact", "truncate"}
Up   == {"idle"} \cup Updating \cup Compacting
Off  == {"down", "refused"}

----------------------------------------------------------------------------
(* Texts.  JSON keeps no byte that is not UTF-8: json.Marshal writes an    *)
(* escape for it, what is read back is another text, and marshalled again  *)
(* it is written otherwise.  Only headers bring such texts in (X-Actor,    *)
(* Idempotency-Key); a request body was read as JSON itself.               *)

\* The checksum of a line is taken of the state in memory and compared with
\* that of the state read back.  Only the last transaction was never read
\* back before: cloneState did that with all that came earlier.
Agrees(s) == s # <<>> => Last(s) \notin BadText

\* VerifyAudit of a state read back: an event keeps the hash of the actor it
\* was given.
ChainHolds(s) == \A i \in 1..Len(s) : s[i] \notin BadActor

(* The journal.  A line holds the state after its transaction; ok: it      *)
(* parses; nl: it ends with a newline.                                     *)

Line == [st : State, ok : BOOLEAN, nl : BOOLEAN]

Whole(s)        == [st |-> s, ok |-> TRUE, nl |-> TRUE]
Unterminated(s) == [st |-> s, ok |-> TRUE, nl |-> FALSE]
Garbage(end)    == [st |-> <<>>, ok |-> FALSE, nl |-> end]

\* An O_APPEND write continues a last line that has no newline: the two
\* become one line that does not parse.
Written(j, l) ==
  IF j # <<>> /\ ~j[Len(j)].nl
    THEN [j EXCEPT ![Len(j)] = Garbage(l.nl)]
    ELSE Append(j, l)

\* What a write of state s may leave when it is cut off anywhere.
Leftovers(j, s) ==
  {j, Written(j, Garbage(FALSE)), Written(j, Unterminated(s)),
   Written(j, Whole(s))}

\* InspectJournal reports no error: every line parses, save a last one
\* without a newline, the checksums agree, and the revisions are consecutive.
JournalInOrder(j) ==
  /\ \A i \in 1..Len(j) :
       IF j[i].ok THEN Agrees(j[i].st) ELSE i = Len(j) /\ ~j[i].nl
  /\ \A i \in 2..Len(j) :
       j[i].ok => Revision(j[i].st) = Revision(j[i-1].st) + 1

(* The directory.  An fsync makes everything before it last; a rename, a   *)
(* truncation or a write that no fsync followed may be undone by a power   *)
(* cut, and older holds what would be found then.                          *)

View == [snap : State, journal : Seq(Line)]
Now  == [snap |-> snap, journal |-> journal]

Undoable(views) == IF "power" \in Faults THEN views ELSE {}
OlderOrNow == Undoable(older \cup {Now})

\* The same while a line is being written to the current journal.
AfterCut ==
  OlderOrNow \cup
    IF pc = "append"
      THEN {[snap |-> v.snap, journal |-> j] :
              v \in {w \in OlderOrNow : w.journal = journal},
              j \in Leftovers(journal, next)}
      ELSE {}

----------------------------------------------------------------------------

Init ==
  /\ pc = "down" /\ mem = <<>> /\ next = <<>> /\ pos = 1 /\ tail = FALSE
  /\ snap = <<>> /\ journal = <<>> /\ older = {}
  /\ compactor = "idle" /\ crashes = 0
  /\ promised = <<>> /\ outcome = [t \in Tx |-> "none"]

----------------------------------------------------------------------------
(* Update.  The store's mutex is held from Begin to the return.            *)

\* The function passed in returns an error (or ErrNoChange): nothing is kept.
Decline(t) ==
  /\ pc = "idle" /\ outcome[t] = "none"
  /\ outcome' = [outcome EXCEPT ![t] = "declined"]
  /\ UNCHANGED <<pc, mem, next, pos, tail, files, compactor, crashes, promised>>

Begin(t) ==
  /\ pc = "idle" /\ outcome[t] = "none"
  /\ pc' = "append"
  /\ next' = Append(mem, t)
  /\ outcome' = [outcome EXCEPT ![t] = "running"]
  /\ UNCHANGED <<mem, pos, tail, files, compactor, crashes, promised>>

BugNoJournalLine ==
  /\ pc = "append"
  /\ pc' = "snapshot"
  /\ UNCHANGED <<mem, next, pos, tail, files, compactor, crashes, history>>

\* The journal line is written and synced.
AppendJournal ==
  /\ pc = "append"
  /\ pc' = "snapshot"
  /\ journal' = Written(journal, Whole(next))
  /\ older' = {}
  /\ UNCHANGED <<mem, next, pos, tail, snap, compactor, crashes, history>>

Return(result) ==
  /\ pc' = "idle" /\ next' = <<>>
  /\ outcome' = [outcome EXCEPT ![next[Len(next)]] = result]

\* The write or the sync fails: Update returns the error and undoes nothing.
AppendFails ==
  /\ pc = "append"
  /\ \/ "append" \in Faults /\ journal' \in {journal, Written(journal, Whole(next))}
     \/ "short" \in Faults /\ journal' \in Leftovers(journal, next)
  /\ older' = AfterCut
  /\ Return("error")
  /\ UNCHANGED <<mem, pos, tail, snap, compactor, crashes, promised>>

BugSnapshotOfOldState ==
  /\ pc = "snapshot"
  /\ pc' = "publish"
  /\ older' = Undoable({Now})
  /\ snap' = mem
  /\ UNCHANGED <<mem, next, pos, tail, journal, compactor, crashes, history>>

\* writeAtomic: the temporary file is synced, then renamed over state.json.
RenameSnapshot ==
  /\ pc = "snapshot"
  /\ pc' = "publish"
  /\ older' = Undoable({Now})
  /\ snap' = next
  /\ UNCHANGED <<mem, next, pos, tail, journal, compactor, crashes, history>>

BugPublishBeforeSnapshot ==
  /\ pc = "snapshot" /\ "replace" \in Faults
  /\ Return("error")
  /\ mem' = next /\ promised' = next
  /\ UNCHANGED <<pos, tail, files, compactor, crashes>>

\* writeAtomic fails: the error is returned although the line is in the journal.
SnapshotFails ==
  /\ pc = "snapshot" /\ "replace" \in Faults
  /\ Return("error")
  /\ UNCHANGED <<mem, pos, tail, files, compactor, crashes, promised>>

\* s.state = next, unlock, return nil.
Publish ==
  /\ pc = "publish"
  /\ Return("ok")
  /\ mem' = next /\ promised' = next
  /\ UNCHANGED <<pos, tail, files, compactor, crashes>>

----------------------------------------------------------------------------
(* MaybeCompact: InspectJournal under the read lock, then Compact under    *)
(* the write lock; other calls may come between.  The thresholds are       *)
(* arguments: any journal that is not empty may have reached them.         *)

Inspect ==
  /\ pc = "idle" /\ compactor = "idle"
  /\ journal # <<>> /\ JournalInOrder(journal)
  /\ compactor' = "due"
  /\ UNCHANGED <<pc, mem, next, pos, tail, files, crashes, history>>

BeginCompact ==
  /\ pc = "idle" /\ compactor = "due"
  /\ pc' = "compact" /\ compactor' = "idle"
  /\ UNCHANGED <<mem, next, pos, tail, files, crashes, history>>

BugCompactWithoutSnapshot ==
  /\ pc = "compact"
  /\ pc' = "truncate"
  /\ UNCHANGED <<mem, next, pos, tail, files, compactor, crashes, history>>

CompactSnapshot ==
  /\ pc = "compact"
  /\ pc' = "truncate"
  /\ older' = Undoable({Now})
  /\ snap' = mem
  /\ UNCHANGED <<mem, next, pos, tail, journal, compactor, crashes, history>>

\* An empty file is renamed over events.ndjson, without an fsync.
CompactJournal ==
  /\ pc = "truncate"
  /\ pc' = "idle"
  /\ older' = OlderOrNow
  /\ journal' = <<>>
  /\ UNCHANGED <<mem, next, pos, tail, snap, compactor, crashes, history>>

CompactFails ==
  /\ pc \in Compacting /\ "replace" \in Faults
  /\ pc' = "idle"
  /\ UNCHANGED <<mem, next, pos, tail, files, compactor, crashes, history>>

----------------------------------------------------------------------------
(* The end of a process.                                                   *)

Stop ==
  /\ crashes < MaxCrashes
  /\ crashes' = crashes + 1
  /\ pc' = "down" /\ mem' = <<>> /\ next' = <<>> /\ pos' = 1 /\ tail' = FALSE
  /\ compactor' = "idle"
  /\ outcome' = [t \in Tx |-> IF outcome[t] = "running" THEN "unknown" ELSE outcome[t]]
  /\ UNCHANGED promised

\* The process is killed; the operating system keeps what it was given.
Kill ==
  /\ pc \notin Off
  /\ Stop
  /\ IF pc = "append"
       THEN journal' \in Leftovers(journal, next) /\ older' = AfterCut
       ELSE UNCHANGED <<journal, older>>
  /\ UNCHANGED snap

\* The machine stops: the directory is found as it is or as it was earlier.
PowerCut ==
  /\ "power" \in Faults
  /\ Stop
  /\ older' = {}
  /\ \E v \in AfterCut : snap' = v.snap /\ journal' = v.journal

----------------------------------------------------------------------------
(* Open and load().                                                        *)

BugOpenCountsFromZero ==
  /\ pc \in Off
  /\ pc' = "load" /\ mem' = snap /\ pos' = 0
  /\ UNCHANGED <<next, tail, files, compactor, crashes, history>>

Open ==
  /\ pc \in Off
  /\ pc' = "load" /\ mem' = snap /\ pos' = 1
  /\ UNCHANGED <<next, tail, files, compactor, crashes, history>>

Loading == pc = "load" /\ pos <= Len(journal)
Current == journal[pos]

BugNoNewlineAdded ==
  /\ Loading /\ Current.ok /\ Agrees(Current.st)
  /\ Revision(Current.st) <= Revision(mem) + 1
  /\ mem' = IF Revision(Current.st) > Revision(mem) THEN Current.st ELSE mem
  /\ pos' = pos + 1
  /\ UNCHANGED <<pc, next, tail, files, compactor, crashes, history>>

\* A complete line: replayed when it is the next revision, skipped when old.
\* A missing final newline is added, and synced.
LoadLine ==
  /\ Loading /\ Current.ok /\ Agrees(Current.st)
  /\ Revision(Current.st) <= Revision(mem) + 1
  /\ mem' = IF Revision(Current.st) > Revision(mem) THEN Current.st ELSE mem
  /\ IF Current.nl THEN UNCHANGED <<journal, older>>
                   ELSE journal' = [journal EXCEPT ![pos] = Whole(Current.st)] /\ older' = {}
  /\ pos' = pos + 1
  /\ UNCHANGED <<pc, next, tail, snap, compactor, crashes, history>>

BugTornTailRefused ==
  /\ Loading /\ ~Current.ok /\ ~Current.nl
  /\ pc' = "refused" /\ mem' = <<>> /\ pos' = 1
  /\ UNCHANGED <<next, tail, files, compactor, crashes, history>>

\* A last line that does not parse is cut off, without an fsync.
LoadTail ==
  /\ Loading /\ ~Current.ok /\ ~Current.nl
  /\ journal' = SubSeq(journal, 1, pos - 1)
  /\ older' = OlderOrNow
  /\ tail' = TRUE
  /\ UNCHANGED <<pc, mem, next, pos, snap, compactor, crashes, history>>

Refuse ==
  /\ pc' = "refused" /\ mem' = <<>> /\ pos' = 1 /\ tail' = FALSE
  /\ UNCHANGED <<next, files, compactor, crashes, history>>

\* A complete line that does not parse, a checksum that disagrees (of a line
\* already in the snapshot, too), or a jump: Open returns an error.
LoadRefused ==
  /\ Loading
  /\ IF Current.ok
       THEN ~Agrees(Current.st) \/ Revision(Current.st) > Revision(mem) + 1
       ELSE Current.nl
  /\ Refuse

Loaded == pc = "load" /\ pos = Len(journal) + 1

\* Open verifies the audit chain of the state load() found.
AuditRefused ==
  /\ Loaded /\ ~ChainHolds(mem)
  /\ Refuse

\* A read, the truncation or the newline fails: Open returns the error.
LoadFails ==
  /\ Loading /\ "append" \in Faults
  /\ pc' = "down" /\ mem' = <<>> /\ pos' = 1 /\ tail' = FALSE
  /\ UNCHANGED <<next, files, compactor, crashes, history>>

LoadDone ==
  /\ Loaded /\ ChainHolds(mem)
  /\ pc' = "idle" /\ pos' = 1
  /\ promised' = mem
  /\ UNCHANGED <<mem, next, tail, files, compactor, crashes, outcome>>

----------------------------------------------------------------------------

Update ==
  \/ AppendJournal \/ AppendFails \/ RenameSnapshot \/ SnapshotFails \/ Publish
Compact == BeginCompact \/ CompactSnapshot \/ CompactJournal \/ CompactFails
Load ==
  \/ Open \/ LoadLine \/ LoadTail \/ LoadRefused \/ LoadFails
  \/ AuditRefused \/ LoadDone

Next ==
  \/ \E t \in Tx : Decline(t) \/ Begin(t)
  \/ Update
  \/ Inspect \/ Compact
  \/ Kill \/ PowerCut
  \/ Load

Spec == Init /\ [][Next]_vars

\* System calls return, and a stopped service is started again.
Fairness == WF_vars(Update) /\ WF_vars(Compact) /\ WF_vars(Load)
FairSpec == Spec /\ Fairness

----------------------------------------------------------------------------
(* Properties.                                                             *)

TypeOK ==
  /\ pc \in Up \cup Off \cup {"load"}
  /\ mem \in State /\ next \in State /\ snap \in State /\ promised \in State
  /\ journal \in Seq(Line) /\ older \subseteq View
  /\ pos \in Nat \ {0} /\ tail \in BOOLEAN
  /\ compactor \in {"idle", "due"} /\ crashes \in 0..MaxCrashes
  /\ outcome \in [Tx -> {"none", "running", "declined", "ok", "error", "unknown"}]

\* What callers have once been shown is never taken back or replaced, across
\* kills, failed calls, compactions and restarts (Update, load, Compact).
NoRollback == [][IsPrefix(promised, promised')]_vars

\* With power cuts, only transactions whose callers never got an answer may be
\* taken back: load() serves a line that a killed process wrote but did not
\* sync (store.go:82-119, 197-200).  No other entry moves.
RollsBackUnansweredOnly ==
  [][\A i \in 1..Len(promised) :
       outcome[promised[i]] # "unknown" =>
         i <= Len(promised') /\ promised'[i] = promised[i]]_vars

\* A transaction whose Update returned nil is part of the visible state.
OkIsStored == \A t \in Tx : outcome[t] = "ok" => Contains(promised, t)

\* The files always hold the promised states (store.go:71-144): the snapshot
\* is no more than one transaction ahead, and for every promised revision
\* behind it the first journal line of that revision is the promised state.
FirstOfRevision(j, i) ==
  j[i].ok /\ \A k \in 1..i-1 : j[k].ok => Revision(j[k].st) # Revision(j[i].st)

Near(s, p) ==
  IF Len(s) <= Len(p) THEN IsPrefix(s, p)
                      ELSE Len(s) = Len(p) + 1 /\ IsPrefix(p, s)

FilesCoverPromise ==
  /\ Near(snap, promised)
  /\ \A r \in Len(snap)+1..Len(promised) :
       \E i \in 1..Len(journal) :
         /\ FirstOfRevision(journal, i)
         /\ journal[i].st = SubSeq(promised, 1, r)

\* A transaction with a text that is not UTF-8 got as far as the journal's write.
TextBegun == \E t \in BadText : outcome[t] \notin {"none", "declined"}

\* A restart refuses the data directory this program wrote only after an Update
\* was given a text that is not UTF-8 (store.go:50-57, 96-119): otherwise no
\* complete line is corrupt, no revision is skipped and the chain holds.
Reopenable == pc = "refused" => TextBegun

\* The complete lines this program wrote are replayed, and none of them blocks
\* a start (README.md:74 says that damage does).
StartsAgain == pc # "refused"

\* Whatever happens, the service ends up serving again, unless a text that is
\* not UTF-8 was stored: then a start may be refused, again and again.
AlwaysServesAgain == []<>(pc = "idle" \/ (pc = "refused" /\ TextBegun))

\* The store behaves as a log that only grows (DurableLog).
Durable == INSTANCE DurableLog WITH log <- promised
ImplementsDurableLog == Durable!LogSpec

=============================================================================
