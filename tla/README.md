# A TLA+ development of thermoguard

thermoguard watches the cold chain of pharmaceutical lots: devices report
temperature readings for a lot, an algorithm turns them into *excursions*,
people investigate the excursions, and a reviewer releases or rejects the lot.
It is one Go process (`src/cmd/thermoguard`) with an HTTP API, two background
loops and a file store on one data directory, and a second program
(`src/cmd/thermoguard-import`) for batches.

This directory holds TLA+ modules for the parts whose correctness is hard to
test, TLC configurations that check them on small instances, and TLAPS proofs.

## The system

| part | state | operations | interacts with |
| --- | --- | --- | --- |
| store (`internal/store/store.go`) | the state in memory, `state.json`, `events.ndjson`, one RW mutex | `Open`/`load`, `View`, `Update`, `Compact`, `Health` | called by the service; its files survive a crash |
| inspection, compaction, backup (`operations.go`, `backup.go`) | none of their own | `InspectJournal`, `MaybeCompact`, `WriteBackup`, `ValidateBackup`, `Statistics` | read the journal and the state; nothing in the program calls `MaybeCompact` yet |
| evaluation (`internal/domain/evaluate.go`) | none | `Evaluate`: readings to excursions | called inside the service's updates |
| service (`internal/app/service.go`, `investigation_queries.go`) | everything is in the store's state | one handler per API call, one `Update` each; `ScanOverdue` | store, evaluation, enqueues to jobs |
| jobs (`internal/jobs/manager.go`) | bounded queue, pending map, last error | `Enqueue`, the evaluation loop with retries, the overdue loop | calls `Evaluate`, `ScanOverdue`, `PendingEvaluationLotIDs`; `Healthy` is read by the health route |
| HTTP API (`internal/httpapi/server.go`) | none | routes, strict decoding, error codes | calls the service |
| commands (`cmd/*`), importer (`internal/importer`) | main's place in the shutdown | start, shutdown order, self check; dry run and atomic batch import | stop the jobs; the import opens the same data directory |
| compliance summary, investigation case, export (`compliance.go`, `investigation_queries.go`, `service.go`) | none | read one state, each with loops of its own | store |
| listings with cursors (`service.go`) | the client's cursor | `ListLots`, `Audit` | store |
| runtime configuration, clock | none | address parsing, time | |

What is hard here, and what makes each part correct:

* **store** - the two files are written one after the other, every write may
  fail or be cut off by a crash, the directory is never synced, a failed update
  leaves its line in the journal, and the repair of a torn journal may crash as
  well. Correct means: what callers were shown stays, an acknowledged
  transaction is never lost, the directory can be opened again (unless a text
  that JSON does not keep was stored, see below).
* **evaluation** - boundaries, single readings, gaps, order of arrival. Correct
  means: it finds exactly the stretches out of range, under fingerprints that
  are unique and stable.
* **the case of a lot** - reviewers decide on what they read earlier, the
  scanner acts on what it saw earlier, handlers mark an evaluation as current
  without making one, excursions disappear and come back under an
  investigation. Correct means: only a safe lot is released, on a preview that
  said so, and it stays safe.
* **jobs** - a full queue, wake-ups during an evaluation, retries, shutdown, one
  `lastError` that four places write. Correct means: every lot that needs an
  evaluation gets one, the health check shows what failed and recovers, a
  shutdown ends and loses nothing of the handlers.
* **intake of lots and readings** - clients repeat requests, requests arrive late
  or after a restart, a failed update may turn up again. Correct means: nothing
  is stored twice, an answer stays true, a refused request had no effect.
* **what is read** - pages, backups and case files are made while others write.
  Correct means: a walk over the pages misses nothing, a backup is a state that
  was shown, a case file agrees with itself and with the release.

## Modules

| module | what it is |
| --- | --- |
| `DurableLog` | abstract: what the store promises its callers |
| `Store` | the store in steps, with its faults |
| `StoreProofs`, `StoreRefinementProofs`, `StorePowerProofs` | theorems about `Store` for TLAPS; that it implements `DurableLog`; what power cuts leave |
| `Evaluation` | `domain.Evaluate` as operators |
| `ReadingStream` | readings arriving one by one; a definition of excursions without a scan, and the properties of `Evaluation` |
| `EvaluationProofs` | theorems about `Evaluation` and `ReadingStream` for TLAPS |
| `LotCase` | the case of one lot: one action per handler |
| `LotCaseProofs` | theorems about `LotCase` and `Compliance` for TLAPS |
| `Compliance` | what is read off a case: summary, investigation case, action list, export |
| `MCLotCase` | instances of `LotCase` and `Compliance`, with the evaluation taken from `Evaluation` |
| `EvaluationDuty` | abstract: what the jobs owe the lots |
| `Jobs` | handlers, worker, scanner and main, with queue, pending map and last error |
| `JobsProofs` | theorems about `Jobs` for TLAPS |
| `Ingest`, `MCIngest` | how lots and readings come in, with repeated requests and failing updates; its instance |
| `IngestProofs` | theorems about `Ingest` for TLAPS |
| `StoreReaders`, `MCStoreReaders` | pages and backups beside the writers of `Store`; its instance |
| `StoreReadersProofs` | theorems about `StoreReaders` for TLAPS |

`LotCase` takes the store's updates as single steps, `Ingest` takes them as
steps that may fail and turn up at a restart, which is what `Store` shows of
them. `Jobs` takes from `LotCase` that only `CreateLot` leaves a lot without an
evaluation (`EvaluationCurrent`). `StoreReaders` runs `Store` itself.

Operators named `Bug...` are slips this code could have had. No action uses
them; each stands before a definition it can replace, to see that a property
notices (the pairs are in `PROJECT.json`).

### Store

A `State` is abstracted to the sequence of the transactions that made it, which
is what its audit log holds; its revision is the length. A journal line has the
state after its transaction, whether it parses and whether it ends in a newline.

JSON is not the identity: `json.Marshal` writes a byte that is not UTF-8 as the
escape `\ufffd`, and what is read back is the character U+FFFD, which is
marshalled as itself. Checksums and hashes are taken of the text before and
compared with those after. A request body was JSON itself, so such texts only
come in headers: `X-Actor`, into the audit event, and `Idempotency-Key`, into a
reading. The constants `BadText` and `BadActor` say which transactions have one.
`Agrees` is the checksum of a line (lines 100-103): only its last transaction
was never read back when it was taken, `cloneState` having changed the texts of
all earlier ones. `ChainHolds` is `VerifyAudit` of a state that was read back:
an event keeps the hash it got with its first text.

`pc` is where the holder of the mutex is:

| code | actions |
| --- | --- |
| `Update`, lines 160-216 | `Decline` (the function returns an error or `ErrNoChange`), `Begin`, `AppendJournal`/`AppendFails`, `RenameSnapshot`/`SnapshotFails`, `Publish` |
| `MaybeCompact`, `Compact` | `Inspect` (read lock), then `BeginCompact`, `CompactSnapshot`, `CompactJournal`, `CompactFails` (write lock) |
| `Open`, `load`, lines 44-148 | `Open`, one step per journal line: `LoadLine`, `LoadTail` (torn tail cut off), `LoadRefused`, `LoadFails`; then `AuditRefused` or `LoadDone` |
| the end of a process | `Kill`, `PowerCut` |

The constant `Faults` says what may go wrong besides a kill: `append` (the write
or sync of the journal fails), `short` (it stops half way and the process lives
on), `replace` (writing or renaming a file fails), `power` (a power cut). The
file system is the usual careful one: fsync of a file makes what came before
last, a rename, truncation or write after the last fsync may be undone by a
power cut, in order (`older` holds the contents that may come back).
`promised` is what callers were last shown, `outcome` what each of them knows.

Left out: the links of the audit hash chain (they are in `StoreReaders`, where
`ChainHoldsIfVerified` says that `ChainHolds` is exactly their verification),
`NextID` (in `Ingest`), an unreadable `state.json`.

### Evaluation and ReadingStream

Whole minutes and degrees; quotients are compared by multiplying out; a
fingerprint is kind, start and end. The order of the result is left out, since
`evaluateState` sorts by ID. `ReadingStream` adds readings in any order with any
unused ID and compares the scan with `Expected`, which is written with maximal
windows and sums over adjacent readings instead of a scan.

Two readings of the same minute, from two devices say, are ordered by their
random ID (`evaluate.go:21-22`), and then the ID decides: with a normal and a
warm reading at 5 between warm ones at 0 and 10, the excursion is [0,5] or
[5,10]. A fourth reading at a taken minute can even lower the severity of an
excursion that keeps its fingerprint. `ScanFindsStretches` and
`SeverityNeverDrops` are therefore stated for readings of different times;
`FingerprintsUnique` for all.

### LotCase

| code | actions |
| --- | --- |
| `CreateLot`, `AddReadings`, `Evaluate`, `CloseMonitoring` | the same names; `Recalculate` is `evaluateState` |
| `CreateInvestigation`, `AddEvidence`, `CreateAction`, `UpdateAction`, `SubmitInvestigation`, `VoidInvestigation` | the same names |
| `ReleasePreview`, `CreateDecision` | the same names; `Blockers` is the list of `releasePreview`, `Blocking` what blocks whatever its code |
| `ScanOverdue` | `ScanView`, `ScanUpdate`; `Tick` is the clock |

A handler is one `Update`, hence one step; `Store` shows that updates are
atomic. `AddEvidence` and others look up the lot in a `View` first, but the lot
of an investigation never changes, so nothing can be stale. What a client holds
between two calls is in `seen` (its last preview), what the scanner holds in
`scanner`. A blocker has its code and its object: the code of an open action
changes from `OPEN_ACTION` to `OVERDUE_ACTION` when the clock passes its due
time, with no call and no new version, so the same version may show two lists,
and a decision records the one of its own moment. `VersionGuardsBlockers` is
therefore about what blocks, and about the list only while the clock stands
still. An excursion's ID belongs to its fingerprint for ever, so the
fingerprint is the ID. Field checks of inputs, texts and times of day are left
out, as are policies (a lot's policy is published and frozen, so it is constant
here) and idempotency keys (see `Ingest`).

`Calc`, from sets of readings to excursions, is a constant of `LotCase`;
`MCLotCase` computes it with `Evaluation`, so the runs check the two together.

### Compliance

`Summary` is `buildComplianceSummary`, `InvestigationCase` is
`buildInvestigationCase`, `Export` the exported file. They are functions of the
variables of `LotCase`, with sets where the code counts, so their properties are
invariants of that module's runs. The version of the lot, its decisions and its
audit events are left out of the exported file, so `ReleasedFileStays` does not
speak of them (an end of an action after the release raises the version and adds
an audit event).

### Jobs

| code | actions |
| --- | --- |
| handlers (`service.go`) | `CreateLot`, `ChangeLot`, then `EnqueueChanged` for `AddReadings` |
| `evaluateLoop`: the cases of its select | `Receive`, `RetryTick`, `Drain`; `Elapse` is the time until a retry |
| `evaluate`, with `Service.Evaluate` without the lock and the rest under it | `EvaluateLot` or `EvaluationFails`, then `Record` |
| `overdueLoop` | `ScanTick` or `ScanFails`, one `ScanEnqueue` per lot, `ScanRefresh`; `ScanStop` |
| `main` | `Start`, `Signal`, `ShutDown` or `TimedOut`, `ServeFails`, `Exit`; `Kill` |

A select with several ready cases takes any. `lastError` keeps only where the
text comes from. `by` in a task is history: it remembers who enqueued it, for
`DrainServesHandlers`. The handlers of one lot come one after the other.
`ScanFails` stands for a failure of either half of the scan. Failures that
refuse an evaluation for good (an unknown lot) cannot occur, since lots are
never deleted.

### Ingest

An attempt is one sending of a request; it is handled once, at any time or never,
so that attempts are repeated, late, overtaken and lost. A handler is one update,
which succeeds, is refused, or fails (`Fail`); the state of a failed one may be
what a `Restart` finds, until a later update succeeds. IDs are drawn from the
entropy source (`Drawn`, distinct) or, where that fails, taken from the
persisted number (`Fallback`). `told` collects the answers; whether they arrive
makes no difference, since a client may send again in either case. `DryRun` is
the loop of `ValidateReadings`, written independently of `Offence` as the code
does. The content of a reading stands for its digest, `Valid` for
`ValidateReading`.

Idempotency keys are assumed to be UTF-8. `cloneState` (`store.go:324`) changes
any other key, in the record and in the map of records, so a repeat would not
find it and would be stored twice; what such a key does to the store is in
`Store`.

### StoreReaders

Transactions are about a lot or about none. `ReadPage` is one page of `Audit` or
`ListLots` (without its filters) under the read lock; `walk` is what a client holds between pages.
`WriteBackup` takes the state in memory. A hash is the content hashed: that of an
event is the hash before it with the event's number and transaction at its end,
so different chains have different hashes, and `HashOf` writes one down without
recursion, which the proofs need.
`ValidateBackup` is a predicate, which `DamageIsNoticed` applies to every
backup that differs in one place. It reads no more than 64 MiB
(`backup.go:57`), which `ReadLimit` counts in audit events, the part that every
transaction makes longer; the sizes of lots and readings are left out. A larger
backup is refused, and `WriteBackup` does not look. A reader changes nothing, so one per
behaviour is enough.

## Runs

| run | what it asks | bounds |
| --- | --- | --- |
| `store_kill` | `NoRollback`, `OkIsStored`, `FilesCoverPromise` and the refinement of `DurableLog`, with kills anywhere and every write failing, short or not | 4 transactions, one with a key that is not UTF-8, 2 kills |
| `store_power` | `OkIsStored`, `RollsBackUnansweredOnly`, `Reopenable`, `AlwaysServesAgain`, with power cuts | 4 transactions, one with an actor that is not UTF-8, 3 crashes |
| `reading_stream` | the evaluation against its definition, over all arrivals | 4 readings, 4 times, 4 temperatures (far below, normal, above, far above) |
| `lot_release` | the safety of the case: `ReleasedSafe`, `ReleasedAsPreviewed`, `VersionGuardsBlockers`, `EvaluationCurrent`, `OneSubmittedOwner`, `CaseFileComplete`; and of what is read off it: `CaseFileHolds`, `FileBearsOutRelease`, `ReleasedFileStays` | 3 readings, 2 investigations, 1 action, 1 tick |
| `lot_overdue` | `OverdueNoticed` | 2 readings, 1 investigation, 2 actions, 1 tick, 1 HOLD |
| `jobs` | `NoTaskForgotten`, `FailuresShow`, `DrainServesHandlers`, `HealthComesBack`, `ShutdownEnds`, and that `Jobs` implements `EvaluationDuty` | 2 lots, a queue of 1, 1 failure, 1 stop |
| `ingest` | `NothingTwice`, `AnswersStand`, `RefusedNeverHappened`, `NoFalseConflict`, `DryRunPredicts`, `VersionCountsBatches` | 1 code, 8 requests in 9 attempts, batches of 2, 1 failure, 1 restart, 1 ID not drawn |
| `store_readers` | `WalkSeesAll`, `BackupIsPromised`, `DamageIsNoticed` | 4 transactions, one with an actor that is not UTF-8, 3 lots, pages of 1, 1 restart, writes that fail, `ValidateBackup` reads 2 events |
| `store_short`, `store_lost_rename`, `store_text`, `lot_stuck` | each refutes one sentence of the documentation, see below | 2 transactions, 1 crash; 5 readings, 2 investigations |

Why the bounds are enough. In the store, a failed update, the update that writes
a second line of its revision, and one more on top need three transactions, and
a fourth may have a bad text at any place among them (a bad line is then
refused, or compacted away, or cut off by a crash); a
crash, a crash during the repair and a crash after it need three crashes. The
evaluation looks back one reading, so a stretch, its break and a neighbour need
four. In a case, two investigations suffice for any conflict of ownership, and
the readings are chosen so that an excursion appears and is revoked, a gap is
closed by a late reading, and two grave excursions are active at once. A
cumulative excursion that returns under its old fingerprint takes five readings
(those of `lot_stuck`); that `OneSubmittedOwner` and `CaseFileComplete` survive
it is proved.
`MaxHolds` is 1 only in `lot_overdue`: a HOLD changes nothing but the version.
In `jobs` two lots share a queue of one, so it is full whenever both want it;
the one failure may hit an evaluation or a scan, the one stop may be a signal, a
failure to serve or a kill at any step. In `ingest` two attempts at one lot and
two overlapping batches, one of them sent twice, meet every order of arrival, a
disagreeing batch, a batch that repeats a key, one with a bad reading, and the
close; the failure and the restart fall anywhere. Two walks over three lots or
over the two events of a lot need pages of one entry. With two events read, a
backup of three or more is too large and one of two can be damaged in each way;
the theorems cover all lengths.
TLC looks for deadlock in `jobs` only: elsewhere transactions, readings,
attempts and crashes are bounded, so every behaviour may end.

Fairness. `Store!FairSpec` is weakly fair for `Update`, `Compact` and `Load`:
system calls return, and whoever runs the service starts it again. Crashes are
not fair and bounded, callers are not fair. `LotCase!FairSpec` is weakly fair
for the two halves of `ScanOverdue` only, which a ticker runs as long as the
process lives (`manager.go:146-171`); no user is assumed to do anything.
`Jobs!FairSpec` is strongly fair for each case of the two selects, since Go
chooses among ready cases at random, and weakly fair for the code behind them,
for the time until a retry, for a shutdown to end one way or the other, and for
the service to be started again. Handlers may hang for ever, and nothing need
fail. `EvaluationDuty!Diligence` is only promised when handlers stop enqueuing
at some time (`LoadEnds`): handlers that fill the queue before every scan keep a
new lot out for ever, since `CreateLot` does not enqueue.

`lot_release` uses the symmetry of investigations (safety only).

### What the runs found

* The README of the program says that the journal has one line per successful
  transaction. An update whose snapshot write fails leaves its line, and the
  next start replays it: `DurableLog!Resurface` allows for that, and the trace of
  `store_lost_rename` begins with it.
* `store_short`: it says that an incomplete last line is ignored. When the write
  stopped short in a process that lives on (a full disk), the next append
  continues that line, and the next start refuses the directory.
* `store_lost_rename`: it says that a start replays the journal past the
  snapshot. With the rename of an acknowledged update undone by a power cut
  (nothing syncs the directory), the line of an earlier *failed* update of the
  same revision is replayed in its place.
* `store_text`: one update with an `X-Actor` that is not UTF-8 makes the next
  start fail on its own line's checksum, or on the audit chain after a
  compaction, and every later one: the program refuses a directory nobody
  touched. `Reopenable` and `AlwaysServesAgain` hold with that exception only,
  and their theorems say that there is no other.
* The program's README has backups validated before a restore, but a backup
  larger than 64 MiB is written without an error and never validates:
  `BackupIsPromised` says that size is the only reason for a refusal.
* `lot_stuck`: a refused submission asks the user to confirm the scope of the
  investigation again, but a scope cannot be changed and no route of the server
  calls `VoidInvestigation`: the lot can never be released.
* With power cuts `NoRollback` itself does not hold: a start serves a line that
  a killed process had written but not synced, and a power cut takes it back.
  Only transactions nobody got an answer for can go that way, which is
  `RollsBackUnansweredOnly`.
* A successful evaluation clears an error of the scan from the health check, and
  the scan's own refresh clears the "queue full" it has just written: the health
  check shows failed evaluations (`FailuresShow`), the rest only for a while.
* A lot enqueued while it is being evaluated is not enqueued again. It is
  harmless because whoever enqueues has evaluated it already.
* A shutdown in time leaves at most tasks of the scanner undone, which the next
  start finds again. After the time-out handlers may still enqueue what nobody
  evaluates; the lot itself is current, so nothing is lost.
* A repeat of an accepted batch after the end of monitoring is refused, because
  the status is checked before the idempotency record (`service.go:254,272`).
  `AnswersStand` still holds: the readings are there.
* `CreateLot` has no idempotency key: after a lost answer, or a 500 whose update
  turned up at a restart, its repeat is told that the code exists.
* `ScanOverdue` raises the version of a lot but its audit event names no lot, so
  neither the lot's audit nor its export shows why the version moved.
* The head of a backup without events is not compared (`backup.go:79`), so one
  that lost all its events would pass with a new checksum. `created_at` is
  covered by no checksum. `Health.Writable` is always true.
* After a failed update, `InspectJournal` reports duplicate revisions until the
  next compaction, which `MaybeCompact` therefore never starts.

## Proofs

`StoreProofs` proves, for every set of transactions and any number of crashes:

* `TypeCorrect`: `TypeOK`, with all faults.
* `NeverRollsBack`, `FilesSuffice`, `OkStays`: `NoRollback`,
  `FilesCoverPromise`, `OkIsStored`, with all faults but power cuts.
* `OnlyBegunIsKept`: whatever memory, files and directories hold are
  transactions that `Update` began, with all faults.
* `AlwaysReopens`: `Reopenable`, without power cuts and short writes (with the
  latter it is false, see `store_short`): a start is refused only after an
  `Update` was given a text that is not UTF-8.

`FilesCoverPromise` is not inductive: it does not say that the other lines of
the journal are harmless, nor what a process in the middle of an update or of
`load` knows. `IInv` adds that the snapshot is at most one ahead of the promise,
that every line of a promised revision that comes first is the promised state,
that at most one revision past it occurs, that a serving process has
`mem = promised`, and how far a loading one has got (`FilesOK`, `ServingOK`,
`LoadOK`). The lemmas follow one write each: what appending, a leftover, a
rename, a truncation and a replayed line do to agreement with the promise.
For `Reopenable`, `NoSpoiledLine` says that no revision is skipped and no complete
line is corrupt; what else `Open` may refuse, a checksum or the chain, needs a bad
text in a line or in the state found, and by `OnlyBegun` that text was begun.
`OnlyOpenRefuses` and `TextStays` carry this through the other steps. The only assumption is
`StoreAssumption`. Every inductive invariant named in this section was checked
with TLC on the bounds of a run before it was proved.

`StoreRefinementProofs` proves that `Store` implements `DurableLog`, with all
faults but power cuts (`StoreIsALog`). `IInv` says which state a restart may
show, but not whose transaction it ends in: a restart must not show one that was
declined, or one that is in the log already. `AnswersOK` follows the answers:
whoever is shown was told ok, an error or nothing (`ShownAnswers`), only the
transaction of the holder of the lock is running (`OneRunning`), and whatever
the snapshot, a line or a half-finished `load` has beyond the promise ends in a
new transaction without a success (`Ahead`). Then each action maps to one step
of the log: `Decline` to `Refuse`, `Begin` to `Submit`, `Publish` to `Ack`,
`AppendFails` and `SnapshotFails` to `Error`, `Kill` to `Lose`, `LoadDone` to
`Resurface` or to nothing, all others to nothing.

`StorePowerProofs` proves for power cuts, with no failing calls
(`Faults \subseteq {"power"}`, as `store_power` runs it), `OkIsStored`
(`OkSurvivesPowerCuts`), `RollsBackUnansweredOnly` (`OnlyUnansweredRollsBack`)
and `Reopenable` (`ReopensAfterPowerCut`; `OnlyBegun` again says where a bad text
came from). `IInv` is of no use here: the
snapshot a power cut brings back may be older than the promise by any number of
updates. `PowerInv` instead speaks of all directories that may be found, the
current one and those in `older`. Each recovers one state (`Recovers`: all its
lines and its snapshot are beginnings of that state, which is the last of them,
and only a last line may be torn), and that state has every answered transaction
at the place where the promise has it, and no others than were asked for
(`Same`, `Asked`). Directories without a line have the snapshot in common
(`BareAlike`), so that those a cut-off write leaves differ only in the line it
wrote; before a compaction the journal holds the promise, so that either file
alone recovers it. While `load` runs, what it has read is a beginning of what its
directory recovers (`LoadingPower`), and at its end it is that state
(`LoadDonePowerKeeps`). `DirectoriesAgree` is the invariance of `PowerInv`.

`StoreReadersProofs` proves, with all faults but power cuts and for any lots and
page size (`ReadersAssumption`), `BackupIsPromised` (`BackupsArePromised`),
`DamageIsNoticed` (`DamageIsAlwaysNoticed`) and `WalkSeesAll` (`WalksSeeAll`).
Readers leave the store alone (`ReadersRunTheStore`), so what `StoreProofs` says
of the promise holds beside them. `BackupOK` says that a backup is one of a
beginning of the promise whose chain holds, so that nothing but its size can make
`ValidateBackup` refuse it; `ChainHoldsIfVerified` ties `ChainHolds` of `Store` to
`VerifyAudit`. That a chain verifies, and that each kind of damage
breaks it or its head, are lemmas about `Audit`. `PageFacts` says what a page
is - a run of entries from the first past the cursor, ended by the next cursor -
and `ListingGrows` what may happen to a listing in between; `WalkOK` adds to
`WalkSeesAll` that the cursor is the last entry the client got.

`LotCaseProofs` proves, for any readings, investigations, actions and bounds and
for any evaluation `Calc` that gives no excursion for no readings and no
fingerprint twice (`LotAssumption`; `FindingsFitTheCase` below says that the
evaluation is one):

* `TypeCorrect`; `EvaluationIsCurrent`, `CaseFileStaysComplete`,
  `SubmittedOwnersDisjoint`, `ReleasedStaysSafe`: the invariants `TypeOK`,
  `EvaluationCurrent`, `CaseFileComplete`, `OneSubmittedOwner`, `ReleasedSafe`.
* `VersionStandsForBlockers`, `ReleaseNeedsClearPreview`: the action properties
  `VersionGuardsBlockers` and `ReleasedAsPreviewed`. `BlockersInParts` sets the
  open actions, whose code the clock decides, apart from the other blockers.

Four facts make them inductive. `Unregistered`: nothing exists of a lot before
`CreateLot`. `ActiveIsCalc`: the active excursions are always those of all
accepted readings, not only while the evaluation is called current; this is why
an evaluation of a released lot changes nothing. `ReviewIsEvaluated`: from the
close on `EvaluationVersion` is the version, so no evaluation can clear a
`STALE_EVALUATION` blocker unseen. `SeenTrue`: a preview of the lot's own
version says what a new one would say. The frame lemmas (`InvFrame`,
`EvaluationFrame`, `VersionFrame`) say once which calls touch what; most
invariants then only meet the few calls that concern them.

Of the case file it proves from the same assumption, which for this includes that
no investigation is called "none", the value that stands for no investigation,
`CaseFileHolds` (`CaseFileAlwaysHolds`), `FileBearsOutRelease`
(`FileAlwaysBearsOutRelease`) and `ReleasedFileStays`
(`ReleasedFileOnlyEndsActions`). Beyond the invariants of `LotCase` they need
that no excursion is active and revoked (`Apart`), that what was submitted has
evidence (`Evidenced`) and that an action that was not created belongs to no
investigation (`Unlinked`): the loops of the summary rely on these without
looking.

`IngestProofs` proves, for any requests, batches, attempts and bounds
(`IngestAssumption`), `TypeOK` (`IngestTypes`), `NothingTwice`
(`NothingIsMadeTwice`), `AnswersStand` (`AnswersAlwaysStand`),
`RefusedNeverHappened` (`RefusalsAreFinal`), `NoFalseConflict`
(`ConflictsAreTrue`), `DryRunPredicts` (`DryRunAlwaysPredicts`) and
`VersionCountsBatches` (`VersionAlwaysCounts`). None of them is inductive,
because a restart may put the state of a failed update in the place of the
current one. `IngestInv` therefore speaks of the current state and of every state
that may still turn up: each of them is `Coherent` (no twins, records and
readings correspond, everything was asked for by the attempt it bears, IDs below
the persisted number, versions count), has grown from the current one (`Grows`)
and holds only what attempts made that were answered with success or 500
(`MadeBy`). What an answer promised of the current state (`Promise`, `Reason`)
then holds of whatever replaces it.

`JobsProofs` proves, for any lots, queue size and bounds (`JobsAssumption`), the
invariants `TypeOK` (`TypeCorrect`), `NoTaskForgotten` (`NothingForgotten`),
`FailuresShow` (`NoFailureHidden`), `DrainServesHandlers`
(`DrainLeavesNothing`), and that every step is one of `EvaluationDuty` or
changes no lot (`DutyIsSafe`). `NoTaskForgotten` becomes inductive with what the
worker's places mean: outside its loop it holds no lot (`AtRest`), a task has an
owner or an attempt, so that none looks like no task (`OwnedTasks`), and a
process that is down has nothing (`Cold`). `FailureKnown` says that a failed task always has its
error shown, through every other writer of `lastError`; `DrainInv` that after a
shutdown in time no handler is left that could enqueue; `Registered` that only
registered lots are in queue, tasks and hands, so that no evaluation invents
one.

`EvaluationProofs` proves, for any valid policy (`PolicyAssumption`) and any
stream of readings (`StreamAssumption`), `ScanFindsStretches`
(`FindingsAreTheStretches`), `FingerprintsUnique` (`FingerprintsAlwaysUnique`)
and `SeverityNeverDrops` (`SeverityHolds`), and that the findings meet what
`LotAssumption` asks of `Calc` (`FindingsFitTheCase`), so that what
`LotCaseProofs` assumes of the evaluation is a theorem about it. They rest on
`AlwaysStored`: the readings are finitely many and have IDs of their own.

* The sort, the scan and the collecting of excursions are functions of how much
  of the list is done. `CountUp` is the induction over that number (by
  `LeastOf`: a least counterexample), `ByRecursion` says that a function defined
  from its value one before exists; sums over sets come from it as well
  (`SumOfList`: the sum is what a list of the elements adds up to).
* `ScanInv` is the invariant of the scan: after i readings, the finished
  segments are the gaps up to i and the runs that ended before i, one after the
  other (`Listed`), and the current segment is the run that i is in. `StepKeeps`
  is its step, with a lemma for a gap (`GapListed`), for a reading that goes on
  with the run (`RunGoesOn`) and for one that begins a new one (`RunBegins`).
  `TallyInv` is the invariant of the collecting.
* Excursions take time and follow one another, so no two have the same start
  and end, hence `FingerprintsUnique`; a run with the same ends has the readings it had and
  perhaps one more, so its peak is no better (`FoundRun`, `WorseIsNoLess`),
  hence `SeverityNeverDrops`.
* For `ScanFindsStretches`, a `Timeline` turns each notion of `ReadingStream`
  into one about places in the list: adjacent readings are neighbours
  (`AdjacentAre`), maximal stretches are whole runs (`MaximalAreRuns`), their
  exposure is the difference of a running sum (`ExposureIs`), the totals are
  those of the tally (`TotalsAre`).

Only model-checked is what is out of reach of the prover: liveness
(`AlwaysServesAgain`, `OverdueNoticed`, `HealthComesBack`, `ShutdownEnds`, the
fairness of `EvaluationDuty`). Neither runs nor theorems cover power cuts
together with failing calls, or `DurableLog` and the readers under power cuts.

## Not modelled

* Two processes on one data directory, the import beside a running server. There
  is no lock, and each would write revisions of its own; neither the code nor its
  documents claim anything for this case, so there is nothing to check.
* HTTP decoding, routes and headers, the NDJSON parser, address parsing, flags
  and the self check: they keep no state.
* The single field checks of `ValidateLot`, `ValidateReading` and the inputs of
  investigations and actions; listings that are one filter over one state;
  `Statistics`; `CreatePolicy`.
* The width of integers: a policy of more than 153 722 867 280 minutes wraps
  around in `time.Duration`.

## Plan

1. (done) the store, its abstract log and its proofs; the evaluation; the case
   of a lot and its proofs.
2. (done) the jobs, their duty and their proofs; the intake; the case file; pages
   and backups.
3. (done) the proofs of the intake, of the case file and of the readers; `Store`
   implements `DurableLog`.
4. (done) the proofs with power cuts.
5. What readers are promised when power is cut: a backup then need not be a
   beginning of a later promise.
6. (done) The evaluation for readings of any number: what it finds, that the
   fingerprints of the findings differ, that no severity drops, and that the
   findings meet `LotAssumption`.
