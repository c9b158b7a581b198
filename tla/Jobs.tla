-------------------------------- MODULE Jobs --------------------------------
(***************************************************************************)
(* The background jobs next to the HTTP handlers that feed them, and the   *)
(* server's shutdown (internal/jobs/manager.go, cmd/thermoguard/main.go).  *)
(*                                                                         *)
(* The processes are the handlers, one per lot; the worker (evaluateLoop); *)
(* the scanner (overdueLoop); and main.  What they share is the queue, the *)
(* map of pending tasks under the manager's lock, and lastError, which is  *)
(* all the health check sees of them.                                      *)
(*                                                                         *)
(* Of a lot only its evaluation counts: it is stale when EvaluationVersion *)
(* is behind Version.  Only CreateLot leaves it so; every other handler    *)
(* that changes a lot sets both (EvaluationCurrent of module LotCase).     *)
(* Lots survive a stop of the process, the rest does not.                  *)
(*                                                                         *)
(* Operators whose name starts with Bug are used by no definition: see     *)
(* module Store.                                                           *)
(***************************************************************************)
EXTENDS Naturals, Sequences, Functions

CONSTANTS Lots,
          QueueSize,     \* of the channel
          MaxFailures,   \* bound on failing evaluations and scans
          MaxStops       \* bound on signals, kills and failures to serve

ASSUME JobsAssumption ==
  /\ "none" \notin Lots
  /\ QueueSize \in Nat \ {0}
  /\ {MaxFailures, MaxStops} \subseteq Nat

VARIABLES
  lots,               \* "none", "stale", "current"; in the store
  handler,            \* "idle", "updated": the lot is changed and not enqueued
  queue, pending,     \* Manager.queue and Manager.pending
  lastError,          \* Manager.lastError, "none" for the empty string
  worker,             \* "select", "working", "draining", "stopped"
  todo,               \* the lots of the worker's loop
  result,             \* of an evaluation, until the worker has the lock
  scanner, found,     \* "select", "enqueuing", "stopped"; the lots to enqueue
  main,               \* "serving", "closing", "drained", "timedout", "failed", "down"
  failures, stops     \* counters for the bounds

manager == <<queue, pending, lastError>>
working == <<worker, todo, result>>
scanning == <<scanner, found>>
counters == <<failures, stops>>
vars == <<lots, handler, manager, working, scanning, main, counters>>

\* by is no field of pendingTask: it remembers who enqueued the task first.
NoTask == [attempt |-> 0, wait |-> 0, by |-> "none"]
NewTask(who) == [attempt |-> 0, wait |-> 0, by |-> who]
NoResult == [lot |-> "none", outcome |-> "none"]

Pending == {l \in Lots : pending[l] # NoTask}
Failed == {l \in Lots : pending[l].attempt > 0}
Healthy == main # "down" /\ lastError = "none"

\* The context of the jobs.
BugCancelledAtOnce == main \in {"closing", "drained", "timedout", "failed"}
Cancelled == main \in {"drained", "timedout", "failed"}

Init ==
  /\ lots = [l \in Lots |-> "none"]
  /\ handler = [l \in Lots |-> "idle"]
  /\ queue = <<>> /\ pending = [l \in Lots |-> NoTask] /\ lastError = "none"
  /\ worker = "stopped" /\ todo = {} /\ result = NoResult
  /\ scanner = "stopped" /\ found = {}
  /\ main = "down" /\ failures = 0 /\ stops = 0

----------------------------------------------------------------------------
(* The manager's operations, under its lock.                               *)

BugPendingWithoutRoom(l, who) ==
  /\ pending' = IF l \in Pending THEN pending ELSE [pending EXCEPT ![l] = NewTask(who)]
  /\ queue' = IF l \in Pending \/ Len(queue) = QueueSize THEN queue ELSE Append(queue, l)
  /\ lastError' = IF l \in Pending \/ Len(queue) < QueueSize THEN lastError ELSE "full"

BugQueueGrows(l, who) ==
  /\ pending' = IF l \in Pending THEN pending ELSE [pending EXCEPT ![l] = NewTask(who)]
  /\ queue' = IF l \in Pending THEN queue ELSE Append(queue, l)
  /\ UNCHANGED lastError

Enqueue(l, who) ==
  \/ l \in Pending /\ UNCHANGED manager
  \/ /\ l \notin Pending /\ Len(queue) < QueueSize
     /\ queue' = Append(queue, l)
     /\ pending' = [pending EXCEPT ![l] = NewTask(who)]
     /\ UNCHANGED lastError
  \/ /\ l \notin Pending /\ Len(queue) = QueueSize
     /\ lastError' = "full"
     /\ UNCHANGED <<queue, pending>>

\* refreshLastErrorLocked
BugRefreshBlindly(tasks) == lastError' = "none"
Refresh(tasks) ==
  lastError' = IF \E l \in Lots : tasks[l].attempt > 0 THEN "evaluate" ELSE "none"

\* 250 ms, doubled with each attempt up to the fifth; the unit is the 250 ms
\* of the retry ticker.
Delay(attempt) == <<1, 2, 4, 8, 16>>[IF attempt < 5 THEN attempt ELSE 5]

BugRetryForgotten(l) ==
  LET tasks == [pending EXCEPT ![l].wait = 1]
  IN pending' = tasks /\ lastError' = "evaluate" /\ UNCHANGED queue

Retry(l) ==
  LET attempt == pending[l].attempt + 1
  IN /\ pending' = [pending EXCEPT ![l] =
                      [attempt |-> attempt, wait |-> Delay(attempt), by |-> pending[l].by]]
     /\ lastError' = "evaluate"
     /\ UNCHANGED queue

Delete(l) ==
  /\ pending' = [pending EXCEPT ![l] = NoTask]
  /\ Refresh(pending')
  /\ UNCHANGED queue

----------------------------------------------------------------------------
(* The handlers.  A request that is running when the server shuts down runs *)
(* on: Shutdown waits for it, or main ends without it.                     *)

Handling(l) == main \notin {"drained", "down"} /\ handler[l] = "idle"

\* CreateLot asks for no evaluation.
CreateLot(l) ==
  /\ Handling(l) /\ lots[l] = "none"
  /\ lots' = [lots EXCEPT ![l] = "stale"]
  /\ UNCHANGED <<handler, manager, working, scanning, main, counters>>

\* AddReadings enqueues what it changed and evaluated; other handlers do not.
ChangeLot(l) ==
  /\ Handling(l) /\ lots[l] # "none"
  /\ lots' = [lots EXCEPT ![l] = "current"]
  /\ \E then \in {"updated", "idle"} : handler' = [handler EXCEPT ![l] = then]
  /\ UNCHANGED <<manager, working, scanning, main, counters>>

EnqueueChanged(l) ==
  /\ handler[l] = "updated"
  /\ handler' = [handler EXCEPT ![l] = "idle"]
  /\ Enqueue(l, "handler")
  /\ UNCHANGED <<lots, working, scanning, main, counters>>

----------------------------------------------------------------------------
(* The worker.  Select takes any of its cases that is ready: the context   *)
(* may be done and the queue still be read.                                *)

Receive ==
  /\ worker = "select" /\ queue # <<>>
  /\ worker' = "working" /\ todo' = {Head(queue)} /\ queue' = Tail(queue)
  /\ UNCHANGED <<lots, handler, pending, lastError, result, scanning, main, counters>>

RetryTick ==
  LET due == {l \in Failed : pending[l].wait = 0}
  IN /\ worker = "select" /\ due # {}
     /\ worker' = "working" /\ todo' = due
     /\ UNCHANGED <<lots, handler, manager, result, scanning, main, counters>>

Drain ==
  /\ worker = "select" /\ Cancelled
  /\ worker' = IF Pending = {} THEN "stopped" ELSE "draining"
  /\ todo' = Pending
  /\ UNCHANGED <<lots, handler, manager, result, scanning, main, counters>>

\* Service.Evaluate on the next lot; the manager's lock is not held.
EvaluateLot(l) ==
  /\ l \in todo /\ result = NoResult
  /\ todo' = todo \ {l}
  /\ result' = [lot |-> l, outcome |-> "ok"]
  /\ lots' = [lots EXCEPT ![l] = "current"]
  /\ UNCHANGED <<handler, manager, worker, scanning, main, counters>>

EvaluationFails(l) ==
  /\ l \in todo /\ result = NoResult /\ failures < MaxFailures
  /\ failures' = failures + 1
  /\ todo' = todo \ {l}
  /\ result' = [lot |-> l, outcome |-> "error"]
  /\ UNCHANGED <<lots, handler, manager, worker, scanning, main, stops>>

Record ==
  /\ result # NoResult
  /\ IF result.outcome = "ok" THEN Delete(result.lot) ELSE Retry(result.lot)
  /\ result' = NoResult
  /\ worker' = IF todo # {} THEN worker
               ELSE IF worker = "draining" THEN "stopped" ELSE "select"
  /\ UNCHANGED <<lots, handler, todo, scanning, main, counters>>

Elapse ==
  /\ \E l \in Lots : pending[l].wait > 0
  /\ pending' = [l \in Lots |->
       IF pending[l].wait = 0 THEN pending[l]
       ELSE [attempt |-> pending[l].attempt, wait |-> pending[l].wait - 1, by |-> pending[l].by]]
  /\ UNCHANGED <<lots, handler, queue, lastError, working, scanning, main, counters>>

----------------------------------------------------------------------------
(* The scanner.  Overdue actions are module LotCase's; here its other job, *)
(* the lots whose evaluation is missing.                                   *)

ScanTick ==
  /\ scanner = "select"
  /\ scanner' = "enqueuing"
  /\ found' = {l \in Lots : lots[l] = "stale"}
  /\ UNCHANGED <<lots, handler, manager, working, main, counters>>

ScanFails ==
  /\ scanner = "select" /\ failures < MaxFailures
  /\ failures' = failures + 1
  /\ lastError' = "scan"
  /\ UNCHANGED <<lots, handler, queue, pending, working, scanning, main, stops>>

ScanEnqueue(l) ==
  /\ l \in found
  /\ found' = found \ {l}
  /\ Enqueue(l, "scan")
  /\ UNCHANGED <<lots, handler, working, scanner, main, counters>>

BugScanKeepsError ==
  /\ scanner = "enqueuing" /\ found = {}
  /\ scanner' = "select"
  /\ UNCHANGED <<lots, handler, manager, working, found, main, counters>>

ScanRefresh ==
  /\ scanner = "enqueuing" /\ found = {}
  /\ scanner' = "select"
  /\ Refresh(pending)
  /\ UNCHANGED <<lots, handler, queue, pending, working, found, main, counters>>

ScanStop ==
  /\ scanner = "select" /\ Cancelled
  /\ scanner' = "stopped"
  /\ UNCHANGED <<lots, handler, manager, working, found, main, counters>>

----------------------------------------------------------------------------
(* Main: on a signal the server shuts down, for ten seconds at most; then, *)
(* and when it cannot serve, the jobs stop.                                *)

Leave(from, to) ==
  /\ main = from /\ main' = to
  /\ UNCHANGED <<lots, handler, manager, working, scanning, failures>>

Stop(to) == stops < MaxStops /\ stops' = stops + 1 /\ Leave("serving", to)
Signal == Stop("closing")
ServeFails == Stop("failed")

AllIdle == \A l \in Lots : handler[l] = "idle"
ShutDown == AllIdle /\ Leave("closing", "drained") /\ UNCHANGED stops
TimedOut == Leave("closing", "timedout") /\ UNCHANGED stops

GoDown ==
  /\ main' = "down"
  /\ handler' = [l \in Lots |-> "idle"]
  /\ queue' = <<>> /\ pending' = [l \in Lots |-> NoTask] /\ lastError' = "none"
  /\ worker' = "stopped" /\ todo' = {} /\ result' = NoResult
  /\ scanner' = "stopped" /\ found' = {}
  /\ UNCHANGED <<lots, failures>>

BugExitWaitsForHandlers ==
  /\ Cancelled /\ AllIdle /\ worker = "stopped" /\ scanner = "stopped"
  /\ GoDown /\ UNCHANGED stops

\* Manager.Wait, and the process ends, with the handlers it may still run.
Exit ==
  /\ Cancelled /\ worker = "stopped" /\ scanner = "stopped"
  /\ GoDown /\ UNCHANGED stops

Kill ==
  /\ main # "down" /\ stops < MaxStops
  /\ stops' = stops + 1
  /\ GoDown

Start ==
  /\ main = "down" /\ main' = "serving"
  /\ worker' = "select" /\ scanner' = "select"
  /\ UNCHANGED <<lots, handler, manager, todo, result, found, counters>>

----------------------------------------------------------------------------

Next ==
  \/ \E l \in Lots : \/ CreateLot(l) \/ ChangeLot(l) \/ EnqueueChanged(l)
                     \/ EvaluateLot(l) \/ EvaluationFails(l)
                     \/ ScanEnqueue(l)
  \/ Receive \/ RetryTick \/ Drain \/ Record \/ Elapse
  \/ ScanTick \/ ScanFails \/ ScanRefresh \/ ScanStop
  \/ Signal \/ ServeFails \/ ShutDown \/ TimedOut \/ Exit \/ Kill \/ Start

Spec == Init /\ [][Next]_vars

\* The worker, the scanner and the handlers' server make progress.  Go's
\* select takes a ready case at random, so that one that is ready again and
\* again is taken in the end: strong fairness for the cases of a select, weak
\* for the straight code behind them.  No handler need ever finish, and
\* nothing need fail.  Whoever runs the server starts it again.
WorkerRuns == /\ SF_vars(Receive) /\ SF_vars(RetryTick) /\ SF_vars(Drain)
              /\ WF_vars(Record) /\ WF_vars(Elapse)
              /\ WF_vars(\E l \in Lots : EvaluateLot(l))
ScannerRuns == /\ SF_vars(ScanTick) /\ SF_vars(ScanStop)
               /\ WF_vars(ScanRefresh) /\ WF_vars(\E l \in Lots : ScanEnqueue(l))
MainRuns == WF_vars(ShutDown \/ TimedOut) /\ WF_vars(Exit) /\ WF_vars(Start)

FairSpec == Spec /\ WorkerRuns /\ ScannerRuns /\ MainRuns

----------------------------------------------------------------------------
(* Properties.                                                             *)

Task == [attempt : Nat, wait : 0..16, by : {"none", "handler", "scan"}]

TypeOK ==
  /\ lots \in [Lots -> {"none", "stale", "current"}]
  /\ handler \in [Lots -> {"idle", "updated"}]
  /\ queue \in Seq(Lots) /\ Len(queue) <= QueueSize
  /\ pending \in [Lots -> Task]
  /\ lastError \in {"none", "full", "evaluate", "scan"}
  /\ worker \in {"select", "working", "draining", "stopped"}
  /\ todo \subseteq Lots
  /\ result \in [lot : Lots, outcome : {"ok", "error"}] \cup {NoResult}
  /\ scanner \in {"select", "enqueuing", "stopped"} /\ found \subseteq Lots
  /\ main \in {"serving", "closing", "drained", "timedout", "failed", "down"}
  /\ failures \in 0..MaxFailures /\ stops \in 0..MaxStops

\* While the worker lives, a pending task is in the queue, in the worker's
\* hands or waits to be tried again.  Enqueue turns a lot that is pending
\* away (manager.go:58), so a task that were none of these would never be
\* done, and keep every later one out.
NoTaskForgotten ==
  worker # "stopped" =>
    \A l \in Pending : l \in Range(queue) \cup todo \cup {result.lot} \cup Failed

\* The health check never reports a process healthy whose last evaluation of
\* some lot failed, though evaluations that succeed, scans and a full queue
\* write lastError too (manager.go:47, 97-139).
FailuresShow == Healthy => Failed = {}

\* After a shutdown in time, what handlers enqueued has been evaluated when
\* the worker stops, or its evaluation failed: main waits for the handlers
\* before it cancels the jobs (main.go:77-85), and only the scanner can still
\* add a task behind the worker's back.
DrainServesHandlers ==
  main = "drained" /\ worker = "stopped"
    => \A l \in Pending : l \in Failed \/ pending[l].by = "scan"

\* From some time on no handler enqueues; one may hang before.
LoadEnds == <>[](\A l \in Lots : handler[l] # "updated")

\* Every registered lot is evaluated in the end, over lost wake-ups, a full
\* queue, failing evaluations and scans, stops and restarts, unless the
\* handlers fill the queue before every scan for ever; and no evaluation is
\* taken back (manager.go:52-177).
EvaluationsDue == INSTANCE EvaluationDuty
ImplementsDuty == EvaluationsDue!Duty /\ (LoadEnds => EvaluationsDue!Diligence)

\* An error does not stay in the health check for ever when nothing fails any
\* more (manager.go:132-139, 170-172).
HealthComesBack == (lastError # "none") ~> (lastError = "none")

\* A shutdown ends, with a handler that hangs and with evaluations that fail
\* (main.go:75-85, manager.go:121-130).
ShutdownEnds == (main = "closing") ~> (main = "down")
=============================================================================
