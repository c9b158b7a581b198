----------------------------- MODULE JobsProofs -----------------------------
(***************************************************************************)
(* Proofs about module Jobs: its types, and that no task is forgotten, no  *)
(* failure hidden and nothing of the handlers left behind by a shutdown,   *)
(* for every number of lots, queue size, failure and stop.                 *)
(***************************************************************************)
EXTENDS Jobs, TLAPS

\* What the cases of Next have in common is proved per group of them.
HandlerStep == \E l \in Lots : CreateLot(l) \/ ChangeLot(l) \/ EnqueueChanged(l)
WorkerStep == \/ Receive \/ RetryTick \/ Drain \/ Record \/ Elapse
              \/ \E l \in Lots : EvaluateLot(l) \/ EvaluationFails(l)
ScannerStep == \/ ScanTick \/ ScanFails \/ ScanRefresh \/ ScanStop
               \/ \E l \in Lots : ScanEnqueue(l)
MainStep == Signal \/ ServeFails \/ ShutDown \/ TimedOut \/ Exit \/ Kill \/ Start

LEMMA NextSplit ==
  [Next]_vars <=> HandlerStep \/ WorkerStep \/ ScannerStep \/ MainStep \/ UNCHANGED vars
BY DEF Next, HandlerStep, WorkerStep, ScannerStep, MainStep

----------------------------------------------------------------------------
(* The manager's operations.                                               *)

LEMMA DelayType == ASSUME NEW n \in Nat \ {0} PROVE Delay(n) \in 0..16
<1>1. CASE n < 5
  BY <1>1, n = 1 \/ n = 2 \/ n = 3 \/ n = 4 DEF Delay
<1>2. CASE ~(n < 5)
  BY <1>2 DEF Delay
<1> QED
  BY <1>1, <1>2

LEMMA TaskTypes == NoTask \in Task /\ NewTask("handler") \in Task /\ NewTask("scan") \in Task
BY DEF NoTask, NewTask, Task

LEMMA InRange ==
  ASSUME NEW f, NEW x PROVE x \in Range(f) <=> \E i \in DOMAIN f : f[i] = x
BY Zenon DEF Range

LEMMA AppendRange ==
  ASSUME NEW q \in Seq(Lots), NEW l \in Lots
  PROVE  /\ Append(q, l) \in Seq(Lots) /\ Len(Append(q, l)) = Len(q) + 1
         /\ \A x : x \in Range(Append(q, l)) <=> x = l \/ x \in Range(q)
<1>1. /\ Append(q, l) \in Seq(Lots) /\ Len(Append(q, l)) = Len(q) + 1
      /\ Len(q) \in Nat /\ DOMAIN q = 1..Len(q) /\ DOMAIN Append(q, l) = 1..(Len(q) + 1)
      /\ \A i \in 1..Len(q) : Append(q, l)[i] = q[i]
      /\ Append(q, l)[Len(q) + 1] = l
  OBVIOUS
<1>2. \A x : (\E i \in DOMAIN Append(q, l) : Append(q, l)[i] = x)
              <=> x = l \/ (\E i \in DOMAIN q : q[i] = x)
  BY <1>1
<1> QED
  BY <1>1, <1>2, InRange

LEMMA HeadTailRange ==
  ASSUME NEW q \in Seq(Lots), q # <<>>
  PROVE  /\ Head(q) \in Lots /\ Tail(q) \in Seq(Lots) /\ Len(Tail(q)) = Len(q) - 1
         /\ \A x : x \in Range(q) <=> x = Head(q) \/ x \in Range(Tail(q))
<1>1. /\ Head(q) \in Lots /\ Tail(q) \in Seq(Lots) /\ Len(Tail(q)) = Len(q) - 1
      /\ Len(q) \in Nat \ {0} /\ Head(q) = q[1]
      /\ DOMAIN q = 1..Len(q) /\ DOMAIN Tail(q) = 1..(Len(q) - 1)
      /\ \A i \in 1..(Len(q) - 1) : Tail(q)[i] = q[i + 1]
  OBVIOUS
<1>2. \A i \in DOMAIN q : i = 1 \/ (i - 1 \in DOMAIN Tail(q) /\ Tail(q)[i - 1] = q[i])
  BY <1>1
<1>3. \A x : (\E i \in DOMAIN q : q[i] = x)
              <=> x = Head(q) \/ (\E i \in DOMAIN Tail(q) : Tail(q)[i] = x)
  <2> TAKE x
  <2>1. ASSUME \E i \in DOMAIN q : q[i] = x
        PROVE  x = Head(q) \/ \E i \in DOMAIN Tail(q) : Tail(q)[i] = x
    BY <2>1, <1>1, <1>2
  <2>2. x = Head(q) => \E i \in DOMAIN q : q[i] = x
    BY <1>1
  <2>3. ASSUME NEW i \in DOMAIN Tail(q), Tail(q)[i] = x
        PROVE  \E k \in DOMAIN q : q[k] = x
    BY <2>3, <1>1, i + 1 \in DOMAIN q
  <2> QED
    BY <2>1, <2>2, <2>3
<1>4. \A x : x \in Range(q) <=> x = Head(q) \/ x \in Range(Tail(q))
  <2> TAKE x
  <2>1. x \in Range(q) <=> \E i \in DOMAIN q : q[i] = x
    BY InRange
  <2>2. x \in Range(Tail(q)) <=> \E i \in DOMAIN Tail(q) : Tail(q)[i] = x
    BY InRange
  <2> QED
    BY <2>1, <2>2, <1>3, Zenon
<1> QED
  BY <1>1, <1>4

ManagerType == /\ queue \in Seq(Lots) /\ Len(queue) <= QueueSize
               /\ pending \in [Lots -> Task]
               /\ lastError \in {"none", "full", "evaluate", "scan"}

LEMMA EnqueueType ==
  ASSUME ManagerType, NEW l \in Lots, NEW who \in {"handler", "scan"}, Enqueue(l, who)
  PROVE  ManagerType'
<1>1. NewTask(who) \in Task
  BY TaskTypes
<1>2. queue \in Seq(Lots) /\ QueueSize \in Nat /\ Len(queue) \in Nat
  BY JobsAssumption DEF ManagerType
<1>3. Append(queue, l) \in Seq(Lots) /\ (Len(queue) < QueueSize => Len(Append(queue, l)) <= QueueSize)
  BY <1>2, AppendRange
<1>4. CASE l \in Pending
  BY <1>4 DEF ManagerType, Enqueue, manager
<1>5. CASE l \notin Pending /\ Len(queue) < QueueSize
  <2>1. queue' = Append(queue, l) /\ pending' = [pending EXCEPT ![l] = NewTask(who)]
        /\ lastError' = lastError
    BY <1>2, <1>5 DEF Enqueue
  <2> QED
    BY <1>1, <1>3, <1>5, <2>1 DEF ManagerType
<1>6. CASE l \notin Pending /\ Len(queue) = QueueSize
  BY <1>2, <1>6 DEF ManagerType, Enqueue
<1> QED
  BY <1>4, <1>5, <1>6 DEF Enqueue

LEMMA RecordType ==
  ASSUME ManagerType, NEW l \in Lots, Delete(l) \/ Retry(l)
  PROVE  ManagerType'
<1>1. CASE Delete(l)
  BY <1>1, TaskTypes DEF ManagerType, Delete, Refresh
<1>2. CASE Retry(l)
  <2>1. pending[l] \in Task
    BY DEF ManagerType
  <2>2. [attempt |-> pending[l].attempt + 1, wait |-> Delay(pending[l].attempt + 1),
         by |-> pending[l].by] \in Task
    <3>1. pending[l].attempt + 1 \in Nat \ {0} /\ pending[l].by \in {"none", "handler", "scan"}
      BY <2>1 DEF Task
    <3> QED
      BY <3>1, DelayType DEF Task
  <2> QED
    BY <1>2, <2>2 DEF ManagerType, Retry
<1> QED
  BY <1>1, <1>2

----------------------------------------------------------------------------
(* Type correctness.                                                       *)

\* The queue never outgrows its channel and every variable keeps its type.
THEOREM TypeCorrect == Spec => []TypeOK
<1> USE DEF NoResult
<1>1. Init => TypeOK
  BY JobsAssumption, TaskTypes DEF Init, TypeOK
<1>2. TypeOK /\ [Next]_vars => TypeOK'
  <2> SUFFICES ASSUME TypeOK, [Next]_vars PROVE TypeOK'
    OBVIOUS
  <2>m. ManagerType
    BY DEF TypeOK, ManagerType
  <2>1. CASE HandlerStep
    <3>1. PICK l \in Lots : CreateLot(l) \/ ChangeLot(l) \/ EnqueueChanged(l)
      BY <2>1 DEF HandlerStep
    <3>2. CASE CreateLot(l)
      BY <3>2 DEF TypeOK, CreateLot, manager, working, scanning, counters
    <3>3. CASE ChangeLot(l)
      BY <3>3 DEF TypeOK, ChangeLot, manager, working, scanning, counters
    <3>4. CASE EnqueueChanged(l)
      <4>1. ManagerType'
        BY <3>4, <2>m, EnqueueType DEF EnqueueChanged
      <4> QED
        BY <3>4, <4>1 DEF TypeOK, ManagerType, EnqueueChanged, working, scanning, counters
    <3> QED
      BY <3>1, <3>2, <3>3, <3>4
  <2>2. CASE WorkerStep
    <3>1. CASE Receive
      <4>1. Head(queue) \in Lots /\ Tail(queue) \in Seq(Lots) /\ Len(Tail(queue)) < Len(queue)
        BY <3>1, HeadTailRange, Len(queue) \in Nat DEF TypeOK, Receive
      <4> QED
        BY <3>1, <4>1, JobsAssumption DEF TypeOK, Receive, scanning, counters
    <3>2. CASE RetryTick
      BY <3>2 DEF TypeOK, RetryTick, Failed, manager, scanning, counters
    <3>3. CASE Drain
      BY <3>3 DEF TypeOK, Drain, Pending, manager, scanning, counters
    <3>4. CASE Record
      <4>1. result.lot \in Lots /\ (Delete(result.lot) \/ Retry(result.lot))
        BY <3>4 DEF TypeOK, Record
      <4>2. ManagerType'
        BY <4>1, <2>m, RecordType
      <4> QED
        BY <3>4, <4>2 DEF TypeOK, ManagerType, Record, scanning, counters
    <3>5. CASE Elapse
      <4>1. ASSUME NEW l \in Lots
            PROVE  pending[l] \in Task /\ (pending[l].wait # 0 =>
                     [attempt |-> pending[l].attempt, wait |-> pending[l].wait - 1,
                      by |-> pending[l].by] \in Task)
        BY DEF TypeOK, Task
      <4>2. pending' \in [Lots -> Task]
        BY <3>5, <4>1 DEF Elapse
      <4> QED
        BY <3>5, <4>2 DEF TypeOK, Elapse, working, scanning, counters
    <3>6. ASSUME NEW l \in Lots, EvaluateLot(l) \/ EvaluationFails(l) PROVE TypeOK'
      BY <3>6, JobsAssumption DEF TypeOK, EvaluateLot, EvaluationFails, manager, scanning, counters
    <3> QED
      BY <2>2, <3>1, <3>2, <3>3, <3>4, <3>5, <3>6 DEF WorkerStep
  <2>3. CASE ScannerStep
    <3>1. ASSUME ScanTick \/ ScanFails \/ ScanStop PROVE TypeOK'
      BY <3>1, JobsAssumption DEF TypeOK, ScanTick, ScanFails, ScanStop, manager, working,
           scanning, counters
    <3>3. ASSUME ScanRefresh PROVE TypeOK'
      <4>1. lastError' \in {"none", "evaluate"}
        BY <3>3 DEF ScanRefresh, Refresh
      <4> QED
        BY <3>3, <4>1 DEF TypeOK, ScanRefresh, working, counters
    <3>2. ASSUME NEW l \in Lots, ScanEnqueue(l) PROVE TypeOK'
      <4>1. ManagerType'
        BY <3>2, <2>m, EnqueueType DEF ScanEnqueue
      <4> QED
        BY <3>2, <4>1 DEF TypeOK, ManagerType, ScanEnqueue, working, counters
    <3> QED
      BY <2>3, <3>1, <3>2, <3>3 DEF ScannerStep
  <2>4. CASE MainStep
    <3>1. ASSUME Exit \/ Kill PROVE TypeOK'
      <4>1. <<>> \in Seq(Lots) /\ Len(<<>>) <= QueueSize
        BY JobsAssumption
      <4>2. [l \in Lots |-> NoTask] \in [Lots -> Task]
        BY TaskTypes
      <4>3. stops' \in 0..MaxStops /\ GoDown
        BY <3>1, JobsAssumption DEF TypeOK, Exit, Kill
      <4> QED
        BY <4>1, <4>2, <4>3 DEF TypeOK, GoDown
    <3>2. ASSUME Signal \/ ServeFails \/ ShutDown \/ TimedOut \/ Start PROVE TypeOK'
      BY <3>2, JobsAssumption DEF TypeOK, Signal, ServeFails, ShutDown, TimedOut, Start, Stop,
           Leave, manager, working, scanning, counters
    <3> QED
      BY <2>4, <3>1, <3>2 DEF MainStep
  <2>5. CASE UNCHANGED vars
    BY <2>5 DEF TypeOK, vars, manager, working, scanning, counters
  <2> QED
    BY <2>1, <2>2, <2>3, <2>4, <2>5, NextSplit
<1> QED
  BY <1>1, <1>2, PTL DEF Spec

----------------------------------------------------------------------------
(* No task is forgotten.                                                   *)

Held(l) == \/ l \in Range(queue) \/ l \in todo \/ l = result.lot
           \/ pending[l].attempt > 0

\* A task is told from NoTask by who enqueued it or by its attempts; the
\* worker's hands are empty when it looks for work; and nothing is left of a
\* process that is down.
OwnedTasks == \A l \in Lots : pending[l] = NoTask \/ pending[l].by # "none" \/ pending[l].attempt > 0
AtRest == worker \in {"select", "stopped"} => todo = {} /\ result = NoResult
Cold == main = "down" => /\ pending = [l \in Lots |-> NoTask] /\ queue = <<>>
                         /\ handler = [l \in Lots |-> "idle"] /\ found = {}
                         /\ worker = "stopped" /\ scanner = "stopped" /\ lastError = "none"
AllHeld == worker # "stopped" => \A l \in Lots : pending[l] # NoTask => Held(l)

TaskInv == TypeOK /\ OwnedTasks /\ AtRest /\ Cold /\ AllHeld

LEMMA TaskFields ==
  /\ NoTask.attempt = 0 /\ NoTask.wait = 0 /\ NoTask.by = "none"
  /\ \A who : NewTask(who).attempt = 0 /\ NewTask(who).by = who
BY DEF NoTask, NewTask

\* What Enqueue, Delete and Retry do to the task of each lot.
LEMMA EnqueueEffect ==
  ASSUME TypeOK, NEW l \in Lots, NEW who \in {"handler", "scan"}, Enqueue(l, who)
  PROVE  /\ \A k \in Lots \ {l} : pending'[k] = pending[k]
         /\ pending'[l] = pending[l] \/ (pending[l] = NoTask /\ pending'[l] = NewTask(who))
         /\ \A x : x \in Range(queue) => x \in Range(queue')
         /\ \A x : x \in Range(queue') => x = l \/ x \in Range(queue)
         /\ pending'[l] # pending[l] => l \in Range(queue')
         /\ lastError' = lastError \/ lastError' = "full"
<1>1. queue \in Seq(Lots) /\ pending \in [Lots -> Task]
  BY DEF TypeOK
<1>2. CASE l \in Pending
  BY <1>2 DEF Enqueue, manager
<1>3. CASE l \notin Pending /\ Len(queue) < QueueSize
  <2>1. queue' = Append(queue, l) /\ pending' = [pending EXCEPT ![l] = NewTask(who)]
        /\ lastError' = lastError
    BY <1>3, JobsAssumption, Len(queue) \in Nat, <1>1 DEF Enqueue
  <2>2. pending[l] = NoTask
    BY <1>3 DEF Pending
  <2> QED
    BY <1>1, <2>1, <2>2, AppendRange
<1>4. CASE l \notin Pending /\ Len(queue) = QueueSize
  BY <1>4, JobsAssumption DEF Enqueue
<1> QED
  BY <1>2, <1>3, <1>4 DEF Enqueue

LEMMA RecordEffect ==
  ASSUME TypeOK, NEW l \in Lots, Delete(l) \/ Retry(l)
  PROVE  /\ \A k \in Lots \ {l} : pending'[k] = pending[k]
         /\ \/ pending'[l] = NoTask
            \/ pending'[l].attempt > 0 /\ pending'[l].by = pending[l].by /\ lastError' = "evaluate"
         /\ queue' = queue
<1>1. pending \in [Lots -> Task] /\ pending[l] \in Task
  BY DEF TypeOK
<1>2. CASE Delete(l)
  BY <1>1, <1>2 DEF Delete
<1>3. CASE Retry(l)
  <2> DEFINE new == [attempt |-> pending[l].attempt + 1, wait |-> Delay(pending[l].attempt + 1),
                     by |-> pending[l].by]
  <2>1. pending' = [pending EXCEPT ![l] = new] /\ queue' = queue /\ lastError' = "evaluate"
    BY <1>3 DEF Retry
  <2>2. new.attempt > 0 /\ new.by = pending[l].by
    BY <1>1 DEF Task
  <2> HIDE DEF new
  <2> QED
    BY <1>1, <2>1, <2>2
<1> QED
  BY <1>2, <1>3

LEMMA ElapseEffect ==
  ASSUME TypeOK, OwnedTasks, Elapse
  PROVE  \A l \in Lots : /\ pending'[l].attempt = pending[l].attempt
                         /\ pending'[l].by = pending[l].by
                         /\ pending'[l] = NoTask <=> pending[l] = NoTask
<1> SUFFICES ASSUME NEW l \in Lots
             PROVE  /\ pending'[l].attempt = pending[l].attempt
                    /\ pending'[l].by = pending[l].by
                    /\ pending'[l] = NoTask <=> pending[l] = NoTask
  OBVIOUS
<1>1. pending[l] \in Task
  BY DEF TypeOK
<1>2. CASE pending[l].wait = 0
  BY <1>2 DEF Elapse
<1>3. CASE pending[l].wait # 0
  <2>1. pending'[l] = [attempt |-> pending[l].attempt, wait |-> pending[l].wait - 1,
                       by |-> pending[l].by]
    BY <1>3 DEF Elapse
  <2>2. pending'[l].attempt = pending[l].attempt /\ pending'[l].by = pending[l].by
    BY <2>1
  <2>3. pending[l] # NoTask
    BY <1>3, TaskFields
  <2>4. pending[l].by # "none" \/ pending[l].attempt > 0
    BY <2>3 DEF OwnedTasks
  <2>5. pending'[l] # NoTask
    BY <1>1, <2>2, <2>4, TaskFields DEF Task
  <2> QED
    BY <2>2, <2>3, <2>5
<1> QED
  BY <1>2, <1>3

\* Enqueue, by a handler or by the scanner, leaves the worker alone.
LEMMA EnqueueKeepsTasks ==
  ASSUME TaskInv, NEW l \in Lots, NEW who \in {"handler", "scan"}, Enqueue(l, who),
         UNCHANGED working
  PROVE  (OwnedTasks /\ AtRest /\ AllHeld)'
<1>1. UNCHANGED <<worker, todo, result>>
  BY DEF working
<1>2. OwnedTasks'
  BY EnqueueEffect, TaskFields DEF TaskInv, OwnedTasks
<1>3. AtRest'
  BY <1>1 DEF TaskInv, AtRest
<1>4. AllHeld'
  <2> SUFFICES ASSUME worker' # "stopped", NEW k \in Lots, pending'[k] # NoTask
               PROVE  Held(k)'
    BY DEF AllHeld
  <2>1. CASE pending'[k] = pending[k]
    BY <1>1, <2>1, EnqueueEffect DEF TaskInv, AllHeld, Held
  <2>2. CASE pending'[k] # pending[k]
    BY <2>2, EnqueueEffect DEF TaskInv, Held
  <2> QED
    BY <2>1, <2>2
<1> QED
  BY <1>2, <1>3, <1>4

LEMMA TaskInvStep == TaskInv /\ TypeOK' /\ [Next]_vars => TaskInv'
<1> SUFFICES ASSUME TaskInv, TypeOK', [Next]_vars
             PROVE  (OwnedTasks /\ AtRest /\ Cold /\ AllHeld)'
  BY DEF TaskInv
<1>t. TypeOK /\ OwnedTasks /\ AtRest /\ Cold /\ AllHeld
  BY DEF TaskInv
<1>1. CASE HandlerStep
  <2>1. PICK l \in Lots : CreateLot(l) \/ ChangeLot(l) \/ EnqueueChanged(l)
    BY <1>1 DEF HandlerStep
  <2>2. CASE CreateLot(l) \/ ChangeLot(l)
    <3>1. main # "down" /\ UNCHANGED <<queue, pending, worker, todo, result, main>>
      BY <2>2 DEF CreateLot, ChangeLot, Handling, manager, working
    <3> QED
      BY <1>t, <3>1 DEF OwnedTasks, AtRest, Cold, AllHeld, Held
  <2>3. CASE EnqueueChanged(l)
    <3>1. Enqueue(l, "handler") /\ UNCHANGED <<working, main>> /\ handler[l] = "updated"
      BY <2>3 DEF EnqueueChanged
    <3>2. main # "down"
      BY <1>t, <3>1 DEF Cold
    <3> QED
      BY <3>1, <3>2, EnqueueKeepsTasks DEF Cold
  <2> QED
    BY <2>1, <2>2, <2>3
<1>2. CASE WorkerStep
  <2>d. ASSUME main' # "down" \/ UNCHANGED <<pending, queue, handler, found, worker, scanner, lastError>>,
               UNCHANGED main
        PROVE  Cold'
    BY <1>t, <2>d DEF Cold
  <2>1. CASE Receive
    <3>1. /\ worker = "select" /\ worker' = "working" /\ todo' = {Head(queue)} /\ queue # <<>>
          /\ queue' = Tail(queue) /\ UNCHANGED <<pending, result, main>>
      BY <2>1 DEF Receive
    <3>2. main' # "down" /\ todo = {} /\ result = NoResult
      BY <1>t, <3>1 DEF Cold, AtRest
    <3>3. ASSUME NEW k \in Lots, pending'[k] # NoTask
          PROVE  Held(k)'
      <4>1. Held(k)
        BY <1>t, <3>1, <3>3 DEF AllHeld
      <4>2. k \in Range(queue) => k = Head(queue) \/ k \in Range(queue')
        BY <1>t, <3>1, HeadTailRange DEF TypeOK
      <4> QED
        BY <3>1, <3>2, <4>1, <4>2 DEF Held
    <3> QED
      BY <1>t, <2>d, <3>1, <3>2, <3>3 DEF OwnedTasks, AtRest, AllHeld
  <2>2. CASE RetryTick
    <3>1. /\ worker = "select" /\ worker' = "working"
          /\ UNCHANGED <<queue, pending, result, main>>
      BY <2>2 DEF RetryTick, manager
    <3>2. main' # "down" /\ todo = {}
      BY <1>t, <3>1 DEF Cold, AtRest
    <3> QED
      BY <1>t, <2>d, <3>1, <3>2 DEF OwnedTasks, AtRest, AllHeld, Held
  <2>3. CASE Drain
    <3>1. /\ worker = "select" /\ todo' = Pending /\ UNCHANGED <<queue, pending, result, main>>
          /\ worker' = IF Pending = {} THEN "stopped" ELSE "draining"
      BY <2>3 DEF Drain, manager
    <3>2. main' # "down" /\ todo = {} /\ result = NoResult
      BY <1>t, <3>1 DEF Cold, AtRest
    <3>3. \A k \in Lots : pending'[k] # NoTask => Held(k)'
      BY <3>1 DEF Held, Pending
    <3> QED
      BY <1>t, <2>d, <3>1, <3>2, <3>3 DEF OwnedTasks, AtRest, AllHeld
  <2>4. CASE Record
    <3>1. /\ result # NoResult /\ result' = NoResult /\ UNCHANGED <<todo, main>>
          /\ Delete(result.lot) \/ Retry(result.lot)
          /\ worker' = IF todo # {} THEN worker ELSE IF worker = "draining" THEN "stopped" ELSE "select"
      BY <2>4 DEF Record
    <3>2. result.lot \in Lots /\ worker \notin {"select", "stopped"}
      BY <1>t, <3>1 DEF TypeOK, AtRest
    <3>3. main' # "down"
      BY <1>t, <3>1, <3>2 DEF Cold
    <3>4. OwnedTasks'
      BY <1>t, <3>1, <3>2, RecordEffect, TaskFields DEF OwnedTasks
    <3>5. AtRest'
      BY <3>1, <3>2 DEF AtRest
    <3>6. AllHeld'
      <4> SUFFICES ASSUME NEW k \in Lots, pending'[k] # NoTask PROVE Held(k)'
        BY DEF AllHeld
      <4>1. CASE k = result.lot
        BY <1>t, <3>1, <3>2, <4>1, RecordEffect DEF Held
      <4>2. CASE k # result.lot
        <5>1. pending'[k] = pending[k] /\ queue' = queue
          BY <1>t, <3>1, <3>2, <4>2, RecordEffect
        <5> QED
          BY <1>t, <3>1, <3>2, <4>2, <5>1 DEF AllHeld, Held
      <4> QED
        BY <4>1, <4>2
    <3> QED
      BY <2>d, <3>1, <3>3, <3>4, <3>5, <3>6
  <2>5. CASE Elapse
    <3>1. UNCHANGED <<queue, worker, todo, result, main>> /\ \E l \in Lots : pending[l].wait > 0
      BY <2>5 DEF Elapse, working
    <3>2. main' # "down"
      BY <1>t, <3>1, TaskFields DEF Cold
    <3>3. \A k \in Lots : /\ pending'[k].attempt = pending[k].attempt
                          /\ pending'[k].by = pending[k].by
                          /\ pending'[k] = NoTask <=> pending[k] = NoTask
      BY <1>t, <2>5, ElapseEffect
    <3> QED
      BY <1>t, <2>d, <3>1, <3>2, <3>3 DEF OwnedTasks, AtRest, AllHeld, Held
  <2>6. ASSUME NEW l \in Lots, EvaluateLot(l) \/ EvaluationFails(l)
        PROVE  (OwnedTasks /\ AtRest /\ Cold /\ AllHeld)'
    <3>1. /\ l \in todo /\ result = NoResult /\ todo' = todo \ {l} /\ result'.lot = l
          /\ UNCHANGED <<queue, pending, worker, main>>
      BY <2>6 DEF EvaluateLot, EvaluationFails, manager
    <3>2. worker \notin {"select", "stopped"}
      BY <1>t, <3>1 DEF AtRest
    <3>3. main' # "down"
      BY <1>t, <3>1, <3>2 DEF Cold
    <3>4. \A k \in Lots : k # NoResult.lot
      BY JobsAssumption DEF NoResult
    <3> QED
      BY <1>t, <2>d, <3>1, <3>2, <3>3, <3>4 DEF OwnedTasks, AtRest, AllHeld, Held
  <2> QED
    BY <1>2, <2>1, <2>2, <2>3, <2>4, <2>5, <2>6 DEF WorkerStep
<1>3. CASE ScannerStep
  <2>1. CASE ScanTick \/ ScanFails \/ ScanRefresh \/ ScanStop
    <3>1. /\ scanner # "stopped"
          /\ UNCHANGED <<queue, pending, worker, todo, result, main>>
      BY <2>1 DEF ScanTick, ScanFails, ScanRefresh, ScanStop, manager, working
    <3>2. main' # "down"
      BY <1>t, <3>1 DEF Cold
    <3> QED
      BY <1>t, <3>1, <3>2 DEF OwnedTasks, AtRest, Cold, AllHeld, Held
  <2>2. ASSUME NEW l \in Lots, ScanEnqueue(l)
        PROVE  (OwnedTasks /\ AtRest /\ Cold /\ AllHeld)'
    <3>1. Enqueue(l, "scan") /\ UNCHANGED <<working, main>> /\ l \in found
      BY <2>2 DEF ScanEnqueue
    <3>2. main # "down"
      BY <1>t, <3>1 DEF Cold
    <3> QED
      BY <3>1, <3>2, EnqueueKeepsTasks DEF Cold
  <2> QED
    BY <1>3, <2>1, <2>2 DEF ScannerStep
<1>4. CASE MainStep
  <2>1. CASE Exit \/ Kill
    BY <2>1 DEF Exit, Kill, GoDown, OwnedTasks, AtRest, Cold, AllHeld
  <2>2. CASE Start
    <3>1. /\ main = "down" /\ main' = "serving" /\ UNCHANGED <<queue, pending, todo, result>>
      BY <2>2 DEF Start, manager
    <3> QED
      BY <1>t, <3>1 DEF OwnedTasks, AtRest, Cold, AllHeld
  <2>3. CASE Signal \/ ServeFails \/ ShutDown \/ TimedOut
    <3>1. main' # "down" /\ UNCHANGED <<queue, pending, worker, todo, result>>
      BY <2>3 DEF Signal, ServeFails, ShutDown, TimedOut, Stop, Leave, manager, working
    <3> QED
      BY <1>t, <3>1 DEF OwnedTasks, AtRest, Cold, AllHeld, Held
  <2> QED
    BY <1>4, <2>1, <2>2, <2>3 DEF MainStep
<1>5. CASE UNCHANGED vars
  BY <1>t, <1>5 DEF vars, manager, working, scanning, counters, OwnedTasks, AtRest, Cold, AllHeld, Held
<1> QED
  BY <1>1, <1>2, <1>3, <1>4, <1>5, NextSplit

LEMMA TasksInvariant == Spec => []TaskInv
<1>1. Init => OwnedTasks /\ AtRest /\ Cold /\ AllHeld
  BY DEF Init, OwnedTasks, AtRest, Cold, AllHeld
<1> QED
  BY <1>1, TaskInvStep, TypeCorrect, PTL DEF Spec, TaskInv

\* While the worker lives, a pending task is in the queue, in the worker's
\* hands or waits to be tried again (manager.go:52-111).
THEOREM NothingForgotten == Spec => []NoTaskForgotten
<1>1. TaskInv => NoTaskForgotten
  <2> SUFFICES ASSUME TaskInv, worker # "stopped", NEW l \in Pending
               PROVE  l \in Range(queue) \cup todo \cup {result.lot} \cup Failed
    BY DEF NoTaskForgotten
  <2>1. l \in Lots /\ Held(l)
    BY DEF TaskInv, AllHeld, Pending
  <2> QED
    BY <2>1 DEF Held, Failed
<1> QED
  BY <1>1, TasksInvariant, PTL

----------------------------------------------------------------------------
(* No failure is hidden.                                                   *)

FailureKnown == \A l \in Lots : pending[l].attempt > 0 => lastError # "none"

LEMMA FailureKnownStep == TaskInv /\ FailureKnown /\ [Next]_vars => FailureKnown'
<1> SUFFICES ASSUME TaskInv, FailureKnown, [Next]_vars PROVE FailureKnown'
  OBVIOUS
<1>t. TypeOK /\ OwnedTasks
  BY DEF TaskInv
<1>e. ASSUME NEW l \in Lots, NEW who \in {"handler", "scan"}, Enqueue(l, who)
      PROVE  FailureKnown'
  BY <1>t, <1>e, EnqueueEffect, TaskFields DEF FailureKnown
<1>r. ASSUME Refresh(pending') PROVE FailureKnown'
  BY <1>r DEF FailureKnown, Refresh
<1>u. ASSUME UNCHANGED <<pending, lastError>> PROVE FailureKnown'
  BY <1>u DEF FailureKnown
<1>1. CASE HandlerStep
  BY <1>1, <1>e, <1>u DEF HandlerStep, CreateLot, ChangeLot, EnqueueChanged, manager
<1>2. CASE WorkerStep
  <2>1. CASE Record
    <3>1. /\ result.lot \in Lots
          /\ Delete(result.lot) \/ Retry(result.lot)
      BY <1>t, <2>1 DEF TypeOK, Record
    <3>2. CASE Delete(result.lot)
      BY <1>r, <3>2 DEF Delete
    <3>3. CASE Retry(result.lot)
      BY <3>3 DEF Retry, FailureKnown
    <3> QED
      BY <3>1, <3>2, <3>3
  <2>2. CASE Elapse
    BY <1>t, <2>2, ElapseEffect DEF FailureKnown, Elapse
  <2>3. CASE Receive \/ RetryTick \/ Drain \/ \E l \in Lots : EvaluateLot(l) \/ EvaluationFails(l)
    BY <2>3, <1>u DEF Receive, RetryTick, Drain, EvaluateLot, EvaluationFails, manager
  <2> QED
    BY <1>2, <2>1, <2>2, <2>3 DEF WorkerStep
<1>3. CASE ScannerStep
  <2>1. CASE ScanTick \/ ScanStop
    BY <2>1, <1>u DEF ScanTick, ScanStop, manager
  <2>2. CASE ScanFails
    BY <2>2 DEF ScanFails, FailureKnown
  <2>3. CASE ScanRefresh
    BY <2>3 DEF ScanRefresh, Refresh, FailureKnown
  <2>4. CASE \E l \in Lots : ScanEnqueue(l)
    BY <2>4, <1>e DEF ScanEnqueue
  <2> QED
    BY <1>3, <2>1, <2>2, <2>3, <2>4 DEF ScannerStep
<1>4. CASE MainStep
  <2>1. CASE Exit \/ Kill
    BY <2>1, TaskFields DEF Exit, Kill, GoDown, FailureKnown
  <2>2. CASE Start \/ Signal \/ ServeFails \/ ShutDown \/ TimedOut
    BY <2>2, <1>u DEF Start, Signal, ServeFails, ShutDown, TimedOut, Stop, Leave, manager
  <2> QED
    BY <1>4, <2>1, <2>2 DEF MainStep
<1>5. CASE UNCHANGED vars
  BY <1>5, <1>u DEF vars, manager
<1> QED
  BY <1>1, <1>2, <1>3, <1>4, <1>5, NextSplit

\* A healthy process has no task whose last evaluation failed, whoever else
\* writes lastError (manager.go:47, 97-139).
THEOREM NoFailureHidden == Spec => []FailuresShow
<1>1. Init => FailureKnown
  BY TaskFields DEF Init, FailureKnown
<1>2. FailureKnown => FailuresShow
  BY DEF FailureKnown, FailuresShow, Healthy, Failed
<1> QED
  BY <1>1, <1>2, FailureKnownStep, TasksInvariant, PTL DEF Spec

----------------------------------------------------------------------------
(* A shutdown in time leaves nothing of the handlers behind.               *)

\* The jobs are cancelled once the handlers are idle; a task in the worker's
\* last round is in its hands.
DrainInv ==
  /\ worker \in {"draining", "stopped"} => Cancelled \/ main = "down"
  /\ main = "drained" => AllIdle
  /\ main = "drained" /\ worker \in {"draining", "stopped"}
       => \A l \in Lots : \/ pending[l] = NoTask \/ pending[l].by = "scan"
                          \/ pending[l].attempt > 0
                          \/ l \in todo \/ l = result.lot

LEMMA DrainStep == TaskInv /\ DrainInv /\ [Next]_vars => DrainInv'
<1> SUFFICES ASSUME TaskInv, DrainInv, [Next]_vars PROVE DrainInv'
  OBVIOUS
<1>t. TypeOK /\ OwnedTasks /\ AtRest /\ Cold
  BY DEF TaskInv
<1>1. CASE HandlerStep
  <2>1. PICK l \in Lots : CreateLot(l) \/ ChangeLot(l) \/ EnqueueChanged(l)
    BY <1>1 DEF HandlerStep
  <2>2. main # "drained" /\ UNCHANGED <<main, worker>>
    BY <2>1 DEF CreateLot, ChangeLot, Handling, EnqueueChanged, DrainInv, AllIdle, working
  <2> QED
    BY <2>2 DEF DrainInv, Cancelled
<1>2. CASE WorkerStep
  <2>1. CASE Receive \/ RetryTick
    BY <2>1 DEF Receive, RetryTick, DrainInv, AllIdle
  <2>2. CASE Drain
    <3>1. Cancelled /\ todo' = Pending /\ UNCHANGED <<main, pending, handler>>
          /\ worker' \in {"draining", "stopped"}
      BY <2>2 DEF Drain, manager
    <3> QED
      BY <3>1 DEF DrainInv, Cancelled, AllIdle, Pending
  <2>3. CASE Record
    <3>1. /\ result # NoResult /\ UNCHANGED <<todo, main, handler>>
          /\ Delete(result.lot) \/ Retry(result.lot)
          /\ worker' = IF todo # {} THEN worker ELSE IF worker = "draining" THEN "stopped" ELSE "select"
      BY <2>3 DEF Record
    <3>2. result.lot \in Lots
      BY <1>t, <3>1 DEF TypeOK
    <3>3. worker' \in {"draining", "stopped"} => worker \in {"draining", "stopped"}
      BY <3>1
    <3>4. ASSUME NEW k \in Lots,
                 \/ pending[k] = NoTask \/ pending[k].by = "scan" \/ pending[k].attempt > 0
                 \/ k \in todo \/ k = result.lot
          PROVE  \/ pending'[k] = NoTask \/ pending'[k].by = "scan" \/ pending'[k].attempt > 0
                 \/ k \in todo'
      BY <1>t, <3>1, <3>2, <3>4, RecordEffect
    <3> QED
      BY <3>1, <3>3, <3>4 DEF DrainInv, Cancelled, AllIdle
  <2>4. CASE Elapse
    BY <1>t, <2>4, ElapseEffect DEF Elapse, working, DrainInv, Cancelled, AllIdle
  <2>5. ASSUME NEW l \in Lots, EvaluateLot(l) \/ EvaluationFails(l) PROVE DrainInv'
    <3>1. /\ result = NoResult /\ todo' = todo \ {l} /\ result'.lot = l
          /\ UNCHANGED <<pending, worker, main, handler>>
      BY <2>5 DEF EvaluateLot, EvaluationFails, manager
    <3>2. \A k \in Lots : k # NoResult.lot
      BY JobsAssumption DEF NoResult
    <3> QED
      BY <3>1, <3>2 DEF DrainInv, Cancelled, AllIdle
  <2> QED
    BY <1>2, <2>1, <2>2, <2>3, <2>4, <2>5 DEF WorkerStep
<1>3. CASE ScannerStep
  <2>1. CASE ScanTick \/ ScanFails \/ ScanRefresh \/ ScanStop
    <3>1. UNCHANGED <<pending, worker, todo, result, main, handler>>
      BY <2>1 DEF ScanTick, ScanFails, ScanRefresh, ScanStop, manager, working
    <3> QED
      BY <3>1 DEF DrainInv, Cancelled, AllIdle
  <2>2. ASSUME NEW l \in Lots, ScanEnqueue(l) PROVE DrainInv'
    <3>1. Enqueue(l, "scan") /\ UNCHANGED <<worker, todo, result, main, handler>>
      BY <2>2 DEF ScanEnqueue, working
    <3> QED
      BY <1>t, <3>1, EnqueueEffect, TaskFields DEF DrainInv, Cancelled, AllIdle
  <2> QED
    BY <1>3, <2>1, <2>2 DEF ScannerStep
<1>4. CASE MainStep
  <2>1. CASE Exit \/ Kill
    BY <2>1 DEF Exit, Kill, GoDown, DrainInv
  <2>2. CASE Start
    BY <2>2 DEF Start, DrainInv
  <2>3. CASE Signal \/ ServeFails \/ TimedOut
    <3>1. /\ main \in {"serving", "closing"} /\ main' \in {"closing", "failed", "timedout"}
          /\ UNCHANGED worker
      BY <2>3 DEF Signal, ServeFails, TimedOut, Stop, Leave, working
    <3> QED
      BY <3>1 DEF DrainInv, Cancelled
  <2>4. CASE ShutDown
    <3>1. main = "closing" /\ main' = "drained" /\ AllIdle /\ UNCHANGED <<worker, handler>>
      BY <2>4 DEF ShutDown, Leave, working
    <3> QED
      BY <3>1 DEF DrainInv, Cancelled, AllIdle
  <2> QED
    BY <1>4, <2>1, <2>2, <2>3, <2>4 DEF MainStep
<1>5. CASE UNCHANGED vars
  BY <1>5 DEF vars, manager, working, DrainInv, Cancelled, AllIdle
<1> QED
  BY <1>1, <1>2, <1>3, <1>4, <1>5, NextSplit

\* After a shutdown in time every task of a handler has been evaluated when
\* the worker stops, or its evaluation failed (main.go:77-85).
THEOREM DrainLeavesNothing == Spec => []DrainServesHandlers
<1>1. Init => DrainInv
  BY DEF Init, DrainInv
<1>2. TaskInv /\ DrainInv => DrainServesHandlers
  <2> SUFFICES ASSUME TaskInv, DrainInv, main = "drained", worker = "stopped", NEW l \in Pending
               PROVE  l \in Failed \/ pending[l].by = "scan"
    BY DEF DrainServesHandlers
  <2>1. todo = {} /\ result = NoResult /\ l \in Lots /\ pending[l] # NoTask
    BY DEF TaskInv, AtRest, Pending
  <2>2. l # NoResult.lot
    BY <2>1, JobsAssumption DEF NoResult
  <2> QED
    BY <2>1, <2>2 DEF DrainInv, Failed
<1> QED
  BY <1>1, <1>2, DrainStep, TasksInvariant, PTL DEF Spec

----------------------------------------------------------------------------
(* The jobs do what EvaluationDuty allows.                                 *)

\* Only lots that exist are enqueued, scanned and evaluated.
Mentioned(l) == \/ l \in Range(queue) \/ l \in todo \/ l \in found \/ l = result.lot
                \/ pending[l] # NoTask \/ handler[l] = "updated"
Registered == \A l \in Lots : Mentioned(l) => lots[l] # "none"

\* A step either leaves the lots alone or is one of the duty's.
DutyStep == \/ UNCHANGED lots
            \/ \E l \in Lots : EvaluationsDue!Register(l) \/ EvaluationsDue!Evaluate(l)

LEMMA NeverUnregistered ==
  ASSUME TypeOK, DutyStep
  PROVE  \A l \in Lots : lots[l] # "none" => lots'[l] # "none"
BY DEF TypeOK, DutyStep, EvaluationsDue!Register, EvaluationsDue!Evaluate

LEMMA RegisteredStep == TaskInv /\ Registered /\ [Next]_vars => Registered' /\ DutyStep
<1> SUFFICES ASSUME TaskInv, Registered, [Next]_vars PROVE Registered' /\ DutyStep
  OBVIOUS
<1>t. TypeOK /\ OwnedTasks
  BY DEF TaskInv
<1>n. \A k \in Lots : k # NoResult.lot
  BY JobsAssumption DEF NoResult
<1>k. ASSUME DutyStep,
             \A k \in Lots : Mentioned(k)' => Mentioned(k) \/ lots'[k] # "none"
      PROVE  Registered' /\ DutyStep
  BY <1>t, <1>k, NeverUnregistered DEF Registered
<1>e. ASSUME NEW l \in Lots, NEW who \in {"handler", "scan"}, Enqueue(l, who),
             Mentioned(l), UNCHANGED <<lots, todo, result>>,
             \A k \in Lots : (handler'[k] = "updated" => handler[k] = "updated")
                             /\ (k \in found' => k \in found)
      PROVE  Registered' /\ DutyStep
  <2>1. \A k \in Lots : Mentioned(k)' => Mentioned(k)
    BY <1>t, <1>e, EnqueueEffect DEF Mentioned
  <2> QED
    BY <1>e, <1>k, <2>1 DEF DutyStep
<1>1. CASE HandlerStep
  <2>1. PICK l \in Lots : CreateLot(l) \/ ChangeLot(l) \/ EnqueueChanged(l)
    BY <1>1 DEF HandlerStep
  <2>2. CASE CreateLot(l)
    <3>1. UNCHANGED <<queue, pending, todo, result, found, handler>>
          /\ EvaluationsDue!Register(l)
      BY <2>2 DEF CreateLot, manager, working, scanning, EvaluationsDue!Register
    <3> QED
      BY <1>k, <3>1 DEF DutyStep, Mentioned
  <2>3. CASE ChangeLot(l)
    <3>1. /\ UNCHANGED <<queue, pending, todo, result, found>>
          /\ \A k \in Lots \ {l} : handler'[k] = handler[k]
          /\ lots[l] # "none" /\ lots' = [lots EXCEPT ![l] = "current"]
      BY <1>t, <2>3 DEF TypeOK, ChangeLot, manager, working, scanning
    <3>2. lots'[l] = "current" /\ (lots[l] = "stale" \/ lots' = lots)
      BY <1>t, <3>1 DEF TypeOK
    <3>3. DutyStep
      BY <3>1, <3>2 DEF DutyStep, EvaluationsDue!Evaluate
    <3> QED
      BY <1>k, <3>1, <3>2, <3>3 DEF Mentioned
  <2>4. CASE EnqueueChanged(l)
    <3>1. /\ Enqueue(l, "handler") /\ Mentioned(l) /\ UNCHANGED <<lots, todo, result, found>>
          /\ \A k \in Lots : handler'[k] = "updated" => handler[k] = "updated"
      BY <1>t, <2>4 DEF TypeOK, EnqueueChanged, Mentioned, working, scanning
    <3> QED
      BY <1>e, <3>1
  <2> QED
    BY <2>1, <2>2, <2>3, <2>4
<1>2. CASE WorkerStep
  <2>1. CASE Receive
    <3>1. /\ todo' = {Head(queue)} /\ queue # <<>> /\ queue' = Tail(queue)
          /\ UNCHANGED <<lots, pending, result, found, handler>>
      BY <2>1 DEF Receive, scanning
    <3>2. \A k : k = Head(queue) \/ k \in Range(queue') => k \in Range(queue)
      BY <1>t, <3>1, HeadTailRange DEF TypeOK
    <3> QED
      BY <1>k, <3>1, <3>2 DEF DutyStep, Mentioned
  <2>2. CASE RetryTick \/ Drain
    <3>1. /\ \A k \in todo' : k \in Pending \/ k \in Failed
          /\ UNCHANGED <<lots, queue, pending, result, found, handler>>
      BY <2>2 DEF RetryTick, Drain, manager, scanning
    <3>2. \A k \in Lots : k \in Failed => pending[k] # NoTask
      BY TaskFields DEF Failed
    <3> QED
      BY <1>k, <3>1, <3>2 DEF DutyStep, Mentioned, Pending
  <2>3. CASE Record
    <3>1. /\ result.lot \in Lots /\ result' = NoResult
          /\ UNCHANGED <<lots, todo, found, handler>>
          /\ Delete(result.lot) \/ Retry(result.lot)
      BY <1>t, <2>3 DEF TypeOK, Record, scanning
    <3>2. \A k \in Lots : Mentioned(k)' => Mentioned(k)
      BY <1>t, <1>n, <3>1, RecordEffect DEF Mentioned
    <3> QED
      BY <1>k, <3>1, <3>2 DEF DutyStep
  <2>4. CASE Elapse
    <3>1. UNCHANGED <<lots, queue, todo, result, found, handler>>
      BY <2>4 DEF Elapse, working, scanning
    <3> QED
      BY <1>t, <1>k, <2>4, <3>1, ElapseEffect DEF DutyStep, Mentioned
  <2>5. ASSUME NEW l \in Lots, EvaluateLot(l) \/ EvaluationFails(l) PROVE Registered' /\ DutyStep
    <3>1. /\ l \in todo /\ todo' = todo \ {l} /\ result'.lot = l
          /\ UNCHANGED <<queue, pending, found, handler>>
          /\ lots' = [lots EXCEPT ![l] = "current"] \/ lots' = lots
      BY <2>5 DEF EvaluateLot, EvaluationFails, manager, scanning
    <3>2. lots[l] # "none"
      BY <3>1 DEF Registered, Mentioned
    <3>3. DutyStep
      BY <1>t, <3>1, <3>2 DEF TypeOK, DutyStep, EvaluationsDue!Evaluate
    <3> QED
      BY <1>k, <3>1, <3>3 DEF Mentioned
  <2> QED
    BY <1>2, <2>1, <2>2, <2>3, <2>4, <2>5 DEF WorkerStep
<1>3. CASE ScannerStep
  <2>1. CASE ScanTick
    <3>1. /\ \A k \in found' : k \in Lots /\ lots[k] = "stale"
          /\ UNCHANGED <<lots, queue, pending, todo, result, handler>>
      BY <2>1 DEF ScanTick, manager, working
    <3> QED
      BY <1>k, <3>1 DEF DutyStep, Mentioned
  <2>2. CASE ScanFails \/ ScanRefresh \/ ScanStop
    <3>1. UNCHANGED <<lots, queue, pending, todo, result, found, handler>>
      BY <2>2 DEF ScanFails, ScanRefresh, ScanStop, manager, working, scanning
    <3> QED
      BY <1>k, <3>1 DEF DutyStep, Mentioned
  <2>3. ASSUME NEW l \in Lots, ScanEnqueue(l) PROVE Registered' /\ DutyStep
    <3>1. /\ Enqueue(l, "scan") /\ Mentioned(l) /\ UNCHANGED <<lots, todo, result, handler>>
          /\ \A k \in Lots : k \in found' => k \in found
      BY <2>3 DEF ScanEnqueue, Mentioned, working
    <3> QED
      BY <1>e, <3>1
  <2> QED
    BY <1>3, <2>1, <2>2, <2>3 DEF ScannerStep
<1>4. CASE MainStep
  <2>1. CASE Exit \/ Kill
    <3>1. GoDown
      BY <2>1 DEF Exit, Kill
    <3>2. \A k \in Lots : ~Mentioned(k)'
      BY <1>n, <3>1 DEF GoDown, Mentioned, Range
    <3> QED
      BY <1>k, <3>1, <3>2 DEF GoDown, DutyStep
  <2>2. CASE Start \/ Signal \/ ServeFails \/ ShutDown \/ TimedOut
    <3>1. UNCHANGED <<lots, queue, pending, todo, result, found, handler>>
      BY <2>2 DEF Start, Signal, ServeFails, ShutDown, TimedOut, Stop, Leave, manager, working, scanning
    <3> QED
      BY <1>k, <3>1 DEF DutyStep, Mentioned
  <2> QED
    BY <1>4, <2>1, <2>2 DEF MainStep
<1>5. CASE UNCHANGED vars
  BY <1>5, <1>k DEF vars, manager, working, scanning, DutyStep, Mentioned
<1> QED
  BY <1>1, <1>2, <1>3, <1>4, <1>5, NextSplit

\* No step of the jobs, of a handler or of main, and no crash, takes back an
\* evaluation or evaluates a lot that does not exist: the safety half of
\* ImplementsDuty.
THEOREM DutyIsSafe == Spec => EvaluationsDue!Duty
<1>1. Init => Registered
  BY JobsAssumption DEF Init, Registered, Mentioned, Range, NoResult
<1>2. Init => EvaluationsDue!Init
  BY DEF Init, EvaluationsDue!Init
<1>3. DutyStep => [EvaluationsDue!Next]_lots
  BY DEF DutyStep, EvaluationsDue!Next
<1> QED
  BY <1>1, <1>2, <1>3, RegisteredStep, TasksInvariant, PTL DEF Spec, EvaluationsDue!Duty

=============================================================================
