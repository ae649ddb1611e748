------------------------- MODULE HydrateQueueProofs -------------------------
(***************************************************************************)
(* What holds of the hydrate queue for every number of handlers, workers   *)
(* and tasks.  The inductive invariant IInv says where every task is: not  *)
(* yet visible, in the queue, in the hands of the one worker, or judged.   *)
(***************************************************************************)
EXTENDS HydrateQueue, TLAPS, FiniteSetTheorems

Working == {"marked", "counted", "await", "join", "judged"}

Waiting(id) == \E i \in 1..Len(g_queue) : g_queue[i] = id

\* ensure_worker() lets one thread through.
OneWorker ==
  /\ \A v, w \in Workers : wpc[v] # "off" /\ wpc[w] # "off" => v = w
  /\ ~g_worker_started => \A w \in Workers : wpc[w] = "off"

\* Ids are fresh until they are pushed, and pushed by their owner.
FreshIds ==
  /\ \A c \in Clients : cpc[c] # "idle" => mine[c] \in 1..(g_next_id - 1)
  /\ \A c \in Clients : cpc[c] = "taken" => mine[c] \notin g_tasks
  /\ \A c \in Clients : cpc[c] \in {"pushed", "counted"} => mine[c] \in g_tasks
  /\ \A c, d \in Clients :
       cpc[c] = "taken" /\ cpc[d] = "taken" /\ mine[c] = mine[d] => c = d
  /\ \A id \in g_tasks : id < g_next_id
  /\ returned \subseteq g_tasks

\* What is in the queue is visible, untouched and there once.
QueueClean ==
  /\ \A i \in 1..Len(g_queue) :
       /\ g_queue[i] \in g_tasks
       /\ state[g_queue[i]] = "queued"
  /\ \A i, j \in 1..Len(g_queue) : g_queue[i] = g_queue[j] => i = j

\* What the worker holds, and how far it is with it.
HandsClean ==
  \A w \in Workers :
    /\ wpc[w] \in Holding => cur[w] \in g_tasks
    /\ wpc[w] = "popped" => state[cur[w]] = "queued" /\ ~Waiting(cur[w])
    /\ wpc[w] \in Working => state[cur[w]] = "running"
    /\ wpc[w] = "judged" => future[cur[w]] # "running"

\* Every task is somewhere.
TasksPlaced ==
  \A id \in Ids :
    /\ id \notin g_tasks => state[id] = "queued"
    /\ id \in g_tasks /\ state[id] = "queued" =>
         Waiting(id) \/ \E w \in Workers : wpc[w] = "popped" /\ cur[w] = id
    /\ state[id] = "running" => \E w \in Workers : wpc[w] \in Working /\ cur[w] = id
    /\ future[id] = "running" => \E w \in Workers : wpc[w] \in {"await", "join"} /\ cur[w] = id

IInv == Typed /\ OneWorker /\ FreshIds /\ QueueClean /\ HandsClean /\ TasksPlaced

-----------------------------------------------------------------------------
(* Type correctness *)

LEMMA ResultTypes ==
  /\ NoResult \in Result
  /\ \A how \in Outcomes \cup {"timeout"} : ResultOf(how) \in Result
  /\ NullBackfill \in Backfill /\ RunningBackfill \in Backfill
BY DEF NoResult, Result, ResultOf, Outcomes, NullBackfill, RunningBackfill,
       Reply, Backfill, Errors

LEMMA NormaliseType ==
  ASSUME NEW r \in Result
  PROVE  normalise_backfill(r.raw, r.success, r.error) \in Backfill
BY DEF Result, Backfill, normalise_backfill, FirstNonEmpty, Errors

(* One step keeps the type invariant.                                      *)
LEMMA TypeStep == Typed /\ [Next]_vars => Typed'
<1> SUFFICES ASSUME Typed, [Next]_vars
             PROVE  Typed'
  OBVIOUS
<1> USE QueueConstants DEF Typed, Ids, counters, taskVars, workerVars, clientVars, globals,
        ClientAt, WorkerAt, ClientPlaces, WorkerPlaces
<1>1. ASSUME NEW c \in Clients, TakeId(c)
      PROVE  Typed'
  BY <1>1 DEF TakeId
<1>2. ASSUME NEW c \in Clients, PushTask(c)
      PROVE  Typed'
  <2>1. mine[c] \in Ids
    BY <1>2 DEF PushTask
  <2>2. Append(g_queue, mine[c]) \in Seq(Ids)
    BY <2>1
  <2> HIDE DEF Ids
  <2> QED BY <1>2, <2>1, <2>2 DEF PushTask
<1>3. ASSUME NEW c \in Clients, CountEnqueued(c)
      PROVE  Typed'
  BY <1>3 DEF CountEnqueued
<1>4. ASSUME NEW c \in Clients, NotifyAndReturn(c)
      PROVE  Typed'
  BY <1>4 DEF NotifyAndReturn, NotifyOne
<1>5. ASSUME NEW w \in Workers, EnsureWorker(w)
      PROVE  Typed'
  BY <1>5 DEF EnsureWorker
<1>6. ASSUME NEW w \in Workers, Sleep(w) \/ SpuriousWake(w)
      PROVE  Typed'
  BY <1>6 DEF Sleep, SpuriousWake
<1>7. ASSUME NEW w \in Workers, Pop(w)
      PROVE  Typed'
  <2>1. g_queue # <<>> /\ g_queue \in Seq(Ids)
    BY <1>7 DEF Pop
  <2>2. Head(g_queue) \in Ids /\ Tail(g_queue) \in Seq(Ids)
    BY <2>1
  <2> QED BY <1>7, <2>2 DEF Pop
<1>8. ASSUME NEW w \in Workers, MarkRunning(w)
      PROVE  Typed'
  BY <1>8, ResultTypes DEF MarkRunning, States, Errors
<1>9. ASSUME NEW w \in Workers, CountRunning(w) \/ Release(w)
      PROVE  Typed'
  <2>1. CASE CountRunning(w)
    BY <2>1 DEF CountRunning
  <2>2. CASE Release(w)
    BY <2>2 DEF Release
  <2> QED BY <1>9, <2>1, <2>2
<1>10. ASSUME NEW w \in Workers, Launch(w)
      PROVE  Typed'
  BY <1>10 DEF Launch
<1>11. ASSUME NEW w \in Workers,
              LaunchFails(w) \/ AwaitReady(w) \/ AwaitTimeout(w) \/ JoinFuture(w)
      PROVE  Typed'
  <2>1. "exception" \in Outcomes
    BY DEF Outcomes
  <2>2. CASE LaunchFails(w)
    BY <2>2, <2>1, ResultTypes DEF LaunchFails
  <2>3. CASE AwaitReady(w)
    BY <2>3, ResultTypes DEF AwaitReady
  <2>4. CASE AwaitTimeout(w)
    BY <2>4, ResultTypes DEF AwaitTimeout
  <2>5. CASE JoinFuture(w)
    BY <2>5 DEF JoinFuture
  <2> QED BY <1>11, <2>2, <2>3, <2>4, <2>5
<1>12. ASSUME NEW w \in Workers, Publish(w)
      PROVE  Typed'
  <2> DEFINE bf == normalise_backfill(res[w].raw, res[w].success, res[w].error)
  <2>1. res[w] \in Result
    OBVIOUS
  <2>2. bf \in Backfill
    BY <2>1, NormaliseType
  <2>3. bf.error \in Errors
    BY <2>2 DEF Backfill
  <2>4. /\ backfill' = [backfill EXCEPT ![cur[w]] = bf]
        /\ \/ error' = [error EXCEPT ![cur[w]] = ""]
           \/ error' = [error EXCEPT ![cur[w]] = bf.error]
        /\ \/ state' = [state EXCEPT ![cur[w]] = "done"]
           \/ state' = [state EXCEPT ![cur[w]] = "failed"]
    BY <1>12 DEF Publish
  <2> HIDE DEF bf, Ids
  <2>5. backfill' \in [Ids -> Backfill]
    BY <2>2, <2>4
  <2>8. error' \in [Ids -> Errors] /\ state' \in [Ids -> States]
    BY <2>3, <2>4 DEF States, Errors
  <2>9. /\ succeeded_total' \in {succeeded_total, succeeded_total + 1}
        /\ failed_total' \in {failed_total, failed_total + 1}
    BY <1>12, Zenon DEF Publish
  <2>6. succeeded_total' \in Nat /\ failed_total' \in Nat
    BY <2>9
  <2>7. wpc' \in [Workers -> WorkerPlaces]
    BY <1>12 DEF Publish
  <2> QED BY <1>12, <2>5, <2>6, <2>7, <2>8 DEF Publish
<1>13. ASSUME NEW id \in Ids, BackfillReturns(id)
      PROVE  Typed'
  BY <1>13 DEF BackfillReturns
<1>14. CASE UNCHANGED vars
  BY <1>14 DEF vars
<1> QED
  BY <1>1, <1>2, <1>3, <1>4, <1>5, <1>6, <1>7, <1>8, <1>9, <1>10, <1>11, <1>12,
     <1>13, <1>14 DEF Next, ClientFinishes, WorkerSteps

LEMMA TypeInit == Init => Typed
<1> SUFFICES ASSUME Init PROVE Typed
  OBVIOUS
<1>1. g_queue = <<>> /\ g_next_id = 1 /\ MaxTasks \in Nat
  BY QueueConstants DEF Init
<1>3. g_queue \in Seq(Ids) /\ g_next_id \in 1..(MaxTasks + 1)
  BY <1>1
<1>2. /\ state \in [Ids -> States] /\ backfill \in [Ids -> Backfill]
      /\ error \in [Ids -> Errors] /\ res \in [Workers -> Result]
  BY ResultTypes DEF Init, States, Errors
<1>4. /\ cpc \in [Clients -> ClientPlaces] /\ wpc \in [Workers -> WorkerPlaces]
      /\ \A c \in Clients : cpc[c] = "idle"
  BY DEF Init, ClientPlaces, WorkerPlaces
<1>5. /\ mine \in [Clients -> Ids \cup {0}] /\ cur \in [Workers -> Ids \cup {0}]
      /\ future \in [Ids -> {"none", "running"} \cup Outcomes]
      /\ g_tasks \subseteq Ids /\ returned \subseteq Ids
      /\ g_worker_started \in BOOLEAN
  BY DEF Init
<1>6. /\ enqueued_total \in Nat /\ succeeded_total \in Nat
      /\ failed_total \in Nat /\ running \in Int
  <2>1. /\ enqueued_total = 0 /\ succeeded_total = 0
        /\ failed_total = 0 /\ running = 0
    BY DEF Init
  <2> QED BY <2>1
<1> QED BY <1>2, <1>3, <1>4, <1>5, <1>6 DEF Typed

(* Ids stay within what was handed out, places and states within the       *)
(* code's enumerations.                                                    *)
LEMMA TypesKept == Spec => []Typed
BY TypeInit, TypeStep, PTL DEF Spec

-----------------------------------------------------------------------------
(* The inductive invariant *)

(* A step of Next is a step of one handler, one worker or one download.    *)
LEMMA NextCases ==
  ASSUME [Next]_vars
  PROVE  \/ \E c \in Clients : \/ TakeId(c) \/ PushTask(c)
                               \/ CountEnqueued(c) \/ NotifyAndReturn(c)
         \/ \E w \in Workers :
              \/ EnsureWorker(w) \/ SpuriousWake(w) \/ Sleep(w) \/ Pop(w)
              \/ MarkRunning(w) \/ CountRunning(w) \/ Launch(w) \/ LaunchFails(w)
              \/ AwaitReady(w) \/ AwaitTimeout(w) \/ JoinFuture(w)
              \/ Publish(w) \/ Release(w)
         \/ \E id \in Ids : BackfillReturns(id)
         \/ UNCHANGED vars
BY DEF Next, ClientFinishes, WorkerSteps

LEMMA OneWorkerStep ==
  ASSUME Typed, OneWorker, [Next]_vars
  PROVE  OneWorker'
<1> USE DEF Typed, OneWorker, WorkerAt, globals, workerVars
<1>1. ASSUME NEW w \in Workers, wpc[w] # "off", NEW to \in WorkerPlaces,
             wpc' = [wpc EXCEPT ![w] = to], UNCHANGED g_worker_started
      PROVE  OneWorker'
  BY <1>1
<1>2. ASSUME NEW w \in Workers, EnsureWorker(w)
      PROVE  OneWorker'
  BY <1>2 DEF EnsureWorker
<1>3. ASSUME UNCHANGED <<wpc, g_worker_started>>
      PROVE  OneWorker'
  BY <1>3
<1> HIDE DEF Typed, OneWorker
<1>4. ASSUME NEW c \in Clients, TakeId(c) \/ PushTask(c) \/ CountEnqueued(c)
      PROVE  OneWorker'
  BY <1>3, <1>4 DEF TakeId, PushTask, CountEnqueued
<1>5. ASSUME NEW c \in Clients, NotifyAndReturn(c)
      PROVE  OneWorker'
  BY <1>1, <1>3, <1>5 DEF NotifyAndReturn, NotifyOne, WorkerPlaces
<1>6. ASSUME NEW w \in Workers, SpuriousWake(w) \/ Sleep(w) \/ Pop(w) \/ MarkRunning(w)
      PROVE  OneWorker'
  BY <1>1, <1>6 DEF SpuriousWake, Sleep, Pop, MarkRunning, WorkerPlaces
<1>7. ASSUME NEW w \in Workers,
             CountRunning(w) \/ Launch(w) \/ LaunchFails(w) \/ AwaitReady(w)
      PROVE  OneWorker'
  BY <1>1, <1>7 DEF CountRunning, Launch, LaunchFails, AwaitReady, WorkerPlaces
<1>8. ASSUME NEW w \in Workers,
             AwaitTimeout(w) \/ JoinFuture(w) \/ Publish(w) \/ Release(w)
      PROVE  OneWorker'
  BY <1>1, <1>8 DEF AwaitTimeout, JoinFuture, Publish, Release, WorkerPlaces
<1>9. ASSUME NEW id \in Ids, BackfillReturns(id)
      PROVE  OneWorker'
  BY <1>3, <1>9 DEF BackfillReturns
<1>10. CASE UNCHANGED vars
  BY <1>3, <1>10 DEF vars
<1> QED
  BY NextCases, <1>2, <1>4, <1>5, <1>6, <1>7, <1>8, <1>9, <1>10

(* Only TakeId, PushTask and the two later steps of enqueue() touch the    *)
(* variables that FreshIds speaks of.                                      *)
LEMMA FreshIdsStep ==
  ASSUME Typed, FreshIds, [Next]_vars
  PROVE  FreshIds'
<1> USE DEF Typed, FreshIds, ClientAt, globals, clientVars, Ids
<1>1. ASSUME NEW c \in Clients, TakeId(c)
      PROVE  FreshIds'
  BY <1>1, QueueConstants DEF TakeId
<1>2. ASSUME NEW c \in Clients, PushTask(c)
      PROVE  FreshIds'
  BY <1>2 DEF PushTask
<1>3. ASSUME NEW c \in Clients, CountEnqueued(c)
      PROVE  FreshIds'
  BY <1>3 DEF CountEnqueued
<1>4. ASSUME NEW c \in Clients, NotifyAndReturn(c)
      PROVE  FreshIds'
  BY <1>4 DEF NotifyAndReturn
<1>5. ASSUME UNCHANGED <<g_next_id, g_tasks, cpc, mine, returned>>
      PROVE  FreshIds'
  BY <1>5
<1> HIDE DEF Typed, FreshIds
<1>6. ASSUME NEW w \in Workers,
             \/ EnsureWorker(w) \/ SpuriousWake(w) \/ Sleep(w) \/ Pop(w)
             \/ MarkRunning(w) \/ CountRunning(w) \/ Launch(w) \/ LaunchFails(w)
             \/ AwaitReady(w) \/ AwaitTimeout(w) \/ JoinFuture(w)
             \/ Publish(w) \/ Release(w)
      PROVE  UNCHANGED <<g_next_id, g_tasks, cpc, mine, returned>>
  BY <1>6 DEF EnsureWorker, SpuriousWake, Sleep, Pop, MarkRunning, CountRunning,
     Launch, LaunchFails, AwaitReady, AwaitTimeout, JoinFuture, Publish, Release
<1>7. ASSUME NEW id \in Ids, BackfillReturns(id)
      PROVE  UNCHANGED <<g_next_id, g_tasks, cpc, mine, returned>>
  BY <1>7 DEF BackfillReturns
<1>8. CASE UNCHANGED vars
  BY <1>5, <1>8 DEF vars
<1> QED
  BY NextCases, <1>1, <1>2, <1>3, <1>4, <1>5, <1>6, <1>7, <1>8

Placed == QueueClean /\ HandsClean /\ TasksPlaced
placeVars == <<g_queue, g_tasks, state, future, wpc, cur>>

LEMMA PlacedUnchanged ==
  ASSUME Placed, UNCHANGED placeVars
  PROVE  Placed'
BY DEF Placed, QueueClean, HandsClean, TasksPlaced, Waiting, placeVars

(* A worker that has no task in its hands may move about.                  *)
LEMMA PlacedIdleMove ==
  ASSUME Typed, Placed, NEW w \in Workers, NEW to \in WorkerPlaces,
         wpc[w] \notin Holding, to \notin Holding,
         wpc' = [wpc EXCEPT ![w] = to],
         UNCHANGED <<g_queue, g_tasks, state, future, cur>>
  PROVE  Placed'
<1> USE DEF Placed, Typed, Holding, Working
<1>1. QueueClean'
  BY DEF QueueClean
<1>2. HandsClean'
  BY DEF HandsClean, Waiting
<1>3. TasksPlaced'
  BY DEF TasksPlaced, Waiting
<1> QED BY <1>1, <1>2, <1>3

(* A worker that keeps its running task may go on with it, if it does not  *)
(* turn its back on a download.                                            *)
LEMMA PlacedWorkMove ==
  ASSUME Typed, OneWorker, Placed, NEW w \in Workers, NEW to \in Working,
         wpc[w] \in Working,
         to \in {"await", "join"} \/ future[cur[w]] # "running",
         wpc' = [wpc EXCEPT ![w] = to],
         UNCHANGED <<g_queue, g_tasks, state, future, cur>>
  PROVE  Placed'
<1> USE DEF Placed, Typed, Holding, Working
<1>1. QueueClean'
  BY DEF QueueClean
<1>2. HandsClean'
  BY DEF HandsClean, Waiting
<1>3. TasksPlaced'
  BY DEF TasksPlaced, Waiting, OneWorker
<1> QED BY <1>1, <1>2, <1>3

LEMMA PlacedPush ==
  ASSUME Typed, FreshIds, Placed, NEW c \in Clients, PushTask(c)
  PROVE  Placed'
<1> DEFINE new == mine[c]
<1>1. /\ new \in Ids /\ new \notin g_tasks
      /\ g_tasks' = g_tasks \cup {new} /\ g_queue' = Append(g_queue, new)
      /\ UNCHANGED <<state, future, wpc, cur>>
  BY DEF PushTask, ClientAt, Typed, FreshIds, taskVars, workerVars
<1>2. /\ Len(g_queue') = Len(g_queue) + 1 /\ Len(g_queue) \in Nat
      /\ g_queue'[Len(g_queue) + 1] = new
      /\ \A i \in 1..Len(g_queue) : g_queue'[i] = g_queue[i]
  BY <1>1 DEF Typed
<1>3. state[new] = "queued"
  BY <1>1 DEF Placed, TasksPlaced
<1> HIDE DEF new
<1>4. \A id \in Ids : Waiting(id)' <=> (Waiting(id) \/ id = new)
  BY <1>2 DEF Waiting
<1>5. QueueClean'
  BY <1>1, <1>2, <1>3 DEF Placed, QueueClean
<1>6. HandsClean'
  BY <1>1, <1>4 DEF Placed, HandsClean, Holding, Working, Typed
<1>7. TasksPlaced'
  BY <1>1, <1>3, <1>4 DEF Placed, TasksPlaced
<1> QED BY <1>5, <1>6, <1>7 DEF Placed

LEMMA PlacedPop ==
  ASSUME Typed, OneWorker, Placed, NEW w \in Workers, Pop(w)
  PROVE  Placed'
<1>0. PICK head \in Ids : head = Head(g_queue)
  BY DEF Pop, Typed
<1>1. /\ g_queue # <<>> /\ g_queue \in Seq(Ids) /\ g_queue' = Tail(g_queue)
      /\ wpc[w] = "wait" /\ UNCHANGED <<state, future, g_tasks>>
      /\ cur' = [cur EXCEPT ![w] = head]
      /\ cur \in [Workers -> Ids \cup {0}] /\ wpc \in [Workers -> WorkerPlaces]
  BY <1>0 DEF Pop, WorkerAt, Typed, taskVars
<1>2. /\ Len(g_queue) \in Nat \ {0} /\ head = g_queue[1]
      /\ Len(g_queue') = Len(g_queue) - 1
      /\ \A i \in 1..Len(g_queue') : g_queue'[i] = g_queue[i + 1]
  BY <1>0, <1>1
<1>3. head \in g_tasks /\ head \in Ids /\ state[head] = "queued"
  BY <1>2, <1>1 DEF Placed, QueueClean
<1>4. wpc' = [wpc EXCEPT ![w] = "popped"]
  BY <1>0, <1>3 DEF Pop, WorkerAt
<1>5. \A id \in Ids : Waiting(id) <=> (Waiting(id)' \/ id = head)
  <2>1. ASSUME NEW id \in Ids, NEW i \in 1..Len(g_queue), g_queue[i] = id, id # head
        PROVE  Waiting(id)'
    <3>1. i # 1 /\ i - 1 \in 1..Len(g_queue')
      BY <1>2, <2>1
    <3>2. g_queue'[i - 1] = id
      BY <1>2, <2>1, <3>1
    <3> QED BY <3>1, <3>2 DEF Waiting
  <2>2. ASSUME NEW id \in Ids, NEW i \in 1..Len(g_queue'), g_queue'[i] = id
        PROVE  Waiting(id)
    BY <1>2, <2>2 DEF Waiting
  <2>3. Waiting(head)
    BY <1>2 DEF Waiting
  <2> QED BY <2>1, <2>2, <2>3 DEF Waiting
<1>6. ~Waiting(head)'
  <2>1. ASSUME NEW i \in 1..Len(g_queue'), g_queue'[i] = head
        PROVE  FALSE
    <3>1. i + 1 \in 1..Len(g_queue) /\ 1 \in 1..Len(g_queue) /\ i + 1 # 1
      BY <1>2
    <3>2. g_queue[i + 1] = g_queue[1]
      BY <1>2, <2>1
    <3> QED BY <3>1, <3>2 DEF Placed, QueueClean
  <2> QED BY <2>1 DEF Waiting
<1>7. QueueClean'
  <2>1. \A i \in 1..Len(g_queue') : i + 1 \in 1..Len(g_queue)
    BY <1>2
  <2>2. ASSUME NEW i \in 1..Len(g_queue')
        PROVE  g_queue'[i] \in g_tasks' /\ state'[g_queue'[i]] = "queued"
    BY <1>1, <1>2, <2>1 DEF Placed, QueueClean
  <2>3. ASSUME NEW i \in 1..Len(g_queue'), NEW j \in 1..Len(g_queue'),
               g_queue'[i] = g_queue'[j]
        PROVE  i = j
    BY <1>2, <2>1, <2>3 DEF Placed, QueueClean
  <2> QED BY <2>2, <2>3 DEF QueueClean
<1>8. HandsClean'
  BY <1>1, <1>3, <1>4, <1>6 DEF Placed, HandsClean, Holding, Working, OneWorker
<1>9. TasksPlaced'
  BY <1>1, <1>3, <1>4, <1>5 DEF Placed, TasksPlaced, Holding, Working, OneWorker
<1> QED BY <1>7, <1>8, <1>9 DEF Placed

LEMMA PlacedMark ==
  ASSUME Typed, OneWorker, Placed, NEW w \in Workers, MarkRunning(w)
  PROVE  Placed'
<1> DEFINE id == cur[w]
<1>1. /\ wpc[w] = "popped" /\ wpc' = [wpc EXCEPT ![w] = "marked"]
      /\ state' = [state EXCEPT ![id] = "running"]
      /\ UNCHANGED <<g_queue, g_tasks, future, cur>>
      /\ state \in [Ids -> States] /\ wpc \in [Workers -> WorkerPlaces]
      /\ g_tasks \subseteq Ids /\ g_queue \in Seq(Ids)
  BY DEF MarkRunning, WorkerAt, Typed, globals
<1>2. id \in g_tasks /\ state[id] = "queued" /\ ~Waiting(id)
  BY <1>1 DEF Placed, HandsClean, Holding
<1>3. QueueClean'
  BY <1>1, <1>2 DEF Placed, QueueClean, Waiting
<1>4. HandsClean'
  BY <1>1, <1>2 DEF Placed, HandsClean, Holding, Working, OneWorker
<1>5. TasksPlaced'
  BY <1>1, <1>2 DEF Placed, TasksPlaced, Waiting, Working, OneWorker
<1> QED BY <1>3, <1>4, <1>5 DEF Placed

LEMMA PlacedLaunch ==
  ASSUME Typed, OneWorker, Placed, NEW w \in Workers, Launch(w)
  PROVE  Placed'
<1> DEFINE id == cur[w]
<1>1. /\ wpc[w] = "counted" /\ wpc' = [wpc EXCEPT ![w] = "await"]
      /\ future' = [future EXCEPT ![id] = "running"]
      /\ UNCHANGED <<g_queue, g_tasks, state, cur>>
      /\ wpc \in [Workers -> WorkerPlaces]
  BY DEF Launch, WorkerAt, Typed, globals, taskVars
<1>2. future \in [Ids -> {"none", "running"} \cup Outcomes] /\ g_tasks \subseteq Ids
  BY DEF Typed
<1>3. QueueClean'
  BY <1>1 DEF Placed, QueueClean
<1>4. HandsClean'
  BY <1>1 DEF Placed, HandsClean, Waiting, Holding, Working, OneWorker
<1>5. TasksPlaced'
  BY <1>1, <1>2 DEF Placed, TasksPlaced, Waiting, Working, OneWorker
<1> QED BY <1>3, <1>4, <1>5 DEF Placed

LEMMA PlacedPublish ==
  ASSUME Typed, OneWorker, Placed, NEW w \in Workers, Publish(w)
  PROVE  Placed'
<1> DEFINE id == cur[w]
<1>1. /\ wpc[w] = "judged" /\ wpc' = [wpc EXCEPT ![w] = "published"]
      /\ UNCHANGED <<g_queue, g_tasks, future, cur>>
      /\ state \in [Ids -> States] /\ wpc \in [Workers -> WorkerPlaces]
      /\ g_tasks \subseteq Ids /\ g_queue \in Seq(Ids)
  BY DEF Publish, WorkerAt, Typed, globals
<1>2. \E v \in Terminal : state' = [state EXCEPT ![id] = v]
  BY Zenon DEF Publish, Terminal
<1>3. id \in g_tasks /\ state[id] = "running" /\ future[id] # "running"
  BY <1>1 DEF Placed, HandsClean, Holding, Working
<1> USE DEF Terminal
<1>4. QueueClean'
  BY <1>1, <1>2, <1>3 DEF Placed, QueueClean
<1>5. HandsClean'
  BY <1>1, <1>2, <1>3 DEF Placed, HandsClean, Waiting, Holding, Working, OneWorker
<1>6. TasksPlaced'
  BY <1>1, <1>2, <1>3 DEF Placed, TasksPlaced, Waiting, Working, OneWorker
<1> QED BY <1>4, <1>5, <1>6 DEF Placed

LEMMA PlacedBackfillReturns ==
  ASSUME Typed, Placed, NEW id \in Ids, BackfillReturns(id)
  PROVE  Placed'
<1>1. PICK how \in Outcomes : future' = [future EXCEPT ![id] = how]
  BY DEF BackfillReturns
<1>2. /\ UNCHANGED <<g_queue, g_tasks, state, wpc, cur>>
      /\ future \in [Ids -> {"none", "running"} \cup Outcomes] /\ g_tasks \subseteq Ids
  BY DEF BackfillReturns, Typed, globals, taskVars, workerVars
<1>3. how # "running"
  BY DEF Outcomes
<1>4. QueueClean'
  BY <1>2 DEF Placed, QueueClean
<1>5. HandsClean'
  BY <1>1, <1>2, <1>3 DEF Placed, HandsClean, Waiting, Holding, Working
<1>6. TasksPlaced'
  BY <1>1, <1>2, <1>3 DEF Placed, TasksPlaced, Waiting
<1> QED BY <1>4, <1>5, <1>6 DEF Placed

(* One step keeps the inductive invariant.                                 *)
LEMMA IInvStep == IInv /\ [Next]_vars => IInv'
<1> SUFFICES ASSUME Typed, OneWorker, FreshIds, Placed, [Next]_vars
             PROVE  Placed'
  BY TypeStep, OneWorkerStep, FreshIdsStep DEF IInv, Placed
<1> USE DEF globals, taskVars, clientVars, workerVars
<1>1. ASSUME NEW c \in Clients, TakeId(c) \/ CountEnqueued(c)
      PROVE  Placed'
  BY <1>1, PlacedUnchanged DEF TakeId, CountEnqueued, placeVars
<1>2. ASSUME NEW c \in Clients, NotifyAndReturn(c)
      PROVE  Placed'
  <2>1. UNCHANGED <<g_queue, g_tasks, state, future, cur>>
    BY <1>2 DEF NotifyAndReturn
  <2>2. CASE UNCHANGED wpc
    BY <2>1, <2>2, PlacedUnchanged DEF placeVars
  <2>3. ASSUME NEW w \in Workers, wpc[w] = "asleep", wpc' = [wpc EXCEPT ![w] = "wait"]
        PROVE  Placed'
    BY <2>1, <2>3, PlacedIdleMove DEF WorkerPlaces, Holding
  <2> QED BY <1>2, <2>2, <2>3 DEF NotifyAndReturn, NotifyOne
<1>3. ASSUME NEW w \in Workers,
             EnsureWorker(w) \/ SpuriousWake(w) \/ Sleep(w) \/ Release(w)
      PROVE  Placed'
  BY <1>3, PlacedIdleMove
     DEF EnsureWorker, SpuriousWake, Sleep, Release, WorkerAt, WorkerPlaces, Holding
<1>4. ASSUME NEW w \in Workers, wpc[w] \in {"marked", "counted"}
      PROVE  future[cur[w]] # "running"
  <2>1. cur[w] \in Ids
    BY <1>4 DEF Placed, HandsClean, Holding, Typed
  <2> QED BY <1>4, <2>1 DEF Placed, TasksPlaced, OneWorker
<1>5. ASSUME NEW w \in Workers, CountRunning(w) \/ LaunchFails(w)
      PROVE  Placed'
  BY <1>4, <1>5, PlacedWorkMove DEF CountRunning, LaunchFails, WorkerAt, Working
<1>6. ASSUME NEW w \in Workers, AwaitReady(w)
      PROVE  Placed'
  BY <1>6, PlacedWorkMove DEF AwaitReady, WorkerAt, Working, Outcomes
<1>7. ASSUME NEW w \in Workers, AwaitTimeout(w) \/ JoinFuture(w)
      PROVE  Placed'
  BY <1>7, PlacedWorkMove DEF AwaitTimeout, JoinFuture, WorkerAt, Working
<1>8. CASE UNCHANGED vars
  BY <1>8, PlacedUnchanged DEF vars, placeVars
<1> QED
  BY NextCases, PlacedPush, PlacedPop, PlacedMark, PlacedLaunch, PlacedPublish,
     PlacedBackfillReturns, <1>1, <1>2, <1>3, <1>5, <1>6, <1>7, <1>8

LEMMA Invariance == Spec => []IInv
<1>1. Init => IInv
  <2> SUFFICES ASSUME Init PROVE IInv
    OBVIOUS
  <2>1. g_queue = <<>> /\ g_tasks = {} /\ returned = {} /\ ~g_worker_started
    BY DEF Init
  <2>2. /\ \A w \in Workers : wpc[w] = "off"
        /\ \A c \in Clients : cpc[c] = "idle"
        /\ \A id \in Ids : state[id] = "queued" /\ future[id] = "none"
    BY DEF Init
  <2>3. Typed
    BY TypeInit
  <2>4. OneWorker /\ FreshIds
    BY <2>1, <2>2 DEF OneWorker, FreshIds
  <2>5. QueueClean
    BY <2>1 DEF QueueClean
  <2>6. HandsClean /\ TasksPlaced
    BY <2>1, <2>2 DEF HandsClean, TasksPlaced, Holding, Working
  <2> QED BY <2>3, <2>4, <2>5, <2>6 DEF IInv
<1> QED BY <1>1, IInvStep, PTL DEF Spec

(* Downloads never overlap and never outlive their task, although the      *)
(* worker stops waiting for one when its time is up.                       *)
THEOREM DownloadsDoNotOverlap == Spec => []OneDownload
<1>1. IInv => OneDownload
  <2> SUFFICES ASSUME IInv, NEW id \in Ids, future[id] = "running"
               PROVE  /\ state[id] = "running"
                      /\ \A other \in Ids \ {id} : future[other] # "running"
    BY DEF OneDownload
  <2>1. PICK w \in Workers : wpc[w] \in {"await", "join"} /\ cur[w] = id
    BY DEF IInv, TasksPlaced
  <2>2. state[id] = "running"
    BY <2>1 DEF IInv, HandsClean, Working
  <2>3. \A other \in Ids \ {id} : future[other] # "running"
    BY <2>1 DEF IInv, TasksPlaced, OneWorker
  <2> QED BY <2>2, <2>3
<1> QED BY <1>1, Invariance, PTL

(* The id in a 202 answer is in the map for good.                          *)
THEOREM ReturnedIdsStayKnown == Spec => []ReturnedIdIsKnown
<1>1. IInv => ReturnedIdIsKnown
  BY DEF IInv, FreshIds, ReturnedIdIsKnown
<1> QED BY <1>1, Invariance, PTL

(* No task is lost or served twice between the queue and its verdict.      *)
THEOREM TasksAreNotLost == Spec => []NoTaskLost
<1>1. IInv => NoTaskLost
  <2> SUFFICES ASSUME IInv
               PROVE  NoTaskLost
    OBVIOUS
  <2> DEFINE held(id) == {w \in Workers : wpc[w] \in Holding /\ cur[w] = id}
  <2>1. ASSUME NEW id \in g_tasks, NEW w \in Workers, wpc[w] \in Holding, cur[w] = id
        PROVE  Cardinality(held(id)) = 1
    <3>1. held(id) = {w}
      BY <2>1 DEF IInv, OneWorker, Holding
    <3> QED BY <3>1, FS_Singleton
  <2>2. ASSUME NEW id \in g_tasks
        PROVE  /\ state[id] = "queued" =>
                    \/ Waiting(id) /\ held(id) = {}
                    \/ ~Waiting(id) /\ Cardinality(held(id)) = 1
               /\ state[id] = "running" => ~Waiting(id) /\ Cardinality(held(id)) = 1
               /\ state[id] \in Terminal => ~Waiting(id) /\ held(id) = {}
    <3>0. id \in Ids
      BY DEF IInv, Typed
    <3>1. CASE state[id] = "queued"
      <4>1. \A w \in held(id) : wpc[w] = "popped" /\ ~Waiting(id)
        BY <3>1 DEF IInv, HandsClean, Holding, Working
      <4>2. CASE held(id) = {}
        <5>1. Waiting(id)
          BY <3>0, <3>1, <4>2 DEF IInv, TasksPlaced, Holding
        <5> QED BY <3>1, <4>2, <5>1 DEF Terminal
      <4>3. CASE held(id) # {}
        <5>1. PICK w \in held(id) : TRUE
          BY <4>3
        <5>2. Cardinality(held(id)) = 1 /\ ~Waiting(id)
          BY <2>1, <4>1, <5>1
        <5> HIDE DEF held
        <5> QED BY <3>1, <5>2 DEF Terminal
      <4> QED BY <4>2, <4>3
    <3>2. CASE state[id] = "running"
      <4>1. ~Waiting(id)
        BY <3>2 DEF IInv, QueueClean, Waiting
      <4>2. \E w \in Workers : wpc[w] \in Holding /\ cur[w] = id
        BY <3>0, <3>2 DEF IInv, TasksPlaced, Working, Holding
      <4> QED BY <2>1, <3>2, <4>1, <4>2 DEF Terminal
    <3>3. CASE state[id] \in Terminal
      <4>1. ~Waiting(id)
        BY <3>3 DEF IInv, QueueClean, Waiting, Terminal
      <4>2. held(id) = {}
        BY <3>3 DEF IInv, HandsClean, Holding, Working, Terminal
      <4> QED BY <3>3, <4>1, <4>2 DEF Terminal
    <3> QED BY <3>0, <3>1, <3>2, <3>3 DEF IInv, Typed, States, Terminal
  <2>3. \A i, j \in 1..Len(g_queue) : g_queue[i] = g_queue[j] => i = j
    BY DEF IInv, QueueClean
  <2> QED BY <2>2, <2>3 DEF NoTaskLost, Waiting
<1> QED BY <1>1, Invariance, PTL

-----------------------------------------------------------------------------
(* Verdicts and their payload *)

\* Whatever way the try block was left, it assigned one of these results.
ResultsClean ==
  \A w \in Workers :
    wpc[w] \in {"join", "judged"} =>
      \E how \in Outcomes \cup {"timeout"} : res[w] = ResultOf(how)

Paid == ResultsClean /\ VerdictHasPayload
payVars == <<state, backfill, error, wpc, res>>

(* What Publish stores fits the result it was given.                       *)
LEMMA PayloadFits ==
  ASSUME NEW how \in Outcomes \cup {"timeout"}
  PROVE  LET r  == ResultOf(how)
             bf == normalise_backfill(r.raw, r.success, r.error)
         IN  /\ bf.present /\ ~bf.running
             /\ r.success => bf.ok /\ bf.error = ""
             /\ ~r.success => ~bf.ok /\ bf.error # ""
             /\ r.success \in BOOLEAN /\ bf.ok \in BOOLEAN
BY DEF ResultOf, normalise_backfill, FirstNonEmpty, Reply, Outcomes

LEMMA PaidQuiet ==
  ASSUME Typed, Paid, NEW w \in Workers, NEW to \in WorkerPlaces \ {"join", "judged"},
         UNCHANGED <<state, backfill, error, res>>,
         wpc' = [wpc EXCEPT ![w] = to]
  PROVE  Paid'
BY DEF Paid, ResultsClean, VerdictHasPayload, Typed

LEMMA PaidJudge ==
  ASSUME Typed, Paid, NEW w \in Workers, NEW to \in {"join", "judged"},
         NEW how \in Outcomes \cup {"timeout"},
         UNCHANGED <<state, backfill, error>>,
         res' = [res EXCEPT ![w] = ResultOf(how)],
         wpc' = [wpc EXCEPT ![w] = to]
  PROVE  Paid'
BY DEF Paid, ResultsClean, VerdictHasPayload, Typed

LEMMA PaidPublish ==
  ASSUME Typed, HandsClean, Paid, NEW w \in Workers, Publish(w)
  PROVE  Paid'
<1>1. PICK how \in Outcomes \cup {"timeout"} : res[w] = ResultOf(how)
  BY DEF Publish, WorkerAt, Paid, ResultsClean
<1>2. PICK id \in Ids : id = cur[w]
  BY DEF Publish, WorkerAt, HandsClean, Holding, Typed
<1>3. PICK r \in Result : r = ResultOf(how)
  BY ResultTypes
<1>4. PICK bf \in Backfill : bf = normalise_backfill(r.raw, r.success, r.error)
  BY NormaliseType
<1>5. /\ bf.present /\ ~bf.running
      /\ r.success => bf.ok /\ bf.error = ""
      /\ ~r.success => ~bf.ok /\ bf.error # ""
  BY PayloadFits, <1>3, <1>4
<1>6. /\ backfill' = [backfill EXCEPT ![id] = bf]
      /\ \/ /\ r.success
            /\ state' = [state EXCEPT ![id] = "done"]
            /\ error' = [error EXCEPT ![id] = ""]
         \/ /\ ~r.success
            /\ state' = [state EXCEPT ![id] = "failed"]
            /\ error' = [error EXCEPT ![id] = bf.error]
      /\ wpc' = [wpc EXCEPT ![w] = "published"] /\ res' = res
  BY <1>1, <1>2, <1>3, <1>4 DEF Publish, WorkerAt
<1>7. ResultsClean'
  BY <1>6 DEF Paid, ResultsClean, Typed
<1>8. \/ state'[id] = "done" /\ bf.ok /\ error'[id] = "" /\ bf.error = ""
      \/ state'[id] = "failed" /\ ~bf.ok /\ error'[id] = bf.error /\ bf.error # ""
  BY <1>5, <1>6 DEF Typed
<1>9. backfill'[id] = bf /\ bf.ok \in BOOLEAN
  BY <1>6, <1>4 DEF Typed, Backfill
<1>10. ASSUME NEW other \in Ids, other # id
       PROVE  /\ state'[other] = state[other] /\ error'[other] = error[other]
              /\ backfill'[other] = backfill[other]
  BY <1>6, <1>10 DEF Typed
<1>11. VerdictHasPayload'
  <2> SUFFICES ASSUME NEW k \in Ids, state'[k] \in Terminal
               PROVE  /\ backfill'[k].present /\ ~backfill'[k].running
                      /\ backfill'[k].ok = (state'[k] = "done")
                      /\ backfill'[k].error = error'[k]
                      /\ (error'[k] = "") = (state'[k] = "done")
    BY DEF VerdictHasPayload
  <2>1. CASE k = id
    BY <2>1, <1>5, <1>8, <1>9
  <2>2. CASE k # id
    BY <2>2, <1>10 DEF Paid, VerdictHasPayload
  <2> QED BY <2>1, <2>2
<1> QED BY <1>7, <1>11 DEF Paid

LEMMA PaidStep == IInv /\ Paid /\ [Next]_vars => Paid'
<1> SUFFICES ASSUME Typed, HandsClean, Paid, [Next]_vars
             PROVE  Paid'
  BY DEF IInv
<1> USE DEF globals, taskVars, clientVars, workerVars
<1>1. ASSUME UNCHANGED payVars
      PROVE  Paid'
  BY <1>1 DEF payVars, Paid, ResultsClean, VerdictHasPayload
<1>2. ASSUME NEW c \in Clients, TakeId(c) \/ PushTask(c) \/ CountEnqueued(c)
      PROVE  Paid'
  BY <1>1, <1>2 DEF TakeId, PushTask, CountEnqueued, payVars
<1>3. ASSUME NEW c \in Clients, NotifyAndReturn(c)
      PROVE  Paid'
  BY <1>1, <1>3, PaidQuiet DEF NotifyAndReturn, NotifyOne, payVars, WorkerPlaces
<1>4. ASSUME NEW w \in Workers,
             \/ EnsureWorker(w) \/ SpuriousWake(w) \/ Sleep(w) \/ Pop(w)
             \/ CountRunning(w) \/ Launch(w) \/ Release(w)
      PROVE  Paid'
  <2>1. \E to \in WorkerPlaces \ {"join", "judged"} : wpc' = [wpc EXCEPT ![w] = to]
    BY <1>4 DEF EnsureWorker, SpuriousWake, Sleep, Pop, CountRunning, Launch, Release,
       WorkerAt, WorkerPlaces
  <2>2. UNCHANGED <<state, backfill, error, res>>
    BY <1>4 DEF EnsureWorker, SpuriousWake, Sleep, Pop, CountRunning, Launch, Release
  <2> QED BY <2>1, <2>2, PaidQuiet
<1>5. ASSUME NEW w \in Workers, MarkRunning(w)
      PROVE  Paid'
  <2>1. /\ wpc' = [wpc EXCEPT ![w] = "marked"] /\ res' = res
        /\ state' = [state EXCEPT ![cur[w]] = "running"]
        /\ error' = [error EXCEPT ![cur[w]] = ""]
        /\ backfill' = [backfill EXCEPT ![cur[w]] = RunningBackfill]
    BY <1>5 DEF MarkRunning, WorkerAt
  <2> QED BY <2>1 DEF Paid, ResultsClean, VerdictHasPayload, Typed, Terminal
<1>6. ASSUME NEW w \in Workers, LaunchFails(w)
      PROVE  Paid'
  BY <1>6, PaidJudge DEF LaunchFails, WorkerAt, Outcomes
<1>7. ASSUME NEW w \in Workers, AwaitReady(w) \/ AwaitTimeout(w)
      PROVE  Paid'
  BY <1>7, PaidJudge DEF AwaitReady, AwaitTimeout, WorkerAt
<1>8. ASSUME NEW w \in Workers, JoinFuture(w)
      PROVE  Paid'
  BY <1>8 DEF JoinFuture, WorkerAt, Paid, ResultsClean, VerdictHasPayload, Typed
<1>9. ASSUME NEW id \in Ids, BackfillReturns(id)
      PROVE  Paid'
  BY <1>1, <1>9 DEF BackfillReturns, payVars
<1>10. CASE UNCHANGED vars
  BY <1>1, <1>10 DEF vars, payVars
<1> QED
  BY NextCases, PaidPublish, <1>2, <1>3, <1>4, <1>5, <1>6, <1>7, <1>8, <1>9, <1>10

(* GET /api/symbol/task never shows a verdict without its payload, and     *)
(* payload, state and error of a verdict agree.                            *)
THEOREM VerdictsHavePayload == Spec => []VerdictHasPayload
<1>1. Init => Paid
  BY DEF Init, Paid, ResultsClean, VerdictHasPayload, Terminal
<1>2. Paid => VerdictHasPayload
  BY DEF Paid
<1> QED BY <1>1, <1>2, PaidStep, Invariance, PTL DEF Spec

-----------------------------------------------------------------------------
(* The totals of GET /api/symbol/metrics *)

WithState(s)   == {id \in Ids : state[id] = s}
PushedClients  == {c \in Clients : cpc[c] = "pushed"}
GuardedWorkers == {w \in Workers : wpc[w] \in Guarded}

(* What is counted can be counted.                                         *)
LEMMA CountedAreFinite ==
  ASSUME Typed
  PROVE  /\ \A s \in States : IsFiniteSet(WithState(s))
         /\ IsFiniteSet(PushedClients) /\ IsFiniteSet(GuardedWorkers)
         /\ IsFiniteSet(g_tasks)
<1>1. IsFiniteSet(Ids)
  BY FS_Interval, QueueConstants DEF Ids
<1>2. \A s \in States : WithState(s) \in SUBSET Ids
  BY DEF WithState
<1>3. PushedClients \in SUBSET Clients /\ GuardedWorkers \in SUBSET Workers
  BY DEF PushedClients, GuardedWorkers
<1>4. g_tasks \in SUBSET Ids
  BY DEF Typed
<1> QED BY <1>1, <1>2, <1>3, <1>4, FS_Subset, QueueConstants

(* A step that keeps the sets and the totals keeps them equal.             *)
LEMMA CountersQuiet ==
  ASSUME CountersMatch, UNCHANGED <<counters, state, g_tasks>>,
         PushedClients' = PushedClients, GuardedWorkers' = GuardedWorkers
  PROVE  CountersMatch'
BY DEF CountersMatch, counters, PushedClients, GuardedWorkers

(* A worker that neither enters nor leaves its guard.                      *)
LEMMA GuardKept ==
  ASSUME Typed, NEW w \in Workers, NEW to \in WorkerPlaces,
         wpc' = [wpc EXCEPT ![w] = to], wpc[w] \in Guarded <=> to \in Guarded
  PROVE  GuardedWorkers' = GuardedWorkers
BY DEF Typed, GuardedWorkers

LEMMA CountersPush ==
  ASSUME Typed, FreshIds, CountersMatch, NEW c \in Clients, PushTask(c)
  PROVE  CountersMatch'
<1>1. PushedClients' = PushedClients \cup {c} /\ c \notin PushedClients
  BY DEF PushTask, ClientAt, PushedClients, Typed
<1>2. g_tasks' = g_tasks \cup {mine[c]} /\ mine[c] \notin g_tasks
  BY DEF PushTask, ClientAt, FreshIds
<1>3. /\ Cardinality(PushedClients') = Cardinality(PushedClients) + 1
      /\ Cardinality(g_tasks') = Cardinality(g_tasks) + 1
  BY <1>1, <1>2, CountedAreFinite, FS_AddElement
<1>4. UNCHANGED <<state, counters>> /\ UNCHANGED wpc
  BY DEF PushTask, workerVars, taskVars
<1>5. Cardinality(PushedClients) \in Nat /\ Cardinality(g_tasks) \in Nat
  BY CountedAreFinite, FS_CardinalityType
<1>6. enqueued_total' + Cardinality(PushedClients') = Cardinality(g_tasks')
  <2>1. enqueued_total + Cardinality(PushedClients) = Cardinality(g_tasks)
    BY DEF CountersMatch, PushedClients
  <2>2. enqueued_total' = enqueued_total /\ enqueued_total \in Nat
    BY <1>4 DEF counters, Typed
  <2> QED BY <1>3, <1>5, <2>1, <2>2
<1> QED BY <1>4, <1>6 DEF CountersMatch, counters, PushedClients

LEMMA CountersAdd ==
  ASSUME Typed, CountersMatch, NEW c \in Clients, CountEnqueued(c)
  PROVE  CountersMatch'
<1>1. PushedClients' = PushedClients \ {c} /\ c \in PushedClients
  BY DEF CountEnqueued, ClientAt, PushedClients, Typed
<1>2. Cardinality(PushedClients') = Cardinality(PushedClients) - 1
  BY <1>1, CountedAreFinite, FS_RemoveElement
<1>3. Cardinality(PushedClients) \in Nat
  BY CountedAreFinite, FS_CardinalityType
<1>4. /\ UNCHANGED <<state, succeeded_total, failed_total, running, wpc, g_tasks>>
      /\ enqueued_total' = enqueued_total + 1
  BY DEF CountEnqueued, workerVars, taskVars, globals
<1>5. enqueued_total' + Cardinality(PushedClients') = Cardinality(g_tasks')
  <2>1. enqueued_total + Cardinality(PushedClients) = Cardinality(g_tasks)
    BY DEF CountersMatch, PushedClients
  <2>2. enqueued_total \in Nat
    BY DEF Typed
  <2> QED BY <1>2, <1>3, <1>4, <2>1, <2>2
<1> QED BY <1>4, <1>5 DEF CountersMatch, PushedClients

(* The guard counts the worker in and out.                                 *)
LEMMA CountersGuard ==
  ASSUME Typed, CountersMatch, NEW w \in Workers, CountRunning(w) \/ Release(w)
  PROVE  CountersMatch'
<1>1. /\ UNCHANGED <<state, enqueued_total, succeeded_total, failed_total, cpc, g_tasks>>
  BY DEF CountRunning, Release, clientVars, taskVars, globals
<1>2. running = Cardinality(GuardedWorkers) /\ Cardinality(GuardedWorkers) \in Nat
  BY CountedAreFinite, FS_CardinalityType DEF CountersMatch, GuardedWorkers
<1>3. CASE CountRunning(w)
  <2>1. GuardedWorkers' = GuardedWorkers \cup {w} /\ w \notin GuardedWorkers
    BY <1>3 DEF CountRunning, WorkerAt, GuardedWorkers, Guarded, Typed
  <2>2. Cardinality(GuardedWorkers') = Cardinality(GuardedWorkers) + 1
    BY <2>1, CountedAreFinite, FS_AddElement
  <2>3. running' = Cardinality(GuardedWorkers')
    BY <1>2, <1>3, <2>2 DEF CountRunning
  <2> QED BY <1>1, <2>3 DEF CountersMatch, GuardedWorkers
<1>4. CASE Release(w)
  <2>1. GuardedWorkers' = GuardedWorkers \ {w} /\ w \in GuardedWorkers
    BY <1>4 DEF Release, WorkerAt, GuardedWorkers, Guarded, Typed
  <2>2. Cardinality(GuardedWorkers') = Cardinality(GuardedWorkers) - 1
    BY <2>1, CountedAreFinite, FS_RemoveElement
  <2>3. running' = Cardinality(GuardedWorkers')
    BY <1>2, <1>4, <2>2 DEF Release
  <2> QED BY <1>1, <2>3 DEF CountersMatch, GuardedWorkers
<1> QED BY <1>3, <1>4

(* A verdict is counted with the state it gives the task.                  *)
LEMMA CountersPublish ==
  ASSUME Typed, HandsClean, CountersMatch, NEW w \in Workers, Publish(w)
  PROVE  CountersMatch'
<1>1. /\ wpc[w] = "judged" /\ wpc' = [wpc EXCEPT ![w] = "published"]
      /\ UNCHANGED <<enqueued_total, running, cpc, g_tasks>>
  <2>1. /\ wpc[w] = "judged" /\ wpc' = [wpc EXCEPT ![w] = "published"]
        /\ UNCHANGED enqueued_total /\ UNCHANGED running
        /\ UNCHANGED clientVars /\ UNCHANGED globals
    BY Zenon DEF Publish, WorkerAt
  <2> QED BY <2>1 DEF clientVars, globals
<1>2. PICK id \in Ids : id = cur[w] /\ state[id] = "running"
  BY <1>1 DEF HandsClean, Holding, Working, Typed
<1>3. \/ /\ state' = [state EXCEPT ![id] = "done"]
         /\ succeeded_total' = succeeded_total + 1 /\ failed_total' = failed_total
      \/ /\ state' = [state EXCEPT ![id] = "failed"]
         /\ failed_total' = failed_total + 1 /\ succeeded_total' = succeeded_total
  BY <1>2, Zenon DEF Publish
<1>4. /\ succeeded_total = Cardinality(WithState("done"))
      /\ failed_total = Cardinality(WithState("failed"))
  BY DEF CountersMatch, WithState
<1>5. /\ IsFiniteSet(WithState("done")) /\ IsFiniteSet(WithState("failed"))
  BY CountedAreFinite DEF States
<1>6. ASSUME NEW s \in {"done", "failed"}, state' = [state EXCEPT ![id] = s]
      PROVE  /\ Cardinality(WithState(s)') = Cardinality(WithState(s)) + 1
             /\ \A t \in {"done", "failed"} \ {s} : WithState(t)' = WithState(t)
  <2>1. WithState(s)' = WithState(s) \cup {id} /\ id \notin WithState(s)
    BY <1>2, <1>6 DEF WithState, Typed
  <2>2. \A t \in {"done", "failed"} \ {s} : WithState(t)' = WithState(t)
    BY <1>2, <1>6 DEF WithState, Typed
  <2>3. IsFiniteSet(WithState(s))
    BY <1>5
  <2> QED BY <2>1, <2>2, <2>3, FS_AddElement
<1>7. /\ succeeded_total' = Cardinality(WithState("done")')
      /\ failed_total' = Cardinality(WithState("failed")')
  <2>1. CASE /\ state' = [state EXCEPT ![id] = "done"]
             /\ succeeded_total' = succeeded_total + 1 /\ failed_total' = failed_total
    BY <2>1, <1>4, <1>6
  <2>2. CASE /\ state' = [state EXCEPT ![id] = "failed"]
             /\ failed_total' = failed_total + 1 /\ succeeded_total' = succeeded_total
    BY <2>2, <1>4, <1>6
  <2> QED BY <1>3, <2>1, <2>2
<1>8. GuardedWorkers' = GuardedWorkers
  BY <1>1, GuardKept DEF Guarded, WorkerPlaces
<1>9. /\ enqueued_total' + Cardinality(PushedClients') = Cardinality(g_tasks')
      /\ running' = Cardinality(GuardedWorkers')
  BY <1>1, <1>8 DEF CountersMatch, PushedClients, GuardedWorkers
<1> QED BY <1>7, <1>9 DEF CountersMatch, WithState, PushedClients, GuardedWorkers

LEMMA CountersStep == IInv /\ CountersMatch /\ [Next]_vars => CountersMatch'
<1> SUFFICES ASSUME Typed, FreshIds, HandsClean, CountersMatch, [Next]_vars
             PROVE  CountersMatch'
  BY DEF IInv
<1> USE DEF globals, taskVars, clientVars, workerVars
<1>1. ASSUME NEW c \in Clients, TakeId(c)
      PROVE  CountersMatch'
  <2>1. PushedClients' = PushedClients
    BY <1>1 DEF TakeId, ClientAt, PushedClients, Typed
  <2> QED BY <1>1, <2>1, CountersQuiet DEF TakeId, GuardedWorkers
<1>2. ASSUME NEW c \in Clients, NotifyAndReturn(c)
      PROVE  CountersMatch'
  <2>1. PushedClients' = PushedClients
    BY <1>2 DEF NotifyAndReturn, ClientAt, PushedClients, Typed
  <2>2. GuardedWorkers' = GuardedWorkers
    <3>1. CASE UNCHANGED wpc
      BY <3>1 DEF GuardedWorkers
    <3>2. ASSUME NEW w \in Workers, wpc[w] = "asleep", wpc' = [wpc EXCEPT ![w] = "wait"]
          PROVE  GuardedWorkers' = GuardedWorkers
      BY <3>2, GuardKept DEF WorkerPlaces, Guarded
    <3> QED BY <1>2, <3>1, <3>2 DEF NotifyAndReturn, NotifyOne
  <2> QED BY <1>2, <2>1, <2>2, CountersQuiet DEF NotifyAndReturn
<1>3. ASSUME NEW w \in Workers, UNCHANGED <<counters, state, g_tasks, cpc>>,
             \/ EnsureWorker(w) \/ SpuriousWake(w) \/ Sleep(w) \/ Pop(w)
             \/ Launch(w) \/ LaunchFails(w)
             \/ AwaitReady(w) \/ AwaitTimeout(w) \/ JoinFuture(w)
      PROVE  CountersMatch'
  <2>1. GuardedWorkers' = GuardedWorkers
    BY <1>3, GuardKept DEF EnsureWorker, SpuriousWake, Sleep, Pop, Launch, LaunchFails,
       AwaitReady, AwaitTimeout, JoinFuture, WorkerAt, Guarded, WorkerPlaces
  <2> QED BY <1>3, <2>1, CountersQuiet DEF PushedClients
<1>4. ASSUME NEW w \in Workers,
             \/ EnsureWorker(w) \/ SpuriousWake(w) \/ Sleep(w) \/ Pop(w)
             \/ Launch(w) \/ LaunchFails(w)
             \/ AwaitReady(w) \/ AwaitTimeout(w) \/ JoinFuture(w)
      PROVE  CountersMatch'
  <2>1. UNCHANGED <<counters, state, g_tasks, cpc>>
    BY <1>4 DEF EnsureWorker, SpuriousWake, Sleep, Pop, Launch, LaunchFails,
       AwaitReady, AwaitTimeout, JoinFuture
  <2> QED BY <1>3, <1>4, <2>1
<1>5. ASSUME NEW w \in Workers, MarkRunning(w)
      PROVE  CountersMatch'
  <2>0. /\ wpc[w] = "popped" /\ wpc' = [wpc EXCEPT ![w] = "marked"]
        /\ state' = [state EXCEPT ![cur[w]] = "running"]
        /\ UNCHANGED counters /\ UNCHANGED <<g_tasks, cpc>>
    BY <1>5, Zenon DEF MarkRunning, WorkerAt
  <2>1. cur[w] \in Ids /\ state[cur[w]] = "queued"
    BY <2>0 DEF HandsClean, Holding, Typed
  <2>2. WithState("done")' = WithState("done") /\ WithState("failed")' = WithState("failed")
    BY <2>0, <2>1 DEF WithState, Typed
  <2>3. GuardedWorkers' = GuardedWorkers
    BY <2>0, GuardKept DEF Guarded, WorkerPlaces
  <2> QED BY <2>0, <2>2, <2>3
          DEF CountersMatch, counters, WithState, GuardedWorkers, PushedClients
<1>6. ASSUME NEW id \in Ids, BackfillReturns(id)
      PROVE  CountersMatch'
  BY <1>6, CountersQuiet DEF BackfillReturns, PushedClients, GuardedWorkers
<1>7. CASE UNCHANGED vars
  BY <1>7, CountersQuiet DEF vars, PushedClients, GuardedWorkers
<1> QED
  BY NextCases, CountersPush, CountersAdd, CountersGuard, CountersPublish,
     <1>1, <1>2, <1>4, <1>5, <1>6, <1>7

(* The totals are the numbers of tasks with each verdict, of tasks pushed  *)
(* (less the handlers between unlock and add), and of workers inside the   *)
(* guard, at every moment and for any number of handlers.                  *)
THEOREM TotalsCountTasks == Spec => []CountersMatch
<1>1. Init => CountersMatch
  <2> SUFFICES ASSUME Init PROVE CountersMatch
    OBVIOUS
  <2>1. /\ WithState("done") = {} /\ WithState("failed") = {}
        /\ PushedClients = {} /\ GuardedWorkers = {} /\ g_tasks = {}
    <3>1. /\ state = [id \in Ids |-> "queued"] /\ cpc = [c \in Clients |-> "idle"]
          /\ wpc = [w \in Workers |-> "off"] /\ g_tasks = {}
      BY Zenon DEF Init
    <3> QED BY <3>1 DEF WithState, PushedClients, GuardedWorkers, Guarded
  <2>2. enqueued_total = 0 /\ succeeded_total = 0 /\ failed_total = 0 /\ running = 0
    BY Zenon DEF Init
  <2> QED BY <2>1, <2>2, FS_EmptySet
          DEF CountersMatch, WithState, PushedClients, GuardedWorkers
<1> QED BY <1>1, CountersStep, Invariance, PTL DEF Spec

(* Every variable keeps its type, and no counter goes below zero: the      *)
(* guard gives back what it took, once, on every way out of the try block. *)
THEOREM TypeCorrect == Spec => []TypeOK
<1>1. Typed /\ CountersMatch => TypeOK
  <2> SUFFICES ASSUME Typed, CountersMatch PROVE running \in Nat
    BY DEF TypeOK
  <2>1. IsFiniteSet(GuardedWorkers)
    BY CountedAreFinite
  <2>2. running = Cardinality(GuardedWorkers)
    BY DEF CountersMatch, GuardedWorkers
  <2> QED BY <2>1, <2>2, FS_CardinalityType
<1> QED BY <1>1, TypesKept, TotalsCountTasks, PTL

-----------------------------------------------------------------------------
(* The queue implements the task board *)

LEMMA NothingPopped ==
  ASSUME \A w \in Workers : wpc[w] # "popped"
  PROVE  PoppedTask = <<>>
BY DEF PoppedTask

LEMMA OnePopped ==
  ASSUME OneWorker, NEW w \in Workers, wpc[w] = "popped"
  PROVE  PoppedTask = <<cur[w]>>
<1>1. {v \in Workers : wpc[v] = "popped"} = {w}
  BY DEF OneWorker
<1> QED BY <1>1 DEF PoppedTask

(* One step of the queue is a step of the board or invisible on it.        *)
LEMMA BoardStep == IInv /\ IInv' /\ [Next]_vars => [Board!Next]_Board!vars
<1> SUFFICES ASSUME IInv, IInv', [Next]_vars
             PROVE  [Board!Next]_Board!vars
  OBVIOUS
<1> USE DEF globals, taskVars, clientVars, workerVars
<1> DEFINE board == [id \in Ids |-> IF id \in g_tasks THEN state[id] ELSE "absent"]
           line  == PoppedTask \o g_queue
<1>0. OneWorker /\ OneWorker' /\ Typed /\ Typed'
  BY DEF IInv
<1>a. ASSUME UNCHANGED cur, \A w \in Workers : wpc[w] = "popped" <=> wpc'[w] = "popped"
      PROVE  PoppedTask' = PoppedTask
  <2>1. CASE \E w \in Workers : wpc[w] = "popped"
    <3>1. PICK w \in Workers : wpc[w] = "popped"
      BY <2>1
    <3>2. PoppedTask = <<cur[w]>>
      BY <1>0, <3>1, OnePopped
    <3>3. {v \in Workers : wpc'[v] = "popped"} = {w}
      BY <1>0, <1>a, <3>1 DEF OneWorker
    <3>4. PoppedTask' = <<cur'[w]>>
      BY <3>3 DEF PoppedTask
    <3> QED BY <1>a, <3>2, <3>4
  <2>2. CASE ~\E w \in Workers : wpc[w] = "popped"
    <3>1. PoppedTask = <<>>
      BY <2>2, NothingPopped
    <3>2. {v \in Workers : wpc'[v] = "popped"} = {}
      BY <1>a, <2>2
    <3>3. PoppedTask' = <<>>
      BY <3>2 DEF PoppedTask
    <3> QED BY <3>1, <3>3
  <2> QED BY <2>1, <2>2
\* Whoever keeps its popped task, or has none before and after, keeps the line.
<1>1. ASSUME UNCHANGED <<g_tasks, state, g_queue, cur>>,
             \A w \in Workers : wpc[w] = "popped" <=> wpc'[w] = "popped"
      PROVE  UNCHANGED Board!vars
  <2>1. PoppedTask' = PoppedTask
    BY <1>a, <1>1
  <2> QED BY <1>1, <2>1 DEF Board!vars
<1>2. ASSUME NEW c \in Clients, TakeId(c) \/ CountEnqueued(c) \/ NotifyAndReturn(c)
      PROVE  UNCHANGED Board!vars
  <2>1. UNCHANGED <<g_tasks, state, g_queue, cur>>
    BY <1>2 DEF TakeId, CountEnqueued, NotifyAndReturn
  <2>2. \A w \in Workers : wpc[w] = "popped" <=> wpc'[w] = "popped"
    BY <1>0, <1>2 DEF TakeId, CountEnqueued, NotifyAndReturn, NotifyOne, Typed
  <2> QED BY <1>1, <2>1, <2>2
<1>3. ASSUME NEW w \in Workers,
             \/ EnsureWorker(w) \/ SpuriousWake(w) \/ Sleep(w) \/ CountRunning(w)
             \/ Launch(w) \/ LaunchFails(w) \/ AwaitReady(w) \/ AwaitTimeout(w)
             \/ JoinFuture(w) \/ Release(w)
      PROVE  UNCHANGED Board!vars
  <2>1. UNCHANGED <<g_tasks, state, g_queue, cur>>
    BY <1>3 DEF EnsureWorker, SpuriousWake, Sleep, CountRunning, Launch, LaunchFails,
       AwaitReady, AwaitTimeout, JoinFuture, Release
  <2>2. \E to \in WorkerPlaces \ {"popped"} :
          wpc[w] # "popped" /\ wpc' = [wpc EXCEPT ![w] = to]
    BY <1>3 DEF EnsureWorker, SpuriousWake, Sleep, CountRunning, Launch, LaunchFails,
       AwaitReady, AwaitTimeout, JoinFuture, Release, WorkerAt, WorkerPlaces
  <2>3. \A v \in Workers : wpc[v] = "popped" <=> wpc'[v] = "popped"
    BY <1>0, <2>2 DEF Typed
  <2> QED BY <1>1, <2>1, <2>3
<1>4. ASSUME NEW c \in Clients, PushTask(c)
      PROVE  \E id \in Ids : Board!Submit(id)
  <2>1. /\ mine[c] \in Ids /\ mine[c] \notin g_tasks
        /\ g_tasks' = g_tasks \cup {mine[c]} /\ g_queue' = Append(g_queue, mine[c])
        /\ UNCHANGED <<state, wpc, cur>>
    BY <1>4 DEF PushTask, ClientAt, IInv, Typed, FreshIds
  <2>2. state[mine[c]] = "queued"
    BY <2>1 DEF IInv, TasksPlaced
  <2>3. PoppedTask' = PoppedTask
    BY <2>1 DEF PoppedTask
  <2>4. board' = [board EXCEPT ![mine[c]] = "queued"] /\ board[mine[c]] = "absent"
    BY <2>1, <2>2
  <2>5. PoppedTask \in Seq(Ids) /\ g_queue \in Seq(Ids)
    <3>1. ASSUME NEW w \in Workers, wpc[w] = "popped"
          PROVE  PoppedTask = <<cur[w]>> /\ cur[w] \in Ids
      BY <3>1, OnePopped, <1>0 DEF IInv, HandsClean, Holding, Typed
    <3>2. ASSUME ~\E w \in Workers : wpc[w] = "popped"
          PROVE  PoppedTask \in Seq(Ids)
      <4>1. PoppedTask = <<>>
        BY <3>2, NothingPopped
      <4>2. <<>> \in Seq(Ids)
        OBVIOUS
      <4> QED BY <4>1, <4>2
    <3>3. ASSUME \E w \in Workers : wpc[w] = "popped"
          PROVE  PoppedTask \in Seq(Ids)
      <4>1. PICK k \in Ids : PoppedTask = <<k>>
        BY <3>1, <3>3
      <4>2. <<k>> \in Seq(Ids)
        OBVIOUS
      <4> QED BY <4>1, <4>2
    <3>4. PoppedTask \in Seq(Ids)
      BY <3>2, <3>3
    <3> QED BY <1>0, <3>4 DEF Typed
  <2>6. line' = Append(line, mine[c])
    BY <2>1, <2>3, <2>5
  <2>7. PICK id \in Ids : id = mine[c]
    BY <2>1
  <2>8. Board!Submit(id)
    BY <2>4, <2>6, <2>7 DEF Board!Submit
  <2> QED BY <2>8, Zenon
<1>5. ASSUME NEW w \in Workers, Pop(w)
      PROVE  UNCHANGED Board!vars
  <2>1. PICK head \in Ids : head = Head(g_queue)
    BY <1>0, <1>5 DEF Pop, Typed
  <2>2. /\ g_queue # <<>> /\ g_queue \in Seq(Ids) /\ g_queue' = Tail(g_queue)
        /\ wpc[w] = "wait" /\ UNCHANGED <<state, g_tasks>>
        /\ cur' = [cur EXCEPT ![w] = head]
    BY <1>0, <1>5, <2>1 DEF Pop, WorkerAt, Typed
  <2>3. head \in g_tasks
    <3>1. 1 \in 1..Len(g_queue) /\ head = g_queue[1]
      BY <2>1, <2>2
    <3> QED BY <3>1 DEF IInv, QueueClean
  <2>4. wpc' = [wpc EXCEPT ![w] = "popped"] /\ wpc'[w] = "popped" /\ cur'[w] = head
    BY <1>0, <1>5, <2>1, <2>2, <2>3 DEF Pop, WorkerAt, Typed
  <2>5. PoppedTask = <<>>
    BY <1>0, <2>2, NothingPopped DEF OneWorker
  <2>6. PoppedTask' = <<head>>
    <3>1. {v \in Workers : wpc'[v] = "popped"} = {w}
      BY <1>0, <2>4 DEF OneWorker
    <3> QED BY <2>4, <3>1 DEF PoppedTask
  <2>7. <<head>> \o Tail(g_queue) = g_queue /\ <<>> \o g_queue = g_queue
    BY <2>1, <2>2
  <2>8. line' = line
    BY <2>2, <2>5, <2>6, <2>7
  <2>9. board' = board
    BY <2>2
  <2> QED BY <2>8, <2>9 DEF Board!vars
<1>6. ASSUME NEW w \in Workers, MarkRunning(w)
      PROVE  Board!Start
  <2>1. PICK id \in Ids : id = cur[w]
    BY <1>0, <1>6 DEF MarkRunning, WorkerAt, IInv, HandsClean, Holding, Typed
  <2>2. /\ wpc[w] = "popped" /\ wpc' = [wpc EXCEPT ![w] = "marked"]
        /\ state' = [state EXCEPT ![id] = "running"]
        /\ UNCHANGED <<g_queue, g_tasks, cur>> /\ g_queue \in Seq(Ids)
    BY <1>0, <1>6, <2>1 DEF MarkRunning, WorkerAt, Typed
  <2>3. id \in g_tasks
    BY <2>1, <2>2 DEF IInv, HandsClean, Holding
  <2>4. PoppedTask = <<id>>
    BY <1>0, <2>1, <2>2, OnePopped
  <2>5. PoppedTask' = <<>>
    <3>1. {v \in Workers : wpc'[v] = "popped"} = {}
      BY <1>0, <2>2 DEF OneWorker, Typed
    <3> QED BY <3>1 DEF PoppedTask
  <2>6. line # <<>> /\ Head(line) = id /\ line' = Tail(line)
    BY <2>2, <2>4, <2>5
  <2>7. \A k \in Ids : board[k] # "running"
    BY <1>0, <2>2 DEF IInv, TasksPlaced, Working, OneWorker
  <2>8. board' = [board EXCEPT ![id] = "running"]
    BY <1>0, <2>2, <2>3 DEF Typed
  <2> QED BY <2>6, <2>7, <2>8 DEF Board!Start
<1>7. ASSUME NEW w \in Workers, Publish(w)
      PROVE  \E id \in Ids : Board!Finish(id)
  <2>1. PICK id \in Ids : id = cur[w]
    BY <1>0, <1>7 DEF Publish, WorkerAt, IInv, HandsClean, Holding, Typed
  <2>2. /\ wpc[w] = "judged" /\ wpc' = [wpc EXCEPT ![w] = "published"]
        /\ UNCHANGED <<g_queue, g_tasks, cur>>
    BY <1>7 DEF Publish, WorkerAt
  <2>3. \E v \in Terminal : state' = [state EXCEPT ![id] = v]
    BY <1>7, <2>1, Zenon DEF Publish, Terminal
  <2>4. id \in g_tasks /\ state[id] = "running"
    BY <2>1, <2>2 DEF IInv, HandsClean, Holding, Working
  <2>5. \A v \in Workers : wpc[v] = "popped" <=> wpc'[v] = "popped"
    BY <1>0, <2>2 DEF Typed
  <2>6. line' = line
    <3>1. PoppedTask' = PoppedTask
      BY <1>a, <2>2, <2>5
    <3> QED BY <2>2, <3>1
  <2>7. board[id] = "running" /\ \E v \in Board!Verdicts : board' = [board EXCEPT ![id] = v]
    <3>1. PICK v \in Terminal : state' = [state EXCEPT ![id] = v]
      BY <2>3
    <3>2. v \in Board!Verdicts
      BY DEF Terminal, Board!Verdicts
    <3>3. board' = [board EXCEPT ![id] = v]
      BY <1>0, <2>2, <2>4, <3>1 DEF Typed
    <3>4. board[id] = "running"
      BY <2>4
    <3> QED BY <3>2, <3>3, <3>4
  <2> QED BY <2>6, <2>7 DEF Board!Finish
<1>8. ASSUME NEW id \in Ids, BackfillReturns(id)
      PROVE  UNCHANGED Board!vars
  BY <1>1, <1>8 DEF BackfillReturns
<1>9. CASE UNCHANGED vars
  BY <1>1, <1>9 DEF vars
<1>10. ASSUME NEW id \in Ids, Board!Submit(id) \/ Board!Finish(id)
       PROVE  Board!Next
  BY <1>10, Zenon DEF Board!Next
<1>11. ASSUME Board!Start
       PROVE  Board!Next
  BY <1>11, Zenon DEF Board!Next
<1>12. ASSUME NEW c \in Clients,
              TakeId(c) \/ PushTask(c) \/ CountEnqueued(c) \/ NotifyAndReturn(c)
       PROVE  Board!Next \/ UNCHANGED Board!vars
  <2>1. CASE PushTask(c)
    <3>1. PICK id \in Ids : Board!Submit(id)
      BY <1>4, <2>1, Zenon
    <3> QED BY <1>10, <3>1, Zenon
  <2>2. CASE TakeId(c) \/ CountEnqueued(c) \/ NotifyAndReturn(c)
    BY <1>2, <2>2, Zenon
  <2> QED BY <1>12, <2>1, <2>2, Zenon
<1>13. ASSUME NEW w \in Workers, Publish(w)
       PROVE  Board!Next
  <2>1. PICK id \in Ids : Board!Finish(id)
    BY <1>7, <1>13, Zenon
  <2> QED BY <1>10, <2>1, Zenon
<1>14. ASSUME NEW w \in Workers,
              \/ EnsureWorker(w) \/ SpuriousWake(w) \/ Sleep(w) \/ Pop(w)
              \/ MarkRunning(w) \/ CountRunning(w) \/ Launch(w) \/ LaunchFails(w)
              \/ AwaitReady(w) \/ AwaitTimeout(w) \/ JoinFuture(w)
              \/ Publish(w) \/ Release(w)
       PROVE  Board!Next \/ UNCHANGED Board!vars
  <2>1. CASE Pop(w)
    BY <1>5, <2>1, Zenon
  <2>2. CASE MarkRunning(w)
    BY <1>6, <1>11, <2>2, Zenon
  <2>3. CASE Publish(w)
    BY <1>13, <2>3, Zenon
  <2>4. CASE ~Pop(w) /\ ~MarkRunning(w) /\ ~Publish(w)
    BY <1>3, <1>14, <2>4, Zenon
  <2> QED BY <2>1, <2>2, <2>3, <2>4, Zenon
<1>15. Board!Next \/ UNCHANGED Board!vars
  BY NextCases, <1>8, <1>9, <1>12, <1>14, Zenon
<1> QED BY <1>15

(* The hydrate queue implements the task board: one task at a time, in the *)
(* order of arrival, each once, verdicts for ever.                         *)
THEOREM QueueServesInOrder == Spec => ServesInOrder
<1>1. Init => Board!Init
  <2> SUFFICES ASSUME Init PROVE Board!Init
    OBVIOUS
  <2>1. g_tasks = {} /\ g_queue = <<>> /\ \A w \in Workers : wpc[w] # "popped"
    BY DEF Init
  <2>2. PoppedTask = <<>>
    BY <2>1, NothingPopped
  <2> QED BY <2>1, <2>2 DEF Board!Init
<1> QED BY <1>1, BoardStep, Invariance, PTL DEF Spec, ServesInOrder, Board!Spec

==============================================================================
