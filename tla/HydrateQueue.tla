---------------------------- MODULE HydrateQueue ----------------------------
(***************************************************************************)
(* The hydrate queue of src/src/routes/symbol_queue.cpp.  HTTP handlers    *)
(* (Clients) enqueue tasks; one detached worker thread takes them in order *)
(* and runs the candle download of each in a std::async thread, which it   *)
(* waits for with a timeout.  Every step below is a stretch of code that   *)
(* other threads cannot interleave with: a critical section of g_mu or of  *)
(* a task's mu, one atomic counter operation, or one wait.                 *)
(***************************************************************************)
EXTENDS Integers, Sequences, FiniteSets

CONSTANTS
  Clients,                (* HTTP threads that call enqueue()              *)
  Workers,                (* threads that ensure_worker() may start        *)
  MaxTasks                (* bound: ids handed out before the model stops  *)

ASSUME QueueConstants ==
  /\ IsFiniteSet(Clients)
  /\ IsFiniteSet(Workers)
  /\ MaxTasks \in Nat

Ids == 1..MaxTasks

VARIABLES
  g_next_id, g_tasks, g_queue, g_worker_started,
  enqueued_total, succeeded_total, failed_total, running,
  state, backfill, error, (* the fields of every Task                      *)
  future,                 (* the std::async thread of every task           *)
  cpc, mine,              (* a client's place in enqueue() and its new id  *)
  returned,               (* history: ids that enqueue() has returned      *)
  wpc, cur, res           (* a worker's place, its task, its try's result  *)

counters   == <<enqueued_total, succeeded_total, failed_total, running>>
taskVars   == <<state, backfill, error>>
clientVars == <<cpc, mine, returned>>
workerVars == <<wpc, cur, res>>
globals    == <<g_next_id, g_tasks, g_queue, g_worker_started>>
vars == <<globals, counters, taskVars, future, clientVars, workerVars>>

-----------------------------------------------------------------------------
(* Data.  A json object of a backfill is reduced to what a poller relies   *)
(* on: whether there is an object at all, its "ok", its "running", and     *)
(* which error it names ("" for null or absent).                           *)

States   == {"queued", "running", "done", "failed"}
Terminal == {"done", "failed"}
Errors   == {"", "invalid_timestamp", "exception", "timeout", "unknown_error"}
Backfill == [present : BOOLEAN, ok : BOOLEAN, running : BOOLEAN, error : Errors]
Result   == [success : BOOLEAN, raw : Backfill, error : Errors]

NullBackfill    == [present |-> FALSE, ok |-> FALSE, running |-> FALSE, error |-> ""]
RunningBackfill == [present |-> TRUE,  ok |-> FALSE, running |-> TRUE,  error |-> ""]
Reply(ok, err)  == [present |-> TRUE,  ok |-> ok,    running |-> FALSE, error |-> err]

(* How backfill_last_months ends: rows merged, rows merged but some        *)
(* unreadable (ok:false, error "invalid_timestamp"), or an exception.      *)
Outcomes == {"ok", "invalid_timestamp", "exception"}

\* The last assignment of the worker's try/catch for each way it is left.
ResultOf(how) ==
  IF how = "ok"
  THEN [success |-> TRUE, raw |-> Reply(TRUE, ""), error |-> ""]
  ELSE [success |-> FALSE, raw |-> Reply(FALSE, how), error |-> how]

NoResult == [success |-> FALSE, raw |-> NullBackfill, error |-> ""]

FirstNonEmpty(a, b) ==
  IF a # "" THEN a ELSE IF b # "" THEN b ELSE "unknown_error"

\* Mutant: writes the verdict into the "running" placeholder.
patch_placeholder(raw, success, err) ==
  [RunningBackfill EXCEPT !.ok = success,
     !.error = IF success THEN raw.error ELSE FirstNonEmpty(err, raw.error)]

normalise_backfill(raw, success, err) ==
  [present |-> TRUE,
   ok      |-> success,
   running |-> FALSE,
   error   |-> IF success THEN raw.error ELSE FirstNonEmpty(err, raw.error)]

-----------------------------------------------------------------------------
ClientPlaces == {"idle", "taken", "pushed", "counted"}
WorkerPlaces == {"off", "wait", "asleep", "popped", "marked", "counted",
                 "await", "join", "judged", "published"}

Init ==
  /\ g_next_id = 1 /\ g_tasks = {} /\ g_queue = <<>> /\ g_worker_started = FALSE
  /\ enqueued_total = 0 /\ succeeded_total = 0 /\ failed_total = 0 /\ running = 0
  /\ state    = [id \in Ids |-> "queued"]
  /\ backfill = [id \in Ids |-> NullBackfill]
  /\ error    = [id \in Ids |-> ""]
  /\ future   = [id \in Ids |-> "none"]
  /\ cpc      = [c \in Clients |-> "idle"]
  /\ mine     = [c \in Clients |-> 0]
  /\ returned = {}
  /\ wpc      = [w \in Workers |-> "off"]
  /\ cur      = [w \in Workers |-> 0]
  /\ res      = [w \in Workers |-> NoResult]

ClientAt(c, from, to) == cpc[c] = from /\ cpc' = [cpc EXCEPT ![c] = to]
WorkerAt(w, from, to) == wpc[w] = from /\ wpc' = [wpc EXCEPT ![w] = to]

-----------------------------------------------------------------------------
(* enqueue() and ensure_worker()                                           *)

\* g_next_id.fetch_add: the id is drawn before the lock is taken.
TakeId(c) ==
  /\ ClientAt(c, "idle", "taken")
  /\ g_next_id <= MaxTasks
  /\ mine' = [mine EXCEPT ![c] = g_next_id]
  /\ g_next_id' = g_next_id + 1
  /\ UNCHANGED <<g_tasks, g_queue, g_worker_started, counters, taskVars, future,
                 returned, workerVars>>

\* Mutant: the map entry is forgotten.
PushQueueOnly(c) ==
  /\ ClientAt(c, "taken", "pushed")
  /\ g_queue' = Append(g_queue, mine[c])
  /\ UNCHANGED <<g_next_id, g_tasks, g_worker_started, counters, taskVars, future,
                 mine, returned, workerVars>>

\* The critical section: map entry and queue entry appear together.
PushTask(c) ==
  /\ ClientAt(c, "taken", "pushed")
  /\ g_tasks' = g_tasks \cup {mine[c]}
  /\ g_queue' = Append(g_queue, mine[c])
  /\ UNCHANGED <<g_next_id, g_worker_started, counters, taskVars, future,
                 mine, returned, workerVars>>

\* The total is bumped after the lock is given back.
CountEnqueued(c) ==
  /\ ClientAt(c, "pushed", "counted")
  /\ enqueued_total' = enqueued_total + 1
  /\ UNCHANGED <<globals, succeeded_total, failed_total, running, taskVars,
                 future, mine, returned, workerVars>>

\* Mutant: the handler returns without notify_one.
NobodyWoken == UNCHANGED wpc

\* What notify_one does to the threads waiting on g_cv.
NotifyOne ==
  LET sleepers == {w \in Workers : wpc[w] = "asleep"} IN
  IF sleepers = {}
  THEN UNCHANGED wpc
  ELSE \E w \in sleepers : wpc' = [wpc EXCEPT ![w] = "wait"]

NotifyAndReturn(c) ==
  /\ ClientAt(c, "counted", "idle")
  /\ NotifyOne
  /\ returned' = returned \cup {mine[c]}
  /\ UNCHANGED <<globals, counters, taskVars, future, mine, cur, res>>

\* Mutant: every caller starts a thread.
EnsureWorkerEach(w) ==
  /\ WorkerAt(w, "off", "wait")
  /\ g_worker_started' = TRUE
  /\ UNCHANGED <<g_next_id, g_tasks, g_queue, counters, taskVars, future,
                 clientVars, cur, res>>

\* Only the caller that wins the compare-exchange starts a thread.
EnsureWorker(w) ==
  /\ ~g_worker_started
  /\ WorkerAt(w, "off", "wait")
  /\ g_worker_started' = TRUE
  /\ UNCHANGED <<g_next_id, g_tasks, g_queue, counters, taskVars, future,
                 clientVars, cur, res>>

-----------------------------------------------------------------------------
(* worker_loop()                                                           *)

\* Waiting on the condition variable, and waking without a notification.
Sleep(w) ==
  /\ g_queue = <<>>
  /\ WorkerAt(w, "wait", "asleep")
  /\ UNCHANGED <<globals, counters, taskVars, future, clientVars, cur, res>>

SpuriousWake(w) ==
  /\ WorkerAt(w, "asleep", "wait")
  /\ UNCHANGED <<globals, counters, taskVars, future, clientVars, cur, res>>

\* An id that is not in the map is dropped and the worker waits again.
Pop(w) ==
  /\ g_queue # <<>>
  /\ WorkerAt(w, "wait", IF Head(g_queue) \in g_tasks THEN "popped" ELSE "wait")
  /\ cur' = [cur EXCEPT ![w] = Head(g_queue)]
  /\ g_queue' = Tail(g_queue)
  /\ UNCHANGED <<g_next_id, g_tasks, g_worker_started, counters, taskVars,
                 future, clientVars, res>>

MarkRunning(w) ==
  /\ WorkerAt(w, "popped", "marked")
  /\ state' = [state EXCEPT ![cur[w]] = "running"]
  /\ error' = [error EXCEPT ![cur[w]] = ""]
  /\ backfill' = [backfill EXCEPT ![cur[w]] = RunningBackfill]
  /\ UNCHANGED <<globals, counters, future, clientVars, cur, res>>

CountRunning(w) ==
  /\ WorkerAt(w, "marked", "counted")
  /\ running' = running + 1
  /\ UNCHANGED <<globals, enqueued_total, succeeded_total, failed_total,
                 taskVars, future, clientVars, cur, res>>

Launch(w) ==
  /\ WorkerAt(w, "counted", "await")
  /\ future' = [future EXCEPT ![cur[w]] = "running"]
  /\ UNCHANGED <<globals, counters, taskVars, clientVars, cur, res>>

\* Mutant: the exception leaves the try block, the worker takes the next task.
LaunchEscapes(w) ==
  /\ WorkerAt(w, "counted", "wait")
  /\ UNCHANGED <<globals, counters, taskVars, future, clientVars, cur, res>>

\* Mutant: the catch block takes the task off the counter, and so does the guard.
LaunchReleases(w) ==
  /\ WorkerAt(w, "counted", "judged")
  /\ res' = [res EXCEPT ![w] = ResultOf("exception")]
  /\ running' = running - 1
  /\ UNCHANGED <<globals, enqueued_total, succeeded_total, failed_total,
                 taskVars, future, clientVars, cur>>

\* std::async could not start a thread: system_error, caught.
LaunchFails(w) ==
  /\ WorkerAt(w, "counted", "judged")
  /\ res' = [res EXCEPT ![w] = ResultOf("exception")]
  /\ UNCHANGED <<globals, counters, taskVars, future, clientVars, cur>>

\* wait_for found the future ready.
AwaitReady(w) ==
  /\ WorkerAt(w, "await", "judged")
  /\ future[cur[w]] \in Outcomes
  /\ res' = [res EXCEPT ![w] = ResultOf(future[cur[w]])]
  /\ UNCHANGED <<globals, counters, taskVars, future, clientVars, cur>>

\* Mutant: the download is abandoned, its thread not joined.
AwaitAbandon(w) ==
  /\ WorkerAt(w, "await", "judged")
  /\ future[cur[w]] = "running"
  /\ res' = [res EXCEPT ![w] = ResultOf("timeout")]
  /\ UNCHANGED <<globals, counters, taskVars, future, clientVars, cur>>

\* wait_for timed out while the download was still running.
AwaitTimeout(w) ==
  /\ WorkerAt(w, "await", "join")
  /\ future[cur[w]] = "running"
  /\ res' = [res EXCEPT ![w] = ResultOf("timeout")]
  /\ UNCHANGED <<globals, counters, taskVars, future, clientVars, cur>>

\* Leaving the try block destroys the future, which joins its thread.
JoinFuture(w) ==
  /\ WorkerAt(w, "join", "judged")
  /\ future[cur[w]] # "running"
  /\ UNCHANGED <<globals, counters, taskVars, future, clientVars, cur, res>>

\* The second critical section: verdict, payload and total in one piece.
Publish(w) ==
  /\ WorkerAt(w, "judged", "published")
  /\ LET id == cur[w]
         bf == normalise_backfill(res[w].raw, res[w].success, res[w].error) IN
     /\ backfill' = [backfill EXCEPT ![id] = bf]
     /\ \/ /\ res[w].success
           /\ state' = [state EXCEPT ![id] = "done"]
           /\ error' = [error EXCEPT ![id] = ""]
           /\ succeeded_total' = succeeded_total + 1
           /\ UNCHANGED failed_total
        \/ /\ ~res[w].success
           /\ state' = [state EXCEPT ![id] = "failed"]
           /\ error' = [error EXCEPT ![id] = bf.error]
           /\ failed_total' = failed_total + 1
           /\ UNCHANGED succeeded_total
  /\ UNCHANGED <<globals, enqueued_total, running, future, clientVars, cur, res>>

\* Mutant: release() leaves the guard armed, its destructor releases again.
ReleaseTwice(w) ==
  /\ WorkerAt(w, "published", "wait")
  /\ running' = running - 2
  /\ UNCHANGED <<globals, enqueued_total, succeeded_total, failed_total,
                 taskVars, future, clientVars, cur, res>>

\* Mutant: a finished task is dropped from the map.
ReleaseForgets(w) ==
  /\ WorkerAt(w, "published", "wait")
  /\ running' = running - 1
  /\ g_tasks' = g_tasks \ {cur[w]}
  /\ UNCHANGED <<g_next_id, g_queue, g_worker_started, enqueued_total,
                 succeeded_total, failed_total, taskVars, future, clientVars,
                 cur, res>>

\* RunningGuard::release, and the loop starts over.
Release(w) ==
  /\ WorkerAt(w, "published", "wait")
  /\ running' = running - 1
  /\ UNCHANGED <<globals, enqueued_total, succeeded_total, failed_total,
                 taskVars, future, clientVars, cur, res>>

\* The download ends, whatever the worker is doing meanwhile.
BackfillReturns(id) ==
  /\ future[id] = "running"
  /\ \E how \in Outcomes : future' = [future EXCEPT ![id] = how]
  /\ UNCHANGED <<globals, counters, taskVars, clientVars, workerVars>>

-----------------------------------------------------------------------------
ClientFinishes(c) == PushTask(c) \/ CountEnqueued(c) \/ NotifyAndReturn(c)

WorkerSteps(w) ==
  \/ Sleep(w) \/ Pop(w) \/ MarkRunning(w) \/ CountRunning(w)
  \/ Launch(w) \/ LaunchFails(w) \/ AwaitReady(w) \/ AwaitTimeout(w)
  \/ JoinFuture(w) \/ Publish(w) \/ Release(w)

Next ==
  \/ \E c \in Clients : TakeId(c) \/ ClientFinishes(c)
  \/ \E w \in Workers : EnsureWorker(w) \/ SpuriousWake(w) \/ WorkerSteps(w)
  \/ \E id \in Ids : BackfillReturns(id)

Spec == Init /\ [][Next]_vars

(* Threads the operating system keeps scheduling: a handler that began an  *)
(* enqueue ends it, the worker is started by register_symbol_routes and    *)
(* goes on as long as it is not blocked.  Nobody has to enqueue anything.  *)
ThreadFairness ==
  /\ \A c \in Clients : WF_vars(ClientFinishes(c))
  /\ WF_vars(\E w \in Workers : EnsureWorker(w))
  /\ \A w \in Workers : WF_vars(WorkerSteps(w))

\* The exchange may stay unreachable for ever: a download need not end.
HangSpec == Spec /\ ThreadFairness

\* The exchange answers in the end, so every download ends.
LiveSpec == HangSpec /\ \A id \in Ids : WF_vars(BackfillReturns(id))

-----------------------------------------------------------------------------
(* Properties *)

Typed ==
  /\ g_next_id \in 1..(MaxTasks + 1)
  /\ g_tasks \subseteq Ids
  /\ g_queue \in Seq(Ids)
  /\ g_worker_started \in BOOLEAN
  /\ enqueued_total \in Nat /\ succeeded_total \in Nat /\ failed_total \in Nat
  /\ running \in Int
  /\ state \in [Ids -> States]
  /\ backfill \in [Ids -> Backfill]
  /\ error \in [Ids -> Errors]
  /\ future \in [Ids -> {"none", "running"} \cup Outcomes]
  /\ cpc \in [Clients -> ClientPlaces]
  /\ mine \in [Clients -> Ids \cup {0}]
  /\ \A c \in Clients : cpc[c] # "idle" => mine[c] \in Ids
  /\ returned \subseteq Ids
  /\ wpc \in [Workers -> WorkerPlaces]
  /\ cur \in [Workers -> Ids \cup {0}]
  /\ res \in [Workers -> Result]

(* Every variable keeps its type; "running", an unsigned counter, is not   *)
(* taken below zero on any way out of the guard.                           *)
TypeOK == Typed /\ running \in Nat

Holding  == {"popped", "marked", "counted", "await", "join", "judged"}
Guarded  == {"counted", "await", "join", "judged", "published"}

(* Every task that a client can see and that has no verdict is either      *)
(* waiting in the queue, once, or in the hands of exactly one worker: no   *)
(* task is lost between g_queue, the popped shared_ptr and its verdict.    *)
NoTaskLost ==
  /\ \A i, j \in 1..Len(g_queue) : g_queue[i] = g_queue[j] => i = j
  /\ \A id \in g_tasks :
       LET waiting == \E i \in 1..Len(g_queue) : g_queue[i] = id
           held    == {w \in Workers : wpc[w] \in Holding /\ cur[w] = id} IN
       /\ state[id] = "queued"  => (waiting /\ held = {}) \/ (~waiting /\ Cardinality(held) = 1)
       /\ state[id] = "running" => ~waiting /\ Cardinality(held) = 1
       /\ state[id] \in Terminal => ~waiting /\ held = {}

(* /api/symbol/metrics counts what happened: the totals are the numbers of *)
(* tasks in each final state, "running" is the worker inside its guard,    *)
(* and enqueued_total lags only by the handlers between unlock and add.    *)
CountersMatch ==
  /\ succeeded_total = Cardinality({id \in Ids : state[id] = "done"})
  /\ failed_total = Cardinality({id \in Ids : state[id] = "failed"})
  /\ enqueued_total + Cardinality({c \in Clients : cpc[c] = "pushed"}) = Cardinality(g_tasks)
  /\ running = Cardinality({w \in Workers : wpc[w] \in Guarded})

(* A verdict carries its payload: a done task has an ok object and no      *)
(* error, a failed one an object with ok:false and the same non-empty      *)
(* error as the task itself, and neither says it is still running.         *)
VerdictHasPayload ==
  \A id \in Ids :
    state[id] \in Terminal =>
      /\ backfill[id].present /\ ~backfill[id].running
      /\ backfill[id].ok = (state[id] = "done")
      /\ backfill[id].error = error[id]
      /\ (error[id] = "") = (state[id] = "done")

(* Downloads never overlap and never outlive their task: while a download  *)
(* thread runs its task is "running" and no other download runs, although  *)
(* the worker gives up waiting for it; so the verdict "timeout" is not     *)
(* followed by a late write of the candle file.                            *)
OneDownload ==
  \A id \in Ids :
    future[id] = "running" =>
      /\ state[id] = "running"
      /\ \A other \in Ids \ {id} : future[other] # "running"

\* The id a handler has answered 202 with is one GET /api/symbol/task finds.
ReturnedIdIsKnown == returned \subseteq {id \in g_tasks : id < g_next_id}

(* The board a poller sees, with the task the worker popped but did not    *)
(* mark yet counted as the head of the line.                               *)
PoppedTask ==
  LET holders == {w \in Workers : wpc[w] = "popped"} IN
  IF holders = {} THEN <<>> ELSE <<cur[CHOOSE w \in holders : TRUE]>>

Board == INSTANCE TaskBoard WITH
  board <- [id \in Ids |-> IF id \in g_tasks THEN state[id] ELSE "absent"],
  line  <- PoppedTask \o g_queue

\* One at a time, in the order of arrival, each once, verdicts final.
ServesInOrder == Board!Spec

\* The same, with progress: needs downloads that end.
ServesEverybody == Board!FairSpec

\* A task that began to run does not stay "running" for ever.
RunningEnds ==
  \A id \in Ids : (state[id] = "running") ~> (state[id] \in Terminal)

==============================================================================
