--------------------------- MODULE HydrateApiProofs ---------------------------
(***************************************************************************)
(* What the two GET routes of the hydrate queue promise, for every number  *)
(* of handlers, pollers, workers and tasks.  The pollers do not disturb    *)
(* the queue, so all that HydrateQueueProofs says of it holds under them;  *)
(* what is added here says how far behind the queue a poller may be.       *)
(***************************************************************************)
EXTENDS HydrateApi, HydrateQueueProofs

-----------------------------------------------------------------------------
(* The queue under its readers *)

(* The read-only handlers leave the queue alone.                           *)
THEOREM ReadersAreQuiet == ApiSpec => Spec
<1>1. ApiInit => Init
  BY DEF ApiInit
<1>2. [ApiNext]_apiVars => [Next]_vars
  BY DEF ApiNext, apiVars, AskStatus, LookUp, Copy, AskMetrics, LoadCounter, Send
<1> QED BY <1>1, <1>2, PTL DEF ApiSpec, Spec

\* How a task may look a moment later.
Moves(s, t) ==
  \/ s = t
  \/ s = "queued" /\ t = "running"
  \/ s = "running" /\ t \in Terminal

(* A task stays visible once it is, and its state only advances.           *)
LEMMA TasksAdvance ==
  ASSUME IInv, [Next]_vars
  PROVE  g_tasks \subseteq g_tasks' /\ \A id \in Ids : Moves(state[id], state'[id])
<1> USE DEF Moves, globals, taskVars, clientVars, workerVars
<1>0. Typed /\ HandsClean
  BY DEF IInv
<1>1. ASSUME NEW c \in Clients,
             TakeId(c) \/ PushTask(c) \/ CountEnqueued(c) \/ NotifyAndReturn(c)
      PROVE  g_tasks \subseteq g_tasks' /\ UNCHANGED state
  BY <1>1 DEF TakeId, PushTask, CountEnqueued, NotifyAndReturn
<1>2. ASSUME NEW w \in Workers,
             \/ EnsureWorker(w) \/ SpuriousWake(w) \/ Sleep(w) \/ Pop(w)
             \/ CountRunning(w) \/ Launch(w) \/ LaunchFails(w)
             \/ AwaitReady(w) \/ AwaitTimeout(w) \/ JoinFuture(w) \/ Release(w)
      PROVE  UNCHANGED <<g_tasks, state>>
  BY <1>2 DEF EnsureWorker, SpuriousWake, Sleep, Pop, CountRunning, Launch,
     LaunchFails, AwaitReady, AwaitTimeout, JoinFuture, Release
<1>3. ASSUME NEW w \in Workers, MarkRunning(w)
      PROVE  g_tasks' = g_tasks /\ \A id \in Ids : Moves(state[id], state'[id])
  <2>1. /\ wpc[w] = "popped" /\ state' = [state EXCEPT ![cur[w]] = "running"]
        /\ UNCHANGED globals
    BY <1>3, Zenon DEF MarkRunning, WorkerAt
  <2>2. state[cur[w]] = "queued"
    BY <1>0, <2>1 DEF HandsClean
  <2> QED BY <1>0, <2>1, <2>2 DEF Typed
<1>4. ASSUME NEW w \in Workers, Publish(w)
      PROVE  g_tasks' = g_tasks /\ \A id \in Ids : Moves(state[id], state'[id])
  <2>1. wpc[w] = "judged" /\ UNCHANGED globals
    BY <1>4, Zenon DEF Publish, WorkerAt
  <2>2. PICK v \in Terminal : state' = [state EXCEPT ![cur[w]] = v]
    BY <1>4, Zenon DEF Publish, Terminal
  <2>3. state[cur[w]] = "running"
    BY <1>0, <2>1 DEF HandsClean, Working
  <2> QED BY <1>0, <2>1, <2>2, <2>3 DEF Typed
<1>5. ASSUME NEW id \in Ids, BackfillReturns(id)
      PROVE  UNCHANGED <<g_tasks, state>>
  BY <1>5 DEF BackfillReturns
<1>6. CASE UNCHANGED vars
  BY <1>6 DEF vars
<1> QED BY NextCases, <1>1, <1>2, <1>3, <1>4, <1>5, <1>6

\* What a task without a verdict carries.
Placeholders ==
  \A id \in Ids :
    /\ state[id] = "queued" => error[id] = ""
    /\ state[id] = "running" => error[id] = "" /\ backfill[id] = RunningBackfill

(* Only MarkRunning and Publish write a task.                              *)
LEMMA PlaceholdersKept == Typed /\ Placeholders /\ [Next]_vars => Placeholders'
<1> SUFFICES ASSUME Typed, Placeholders, [Next]_vars
             PROVE  Placeholders'
  OBVIOUS
<1>1. ASSUME UNCHANGED taskVars
      PROVE  Placeholders'
  BY <1>1 DEF taskVars, Placeholders
<1>2. ASSUME NEW c \in Clients,
             TakeId(c) \/ PushTask(c) \/ CountEnqueued(c) \/ NotifyAndReturn(c)
      PROVE  UNCHANGED taskVars
  BY <1>2 DEF TakeId, PushTask, CountEnqueued, NotifyAndReturn
<1>3. ASSUME NEW w \in Workers,
             \/ EnsureWorker(w) \/ SpuriousWake(w) \/ Sleep(w) \/ Pop(w)
             \/ CountRunning(w) \/ Launch(w) \/ LaunchFails(w)
             \/ AwaitReady(w) \/ AwaitTimeout(w) \/ JoinFuture(w) \/ Release(w)
      PROVE  UNCHANGED taskVars
  BY <1>3 DEF EnsureWorker, SpuriousWake, Sleep, Pop, CountRunning, Launch,
     LaunchFails, AwaitReady, AwaitTimeout, JoinFuture, Release
<1>4. ASSUME NEW w \in Workers, MarkRunning(w)
      PROVE  Placeholders'
  <2>1. /\ state' = [state EXCEPT ![cur[w]] = "running"]
        /\ error' = [error EXCEPT ![cur[w]] = ""]
        /\ backfill' = [backfill EXCEPT ![cur[w]] = RunningBackfill]
    BY <1>4, Zenon DEF MarkRunning
  <2> QED BY <2>1, Zenon DEF Placeholders, Typed
<1>5. ASSUME NEW w \in Workers, Publish(w)
      PROVE  Placeholders'
  <2>1. /\ \E v \in Terminal : state' = [state EXCEPT ![cur[w]] = v]
        /\ \E e : error' = [error EXCEPT ![cur[w]] = e]
        /\ \E b : backfill' = [backfill EXCEPT ![cur[w]] = b]
    BY <1>5, Zenon DEF Publish, Terminal
  <2>2. \A v \in Terminal : v # "queued" /\ v # "running"
    BY DEF Terminal
  <2> QED BY <2>1, <2>2, Zenon DEF Placeholders, Typed
<1>6. ASSUME NEW id \in Ids, BackfillReturns(id)
      PROVE  UNCHANGED taskVars
  BY <1>6 DEF BackfillReturns
<1>7. CASE UNCHANGED vars
  BY <1>1, <1>7 DEF vars
<1> QED BY NextCases, <1>1, <1>2, <1>3, <1>4, <1>5, <1>6, <1>7

LEMMA PlaceholdersHold == Spec => []Placeholders
<1>1. Init => Placeholders
  BY Zenon DEF Init, Placeholders
<1> QED BY <1>1, PlaceholdersKept, TypesKept, PTL DEF Spec

-----------------------------------------------------------------------------
(* Types of the readers *)

Metering     == {"enqueued_total", "running", "succeeded_total", "failed_total"}
ReaderPlaces == {"idle", "lookup", "copy", "answered", "reported"} \cup Metering
Shown        == States \cup {"task_not_found"}
Replies      == [ok : BOOLEAN, state : Shown, error : Errors, backfill : Backfill]
Reports      == [queue_length : Nat, enqueued_total : Nat, running : Int,
                 succeeded_total : Nat, failed_total : Nat]

ReadersTyped ==
  /\ rpc \in [Readers -> ReaderPlaces]
  /\ asked \in [Readers -> Ids \cup {0}]
  /\ \A r \in Readers : rpc[r] \in {"lookup", "copy"} => asked[r] \in Ids
  /\ reply \in [Readers -> Replies]
  /\ shown \in [Readers -> [Ids -> Shown]]
  /\ known \in [Readers -> SUBSET Ids]
  /\ report \in [Readers -> Reports]
  /\ floor \in [Readers -> Nat]

LEMMA FieldNames ==
  /\ Len(Fields) = 4
  /\ Fields[1] = "enqueued_total" /\ Fields[2] = "running"
  /\ Fields[3] = "succeeded_total" /\ Fields[4] = "failed_total"
BY DEF Fields

LEMMA LoadedValues ==
  /\ Loaded("enqueued_total") = enqueued_total /\ Loaded("running") = running
  /\ Loaded("succeeded_total") = succeeded_total /\ Loaded("failed_total") = failed_total
BY DEF Loaded

(* The four loads, one by one.                                             *)
LEMMA LoadCases ==
  ASSUME NEW r \in Readers, LoadCounter(r)
  PROVE  \/ /\ rpc[r] = "enqueued_total" /\ rpc' = [rpc EXCEPT ![r] = "running"]
            /\ report' = [report EXCEPT ![r].enqueued_total = enqueued_total]
         \/ /\ rpc[r] = "running" /\ rpc' = [rpc EXCEPT ![r] = "succeeded_total"]
            /\ report' = [report EXCEPT ![r].running = running]
         \/ /\ rpc[r] = "succeeded_total" /\ rpc' = [rpc EXCEPT ![r] = "failed_total"]
            /\ report' = [report EXCEPT ![r].succeeded_total = succeeded_total]
         \/ /\ rpc[r] = "failed_total" /\ rpc' = [rpc EXCEPT ![r] = "reported"]
            /\ report' = [report EXCEPT ![r].failed_total = failed_total]
<1>1. PICK i \in 1..4 :
        /\ rpc[r] = Fields[i]
        /\ report' = [report EXCEPT ![r][Fields[i]] = Loaded(Fields[i])]
        /\ rpc' = [rpc EXCEPT ![r] = IF i < 4 THEN Fields[i + 1] ELSE "reported"]
  BY FieldNames DEF LoadCounter
<1>2. /\ i = 1 => Fields[i] = "enqueued_total" /\ Fields[i + 1] = "running" /\ i < 4
      /\ i = 2 => Fields[i] = "running" /\ Fields[i + 1] = "succeeded_total" /\ i < 4
      /\ i = 3 => Fields[i] = "succeeded_total" /\ Fields[i + 1] = "failed_total" /\ i < 4
      /\ i = 4 => Fields[i] = "failed_total" /\ ~(i < 4)
      /\ i = 1 \/ i = 2 \/ i = 3 \/ i = 4
  BY FieldNames
<1>3. \/ Fields[i] = "enqueued_total" /\ rpc' = [rpc EXCEPT ![r] = "running"]
      \/ Fields[i] = "running" /\ rpc' = [rpc EXCEPT ![r] = "succeeded_total"]
      \/ Fields[i] = "succeeded_total" /\ rpc' = [rpc EXCEPT ![r] = "failed_total"]
      \/ Fields[i] = "failed_total" /\ rpc' = [rpc EXCEPT ![r] = "reported"]
  BY <1>1, <1>2, Zenon
<1> QED BY <1>1, <1>3, LoadedValues, Zenon

LEMMA AnswerTypes ==
  /\ NotFound \in Replies
  /\ Typed => \A id \in Ids : ShownBackfill(id) \in Backfill
<1>1. NotFound \in Replies
  BY ResultTypes, Zenon DEF NotFound, Replies, Shown, Errors
<1>2. ASSUME Typed, NEW id \in Ids
      PROVE  ShownBackfill(id) \in Backfill
  <2>1. NullBackfill \in Backfill /\ backfill[id] \in Backfill
    BY <1>2, ResultTypes DEF Typed
  <2>2. \A ok \in BOOLEAN, err \in Errors : Reply(ok, err) \in Backfill
    BY DEF Reply, Backfill
  <2>3. "" \in Errors /\ "unknown_error" \in Errors
    BY DEF Errors
  <2> QED BY <2>1, <2>2, <2>3, Zenon DEF ShownBackfill
<1> QED BY <1>1, <1>2

LEMMA EmptyReportType == EmptyReport \in Reports
BY DEF EmptyReport, Reports

(* A step of Next does not touch the readers; a reader's step is one of    *)
(* six.                                                                    *)
LEMMA ApiCases ==
  ASSUME [ApiNext]_apiVars
  PROVE  \/ UNCHANGED readerVars
         \/ \E r \in Readers : \/ AskStatus(r) \/ LookUp(r) \/ Copy(r)
                               \/ AskMetrics(r) \/ LoadCounter(r) \/ Send(r)
BY DEF ApiNext, apiVars

LEMMA ReadersTypedStep ==
  ASSUME Typed, ReadersTyped, [ApiNext]_apiVars
  PROVE  ReadersTyped'
<1> USE DEF ReadersTyped, ReaderPlaces, Metering
<1>1. CASE UNCHANGED readerVars
  BY <1>1 DEF readerVars
<1>2. ASSUME NEW r \in Readers, AskStatus(r)
      PROVE  ReadersTyped'
  BY <1>2 DEF AskStatus, Typed
<1>3. ASSUME NEW r \in Readers, LookUp(r)
      PROVE  ReadersTyped'
  <2>1. PICK id \in Ids : id = asked[r]
    BY <1>3 DEF LookUp
  <2>2. /\ rpc' \in [Readers -> ReaderPlaces] /\ UNCHANGED <<asked, known, report, floor>>
        /\ \A q \in Readers : rpc'[q] = "lookup" => rpc[q] = "lookup"
        /\ \A q \in Readers : rpc'[q] = "copy" => rpc[q] \in {"copy", "lookup"}
    BY <1>3 DEF LookUp
  <2>3. reply' \in [Readers -> Replies]
    BY <1>3, AnswerTypes DEF LookUp
  <2>4. shown' = shown \/ shown' = [shown EXCEPT ![r][id] = "task_not_found"]
    BY <1>3, <2>1 DEF LookUp
  <2>5. shown' \in [Readers -> [Ids -> Shown]]
    <3>1. "task_not_found" \in Shown
      BY DEF Shown
    <3>2. CASE shown' = [shown EXCEPT ![r][id] = "task_not_found"]
      BY <3>1, <3>2
    <3> QED BY <2>4, <3>2
  <2> QED BY <2>2, <2>3, <2>5
<1>4. ASSUME NEW r \in Readers, Copy(r)
      PROVE  ReadersTyped'
  <2>1. PICK id \in Ids : id = asked[r]
    BY <1>4 DEF Copy
  <2>2. /\ state[id] \in Shown /\ error[id] \in Errors
        /\ ShownBackfill(id) \in Backfill
    BY AnswerTypes DEF Typed, Shown
  <2>3. [ok |-> TRUE, state |-> state[id], error |-> error[id],
         backfill |-> ShownBackfill(id)] \in Replies
    BY <2>2 DEF Replies
  <2> QED BY <1>4, <2>1, <2>2, <2>3 DEF Copy
<1>5. ASSUME NEW r \in Readers, AskMetrics(r)
      PROVE  ReadersTyped'
  <2>1. Len(g_queue) \in Nat
    BY DEF Typed
  <2>2. [EmptyReport EXCEPT !.queue_length = Len(g_queue)] \in Reports
    <3>1. PICK e \in Reports : e = EmptyReport
      BY EmptyReportType
    <3>2. [e EXCEPT !.queue_length = Len(g_queue)] \in Reports
      BY <2>1 DEF Reports
    <3> QED BY <3>1, <3>2
  <2>3. rpc' = [rpc EXCEPT ![r] = "enqueued_total"]
    BY <1>5, FieldNames DEF AskMetrics
  <2>4. Cardinality({id \in Ids : shown[r][id] \in Terminal}) \in Nat
    <3>1. IsFiniteSet(Ids)
      BY FS_Interval, QueueConstants DEF Ids
    <3>2. {id \in Ids : shown[r][id] \in Terminal} \in SUBSET Ids
      OBVIOUS
    <3> QED BY <3>1, <3>2, FS_Subset, FS_CardinalityType
  <2> QED BY <1>5, <2>2, <2>3, <2>4 DEF AskMetrics
<1>6. ASSUME NEW r \in Readers, LoadCounter(r)
      PROVE  ReadersTyped'
  <2>1. /\ enqueued_total \in Nat /\ succeeded_total \in Nat
        /\ failed_total \in Nat /\ running \in Int
    BY DEF Typed
  <2>2. report' \in [Readers -> Reports]
    <3>1. \/ report' = [report EXCEPT ![r].enqueued_total = enqueued_total]
          \/ report' = [report EXCEPT ![r].running = running]
          \/ report' = [report EXCEPT ![r].succeeded_total = succeeded_total]
          \/ report' = [report EXCEPT ![r].failed_total = failed_total]
      BY <1>6, LoadCases, Zenon
    <3>2. CASE report' = [report EXCEPT ![r].enqueued_total = enqueued_total]
      BY <3>2, <2>1 DEF Reports
    <3>3. CASE report' = [report EXCEPT ![r].running = running]
      BY <3>3, <2>1 DEF Reports
    <3>4. CASE report' = [report EXCEPT ![r].succeeded_total = succeeded_total]
      BY <3>4, <2>1 DEF Reports
    <3>5. CASE report' = [report EXCEPT ![r].failed_total = failed_total]
      BY <3>5, <2>1 DEF Reports
    <3> QED BY <3>1, <3>2, <3>3, <3>4, <3>5, Zenon
  <2>3. UNCHANGED <<asked, reply, shown, known, floor>>
    BY <1>6 DEF LoadCounter
  <2> QED BY <1>6, <2>2, <2>3, LoadCases
<1>7. ASSUME NEW r \in Readers, Send(r)
      PROVE  ReadersTyped'
  BY <1>7, EmptyReportType, AnswerTypes DEF Send
<1> QED BY ApiCases, <1>1, <1>2, <1>3, <1>4, <1>5, <1>6, <1>7

LEMMA ReadersTypedInit == ApiInit => ReadersTyped
<1> SUFFICES ASSUME ApiInit PROVE ReadersTyped
  OBVIOUS
<1>2. /\ rpc \in [Readers -> ReaderPlaces] /\ asked \in [Readers -> Ids \cup {0}]
      /\ \A r \in Readers : rpc[r] = "idle"
  BY DEF ApiInit, ReaderPlaces
<1>3. /\ reply \in [Readers -> Replies] /\ report \in [Readers -> Reports]
      /\ known \in [Readers -> SUBSET Ids] /\ floor \in [Readers -> Nat]
  BY EmptyReportType, AnswerTypes DEF ApiInit
<1>4. shown \in [Readers -> [Ids -> Shown]]
  BY DEF ApiInit, Shown
<1> QED BY <1>2, <1>3, <1>4 DEF ReadersTyped

LEMMA ReadersKeepTypes == ApiSpec => []ReadersTyped
BY ReadersTypedInit, ReadersTypedStep, ReadersAreQuiet, TypesKept, PTL DEF ApiSpec

-----------------------------------------------------------------------------
(* Answers to GET /api/symbol/task *)

\* What AnswerConsistent asks of one answer.
Consistent(a) ==
  /\ a.state \in Terminal =>
       /\ a.backfill.present /\ ~a.backfill.running
       /\ a.backfill.ok = (a.state = "done")
       /\ a.backfill.error = a.error
  /\ a.state = "running" => a.backfill.present /\ ~a.backfill.ok /\ a.error = ""
  /\ a.state = "queued" => ~a.backfill.present /\ a.error = ""

(* What status() copies under the task's mutex fits together.              *)
LEMMA CopyIsConsistent ==
  ASSUME Typed, VerdictHasPayload, Placeholders, NEW id \in Ids
  PROVE  Consistent([ok |-> TRUE, state |-> state[id], error |-> error[id],
                     backfill |-> ShownBackfill(id)])
<1>1. state[id] \in States
  BY DEF Typed
<1>2. CASE state[id] = "queued"
  <2>1. ShownBackfill(id) = NullBackfill /\ error[id] = ""
    BY <1>2, Zenon DEF ShownBackfill, Placeholders
  <2>2. ~NullBackfill.present
    BY DEF NullBackfill
  <2>3. "queued" \notin Terminal /\ "queued" # "running"
    BY DEF Terminal
  <2> QED BY <1>2, <2>1, <2>2, <2>3, Zenon DEF Consistent
<1>3. CASE state[id] = "running"
  <2>1. RunningBackfill.present /\ ~RunningBackfill.ok
    BY DEF RunningBackfill
  <2>2. backfill[id] = RunningBackfill /\ error[id] = ""
    BY <1>3, Zenon DEF Placeholders
  <2>3. "running" \notin Terminal /\ "running" # "queued"
    BY DEF Terminal
  <2>4. ShownBackfill(id) = RunningBackfill
    BY <1>3, <2>1, <2>2, <2>3, Zenon DEF ShownBackfill
  <2> QED BY <1>3, <2>1, <2>2, <2>3, <2>4, Zenon DEF Consistent
<1>4. CASE state[id] \in Terminal
  <2>1. /\ backfill[id].present /\ ~backfill[id].running
        /\ backfill[id].ok = (state[id] = "done")
        /\ backfill[id].error = error[id]
    BY <1>4, Zenon DEF VerdictHasPayload
  <2>2. state[id] # "queued" /\ state[id] # "running"
    BY <1>4 DEF Terminal
  <2>3. ShownBackfill(id) = backfill[id]
    BY <2>1, <2>2, Zenon DEF ShownBackfill
  <2> QED BY <1>4, <2>1, <2>2, <2>3, Zenon DEF Consistent
<1> QED BY <1>1, <1>2, <1>3, <1>4 DEF States, Terminal

LEMMA NotFoundIsConsistent == Consistent(NotFound)
<1>1. NotFound.state = "task_not_found"
  BY Zenon DEF NotFound
<1>2. /\ "task_not_found" \notin Terminal /\ "task_not_found" # "running"
      /\ "task_not_found" # "queued"
  BY DEF Terminal
<1> QED BY <1>1, <1>2, Zenon DEF Consistent

(* Only LookUp, Copy and Send write an answer.                             *)
LEMMA AnswerStep ==
  ASSUME Typed, VerdictHasPayload, Placeholders, ReadersTyped,
         \A r \in Readers : Consistent(reply[r]), [ApiNext]_apiVars
  PROVE  \A r \in Readers : Consistent(reply'[r])
<1>1. ASSUME NEW r \in Readers, NEW a, Consistent(a), reply' = [reply EXCEPT ![r] = a]
      PROVE  \A q \in Readers : Consistent(reply'[q])
  BY <1>1 DEF ReadersTyped
<1>2. ASSUME UNCHANGED reply
      PROVE  \A q \in Readers : Consistent(reply'[q])
  BY <1>2
<1>3. ASSUME NEW r \in Readers, AskStatus(r) \/ AskMetrics(r) \/ LoadCounter(r)
      PROVE  UNCHANGED reply
  BY <1>3 DEF AskStatus, AskMetrics, LoadCounter
<1>4. ASSUME NEW r \in Readers, LookUp(r) \/ Send(r)
      PROVE  reply' = reply \/ reply' = [reply EXCEPT ![r] = NotFound]
  BY <1>4 DEF LookUp, Send
<1>5. ASSUME NEW r \in Readers, Copy(r)
      PROVE  \A q \in Readers : Consistent(reply'[q])
  <2>1. PICK id \in Ids : id = asked[r]
    BY <1>5 DEF Copy, ReadersTyped
  <2>2. reply' = [reply EXCEPT ![r] =
          [ok |-> TRUE, state |-> state[id], error |-> error[id],
           backfill |-> ShownBackfill(id)]]
    BY <1>5, <2>1 DEF Copy
  <2> QED BY <1>1, <2>2, CopyIsConsistent
<1>6. CASE UNCHANGED readerVars
  BY <1>2, <1>6 DEF readerVars
<1> QED
  BY ApiCases, NotFoundIsConsistent, <1>1, <1>2, <1>3, <1>4, <1>5, <1>6

(* Every answer of GET /api/symbol/task fits together, also when the       *)
(* worker publishes between the lookup and the copy.                       *)
THEOREM AnswersAreConsistent == ApiSpec => []AnswerConsistent
<1>1. AnswerConsistent <=> \A r \in Readers : Consistent(reply[r])
  BY Zenon DEF AnswerConsistent, Consistent
<1>2. ApiInit => AnswerConsistent
  <2>1. ApiInit => \A r \in Readers : reply[r] = NotFound
    BY DEF ApiInit
  <2> QED BY <1>1, <2>1, NotFoundIsConsistent
<1>3. /\ Typed /\ VerdictHasPayload /\ Placeholders /\ ReadersTyped
      /\ AnswerConsistent /\ [ApiNext]_apiVars
      => AnswerConsistent'
  <2> SUFFICES ASSUME Typed, VerdictHasPayload, Placeholders, ReadersTyped,
                      AnswerConsistent, [ApiNext]_apiVars
               PROVE  AnswerConsistent'
    OBVIOUS
  <2>1. \A r \in Readers : Consistent(reply'[r])
    BY <1>1, AnswerStep
  <2> QED BY <2>1, Zenon DEF AnswerConsistent, Consistent
<1> QED BY <1>2, <1>3, ReadersAreQuiet, TypesKept, VerdictsHavePayload,
           PlaceholdersHold, ReadersKeepTypes, PTL DEF ApiSpec

-----------------------------------------------------------------------------
(* What a poller learns is never taken back *)

\* What a poller was shown, and what the task may be by now.
Behind(s, t) ==
  \/ s = t
  \/ s = "queued" /\ t \in States
  \/ s = "running" /\ t \in Terminal

\* A poller is behind the queue, never ahead of it or beside it.
PollersFollow ==
  /\ \A r \in Readers : rpc[r] = "copy" => asked[r] \in g_tasks
  /\ \A r \in Readers : known[r] \subseteq g_tasks
  /\ \A r \in Readers, id \in Ids :
       shown[r][id] # "task_not_found" =>
         id \in g_tasks /\ Behind(shown[r][id], state[id])

LEMMA BehindMoves ==
  ASSUME NEW s, NEW t \in States, NEW u \in States, Behind(s, t), Moves(t, u)
  PROVE  Behind(s, u)
BY DEF Behind, Moves, States, Terminal

(* A poller that is told "not found" had not been told anything else.      *)
LEMMA NotFoundIsNoNews ==
  ASSUME ReadersTyped, PollersFollow, NEW r \in Readers, LookUp(r)
  PROVE  UNCHANGED shown
<1>1. PICK id \in Ids : id = asked[r]
  BY DEF LookUp, ReadersTyped
<1>2. CASE id \in g_tasks
  BY <1>1, <1>2 DEF LookUp
<1>3. CASE id \notin g_tasks
  <2>1. shown[r][id] = "task_not_found"
    BY <1>3 DEF PollersFollow
  <2>2. shown' = [shown EXCEPT ![r][id] = "task_not_found"]
    BY <1>1, <1>3 DEF LookUp
  <2> QED BY <2>1, <2>2 DEF ReadersTyped
<1> QED BY <1>2, <1>3

(* Pollers keep following when the queue moves and when they are answered. *)
LEMMA PollersFollowStep ==
  ASSUME IInv, Typed', ReadersTyped, PollersFollow, [ApiNext]_apiVars
  PROVE  PollersFollow'
<1>0. Typed /\ FreshIds
  BY DEF IInv
<1>1. /\ g_tasks \subseteq g_tasks'
      /\ \A id \in Ids : Moves(state[id], state'[id])
  <2>1. [Next]_vars
    BY DEF ApiNext, apiVars, AskStatus, LookUp, Copy, AskMetrics, LoadCounter, Send
  <2> QED BY <2>1, TasksAdvance
<1>2. ASSUME NEW r \in Readers, NEW id \in Ids,
             shown'[r][id] = shown[r][id], shown[r][id] # "task_not_found"
      PROVE  id \in g_tasks' /\ Behind(shown'[r][id], state'[id])
  <2>1. Behind(shown[r][id], state[id]) /\ id \in g_tasks
    BY <1>2 DEF PollersFollow
  <2>2. state[id] \in States /\ state'[id] \in States /\ Moves(state[id], state'[id])
    BY <1>0, <1>1 DEF Typed
  <2> QED BY <1>1, <1>2, <2>1, <2>2, BehindMoves
<1>3. ASSUME UNCHANGED shown
      PROVE  \A r \in Readers, id \in Ids :
               shown'[r][id] # "task_not_found" =>
                 id \in g_tasks' /\ Behind(shown'[r][id], state'[id])
  BY <1>2, <1>3
<1>4. CASE UNCHANGED readerVars
  <2>1. UNCHANGED <<rpc, asked, shown, known>>
    BY <1>4 DEF readerVars
  <2> QED BY <1>1, <1>3, <2>1 DEF PollersFollow
<1>5. ASSUME NEW r \in Readers, AskStatus(r)
      PROVE  PollersFollow'
  <2>1. returned \subseteq g_tasks
    BY <1>0 DEF FreshIds
  <2>2. /\ rpc' = [rpc EXCEPT ![r] = "lookup"] /\ known' = [known EXCEPT ![r] = returned]
        /\ UNCHANGED shown /\ \A q \in Readers : q # r => asked'[q] = asked[q]
    BY <1>5 DEF AskStatus, ReadersTyped
  <2> QED BY <1>1, <1>3, <2>1, <2>2 DEF PollersFollow, ReadersTyped
<1>6. ASSUME NEW r \in Readers, LookUp(r)
      PROVE  PollersFollow'
  <2>2. /\ UNCHANGED <<asked, known>>
        /\ rpc' = [rpc EXCEPT ![r] = "copy"] \/ rpc' = [rpc EXCEPT ![r] = "answered"]
        /\ rpc'[r] = "copy" => asked[r] \in g_tasks
    BY <1>6 DEF LookUp, ReadersTyped
  <2>3. UNCHANGED shown
    BY <1>6, NotFoundIsNoNews
  <2> QED BY <1>1, <1>3, <2>2, <2>3 DEF PollersFollow, ReadersTyped
<1>7. ASSUME NEW r \in Readers, Copy(r)
      PROVE  PollersFollow'
  <2>1. PICK id \in Ids : id = asked[r]
    BY <1>7 DEF Copy, ReadersTyped
  <2>2. /\ rpc' = [rpc EXCEPT ![r] = "answered"] /\ UNCHANGED <<asked, known>>
        /\ shown' = [shown EXCEPT ![r][id] = state[id]]
        /\ UNCHANGED state /\ id \in g_tasks
    BY <1>7, <2>1 DEF Copy, vars, taskVars, PollersFollow
  <2>3. ASSUME NEW q \in Readers, NEW k \in Ids, shown'[q][k] # "task_not_found"
        PROVE  k \in g_tasks' /\ Behind(shown'[q][k], state'[k])
    <3>1. CASE q = r /\ k = id
      <4>1. shown'[q][k] = state'[k]
        BY <2>2, <3>1 DEF ReadersTyped
      <4> QED BY <1>1, <2>2, <3>1, <4>1 DEF Behind
    <3>2. CASE ~(q = r /\ k = id)
      <4>1. shown'[q][k] = shown[q][k]
        BY <2>2, <3>2 DEF ReadersTyped
      <4> QED BY <1>2, <2>3, <4>1
    <3> QED BY <3>1, <3>2
  <2> QED BY <1>1, <2>2, <2>3 DEF PollersFollow, ReadersTyped
<1>8. ASSUME NEW r \in Readers, AskMetrics(r) \/ LoadCounter(r)
      PROVE  PollersFollow'
  <2>1. \E to \in ReaderPlaces \ {"copy"} : rpc' = [rpc EXCEPT ![r] = to]
    <3>1. CASE AskMetrics(r)
      BY <3>1, FieldNames DEF AskMetrics, ReaderPlaces, Metering
    <3>2. CASE LoadCounter(r)
      BY <3>2, LoadCases, Zenon DEF ReaderPlaces, Metering
    <3> QED BY <1>8, <3>1, <3>2
  <2>2. UNCHANGED <<asked, shown, known>>
    BY <1>8 DEF AskMetrics, LoadCounter
  <2> QED BY <1>1, <1>3, <2>1, <2>2 DEF PollersFollow, ReadersTyped
<1>9. ASSUME NEW r \in Readers, Send(r)
      PROVE  PollersFollow'
  <2>1. /\ rpc' = [rpc EXCEPT ![r] = "idle"] /\ asked' = [asked EXCEPT ![r] = 0]
        /\ known' = [known EXCEPT ![r] = {}] /\ UNCHANGED shown
    BY <1>9 DEF Send
  <2> QED BY <1>1, <1>3, <2>1 DEF PollersFollow, ReadersTyped
<1> QED BY ApiCases, <1>4, <1>5, <1>6, <1>7, <1>8, <1>9

LEMMA PollersAlwaysFollow == ApiSpec => []PollersFollow
<1>1. ApiInit => PollersFollow
  BY DEF ApiInit, PollersFollow
<1>2. IInv /\ Typed' /\ ReadersTyped /\ PollersFollow /\ [ApiNext]_apiVars => PollersFollow'
  BY PollersFollowStep
<1> QED BY <1>1, <1>2, ReadersAreQuiet, TypesKept, Invariance, ReadersKeepTypes,
           PTL DEF ApiSpec

LEMMA RankGrows ==
  ASSUME NEW s \in Shown, NEW t \in States, s # t, s = "task_not_found" \/ Behind(s, t)
  PROVE  Rank[s] < Rank[t]
<1>1. /\ Rank["task_not_found"] = 0 /\ Rank["queued"] = 1 /\ Rank["running"] = 2
      /\ Rank["done"] = 3 /\ Rank["failed"] = 3
  BY DEF Rank, States
<1> QED BY <1>1 DEF Shown, States, Terminal, Behind

(* Over any number of separate requests a poller never sees a task go      *)
(* back, change its verdict or vanish, and an id whose enqueue() returned  *)
(* before the request began is found.                                      *)
THEOREM PollersNeverRegress == ApiSpec => PollsNeverRegress
<1>1. /\ Typed /\ ReadersTyped /\ PollersFollow /\ [ApiNext]_apiVars
      => [\A r \in Readers, id \in Ids :
            shown[r][id] # shown'[r][id] => Rank[shown[r][id]] < Rank[shown'[r][id]]]_shown
  <2> SUFFICES ASSUME Typed, ReadersTyped, PollersFollow, [ApiNext]_apiVars,
                      NEW q \in Readers, NEW k \in Ids, shown[q][k] # shown'[q][k]
               PROVE  Rank[shown[q][k]] < Rank[shown'[q][k]]
    OBVIOUS
  <2>1. PICK r \in Readers : Copy(r)
    BY ApiCases, NotFoundIsNoNews
       DEF readerVars, AskStatus, AskMetrics, LoadCounter, Send
  <2>2. PICK id \in Ids : id = asked[r]
    BY <2>1 DEF Copy, ReadersTyped
  <2>3. shown' = [shown EXCEPT ![r][id] = state[id]] /\ id \in g_tasks
    BY <2>1, <2>2 DEF Copy, PollersFollow
  <2>4. q = r /\ k = id /\ shown'[q][k] = state[k]
    BY <2>3 DEF ReadersTyped
  <2>5. shown[q][k] = "task_not_found" \/ Behind(shown[q][k], state[k])
    BY DEF PollersFollow
  <2>6. shown[q][k] \in Shown /\ state[k] \in States
    BY DEF ReadersTyped, Typed
  <2> QED BY <2>4, <2>5, <2>6, RankGrows
<1>2. /\ ReadersTyped /\ PollersFollow /\ [ApiNext]_apiVars
      => [\A r \in Readers :
            rpc[r] = "lookup" /\ rpc'[r] = "answered" => asked[r] \notin known[r]]_rpc
  <2> SUFFICES ASSUME ReadersTyped, PollersFollow, [ApiNext]_apiVars,
                      NEW q \in Readers, rpc[q] = "lookup", rpc'[q] = "answered"
               PROVE  asked[q] \notin known[q]
    OBVIOUS
  <2>1. ASSUME NEW r \in Readers, r # q \/ rpc[r] # "lookup", NEW to,
               rpc' = [rpc EXCEPT ![r] = to]
        PROVE  FALSE
    BY <2>1 DEF ReadersTyped
  <2>2. ASSUME NEW r \in Readers, Copy(r) \/ AskStatus(r) \/ AskMetrics(r) \/ Send(r)
        PROVE  FALSE
    BY <2>1, <2>2 DEF Copy, AskStatus, AskMetrics, Send
  <2>3. ASSUME NEW r \in Readers, LoadCounter(r)
        PROVE  FALSE
    <3>1. rpc[r] # "lookup" /\ \E to : rpc' = [rpc EXCEPT ![r] = to]
      BY <2>3, LoadCases, Zenon
    <3> QED BY <2>1, <3>1
  <2>4. ~UNCHANGED readerVars
    BY DEF readerVars
  <2>5. PICK r \in Readers : LookUp(r)
    BY ApiCases, <2>2, <2>3, <2>4
  <2>6. r = q
    BY <2>1, <2>5 DEF LookUp
  <2>7. asked[q] \notin g_tasks
    BY <2>5, <2>6 DEF LookUp, ReadersTyped
  <2> QED BY <2>7 DEF PollersFollow
<1> QED BY <1>1, <1>2, ReadersAreQuiet, TypesKept, ReadersKeepTypes, PollersAlwaysFollow,
           PTL DEF ApiSpec, PollsNeverRegress, NeverGoesBack, ReturnedIdIsFound

-----------------------------------------------------------------------------
(* The totals cover what was shown *)

ShownAs(r, v) == {id \in Ids : shown[r][id] = v}

\* While metrics_json() loads the counters, what the poller was shown before
\* stays what it was, and each total loaded so far covers its verdicts.
Covered(r) ==
  /\ rpc[r] \in Metering \cup {"reported"} =>
       floor[r] = Cardinality(ShownAs(r, "done")) + Cardinality(ShownAs(r, "failed"))
  /\ rpc[r] \in {"failed_total", "reported"} =>
       Cardinality(ShownAs(r, "done")) <= report[r].succeeded_total
  /\ rpc[r] = "reported" =>
       Cardinality(ShownAs(r, "failed")) <= report[r].failed_total

ReportsCovered == \A r \in Readers : Covered(r)

(* Every verdict a poller has been shown is one the totals count.          *)
LEMMA TotalsCoverShown ==
  ASSUME Typed, ReadersTyped, CountersMatch, PollersFollow, NEW r \in Readers
  PROVE  /\ Cardinality(ShownAs(r, "done")) <= succeeded_total
         /\ Cardinality(ShownAs(r, "failed")) <= failed_total
         /\ Cardinality(ShownAs(r, "done")) \in Nat
         /\ Cardinality(ShownAs(r, "failed")) \in Nat
         /\ Cardinality({id \in Ids : shown[r][id] \in Terminal}) =
              Cardinality(ShownAs(r, "done")) + Cardinality(ShownAs(r, "failed"))
<1>1. ShownAs(r, "done") \subseteq WithState("done")
  BY DEF ShownAs, WithState, PollersFollow, Behind
<1>2. ShownAs(r, "failed") \subseteq WithState("failed")
  BY DEF ShownAs, WithState, PollersFollow, Behind
<1>3. IsFiniteSet(WithState("done")) /\ IsFiniteSet(WithState("failed"))
  BY CountedAreFinite DEF States
<1>4. /\ succeeded_total = Cardinality(WithState("done"))
      /\ failed_total = Cardinality(WithState("failed"))
  BY DEF CountersMatch, WithState
<1>5. /\ IsFiniteSet(ShownAs(r, "done")) /\ IsFiniteSet(ShownAs(r, "failed"))
      /\ Cardinality(ShownAs(r, "done")) <= succeeded_total
      /\ Cardinality(ShownAs(r, "failed")) <= failed_total
  BY <1>1, <1>2, <1>3, <1>4, FS_Subset
<1>6. /\ {id \in Ids : shown[r][id] \in Terminal} = ShownAs(r, "done") \cup ShownAs(r, "failed")
      /\ ShownAs(r, "done") \cap ShownAs(r, "failed") = {}
  BY DEF ShownAs, Terminal
<1>7. /\ Cardinality(ShownAs(r, "done")) \in Nat /\ Cardinality(ShownAs(r, "failed")) \in Nat
  BY <1>5, FS_CardinalityType
<1>8. Cardinality(ShownAs(r, "done") \cup ShownAs(r, "failed")) =
        Cardinality(ShownAs(r, "done")) + Cardinality(ShownAs(r, "failed"))
  <2>1. Cardinality(ShownAs(r, "done") \cap ShownAs(r, "failed")) = 0
    BY <1>6, FS_EmptySet
  <2> DEFINE D == ShownAs(r, "done")
             F == ShownAs(r, "failed")
  <2>2. Cardinality(D \cup F) = Cardinality(D) + Cardinality(F) - Cardinality(D \cap F)
    BY <1>5, FS_Union
  <2>3. Cardinality(D) \in Nat /\ Cardinality(F) \in Nat /\ Cardinality(D \cap F) = 0
    BY <1>7, <2>1
  <2> HIDE DEF D, F
  <2>4. Cardinality(D \cup F) = Cardinality(D) + Cardinality(F)
    BY <2>2, <2>3
  <2> QED BY <2>4 DEF D, F
<1> QED BY <1>5, <1>6, <1>7, <1>8

LEMMA CoveredStep ==
  ASSUME Typed, ReadersTyped, CountersMatch, PollersFollow, ReportsCovered,
         [ApiNext]_apiVars
  PROVE  ReportsCovered'
<1>1. ASSUME NEW r \in Readers, rpc'[r] = rpc[r], shown'[r] = shown[r],
             report'[r] = report[r], floor'[r] = floor[r]
      PROVE  Covered(r)'
  <2>1. \A v : ShownAs(r, v)' = ShownAs(r, v)
    BY <1>1 DEF ShownAs
  <2> QED BY <1>1, <2>1 DEF Covered, ReportsCovered
<1>2. CASE UNCHANGED readerVars
  BY <1>1, <1>2 DEF readerVars, ReportsCovered
<1>3. ASSUME NEW r \in Readers, AskStatus(r) \/ LookUp(r) \/ Copy(r) \/ Send(r)
      PROVE  ReportsCovered'
  <2>1. /\ rpc'[r] \in {"idle", "lookup", "copy", "answered"}
        /\ \A q \in Readers \ {r} :
             /\ rpc'[q] = rpc[q] /\ shown'[q] = shown[q]
             /\ report'[q] = report[q] /\ floor'[q] = floor[q]
    <3>1. CASE AskStatus(r)
      BY <3>1 DEF AskStatus, ReadersTyped
    <3>2. CASE LookUp(r)
      BY <3>2 DEF LookUp, ReadersTyped
    <3>3. CASE Copy(r)
      BY <3>3 DEF Copy, ReadersTyped
    <3>4. CASE Send(r)
      BY <3>4 DEF Send, ReadersTyped
    <3> QED BY <1>3, <3>1, <3>2, <3>3, <3>4
  <2>2. Covered(r)'
    BY <2>1 DEF Covered, Metering
  <2> QED BY <1>1, <2>1, <2>2 DEF ReportsCovered
<1>4. ASSUME NEW r \in Readers, AskMetrics(r)
      PROVE  ReportsCovered'
  <2>1. /\ rpc'[r] = "enqueued_total" /\ UNCHANGED shown
        /\ \A q \in Readers \ {r} :
             /\ rpc'[q] = rpc[q] /\ report'[q] = report[q] /\ floor'[q] = floor[q]
    BY <1>4, FieldNames DEF AskMetrics, ReadersTyped
  <2>2. floor' = [floor EXCEPT ![r] = Cardinality({id \in Ids : shown[r][id] \in Terminal})]
    BY <1>4 DEF AskMetrics
  <2>3. Covered(r)'
    <3>1. \A v : ShownAs(r, v)' = ShownAs(r, v)
      BY <2>1 DEF ShownAs
    <3>2. floor'[r] = Cardinality(ShownAs(r, "done")) + Cardinality(ShownAs(r, "failed"))
      BY <2>2, TotalsCoverShown DEF ReadersTyped
    <3> QED BY <2>1, <3>1, <3>2 DEF Covered
  <2>4. \A q \in Readers \ {r} : Covered(q)'
    BY <1>1, <2>1
  <2> QED BY <2>3, <2>4 DEF ReportsCovered
<1>5. ASSUME NEW r \in Readers, LoadCounter(r)
      PROVE  ReportsCovered'
  <2>1. UNCHANGED <<shown, floor>> /\ Covered(r)
    BY <1>5 DEF LoadCounter, ReportsCovered
  <2>2. \A v : ShownAs(r, v)' = ShownAs(r, v)
    BY <2>1 DEF ShownAs
  <2>3. /\ Cardinality(ShownAs(r, "done")) <= succeeded_total
        /\ Cardinality(ShownAs(r, "failed")) <= failed_total
    BY TotalsCoverShown
  <2>4. report[r] \in Reports
    BY DEF ReadersTyped
  <2>5. rpc[r] \in Metering
    BY <1>5, LoadCases, Zenon DEF Metering
  <2>6. Covered(r)'
    <3>1. CASE rpc'[r] \in {"running", "succeeded_total"}
      BY <2>1, <2>2, <2>5, <3>1 DEF Covered, Metering
    <3>2. CASE /\ rpc[r] = "succeeded_total" /\ rpc' = [rpc EXCEPT ![r] = "failed_total"]
               /\ report' = [report EXCEPT ![r].succeeded_total = succeeded_total]
      <4>1. rpc'[r] = "failed_total" /\ report'[r].succeeded_total = succeeded_total
        BY <2>4, <3>2 DEF ReadersTyped, Reports
      <4> QED BY <2>1, <2>2, <2>3, <2>5, <4>1 DEF Covered, Metering
    <3>3. CASE /\ rpc[r] = "failed_total" /\ rpc' = [rpc EXCEPT ![r] = "reported"]
               /\ report' = [report EXCEPT ![r].failed_total = failed_total]
      <4>1. /\ rpc'[r] = "reported" /\ report'[r].failed_total = failed_total
            /\ report'[r].succeeded_total = report[r].succeeded_total
        BY <2>4, <3>3 DEF ReadersTyped, Reports
      <4> QED BY <2>1, <2>2, <2>3, <2>5, <3>3, <4>1 DEF Covered, Metering
    <3>4. /\ rpc' = [rpc EXCEPT ![r] = "running"] => rpc'[r] = "running"
          /\ rpc' = [rpc EXCEPT ![r] = "succeeded_total"] => rpc'[r] = "succeeded_total"
      BY DEF ReadersTyped
    <3> QED BY <1>5, LoadCases, <3>1, <3>2, <3>3, <3>4, Zenon
  <2>7. ASSUME NEW q \in Readers \ {r}
        PROVE  rpc'[q] = rpc[q] /\ report'[q] = report[q]
    <3>1. \E to, new : rpc' = [rpc EXCEPT ![r] = to] /\ report' = [report EXCEPT ![r] = new]
      BY <1>5, LoadCases, Zenon
    <3> QED BY <3>1 DEF ReadersTyped
  <2> QED BY <1>1, <2>1, <2>6, <2>7 DEF ReportsCovered
<1> QED BY ApiCases, <1>2, <1>3, <1>4, <1>5

(* The totals of a metrics answer are never behind the verdicts the same   *)
(* client had been shown when it asked, although the counters are loaded   *)
(* one after the other while the worker goes on.                           *)
THEOREM ReportsCoverWhatWasShown == ApiSpec => []ReportCoversShown
<1>1. ApiInit => ReportsCovered
  BY DEF ApiInit, ReportsCovered, Covered, Metering
<1>2. /\ Typed /\ ReadersTyped /\ CountersMatch /\ PollersFollow /\ ReportsCovered
      /\ [ApiNext]_apiVars
      => ReportsCovered'
  BY CoveredStep
<1>3. Typed /\ ReadersTyped /\ CountersMatch /\ PollersFollow /\ ReportsCovered
      => ReportCoversShown
  <2> SUFFICES ASSUME Typed, ReadersTyped, CountersMatch, PollersFollow, ReportsCovered,
                      NEW r \in Readers, rpc[r] = "reported"
               PROVE  report[r].succeeded_total + report[r].failed_total >= floor[r]
    BY DEF ReportCoversShown
  <2> DEFINE D == Cardinality(ShownAs(r, "done"))
             F == Cardinality(ShownAs(r, "failed"))
  <2>1. /\ floor[r] = D + F
        /\ D <= report[r].succeeded_total /\ F <= report[r].failed_total
    BY DEF ReportsCovered, Covered
  <2>2. D \in Nat /\ F \in Nat
    BY TotalsCoverShown
  <2>3. report[r].succeeded_total \in Nat /\ report[r].failed_total \in Nat
    BY DEF ReadersTyped, Reports
  <2> HIDE DEF D, F
  <2> QED BY <2>1, <2>2, <2>3
<1> QED BY <1>1, <1>2, <1>3, ReadersAreQuiet, TypesKept, TotalsCountTasks,
           ReadersKeepTypes, PollersAlwaysFollow, PTL DEF ApiSpec

==============================================================================
