----------------------------- MODULE HydrateApi -----------------------------
(***************************************************************************)
(* What the read-only handlers of the hydrate queue report while it works: *)
(* GET /api/symbol/task (status()) looks the task up under g_mu and copies *)
(* it later under the task's own mutex; GET /api/symbol/metrics            *)
(* (metrics_json()) takes the queue length under g_mu and then loads four  *)
(* relaxed atomics one after the other.                                    *)
(***************************************************************************)
EXTENDS HydrateQueue

CONSTANTS
  Readers,                (* HTTP threads that answer the two GET routes   *)
  MaxReports              (* bound: metrics reports a reader asks for      *)

VARIABLES
  rpc,                    (* a reader's place in its handler               *)
  asked,                  (* the id a reader looks up                      *)
  reply,                  (* its last answer to GET /api/symbol/task       *)
  shown,                  (* history: the last state shown for every id    *)
  known,                  (* history: ids returned when the lookup began   *)
  report,                 (* the metrics object it is putting together     *)
  floor,                  (* history: verdicts it had shown before that    *)
  reports                 (* metrics reports asked for so far              *)

readerVars == <<rpc, asked, reply, shown, known, report, floor, reports>>
apiVars == <<vars, readerVars>>

NotFound == [ok |-> FALSE, state |-> "task_not_found", error |-> "", backfill |-> NullBackfill]

\* The order in which the braced initialiser evaluates the loads.
Fields == <<"enqueued_total", "running", "succeeded_total", "failed_total">>

EmptyReport == [queue_length |-> 0, enqueued_total |-> 0, running |-> 0,
                succeeded_total |-> 0, failed_total |-> 0]

\* Mutant: the initialiser names a counter twice.
LoadedTwice(field) ==
  CASE field = "enqueued_total"  -> enqueued_total
    [] field = "running"         -> running
    [] OTHER                     -> failed_total

Loaded(field) ==
  CASE field = "enqueued_total"  -> enqueued_total
    [] field = "running"         -> running
    [] field = "succeeded_total" -> succeeded_total
    [] field = "failed_total"    -> failed_total

ApiInit ==
  /\ Init
  /\ rpc     = [r \in Readers |-> "idle"]
  /\ asked   = [r \in Readers |-> 0]
  /\ reply   = [r \in Readers |-> NotFound]
  /\ shown   = [r \in Readers |-> [id \in Ids |-> "task_not_found"]]
  /\ known   = [r \in Readers |-> {}]
  /\ report  = [r \in Readers |-> EmptyReport]
  /\ floor   = [r \in Readers |-> 0]
  /\ reports = 0

-----------------------------------------------------------------------------
\* The request arrives; any number may be asked for.
AskStatus(r) ==
  /\ rpc[r] = "idle"
  /\ \E id \in Ids : asked' = [asked EXCEPT ![r] = id]
  /\ rpc' = [rpc EXCEPT ![r] = "lookup"]
  /\ known' = [known EXCEPT ![r] = returned]
  /\ UNCHANGED <<vars, reply, shown, report, floor, reports>>

\* First half of status(): the map lookup under g_mu.
LookUp(r) ==
  /\ rpc[r] = "lookup"
  /\ \/ /\ asked[r] \in g_tasks
        /\ rpc' = [rpc EXCEPT ![r] = "copy"]
        /\ UNCHANGED <<reply, shown>>
     \/ /\ asked[r] \notin g_tasks
        /\ rpc' = [rpc EXCEPT ![r] = "answered"]
        /\ reply' = [reply EXCEPT ![r] = NotFound]
        /\ shown' = [shown EXCEPT ![r][asked[r]] = "task_not_found"]
  /\ UNCHANGED <<vars, asked, known, report, floor, reports>>

\* Mutant: null for every task that has no verdict yet.
ShownWhenEnded(id) ==
  IF state[id] \in Terminal THEN backfill[id] ELSE NullBackfill

\* The object shown for a task that is no longer queued.
ShownBackfill(id) ==
  IF state[id] = "queued" THEN NullBackfill
  ELSE IF backfill[id].present THEN backfill[id]
  ELSE Reply(state[id] = "done", IF state[id] = "done" THEN "" ELSE "unknown_error")

\* Second half: snapshot_task under the task's mutex, and the answer.
Copy(r) ==
  LET id == asked[r] IN
  /\ rpc[r] = "copy"
  /\ rpc' = [rpc EXCEPT ![r] = "answered"]
  /\ reply' = [reply EXCEPT ![r] =
       [ok |-> TRUE, state |-> state[id], error |-> error[id],
        backfill |-> ShownBackfill(id)]]
  /\ shown' = [shown EXCEPT ![r][id] = state[id]]
  /\ UNCHANGED <<vars, asked, known, report, floor, reports>>

\* metrics_json() begins: the queue length, under g_mu.
AskMetrics(r) ==
  /\ rpc[r] = "idle"
  /\ reports < MaxReports
  /\ reports' = reports + 1
  /\ rpc' = [rpc EXCEPT ![r] = Fields[1]]
  /\ report' = [report EXCEPT ![r] = [EmptyReport EXCEPT !.queue_length = Len(g_queue)]]
  /\ floor' = [floor EXCEPT ![r] = Cardinality({id \in Ids : shown[r][id] \in Terminal})]
  /\ UNCHANGED <<vars, asked, reply, shown, known>>

\* One of the four loads; after the last the report is complete.
LoadCounter(r) ==
  \E i \in 1..Len(Fields) :
    /\ rpc[r] = Fields[i]
    /\ report' = [report EXCEPT ![r][Fields[i]] = Loaded(Fields[i])]
    /\ rpc' = [rpc EXCEPT ![r] = IF i < Len(Fields) THEN Fields[i + 1] ELSE "reported"]
    /\ UNCHANGED <<vars, asked, reply, shown, known, floor, reports>>

\* The answer leaves the server and the handler's locals are gone.
Send(r) ==
  /\ rpc[r] \in {"answered", "reported"}
  /\ rpc'    = [rpc    EXCEPT ![r] = "idle"]
  /\ asked'  = [asked  EXCEPT ![r] = 0]
  /\ reply'  = [reply  EXCEPT ![r] = NotFound]
  /\ known'  = [known  EXCEPT ![r] = {}]
  /\ report' = [report EXCEPT ![r] = EmptyReport]
  /\ floor'  = [floor  EXCEPT ![r] = 0]
  /\ UNCHANGED <<vars, shown, reports>>

ApiNext ==
  \/ Next /\ UNCHANGED readerVars
  \/ \E r \in Readers :
       \/ AskStatus(r) \/ LookUp(r) \/ Copy(r)
       \/ AskMetrics(r) \/ LoadCounter(r) \/ Send(r)

ApiSpec == ApiInit /\ [][ApiNext]_apiVars

-----------------------------------------------------------------------------
(* Properties *)

(* "GET /api/symbol/task always returns non-null backfill for state in     *)
(* {done,failed}" (CODING_TASK.md), and more: the parts of one answer fit  *)
(* together although the worker may publish between lookup and copy.       *)
AnswerConsistent ==
  \A r \in Readers :
    LET a == reply[r] IN
    /\ a.state \in Terminal =>
         /\ a.backfill.present /\ ~a.backfill.running
         /\ a.backfill.ok = (a.state = "done")
         /\ a.backfill.error = a.error
    /\ a.state = "running" => a.backfill.present /\ ~a.backfill.ok /\ a.error = ""
    /\ a.state = "queued" => ~a.backfill.present /\ a.error = ""

Rank == [s \in States \cup {"task_not_found"} |->
          CASE s = "task_not_found" -> 0 [] s = "queued" -> 1
            [] s = "running" -> 2 [] OTHER -> 3]

(* A poller never sees a task go backwards, change its verdict or vanish,  *)
(* over any number of separate GET /api/symbol/task requests.              *)
NeverGoesBack ==
  [][\A r \in Readers, id \in Ids :
       shown[r][id] # shown'[r][id] => Rank[shown[r][id]] < Rank[shown'[r][id]]]_shown

(* A request that begins after an enqueue() has returned its id does not   *)
(* answer task_not_found for that id.                                      *)
ReturnedIdIsFound ==
  [][\A r \in Readers :
       rpc[r] = "lookup" /\ rpc'[r] = "answered" => asked[r] \notin known[r]]_rpc

(* What a client learns by polling is monotone: what it was told exists    *)
(* stays there, and what it has seen of a task is never taken back.        *)
PollsNeverRegress == NeverGoesBack /\ ReturnedIdIsFound

(* The metrics account for every verdict the same client has been shown    *)
(* before it asked: a total is never behind a status already reported.     *)
ReportCoversShown ==
  \A r \in Readers :
    rpc[r] = "reported" =>
      report[r].succeeded_total + report[r].failed_total >= floor[r]

==============================================================================
