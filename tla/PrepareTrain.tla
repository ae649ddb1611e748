----------------------------- MODULE PrepareTrain -----------------------------
(***************************************************************************)
(* The two routes that prepare a symbol and in doing so call their own     *)
(* server: POST /api/pipeline/prepare_train (src/src/routes/pipeline.cpp)  *)
(* through an HTTP client with a read timeout, POST /api/symbol/prepare    *)
(* (src/src/routes/symbol_prepare.cpp) through curl without one.  The      *)
(* handler keeps its pool thread while the call it made waits for another. *)
(* A call whose client has given up is still served when its turn comes.   *)
(*                                                                         *)
(* Of the data there is the 15-minute file that the checks and the         *)
(* training read: requests ask for interval 15 and name their symbol in    *)
(* capitals, and only pipelines clean, fill or remove the file.  One step  *)
(* is a shell script, a check, a call, or the work of a called route.      *)
(***************************************************************************)
EXTENDS Naturals, FiniteSets, Sequences

CONSTANTS
  Pipelines, Prepares,    (* requests for the two routes                   *)
  Symbols, NoSymbol,
  Threads,                (* the number of threads of the pool             *)
  Nobody,                 (* holder of a free lock                         *)
  Intervals               (* how many a prepare looks at: 15, 60, 240, 1440*)

Requests == Pipelines \cup Prepares
Parts == {"handler", "backfill", "train", "infer"}
Tasks == [req : Requests, part : Parts]
TaskOf(r, part) == [req |-> r, part |-> part]

ASSUME PrepareConstants ==
  /\ Pipelines \cap Prepares = {}
  /\ NoSymbol \notin Symbols /\ Nobody \notin Tasks
  /\ Threads \in Nat \ {0} /\ Intervals \in Nat \ {0}

VARIABLES
  jobs_, handled,          (* the pool                                      *)
  step,                   (* a request's place in its handler              *)
  symbol,                 (* the symbol it names                           *)
  reply,                  (* what came back from the call it waits for     *)
  todo,                   (* intervals a prepare has not looked at yet     *)
  train_mutex,            (* the task that is training, or Nobody          *)
  clean,                  (* cache/clean/<symbol>_15.csv                   *)
  base,                   (* history: the data a pipeline's training read  *)
  rewritten               (* history: pipelines whose file another changed *)
                          (* between their checks and their training       *)

Pool == INSTANCE ServerPool

vars == <<jobs_, handled, step, symbol, reply, todo, train_mutex, clean, base,
          rewritten>>

\* What the checks tell apart: no file, gaps, too few rows, neither.
Written == {"gappy", "few", "good"}
Quality == {"none"} \cup Written

Answered == {"ok", "failed"}
Awaiting(part) ==
  CASE part = "backfill" -> "await_backfill"
    [] part = "train"    -> "await_train"
    [] part = "infer"    -> "await_infer"
Steps ==
  {"away", "queued", "backfill", "clean", "gaps", "verify", "train", "infer",
   "await_backfill", "await_train", "await_infer", "caches", "model", "lock",
   "training", "load"} \cup Answered

Init ==
  /\ Pool!PoolInit
  /\ step   = [r \in Requests |-> "away"]
  /\ symbol = [r \in Requests |-> NoSymbol]
  /\ reply  = [r \in Requests |-> "none"]
  /\ todo   = [r \in Requests |-> Intervals]
  /\ train_mutex = Nobody
  /\ clean \in [Symbols -> Quality]
  /\ base   = [r \in Requests |-> "none"]
  /\ rewritten = {}

At(r, from) == step[r] = from
Goes(r, to) == step' = [step EXCEPT ![r] = to]
Moves(r, from, to) == At(r, from) /\ Goes(r, to)

\* The handler answers and its thread is free again.
Answers(r, verdict) == Goes(r, verdict) /\ Pool!Leaves(TaskOf(r, "handler"))

-----------------------------------------------------------------------------
(* The pool                                                                *)

Arrive(r) ==
  /\ Moves(r, "away", "queued")
  /\ \E s \in Symbols : symbol' = [symbol EXCEPT ![r] = s]
  /\ Pool!Enqueue(TaskOf(r, "handler"))
  /\ UNCHANGED <<reply, todo, train_mutex, clean, base, rewritten>>

TakeUp ==
  /\ Pool!TakesUp
  /\ LET x == Head(jobs_) IN
     IF x.part # "handler" THEN UNCHANGED step
     ELSE Goes(x.req, IF x.req \in Pipelines THEN "backfill" ELSE "caches")
  /\ UNCHANGED <<symbol, reply, todo, train_mutex, clean, base, rewritten>>

-----------------------------------------------------------------------------
(* Calls to the own server                                                 *)

\* The call is made; from here on its client waits.
Call(r, from, part) ==
  /\ Moves(r, from, Awaiting(part))
  /\ Pool!Enqueue(TaskOf(r, part))

CallBackfill(r) ==
  /\ Call(r, "backfill", "backfill")
  /\ UNCHANGED <<symbol, reply, todo, train_mutex, clean, base, rewritten>>
CallTrain(r) ==
  /\ Call(r, "train", "train")
  /\ UNCHANGED <<symbol, reply, todo, train_mutex, clean, base, rewritten>>
CallInfer(r) ==
  /\ Call(r, "infer", "infer")
  /\ UNCHANGED <<symbol, reply, todo, train_mutex, clean, base, rewritten>>

\* The client takes what came, or gives up.
Took(r) == reply' = [reply EXCEPT ![r] = "none"]

\* The called route answers; nobody listens if the client has given up.
Serves(x, how) ==
  /\ Pool!Leaves(x)
  /\ reply' = IF At(x.req, Awaiting(x.part))
              THEN [reply EXCEPT ![x.req] = how] ELSE reply

\* GET /api/backfill and GET /api/infer.
Serve(x) ==
  /\ x.part \in {"backfill", "infer"}
  /\ \E how \in {"ok", "error"} : Serves(x, how)
  /\ UNCHANGED <<step, symbol, todo, train_mutex, clean, base, rewritten>>

\* GET /api/train: the lock, then the clean file if there is one.
TrainLock(x) ==
  /\ x.part = "train"
  /\ train_mutex = Nobody
  /\ train_mutex' = x
  /\ base' = [base EXCEPT ![x.req] = clean[symbol[x.req]]]
  /\ UNCHANGED <<jobs_, handled, step, symbol, reply, todo, clean, rewritten>>

TrainEnd(x) ==
  /\ x.part = "train"
  /\ train_mutex = x
  /\ train_mutex' = Nobody
  /\ \E how \in {"ok", "error"} : Serves(x, how)
  /\ UNCHANGED <<step, symbol, todo, clean, base, rewritten>>

-----------------------------------------------------------------------------
(* POST /api/pipeline/prepare_train                                        *)

\* Mutant: the reply is not looked at.
BackfillAnyway(r) ==
  /\ r \in Pipelines
  /\ Moves(r, "await_backfill", "clean")
  /\ Took(r)
  /\ UNCHANGED <<jobs_, handled, symbol, todo, train_mutex, clean, base, rewritten>>

\* The reply to the backfill, or the end of patience (300 s).
BackfillBack(r) ==
  /\ At(r, "await_backfill") /\ r \in Pipelines
  /\ \/ reply[r] = "ok" /\ Goes(r, "clean") /\ UNCHANGED <<jobs_, handled>>
     \/ reply[r] # "ok" /\ Answers(r, "failed")
  /\ Took(r)
  /\ UNCHANGED <<symbol, todo, train_mutex, clean, base, rewritten>>

\* Has looked at its file, which its training has not read yet.
Relies(r) ==
  \/ step[r] \in {"verify", "train"}
  \/ /\ step[r] = "await_train" /\ reply[r] = "none"
     /\ train_mutex # TaskOf(r, "train")

\* A script leaves the clean file of r's symbol with quality q.
Leave(r, q) ==
  LET s == symbol[r] IN
  /\ clean' = [clean EXCEPT ![s] = q]
  /\ rewritten' = IF q = clean[s] THEN rewritten
                  ELSE rewritten \cup {o \in Pipelines : symbol[o] = s /\ Relies(o)}

\* clean_from_raw.sh writes the clean file, or leaves it as it is when there
\* is no raw file; rows_in_file fails when there is no clean file either.
Clean(r) ==
  /\ At(r, "clean")
  /\ \E q \in Written \cup {clean[symbol[r]]} :
       /\ Leave(r, q)
       /\ \/ q # "none" /\ Goes(r, "gaps") /\ UNCHANGED <<jobs_, handled>>
          \/ q = "none" /\ Answers(r, "failed")
  /\ UNCHANGED <<symbol, reply, todo, train_mutex, base>>

\* Mutant: no second look after the filling.
GapsFilled(r) ==
  /\ Moves(r, "gaps", "verify")
  /\ \E q \in IF clean[symbol[r]] = "gappy" THEN Written ELSE {clean[symbol[r]]} :
       Leave(r, q)
  /\ UNCHANGED <<jobs_, handled, symbol, reply, todo, train_mutex, base>>

\* Gaps are filled once, by fill_gaps_bybit_15m.sh, and looked for again.
Gaps(r) ==
  /\ At(r, "gaps")
  /\ \E q \in IF clean[symbol[r]] = "gappy" THEN Written ELSE {clean[symbol[r]]} :
       /\ Leave(r, q)
       /\ \/ q # "gappy" /\ Goes(r, "verify") /\ UNCHANGED <<jobs_, handled>>
          \/ q = "gappy" /\ Answers(r, "failed")
  /\ UNCHANGED <<symbol, reply, todo, train_mutex, base>>

\* At least 300 rows.
Verify(r) ==
  /\ At(r, "verify")
  /\ \/ clean[symbol[r]] # "few" /\ Goes(r, "train") /\ UNCHANGED <<jobs_, handled>>
     \/ clean[symbol[r]] = "few" /\ Answers(r, "failed")
  /\ UNCHANGED <<symbol, reply, todo, train_mutex, clean, base, rewritten>>

\* Mutant: no read timeout.
TrainAwaited(r) ==
  /\ At(r, "await_train") /\ reply[r] # "none"
  /\ \/ reply[r] = "ok" /\ Goes(r, "infer") /\ UNCHANGED <<jobs_, handled>>
     \/ reply[r] # "ok" /\ Answers(r, "failed")
  /\ Took(r)
  /\ UNCHANGED <<symbol, todo, train_mutex, clean, base, rewritten>>

\* The reply to the training, or the end of patience (600 s).
TrainBack(r) ==
  /\ At(r, "await_train")
  /\ \/ reply[r] = "ok" /\ Goes(r, "infer") /\ UNCHANGED <<jobs_, handled>>
     \/ reply[r] # "ok" /\ Answers(r, "failed")
  /\ Took(r)
  /\ UNCHANGED <<symbol, todo, train_mutex, clean, base, rewritten>>

\* The snapshot may fail or be late (60 s): the answer is ok all the same.
InferBack(r) ==
  /\ At(r, "await_infer")
  /\ Answers(r, "ok")
  /\ Took(r)
  /\ UNCHANGED <<symbol, todo, train_mutex, clean, base, rewritten>>

-----------------------------------------------------------------------------
(* POST /api/symbol/prepare                                                *)

\* Mutant: looks for one interval more than there are.
LookPast(r) ==
  /\ At(r, "caches")
  /\ \/ /\ todo' = [todo EXCEPT ![r] = @ - 1]
        /\ UNCHANGED <<jobs_, handled, step>>
     \/ Call(r, "caches", "backfill") /\ UNCHANGED todo
  /\ UNCHANGED <<symbol, reply, train_mutex, clean, base, rewritten>>

\* The next interval: its cache is there, or curl asks for a backfill; a
\* curl that cannot be run matters for the first interval only.
LookAtCache(r) ==
  /\ At(r, "caches") /\ todo[r] > 0
  /\ \/ /\ todo' = [todo EXCEPT ![r] = @ - 1]
        /\ UNCHANGED <<jobs_, handled, step>>
     \/ Call(r, "caches", "backfill") /\ UNCHANGED todo
     \/ todo[r] = Intervals /\ Answers(r, "failed") /\ UNCHANGED todo
  /\ UNCHANGED <<symbol, reply, train_mutex, clean, base, rewritten>>

\* curl is back; what the server said does not matter to it.
CurlBack(r) ==
  /\ r \in Prepares
  /\ reply[r] # "none"
  /\ Moves(r, "await_backfill", "caches")
  /\ todo' = [todo EXCEPT ![r] = @ - 1]
  /\ Took(r)
  /\ UNCHANGED <<jobs_, handled, symbol, train_mutex, clean, base, rewritten>>

CheckModel(r) ==
  /\ At(r, "caches") /\ todo[r] = 0
  /\ \E next \in {"load", "lock"} : Goes(r, next)
  /\ UNCHANGED <<jobs_, handled, symbol, reply, todo, train_mutex, clean, base, rewritten>>

\* run_train_pro_and_save in the handler's own thread.
TrainHere(r) ==
  /\ Moves(r, "lock", "training")
  /\ train_mutex = Nobody
  /\ train_mutex' = TaskOf(r, "handler")
  /\ UNCHANGED <<jobs_, handled, symbol, reply, todo, clean, base, rewritten>>

TrainedHere(r) ==
  /\ At(r, "training")
  /\ train_mutex' = Nobody
  /\ \/ Goes(r, "load") /\ UNCHANGED <<jobs_, handled>>
     \/ Answers(r, "failed")
  /\ UNCHANGED <<symbol, reply, todo, clean, base, rewritten>>

Load(r) ==
  /\ At(r, "load")
  /\ \E verdict \in Answered : Answers(r, verdict)
  /\ UNCHANGED <<symbol, reply, todo, train_mutex, clean, base, rewritten>>

-----------------------------------------------------------------------------
HandlerStep(r) ==
  \/ CallBackfill(r) \/ BackfillBack(r) \/ Clean(r) \/ Gaps(r) \/ Verify(r)
  \/ CallTrain(r) \/ TrainBack(r) \/ CallInfer(r) \/ InferBack(r)
  \/ LookAtCache(r) \/ CurlBack(r) \/ CheckModel(r)
  \/ TrainHere(r) \/ TrainedHere(r) \/ Load(r)

ServeStep(x) == Serve(x) \/ TrainLock(x) \/ TrainEnd(x)

\* A thread goes on with the connection it has.
Handle(x) ==
  /\ x \in handled
  /\ ServeStep(x) \/ (x.part = "handler" /\ HandlerStep(x.req))

Next ==
  \/ \E r \in Requests : Arrive(r)
  \/ TakeUp
  \/ \E x \in Tasks : Handle(x)

\* Threads are scheduled, scripts and called routes end, patience ends;
\* nobody has to send anything.
Spec ==
  /\ Init /\ [][Next]_vars
  /\ WF_vars(TakeUp) /\ \A x \in Tasks : WF_vars(Handle(x))

-----------------------------------------------------------------------------
(* Properties *)

TypeOK ==
  /\ Pool!PoolTypeOK
  /\ step \in [Requests -> Steps]
  /\ symbol \in [Requests -> Symbols \cup {NoSymbol}]
  /\ reply \in [Requests -> {"none", "ok", "error"}]
  /\ todo \in [Requests -> 0..Intervals]
  /\ train_mutex \in Tasks \cup {Nobody}
  /\ clean \in [Symbols -> Quality]
  /\ base \in [Requests -> Quality]
  /\ rewritten \subseteq Pipelines

(* A pipeline answers ok only when the training it waited for read a file  *)
(* without gaps and with enough rows: what was verified is what was        *)
(* trained on, although trainings wait behind a lock, calls of earlier     *)
(* requests may still be running and other requests may prepare the same   *)
(* symbol -- unless one of these changed the file between the last checks  *)
(* and the reading (pipeline.cpp:89-114 and run_train_pro_and_save).       *)
TrainedOnVerified ==
  \A r \in Pipelines : step[r] = "ok" /\ r \notin rewritten => base[r] = "good"

(* No step of a pipeline begins while a call of an earlier step of it is   *)
(* still waiting or running; calls outlive only requests that failed, and  *)
(* the last one a request that is done (pipeline.cpp:75, 114 and 128: a    *)
(* call without a reply ends the request, but for the snapshot).           *)
CallsAreCurrent ==
  \A r \in Pipelines, part \in {"backfill", "train", "infer"} :
    Pool!InPool(TaskOf(r, part)) =>
      \/ step[r] \in {Awaiting(part), "failed"}
      \/ part = "infer" /\ step[r] = "ok"

(* As long as there are fewer prepare requests than threads, everybody is  *)
(* answered in the end and the pool is whole again, abandoned calls        *)
(* included, although pipelines may hold every thread for their calls      *)
(* (read timeouts in pipeline.cpp:72, 112, 125; none in symbol_prepare).   *)
PoolRecovers ==
  Cardinality(Prepares) < Threads =>
    <>[](/\ \A r \in Requests : step[r] \in {"away"} \cup Answered
         /\ jobs_ = <<>> /\ handled = {} /\ train_mutex = Nobody)

==============================================================================
