-------------------------- MODULE PrepareTrainProofs --------------------------
(***************************************************************************)
(* Proofs about the two preparing routes (PrepareTrain), for any number of *)
(* requests, symbols, threads and intervals: the types, that a pipeline's  *)
(* calls never outlive the step that made them unless it has failed, and   *)
(* that a pipeline which answers ok was trained on a verified file unless  *)
(* another one changed the file between its checks and its training.       *)
(***************************************************************************)
EXTENDS PrepareTrain, FiniteSetTheorems, TLAPS

-----------------------------------------------------------------------------
(* The inductive invariant                                                 *)

Calls == {"backfill", "train", "infer"}

PipelineSteps ==
  {"away", "queued", "backfill", "clean", "gaps", "verify", "train", "infer",
   "await_backfill", "await_train", "await_infer"} \cup Answered
PrepareSteps ==
  {"away", "queued", "caches", "await_backfill", "lock", "training", "load"}
  \cup Answered

\* The steps at which the handler has a thread.
Busy == (PipelineSteps \cup PrepareSteps) \ ({"away", "queued"} \cup Answered)

\* Each route goes its own way; who has been sent names a symbol.
Places ==
  /\ \A r \in Pipelines : step[r] \in PipelineSteps
  /\ \A r \in Prepares : step[r] \in PrepareSteps
  /\ \A r \in Requests : step[r] # "away" => symbol[r] \in Symbols

\* No connection is in the pool twice.
Pooled ==
  /\ IsFiniteSet(handled)
  /\ \A i \in 1..Len(jobs_) : jobs_[i] \notin handled
  /\ \A i, j \in 1..Len(jobs_) : jobs_[i] = jobs_[j] => i = j

\* A request is in the pool from its arrival to its answer.
Seats ==
  \A r \in Requests :
    /\ TaskOf(r, "handler") \in handled <=> step[r] \in Busy
    /\ Pool!InPool(TaskOf(r, "handler")) <=> step[r] \in Busy \cup {"queued"}

\* A call in the pool is one its client waits for and has no reply to, or
\* one that a pipeline gave up.
CallsOut ==
  \A r \in Requests, part \in Calls :
    Pool!InPool(TaskOf(r, part)) =>
      \/ step[r] = Awaiting(part) /\ reply[r] = "none"
      \/ r \in Pipelines /\ step[r] = "failed"
      \/ r \in Pipelines /\ step[r] = "ok" /\ part = "infer"

\* A reply lies there only for one who waits for it.
Replies ==
  \A r \in Requests :
    reply[r] # "none" =>
      step[r] \in {"await_backfill", "await_train", "await_infer"}

\* A prepare waits for the cache of an interval that is still to be done.
Counted ==
  \A r \in Prepares : step[r] = "await_backfill" => todo[r] > 0

\* Who has the lock has a thread and is a prepare at its training, or a
\* called training.
Holder ==
  /\ train_mutex # Nobody =>
       train_mutex \in handled /\ train_mutex.part \in {"handler", "train"}
  /\ \A r \in Requests :
       train_mutex = TaskOf(r, "handler") => step[r] = "training"

Orderly ==
  /\ TypeOK /\ Pooled /\ Places /\ Seats /\ CallsOut /\ Replies /\ Counted
  /\ Holder

\* A prepare at its training has the lock.
Locked == \A r \in Requests : step[r] = "training" => train_mutex = TaskOf(r, "handler")

\* What a pipeline knows of its file, and of what its training has read.
Knows(r) ==
  /\ step[r] = "gaps" => clean[symbol[r]] # "none"
  /\ step[r] = "verify" => clean[symbol[r]] \in {"few", "good"}
  /\ Relies(r) /\ step[r] # "verify" => clean[symbol[r]] = "good"
  /\ step[r] = "await_train" /\ ~Relies(r) => base[r] = "good"
  /\ step[r] \in {"infer", "await_infer", "ok"} => base[r] = "good"

Verified == \A r \in Pipelines \ rewritten : Knows(r)

-----------------------------------------------------------------------------
(* The pool                                                                *)

\* A task is the request and the part it names.
LEMMA TasksAreNamed ==
  /\ \A r \in Requests, part \in Parts :
       /\ TaskOf(r, part) \in Tasks
       /\ TaskOf(r, part).req = r /\ TaskOf(r, part).part = part
  /\ \A x \in Tasks :
       x.req \in Requests /\ x.part \in Parts /\ x = TaskOf(x.req, x.part)
  /\ Calls \subseteq Parts /\ "handler" \in Parts \ Calls
  /\ Parts = Calls \cup {"handler"}
BY DEF Tasks, TaskOf, Parts, Calls

\* The pool counts as this module does.
LEMMA SameCardinality ==
  ASSUME NEW S
  PROVE  Pool!Cardinality(S) = Cardinality(S)
BY Zenon DEF Pool!Cardinality, Cardinality

\* A new connection is last in the list and does not disturb the others.
LEMMA Enqueued ==
  ASSUME Pool!PoolTypeOK, Pooled,
         NEW x \in Tasks, ~Pool!InPool(x), Pool!Enqueue(x)
  PROVE  /\ Pool!PoolTypeOK' /\ Pooled'
         /\ handled' = handled
         /\ \A y : Pool!InPool(y)' <=> Pool!InPool(y) \/ y = x
<1>1. /\ jobs_ \in Seq(Tasks) /\ jobs_' = Append(jobs_, x)
      /\ handled' = handled
  BY DEF Pool!PoolTypeOK, Pool!Enqueue
<1>2. /\ jobs_' \in Seq(Tasks) /\ Len(jobs_') = Len(jobs_) + 1
      /\ \A i \in 1..Len(jobs_) : jobs_'[i] = jobs_[i]
      /\ jobs_'[Len(jobs_) + 1] = x
      /\ Len(jobs_) \in Nat
  BY <1>1
<1>3. x \notin handled /\ \A i \in 1..Len(jobs_) : jobs_[i] # x
  BY DEF Pool!InPool
<1>4. Pool!PoolTypeOK'
  BY <1>1, <1>2 DEF Pool!PoolTypeOK
<1>5. Pooled'
  BY <1>1, <1>2, <1>3 DEF Pooled
<1>6. \A y : Pool!InPool(y)' <=> Pool!InPool(y) \/ y = x
  BY <1>1, <1>2 DEF Pool!InPool
<1> QED
  BY <1>1, <1>4, <1>5, <1>6

\* A thread takes the oldest connection: it stays in the pool.
LEMMA TakenUp ==
  ASSUME Pool!PoolTypeOK, Pooled, Pool!TakesUp
  PROVE  /\ Pool!PoolTypeOK' /\ Pooled'
         /\ Head(jobs_) \in Tasks \ handled
         /\ Pool!InPool(Head(jobs_))
         /\ handled' = handled \cup {Head(jobs_)}
         /\ \A y : Pool!InPool(y)' <=> Pool!InPool(y)
<1> DEFINE x == Head(jobs_)
<1>1. /\ jobs_ \in Seq(Tasks) /\ jobs_ # <<>> /\ jobs_' = Tail(jobs_)
      /\ handled' = handled \cup {x} /\ handled \subseteq Tasks
      /\ Cardinality(handled) < Threads
  BY SameCardinality DEF Pool!PoolTypeOK, Pool!TakesUp
<1>2. /\ jobs_' \in Seq(Tasks) /\ Len(jobs_) \in Nat \ {0}
      /\ Len(jobs_') = Len(jobs_) - 1
      /\ \A i \in 1..Len(jobs_) - 1 : jobs_'[i] = jobs_[i + 1]
      /\ x = jobs_[1] /\ x \in Tasks
  BY <1>1
<1> HIDE DEF x
<1>3. x \notin handled
  BY <1>2 DEF Pooled
<1>4. IsFiniteSet(handled') /\ Cardinality(handled') = Cardinality(handled) + 1
  BY <1>1, <1>3, FS_AddElement DEF Pooled
<1>5. Cardinality(handled) \in Nat /\ Threads \in Nat
  BY FS_CardinalityType, PrepareConstants DEF Pooled
<1>6. Pool!PoolTypeOK'
  BY <1>1, <1>2, <1>4, <1>5, SameCardinality DEF Pool!PoolTypeOK
<1>7. Pooled'
  <2>1. \A i \in 1..Len(jobs_') : i + 1 \in 1..Len(jobs_) /\ i + 1 # 1
    BY <1>2
  <2>2. \A i \in 1..Len(jobs_') : jobs_'[i] \notin handled'
    BY <1>1, <1>2, <2>1 DEF Pooled
  <2>3. \A i, j \in 1..Len(jobs_') : jobs_'[i] = jobs_'[j] => i = j
    BY <1>2, <2>1 DEF Pooled
  <2> QED
    BY <1>4, <2>2, <2>3 DEF Pooled
<1>8. \A y : Pool!InPool(y)' <=> Pool!InPool(y)
  <2> SUFFICES ASSUME NEW y
               PROVE  Pool!InPool(y)' <=> Pool!InPool(y)
    OBVIOUS
  <2>1. ASSUME Pool!InPool(y)' PROVE Pool!InPool(y)
    BY <1>1, <1>2, <2>1 DEF Pool!InPool
  <2>2. ASSUME NEW i \in 1..Len(jobs_), jobs_[i] = y, i # 1
        PROVE  \E j \in 1..Len(jobs_') : jobs_'[j] = y
    <3>1. i - 1 \in 1..Len(jobs_') /\ jobs_'[i - 1] = jobs_[i]
      BY <1>2, <2>2
    <3> QED
      BY <3>1, <2>2
  <2>3. ASSUME Pool!InPool(y) PROVE Pool!InPool(y)'
    BY <1>1, <1>2, <2>2, <2>3 DEF Pool!InPool
  <2> QED
    BY <2>1, <2>3
<1>9. Pool!InPool(x)
  BY <1>2 DEF Pool!InPool
<1> QED
  BY <1>1, <1>2, <1>3, <1>6, <1>7, <1>8, <1>9 DEF x

\* An answered connection is gone: it was in the pool once.
LEMMA HasLeft ==
  ASSUME Pool!PoolTypeOK, Pooled, NEW x, Pool!Leaves(x)
  PROVE  /\ Pool!PoolTypeOK' /\ Pooled'
         /\ x \in handled /\ handled' = handled \ {x}
         /\ \A y : Pool!InPool(y)' <=> Pool!InPool(y) /\ y # x
<1>1. x \in handled /\ handled' = handled \ {x} /\ jobs_' = jobs_
  BY DEF Pool!Leaves
<1>2. IsFiniteSet(handled') /\ Cardinality(handled') = Cardinality(handled) - 1
  BY <1>1, FS_RemoveElement DEF Pooled
<1>3. Cardinality(handled) \in Nat /\ Threads \in Nat
  BY FS_CardinalityType, PrepareConstants DEF Pooled
<1>4. Pool!PoolTypeOK'
  BY <1>1, <1>2, <1>3, SameCardinality DEF Pool!PoolTypeOK
<1>5. Pooled'
  BY <1>1, <1>2 DEF Pooled
<1>6. \A y : Pool!InPool(y)' <=> Pool!InPool(y) /\ y # x
  BY <1>1 DEF Pool!InPool, Pooled
<1> QED
  BY <1>1, <1>4, <1>5, <1>6

LEMMA PoolQuiet ==
  ASSUME Pool!PoolTypeOK, Pooled, UNCHANGED <<jobs_, handled>>
  PROVE  /\ Pool!PoolTypeOK' /\ Pooled' /\ handled' = handled
         /\ \A y : Pool!InPool(y)' <=> Pool!InPool(y)
BY DEF Pool!PoolTypeOK, Pooled, Pool!InPool

-----------------------------------------------------------------------------
(* Every step keeps order                                                  *)

LEMMA StepNames ==
  /\ Awaiting("backfill") = "await_backfill"
  /\ Awaiting("train") = "await_train" /\ Awaiting("infer") = "await_infer"
  /\ \A part \in Calls :
       Awaiting(part) \in {"await_backfill", "await_train", "await_infer"}
  /\ PipelineSteps \cup PrepareSteps \subseteq Steps
  /\ Busy \subseteq Steps /\ Answered \subseteq Steps
BY DEF Awaiting, Calls, PipelineSteps, PrepareSteps, Busy, Steps, Answered

\* The parts of the invariant that are about a request and its tasks, for
\* the three things a handler's step can do to the pool.
Ledger == Places /\ Seats /\ CallsOut /\ Replies

\* The handler goes on; if it waited for a call, it has the reply.
LEMMA GoesOn ==
  ASSUME Orderly, NEW r \in Requests, step[r] \in Busy,
         NEW to \in Busy, Goes(r, to), UNCHANGED <<jobs_, handled, symbol>>,
         r \in Pipelines => to \in PipelineSteps,
         r \in Prepares => to \in PrepareSteps,
         \A part \in Calls : to # Awaiting(part),
         \/ reply' = reply /\ \A part \in Calls : step[r] # Awaiting(part)
         \/ reply' = [reply EXCEPT ![r] = "none"] /\ reply[r] # "none"
  PROVE  /\ Ledger' /\ Pool!PoolTypeOK' /\ Pooled'
         /\ step' \in [Requests -> Steps]
         /\ UNCHANGED todo => Counted'
         /\ step[r] # "training" /\ UNCHANGED train_mutex => Holder'
<1> USE DEF Orderly
<1>1. /\ handled' = handled /\ Pool!PoolTypeOK' /\ Pooled'
      /\ \A y : Pool!InPool(y)' <=> Pool!InPool(y)
  BY PoolQuiet DEF TypeOK
<1>2. /\ step' = [step EXCEPT ![r] = to] /\ step \in [Requests -> Steps]
      /\ reply \in [Requests -> {"none", "ok", "error"}]
      /\ symbol' = symbol
  BY DEF Goes, TypeOK
<1>3. Places'
  BY <1>2 DEF Places, Busy, Requests
<1>4. Seats'
  BY <1>1, <1>2 DEF Seats
<1>5. CallsOut'
  BY <1>1, <1>2 DEF CallsOut, Busy, Answered
<1>6. Replies'
  BY <1>2 DEF Replies, Calls, Awaiting
<1>7. step' \in [Requests -> Steps]
  BY <1>2, StepNames
<1>8. UNCHANGED todo => Counted'
  BY <1>2, StepNames DEF Counted, Requests, Calls
<1>9. step[r] # "training" /\ UNCHANGED train_mutex => Holder'
  BY <1>1, <1>2 DEF Holder
<1> QED
  BY <1>1, <1>3, <1>4, <1>5, <1>6, <1>7, <1>8, <1>9 DEF Ledger

\* The handler answers.  If a call of it is still in the pool, it is a
\* pipeline that fails, or one that did not get its snapshot.
LEMMA GoesAway ==
  ASSUME Orderly, NEW r \in Requests, step[r] \in Busy,
         NEW verdict \in Answered, Answers(r, verdict), UNCHANGED symbol,
         \/ reply' = reply /\ \A part \in Calls : step[r] # Awaiting(part)
         \/ reply' = [reply EXCEPT ![r] = "none"],
         \/ \A part \in Calls : step[r] # Awaiting(part)
         \/ r \in Pipelines /\ verdict = "failed"
         \/ r \in Pipelines /\ step[r] = "await_infer"
  PROVE  /\ Ledger' /\ Pool!PoolTypeOK' /\ Pooled'
         /\ step' \in [Requests -> Steps]
         /\ UNCHANGED todo => Counted'
         /\ step[r] # "training" /\ UNCHANGED train_mutex => Holder'
<1> USE DEF Orderly
<1> DEFINE x == TaskOf(r, "handler")
<1>1. /\ handled' = handled \ {x} /\ Pool!PoolTypeOK' /\ Pooled'
      /\ \A y : Pool!InPool(y)' <=> Pool!InPool(y) /\ y # x
  BY HasLeft DEF TypeOK, Answers
<1>2. /\ step' = [step EXCEPT ![r] = verdict] /\ step \in [Requests -> Steps]
      /\ reply \in [Requests -> {"none", "ok", "error"}]
      /\ symbol' = symbol
  BY DEF Goes, TypeOK, Answers
<1>3. \A q \in Requests : q # r => TaskOf(q, "handler") # x
  BY DEF TaskOf
<1> HIDE DEF x
<1>4. Places'
  BY <1>2 DEF Places, Busy, Requests, PipelineSteps, PrepareSteps
<1>5. Seats'
  BY <1>1, <1>2, <1>3 DEF Seats, Busy, Answered, x
<1>6. CallsOut'
  <2>1. \A q \in Requests, part \in Calls :
          /\ Pool!InPool(TaskOf(q, part))' => Pool!InPool(TaskOf(q, part))
          /\ q # r => step'[q] = step[q] /\ reply'[q] = reply[q]
    BY <1>1, <1>2
  <2>2. \A part \in Calls :
          Pool!InPool(TaskOf(r, part)) =>
            \/ r \in Pipelines /\ verdict = "failed"
            \/ r \in Pipelines /\ verdict = "ok" /\ part = "infer"
    BY DEF CallsOut, Busy, Answered, Awaiting, Calls
  <2> QED
    BY <1>2, <2>1, <2>2 DEF CallsOut
<1>7. Replies'
  BY <1>2 DEF Replies, Calls, Awaiting
<1>8. step' \in [Requests -> Steps]
  BY <1>2, StepNames
<1>9. UNCHANGED todo => Counted'
  BY <1>2 DEF Counted, Requests, Answered
<1>10. step[r] # "training" /\ UNCHANGED train_mutex => Holder'
  BY <1>1, <1>2 DEF Holder, x
<1> QED
  BY <1>1, <1>4, <1>5, <1>6, <1>7, <1>8, <1>9, <1>10 DEF Ledger

\* The handler calls; nothing of it but itself was in the pool.
LEMMA GoesWaiting ==
  ASSUME Orderly, NEW r \in Requests, step[r] \in Busy,
         \A part \in Calls : step[r] # Awaiting(part),
         NEW call \in Calls, Goes(r, Awaiting(call)),
         Pool!Enqueue(TaskOf(r, call)), UNCHANGED <<symbol, reply>>,
         r \in Prepares => call = "backfill"
  PROVE  /\ Ledger' /\ Pool!PoolTypeOK' /\ Pooled' /\ handled' = handled
<1> USE DEF Orderly
<1> DEFINE x == TaskOf(r, call)
<1>1. x \in Tasks /\ ~Pool!InPool(x)
  BY TasksAreNamed DEF CallsOut, Busy, Answered
<1>2. /\ handled' = handled /\ Pool!PoolTypeOK' /\ Pooled'
      /\ \A y : Pool!InPool(y)' <=> Pool!InPool(y) \/ y = x
  BY <1>1, Enqueued DEF TypeOK
<1>3. /\ step' = [step EXCEPT ![r] = Awaiting(call)]
      /\ step \in [Requests -> Steps]
      /\ reply' = reply
      /\ symbol' = symbol
      /\ Awaiting(call) \in {"await_backfill", "await_train", "await_infer"}
  BY DEF Goes, TypeOK, Calls, Awaiting
<1>4. \A q \in Requests, part \in Parts :
        TaskOf(q, part) = x => q = r /\ part = call
  BY DEF TaskOf
<1>5. reply[r] = "none"
  BY DEF Replies, Calls, Awaiting
<1> HIDE DEF x
<1>6. Places'
  BY <1>3 DEF Places, Busy, Requests, PipelineSteps, PrepareSteps, Awaiting
<1>7. Seats'
  <2>1. "handler" \in Parts /\ call # "handler"
    BY DEF Parts, Calls
  <2>2. Awaiting(call) \in Busy
    BY <1>3 DEF Busy, Answered, PipelineSteps
  <2> QED
    BY <1>2, <1>3, <1>4, <2>1, <2>2 DEF Seats
<1>8. CallsOut'
  <2>1. Calls \subseteq Parts
    BY DEF Parts, Calls
  <2>2. \A part \in Calls : Pool!InPool(TaskOf(r, part))' => part = call
    BY <1>2, <1>4, <2>1 DEF CallsOut, Busy, Answered
  <2> QED
    BY <1>2, <1>3, <1>4, <1>5, <2>1, <2>2 DEF CallsOut
<1>9. Replies'
  BY <1>3, <1>5 DEF Replies
<1> QED
  BY <1>2, <1>6, <1>7, <1>8, <1>9 DEF Ledger

LEMMA CallKeepsOrder ==
  ASSUME Orderly, NEW r \in Requests, step[r] \in Busy,
         CallBackfill(r) \/ CallTrain(r) \/ CallInfer(r)
  PROVE  Orderly'
<1> USE DEF Orderly
<1> DEFINE Calling(from, call) ==
             /\ call \in Calls /\ At(r, from) /\ Goes(r, Awaiting(call))
             /\ Pool!Enqueue(TaskOf(r, call))
             /\ from \in {"backfill", "train", "infer"}
             /\ UNCHANGED <<symbol, reply, todo, train_mutex, clean, base, rewritten>>
<1>1. \E from, call : Calling(from, call)
  <2>1. CASE CallBackfill(r)
    <3>1. Calling("backfill", "backfill")
      BY <2>1 DEF CallBackfill, Call, Moves, Calls
    <3> QED
      BY <3>1
  <2>2. CASE CallTrain(r)
    <3>1. Calling("train", "train")
      BY <2>2 DEF CallTrain, Call, Moves, Calls
    <3> QED
      BY <3>1
  <2>3. CASE CallInfer(r)
    <3>1. Calling("infer", "infer")
      BY <2>3 DEF CallInfer, Call, Moves, Calls
    <3> QED
      BY <3>1
  <2> QED
    BY <2>1, <2>2, <2>3
<1>2. PICK from, call : Calling(from, call)
  BY <1>1
<1>3. r \in Pipelines /\ r \notin Prepares /\ step[r] = from
  BY <1>2, PrepareConstants
     DEF Places, PrepareSteps, Answered, At, Requests
<1>4. Ledger' /\ Pool!PoolTypeOK' /\ Pooled' /\ handled' = handled
  BY <1>2, <1>3, GoesWaiting, StepNames DEF At
<1>5. TypeOK'
  BY <1>2, <1>4, StepNames DEF TypeOK, Goes, Steps
<1>6. Counted'
  BY <1>2, <1>3 DEF Counted, Goes, TypeOK
<1>7. Holder'
  BY <1>2, <1>3, <1>4 DEF Holder, Goes, TypeOK
<1> QED
  BY <1>4, <1>5, <1>6, <1>7 DEF Ledger

LEMMA ScriptKeepsOrder ==
  ASSUME Orderly, NEW r \in Requests, step[r] \in Busy,
         Clean(r) \/ Gaps(r) \/ Verify(r)
  PROVE  Orderly'
<1> USE DEF Orderly
<1>1. PICK to \in {"gaps", "verify", "train", "failed"} :
        /\ step[r] \in {"clean", "gaps", "verify"}
        /\ \/ to # "failed" /\ Goes(r, to) /\ UNCHANGED <<jobs_, handled>>
           \/ to = "failed" /\ Answers(r, to)
  BY Zenon DEF Clean, Gaps, Verify, At
<1>2. /\ clean' \in [Symbols -> Quality]
      /\ rewritten' \subseteq Pipelines
      /\ UNCHANGED <<symbol, reply, todo, train_mutex, base>>
  <2>1. \A q \in Quality : [clean EXCEPT ![symbol[r]] = q] \in [Symbols -> Quality]
    BY DEF TypeOK
  <2>2. clean[symbol[r]] \in Quality
    BY DEF TypeOK, Places, Busy
  <2> QED
    BY <2>1, <2>2 DEF Clean, Gaps, Verify, Leave, Quality, TypeOK
<1>3. r \in Pipelines /\ r \notin Prepares
  BY <1>1, PrepareConstants DEF Places, PrepareSteps, Answered, Requests
<1>4. \A part \in Calls : step[r] # Awaiting(part) /\ to # Awaiting(part)
  BY <1>1, StepNames
<1>5. Ledger' /\ Pool!PoolTypeOK' /\ Pooled' /\ Counted' /\ Holder'
      /\ step' \in [Requests -> Steps]
  <2>1. CASE to # "failed"
    BY <1>1, <1>2, <1>3, <1>4, <2>1, GoesOn DEF Busy, PipelineSteps, Answered
  <2>2. CASE to = "failed"
    BY <1>1, <1>2, <1>3, <1>4, <2>2, GoesAway DEF Answered
  <2> QED
    BY <2>1, <2>2
<1> QED
  BY <1>2, <1>5 DEF Ledger, TypeOK

LEMMA ReplyKeepsOrder ==
  ASSUME Orderly, NEW r \in Requests, step[r] \in Busy,
         (r \in Pipelines /\ BackfillBack(r)) \/ TrainBack(r) \/ InferBack(r)
  PROVE  Orderly'
<1> USE DEF Orderly
<1>1. PICK to \in {"clean", "infer", "failed", "ok"} :
        /\ step[r] \in {"await_backfill", "await_train", "await_infer"}
        /\ \/ /\ to \in {"clean", "infer"}
              /\ Goes(r, to) /\ UNCHANGED <<jobs_, handled>>
              /\ reply[r] = "ok"
           \/ to = "failed" /\ Answers(r, to)
           \/ to = "ok" /\ Answers(r, to) /\ step[r] = "await_infer"
  BY Zenon DEF BackfillBack, TrainBack, InferBack, At
<1>2. /\ reply' = [reply EXCEPT ![r] = "none"]
      /\ UNCHANGED <<symbol, todo, train_mutex, clean, base, rewritten>>
  BY Zenon DEF BackfillBack, TrainBack, InferBack, Took
<1>3. r \in Pipelines /\ r \notin Prepares
  BY PrepareConstants
     DEF Places, PrepareSteps, Answered, Requests, TrainBack, InferBack, At
<1>4. \A part \in Calls : to # Awaiting(part)
  BY <1>1, StepNames
<1>5. Ledger' /\ Pool!PoolTypeOK' /\ Pooled' /\ Counted' /\ Holder'
      /\ step' \in [Requests -> Steps]
  <2>1. CASE to \in {"clean", "infer"}
    BY <1>1, <1>2, <1>3, <1>4, <2>1, GoesOn DEF Busy, PipelineSteps, Answered
  <2>2. CASE to = "failed"
    BY <1>1, <1>2, <1>3, <2>2, GoesAway DEF Answered
  <2>3. CASE to = "ok"
    BY <1>1, <1>2, <1>3, <2>3, GoesAway DEF Answered
  <2> QED
    BY <1>1, <2>1, <2>2, <2>3
<1> QED
  BY <1>2, <1>5 DEF Ledger, TypeOK

\* The steps of a prepare that go on or answer without a call.
LEMMA PrepareKeepsOrder ==
  ASSUME Orderly, NEW r \in Requests, TaskOf(r, "handler") \in handled,
         step[r] \in Busy,
         \/ CheckModel(r) \/ TrainHere(r) \/ TrainedHere(r) \/ Load(r)
  PROVE  Orderly'
<1> USE DEF Orderly
<1>1. PICK to \in {"load", "lock", "training", "ok", "failed"} :
        /\ step[r] \in {"caches", "lock", "training", "load"}
        /\ \/ to \notin Answered /\ Goes(r, to) /\ UNCHANGED <<jobs_, handled>>
           \/ to \in Answered /\ Answers(r, to)
  BY Zenon DEF CheckModel, TrainHere, TrainedHere, Load, At, Moves, Answered
<1>2. UNCHANGED <<symbol, reply, todo, clean, base, rewritten>>
  BY Zenon DEF CheckModel, TrainHere, TrainedHere, Load
<1>3. r \in Prepares /\ r \notin Pipelines
  BY <1>1, PrepareConstants DEF Places, PipelineSteps, Answered, Requests
<1>4. \A part \in Calls : step[r] # Awaiting(part) /\ to # Awaiting(part)
  BY <1>1, StepNames
<1>5. /\ Ledger' /\ Pool!PoolTypeOK' /\ Pooled' /\ Counted'
      /\ step' \in [Requests -> Steps]
      /\ step[r] # "training" /\ UNCHANGED train_mutex => Holder'
  <2>1. CASE to \notin Answered
    BY <1>1, <1>2, <1>3, <1>4, <2>1, GoesOn DEF Busy, PrepareSteps, Answered
  <2>2. CASE to \in Answered
    BY <1>1, <1>2, <1>3, <1>4, <2>2, GoesAway DEF Answered
  <2> QED
    BY <2>1, <2>2
<1>6. Holder' /\ train_mutex' \in Tasks \cup {Nobody}
  <2>1. CASE TrainHere(r)
    <3>1. /\ train_mutex' = TaskOf(r, "handler") /\ handled' = handled
          /\ step' = [step EXCEPT ![r] = "training"]
      BY <2>1 DEF TrainHere, Moves, Goes
    <3>2. \A q \in Requests : TaskOf(q, "handler") = TaskOf(r, "handler") => q = r
      BY TasksAreNamed
    <3> QED
      BY <3>1, <3>2, TasksAreNamed DEF Holder, TypeOK
  <2>2. CASE TrainedHere(r)
    BY <2>2, TasksAreNamed, PrepareConstants DEF TrainedHere, Holder
  <2>3. CASE CheckModel(r) \/ Load(r)
    <3>1. step[r] # "training" /\ train_mutex' = train_mutex
      BY <2>3 DEF CheckModel, Load, At
    <3>2. train_mutex \in Tasks \cup {Nobody}
      BY DEF TypeOK
    <3> QED
      BY <3>1, <3>2, <1>5
  <2> QED
    BY <2>1, <2>2, <2>3
<1>7. TypeOK'
  BY <1>2, <1>5, <1>6 DEF TypeOK
<1> QED
  BY <1>5, <1>6, <1>7 DEF Ledger

LEMMA CachesKeepOrder ==
  ASSUME Orderly, NEW r \in Requests, step[r] \in Busy,
         LookAtCache(r) \/ CurlBack(r)
  PROVE  Orderly'
<1> USE DEF Orderly
<1>1. CASE LookAtCache(r)
  <2>1. /\ step[r] = "caches" /\ todo[r] > 0
        /\ UNCHANGED <<symbol, reply, train_mutex, clean, base, rewritten>>
    BY <1>1 DEF LookAtCache, At
  <2>2. r \in Prepares /\ r \notin Pipelines
    BY <2>1, PrepareConstants DEF Places, PipelineSteps, Answered, Requests
  <2>3. \A part \in Calls : step[r] # Awaiting(part)
    BY <2>1, StepNames
  <2>4. CASE /\ todo' = [todo EXCEPT ![r] = @ - 1]
             /\ UNCHANGED <<jobs_, handled, step>>
    <3>1. /\ Pool!PoolTypeOK' /\ Pooled' /\ handled' = handled
          /\ \A y : Pool!InPool(y)' <=> Pool!InPool(y)
      BY <2>4, PoolQuiet DEF TypeOK
    <3>2. todo[r] \in 0..Intervals /\ todo \in [Requests -> 0..Intervals]
      BY DEF TypeOK
    <3>3. todo' \in [Requests -> 0..Intervals]
      BY <2>1, <2>4, <3>2, PrepareConstants
    <3>4. TypeOK'
      BY <2>1, <2>4, <3>1, <3>3 DEF TypeOK
    <3>5. Places' /\ Replies' /\ Holder'
      BY <2>1, <2>4, <3>1 DEF Places, Replies, Holder
    <3>6. Seats' /\ CallsOut'
      BY <2>1, <2>4, <3>1 DEF Seats, CallsOut
    <3>7. Counted'
      BY <2>1, <2>4, <3>2 DEF Counted, Requests
    <3> QED
      BY <3>1, <3>4, <3>5, <3>6, <3>7
  <2>5. CASE Call(r, "caches", "backfill") /\ UNCHANGED todo
    <3>1. /\ Goes(r, Awaiting("backfill")) /\ "backfill" \in Calls
          /\ Pool!Enqueue(TaskOf(r, "backfill"))
      BY <2>5 DEF Call, Moves, Calls
    <3>2. Ledger' /\ Pool!PoolTypeOK' /\ Pooled' /\ handled' = handled
      BY <3>1, <2>1, <2>2, <2>3, GoesWaiting
    <3>3. TypeOK'
      BY <2>1, <2>5, <3>1, <3>2, StepNames DEF TypeOK, Goes, Steps
    <3>4. Counted' /\ Holder'
      BY <2>1, <2>5, <3>1, <3>2 DEF Counted, Holder, Goes, TypeOK
    <3> QED
      BY <3>2, <3>3, <3>4 DEF Ledger
  <2>6. CASE todo[r] = Intervals /\ Answers(r, "failed") /\ UNCHANGED todo
    <3>1. Ledger' /\ Pool!PoolTypeOK' /\ Pooled' /\ Counted' /\ Holder'
          /\ step' \in [Requests -> Steps]
      BY <2>1, <2>2, <2>3, <2>6, GoesAway DEF Answered
    <3> QED
      BY <2>1, <2>6, <3>1 DEF Ledger, TypeOK
  <2> QED
    BY <1>1, <2>4, <2>5, <2>6 DEF LookAtCache
<1>2. CASE CurlBack(r)
  <2>1. /\ r \in Prepares /\ reply[r] # "none" /\ step[r] = "await_backfill"
        /\ Goes(r, "caches")
        /\ todo' = [todo EXCEPT ![r] = @ - 1]
        /\ reply' = [reply EXCEPT ![r] = "none"]
        /\ UNCHANGED <<jobs_, handled, symbol, train_mutex, clean, base, rewritten>>
    BY <1>2 DEF CurlBack, Moves, At, Took
  <2>2. r \notin Pipelines /\ \A part \in Calls : "caches" # Awaiting(part)
    BY <2>1, PrepareConstants, StepNames
  <2>3. Ledger' /\ Pool!PoolTypeOK' /\ Pooled' /\ step' \in [Requests -> Steps]
        /\ Holder'
    BY <2>1, <2>2, GoesOn DEF Busy, PrepareSteps, Answered
  <2>4. todo[r] \in 0..Intervals /\ todo[r] > 0
        /\ todo \in [Requests -> 0..Intervals]
    BY <2>1 DEF TypeOK, Counted
  <2>5. todo' \in [Requests -> 0..Intervals]
    BY <2>1, <2>4, PrepareConstants
  <2>6. TypeOK'
    BY <2>1, <2>3, <2>5 DEF TypeOK
  <2>7. Counted'
    BY <2>1, <2>4 DEF Counted, Goes, TypeOK, Requests
  <2> QED
    BY <2>3, <2>6, <2>7 DEF Ledger
<1> QED
  BY <1>1, <1>2

\* A request arrives.
LEMMA ArrivalKeepsOrder ==
  ASSUME Orderly, NEW r \in Requests, Arrive(r)
  PROVE  Orderly'
<1> USE DEF Orderly
<1> DEFINE x == TaskOf(r, "handler")
<1>1. PICK s \in Symbols : symbol' = [symbol EXCEPT ![r] = s]
  BY DEF Arrive
<1>2. /\ step[r] = "away" /\ step' = [step EXCEPT ![r] = "queued"]
      /\ Pool!Enqueue(x)
      /\ UNCHANGED <<reply, todo, train_mutex, clean, base, rewritten>>
  BY DEF Arrive, Moves, At, Goes
<1>3. x \in Tasks /\ ~Pool!InPool(x)
  BY <1>2, TasksAreNamed DEF Seats, Busy
<1>4. /\ Pool!PoolTypeOK' /\ Pooled' /\ handled' = handled
      /\ \A y : Pool!InPool(y)' <=> Pool!InPool(y) \/ y = x
  BY <1>2, <1>3, Enqueued DEF TypeOK
<1>5. \A q \in Requests, part \in Parts :
        TaskOf(q, part) = x => q = r /\ part = "handler"
  BY DEF TaskOf
<1> HIDE DEF x
<1>6. TypeOK'
  BY <1>1, <1>2, <1>4 DEF TypeOK, Steps
<1>7. Places'
  BY <1>1, <1>2 DEF Places, TypeOK, Requests, PipelineSteps, PrepareSteps
<1>8. Seats'
  <2>1. "queued" \notin Busy /\ "away" \notin Busy /\ "handler" \in Parts
    BY DEF Busy, Parts
  <2>2. TaskOf(r, "handler") = x
    BY DEF x
  <2> QED
    BY <1>2, <1>4, <1>5, <2>1, <2>2 DEF Seats, TypeOK
<1>9. CallsOut'
  <2>1. \A q \in Requests, part \in Calls :
          Pool!InPool(TaskOf(q, part))' => Pool!InPool(TaskOf(q, part))
    BY <1>4, <1>5, TasksAreNamed
  <2>2. \A part \in Calls : ~Pool!InPool(TaskOf(r, part))
    BY <1>2, StepNames DEF CallsOut
  <2> QED
    BY <1>2, <2>1, <2>2 DEF CallsOut, TypeOK
<1>10. Replies' /\ Counted'
  BY <1>2 DEF Replies, Counted, TypeOK
<1>11. Holder'
  BY <1>2, <1>4 DEF Holder, TypeOK
<1> QED
  BY <1>4, <1>6, <1>7, <1>8, <1>9, <1>10, <1>11

\* A thread takes up the oldest connection.
LEMMA TakingUpKeepsOrder ==
  ASSUME Orderly, TakeUp
  PROVE  Orderly'
<1> USE DEF Orderly
<1> DEFINE x == Head(jobs_)
<1>1. /\ Pool!PoolTypeOK' /\ Pooled' /\ x \in Tasks \ handled /\ Pool!InPool(x)
      /\ handled' = handled \cup {x}
      /\ \A y : Pool!InPool(y)' <=> Pool!InPool(y)
  BY TakenUp DEF TypeOK, TakeUp
<1>2. /\ IF x.part # "handler" THEN UNCHANGED step
         ELSE Goes(x.req, IF x.req \in Pipelines THEN "backfill" ELSE "caches")
      /\ UNCHANGED <<symbol, reply, todo, train_mutex, clean, base, rewritten>>
  BY DEF TakeUp
<1> HIDE DEF x
<1>3. x.req \in Requests /\ x.part \in Parts /\ x = TaskOf(x.req, x.part)
  BY <1>1, TasksAreNamed
<1>4. CASE x.part # "handler"
  <2>1. step' = step
    BY <1>2, <1>4
  <2>2. \A r \in Requests : TaskOf(r, "handler") # x
    BY <1>4, TasksAreNamed
  <2>3. TypeOK' /\ Places' /\ Replies' /\ Counted' /\ Holder'
    BY <1>1, <1>2, <2>1 DEF TypeOK, Places, Replies, Counted, Holder
  <2>4. Seats' /\ CallsOut'
    BY <1>1, <1>2, <2>1, <2>2 DEF Seats, CallsOut
  <2> QED
    BY <1>1, <2>3, <2>4
<1>5. CASE x.part = "handler"
  <2> DEFINE r == x.req
  <2>1. r \in Requests /\ x = TaskOf(r, "handler")
    BY <1>3, <1>5
  <2>2. PICK to \in {"backfill", "caches"} :
          /\ step' = [step EXCEPT ![r] = to]
          /\ r \in Pipelines => to = "backfill"
          /\ r \notin Pipelines => to = "caches"
    BY <1>2, <1>5 DEF Goes
  <2> HIDE DEF r
  <2>3. step[r] = "queued"
    BY <1>1, <2>1 DEF Seats
  <2>4. \A q \in Requests : TaskOf(q, "handler") = x => q = r
    BY <2>1, TasksAreNamed
  <2>5. TypeOK'
    BY <1>1, <1>2, <2>2 DEF TypeOK, Steps
  <2>6. Places'
    <3>1. r \notin Pipelines \/ r \notin Prepares
      BY PrepareConstants
    <3> QED
      BY <1>2, <2>1, <2>2, <2>3, <3>1
         DEF Places, TypeOK, Requests, PipelineSteps, PrepareSteps
  <2>7. Seats'
    <3>1. to \in Busy /\ "queued" \notin Busy
      BY DEF Busy, PipelineSteps, PrepareSteps, Answered
    <3> QED
      BY <1>1, <2>1, <2>2, <2>3, <2>4, <3>1 DEF Seats, TypeOK
  <2>8. CallsOut'
    <3>1. \A part \in Calls : ~Pool!InPool(TaskOf(r, part))
      BY <2>1, <2>3, StepNames DEF CallsOut
    <3> QED
      BY <1>1, <1>2, <2>2, <3>1 DEF CallsOut, TypeOK
  <2>9. Replies' /\ Counted' /\ Holder'
    BY <1>1, <1>2, <2>2, <2>3 DEF Replies, Counted, Holder, TypeOK
  <2> QED
    BY <1>1, <2>5, <2>6, <2>7, <2>8, <2>9
<1> QED
  BY <1>4, <1>5

\* The work of a called route.
LEMMA ServingKeepsOrder ==
  ASSUME Orderly, NEW x \in Tasks, x \in handled,
         Serve(x) \/ TrainLock(x) \/ TrainEnd(x)
  PROVE  Orderly'
<1> USE DEF Orderly
<1> DEFINE r == x.req
           part == x.part
<1>1. /\ r \in Requests /\ part \in Calls /\ x = TaskOf(r, part)
      /\ \A q \in Requests : TaskOf(q, "handler") # x
  BY TasksAreNamed DEF Serve, TrainLock, TrainEnd, Calls
<1>2. UNCHANGED <<step, symbol, todo, clean, rewritten>>
  BY Zenon DEF Serve, TrainLock, TrainEnd
<1>3. Pool!InPool(x)
  BY DEF Pool!InPool
<1>4. CASE TrainLock(x)
  <2>1. /\ train_mutex = Nobody /\ train_mutex' = x /\ x.part = "train"
        /\ base' = [base EXCEPT ![r] = clean[symbol[r]]]
        /\ UNCHANGED <<jobs_, handled, reply>>
    BY <1>4 DEF TrainLock
  <2>2. /\ Pool!PoolTypeOK' /\ Pooled' /\ handled' = handled
        /\ \A y : Pool!InPool(y)' <=> Pool!InPool(y)
    BY <2>1, PoolQuiet DEF TypeOK
  <2> HIDE DEF r, part
  <2>3. symbol[r] \in Symbols
    <3>1. step[r] # "away"
      BY <1>1, <1>3, StepNames DEF CallsOut, Answered
    <3> QED
      BY <1>1, <3>1 DEF Places
  <2>4. TypeOK'
    BY <1>1, <1>2, <2>1, <2>2, <2>3 DEF TypeOK
  <2>5. Places' /\ Replies' /\ Counted'
    BY <1>2, <2>1 DEF Places, Replies, Counted
  <2>6. Seats' /\ CallsOut'
    BY <1>2, <2>1, <2>2 DEF Seats, CallsOut
  <2>7. Holder'
    BY <1>1, <1>2, <2>1, <2>2 DEF Holder
  <2> QED
    BY <2>2, <2>4, <2>5, <2>6, <2>7
<1>5. CASE Serve(x) \/ TrainEnd(x)
  <2>1. PICK how \in {"ok", "error"} : Serves(x, how)
    BY <1>5, Zenon DEF Serve, TrainEnd
  <2>2. /\ Pool!Leaves(x)
        /\ reply' = IF step[r] = Awaiting(part)
                    THEN [reply EXCEPT ![r] = how] ELSE reply
    BY <2>1 DEF Serves, At
  <2>3. /\ Pool!PoolTypeOK' /\ Pooled' /\ handled' = handled \ {x}
        /\ \A y : Pool!InPool(y)' <=> Pool!InPool(y) /\ y # x
    BY <2>2, HasLeft DEF TypeOK
  <2>4. /\ base' = base /\ train_mutex' \in {train_mutex, Nobody}
        /\ train_mutex' = x => train_mutex' = Nobody
    <3>1. CASE Serve(x)
      <4>1. base' = base /\ train_mutex' = train_mutex
        BY <3>1, Zenon DEF Serve
      <4>2. train_mutex # x
        BY <3>1, PrepareConstants DEF Holder, Serve
      <4> QED
        BY <4>1, <4>2
    <3>2. CASE TrainEnd(x)
      BY <3>2 DEF TrainEnd
    <3> QED
      BY <1>5, <3>1, <3>2
  <2> HIDE DEF r, part
  <2>5. TypeOK'
    BY <1>1, <1>2, <2>2, <2>3, <2>4 DEF TypeOK
  <2>6. Places' /\ Counted'
    BY <1>2 DEF Places, Counted
  <2>7. Seats'
    BY <1>1, <1>2, <2>3 DEF Seats
  <2>8. \A q \in Requests, p \in Calls :
          TaskOf(q, p) = x => q = r /\ p = part
    BY <1>1, TasksAreNamed
  <2>9. CallsOut'
    <3>1. ASSUME NEW q \in Requests, NEW p \in Calls,
                 Pool!InPool(TaskOf(q, p))'
          PROVE  /\ Pool!InPool(TaskOf(q, p))
                 /\ q # r \/ p # part
      BY <1>1, <2>3, <3>1
    <3>2. ASSUME NEW q \in Requests, NEW p \in Calls,
                 q # r \/ p # part, step[q] = Awaiting(p)
          PROVE  reply'[q] = reply[q]
      BY <1>1, <2>2, <3>2 DEF Awaiting, Calls, TypeOK
    <3> QED
      BY <1>2, <3>1, <3>2, StepNames DEF CallsOut
  <2>10. Replies'
    BY <1>1, <1>2, <2>2, StepNames DEF Replies, TypeOK
  <2>11. Holder'
    BY <1>1, <1>2, <2>3, <2>4, TasksAreNamed, PrepareConstants DEF Holder
  <2> QED
    BY <2>3, <2>5, <2>6, <2>7, <2>9, <2>10, <2>11
<1> QED
  BY <1>4, <1>5

LEMMA HandlerKeepsOrder ==
  ASSUME Orderly, NEW r \in Requests, TaskOf(r, "handler") \in handled,
         HandlerStep(r)
  PROVE  Orderly'
<1>1. step[r] \in Busy
  BY DEF Orderly, Seats
<1>2. CASE CallBackfill(r) \/ CallTrain(r) \/ CallInfer(r)
  BY <1>1, <1>2, CallKeepsOrder
<1>3. CASE Clean(r) \/ Gaps(r) \/ Verify(r)
  BY <1>1, <1>3, ScriptKeepsOrder
<1>4. CASE BackfillBack(r) \/ TrainBack(r) \/ InferBack(r)
  BY <1>1, <1>4, ReplyKeepsOrder DEF BackfillBack
<1>5. CASE CheckModel(r) \/ TrainHere(r) \/ TrainedHere(r) \/ Load(r)
  BY <1>1, <1>5, PrepareKeepsOrder
<1>6. CASE LookAtCache(r) \/ CurlBack(r)
  BY <1>1, <1>6, CachesKeepOrder
<1> QED
  BY <1>2, <1>3, <1>4, <1>5, <1>6, Zenon DEF HandlerStep

LEMMA OrderlyInit == Init => Orderly
<1> SUFFICES ASSUME Init PROVE Orderly
  OBVIOUS
<1>1. /\ jobs_ = <<>> /\ handled = {} /\ train_mutex = Nobody
      /\ step = [r \in Requests |-> "away"]
      /\ symbol = [r \in Requests |-> NoSymbol]
      /\ reply = [r \in Requests |-> "none"]
      /\ todo = [r \in Requests |-> Intervals]
      /\ clean \in [Symbols -> Quality]
      /\ base = [r \in Requests |-> "none"] /\ rewritten = {}
  BY DEF Init, Pool!PoolInit
<1>2. Intervals \in 0..Intervals /\ Threads \in Nat
  BY PrepareConstants
<1>3. jobs_ \in Seq(Tasks) /\ Len(jobs_) = 0
  BY <1>1
<1>4. IsFiniteSet(handled) /\ Cardinality(handled) = 0
  BY <1>1, FS_EmptySet
<1>5. Pool!PoolTypeOK
  BY <1>1, <1>2, <1>3, <1>4, SameCardinality DEF Pool!PoolTypeOK
<1>6. TypeOK
  BY <1>1, <1>2, <1>5 DEF TypeOK, Steps, Quality
<1>7. Pooled
  BY <1>1, <1>3, <1>4 DEF Pooled
<1>8. \A y : ~Pool!InPool(y)
  BY <1>1, <1>3 DEF Pool!InPool
<1>9. Places
  BY <1>1 DEF Places, Requests, PipelineSteps, PrepareSteps
<1>10. Seats
  BY <1>1, <1>8 DEF Seats, Busy
<1>11. CallsOut /\ Replies /\ Counted /\ Holder
  <2>1. CallsOut
    BY <1>8 DEF CallsOut
  <2>2. Replies /\ Counted
    BY <1>1 DEF Replies, Counted, Requests
  <2>3. Holder
    BY <1>1, TasksAreNamed, PrepareConstants DEF Holder
  <2> QED
    BY <2>1, <2>2, <2>3
<1> QED
  BY <1>6, <1>7, <1>9, <1>10, <1>11 DEF Orderly

LEMMA OrderlyQuiet == Orderly /\ UNCHANGED vars => Orderly'
<1> SUFFICES ASSUME Orderly, UNCHANGED vars PROVE Orderly'
  OBVIOUS
<1> USE DEF Orderly, vars
<1>1. /\ Pool!PoolTypeOK' /\ Pooled' /\ handled' = handled
      /\ \A y : Pool!InPool(y)' <=> Pool!InPool(y)
  BY PoolQuiet DEF TypeOK
<1>2. TypeOK' /\ Places' /\ Replies' /\ Counted' /\ Holder'
  BY <1>1 DEF TypeOK, Places, Replies, Counted, Holder
<1>3. Seats' /\ CallsOut'
  BY <1>1 DEF Seats, CallsOut
<1> QED
  BY <1>1, <1>2, <1>3

LEMMA OrderlyStep == Orderly /\ [Next]_vars => Orderly'
<1> SUFFICES ASSUME Orderly, [Next]_vars PROVE Orderly'
  OBVIOUS
<1>1. CASE \E r \in Requests : Arrive(r)
  BY <1>1, ArrivalKeepsOrder
<1>2. CASE TakeUp
  BY <1>2, TakingUpKeepsOrder
<1>3. ASSUME NEW x \in Tasks, Handle(x) PROVE Orderly'
  <2>1. CASE ServeStep(x)
    BY <1>3, <2>1, ServingKeepsOrder DEF Handle, ServeStep
  <2>2. CASE x.part = "handler" /\ HandlerStep(x.req)
    <3>1. x.req \in Requests /\ x = TaskOf(x.req, "handler")
      BY <2>2, TasksAreNamed
    <3>2. TaskOf(x.req, "handler") \in handled
      BY <1>3, <3>1 DEF Handle
    <3> QED
      BY <2>2, <3>1, <3>2, HandlerKeepsOrder
  <2> QED
    BY <1>3, <2>1, <2>2 DEF Handle
<1>4. CASE UNCHANGED vars
  BY <1>4, OrderlyQuiet
<1> QED
  BY <1>1, <1>2, <1>3, <1>4 DEF Next

LEMMA AlwaysOrderly == Spec => []Orderly
BY OrderlyInit, OrderlyStep, PTL DEF Spec

(* The pool is never over its number of threads, a prepare never looks for *)
(* more intervals than there are, and all other values keep their kinds.   *)
THEOREM TypeCorrect == Spec => []TypeOK
<1>1. Orderly => TypeOK
  BY DEF Orderly
<1> QED
  BY <1>1, AlwaysOrderly, PTL

(* A pipeline's call is in the pool only while the pipeline waits for it,  *)
(* has failed, or - the snapshot - is done: whatever number of requests    *)
(* and threads there is, no step of a pipeline overlaps a call that an     *)
(* earlier step of it made (pipeline.cpp:75, 114 and 128).                 *)
THEOREM NoCallOutlivesItsStep == Spec => []CallsAreCurrent
<1>1. Orderly => CallsAreCurrent
  <2>1. {"backfill", "train", "infer"} = Calls /\ Pipelines \subseteq Requests
    BY DEF Calls, Requests
  <2> QED
    BY <2>1 DEF Orderly, CallsOut, CallsAreCurrent
<1> QED
  BY <1>1, AlwaysOrderly, PTL

-----------------------------------------------------------------------------
(* What was verified is what is trained on                                 *)

LEMMA LockedStep == Orderly /\ Locked /\ [Next]_vars => Locked'
<1> SUFFICES ASSUME Orderly, Locked, [Next]_vars, NEW r \in Requests, step'[r] = "training"
             PROVE  train_mutex' = TaskOf(r, "handler")
  BY DEF Locked
<1> USE DEF Goes, Answers, Moves, At, Call, Answered
<1>1. /\ step \in [Requests -> Steps]
      /\ \A part \in Calls : Awaiting(part) # "training"
  BY StepNames DEF Orderly, TypeOK
<1>2. /\ \A q \in Requests, part \in Parts :
            TaskOf(q, part) \in Tasks /\ TaskOf(q, part) # Nobody
            /\ TaskOf(q, part).part = part /\ TaskOf(q, part).req = q
      /\ step[r] = "training" => train_mutex = TaskOf(r, "handler")
  BY TasksAreNamed, PrepareConstants DEF Parts, Locked, TaskOf
<1>3. ASSUME step[r] = "training", train_mutex' = train_mutex PROVE train_mutex' = TaskOf(r, "handler")
  BY <1>2, <1>3
<1>4. CASE (\E q \in Requests : Arrive(q)) \/ TakeUp
  <2>1. step[r] = "training" /\ train_mutex' = train_mutex
    BY <1>1, <1>4 DEF Arrive, TakeUp
  <2> QED
    BY <1>3, <2>1
<1>5. ASSUME NEW x \in Tasks, x \in handled, ServeStep(x)
      PROVE  train_mutex' = TaskOf(r, "handler")
  <2>1. step' = step
    BY <1>5 DEF ServeStep, Serve, TrainLock, TrainEnd
  <2>2. train_mutex' = train_mutex \/ train_mutex = Nobody \/ (train_mutex = x /\ x.part = "train")
    BY <1>5 DEF ServeStep, Serve, TrainLock, TrainEnd
  <2> QED
    BY <1>2, <1>3, <2>1, <2>2 DEF Parts
<1>6. ASSUME NEW q \in Requests, HandlerStep(q)
      PROVE  train_mutex' = TaskOf(r, "handler")
  <2>1. CASE TrainHere(q)
    BY <1>1, <1>2, <2>1 DEF TrainHere, Parts
  <2>2. CASE TrainedHere(q)
    <3>1. step[q] = "training" /\ step[r] = "training" /\ q # r
      BY <1>1, <2>2 DEF TrainedHere
    <3>2. train_mutex = TaskOf(q, "handler") /\ train_mutex = TaskOf(r, "handler")
      BY <1>2, <3>1 DEF Locked
    <3> QED
      BY <1>2, <3>1, <3>2 DEF Parts
  <2>3. CASE CallBackfill(q) \/ CallTrain(q) \/ CallInfer(q)
    BY <1>1, <1>3, <2>3 DEF CallBackfill, CallTrain, CallInfer, Calls
  <2>4. CASE Clean(q) \/ Gaps(q) \/ Verify(q)
    BY <1>1, <1>3, <2>4 DEF Clean, Gaps, Verify
  <2>5. CASE BackfillBack(q) \/ TrainBack(q) \/ InferBack(q)
    BY <1>1, <1>3, <2>5 DEF BackfillBack, TrainBack, InferBack
  <2>6. CASE CheckModel(q) \/ Load(q) \/ LookAtCache(q) \/ CurlBack(q)
    BY <1>1, <1>3, <2>6 DEF CheckModel, Load, LookAtCache, CurlBack, Calls
  <2> QED
    BY <1>6, <2>1, <2>2, <2>3, <2>4, <2>5, <2>6, Zenon DEF HandlerStep
<1>7. ASSUME NEW x \in Tasks, Handle(x) PROVE train_mutex' = TaskOf(r, "handler")
  BY <1>5, <1>6, <1>7, TasksAreNamed DEF Handle
<1>8. CASE UNCHANGED vars
  BY <1>3, <1>8 DEF vars
<1> QED
  BY <1>4, <1>7, <1>8 DEF Next

\* A handler's step is about its own request.
LEMMA OwnStep ==
  ASSUME Orderly, Locked, NEW q \in Requests, TaskOf(q, "handler") \in handled,
         HandlerStep(q), NEW r \in Requests, r # q
  PROVE  /\ step'[r] = step[r] /\ reply'[r] = reply[r]
         /\ symbol' = symbol /\ base' = base
         /\ clean' # clean => step[q] \in {"clean", "gaps"}
         /\ \A s \in Symbols : s # symbol[q] => clean'[s] = clean[s]
         /\ rewritten \subseteq rewritten'
         /\ symbol[r] = symbol[q] /\ r \in Pipelines /\ Relies(r) /\ clean' # clean
              => r \in rewritten'
         /\ clean'[symbol[r]] = "none" => clean[symbol[r]] = "none"
         /\ \A y \in Tasks : y.part # "handler" => (train_mutex' = y <=> train_mutex = y)
<1> USE DEF Goes, Answers, Moves, Took, At, Call
<1>1. /\ step \in [Requests -> Steps]
      /\ reply \in [Requests -> {"none", "ok", "error"}]
      /\ clean \in [Symbols -> Quality]
  BY DEF Orderly, TypeOK
<1>2. TaskOf(q, "handler").part = "handler" /\ Nobody \notin Tasks
  BY TasksAreNamed, PrepareConstants
<1>3. CASE CallBackfill(q) \/ CallTrain(q) \/ CallInfer(q)
  BY <1>1, <1>3 DEF CallBackfill, CallTrain, CallInfer
<1>4. CASE Clean(q) \/ Gaps(q)
  <2>1. symbol[q] \in Symbols
    BY <1>4 DEF Clean, Gaps, Orderly, Places
  <2>2. PICK w \in Quality : Leave(q, w) /\ (w = "none" => clean[symbol[q]] = "none")
    BY <1>1, <1>4, <2>1 DEF Clean, Gaps, Written, Quality
  <2>3. /\ clean' = [clean EXCEPT ![symbol[q]] = w]
        /\ rewritten \subseteq rewritten'
        /\ w # clean[symbol[q]] => \A o \in Pipelines :
              symbol[o] = symbol[q] /\ Relies(o) => o \in rewritten'
    BY <2>2 DEF Leave
  <2>4. w = clean[symbol[q]] => clean' = clean
    BY <1>1, <2>1, <2>3
  <2>5. clean'[symbol[r]] = "none" => clean[symbol[r]] = "none"
    BY <1>1, <2>1, <2>2, <2>3
  <2> QED
    BY <1>1, <1>4, <2>1, <2>3, <2>4, <2>5 DEF Clean, Gaps
<1>8. CASE Verify(q)
  BY <1>1, <1>8 DEF Verify
<1>5. CASE BackfillBack(q) \/ TrainBack(q) \/ InferBack(q)
  BY <1>1, <1>5 DEF BackfillBack, TrainBack, InferBack
<1>6. CASE CheckModel(q) \/ TrainHere(q) \/ TrainedHere(q) \/ Load(q)
  <2>1. step[q] = "training" => train_mutex = TaskOf(q, "handler")
    BY DEF Locked
  <2> QED
    BY <1>1, <1>2, <1>6, <2>1 DEF CheckModel, TrainHere, TrainedHere, Load
<1>7. CASE LookAtCache(q) \/ CurlBack(q)
  BY <1>1, <1>7 DEF LookAtCache, CurlBack
<1> QED
  BY <1>3, <1>4, <1>5, <1>6, <1>7, <1>8, Zenon DEF HandlerStep

\* The work of a called route is about the request that called.
LEMMA ServedStep ==
  ASSUME Orderly, NEW x \in Tasks, x \in handled, ServeStep(x)
  PROVE  /\ UNCHANGED <<step, symbol, clean, rewritten>>
         /\ \A r \in Requests : r # x.req =>
              reply'[r] = reply[r] /\ base'[r] = base[r]
         /\ base' # base =>
              /\ x.part = "train" /\ base'[x.req] = clean[symbol[x.req]]
         /\ train_mutex' \in {train_mutex, Nobody, x}
         /\ train_mutex' # train_mutex /\ train_mutex' = x =>
              base'[x.req] = clean[symbol[x.req]]
         /\ reply' # reply =>
              /\ step[x.req] = Awaiting(x.part)
              /\ base' = base
              /\ x.part = "train" => train_mutex = x
<1>1. /\ reply \in [Requests -> {"none", "ok", "error"}]
      /\ base \in [Requests -> Quality]
      /\ x.req \in Requests
  BY TasksAreNamed DEF Orderly, TypeOK
<1>2. CASE Serve(x)
  BY <1>1, <1>2 DEF Serve, Serves, At
<1>3. CASE TrainLock(x)
  BY <1>1, <1>3 DEF TrainLock
<1>4. CASE TrainEnd(x)
  <2>1. x # Nobody
    BY PrepareConstants
  <2> QED
    BY <1>1, <1>4, <2>1 DEF TrainEnd, Serves, At
<1> QED
  BY <1>2, <1>3, <1>4 DEF ServeStep

\* A pipeline's own steps.
LEMMA KnowsOwn ==
  ASSUME Orderly, NEW r \in Pipelines, Knows(r),
         TaskOf(r, "handler") \in handled, HandlerStep(r)
  PROVE  Knows(r)'
<1> USE DEF Goes, Answers, Moves, Took, At, Call, Answered
<1>1. /\ step \in [Requests -> Steps] /\ r \in Requests
      /\ reply \in [Requests -> {"none", "ok", "error"}]
      /\ clean \in [Symbols -> Quality]
      /\ Quality = {"none", "gappy", "few", "good"}
      /\ Written = {"gappy", "few", "good"}
  BY DEF Orderly, TypeOK, Requests, Quality, Written
<1>2. r \notin Prepares /\ step[r] \in Busy \cap PipelineSteps
  BY PrepareConstants DEF Orderly, Seats, Places, Requests
<1>3. symbol[r] \in Symbols
  BY <1>1, <1>2 DEF Orderly, Places, Busy
<1>4. CASE CallBackfill(r)
  BY <1>1, <1>4, StepNames DEF CallBackfill, Knows, Relies
<1>5. CASE CallTrain(r)
  <2>1. train_mutex # TaskOf(r, "train") /\ reply[r] = "none"
    <3>1. ~Pool!InPool(TaskOf(r, "train"))
      BY <1>1, <1>5, StepNames DEF CallTrain, Orderly, CallsOut, Calls
    <3>2. TaskOf(r, "train") \in Tasks /\ Nobody \notin Tasks
      BY <1>1, TasksAreNamed, PrepareConstants DEF Calls
    <3> QED
      BY <1>1, <1>5, <3>1, <3>2
         DEF CallTrain, Orderly, Holder, Replies, Pool!InPool
  <2> QED
    BY <1>1, <1>5, <2>1, StepNames DEF CallTrain, Knows, Relies
<1>6. CASE CallInfer(r)
  BY <1>1, <1>6, StepNames DEF CallInfer, Knows, Relies
<1>7. CASE BackfillBack(r)
  BY <1>1, <1>7 DEF BackfillBack, Knows, Relies
<1>8. CASE Clean(r)
  BY <1>1, <1>3, <1>8 DEF Clean, Leave, Knows, Relies
<1>9. CASE Gaps(r)
  <2>1. PICK q \in IF clean[symbol[r]] = "gappy" THEN Written
                   ELSE {clean[symbol[r]]} :
          /\ clean' = [clean EXCEPT ![symbol[r]] = q]
          /\ step' = [step EXCEPT ![r] = IF q # "gappy" THEN "verify" ELSE "failed"]
    BY <1>9 DEF Gaps, Leave
  <2>2. clean[symbol[r]] \in Written
    BY <1>1, <1>3, <1>9 DEF Gaps, Knows
  <2>3. q \in Written
    BY <2>1, <2>2
  <2>4. symbol' = symbol /\ clean'[symbol[r]] = q
    BY <1>1, <1>3, <1>9, <2>1 DEF Gaps
  <2> QED
    BY <1>1, <2>1, <2>3, <2>4 DEF Knows, Relies
<1>10. CASE Verify(r)
  BY <1>1, <1>10 DEF Verify, Knows, Relies
<1>11. CASE TrainBack(r)
  BY <1>1, <1>11 DEF TrainBack, Knows, Relies
<1>12. CASE InferBack(r)
  BY <1>1, <1>12 DEF InferBack, Knows, Relies
<1>13. CASE LookAtCache(r) \/ CurlBack(r) \/ CheckModel(r) \/ TrainHere(r)
            \/ TrainedHere(r) \/ Load(r)
  BY <1>2, <1>13
     DEF LookAtCache, CurlBack, CheckModel, TrainHere, TrainedHere, Load,
         PipelineSteps
<1> QED
  BY <1>4, <1>5, <1>6, <1>7, <1>8, <1>9, <1>10, <1>11, <1>12, <1>13, Zenon
     DEF HandlerStep

LEMMA VerifiedStep ==
  ASSUME Orderly, Locked, Verified, [Next]_vars
  PROVE  Verified'
<1> SUFFICES ASSUME NEW r \in Pipelines, r \notin rewritten' PROVE Knows(r)'
  BY DEF Verified
<1>0. rewritten \subseteq rewritten'
  <2>1. ASSUME NEW q \in Requests, HandlerStep(q) PROVE rewritten \subseteq rewritten'
    BY <2>1 DEF HandlerStep, CallBackfill, CallTrain, CallInfer, Clean, Gaps, Leave,
                Verify, BackfillBack, TrainBack, InferBack, LookAtCache,
                CurlBack, CheckModel, TrainHere, TrainedHere, Load
  <2>2. ASSUME NEW x \in Tasks, Handle(x) PROVE rewritten \subseteq rewritten'
    BY <2>1, <2>2, TasksAreNamed DEF Handle, ServeStep, Serve, TrainLock, TrainEnd
  <2> QED
    BY <2>2 DEF Next, Arrive, TakeUp, vars
<1>1. Knows(r) /\ r \in Requests
  BY <1>0 DEF Verified, Requests
<1>2. /\ step \in [Requests -> Steps]
      /\ symbol \in [Requests -> Symbols \cup {NoSymbol}]
      /\ base \in [Requests -> Quality]
      /\ step[r] # "away" => symbol[r] \in Symbols
  BY <1>1 DEF Orderly, TypeOK, Places
<1>3. CASE \E q \in Requests : Arrive(q)
  <2>1. PICK q \in Requests : Arrive(q)
    BY <1>3
  <2>2. PICK s \in Symbols : symbol' = [symbol EXCEPT ![q] = s]
    BY <2>1 DEF Arrive
  <2>3. /\ step[q] = "away" /\ step' = [step EXCEPT ![q] = "queued"]
        /\ UNCHANGED <<reply, train_mutex, clean, base, rewritten>>
    BY <2>1 DEF Arrive, Moves, At, Goes
  <2>4. CASE q = r
    BY <1>1, <1>2, <2>3, <2>4 DEF Knows, Relies, Answered
  <2>5. CASE q # r
    BY <1>1, <1>2, <2>2, <2>3, <2>5 DEF Knows, Relies
  <2> QED
    BY <2>4, <2>5
<1>4. CASE TakeUp
  <2>1. UNCHANGED <<symbol, reply, train_mutex, clean, base, rewritten>>
    BY <1>4 DEF TakeUp
  <2>2. step'[r] = step[r] \/ step'[r] \in {"backfill", "caches"}
    <3>1. \/ step' = step
          \/ \E q, to : /\ step' = [step EXCEPT ![q] = to]
                       /\ to \in {"backfill", "caches"}
      <4>1. CASE Head(jobs_).part # "handler"
        BY <1>4, <4>1 DEF TakeUp
      <4>2. CASE Head(jobs_).part = "handler"
        BY <1>4, <4>2 DEF TakeUp, Goes
      <4> QED
        BY <4>1, <4>2
    <3> QED
      BY <1>1, <1>2, <3>1
  <2> QED
    BY <1>1, <2>1, <2>2 DEF Knows, Relies
<1>5. ASSUME NEW x \in Tasks, x \in handled, ServeStep(x) PROVE Knows(r)'
  <2>1. UNCHANGED <<step, symbol, clean>>
    BY <1>5, ServedStep
  <2>2. TaskOf(r, "train") # Nobody /\ TaskOf(r, "train") \in Tasks
    BY <1>1, TasksAreNamed, PrepareConstants DEF Parts
  <2>3. x = TaskOf(x.req, x.part) /\ x.req \in Requests
    BY <1>5, TasksAreNamed
  <2>4. CASE x # TaskOf(r, "train")
    <3>1. base'[r] = base[r]
      BY <1>1, <1>2, <1>5, <2>3, <2>4, ServedStep
    <3>2. train_mutex' = TaskOf(r, "train") => train_mutex = TaskOf(r, "train")
      BY <1>5, <2>2, <2>4, ServedStep
    <3>3. step[r] = "await_train" => reply'[r] = reply[r]
      <4>1. CASE x.req # r
        BY <1>1, <1>5, <4>1, ServedStep
      <4>2. CASE x.req = r
        <5>1. x.part # "train" /\ x.part \in Parts /\ x.part # "handler"
          BY <1>5, <2>3, <2>4, <4>2, TasksAreNamed DEF ServeStep, Serve, TrainLock, TrainEnd
        <5>2. step[r] = "await_train" => step[x.req] # Awaiting(x.part)
          BY <4>2, <5>1, StepNames DEF Parts
        <5> QED
          BY <1>5, <5>2, ServedStep
      <4> QED
        BY <4>1, <4>2
    <3>4. ASSUME step[r] = "await_train", Relies(r)', ~Relies(r) PROVE FALSE
      <4>1. reply[r] = "none" /\ train_mutex = TaskOf(r, "train")
        BY <2>1, <3>3, <3>4 DEF Relies
      <4>2. train_mutex' # TaskOf(r, "train")
        BY <2>1, <3>4 DEF Relies
      <4>3. train_mutex' = train_mutex
        BY <1>5, <2>2, <2>4, <4>1, PrepareConstants DEF ServeStep, Serve, TrainLock, TrainEnd
      <4> QED
        BY <4>1, <4>2, <4>3
    <3>5. ASSUME step[r] = "await_train", Relies(r) PROVE Relies(r)'
      BY <2>1, <3>2, <3>3, <3>5 DEF Relies
    <3>6. step[r] # "await_train" => (Relies(r)' <=> Relies(r))
      BY <2>1 DEF Relies
    <3> QED
      BY <1>1, <2>1, <3>1, <3>4, <3>5, <3>6 DEF Knows
  <2>5. CASE x = TaskOf(r, "train")
    <3>1. x.req = r /\ x.part = "train"
      BY <2>5 DEF TaskOf
    <3>2. step[r] \in {"await_train", "failed"}
      <4>1. Pool!InPool(x)
        BY <1>5 DEF Pool!InPool
      <4> QED
        BY <1>1, <2>5, <4>1, StepNames DEF Orderly, CallsOut, Calls
    <3>3. CASE TrainLock(x)
      <4>1. train_mutex = Nobody /\ train_mutex' = x /\ reply' = reply
            /\ base'[r] = clean[symbol[r]]
        BY <1>1, <1>2, <3>1, <3>3 DEF TrainLock
      <4>2. step[r] = "await_train" => Relies(r) /\ ~Relies(r)'
        <5>1. step[r] = "await_train" => reply[r] = "none"
          <6>1. Pool!InPool(x)
            BY <1>5 DEF Pool!InPool
          <6> QED
            BY <1>1, <2>5, <6>1, StepNames DEF Orderly, CallsOut, Calls
        <5> QED
          BY <2>1, <2>2, <2>5, <4>1, <5>1 DEF Relies
      <4> QED
        BY <1>1, <2>1, <3>2, <4>1, <4>2 DEF Knows, Relies
    <3>4. CASE TrainEnd(x)
      <4>1. train_mutex = x /\ base' = base /\ \E how \in {"ok", "error"} : Serves(x, how)
        BY <3>4 DEF TrainEnd
      <4>2. step[r] = "await_train" => ~Relies(r) /\ reply'[r] # "none"
        <5>1. reply \in [Requests -> {"none", "ok", "error"}]
          BY DEF Orderly, TypeOK
        <5> QED
          BY <1>1, <2>5, <3>1, <4>1, <5>1, StepNames DEF Relies, Serves, At
      <4> QED
        BY <1>1, <2>1, <3>2, <4>1, <4>2 DEF Knows, Relies
    <3>5. ~Serve(x)
      BY <3>1 DEF Serve
    <3> QED
      BY <1>5, <3>3, <3>4, <3>5 DEF ServeStep
  <2> QED
    BY <2>4, <2>5
<1>6. ASSUME NEW q \in Requests, TaskOf(q, "handler") \in handled,
             HandlerStep(q)
      PROVE  Knows(r)'
  <2>1. CASE q = r
    BY <1>1, <1>6, <2>1, KnowsOwn
  <2>2. CASE q # r
    <3>1. /\ step'[r] = step[r] /\ reply'[r] = reply[r]
          /\ symbol' = symbol /\ base' = base
      BY <1>1, <1>6, <2>2, OwnStep
    <3>2. (train_mutex' = TaskOf(r, "train")) <=> (train_mutex = TaskOf(r, "train"))
      <4>1. /\ TaskOf(r, "train") \in Tasks
            /\ TaskOf(r, "train").part # "handler"
        BY <1>1, TasksAreNamed DEF Parts
      <4> QED
        BY <1>1, <1>6, <2>2, <4>1, OwnStep
    <3>3. Relies(r)' <=> Relies(r)
      BY <3>1, <3>2 DEF Relies
    <3>4. CASE Relies(r)
      <4>1. clean'[symbol[r]] = clean[symbol[r]]
        <5>1. CASE clean' = clean
          BY <5>1
        <5>2. CASE clean' # clean
          <6>1. symbol[q] # symbol[r]
            BY <1>1, <1>6, <2>2, <3>4, <5>2, OwnStep
          <6>2. symbol[r] \in Symbols
            BY <1>2, <3>4 DEF Relies
          <6> QED
            BY <1>1, <1>6, <2>2, <6>1, <6>2, OwnStep
        <5> QED
          BY <5>1, <5>2
      <4> QED
        BY <1>1, <3>1, <3>3, <3>4, <4>1 DEF Knows, Relies
    <3>5. CASE ~Relies(r)
      <4>1. clean'[symbol[r]] = "none" => clean[symbol[r]] = "none"
        BY <1>1, <1>6, <2>2, OwnStep
      <4>2. step[r] # "verify"
        BY <3>5 DEF Relies
      <4> QED
        BY <1>1, <3>1, <3>3, <3>5, <4>1, <4>2 DEF Knows
    <3> QED
      BY <3>4, <3>5
  <2> QED
    BY <2>1, <2>2
<1>7. ASSUME NEW x \in Tasks, Handle(x) PROVE Knows(r)'
  <2>1. CASE ServeStep(x)
    BY <1>5, <1>7, <2>1 DEF Handle
  <2>2. CASE x.part = "handler" /\ HandlerStep(x.req)
    <3>1. /\ x.req \in Requests /\ TaskOf(x.req, "handler") \in handled
      BY <1>7, <2>2, TasksAreNamed DEF Handle
    <3> QED
      BY <1>6, <2>2, <3>1
  <2> QED
    BY <1>7, <2>1, <2>2 DEF Handle
<1>8. CASE UNCHANGED vars
  BY <1>1, <1>8 DEF vars, Knows, Relies
<1> QED
  BY <1>3, <1>4, <1>7, <1>8 DEF Next

(* An ok says that the training read a file without gaps and with enough   *)
(* rows, unless another request changed the file between the last checks   *)
(* and the reading: for any number of requests, for whatever symbols, and  *)
(* whatever calls of failed requests still run.                            *)
THEOREM OkMeansTrainedOnVerified == Spec => []TrainedOnVerified
<1>1. Init => Locked /\ Verified
  BY DEF Init, Locked, Verified, Knows, Relies, Requests, Answered
<1>2. Verified => TrainedOnVerified
  BY DEF Verified, Knows, TrainedOnVerified
<1>3. Orderly /\ Locked /\ Verified /\ [Next]_vars => (Locked /\ Verified)'
  BY LockedStep, VerifiedStep
<1> QED
  BY <1>1, <1>2, <1>3, AlwaysOrderly, PTL DEF Spec

==============================================================================
