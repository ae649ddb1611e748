# Verification of edge-trader-server-pro

TLA+ models of the trading server in `src/src/` of this repository, model-checked
with TLC. Every safety property that the runs check is also proved with TLAPS, for
all values of the constants; where the code promises something only as long as
something has not happened, that is a condition in the property and a history
variable records it (section 3). Paths below are relative to the repository
(`src/routes/...`); `PROJECT.json` has the exact lines behind every definition, the
mutants that show each property can fail, and the hazards the properties are aimed
at.

The server is one C++ process on top of cpp-httplib. A pool of HTTP threads runs the
route handlers that `main.cpp` registers; one detached thread serves the hydrate
queue; every `POST /api/robot/start` adds a detached trading loop. They share
globals (some atomic, some not) and the files under `cache/`, and they call the
Bybit exchange, shell scripts (`scripts/`), and in two routes the server itself.
There are no unit tests in the repository, so what the threads may do to each other
is exactly what nothing else checks.

## 1. Inventory

| Component | State | Operations | Interacts with |
|---|---|---|---|
| Hydrate queue: `routes/symbol_queue.cpp`, `routes/symbol.cpp` | `g_queue`, `g_tasks`, `g_next_id`, four atomic totals; state, payload and error of each task | `enqueue`, `ensure_worker`, `worker_loop`, `status`, `metrics_json` | HTTP threads (shared state under `g_mu` and a mutex per task), `backfill_last_months` in a `std::async` thread |
| Trading robot: `robot/*`, `routes/robot.cpp` | atomic flag, raw pointer to the thread object, global config; the position at the exchange | `start`, `stop`, `trading_loop`, `open_trade` | Bybit over HTTPS, `GET /api/infer`, config and key files |
| Model registry: `server_accessors.cpp`, `train_logic.cpp`, `routes/model.cpp`, `routes/model_set.cpp`, `routes/train.cpp`, `routes/symbol_prepare.cpp`, `routes/diagnostic.cpp` | three atomics, the unprotected `G_CURRENT_MODEL`, one model file per symbol, `train_mutex` | start-up, train, set, reload, prepare, show | trainer, candle files |
| Candle cache: `utils.h`, `routes/backfill.inc.cpp` | one CSV file per symbol and interval | `backfill_last_months`: page, merge, trim, rewrite | Bybit klines; hydrate worker and HTTP threads as callers |
| Prepare-and-train pipeline: `routes/pipeline.cpp`, `routes/symbol_prepare.cpp`, two scripts | the clean CSV files, the place in the handler | six steps, each with its error exit | its own server over HTTP, shell scripts |
| HTTP pool: `httplib.h`, `main.cpp` | list of connections, threads | accept, take up, answer | every handler |
| Inference: `routes/infer.cpp`, `infer_policy.cpp` | none but counters | `GET /api/infer` | atoms, current model, candle files |
| Trainer: `ppo_pro.cpp` | none | `trainPPO_pro` | called by the registry |
| Features, optimiser: `features/*`, `context_detector.cpp`, `optim/*` | none | `build_feature_matrix` and what it needs | trainer, policy, cache of X and y |
| Training simulation: `routes/train_env.cpp` | none | `GET /api/train_env` | candle files, the BTC model |
| Trading environment: `env/*` | position, equity, cursor of an episode | `reset`, `step`, episode runs | nobody: built only with `ETAI_BUILD_ENV`, which is off |
| Signal agents: `agents/*`, `routes/agents.cpp` | `AgentState` | run, stop, decide, status | HTTP threads |
| Loaders: `utils_data.cpp` | the files of X and y | read candle files, build X and y | candle files |
| Health: `routes/health_ai.cpp`, `utils_model.cpp` | none | copies of the current model, files read | registry |
| Shell scripts: `scripts/*.sh` | the raw and the clean candle files | fetch, clean, fill gaps, aggregate | run by `GET /api/train`, by the pipeline and by hand |
| Observability: `metrics.cpp`, `routes/health.cpp`, ... | counters | count, print | all handlers |

### What is hard in it, and what would make it right

* **Hydrate queue.** Ids are drawn and totals bumped outside the critical section
  that publishes a task; the worker gives up on a download after a timeout but
  cannot abandon it; pollers read a task in two halves and the totals one by one.
  Right means: no task is lost or served twice, tasks are served one at a time in
  order, a verdict has its payload and never changes, totals count what happened,
  and a poller never sees time go backwards.
* **Robot.** `start()` and `stop()` share an unprotected pointer; a stop does not
  end a loop, it lowers a flag that a loop tests after its sleep; requests and
  replies get lost, a thread may not be born. Right means: one loop, no misuse of
  the thread object, at most one more order after a stop, no second entry into a
  position, and no position without take-profit and stop-loss.
* **Model registry.** Three atoms, a json and a file are changed one by one by five
  routes, most of them without any lock; a kill may fall between any two of the
  writes, a write may fail unnoticed, and a file may say things that a start does
  not accept. Right means: atoms, json and file say the same between requests, and
  "ready" means loaded.
* **Candle cache.** Read, merge in memory and rewrite without a lock; pages whose
  borders fall anywhere; a last candle that is still forming; kills inside a write,
  and writes that fail without anybody looking. Right means: a call that answers ok
  and has written has the whole window, stale candles get replaced, what was saved
  is lost only to overlapping calls and torn writes, and a call ends.
* **Candle files.** Three routes, the hydrate worker, the scripts they run and an
  operator's shell write the raw and clean files of a symbol, some in place, some by
  renaming; the loaders read whichever is there. Nobody holds a lock; a script may
  stop, fail or be killed alone, between any two files or inside one, and the
  pipeline does not look at its exit code. Right means: who fetched for a training
  trains on all rows of that download, in every frame, and cached features and
  labels have the same rows.
* **Pipeline and pool.** A handler keeps its thread while it calls its own server,
  which needs another one; calls whose client has given up are served all the same.
  Right means: what was verified is what was trained on unless another request
  changed it in between, steps do not overtake each other's calls, and the pool
  always becomes free again.
* **Decisions.** Pure code, but the rules of one answer live in several files:
  mode and signal, votes and agreement, threshold and reward, features and agents.
  Right means: they do not contradict each other, an order's limits lie where `tp`
  and `sl` put them, labels look only ahead and features only back, a scored row has
  all its features, and two scripts that cut the same bars agree.

## 2. Modules

| Module | Models | Checked by |
|---|---|---|
| `HydrateQueue` | the queue, its clients, its worker and the downloads | `hydrate_queue`, `hydrate_hang` |
| `TaskBoard` | what the queue promises a poller (abstract specification) | refined by `HydrateQueue` |
| `HydrateApi` | `HydrateQueue` with the handlers of the two GET routes | `hydrate_api` |
| `HydrateQueueProofs`, `HydrateApiProofs` | theorems about `HydrateQueue` and `HydrateApi` | TLAPS |
| `RobotLoop` | start, stop, the loops and the exchange | `robot_serial`, `robot_restart`, `robot_race` |
| `RobotLoopProofs` | theorems about `RobotLoop` | TLAPS |
| `ModelRegistry`, `MCModelRegistry` | atoms, current model, files, five routes, restarts | `registry`, `registry_patch` |
| `ModelRegistryProofs` | theorems about `ModelRegistry` | TLAPS |
| `CandleCache`, `MCCandleCache` | calls of `backfill_last_months` on one file | `cache_calls` |
| `CandleCacheProofs` | theorems about `CandleCache` | TLAPS |
| `CandleFiles`, `MCCandleFiles` | scripts, loaders and routes on the candle files, X and y | `candle_files` |
| `CandleFilesProofs` | theorems about `CandleFiles` | TLAPS |
| `ServerPool` | the pool's list and threads | used by `PrepareTrain` |
| `PrepareTrain` | the two routes that call their own server | `pipeline` |
| `PrepareTrainProofs` | theorems about `PrepareTrain` | TLAPS |
| `InferDecision` | inference from the scores to the answer, the robot's reading of it | used by `Decisions` |
| `AgentVote` | the agents and their layer | used by `Decisions` |
| `ThresholdSearch` | labels and threshold of the trainer, trades of `train_env` | used by `Decisions` |
| `FeatureMatrix` | which candles a feature is computed from, and whether it is NaN | used by `Decisions` |
| `HigherFrames` | bars of a higher frame, by count and by time | used by `Decisions` |
| `Decisions`, `MCDecisions` | one request and its answer, of six kinds | `decisions` |
| `DecisionsProofs` | theorems about `Decisions` | TLAPS |

Actions named in a comment as a mutant are not part of any next-state relation;
they are plausible slips that the properties have to catch.

### HydrateQueue

Variables carry the names of the globals. A step is what no other thread can
interleave with: one critical section of `g_mu` or of a task's mutex, one atomic
operation, one wait. `enqueue()` is `TakeId` (the `fetch_add` before the lock),
`PushTask` (map and queue entry together), `CountEnqueued`, `NotifyAndReturn`. The
worker is `Sleep`/`SpuriousWake`/`Pop` around the condition variable, then
`MarkRunning`, `CountRunning`, `Launch` or `LaunchFails` (`std::async` throws and
is caught), `AwaitReady` or `AwaitTimeout`, `JoinFuture` (the destructor of a
`std::async` future joins, so leaving the `try` block waits for the download),
`Publish`, `Release`. `BackfillReturns` is the download's end. A json payload is
reduced to present, ok, running and which error; timestamps, symbol, interval and
months are left out.

`TaskBoard` is the promise: submit, start the oldest when nothing is being served,
finish with a final verdict. The refinement maps a task to its state (absent
before `PushTask`) and the line to the popped task followed by `g_queue`.
`HydrateApi` adds pollers: `LookUp` and `Copy` are the two halves of `status()`,
`AskMetrics` and four `LoadCounter` the five reads of `metrics_json()`.

### RobotLoop

HTTP threads go through `start()` (`StartTest`, `StartConfigure`, `StartRaise`,
`StartSpawn` or `SpawnFails`, `StartDetach`) and `stop()` (`StopLower`, `StopLook`,
`StopWait`, `StopDelete`, `StopClear`). `object` is the state of every `std::thread`
object, so that deleting a joinable one, deleting twice and detaching a deleted one
are visible (`crashed`). A loop's action is one exchange request or the code between
two; `config` is read anew at each use, as the code does. `Outcome` lets a request
of the kinds in `Faults` fail; an order that was executed may still look failed.
`SpawnFails` is a `std::thread` that cannot be created: its exception is answered
500 and leaves the flag up without a loop. The exchange keeps `entries` (orders in
the position) and `guarded` (TP/SL set).

The history `mishaps` has three kinds of things that the code does not prevent:
"look", a position query without an answer, or a start beside another or beside a
loop; "order", any other failed request of `open_trade`; "crossing", a start or stop
that goes ahead in the middle of another. `late` and `astray` follow the orders.

### ModelRegistry

Every operation that makes new values draws a number and uses it for threshold, MA
length and feature dimension, so a value says where it came from and mixtures are
visible. A field may also be `Missing`, or `Odd(w)`: drawn by operation `w`, but out of
the range that a start accepts (`GET /api/train` takes any MA length, `model/set` a
threshold of 1.0). `AtomsFrom` gives the defaults for both, as
`init_model_atoms_from_disk` does. `Found` is what earlier runs left in the files;
`Paths` has one file per symbol and one elsewhere, which `model/set` and
`model/reload` reach through `?path=`.

Steps are the single atomic stores (`StoreAtoms`), the opening (truncating) and the
writing of a file (`OpenFile`, `DumpFile`), and entering and leaving an accessor of
the json (`SetCurrent`/`SetCurrentReturns`, `ShowRequest`/`ShowAnswers`, ...). The
stream may refuse to open (`OpenFails`), or a write may fail afterwards, which
nobody looks at: `DumpFile` then leaves a torn file and goes on to store memory all
the same. Two threads in conflicting accessors are a data race: undefined behaviour,
modelled as a choice between going well and `terminated`. `Restart` follows a kill or
a termination.

Three histories say what has happened since the start: `home`, the file that memory
was last read from or written to; `failed`, the files not written whole; `deeds`, what
has taken atoms and memory apart: "crossed", the last change met another, and
"patched", a `model/set` that stopped half way or took a file as its base. A thread's
`crossed` says so of its own change. A behaviour has a `scene`: the routes that are
called, how many requests at once, how many of them may draw a number, and whether
there are faults (missing files, failing writes, kills). `MCModelRegistry` lists the
scenes; the properties hold in any, and the scenes only keep the run small.

### CandleCache

A call is `Begin`, one `FetchPage` per page the exchange answers, `Merge` (read the
file, merge, trim, all in memory), `Truncate`, `Write`, `Return`. `Step` is the
cursor arithmetic with its three cases. A row is a candle's time and whether it was
forming when fetched, or is torn. The exchange may leave out a candle of a window
that has too many (`keep`), and send rows that cannot be read: some are counted,
and the call answers `ok:false`; rows of fewer than seven columns, and replies
without a list, are not (`dropped`).

`write_cache` looks at no error. The file may not open (`OpenFails`), a write may end
anywhere, in the middle of a row as well (`Torn`), and a kill leaves the same. With
another writer on the file, the later one's rows go over those of the first, which
stay behind the place it has come to (`Anywhere`, `Tails`). Every call carries its
own history: `cut` and `dropped` (what the exchange withheld), `missed` (what others
saved since this call read the file), `spoiled` (its file was not written, or
touched by another since). `kept` has every candle ever saved and not trimmed, which
no kill or failed write changes; `lost` has those of them that a torn write, a kill or
an overlapping call has cost.

`MCCandleCache` sets the scale: a page of one candle and a window of two, where the
exchange's hold 1000 and 1001, and a candle of 2 time units, so that windows begin
inside candles.

### CandleFiles

A script is the sequence of files it writes (`fetch_15m_and_agg`,
`clean_from_raw`, `fill_gaps`, `fetch_bybit_rest`, and `backfill` for the C++ code),
and each `Write` says where the rows come from, how many columns they get, and what
happens without a source: the script stops, skips the file or goes on. In place is
two steps, `Open` (the redirection truncates) and `Fill`; by renaming is `Make` and
`Move`. A file in between reads as empty or as its first rows (`Seen`). Rows are
reduced to the download they come from and whether they are all there. A thread goes
through the scripts of its request, then through loading, training and answering
(`Load`, `AfterTraining`, `Infer`), or through `Health`, `Exists`, `Build`, `SaveX`,
`SaveY` of the agents' routes and `load_cached_xy`. `CleanUp` is the `rm` of
`GET /api/train?cleanup=1`.

`Fails` is any write that goes wrong: the file cannot be opened, the disk is full,
`sort` or `awk` fails, or the script alone is killed. The file keeps what it has got
and the script ends there (`Aborts`); `GET /api/train` sees the exit code and answers
500, the pipeline does not look and goes on with what there is. The C++ backfill does
not notice a failed write of its own and proceeds. `Kill` takes the server and the
scripts it runs.

Two histories say when the code promises nothing: `upset` has the requests whose
candles were changed by others while they still needed them, `rivals` is set once
two requests build X and y at the same time; `flawed` marks a pipeline one of whose
own steps has failed. A behaviour plays one of the sets of operations and mishaps in
`MCScenes`.

### ServerPool and PrepareTrain

`ServerPool` has the list `jobs_` and the set of connections that have a thread;
threads are alike, so only their number matters. `PrepareTrain` instantiates it and
follows the two handlers step by step. A call is a new connection (`Call`); its
client waits in `await_...` and takes the reply or, in `pipeline.cpp`, gives up
after its read timeout; `symbol_prepare.cpp` calls through `curl`, which waits for
ever. The called routes are `Serve` (backfill, infer) and `TrainLock`/`TrainEnd`
(behind `train_mutex`). Of the data there is the clean 15-minute file, reduced to
what the checks tell apart: none, gaps, too few rows, good. Requests ask for
interval 15 and write their symbol in capitals, because the checks look at
`<symbol>_15.csv` as given while the loader capitalises the name and takes the
interval of the request. The history `rewritten` has the pipelines whose file another
request changed after their checks and before their training read it (`Relies`).

### InferDecision, AgentVote, ThresholdSearch, FeatureMatrix, HigherFrames and Decisions

Operators without state, translated function by function, and a module that asks
them: the request is chosen in `Init`, the one step is the answer. The sets of
requests are constants, about which `DecisionsConstants` assumes only their types
and what the code sees to before it gets there (a matrix has its fewest rows, the
candles that become bars are sorted); `MCDecisions` lists bounded ones. Numbers are
integers in a fixed unit, quotients are kept over their denominator (`confidence`
over `4 * thr`, the weight in 24ths, the agents' average over the number of voters),
so comparisons are exact. Two roundings of the code matter and are choices: a price
is sent with six decimals (`Sent`: a nearest one, either of two), and rewards are
sums of doubles in row order, so that of thresholds with the same greatest sum any
may come out first (`BestThrs`), except that the same trades in the same order have
the same sum and the first of those stays. What comes out of floating-point code is
an input: the scores of the policy, the probabilities of the regression, and for the
agents the five figures they compute from their features. `Sigmoid` and `Tanh` are
tables; the properties use only that they are monotone and symmetric. The trade rule
is written three times in the code (`pnl_series`, `simulate_reward_v1`,
`simulate_pnl_thr`), always the same: there is one `Trade`.

A cell of `FeatureMatrix` is not a number but the set of candles it is computed from
and whether it is NaN; `FeatureRow` has the 28 columns in the order of
`build_feature_matrix` (`Technical`), and the four of the money flow behind them.
`HigherFrames` has the two awk programs that cut bars, `ByCount` and `ByTime`, as
folds over the times of the candles.

## 3. Runs

`pass` runs must hold; a `violation` run shows the code contradict a comment or
document of the repository, which its finding in `PROJECT.json` quotes.

| Run | Instance | Shows |
|---|---|---|
| `hydrate_queue` | 2 clients, 2 potential workers, 3 tasks | types; no task lost; totals match; verdicts have payloads; downloads never overlap although the worker gives up on them; returned ids are known; the queue implements `TaskBoard`, and with downloads that end, `TaskBoard` with progress |
| `hydrate_hang` (violation) | 1 client, 1 worker, 2 tasks, downloads need not end | the timeout does not end a task: it stays "running", and all behind it wait |
| `hydrate_api` | the queue with one poller | each answer is consistent in itself; a task never goes backwards or vanishes for a poller; totals are never behind a status already shown |
| `robot_serial` | one handler, 2 starts, 2 symbols, all failures of requests and of the thread's birth | no crash; at most one late order per loop; no second entry and no position without limits (`EntriesAreSafe`) as long as what the robot relies on has not failed; a robot that stays stopped has no loop left |
| `robot_restart` (violation) | one handler, 2 starts | a start soon after a stop gives two loops |
| `robot_race` (violation) | two handlers | start and stop at once end the process |
| `registry` | five scenes: trainings; a training and a prepare; a prepare and a reload, each two at once with faults; a prepare beside set and show; all routes one at a time with faults | no termination while models are only trained or requests come one at a time; atoms, memory and file say the same but for what changes that met, failed dumps and patches that stopped half way have taken apart; "ready" means loaded unless another change came in between |
| `registry_patch` (violation) | reload and set, one at a time | `model/set` writes one symbol's model into another's file |
| `cache_calls` | 2 callers that may overlap, 2 calls, kills, failing writes, unreadable and uncounted rows, cut pages | a call that answers ok and has written has its window, with no stale or torn candle, and only isolated ones are lost to cut pages; what was saved is lost only to overlaps and torn writes; calls return |
| `candle_files` | 2 threads, 2 downloads, two kinds of operation at a time, kills, failed downloads, one failed write or script | a request that fetched trains on its own download, whole and in every frame, or not at all, unless others changed a file it still needed or a pipeline's own step failed; X and y have the same rows |
| `pipeline` | 2 pipelines, 1 prepare, 3 threads, 2 symbols | what was verified is what was trained on, unless the other pipeline rewrote it in between; no step overtakes an earlier call; the pool becomes free again |
| `decisions` | 232,000 requests of six kinds | mode, confidence and signal do not contradict the policy; directional decisions of the agents are backed; no threshold is more accurate than the one chosen, however its sums are rounded; labels look ahead and features back; a scored row has no filled-in feature; the two ways to cut bars agree; levels are sent on the side of the cached close that `tp` and `sl` say, and a simulated trade stays between its limits |

A property that says several things is the conjunction of named parts, which can be
checked one by one: `EntriesAreSafe`, `SuccessMeansSaved`, `ModeMatchesPolicy`,
`DirectionsAreBacked`, `NoLookAhead`, `LimitsHold`.

### Bounds, and why they are enough

* *Hydrate queue.* Three tasks are the fewest with one being served, one first in
  line and one behind it; two clients interleave all of `enqueue()` and draw ids in
  one order and push them in the other; two candidate threads show that only one
  starts. The counters need no more since ids are not reused. The API run has one
  poller because pollers do not influence anything.
* *Robot.* `MaxStarts` 2 is one restart, the fewest in which loops can overlap. Two
  symbols show orders for a symbol that was not checked. `entries` and `late` are
  capped at "several", which is all the properties ask.
* *Registry.* The numbers 1 to 3 belong to files of earlier runs (`Earlier`), so
  `MaxWrites` 5 lets two operations make new values, which is what two trainings at
  once need; the other scenes draw one, since two of their three values are already
  different. Two symbols, one of them the BTC file that start-up reads, and the file
  elsewhere, which lacks a field or has an odd one (`Found`).
* *Cache.* A page holds one candle and a window two, so a window of 3 units takes
  several full pages and every page after the first may be cut; the other span is
  one candle. The clock moves by one unit, enough to finish the forming candle and
  to begin the next. All subsets of candles the exchange may have are initial
  states. Two callers and two calls are the fewest of which one comes before,
  inside or after any step of the other; with three, losses only add up.
* *Candle files.* Two threads and two downloads: one request, and another that comes
  before, between or after any of its steps. One failed write or killed script at
  any place (`MaxFaults`) in either of them. Of the frames 15, 60, 240 and 1440 there
  are two, the one that is downloaded and one that is made from it; 240 and 1440 go
  through the same lines as 60. A third thread or all operations in one behaviour
  would be tens of millions of states; the six pairs of `MCScenes` are those that
  write or read a common file, each with the mishaps that its properties turn on.
* *Pipeline.* Three threads and three requests can hold every thread at once, each
  waiting for a call that nobody can serve; with three threads two pipelines can
  also get past their calls side by side. Two intervals give the prepare route
  a first one, whose failure ends it, and a later one, whose failure does not.
* *Decisions.* In `MCDecisions`, values lie on both sides of every comparison (the
  gate at 10, the strong frame at 30, thresholds of 0, below and above the gate) and
  include zero and both signs; frames may be missing. Closes and percentages put
  levels less and more than a millionth from the close, at it, and on the wrong side
  (a negative `tp`, a `sl` of 0). Five closes give up to three labelled rows, of
  which two validate (`TrainShare` 40 for the code's 80, `MinLabeled` 2 for 200), the
  fewest that can disagree about a threshold; six closes give three that validate,
  so that equal sums come in different orders. Features:
  30 rows, the fewest that make a matrix, 59 and 60, either side of what the policy
  accepts, and every row of each. Bars: every non-empty set of nine candle times,
  two and four to a bar.

### Fairness, and why the code justifies it

Threads that can go on do go on: weak fairness for each handler that has begun,
for the worker, the loops and the pool threads. Nothing is assumed about requests
arriving. In addition:

* `LiveSpec` of `HydrateQueue` lets every download end; `HangSpec` does not, since
  `backfill_last_months` repeats a failed request for ever. Only the progress half
  of the refinement needs the first.
* `RobotLoop`: every exchange request has a connection and a read timeout and
  every sleep ends, so a loop's next step is never blocked.
* `CandleCache`: `CallReturns` says the cursor does not stand still *if* pages come.
* `PrepareTrain`: scripts and called routes end, and a read timeout strikes in the
  end. Calls through `curl` have no such fairness: they end when they are served.

Deadlock checking is off only where the system may stop: the bounded number of
calls in the cache run, the bounded number of downloads in `candle_files`, and in
`pipeline` and `decisions` when every request has been answered.

### Conditions in the properties

Some properties hold under a condition that is part of their statement, because
the code gives no more:

* `NoSecondEntry` (in `EntriesAreSafe`) holds while position queries are answered
  and no start goes ahead beside another or beside a living loop ("look" is not in
  `mishaps`); `UnguardedIsPending` when no order fails either. Without the condition
  both fail: `get_position` answers null for "flat" and for "no answer"
  (`robot/bybit_helpers.cpp:90`), and `open_trade` reports success when TP/SL were
  refused (line 183). Restarting with another symbol can also make the old loop
  order a symbol it did not check.
* `AtomsMatchModel` and `RamIsOnDisk` speak of the moments when nothing is being
  changed, and of atoms and memory that no two overlapping changes and no patch that
  stopped half way have taken apart (`deeds`); the second also of files that were
  written whole (`failed`). An odd value is in the model, but its atom has the
  default after a start. Each condition is needed: the section after this one says
  what happens without it.
* `ReadyMeansLoaded` leaves out a prepare that met another change (`crossed`), since
  the code compares the symbol only. `NoTermination` names its scenes: any accessor
  but the trainings' beside a change of the json is a data race.
* `TrainedOnPrepared` leaves out requests in `upset`, and pipelines that are `flawed`.
  Drop the first and TLC shows the obvious, a cleanup or a script of another request
  between download and loading; drop the second and it shows a pipeline that trains
  on what a killed `clean_from_raw.sh` has left. `XyFits` leaves out `rivals`: two
  builders at once may save X of one and y of the other, and nothing ever builds them
  again.
* `FeaturesLookBack` leaves out column 31, the cumulative money flow, which is
  scaled by the mean and deviation of the whole series. It exists only when an
  environment variable asks for it.
* `HigherFramesAgree` compares bars where there is no gap and the first candle
  begins a bar.
* `SuccessMeansSaved` speaks of calls that answer ok and whose write took place, with
  nobody else on the file since (`skipped`, `spoiled`): `backfill_last_months` answers
  ok although the file did not open (`utils.h:139-142`, `288`). `WindowComplete` and
  `NoStaleCandle` leave out what the exchange withheld. From the second page on the
  window has room for 1001 candles with a limit of 1000; which one the exchange
  leaves out is its business. If it is the oldest, one candle is lost at each page
  border, and `GapsAreSingle` says never two neighbours.
* `SavedStays` lets the file lack what is in `lost`: the rows that a torn write, a
  kill or a second writer cost, and those that another call had saved after this one
  read the file. Nothing keeps the hydrate worker and `GET /api/backfill` apart.
* `TrainedOnVerified` leaves out the pipelines in `rewritten`, whose file another
  pipeline rewrote between the last check and the training: the check is not made
  again.
* `PoolRecovers` assumes fewer prepare requests than threads. With as many
  (`Prepares` of two and `Threads = 2`, the condition dropped) each holds a thread
  and waits for ever for its `curl`.
* `TrendIsFollowed` speaks of thresholds the trainer can choose (0.30 and up).
  `POST /api/model/set` may store one below 0.134, where a market can be called a
  trend and get `NEUTRAL`.
* `InvertedEntriesAreFlat` lets an order go against the score where the answer says
  "flat", for a robot that asks for less than 70 and a score of that many 70ths of
  the threshold. The default of 60 is such a robot.
* `LevelsKeepTheirSides` compares with the cached close that the levels were computed
  from, which may be of any age; of the market it says nothing. Levels less than
  10^-6 away may be rounded onto the close or over it, and one below half a millionth
  is sent as 0. A `tp` or `sl` that is not positive has its level on the other side,
  and is sent all the same: `GET /api/train` takes any. Without them in the model file
  inference takes 0 for both, and the robot sends the entry price as limits.

### Seen while modelling

Not findings, since the repository promises nothing else, but visible by changing a
constant or a property:

* `stop()` waits for no loop: its wait tests the flag it has just lowered.
* A start whose thread cannot be created leaves `robot_running` up: every further
  start answers "already running", until a stop.
* `GET /api/model/reload` beside a training leaves atoms of two models (the scene
  `Scene({"train", "reload"}, 2, 1, FALSE)` with "crossed" allowed);
  `GET /api/model` beside a training is a data race on the json.
* `POST /api/model/set` stores the atoms before it finds that the file cannot be
  opened. Without a model in memory it takes the file as its base, but stores only
  the atoms given: the others belong to none.
* A training whose dump fails after the truncation answers ok, with a model in memory
  that no file has; the next start finds a torn file and takes the defaults.
* A threshold of 1.0 or an MA length of 100000 is accepted by `model/set`, and any
  MA length by `GET /api/train`, and replaced by the default at the next start.
* A failed training (`ok:false`) replaces a valid model file and is loaded.
* A task with verdict "timeout" may have downloaded everything: the join waits for
  the download, which then has written its file.
* `symbol_prepare.cpp` passes `interval=` to a route that reads `which=`, so each
  of its calls refreshes all four intervals.
* `backfill_last_months` answers ok whether or not the file could be written, and
  takes a reply without a list for an empty page: a window without candles is ok.
* `fetch_15m_and_agg.sh` takes no notice of `months`: it always fetches 180 days.
* `clean_from_raw.sh` keeps rows of seven columns and more. Of a raw file with six, as
  `fetch_bybit_rest.sh` writes it, it makes an empty clean file.
* `fill_gaps_bybit_15m.sh` asks for `category=spot` while all others ask for linear
  contracts: its candles are those of another market.
* `curl` in the scripts has no timeout, so that a fetch can hold `GET /api/train` for
  as long as the exchange likes.
* A clean file, once there, is what a training reads, however old it is; inference
  reads the raw one. Only the routes that fetch and clean keep the two together.
* The pipeline trains on what a failed script has left, torn or old, if it has 300
  rows without a gap.
* Bars cut by count stay displaced when the first candle does not begin a bar. A later
  backfill merges the exchange's own bars between them.
* Below the threshold the answer's signal is the opposite of the policy's. Just
  below it the confidence is almost 70, and a robot with the default `minConfidence`
  of 60 enters against the score; just above it the signal turns round and the
  confidence may be near 0. The counters shown as `agents` count the policy's
  signal.
* A short takes its profit when the price has fallen by `sl` and is stopped when it
  has risen by `tp`. On labelled rows that only weighs rows differently; in
  `train_env`, which simulates all rows, a short can lose up to `tp` with a smaller
  `sl`.
* The trainer's future return is that from the next candle to the one after it,
  `train_env`'s that to the next candle.

## 4. Proofs

Eight modules hold theorems, one for each module of section 2 with a run (the two
about the queue share their invariants). They hold for all values of the constants
that the named assumptions of the modules admit (`QueueConstants`, `RobotConstants`,
...: sets that are finite or disjoint, bounds that are numbers), so for any number
of threads, requests, symbols and downloads, and under the bare `Spec` without
fairness.

| Module | Theorem | Property |
|---|---|---|
| `HydrateQueueProofs` | `TypeCorrect` | `TypeOK` |
|  | `DownloadsDoNotOverlap` | `OneDownload` |
|  | `TasksAreNotLost` | `NoTaskLost` |
|  | `ReturnedIdsStayKnown` | `ReturnedIdIsKnown` |
|  | `VerdictsHavePayload` | `VerdictHasPayload` |
|  | `TotalsCountTasks` | `CountersMatch` |
|  | `QueueServesInOrder` | `ServesInOrder`: the queue implements `TaskBoard` |
| `HydrateApiProofs` | `ReadersAreQuiet` | the queue with readers is still the queue |
|  | `AnswersAreConsistent` | `AnswerConsistent` |
|  | `PollersNeverRegress` | `PollsNeverRegress`, an action property |
|  | `ReportsCoverWhatWasShown` | `ReportCoversShown` |
| `RobotLoopProofs` | `TypeCorrect` | `TypeOK` |
|  | `LoopsOrderOnceAfterStop` | `OneLateOrder` |
|  | `CrashesNeedCrossing` | `CrashNeedsCrossing`: for any number of handlers, of which `NoCrash` is the case of one |
|  | `PositionsAreSafe` | `EntriesAreSafe` |
| `ModelRegistryProofs` | `TypeCorrect` | `TypeOK` |
|  | `NothingTerminates` | `NoTermination` |
|  | `AtomsAgree` | `AtomsMatchModel` |
|  | `MemoryIsSaved` | `RamIsOnDisk` |
|  | `ReadyIsReady` | `ReadyMeansLoaded` |
| `CandleCacheProofs` | `TypeCorrect` | `TypeOK` |
|  | `SuccessIsComplete` | `SuccessMeansSaved` |
|  | `LossesAreBounded` | `SavedStays` |
| `CandleFilesProofs` | `TypeCorrect` | `TypeOK` |
|  | `TrainsOnPrepared` | `TrainedOnPrepared` |
|  | `XyFitTogether` | `XyFits` |
| `PrepareTrainProofs` | `TypeCorrect` | `TypeOK` |
|  | `NoCallOutlivesItsStep` | `CallsAreCurrent` |
|  | `OkMeansTrainedOnVerified` | `TrainedOnVerified` |
| `DecisionsProofs` | `ModeFitsThePolicy` | `ModeMatchesPolicy` |
|  | `DecisionsAreBacked` | `DirectionsAreBacked` |
|  | `NothingLooksAhead` | `NoLookAhead` |
|  | `ScoredRowsAreComplete` | `ScoredRowIsComplete` |
|  | `LimitsAreKept` | `LimitsHold` |
|  | `BestThrIsAccurate` | `BestThrIsMostAccurate` |
|  | `HigherFramesMatch` | `HigherFramesAgree` |

Nothing is assumed about who calls what, how many at once, or what fails: the
conditions that a property needs are in its statement (section 3) and are histories
of what has happened. Bounds such as `MaxStarts` and `MaxWrites` are any number.

### The arguments

Almost none of the invariants is inductive. In each module a few named parts say
what the property leaves out, TLC checked them on the runs' instances before they
were proved, and each part is shown to be kept by every action (one step per action,
one lemma per part where the argument is long).

**HydrateQueue.** That a task is in one pair of hands follows from where it was
before, and that downloads do not overlap from there being one worker:

    IInv == Typed /\ OneWorker /\ FreshIds /\ QueueClean /\ HandsClean /\ TasksPlaced

* `OneWorker`: the compare-exchange in `ensure_worker` lets one thread through;
* `FreshIds`: an id between `fetch_add` and the critical section belongs to one
  client and is not in the map; ids in the map are below `g_next_id`;
* `QueueClean`: queued ids are visible, untouched and there once;
* `HandsClean`: what the worker holds is in the state its place says, and a task
  that is being judged has no download any more (this is where `JoinFuture` enters);
* `TasksPlaced`: every task that has no verdict is in the queue or in hands.

`VerdictHasPayload` needs `Paid`, which adds what the worker's result looks like
before it is published. `CountersMatch` is inductive next to these: each action
changes a total and the set it counts by the same one. The refinement (`BoardStep`)
shows that every step is a step of the board or changes nothing of it: `PushTask` is
`Submit`, `Pop` leaves the line alone because the popped task still counts as its
head, `MarkRunning` is `Start`, `Publish` is `Finish`.

**HydrateApi.** `ReadersAreQuiet` carries everything above over to the composed
module. A poller's knowledge is then compared with the queue: `PollersFollow` says
that what it was shown is what the task is or was (`Behind`), which no move of the
queue can undo, because a task only advances (`Moves`). A copy fits together because
of `Placeholders` (what a task without a verdict carries) and `Paid`.
`ReportsCovered` follows the four loads one by one: the verdicts shown are frozen
while a report is put together, and each total already loaded covers them.

**RobotLoop.** `LateLoopsLeave`: a loop that ordered after the flag went down is
past its order and the flag is still down, so it leaves. `PointerFits`: until a
start or stop has crossed another, one handler at most is on its way, and the raw
pointer is null or leads to a detached object, but for the moment between `new` and
`detach`, or `delete` and `nullptr`. For the positions, `Exclusive` (until starts
overlap, one start or one loop is alive) makes it enough that a loop looked before
it orders (`LookedFirst`). These parts carry their condition with them, the history
`mishaps`, since it only grows.

**ModelRegistry.** `Orderly` (`TypeOK`; `Routes`, whose handler is where; `Locked`, who
trains has the mutex; `Bounded`, the requests at once and the numbers still to be
drawn; `Safe`) is what the routes and the lock see to. `Consistent` is about the
values: `SoundOf` says of a thread that met no other that the model it is going to
put into memory fits the atoms as they will be when it has stored what is pending
(`Will`), and is what its file holds once that is written whole; `Alone`, that two of
whom one relies on what the other is changing have met; `Matched` and `OnDisk`, that
memory fits atoms and file as long as the changes under way have not come to them.
A change that begins marks all who rely, and is marked by all who change: that is
why the histories need no more than the moment of `Begin`.

**CandleCache.** `Paged` is the invariant of the cursor: before it the call has
every candle that was sent in a row that counts, but for those cut off an overfull
page, and of these it has the next one. It needs that candles open at least their
length apart and that at most `Limit` of them open in a page's span, which are lemmas
on grids of numbers (by the well-founded order of the naturals). `Saves` says the same
of the merged rows, whatever the file had; `Progress` is both, for any number of
callers. `Written` connects a call that nothing has spoiled with the file. `Kept`
follows each candle ever saved: it is in the file, on record as lost, or held by a
writer (merged, or `missed` and thus lost with its write), and a call that is about
to truncate holds it or trims it.

**CandleFiles.** `Typed` has what scripts keep to (`Proper`) and that only a pipeline
goes on after a failed step (`Candid`). `Sound` is what is left of a script that
fetches: every write reads raw files that were written before it, none reads the
file it fills, and in the end every file has been written. `Undisturbed` adds that
the files still wanted (`Wanted`) are all rows of the request's own download;
`Prepared` claims it of requests whose own steps succeeded (`Steady`) and that are not
upset. A step of another thread, a failing write among them, either leaves the
wanted files alone or puts the request into `upset`. `Paired`: one thread builds X and
y, y is saved after X and is absent in between.

**PrepareTrain.** `Orderly` ties the pool to the requests: `Pooled` (no connection is
there twice), `Seats` (a request is in the pool from arrival to answer, with a thread
where its step is `Busy`), `CallsOut` (a call in the pool is waited for, or was
given up by a pipeline that failed), `Holder` and `Locked` (of the mutex). `Verified`
says at each step what a pipeline that is not in `rewritten` knows of its file and
its training's: whoever changes a file puts those who rely on it there.

**Decisions.** The invariant `Answers` says that what was answered is what the route
computes; the rest are facts about operators, for all integers and series of any
length. Each feature is a cell whose reads and NaN rows are bounded (`Sound`), and
every combination of cells is shown to keep the bound. `LevelsKeepTheirSides` rests
on `SentIsNear` (a price sent is within half a unit of the one meant) and on where a
percentage of a close lies. `BestThrIsMostAccurate` takes the longest way: the
labelled rows are those of the recursion in `Labeled`, the summed reward of a
threshold is `(tp + sl) * right - sl * all`, so that every threshold of the greatest
reward, whichever of them the rounding picks, has the most rows right; and a
greatest value of a finite set exists, so that there is one. `HigherFramesAgree`
unrolls the two folds into sequences of states (`CountIsStepwise`,
`TimeIsStepwise`), shows that after each row the bars joined are the rows read, and
that without gaps both cut where `k \div G` changes. The library's induction
theorems take an operator as a parameter, which the provers cannot instantiate;
these proofs use `Counting` instead, a set of numbers with 0 and all successors is
all of them, which follows from the least element of a set of naturals.

**Only model-checked:** progress (`ServesEverybody`, `StoppedLoopsEnd`,
`CallReturns`, `PoolRecovers`), which needs fairness and `ENABLED` and is out of the
prover's reach, and the four violations.

## 5. Not modelled, and why

* Numbers of floating-point code: feature values, regression, optimiser, indicators,
  reward statistics, the trap index. Where a result matters it is a choice
  (`TrainRun`, `AskSignal`) or an input of `Decisions`; of a feature there is what it
  is computed from.
* The trading environment (`env/*`): built only with `ETAI_BUILD_ENV`, which is off;
  nothing calls it, and `EpisodeRunner::run_fixed` has no definition.
* `setenv` in `GET /api/train_env` (`routes/train_env.cpp:211`), where the
  parameters of one request become the defaults of later ones, and a concurrent
  `getenv` is undefined behaviour. There is no property about it, because there
  is nothing the route promises of its defaults.
* `GET /api/health/ai` puts an answer together from two copies of the model in memory
  and from files; of it there are the copies (`ShowRequest`), which is what it does to
  others. What it shows changes nothing.
* `AgentState` (run, stop, status of the agents): nothing acts on it.
* `POST /api/robot/config` and the key files: `StartConfigure` takes any
  configuration, so whatever these files hold when a start reads them is covered;
  that a half-written file reads as the defaults is not shown.
* Torn reads of the robot's config, a `std::string` written without a lock: the
  model replaces the config in one step, which is kinder than the code.
* Bytes of two concurrent writers mingling in one candle file. In `CandleFiles` the
  last one to fill a file wins; in `CandleCache` a writer may have come anywhere, but
  two do not take turns.
* What falls between choosing a path and opening it (`select_raw_path`, then
  `load_raw_ohlcv`): a load is one step, which a cleanup comes before or after.
* Rows off the grid, which `make_clean.sh` drops, and the 1-minute interval of
  `GET /api/backfill`; scripts that only check or report and are run by hand.
* `tp` and `sl` in the model file of `ModelRegistry`; they enter with `Decisions`.
* The quantity of an order, and what the exchange's own rounding makes of a price.
* A script that survives its server: `Kill` takes both (a script that is killed alone
  is `Fails`). Under systemd they share a control group; started from a shell they
  need not.
* Keep-alive connections, which hold a pool thread up to five seconds longer.
* Normalisation of request parameters, wording of answers, logging, metrics text,
  the read-only routes that print counters.
* Vendored libraries except the thread pool (`json.hpp` and `httplib.h`, twice, are
  most of the repository's lines); `src.backup.*`, `*.backup`, the top-level
  `routes/pipeline.cpp`, `ppo.cpp` and functions nobody calls.

## 6. Plan

Done, in this order: `HydrateQueue` with `TaskBoard`, `HydrateApi` and proofs;
`RobotLoop`; `ModelRegistry`; `CandleCache`; `ServerPool` with `PrepareTrain`;
`InferDecision`, `AgentVote` and `ThresholdSearch` with `Decisions`; then scenes in
`ModelRegistry`; `CandleFiles`; `FeatureMatrix` and `HigherFrames` in `Decisions`; then
what fails unnoticed (writes, scripts, the birth of a thread), overlapping callers in
`CandleCache`, and histories in place of assumptions about callers.

Of the system, what is left is small: `POST /api/robot/config` and `/keys` beside
`start` with their half-written files, and `setenv` between two requests.

Proved: every invariant and action property of the passing runs and the refinement
`ServesInOrder` (section 4).

Next: narrower histories. `upset` and `crossed` are set at the first change that
meets another; for some of these changes the property holds all the same, and the
invariants would show which.
