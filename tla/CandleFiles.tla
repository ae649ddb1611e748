----------------------------- MODULE CandleFiles -----------------------------
(***************************************************************************)
(* The candle files of one symbol, cache/S_<tf>.csv ("raw") and            *)
(* cache/clean/S_<tf>.csv ("clean"), and everybody who writes or reads     *)
(* them: GET /api/train with its fetch script and its cleanup, the         *)
(* pipeline with its scripts, the hydrate worker, an operator's            *)
(* fetch_bybit_rest.sh, and the loaders of src/src/utils_data.cpp.  Nobody *)
(* holds a lock on a file.                                                 *)
(*                                                                         *)
(* A script is the sequence of the files it writes.  A file that is        *)
(* written in place is truncated in one step and filled in another; the    *)
(* source is read while it is being filled.  Rows are not told apart: a    *)
(* file has those of one download, all of them or only the first.  Of the  *)
(* four time frames there are two; 240 and 1440 are treated as 60 is.      *)
(* The exchange has candles of the symbol, and two scripts do not use the  *)
(* same temporary name at the same time.  train_mutex, which would make    *)
(* one training wait for another, protects no file and is left out.        *)
(***************************************************************************)
EXTENDS Integers, Sequences

CONSTANTS
  Threads,                (* HTTP threads, the hydrate worker, operators   *)
  Scenes,                 (* which operations and mishaps go together in a *)
                          (* behaviour                                     *)
  MaxRuns, MaxFaults      (* bounds: downloads, files not written          *)

ASSUME FilesConstants ==
  /\ Scenes \subseteq SUBSET {"train", "pipeline", "hydrate", "rest", "agents",
                             "failing", "kills"}
  /\ MaxRuns \in Nat /\ MaxFaults \in Nat

VARIABLES
  files,                  (* the candle files                              *)
  xfile, yfile,           (* cache/xy/S_15_X.csv and _y.csv                *)
  pc, job,                (* a thread's place and the locals of its request*)
  runs,                   (* downloads so far; each has a number           *)
  faults,                 (* failed writes so far                          *)
  upset,                  (* history: threads whose files others changed   *)
  rivals,                 (* history: two threads built X and y at once    *)
  ops                     (* the operations and mishaps of this behaviour  *)

vars == <<files, xfile, yfile, pc, job, runs, faults, upset, rivals, ops>>
others == <<xfile, yfile, faults, rivals, ops>>

Frames == {"15", "60"}
Raw(f)   == <<"raw", f>>
Clean(f) == <<"clean", f>>
Names == {Raw(f) : f \in Frames} \cup {Clean(f) : f \in Frames}

-----------------------------------------------------------------------------
(* What is in a file                                                       *)

Kinds == {"gone", "empty", "open", "rows"}
Content == [kind : Kinds, of : 0..MaxRuns, whole : BOOLEAN, cols : {0, 6, 7}]

Gone  == [kind |-> "gone", of |-> 0, whole |-> FALSE, cols |-> 0]
Empty == [Gone EXCEPT !.kind = "empty"]
Rows(n, whole, cols) == [kind |-> "rows", of |-> n, whole |-> whole, cols |-> cols]

\* Truncated, and on its way to the rows of download n.
Opened(n, cols) == [kind |-> "open", of |-> n, whole |-> FALSE, cols |-> cols]

\* What a reader may find in a file.
Seen(c) == IF c.kind = "open" THEN {Empty, Rows(c.of, FALSE, c.cols)} ELSE {c}

HasRows(c) == c.kind = "rows"

-----------------------------------------------------------------------------
(* Scripts.  A write: the file, its source (Net for the download), the     *)
(* columns it gets, whether rows need seven columns to be taken over,      *)
(* whether it is moved into place, and what happens if its source is       *)
(* missing or empty: "stop" the script, "skip" the file, "go" on, or "add" *)
(* the candles just fetched to the rows there are.                         *)

Net == <<"net", "">>
Write(file, source, cols, seven, moved, else) ==
  [file |-> file, source |-> source, cols |-> cols, seven |-> seven,
   moved |-> moved, else |-> else]

fetch_15m_and_agg ==
  << Write(Raw("15"),   Net,       7, FALSE, FALSE, "go"),
     Write(Clean("15"), Raw("15"), 6, TRUE,  FALSE, "stop"),
     Write(Raw("60"),   Raw("15"), 7, FALSE, FALSE, "go"),
     Write(Clean("60"), Raw("60"), 6, FALSE, FALSE, "go") >>

\* Mutant: all seven columns are kept.
clean_copied ==
  << Write(Clean("15"), Raw("15"), 7, TRUE, FALSE, "skip"),
     Write(Clean("60"), Raw("60"), 7, TRUE, FALSE, "skip") >>

clean_from_raw ==
  << Write(Clean("15"), Raw("15"), 6, TRUE, FALSE, "skip"),
     Write(Clean("60"), Raw("60"), 6, TRUE, FALSE, "skip") >>

\* Once it has fetched a missing candle.
fill_gaps == << Write(Raw("15"), Raw("15"), 7, TRUE, TRUE, "add") >> \o clean_from_raw

backfill(f) == << Write(Raw(f), Net, 7, FALSE, FALSE, "go") >>

\* Without turnover; make_clean.sh is its last command.
fetch_bybit_rest ==
  << Write(Raw("60"),   Net,       6, FALSE, FALSE, "go"),
     Write(Raw("15"),   Net,       6, FALSE, FALSE, "go"),
     Write(Clean("15"), Raw("15"), 6, FALSE, TRUE,  "skip"),
     Write(Clean("60"), Raw("60"), 6, FALSE, TRUE,  "skip") >>

\* What a write makes of what it finds in its source.
Made(w, c, run, whole) ==
  IF w.source = Net THEN Rows(run, whole, w.cols)
  ELSE IF HasRows(c) /\ (w.seven => c.cols = 7) THEN Rows(c.of, c.whole, w.cols)
  ELSE IF w.else = "add" THEN Rows(run, FALSE, w.cols)
  ELSE Empty

-----------------------------------------------------------------------------
NoLoad == [f \in Frames |-> Gone]
NoJob == [op |-> "none", todo |-> <<>>, run |-> 0, fetch |-> FALSE,
          cleanup |-> FALSE, filled |-> FALSE, flawed |-> FALSE, wrote |-> {},
          made |-> Gone, loaded |-> NoLoad]

Init ==
  /\ files = [g \in Names |-> Gone]
  /\ xfile = Gone /\ yfile = Gone
  /\ pc  = [t \in Threads |-> "idle"]
  /\ job = [t \in Threads |-> NoJob]
  /\ runs = 0 /\ faults = 0
  /\ upset = {}
  /\ rivals = FALSE
  /\ ops \in Scenes

Goes(t, from, to) == pc[t] = from /\ pc' = [pc EXCEPT ![t] = to]

\* The request is answered, or the script is over: nothing is left of it.
Ends(t, from) ==
  /\ Goes(t, from, "idle")
  /\ job' = [job EXCEPT ![t] = NoJob]
  /\ upset' = upset \ {t}

\* The files that a thread wrote and has yet to use: sources of what it will
\* write, clean files until they are loaded, and in the pipeline, which
\* takes a snapshot after the training, the raw ones as well.
Needed(t) ==
  LET j == job[t]
      Source(g) == \E i \in DOMAIN j.todo : j.todo[i].source = g
      Later(g) == \/ g[1] = "clean" /\ pc[t] # "infer15" /\ pc[t] # "infer60"
                  \/ g[1] = "raw" /\ j.op = "pipeline"
  IN {g \in j.wrote : Source(g) \/ (j.op \in {"train", "pipeline"} /\ Later(g))}
       \cup (IF pc[t] = "fill" THEN {Head(j.todo).file} ELSE {})

\* A file changes; whoever needs it is upset.
Change(t, new) ==
  LET changed == {g \in Names : new[g] # files[g]} IN
  /\ files' = new
  /\ upset' = upset \cup {u \in Threads \ {t} : Needed(u) \cap changed # {}}

Request(t, place, j) ==
  /\ j.op \in ops
  /\ Goes(t, "idle", place)
  /\ job' = [job EXCEPT ![t] = j]
  /\ upset' = upset \ {t}
  /\ UNCHANGED <<files, runs, others>>

\* GET /api/train
Train(t) ==
  \E fetch, cleanup \in BOOLEAN :
    Request(t, IF fetch THEN "net" ELSE "load15",
      [NoJob EXCEPT !.op = "train", !.fetch = fetch, !.cleanup = cleanup,
         !.todo = IF fetch THEN fetch_15m_and_agg ELSE <<>>])

\* POST /api/pipeline/prepare_train: backfill, then clean.
Pipeline(t) ==
  Request(t, "net", [NoJob EXCEPT !.op = "pipeline", !.fetch = TRUE,
                       !.todo = backfill("15") \o backfill("60") \o clean_from_raw])

\* One task of the hydrate worker, or GET /api/backfill for one frame.
Hydrate(t) ==
  \E f \in Frames : Request(t, "net", [NoJob EXCEPT !.op = "hydrate", !.todo = backfill(f)])

\* An operator's shell.
Rest(t) == Request(t, "net", [NoJob EXCEPT !.op = "rest", !.todo = fetch_bybit_rest])

\* GET /api/agents/run and /api/agents/decision; the latter asks for no health.
Agents(t) ==
  \E place \in {"health", "exists"} : Request(t, place, [NoJob EXCEPT !.op = "agents"])

-----------------------------------------------------------------------------
(* Downloading and writing                                                 *)

Download(t) ==
  /\ runs < MaxRuns
  /\ runs' = runs + 1
  /\ Goes(t, "net", "open")
  /\ job' = [job EXCEPT ![t].run = runs']
  /\ UNCHANGED <<files, upset, others>>

\* The script exits before it has written anything: 500 fetch_failed.
DownloadFails(t) ==
  /\ job[t].op \in {"train", "rest"}
  /\ Ends(t, "net")
  /\ UNCHANGED <<files, runs, others>>

\* Where a thread goes on once its script, or the part of it, is over.
AfterScript(t) ==
  CASE job[t].op = "train"    -> "load15"
    [] job[t].op = "pipeline" -> "check"
    [] OTHER                  -> "idle"

\* On to the next file; `ill` if this one was not written as it should be.
Proceed(t, from, wrote, ill) ==
  LET rest == Tail(job[t].todo) IN
  /\ Goes(t, from, IF rest # <<>> THEN "open" ELSE AfterScript(t))
  /\ job' = [job EXCEPT ![t] =
       IF rest = <<>> /\ AfterScript(t) = "idle" THEN NoJob
       ELSE [job[t] EXCEPT !.todo = rest, !.wrote = @ \cup wrote, !.made = Gone,
                           !.flawed = @ \/ ill]]

\* Mutant: GET /api/train does not look at the exit code of its script.
AbortsUnseen(t, from) ==
  IF AfterScript(t) # "idle"
  THEN Goes(t, from, AfterScript(t)) /\ job' = [job EXCEPT ![t].todo = <<>>]
  ELSE Goes(t, from, "idle") /\ job' = [job EXCEPT ![t] = NoJob]

\* The script ends here.  GET /api/train answers 500 fetch_failed, the
\* pipeline does not look at the exit code.
Aborts(t, from) ==
  IF job[t].op = "pipeline"
  THEN /\ Goes(t, from, "check")
       /\ job' = [job EXCEPT ![t].todo = <<>>, ![t].made = Gone, ![t].flawed = TRUE]
  ELSE Goes(t, from, "idle") /\ job' = [job EXCEPT ![t] = NoJob]

Lacking(t) ==
  /\ pc[t] = "open"
  /\ LET w == Head(job[t].todo) IN
     w.source # Net /\ \E c \in Seen(files[w.source]) : ~HasRows(c)

Skip(t) ==
  /\ Lacking(t) /\ Head(job[t].todo).else = "skip"
  /\ Proceed(t, "open", {}, FALSE)
  /\ UNCHANGED <<files, runs, upset, others>>

\* set -e.
Stop(t) ==
  /\ Lacking(t)
  /\ LET w == Head(job[t].todo) IN
     w.else = "stop" \/ (w.else = "add" /\ files[w.source].kind = "gone")
  /\ Aborts(t, "open")
  /\ UNCHANGED <<files, runs, upset, others>>

\* In place: the shell or the stream truncates the file.
Open(t) ==
  /\ Goes(t, "open", "fill")
  /\ LET w == Head(job[t].todo)
         source == IF w.source = Net THEN Gone ELSE files[w.source] IN
     /\ ~w.moved
     /\ w.else = "go" \/ \E c \in Seen(source) : HasRows(c)
     /\ Change(t, [files EXCEPT ![w.file] =
          Opened(IF w.source = Net THEN job[t].run ELSE source.of, w.cols)])
  /\ UNCHANGED <<job, runs, others>>

\* Beside: the whole of it is made under another name.
Make(t) ==
  /\ Goes(t, "open", "move")
  /\ LET w == Head(job[t].todo) IN
     /\ w.moved
     /\ \A u \in Threads : pc[u] = "move" => Head(job[u].todo).file # w.file
     /\ \E c \in Seen(files[w.source]) :
          /\ HasRows(c) \/ (w.else = "add" /\ c.kind # "gone")
          /\ job' = [job EXCEPT ![t].made = Made(w, c, job[t].run, FALSE)]
  /\ UNCHANGED <<files, runs, upset, others>>

\* The rows are written.  fetch_bybit_rest.sh takes a failed request for the
\* end of the data; awk fails if its source is gone.
Fill(t) ==
  /\ pc[t] = "fill"
  /\ LET w == Head(job[t].todo)
         source == IF w.source = Net THEN Gone ELSE files[w.source] IN
     /\ \E c \in Seen(source), whole \in BOOLEAN :
          /\ whole \/ job[t].op = "rest"
          /\ Change(t, [files EXCEPT ![w.file] = Made(w, c, job[t].run, whole)])
     /\ IF source.kind = "gone" /\ w.source # Net
        THEN Aborts(t, "fill") ELSE Proceed(t, "fill", {w.file}, FALSE)
  /\ UNCHANGED <<runs, others>>

\* The disk is full, the file cannot be opened, sort or awk fails, or the
\* script alone is killed: the file keeps what it has got.  A script ends
\* with that; backfill_last_months, which is no script, does not notice.
ByScript(t) == job[t].op \in {"train", "rest"} \/ Head(job[t].todo).source # Net

Fails(t) ==
  /\ "failing" \in ops /\ faults < MaxFaults
  /\ faults' = faults + 1
  /\ pc[t] \in {"open", "fill", "move"}
  /\ LET w == Head(job[t].todo)
         source == IF w.source = Net THEN Gone ELSE files[w.source] IN
     IF pc[t] = "fill"
     THEN \E c \in Seen(source), cut \in BOOLEAN :
            Change(t, [files EXCEPT ![w.file] =
              IF cut THEN Empty ELSE [Made(w, c, job[t].run, FALSE) EXCEPT !.whole = FALSE]])
     ELSE UNCHANGED <<files, upset>>
  /\ IF ByScript(t) THEN Aborts(t, pc[t]) ELSE Proceed(t, pc[t], {}, TRUE)
  /\ UNCHANGED <<runs, xfile, yfile, rivals, ops>>

\* The new file takes the place of the old one.
Move(t) ==
  /\ Proceed(t, "move", {Head(job[t].todo).file}, FALSE)
  /\ Change(t, [files EXCEPT ![Head(job[t].todo).file] = job[t].made])
  /\ UNCHANGED <<runs, others>>

-----------------------------------------------------------------------------
(* Between the scripts and the training                                    *)

\* The pipeline looks for gaps, fills them once, and counts the rows.
Check(t) ==
  /\ \/ /\ ~job[t].filled /\ files[Clean("15")].kind \in {"rows", "open"}
        /\ Goes(t, "check", "fetched")
        /\ job' = [job EXCEPT ![t].filled = TRUE]
        /\ UNCHANGED upset
     \/ /\ \E c \in Seen(files[Clean("15")]) : HasRows(c)
        /\ Goes(t, "check", "load15")
        /\ UNCHANGED <<job, upset>>
     \/ Ends(t, "check")
  /\ UNCHANGED <<files, runs, others>>

\* fill_gaps_bybit_15m.sh got a candle, or none.
FillGaps(t) ==
  /\ \/ /\ Goes(t, "fetched", "open")
        /\ \A f \in {Raw("15"), Clean("15")} : files[f].kind # "gone"
        /\ job' = [job EXCEPT ![t].todo = fill_gaps]
     \/ Goes(t, "fetched", "check") /\ UNCHANGED job
  /\ UNCHANGED <<files, runs, upset, others>>

\* Mutant: the fresh raw file does, once it exists.
select_raw_first(f) == IF files[Raw(f)].kind # "gone" THEN Raw(f) ELSE Clean(f)

select_raw_path(f) == IF files[Clean(f)].kind # "gone" THEN Clean(f) ELSE Raw(f)

\* load_raw_ohlcv: without the 15m candles the training throws, without
\* those of the higher frame it does without.
LoadFrame(t, f, from, to) ==
  \E c \in Seen(files[select_raw_path(f)]) :
    /\ \/ /\ f = "60" \/ HasRows(c)
          /\ Goes(t, from, to)
          /\ job' = [job EXCEPT ![t].loaded[f] = IF HasRows(c) THEN c ELSE Gone]
          /\ UNCHANGED upset
       \/ f = "15" /\ ~HasRows(c) /\ Ends(t, from)
    /\ UNCHANGED <<files, runs, others>>

Load(t) == LoadFrame(t, "15", "load15", "load60") \/ LoadFrame(t, "60", "load60", "trained")

\* The training is over, well or not; the answer of the pipeline needs a
\* snapshot, and GET /api/train may have to clean up.
AfterTraining(t) ==
  /\ \/ job[t].op = "pipeline" /\ Goes(t, "trained", "infer15") /\ UNCHANGED <<job, upset>>
     \/ job[t].cleanup /\ Goes(t, "trained", "rmraw") /\ UNCHANGED <<job, upset>>
     \/ ~job[t].cleanup /\ Ends(t, "trained")
  /\ UNCHANGED <<files, runs, others>>

\* load_cached_matrix: GET /api/infer reads the raw files.
InferFrame(t, f, from, to) ==
  /\ Goes(t, from, to)
  /\ \E c \in Seen(files[Raw(f)]) : job' = [job EXCEPT ![t].loaded[f] = c]
  /\ UNCHANGED <<files, runs, upset, others>>

Infer(t) == InferFrame(t, "15", "infer15", "infer60") \/ InferFrame(t, "60", "infer60", "inferred")

Answer(t) == Ends(t, "inferred") /\ UNCHANGED <<files, runs, others>>

\* rm -f: the raw files, then the clean ones.
Without(dir) == [g \in Names |-> IF g[1] = dir THEN Gone ELSE files[g]]

CleanUp(t) ==
  /\ \/ Goes(t, "rmraw", "rmclean") /\ Change(t, Without("raw")) /\ UNCHANGED job
     \/ /\ Goes(t, "rmclean", "idle") /\ Change(t, Without("clean"))
        /\ job' = [job EXCEPT ![t] = NoJob]
  /\ UNCHANGED <<runs, others>>

-----------------------------------------------------------------------------
(* The cache of features, X and y: load_cached_xy                          *)

\* data_health_report: a clean file with rows enough.
Health(t) ==
  /\ \/ /\ \E c \in Seen(files[Clean("15")]) : HasRows(c)
        /\ Goes(t, "health", "exists") /\ UNCHANGED <<job, upset>>
     \/ Ends(t, "health")
  /\ UNCHANGED <<files, runs, others>>

\* Both there: they are loaded and that is that.  Otherwise the candles are.
Exists(t) ==
  LET missing == xfile = Gone \/ yfile = Gone IN
  /\ \/ missing /\ Goes(t, "exists", "loading") /\ UNCHANGED <<job, upset>>
     \/ ~missing /\ Ends(t, "exists")
  /\ rivals' = (rivals \/ (missing /\ \E u \in Threads \ {t} :
                                        pc[u] \in {"loading", "savex", "savey"}))
  /\ UNCHANGED <<files, xfile, yfile, runs, faults, ops>>

\* Mutant: only the file that is missing is built.
BuildMissing(t) ==
  /\ \E c \in Seen(files[select_raw_path("15")]) :
       \/ /\ HasRows(c) /\ Goes(t, "loading", IF xfile # Gone THEN "savey" ELSE "savex")
          /\ job' = [job EXCEPT ![t].made = c]
          /\ UNCHANGED upset
       \/ ~HasRows(c) /\ Ends(t, "loading")
  /\ UNCHANGED <<files, runs, others>>

Build(t) ==
  /\ \E c \in Seen(files[select_raw_path("15")]) :
       \/ /\ HasRows(c) /\ Goes(t, "loading", "savex")
          /\ job' = [job EXCEPT ![t].made = c]
          /\ UNCHANGED upset
       \/ ~HasRows(c) /\ Ends(t, "loading")
  /\ UNCHANGED <<files, runs, others>>

\* arma::Mat::save writes beside the file and renames.
SaveX(t) ==
  /\ Goes(t, "savex", "savey")
  /\ xfile' = job[t].made
  /\ UNCHANGED <<files, yfile, job, runs, faults, upset, rivals, ops>>

SaveY(t) ==
  /\ Ends(t, "savey")
  /\ yfile' = job[t].made
  /\ UNCHANGED <<files, xfile, runs, faults, rivals, ops>>

-----------------------------------------------------------------------------
\* The service is stopped: its threads and the scripts it runs are killed,
\* and what was being written is left as it is.  For a script alone see Fails.
Kill ==
  /\ "kills" \in ops
  /\ \E cut \in SUBSET {g \in Names : files[g].kind = "open"} :
       files' = [g \in Names |->
         IF g \in cut THEN Empty
         ELSE IF files[g].kind = "open" THEN Rows(files[g].of, FALSE, files[g].cols)
         ELSE files[g]]
  /\ pc'  = [t \in Threads |-> "idle"]
  /\ job' = [t \in Threads |-> NoJob]
  /\ upset' = {}
  /\ UNCHANGED <<runs, others>>

Asking(t)   == Train(t) \/ Pipeline(t) \/ Hydrate(t) \/ Rest(t) \/ Agents(t)
Writing(t)  == Skip(t) \/ Stop(t) \/ Open(t) \/ Make(t) \/ Fill(t) \/ Move(t) \/ Fails(t)
Training(t) == Check(t) \/ FillGaps(t) \/ Load(t) \/ AfterTraining(t) \/ Infer(t) \/ Answer(t)
Caching(t)  == Health(t) \/ Exists(t) \/ Build(t) \/ SaveX(t) \/ SaveY(t)

Next ==
  \/ \E t \in Threads :
       \/ Asking(t) \/ Download(t) \/ DownloadFails(t) \/ Writing(t)
       \/ Training(t) \/ CleanUp(t) \/ Caching(t)
  \/ Kill

Spec == Init /\ [][Next]_vars

-----------------------------------------------------------------------------
(* Properties *)

Places == {"idle", "net", "open", "fill", "move", "check", "fetched", "load15", "load60",
           "trained", "infer15", "infer60", "inferred", "rmraw", "rmclean", "health",
           "exists", "loading", "savex", "savey"}

TypeOK ==
  /\ files \in [Names -> Content] /\ \A f \in Frames : files[Clean(f)].cols # 7
  /\ {xfile, yfile} \subseteq Content
  /\ pc \in [Threads -> Places]
  /\ \A t \in Threads :
       LET j == job[t] IN
       /\ j.op \in ops \cup {"none"}
       /\ j.run \in 0..MaxRuns
       /\ j.wrote \subseteq Names
       /\ j.flawed \in BOOLEAN /\ (j.flawed => j.op # "train")
       /\ j.made \in Content
       /\ j.loaded \in [Frames -> Content]
  /\ runs \in 0..MaxRuns /\ faults \in 0..MaxFaults
  /\ upset \subseteq Threads
  /\ rivals \in BOOLEAN
  /\ ops \in Scenes

(* GET /api/train trains "on the cache/* and cache/clean/* just prepared"  *)
(* (train.cpp:123), and so does the pipeline, whose snapshot then looks at *)
(* the same candles: all rows, in every frame, of the download made for    *)
(* the request.  That is so whatever killed scripts, full disks, failed    *)
(* downloads and operators left behind, and although others go on          *)
(* rewriting files that this request no longer needs or has not written    *)
(* yet; GET /api/train trains on nothing else when a step of its own       *)
(* script fails either.  Not so if somebody changes a file the request     *)
(* still needs (upset), and, in the pipeline, which looks neither at exit  *)
(* codes nor at the result of a frame, if a step of its own fails (flawed).*)
TrainedOnPrepared ==
  \A t \in Threads :
    /\ pc[t] \in {"trained", "inferred"} /\ job[t].fetch
    /\ t \notin upset
    /\ job[t].op = "pipeline" => ~job[t].flawed
    => \A f \in Frames :
         LET c == job[t].loaded[f] IN HasRows(c) /\ c.whole /\ c.of = job[t].run

(* X and y, once both are there, are never built again: as long as no two  *)
(* requests built them at the same time, from the look at the files to the *)
(* second save, they have the same rows, kills between the two saves       *)
(* included (otherwise every later load fails).                            *)
XyFits == ~rivals /\ xfile # Gone /\ yfile # Gone => xfile = yfile

==============================================================================
