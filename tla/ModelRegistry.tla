---------------------------- MODULE ModelRegistry ----------------------------
(***************************************************************************)
(* The models of the server: three relaxed atomics and one unprotected     *)
(* global json (src/src/server_accessors.cpp), and one file per symbol.    *)
(* HTTP threads train (train_logic.cpp, under train_mutex), patch          *)
(* (routes/model_set.cpp), reload (routes/model.cpp), prepare              *)
(* (routes/symbol_prepare.cpp) and show models.  A step is one atomic      *)
(* store, the opening or the writing of a file, one entry to or exit from  *)
(* an accessor of the global json, or the code between two of these.       *)
(*                                                                         *)
(* Every operation that makes new values draws a number from `writes` and  *)
(* uses it for all of them: a value says which operation it comes from.    *)
(* 0 stands for what is stored when a model does not say (a default, or    *)
(* metrics.feat_cols).                                                     *)
(***************************************************************************)
EXTENDS Integers, FiniteSets

CONSTANTS
  Threads, NoThread,      (* HTTP threads; the owner of a free mutex       *)
  Symbols, NoSymbol,      (* what models are for; a model that does not say*)
  Btc,                    (* the symbol of the file read at startup        *)
  Found,                  (* what an earlier run left in the files         *)
  Scenes,                 (* the routes called together; how many requests *)
                          (* at once, and how many of them that make new   *)
                          (* values (the bounds); and whether there are    *)
                          (* faults: kills, files that are missing, refuse *)
                          (* to open or cannot be written whole            *)
  MaxWrites               (* bound: operations that make new values        *)

\* Paths of model files: cache/models/<symbol>_15_ppo_pro.json, and with
\* NoSymbol a file elsewhere, which model/set and reload accept as well.
Paths == Symbols \cup {NoSymbol}

\* A field is missing (or of another type), or has a value of an operation:
\* one that a start accepts, or one out of its range.
Missing == -1
Odd(w)  == MaxWrites + w
Values  == Missing .. Odd(MaxWrites)
Names   == {"thr", "ma", "fd"}
Atoms   == [Names -> 0 .. Odd(MaxWrites)]
Fields  == [Names -> Values]
Model   == [symbol : Symbols \cup {NoSymbol}, ok : BOOLEAN, of : Fields]

Earlier == 3

ASSUME RegistryConstants ==
  /\ NoThread \notin Threads
  /\ NoSymbol \notin Symbols
  /\ Btc \in Symbols
  /\ Found \subseteq [Paths -> Model]
  /\ Scenes \subseteq
       [ops : SUBSET {"train", "set", "reload", "prepare", "show"},
        at_once : Nat, draws : 0 .. MaxWrites - Earlier, faults : BOOLEAN]
  /\ MaxWrites \in Nat /\ MaxWrites >= Earlier

VARIABLES
  atom,                   (* G_MODEL_THR, G_MODEL_MA, G_FEAT_DIM           *)
  current,                (* G_CURRENT_MODEL                               *)
  files,                  (* the model files                               *)
  train_mutex,            (* its owner                                     *)
  pc, job,                (* a thread's place and the locals of its handler*)
  writes,                 (* numbers drawn so far                          *)
  terminated,             (* the process died of undefined behaviour       *)
  home,                   (* history: the file of the last change of memory*)
  failed,                 (* history: files not written whole since a start*)
  deeds,                  (* history: what took atoms and memory apart     *)
  scene                   (* the scene of this behaviour                   *)

vars == <<atom, current, files, train_mutex, pc, job, writes, terminated,
          home, failed, deeds, scene>>

-----------------------------------------------------------------------------
NoFields == [n \in Names |-> Missing]
Empty    == [symbol |-> NoSymbol, ok |-> FALSE, of |-> NoFields]

Gone     == [kind |-> "none",  model |-> Empty]
Torn     == [kind |-> "torn",  model |-> Empty]
Whole(m) == [kind |-> "whole", model |-> m]

\* A file that is absent or does not parse reads as {}.
Read(f) == IF f.kind = "whole" THEN f.model ELSE Empty

\* What the trainer returns: a policy, or {ok:false, error} with the fields
\* that run_train_pro_and_save adds; the MA length is the request's.
Trained(s, ok, v, ma) ==
  [symbol |-> s, ok |-> ok,
   of |-> [n \in Names |-> IF n = "ma" THEN ma ELSE IF ok THEN v ELSE Missing]]

\* Fields given take the place of the ones before.
Over(given, before) ==
  [n \in Names |-> IF given[n] # Missing THEN given[n] ELSE before[n]]

Defaults == [n \in Names |-> 0]

AtomsRaw(m) == m.of       \* Mutant: no defaults for what the file does not say

\* The atoms after init_model_atoms_from_disk: defaults for what is missing
\* and for what is out of range.
AtomsFrom(m) == [n \in Names |-> IF m.of[n] \in 1 .. MaxWrites THEN m.of[n] ELSE 0]

\* The rest of a job is history: whether its change met another one.
NoJob == [op |-> "none", path |-> NoSymbol, doc |-> Empty, apply |-> NoFields,
          crossed |-> FALSE]

Places == {"idle", "base", "copying", "lock", "train", "open", "dump",
           "thr", "ma", "fd", "current", "swap", "unlock", "ram",
           "check", "comparing", "ready", "showing"}

Init ==
  /\ scene \in Scenes
  /\ \E found \in Found, lost \in SUBSET Paths :
       /\ scene.faults \/ lost = {}
       /\ files = [p \in Paths |-> IF p \in lost THEN Gone ELSE Whole(found[p])]
  /\ current = Read(files[Btc])
  /\ atom = AtomsFrom(current)
  /\ train_mutex = NoThread
  /\ pc  = [t \in Threads |-> "idle"]
  /\ job = [t \in Threads |-> NoJob]
  /\ writes = Earlier
  /\ terminated = FALSE
  /\ home = Btc
  /\ failed = {}
  /\ deeds = {}

Goes(t, from, to) ==
  ~terminated /\ pc[t] = from /\ pc' = [pc EXCEPT ![t] = to]

\* The handler answers: its locals are gone.
Answers(t, from) == Goes(t, from, "idle") /\ job' = [job EXCEPT ![t] = NoJob]

\* The bound: no request arrives that could not draw its number.
Undrawn == {t \in Threads : pc[t] \in {"copying", "lock", "train"}}
DrawsLeft == Cardinality(Undrawn) + writes < Earlier + scene.draws

\* A request for a route and a path arrives.
Request(t, route, place) ==
  /\ route \in scene.ops
  /\ Cardinality({u \in Threads : pc[u] # "idle"}) < scene.at_once
  /\ route \in {"train", "set", "prepare"} => DrawsLeft
  /\ Goes(t, "idle", place)
  /\ \E p \in IF route \in {"set", "reload"} THEN Paths ELSE Symbols :
       job' = [job EXCEPT ![t] = [NoJob EXCEPT !.op = route, !.path = p]]

Draw == writes' = writes + 1

same == <<home, failed, deeds, scene>>

\* Threads inside an accessor of G_CURRENT_MODEL.
Writing == {t \in Threads : pc[t] = "swap"}
Copying == {t \in Threads : pc[t] \in {"copying", "comparing", "showing"}}

\* Entering an accessor while another thread is in a conflicting one is
\* undefined: it may go well or bring the process down.
Enter(conflicting) ==
  \E ub \in {FALSE, conflicting # {}} : terminated' = ub

\* Threads that write a file, the atoms and memory one after the other; those
\* of them and of prepare that still rely on what they wrote.
Changing == {t \in Threads : pc[t] \in {"open", "dump", "thr", "ma", "fd", "current"}}
Relying  == Changing \cup {t \in Threads : pc[t] \in {"swap", "check", "comparing", "ready"}}

\* A handler knows what it will store: its change begins, and meets others.
Begin(t, doc, apply) ==
  job' = [u \in Threads |->
    IF u = t THEN [job[u] EXCEPT !.doc = doc, !.apply = apply, !.crossed = Changing # {}]
             ELSE [job[u] EXCEPT !.crossed = @ \/ u \in Relying]]

-----------------------------------------------------------------------------
(* run_train_pro_and_save, called by GET /api/train and by prepare         *)

TrainRequest(t) ==
  /\ Request(t, "train", "lock")
  /\ UNCHANGED <<atom, current, files, train_mutex, writes, terminated, same>>

\* Mutant: no lock_guard.
TrainNoLock(t) ==
  /\ Goes(t, "lock", "train")
  /\ UNCHANGED <<atom, current, files, train_mutex, job, writes, terminated, same>>

TrainLock(t) ==
  /\ train_mutex = NoThread
  /\ Goes(t, "lock", "train")
  /\ train_mutex' = t
  /\ UNCHANGED <<atom, current, files, job, writes, terminated, same>>

\* No candles: an exception leaves the function and the lock.
TrainThrows(t) ==
  /\ Answers(t, "train")
  /\ train_mutex' = NoThread
  /\ UNCHANGED <<atom, current, files, writes, terminated, same>>

\* A model, or a report of failure; both go the same way.  GET /api/train
\* takes any MA length, prepare trains with 12.
TrainRun(t) ==
  /\ Goes(t, "train", "open")
  /\ Draw
  /\ \E ok \in BOOLEAN :
       \E ma \in {writes'} \cup (IF job[t].op = "train" THEN {Odd(writes')} ELSE {}) :
         LET m == Trained(job[t].path, ok, writes', ma) IN
         Begin(t, m, [m.of EXCEPT !["thr"] = IF ok THEN @ ELSE 0])
  /\ UNCHANGED <<atom, current, files, train_mutex, terminated, same>>

-----------------------------------------------------------------------------
(* Files and memory: the steps the handlers have in common                 *)

\* std::ofstream: the old content is gone.
OpenFile(t) ==
  /\ Goes(t, "open", "dump")
  /\ files' = [files EXCEPT ![job[t].path] = Torn]
  /\ UNCHANGED <<atom, current, train_mutex, job, writes, terminated, same>>

\* Training throws and unlocks; model/set answers 500, its atoms stored.
OpenFails(t) ==
  /\ scene.faults
  /\ Answers(t, "open")
  /\ train_mutex' = IF train_mutex = t THEN NoThread ELSE train_mutex
  /\ deeds' = deeds \cup IF job[t].op = "set" THEN {"patched"} ELSE {}
  /\ UNCHANGED <<atom, current, files, writes, terminated, home, failed, scene>>

\* Nobody looks at the stream: what could not be written whole, or what two
\* threads wrote at once, is a torn file, and the handler goes on.
DumpFile(t) ==
  LET p == job[t].path IN
  /\ Goes(t, "dump", IF job[t].op = "set" THEN "current" ELSE "thr")
  /\ \/ /\ files' = [files EXCEPT ![p] = Whole(job[t].doc)]
        /\ failed' = failed \ {p}
     \/ /\ scene.faults \/ files[p] # Torn
        /\ files' = [files EXCEPT ![p] = Torn]
        /\ failed' = failed \cup {p}
  /\ UNCHANGED <<atom, current, train_mutex, job, writes, terminated, home, deeds, scene>>

\* One of the three stores; nothing is stored for a field not given.
Store(t, name, next) ==
  /\ Goes(t, name, next)
  /\ atom' = [atom EXCEPT ![name] =
                IF job[t].apply[name] = Missing THEN @ ELSE job[t].apply[name]]
  /\ UNCHANGED <<current, files, train_mutex, job, writes, terminated, same>>

\* Mutant: the feature dimension is not stored.
StoreTwo(t) ==
  \/ Store(t, "thr", "ma")
  \/ Store(t, "ma", IF job[t].op = "set" THEN "open" ELSE "current")

StoreAtoms(t) ==
  \/ Store(t, "thr", "ma")
  \/ Store(t, "ma", "fd")
  \/ Store(t, "fd", IF job[t].op = "set" THEN "open" ELSE "current")

\* The history of a change of memory.  A patch keeps what was apart apart.
Changed(t) ==
  /\ home' = job[t].path
  /\ deeds' = (IF job[t].crossed THEN {"crossed"} ELSE {})
             \cup (IF job[t].op = "set" /\ deeds # {} THEN {"patched"} ELSE {})

\* Mutant: the report of a failed training does not replace the model.
SetCurrentIfOk(t) ==
  /\ Goes(t, "current", "swap")
  /\ Enter((Writing \cup Copying) \ {t})
  /\ current' = IF job[t].doc.ok THEN job[t].doc ELSE current
  /\ Changed(t)
  /\ UNCHANGED <<atom, files, train_mutex, job, writes, failed, scene>>

\* set_current_model.
SetCurrent(t) ==
  /\ Goes(t, "current", "swap")
  /\ Enter((Writing \cup Copying) \ {t})
  /\ current' = job[t].doc
  /\ Changed(t)
  /\ UNCHANGED <<atom, files, train_mutex, job, writes, failed, scene>>

\* Where a handler goes on once the model is in memory.
SetCurrentReturns(t) ==
  /\ \/ train_mutex = t /\ Goes(t, "swap", "unlock") /\ UNCHANGED job
     \/ train_mutex # t /\ job[t].op = "prepare" /\ Goes(t, "swap", "check") /\ UNCHANGED job
     \/ train_mutex # t /\ job[t].op # "prepare" /\ Answers(t, "swap")
  /\ UNCHANGED <<atom, current, files, train_mutex, writes, terminated, same>>

\* The end of training; prepare goes on to load what it trained, if it is ok.
Unlock(t) ==
  /\ train_mutex' = NoThread
  /\ \/ job[t].op = "prepare" /\ job[t].doc.ok /\ Goes(t, "unlock", "ram") /\ UNCHANGED job
     \/ ~(job[t].op = "prepare" /\ job[t].doc.ok) /\ Answers(t, "unlock")
  /\ UNCHANGED <<atom, current, files, writes, terminated, same>>

-----------------------------------------------------------------------------
(* POST /api/model/set                                                     *)

SetRequest(t) ==
  /\ Request(t, "set", "copying")
  /\ Enter(Writing)
  /\ UNCHANGED <<atom, current, files, train_mutex, writes, same>>

\* The model in memory, or the file if there is none, gets the fields given;
\* a request out of range is refused before anything is stored.  (thr 1.0 and
\* ma_len 100000 are accepted here, and out of range at a start.)
SetPatch(t) ==
  LET base == IF current = Empty THEN Read(files[job[t].path]) ELSE current IN
  /\ job[t].op = "set"
  /\ Goes(t, "copying", "thr")
  /\ Draw
  /\ \E new \in [Names -> {Missing, writes', Odd(writes')}] :
       /\ new["fd"] # Odd(writes')
       /\ Begin(t, [base EXCEPT !.of = Over(new, @)], new)
  /\ deeds' = deeds \cup IF base # current THEN {"patched"} ELSE {}
  /\ UNCHANGED <<atom, current, files, train_mutex, terminated, home, failed, scene>>

-----------------------------------------------------------------------------
(* GET /api/model/reload and the loading half of POST /api/symbol/prepare  *)

ReloadRequest(t) ==
  /\ Request(t, "reload", "base")
  /\ UNCHANGED <<atom, current, files, train_mutex, writes, terminated, same>>

\* A field the file does not have keeps the value its atom has now; the
\* feature dimension is then not stored at all.
ReloadRead(t) ==
  LET f == files[job[t].path] IN
  /\ \/ /\ Goes(t, "base", "thr")
        /\ f.kind = "whole"
        /\ Begin(t, f.model, [Over(f.model.of, atom) EXCEPT !["fd"] = f.model.of["fd"]])
     \/ Answers(t, "base") /\ f.kind # "whole"
  /\ UNCHANGED <<atom, current, files, train_mutex, writes, terminated, same>>

\* model_valid decides whether to train first.
PrepareRequest(t) ==
  /\ \E place \in {"ram", "lock"} :
       /\ Request(t, "prepare", place)
       /\ (place = "ram") = Read(files[job'[t].path]).ok
  /\ UNCHANGED <<atom, current, files, train_mutex, writes, terminated, same>>

\* load_model_to_ram: only a model that says ok; defaults for what is missing,
\* nothing at all if a field has another type.
RamLoad(t) ==
  LET m == Read(files[job[t].path]) IN
  /\ \/ /\ Goes(t, "ram", "thr")
        /\ m.ok
        /\ Begin(t, m, [Over(m.of, Defaults) EXCEPT !["fd"] = m.of["fd"]])
     \/ Answers(t, "ram") /\ (~m.ok \/ \E n \in Names : m.of[n] = Missing)
  /\ UNCHANGED <<atom, current, files, train_mutex, writes, terminated, same>>

PrepareCheck(t) ==
  /\ Goes(t, "check", "comparing")
  /\ Enter(Writing)
  /\ UNCHANGED <<atom, current, files, train_mutex, job, writes, same>>

\* The final check reads the model back and answers ready or not ready.
PrepareCompare(t) ==
  /\ \/ current.symbol = job[t].path /\ Goes(t, "comparing", "ready") /\ UNCHANGED job
     \/ current.symbol # job[t].path /\ Answers(t, "comparing")
  /\ UNCHANGED <<atom, current, files, train_mutex, writes, terminated, same>>

PrepareAnswers(t) ==
  /\ Answers(t, "ready")
  /\ UNCHANGED <<atom, current, files, train_mutex, writes, terminated, same>>

-----------------------------------------------------------------------------
(* GET /api/model, /api/diagnostic, /api/health/ai: a copy of the model    *)

ShowRequest(t) ==
  /\ Request(t, "show", "showing")
  /\ Enter(Writing)
  /\ UNCHANGED <<atom, current, files, train_mutex, writes, same>>

ShowAnswers(t) ==
  /\ Answers(t, "showing")
  /\ UNCHANGED <<atom, current, files, train_mutex, writes, terminated, same>>

-----------------------------------------------------------------------------
\* The process is killed, or died, and is started again: memory is built
\* from the file of Btc by init_model_atoms_from_disk.
Restart ==
  /\ scene.faults \/ terminated
  /\ current' = Read(files[Btc])
  /\ atom' = AtomsFrom(current')
  /\ train_mutex' = NoThread
  /\ pc'  = [t \in Threads |-> "idle"]
  /\ job' = [t \in Threads |-> NoJob]
  /\ terminated' = FALSE
  /\ home' = Btc
  /\ failed' = {}
  /\ deeds' = {}
  /\ UNCHANGED <<files, writes, scene>>

Training(t) == TrainRequest(t) \/ TrainLock(t) \/ TrainThrows(t) \/ TrainRun(t) \/ Unlock(t)
Saving(t)   == OpenFile(t) \/ OpenFails(t) \/ DumpFile(t)
Loading(t)  == StoreAtoms(t) \/ SetCurrent(t) \/ SetCurrentReturns(t)
Patching(t) == SetRequest(t) \/ SetPatch(t)
Reading(t)  == ReloadRequest(t) \/ ReloadRead(t) \/ ShowRequest(t) \/ ShowAnswers(t)
Preparing(t) ==
  \/ PrepareRequest(t) \/ RamLoad(t) \/ PrepareCheck(t)
  \/ PrepareCompare(t) \/ PrepareAnswers(t)
Next ==
  \/ \E t \in Threads :
       Training(t) \/ Saving(t) \/ Loading(t) \/ Patching(t) \/ Reading(t) \/ Preparing(t)
  \/ Restart

Spec == Init /\ [][Next]_vars

-----------------------------------------------------------------------------
(* Properties *)

TypeOK ==
  /\ atom \in Atoms
  /\ current \in Model
  /\ files \in [Paths -> [kind : {"none", "torn", "whole"}, model : Model]]
  /\ train_mutex \in Threads \cup {NoThread}
  /\ pc \in [Threads -> Places]
  /\ job \in [Threads -> [op : scene.ops \cup {"none"}, path : Paths, doc : Model,
                          apply : Fields, crossed : BOOLEAN]]
  /\ writes \in Earlier .. MaxWrites
  /\ terminated \in BOOLEAN
  /\ home \in Paths /\ failed \subseteq Paths /\ deeds \subseteq {"crossed", "patched"}
  /\ scene \in Scenes

Fits(m) == \A n \in Names : m.of[n] \in {Missing, atom[n]}

(* Whenever no change is under way, the atoms are those of the model in    *)
(* memory: nothing that GET /api/diagnostic would report as a mismatch of  *)
(* the two.  It fails only after changes that met (model.cpp:82-85), after *)
(* a patch that could not open its file or took a file as its base         *)
(* (model_set.cpp:156, 81), and for values that a start does not accept.   *)
AtomsMatchModel ==
  Changing = {} /\ ~terminated /\ deeds = {} =>
    \A n \in Names : current.of[n] \in {Missing, atom[n]} \cup Odd(1) .. Odd(MaxWrites)

(* Whenever no change is under way, the model in memory is what the file   *)
(* holds that it was read from or written to, so that a restart or a       *)
(* reload does not bring back another one -- unless that file could not be *)
(* written whole, which train_logic.cpp:110 and model_set.cpp:38 do not    *)
(* notice, or the last change met another one.                             *)
RamIsOnDisk ==
  Changing = {} /\ ~terminated /\ "crossed" \notin deeds /\ home \notin failed =>
    current = Read(files[home])

(* The accessors of the global json are never used in a way that could     *)
(* bring the server down, as long as models are only trained, or requests  *)
(* come one at a time.                                                     *)
NoTermination == scene.ops = {"train"} \/ scene.at_once = 1 => ~terminated

(* While prepare answers ready, the model in memory is a valid one of that *)
(* symbol, the atoms are its own, and its file holds the same -- unless    *)
(* another request changed models since prepare began to load its own      *)
(* (symbol_prepare.cpp:186-191 compares the symbol only).                  *)
ReadyMeansLoaded ==
  \A t \in Threads :
    pc[t] = "ready" /\ ~terminated /\ ~job[t].crossed =>
      /\ current.ok /\ current.symbol = job[t].path
      /\ Fits(current)
      /\ files[job[t].path] = Whole(current)

(* POST /api/model/set changes the fields it is given: it does not turn a  *)
(* file into the model of another symbol.                                  *)
SetKeepsTheRest ==
  [][\A t \in Threads, s \in Symbols :
       /\ job[t].op = "set" /\ pc[t] = "dump" /\ pc'[t] = "current"
       /\ job[t].path = s /\ files'[s].kind = "whole"
       => files'[s].model.symbol \in {s, NoSymbol}]_vars

==============================================================================
