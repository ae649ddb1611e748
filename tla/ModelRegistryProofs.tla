-------------------------- MODULE ModelRegistryProofs --------------------------
(***************************************************************************)
(* Proofs about the models of the server (ModelRegistry), for any scenes   *)
(* and any number of threads, symbols and writes: the types, that nothing  *)
(* terminates the server in the scenes that say so, that atoms, memory and *)
(* files agree whenever no change is under way, and what prepare's "ready" *)
(* means.                                                                  *)
(***************************************************************************)
EXTENDS ModelRegistry, FiniteSetTheorems, TLAPS

-----------------------------------------------------------------------------
(* The inductive invariants                                                *)

Working == {t \in Threads : pc[t] # "idle"}

\* Whose handler is where.
RouteOf(place, j) ==
  /\ place = "copying" => j.op = "set"
  /\ place = "base" => j.op = "reload"
  /\ place \in {"lock", "train", "unlock"} => j.op \in {"train", "prepare"}
  /\ place \in {"open", "dump"} => j.op \in {"train", "prepare", "set"}
  /\ place \in {"thr", "ma", "fd", "current", "swap"} =>
       j.op \in {"train", "prepare", "set", "reload"}
  /\ place \in {"ram", "check", "comparing", "ready"} => j.op = "prepare"
  /\ place = "showing" => j.op = "show"

Routes == \A t \in Threads : RouteOf(pc[t], job[t])

\* Who trains has the lock until the model is in memory.
LockOf(held, place, j) ==
  /\ held =>
       /\ place \in {"train", "open", "dump", "thr", "ma", "fd", "current",
                     "swap", "unlock"}
       /\ j.op \in {"train", "prepare"}
  /\ place \in {"train", "unlock"} => held
  /\ place \in {"open", "dump"} /\ j.op # "set" => held
  /\ place \in {"thr", "ma", "fd", "current", "swap"} /\ j.op = "train" => held

Locked == \A t \in Threads : LockOf(train_mutex = t, pc[t], job[t])

\* The bounds: requests at once, and numbers that are still to be drawn.
Bounded ==
  /\ IsFiniteSet(Working)
  /\ scene.at_once <= 1 => \A t, u \in Working : t = u
  /\ IsFiniteSet(Undrawn) /\ Cardinality(Undrawn) + writes <= MaxWrites

Safe == scene.ops = {"train"} \/ scene.at_once <= 1 => ~terminated

Orderly == TypeOK /\ Routes /\ Locked /\ Bounded /\ Safe

ChangingPlaces == {"open", "dump", "thr", "ma", "fd", "current"}
RelyingPlaces  == ChangingPlaces \cup {"swap", "check", "comparing", "ready"}

\* A change whose model is not in its file yet, and may never get there.
Early(place, j) == place = "open" \/ (j.op = "set" /\ place \in {"thr", "ma", "fd"})

\* The atoms that are still to be stored.
Pending(place, j) ==
  CASE place = "thr" -> Names
    [] place = "ma" -> {"ma", "fd"}
    [] place = "fd" -> {"fd"}
    [] place = "current" -> {}
    [] OTHER -> IF j.op = "set" THEN {} ELSE Names

\* What atom n is going to be, if nobody interferes.
Will(place, j, n) ==
  IF n \in Pending(place, j) /\ j.apply[n] # Missing THEN j.apply[n] ELSE atom[n]

OddOnes == Odd(1) .. Odd(MaxWrites)
RoughlyFits(m) == \A n \in Names : m.of[n] \in {Missing, atom[n]} \cup OddOnes

\* A change that met no other: the model it is about to put into memory fits
\* the atoms as they will be then, and is what its file holds once written;
\* a prepare that loads, or has loaded, a valid model of its file.
Sound(place, j, held) ==
  ~j.crossed =>
    /\ place \in ChangingPlaces /\ (j.op = "set" => deeds = {}) =>
         \A n \in Names :
           j.doc.of[n] \in {Missing, Will(place, j, n)} \cup (IF j.op = "set" THEN OddOnes ELSE {})
    /\ place \in ChangingPlaces \ {"dump"} /\ ~Early(place, j) =>
         j.path \in failed \/ files[j.path] = Whole(j.doc)
    /\ j.op = "prepare" /\ ~held /\ place \in {"thr", "ma", "fd", "current"} =>
         j.doc.ok /\ files[j.path] = Whole(j.doc)
    /\ j.op = "prepare" /\ ~held /\ place \in {"swap", "check", "comparing", "ready"} =>
         current.ok /\ Fits(current) /\ files[j.path] = Whole(current)
    /\ place = "ready" => current.symbol = j.path

\* Who relies on what he wrote and met nobody is alone with it.
Alone == \A t \in Relying, u \in Changing : t # u => job[t].crossed

\* Memory fits the atoms as long as the changes under way have stored nothing,
\* and is what its file holds as long as they have not come to the files.
Fresh(place, j) == place = "open" /\ j.op # "set"
Matched ==
  (\A t \in Changing : Fresh(pc[t], job[t])) /\ deeds = {} => RoughlyFits(current)
OnDisk ==
  /\ \A t \in Changing : Early(pc[t], job[t])
  /\ "crossed" \notin deeds /\ home \notin failed
  => current = Read(files[home])

SoundOf(t) == Sound(pc[t], job[t], train_mutex = t)

Consistent == Alone /\ Matched /\ OnDisk /\ \A t \in Threads : SoundOf(t)

-----------------------------------------------------------------------------
(* Values                                                                  *)

Jobs ==
  [op : scene.ops \cup {"none"}, path : Paths, doc : Model, apply : Fields,
   crossed : BOOLEAN]
Files == [kind : {"none", "torn", "whole"}, model : Model]

LEMMA NumbersAre ==
  /\ MaxWrites \in Nat /\ MaxWrites >= 3 /\ Missing = -1 /\ Earlier = 3
  /\ Odd(MaxWrites) = MaxWrites + MaxWrites /\ Odd(MaxWrites) \in Nat
  /\ Values = -1..Odd(MaxWrites) /\ Missing \in Values /\ 0..Odd(MaxWrites) \subseteq Values
  /\ \A v \in Values : v # Missing => v \in 0..Odd(MaxWrites)
  /\ \A w \in 1..MaxWrites : w \in 0..Odd(MaxWrites) /\ Odd(w) \in 0..Odd(MaxWrites)
BY RegistryConstants DEF Missing, Earlier, Values, Odd

LEMMA PathsAre ==
  Symbols \subseteq Paths /\ NoSymbol \in Paths /\ Btc \in Paths
BY RegistryConstants DEF Paths

LEMMA OverIs ==
  ASSUME NEW given \in Fields, NEW before \in Fields
  PROVE  /\ Over(given, before) \in Fields
         /\ \A n \in Names :
              Over(given, before)[n] =
                IF given[n] # Missing THEN given[n] ELSE before[n]
         /\ before \in Atoms => Over(given, before) \in Atoms
<1>1. Over(given, before) =
        [n \in Names |-> IF given[n] # Missing THEN given[n] ELSE before[n]]
  BY DEF Over
<1>2. \A n \in Names : given[n] \in Values /\ before[n] \in Values
  BY DEF Fields
<1>3. Over(given, before) \in Fields
  BY <1>1, <1>2 DEF Fields
<1>4. ASSUME before \in Atoms PROVE Over(given, before) \in Atoms
  <2>1. \A n \in Names : before[n] \in 0..Odd(MaxWrites)
    BY <1>4 DEF Atoms
  <2> QED
    BY <1>1, <1>2, <2>1, NumbersAre DEF Atoms
<1> QED
  BY <1>1, <1>3, <1>4

LEMMA AtomsAreFields == Atoms \subseteq Fields /\ Defaults \in Atoms
BY NumbersAre DEF Atoms, Fields, Defaults

LEMMA NothingIs ==
  /\ NoFields \in Fields /\ Empty \in Model /\ Empty.symbol = NoSymbol
  /\ ~Empty.ok /\ Empty.of = NoFields
  /\ Gone \in Files /\ Torn \in Files /\ Torn.kind = "torn" /\ Gone.kind = "none"
  /\ \A m \in Model : /\ Whole(m) \in Files
                       /\ Whole(m).kind = "whole" /\ Whole(m).model = m
  /\ \A f \in Files : f.kind = "whole" => f = Whole(f.model)
  /\ \A f \in Files : f.model \in Model /\ Read(f) \in Model
BY NumbersAre
   DEF NoFields, Fields, Empty, Model, Gone, Torn, Whole, Files, Read

LEMMA NoJobIs == NoJob \in Jobs /\ NoJob.op = "none"
BY NothingIs, PathsAre DEF NoJob, Jobs

LEMMA TrainedIs ==
  ASSUME NEW s \in Paths, NEW ok \in BOOLEAN, NEW v \in Values, NEW ma \in Values
  PROVE  /\ Trained(s, ok, v, ma) \in Model
         /\ ~ok => Trained(s, ok, v, ma).of["thr"] = Missing
BY NumbersAre DEF Trained, Model, Fields, Names, Paths

LEMMA AtomsFromIs ==
  ASSUME NEW m \in Model
  PROVE  /\ AtomsFrom(m) \in Atoms
         /\ \A n \in Names :
              m.of[n] \in {Missing, AtomsFrom(m)[n]} \cup OddOnes
<1>1. \A n \in Names :
        AtomsFrom(m)[n] = IF m.of[n] \in 1 .. MaxWrites THEN m.of[n] ELSE 0
  BY DEF AtomsFrom
<1>2. AtomsFrom(m) \in Atoms
  BY NumbersAre DEF AtomsFrom, Atoms
<1>3. ASSUME NEW n \in Names
      PROVE  m.of[n] \in {Missing, AtomsFrom(m)[n]} \cup OddOnes
  <2>1. m.of[n] \in -1..(MaxWrites + MaxWrites)
    BY NumbersAre DEF Model, Fields
  <2>2. CASE m.of[n] \in 1..MaxWrites
    BY <1>1, <2>2
  <2>3. CASE m.of[n] \notin 1..MaxWrites
    <3>1. AtomsFrom(m)[n] = 0
      BY <1>1, <2>3
    <3>2. m.of[n] = -1 \/ m.of[n] = 0 \/ m.of[n] \in (MaxWrites + 1)..(MaxWrites + MaxWrites)
      BY <2>1, <2>3, NumbersAre
    <3> QED
      BY <3>1, <3>2, NumbersAre DEF OddOnes, Odd
  <2> QED
    BY <2>2, <2>3
<1> QED
  BY <1>2, <1>3

-----------------------------------------------------------------------------
(* Who is where                                                            *)

Waiting == {"copying", "lock", "train"}       \* for a number

\* What is left of TypeOK beside the threads.
Kinds ==
  /\ atom \in Atoms /\ current \in Model /\ files \in [Paths -> Files]
  /\ train_mutex \in Threads \cup {NoThread}
  /\ writes \in Earlier .. MaxWrites /\ terminated \in BOOLEAN
  /\ home \in Paths /\ failed \subseteq Paths /\ deeds \subseteq {"crossed", "patched"}
  /\ scene \in Scenes

LEMMA TypesAre ==
  TypeOK <=> /\ Kinds /\ pc \in [Threads -> Places] /\ job \in [Threads -> Jobs]
BY DEF TypeOK, Kinds, Files, Jobs

\* A step of a handler gives it new locals; where a change begins it may
\* also cross those of others.
Gives(t, j) ==
  \/ job' = [job EXCEPT ![t] = j]
  \/ job' = [u \in Threads |->
       IF u = t THEN j ELSE [job[u] EXCEPT !.crossed = @ \/ u \in Relying]]

\* A step of a handler from one place to another.
Moves(t, to, j) ==
  /\ pc' = [pc EXCEPT ![t] = to] /\ Gives(t, j)
  /\ to \in Places /\ j \in Jobs /\ scene' = scene
  /\ RouteOf(to, j)
  /\ \/ train_mutex' = train_mutex /\ LockOf(train_mutex = t, to, j)
     \/ train_mutex = NoThread /\ train_mutex' = t /\ LockOf(TRUE, to, j)
     \/ train_mutex = t /\ train_mutex' = NoThread /\ LockOf(FALSE, to, j)

LEMMA GivesTo ==
  ASSUME job \in [Threads -> Jobs], NEW t \in Threads, NEW j \in Jobs, Gives(t, j)
  PROVE  /\ job' \in [Threads -> Jobs] /\ job'[t] = j
         /\ \A u \in Threads : u # t =>
              /\ job'[u].op = job[u].op /\ job'[u].path = job[u].path
              /\ job'[u].doc = job[u].doc /\ job'[u].apply = job[u].apply
              /\ job[u].crossed => job'[u].crossed
<1>1. CASE job' = [job EXCEPT ![t] = j]
  BY <1>1
<1>2. CASE job' = [u \in Threads |->
             IF u = t THEN j ELSE [job[u] EXCEPT !.crossed = @ \/ u \in Relying]]
  <2>1. ASSUME NEW u \in Threads, u # t
        PROVE  /\ job'[u] \in Jobs
               /\ job'[u].op = job[u].op /\ job'[u].path = job[u].path
               /\ job'[u].doc = job[u].doc /\ job'[u].apply = job[u].apply
               /\ job[u].crossed => job'[u].crossed
    <3>1. job'[u] = [job[u] EXCEPT !.crossed = job[u].crossed \/ u \in Relying]
      BY <1>2, <2>1
    <3>2. job[u] \in Jobs
      OBVIOUS
    <3>3. (job[u].crossed \/ u \in Relying) \in BOOLEAN
      OBVIOUS
    <3> QED
      BY <3>1, <3>2, <3>3 DEF Jobs
  <2>2. job'[t] = j
    BY <1>2
  <2>3. job' \in [Threads -> Jobs]
    <3>1. \A u \in Threads : job'[u] \in Jobs
      BY <2>1, <2>2
    <3> QED
      BY <1>2, <3>1
  <2> QED
    BY <2>1, <2>2, <2>3
<1> QED
  BY <1>1, <1>2 DEF Gives

LEMMA MoveKeepsRoutes ==
  ASSUME TypeOK, Routes, Locked, NEW t \in Threads, NEW to, NEW j, Moves(t, to, j)
  PROVE  /\ pc' \in [Threads -> Places] /\ job' \in [Threads -> Jobs]
         /\ Jobs' = Jobs
         /\ Routes' /\ Locked'
<1>1. /\ pc \in [Threads -> Places] /\ job \in [Threads -> Jobs]
      /\ pc' = [pc EXCEPT ![t] = to] /\ Gives(t, j)
      /\ to \in Places /\ j \in Jobs /\ NoThread \notin Threads
  BY TypesAre, RegistryConstants DEF Moves
<1>2. /\ job' \in [Threads -> Jobs] /\ job'[t] = j
      /\ \A u \in Threads : pc'[u] = IF u = t THEN to ELSE pc[u]
      /\ \A u \in Threads : u # t => job'[u].op = job[u].op
  BY <1>1, GivesTo
<1>3. Routes'
  <2>1. ASSUME NEW u \in Threads PROVE RouteOf(pc'[u], job'[u])
    <3>1. CASE u = t
      BY <1>2, <3>1 DEF Moves
    <3>2. CASE u # t
      BY <1>2, <3>2 DEF Routes, RouteOf
    <3> QED
      BY <3>1, <3>2
  <2> QED
    BY <2>1 DEF Routes
<1>4. ASSUME NEW u \in Threads
      PROVE  LockOf(train_mutex' = u, pc'[u], job'[u])
  <2>1. CASE u = t
    <3>1. pc'[u] = to /\ job'[u] = j
      BY <1>2, <2>1
    <3>2. LockOf(train_mutex' = t, to, j)
      BY <1>1 DEF Moves, LockOf
    <3> QED
      BY <2>1, <3>1, <3>2
  <2>2. CASE u # t
    <3>1. pc'[u] = pc[u] /\ job'[u].op = job[u].op
      BY <1>2, <2>2
    <3>2. (train_mutex' = u) = (train_mutex = u)
      BY <1>1, <2>2 DEF Moves
    <3>3. LockOf(train_mutex = u, pc[u], job[u])
      BY DEF Locked
    <3> QED
      BY <3>1, <3>2, <3>3 DEF LockOf
  <2> QED
    BY <2>1, <2>2
<1>5. Locked'
  BY <1>4 DEF Locked
<1>6. Jobs' = Jobs
  BY DEF Moves, Jobs
<1>7. pc' \in [Threads -> Places]
  BY <1>1
<1> QED
  BY <1>2, <1>3, <1>5, <1>6, <1>7

\* A step of a handler keeps the bounds; only one that draws a number leaves
\* the places where one is waited for.
LEMMA MoveKeepsBounds ==
  ASSUME TypeOK, Bounded, NEW t \in Threads, NEW to \in Places,
         pc' = [pc EXCEPT ![t] = to], pc[t] # "idle", scene' = scene,
         \/ writes' = writes /\ (to \in Waiting => pc[t] \in Waiting)
         \/ writes' = writes + 1 /\ pc[t] \in Waiting /\ to \notin Waiting
  PROVE  Bounded' /\ writes' \in Earlier .. MaxWrites
<1>1. /\ pc \in [Threads -> Places] /\ writes \in Nat /\ writes >= Earlier
      /\ MaxWrites \in Nat /\ Earlier = 3
  BY NumbersAre DEF TypeOK
<1>2. /\ IsFiniteSet(Undrawn) /\ Cardinality(Undrawn) \in Nat
      /\ Cardinality(Undrawn) + writes <= MaxWrites
  BY FS_CardinalityType DEF Bounded
<1>3. Working' \in SUBSET Working
  BY <1>1 DEF Working
<1>4. IsFiniteSet(Working')
  BY <1>3, FS_Subset DEF Bounded
<1>5. scene'.at_once <= 1 => \A u, v \in Working' : u = v
  BY <1>3 DEF Bounded
<1>6. CASE writes' = writes /\ (to \in Waiting => pc[t] \in Waiting)
  <2>1. Undrawn' \in SUBSET Undrawn
    BY <1>1, <1>6 DEF Undrawn, Waiting
  <2>2. IsFiniteSet(Undrawn') /\ Cardinality(Undrawn') <= Cardinality(Undrawn)
    BY <1>2, <2>1, FS_Subset
  <2>3. Cardinality(Undrawn') \in Nat
    BY <2>2, FS_CardinalityType
  <2>4. Cardinality(Undrawn') + writes' <= MaxWrites
    BY <1>1, <1>2, <1>6, <2>2, <2>3
  <2> QED
    BY <1>1, <1>2, <1>4, <1>5, <1>6, <2>2, <2>4 DEF Bounded
<1>7. CASE writes' = writes + 1 /\ pc[t] \in Waiting /\ to \notin Waiting
  <2>1. Undrawn' = Undrawn \ {t} /\ t \in Undrawn
    BY <1>1, <1>7 DEF Undrawn, Waiting
  <2>2. IsFiniteSet(Undrawn') /\ Cardinality(Undrawn') = Cardinality(Undrawn) - 1
    BY <1>2, <2>1, FS_RemoveElement
  <2>3. Cardinality(Undrawn') \in Nat
    BY <2>2, FS_CardinalityType
  <2>4. Cardinality(Undrawn') + writes' <= MaxWrites /\ writes' <= MaxWrites
    BY <1>1, <1>2, <1>7, <2>2, <2>3
  <2> QED
    BY <1>1, <1>2, <1>4, <1>5, <1>7, <2>2, <2>4 DEF Bounded
<1> QED
  BY <1>6, <1>7

\* A request is one more at work, within the number at once, and one more
\* that waits for a number only if there is one left.
LEMMA RequestKeepsBounds ==
  ASSUME TypeOK, Bounded, NEW t \in Threads, NEW to \in Places,
         pc' = [pc EXCEPT ![t] = to], pc[t] = "idle", scene' = scene,
         Cardinality(Working) < scene.at_once,
         to \in Waiting => DrawsLeft, writes' = writes
  PROVE  Bounded' /\ writes' \in Earlier .. MaxWrites
<1>1. /\ pc \in [Threads -> Places] /\ writes \in Nat /\ writes >= Earlier
      /\ writes <= MaxWrites /\ MaxWrites \in Nat /\ Earlier = 3
      /\ scene.at_once \in Nat
      /\ scene.draws \in Int /\ Earlier + scene.draws <= MaxWrites
  BY NumbersAre, RegistryConstants DEF TypeOK
<1>2. /\ IsFiniteSet(Undrawn) /\ Cardinality(Undrawn) \in Nat
      /\ Cardinality(Undrawn) + writes <= MaxWrites
      /\ IsFiniteSet(Working) /\ Cardinality(Working) \in Nat
  BY FS_CardinalityType DEF Bounded
<1>3. Working' \in SUBSET (Working \cup {t})
  BY <1>1 DEF Working
<1>4. IsFiniteSet(Working \cup {t})
  BY <1>2, FS_AddElement
<1>5. IsFiniteSet(Working')
  BY <1>3, <1>4, FS_Subset
<1>6. ASSUME scene'.at_once <= 1 PROVE \A u, v \in Working' : u = v
  <2>1. Cardinality(Working) = 0
    BY <1>1, <1>2, <1>6
  <2>2. Working = {}
    BY <1>2, <2>1, FS_EmptySet
  <2> QED
    BY <1>3, <2>2
<1>7. Undrawn' \in SUBSET (Undrawn \cup {t})
  BY <1>1 DEF Undrawn
<1>8. IsFiniteSet(Undrawn \cup {t}) /\ Cardinality(Undrawn \cup {t}) <= Cardinality(Undrawn) + 1
  <2>1. Cardinality(Undrawn \cup {t}) = IF t \in Undrawn THEN Cardinality(Undrawn)
                                        ELSE Cardinality(Undrawn) + 1
    BY <1>2, FS_AddElement
  <2> QED
    BY <1>2, <2>1, FS_AddElement
<1>9. IsFiniteSet(Undrawn')
  BY <1>7, <1>8, FS_Subset
<1>10. Cardinality(Undrawn') \in Nat
  BY <1>9, FS_CardinalityType
<1>11. Cardinality(Undrawn') + writes' <= MaxWrites
  <2>1. CASE to \in Waiting
    <3>1. Cardinality(Undrawn) + writes < MaxWrites
      BY <1>1, <1>2, <2>1 DEF DrawsLeft
    <3>2. Cardinality(Undrawn') <= Cardinality(Undrawn \cup {t})
      BY <1>7, <1>8, FS_Subset
    <3>3. Cardinality(Undrawn \cup {t}) \in Nat
      BY <1>8, FS_CardinalityType
    <3> QED
      BY <1>1, <1>2, <1>8, <1>10, <3>1, <3>2, <3>3
  <2>2. CASE to \notin Waiting
    <3>1. Undrawn' \in SUBSET Undrawn
      BY <1>1, <2>2 DEF Undrawn, Waiting
    <3>2. Cardinality(Undrawn') <= Cardinality(Undrawn)
      BY <1>2, <3>1, FS_Subset
    <3> QED
      BY <1>1, <1>2, <1>10, <3>2
  <2> QED
    BY <2>1, <2>2
<1> QED
  BY <1>1, <1>5, <1>6, <1>9, <1>11 DEF Bounded

\* What a step of a handler has to do to be orderly.
LEMMA MoveIsOrderly ==
  ASSUME Orderly, NEW t \in Threads, NEW to, NEW j, Moves(t, to, j),
         pc[t] # "idle",
         atom' \in Atoms, current' \in Model, files' \in [Paths -> Files],
         home' \in Paths, failed' \subseteq Paths, deeds' \subseteq {"crossed", "patched"},
         \/ writes' = writes /\ (to \in Waiting => pc[t] \in Waiting)
         \/ writes' = writes + 1 /\ pc[t] \in Waiting /\ to \notin Waiting,
         \/ terminated' = terminated
         \/ terminated' \in BOOLEAN /\ Safe'
  PROVE  Orderly'
<1>1. /\ pc' \in [Threads -> Places] /\ job' \in [Threads -> Jobs] /\ Jobs' = Jobs
      /\ Routes' /\ Locked'
  BY MoveKeepsRoutes DEF Orderly
<1>2. /\ to \in Places /\ pc' = [pc EXCEPT ![t] = to] /\ scene' = scene
      /\ train_mutex' \in {train_mutex, t, NoThread}
  BY DEF Moves
<1>3. Bounded' /\ writes' \in Earlier .. MaxWrites
  BY <1>2, MoveKeepsBounds DEF Orderly
<1>4. terminated' \in BOOLEAN /\ Safe'
  BY <1>2, TypesAre DEF Orderly, Safe, Kinds
<1>5. Kinds'
  BY <1>2, <1>3, <1>4, TypesAre DEF Orderly, Kinds, Files, Model
<1>6. TypeOK'
  BY <1>1, <1>5 DEF TypeOK, Kinds, Files, Jobs
<1> QED
  BY <1>1, <1>3, <1>4, <1>6 DEF Orderly

\* What a request has to do to be orderly.
LEMMA RequestMoves ==
  ASSUME Orderly, NEW t \in Threads, NEW route, NEW to \in Places \ {"idle"},
         Request(t, route, to),
         ASSUME NEW j, j.op = route, j.path \in Paths
         PROVE  RouteOf(to, j) /\ LockOf(FALSE, to, j),
         UNCHANGED <<atom, current, files, train_mutex, writes, same>>
  PROVE  \E j \in Jobs : /\ Moves(t, to, j) /\ j.op = route /\ j.path \in Paths
                        /\ job' = [job EXCEPT ![t] = j]
<1>1. /\ pc \in [Threads -> Places] /\ job \in [Threads -> Jobs]
      /\ Kinds /\ NoThread \notin Threads
  BY TypesAre, RegistryConstants DEF Orderly
<1>2. PICK s \in Paths :
        job' = [job EXCEPT ![t] = [NoJob EXCEPT !.op = route, !.path = s]]
  BY PathsAre DEF Request
<1> DEFINE j == [NoJob EXCEPT !.op = route, !.path = s]
<1>3. /\ j \in Jobs /\ j.op = route /\ j.path \in Paths
  BY NoJobIs DEF Jobs, NoJob, Request
<1>4. /\ pc' = [pc EXCEPT ![t] = to] /\ pc[t] = "idle" /\ scene' = scene
      /\ train_mutex' = train_mutex /\ writes' = writes
  BY DEF Request, Goes, same
<1>5. train_mutex # t
  <2>1. LockOf(train_mutex = t, pc[t], job[t])
    BY DEF Orderly, Locked
  <2> QED
    BY <1>4, <2>1 DEF LockOf
<1>6. RouteOf(to, j) /\ LockOf(FALSE, to, j)
  <2> HIDE DEF j
  <2> QED
    BY <1>3
<1>7. Moves(t, to, j)
  <2>1. Gives(t, j)
    BY <1>2 DEF Gives
  <2>2. LockOf(train_mutex = t, to, j)
    BY <1>5, <1>6 DEF LockOf
  <2> HIDE DEF j
  <2> QED
    BY <1>3, <1>4, <1>6, <2>1, <2>2 DEF Moves
<1> QED
  BY <1>2, <1>3, <1>7

LEMMA RequestIsOrderly ==
  ASSUME Orderly, NEW t \in Threads, NEW route, NEW to \in Places \ {"idle"},
         Request(t, route, to),
         route \notin {"train", "set", "prepare"} => to \notin Waiting,
         ASSUME NEW j, j.op = route, j.path \in Paths
         PROVE  RouteOf(to, j) /\ LockOf(FALSE, to, j),
         UNCHANGED <<atom, current, files, train_mutex, writes, same>>,
         \/ terminated' = terminated
         \/ terminated' \in BOOLEAN /\ Safe'
  PROVE  Orderly'
<1>1. Kinds
  BY TypesAre DEF Orderly
<1>2. /\ pc' = [pc EXCEPT ![t] = to] /\ pc[t] = "idle" /\ scene' = scene
      /\ train_mutex' = train_mutex /\ writes' = writes
  BY DEF Request, Goes, same
<1>3. PICK j \in Jobs : Moves(t, to, j)
  BY RequestMoves
<1>4. /\ pc' \in [Threads -> Places] /\ job' \in [Threads -> Jobs] /\ Jobs' = Jobs
      /\ Routes' /\ Locked'
  BY <1>3, MoveKeepsRoutes DEF Orderly
<1>5. Cardinality(Working) < scene.at_once /\ (to \in Waiting => DrawsLeft)
  BY DEF Request, Working
<1>6. Bounded' /\ writes' \in Earlier .. MaxWrites
  BY <1>2, <1>5, RequestKeepsBounds DEF Orderly
<1>7. terminated' \in BOOLEAN /\ Safe'
  BY <1>1, <1>2 DEF Orderly, Safe, Kinds
<1>8. Kinds'
  BY <1>1, <1>2, <1>6, <1>7 DEF Kinds, Files, Model, same
<1>9. TypeOK'
  BY <1>4, <1>8 DEF TypeOK, Kinds, Files, Jobs
<1> QED
  BY <1>4, <1>6, <1>7, <1>9 DEF Orderly

\* Where the scene promises that nothing terminates the server, nobody else
\* is in an accessor when one is entered in conflict.
LEMMA AccessorsAreApart ==
  ASSUME Orderly, scene.ops = {"train"} \/ scene.at_once <= 1,
         NEW t \in Threads, pc[t] \in {"current", "check"}
  PROVE  /\ (Writing \cup Copying) \ {t} = {}
         /\ pc[t] # "current" => Writing = {}
<1>1. /\ pc \in [Threads -> Places] /\ job \in [Threads -> Jobs]
      /\ NoThread \notin Threads
  BY TypesAre, RegistryConstants DEF Orderly
<1>2. CASE scene.at_once <= 1
  <2>1. \A u \in Threads : u # t => pc[u] = "idle"
    BY <1>2 DEF Orderly, Bounded, Working
  <2> QED
    BY <2>1 DEF Writing, Copying
<1>3. CASE scene.ops = {"train"}
  <2>1. \A u \in Threads : job[u].op \in {"train", "none"}
    BY <1>1, <1>3 DEF Jobs
  <2>2. \A u \in Threads : RouteOf(pc[u], job[u]) /\ LockOf(train_mutex = u, pc[u], job[u])
    BY DEF Orderly, Routes, Locked
  <2>3. Copying = {} /\ pc[t] = "current"
    <3>1. \A u \in Threads :
            pc[u] \notin {"copying", "comparing", "showing", "check"}
      BY <2>1, <2>2 DEF RouteOf
    <3> QED
      BY <3>1 DEF Copying
  <2>4. \A u \in Threads : pc[u] \in {"current", "swap"} => train_mutex = u
    BY <2>1, <2>2 DEF RouteOf, LockOf
  <2>5. \A u \in Writing : u = t
    BY <2>3, <2>4 DEF Writing
  <2> QED
    BY <2>3, <2>5
<1> QED
  BY <1>2, <1>3

LEMMA RequestsAreApart ==
  ASSUME Orderly, scene.at_once <= 1, Cardinality(Working) < scene.at_once
  PROVE  Writing = {}
<1>1. Cardinality(Working) \in Nat /\ IsFiniteSet(Working)
  BY FS_CardinalityType DEF Orderly, Bounded
<1>2. scene.at_once \in Nat
  BY RegistryConstants DEF Orderly, TypeOK
<1>3. Cardinality(Working) = 0
  BY <1>1, <1>2
<1>4. Working = {}
  BY <1>1, <1>3, FS_EmptySet
<1> QED
  BY <1>4 DEF Working, Writing

LEMMA HandlerIs ==
  ASSUME Orderly, NEW t \in Threads
  PROVE  /\ RouteOf(pc[t], job[t]) /\ LockOf(train_mutex = t, pc[t], job[t])
         /\ job[t] \in Jobs /\ pc[t] \in Places /\ Kinds
         /\ UNCHANGED job => Gives(t, job[t])
         /\ NoJob \in Jobs /\ job[t].path \in Paths
<1>1. job \in [Threads -> Jobs]
  BY TypesAre DEF Orderly
<1>2. job = [job EXCEPT ![t] = job[t]]
  BY <1>1
<1>3. UNCHANGED job => Gives(t, job[t])
  BY <1>2 DEF Gives
<1>4. job[t].path \in Paths
  BY <1>1 DEF Jobs
<1> QED
  BY <1>1, <1>3, <1>4, TypesAre, NoJobIs, Zenon DEF Orderly, Routes, Locked

LEMMA AnswerMoves ==
  ASSUME Orderly, NEW t \in Threads, NEW from \in Places, Answers(t, from),
         scene' = scene,
         \/ train_mutex' = train_mutex /\ train_mutex # t
         \/ train_mutex = t /\ train_mutex' = NoThread
  PROVE  Moves(t, "idle", NoJob)
BY HandlerIs DEF Answers, Goes, Moves, Gives, RouteOf, LockOf, Places

\* A number is drawn: there is one left.
LEMMA DrawsOne ==
  ASSUME Orderly, NEW t \in Threads, pc[t] \in Waiting, Draw
  PROVE  writes' = writes + 1 /\ writes' \in 1..MaxWrites
<1>1. t \in Undrawn
  BY DEF Undrawn, Waiting
<1>2. Cardinality(Undrawn) \in Nat /\ Cardinality(Undrawn) # 0
  BY <1>1, FS_CardinalityType, FS_EmptySet DEF Orderly, Bounded
<1>3. Cardinality(Undrawn) + writes <= MaxWrites
  BY DEF Orderly, Bounded
<1>4. writes \in Nat
  BY NumbersAre DEF Orderly, TypeOK
<1> QED
  BY <1>2, <1>3, <1>4, NumbersAre DEF Draw

\* A handler that begins a change: where it goes, with what, and that what it
\* has for a field it also stores.
Begins(t, from, to, j) ==
  /\ pc[t] = from /\ pc' = [pc EXCEPT ![t] = to]
  /\ j.op = job[t].op /\ j.path = job[t].path /\ j.crossed = (Changing # {})
  /\ job' = [u \in Threads |->
       IF u = t THEN j ELSE [job[u] EXCEPT !.crossed = @ \/ u \in Relying]]

LEMMA BeginIs ==
  ASSUME Orderly, NEW t \in Threads, NEW from, NEW to, Goes(t, from, to),
         NEW doc \in Model, NEW apply \in Fields, Begin(t, doc, apply)
  PROVE  \E j \in Jobs : /\ Begins(t, from, to, j) /\ Gives(t, j)
                        /\ j.doc = doc /\ j.apply = apply
<1> DEFINE j == [job[t] EXCEPT !.doc = doc, !.apply = apply, !.crossed = Changing # {}]
<1>1. job[t] \in Jobs
  BY HandlerIs
<1>2. /\ j \in Jobs /\ j.op = job[t].op /\ j.path = job[t].path
      /\ j.doc = doc /\ j.apply = apply /\ j.crossed = (Changing # {})
  BY <1>1 DEF Jobs
<1>3. job' = [u \in Threads |->
        IF u = t THEN j ELSE [job[u] EXCEPT !.crossed = @ \/ u \in Relying]]
  BY DEF Begin
<1> HIDE DEF j
<1>4. Gives(t, j)
  BY <1>3 DEF Gives
<1>5. Begins(t, from, to, j)
  BY <1>2, <1>3 DEF Begins, Goes
<1> QED
  BY <1>2, <1>4, <1>5

\* What training hands on: what it stores is what its model says.
LEMMA TrainRunIs ==
  ASSUME Orderly, NEW t \in Threads, TrainRun(t)
  PROVE  \E j \in Jobs :
           /\ Begins(t, "train", "open", j) /\ Gives(t, j)
           /\ \A n \in Names : j.doc.of[n] # Missing => j.apply[n] = j.doc.of[n]
<1>1. job[t] \in Jobs /\ pc[t] = "train" /\ Goes(t, "train", "open")
  BY HandlerIs DEF TrainRun, Goes
<1>2. writes' \in 1..MaxWrites
  BY <1>1, DrawsOne DEF TrainRun, Waiting
<1>3. PICK ok \in BOOLEAN, ma \in {writes', Odd(writes')} :
        LET m == Trained(job[t].path, ok, writes', ma) IN
        Begin(t, m, [m.of EXCEPT !["thr"] = IF ok THEN @ ELSE 0])
  BY DEF TrainRun
<1> DEFINE m == Trained(job[t].path, ok, writes', ma)
           a == [m.of EXCEPT !["thr"] = IF ok THEN @ ELSE 0]
<1>4. m \in Model /\ m.of \in Fields /\ (~ok => m.of["thr"] = Missing)
  <2>1. job[t].path \in Paths /\ writes' \in Values /\ ma \in Values
    BY <1>1, <1>2, NumbersAre DEF Jobs
  <2>2. m \in Model /\ (~ok => m.of["thr"] = Missing)
    BY <2>1, TrainedIs
  <2> HIDE DEF m
  <2> QED
    BY <2>2 DEF Model
<1>5. Begin(t, m, a)
  BY <1>3
<1> HIDE DEF m
<1>6. a \in Fields /\ \A n \in Names : m.of[n] # Missing => a[n] = m.of[n]
  BY <1>4, NumbersAre DEF Fields, Names
<1> HIDE DEF a
<1>7. PICK j \in Jobs : /\ Begins(t, "train", "open", j) /\ Gives(t, j)
                        /\ j.doc = m /\ j.apply = a
  BY <1>1, <1>4, <1>5, <1>6, BeginIs
<1> QED
  BY <1>6, <1>7

LEMMA TrainingIsOrderly ==
  ASSUME Orderly, NEW t \in Threads,
         TrainLock(t) \/ TrainThrows(t) \/ TrainRun(t) \/ Unlock(t)
  PROVE  Orderly'
<1>1. /\ RouteOf(pc[t], job[t]) /\ LockOf(train_mutex = t, pc[t], job[t])
      /\ job[t] \in Jobs /\ pc[t] \in Places /\ Kinds
      /\ UNCHANGED job => Gives(t, job[t])
  BY HandlerIs
<1>2. CASE TrainLock(t)
  <2>1. Moves(t, "train", job[t])
    BY <1>1, <1>2 DEF TrainLock, Goes, Moves, RouteOf, LockOf, Places, same
  <2> QED
    BY <1>1, <1>2, <2>1, MoveIsOrderly
       DEF TrainLock, Goes, Waiting, Kinds, same
<1>3. CASE TrainThrows(t)
  <2>1. Moves(t, "idle", NoJob)
    BY <1>1, <1>3, AnswerMoves DEF TrainThrows, Answers, Goes, LockOf, Places, same
  <2> QED
    BY <1>1, <1>3, <2>1, MoveIsOrderly
       DEF TrainThrows, Answers, Goes, Waiting, Kinds, same
<1>4. CASE TrainRun(t)
  <2>1. PICK j \in Jobs : Begins(t, "train", "open", j) /\ Gives(t, j)
    BY <1>4, TrainRunIs
  <2>2. writes' = writes + 1 /\ writes' \in 1..MaxWrites
    BY <1>4, DrawsOne DEF TrainRun, Goes, Waiting
  <2>3. Moves(t, "open", j)
    BY <1>1, <1>4, <2>1 DEF TrainRun, Begins, Moves, RouteOf, LockOf, Places, same
  <2> QED
    BY <1>1, <1>4, <2>1, <2>2, <2>3, MoveIsOrderly
       DEF TrainRun, Begins, Waiting, Kinds, same
<1>5. CASE Unlock(t)
  <2>1. CASE job[t].op = "prepare" /\ job[t].doc.ok /\ Goes(t, "unlock", "ram") /\ UNCHANGED job
    <3>1. Moves(t, "ram", job[t])
      BY <1>1, <1>5, <2>1 DEF Unlock, Goes, Moves, RouteOf, LockOf, Places, same
    <3> QED
      BY <1>1, <1>5, <2>1, <3>1, MoveIsOrderly
         DEF Unlock, Goes, Waiting, Kinds, same
  <2>2. CASE Answers(t, "unlock")
    <3>1. Moves(t, "idle", NoJob)
      BY <1>1, <1>5, <2>2, AnswerMoves DEF Unlock, Answers, Goes, LockOf, Places, same
    <3> QED
      BY <1>1, <1>5, <2>2, <3>1, MoveIsOrderly
         DEF Unlock, Answers, Goes, Waiting, Kinds, same
  <2> QED
    BY <1>5, <2>1, <2>2 DEF Unlock
<1> QED
  BY <1>2, <1>3, <1>4, <1>5

LEMMA SavingIsOrderly ==
  ASSUME Orderly, NEW t \in Threads, Saving(t)
  PROVE  Orderly'
<1>1. /\ RouteOf(pc[t], job[t]) /\ LockOf(train_mutex = t, pc[t], job[t])
      /\ job[t] \in Jobs /\ pc[t] \in Places /\ Kinds
      /\ UNCHANGED job => Gives(t, job[t])
  BY HandlerIs
<1>2. job[t].doc \in Model
  BY <1>1 DEF Jobs
<1>3. CASE OpenFile(t)
  <2>1. Moves(t, "dump", job[t])
    BY <1>1, <1>3 DEF OpenFile, Goes, Moves, RouteOf, LockOf, Places, same
  <2>2. files' \in [Paths -> Files]
    BY <1>1, <1>3, NothingIs DEF OpenFile, Kinds
  <2> QED
    BY <1>1, <1>3, <2>1, <2>2, MoveIsOrderly
       DEF OpenFile, Goes, Waiting, Kinds, same
<1>4. CASE OpenFails(t)
  <2>1. Moves(t, "idle", NoJob)
    BY <1>1, <1>4, AnswerMoves DEF OpenFails, Answers, Goes, LockOf, Places, same
  <2> QED
    BY <1>1, <1>4, <2>1, MoveIsOrderly
       DEF OpenFails, Answers, Goes, Waiting, Kinds, same
<1>5. CASE DumpFile(t)
  <2>1. Moves(t, IF job[t].op = "set" THEN "current" ELSE "thr", job[t])
    BY <1>1, <1>5 DEF DumpFile, Goes, Moves, RouteOf, LockOf, Places, same
  <2>2. files' \in [Paths -> Files]
    <3>1. PICK f \in {Whole(job[t].doc), Torn} : files' = [files EXCEPT ![job[t].path] = f]
      BY <1>5 DEF DumpFile
    <3>2. f \in Files
      BY <1>2, NothingIs
    <3> QED
      BY <1>1, <3>1, <3>2 DEF Kinds
  <2>3. failed' \subseteq Paths
    BY <1>1, <1>5, HandlerIs DEF DumpFile, Kinds
  <2> QED
    BY <1>1, <1>5, <2>1, <2>2, <2>3, MoveIsOrderly
       DEF DumpFile, Goes, Waiting, Kinds, same
<1> QED
  BY <1>3, <1>4, <1>5 DEF Saving

\* What a store makes of one atom.
LEMMA StoreIs ==
  ASSUME Orderly, NEW t \in Threads, NEW name \in Names, NEW next, Store(t, name, next)
  PROVE  /\ atom' \in Atoms
         /\ \A n \in Names :
              atom'[n] = IF n = name /\ job[t].apply[n] # Missing
                         THEN job[t].apply[n] ELSE atom[n]
<1>1. job[t] \in Jobs /\ Kinds
  BY HandlerIs
<1>2. job[t].apply \in Fields /\ atom \in Atoms
  BY <1>1 DEF Jobs, Kinds
<1>3. job[t].apply[name] \in Values
  BY <1>2 DEF Fields
<1> QED
  BY <1>2, <1>3, NumbersAre DEF Store, Atoms

LEMMA StoreIsOrderly ==
  ASSUME Orderly, NEW t \in Threads, NEW name \in Names,
         NEW next \in {"ma", "fd", "open", "current"}, Store(t, name, next),
         next = "open" => job[t].op = "set",
         next = "current" => job[t].op # "set"
  PROVE  Orderly'
<1>1. /\ RouteOf(pc[t], job[t]) /\ LockOf(train_mutex = t, pc[t], job[t])
      /\ job[t] \in Jobs /\ pc[t] \in Places /\ Kinds
      /\ UNCHANGED job => Gives(t, job[t])
  BY HandlerIs
<1>2. Moves(t, next, job[t])
  BY <1>1 DEF Store, Goes, Moves, RouteOf, LockOf, Places, same, Names
<1> QED
  BY <1>1, <1>2, StoreIs, MoveIsOrderly DEF Store, Goes, Waiting, Kinds, same, Names

LEMMA LoadingIsOrderly ==
  ASSUME Orderly, NEW t \in Threads, Loading(t)
  PROVE  Orderly'
<1>1. /\ RouteOf(pc[t], job[t]) /\ LockOf(train_mutex = t, pc[t], job[t])
      /\ job[t] \in Jobs /\ pc[t] \in Places /\ Kinds
      /\ UNCHANGED job => Gives(t, job[t])
  BY HandlerIs
<1>2. CASE StoreAtoms(t)
  <2>1. Store(t, "thr", "ma") => Orderly'
    BY StoreIsOrderly DEF Names
  <2>2. Store(t, "ma", "fd") => Orderly'
    BY StoreIsOrderly DEF Names
  <2>3. Store(t, "fd", IF job[t].op = "set" THEN "open" ELSE "current") => Orderly'
    BY StoreIsOrderly DEF Names
  <2> QED
    BY <1>2, <2>1, <2>2, <2>3 DEF StoreAtoms
<1>3. CASE SetCurrent(t)
  <2>1. Moves(t, "swap", job[t])
    BY <1>1, <1>3 DEF SetCurrent, Goes, Moves, RouteOf, LockOf, Places, same
  <2>2. current' \in Model
    BY <1>1, <1>3 DEF SetCurrent, Jobs
  <2>3. terminated' \in BOOLEAN /\ Safe'
    BY <1>3, AccessorsAreApart DEF SetCurrent, Goes, Enter, Safe, same
  <2>4. home' \in Paths /\ deeds' \subseteq {"crossed", "patched"}
    BY <1>1, <1>3, HandlerIs DEF SetCurrent, Changed
  <2> QED
    BY <1>1, <1>3, <2>1, <2>2, <2>3, <2>4, MoveIsOrderly
       DEF SetCurrent, Goes, Waiting, Kinds, same
<1>4. CASE SetCurrentReturns(t)
  <2>1. CASE train_mutex = t /\ Goes(t, "swap", "unlock") /\ UNCHANGED job
    <3>1. Moves(t, "unlock", job[t])
      BY <1>1, <1>4, <2>1 DEF SetCurrentReturns, Goes, Moves, RouteOf, LockOf, Places, same
    <3> QED
      BY <1>1, <1>4, <2>1, <3>1, MoveIsOrderly
         DEF SetCurrentReturns, Goes, Waiting, Kinds, same
  <2>2. CASE train_mutex # t /\ job[t].op = "prepare" /\ Goes(t, "swap", "check") /\ UNCHANGED job
    <3>1. Moves(t, "check", job[t])
      BY <1>1, <1>4, <2>2 DEF SetCurrentReturns, Goes, Moves, RouteOf, LockOf, Places, same
    <3> QED
      BY <1>1, <1>4, <2>2, <3>1, MoveIsOrderly
         DEF SetCurrentReturns, Goes, Waiting, Kinds, same
  <2>3. CASE train_mutex # t /\ Answers(t, "swap")
    <3>1. Moves(t, "idle", NoJob)
      BY <1>4, <2>3, AnswerMoves DEF SetCurrentReturns, Places, same
    <3> QED
      BY <1>1, <1>4, <2>3, <3>1, MoveIsOrderly
         DEF SetCurrentReturns, Answers, Goes, Waiting, Kinds, same
  <2> QED
    BY <1>4, <2>1, <2>2, <2>3 DEF SetCurrentReturns
<1> QED
  BY <1>2, <1>3, <1>4 DEF Loading

\* What a patch hands on: the fields given over those of the model in
\* memory, or of the file if there is none.
LEMMA SetPatchIs ==
  ASSUME Orderly, NEW t \in Threads, SetPatch(t)
  PROVE  \E j \in Jobs :
           /\ Begins(t, "copying", "thr", j) /\ Gives(t, j) /\ j.op = "set"
           /\ deeds' \subseteq {"crossed", "patched"} /\ deeds \subseteq deeds'
           /\ deeds' \subseteq deeds \cup {"patched"}
           /\ deeds' = {} =>
                \A n \in Names :
                  j.doc.of[n] = IF j.apply[n] # Missing THEN j.apply[n] ELSE current.of[n]
<1>1. /\ job[t] \in Jobs /\ Kinds /\ job[t].path \in Paths
      /\ pc[t] = "copying" /\ Goes(t, "copying", "thr") /\ job[t].op = "set"
  BY HandlerIs DEF SetPatch, Goes
<1>2. writes' \in 1..MaxWrites
  BY <1>1, DrawsOne DEF SetPatch, Waiting
<1> DEFINE base == IF current = Empty THEN Read(files[job[t].path]) ELSE current
<1>3. base \in Model /\ base.of \in Fields
  <2>1. Read(files[job[t].path]) \in Model
    BY <1>1, NothingIs DEF Kinds
  <2> QED
    BY <1>1, <2>1 DEF Kinds, Model
<1>4. PICK new \in [Names -> {Missing, writes', Odd(writes')}] :
        Begin(t, [base EXCEPT !.of = Over(new, @)], new)
  BY DEF SetPatch
<1>5. deeds' = deeds \cup IF base # current THEN {"patched"} ELSE {}
  BY DEF SetPatch
<1> HIDE DEF base
<1> DEFINE d == [base EXCEPT !.of = Over(new, @)]
<1>6. new \in Fields
  <2>1. {Missing, writes', Odd(writes')} \subseteq Values
    BY <1>2, NumbersAre
  <2> QED
    BY <2>1 DEF Fields
<1>7. /\ d \in Model
      /\ \A n \in Names : d.of[n] = IF new[n] # Missing THEN new[n] ELSE base.of[n]
  <2>1. /\ Over(new, base.of) \in Fields
        /\ \A n \in Names :
             Over(new, base.of)[n] = IF new[n] # Missing THEN new[n] ELSE base.of[n]
    BY <1>3, <1>6, OverIs
  <2>2. d.of = Over(new, base.of) /\ d \in Model
    BY <1>3, <2>1 DEF Model
  <2> HIDE DEF d
  <2> QED
    BY <2>1, <2>2
<1>8. Begin(t, d, new)
  BY <1>4
<1> HIDE DEF d
<1>9. PICK j \in Jobs : /\ Begins(t, "copying", "thr", j) /\ Gives(t, j)
                        /\ j.doc = d /\ j.apply = new
  BY <1>1, <1>6, <1>7, <1>8, BeginIs
<1>10. j.op = "set"
  BY <1>1, <1>9 DEF Begins
<1>11. deeds' = {} => base = current
  BY <1>5
<1>12. deeds \subseteq {"crossed", "patched"}
  BY <1>1 DEF Kinds
<1>13. deeds' = {} =>
         \A n \in Names :
           j.doc.of[n] = IF j.apply[n] # Missing THEN j.apply[n] ELSE current.of[n]
  BY <1>7, <1>9, <1>11
<1> QED
  BY <1>5, <1>9, <1>10, <1>12, <1>13

LEMMA PatchIsOrderly ==
  ASSUME Orderly, NEW t \in Threads, Patching(t)
  PROVE  Orderly'
<1>1. /\ RouteOf(pc[t], job[t]) /\ LockOf(train_mutex = t, pc[t], job[t])
      /\ job[t] \in Jobs /\ pc[t] \in Places /\ Kinds
      /\ UNCHANGED job => Gives(t, job[t])
  BY HandlerIs
<1>2. CASE SetRequest(t)
  <2>1. terminated' \in BOOLEAN /\ Safe'
    <3>1. scene.ops # {"train"} /\ Cardinality(Working) < scene.at_once
      BY <1>2 DEF SetRequest, Request, Working
    <3> QED
      BY <1>2, <3>1, RequestsAreApart DEF SetRequest, Enter, Safe, same
  <2> QED
    BY <1>2, <2>1, RequestIsOrderly DEF SetRequest, RouteOf, LockOf, Places
<1>3. CASE SetPatch(t)
  <2>1. PICK j \in Jobs :
          /\ Begins(t, "copying", "thr", j) /\ Gives(t, j) /\ j.op = "set"
          /\ deeds' \subseteq {"crossed", "patched"}
    BY <1>3, SetPatchIs
  <2>2. writes' = writes + 1 /\ writes' \in 1..MaxWrites
    BY <1>3, DrawsOne DEF SetPatch, Goes, Waiting
  <2>3. Moves(t, "thr", j)
    BY <1>1, <1>3, <2>1 DEF SetPatch, Begins, Moves, RouteOf, LockOf, Places, same
  <2> QED
    BY <1>1, <1>3, <2>1, <2>2, <2>3, MoveIsOrderly
       DEF SetPatch, Begins, Waiting, Kinds, same
<1> QED
  BY <1>2, <1>3 DEF Patching

\* What a reload and a prepare hand on: the model of a file, and for every
\* field that it has the same to be stored.
HandsOn(t, from, j) ==
  /\ Begins(t, from, "thr", j) /\ Gives(t, j)
  /\ files[j.path] = Whole(j.doc)
  /\ \A n \in Names : j.doc.of[n] # Missing => j.apply[n] = j.doc.of[n]

LEMMA HandOver ==
  ASSUME Orderly, NEW t \in Threads, NEW from, Goes(t, from, "thr"),
         NEW m \in Model, NEW defaults \in Atoms,
         files[job[t].path] = Whole(m),
         Begin(t, m, [Over(m.of, defaults) EXCEPT !["fd"] = m.of["fd"]])
  PROVE  \E j \in Jobs : HandsOn(t, from, j) /\ j.doc = m
<1> DEFINE a == [Over(m.of, defaults) EXCEPT !["fd"] = m.of["fd"]]
<1>1. m.of \in Fields /\ defaults \in Fields
  BY AtomsAreFields DEF Model
<1>2. /\ a \in Fields
      /\ \A n \in Names : m.of[n] # Missing => a[n] = m.of[n]
  <2>1. /\ Over(m.of, defaults) \in Fields
        /\ \A n \in Names :
             Over(m.of, defaults)[n] = IF m.of[n] # Missing THEN m.of[n] ELSE defaults[n]
    BY <1>1, OverIs
  <2>2. m.of["fd"] \in Values
    BY <1>1 DEF Fields, Names
  <2> QED
    BY <2>1, <2>2 DEF Fields
<1>3. Begin(t, m, a)
  OBVIOUS
<1> HIDE DEF a
<1>4. PICK j \in Jobs : /\ Begins(t, from, "thr", j) /\ Gives(t, j)
                        /\ j.doc = m /\ j.apply = a
  BY <1>2, <1>3, BeginIs
<1>5. files[j.path] = Whole(j.doc)
  BY <1>4 DEF Begins
<1>6. \A n \in Names : j.doc.of[n] # Missing => j.apply[n] = j.doc.of[n]
  BY <1>2, <1>4
<1> QED
  BY <1>4, <1>5, <1>6 DEF HandsOn

LEMMA ReloadReadIs ==
  ASSUME Orderly, NEW t \in Threads, ReloadRead(t), ~Answers(t, "base")
  PROVE  \E j \in Jobs : HandsOn(t, "base", j)
<1>1. job[t] \in Jobs /\ Kinds /\ job[t].path \in Paths
  BY HandlerIs
<1> DEFINE f == files[job[t].path]
<1>2. /\ Goes(t, "base", "thr") /\ f.kind = "whole"
      /\ Begin(t, f.model, [Over(f.model.of, atom) EXCEPT !["fd"] = f.model.of["fd"]])
  BY DEF ReloadRead
<1>3. f \in Files
  BY <1>1 DEF Kinds
<1>4. f.model \in Model /\ f = Whole(f.model)
  BY <1>2, <1>3, NothingIs
<1>5. atom \in Atoms
  BY <1>1 DEF Kinds
<1> QED
  BY <1>2, <1>4, <1>5, HandOver

LEMMA ReadingIsOrderly ==
  ASSUME Orderly, NEW t \in Threads, Reading(t)
  PROVE  Orderly'
<1>1. /\ RouteOf(pc[t], job[t]) /\ LockOf(train_mutex = t, pc[t], job[t])
      /\ job[t] \in Jobs /\ pc[t] \in Places /\ Kinds
      /\ UNCHANGED job => Gives(t, job[t])
  BY HandlerIs
<1>2. CASE ReloadRequest(t)
  BY <1>2, RequestIsOrderly DEF ReloadRequest, RouteOf, LockOf, Places, Waiting
<1>3. CASE ReloadRead(t)
  <2>1. CASE Answers(t, "base")
    <3>1. Moves(t, "idle", NoJob)
      BY <1>1, <1>3, <2>1, AnswerMoves
         DEF ReloadRead, Answers, Goes, RouteOf, LockOf, Places, same
    <3> QED
      BY <1>1, <1>3, <2>1, <3>1, MoveIsOrderly
         DEF ReloadRead, Answers, Goes, Waiting, Kinds, same
  <2>2. CASE ~Answers(t, "base")
    <3>1. PICK j \in Jobs : HandsOn(t, "base", j)
      BY <1>3, <2>2, ReloadReadIs
    <3>2. Moves(t, "thr", j)
      BY <1>1, <1>3, <3>1
         DEF HandsOn, Begins, ReloadRead, Moves, RouteOf, LockOf, Places, same
    <3> QED
      BY <1>1, <1>3, <3>1, <3>2, MoveIsOrderly
         DEF HandsOn, Begins, ReloadRead, Waiting, Kinds, same
  <2> QED
    BY <2>1, <2>2
<1>4. CASE ShowRequest(t)
  <2>1. terminated' \in BOOLEAN /\ Safe'
    <3>1. scene.ops # {"train"} /\ Cardinality(Working) < scene.at_once
      BY <1>4 DEF ShowRequest, Request, Working
    <3> QED
      BY <1>4, <3>1, RequestsAreApart DEF ShowRequest, Enter, Safe, same
  <2> QED
    BY <1>4, <2>1, RequestIsOrderly DEF ShowRequest, RouteOf, LockOf, Places, Waiting
<1>5. CASE ShowAnswers(t)
  <2>1. Moves(t, "idle", NoJob)
    BY <1>1, <1>5, AnswerMoves
       DEF ShowAnswers, Answers, Goes, RouteOf, LockOf, Places, same
  <2> QED
    BY <1>1, <1>5, <2>1, MoveIsOrderly
       DEF ShowAnswers, Answers, Goes, Waiting, Kinds, same
<1> QED
  BY <1>2, <1>3, <1>4, <1>5 DEF Reading

LEMMA RamLoadIs ==
  ASSUME Orderly, NEW t \in Threads, RamLoad(t), ~Answers(t, "ram")
  PROVE  \E j \in Jobs : HandsOn(t, "ram", j) /\ j.doc.ok
<1>1. job[t] \in Jobs /\ Kinds /\ job[t].path \in Paths
  BY HandlerIs
<1> DEFINE f == files[job[t].path]
           m == Read(f)
<1>2. /\ Goes(t, "ram", "thr") /\ m.ok
      /\ Begin(t, m, [Over(m.of, Defaults) EXCEPT !["fd"] = m.of["fd"]])
  BY DEF RamLoad
<1>3. f \in Files
  BY <1>1 DEF Kinds
<1>4. m \in Model /\ f = Whole(m)
  <2>1. f.kind = "whole"
    BY <1>2, NothingIs DEF Read
  <2> QED
    BY <1>3, <2>1, NothingIs DEF Read
<1> HIDE DEF m
<1>5. PICK j \in Jobs : HandsOn(t, "ram", j) /\ j.doc = m
  BY <1>2, <1>4, AtomsAreFields, HandOver
<1> QED
  BY <1>2, <1>5

LEMMA PreparingIsOrderly ==
  ASSUME Orderly, NEW t \in Threads, Preparing(t)
  PROVE  Orderly'
<1>1. /\ RouteOf(pc[t], job[t]) /\ LockOf(train_mutex = t, pc[t], job[t])
      /\ job[t] \in Jobs /\ pc[t] \in Places /\ Kinds
      /\ UNCHANGED job => Gives(t, job[t])
  BY HandlerIs
<1>2. CASE PrepareRequest(t)
  <2>1. PICK place \in {"ram", "lock"} : Request(t, "prepare", place)
    BY <1>2 DEF PrepareRequest
  <2> QED
    BY <1>2, <2>1, RequestIsOrderly DEF PrepareRequest, RouteOf, LockOf, Places
<1>3. CASE RamLoad(t)
  <2>1. CASE Answers(t, "ram")
    <3>1. Moves(t, "idle", NoJob)
      BY <1>1, <1>3, <2>1, AnswerMoves
         DEF RamLoad, Answers, Goes, RouteOf, LockOf, Places, same
    <3> QED
      BY <1>1, <1>3, <2>1, <3>1, MoveIsOrderly
         DEF RamLoad, Answers, Goes, Waiting, Kinds, same
  <2>2. CASE ~Answers(t, "ram")
    <3>1. PICK j \in Jobs : HandsOn(t, "ram", j)
      BY <1>3, <2>2, RamLoadIs
    <3>2. Moves(t, "thr", j)
      BY <1>1, <1>3, <3>1
         DEF HandsOn, Begins, RamLoad, Moves, RouteOf, LockOf, Places, same
    <3> QED
      BY <1>1, <1>3, <3>1, <3>2, MoveIsOrderly
         DEF HandsOn, Begins, RamLoad, Waiting, Kinds, same
  <2> QED
    BY <2>1, <2>2
<1>4. CASE PrepareCheck(t)
  <2>1. Moves(t, "comparing", job[t])
    BY <1>1, <1>4 DEF PrepareCheck, Goes, Moves, RouteOf, LockOf, Places, same
  <2>2. terminated' \in BOOLEAN /\ Safe'
    BY <1>4, AccessorsAreApart DEF PrepareCheck, Goes, Enter, Safe, same
  <2> QED
    BY <1>1, <1>4, <2>1, <2>2, MoveIsOrderly
       DEF PrepareCheck, Goes, Waiting, Kinds, same
<1>5. CASE PrepareCompare(t)
  <2>1. CASE Goes(t, "comparing", "ready") /\ UNCHANGED job
    <3>1. Moves(t, "ready", job[t])
      BY <1>1, <1>5, <2>1 DEF PrepareCompare, Goes, Moves, RouteOf, LockOf, Places, same
    <3> QED
      BY <1>1, <1>5, <2>1, <3>1, MoveIsOrderly
         DEF PrepareCompare, Goes, Waiting, Kinds, same
  <2>2. CASE Answers(t, "comparing")
    <3>1. Moves(t, "idle", NoJob)
      BY <1>1, <1>5, <2>2, AnswerMoves
         DEF PrepareCompare, Answers, Goes, RouteOf, LockOf, Places, same
    <3> QED
      BY <1>1, <1>5, <2>2, <3>1, MoveIsOrderly
         DEF PrepareCompare, Answers, Goes, Waiting, Kinds, same
  <2> QED
    BY <1>5, <2>1, <2>2 DEF PrepareCompare
<1>6. CASE PrepareAnswers(t)
  <2>1. Moves(t, "idle", NoJob)
    BY <1>1, <1>6, AnswerMoves
       DEF PrepareAnswers, Answers, Goes, RouteOf, LockOf, Places, same
  <2> QED
    BY <1>1, <1>6, <2>1, MoveIsOrderly
       DEF PrepareAnswers, Answers, Goes, Waiting, Kinds, same
<1> QED
  BY <1>2, <1>3, <1>4, <1>5, <1>6 DEF Preparing

\* Nobody at work, nobody waiting: what starting the server needs.
LEMMA IdleIsOrderly ==
  ASSUME Kinds, pc = [u \in Threads |-> "idle"], job = [u \in Threads |-> NoJob],
         train_mutex = NoThread, terminated = FALSE
  PROVE  Orderly
<1>1. /\ pc \in [Threads -> Places] /\ job \in [Threads -> Jobs]
      /\ NoThread \notin Threads
      /\ \A u \in Threads : pc[u] = "idle" /\ job[u] = NoJob
  BY NoJobIs, RegistryConstants DEF Places
<1>2. TypeOK
  BY <1>1, TypesAre
<1>3. Routes /\ Locked
  BY <1>1 DEF Routes, Locked, RouteOf, LockOf
<1>4. Working = {} /\ Undrawn = {}
  BY <1>1 DEF Working, Undrawn
<1>5. Bounded
  <2>1. IsFiniteSet({}) /\ Cardinality({}) = 0
    BY FS_EmptySet
  <2>2. 0 + writes <= MaxWrites
    BY NumbersAre DEF Kinds
  <2> QED
    BY <1>4, <2>1, <2>2 DEF Bounded
<1> QED
  BY <1>2, <1>3, <1>5 DEF Orderly, Safe

LEMMA RestartIsOrderly ==
  ASSUME Orderly, Restart
  PROVE  Orderly'
<1>1. /\ pc' = [u \in Threads |-> "idle"] /\ job' = [u \in Threads |-> NoJob]
      /\ train_mutex' = NoThread /\ terminated' = FALSE
      /\ scene' = scene /\ writes' = writes /\ files' = files
      /\ current' = Read(files[Btc]) /\ atom' = AtomsFrom(current')
      /\ home' = Btc /\ failed' = {} /\ deeds' = {}
  BY DEF Restart
<1>2. Kinds
  BY TypesAre DEF Orderly
<1>3. current' \in Model /\ atom' \in Atoms
  BY <1>1, <1>2, NothingIs, AtomsFromIs, PathsAre DEF Kinds
<1>4. /\ pc' \in [Threads -> Places] /\ job' \in [Threads -> Jobs]
      /\ NoThread \notin Threads
      /\ \A u \in Threads : pc'[u] = "idle" /\ job'[u] = NoJob
  BY <1>1, NoJobIs, RegistryConstants DEF Places
<1>5. TypeOK'
  BY <1>1, <1>2, <1>3, <1>4, PathsAre DEF TypeOK, Kinds, Files, Jobs
<1>6. Routes' /\ Locked'
  BY <1>1, <1>4 DEF Routes, Locked, RouteOf, LockOf
<1>7. Working' = {} /\ Undrawn' = {}
  BY <1>4 DEF Working, Undrawn
<1>8. Bounded'
  <2>1. IsFiniteSet({}) /\ Cardinality({}) = 0
    BY FS_EmptySet
  <2>2. 0 + writes <= MaxWrites
    BY <1>2, NumbersAre DEF Kinds
  <2> QED
    BY <1>1, <1>7, <2>1, <2>2 DEF Bounded
<1> QED
  BY <1>1, <1>5, <1>6, <1>8 DEF Orderly, Safe

LEMMA InitIsOrderly == Init => Orderly
<1> SUFFICES ASSUME Init PROVE Orderly
  OBVIOUS
<1>1. files \in [Paths -> Files]
  <2>1. PICK found \in Found, lost \in SUBSET Paths :
          files = [p \in Paths |-> IF p \in lost THEN Gone ELSE Whole(found[p])]
    BY DEF Init
  <2>2. found \in [Paths -> Model]
    BY RegistryConstants
  <2> QED
    BY <2>1, <2>2, NothingIs
<1>2. current \in Model /\ atom \in Atoms
  BY <1>1, NothingIs, AtomsFromIs, PathsAre DEF Init
<1>3. Kinds
  <2>1. /\ train_mutex = NoThread /\ terminated = FALSE /\ scene \in Scenes
        /\ writes = Earlier /\ home = Btc /\ failed = {} /\ deeds = {}
    BY DEF Init
  <2>2. Earlier \in Earlier .. MaxWrites
    BY NumbersAre
  <2> QED
    BY <1>1, <1>2, <2>1, <2>2, PathsAre DEF Kinds
<1> QED
  BY <1>3, IdleIsOrderly DEF Init

LEMMA StepIsOrderly == Orderly /\ [Next]_vars => Orderly'
<1> SUFFICES ASSUME Orderly, [Next]_vars PROVE Orderly'
  OBVIOUS
<1>1. ASSUME NEW t \in Threads, TrainRequest(t) PROVE Orderly'
  BY <1>1, RequestIsOrderly DEF TrainRequest, RouteOf, LockOf, Places
<1>2. ASSUME NEW t \in Threads, Training(t) PROVE Orderly'
  BY <1>1, <1>2, TrainingIsOrderly DEF Training
<1>3. CASE Restart
  BY <1>3, RestartIsOrderly
<1>4. CASE UNCHANGED vars
  BY <1>4 DEF vars, Orderly, TypeOK, Routes, Locked, Bounded, Safe, Working, Undrawn,
              Model, Jobs
<1> QED
  BY <1>2, <1>3, <1>4, SavingIsOrderly, LoadingIsOrderly, PatchIsOrderly,
     ReadingIsOrderly, PreparingIsOrderly DEF Next

LEMMA AlwaysOrderly == Spec => []Orderly
BY InitIsOrderly, StepIsOrderly, PTL DEF Spec

(* Every variable keeps its type: the handlers of any number of threads    *)
(* keep their places and locals in order, and the numbers they draw stay   *)
(* within the bound.                                                       *)
THEOREM TypeCorrect == Spec => []TypeOK
<1>1. Orderly => TypeOK
  BY DEF Orderly
<1> QED
  BY <1>1, AlwaysOrderly, PTL

(* The unprotected global json is never used in a way that could bring the *)
(* server down, whatever the number of threads and symbols, while models   *)
(* are only trained (train_mutex covers set_current_model) or requests     *)
(* come one at a time.                                                     *)
THEOREM NothingTerminates == Spec => []NoTermination
<1>1. Orderly => NoTermination
  <2> SUFFICES ASSUME Orderly, scene.ops = {"train"} \/ scene.at_once = 1
               PROVE  ~terminated
    BY DEF NoTermination
  <2>1. scene.at_once = 1 => scene.at_once <= 1
    OBVIOUS
  <2> QED
    BY <2>1 DEF Orderly, Safe
<1> QED
  BY <1>1, AlwaysOrderly, PTL

-----------------------------------------------------------------------------
(* Changes apart, and changes that meet                                    *)

LEMMA PlacesAre ==
  /\ Changing = {t \in Threads : pc[t] \in ChangingPlaces}
  /\ Relying = {t \in Threads : pc[t] \in RelyingPlaces}
  /\ Changing \subseteq Relying
BY DEF Changing, Relying, ChangingPlaces, RelyingPlaces

\* A thread that does not rely on anything, or that met another.
LEMMA NothingToLose ==
  ASSUME NEW t \in Threads, pc[t] \notin RelyingPlaces \/ job[t].crossed
  PROVE  SoundOf(t)
BY DEF SoundOf, Sound, RelyingPlaces, ChangingPlaces

\* A step that leaves alone what a thread's soundness is about.
LEMMA SoundStays ==
  ASSUME Orderly, Consistent, NEW t \in Threads, NEW u \in Threads, u # t,
         pc'[u] = pc[u], job'[u] = job[u], (train_mutex' = u) = (train_mutex = u),
         \/ t \in Changing
         \/ UNCHANGED <<atom, current, files, failed, deeds>>
  PROVE  SoundOf(u)'
<1>1. CASE pc[u] \notin RelyingPlaces \/ job[u].crossed
  BY <1>1 DEF SoundOf, Sound, RelyingPlaces, ChangingPlaces
<1>2. CASE pc[u] \in RelyingPlaces /\ ~job[u].crossed
  <2>1. u \in Relying
    BY <1>2, PlacesAre
  <2>2. t \notin Changing
    BY <1>2, <2>1 DEF Consistent, Alone
  <2>3. SoundOf(u)
    BY DEF Consistent
  <2> QED
    BY <2>2, <2>3 DEF SoundOf, Sound, Will, Fits
<1> QED
  BY <1>1, <1>2

\* A step of one thread that begins no change: the others keep what they
\* rely on.
LEMMA OthersStay ==
  ASSUME Orderly, Consistent, NEW t \in Threads, NEW to, NEW j, Moves(t, to, j),
         job' = [job EXCEPT ![t] = j],
         to \in ChangingPlaces => t \in Changing,
         to \in RelyingPlaces => t \in Relying /\ j = job[t],
         \/ t \in Changing
         \/ UNCHANGED <<atom, current, files, failed, deeds>>
  PROVE  /\ Alone'
         /\ \A u \in Threads : u # t => SoundOf(u)'
         /\ \A u \in Threads : u # t => pc'[u] = pc[u] /\ job'[u] = job[u]
         /\ pc'[t] = to /\ job'[t] = j
<1>1. /\ pc \in [Threads -> Places] /\ job \in [Threads -> Jobs] /\ NoThread \notin Threads
      /\ pc' = [pc EXCEPT ![t] = to] /\ train_mutex' \in {train_mutex, t, NoThread}
      /\ train_mutex' # train_mutex => train_mutex = t \/ train_mutex' = t
  BY TypesAre, RegistryConstants DEF Orderly, Moves
<1>2. /\ \A u \in Threads : u # t => pc'[u] = pc[u] /\ job'[u] = job[u]
      /\ pc'[t] = to /\ job'[t] = j
  BY <1>1
<1>3. \A u \in Threads : u # t => (train_mutex' = u) = (train_mutex = u)
  <2>1. train_mutex = NoThread \/ train_mutex' = train_mutex \/ train_mutex = t
    BY DEF Moves
  <2> QED
    BY <1>1, <2>1
<1>4. \A u \in Threads : u # t => SoundOf(u)'
  BY <1>2, <1>3, SoundStays
<1>5. Alone'
  <2>1. Changing' \subseteq Changing /\ Relying' \subseteq Relying
    BY <1>2, PlacesAre DEF Changing, Relying, ChangingPlaces, RelyingPlaces
  <2>2. \A u \in Relying' : job'[u] = job[u]
    BY <1>2 DEF Relying, Changing, ChangingPlaces, RelyingPlaces
  <2> QED
    BY <2>1, <2>2 DEF Consistent, Alone
<1> QED
  BY <1>2, <1>4, <1>5

\* A step outside the changes, of which only the place of the thread matters.
LEMMA QuietStep ==
  ASSUME Orderly, Consistent, NEW t \in Threads, NEW to, NEW j, Moves(t, to, j),
         job' = [job EXCEPT ![t] = j],
         t \notin Changing, to \notin ChangingPlaces,
         to \in RelyingPlaces => t \in Relying /\ j = job[t],
         UNCHANGED <<atom, current, files, home, failed, deeds>>,
         to \in RelyingPlaces => Sound(to, j, train_mutex' = t)
  PROVE  Consistent'
<1>1. /\ Alone'
      /\ \A u \in Threads : u # t => SoundOf(u)'
      /\ \A u \in Threads : u # t => pc'[u] = pc[u] /\ job'[u] = job[u]
      /\ pc'[t] = to /\ job'[t] = j
  BY OthersStay
<1>2. Changing' = Changing /\ \A u \in Changing : pc'[u] = pc[u] /\ job'[u] = job[u]
  BY <1>1 DEF Changing, ChangingPlaces
<1>3. SoundOf(t)'
  <2>1. CASE to \in RelyingPlaces
    BY <1>1, <2>1 DEF SoundOf, Sound, Will, Fits
  <2>2. CASE to \notin RelyingPlaces
    BY <1>1, <2>2 DEF SoundOf, Sound, RelyingPlaces, ChangingPlaces
  <2> QED
    BY <2>1, <2>2
<1>4. Matched'
  BY <1>2 DEF Consistent, Matched, RoughlyFits
<1>5. OnDisk'
  BY <1>2 DEF Consistent, OnDisk
<1> QED
  BY <1>1, <1>3, <1>4, <1>5 DEF Consistent

LEMMA AnswerIsQuiet ==
  ASSUME Orderly, Consistent, NEW t \in Threads, NEW from \in Places, Answers(t, from),
         from \notin ChangingPlaces,
         UNCHANGED <<atom, current, files, same>>,
         \/ train_mutex' = train_mutex /\ train_mutex # t
         \/ train_mutex = t /\ train_mutex' = NoThread
  PROVE  Consistent'
<1>1. Moves(t, "idle", NoJob) /\ job' = [job EXCEPT ![t] = NoJob]
  BY AnswerMoves DEF same, Answers
<1>2. t \notin Changing
  BY PlacesAre DEF Answers, Goes
<1> QED
  BY <1>1, <1>2, QuietStep DEF same, ChangingPlaces, RelyingPlaces

\* A request.
LEMMA RequestIsQuiet ==
  ASSUME Orderly, Consistent, NEW t \in Threads, NEW route, NEW to \in Places \ {"idle"},
         Request(t, route, to), to \notin RelyingPlaces,
         ASSUME NEW j, j.op = route, j.path \in Paths
         PROVE  RouteOf(to, j) /\ LockOf(FALSE, to, j),
         UNCHANGED <<atom, current, files, train_mutex, writes, same>>
  PROVE  Consistent'
<1>1. PICK j \in Jobs : Moves(t, to, j) /\ job' = [job EXCEPT ![t] = j]
  BY RequestMoves
<1>2. t \notin Changing
  BY PlacesAre DEF Request, Goes, ChangingPlaces
<1> QED
  BY <1>1, <1>2, QuietStep DEF same, RelyingPlaces

\* A step that leaves the job alone and ends where nothing is relied on.
LEMMA WalkIsQuiet ==
  ASSUME Orderly, Consistent, NEW t \in Threads, NEW to, Moves(t, to, job[t]), UNCHANGED job,
         t \notin Changing, to \notin ChangingPlaces,
         to \in RelyingPlaces => t \in Relying /\ Sound(to, job[t], train_mutex' = t),
         UNCHANGED <<atom, current, files, same>>
  PROVE  Consistent'
<1>1. job' = [job EXCEPT ![t] = job[t]]
  BY TypesAre DEF Orderly
<1> QED
  BY <1>1, QuietStep DEF same

LEMMA QuietTraining ==
  ASSUME Orderly, Consistent, NEW t \in Threads,
         TrainRequest(t) \/ TrainLock(t) \/ TrainThrows(t) \/ Unlock(t)
  PROVE  Consistent'
<1>1. /\ RouteOf(pc[t], job[t]) /\ LockOf(train_mutex = t, pc[t], job[t])
      /\ job[t] \in Jobs /\ pc[t] \in Places /\ Kinds
      /\ UNCHANGED job => Gives(t, job[t])
  BY HandlerIs
<1>2. CASE TrainRequest(t)
  BY <1>2, RequestIsQuiet
     DEF TrainRequest, RouteOf, LockOf, Places, RelyingPlaces, ChangingPlaces
<1>3. CASE TrainLock(t)
  <2>1. Moves(t, "train", job[t])
    BY <1>1, <1>3 DEF TrainLock, Goes, Moves, RouteOf, LockOf, Places, same
  <2>2. t \notin Changing
    BY <1>3, PlacesAre DEF TrainLock, Goes, ChangingPlaces
  <2> QED
    BY <1>3, <2>1, <2>2, WalkIsQuiet DEF TrainLock, ChangingPlaces, RelyingPlaces
<1>4. CASE TrainThrows(t)
  BY <1>1, <1>4, AnswerIsQuiet
     DEF TrainThrows, Answers, Goes, LockOf, Places, same, ChangingPlaces
<1>5. CASE Unlock(t)
  <2>1. CASE job[t].op = "prepare" /\ Goes(t, "unlock", "ram") /\ UNCHANGED job
    <3>1. Moves(t, "ram", job[t])
      BY <1>1, <1>5, <2>1 DEF Unlock, Goes, Moves, RouteOf, LockOf, Places, same
    <3>2. t \notin Changing
      BY <2>1, PlacesAre DEF Goes, ChangingPlaces
    <3> QED
      BY <1>5, <2>1, <3>1, <3>2, WalkIsQuiet DEF Unlock, ChangingPlaces, RelyingPlaces
  <2>2. CASE Answers(t, "unlock")
    BY <1>1, <1>5, <2>2, AnswerIsQuiet
       DEF Unlock, Answers, Goes, LockOf, Places, same, ChangingPlaces
  <2> QED
    BY <1>5, <2>1, <2>2 DEF Unlock
<1> QED
  BY <1>2, <1>3, <1>4, <1>5

LEMMA QuietReturns ==
  ASSUME Orderly, Consistent, NEW t \in Threads, SetCurrentReturns(t)
  PROVE  Consistent'
<1>1. /\ RouteOf(pc[t], job[t]) /\ LockOf(train_mutex = t, pc[t], job[t])
      /\ job[t] \in Jobs /\ pc[t] \in Places /\ Kinds
      /\ UNCHANGED job => Gives(t, job[t])
  BY HandlerIs
<1>2. pc[t] = "swap" /\ t \notin Changing /\ t \in Relying /\ SoundOf(t)
  BY PlacesAre
     DEF SetCurrentReturns, Answers, Goes, ChangingPlaces, RelyingPlaces, Consistent
<1>3. CASE train_mutex = t /\ Goes(t, "swap", "unlock") /\ UNCHANGED job
  <2>1. Moves(t, "unlock", job[t])
    BY <1>1, <1>3 DEF SetCurrentReturns, Goes, Moves, RouteOf, LockOf, Places, same
  <2> QED
    BY <1>2, <1>3, <2>1, WalkIsQuiet DEF SetCurrentReturns, ChangingPlaces, RelyingPlaces
<1>4. CASE train_mutex # t /\ job[t].op = "prepare" /\ Goes(t, "swap", "check") /\ UNCHANGED job
  <2>1. Moves(t, "check", job[t]) /\ train_mutex' = train_mutex
    BY <1>1, <1>4 DEF SetCurrentReturns, Goes, Moves, RouteOf, LockOf, Places, same
  <2>2. Sound("check", job[t], train_mutex' = t)
    BY <1>2, <1>4, <2>1 DEF SoundOf, Sound, ChangingPlaces
  <2> QED
    BY <1>2, <1>4, <2>1, <2>2, WalkIsQuiet DEF SetCurrentReturns, ChangingPlaces
<1>5. CASE train_mutex # t /\ Answers(t, "swap")
  BY <1>5, AnswerIsQuiet DEF SetCurrentReturns, Places, same, ChangingPlaces
<1> QED
  BY <1>3, <1>4, <1>5 DEF SetCurrentReturns

LEMMA QuietPreparing ==
  ASSUME Orderly, Consistent, NEW t \in Threads,
         \/ PrepareRequest(t) \/ PrepareCheck(t) \/ PrepareCompare(t) \/ PrepareAnswers(t)
         \/ RamLoad(t) /\ Answers(t, "ram")
  PROVE  Consistent'
<1>1. /\ RouteOf(pc[t], job[t]) /\ LockOf(train_mutex = t, pc[t], job[t])
      /\ job[t] \in Jobs /\ pc[t] \in Places /\ Kinds
      /\ UNCHANGED job => Gives(t, job[t])
  BY HandlerIs
<1>2. CASE PrepareRequest(t)
  <2>1. PICK place \in {"ram", "lock"} : Request(t, "prepare", place)
    BY <1>2 DEF PrepareRequest
  <2> QED
    BY <1>2, <2>1, RequestIsQuiet
       DEF PrepareRequest, RouteOf, LockOf, Places, RelyingPlaces, ChangingPlaces
<1>3. CASE PrepareCheck(t)
  <2>1. Moves(t, "comparing", job[t]) /\ train_mutex' = train_mutex
    BY <1>1, <1>3 DEF PrepareCheck, Goes, Moves, RouteOf, LockOf, Places, same
  <2>2. pc[t] = "check" /\ t \notin Changing /\ t \in Relying /\ SoundOf(t)
    BY <1>3, PlacesAre DEF PrepareCheck, Goes, ChangingPlaces, RelyingPlaces, Consistent
  <2>3. Sound("comparing", job[t], train_mutex' = t)
    BY <2>1, <2>2 DEF SoundOf, Sound, ChangingPlaces
  <2> QED
    BY <1>3, <2>1, <2>2, <2>3, WalkIsQuiet DEF PrepareCheck, ChangingPlaces
<1>4. CASE PrepareCompare(t)
  <2>1. CASE current.symbol = job[t].path /\ Goes(t, "comparing", "ready") /\ UNCHANGED job
    <3>1. Moves(t, "ready", job[t]) /\ train_mutex' = train_mutex
      BY <1>1, <1>4, <2>1 DEF PrepareCompare, Goes, Moves, RouteOf, LockOf, Places, same
    <3>2. pc[t] = "comparing" /\ t \notin Changing /\ t \in Relying /\ SoundOf(t)
      BY <2>1, PlacesAre DEF Goes, ChangingPlaces, RelyingPlaces, Consistent
    <3>3. Sound("ready", job[t], train_mutex' = t)
      BY <2>1, <3>1, <3>2 DEF SoundOf, Sound, ChangingPlaces
    <3> QED
      BY <1>4, <2>1, <3>1, <3>2, <3>3, WalkIsQuiet DEF PrepareCompare, ChangingPlaces
  <2>2. CASE Answers(t, "comparing")
    BY <1>1, <1>4, <2>2, AnswerIsQuiet
       DEF PrepareCompare, Answers, Goes, RouteOf, LockOf, Places, same, ChangingPlaces
  <2> QED
    BY <1>4, <2>1, <2>2 DEF PrepareCompare
<1>5. CASE PrepareAnswers(t)
  BY <1>1, <1>5, AnswerIsQuiet
     DEF PrepareAnswers, Answers, Goes, RouteOf, LockOf, Places, same, ChangingPlaces
<1>6. CASE RamLoad(t) /\ Answers(t, "ram")
  BY <1>1, <1>6, AnswerIsQuiet
     DEF RamLoad, Answers, Goes, RouteOf, LockOf, Places, same, ChangingPlaces
<1> QED
  BY <1>2, <1>3, <1>4, <1>5, <1>6

LEMMA QuietReading ==
  ASSUME Orderly, Consistent, NEW t \in Threads,
         \/ ReloadRequest(t) \/ ShowRequest(t) \/ ShowAnswers(t) \/ SetRequest(t)
         \/ ReloadRead(t) /\ Answers(t, "base")
  PROVE  Consistent'
<1>1. /\ RouteOf(pc[t], job[t]) /\ LockOf(train_mutex = t, pc[t], job[t])
      /\ job[t] \in Jobs /\ pc[t] \in Places /\ Kinds
  BY HandlerIs
<1>2. CASE ReloadRequest(t)
  BY <1>2, RequestIsQuiet
     DEF ReloadRequest, RouteOf, LockOf, Places, RelyingPlaces, ChangingPlaces
<1>3. CASE ShowRequest(t)
  BY <1>3, RequestIsQuiet
     DEF ShowRequest, RouteOf, LockOf, Places, RelyingPlaces, ChangingPlaces
<1>4. CASE ShowAnswers(t)
  BY <1>1, <1>4, AnswerIsQuiet
     DEF ShowAnswers, Answers, Goes, RouteOf, LockOf, Places, same, ChangingPlaces
<1>5. CASE SetRequest(t)
  BY <1>5, RequestIsQuiet
     DEF SetRequest, RouteOf, LockOf, Places, RelyingPlaces, ChangingPlaces
<1>6. CASE ReloadRead(t) /\ Answers(t, "base")
  BY <1>1, <1>6, AnswerIsQuiet
     DEF ReloadRead, Answers, Goes, RouteOf, LockOf, Places, same, ChangingPlaces
<1> QED
  BY <1>2, <1>3, <1>4, <1>5, <1>6

-----------------------------------------------------------------------------
(* The steps of a change                                                   *)

\* Where a change begins: it crosses those who rely on something, and is
\* crossed by those under way.
LEMMA BeginningIs ==
  ASSUME Orderly, Consistent, NEW t \in Threads, NEW from, from \notin RelyingPlaces,
         NEW to \in ChangingPlaces, NEW j \in Jobs, Begins(t, from, to, j),
         UNCHANGED <<atom, current, files, home, failed>>,
         "crossed" \notin deeds' => "crossed" \notin deeds,
         ~j.crossed => Sound(to, j, train_mutex = t)',
         Fresh(to, j) => deeds' = deeds
  PROVE  Consistent'
<1>1. /\ pc \in [Threads -> Places] /\ job \in [Threads -> Jobs]
      /\ pc[t] = from /\ pc' = [pc EXCEPT ![t] = to]
      /\ j.crossed = (Changing # {})
  BY TypesAre DEF Orderly, Begins
<1>2. job' = [u \in Threads |->
        IF u = t THEN j ELSE [job[u] EXCEPT !.crossed = @ \/ u \in Relying]]
  BY DEF Begins
<1>3. /\ pc'[t] = to /\ job'[t] = j
      /\ \A u \in Threads : u # t => pc'[u] = pc[u]
  BY <1>1, <1>2
<1>4. ASSUME NEW u \in Threads, u # t
      PROVE  /\ job'[u].op = job[u].op
             /\ u \in Relying => job'[u].crossed
  <2>1. job'[u] = [job[u] EXCEPT !.crossed = @ \/ u \in Relying] /\ job[u] \in Jobs
    BY <1>1, <1>2, <1>4
  <2> QED
    BY <2>1 DEF Jobs
<1>5. /\ t \notin Relying
      /\ Changing' = Changing \cup {t} /\ Relying' = Relying \cup {t}
  BY <1>1, <1>3 DEF Changing, Relying, ChangingPlaces, RelyingPlaces
<1>6. Alone'
  <2>1. ASSUME NEW r \in Relying', NEW c \in Changing', r # c
        PROVE  job'[r].crossed
    <3>1. CASE r = t
      <4>1. Changing # {}
        BY <1>5, <2>1, <3>1
      <4>2. j.crossed
        BY <1>1, <4>1
      <4> QED
        BY <1>3, <3>1, <4>2
    <3>2. CASE r # t
      <4>1. r \in Relying /\ r \in Threads
        BY <1>5, <2>1, <3>2, PlacesAre
      <4> QED
        BY <1>4, <3>2, <4>1
    <3> QED
      BY <3>1, <3>2
  <2> QED
    BY <2>1 DEF Alone
<1>7. ASSUME NEW u \in Threads PROVE SoundOf(u)'
  <2>1. CASE u = t
    BY <1>3, <2>1 DEF SoundOf, Sound
  <2>2. CASE u # t
    <3>1. pc'[u] \notin RelyingPlaces \/ job'[u].crossed
      BY <1>3, <1>4, <2>2, PlacesAre
    <3> QED
      BY <3>1 DEF SoundOf, Sound, RelyingPlaces, ChangingPlaces
  <2> QED
    BY <2>1, <2>2
<1>8. ASSUME NEW u \in Changing PROVE pc'[u] = pc[u] /\ job'[u].op = job[u].op
  BY <1>3, <1>4, <1>5, PlacesAre DEF Changing
<1>9. Matched'
  BY <1>3, <1>5, <1>8 DEF Consistent, Matched, Fresh, RoughlyFits
<1>10. OnDisk'
  BY <1>5, <1>8 DEF Consistent, OnDisk, Early
<1> QED
  BY <1>6, <1>7, <1>9, <1>10 DEF Consistent

LEMMA TrainRunIsConsistent ==
  ASSUME Orderly, Consistent, NEW t \in Threads, TrainRun(t)
  PROVE  Consistent'
<1>1. RouteOf(pc[t], job[t]) /\ pc[t] = "train"
  BY HandlerIs DEF TrainRun, Goes
<1>2. PICK j \in Jobs :
        /\ Begins(t, "train", "open", j)
        /\ \A n \in Names : j.doc.of[n] # Missing => j.apply[n] = j.doc.of[n]
  BY TrainRunIs
<1>3. j.op \in {"train", "prepare"}
  BY <1>1, <1>2 DEF RouteOf, Begins
<1>4. Sound("open", j, train_mutex = t)'
  BY <1>2, <1>3 DEF Sound, Will, Pending, Early, ChangingPlaces
<1> QED
  BY <1>2, <1>4, BeginningIs DEF TrainRun, same, ChangingPlaces, RelyingPlaces

LEMMA SetPatchIsConsistent ==
  ASSUME Orderly, Consistent, NEW t \in Threads, SetPatch(t)
  PROVE  Consistent'
<1>1. PICK j \in Jobs :
        /\ Begins(t, "copying", "thr", j) /\ j.op = "set"
        /\ deeds \subseteq deeds'
        /\ deeds' = {} =>
             \A n \in Names :
               j.doc.of[n] = IF j.apply[n] # Missing THEN j.apply[n] ELSE current.of[n]
  BY SetPatchIs
<1>2. UNCHANGED <<atom, current, files, home, failed>>
  BY DEF SetPatch
<1>3. ASSUME ~j.crossed, deeds' = {}, NEW n \in Names
      PROVE  j.doc.of[n] \in {Missing, Will("thr", j, n)} \cup OddOnes
  <2>1. Changing = {} /\ deeds = {}
    BY <1>1, <1>3 DEF Begins
  <2>2. RoughlyFits(current)
    BY <2>1 DEF Consistent, Matched
  <2>3. Will("thr", j, n) = IF j.apply[n] # Missing THEN j.apply[n] ELSE atom[n]
    BY DEF Will, Pending
  <2> QED
    BY <1>1, <1>3, <2>2, <2>3 DEF RoughlyFits
<1>4. ~j.crossed => Sound("thr", j, train_mutex = t)'
  BY <1>1, <1>2, <1>3 DEF Sound, Will, Early, ChangingPlaces
<1>5. ~Fresh("thr", j)
  BY DEF Fresh
<1> QED
  BY <1>1, <1>2, <1>4, <1>5, BeginningIs DEF ChangingPlaces, RelyingPlaces

LEMMA HandOnIsConsistent ==
  ASSUME Orderly, Consistent, NEW t \in Threads, NEW from, NEW j \in Jobs,
         HandsOn(t, from, j), from \in {"base", "ram"},
         from = "ram" => j.doc.ok, UNCHANGED <<atom, current, files, same>>
  PROVE  Consistent'
<1>1. RouteOf(pc[t], job[t]) /\ pc[t] = from /\ j.op = job[t].op
  BY HandlerIs DEF HandsOn, Begins
<1>2. (j.op = "reload" /\ from = "base") \/ (j.op = "prepare" /\ from = "ram")
  BY <1>1 DEF RouteOf
<1>3. ASSUME NEW n \in Names
      PROVE  j.doc.of[n] \in {Missing, Will("thr", j, n)}
  BY DEF HandsOn, Will, Pending
<1>4. Sound("thr", j, train_mutex = t)'
  BY <1>2, <1>3 DEF HandsOn, Sound, Will, ChangingPlaces, same
<1>5. ~Fresh("thr", j)
  BY DEF Fresh
<1> QED
  BY <1>4, <1>5, BeginningIs DEF HandsOn, same, ChangingPlaces, RelyingPlaces


\* Where a thread in the middle of a change goes on: the others are not
\* concerned.
LEMMA ChangeStep ==
  ASSUME Orderly, Consistent, NEW t \in Changing, NEW to \in Places,
         Goes(t, pc[t], to), UNCHANGED job, UNCHANGED train_mutex, scene' = scene,
         to \in RelyingPlaces, LockOf(train_mutex = t, to, job[t]), RouteOf(to, job[t]),
         SoundOf(t)', Matched', OnDisk'
  PROVE  Consistent'
<1>1. t \in Threads /\ t \in Relying
  BY PlacesAre DEF Changing
<1>2. Moves(t, to, job[t]) /\ job' = [job EXCEPT ![t] = job[t]]
  BY <1>1, HandlerIs, TypesAre DEF Goes, Moves, Orderly
<1>3. Alone' /\ \A u \in Threads : u # t => SoundOf(u)'
  BY <1>1, <1>2, OthersStay
<1> QED
  BY <1>3 DEF Consistent

\* The places of a step in the middle of a change.
LEMMA ChangePlaces ==
  ASSUME Orderly, NEW t \in Changing, NEW to \in Places, Goes(t, pc[t], to), UNCHANGED job
  PROVE  /\ t \in Threads /\ pc'[t] = to /\ job'[t] = job[t]
         /\ \A u \in Threads : u # t => pc'[u] = pc[u] /\ job'[u] = job[u]
         /\ to \in ChangingPlaces => Changing' = Changing
         /\ to \notin ChangingPlaces => Changing' = Changing \ {t}
BY TypesAre DEF Orderly, Goes, Changing, ChangingPlaces

LEMMA OpenFileIsConsistent ==
  ASSUME Orderly, Consistent, NEW t \in Threads, OpenFile(t)
  PROVE  Consistent'
<1>1. /\ RouteOf(pc[t], job[t]) /\ LockOf(train_mutex = t, pc[t], job[t])
      /\ pc[t] = "open" /\ Goes(t, pc[t], "dump") /\ UNCHANGED job
      /\ t \in Changing /\ SoundOf(t) /\ "dump" \in Places /\ "dump" \in ChangingPlaces
  BY HandlerIs, PlacesAre DEF OpenFile, Goes, ChangingPlaces, Places, Consistent
<1>2. pc'[t] = "dump" /\ job'[t] = job[t] /\ t \in Changing'
  BY <1>1, ChangePlaces
<1>3. SoundOf(t)'
  BY <1>1, <1>2 DEF OpenFile, same, SoundOf, Sound, Will, Pending, Early, ChangingPlaces
<1>4. Matched' /\ OnDisk'
  <2>1. ~Fresh(pc'[t], job'[t]) /\ ~Early(pc'[t], job'[t])
    BY <1>2 DEF Fresh, Early
  <2> QED
    BY <1>2, <2>1 DEF Matched, OnDisk
<1>5. LockOf(train_mutex = t, "dump", job[t]) /\ RouteOf("dump", job[t])
  BY <1>1 DEF LockOf, RouteOf
<1> QED
  BY <1>1, <1>3, <1>4, <1>5, ChangeStep DEF OpenFile, same, RelyingPlaces

LEMMA OpenFailsIsConsistent ==
  ASSUME Orderly, Consistent, NEW t \in Threads, OpenFails(t)
  PROVE  Consistent'
<1>1. /\ RouteOf(pc[t], job[t]) /\ LockOf(train_mutex = t, pc[t], job[t])
      /\ pc[t] = "open" /\ Answers(t, "open")
      /\ t \in Changing /\ "open" \in Places
  BY HandlerIs, PlacesAre DEF OpenFails, Answers, Goes, ChangingPlaces, Places
<1>2. Moves(t, "idle", NoJob) /\ job' = [job EXCEPT ![t] = NoJob]
  BY <1>1, AnswerMoves DEF OpenFails, Answers
<1>3. /\ Alone' /\ \A u \in Threads : u # t => SoundOf(u)'
      /\ \A u \in Threads : u # t => pc'[u] = pc[u] /\ job'[u] = job[u]
      /\ pc'[t] = "idle" /\ job'[t] = NoJob
  <2>1. "idle" \notin ChangingPlaces /\ "idle" \notin RelyingPlaces
    BY DEF ChangingPlaces, RelyingPlaces
  <2> QED
    BY <1>1, <1>2, <2>1, OthersStay
<1>4. SoundOf(t)'
  BY <1>3 DEF SoundOf, Sound, ChangingPlaces
<1>5. Changing' = Changing \ {t}
  BY <1>3 DEF Changing
<1>6. UNCHANGED <<atom, current, files, home, failed>>
      /\ deeds' = deeds \cup (IF job[t].op = "set" THEN {"patched"} ELSE {})
  BY DEF OpenFails
<1>7. Matched'
  <2>1. CASE job[t].op = "set"
    BY <1>6, <2>1 DEF Matched
  <2>2. CASE job[t].op # "set"
    <3>1. Fresh(pc[t], job[t]) /\ deeds' = deeds
      BY <1>1, <1>6, <2>2 DEF Fresh
    <3>2. (\A u \in Changing' : Fresh(pc'[u], job'[u]))
            => \A u \in Changing : Fresh(pc[u], job[u])
      BY <1>3, <1>5, <3>1 DEF Changing
    <3> QED
      BY <1>6, <3>1, <3>2 DEF Consistent, Matched, RoughlyFits
  <2> QED
    BY <2>1, <2>2
<1>8. OnDisk'
  <2>1. Early(pc[t], job[t]) /\ ("crossed" \notin deeds' => "crossed" \notin deeds)
    BY <1>1, <1>6 DEF Early
  <2>2. (\A u \in Changing' : Early(pc'[u], job'[u]))
          => \A u \in Changing : Early(pc[u], job[u])
    BY <1>3, <1>5, <2>1 DEF Changing
  <2> QED
    BY <1>6, <2>1, <2>2 DEF Consistent, OnDisk
<1> QED
  BY <1>3, <1>4, <1>7, <1>8 DEF Consistent

LEMMA DumpFileIsConsistent ==
  ASSUME Orderly, Consistent, NEW t \in Threads, DumpFile(t)
  PROVE  Consistent'
<1> DEFINE to == IF job[t].op = "set" THEN "current" ELSE "thr"
           p == job[t].path
<1>1. /\ RouteOf(pc[t], job[t]) /\ LockOf(train_mutex = t, pc[t], job[t])
      /\ pc[t] = "dump" /\ Goes(t, pc[t], to) /\ UNCHANGED job
      /\ t \in Changing /\ SoundOf(t) /\ to \in Places /\ to \in ChangingPlaces
      /\ p \in Paths /\ files \in [Paths -> Files]
  BY HandlerIs, PlacesAre DEF DumpFile, Goes, ChangingPlaces, Places, Consistent, Kinds
<1>2. pc'[t] = to /\ job'[t] = job[t] /\ t \in Changing'
  BY <1>1, ChangePlaces
<1>3. p \in failed' \/ files'[p] = Whole(job[t].doc)
  BY <1>1 DEF DumpFile
<1>4. LockOf(train_mutex = t, to, job[t]) /\ RouteOf(to, job[t])
  BY <1>1 DEF LockOf, RouteOf
<1>5. job[t].op = "prepare" /\ to = "thr" => train_mutex = t
  BY <1>1 DEF LockOf
<1>6. \A n \in Names : Will(to, job[t], n) = Will("dump", job[t], n)
  BY DEF Will, Pending
<1>7. SoundOf(t)'
  <2>1. UNCHANGED <<atom, deeds, train_mutex>>
    BY DEF DumpFile
  <2>2. \A n \in Names : Will(to, job[t], n)' = Will(to, job[t], n)
    BY <1>1, <2>1 DEF Will, Pending
  <2>3. ASSUME ~job[t].crossed, job[t].op = "set" => deeds = {}, NEW n \in Names
        PROVE  job[t].doc.of[n] \in
                 {Missing, Will(to, job[t], n)} \cup (IF job[t].op = "set" THEN OddOnes ELSE {})
    BY <1>1, <1>6, <2>3 DEF SoundOf, Sound, ChangingPlaces
  <2> QED
    BY <1>1, <1>2, <1>3, <1>5, <2>1, <2>2, <2>3 DEF SoundOf, Sound, ChangingPlaces
<1>8. Matched' /\ OnDisk'
  <2>1. ~Fresh(pc'[t], job'[t]) /\ ~Early(pc'[t], job'[t])
    BY <1>2 DEF Fresh, Early
  <2> QED
    BY <1>2, <2>1 DEF Matched, OnDisk
<1> QED
  BY <1>1, <1>4, <1>7, <1>8, ChangeStep DEF DumpFile, RelyingPlaces

LEMMA StoreIsConsistent ==
  ASSUME Orderly, Consistent, NEW t \in Threads, NEW name \in Names,
         NEW next \in {"ma", "fd", "open", "current"}, Store(t, name, next),
         name = "thr" => next = "ma", name = "ma" => next = "fd",
         name = "fd" => next = IF job[t].op = "set" THEN "open" ELSE "current"
  PROVE  Consistent'
<1>1. /\ RouteOf(pc[t], job[t]) /\ LockOf(train_mutex = t, pc[t], job[t])
      /\ pc[t] = name /\ Goes(t, pc[t], next) /\ UNCHANGED job
      /\ t \in Changing /\ SoundOf(t) /\ next \in Places /\ next \in ChangingPlaces
  BY HandlerIs, PlacesAre DEF Store, Goes, ChangingPlaces, Places, Consistent, Names
<1>2. pc'[t] = next /\ job'[t] = job[t] /\ t \in Changing'
  BY <1>1, ChangePlaces
<1>3. \A n \in Names :
        atom'[n] = IF n = name /\ job[t].apply[n] # Missing
                   THEN job[t].apply[n] ELSE atom[n]
  BY StoreIs
<1>4. LockOf(train_mutex = t, next, job[t]) /\ RouteOf(next, job[t])
  BY <1>1 DEF LockOf, RouteOf, Names
<1>5. ASSUME NEW n \in Names
      PROVE  Will(next, job[t], n)' = Will(name, job[t], n)
  <2>1. CASE name = "thr"
    BY <1>1, <1>3, <2>1 DEF Will, Pending, Names
  <2>2. CASE name = "ma"
    BY <1>1, <1>3, <2>2 DEF Will, Pending, Names
  <2>3. CASE name = "fd"
    BY <1>1, <1>3, <2>3 DEF Will, Pending, Names
  <2> QED
    BY <2>1, <2>2, <2>3 DEF Names
<1>6. UNCHANGED <<current, files, failed, deeds, train_mutex, home>>
  BY DEF Store, same
<1>7. Early(name, job[t]) <=> Early(next, job[t])
  BY DEF Early, Names
<1>8. SoundOf(t)'
  <2>1. ASSUME ~job[t].crossed, job[t].op = "set" => deeds = {}, NEW n \in Names
        PROVE  job[t].doc.of[n] \in
                 {Missing, Will(name, job[t], n)} \cup (IF job[t].op = "set" THEN OddOnes ELSE {})
    BY <1>1, <2>1 DEF SoundOf, Sound, ChangingPlaces, Names
  <2>2. ASSUME ~job[t].crossed, ~Early(next, job[t])
        PROVE  job[t].path \in failed \/ files[job[t].path] = Whole(job[t].doc)
    BY <1>1, <1>7, <2>2 DEF SoundOf, Sound, ChangingPlaces, Names
  <2>3. ASSUME ~job[t].crossed, job[t].op = "prepare", train_mutex # t
        PROVE  job[t].doc.ok /\ files[job[t].path] = Whole(job[t].doc)
    BY <1>1, <2>3 DEF SoundOf, Sound, Names
  <2>4. Early(next, job[t])' <=> Early(next, job[t])
    BY <1>1 DEF Early
  <2> QED
    BY <1>1, <1>2, <1>5, <1>6, <2>1, <2>2, <2>3, <2>4 DEF SoundOf, Sound, ChangingPlaces
<1>9. Changing' = Changing /\ \A u \in Changing : u # t => pc'[u] = pc[u] /\ job'[u] = job[u]
  BY <1>1, ChangePlaces, PlacesAre DEF Changing
<1>10. Matched'
  <2>1. next = "open" => job[t].op = "set"
    BY DEF Names
  <2>2. ~Fresh(pc'[t], job'[t])
    BY <1>2, <2>1 DEF Fresh
  <2> QED
    BY <1>2, <2>2 DEF Matched
<1>11. OnDisk'
  <2>1. (\A u \in Changing' : Early(pc'[u], job'[u]))
          => \A u \in Changing : Early(pc[u], job[u])
    BY <1>1, <1>2, <1>7, <1>9
  <2> QED
    BY <1>6, <2>1 DEF Consistent, OnDisk
<1> QED
  BY <1>1, <1>4, <1>6, <1>8, <1>10, <1>11, ChangeStep
     DEF Store, same, RelyingPlaces, ChangingPlaces

LEMMA SetCurrentIsConsistent ==
  ASSUME Orderly, Consistent, NEW t \in Threads, SetCurrent(t)
  PROVE  Consistent'
<1>1. /\ RouteOf(pc[t], job[t]) /\ LockOf(train_mutex = t, pc[t], job[t])
      /\ pc[t] = "current" /\ Goes(t, pc[t], "swap") /\ UNCHANGED job
      /\ t \in Changing /\ t \in Relying /\ SoundOf(t) /\ "swap" \in Places
  BY HandlerIs, PlacesAre DEF SetCurrent, Goes, ChangingPlaces, Places, Consistent
<1>2. /\ pc'[t] = "swap" /\ job'[t] = job[t] /\ Changing' = Changing \ {t}
  BY <1>1, ChangePlaces DEF ChangingPlaces
<1>3. /\ current' = job[t].doc /\ home' = job[t].path
      /\ UNCHANGED <<atom, files, failed, train_mutex, scene>>
      /\ deeds' = (IF job[t].crossed THEN {"crossed"} ELSE {})
                 \cup (IF job[t].op = "set" /\ deeds # {} THEN {"patched"} ELSE {})
  BY DEF SetCurrent, Changed
<1>4. LockOf(train_mutex = t, "swap", job[t]) /\ RouteOf("swap", job[t])
  BY <1>1 DEF LockOf, RouteOf
<1>5. \A n \in Names : Will("current", job[t], n) = atom[n]
  BY DEF Will, Pending
<1>6. ASSUME ~job[t].crossed, job[t].op = "set" => deeds = {}, NEW n \in Names
      PROVE  job[t].doc.of[n] \in
               {Missing, atom[n]} \cup (IF job[t].op = "set" THEN OddOnes ELSE {})
  BY <1>1, <1>5, <1>6 DEF SoundOf, Sound, ChangingPlaces
<1>7. SoundOf(t)'
  <2>1. ASSUME ~job[t].crossed, job[t].op = "prepare", train_mutex # t
        PROVE  /\ job[t].doc.ok /\ files[job[t].path] = Whole(job[t].doc)
               /\ \A n \in Names : job[t].doc.of[n] \in {Missing, atom[n]}
    BY <1>1, <1>6, <2>1 DEF SoundOf, Sound
  <2> QED
    BY <1>2, <1>3, <2>1 DEF SoundOf, Sound, Fits, ChangingPlaces
<1>8. Matched'
  <2>1. ASSUME deeds' = {} PROVE RoughlyFits(current)'
    <3>1. ~job[t].crossed /\ (job[t].op = "set" => deeds = {})
      BY <1>3, <2>1
    <3> QED
      BY <1>3, <1>6, <3>1 DEF RoughlyFits, OddOnes
  <2> QED
    BY <2>1 DEF Matched
<1>9. OnDisk'
  <2>1. ASSUME "crossed" \notin deeds', home' \notin failed'
        PROVE  current' = Read(files'[home'])
    <3>1. ~job[t].crossed /\ ~Early(pc[t], job[t])
      BY <1>1, <1>3, <2>1 DEF Early
    <3>2. files[job[t].path] = Whole(job[t].doc)
      BY <1>1, <1>3, <2>1, <3>1 DEF SoundOf, Sound, ChangingPlaces
    <3> QED
      BY <1>3, <3>2 DEF Read, Whole
  <2> QED
    BY <2>1 DEF OnDisk
<1> QED
  BY <1>1, <1>3, <1>4, <1>7, <1>8, <1>9, ChangeStep DEF RelyingPlaces

-----------------------------------------------------------------------------
(* Starts, and every step                                                  *)

LEMMA StartIsConsistent ==
  ASSUME pc = [u \in Threads |-> "idle"], home = Btc, failed = {}, deeds = {},
         files \in [Paths -> Files],
         current = Read(files[Btc]), atom = AtomsFrom(current)
  PROVE  Consistent
<1>1. Changing = {} /\ Relying = {}
  BY DEF Changing, Relying
<1>2. Alone /\ OnDisk
  BY <1>1 DEF Alone, OnDisk
<1>3. current \in Model
  BY NothingIs, PathsAre
<1>4. Matched
  BY <1>3, AtomsFromIs DEF Matched, RoughlyFits
<1>5. \A u \in Threads : SoundOf(u)
  BY DEF SoundOf, Sound, ChangingPlaces
<1> QED
  BY <1>2, <1>4, <1>5 DEF Consistent

LEMMA RestartIsConsistent ==
  ASSUME Orderly, Restart
  PROVE  Consistent'
<1>1. /\ pc' = [u \in Threads |-> "idle"] /\ home' = Btc /\ failed' = {} /\ deeds' = {}
      /\ files' = files /\ current' = Read(files[Btc]) /\ atom' = AtomsFrom(current')
  BY DEF Restart
<1>2. Changing' = {} /\ Relying' = {}
  BY <1>1 DEF Changing, Relying
<1>3. Alone' /\ OnDisk'
  BY <1>1, <1>2 DEF Alone, OnDisk
<1>4. current' \in Model
  BY <1>1, NothingIs, PathsAre, TypesAre DEF Orderly, Kinds
<1>5. Matched'
  BY <1>1, <1>4, AtomsFromIs DEF Matched, RoughlyFits, OddOnes
<1>6. \A u \in Threads : SoundOf(u)'
  BY <1>1 DEF SoundOf, Sound, ChangingPlaces
<1> QED
  BY <1>3, <1>5, <1>6 DEF Consistent

LEMMA InitIsConsistent == Init => Orderly /\ Consistent
<1> SUFFICES ASSUME Init PROVE Orderly /\ Consistent
  OBVIOUS
<1>1. Orderly
  BY InitIsOrderly
<1>2. files \in [Paths -> Files]
  BY <1>1, TypesAre DEF Orderly, Kinds
<1> QED
  BY <1>1, <1>2, StartIsConsistent DEF Init

LEMMA StepIsConsistent == Orderly /\ Consistent /\ [Next]_vars => Consistent'
<1> SUFFICES ASSUME Orderly, Consistent, [Next]_vars PROVE Consistent'
  OBVIOUS
<1>1. ASSUME NEW t \in Threads, Training(t) PROVE Consistent'
  BY <1>1, QuietTraining, TrainRunIsConsistent DEF Training
<1>2. ASSUME NEW t \in Threads, Saving(t) PROVE Consistent'
  BY <1>2, OpenFileIsConsistent, OpenFailsIsConsistent, DumpFileIsConsistent DEF Saving
<1>3. ASSUME NEW t \in Threads, Loading(t) PROVE Consistent'
  <2>1. CASE Store(t, "thr", "ma")
    BY <2>1, StoreIsConsistent DEF Names
  <2>2. CASE Store(t, "ma", "fd")
    BY <2>2, StoreIsConsistent DEF Names
  <2>3. CASE Store(t, "fd", IF job[t].op = "set" THEN "open" ELSE "current")
    BY <2>3, StoreIsConsistent DEF Names
  <2> QED
    BY <1>3, <2>1, <2>2, <2>3, SetCurrentIsConsistent, QuietReturns DEF Loading, StoreAtoms
<1>4. ASSUME NEW t \in Threads, Patching(t) PROVE Consistent'
  BY <1>4, QuietReading, SetPatchIsConsistent DEF Patching
<1>5. ASSUME NEW t \in Threads, Reading(t) PROVE Consistent'
  <2>1. CASE ReloadRead(t) /\ ~Answers(t, "base")
    <3>1. PICK j \in Jobs : HandsOn(t, "base", j)
      BY <2>1, ReloadReadIs
    <3>2. UNCHANGED <<atom, current, files, same>>
      BY <2>1 DEF ReloadRead
    <3> QED
      BY <3>1, <3>2, HandOnIsConsistent
  <2> QED
    BY <1>5, <2>1, QuietReading DEF Reading
<1>6. ASSUME NEW t \in Threads, Preparing(t) PROVE Consistent'
  <2>1. CASE RamLoad(t) /\ ~Answers(t, "ram")
    <3>1. PICK j \in Jobs : HandsOn(t, "ram", j) /\ j.doc.ok
      BY <2>1, RamLoadIs
    <3>2. UNCHANGED <<atom, current, files, same>>
      BY <2>1 DEF RamLoad
    <3> QED
      BY <3>1, <3>2, HandOnIsConsistent
  <2> QED
    BY <1>6, <2>1, QuietPreparing DEF Preparing
<1>7. CASE Restart
  BY <1>7, RestartIsConsistent
<1>8. CASE UNCHANGED vars
  BY <1>8 DEF vars, Consistent, Alone, Matched, OnDisk, SoundOf, Sound, Will, Fits,
              RoughlyFits, Changing, Relying
<1> QED
  BY <1>1, <1>2, <1>3, <1>4, <1>5, <1>6, <1>7, <1>8 DEF Next

LEMMA AlwaysConsistent == Spec => [](Orderly /\ Consistent)
<1>1. Orderly /\ Consistent /\ [Next]_vars => (Orderly /\ Consistent)'
  BY StepIsOrderly, StepIsConsistent
<1> QED
  BY InitIsConsistent, <1>1, PTL DEF Spec

(* Whenever no change of models is under way, the atoms are those of the   *)
(* model in memory: for any routes together, any number of requests at     *)
(* once, with kills and files that cannot be opened or written -- except   *)
(* after the changes that `deeds` records.                                 *)
THEOREM AtomsAgree == Spec => []AtomsMatchModel
<1>1. Consistent => AtomsMatchModel
  BY DEF Consistent, Matched, RoughlyFits, OddOnes, AtomsMatchModel
<1> QED
  BY <1>1, AlwaysConsistent, PTL

(* Whenever no change of models is under way, memory is what the file      *)
(* holds that it was read from or written to, unless that file could not   *)
(* be written whole or the last change met another one: also after kills   *)
(* in the middle of a write.                                               *)
THEOREM MemoryIsSaved == Spec => []RamIsOnDisk
<1>1. Consistent => RamIsOnDisk
  BY DEF Consistent, OnDisk, RamIsOnDisk
<1> QED
  BY <1>1, AlwaysConsistent, PTL

(* A prepare that answers ready while no other request has changed models  *)
(* since it began to load its own has a valid model of its symbol in       *)
(* memory, with its atoms and as its file holds it.                        *)
THEOREM ReadyIsReady == Spec => []ReadyMeansLoaded
<1>1. Orderly /\ Consistent => ReadyMeansLoaded
  <2> SUFFICES ASSUME Orderly, Consistent, NEW t \in Threads,
                      pc[t] = "ready", ~job[t].crossed
               PROVE  /\ current.ok /\ current.symbol = job[t].path
                      /\ Fits(current)
                      /\ files[job[t].path] = Whole(current)
    BY DEF ReadyMeansLoaded
  <2>1. job[t].op = "prepare" /\ train_mutex # t
    BY HandlerIs DEF RouteOf, LockOf
  <2> QED
    BY <2>1 DEF Consistent, SoundOf, Sound
<1> QED
  BY <1>1, AlwaysConsistent, PTL

=============================================================================
