--------------------------- MODULE CandleFilesProofs ---------------------------
(***************************************************************************)
(* Proofs about the candle files (CandleFiles), for any number of threads, *)
(* any mix of operations, with kills and failing writes or without: the    *)
(* types, that a request trains on the candles it prepared unless another  *)
(* one changed a file it still needed or a step of a pipeline failed, and  *)
(* that X and y fit each other.                                            *)
(***************************************************************************)
EXTENDS CandleFiles, SequenceTheorems, TLAPS

-----------------------------------------------------------------------------
(* The inductive invariants                                                *)

RawNames   == {Raw(f) : f \in Frames}
CleanNames == {Clean(f) : f \in Frames}

Writes ==
  [file : Names, source : Names \cup {Net}, cols : {6, 7}, seven : BOOLEAN,
   moved : BOOLEAN, else : {"go", "stop", "skip", "add"}]

Jobs ==
  [op : ops \cup {"none"}, todo : Seq(Writes), run : 0..MaxRuns, fetch : BOOLEAN,
   cleanup : BOOLEAN, filled : BOOLEAN, flawed : BOOLEAN, wrote : SUBSET Names, made : Content,
   loaded : [Frames -> Content]]

\* What every script keeps to: clean files have six columns, and what is
\* moved into place is made from a file.
Proper(todo) ==
  \A i \in 1..Len(todo) :
    /\ todo[i].file \in CleanNames => todo[i].cols = 6
    /\ todo[i].moved => todo[i].source # Net

\* Only the pipeline and GET /api/train fetch for a training, and the latter
\* does not go on when its script has failed.
Candid(j) ==
  /\ j.fetch => j.op \in {"train", "pipeline"}
  /\ j.flawed => j.op # "train"

\* A request that prepares its candles, and whose own steps succeeded so far.
Steady(j) == j.fetch /\ ~j.flawed

\* A script that runs has something to do.
AtWork(place, j) ==
  /\ Candid(j)
  /\ place \in {"net", "open", "fill", "move"} => j.todo # <<>>
  /\ place = "fill" => ~Head(j.todo).moved
  /\ place = "move" =>
       Head(j.todo).moved /\ (Head(j.todo).file \in CleanNames => j.made.cols # 7)

Stored(fs) == fs \in [Names -> Content] /\ \A f \in Frames : fs[Clean(f)].cols # 7

Typed ==
  /\ Stored(files)
  /\ pc \in [Threads -> Places] /\ job \in [Threads -> Jobs]
  /\ \A t \in Threads : Proper(job[t].todo) /\ AtWork(pc[t], job[t])
  /\ runs \in 0..MaxRuns /\ upset \subseteq Threads /\ ops \in Scenes

\* What is left of a script that fetches, with the files written so far: the
\* sources of each write are raw files written before it; no write fills
\* the file it reads; at the end everything has been written.
Sound(todo, wrote) ==
  /\ \A i \in 1..Len(todo) :
       /\ todo[i].cols = IF todo[i].file \in RawNames THEN 7 ELSE 6
       /\ todo[i].source # Net =>
            /\ todo[i].source \in RawNames
            /\ \/ todo[i].source \in wrote
               \/ \E k \in 1..(i - 1) : todo[k].file = todo[i].source
            /\ ~todo[i].moved => todo[i].source # todo[i].file
  /\ \A g \in Names : g \in wrote \/ \E i \in 1..Len(todo) : todo[i].file = g

Reads(todo, g) == \E i \in 1..Len(todo) : todo[i].source = g

\* The places up to the loading of the candles, and up to the snapshot.
Preparing == {"net", "open", "fill", "move", "check", "fetched", "load15", "load60"}
Looking   == Preparing \cup {"trained", "infer15", "infer60"}

Wanted(place, j) ==
  {g \in j.wrote : \/ Reads(j.todo, g)
                   \/ g \in CleanNames /\ place \in Preparing
                   \/ g \in RawNames /\ j.op = "pipeline" /\ place \in Looking}

\* All rows of the download n, with the columns that the file should have.
Fresh(g, n) == Rows(n, TRUE, IF g \in RawNames THEN 7 ELSE 6)
Good(c, n) == HasRows(c) /\ c.whole /\ c.of = n

\* A request that prepares its candles, undisturbed, and the files fs.
Undisturbed(fs, place, j) ==
  /\ j.op \in {"train", "pipeline"}
  /\ place \in {"check", "fetched", "infer15", "infer60", "inferred"} => j.op = "pipeline"
  /\ Sound(j.todo, j.wrote)
  /\ place = "net" => j.wrote = {}
  /\ place \notin {"net", "open", "fill", "move"} => j.todo = <<>>
  /\ \A g \in Wanted(place, j) :
       (place = "fill" => g # Head(j.todo).file) => fs[g] = Fresh(g, j.run)
  /\ place = "move" => j.made = Fresh(Head(j.todo).file, j.run)
  /\ place \in {"load60", "trained", "infer60", "inferred"} => Good(j.loaded["15"], j.run)
  /\ place \in {"trained", "inferred"} => Good(j.loaded["60"], j.run)

Prepared ==
  \A t \in Threads : Steady(job[t]) /\ t \notin upset => Undisturbed(files, pc[t], job[t])

\* One builds X and y at a time, and saves y last.
Saving == {"loading", "savex", "savey"}

Paired ==
  ~rivals =>
    /\ \A t, u \in Threads : pc[t] \in Saving /\ pc[u] \in Saving => t = u
    /\ \A t \in Threads : pc[t] \in Saving => yfile = Gone
    /\ \A t \in Threads : pc[t] = "savey" => xfile = job[t].made
    /\ yfile # Gone => xfile = yfile

XyTyped == {xfile, yfile} \subseteq Content /\ rivals \in BOOLEAN

-----------------------------------------------------------------------------
(* Files, contents and scripts                                             *)

LEMMA NamesAre ==
  /\ Names = RawNames \cup CleanNames /\ RawNames \cap CleanNames = {}
  /\ Net \notin Names
  /\ \A g \in Names : /\ (g[1] = "clean") <=> (g \in CleanNames)
                      /\ (g[1] = "raw") <=> (g \in RawNames)
  /\ \A f \in Frames : Raw(f) \in RawNames /\ Clean(f) \in CleanNames
  /\ Raw("15") # Raw("60") /\ Clean("15") # Clean("60")
BY DEF Names, RawNames, CleanNames, Raw, Clean, Frames, Net

LEMMA RunsAre == MaxRuns \in Nat
BY FilesConstants

LEMMA ContentsAre ==
  /\ Gone \in Content /\ Gone.kind = "gone" /\ Gone.cols = 0
  /\ Empty \in Content /\ Empty.kind = "empty" /\ Empty.cols = 0
  /\ \A n \in 0..MaxRuns, whole \in BOOLEAN, cols \in {0, 6, 7} :
       /\ Rows(n, whole, cols) \in Content /\ Rows(n, whole, cols).kind = "rows"
       /\ Rows(n, whole, cols).of = n /\ Rows(n, whole, cols).whole = whole
       /\ Rows(n, whole, cols).cols = cols
  /\ \A n \in 0..MaxRuns, cols \in {6, 7} :
       Opened(n, cols) \in Content /\ Opened(n, cols).cols = cols
<1>1. 0 \in 0..MaxRuns
  BY RunsAre
<1>2. Gone \in Content /\ Gone.kind = "gone" /\ Gone.cols = 0
  BY <1>1 DEF Content, Kinds, Gone
<1>4. Empty \in Content /\ Empty.kind = "empty" /\ Empty.cols = 0
  BY <1>2 DEF Content, Kinds, Empty
<1>5. ASSUME NEW n \in 0..MaxRuns, NEW whole \in BOOLEAN, NEW cols \in {0, 6, 7}
      PROVE  /\ Rows(n, whole, cols) \in Content /\ Rows(n, whole, cols).kind = "rows"
             /\ Rows(n, whole, cols).of = n /\ Rows(n, whole, cols).whole = whole
             /\ Rows(n, whole, cols).cols = cols
  BY <1>5 DEF Content, Kinds, Rows
<1>6. ASSUME NEW n \in 0..MaxRuns, NEW cols \in {6, 7}
      PROVE  Opened(n, cols) \in Content /\ Opened(n, cols).cols = cols
  BY <1>6 DEF Content, Kinds, Opened
<1> QED
  BY <1>2, <1>4, <1>5, <1>6

LEMMA SeenIs ==
  ASSUME NEW c \in Content
  PROVE  /\ \A d \in Seen(c) : /\ d.kind \in Kinds /\ d.of \in 0..MaxRuns
                               /\ d.whole \in BOOLEAN /\ d.cols \in {0, c.cols}
                               /\ d \in Content
         /\ c.kind # "open" => Seen(c) = {c}
<1>1. c.of \in 0..MaxRuns /\ c.cols \in {0, 6, 7} /\ c.kind \in Kinds /\ c.whole \in BOOLEAN
  BY DEF Content
<1>2. CASE c.kind = "open"
  <2>1. Seen(c) = {Empty, Rows(c.of, FALSE, c.cols)}
    BY <1>2 DEF Seen
  <2>2. Rows(c.of, FALSE, c.cols) \in Content /\ Rows(c.of, FALSE, c.cols).cols = c.cols
    BY <1>1, ContentsAre
  <2>3. \A d \in Seen(c) : d \in Content /\ d.cols \in {0, c.cols}
    BY <2>1, <2>2, ContentsAre
  <2> QED
    BY <1>2, <2>3 DEF Content
<1>3. CASE c.kind # "open"
  BY <1>1, <1>3 DEF Seen
<1> QED
  BY <1>2, <1>3

LEMMA MadeIs ==
  ASSUME NEW w \in Writes, NEW c \in Content, NEW run \in 0..MaxRuns, NEW whole \in BOOLEAN
  PROVE  Made(w, c, run, whole) \in Content /\ Made(w, c, run, whole).cols \in {0, w.cols}
<1>1. w.cols \in {6, 7} /\ c.of \in 0..MaxRuns /\ c.whole \in BOOLEAN
  BY DEF Writes, Content
<1>2. Rows(run, whole, w.cols) \in Content /\ Rows(run, whole, w.cols).cols = w.cols
  BY <1>1, ContentsAre
<1>3. Rows(c.of, c.whole, w.cols) \in Content /\ Rows(c.of, c.whole, w.cols).cols = w.cols
  BY <1>1, ContentsAre
<1>4. Rows(run, FALSE, w.cols) \in Content /\ Rows(run, FALSE, w.cols).cols = w.cols
  <2>1. \A b \in BOOLEAN :
          Rows(run, b, w.cols) \in Content /\ Rows(run, b, w.cols).cols = w.cols
    BY <1>1, ContentsAre
  <2> QED
    BY <2>1
<1> QED
  BY <1>2, <1>3, <1>4, ContentsAre, Zenon DEF Made

LEMMA Joined ==
  ASSUME NEW a \in Writes, NEW b \in Writes, NEW c \in Writes, NEW d \in Writes
  PROVE  /\ <<a>> \o <<b, c>> = <<a, b, c>>
         /\ (<<a>> \o <<b>>) \o <<c, d>> = <<a, b, c, d>>
<1>1. /\ <<a>> \in Seq(Writes) /\ <<b>> \in Seq(Writes) /\ <<b, c>> \in Seq(Writes) /\ <<c, d>> \in Seq(Writes)
      /\ <<a, b>> \in Seq(Writes) /\ <<a, b, c>> \in Seq(Writes) /\ <<a, b, c, d>> \in Seq(Writes)
  OBVIOUS
<1>2. <<a>> \o <<b, c>> = <<a, b, c>>
  <2> DEFINE s == <<a>> \o <<b, c>>
  <2>1. s \in Seq(Writes) /\ Len(s) = 3 /\ s[1] = a /\ s[2] = b /\ s[3] = c
    BY <1>1, ConcatProperties
  <2> HIDE DEF s
  <2>2. \A i \in 1..Len(s) : s[i] = <<a, b, c>>[i]
    BY <2>1
  <2> QED
    BY <1>1, <2>1, <2>2, SeqEqual DEF s
<1>3. <<a>> \o <<b>> = <<a, b>>
  <2> DEFINE s == <<a>> \o <<b>>
  <2>1. s \in Seq(Writes) /\ Len(s) = 2 /\ s[1] = a /\ s[2] = b
    BY <1>1, ConcatProperties
  <2> HIDE DEF s
  <2>2. \A i \in 1..Len(s) : s[i] = <<a, b>>[i]
    BY <2>1
  <2> QED
    BY <1>1, <2>1, <2>2, SeqEqual DEF s
<1>4. <<a, b>> \o <<c, d>> = <<a, b, c, d>>
  <2> DEFINE s == <<a, b>> \o <<c, d>>
  <2>1. s \in Seq(Writes) /\ Len(s) = 4 /\ s[1] = a /\ s[2] = b /\ s[3] = c /\ s[4] = d
    BY <1>1, ConcatProperties
  <2> HIDE DEF s
  <2>2. \A i \in 1..Len(s) : s[i] = <<a, b, c, d>>[i]
    BY <2>1
  <2> QED
    BY <1>1, <2>1, <2>2, SeqEqual DEF s
<1> QED
  BY <1>2, <1>3, <1>4

\* The names, one by one.
LEMMA EachName ==
  /\ Raw("15") \in RawNames /\ Raw("15") \notin CleanNames /\ Raw("15") \in Names
  /\ Raw("60") \in RawNames /\ Raw("60") \notin CleanNames /\ Raw("60") \in Names
  /\ Clean("15") \in CleanNames /\ Clean("15") \notin RawNames /\ Clean("15") \in Names
  /\ Clean("60") \in CleanNames /\ Clean("60") \notin RawNames /\ Clean("60") \in Names
  /\ Raw("15") # Net /\ Raw("60") # Net /\ Clean("15") # Net /\ Clean("60") # Net
  /\ \A g \in Names : g = Raw("15") \/ g = Raw("60") \/ g = Clean("15") \/ g = Clean("60")
<1>1. \A g \in Names : g = Raw("15") \/ g = Raw("60") \/ g = Clean("15") \/ g = Clean("60")
  BY DEF Names, Frames
<1>2. /\ Raw("15") \in RawNames /\ Raw("60") \in RawNames
      /\ Clean("15") \in CleanNames /\ Clean("60") \in CleanNames
  BY DEF RawNames, CleanNames, Frames
<1> QED
  BY <1>1, <1>2, NamesAre

\* Scripts of four writes, or three, or one.
LEMMA ScriptOf ==
  ASSUME NEW a \in Writes, NEW b \in Writes, NEW c \in Writes, NEW d \in Writes
  PROVE  /\ <<a, b, c, d>> \in Seq(Writes) /\ Len(<<a, b, c, d>>) = 4
         /\ <<a, b, c, d>>[1] = a /\ <<a, b, c, d>>[2] = b
         /\ <<a, b, c, d>>[3] = c /\ <<a, b, c, d>>[4] = d
         /\ <<a, b, c>> \in Seq(Writes) /\ Len(<<a, b, c>>) = 3
         /\ <<a, b, c>>[1] = a /\ <<a, b, c>>[2] = b /\ <<a, b, c>>[3] = c
         /\ <<a>> \in Seq(Writes) /\ Len(<<a>>) = 1 /\ <<a>>[1] = a
OBVIOUS

LEMMA FetchScriptIs ==
  /\ fetch_15m_and_agg \in Seq(Writes) /\ fetch_15m_and_agg # <<>>
  /\ Proper(fetch_15m_and_agg) /\ Sound(fetch_15m_and_agg, {})
<1> DEFINE a == Write(Raw("15"),   Net,       7, FALSE, FALSE, "go")
           b == Write(Clean("15"), Raw("15"), 6, TRUE,  FALSE, "stop")
           c == Write(Raw("60"),   Raw("15"), 7, FALSE, FALSE, "go")
           d == Write(Clean("60"), Raw("60"), 6, FALSE, FALSE, "go")
<1>1. /\ a \in Writes /\ a.file = Raw("15") /\ a.source = Net /\ a.cols = 7 /\ a.moved = FALSE
      /\ b \in Writes /\ b.file = Clean("15") /\ b.source = Raw("15") /\ b.cols = 6 /\ b.moved = FALSE
      /\ c \in Writes /\ c.file = Raw("60") /\ c.source = Raw("15") /\ c.cols = 7 /\ c.moved = FALSE
      /\ d \in Writes /\ d.file = Clean("60") /\ d.source = Raw("60") /\ d.cols = 6 /\ d.moved = FALSE
  <2>1. a \in Writes /\ b \in Writes /\ c \in Writes /\ d \in Writes
    BY EachName DEF Write, Writes
  <2> QED
    BY <2>1 DEF Write
<1>2. fetch_15m_and_agg = <<a, b, c, d>>
  BY DEF fetch_15m_and_agg
<1> HIDE DEF a, b, c, d
<1> DEFINE s == <<a, b, c, d>>
<1>3. /\ s \in Seq(Writes) /\ Len(s) = 4
      /\ s[1] = a /\ s[2] = b /\ s[3] = c /\ s[4] = d
  BY <1>1, ScriptOf
<1> HIDE DEF s
<1>4. 1..Len(s) = {1, 2, 3, 4}
  BY <1>3
<1>5. Proper(s)
  BY <1>1, <1>3, <1>4, EachName DEF Proper
<1>6. \A g \in Names : \E i \in 1..Len(s) : s[i].file = g
  BY <1>1, <1>3, <1>4, EachName
<1>7. ASSUME NEW i \in 1..Len(s)
      PROVE  /\ s[i].cols = IF s[i].file \in RawNames THEN 7 ELSE 6
             /\ s[i].source # Net =>
                  /\ s[i].source \in RawNames
                  /\ \/ s[i].source \in {}
                     \/ \E k \in 1..(i - 1) : s[k].file = s[i].source
                  /\ ~s[i].moved => s[i].source # s[i].file
  <2>1. CASE i = 1
    BY <1>1, <1>3, <2>1, EachName
  <2>2. CASE i = 2
    <3>1. s[1].file = s[i].source /\ 1 \in 1..(i - 1)
      BY <1>1, <1>3, <2>2
    <3> QED
      BY <1>1, <1>3, <2>2, <3>1, EachName
  <2>3. CASE i = 3
    <3>1. s[1].file = s[i].source /\ 1 \in 1..(i - 1) /\ s[i].source # s[i].file
      BY <1>1, <1>3, <2>3, NamesAre
    <3> QED
      BY <1>1, <1>3, <2>3, <3>1, EachName
  <2>4. CASE i = 4
    <3>1. s[3].file = s[i].source /\ 3 \in 1..(i - 1)
      BY <1>1, <1>3, <2>4
    <3> QED
      BY <1>1, <1>3, <2>4, <3>1, EachName
  <2> QED
    BY <1>4, <2>1, <2>2, <2>3, <2>4
<1>8. Sound(s, {})
  BY <1>6, <1>7 DEF Sound
<1>9. s # <<>>
  BY <1>3
<1> QED
  BY <1>2, <1>3, <1>5, <1>8, <1>9 DEF s

LEMMA PipelineScriptIs ==
  LET script == backfill("15") \o backfill("60") \o clean_from_raw IN
  script \in Seq(Writes) /\ script # <<>> /\ Proper(script) /\ Sound(script, {})
<1> DEFINE a == Write(Raw("15"),   Net,       7, FALSE, FALSE, "go")
           b == Write(Raw("60"),   Net,       7, FALSE, FALSE, "go")
           c == Write(Clean("15"), Raw("15"), 6, TRUE,  FALSE, "skip")
           d == Write(Clean("60"), Raw("60"), 6, TRUE,  FALSE, "skip")
<1>1. /\ a \in Writes /\ a.file = Raw("15") /\ a.source = Net /\ a.cols = 7 /\ a.moved = FALSE
      /\ b \in Writes /\ b.file = Raw("60") /\ b.source = Net /\ b.cols = 7 /\ b.moved = FALSE
      /\ c \in Writes /\ c.file = Clean("15") /\ c.source = Raw("15") /\ c.cols = 6 /\ c.moved = FALSE
      /\ d \in Writes /\ d.file = Clean("60") /\ d.source = Raw("60") /\ d.cols = 6 /\ d.moved = FALSE
  <2>1. a \in Writes /\ b \in Writes /\ c \in Writes /\ d \in Writes
    BY EachName DEF Write, Writes
  <2> QED
    BY <2>1 DEF Write
<1>2. backfill("15") = <<a>> /\ backfill("60") = <<b>> /\ clean_from_raw = <<c, d>>
  BY DEF backfill, clean_from_raw
<1> HIDE DEF a, b, c, d
<1> DEFINE s == <<a, b, c, d>>
<1>3. backfill("15") \o backfill("60") \o clean_from_raw = s
  <2>1. a \in Writes /\ b \in Writes /\ c \in Writes /\ d \in Writes
    BY <1>1
  <2>2. \A x, y, z, w \in Writes : (<<x>> \o <<y>>) \o <<z, w>> = <<x, y, z, w>>
    BY Joined
  <2>3. (<<a>> \o <<b>>) \o <<c, d>> = <<a, b, c, d>>
    BY <2>1, <2>2, Zenon
  <2> QED
    BY <1>2, <2>3, Zenon
<1>4. /\ s \in Seq(Writes) /\ Len(s) = 4
      /\ s[1] = a /\ s[2] = b /\ s[3] = c /\ s[4] = d
  BY <1>1, ScriptOf
<1> HIDE DEF s
<1>5. 1..Len(s) = {1, 2, 3, 4}
  BY <1>4
<1>6. Proper(s)
  BY <1>1, <1>4, <1>5, EachName DEF Proper
<1>7. \A g \in Names : \E i \in 1..Len(s) : s[i].file = g
  BY <1>1, <1>4, <1>5, EachName
<1>8. ASSUME NEW i \in 1..Len(s)
      PROVE  /\ s[i].cols = IF s[i].file \in RawNames THEN 7 ELSE 6
             /\ s[i].source # Net =>
                  /\ s[i].source \in RawNames
                  /\ \/ s[i].source \in {}
                     \/ \E k \in 1..(i - 1) : s[k].file = s[i].source
                  /\ ~s[i].moved => s[i].source # s[i].file
  <2>1. CASE i = 1 \/ i = 2
    BY <1>1, <1>4, <2>1, EachName
  <2>2. CASE i = 3
    <3>1. s[1].file = s[i].source /\ 1 \in 1..(i - 1)
      BY <1>1, <1>4, <2>2
    <3> QED
      BY <1>1, <1>4, <2>2, <3>1, EachName
  <2>3. CASE i = 4
    <3>1. s[2].file = s[i].source /\ 2 \in 1..(i - 1)
      BY <1>1, <1>4, <2>3
    <3> QED
      BY <1>1, <1>4, <2>3, <3>1, EachName
  <2> QED
    BY <1>5, <2>1, <2>2, <2>3
<1>9. Sound(s, {})
  BY <1>7, <1>8 DEF Sound
<1>10. s # <<>>
  BY <1>4
<1> QED
  BY <1>3, <1>4, <1>6, <1>9, <1>10

LEMMA GapsScriptIs ==
  fill_gaps \in Seq(Writes) /\ fill_gaps # <<>> /\ Proper(fill_gaps) /\ Sound(fill_gaps, Names)
<1> DEFINE a == Write(Raw("15"),   Raw("15"), 7, TRUE, TRUE,  "add")
           b == Write(Clean("15"), Raw("15"), 6, TRUE, FALSE, "skip")
           c == Write(Clean("60"), Raw("60"), 6, TRUE, FALSE, "skip")
<1>1. /\ a \in Writes /\ a.file = Raw("15") /\ a.source = Raw("15") /\ a.cols = 7 /\ a.moved = TRUE
      /\ b \in Writes /\ b.file = Clean("15") /\ b.source = Raw("15") /\ b.cols = 6 /\ b.moved = FALSE
      /\ c \in Writes /\ c.file = Clean("60") /\ c.source = Raw("60") /\ c.cols = 6 /\ c.moved = FALSE
  <2>1. a \in Writes /\ b \in Writes /\ c \in Writes
    BY EachName DEF Write, Writes
  <2> QED
    BY <2>1 DEF Write
<1>2. clean_from_raw = <<b, c>> /\ fill_gaps = <<a>> \o clean_from_raw
  BY DEF clean_from_raw, fill_gaps
<1> HIDE DEF a, b, c
<1> DEFINE s == <<a, b, c>>
<1>3. fill_gaps = s
  BY <1>1, <1>2, Joined
<1>4. s \in Seq(Writes) /\ Len(s) = 3 /\ s[1] = a /\ s[2] = b /\ s[3] = c
  BY <1>1, ScriptOf
<1> HIDE DEF s
<1>5. 1..Len(s) = {1, 2, 3}
  BY <1>4
<1>6. Proper(s)
  BY <1>1, <1>4, <1>5, EachName DEF Proper
<1>7. Sound(s, Names)
  BY <1>1, <1>4, <1>5, EachName DEF Sound
<1>8. s # <<>>
  BY <1>4, EmptySeq
<1> QED
  BY <1>3, <1>4, <1>6, <1>7, <1>8, Zenon

LEMMA OtherScriptsAre ==
  /\ fetch_bybit_rest \in Seq(Writes) /\ fetch_bybit_rest # <<>> /\ Proper(fetch_bybit_rest)
  /\ \A f \in Frames : backfill(f) \in Seq(Writes) /\ backfill(f) # <<>> /\ Proper(backfill(f))
<1>1. fetch_bybit_rest \in Seq(Writes) /\ fetch_bybit_rest # <<>> /\ Proper(fetch_bybit_rest)
  <2> DEFINE a == Write(Raw("60"),   Net,       6, FALSE, FALSE, "go")
             b == Write(Raw("15"),   Net,       6, FALSE, FALSE, "go")
             c == Write(Clean("15"), Raw("15"), 6, FALSE, TRUE,  "skip")
             d == Write(Clean("60"), Raw("60"), 6, FALSE, TRUE,  "skip")
  <2>1. a \in Writes /\ b \in Writes /\ c \in Writes /\ d \in Writes
    BY EachName DEF Write, Writes
  <2>2. /\ a.file = Raw("60") /\ a.moved = FALSE
        /\ b.file = Raw("15") /\ b.moved = FALSE
        /\ c.source = Raw("15") /\ c.cols = 6
        /\ d.source = Raw("60") /\ d.cols = 6
    BY DEF Write
  <2>3. fetch_bybit_rest = <<a, b, c, d>>
    BY DEF fetch_bybit_rest
  <2> HIDE DEF a, b, c, d
  <2> DEFINE s == <<a, b, c, d>>
  <2>4. /\ s \in Seq(Writes) /\ Len(s) = 4
        /\ s[1] = a /\ s[2] = b /\ s[3] = c /\ s[4] = d
    BY <2>1, ScriptOf
  <2> HIDE DEF s
  <2>5. 1..Len(s) = {1, 2, 3, 4} /\ s # <<>>
    BY <2>4
  <2>6. Proper(s)
    BY <2>2, <2>4, <2>5, EachName DEF Proper
  <2> QED
    BY <2>3, <2>4, <2>5, <2>6 DEF s
<1>2. ASSUME NEW f \in Frames
      PROVE  backfill(f) \in Seq(Writes) /\ backfill(f) # <<>> /\ Proper(backfill(f))
  <2> DEFINE a == Write(Raw(f), Net, 7, FALSE, FALSE, "go")
  <2>1. f = "15" \/ f = "60"
    BY DEF Frames
  <2>2. a \in Writes
    BY <2>1, EachName DEF Write, Writes
  <2>3. a.file = Raw(f) /\ a.moved = FALSE
    BY DEF Write
  <2>4. backfill(f) = <<a>>
    BY DEF backfill
  <2> HIDE DEF a
  <2> DEFINE s == <<a>>
  <2>5. s \in Seq(Writes) /\ Len(s) = 1 /\ s[1] = a
    BY <2>2, ScriptOf
  <2> HIDE DEF s
  <2>6. 1..Len(s) = {1} /\ s # <<>>
    BY <2>5
  <2>7. Proper(s)
    BY <2>1, <2>3, <2>5, <2>6, EachName DEF Proper
  <2> QED
    BY <2>4, <2>5, <2>6, <2>7 DEF s
<1> QED
  BY <1>1, <1>2

-----------------------------------------------------------------------------
(* The rest of a script                                                    *)

LEMMA TailIs ==
  ASSUME NEW todo \in Seq(Writes), todo # <<>>
  PROVE  /\ Head(todo) = todo[1] /\ Head(todo) \in Writes /\ 1 \in 1..Len(todo)
         /\ Tail(todo) \in Seq(Writes) /\ Len(Tail(todo)) = Len(todo) - 1 /\ Len(todo) \in Nat
         /\ \A i \in 1..Len(Tail(todo)) : Tail(todo)[i] = todo[i + 1] /\ i + 1 \in 1..Len(todo)
<1>1. Len(todo) \in Nat /\ Len(todo) # 0
  BY EmptySeq, LenProperties
<1>2. /\ Head(todo) \in Writes /\ Tail(todo) \in Seq(Writes)
      /\ Len(Tail(todo)) = Len(todo) - 1
      /\ \A i \in 1..Len(Tail(todo)) : Tail(todo)[i] = todo[i + 1]
  BY HeadTailProperties
<1> QED
  BY <1>1, <1>2

LEMMA TailProper ==
  ASSUME NEW todo \in Seq(Writes), todo # <<>>, Proper(todo)
  PROVE  /\ Proper(Tail(todo))
         /\ Head(todo).file \in CleanNames => Head(todo).cols = 6
         /\ Head(todo).moved => Head(todo).source # Net
BY TailIs DEF Proper

LEMMA HeadSound ==
  ASSUME NEW todo \in Seq(Writes), todo # <<>>, NEW wrote, Sound(todo, wrote)
  PROVE  LET w == Head(todo) IN
         /\ w.cols = IF w.file \in RawNames THEN 7 ELSE 6
         /\ w.source # Net =>
              /\ w.source \in RawNames /\ w.source \in wrote
              /\ ~w.moved => w.source # w.file
<1>1. /\ todo[1].cols = IF todo[1].file \in RawNames THEN 7 ELSE 6
      /\ todo[1].source # Net =>
           /\ todo[1].source \in RawNames
           /\ \/ todo[1].source \in wrote
              \/ \E k \in 1..(1 - 1) : todo[k].file = todo[1].source
           /\ ~todo[1].moved => todo[1].source # todo[1].file
  BY TailIs DEF Sound
<1>2. 1..(1 - 1) = {}
  OBVIOUS
<1> QED
  BY <1>1, <1>2, TailIs

LEMMA TailSound ==
  ASSUME NEW todo \in Seq(Writes), todo # <<>>, NEW wrote, Sound(todo, wrote)
  PROVE  Sound(Tail(todo), wrote \cup {Head(todo).file})
<1> DEFINE s == Tail(todo)
           more == wrote \cup {Head(todo).file}
<1>1. ASSUME NEW i \in 1..Len(s)
      PROVE  /\ s[i].cols = IF s[i].file \in RawNames THEN 7 ELSE 6
             /\ s[i].source # Net =>
                  /\ s[i].source \in RawNames
                  /\ \/ s[i].source \in more
                     \/ \E k \in 1..(i - 1) : s[k].file = s[i].source
                  /\ ~s[i].moved => s[i].source # s[i].file
  <2>1. s[i] = todo[i + 1] /\ i + 1 \in 1..Len(todo) /\ i \in Nat
    BY TailIs
  <2>2. /\ todo[i + 1].cols = IF todo[i + 1].file \in RawNames THEN 7 ELSE 6
        /\ todo[i + 1].source # Net =>
             /\ todo[i + 1].source \in RawNames
             /\ \/ todo[i + 1].source \in wrote
                \/ \E k \in 1..((i + 1) - 1) : todo[k].file = todo[i + 1].source
             /\ ~todo[i + 1].moved => todo[i + 1].source # todo[i + 1].file
    BY <2>1 DEF Sound
  <2>3. ASSUME NEW k \in 1..((i + 1) - 1), todo[k].file = todo[i + 1].source
        PROVE  s[i].source \in more \/ \E l \in 1..(i - 1) : s[l].file = s[i].source
    <3>1. CASE k = 1
      BY <2>1, <2>3, <3>1, TailIs
    <3>2. CASE k # 1
      <4>1. k - 1 \in 1..(i - 1) /\ k - 1 \in 1..Len(s)
        BY <2>1, <3>2
      <4>2. s[k - 1] = todo[(k - 1) + 1] /\ (k - 1) + 1 = k
        BY <4>1, TailIs
      <4> QED
        BY <2>1, <2>3, <4>1, <4>2
    <3> QED
      BY <3>1, <3>2
  <2> QED
    BY <2>1, <2>2, <2>3
<1>2. ASSUME NEW g \in Names
      PROVE  g \in more \/ \E i \in 1..Len(s) : s[i].file = g
  <2>1. CASE g \in wrote
    BY <2>1
  <2>2. ASSUME NEW i \in 1..Len(todo), todo[i].file = g
        PROVE  g \in more \/ \E l \in 1..Len(s) : s[l].file = g
    <3>1. CASE i = 1
      BY <2>2, <3>1, TailIs
    <3>2. CASE i # 1
      <4>1. i - 1 \in 1..Len(s)
        BY <3>2, TailIs
      <4>2. s[i - 1] = todo[(i - 1) + 1] /\ (i - 1) + 1 = i
        BY <4>1, TailIs
      <4> QED
        BY <2>2, <4>1, <4>2
    <3> QED
      BY <3>1, <3>2
  <2> QED
    BY <2>1, <2>2 DEF Sound
<1> QED
  BY <1>1, <1>2 DEF Sound

LEMMA TailReads ==
  ASSUME NEW todo \in Seq(Writes), todo # <<>>, NEW g, Reads(Tail(todo), g)
  PROVE  Reads(todo, g)
BY TailIs DEF Reads

LEMMA HeadReads ==
  ASSUME NEW todo \in Seq(Writes), todo # <<>>
  PROVE  Reads(todo, Head(todo).source)
BY TailIs DEF Reads

LEMMA NoScriptIs ==
  /\ <<>> \in Seq(Writes) /\ Proper(<<>>)
  /\ \A g : ~Reads(<<>>, g)
  /\ \A wrote : Sound(<<>>, wrote) => Names \subseteq wrote
  /\ Sound(<<>>, Names)
BY DEF Proper, Reads, Sound

-----------------------------------------------------------------------------
(* The shape of a step: thread t goes to a place with a job, and whoever   *)
(* is not upset finds the files that it needs as they were.                *)

Kept(t, to, j) ==
  /\ to \in Places /\ j \in Jobs /\ Proper(j.todo) /\ AtWork(to, j)
  /\ pc' = [pc EXCEPT ![t] = to] /\ job' = [job EXCEPT ![t] = j]
  /\ Stored(files') /\ runs' \in 0..MaxRuns /\ upset' \subseteq Threads /\ ops' = ops
  /\ \A u \in Threads \ {t} : u \notin upset' =>
       u \notin upset /\ \A g \in Needed(u) : files'[g] = files[g]
  /\ Steady(j) /\ t \notin upset' => Undisturbed(files', to, j)

Keeps(t) == \E to \in Places, j \in Jobs : Kept(t, to, j)

LEMMA OwnFacts ==
  ASSUME Typed, Prepared, NEW t \in Threads
  PROVE  /\ pc[t] \in Places /\ job[t] \in Jobs /\ job[t].todo \in Seq(Writes)
         /\ Proper(job[t].todo) /\ AtWork(pc[t], job[t])
         /\ Candid(job[t])
         /\ Steady(job[t]) /\ t \notin upset => Undisturbed(files, pc[t], job[t])
BY DEF Typed, Prepared, Jobs, AtWork

LEMMA JobIs ==
  ASSUME NEW j \in Jobs
  PROVE  /\ j.op \in ops \cup {"none"} /\ j.todo \in Seq(Writes) /\ j.run \in 0..MaxRuns
         /\ j.fetch \in BOOLEAN /\ j.cleanup \in BOOLEAN /\ j.filled \in BOOLEAN
         /\ j.flawed \in BOOLEAN
         /\ j.wrote \subseteq Names /\ j.made \in Content /\ j.loaded \in [Frames -> Content]
BY DEF Jobs

LEMMA NoJobIs ==
  /\ NoJob \in Jobs /\ NoJob.fetch = FALSE /\ NoJob.todo = <<>> /\ NoJob.wrote = {}
  /\ NoJob.op = "none" /\ NoJob.flawed = FALSE /\ ~Steady(NoJob)
  /\ Proper(NoJob.todo) /\ AtWork("idle", NoJob)
<1>1. NoLoad \in [Frames -> Content]
  BY ContentsAre DEF NoLoad
<1>2. 0 \in 0..MaxRuns
  BY RunsAre
<1>3. NoJob \in Jobs
  BY <1>1, <1>2, ContentsAre, NoScriptIs DEF NoJob, Jobs
<1>4. /\ NoJob.fetch = FALSE /\ NoJob.todo = <<>> /\ NoJob.wrote = {} /\ NoJob.op = "none"
      /\ NoJob.flawed = FALSE
  BY DEF NoJob
<1> QED
  BY <1>3, <1>4, NoScriptIs DEF AtWork, Candid, Steady

LEMMA NeededNames ==
  ASSUME Typed, NEW u \in Threads
  PROVE  Needed(u) \subseteq Names
<1>1. job[u].wrote \subseteq Names /\ job[u].todo \in Seq(Writes)
  BY DEF Typed, Jobs
<1>2. pc[u] = "fill" => Head(job[u].todo) \in Writes
  BY <1>1, TailIs DEF Typed, AtWork
<1>3. pc[u] = "fill" => Head(job[u].todo).file \in Names
  BY <1>2 DEF Writes
<1> QED
  BY <1>1, <1>3 DEF Needed

LEMMA WantedNeeded ==
  ASSUME Typed, NEW u \in Threads, job[u].op \in {"train", "pipeline"}
  PROVE  Wanted(pc[u], job[u]) \subseteq Needed(u)
<1> SUFFICES ASSUME NEW g \in Wanted(pc[u], job[u])
             PROVE  g \in Needed(u)
  OBVIOUS
<1>1. g \in job[u].wrote /\ g \in Names /\ job[u].todo \in Seq(Writes)
  BY DEF Wanted, Typed, Jobs
<1>2. DOMAIN job[u].todo = 1..Len(job[u].todo)
  BY <1>1
<1>3. CASE Reads(job[u].todo, g)
  BY <1>1, <1>2, <1>3 DEF Reads, Needed
<1>4. CASE g \in CleanNames /\ pc[u] \in Preparing
  <2>1. g[1] = "clean" /\ pc[u] # "infer15" /\ pc[u] # "infer60"
    BY <1>1, <1>4, NamesAre DEF Preparing
  <2> QED
    BY <1>1, <2>1 DEF Needed
<1>5. CASE g \in RawNames /\ job[u].op = "pipeline"
  <2>1. g[1] = "raw"
    BY <1>1, <1>5, NamesAre
  <2> QED
    BY <1>1, <1>5, <2>1 DEF Needed
<1> QED
  BY <1>3, <1>4, <1>5 DEF Wanted

\* Only the files wanted matter.
LEMMA StaysUndisturbed ==
  ASSUME NEW fs, NEW more, NEW place, NEW j, Undisturbed(fs, place, j),
         \A g \in Wanted(place, j) : more[g] = fs[g]
  PROVE  Undisturbed(more, place, j)
BY Zenon DEF Undisturbed

LEMMA KeptIs ==
  ASSUME Typed, Prepared, NEW t \in Threads, Keeps(t)
  PROVE  Typed' /\ Prepared'
<1>1. PICK to \in Places, j \in Jobs : Kept(t, to, j)
  BY DEF Keeps
<1>2. pc' = [pc EXCEPT ![t] = to] /\ job' = [job EXCEPT ![t] = j] /\ ops' = ops
  BY <1>1 DEF Kept
<1>3. Jobs' = Jobs
  BY <1>2 DEF Jobs
<1>4. pc \in [Threads -> Places] /\ job \in [Threads -> Jobs]
  BY DEF Typed
<1>5. /\ pc'[t] = to /\ job'[t] = j
      /\ \A u \in Threads \ {t} : pc'[u] = pc[u] /\ job'[u] = job[u]
  BY <1>2, <1>4
<1>6. Typed'
  <2>1. pc' \in [Threads -> Places] /\ job' \in [Threads -> Jobs]
    BY <1>2, <1>4
  <2>2. \A u \in Threads : Proper(job'[u].todo) /\ AtWork(pc'[u], job'[u])
    BY <1>1, <1>5 DEF Typed, Kept
  <2>3. ops' \in Scenes
    BY <1>2 DEF Typed
  <2> QED
    BY <1>1, <1>3, <2>1, <2>2, <2>3 DEF Typed, Kept
<1>7. ASSUME NEW u \in Threads, Steady(job'[u]), u \notin upset'
      PROVE  Undisturbed(files', pc'[u], job'[u])
  <2>1. CASE u = t
    BY <1>1, <1>5, <1>7, <2>1 DEF Kept
  <2>2. CASE u # t
    <3>1. u \notin upset /\ \A g \in Needed(u) : files'[g] = files[g]
      BY <1>1, <1>7, <2>2 DEF Kept
    <3>2. Undisturbed(files, pc[u], job[u])
      BY <1>5, <1>7, <2>2, <3>1 DEF Prepared
    <3>3. Wanted(pc[u], job[u]) \subseteq Needed(u)
      BY <3>2, WantedNeeded DEF Undisturbed
    <3>4. Undisturbed(files', pc[u], job[u])
      BY <3>1, <3>2, <3>3, StaysUndisturbed
    <3> QED
      BY <1>5, <2>2, <3>4
  <2> QED
    BY <2>1, <2>2
<1> QED
  BY <1>6, <1>7 DEF Prepared

LEMMA ChangeIs ==
  ASSUME Typed, NEW t \in Threads, NEW new, Change(t, new)
  PROVE  /\ files' = new /\ upset' \subseteq Threads
         /\ t \notin upset' => t \notin upset
         /\ \A u \in Threads \ {t} : u \notin upset' =>
              u \notin upset /\ \A g \in Needed(u) : files'[g] = files[g]
<1>1. files' = new /\ upset \subseteq upset'
  BY DEF Change
<1>2. upset' \subseteq Threads
  BY DEF Change, Typed
<1>3. ASSUME NEW u \in Threads \ {t}, u \notin upset', NEW g \in Needed(u)
      PROVE  files'[g] = files[g]
  <2>1. g \in Names
    BY <1>3, NeededNames
  <2>2. Needed(u) \cap {h \in Names : new[h] # files[h]} = {}
    BY <1>3 DEF Change
  <2> QED
    BY <1>1, <1>3, <2>1, <2>2
<1> QED
  BY <1>1, <1>2, <1>3

\* A step that leaves the files alone.
LEMMA Quietly ==
  ASSUME Typed, Prepared, NEW t \in Threads,
         NEW to \in Places, NEW j \in Jobs, Proper(j.todo), AtWork(to, j),
         pc' = [pc EXCEPT ![t] = to], job' = [job EXCEPT ![t] = j],
         files' = files, runs' \in 0..MaxRuns, ops' = ops,
         upset' = upset \/ upset' = upset \ {t},
         Steady(j) /\ t \notin upset' => Undisturbed(files, to, j)
  PROVE  Keeps(t)
<1>1. Stored(files') /\ upset' \subseteq Threads
  BY DEF Typed
<1>2. \A u \in Threads \ {t} : u \notin upset' =>
        u \notin upset /\ \A g \in Needed(u) : files'[g] = files[g]
  OBVIOUS
<1>3. Steady(j) /\ t \notin upset' => Undisturbed(files', to, j)
  OBVIOUS
<1> QED
  BY <1>1, <1>2, <1>3 DEF Keeps, Kept

LEMMA EndsKeeps ==
  ASSUME Typed, Prepared, NEW t \in Threads, NEW from, Ends(t, from),
         files' = files, runs' = runs, ops' = ops
  PROVE  Keeps(t)
<1>1. /\ pc' = [pc EXCEPT ![t] = "idle"] /\ job' = [job EXCEPT ![t] = NoJob]
      /\ upset' = upset \ {t}
  BY DEF Ends, Goes
<1>2. runs' \in 0..MaxRuns
  BY DEF Typed
<1>3. "idle" \in Places
  BY DEF Places
<1> QED
  BY <1>1, <1>2, <1>3, NoJobIs, Quietly

\* A step that only goes to another place.
LEMMA WalkKeeps ==
  ASSUME Typed, Prepared, NEW t \in Threads, NEW from, NEW to \in Places, Goes(t, from, to),
         to \notin {"net", "open", "fill", "move"},
         job' = job, files' = files, runs' = runs, upset' = upset, ops' = ops,
         Undisturbed(files, from, job[t]) => Undisturbed(files, to, job[t])
  PROVE  Keeps(t)
<1>1. pc[t] = from /\ pc' = [pc EXCEPT ![t] = to]
  BY DEF Goes
<1>2. job' = [job EXCEPT ![t] = job[t]]
  BY DEF Typed
<1>3. runs' \in 0..MaxRuns
  BY DEF Typed
<1>4. AtWork(to, job[t])
  BY OwnFacts DEF AtWork
<1>5. Steady(job[t]) /\ t \notin upset' => Undisturbed(files, to, job[t])
  BY <1>1, OwnFacts
<1> QED
  BY <1>1, <1>2, <1>3, <1>4, <1>5, OwnFacts, Quietly

-----------------------------------------------------------------------------
(* A request comes in, and its script starts                               *)

LEMMA RequestKeeps ==
  ASSUME Typed, Prepared, NEW t \in Threads, NEW place \in Places, NEW j,
         Request(t, place, j), j \in Jobs, Proper(j.todo), AtWork(place, j),
         Steady(j) => Undisturbed(files, place, j)
  PROVE  Keeps(t)
<1>1. /\ pc' = [pc EXCEPT ![t] = place] /\ job' = [job EXCEPT ![t] = j]
      /\ upset' = upset \ {t} /\ files' = files /\ runs' = runs /\ ops' = ops
  BY Zenon DEF Request, Goes, others
<1>2. runs' \in 0..MaxRuns
  BY <1>1 DEF Typed
<1> QED
  BY <1>1, <1>2, Quietly

\* A script that has yet to write anything.
LEMMA FreshStart ==
  ASSUME NEW fs, NEW j, j.op \in {"train", "pipeline"}, j.wrote = {}, Sound(j.todo, {})
  PROVE  Undisturbed(fs, "net", j)
<1>1. Wanted("net", j) = {}
  BY DEF Wanted
<1> QED
  BY <1>1 DEF Undisturbed

LEMMA TrainKeeps ==
  ASSUME Typed, Prepared, NEW t \in Threads, Train(t)
  PROVE  Keeps(t)
<1>1. PICK fetch \in BOOLEAN, cleanup \in BOOLEAN :
        Request(t, IF fetch THEN "net" ELSE "load15",
          [NoJob EXCEPT !.op = "train", !.fetch = fetch, !.cleanup = cleanup,
             !.todo = IF fetch THEN fetch_15m_and_agg ELSE <<>>])
  BY DEF Train
<1> DEFINE place == IF fetch THEN "net" ELSE "load15"
           script == IF fetch THEN fetch_15m_and_agg ELSE <<>>
           j == [NoJob EXCEPT !.op = "train", !.fetch = fetch, !.cleanup = cleanup,
                   !.todo = script]
<1>2. /\ script \in Seq(Writes) /\ Proper(script)
      /\ fetch => script # <<>> /\ Sound(script, {})
  BY FetchScriptIs, NoScriptIs
<1>3. "train" \in ops
  <2>1. j.op \in ops
    BY <1>1 DEF Request
  <2> QED
    BY <2>1 DEF NoJob
<1> HIDE DEF script
<1>4. /\ j.op = "train" /\ j.fetch = fetch /\ j.todo = script /\ j.wrote = {}
      /\ j.flawed = FALSE
  BY DEF NoJob
<1>5. j \in Jobs
  BY <1>2, <1>3, NoJobIs DEF Jobs
<1> HIDE DEF j
<1>6. place \in Places /\ AtWork(place, j)
  BY <1>2, <1>4 DEF Places, AtWork, Candid
<1>7. Steady(j) => Undisturbed(files, place, j)
  BY <1>2, <1>4, FreshStart DEF Steady
<1> QED
  BY <1>1, <1>2, <1>4, <1>5, <1>6, <1>7, RequestKeeps DEF j, script

LEMMA PipelineKeeps ==
  ASSUME Typed, Prepared, NEW t \in Threads, Pipeline(t)
  PROVE  Keeps(t)
<1> DEFINE script == backfill("15") \o backfill("60") \o clean_from_raw
           j == [NoJob EXCEPT !.op = "pipeline", !.fetch = TRUE, !.todo = script]
<1>1. Request(t, "net", j)
  BY DEF Pipeline
<1>2. script \in Seq(Writes) /\ script # <<>> /\ Proper(script) /\ Sound(script, {})
  BY PipelineScriptIs, Zenon
<1>3. "pipeline" \in ops
  <2>1. j.op \in ops
    BY <1>1 DEF Request
  <2> QED
    BY <2>1 DEF NoJob
<1> HIDE DEF script
<1>4. /\ j.op = "pipeline" /\ j.fetch = TRUE /\ j.todo = script /\ j.wrote = {}
      /\ j.flawed = FALSE
  BY DEF NoJob
<1>5. j \in Jobs
  BY <1>2, <1>3, NoJobIs DEF Jobs
<1> HIDE DEF j
<1>6. "net" \in Places /\ AtWork("net", j)
  BY <1>2, <1>4 DEF Places, AtWork, Candid
<1>7. Undisturbed(files, "net", j)
  BY <1>2, <1>4, FreshStart
<1> QED
  BY <1>1, <1>2, <1>4, <1>5, <1>6, <1>7, RequestKeeps

\* A script that prepares nothing for its own request.
LEMMA ErrandKeeps ==
  ASSUME Typed, Prepared, NEW t \in Threads, NEW op, NEW script \in Seq(Writes),
         script # <<>>, Proper(script),
         Request(t, "net", [NoJob EXCEPT !.op = op, !.todo = script])
  PROVE  Keeps(t)
<1> DEFINE j == [NoJob EXCEPT !.op = op, !.todo = script]
<1>1. j.op = op /\ j.fetch = FALSE /\ j.todo = script /\ j.flawed = FALSE
  BY DEF NoJob
<1>2. op \in ops
  BY <1>1 DEF Request
<1>3. j \in Jobs
  BY <1>2, NoJobIs DEF Jobs
<1> HIDE DEF j
<1>4. "net" \in Places /\ AtWork("net", j) /\ ~Steady(j)
  BY <1>1 DEF Places, AtWork, Candid, Steady
<1> QED
  BY <1>1, <1>3, <1>4, RequestKeeps DEF j

LEMMA AgentsKeep ==
  ASSUME Typed, Prepared, NEW t \in Threads, Agents(t)
  PROVE  Keeps(t)
<1> DEFINE j == [NoJob EXCEPT !.op = "agents"]
<1>1. PICK place \in {"health", "exists"} : Request(t, place, j)
  BY DEF Agents
<1>2. j.op = "agents" /\ j.fetch = FALSE /\ j.todo = <<>> /\ j.flawed = FALSE
  BY DEF NoJob
<1>3. "agents" \in ops
  BY <1>1, <1>2 DEF Request
<1>4. j \in Jobs
  BY <1>3, NoJobIs DEF Jobs
<1> HIDE DEF j
<1>5. place \in Places /\ AtWork(place, j) /\ ~Steady(j)
  BY <1>1, <1>2 DEF Places, AtWork, Candid, Steady
<1> QED
  BY <1>1, <1>2, <1>4, <1>5, NoScriptIs, RequestKeeps

LEMMA AskingKeeps ==
  ASSUME Typed, Prepared, NEW t \in Threads, Asking(t)
  PROVE  Keeps(t)
<1>1. CASE Train(t)
  BY <1>1, TrainKeeps
<1>2. CASE Pipeline(t)
  BY <1>2, PipelineKeeps
<1>3. CASE Hydrate(t)
  <2>1. PICK f \in Frames :
          Request(t, "net", [NoJob EXCEPT !.op = "hydrate", !.todo = backfill(f)])
    BY <1>3 DEF Hydrate
  <2> QED
    BY <2>1, OtherScriptsAre, ErrandKeeps
<1>4. CASE Rest(t)
  BY <1>4, OtherScriptsAre, ErrandKeeps DEF Rest
<1>5. CASE Agents(t)
  BY <1>5, AgentsKeep
<1> QED
  BY <1>1, <1>2, <1>3, <1>4, <1>5 DEF Asking

LEMMA DownloadKeeps ==
  ASSUME Typed, Prepared, NEW t \in Threads, Download(t)
  PROVE  Keeps(t)
<1> DEFINE j == [job[t] EXCEPT !.run = runs + 1]
<1>1. /\ runs < MaxRuns /\ runs' = runs + 1 /\ pc[t] = "net"
      /\ pc' = [pc EXCEPT ![t] = "open"]
      /\ files' = files /\ upset' = upset /\ ops' = ops
  BY Zenon DEF Download, Goes, others
<1>2. job' = [job EXCEPT ![t] = j]
  BY DEF Download
<1>3. runs' \in 0..MaxRuns
  BY <1>1, RunsAre DEF Typed
<1>4. /\ j \in Jobs /\ j.todo = job[t].todo /\ j.op = job[t].op /\ j.wrote = job[t].wrote
      /\ Steady(j) = Steady(job[t]) /\ Candid(j)
  BY <1>1, <1>3, OwnFacts DEF Jobs, Steady, Candid
<1> HIDE DEF j
<1>5. Proper(j.todo) /\ AtWork("open", j) /\ "open" \in Places
  BY <1>1, <1>4, OwnFacts DEF AtWork, Places
<1>6. ASSUME Steady(j), t \notin upset'
      PROVE  Undisturbed(files, "open", j)
  <2>1. Undisturbed(files, "net", job[t])
    BY <1>1, <1>4, <1>6, OwnFacts
  <2>2. j.wrote = {}
    BY <1>4, <2>1 DEF Undisturbed
  <2>3. Wanted("open", j) = {}
    BY <2>2 DEF Wanted
  <2> QED
    BY <1>4, <2>1, <2>3 DEF Undisturbed
<1> QED
  BY <1>1, <1>2, <1>3, <1>4, <1>5, <1>6, Quietly

LEMMA DownloadFailsKeeps ==
  ASSUME Typed, Prepared, NEW t \in Threads, DownloadFails(t)
  PROVE  Keeps(t)
<1>1. Ends(t, "net")
  BY DEF DownloadFails
<1>2. files' = files /\ runs' = runs /\ ops' = ops
  BY Zenon DEF DownloadFails, others
<1> QED
  BY <1>1, <1>2, EndsKeeps

-----------------------------------------------------------------------------
(* Writing the files                                                       *)

\* What a file that is not being filled shows.
LEMMA FreshIs ==
  ASSUME NEW g \in Names, NEW n \in 0..MaxRuns
  PROVE  /\ Fresh(g, n) \in Content /\ HasRows(Fresh(g, n)) /\ Good(Fresh(g, n), n)
         /\ Fresh(g, n).kind = "rows" /\ Fresh(g, n).whole = TRUE /\ Fresh(g, n).of = n
         /\ Fresh(g, n).cols = IF g \in RawNames THEN 7 ELSE 6
         /\ Seen(Fresh(g, n)) = {Fresh(g, n)}
<1> DEFINE cols == IF g \in RawNames THEN 7 ELSE 6
<1>1. cols \in {0, 6, 7} /\ TRUE \in BOOLEAN
  OBVIOUS
<1>2. /\ Rows(n, TRUE, cols) \in Content /\ Rows(n, TRUE, cols).kind = "rows"
      /\ Rows(n, TRUE, cols).of = n /\ Rows(n, TRUE, cols).whole = TRUE
      /\ Rows(n, TRUE, cols).cols = cols
  BY <1>1, ContentsAre
<1>3. Fresh(g, n) = Rows(n, TRUE, cols)
  BY DEF Fresh
<1> HIDE DEF cols
<1>4. Seen(Fresh(g, n)) = {Fresh(g, n)}
  BY <1>2, <1>3 DEF Seen
<1> QED
  BY <1>2, <1>3, <1>4 DEF HasRows, Good, cols

\* The head of an undisturbed script has its source, and it is fresh.
LEMMA SourceFresh ==
  ASSUME NEW fs, NEW place \in {"open", "fill"}, NEW j \in Jobs, j.todo # <<>>,
         AtWork(place, j), Undisturbed(fs, place, j), Head(j.todo).source # Net
  PROVE  /\ Head(j.todo).source \in RawNames /\ Head(j.todo).source \in Names
         /\ fs[Head(j.todo).source] = Fresh(Head(j.todo).source, j.run)
<1> DEFINE w == Head(j.todo)
<1>1. j.todo \in Seq(Writes)
  BY JobIs
<1>2. Sound(j.todo, j.wrote)
  BY DEF Undisturbed
<1>3. w.source \in RawNames /\ w.source \in j.wrote /\ (~w.moved => w.source # w.file)
  BY <1>1, <1>2, HeadSound
<1>4. Reads(j.todo, w.source)
  BY <1>1, HeadReads
<1>5. w.source \in Wanted(place, j)
  BY <1>3, <1>4 DEF Wanted
<1>6. place = "fill" => w.source # w.file
  BY <1>3 DEF AtWork
<1>7. fs[w.source] = Fresh(w.source, j.run)
  BY <1>5, <1>6 DEF Undisturbed
<1> QED
  BY <1>3, <1>7, NamesAre

LEMMA MadeFresh ==
  ASSUME NEW w \in Writes, NEW n \in 0..MaxRuns, NEW c, NEW whole \in BOOLEAN,
         w.cols = IF w.file \in RawNames THEN 7 ELSE 6,
         w.source = Net => whole = TRUE,
         w.source # Net => /\ w.source \in RawNames /\ w.source \in Names
                           /\ c = Fresh(w.source, n)
  PROVE  Made(w, c, n, whole) = Fresh(w.file, n)
<1>1. CASE w.source = Net
  BY <1>1 DEF Made, Fresh
<1>2. CASE w.source # Net
  <2>1. w.source \in RawNames /\ w.source \in Names /\ c = Fresh(w.source, n)
    BY <1>2
  <2>2. /\ HasRows(Fresh(w.source, n)) /\ Fresh(w.source, n).of = n
        /\ Fresh(w.source, n).whole = TRUE
        /\ Fresh(w.source, n).cols = IF w.source \in RawNames THEN 7 ELSE 6
    BY <2>1, FreshIs
  <2>3. HasRows(c) /\ c.cols = 7 /\ c.of = n /\ c.whole = TRUE
    BY <2>1, <2>2
  <2> QED
    BY <1>2, <2>3 DEF Made, Fresh
<1> QED
  BY <1>1, <1>2

\* Going on to the next write, or to what comes after the script.
Onward(t, from, wrote, ill, to, j) ==
  /\ Proper(j.todo) /\ AtWork(to, j)
  /\ pc[t] = from /\ pc' = [pc EXCEPT ![t] = to] /\ job' = [job EXCEPT ![t] = j]
  /\ Steady(j) =>
       /\ Steady(job[t]) /\ ~ill /\ j.op = job[t].op /\ j.run = job[t].run
       /\ j.todo = Tail(job[t].todo) /\ j.wrote = job[t].wrote \cup wrote
       /\ \/ to = "open"
          \/ to = "load15" /\ j.todo = <<>>
          \/ to = "check" /\ j.todo = <<>> /\ j.op = "pipeline"

LEMMA ProceedIs ==
  ASSUME Typed, Prepared, NEW t \in Threads, NEW from \in {"open", "fill", "move"},
         NEW wrote \in SUBSET Names, NEW ill \in BOOLEAN, Proceed(t, from, wrote, ill),
         ill => job[t].op # "train"
  PROVE  \E to \in Places, j \in Jobs : Onward(t, from, wrote, ill, to, j)
<1> DEFINE rest == Tail(job[t].todo)
           next == IF rest # <<>> THEN "open" ELSE AfterScript(t)
           same == [job[t] EXCEPT !.todo = rest, !.wrote = @ \cup wrote, !.made = Gone,
                                  !.flawed = @ \/ ill]
<1> DEFINE over == rest = <<>> /\ AfterScript(t) = "idle"
<1>0. job' = [job EXCEPT ![t] = IF over THEN NoJob ELSE same]
  BY DEF Proceed
<1>1. pc[t] = from /\ pc' = [pc EXCEPT ![t] = next]
  BY DEF Proceed, Goes
<1>2. /\ job[t] \in Jobs /\ job[t].todo \in Seq(Writes) /\ job[t].todo # <<>>
      /\ Proper(job[t].todo) /\ Candid(job[t])
  BY <1>1, OwnFacts DEF AtWork
<1>3. rest \in Seq(Writes) /\ Proper(rest)
  BY <1>2, TailIs, TailProper
<1>4. AfterScript(t) \in {"load15", "check", "idle"}
  BY DEF AfterScript
<1>5. /\ AfterScript(t) = "check" => job[t].op = "pipeline"
  BY DEF AfterScript
<1> HIDE DEF rest
<1>6. CASE rest = <<>> /\ AfterScript(t) = "idle"
  <2>1. job' = [job EXCEPT ![t] = NoJob] /\ pc' = [pc EXCEPT ![t] = "idle"]
    BY <1>0, <1>1, <1>6
  <2>2. "idle" \in Places
    BY DEF Places
  <2> QED
    BY <1>1, <2>1, <2>2, NoJobIs DEF Onward
<1>7. CASE ~(rest = <<>> /\ AfterScript(t) = "idle")
  <2>1. job' = [job EXCEPT ![t] = same]
    BY <1>0, <1>7
  <2>2. /\ same \in Jobs /\ same.op = job[t].op /\ same.run = job[t].run
        /\ same.fetch = job[t].fetch /\ same.todo = rest
        /\ same.wrote = job[t].wrote \cup wrote
        /\ same.flawed <=> (job[t].flawed \/ ill)
    BY <1>2, <1>3, ContentsAre DEF Jobs
  <2> HIDE DEF same
  <2>3. next \in Places /\ AtWork(next, same)
    <3>1. Candid(same)
      BY <1>2, <2>2 DEF Candid
    <3> QED
      BY <1>4, <2>2, <3>1 DEF AtWork, Places
  <2>5. Steady(same) => Steady(job[t]) /\ ~ill
    BY <2>2 DEF Steady
  <2>4. \/ next = "open"
        \/ next = "load15" /\ same.todo = <<>>
        \/ next = "check" /\ same.todo = <<>> /\ same.op = "pipeline"
    BY <1>4, <1>5, <1>7, <2>2
  <2> QED
    BY <1>1, <1>3, <2>1, <2>2, <2>3, <2>4, <2>5 DEF rest, Onward
<1> QED
  BY <1>6, <1>7

\* Having written a fresh file, the script is as undisturbed as before.
LEMMA WrittenFresh ==
  ASSUME NEW fs, NEW more, NEW from \in {"fill", "move"}, NEW old \in Jobs,
         Undisturbed(fs, from, old), old.todo # <<>>,
         \A g \in old.wrote : g # Head(old.todo).file => more[g] = fs[g],
         more[Head(old.todo).file] = Fresh(Head(old.todo).file, old.run),
         NEW to \in Places, NEW j \in Jobs,
         j.op = old.op, j.run = old.run, j.todo = Tail(old.todo),
         j.wrote = old.wrote \cup {Head(old.todo).file},
         \/ to = "open"
         \/ to = "load15" /\ j.todo = <<>>
         \/ to = "check" /\ j.todo = <<>> /\ j.op = "pipeline"
  PROVE  Undisturbed(more, to, j)
<1>1. old.todo \in Seq(Writes)
  BY JobIs
<1>2. Sound(j.todo, j.wrote)
  BY <1>1, TailSound DEF Undisturbed
<1>3. ASSUME NEW g \in Wanted(to, j)
      PROVE  more[g] = Fresh(g, j.run)
  <2>1. CASE g = Head(old.todo).file
    BY <2>1
  <2>2. CASE g # Head(old.todo).file
    <3>1. g \in old.wrote
      BY <2>2 DEF Wanted
    <3>2. Reads(j.todo, g) => Reads(old.todo, g)
      BY <1>1, TailReads
    <3>3. g \in Wanted(from, old)
      BY <3>1, <3>2 DEF Wanted, Preparing, Looking
    <3>4. fs[g] = Fresh(g, old.run)
      BY <2>2, <3>3 DEF Undisturbed
    <3> QED
      BY <2>2, <3>1, <3>4
  <2> QED
    BY <2>1, <2>2
<1>4. to \in {"open", "load15", "check"}
  OBVIOUS
<1> QED
  BY <1>2, <1>3, <1>4 DEF Undisturbed

\* An undisturbed script lacks nothing.
LEMMA LackingUpset ==
  ASSUME Typed, Prepared, NEW t \in Threads, Lacking(t)
  PROVE  Steady(job[t]) => t \in upset
<1> SUFFICES ASSUME Steady(job[t]), t \notin upset
             PROVE  FALSE
  OBVIOUS
<1>1. pc[t] = "open" /\ Head(job[t].todo).source # Net
  BY DEF Lacking
<1>2. Undisturbed(files, "open", job[t]) /\ AtWork("open", job[t]) /\ job[t] \in Jobs
  BY <1>1, OwnFacts
<1>3. job[t].todo # <<>>
  BY <1>2 DEF AtWork
<1>4. /\ files[Head(job[t].todo).source] = Fresh(Head(job[t].todo).source, job[t].run)
      /\ Head(job[t].todo).source \in Names
  BY <1>1, <1>2, <1>3, SourceFresh
<1>5. job[t].run \in 0..MaxRuns
  BY <1>2, JobIs
<1> DEFINE fresh == Fresh(Head(job[t].todo).source, job[t].run)
<1>6. Seen(fresh) = {fresh} /\ HasRows(fresh)
  BY <1>4, <1>5, FreshIs
<1>7. \A c \in Seen(files[Head(job[t].todo).source]) : HasRows(c)
  BY <1>4, <1>6
<1> QED
  BY <1>7 DEF Lacking

LEMMA SkipKeeps ==
  ASSUME Typed, Prepared, NEW t \in Threads, Skip(t)
  PROVE  Keeps(t)
<1>1. /\ Lacking(t) /\ Proceed(t, "open", {}, FALSE)
      /\ files' = files /\ runs' = runs /\ upset' = upset /\ ops' = ops
  BY Zenon DEF Skip, others
<1>2. PICK to \in Places, j \in Jobs : Onward(t, "open", {}, FALSE, to, j)
  <2>1. {} \in SUBSET Names /\ FALSE \in BOOLEAN
    OBVIOUS
  <2> QED
    BY <1>1, <2>1, ProceedIs
<1>3. /\ Proper(j.todo) /\ AtWork(to, j)
      /\ pc' = [pc EXCEPT ![t] = to] /\ job' = [job EXCEPT ![t] = j]
      /\ Steady(j) => Steady(job[t])
  BY <1>2 DEF Onward
<1>4. ~(Steady(j) /\ t \notin upset')
  BY <1>1, <1>3, LackingUpset
<1>5. runs' \in 0..MaxRuns
  BY <1>1 DEF Typed
<1> QED
  BY <1>1, <1>3, <1>4, <1>5, Quietly

\* The script ends early, and with it a fetch; the pipeline goes on, flawed.
LEMMA AbortsIs ==
  ASSUME Typed, Prepared, NEW t \in Threads, NEW from, Aborts(t, from)
  PROVE  \E to \in Places, j \in Jobs :
           /\ Proper(j.todo) /\ AtWork(to, j) /\ ~Steady(j)
           /\ pc[t] = from /\ pc' = [pc EXCEPT ![t] = to] /\ job' = [job EXCEPT ![t] = j]
<1>1. "idle" \in Places /\ "check" \in Places
  BY DEF Places
<1>2. CASE job[t].op = "pipeline"
  <2> DEFINE j == [job[t] EXCEPT !.todo = <<>>, !.made = Gone, !.flawed = TRUE]
  <2>1. /\ pc[t] = from /\ pc' = [pc EXCEPT ![t] = "check"]
        /\ job' = [job EXCEPT ![t] = j]
    BY <1>2 DEF Aborts, Goes, Typed
  <2>2. job[t] \in Jobs /\ Gone \in Content /\ <<>> \in Seq(Writes)
    BY OwnFacts, ContentsAre, NoScriptIs
  <2>3. j \in Jobs /\ j.todo = <<>> /\ j.op = "pipeline" /\ j.flawed = TRUE
    BY <1>2, <2>2 DEF Jobs
  <2> HIDE DEF j
  <2>4. AtWork("check", j) /\ Proper(j.todo) /\ ~Steady(j)
    BY <2>3, NoScriptIs DEF AtWork, Candid, Steady
  <2> QED
    BY <1>1, <2>1, <2>3, <2>4
<1>3. CASE job[t].op # "pipeline"
  <2>1. /\ pc[t] = from /\ pc' = [pc EXCEPT ![t] = "idle"]
        /\ job' = [job EXCEPT ![t] = NoJob]
    BY <1>3 DEF Aborts, Goes
  <2> QED
    BY <1>1, <2>1, NoJobIs
<1> QED
  BY <1>2, <1>3

LEMMA StopKeeps ==
  ASSUME Typed, Prepared, NEW t \in Threads, Stop(t)
  PROVE  Keeps(t)
<1>1. /\ Aborts(t, "open")
      /\ files' = files /\ runs' = runs /\ upset' = upset /\ ops' = ops
  BY Zenon DEF Stop, others
<1>2. PICK to \in Places, j \in Jobs :
        /\ Proper(j.todo) /\ AtWork(to, j) /\ ~Steady(j)
        /\ pc' = [pc EXCEPT ![t] = to] /\ job' = [job EXCEPT ![t] = j]
  BY <1>1, AbortsIs
<1>3. runs' \in 0..MaxRuns
  BY <1>1 DEF Typed
<1> QED
  BY <1>1, <1>2, <1>3, Quietly

\* A step that changes files.
LEMMA ChangeKeeps ==
  ASSUME Typed, Prepared, NEW t \in Threads, NEW new, Change(t, new), Stored(new),
         runs' = runs, ops' = ops,
         NEW to \in Places, NEW j \in Jobs, Proper(j.todo), AtWork(to, j),
         pc' = [pc EXCEPT ![t] = to], job' = [job EXCEPT ![t] = j],
         Steady(j) /\ t \notin upset' => Undisturbed(new, to, j)
  PROVE  Keeps(t)
<1>1. runs' \in 0..MaxRuns
  BY DEF Typed
<1>2. files' = new /\ upset' \subseteq Threads
  BY ChangeIs
<1>3. \A u \in Threads \ {t} : u \notin upset' =>
        u \notin upset /\ \A g \in Needed(u) : files'[g] = files[g]
  BY ChangeIs
<1> QED
  BY <1>1, <1>2, <1>3 DEF Keeps, Kept

LEMMA StoredWrite ==
  ASSUME NEW fs, Stored(fs), NEW g \in Names, NEW c \in Content,
         g \in CleanNames => c.cols # 7
  PROVE  Stored([fs EXCEPT ![g] = c])
<1>1. \A f \in Frames : Clean(f) \in CleanNames /\ Clean(f) \in Names
  BY NamesAre
<1> QED
  BY <1>1 DEF Stored

\* What a thread that writes is about to write.
LEMMA HeadIs ==
  ASSUME Typed, Prepared, NEW t \in Threads, pc[t] \in {"open", "fill", "move"}
  PROVE  LET w == Head(job[t].todo) IN
         /\ job[t].todo # <<>> /\ w \in Writes /\ w.file \in Names
         /\ w.cols \in {6, 7} /\ w.moved \in BOOLEAN
         /\ w.file \in CleanNames => w.cols = 6
         /\ w.moved => w.source # Net
         /\ w.source # Net => w.source \in Names /\ files[w.source] \in Content
<1> DEFINE w == Head(job[t].todo)
<1>1. job[t].todo \in Seq(Writes) /\ job[t].todo # <<>> /\ Proper(job[t].todo)
  BY OwnFacts DEF AtWork
<1>2. w \in Writes
  BY <1>1, TailIs
<1>3. (w.file \in CleanNames => w.cols = 6) /\ (w.moved => w.source # Net)
  BY <1>1, TailProper
<1>4. w.file \in Names /\ w.cols \in {6, 7} /\ w.moved \in BOOLEAN
  BY <1>2 DEF Writes
<1>5. w.source # Net => w.source \in Names
  BY <1>2 DEF Writes
<1>6. files \in [Names -> Content]
  BY DEF Typed, Stored
<1> QED
  BY <1>1, <1>2, <1>3, <1>4, <1>5, <1>6

LEMMA OpenKeeps ==
  ASSUME Typed, Prepared, NEW t \in Threads, Open(t)
  PROVE  Keeps(t)
<1> DEFINE w == Head(job[t].todo)
           source == IF w.source = Net THEN Gone ELSE files[w.source]
           c == Opened(IF w.source = Net THEN job[t].run ELSE source.of, w.cols)
           new == [files EXCEPT ![w.file] = c]
<1>1. /\ pc[t] = "open" /\ pc' = [pc EXCEPT ![t] = "fill"] /\ ~w.moved
      /\ Change(t, new)
  BY DEF Open, Goes
<1>2. job' = job /\ runs' = runs /\ ops' = ops
  BY Zenon DEF Open, others
<1>3. /\ job[t] \in Jobs /\ Proper(job[t].todo) /\ job[t].run \in 0..MaxRuns
      /\ job[t].todo # <<>> /\ w \in Writes /\ w.file \in Names /\ w.cols \in {6, 7}
      /\ w.file \in CleanNames => w.cols = 6
      /\ w.source # Net => files[w.source] \in Content
  BY <1>1, HeadIs, OwnFacts, JobIs
<1>4. (IF w.source = Net THEN job[t].run ELSE source.of) \in 0..MaxRuns
  BY <1>3 DEF Content
<1>5. c \in Content /\ c.cols = w.cols
  BY <1>3, <1>4, ContentsAre
<1> HIDE DEF c
<1>6. Stored(files) /\ Stored(new)
  BY <1>3, <1>5, StoredWrite DEF Typed
<1>7. "fill" \in Places /\ AtWork("fill", job[t])
  BY <1>1, <1>3, OwnFacts DEF Places, AtWork
<1>8. job' = [job EXCEPT ![t] = job[t]]
  BY <1>2 DEF Typed
<1>9. ASSUME Steady(job[t]), t \notin upset'
      PROVE  Undisturbed(new, "fill", job[t])
  <2>1. Undisturbed(files, "open", job[t])
    BY <1>1, <1>9, ChangeIs, OwnFacts
  <2>2. \A g \in Names : g # w.file => new[g] = files[g]
    BY <1>6 DEF Stored
  <2>3. Wanted("fill", job[t]) = Wanted("open", job[t])
    BY DEF Wanted, Preparing, Looking
  <2>4. Wanted("fill", job[t]) \subseteq Names
    BY <1>3, JobIs DEF Wanted
  <2>5. \A g \in Wanted("fill", job[t]) : g # w.file => new[g] = Fresh(g, job[t].run)
    BY <2>1, <2>2, <2>3, <2>4 DEF Undisturbed
  <2> QED
    BY <2>1, <2>5 DEF Undisturbed
<1> QED
  BY <1>1, <1>2, <1>3, <1>6, <1>7, <1>8, <1>9, ChangeKeeps

LEMMA MakeKeeps ==
  ASSUME Typed, Prepared, NEW t \in Threads, Make(t)
  PROVE  Keeps(t)
<1> DEFINE w == Head(job[t].todo)
<1>1. /\ pc[t] = "open" /\ pc' = [pc EXCEPT ![t] = "move"] /\ w.moved
  BY DEF Make, Goes
<1>2. files' = files /\ runs' = runs /\ upset' = upset /\ ops' = ops
  BY Zenon DEF Make, others
<1>3. /\ job[t] \in Jobs /\ Proper(job[t].todo) /\ job[t].run \in 0..MaxRuns
      /\ job[t].todo # <<>> /\ job[t].todo \in Seq(Writes)
      /\ w \in Writes /\ w.file \in Names /\ w.cols \in {6, 7}
      /\ w.file \in CleanNames => w.cols = 6
  BY <1>1, HeadIs, OwnFacts, JobIs
<1>4. w.source # Net /\ files[w.source] \in Content
  BY <1>1, HeadIs
<1>5. PICK c \in Seen(files[w.source]) :
        job' = [job EXCEPT ![t] = [job[t] EXCEPT !.made = Made(w, c, job[t].run, FALSE)]]
  BY DEF Make
<1> DEFINE made == Made(w, c, job[t].run, FALSE)
           j == [job[t] EXCEPT !.made = made]
<1>6. c \in Content /\ FALSE \in BOOLEAN
  BY <1>4, SeenIs
<1>7. made \in Content /\ made.cols \in {0, w.cols}
  BY <1>3, <1>6, MadeIs
<1> HIDE DEF made
<1>8. /\ j \in Jobs /\ j.todo = job[t].todo /\ j.op = job[t].op /\ j.run = job[t].run
      /\ Steady(j) = Steady(job[t]) /\ Candid(j)
      /\ j.wrote = job[t].wrote /\ j.made = made
      /\ job' = [job EXCEPT ![t] = j]
  BY <1>3, <1>5, <1>7, OwnFacts DEF Jobs, made, Steady, Candid
<1> HIDE DEF j
<1>9. "move" \in Places /\ AtWork("move", j)
  BY <1>1, <1>3, <1>7, <1>8 DEF Places, AtWork
<1>10. ASSUME Steady(j), t \notin upset'
       PROVE  Undisturbed(files, "move", j)
  <2>1. Undisturbed(files, "open", job[t]) /\ AtWork("open", job[t])
    BY <1>1, <1>2, <1>8, <1>10, OwnFacts
  <2>2. /\ w.source \in RawNames /\ w.source \in Names
        /\ files[w.source] = Fresh(w.source, job[t].run)
    BY <1>3, <1>4, <2>1, SourceFresh
  <2>3. c = Fresh(w.source, job[t].run)
    <3>1. Seen(Fresh(w.source, job[t].run)) = {Fresh(w.source, job[t].run)}
      BY <1>3, <2>2, FreshIs
    <3>2. Seen(files[w.source]) = {Fresh(w.source, job[t].run)}
      BY <2>2, <3>1, Zenon
    <3> QED
      BY <3>2
  <2>4. Sound(job[t].todo, job[t].wrote)
    BY <2>1 DEF Undisturbed
  <2>5. w.cols = IF w.file \in RawNames THEN 7 ELSE 6
    BY <1>3, <2>4, HeadSound
  <2>6. made = Fresh(w.file, job[t].run)
    BY <1>3, <1>4, <1>6, <2>2, <2>3, <2>5, MadeFresh DEF made
  <2>7. Wanted("move", j) = Wanted("open", job[t])
    BY <1>8 DEF Wanted, Preparing, Looking
  <2> QED
    BY <1>8, <2>1, <2>6, <2>7 DEF Undisturbed
<1>11. runs' \in 0..MaxRuns
  BY <1>2 DEF Typed
<1> QED
  BY <1>1, <1>2, <1>3, <1>8, <1>9, <1>10, <1>11, Quietly

LEMMA FillKeeps ==
  ASSUME Typed, Prepared, NEW t \in Threads, Fill(t)
  PROVE  Keeps(t)
<1> DEFINE w == Head(job[t].todo)
           source == IF w.source = Net THEN Gone ELSE files[w.source]
<1>1. /\ pc[t] = "fill" /\ runs' = runs /\ ops' = ops
      /\ IF source.kind = "gone" /\ w.source # Net
         THEN Aborts(t, "fill") ELSE Proceed(t, "fill", {w.file}, FALSE)
  BY Zenon DEF Fill, others
<1>2. PICK c \in Seen(source), whole \in BOOLEAN :
        /\ whole \/ job[t].op = "rest"
        /\ Change(t, [files EXCEPT ![w.file] = Made(w, c, job[t].run, whole)])
  BY DEF Fill
<1> DEFINE made == Made(w, c, job[t].run, whole)
           new == [files EXCEPT ![w.file] = made]
<1>3. /\ job[t] \in Jobs /\ job[t].run \in 0..MaxRuns
      /\ job[t].todo # <<>> /\ job[t].todo \in Seq(Writes)
      /\ w \in Writes /\ w.file \in Names /\ w.cols \in {6, 7}
      /\ w.file \in CleanNames => w.cols = 6
      /\ w.source # Net => files[w.source] \in Content
  BY <1>1, HeadIs, OwnFacts, JobIs
<1>4. source \in Content
  BY <1>3, ContentsAre
<1>5. c \in Content
  BY <1>4, SeenIs
<1>6. made \in Content /\ made.cols \in {0, w.cols}
  BY <1>3, <1>5, MadeIs
<1>7. Change(t, new)
  BY <1>2
<1>8. t \notin upset' /\ Steady(job[t]) =>
        /\ Undisturbed(files, "fill", job[t])
        /\ made = Fresh(w.file, job[t].run)
  <2> SUFFICES ASSUME t \notin upset', Steady(job[t])
               PROVE  /\ Undisturbed(files, "fill", job[t])
                      /\ made = Fresh(w.file, job[t].run)
    OBVIOUS
  <2>1. Undisturbed(files, "fill", job[t]) /\ AtWork("fill", job[t])
    BY <1>1, <1>7, ChangeIs, OwnFacts
  <2>2. w.source # Net => /\ w.source \in RawNames /\ w.source \in Names
                          /\ files[w.source] = Fresh(w.source, job[t].run)
    BY <1>3, <2>1, SourceFresh
  <2>3. w.source # Net => /\ c = Fresh(w.source, job[t].run)
                          /\ source.kind = "rows"
    <3> SUFFICES ASSUME w.source # Net
                 PROVE  c = Fresh(w.source, job[t].run) /\ source.kind = "rows"
      OBVIOUS
    <3>1. w.source \in Names /\ source = Fresh(w.source, job[t].run)
      BY <2>2
    <3>2. /\ Seen(Fresh(w.source, job[t].run)) = {Fresh(w.source, job[t].run)}
          /\ Fresh(w.source, job[t].run).kind = "rows"
      BY <1>3, <3>1, FreshIs
    <3>3. Seen(source) = {Fresh(w.source, job[t].run)} /\ source.kind = "rows"
      BY <3>1, <3>2, Zenon
    <3> QED
      BY <3>3
  <2>4. whole = TRUE
    BY <1>2, <2>1 DEF Undisturbed
  <2>5. Sound(job[t].todo, job[t].wrote)
    BY <2>1 DEF Undisturbed
  <2>6. w.cols = IF w.file \in RawNames THEN 7 ELSE 6
    BY <1>3, <2>5, HeadSound
  <2>7. made = Fresh(w.file, job[t].run)
    BY <1>3, <2>2, <2>3, <2>4, <2>6, MadeFresh
  <2> QED
    BY <2>1, <2>3, <2>7
<1> HIDE DEF made
<1>9. Stored(files) /\ Stored(new)
  BY <1>3, <1>6, StoredWrite DEF Typed
<1>10. CASE source.kind = "gone" /\ w.source # Net
  <2>1. PICK to \in Places, j \in Jobs :
          /\ Proper(j.todo) /\ AtWork(to, j) /\ ~Steady(j)
          /\ pc' = [pc EXCEPT ![t] = to] /\ job' = [job EXCEPT ![t] = j]
    BY <1>1, <1>10, AbortsIs
  <2> QED
    BY <1>1, <1>7, <1>9, <2>1, ChangeKeeps
<1>11. CASE ~(source.kind = "gone" /\ w.source # Net)
  <2>1. {w.file} \in SUBSET Names /\ "fill" \in {"open", "fill", "move"} /\ FALSE \in BOOLEAN
    BY <1>3
  <2>2. Proceed(t, "fill", {w.file}, FALSE)
    BY <1>1, <1>11
  <2>0. PICK to \in Places, j \in Jobs : Onward(t, "fill", {w.file}, FALSE, to, j)
    BY <2>1, <2>2, ProceedIs
  <2>3. /\ Proper(j.todo) /\ AtWork(to, j)
        /\ pc' = [pc EXCEPT ![t] = to] /\ job' = [job EXCEPT ![t] = j]
        /\ Steady(j) =>
             /\ Steady(job[t]) /\ j.op = job[t].op /\ j.run = job[t].run
             /\ j.todo = Tail(job[t].todo) /\ j.wrote = job[t].wrote \cup {w.file}
             /\ \/ to = "open"
                \/ to = "load15" /\ j.todo = <<>>
                \/ to = "check" /\ j.todo = <<>> /\ j.op = "pipeline"
    BY <2>0 DEF Onward
  <2>4. ASSUME Steady(j), t \notin upset'
        PROVE  Undisturbed(new, to, j)
    <3>1. Undisturbed(files, "fill", job[t]) /\ made = Fresh(w.file, job[t].run)
      BY <1>8, <2>3, <2>4
    <3>2. \A g \in job[t].wrote : g # w.file => new[g] = files[g]
      BY <1>3, <1>9, JobIs DEF Stored
    <3>3. new[w.file] = Fresh(w.file, job[t].run)
      BY <1>3, <1>9, <3>1 DEF Stored
    <3> HIDE DEF new
    <3> QED
      BY <1>3, <2>3, <2>4, <3>1, <3>2, <3>3, WrittenFresh
  <2> QED
    BY <1>1, <1>7, <1>9, <2>3, <2>4, ChangeKeeps
<1> QED
  BY <1>10, <1>11

LEMMA MoveKeeps ==
  ASSUME Typed, Prepared, NEW t \in Threads, Move(t)
  PROVE  Keeps(t)
<1> DEFINE w == Head(job[t].todo)
           made == job[t].made
           new == [files EXCEPT ![w.file] = made]
<1>1. Proceed(t, "move", {w.file}, FALSE) /\ Change(t, new) /\ runs' = runs /\ ops' = ops
  BY Zenon DEF Move, others
<1>2. pc[t] = "move"
  BY <1>1 DEF Proceed, Goes
<1>3. /\ job[t] \in Jobs /\ job[t].todo # <<>> /\ w.file \in Names /\ made \in Content
      /\ w.file \in CleanNames => made.cols # 7
  BY <1>2, HeadIs, OwnFacts, JobIs DEF AtWork
<1>4. Stored(files) /\ Stored(new)
  BY <1>3, StoredWrite DEF Typed
<1>5. {w.file} \in SUBSET Names /\ "move" \in {"open", "fill", "move"} /\ FALSE \in BOOLEAN
  BY <1>3
<1>0. PICK to \in Places, j \in Jobs : Onward(t, "move", {w.file}, FALSE, to, j)
  BY <1>1, <1>5, ProceedIs
<1>6. /\ Proper(j.todo) /\ AtWork(to, j)
      /\ pc' = [pc EXCEPT ![t] = to] /\ job' = [job EXCEPT ![t] = j]
      /\ Steady(j) =>
           /\ Steady(job[t]) /\ j.op = job[t].op /\ j.run = job[t].run
           /\ j.todo = Tail(job[t].todo) /\ j.wrote = job[t].wrote \cup {w.file}
           /\ \/ to = "open"
              \/ to = "load15" /\ j.todo = <<>>
              \/ to = "check" /\ j.todo = <<>> /\ j.op = "pipeline"
  BY <1>0 DEF Onward
<1>7. ASSUME Steady(j), t \notin upset'
      PROVE  Undisturbed(new, to, j)
  <2>1. Undisturbed(files, "move", job[t])
    BY <1>1, <1>2, <1>6, <1>7, ChangeIs, OwnFacts
  <2>2. \A g \in job[t].wrote : g # w.file => new[g] = files[g]
    BY <1>3, <1>4, JobIs DEF Stored
  <2>3. new[w.file] = Fresh(w.file, job[t].run)
    BY <1>3, <1>4, <2>1 DEF Stored, Undisturbed
  <2> HIDE DEF new
  <2> QED
    BY <1>3, <1>6, <1>7, <2>1, <2>2, <2>3, WrittenFresh
<1> QED
  BY <1>1, <1>4, <1>6, <1>7, ChangeKeeps

\* Whoever fails prepares nothing any more: a script ends with its request,
\* the pipeline goes on, flawed.
LEMMA FailsKeep ==
  ASSUME Typed, Prepared, NEW t \in Threads, Fails(t)
  PROVE  Keeps(t)
<1> DEFINE w == Head(job[t].todo)
           source == IF w.source = Net THEN Gone ELSE files[w.source]
<1>1. /\ pc[t] \in {"open", "fill", "move"} /\ runs' = runs /\ ops' = ops
      /\ IF ByScript(t) THEN Aborts(t, pc[t]) ELSE Proceed(t, pc[t], {}, TRUE)
  BY Zenon DEF Fails
<1>2. PICK to \in Places, j \in Jobs :
        /\ Proper(j.todo) /\ AtWork(to, j) /\ ~Steady(j)
        /\ pc' = [pc EXCEPT ![t] = to] /\ job' = [job EXCEPT ![t] = j]
  <2>1. CASE ByScript(t)
    BY <1>1, <2>1, AbortsIs
  <2>2. CASE ~ByScript(t)
    <3>1. {} \in SUBSET Names /\ TRUE \in BOOLEAN /\ job[t].op # "train"
      BY <2>2 DEF ByScript
    <3>2. Proceed(t, pc[t], {}, TRUE)
      BY <1>1, <2>2
    <3>3. PICK to \in Places, j \in Jobs : Onward(t, pc[t], {}, TRUE, to, j)
      BY <1>1, <3>1, <3>2, ProceedIs
    <3> QED
      BY <3>3 DEF Onward
  <2> QED
    BY <2>1, <2>2
<1>3. CASE pc[t] = "fill"
  <2>1. PICK c \in Seen(source), cut \in BOOLEAN :
          Change(t, [files EXCEPT ![w.file] =
            IF cut THEN Empty ELSE [Made(w, c, job[t].run, FALSE) EXCEPT !.whole = FALSE]])
    BY <1>3 DEF Fails
  <2> DEFINE made == Made(w, c, job[t].run, FALSE)
             left == IF cut THEN Empty ELSE [made EXCEPT !.whole = FALSE]
             new == [files EXCEPT ![w.file] = left]
  <2>2. Change(t, new)
    BY <2>1
  <2>3. /\ job[t].run \in 0..MaxRuns /\ w \in Writes /\ w.file \in Names /\ w.cols \in {6, 7}
        /\ w.file \in CleanNames => w.cols = 6
        /\ w.source # Net => files[w.source] \in Content
    BY <1>3, HeadIs, OwnFacts, JobIs
  <2>4. source \in Content
    BY <2>3, ContentsAre
  <2>5. c \in Content /\ FALSE \in BOOLEAN
    BY <2>4, SeenIs
  <2>6. made \in Content /\ made.cols \in {0, w.cols}
    BY <2>3, <2>5, MadeIs
  <2> HIDE DEF made
  <2>7. [made EXCEPT !.whole = FALSE] \in Content /\ [made EXCEPT !.whole = FALSE].cols = made.cols
    BY <2>6 DEF Content
  <2>8. left \in Content /\ left.cols \in {0, w.cols}
    BY <2>6, <2>7, ContentsAre
  <2> HIDE DEF left
  <2>9. Stored(new)
    BY <2>3, <2>8, StoredWrite DEF Typed
  <2> QED
    BY <1>1, <1>2, <2>2, <2>9, ChangeKeeps
<1>4. CASE pc[t] # "fill"
  <2>1. files' = files /\ upset' = upset
    BY <1>4 DEF Fails
  <2>2. runs' \in 0..MaxRuns
    BY <1>1 DEF Typed
  <2> QED
    BY <1>1, <1>2, <2>1, <2>2, Quietly
<1> QED
  BY <1>3, <1>4

-----------------------------------------------------------------------------
(* Between the scripts and the answer                                      *)

Scripted == {"net", "open", "fill", "move"}

\* Between two places where the same files are wanted.
LEMMA SameWants ==
  ASSUME NEW fs, NEW place, NEW to, NEW old, NEW j, Undisturbed(fs, place, old),
         place \notin Scripted, to \notin Scripted,
         j.op = old.op, j.run = old.run, j.todo = old.todo, j.wrote = old.wrote,
         to \in {"check", "fetched", "infer15", "infer60", "inferred"} => j.op = "pipeline",
         to \in Preparing => place \in Preparing,
         to \in Looking => place \in Looking,
         to \in {"load60", "trained", "infer60", "inferred"} => Good(j.loaded["15"], j.run),
         to \in {"trained", "inferred"} => Good(j.loaded["60"], j.run)
  PROVE  Undisturbed(fs, to, j)
<1>1. Wanted(to, j) \subseteq Wanted(place, old)
  BY DEF Wanted
<1>2. \A g \in Wanted(to, j) : fs[g] = Fresh(g, j.run)
  BY <1>1 DEF Undisturbed, Scripted
<1>3. to # "net" /\ to # "fill" /\ to # "move" /\ j.todo = <<>>
  BY DEF Undisturbed, Scripted
<1>4. Sound(j.todo, j.wrote) /\ j.op \in {"train", "pipeline"}
  BY DEF Undisturbed
<1> QED
  BY <1>2, <1>3, <1>4 DEF Undisturbed

\* Where nothing is needed any more.
LEMMA NothingWanted ==
  ASSUME NEW fs, NEW more, NEW place, NEW old, NEW j, Undisturbed(fs, place, old),
         place \notin Scripted, NEW to \in {"rmraw", "rmclean", "exists", "loading", "savex", "savey"},
         j.op = old.op, j.todo = old.todo, j.wrote = old.wrote
  PROVE  Undisturbed(more, to, j)
<1>1. j.todo = <<>>
  BY DEF Undisturbed, Scripted
<1>2. Wanted(to, j) = {}
  BY <1>1, NoScriptIs DEF Wanted, Preparing, Looking
<1>3. Sound(j.todo, j.wrote) /\ j.op \in {"train", "pipeline"}
  BY DEF Undisturbed
<1> QED
  BY <1>1, <1>2, <1>3 DEF Undisturbed

\* The files that an undisturbed request reads are its own.
LEMMA ReadFresh ==
  ASSUME NEW place, place \notin Scripted, NEW j \in Jobs,
         Undisturbed(files, place, j), NEW g \in Names,
         \/ g \in CleanNames /\ place \in Preparing
         \/ g \in RawNames /\ j.op = "pipeline" /\ place \in Looking
  PROVE  files[g] = Fresh(g, j.run) /\ Seen(files[g]) = {Fresh(g, j.run)}
         /\ files[g].kind = "rows" /\ HasRows(Fresh(g, j.run)) /\ Good(Fresh(g, j.run), j.run)
<1>1. j.todo = <<>> /\ Sound(j.todo, j.wrote)
  BY DEF Undisturbed, Scripted
<1>2. g \in j.wrote
  BY <1>1, NoScriptIs
<1>3. g \in Wanted(place, j)
  BY <1>2 DEF Wanted
<1>4. files[g] = Fresh(g, j.run)
  BY <1>3 DEF Undisturbed, Scripted
<1>5. /\ Seen(Fresh(g, j.run)) = {Fresh(g, j.run)} /\ Fresh(g, j.run).kind = "rows"
      /\ HasRows(Fresh(g, j.run)) /\ Good(Fresh(g, j.run), j.run)
  BY JobIs, FreshIs
<1> QED
  BY <1>4, <1>5

LEMMA CheckKeeps ==
  ASSUME Typed, Prepared, NEW t \in Threads, Check(t)
  PROVE  Keeps(t)
<1>1. files' = files /\ runs' = runs /\ ops' = ops
  BY Zenon DEF Check, others
<1>2. CASE Ends(t, "check")
  BY <1>1, <1>2, EndsKeeps
<1>3. CASE Goes(t, "check", "load15") /\ job' = job /\ upset' = upset
  <2>1. Undisturbed(files, "check", job[t]) => Undisturbed(files, "load15", job[t])
    BY SameWants DEF Scripted, Preparing, Looking
  <2>2. "load15" \in Places /\ "load15" \notin Scripted
    BY DEF Places, Scripted
  <2> QED
    BY <1>1, <1>3, <2>1, <2>2, WalkKeeps DEF Scripted
<1>4. CASE Goes(t, "check", "fetched") /\ job' = [job EXCEPT ![t].filled = TRUE] /\ upset' = upset
  <2> DEFINE j == [job[t] EXCEPT !.filled = TRUE]
  <2>1. /\ pc[t] = "check" /\ pc' = [pc EXCEPT ![t] = "fetched"]
        /\ job' = [job EXCEPT ![t] = j] /\ upset' = upset
    BY <1>4 DEF Goes
  <2>2. /\ j \in Jobs /\ j.todo = job[t].todo /\ j.op = job[t].op /\ j.run = job[t].run
        /\ Steady(j) = Steady(job[t]) /\ Candid(j) /\ j.wrote = job[t].wrote
    BY OwnFacts DEF Jobs, Steady, Candid
  <2> HIDE DEF j
  <2>3. "fetched" \in Places /\ AtWork("fetched", j) /\ Proper(j.todo)
    BY <2>2, OwnFacts DEF Places, AtWork
  <2>4. ASSUME Steady(j), t \notin upset'
        PROVE  Undisturbed(files, "fetched", j)
    <3>1. Undisturbed(files, "check", job[t])
      BY <2>1, <2>2, <2>4, OwnFacts
    <3>2. j.op = "pipeline"
      BY <2>2, <3>1 DEF Undisturbed
    <3> QED
      BY <2>2, <3>1, <3>2, SameWants DEF Scripted, Preparing, Looking
  <2>5. runs' \in 0..MaxRuns
    BY <1>1 DEF Typed
  <2> QED
    BY <1>1, <2>1, <2>2, <2>3, <2>4, <2>5, Quietly
<1> QED
  BY <1>2, <1>3, <1>4 DEF Check

LEMMA FillGapsKeeps ==
  ASSUME Typed, Prepared, NEW t \in Threads, FillGaps(t)
  PROVE  Keeps(t)
<1>1. files' = files /\ runs' = runs /\ upset' = upset /\ ops' = ops
  BY Zenon DEF FillGaps, others
<1>2. CASE Goes(t, "fetched", "check") /\ job' = job
  <2>1. Undisturbed(files, "fetched", job[t]) => job[t].op = "pipeline"
    BY DEF Undisturbed
  <2>2. Undisturbed(files, "fetched", job[t]) => Undisturbed(files, "check", job[t])
    BY <2>1, SameWants DEF Scripted, Preparing, Looking
  <2>3. "check" \in Places /\ "check" \notin Scripted
    BY DEF Places, Scripted
  <2> QED
    BY <1>1, <1>2, <2>2, <2>3, WalkKeeps DEF Scripted
<1>3. CASE Goes(t, "fetched", "open") /\ job' = [job EXCEPT ![t].todo = fill_gaps]
  <2> DEFINE j == [job[t] EXCEPT !.todo = fill_gaps]
  <2>1. /\ pc[t] = "fetched" /\ pc' = [pc EXCEPT ![t] = "open"]
        /\ job' = [job EXCEPT ![t] = j]
    BY <1>3 DEF Goes
  <2>2. job[t] \in Jobs /\ fill_gaps \in Seq(Writes)
    BY OwnFacts, GapsScriptIs
  <2>3. /\ j \in Jobs /\ j.todo = fill_gaps /\ j.op = job[t].op /\ j.run = job[t].run
        /\ Steady(j) = Steady(job[t]) /\ Candid(j) /\ j.wrote = job[t].wrote
    BY <2>2, OwnFacts DEF Jobs, Steady, Candid
  <2> HIDE DEF j
  <2>4. "open" \in Places /\ AtWork("open", j) /\ Proper(j.todo)
    BY <2>3, GapsScriptIs DEF Places, AtWork
  <2>5. ASSUME Steady(j), t \notin upset'
        PROVE  Undisturbed(files, "open", j)
    <3>1. Undisturbed(files, "fetched", job[t])
      BY <1>1, <2>1, <2>3, <2>5, OwnFacts
    <3>2. j.op = "pipeline"
      BY <2>3, <3>1 DEF Undisturbed
    <3>3. Sound(<<>>, j.wrote)
      BY <2>3, <3>1 DEF Undisturbed
    <3>4. j.wrote = Names
      BY <2>3, <3>3, NoScriptIs, JobIs
    <3>5. Sound(j.todo, j.wrote)
      BY <2>3, <3>4, GapsScriptIs
    <3>6. \A g \in Names : files[g] = Fresh(g, j.run)
      <4> TAKE g \in Names
      <4>1. \/ g \in CleanNames /\ "fetched" \in Preparing
            \/ g \in RawNames /\ job[t].op = "pipeline" /\ "fetched" \in Looking
        BY <2>3, <3>2, NamesAre DEF Preparing, Looking
      <4> QED
        BY <2>2, <2>3, <3>1, <4>1, ReadFresh DEF Scripted
    <3>7. \A g \in Wanted("open", j) : files[g] = Fresh(g, j.run)
      BY <3>4, <3>6 DEF Wanted
    <3> QED
      BY <3>2, <3>5, <3>7 DEF Undisturbed
  <2>6. runs' \in 0..MaxRuns
    BY <1>1 DEF Typed
  <2> QED
    BY <1>1, <2>1, <2>3, <2>4, <2>5, <2>6, Quietly
<1> QED
  BY <1>2, <1>3 DEF FillGaps

LEMMA NamesOf ==
  ASSUME NEW f \in Frames
  PROVE  /\ Raw(f) \in RawNames /\ Raw(f) \in Names
         /\ Clean(f) \in CleanNames /\ Clean(f) \in Names
         /\ select_raw_path(f) \in Names
         /\ files[Clean(f)].kind = "rows" => select_raw_path(f) = Clean(f)
BY NamesAre DEF select_raw_path

\* A frame goes into the locals of the request.
LEMMA LoadedIs ==
  ASSUME Typed, Prepared, NEW t \in Threads, NEW f \in Frames, NEW c \in Content,
         NEW to \in Places, to \notin Scripted
  PROVE  LET j == [job[t] EXCEPT !.loaded = [job[t].loaded EXCEPT ![f] = c]] IN
         /\ j \in Jobs /\ Proper(j.todo) /\ AtWork(to, j)
         /\ j.todo = job[t].todo /\ j.op = job[t].op /\ j.run = job[t].run
         /\ Steady(j) = Steady(job[t]) /\ j.wrote = job[t].wrote
         /\ j.loaded[f] = c /\ \A h \in Frames \ {f} : j.loaded[h] = job[t].loaded[h]
<1> DEFINE j == [job[t] EXCEPT !.loaded = [job[t].loaded EXCEPT ![f] = c]]
<1>1. job[t] \in Jobs /\ job[t].loaded \in [Frames -> Content] /\ Proper(job[t].todo)
  BY OwnFacts, JobIs
<1>2. [job[t].loaded EXCEPT ![f] = c] \in [Frames -> Content]
  BY <1>1
<1>3. /\ j \in Jobs /\ j.todo = job[t].todo /\ j.op = job[t].op /\ j.run = job[t].run
      /\ Steady(j) = Steady(job[t]) /\ Candid(j) /\ j.wrote = job[t].wrote
      /\ j.loaded = [job[t].loaded EXCEPT ![f] = c]
  BY <1>1, <1>2, OwnFacts DEF Jobs, Steady, Candid
<1> HIDE DEF j
<1>4. AtWork(to, j)
  BY <1>3 DEF AtWork, Scripted
<1>5. j.loaded[f] = c /\ \A h \in Frames \ {f} : j.loaded[h] = job[t].loaded[h]
  BY <1>1, <1>3
<1> QED
  BY <1>1, <1>3, <1>4, <1>5 DEF j

LEMMA LoadFrameKeeps ==
  ASSUME Typed, Prepared, NEW t \in Threads, NEW f, NEW from, NEW to, LoadFrame(t, f, from, to),
         \/ f = "15" /\ from = "load15" /\ to = "load60"
         \/ f = "60" /\ from = "load60" /\ to = "trained"
  PROVE  Keeps(t)
<1>1. files' = files /\ runs' = runs /\ ops' = ops
  BY Zenon DEF LoadFrame, others
<1>2. f \in Frames /\ to \in Places /\ to \notin Scripted /\ from \notin Scripted
  BY DEF Frames, Places, Scripted
<1>3. PICK c \in Seen(files[select_raw_path(f)]) :
        \/ Goes(t, from, to) /\ upset' = upset
           /\ job' = [job EXCEPT ![t] =
                [job[t] EXCEPT !.loaded = [job[t].loaded EXCEPT ![f] =
                   IF HasRows(c) THEN c ELSE Gone]]]
        \/ Ends(t, from)
  BY DEF LoadFrame
<1>4. CASE Ends(t, from)
  BY <1>1, <1>4, EndsKeeps
<1>5. CASE ~Ends(t, from)
  <2> DEFINE d == IF HasRows(c) THEN c ELSE Gone
             j == [job[t] EXCEPT !.loaded = [job[t].loaded EXCEPT ![f] = d]]
  <2>1. /\ pc[t] = from /\ pc' = [pc EXCEPT ![t] = to] /\ upset' = upset
        /\ job' = [job EXCEPT ![t] = j]
    BY <1>3, <1>5 DEF Goes
  <2>2. c \in Content
    <3>1. files[select_raw_path(f)] \in Content
      BY <1>2, NamesOf DEF Typed, Stored
    <3> QED
      BY <3>1, SeenIs
  <2>3. d \in Content
    BY <2>2, ContentsAre
  <2> HIDE DEF d
  <2>4. /\ j \in Jobs /\ Proper(j.todo) /\ AtWork(to, j)
        /\ j.todo = job[t].todo /\ j.op = job[t].op /\ j.run = job[t].run
        /\ Steady(j) = Steady(job[t]) /\ j.wrote = job[t].wrote
        /\ j.loaded[f] = d /\ \A h \in Frames \ {f} : j.loaded[h] = job[t].loaded[h]
    BY <1>2, <2>3, LoadedIs
  <2> HIDE DEF j
  <2>5. ASSUME Steady(j), t \notin upset'
        PROVE  Undisturbed(files, to, j)
    <3>1. Undisturbed(files, from, job[t]) /\ job[t] \in Jobs
      BY <2>1, <2>4, <2>5, OwnFacts
    <3>2. /\ Seen(files[Clean(f)]) = {Fresh(Clean(f), job[t].run)}
          /\ files[Clean(f)].kind = "rows" /\ HasRows(Fresh(Clean(f), job[t].run))
          /\ Good(Fresh(Clean(f), job[t].run), job[t].run)
      <4>1. Clean(f) \in Names /\ Clean(f) \in CleanNames /\ from \in Preparing
        BY <1>2, NamesOf DEF Preparing
      <4> QED
        BY <1>2, <3>1, <4>1, ReadFresh
    <3>3. select_raw_path(f) = Clean(f)
      BY <1>2, <3>2, NamesOf
    <3>4. c = Fresh(Clean(f), job[t].run)
      BY <3>2, <3>3
    <3>5. Good(j.loaded[f], j.run)
      BY <2>4, <3>2, <3>4 DEF d
    <3>6. f = "60" => Good(j.loaded["15"], j.run)
      <4>1. f = "60" => "15" \in Frames \ {f}
        BY DEF Frames
      <4> QED
        BY <2>4, <3>1, <4>1 DEF Undisturbed
    <3>7. /\ to \in {"load60", "trained"} /\ (to \in Preparing => from \in Preparing)
          /\ from \in Looking
      BY DEF Preparing, Looking
    <3> QED
      BY <1>2, <2>4, <3>1, <3>5, <3>6, <3>7, SameWants
  <2>6. runs' \in 0..MaxRuns
    BY <1>1 DEF Typed
  <2> QED
    BY <1>1, <1>2, <2>1, <2>4, <2>5, <2>6, Quietly
<1> QED
  BY <1>4, <1>5

LEMMA InferFrameKeeps ==
  ASSUME Typed, Prepared, NEW t \in Threads, NEW f, NEW from, NEW to, InferFrame(t, f, from, to),
         \/ f = "15" /\ from = "infer15" /\ to = "infer60"
         \/ f = "60" /\ from = "infer60" /\ to = "inferred"
  PROVE  Keeps(t)
<1>1. files' = files /\ runs' = runs /\ upset' = upset /\ ops' = ops
  BY Zenon DEF InferFrame, others
<1>2. f \in Frames /\ to \in Places /\ to \notin Scripted /\ from \notin Scripted
  BY DEF Frames, Places, Scripted
<1>3. PICK c \in Seen(files[Raw(f)]) :
        job' = [job EXCEPT ![t] =
          [job[t] EXCEPT !.loaded = [job[t].loaded EXCEPT ![f] = c]]]
  BY DEF InferFrame
<1> DEFINE j == [job[t] EXCEPT !.loaded = [job[t].loaded EXCEPT ![f] = c]]
<1>4. /\ pc[t] = from /\ pc' = [pc EXCEPT ![t] = to] /\ job' = [job EXCEPT ![t] = j]
  BY <1>3 DEF InferFrame, Goes
<1>5. c \in Content
  <2>1. files[Raw(f)] \in Content
    BY <1>2, NamesOf DEF Typed, Stored
  <2> QED
    BY <2>1, SeenIs
<1>6. /\ j \in Jobs /\ Proper(j.todo) /\ AtWork(to, j)
      /\ j.todo = job[t].todo /\ j.op = job[t].op /\ j.run = job[t].run
      /\ Steady(j) = Steady(job[t]) /\ j.wrote = job[t].wrote
      /\ j.loaded[f] = c /\ \A h \in Frames \ {f} : j.loaded[h] = job[t].loaded[h]
  BY <1>2, <1>5, LoadedIs
<1> HIDE DEF j
<1>7. ASSUME Steady(j), t \notin upset'
      PROVE  Undisturbed(files, to, j)
  <2>1. Undisturbed(files, from, job[t]) /\ job[t] \in Jobs
    BY <1>1, <1>4, <1>6, <1>7, OwnFacts
  <2>2. job[t].op = "pipeline" /\ from \in Looking
    BY <2>1 DEF Undisturbed, Looking
  <2>3. /\ Seen(files[Raw(f)]) = {Fresh(Raw(f), job[t].run)}
        /\ Good(Fresh(Raw(f), job[t].run), job[t].run)
    <3>1. Raw(f) \in Names /\ Raw(f) \in RawNames
      BY <1>2, NamesOf
    <3> QED
      BY <1>2, <2>1, <2>2, <3>1, ReadFresh
  <2>4. Good(j.loaded[f], j.run)
    BY <1>6, <2>3
  <2>5. f = "60" => Good(j.loaded["15"], j.run)
    <3>1. f = "60" => "15" \in Frames \ {f}
      BY DEF Frames
    <3> QED
      BY <1>6, <2>1, <3>1 DEF Undisturbed
  <2>6. to \in {"infer60", "inferred"} /\ to \notin Preparing
    BY DEF Preparing
  <2> QED
    BY <1>2, <1>6, <2>1, <2>2, <2>4, <2>5, <2>6, SameWants
<1>8. runs' \in 0..MaxRuns
  BY <1>1 DEF Typed
<1> QED
  BY <1>1, <1>2, <1>4, <1>6, <1>7, <1>8, Quietly

LEMMA AfterTrainingKeeps ==
  ASSUME Typed, Prepared, NEW t \in Threads, AfterTraining(t)
  PROVE  Keeps(t)
<1>1. files' = files /\ runs' = runs /\ ops' = ops
  BY Zenon DEF AfterTraining, others
<1>2. CASE Ends(t, "trained")
  BY <1>1, <1>2, EndsKeeps
<1>3. CASE job[t].op = "pipeline" /\ Goes(t, "trained", "infer15") /\ job' = job /\ upset' = upset
  <2>1. Undisturbed(files, "trained", job[t]) => Undisturbed(files, "infer15", job[t])
    BY <1>3, SameWants DEF Scripted, Preparing, Looking
  <2>2. "infer15" \in Places /\ "infer15" \notin Scripted
    BY DEF Places, Scripted
  <2> QED
    BY <1>1, <1>3, <2>1, <2>2, WalkKeeps DEF Scripted
<1>4. CASE Goes(t, "trained", "rmraw") /\ job' = job /\ upset' = upset
  <2>1. Undisturbed(files, "trained", job[t]) => Undisturbed(files, "rmraw", job[t])
    BY NothingWanted DEF Scripted
  <2>2. "rmraw" \in Places /\ "rmraw" \notin Scripted
    BY DEF Places, Scripted
  <2> QED
    BY <1>1, <1>4, <2>1, <2>2, WalkKeeps DEF Scripted
<1> QED
  BY <1>2, <1>3, <1>4 DEF AfterTraining

LEMMA TrainingKeeps ==
  ASSUME Typed, Prepared, NEW t \in Threads, Training(t)
  PROVE  Keeps(t)
<1>1. CASE Answer(t)
  <2>1. Ends(t, "inferred") /\ files' = files /\ runs' = runs /\ ops' = ops
    BY <1>1, Zenon DEF Answer, others
  <2> QED
    BY <2>1, EndsKeeps
<1>2. CASE Load(t)
  BY <1>2, LoadFrameKeeps DEF Load
<1>3. CASE Infer(t)
  BY <1>3, InferFrameKeeps DEF Infer
<1> QED
  BY <1>1, <1>2, <1>3, CheckKeeps, FillGapsKeeps, AfterTrainingKeeps DEF Training

-----------------------------------------------------------------------------
(* Cleaning up, and the cache of X and y                                   *)

LEMMA WithoutIs ==
  ASSUME Typed, NEW dir
  PROVE  Stored(Without(dir))
<1>1. \A f \in Frames : Clean(f) \in Names
  BY NamesAre
<1>2. files \in [Names -> Content] /\ \A f \in Frames : files[Clean(f)].cols # 7
  BY DEF Typed, Stored
<1>3. Without(dir) \in [Names -> Content]
  BY <1>2, ContentsAre DEF Without
<1>4. \A g \in Names : Without(dir)[g] = Gone \/ Without(dir)[g] = files[g]
  BY DEF Without
<1> QED
  BY <1>1, <1>2, <1>3, <1>4, ContentsAre DEF Stored

LEMMA CleanUpKeeps ==
  ASSUME Typed, Prepared, NEW t \in Threads, CleanUp(t)
  PROVE  Keeps(t)
<1>1. runs' = runs /\ ops' = ops
  BY Zenon DEF CleanUp, others
<1>2. CASE Goes(t, "rmraw", "rmclean") /\ Change(t, Without("raw")) /\ job' = job
  <2>1. pc[t] = "rmraw" /\ pc' = [pc EXCEPT ![t] = "rmclean"]
    BY <1>2 DEF Goes
  <2>2. job' = [job EXCEPT ![t] = job[t]]
    BY <1>2 DEF Typed
  <2>3. "rmclean" \in Places /\ AtWork("rmclean", job[t])
    BY OwnFacts DEF Places, AtWork
  <2>4. ASSUME Steady(job[t]), t \notin upset'
        PROVE  Undisturbed(Without("raw"), "rmclean", job[t])
    <3>1. Undisturbed(files, "rmraw", job[t])
      BY <1>2, <2>1, <2>4, ChangeIs, OwnFacts
    <3> QED
      BY <3>1, NothingWanted DEF Scripted
  <2> QED
    BY <1>1, <1>2, <2>1, <2>2, <2>3, <2>4, OwnFacts, WithoutIs, ChangeKeeps
<1>3. CASE /\ Goes(t, "rmclean", "idle") /\ Change(t, Without("clean"))
           /\ job' = [job EXCEPT ![t] = NoJob]
  <2>1. pc' = [pc EXCEPT ![t] = "idle"] /\ "idle" \in Places
    BY <1>3 DEF Goes, Places
  <2> QED
    BY <1>1, <1>3, <2>1, NoJobIs, WithoutIs, ChangeKeeps
<1> QED
  BY <1>2, <1>3 DEF CleanUp

LEMMA BuildKeeps ==
  ASSUME Typed, Prepared, NEW t \in Threads, Build(t)
  PROVE  Keeps(t)
<1>1. files' = files /\ runs' = runs /\ ops' = ops
  BY Zenon DEF Build, others
<1>2. CASE Ends(t, "loading")
  BY <1>1, <1>2, EndsKeeps
<1>3. CASE ~Ends(t, "loading")
  <2>1. PICK c \in Seen(files[select_raw_path("15")]) :
          /\ Goes(t, "loading", "savex") /\ upset' = upset
          /\ job' = [job EXCEPT ![t] = [job[t] EXCEPT !.made = c]]
    BY <1>3 DEF Build
  <2> DEFINE j == [job[t] EXCEPT !.made = c]
  <2>2. /\ pc[t] = "loading" /\ pc' = [pc EXCEPT ![t] = "savex"]
        /\ job' = [job EXCEPT ![t] = j]
    BY <2>1 DEF Goes
  <2>3. c \in Content
    <3>1. files[select_raw_path("15")] \in Content
      BY NamesOf DEF Frames, Typed, Stored
    <3> QED
      BY <3>1, SeenIs
  <2>4. /\ j \in Jobs /\ j.todo = job[t].todo /\ j.op = job[t].op
        /\ Steady(j) = Steady(job[t]) /\ Candid(j) /\ j.wrote = job[t].wrote
    BY <2>3, OwnFacts DEF Jobs, Steady, Candid
  <2> HIDE DEF j
  <2>5. "savex" \in Places /\ AtWork("savex", j) /\ Proper(j.todo)
    BY <2>4, OwnFacts DEF Places, AtWork
  <2>6. ASSUME Steady(j), t \notin upset'
        PROVE  Undisturbed(files, "savex", j)
    <3>1. Undisturbed(files, "loading", job[t])
      BY <2>1, <2>2, <2>4, <2>6, OwnFacts
    <3> QED
      BY <2>4, <3>1, NothingWanted DEF Scripted
  <2>7. runs' \in 0..MaxRuns
    BY <1>1 DEF Typed
  <2> QED
    BY <1>1, <2>1, <2>2, <2>4, <2>5, <2>6, <2>7, Quietly
<1> QED
  BY <1>2, <1>3

LEMMA CachingKeeps ==
  ASSUME Typed, Prepared, NEW t \in Threads, Caching(t)
  PROVE  Keeps(t)
<1>1. CASE Health(t)
  <2>1. files' = files /\ runs' = runs /\ ops' = ops
    BY <1>1, Zenon DEF Health, others
  <2>2. CASE Ends(t, "health")
    BY <2>1, <2>2, EndsKeeps
  <2>3. CASE Goes(t, "health", "exists") /\ job' = job /\ upset' = upset
    <3>1. Undisturbed(files, "health", job[t]) => Undisturbed(files, "exists", job[t])
      BY NothingWanted DEF Scripted
    <3>2. "exists" \in Places /\ "exists" \notin Scripted
      BY DEF Places, Scripted
    <3> QED
      BY <2>1, <2>3, <3>1, <3>2, WalkKeeps DEF Scripted
  <2> QED
    BY <1>1, <2>2, <2>3 DEF Health
<1>5. CASE Exists(t)
  <2>1. files' = files /\ runs' = runs /\ ops' = ops
    BY <1>5, Zenon DEF Exists
  <2>2. CASE Ends(t, "exists")
    BY <2>1, <2>2, EndsKeeps
  <2>3. CASE Goes(t, "exists", "loading") /\ job' = job /\ upset' = upset
    <3>1. Undisturbed(files, "exists", job[t]) => Undisturbed(files, "loading", job[t])
      BY NothingWanted DEF Scripted
    <3>2. "loading" \in Places /\ "loading" \notin Scripted
      BY DEF Places, Scripted
    <3> QED
      BY <2>1, <2>3, <3>1, <3>2, WalkKeeps DEF Scripted
  <2> QED
    BY <1>5, <2>2, <2>3 DEF Exists
<1>2. CASE Build(t)
  BY <1>2, BuildKeeps
<1>3. CASE SaveX(t)
  <2>1. /\ Goes(t, "savex", "savey") /\ files' = files /\ job' = job
        /\ runs' = runs /\ upset' = upset /\ ops' = ops
    BY <1>3, Zenon DEF SaveX
  <2>2. Undisturbed(files, "savex", job[t]) => Undisturbed(files, "savey", job[t])
    BY NothingWanted DEF Scripted
  <2>3. "savey" \in Places /\ "savey" \notin Scripted
    BY DEF Places, Scripted
  <2> QED
    BY <2>1, <2>2, <2>3, WalkKeeps DEF Scripted
<1>4. CASE SaveY(t)
  <2>1. Ends(t, "savey") /\ files' = files /\ runs' = runs /\ ops' = ops
    BY <1>4, Zenon DEF SaveY
  <2> QED
    BY <2>1, EndsKeeps
<1> QED
  BY <1>1, <1>2, <1>3, <1>4, <1>5 DEF Caching

-----------------------------------------------------------------------------
(* All steps                                                               *)

LEMMA WritingKeeps ==
  ASSUME Typed, Prepared, NEW t \in Threads, Writing(t)
  PROVE  Keeps(t)
BY SkipKeeps, StopKeeps, OpenKeeps, MakeKeeps, FillKeeps, MoveKeeps, FailsKeep DEF Writing

\* A kill leaves no request behind, whatever it leaves in the files.
LEMMA KillKeeps ==
  ASSUME Typed, Kill
  PROVE  Typed' /\ Prepared'
<1>1. PICK cut \in SUBSET {g \in Names : files[g].kind = "open"} :
        files' = [g \in Names |->
          IF g \in cut THEN Empty
          ELSE IF files[g].kind = "open" THEN Rows(files[g].of, FALSE, files[g].cols)
          ELSE files[g]]
  BY DEF Kill
<1>2. /\ pc' = [t \in Threads |-> "idle"] /\ job' = [t \in Threads |-> NoJob]
      /\ upset' = {} /\ runs' = runs /\ ops' = ops
  BY Zenon DEF Kill, others
<1>3. files \in [Names -> Content] /\ \A f \in Frames : files[Clean(f)].cols # 7
  BY DEF Typed, Stored
<1>4. ASSUME NEW g \in Names
      PROVE  files'[g] \in Content /\ files'[g].cols \in {0, files[g].cols}
  <2>1. /\ files[g].of \in 0..MaxRuns /\ files[g].cols \in {0, 6, 7} /\ FALSE \in BOOLEAN
        /\ files[g] \in Content
    BY <1>3 DEF Content
  <2>2. /\ Rows(files[g].of, FALSE, files[g].cols) \in Content
        /\ Rows(files[g].of, FALSE, files[g].cols).cols = files[g].cols
    BY <2>1, ContentsAre
  <2>3. \/ files'[g] = Empty \/ files'[g] = files[g]
        \/ files'[g] = Rows(files[g].of, FALSE, files[g].cols)
    BY <1>1
  <2> QED
    BY <2>1, <2>2, <2>3, ContentsAre
<1>5. Stored(files')
  <2>1. files' \in [Names -> Content]
    <3>1. files' = [g \in Names |-> files'[g]]
      BY <1>1
    <3> QED
      BY <1>4, <3>1
  <2>2. \A f \in Frames : Clean(f) \in Names
    BY NamesAre
  <2> QED
    BY <1>3, <1>4, <2>1, <2>2 DEF Stored
<1>6. Jobs' = Jobs /\ "idle" \in Places
  BY <1>2 DEF Jobs, Places
<1>7. pc' \in [Threads -> Places] /\ job' \in [Threads -> Jobs]
  BY <1>2, <1>6, NoJobIs
<1>8. \A t \in Threads : Proper(job'[t].todo) /\ AtWork(pc'[t], job'[t])
  BY <1>2, NoJobIs
<1>9. Typed'
  BY <1>2, <1>5, <1>6, <1>7, <1>8 DEF Typed
<1>10. Prepared'
  BY <1>2, NoJobIs DEF Prepared
<1> QED
  BY <1>9, <1>10

LEMMA FilesInit == Init => Typed /\ Prepared
<1> SUFFICES ASSUME Init
             PROVE  Typed /\ Prepared
  OBVIOUS
<1>1. Stored(files)
  <2>1. \A f \in Frames : Clean(f) \in Names
    BY NamesAre
  <2> QED
    BY <2>1, ContentsAre DEF Init, Stored
<1>2. "idle" \in Places /\ 0 \in 0..MaxRuns
  BY RunsAre DEF Places
<1>3. pc \in [Threads -> Places] /\ job \in [Threads -> Jobs]
  BY <1>2, NoJobIs DEF Init
<1>4. \A t \in Threads : Proper(job[t].todo) /\ AtWork(pc[t], job[t])
  BY NoJobIs DEF Init
<1>5. Typed
  BY <1>1, <1>2, <1>3, <1>4 DEF Init, Typed
<1>6. Prepared
  BY NoJobIs DEF Init, Prepared
<1> QED
  BY <1>5, <1>6

LEMMA FilesStep == Typed /\ Prepared /\ [Next]_vars => (Typed /\ Prepared)'
<1> SUFFICES ASSUME Typed, Prepared, [Next]_vars
             PROVE  Typed' /\ Prepared'
  OBVIOUS
<1>1. CASE UNCHANGED vars
  BY <1>1 DEF vars, Typed, Prepared, Jobs
<1>2. CASE Kill
  BY <1>2, KillKeeps
<1>3. ASSUME NEW t \in Threads,
             \/ Asking(t) \/ Download(t) \/ DownloadFails(t) \/ Writing(t)
             \/ Training(t) \/ CleanUp(t) \/ Caching(t)
      PROVE  Typed' /\ Prepared'
  <2>1. Keeps(t)
    BY <1>3, AskingKeeps, DownloadKeeps, DownloadFailsKeeps, WritingKeeps, TrainingKeeps,
       CleanUpKeeps, CachingKeeps
  <2> QED
    BY <2>1, KeptIs
<1> QED
  BY <1>1, <1>2, <1>3 DEF Next

LEMMA FilesAreKept == Spec => [](Typed /\ Prepared)
BY FilesInit, FilesStep, PTL DEF Spec

-----------------------------------------------------------------------------
(* X and y: only Exists, Build, SaveX, SaveY and a kill touch who saves    *)
(* them.                                                                   *)

Aside(t) ==
  /\ xfile' = xfile /\ yfile' = yfile /\ rivals' = rivals /\ pc'[t] \notin Saving
  /\ \A u \in Threads \ {t} : pc'[u] = pc[u] /\ job'[u] = job[u]

LEMMA AsideBy ==
  ASSUME Typed, NEW t \in Threads, xfile' = xfile, yfile' = yfile, rivals' = rivals,
         NEW from, NEW to, to \notin Saving, Goes(t, from, to),
         NEW j, job' = job \/ job' = [job EXCEPT ![t] = j]
  PROVE  Aside(t)
BY DEF Aside, Goes, Typed

LEMMA AsideEnds ==
  ASSUME Typed, NEW t \in Threads, xfile' = xfile, yfile' = yfile, rivals' = rivals,
         NEW from, Ends(t, from)
  PROVE  Aside(t)
BY AsideBy DEF Ends, Saving

LEMMA AsideProceed ==
  ASSUME Typed, NEW t \in Threads, xfile' = xfile, yfile' = yfile, rivals' = rivals,
         NEW from, NEW wrote, NEW ill, Proceed(t, from, wrote, ill)
  PROVE  Aside(t)
<1>1. (IF Tail(job[t].todo) # <<>> THEN "open" ELSE AfterScript(t)) \notin Saving
  BY DEF AfterScript, Saving
<1>2. Goes(t, from, IF Tail(job[t].todo) # <<>> THEN "open" ELSE AfterScript(t))
  BY DEF Proceed
<1>3. \E j : job' = [job EXCEPT ![t] = j]
  BY Zenon DEF Proceed
<1> QED
  BY <1>1, <1>2, <1>3, AsideBy

LEMMA AsideAborts ==
  ASSUME Typed, NEW t \in Threads, xfile' = xfile, yfile' = yfile, rivals' = rivals,
         NEW from, Aborts(t, from)
  PROVE  Aside(t)
<1>1. CASE job[t].op = "pipeline"
  <2>1. Goes(t, from, "check") /\ "check" \notin Saving
    BY <1>1 DEF Aborts, Saving
  <2>2. job' = [job EXCEPT ![t] =
                  [job[t] EXCEPT !.todo = <<>>, !.made = Gone, !.flawed = TRUE]]
    BY <1>1 DEF Aborts, Typed
  <2> QED
    BY <2>1, <2>2, AsideBy
<1>2. CASE job[t].op # "pipeline"
  <2>1. Goes(t, from, "idle") /\ "idle" \notin Saving
    BY <1>2 DEF Aborts, Saving
  <2>2. job' = [job EXCEPT ![t] = NoJob]
    BY <1>2 DEF Aborts
  <2> QED
    BY <2>1, <2>2, AsideBy
<1> QED
  BY <1>1, <1>2

LEMMA AsideRequest ==
  ASSUME Typed, NEW t \in Threads, NEW place, place \notin Saving, NEW j, Request(t, place, j)
  PROVE  Aside(t)
<1>1. /\ xfile' = xfile /\ yfile' = yfile /\ rivals' = rivals
      /\ Goes(t, "idle", place) /\ job' = [job EXCEPT ![t] = j]
  BY Zenon DEF Request, others
<1> QED
  BY <1>1, AsideBy

LEMMA AsideAsking ==
  ASSUME Typed, NEW t \in Threads, Asking(t)
  PROVE  Aside(t)
<1>1. \E place \in {"net", "load15", "health", "exists"} : \E j : Request(t, place, j)
  <2>1. CASE Train(t)
    <3>1. PICK fetch \in BOOLEAN, cleanup \in BOOLEAN :
            Request(t, IF fetch THEN "net" ELSE "load15",
              [NoJob EXCEPT !.op = "train", !.fetch = fetch, !.cleanup = cleanup,
                 !.todo = IF fetch THEN fetch_15m_and_agg ELSE <<>>])
      BY <2>1 DEF Train
    <3>2. (IF fetch THEN "net" ELSE "load15") \in {"net", "load15", "health", "exists"}
      OBVIOUS
    <3> QED
      BY <3>1, <3>2, Zenon
  <2>2. CASE Pipeline(t) \/ Hydrate(t) \/ Rest(t)
    <3>1. \E j : Request(t, "net", j)
      BY <2>2, Zenon DEF Pipeline, Hydrate, Rest
    <3> QED
      BY <3>1
  <2>3. CASE Agents(t)
    <3>1. \E place \in {"health", "exists"} : \E j : Request(t, place, j)
      BY <2>3, Zenon DEF Agents
    <3> QED
      BY <3>1
  <2> QED
    BY <2>1, <2>2, <2>3 DEF Asking
<1>2. "net" \notin Saving /\ "load15" \notin Saving /\ "health" \notin Saving /\ "exists" \notin Saving
  BY DEF Saving
<1> QED
  BY <1>1, <1>2, AsideRequest

LEMMA AsideScripts ==
  ASSUME Typed, NEW t \in Threads, Download(t) \/ DownloadFails(t) \/ Writing(t)
  PROVE  Aside(t)
<1>1. xfile' = xfile /\ yfile' = yfile /\ rivals' = rivals
  BY Zenon DEF Download, DownloadFails, Writing, Skip, Stop, Open, Make, Fill, Move,
     Fails, others
<1>2. CASE Download(t)
  <2>1. Goes(t, "net", "open") /\ "open" \notin Saving
    BY <1>2 DEF Download, Saving
  <2>2. job' = [job EXCEPT ![t] = [job[t] EXCEPT !.run = runs']]
    BY <1>2 DEF Download
  <2> QED
    BY <1>1, <2>1, <2>2, AsideBy
<1>3. CASE DownloadFails(t)
  BY <1>1, <1>3, AsideEnds DEF DownloadFails
<1>4. CASE Skip(t) \/ Move(t)
  BY <1>1, <1>4, AsideProceed DEF Skip, Move
<1>5. CASE Stop(t)
  BY <1>1, <1>5, AsideAborts DEF Stop
<1>6. CASE Open(t)
  <2>1. Goes(t, "open", "fill") /\ job' = job /\ "fill" \notin Saving
    BY <1>6, Zenon DEF Open, Saving
  <2> QED
    BY <1>1, <2>1, AsideBy
<1>7. CASE Make(t)
  <2>1. Goes(t, "open", "move") /\ "move" \notin Saving
    BY <1>7 DEF Make, Saving
  <2>2. \E j : job' = [job EXCEPT ![t] = j]
    BY <1>7 DEF Make
  <2> QED
    BY <1>1, <2>1, <2>2, AsideBy
<1>8. CASE Fill(t)
  <2>1. Aborts(t, "fill") \/ \E wrote : Proceed(t, "fill", wrote, FALSE)
    BY <1>8, Zenon DEF Fill
  <2> QED
    BY <1>1, <2>1, AsideAborts, AsideProceed
<1>9. CASE Fails(t)
  <2>1. Aborts(t, pc[t]) \/ Proceed(t, pc[t], {}, TRUE)
    BY <1>9, Zenon DEF Fails
  <2> QED
    BY <1>1, <2>1, AsideAborts, AsideProceed
<1> QED
  BY <1>2, <1>3, <1>4, <1>5, <1>6, <1>7, <1>8, <1>9 DEF Writing

LEMMA AsideOthers ==
  ASSUME Typed, NEW t \in Threads, Training(t) \/ CleanUp(t) \/ Health(t)
  PROVE  Aside(t)
<1>1. xfile' = xfile /\ yfile' = yfile /\ rivals' = rivals
  BY Zenon DEF Training, Check, FillGaps, Load, LoadFrame, AfterTraining, Infer, InferFrame,
     Answer, CleanUp, Health, others
<1>2. \/ \E from : Ends(t, from)
      \/ \E from, to, j : /\ to \notin Saving /\ Goes(t, from, to)
                          /\ job' = job \/ job' = [job EXCEPT ![t] = j]
  <2> DEFINE Steps == \E from, to, j : /\ to \notin Saving /\ Goes(t, from, to)
                                       /\ job' = job \/ job' = [job EXCEPT ![t] = j]
  <2>1. CASE Check(t)
    <3>1. \/ Ends(t, "check")
          \/ Goes(t, "check", "load15") /\ job' = job
          \/ /\ Goes(t, "check", "fetched")
             /\ job' = [job EXCEPT ![t] = [job[t] EXCEPT !.filled = TRUE]]
      BY <2>1 DEF Check
    <3>2. "load15" \notin Saving /\ "fetched" \notin Saving
      BY DEF Saving
    <3> QED
      BY <3>1, <3>2, Zenon
  <2>2. CASE FillGaps(t)
    <3>1. \/ Goes(t, "fetched", "check") /\ job' = job
          \/ /\ Goes(t, "fetched", "open")
             /\ job' = [job EXCEPT ![t] = [job[t] EXCEPT !.todo = fill_gaps]]
      BY <2>2 DEF FillGaps
    <3>2. "check" \notin Saving /\ "open" \notin Saving
      BY DEF Saving
    <3> QED
      BY <3>1, <3>2, Zenon
  <2>3. CASE Load(t) \/ Infer(t)
    <3>1. PICK f, from, to :
            /\ to \in {"load60", "trained", "infer60", "inferred"}
            /\ LoadFrame(t, f, from, to) \/ InferFrame(t, f, from, to)
      BY <2>3, Zenon DEF Load, Infer
    <3>2. \/ Ends(t, from)
          \/ Goes(t, from, to) /\ \E j : job' = [job EXCEPT ![t] = j]
      BY <3>1 DEF LoadFrame, InferFrame
    <3>3. to \notin Saving
      BY <3>1 DEF Saving
    <3> QED
      BY <3>2, <3>3, Zenon
  <2>4. CASE AfterTraining(t) \/ Answer(t)
    <3>1. \/ Ends(t, "trained") \/ Ends(t, "inferred")
          \/ Goes(t, "trained", "infer15") /\ job' = job
          \/ Goes(t, "trained", "rmraw") /\ job' = job
      BY <2>4, Zenon DEF AfterTraining, Answer
    <3>2. "infer15" \notin Saving /\ "rmraw" \notin Saving
      BY DEF Saving
    <3> QED
      BY <3>1, <3>2, Zenon
  <2>5. CASE CleanUp(t) \/ Health(t)
    <3>1. \/ Ends(t, "health")
          \/ Goes(t, "rmraw", "rmclean") /\ job' = job
          \/ Goes(t, "rmclean", "idle") /\ job' = [job EXCEPT ![t] = NoJob]
          \/ Goes(t, "health", "exists") /\ job' = job
      BY <2>5, Zenon DEF CleanUp, Health
    <3>2. "rmclean" \notin Saving /\ "idle" \notin Saving /\ "exists" \notin Saving
      BY DEF Saving
    <3> QED
      BY <3>1, <3>2, Zenon
  <2> QED
    BY <2>1, <2>2, <2>3, <2>4, <2>5 DEF Training
<1> QED
  BY <1>1, <1>2, AsideEnds, AsideBy

LEMMA AsidePairs ==
  ASSUME Paired, NEW t \in Threads, Aside(t)
  PROVE  Paired'
<1> SUFFICES ASSUME ~rivals'
             PROVE  /\ \A u, v \in Threads : pc'[u] \in Saving /\ pc'[v] \in Saving => u = v
                    /\ \A u \in Threads : pc'[u] \in Saving => yfile' = Gone
                    /\ \A u \in Threads : pc'[u] = "savey" => xfile' = job'[u].made
                    /\ yfile' # Gone => xfile' = yfile'
  BY DEF Paired, Saving
<1>1. ~rivals /\ xfile' = xfile /\ yfile' = yfile
  BY DEF Aside
<1>2. \A u \in Threads : pc'[u] \in Saving => pc'[u] = pc[u] /\ job'[u] = job[u]
  BY DEF Aside
<1>3. \A u \in Threads : pc'[u] = "savey" => pc[u] = "savey" /\ job'[u] = job[u]
  BY <1>2 DEF Saving
<1> QED
  BY <1>1, <1>2, <1>3 DEF Paired, Saving

\* The builder is alone, and as long as it builds there is no y.
LEMMA ExistsPairs ==
  ASSUME Typed, Paired, NEW t \in Threads, Exists(t)
  PROVE  Paired'
<1> DEFINE missing == xfile = Gone \/ yfile = Gone
<1>1. xfile' = xfile /\ yfile' = yfile
  BY Zenon DEF Exists
<1>2. rivals' = (rivals \/ (missing /\ \E u \in Threads \ {t} : pc[u] \in Saving))
  BY DEF Exists, Saving
<1>3. \A u \in Threads \ {t} : pc'[u] = pc[u] /\ job'[u] = job[u]
  BY DEF Exists, Ends, Goes, Typed
<1>4. \/ pc'[t] = "idle"
      \/ pc'[t] = "loading" /\ missing
  BY DEF Exists, Ends, Goes, Typed
<1> SUFFICES ASSUME ~rivals'
             PROVE  /\ \A u, v \in Threads : pc'[u] \in Saving /\ pc'[v] \in Saving => u = v
                    /\ \A u \in Threads : pc'[u] \in Saving => yfile' = Gone
                    /\ \A u \in Threads : pc'[u] = "savey" => xfile' = job'[u].made
                    /\ yfile' # Gone => xfile' = yfile'
  BY DEF Paired, Saving
<1>5. ~rivals /\ (missing => \A u \in Threads \ {t} : pc'[u] \notin Saving)
  BY <1>2, <1>3
<1>6. /\ \A u, v \in Threads : pc[u] \in Saving /\ pc[v] \in Saving => u = v
      /\ \A u \in Threads : pc[u] \in Saving => yfile = Gone
      /\ \A u \in Threads : pc[u] = "savey" => xfile = job[u].made
      /\ yfile # Gone => xfile = yfile
  BY <1>5 DEF Paired
<1>7. CASE pc'[t] = "idle"
  <2>1. \A u \in Threads : pc'[u] \in Saving \/ pc'[u] = "savey" => u # t
    BY <1>7 DEF Saving
  <2> QED
    BY <1>1, <1>3, <1>6, <2>1
<1>8. CASE pc'[t] = "loading" /\ missing
  <2>1. \A u \in Threads : pc'[u] \in Saving \/ pc'[u] = "savey" => u = t
    BY <1>5, <1>8 DEF Saving
  <2>2. pc'[t] # "savey" /\ yfile = Gone
    BY <1>6, <1>8
  <2> QED
    BY <1>1, <1>6, <2>1, <2>2
<1> QED
  BY <1>4, <1>7, <1>8

LEMMA BuildPairs ==
  ASSUME Typed, Paired, NEW t \in Threads, Build(t)
  PROVE  Paired'
<1>1. xfile' = xfile /\ yfile' = yfile /\ rivals' = rivals
  BY Zenon DEF Build, others
<1>2. pc[t] = "loading" /\ pc'[t] \in {"savex", "idle"}
  BY DEF Build, Ends, Goes, Typed
<1>3. \A u \in Threads \ {t} : pc'[u] = pc[u] /\ job'[u] = job[u]
  BY DEF Build, Ends, Goes, Typed
<1>4. \A u \in Threads : pc'[u] \in Saving => pc[u] \in Saving
  BY <1>2, <1>3 DEF Saving
<1>5. \A u \in Threads : pc'[u] = "savey" => pc[u] = "savey" /\ job'[u] = job[u]
  BY <1>2, <1>3
<1> QED
  BY <1>1, <1>4, <1>5 DEF Paired

LEMMA SaveXPairs ==
  ASSUME Typed, Paired, NEW t \in Threads, SaveX(t)
  PROVE  Paired'
<1>1. xfile' = job[t].made /\ yfile' = yfile /\ rivals' = rivals /\ job' = job
  BY Zenon DEF SaveX
<1>2. /\ pc[t] = "savex" /\ pc'[t] = "savey"
      /\ \A u \in Threads \ {t} : pc'[u] = pc[u]
  BY DEF SaveX, Goes, Typed
<1> SUFFICES ASSUME ~rivals'
             PROVE  /\ \A u, v \in Threads : pc'[u] \in Saving /\ pc'[v] \in Saving => u = v
                    /\ \A u \in Threads : pc'[u] \in Saving => yfile' = Gone
                    /\ \A u \in Threads : pc'[u] = "savey" => xfile' = job'[u].made
                    /\ yfile' # Gone => xfile' = yfile'
  BY DEF Paired, Saving
<1>3. /\ \A u, v \in Threads : pc[u] \in Saving /\ pc[v] \in Saving => u = v
      /\ \A u \in Threads : pc[u] \in Saving => yfile = Gone
  BY <1>1 DEF Paired, Saving
<1>4. yfile = Gone /\ \A u \in Threads \ {t} : pc[u] \notin Saving
  BY <1>2, <1>3 DEF Saving
<1> QED
  BY <1>1, <1>2, <1>4 DEF Saving

LEMMA SaveYPairs ==
  ASSUME Typed, Paired, NEW t \in Threads, SaveY(t)
  PROVE  Paired'
<1>1. yfile' = job[t].made /\ xfile' = xfile /\ rivals' = rivals
  BY Zenon DEF SaveY
<1>2. /\ pc[t] = "savey" /\ pc'[t] = "idle"
      /\ \A u \in Threads \ {t} : pc'[u] = pc[u]
  BY DEF SaveY, Ends, Goes, Typed
<1> SUFFICES ASSUME ~rivals'
             PROVE  /\ \A u \in Threads : pc'[u] \notin Saving
                    /\ xfile' = yfile'
  BY DEF Paired, Saving
<1>3. /\ \A u, v \in Threads : pc[u] \in Saving /\ pc[v] \in Saving => u = v
      /\ \A u \in Threads : pc[u] = "savey" => xfile = job[u].made
  BY <1>1 DEF Paired, Saving
<1>4. \A u \in Threads \ {t} : pc[u] \notin Saving
  BY <1>2, <1>3 DEF Saving
<1> QED
  BY <1>1, <1>2, <1>3, <1>4 DEF Saving

LEMMA PairedStep == Typed /\ Paired /\ [Next]_vars => Paired'
<1> SUFFICES ASSUME Typed, Paired, [Next]_vars
             PROVE  Paired'
  OBVIOUS
<1>1. CASE UNCHANGED vars
  BY <1>1 DEF vars, Paired
<1>2. CASE Kill
  <2>1. /\ xfile' = xfile /\ yfile' = yfile /\ rivals' = rivals
        /\ pc' = [t \in Threads |-> "idle"]
    BY <1>2, Zenon DEF Kill, others
  <2>2. \A t \in Threads : pc'[t] = "idle"
    BY <2>1
  <2>3. ~rivals => (yfile # Gone => xfile = yfile)
    BY DEF Paired
  <2> QED
    BY <2>1, <2>2, <2>3 DEF Paired, Saving
<1>3. ASSUME NEW t \in Threads,
             \/ Asking(t) \/ Download(t) \/ DownloadFails(t) \/ Writing(t)
             \/ Training(t) \/ CleanUp(t) \/ Caching(t)
      PROVE  Paired'
  <2>1. CASE Exists(t) \/ Build(t) \/ SaveX(t) \/ SaveY(t)
    BY <2>1, ExistsPairs, BuildPairs, SaveXPairs, SaveYPairs
  <2>2. CASE ~(Exists(t) \/ Build(t) \/ SaveX(t) \/ SaveY(t))
    <3>1. Aside(t)
      BY <1>3, <2>2, AsideAsking, AsideScripts, AsideOthers DEF Caching
    <3> QED
      BY <3>1, AsidePairs
  <2> QED
    BY <2>1, <2>2
<1> QED
  BY <1>1, <1>2, <1>3 DEF Next

LEMMA XyTypedStep == Typed /\ XyTyped /\ [Next]_vars => XyTyped'
<1> SUFFICES ASSUME Typed, XyTyped, [Next]_vars
             PROVE  XyTyped'
  OBVIOUS
<1>1. \A t \in Threads : job[t].made \in Content
  BY DEF Typed, Jobs
<1>2. CASE UNCHANGED vars
  BY <1>2 DEF vars, XyTyped
<1>3. CASE Kill
  <2>1. xfile' = xfile /\ yfile' = yfile /\ rivals' = rivals
    BY <1>3, Zenon DEF Kill, others
  <2> QED
    BY <2>1 DEF XyTyped
<1>4. ASSUME NEW t \in Threads,
             \/ Asking(t) \/ Download(t) \/ DownloadFails(t) \/ Writing(t)
             \/ Training(t) \/ CleanUp(t) \/ Caching(t)
      PROVE  XyTyped'
  <2>1. CASE Exists(t)
    <3>1. xfile' = xfile /\ yfile' = yfile
      BY <2>1, Zenon DEF Exists
    <3>2. rivals' \in BOOLEAN
      BY <2>1 DEF Exists
    <3> QED
      BY <3>1, <3>2 DEF XyTyped
  <2>5. CASE Build(t)
    <3>1. xfile' = xfile /\ yfile' = yfile /\ rivals' = rivals
      BY <2>5, Zenon DEF Build, others
    <3> QED
      BY <3>1 DEF XyTyped
  <2>2. CASE SaveX(t)
    <3>1. xfile' = job[t].made /\ yfile' = yfile /\ rivals' = rivals
      BY <2>2, Zenon DEF SaveX
    <3> QED
      BY <1>1, <3>1 DEF XyTyped
  <2>3. CASE SaveY(t)
    <3>1. yfile' = job[t].made /\ xfile' = xfile /\ rivals' = rivals
      BY <2>3, Zenon DEF SaveY
    <3> QED
      BY <1>1, <3>1 DEF XyTyped
  <2>4. CASE ~(Exists(t) \/ Build(t) \/ SaveX(t) \/ SaveY(t))
    <3>1. Aside(t)
      BY <1>4, <2>4, AsideAsking, AsideScripts, AsideOthers DEF Caching
    <3> QED
      BY <3>1 DEF Aside, XyTyped
  <2> QED
    BY <2>1, <2>2, <2>3, <2>4, <2>5
<1> QED
  BY <1>2, <1>3, <1>4 DEF Next

\* Only Fails counts failures, up to their bound.
Counted == faults \in 0..MaxFaults

LEMMA CountedStep == Counted /\ [Next]_vars => Counted'
<1> SUFFICES ASSUME Counted, [Next]_vars
             PROVE  Counted'
  OBVIOUS
<1>1. CASE \E t \in Threads : Fails(t)
  <2>1. faults < MaxFaults /\ faults' = faults + 1
    BY <1>1 DEF Fails
  <2> QED
    BY <2>1, FilesConstants DEF Counted
<1>2. CASE ~\E t \in Threads : Fails(t)
  <2>1. CASE UNCHANGED vars \/ Kill
    BY <2>1, Zenon DEF vars, Kill, others, Counted
  <2>2. ASSUME NEW t \in Threads,
               \/ Asking(t) \/ Download(t) \/ DownloadFails(t)
               \/ Writing(t) /\ ~Fails(t)
               \/ Training(t) \/ CleanUp(t) \/ Caching(t)
        PROVE  faults' = faults
    <3>1. CASE Asking(t)
      BY <3>1, Zenon DEF Asking, Train, Pipeline, Hydrate, Rest, Agents, Request, others
    <3>2. CASE Download(t) \/ DownloadFails(t) \/ (Writing(t) /\ ~Fails(t))
      BY <3>2, Zenon DEF Download, DownloadFails, Writing, Skip, Stop, Open, Make, Fill, Move, others
    <3>3. CASE Training(t)
      BY <3>3, Zenon DEF Training, Check, FillGaps, Load, LoadFrame, AfterTraining, Infer,
         InferFrame, Answer, others
    <3>4. CASE CleanUp(t) \/ Caching(t)
      BY <3>4, Zenon DEF CleanUp, Caching, Health, Exists, Build, SaveX, SaveY, others
    <3> QED
      BY <2>2, <3>1, <3>2, <3>3, <3>4
  <2> QED
    BY <1>2, <2>1, <2>2, Zenon DEF Next, Counted
<1> QED
  BY <1>1, <1>2

LEMMA PairsInit == Init => Paired /\ XyTyped
<1> SUFFICES ASSUME Init
             PROVE  Paired /\ XyTyped
  OBVIOUS
<1>1. xfile = Gone /\ yfile = Gone /\ rivals = FALSE /\ \A t \in Threads : pc[t] = "idle"
  BY DEF Init
<1>2. Paired
  BY <1>1 DEF Paired, Saving
<1>3. XyTyped
  BY <1>1, ContentsAre DEF XyTyped
<1> QED
  BY <1>2, <1>3

LEMMA FaultsAreCounted == Spec => []Counted
<1>1. Init => Counted
  BY FilesConstants DEF Init, Counted
<1> QED
  BY <1>1, CountedStep, PTL DEF Spec

LEMMA PairsAreKept == Spec => [](Typed /\ Paired /\ XyTyped)
<1>1. Spec => []Typed
  BY FilesAreKept, PTL
<1>2. Typed /\ (Paired /\ XyTyped) /\ [Next]_vars => (Paired /\ XyTyped)'
  BY PairedStep, XyTypedStep
<1> QED
  BY <1>1, <1>2, PairsInit, PTL DEF Spec

-----------------------------------------------------------------------------
(* The theorems                                                            *)

(* The types of all variables, and that no clean file ever gets the seven  *)
(* columns of a raw one, whoever writes it.                                *)
THEOREM TypeCorrect == Spec => []TypeOK
<1>1. Typed /\ XyTyped /\ Counted => TypeOK
  <2> SUFFICES ASSUME Typed, XyTyped, Counted
               PROVE  TypeOK
    OBVIOUS
  <2>1. \A t \in Threads :
          /\ job[t].op \in ops \cup {"none"} /\ job[t].run \in 0..MaxRuns
          /\ job[t].wrote \subseteq Names /\ job[t].made \in Content
          /\ job[t].loaded \in [Frames -> Content] /\ job[t].flawed \in BOOLEAN
          /\ job[t].flawed => job[t].op # "train"
    BY JobIs DEF Typed, AtWork, Candid
  <2> QED
    BY <2>1 DEF Typed, XyTyped, Counted, Stored, TypeOK
<1> QED
  BY <1>1, PairsAreKept, FaultsAreCounted, PTL

(* A request that fetched trains, in every frame, on all rows of its own   *)
(* download, and the pipeline's snapshot looks at the same (train.cpp,     *)
(* pipeline.cpp and the scripts they run): with any number of threads,     *)
(* kills, and writes and scripts that fail at any place.  The exceptions   *)
(* are those of the property: a file the request still needed was changed  *)
(* by somebody else, or a step of a pipeline's own failed unnoticed.       *)
THEOREM TrainsOnPrepared == Spec => []TrainedOnPrepared
<1>1. Typed /\ Prepared => TrainedOnPrepared
  <2> SUFFICES ASSUME Typed, Prepared, NEW t \in Threads, pc[t] \in {"trained", "inferred"},
                      job[t].fetch, t \notin upset, job[t].op = "pipeline" => ~job[t].flawed,
                      NEW f \in Frames
               PROVE  Good(job[t].loaded[f], job[t].run)
    BY DEF TrainedOnPrepared, Good
  <2>1. Steady(job[t])
    BY DEF Typed, AtWork, Candid, Steady
  <2>2. Undisturbed(files, pc[t], job[t])
    BY <2>1 DEF Prepared
  <2>3. f = "15" \/ f = "60"
    BY DEF Frames
  <2> QED
    BY <2>2, <2>3 DEF Undisturbed
<1> QED
  BY <1>1, FilesAreKept, PTL

(* X and y fit each other whenever both are there and no two requests      *)
(* built them at the same time (utils_data.cpp, load_cached_xy), whatever  *)
(* was killed between the two saves.                                       *)
THEOREM XyFitTogether == Spec => []XyFits
<1>1. Paired => XyFits
  BY DEF Paired, XyFits
<1> QED
  BY <1>1, PairsAreKept, PTL

===============================================================================
