----------------------------- MODULE CandleCache -----------------------------
(***************************************************************************)
(* The candle file of one symbol and interval, and the calls of            *)
(* backfill_last_months (src/src/utils.h) that page through the exchange's *)
(* history, merge what they got into the file, trim and rewrite it.  The   *)
(* hydrate worker makes one call at a time; GET /api/backfill makes one in *)
(* every HTTP thread.  Steps: one page, the reading of the file with the   *)
(* merge in memory, the truncation of the file, the writing of it.         *)
(*                                                                         *)
(* write_cache looks at no error: the file may not open, and a write may   *)
(* end anywhere, with the last row half written.  Of two writers that have *)
(* the file open the later one's rows go over those of the first; that     *)
(* their buffers may take turns in the middle is left out.                 *)
(*                                                                         *)
(* Time runs in units of which a candle lasts Frame, so that a window      *)
(* need not begin where a candle does.                                     *)
(***************************************************************************)
EXTENDS Integers, FiniteSets

CONSTANTS
  Callers,                (* threads that call backfill_last_months        *)
  Frame,                  (* length of a candle                            *)
  Limit,                  (* the 1000 candles of a page                    *)
  Spans,                  (* span_ms of the calls                          *)
  Start, Horizon,         (* bounds: the clock goes from Start to Horizon  *)
  MaxCalls,               (* bound: calls made                             *)
  Keeps,                  (* which candles of a window that has too many   *)
                          (* the exchange may send: "oldest", "newest"     *)
  BadRows,                (* TRUE: the exchange may send rows that cannot  *)
                          (* be read, or no list                           *)
  WritesFail,             (* TRUE: the file may not open, or be cut short  *)
  Kills                   (* TRUE: the process may be killed               *)

ASSUME CacheConstants ==
  /\ Frame \in Nat \ {0} /\ Limit \in Nat \ {0}
  /\ Start \in Nat /\ Horizon \in Nat /\ Start <= Horizon /\ MaxCalls \in Nat
  /\ Spans \subseteq 1..Start
  /\ Keeps \subseteq {"oldest", "newest"} /\ Keeps # {}
  /\ BadRows \in BOOLEAN /\ WritesFail \in BOOLEAN /\ Kills \in BOOLEAN

VARIABLES
  clock,                  (* the time                                      *)
  listed,                 (* the candles the exchange has, by opening time *)
  file,                   (* cache/<symbol>_<interval>.csv                 *)
  pc, call,               (* a caller's place and its locals               *)
  calls,                  (* calls made                                    *)
  kept,                   (* history: candles saved and not trimmed since  *)
  lost                    (* history: of these, the ones that a write cut  *)
                          (* short has cost, or one by a call that had     *)
                          (* read the file before they were saved          *)

vars == <<clock, listed, file, pc, call, calls, kept, lost>>

Times   == {t \in 0..Horizon : t % Frame = 0}
Nothing == [t \in {} |-> "final"]     \* a file or vector without candles

\* What a row says: a candle that is still forming, or what it ended as; in
\* the file also "torn", a row that was written in part.
ValueOf(t) == IF t + Frame <= clock THEN "final" ELSE "partial"

\* The last four are histories: what the exchange cut off a full page, what
\* it sent in rows too short to be counted, what others have saved since the
\* file was read, and whether the file may be another than was written.
NoCall == [since |-> 0, now |-> 0, cursor |-> 0, last_ts_seen |-> -1,
           rows |-> Nothing, back |-> -1, skipped |-> FALSE, merged |-> Nothing,
           cut |-> {}, dropped |-> {}, missed |-> {}, spoiled |-> FALSE]

Init ==
  /\ clock = Start
  /\ listed \in SUBSET Times
  /\ file = Nothing
  /\ pc = [c \in Callers |-> "idle"]
  /\ call = [c \in Callers |-> NoCall]
  /\ calls = 0
  /\ kept = {}
  /\ lost = {}

Goes(c, from, to) == pc[c] = from /\ pc' = [pc EXCEPT ![c] = to]

\* The rows of g in front of those of f.
Over(g, f) ==
  [t \in DOMAIN f \cup DOMAIN g |-> IF t \in DOMAIN g THEN g[t] ELSE f[t]]

\* Mutant: upper_bound for lower_bound.
FromAfter(since, f) == [t \in {u \in DOMAIN f : u > since} |-> f[t]]

\* The trim.
From(since, f) == [t \in {u \in DOMAIN f : u >= since} |-> f[t]]

-----------------------------------------------------------------------------
\* GET /v5/market/kline: at most Limit candles of the window.
Window(start, end) == {t \in listed : start <= t /\ t <= end /\ t <= clock}
Page(window, keep) ==
  LET first(t) == {u \in window : IF keep = "oldest" THEN u < t ELSE u > t} IN
  {t \in window : Cardinality(first(t)) < Limit}

LatestOf(S) == CHOOSE t \in S : \A u \in S : u <= t

\* The window is fixed when the call begins.
Begin(c) ==
  /\ calls < MaxCalls
  /\ calls' = calls + 1
  /\ Goes(c, "idle", "page")
  /\ \E span \in Spans :
       call' = [call EXCEPT ![c] = [NoCall EXCEPT
                  !.since = clock - span, !.now = clock, !.cursor = clock - span]]
  /\ UNCHANGED <<clock, listed, file, kept, lost>>

\* Mutant: the cursor waits for a page that brings something new.
StepWaits(b) ==
  CASE b.rows = Nothing -> [b EXCEPT !.cursor = @ + Frame * Limit]
    [] b.rows # Nothing /\ b.back <= b.last_ts_seen -> b
    [] OTHER -> [b EXCEPT !.last_ts_seen = b.back, !.cursor = b.back + Frame]

\* Mutant: the next window begins one candle too late.
StepLeaps(b) ==
  CASE b.rows = Nothing -> [b EXCEPT !.cursor = @ + Frame * Limit]
    [] b.rows # Nothing /\ b.back <= b.last_ts_seen -> [b EXCEPT !.cursor = @ + Frame]
    [] OTHER -> [b EXCEPT !.last_ts_seen = b.back, !.cursor = b.back + 2 * Frame]

\* Mutant: the last candle is recorded as the place where the next begins.
StepAhead(b) ==
  CASE b.rows = Nothing -> [b EXCEPT !.cursor = @ + Frame * Limit]
    [] b.rows # Nothing /\ b.back <= b.last_ts_seen -> [b EXCEPT !.cursor = @ + Frame]
    [] OTHER -> [b EXCEPT !.last_ts_seen = b.back + Frame, !.cursor = b.back + Frame]

\* Where the next window begins, once a page has been appended.
Step(b) ==
  CASE b.rows = Nothing -> [b EXCEPT !.cursor = @ + Frame * Limit]
    [] b.rows # Nothing /\ b.back <= b.last_ts_seen -> [b EXCEPT !.cursor = @ + Frame]
    [] OTHER -> [b EXCEPT !.last_ts_seen = b.back, !.cursor = b.back + Frame]

\* One page that the exchange answers; a request it does not answer changes
\* nothing and is made again, for ever if need be.
FetchPage(c) ==
  LET b      == call[c]
      full   == b.cursor + Frame * Limit
      window == Window(b.cursor, IF full <= b.now THEN full ELSE b.now) IN
  /\ b.cursor < b.now
  /\ Goes(c, "page", "page")
  /\ \E keep \in Keeps :
       LET page == Page(window, keep) IN
       \E good \in IF BadRows THEN SUBSET page ELSE {page} :
       \E counted \in IF good = page THEN {FALSE} ELSE BOOLEAN :
         call' = [call EXCEPT ![c] = Step([b EXCEPT
                    !.rows = Over([t \in good |-> ValueOf(t)], b.rows),
                    !.back = IF good = {} THEN b.back ELSE LatestOf(good),
                    !.skipped = b.skipped \/ counted,
                    !.cut = IF keep = "newest" THEN b.cut \cup (window \ page) ELSE b.cut,
                    !.dropped = b.dropped \cup (page \ good)])]
  /\ UNCHANGED <<clock, listed, file, calls, kept, lost>>

-----------------------------------------------------------------------------
\* What is written of these rows if the writing ends anywhere.
Torn(merged) ==
  LET upto(t) == {u \in DOMAIN merged : u <= t} IN
  {Nothing}
    \cup {[u \in upto(t) |-> merged[u]] : t \in DOMAIN merged}
    \cup {[u \in upto(t) |-> IF u = t THEN "torn" ELSE merged[u]] : t \in DOMAIN merged}

\* A writer's file if it has come anywhere in its rows: what another has
\* written since the truncation is there from that place on.
Tails(f) == {[u \in {v \in DOMAIN f : v >= t} |-> f[u]] : t \in DOMAIN f} \cup {Nothing}
Anywhere(f, merged) == {Over(tail, head) : tail \in Tails(f), head \in Torn(merged)}

Writers == {c \in Callers : pc[c] = "write"}

\* What a reader may find, or a kill leave.
Seen ==
  IF Writers = {} THEN {file} ELSE UNION {Anywhere(file, call[c].merged) : c \in Writers}

\* Whoever has the file open, or is about to answer, no longer knows it.
Spoil(c, b) ==
  [d \in Callers |->
     CASE d = c -> b
       [] d # c /\ pc[d] \in {"write", "reply"} -> [call[d] EXCEPT !.spoiled = TRUE]
       [] OTHER -> call[d]]

\* read_cache, the merge and the trim; all in memory.
Merge(c) ==
  LET b == call[c] IN
  /\ b.cursor >= b.now
  /\ Goes(c, "page", "open")
  /\ \E seen \in Seen :
       call' = [call EXCEPT ![c].merged = From(b.since, Over(b.rows, seen))]
  /\ UNCHANGED <<clock, listed, file, calls, kept, lost>>

\* write_cache: the stream is opened with trunc ...
Truncate(c) ==
  /\ Goes(c, "open", "write")
  /\ file' = Nothing
  /\ call' = Spoil(c, call[c])
  /\ kept' = {t \in kept : t >= call[c].since}
  /\ UNCHANGED <<clock, listed, calls, lost>>

\* ... or is not; then nothing that is put into it has an effect ...
OpenFails(c) ==
  /\ WritesFail
  /\ Goes(c, "open", "reply")
  /\ call' = [call EXCEPT ![c].spoiled = TRUE]
  /\ UNCHANGED <<clock, listed, file, calls, kept, lost>>

\* ... and the rows are written in the order of time, all or the first ones.
Write(c) ==
  LET b    == call[c]
      told == [d \in Callers |->
                 IF d # c /\ pc[d] \in {"open", "write"}
                 THEN [Spoil(c, b)[d] EXCEPT !.missed = @ \cup DOMAIN file']
                 ELSE Spoil(c, b)[d]] IN
  /\ Goes(c, "write", "reply")
  /\ \/ /\ file' \in {Over(tail, b.merged) : tail \in Tails(file)}
        /\ call' = told
     \/ /\ WritesFail
        /\ file' \in Anywhere(file, b.merged)
        /\ call' = [told EXCEPT ![c].spoiled = TRUE]
  /\ kept' = kept \cup DOMAIN file'
  /\ lost' = (lost \cup b.missed \cup DOMAIN b.merged) \ DOMAIN file'
  /\ UNCHANGED <<clock, listed, calls>>

\* ok unless rows were skipped.
Return(c) ==
  /\ Goes(c, "reply", "idle")
  /\ call' = [call EXCEPT ![c] = NoCall]
  /\ UNCHANGED <<clock, listed, file, calls, kept, lost>>

\* The process is killed.
Kill ==
  /\ Kills
  /\ file' \in Seen
  /\ lost' = (lost \cup UNION {call[c].missed \cup DOMAIN call[c].merged : c \in Writers})
               \ DOMAIN file'
  /\ pc' = [c \in Callers |-> "idle"]
  /\ call' = [c \in Callers |-> NoCall]
  /\ UNCHANGED <<clock, listed, calls, kept>>

Tick ==
  /\ clock < Horizon
  /\ clock' = clock + 1
  /\ UNCHANGED <<listed, file, pc, call, calls, kept, lost>>

CallStep(c) ==
  FetchPage(c) \/ Merge(c) \/ Truncate(c) \/ OpenFails(c) \/ Write(c) \/ Return(c)

Next ==
  \/ \E c \in Callers : Begin(c) \/ CallStep(c)
  \/ Kill
  \/ Tick

Spec == Init /\ [][Next]_vars

\* The exchange answers in the end.
LiveSpec == Spec /\ \A c \in Callers : WF_vars(CallStep(c))

-----------------------------------------------------------------------------
(* Properties *)

IsCandles(f) ==
  /\ DOMAIN f \subseteq Times
  /\ \A t \in DOMAIN f : f[t] \in {"partial", "final", "torn"}

TypeOK ==
  /\ clock \in Start..Horizon
  /\ listed \subseteq Times
  /\ IsCandles(file)
  /\ pc \in [Callers -> {"idle", "page", "open", "write", "reply"}]
  /\ \A c \in Callers :
       LET b == call[c] IN
       /\ {b.since, b.now, b.cursor} \subseteq Nat
       /\ {b.last_ts_seen, b.back} \subseteq Times \cup {-1}
       /\ IsCandles(b.rows) /\ IsCandles(b.merged)
       /\ b.cut \cup b.dropped \cup b.missed \subseteq Times
       /\ {b.skipped, b.spoiled} \subseteq BOOLEAN
  /\ calls \in 0..MaxCalls
  /\ kept \cup lost \subseteq Times

\* A call about to answer ok whose write took place, and after which nobody
\* else has touched the file.
Succeeds(c) == pc[c] = "reply" /\ ~call[c].skipped /\ ~call[c].spoiled

\* What the exchange has of the window and has sent in rows that count.
Expected(b) == {t \in listed : b.since <= t /\ t < b.now} \ b.dropped

(* Such a call has saved every candle that the exchange had of its window, *)
(* but for those cut off a full page, however the pages fell and whatever  *)
(* other calls, failed writes or a kill had left in the file when it read. *)
WindowComplete ==
  \A c \in Callers :
    Succeeds(c) => Expected(call[c]) \ call[c].cut \subseteq DOMAIN file

(* A candle saved while it was forming, or half written, has been replaced *)
(* by what it became, unless it is forming still.                          *)
NoStaleCandle ==
  \A c \in Callers :
    Succeeds(c) =>
      \A t \in DOMAIN file \ (call[c].cut \cup call[c].dropped) :
        /\ file[t] = "partial" => t + Frame > call[c].now
        /\ file[t] = "torn"    => t >= call[c].now

(* If the exchange cuts the oldest candles off a window that has too many, *)
(* which is one from the second page on, no two neighbours are ever lost.  *)
GapsAreSingle ==
  \A c \in Callers :
    Succeeds(c) =>
      LET gaps == Expected(call[c]) \ DOMAIN file IN
      \A t \in gaps : t + Frame \notin gaps

(* What "ok" means if the write took place: the window is there, up to     *)
(* what the exchange withheld, and no candle is older than what it became. *)
SuccessMeansSaved == WindowComplete /\ NoStaleCandle /\ GapsAreSingle

(* Unless the file is truncated at this moment it has every candle that    *)
(* was ever saved and not trimmed, but for what calls cost that overlapped *)
(* and writes that were cut short: merging and trimming lose nothing, and  *)
(* an overlap costs no more than what was saved after the file was read.   *)
SavedStays == Writers = {} => kept \subseteq DOMAIN file \cup lost

\* A call returns if the exchange answers: the cursor never stands still.
CallReturns == \A c \in Callers : (pc[c] = "page") ~> (pc[c] = "idle")

==============================================================================
