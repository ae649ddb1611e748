--------------------------- MODULE CandleCacheProofs ---------------------------
(***************************************************************************)
(* Proofs about the candle cache (CandleCache), for any length of a candle *)
(* and of a page, any windows, any clock, any number of callers and calls, *)
(* kills, failed writes and unreadable rows: the types, that a successful  *)
(* call has saved what it promises, and that what was saved stays unless   *)
(* calls overlap or a write is cut short.                                  *)
(***************************************************************************)
EXTENDS CandleCache, FiniteSetTheorems, WellFoundedInduction, TLAPS

-----------------------------------------------------------------------------
(* The inductive invariants                                                *)

Marks == {"partial", "final", "torn"}

Candles == UNION {[S -> Marks] : S \in SUBSET Times}

Locals ==
  [since : Nat, now : Nat, cursor : Nat, last_ts_seen : Times \cup {-1},
   rows : Candles, back : Times \cup {-1}, skipped : BOOLEAN, merged : Candles,
   cut : SUBSET Times, dropped : SUBSET Times, missed : SUBSET Times,
   spoiled : BOOLEAN]

Typed ==
  /\ clock \in Start..Horizon
  /\ listed \subseteq Times
  /\ file \in Candles
  /\ pc \in [Callers -> {"idle", "page", "open", "write", "reply"}]
  /\ call \in [Callers -> Locals]
  /\ calls \in 0..MaxCalls
  /\ kept \subseteq Times /\ lost \subseteq Times

\* What a call has after some pages.  Before its cursor it has every candle
\* that was sent in a row that counts and could be read, but for those cut
\* off a page that was too full: of these it has been sent the next one.  A
\* candle that it saw forming was forming when the call began.  The cursor is
\* past the last candle seen.
Paged(b) ==
  /\ b.now <= clock
  /\ b.back = b.last_ts_seen /\ b.last_ts_seen < b.cursor
  /\ DOMAIN b.rows \subseteq listed
  /\ \A t \in DOMAIN b.rows :
       /\ b.rows[t] # "torn"
       /\ b.rows[t] = "partial" => t + Frame > b.now
  /\ ~b.skipped =>
       \A t \in listed :
         /\ b.since <= t /\ t < b.now /\ t < b.cursor
         /\ t \notin DOMAIN b.rows \cup b.dropped
         => t \in b.cut /\ t + Frame \in DOMAIN b.rows \cup b.dropped

\* What it has merged is as complete, and as fresh.
Saves(b) ==
  /\ DOMAIN b.merged \subseteq listed
  /\ ~b.skipped =>
       /\ \A t \in Expected(b) \ DOMAIN b.merged :
            t \in b.cut /\ t + Frame \in DOMAIN b.merged \cup b.dropped
       /\ \A t \in DOMAIN b.merged \ (b.cut \cup b.dropped) :
            /\ b.merged[t] = "partial" => t + Frame > b.now
            /\ b.merged[t] = "torn"    => t >= b.now

Merging(c) == pc[c] \in {"open", "write", "reply"}

Progress ==
  /\ Typed
  /\ DOMAIN file \subseteq listed
  /\ \A c \in Callers : Paged(call[c]) /\ (Merging(c) => Saves(call[c]))

\* Unless something came between, the file of a call that is about to write
\* is empty and that of one about to answer is what it merged.
Written ==
  \A c \in Callers :
    ~call[c].spoiled =>
      /\ pc[c] = "write" => file = Nothing
      /\ pc[c] = "reply" => file = call[c].merged

\* What a writer puts into the file or, if it does not, has cost.
Held(b) == DOMAIN b.merged \cup b.missed

Pending(t) == \E c \in Writers : t \in Held(call[c])

\* What was saved is in the file, has been lost, or depends on a writer; so
\* it will for a call that is about to truncate the file, unless it trims it;
\* and what is in a file being written was saved after the writer had read.
Kept ==
  /\ \A t \in kept : t \in DOMAIN file \cup lost \/ Pending(t)
  /\ \A c \in Callers :
       pc[c] = "open" =>
         \A t \in kept :
           t >= call[c].since => t \in Held(call[c]) \cup lost \/ Pending(t)
  /\ \A c \in Writers : DOMAIN file \subseteq call[c].missed

-----------------------------------------------------------------------------
(* Times                                                                   *)

LEMMA Multiple ==
  ASSUME NEW a \in Nat, a % Frame = 0
  PROVE  \E k \in Nat : a = Frame * k
<1> DEFINE k == a \div Frame
<1>1. Frame \in Nat /\ Frame > 0
  BY CacheConstants
<1>2. k \in Nat /\ a = Frame * k + (a % Frame)
  BY <1>1
<1> HIDE DEF k
<1>3. Frame * k \in Nat
  BY <1>1, <1>2
<1> QED
  BY <1>2, <1>3

\* Of two candles the later one opens at least a candle's length later.
LEMMA CandlesApart ==
  ASSUME NEW a \in Nat, NEW b \in Nat, a % Frame = 0, b % Frame = 0, a < b
  PROVE  a + Frame <= b
<1>1. Frame \in Nat /\ Frame > 0
  BY CacheConstants
<1>2. PICK k \in Nat : a = Frame * k
  BY Multiple
<1>3. PICK m \in Nat : b = Frame * m
  BY Multiple
<1>4. k + 1 <= m
  <2>1. CASE m <= k
    <3>1. Frame * m <= Frame * k
      BY <2>1, <1>1
    <3> QED
      BY <3>1, <1>2, <1>3, <1>1
  <2> QED
    BY <2>1
<1>5. Frame * (k + 1) <= Frame * m
  BY <1>1, <1>4
<1> QED
  BY <1>1, <1>2, <1>3, <1>5

LEMMA Earliest ==
  ASSUME NEW S \in SUBSET Nat, S # {}
  PROVE  \E t \in S : \A u \in S : t <= u
<1>1. PICK t \in S : \A u \in S : ~(<<u, t>> \in OpToRel(<, Nat))
  BY WFMin, NatLessThanWellFounded
<1>2. \A u \in S : ~(u < t)
  BY <1>1 DEF OpToRel
<1> QED
  BY <1>2

LEMMA LatestExists ==
  ASSUME NEW n \in Nat, NEW S \in SUBSET (0..n), S # {}
  PROVE  \E t \in S : \A u \in S : u <= t
<1> DEFINE R == {n - t : t \in S}
<1>1. R \in SUBSET Nat /\ R # {}
  OBVIOUS
<1>2. PICK r \in R : \A s \in R : r <= s
  BY <1>1, Earliest
<1>3. PICK t \in S : r = n - t
  BY <1>2
<1>4. \A u \in S : n - t <= n - u
  BY <1>2, <1>3
<1> QED
  BY <1>4

\* At most k candles open after a and no later than k lengths after it.
LEMMA FewAbove ==
  ASSUME NEW S \in SUBSET Times, NEW a \in Nat, a % Frame = 0, NEW k \in Nat,
         \A u \in S : u <= a + Frame * k
  PROVE  Cardinality({u \in S : u > a}) <= k
<1> DEFINE M == {u \in S : u > a}
           f == [u \in M |-> (u - a) \div Frame]
<1>1. Frame \in Nat /\ Frame > 0
  BY CacheConstants
<1>2. \A u \in M : u \in Nat /\ u % Frame = 0 /\ u > a /\ u <= a + Frame * k
  BY DEF Times
<1>3. \A u \in M : \E i \in 1..k : u = a + Frame * i /\ f[u] = i
  <2> SUFFICES ASSUME NEW u \in M
               PROVE  \E i \in 1..k : u = a + Frame * i /\ f[u] = i
    OBVIOUS
  <2>1. PICK p \in Nat : a = Frame * p
    BY Multiple
  <2>2. PICK q \in Nat : u = Frame * q
    BY <1>2, Multiple
  <2>3. q > p
    <3>1. CASE q <= p
      <4>1. Frame * q <= Frame * p
        BY <3>1, <1>1
      <4> QED
        BY <4>1, <2>1, <2>2, <1>1, <1>2
    <3> QED
      BY <3>1
  <2> DEFINE i == q - p
  <2>4. i \in Nat /\ i >= 1 /\ u = a + Frame * i
    BY <2>1, <2>2, <2>3, <1>1
  <2> HIDE DEF i
  <2>5. i <= k
    <3>1. CASE i > k
      <4>1. Frame * i >= Frame * (k + 1)
        BY <3>1, <1>1, <2>4
      <4>2. Frame * (k + 1) = Frame * k + Frame
        BY <1>1
      <4>3. Frame * i \in Nat /\ Frame * k \in Nat
        BY <1>1, <2>4
      <4> QED
        BY <4>1, <4>2, <4>3, <2>4, <1>1, <1>2
    <3> QED
      BY <3>1, <2>4
  <2>6. (u - a) \div Frame = i
    <3>1. u - a = Frame * i
      BY <2>4, <1>1
    <3>2. (Frame * i) \div Frame = i
      BY <1>1, <2>4
    <3> QED
      BY <3>1, <3>2
  <2> QED
    BY <2>4, <2>5, <2>6
<1> HIDE DEF M
<1>4. f \in [M -> 1..k]
  BY <1>3
<1>5. f \in Injection(M, 1..k)
  <2>1. \A u, v \in M : f[u] = f[v] => u = v
    BY <1>3
  <2> HIDE DEF f
  <2> QED
    BY <1>4, <2>1 DEF Injection, IsInjective
<1> HIDE DEF f
<1>6. IsFiniteSet(1..k) /\ Cardinality(1..k) = k
  <2>1. IsFiniteSet(1..k) /\ Cardinality(1..k) = IF 1 > k THEN 0 ELSE k - 1 + 1
    BY FS_Interval
  <2> QED
    BY <2>1
<1>7. Cardinality(M) <= Cardinality(1..k)
  BY <1>5, <1>6, FS_Injection
<1> QED
  BY <1>6, <1>7 DEF M

\* At most k candles open before a and no earlier than k lengths before it.
LEMMA FewBelow ==
  ASSUME NEW S \in SUBSET Times, NEW a \in Nat, a % Frame = 0, NEW k \in Nat,
         \A u \in S : u + Frame * k >= a
  PROVE  Cardinality({u \in S : u < a}) <= k
<1> DEFINE M == {u \in S : u < a}
           f == [u \in M |-> (a - u) \div Frame]
<1>1. Frame \in Nat /\ Frame > 0
  BY CacheConstants
<1>2. \A u \in M : u \in Nat /\ u % Frame = 0 /\ u < a /\ u + Frame * k >= a
  BY DEF Times
<1>3. \A u \in M : \E i \in 1..k : a = u + Frame * i /\ f[u] = i
  <2> SUFFICES ASSUME NEW u \in M
               PROVE  \E i \in 1..k : a = u + Frame * i /\ f[u] = i
    OBVIOUS
  <2>1. PICK p \in Nat : a = Frame * p
    BY Multiple
  <2>2. PICK q \in Nat : u = Frame * q
    BY <1>2, Multiple
  <2>3. p > q
    <3>1. CASE p <= q
      <4>1. Frame * p <= Frame * q
        BY <3>1, <1>1
      <4> QED
        BY <4>1, <2>1, <2>2, <1>1, <1>2
    <3> QED
      BY <3>1
  <2> DEFINE i == p - q
  <2>4. i \in Nat /\ i >= 1 /\ a = u + Frame * i
    BY <2>1, <2>2, <2>3, <1>1
  <2> HIDE DEF i
  <2>5. i <= k
    <3>1. CASE i > k
      <4>1. Frame * i >= Frame * (k + 1)
        BY <3>1, <1>1, <2>4
      <4>2. Frame * (k + 1) = Frame * k + Frame
        BY <1>1
      <4>3. Frame * i \in Nat /\ Frame * k \in Nat
        BY <1>1, <2>4
      <4> QED
        BY <4>1, <4>2, <4>3, <2>4, <1>1, <1>2
    <3> QED
      BY <3>1, <2>4
  <2>6. (a - u) \div Frame = i
    <3>1. a - u = Frame * i
      <4>1. Frame * i \in Nat /\ u \in Nat
        BY <2>4, <1>1, <1>2
      <4> QED
        BY <2>4, <4>1
    <3>2. (Frame * i) \div Frame = i
      BY <1>1, <2>4
    <3> QED
      BY <3>1, <3>2
  <2> QED
    BY <2>4, <2>5, <2>6
<1> HIDE DEF M
<1>4. f \in [M -> 1..k]
  BY <1>3
<1>5. f \in Injection(M, 1..k)
  <2>1. \A u, v \in M : f[u] = f[v] => u = v
    <3> SUFFICES ASSUME NEW u \in M, NEW v \in M, f[u] = f[v] PROVE u = v
      OBVIOUS
    <3> HIDE DEF f
    <3>1. PICK i \in 1..k : a = u + Frame * i /\ f[u] = i
      BY <1>3
    <3>2. PICK j \in 1..k : a = v + Frame * j /\ f[v] = j
      BY <1>3
    <3>3. i = j
      BY <3>1, <3>2, Zenon
    <3>4. Frame * i \in Nat /\ u \in Nat /\ v \in Nat
      BY <1>1, <1>2
    <3> QED
      BY <3>1, <3>2, <3>3, <3>4
  <2> HIDE DEF f
  <2> QED
    BY <1>4, <2>1 DEF Injection, IsInjective
<1> HIDE DEF f
<1>6. IsFiniteSet(1..k) /\ Cardinality(1..k) = k
  <2>1. IsFiniteSet(1..k) /\ Cardinality(1..k) = IF 1 > k THEN 0 ELSE k - 1 + 1
    BY FS_Interval
  <2> QED
    BY <2>1
<1>7. Cardinality(M) <= Cardinality(1..k)
  BY <1>5, <1>6, FS_Injection
<1> QED
  BY <1>6, <1>7 DEF M

-----------------------------------------------------------------------------
(* Files and vectors of candles                                            *)

LEMMA CandlesAre ==
  /\ \A f \in Candles : /\ DOMAIN f \subseteq Times
                        /\ f \in [DOMAIN f -> Marks]
  /\ \A S \in SUBSET Times : [S -> Marks] \subseteq Candles
BY DEF Candles

LEMMA NothingIs ==
  /\ Nothing \in Candles /\ DOMAIN Nothing = {}
  /\ \A f \in Candles : f = Nothing <=> DOMAIN f = {}
<1>1. Nothing \in [{} -> Marks] /\ DOMAIN Nothing = {}
  BY DEF Nothing
<1>2. Nothing \in Candles
  BY <1>1, CandlesAre
<1>3. ASSUME NEW f \in Candles, DOMAIN f = {} PROVE f = Nothing
  <2>1. f \in [{} -> Marks]
    BY <1>3, CandlesAre
  <2> QED
    BY <2>1, <1>1
<1> QED
  BY <1>1, <1>2, <1>3

LEMMA OverIs ==
  ASSUME NEW f \in Candles, NEW g \in Candles
  PROVE  /\ Over(g, f) \in Candles
         /\ DOMAIN Over(g, f) = DOMAIN f \cup DOMAIN g
         /\ \A t \in DOMAIN f \cup DOMAIN g :
              Over(g, f)[t] = IF t \in DOMAIN g THEN g[t] ELSE f[t]
<1> DEFINE h == Over(g, f)
           S == DOMAIN f \cup DOMAIN g
<1>1. /\ S \in SUBSET Times
      /\ f \in [DOMAIN f -> Marks]
      /\ g \in [DOMAIN g -> Marks]
  BY CandlesAre
<1>2. h = [t \in S |-> IF t \in DOMAIN g THEN g[t] ELSE f[t]]
  BY DEF Over
<1> HIDE DEF h
<1>3. h \in [S -> Marks]
  BY <1>1, <1>2
<1>4. h \in Candles
  BY <1>1, <1>3, CandlesAre
<1> QED
  BY <1>2, <1>4 DEF h

LEMMA FromIs ==
  ASSUME NEW f \in Candles, NEW since
  PROVE  /\ From(since, f) \in Candles
         /\ DOMAIN From(since, f) = {t \in DOMAIN f : t >= since}
         /\ \A t \in DOMAIN From(since, f) : From(since, f)[t] = f[t]
<1> DEFINE h == From(since, f)
           S == {t \in DOMAIN f : t >= since}
<1>1. S \in SUBSET Times /\ f \in [DOMAIN f -> Marks]
  BY CandlesAre
<1>2. h = [t \in S |-> f[t]]
  BY DEF From
<1> HIDE DEF h
<1>3. h \in [S -> Marks]
  BY <1>1, <1>2
<1>4. h \in Candles
  BY <1>1, <1>3, CandlesAre
<1> QED
  BY <1>2, <1>4 DEF h

-----------------------------------------------------------------------------
(* Pages                                                                   *)

LEMMA LimitIs == Limit \in Nat /\ Limit >= 1 /\ Frame \in Nat /\ Frame >= 1
                 /\ Frame * Limit \in Nat /\ Frame <= Frame * Limit
                 /\ Horizon \in Nat
<1>1. Limit \in Nat /\ Limit >= 1 /\ Frame \in Nat /\ Frame >= 1 /\ Horizon \in Nat
  BY CacheConstants
<1>2. Frame * Limit \in Nat
  BY <1>1
<1>3. Frame * 1 <= Frame * Limit
  BY <1>1
<1> QED
  BY <1>1, <1>2, <1>3

LEMMA WindowsAreFinite ==
  ASSUME NEW S \in SUBSET Times
  PROVE  S \in SUBSET (0..Horizon) /\ IsFiniteSet(S)
<1>1. S \in SUBSET (0..Horizon)
  BY DEF Times
<1>2. IsFiniteSet(0..Horizon)
  BY LimitIs, FS_Interval
<1> QED
  BY <1>1, <1>2, FS_Subset

\* A window that is not empty gives a page that is not; a page of the oldest
\* has all that is older than its last, and what is cut off opens a page's
\* length after the beginning of the window; of the newest, one that is cut
\* off is at most Limit lengths before the end, and then its next is not.
LEMMA PagesAre ==
  ASSUME NEW window \in SUBSET Times, NEW keep \in {"oldest", "newest"}
  PROVE  /\ Page(window, keep) \subseteq window
         /\ window # {} => Page(window, keep) # {}
         /\ keep = "oldest" =>
              \A t \in Page(window, keep), u \in window :
                u < t => u \in Page(window, keep)
         /\ keep = "oldest" =>
              \A t \in window \ Page(window, keep), a \in Nat :
                (\A u \in window : a <= u) => a + Frame * Limit <= t
         /\ keep = "newest" =>
              \A t \in window \ Page(window, keep) :
                (\A u \in window : u <= t + Frame * Limit)
                  => t + Frame \in Page(window, keep)
<1> DEFINE older(t) == {u \in window : u < t}
           newer(t) == {u \in window : u > t}
<1>1. window \subseteq Nat /\ \A u \in window : u % Frame = 0
  BY DEF Times
<1>2. CASE keep = "oldest"
  <2>1. Page(window, keep) = {t \in window : Cardinality(older(t)) < Limit}
    BY <1>2 DEF Page
  <2>2. ASSUME window # {} PROVE Page(window, keep) # {}
    <3>1. PICK t \in window : \A u \in window : t <= u
      BY <1>1, <2>2, Earliest
    <3>2. older(t) = {}
      <4>1. \A u \in window : ~(u < t)
        BY <1>1, <3>1
      <4> QED
        BY <4>1, Zenon
    <3>3. Cardinality(older(t)) = 0
      BY <3>2, FS_EmptySet
    <3> HIDE DEF older
    <3> QED
      BY <2>1, <3>1, <3>3, LimitIs
  <2>3. ASSUME NEW t \in Page(window, keep), NEW u \in window, u < t
        PROVE  u \in Page(window, keep)
    <3>1. older(u) \in SUBSET older(t)
      <4>1. t \in window
        BY <2>1
      <4>2. \A v \in window : v < u => v < t
        BY <1>1, <2>3, <4>1
      <4> QED
        BY <4>2, Zenon
    <3>2. IsFiniteSet(older(t))
      BY WindowsAreFinite
    <3> HIDE DEF older
    <3>3. Cardinality(older(u)) <= Cardinality(older(t))
      BY <3>1, <3>2, FS_Subset
    <3>4. IsFiniteSet(older(u))
      BY <3>1, <3>2, FS_Subset
    <3>5. Cardinality(older(u)) \in Nat /\ Cardinality(older(t)) \in Nat
      BY <3>2, <3>4, FS_CardinalityType
    <3> QED
      BY <2>1, <3>3, <3>5, LimitIs
  <2>4. ASSUME NEW t \in window \ Page(window, keep), NEW a \in Nat,
               \A u \in window : a <= u, ~(a + Frame * Limit <= t)
        PROVE  FALSE
    <3> DEFINE k == Limit - 1
    <3>1. t \in Nat /\ t % Frame = 0 /\ k \in Nat /\ a <= t
      BY <1>1, <2>4, LimitIs
    <3>2. Frame * Limit = Frame + Frame * k /\ Frame * k \in Nat
      BY LimitIs, <3>1
    <3> HIDE DEF k
    <3> DEFINE S == {u \in window : u + Frame * k >= t}
    <3>3. older(t) \subseteq S
      <4> SUFFICES ASSUME NEW u \in window, u < t PROVE u + Frame * k >= t
        OBVIOUS
      <4>1. u \in Nat /\ u % Frame = 0 /\ a <= u
        BY <1>1, <2>4
      <4>2. PICK p \in Nat : u = Frame * p
        BY <4>1, Multiple
      <4>3. PICK q \in Nat : t = Frame * q
        BY <3>1, Multiple
      <4>4. t < a + Frame * Limit
        BY <2>4, <3>1, LimitIs
      <4>5. Frame * q < Frame * p + Frame * Limit
        BY <4>1, <4>2, <4>3, <4>4, <3>1, LimitIs
      <4>6. q < p + Limit
        <5>1. CASE q >= p + Limit
          <6>1. Frame * q >= Frame * (p + Limit)
            BY <5>1, LimitIs
          <6>2. Frame * (p + Limit) = Frame * p + Frame * Limit
            BY LimitIs
          <6>3. Frame * q \in Nat /\ Frame * p \in Nat
            BY LimitIs
          <6> QED
            BY <6>1, <6>2, <6>3, <4>5, LimitIs
        <5> QED
          BY <5>1, LimitIs
      <4>7. q <= p + k
        BY <4>6, LimitIs DEF k
      <4>8. Frame * q <= Frame * (p + k)
        BY <4>7, <3>1, LimitIs
      <4>9. Frame * (p + k) = Frame * p + Frame * k
        BY <3>1, LimitIs
      <4> QED
        BY <4>2, <4>3, <4>8, <4>9
    <3>4. Cardinality({u \in S : u < t}) <= k
      <4>1. S \in SUBSET Times /\ \A u \in S : u + Frame * k >= t
        OBVIOUS
      <4> HIDE DEF S
      <4> QED
        BY <3>1, <4>1, FewBelow
    <3>5. older(t) = {u \in S : u < t}
      BY <3>3
    <3>6. IsFiniteSet(older(t)) /\ Cardinality(older(t)) \in Nat
      BY WindowsAreFinite, FS_CardinalityType
    <3> HIDE DEF S, older
    <3>7. Cardinality(older(t)) < Limit
      BY <3>1, <3>4, <3>5, <3>6, LimitIs DEF k
    <3> QED
      BY <2>1, <2>4, <3>7
  <2> HIDE DEF older
  <2> QED
    BY <1>2, <2>1, <2>2, <2>3, <2>4
<1>3. CASE keep = "newest"
  <2>1. Page(window, keep) = {t \in window : Cardinality(newer(t)) < Limit}
    BY <1>3 DEF Page
  <2>2. ASSUME window # {} PROVE Page(window, keep) # {}
    <3>1. PICK t \in window : \A u \in window : u <= t
      BY <2>2, WindowsAreFinite, LimitIs, LatestExists
    <3>2. newer(t) = {}
      <4>1. \A u \in window : ~(u > t)
        BY <1>1, <3>1
      <4> QED
        BY <4>1, Zenon
    <3>3. Cardinality(newer(t)) = 0
      BY <3>2, FS_EmptySet
    <3> HIDE DEF newer
    <3> QED
      BY <2>1, <3>1, <3>3, LimitIs
  <2>3. ASSUME NEW t \in window \ Page(window, keep),
               \A u \in window : u <= t + Frame * Limit
        PROVE  t + Frame \in Page(window, keep)
    <3> DEFINE a == t + Frame
               k == Limit - 1
    <3>1. t \in Nat /\ a \in Nat /\ a % Frame = 0 /\ k \in Nat
      <4>1. t \in Nat /\ t % Frame = 0
        BY <1>1
      <4>2. PICK m \in Nat : t = Frame * m
        BY <4>1, Multiple
      <4>3. a = Frame * (m + 1) /\ m + 1 \in Nat
        BY <4>2, LimitIs
      <4>4. \A n \in Nat : (Frame * n) % Frame = 0
        BY LimitIs
      <4> QED
        BY <4>1, <4>3, <4>4, LimitIs
    <3>2. Frame * Limit = Frame + Frame * k /\ Frame * k \in Nat
      BY LimitIs, <3>1
    <3>3. \A u \in window : u <= a + Frame * k
      BY <2>3, <3>1, <3>2, LimitIs, <1>1
    <3> HIDE DEF a, k
    <3>4. Cardinality(newer(a)) <= k
      BY <3>1, <3>3, FewAbove
    <3>5. IsFiniteSet(newer(a)) /\ Cardinality(newer(a)) \in Nat
      BY WindowsAreFinite, FS_CardinalityType
    <3>6. Cardinality(newer(a)) < Limit
      BY <3>1, <3>4, <3>5, LimitIs DEF k
    <3>7. CASE a \in window
      BY <2>1, <3>6, <3>7 DEF a
    <3>8. CASE a \notin window
      <4>1. \A u \in window : u > t <=> u > a
        BY <1>1, <3>1, <3>8, CandlesApart, LimitIs DEF a
      <4>2. newer(t) = newer(a)
        BY <4>1
      <4> HIDE DEF newer
      <4> QED
        BY <2>1, <2>3, <3>6, <4>2
    <3> QED
      BY <3>7, <3>8
  <2> HIDE DEF newer
  <2> QED
    BY <1>3, <2>1, <2>2, <2>3
<1> QED
  BY <1>2, <1>3

\* What appending a page does to the locals of a call.
Fetched(b, keep, good, counted, page, window) ==
  [b EXCEPT !.rows = Over([t \in good |-> ValueOf(t)], b.rows),
            !.back = IF good = {} THEN b.back ELSE LatestOf(good),
            !.skipped = b.skipped \/ counted,
            !.cut = IF keep = "newest" THEN b.cut \cup (window \ page) ELSE b.cut,
            !.dropped = b.dropped \cup (page \ good)]

EndOf(b) == IF b.cursor + Frame * Limit <= b.now
            THEN b.cursor + Frame * Limit ELSE b.now

LEMMA WindowIs ==
  ASSUME listed \subseteq Times, clock \in Nat, NEW b \in Locals
  PROVE  /\ Window(b.cursor, EndOf(b)) \subseteq listed
         /\ Window(b.cursor, EndOf(b)) \in SUBSET Times
         /\ \A u \in Window(b.cursor, EndOf(b)) :
              /\ u \in Nat /\ u >= b.cursor /\ u <= b.cursor + Frame * Limit
              /\ u <= b.now /\ u <= clock
         /\ \A u \in listed :
              /\ u >= b.cursor /\ u < b.now /\ b.now <= clock
              /\ u <= b.cursor + Frame * Limit
              => u \in Window(b.cursor, EndOf(b))
<1>1. b.cursor \in Nat /\ b.now \in Nat
  BY DEF Locals
<1>2. listed \subseteq Nat
  BY DEF Times
<1>3. EndOf(b) \in Nat /\ EndOf(b) <= b.now
      /\ EndOf(b) <= b.cursor + Frame * Limit
      /\ (EndOf(b) = b.now \/ EndOf(b) = b.cursor + Frame * Limit)
  BY <1>1, LimitIs DEF EndOf
<1>4. \A u : u \in Window(b.cursor, EndOf(b)) <=>
               u \in listed /\ b.cursor <= u /\ u <= EndOf(b) /\ u <= clock
  BY Zenon DEF Window
<1>5. ASSUME NEW u \in Window(b.cursor, EndOf(b))
      PROVE  /\ u \in Nat /\ u >= b.cursor /\ u <= b.cursor + Frame * Limit
             /\ u <= b.now /\ u <= clock /\ u \in listed
  <2>1. /\ u \in listed /\ b.cursor <= u /\ u <= EndOf(b) /\ u <= clock
        /\ u \in Nat
    BY <1>2, <1>4, <1>5
  <2>2. b.cursor + Frame * Limit \in Nat
    BY <1>1, LimitIs
  <2>3. u <= b.cursor + Frame * Limit /\ u <= b.now
    BY <1>1, <1>3, <2>1, <2>2
  <2> QED
    BY <1>1, <2>1, <2>3
<1>6. ASSUME NEW u \in listed, u >= b.cursor, u < b.now, b.now <= clock,
             u <= b.cursor + Frame * Limit
      PROVE  u \in Window(b.cursor, EndOf(b))
  BY <1>1, <1>2, <1>3, <1>4, <1>6
<1>7. Window(b.cursor, EndOf(b)) \in SUBSET Times
  BY <1>5
<1> QED
  BY <1>5, <1>6, <1>7

\* A page keeps what is known of a call's rows.
LEMMA FetchKeepsPaged ==
  ASSUME listed \subseteq Times, clock \in Nat, NEW b \in Locals, Paged(b),
         b.cursor < b.now, NEW keep \in {"oldest", "newest"},
         NEW window, window = Window(b.cursor, EndOf(b)),
         NEW page, page = Page(window, keep), NEW good \in SUBSET page,
         NEW counted \in BOOLEAN,
         NEW n, n = Step(Fetched(b, keep, good, counted, page, window))
  PROVE  n \in Locals /\ Paged(n)
<1> DEFINE g == [t \in good |-> ValueOf(t)]
           m == Fetched(b, keep, good, counted, page, window)
           r == Over(g, b.rows)
           latest == LatestOf(good)
           z == Frame * Limit
<1>1. /\ window \subseteq listed /\ window \in SUBSET Times
      /\ \A u \in window : /\ u \in Nat /\ u >= b.cursor /\ u <= b.cursor + z
                            /\ u <= b.now /\ u <= clock
      /\ \A u \in listed : u >= b.cursor /\ u < b.now /\ u <= b.cursor + z
           => u \in window
  BY WindowIs DEF Paged
<1>2. z \in Nat /\ z >= Frame /\ Frame \in Nat /\ Frame >= 1
  BY LimitIs
<1> HIDE DEF z
<1>3. /\ page \subseteq window
      /\ window # {} => page # {}
      /\ keep = "oldest" =>
           \A t \in page, u \in window : u < t => u \in page
      /\ keep = "oldest" =>
           \A t \in window \ page, a \in Nat :
             (\A u \in window : a <= u) => a + z <= t
      /\ keep = "newest" =>
           \A t \in window \ page :
             (\A u \in window : u <= t + z) => t + Frame \in page
  BY <1>1, PagesAre DEF z
<1>4. good \in SUBSET Times /\ good \subseteq listed /\ good \subseteq window
  BY <1>1, <1>3
<1>5. /\ g \in Candles /\ DOMAIN g = good
      /\ \A t \in good : g[t] # "torn" /\ (g[t] = "partial" => t + Frame > b.now)
  <2>1. g \in [good -> Marks] /\ \A t \in good : g[t] # "torn"
    BY DEF ValueOf, Marks
  <2>2. \A t \in good : g[t] = "partial" => ~(t + Frame <= clock)
    BY DEF ValueOf
  <2>3. \A t \in good : ~(t + Frame <= clock) => t + Frame > b.now
    BY <1>1, <1>2, <1>4 DEF Paged, Locals
  <2> QED
    BY <2>1, <2>2, <2>3, <1>4, CandlesAre
<1> HIDE DEF g
<1>6. /\ r \in Candles /\ DOMAIN r = DOMAIN b.rows \cup good
      /\ \A t \in DOMAIN r : r[t] = IF t \in good THEN g[t] ELSE b.rows[t]
  <2>1. b.rows \in Candles
    BY DEF Locals
  <2>2. /\ r \in Candles /\ DOMAIN r = DOMAIN b.rows \cup DOMAIN g
        /\ \A t \in DOMAIN b.rows \cup DOMAIN g :
             r[t] = IF t \in DOMAIN g THEN g[t] ELSE b.rows[t]
    BY <1>5, <2>1, OverIs
  <2> HIDE DEF r
  <2> QED
    BY <1>5, <2>2
<1> HIDE DEF r
<1>7. good # {} => /\ latest \in good /\ \A u \in good : u <= latest
                   /\ latest \in Times /\ latest \in Nat
                   /\ latest >= b.cursor /\ latest > b.last_ts_seen
                   /\ latest \in window
  <2>1. ASSUME good # {} PROVE \E t \in good : \A u \in good : u <= t
    BY <1>4, <2>1, WindowsAreFinite, LimitIs, LatestExists
  <2>2. ASSUME good # {} PROVE latest \in good /\ \A u \in good : u <= latest
    BY <2>1, <2>2, Zenon DEF LatestOf
  <2> HIDE DEF latest
  <2>3. ASSUME good # {}
        PROVE  /\ latest \in Nat /\ latest >= b.cursor /\ latest \in Times
               /\ latest > b.last_ts_seen
    <3>1. b.last_ts_seen \in Int /\ b.cursor \in Nat
      BY DEF Locals, Times
    <3> QED
      BY <1>1, <1>4, <2>2, <2>3, <3>1 DEF Paged
  <2> QED
    BY <1>4, <2>2, <2>3
<1> HIDE DEF latest
<1>8. /\ m \in Locals
      /\ m.since = b.since /\ m.now = b.now /\ m.cursor = b.cursor
      /\ m.last_ts_seen = b.last_ts_seen /\ m.merged = b.merged
      /\ m.rows = r
      /\ m.back = IF good = {} THEN b.back ELSE latest
      /\ m.skipped = (b.skipped \/ counted)
      /\ m.cut = IF keep = "newest" THEN b.cut \cup (window \ page) ELSE b.cut
      /\ m.dropped = b.dropped \cup (page \ good)
  <2> DEFINE k == IF good = {} THEN b.back ELSE latest
             f == b.skipped \/ counted
             u == IF keep = "newest" THEN b.cut \cup (window \ page) ELSE b.cut
             d == b.dropped \cup (page \ good)
  <2>1. /\ k \in Times \cup {-1} /\ f \in BOOLEAN /\ u \in SUBSET Times
        /\ d \in SUBSET Times
    BY <1>1, <1>3, <1>7 DEF Locals
  <2>2. m = [b EXCEPT !.rows = r, !.back = k, !.skipped = f, !.cut = u, !.dropped = d]
    BY Zenon DEF Fetched, r, g, latest
  <2> HIDE DEF m, k, f, u, d
  <2>3. /\ m \in Locals
        /\ m.since = b.since /\ m.now = b.now /\ m.cursor = b.cursor
        /\ m.last_ts_seen = b.last_ts_seen /\ m.merged = b.merged
        /\ m.rows = r /\ m.back = k /\ m.skipped = f /\ m.cut = u /\ m.dropped = d
    BY <1>6, <2>1, <2>2 DEF Locals
  <2> QED
    BY <2>3 DEF k, f, u, d
<1> HIDE DEF m
<1>9. /\ b.cursor \in Nat /\ b.now \in Nat /\ b.since \in Nat
      /\ b.last_ts_seen \in Int /\ b.back = b.last_ts_seen
      /\ b.last_ts_seen < b.cursor
  BY DEF Locals, Times, Paged
\* The three places where the next window may begin.
<1>10. /\ n.since = b.since /\ n.now = b.now /\ n.rows = r
       /\ n.skipped = m.skipped /\ n.cut = m.cut /\ n.dropped = m.dropped /\ n \in Locals
       /\ n.back = n.last_ts_seen /\ n.last_ts_seen < n.cursor
       /\ n.cursor \in Nat
       /\ \/ good = {} /\ n.cursor <= b.cursor + z
          \/ good # {} /\ n.cursor = latest + Frame
  <2>1. CASE r = Nothing
    <3>1. good = {}
      BY <1>6, <2>1, NothingIs
    <3>2. n = [m EXCEPT !.cursor = m.cursor + z]
      BY <1>8, <2>1 DEF Step, z, m
    <3>3. b.cursor + z \in Nat /\ b.last_ts_seen < b.cursor + z
      BY <1>2, <1>9
    <3>4. n \in Locals /\ n.cursor = m.cursor + z /\ n.last_ts_seen = m.last_ts_seen
          /\ n.since = m.since /\ n.now = m.now /\ n.rows = m.rows /\ n.back = m.back
          /\ n.skipped = m.skipped /\ n.cut = m.cut /\ n.dropped = m.dropped
      BY <1>8, <3>2, <3>3, Zenon DEF Locals
    <3> QED
      BY <1>8, <1>9, <3>1, <3>3, <3>4
  <2>2. CASE r # Nothing /\ m.back <= m.last_ts_seen
    <3>1. good = {}
      BY <1>7, <1>8, <1>9, <2>2
    <3>2. n = [m EXCEPT !.cursor = m.cursor + Frame]
      BY <1>8, <2>2 DEF Step, m
    <3>3. b.cursor + Frame \in Nat /\ b.last_ts_seen < b.cursor + Frame
          /\ b.cursor + Frame <= b.cursor + z
      BY <1>2, <1>9
    <3>4. n \in Locals /\ n.cursor = m.cursor + Frame /\ n.last_ts_seen = m.last_ts_seen
          /\ n.since = m.since /\ n.now = m.now /\ n.rows = m.rows /\ n.back = m.back
          /\ n.skipped = m.skipped /\ n.cut = m.cut /\ n.dropped = m.dropped
      BY <1>8, <3>2, <3>3, Zenon DEF Locals
    <3> QED
      BY <1>8, <1>9, <3>1, <3>3, <3>4
  <2>3. CASE r # Nothing /\ ~(m.back <= m.last_ts_seen)
    <3>1. good # {}
      BY <1>8, <1>9, <2>3
    <3>2. n = [m EXCEPT !.last_ts_seen = m.back, !.cursor = m.back + Frame]
      BY <1>8, <2>3 DEF Step, m
    <3>3. m.back = latest /\ latest + Frame \in Nat /\ latest < latest + Frame
      BY <1>2, <1>7, <1>8, <3>1
    <3> QED
      BY <1>7, <1>8, <1>9, <3>1, <3>2, <3>3 DEF Locals
  <2> QED
    BY <2>1, <2>2, <2>3
<1>11. DOMAIN n.rows \subseteq listed
  BY <1>4, <1>6, <1>10 DEF Paged
<1>12. \A t \in DOMAIN n.rows :
         n.rows[t] # "torn" /\ (n.rows[t] = "partial" => t + Frame > n.now)
  BY <1>5, <1>6, <1>10 DEF Paged
<1>13. ASSUME ~n.skipped, NEW t \in listed, n.since <= t, t < n.now,
              t < n.cursor, t \notin DOMAIN n.rows, t \notin n.dropped
       PROVE  t \in n.cut /\ t + Frame \in DOMAIN n.rows \cup n.dropped
  <2>1. ~b.skipped
    BY <1>8, <1>10, <1>13
  <2>2. /\ t \in Nat /\ t % Frame = 0 /\ t \notin DOMAIN b.rows
        /\ t \notin b.dropped /\ t \notin page
    BY <1>6, <1>8, <1>10, <1>13 DEF Times
  <2>3. CASE t < b.cursor
    <3>1. t \in b.cut /\ t + Frame \in DOMAIN b.rows \cup b.dropped
      BY <1>10, <1>13, <2>1, <2>2, <2>3 DEF Paged
    <3> QED
      BY <1>6, <1>8, <1>10, <3>1
  <2>4. CASE t >= b.cursor
    <3>1. good # {} => t <= latest
      <4> SUFFICES ASSUME good # {} PROVE t <= latest
        OBVIOUS
      <4>1. latest % Frame = 0
        BY <1>7 DEF Times
      <4>2. latest < t => latest + Frame <= t
        BY <1>7, <2>2, <4>1, CandlesApart
      <4> QED
        BY <1>2, <1>7, <1>10, <1>13, <2>2, <4>2
    <3>2. t <= b.cursor + z
      <4>1. good # {} => latest <= b.cursor + z
        BY <1>1, <1>7
      <4>2. b.cursor + z \in Nat
        BY <1>2, <1>9
      <4> QED
        BY <1>7, <1>9, <1>10, <1>13, <2>2, <3>1, <4>1, <4>2
    <3>3. t \in window \ page
      BY <1>1, <1>10, <1>13, <2>2, <2>4, <3>2
    <3>4. keep = "newest"
      <4> SUFFICES ASSUME keep = "oldest" PROVE FALSE
        OBVIOUS
      <4>1. CASE good # {}
        <5>1. latest \in page /\ t # latest
          BY <1>7, <4>1, <2>2
        <5>2. t < latest
          BY <1>7, <2>2, <3>1, <4>1, <5>1
        <5> QED
          BY <1>3, <3>3, <5>1, <5>2
      <4>2. CASE good = {}
        <5>1. b.cursor + z <= t
          BY <1>1, <1>3, <1>9, <3>3
        <5>2. t < b.cursor + z
          BY <1>2, <1>9, <1>10, <1>13, <2>2, <4>2
        <5> QED
          BY <1>2, <1>9, <2>2, <5>1, <5>2
      <4> QED
        BY <4>1, <4>2
    <3>5. \A u \in window : u <= t + z
      BY <1>1, <1>2, <1>9, <2>2, <2>4
    <3>6. t + Frame \in page
      BY <1>3, <3>3, <3>4, <3>5
    <3> QED
      BY <1>6, <1>8, <1>10, <3>3, <3>4, <3>6
  <2> QED
    BY <1>9, <2>2, <2>3, <2>4
<1> QED
  BY <1>10, <1>11, <1>12, <1>13 DEF Paged

-----------------------------------------------------------------------------
(* What every call has, whoever else calls                                 *)

LEMMA NoCallIs ==
  /\ NoCall \in Locals
  /\ \A since, now \in Nat :
       [NoCall EXCEPT !.since = since, !.now = now, !.cursor = since] \in Locals
BY NothingIs DEF NoCall, Locals

LEMMA ProgressInit == Init => Progress
<1> SUFFICES ASSUME Init PROVE Progress
  OBVIOUS
<1>1. /\ clock = Start /\ listed \in SUBSET Times /\ file = Nothing
      /\ pc = [c \in Callers |-> "idle"] /\ call = [c \in Callers |-> NoCall]
      /\ calls = 0 /\ kept = {} /\ lost = {}
  BY DEF Init
<1>2. Start \in Start..Horizon /\ 0 \in 0..MaxCalls /\ Start \in Nat
  BY CacheConstants
<1>3. Typed
  BY <1>1, <1>2, NoCallIs, NothingIs DEF Typed
<1>4. Paged(NoCall)
  <2>1. NoCall.since = 0 /\ NoCall.now = 0 /\ NoCall.cursor = 0
        /\ NoCall.back = -1 /\ NoCall.last_ts_seen = -1
        /\ DOMAIN NoCall.rows = {}
    BY NothingIs DEF NoCall
  <2>2. listed \subseteq Nat
    BY <1>1 DEF Times
  <2> QED
    BY <1>1, <1>2, <2>1, <2>2 DEF Paged
<1> QED
  BY <1>1, <1>3, <1>4, NothingIs DEF Progress, Merging

\* The same call but for what others have done to the file.
Alike(a, b) ==
  /\ a.since = b.since /\ a.now = b.now /\ a.cursor = b.cursor
  /\ a.last_ts_seen = b.last_ts_seen /\ a.rows = b.rows /\ a.back = b.back
  /\ a.skipped = b.skipped /\ a.merged = b.merged
  /\ a.cut = b.cut /\ a.dropped = b.dropped

LEMMA AlikeKeeps ==
  ASSUME NEW a \in Locals, NEW b \in Locals, Alike(a, b)
  PROVE  /\ Paged(b) => Paged(a)
         /\ Saves(b) => Saves(a)
BY DEF Alike, Paged, Saves, Expected

\* A caller's step leaves the calls of the others as they are, but for what
\* they remember of the file.
LEMMA OneCallChanges ==
  ASSUME Progress, NEW c \in Callers, NEW to,
         to \in {"idle", "page", "open", "write", "reply"},
         call' \in [Callers -> Locals], pc' = [pc EXCEPT ![c] = to],
         \A d \in Callers : d # c => Alike(call'[d], call[d]),
         UNCHANGED <<clock, listed>>, file' \in Candles,
         DOMAIN file' \subseteq listed, calls' \in 0..MaxCalls,
         kept' \subseteq Times, lost' \subseteq Times, Paged(call'[c]),
         to \in {"open", "write", "reply"} => Saves(call'[c])
  PROVE  Progress'
<1>1. /\ call \in [Callers -> Locals]
      /\ pc \in [Callers -> {"idle", "page", "open", "write", "reply"}]
      /\ clock' = clock /\ listed' = listed
  BY DEF Progress, Typed
<1>2. Typed'
  BY <1>1 DEF Progress, Typed
<1>3. \A d \in Callers : pc'[d] = IF d = c THEN to ELSE pc[d]
  BY <1>1
<1>4. ASSUME NEW d \in Callers
      PROVE  Paged(call'[d]) /\ (pc'[d] \in {"open", "write", "reply"} => Saves(call'[d]))
  <2>1. CASE d = c
    BY <1>3, <2>1
  <2>2. CASE d # c
    <3>1. Paged(call[d]) /\ (pc[d] \in {"open", "write", "reply"} => Saves(call[d]))
      BY DEF Progress, Merging
    <3>2. call[d] \in Locals /\ call'[d] \in Locals /\ Alike(call'[d], call[d])
      BY <1>1, <2>2
    <3>3. /\ Paged(call[d]) => Paged(call'[d])
          /\ Saves(call[d]) => Saves(call'[d])
      BY <3>2, AlikeKeeps
    <3> QED
      BY <1>3, <2>2, <3>1, <3>3
  <2> QED
    BY <2>1, <2>2
<1>5. ASSUME NEW d \in Callers
      PROVE  Paged(call[d])' /\ (Merging(d)' => Saves(call[d])')
  <2>1. Paged(call'[d]) /\ (pc'[d] \in {"open", "write", "reply"} => Saves(call'[d]))
    BY <1>4
  <2> QED
    BY <1>1, <2>1 DEF Merging, Paged, Saves, Expected
<1> QED
  BY <1>1, <1>2, <1>5 DEF Progress

\* A step that only the caller's own record tells of.
LEMMA OwnCallChanges ==
  ASSUME call \in [Callers -> Locals], NEW c \in Callers, NEW b \in Locals,
         call' = [call EXCEPT ![c] = b]
  PROVE  /\ call' \in [Callers -> Locals] /\ call'[c] = b
         /\ \A d \in Callers : d # c => call'[d] = call[d] /\ Alike(call'[d], call[d])
BY DEF Alike

\* What a call merges in memory keeps what its pages promised.
LEMMA MergeSaves ==
  ASSUME listed \subseteq Times, NEW seen \in Candles, DOMAIN seen \subseteq listed,
         NEW b \in Locals, Paged(b), b.cursor >= b.now,
         NEW n, n = [b EXCEPT !.merged = From(b.since, Over(b.rows, seen))]
  PROVE  /\ n \in Locals /\ Paged(n) /\ Saves(n)
         /\ n.since = b.since /\ n.missed = b.missed /\ n.spoiled = b.spoiled
         /\ {t \in DOMAIN seen : t >= b.since} \subseteq DOMAIN n.merged
<1> DEFINE o == Over(b.rows, seen)
           m == From(b.since, o)
<1>1. /\ b.rows \in Candles /\ b.since \in Nat /\ b.now \in Nat
      /\ b.cursor \in Nat /\ DOMAIN b.rows \subseteq listed
  BY DEF Locals, Paged
<1>2. /\ o \in Candles /\ DOMAIN o = DOMAIN seen \cup DOMAIN b.rows
      /\ \A t \in DOMAIN o :
           o[t] = IF t \in DOMAIN b.rows THEN b.rows[t] ELSE seen[t]
  <2>1. /\ o \in Candles /\ DOMAIN o = DOMAIN seen \cup DOMAIN b.rows
        /\ \A t \in DOMAIN seen \cup DOMAIN b.rows :
             o[t] = IF t \in DOMAIN b.rows THEN b.rows[t] ELSE seen[t]
    BY <1>1, OverIs
  <2> HIDE DEF o
  <2> QED
    BY <2>1
<1> HIDE DEF o
<1>3. /\ m \in Candles /\ DOMAIN m = {t \in DOMAIN o : t >= b.since}
      /\ \A t \in DOMAIN m : m[t] = o[t]
  BY <1>2, FromIs
<1> HIDE DEF m
<1>4. n = [b EXCEPT !.merged = m]
  BY DEF m, o
<1>5. /\ n \in Locals /\ n.merged = m /\ n.since = b.since /\ n.now = b.now
      /\ n.cursor = b.cursor /\ n.rows = b.rows /\ n.skipped = b.skipped
      /\ n.cut = b.cut /\ n.back = b.back /\ n.last_ts_seen = b.last_ts_seen
      /\ n.dropped = b.dropped /\ n.missed = b.missed /\ n.spoiled = b.spoiled
  BY <1>3, <1>4 DEF Locals
<1>6. Paged(n)
  BY <1>5 DEF Paged
<1>7. DOMAIN n.merged \subseteq listed
  BY <1>1, <1>2, <1>3, <1>5
<1>8. ASSUME ~n.skipped, NEW t \in Expected(n), t \notin DOMAIN b.rows
      PROVE  t \in n.cut /\ t + Frame \in DOMAIN n.merged \cup n.dropped
  <2>1. t \in listed /\ b.since <= t /\ t < b.now /\ t \in Nat /\ t \notin b.dropped
    BY <1>5 DEF Expected, Times
  <2>2. t < b.cursor
    BY <1>1, <2>1
  <2>3. t \in b.cut /\ t + Frame \in DOMAIN b.rows \cup b.dropped
    BY <1>5, <1>8, <2>1, <2>2 DEF Paged
  <2>4. t + Frame >= b.since
    BY <1>1, <2>1, LimitIs
  <2> QED
    BY <1>2, <1>3, <1>5, <2>3, <2>4
<1>9. ASSUME ~n.skipped, NEW t \in Expected(n) \ DOMAIN n.merged
      PROVE  t \in n.cut /\ t + Frame \in DOMAIN n.merged \cup n.dropped
  <2>1. t >= b.since
    BY <1>1, <1>5 DEF Expected, Times
  <2>2. t \notin DOMAIN b.rows
    BY <1>2, <1>3, <1>5, <1>9, <2>1
  <2> QED
    BY <1>8, <1>9, <2>2
<1>10. ASSUME ~n.skipped, NEW t \in DOMAIN n.merged \ (n.cut \cup n.dropped)
       PROVE  /\ n.merged[t] = "partial" => t + Frame > n.now
              /\ n.merged[t] = "torn"    => t >= n.now
  <2>1. t \in listed /\ t \in Nat /\ t >= b.since
    BY <1>3, <1>5, <1>7, <1>10 DEF Times
  <2>2. CASE t \in DOMAIN b.rows
    BY <1>2, <1>3, <1>5, <1>10, <2>2 DEF Paged
  <2>3. CASE t \notin DOMAIN b.rows
    <3>1. t \notin Expected(n)
      BY <1>8, <1>10, <2>3
    <3>2. t >= n.now
      BY <1>1, <1>5, <1>10, <2>1, <3>1 DEF Expected
    <3> QED
      BY <1>1, <1>5, <2>1, <3>2, LimitIs
  <2> QED
    BY <2>2, <2>3
<1>11. \A t \in DOMAIN seen : t >= b.since => t \in DOMAIN n.merged
  BY <1>2, <1>3, <1>5
<1> QED
  BY <1>5, <1>6, <1>7, <1>9, <1>10, <1>11 DEF Saves

LEMMA StartsPaged ==
  ASSUME listed \subseteq Times, clock \in Nat, NEW since \in Nat, since <= clock
  PROVE  Paged([NoCall EXCEPT !.since = since, !.now = clock, !.cursor = since])
<1> DEFINE b == [NoCall EXCEPT !.since = since, !.now = clock, !.cursor = since]
<1>1. /\ b.since = since /\ b.now = clock /\ b.cursor = since /\ b.back = -1
      /\ b.last_ts_seen = -1 /\ DOMAIN b.rows = {}
  BY NothingIs DEF NoCall
<1>2. listed \subseteq Nat
  BY DEF Times
<1> HIDE DEF b
<1> QED
  BY <1>1, <1>2 DEF Paged, b

LEMMA AnsweredPaged ==
  ASSUME listed \subseteq Times, clock \in Nat
  PROVE  Paged(NoCall)
<1>1. /\ NoCall.since = 0 /\ NoCall.now = 0 /\ NoCall.cursor = 0
      /\ NoCall.back = -1 /\ NoCall.last_ts_seen = -1
      /\ DOMAIN NoCall.rows = {}
  BY NothingIs DEF NoCall
<1>2. listed \subseteq Nat
  BY DEF Times
<1> QED
  BY <1>1, <1>2 DEF Paged

-----------------------------------------------------------------------------
(* Files that are being written                                            *)

\* Rows that are written in part, and what another has put behind them.
LEMMA TornIs ==
  ASSUME NEW f \in Candles, NEW g \in Torn(f)
  PROVE  g \in Candles /\ DOMAIN g \subseteq DOMAIN f
<1> DEFINE upto(t) == {u \in DOMAIN f : u <= t}
<1>1. \/ g = Nothing
      \/ \E t \in DOMAIN f : g = [u \in upto(t) |-> f[u]]
      \/ \E t \in DOMAIN f : g = [u \in upto(t) |-> IF u = t THEN "torn" ELSE f[u]]
  BY DEF Torn
<1>2. \A t : upto(t) \in SUBSET Times /\ upto(t) \subseteq DOMAIN f
  BY CandlesAre
<1>3. f \in [DOMAIN f -> Marks] /\ "torn" \in Marks
  BY CandlesAre DEF Marks
<1>4. CASE g = Nothing
  BY <1>4, NothingIs
<1>5. ASSUME NEW t \in DOMAIN f,
             \/ g = [u \in upto(t) |-> f[u]]
             \/ g = [u \in upto(t) |-> IF u = t THEN "torn" ELSE f[u]]
      PROVE  g \in Candles /\ DOMAIN g \subseteq DOMAIN f
  <2>1. upto(t) \in SUBSET Times /\ upto(t) \subseteq DOMAIN f
    BY <1>2
  <2>2. g \in [upto(t) -> Marks]
    BY <1>3, <1>5, <2>1
  <2> HIDE DEF upto
  <2>3. g \in Candles /\ DOMAIN g = upto(t)
    BY <2>1, <2>2, CandlesAre
  <2> QED
    BY <2>1, <2>3
<1> QED
  BY <1>1, <1>4, <1>5

LEMMA TailIs ==
  ASSUME NEW f \in Candles, NEW g \in Tails(f)
  PROVE  g \in Candles /\ DOMAIN g \subseteq DOMAIN f /\ (f = Nothing => g = Nothing)
<1>1. \/ g = Nothing
      \/ \E t \in DOMAIN f : g = [u \in {v \in DOMAIN f : v >= t} |-> f[u]]
  BY DEF Tails
<1>2. CASE g = Nothing
  BY <1>2, NothingIs
<1>3. ASSUME NEW t \in DOMAIN f, g = [u \in {v \in DOMAIN f : v >= t} |-> f[u]]
      PROVE  g \in Candles /\ DOMAIN g \subseteq DOMAIN f /\ f # Nothing
  <2> DEFINE S == {v \in DOMAIN f : v >= t}
  <2>1. S \in SUBSET Times /\ S \subseteq DOMAIN f /\ f \in [DOMAIN f -> Marks]
    BY CandlesAre
  <2>2. g \in [S -> Marks]
    BY <1>3, <2>1
  <2>3. f # Nothing
    BY <1>3, NothingIs
  <2> HIDE DEF S
  <2> QED
    BY <2>1, <2>2, <2>3, CandlesAre
<1> QED
  BY <1>1, <1>2, <1>3

LEMMA AnywhereIs ==
  ASSUME NEW f \in Candles, NEW m \in Candles, NEW g \in Anywhere(f, m)
  PROVE  g \in Candles /\ DOMAIN g \subseteq DOMAIN f \cup DOMAIN m
<1>1. PICK tail \in Tails(f), head \in Torn(m) : g = Over(tail, head)
  BY DEF Anywhere
<1>2. /\ tail \in Candles /\ DOMAIN tail \subseteq DOMAIN f
      /\ head \in Candles /\ DOMAIN head \subseteq DOMAIN m
  BY <1>1, TailIs, TornIs
<1>3. Over(tail, head) \in Candles /\ DOMAIN Over(tail, head) = DOMAIN head \cup DOMAIN tail
  BY <1>2, OverIs
<1> QED
  BY <1>1, <1>2, <1>3

LEMMA OverTailIs ==
  ASSUME NEW f \in Candles, NEW m \in Candles, NEW tail \in Tails(f)
  PROVE  /\ Over(tail, m) \in Candles
         /\ DOMAIN Over(tail, m) \subseteq DOMAIN f \cup DOMAIN m
         /\ f = Nothing => Over(tail, m) = m
<1>1. tail \in Candles /\ DOMAIN tail \subseteq DOMAIN f /\ (f = Nothing => tail = Nothing)
  BY TailIs
<1>2. Over(tail, m) \in Candles /\ DOMAIN Over(tail, m) = DOMAIN m \cup DOMAIN tail
  BY <1>1, OverIs
<1>3. ASSUME tail = Nothing PROVE Over(tail, m) = m
  <2>1. DOMAIN tail = {}
    BY <1>3, NothingIs
  <2>2. Over(tail, m) = [t \in DOMAIN m |-> m[t]]
    BY <2>1 DEF Over
  <2>3. m \in [DOMAIN m -> Marks]
    BY CandlesAre
  <2> QED
    BY <2>2, <2>3
<1> QED
  BY <1>1, <1>2, <1>3

\* What a reader finds is the file, or what somebody is writing over it.
LEMMA SeenIs ==
  ASSUME file \in Candles, \A c \in Callers : call[c].merged \in Candles,
         NEW seen \in Seen
  PROVE  /\ seen \in Candles
         /\ \/ seen = file /\ Writers = {}
            \/ \E w \in Writers : DOMAIN seen \subseteq DOMAIN file \cup DOMAIN call[w].merged
<1>1. \/ seen = file /\ Writers = {}
      \/ \E w \in Writers : seen \in Anywhere(file, call[w].merged)
  BY DEF Seen
<1>2. ASSUME NEW w \in Writers, seen \in Anywhere(file, call[w].merged)
      PROVE  seen \in Candles /\ DOMAIN seen \subseteq DOMAIN file \cup DOMAIN call[w].merged
  BY <1>2, AnywhereIs DEF Writers
<1> QED
  BY <1>1, <1>2

\* A file that is seen or left has candles of the exchange only.
LEMMA SeenIsListed ==
  ASSUME Progress, NEW seen \in Seen
  PROVE  seen \in Candles /\ DOMAIN seen \subseteq listed
<1>1. /\ file \in Candles /\ DOMAIN file \subseteq listed
      /\ \A c \in Callers : call[c].merged \in Candles
  BY DEF Progress, Typed, Locals
<1>2. \A w \in Writers : DOMAIN call[w].merged \subseteq listed
  BY DEF Progress, Writers, Merging, Saves
<1> QED
  BY <1>1, <1>2, SeenIs

\* A change of the file that the others with an open file are told of.
LEMMA SpoilIs ==
  ASSUME call \in [Callers -> Locals], NEW c \in Callers, NEW b \in Locals
  PROVE  /\ Spoil(c, b) \in [Callers -> Locals] /\ Spoil(c, b)[c] = b
         /\ \A d \in Callers : d # c =>
              /\ Alike(Spoil(c, b)[d], call[d])
              /\ Spoil(c, b)[d].missed = call[d].missed
              /\ call[d].spoiled => Spoil(c, b)[d].spoiled
              /\ pc[d] \in {"write", "reply"} => Spoil(c, b)[d].spoiled
<1> DEFINE s == Spoil(c, b)
<1>1. \A d \in Callers :
        s[d] = CASE d = c -> b
                 [] d # c /\ pc[d] \in {"write", "reply"} -> [call[d] EXCEPT !.spoiled = TRUE]
                 [] OTHER -> call[d]
  BY DEF Spoil
<1>2. s[c] = b
  BY <1>1
<1>3. ASSUME NEW d \in Callers, d # c
      PROVE  /\ s[d] \in Locals /\ Alike(s[d], call[d])
             /\ s[d].missed = call[d].missed
             /\ call[d].spoiled => s[d].spoiled
             /\ pc[d] \in {"write", "reply"} => s[d].spoiled
  <2>1. call[d] \in Locals
    OBVIOUS
  <2>2. CASE pc[d] \in {"write", "reply"}
    <3>1. s[d] = [call[d] EXCEPT !.spoiled = TRUE]
      BY <1>1, <1>3, <2>2
    <3> QED
      BY <2>1, <3>1 DEF Locals, Alike
  <2>3. CASE pc[d] \notin {"write", "reply"}
    <3>1. s[d] = call[d]
      BY <1>1, <1>3, <2>3
    <3> QED
      BY <2>1, <2>3, <3>1 DEF Alike
  <2> QED
    BY <2>2, <2>3
<1>4. s = [d \in Callers |-> s[d]]
  BY DEF Spoil
<1> HIDE DEF s
<1>5. s \in [Callers -> Locals]
  BY <1>2, <1>3, <1>4
<1> QED
  BY <1>2, <1>3, <1>5 DEF s

LEMMA TruncateIs ==
  ASSUME Progress, NEW c \in Callers, Truncate(c)
  PROVE  /\ pc[c] = "open" /\ pc' = [pc EXCEPT ![c] = "write"] /\ file' = Nothing
         /\ kept' = {t \in kept : t >= call[c].since} /\ lost' = lost
         /\ UNCHANGED <<clock, listed, calls>>
         /\ call' \in [Callers -> Locals] /\ call'[c] = call[c]
         /\ \A d \in Callers : d # c =>
              /\ Alike(call'[d], call[d]) /\ call'[d].missed = call[d].missed
              /\ call[d].spoiled => call'[d].spoiled
              /\ pc[d] \in {"write", "reply"} => call'[d].spoiled
<1>1. call \in [Callers -> Locals] /\ call[c] \in Locals
  BY DEF Progress, Typed
<1>2. call' = Spoil(c, call[c])
  BY DEF Truncate
<1> QED
  BY <1>1, <1>2, SpoilIs DEF Truncate, Goes

LEMMA WriteIs ==
  ASSUME Progress, NEW c \in Callers, Write(c)
  PROVE  /\ pc[c] = "write" /\ pc' = [pc EXCEPT ![c] = "reply"]
         /\ file' \in Candles
         /\ DOMAIN file' \subseteq DOMAIN file \cup DOMAIN call[c].merged
         /\ kept' = kept \cup DOMAIN file'
         /\ lost' = (lost \cup call[c].missed \cup DOMAIN call[c].merged) \ DOMAIN file'
         /\ UNCHANGED <<clock, listed, calls>>
         /\ call' \in [Callers -> Locals] /\ Alike(call'[c], call[c])
         /\ ~call'[c].spoiled =>
              ~call[c].spoiled /\ (file = Nothing => file' = call[c].merged)
         /\ \A d \in Callers : d # c =>
              /\ Alike(call'[d], call[d])
              /\ call'[d].missed = IF pc[d] \in {"open", "write"}
                                   THEN call[d].missed \cup DOMAIN file'
                                   ELSE call[d].missed
              /\ pc[d] \in {"write", "reply"} => call'[d].spoiled
<1> DEFINE b == call[c]
           s == Spoil(c, b)
           told == [d \in Callers |->
                      IF d # c /\ pc[d] \in {"open", "write"}
                      THEN [s[d] EXCEPT !.missed = s[d].missed \cup DOMAIN file']
                      ELSE s[d]]
<1>1. call \in [Callers -> Locals] /\ b \in Locals /\ b.merged \in Candles /\ file \in Candles
  BY DEF Progress, Typed, Locals
<1>2. /\ s \in [Callers -> Locals] /\ s[c] = b
      /\ \A d \in Callers : d # c =>
           /\ Alike(s[d], call[d]) /\ s[d].missed = call[d].missed
           /\ pc[d] \in {"write", "reply"} => s[d].spoiled
  BY <1>1, SpoilIs
<1>3. \/ /\ file' \in {Over(tail, b.merged) : tail \in Tails(file)}
         /\ call' = told
      \/ /\ file' \in Anywhere(file, b.merged)
         /\ call' = [told EXCEPT ![c].spoiled = TRUE]
  BY DEF Write
<1>4. /\ file' \in Candles /\ DOMAIN file' \subseteq DOMAIN file \cup DOMAIN b.merged
      /\ call' = told => (file = Nothing => file' = b.merged)
         \/ call' = [told EXCEPT ![c].spoiled = TRUE]
  <2>1. CASE /\ file' \in {Over(tail, b.merged) : tail \in Tails(file)}
             /\ call' = told
    BY <1>1, <2>1, OverTailIs
  <2>2. CASE /\ file' \in Anywhere(file, b.merged)
             /\ call' = [told EXCEPT ![c].spoiled = TRUE]
    BY <1>1, <2>2, AnywhereIs
  <2> QED
    BY <1>3, <2>1, <2>2
<1> HIDE DEF s
<1>5. ASSUME NEW d \in Callers, d # c
      PROVE  /\ told[d] \in Locals /\ Alike(told[d], call[d])
             /\ told[d].missed = IF pc[d] \in {"open", "write"}
                                 THEN call[d].missed \cup DOMAIN file'
                                 ELSE call[d].missed
             /\ pc[d] \in {"write", "reply"} => told[d].spoiled
  <2>1. s[d] \in Locals /\ Alike(s[d], call[d]) /\ s[d].missed = call[d].missed
        /\ (pc[d] \in {"write", "reply"} => s[d].spoiled)
    BY <1>2, <1>5
  <2>2. DOMAIN file' \in SUBSET Times /\ s[d].missed \in SUBSET Times
    BY <1>4, <2>1, CandlesAre DEF Locals
  <2>3. CASE pc[d] \in {"open", "write"}
    <3>1. told[d] = [s[d] EXCEPT !.missed = s[d].missed \cup DOMAIN file']
      BY <1>5, <2>3
    <3> HIDE DEF told
    <3> QED
      BY <2>1, <2>2, <2>3, <3>1 DEF Locals, Alike
  <2>4. CASE pc[d] \notin {"open", "write"}
    <3>1. told[d] = s[d]
      BY <1>5, <2>4
    <3> HIDE DEF told
    <3> QED
      BY <2>1, <2>4, <3>1
  <2> QED
    BY <2>3, <2>4
<1>6. told[c] = b /\ told \in [Callers -> Locals]
  <2>1. told[c] = b
    BY <1>2
  <2>2. told = [d \in Callers |-> told[d]]
    OBVIOUS
  <2> HIDE DEF told
  <2> QED
    BY <1>1, <1>5, <2>1, <2>2
<1> HIDE DEF told
<1>7. /\ call' \in [Callers -> Locals] /\ Alike(call'[c], b)
      /\ \A d \in Callers : d # c => call'[d] = told[d]
      /\ ~call'[c].spoiled => call' = told /\ call'[c] = b
  <2>1. CASE call' = told
    BY <1>1, <1>6, <2>1 DEF Alike
  <2>2. CASE call' = [told EXCEPT ![c].spoiled = TRUE]
    <3>1. call'[c] = [b EXCEPT !.spoiled = TRUE]
      BY <1>6, <2>2
    <3>2. call'[c] \in Locals /\ Alike(call'[c], b) /\ call'[c].spoiled
      BY <1>1, <3>1 DEF Locals, Alike
    <3> QED
      BY <1>6, <2>2, <3>2
  <2> QED
    BY <1>3, <2>1, <2>2
<1>8. ~call'[c].spoiled => ~b.spoiled /\ (file = Nothing => file' = b.merged)
  <2> SUFFICES ASSUME ~call'[c].spoiled PROVE ~b.spoiled /\ (file = Nothing => file' = b.merged)
    OBVIOUS
  <2>1. call' = told /\ call'[c] = b
    BY <1>7
  <2>2. call' # [told EXCEPT ![c].spoiled = TRUE]
    <3>1. CASE call' = [told EXCEPT ![c].spoiled = TRUE]
      <4>1. call'[c] = [b EXCEPT !.spoiled = TRUE]
        BY <1>6, <3>1
      <4> QED
        BY <1>1, <4>1 DEF Locals
    <3> QED
      BY <3>1
  <2> QED
    BY <1>4, <2>1, <2>2
<1> QED
  BY <1>4, <1>5, <1>7, <1>8 DEF Write, Goes

LEMMA KillIs ==
  ASSUME Progress, Kill
  PROVE  /\ file' \in Candles /\ DOMAIN file' \subseteq listed
         /\ kept' = kept
         /\ lost' = (lost \cup UNION {Held(call[c]) : c \in Writers}) \ DOMAIN file'
         /\ Writers = {} => file' = file
         /\ pc' = [c \in Callers |-> "idle"] /\ call' = [c \in Callers |-> NoCall]
         /\ UNCHANGED <<clock, listed, calls>>
<1>1. file' \in Seen
  BY DEF Kill
<1>2. Writers = {} => Seen = {file}
  BY DEF Seen
<1>3. UNION {call[c].missed \cup DOMAIN call[c].merged : c \in Writers}
        = UNION {Held(call[c]) : c \in Writers}
  BY DEF Held
<1> QED
  BY <1>1, <1>2, <1>3, SeenIsListed DEF Kill

LEMMA ProgressStep == Progress /\ [Next]_vars => Progress'
<1> SUFFICES ASSUME Progress, [Next]_vars PROVE Progress'
  OBVIOUS
<1>1. /\ listed \subseteq Times /\ clock \in Start..Horizon /\ clock \in Nat
      /\ Start \in Nat /\ Horizon \in Nat /\ MaxCalls \in Nat
      /\ file \in Candles /\ DOMAIN file \subseteq listed
      /\ calls \in 0..MaxCalls /\ kept \subseteq Times /\ lost \subseteq Times
      /\ pc \in [Callers -> {"idle", "page", "open", "write", "reply"}]
      /\ call \in [Callers -> Locals]
  <2>1. Start \in Nat /\ Horizon \in Nat /\ MaxCalls \in Nat
    BY CacheConstants
  <2> QED
    BY <2>1 DEF Progress, Typed
<1>2. ASSUME NEW c \in Callers, Begin(c) PROVE Progress'
  <2>1. PICK span \in Spans :
          call' = [call EXCEPT ![c] = [NoCall EXCEPT
                     !.since = clock - span, !.now = clock, !.cursor = clock - span]]
    BY <1>2 DEF Begin
  <2>2. clock - span \in Nat /\ clock - span <= clock
    <3>1. span \in 1..Start
      BY CacheConstants
    <3> QED
      BY <1>1, <3>1
  <2> DEFINE b == [NoCall EXCEPT
                     !.since = clock - span, !.now = clock, !.cursor = clock - span]
  <2>3. b \in Locals /\ Paged(b)
    BY <1>1, <2>2, NoCallIs, StartsPaged
  <2>4. /\ call' = [call EXCEPT ![c] = b] /\ pc' = [pc EXCEPT ![c] = "page"]
        /\ UNCHANGED <<clock, listed, file, kept, lost>> /\ calls' \in 0..MaxCalls
    <3>1. calls < MaxCalls /\ calls' = calls + 1
      BY <1>2 DEF Begin
    <3>2. calls' \in 0..MaxCalls
      BY <1>1, <3>1
    <3>3. pc' = [pc EXCEPT ![c] = "page"] /\ UNCHANGED <<clock, listed, file, kept, lost>>
      BY <1>2 DEF Begin, Goes
    <3> QED
      BY <2>1, <3>2, <3>3
  <2> HIDE DEF b
  <2>5. /\ call' \in [Callers -> Locals] /\ call'[c] = b
        /\ \A d \in Callers : d # c => Alike(call'[d], call[d])
    BY <1>1, <2>3, <2>4, OwnCallChanges
  <2> QED
    BY <1>1, <2>3, <2>4, <2>5, OneCallChanges
<1>3. ASSUME NEW c \in Callers, FetchPage(c) PROVE Progress'
  <2> DEFINE b == call[c]
             window == Window(b.cursor, EndOf(b))
  <2>1. /\ b.cursor < b.now /\ pc[c] = "page" /\ pc' = [pc EXCEPT ![c] = "page"]
        /\ UNCHANGED <<clock, listed, file, calls, kept, lost>>
    BY <1>3 DEF FetchPage, Goes
  <2>2. PICK keep \in Keeps :
          \E good \in IF BadRows THEN SUBSET Page(window, keep)
                     ELSE {Page(window, keep)} :
          \E counted \in IF good = Page(window, keep) THEN {FALSE} ELSE BOOLEAN :
            call' = [call EXCEPT ![c] =
              Step(Fetched(b, keep, good, counted, Page(window, keep), window))]
    BY <1>3, Zenon DEF FetchPage, Fetched, EndOf
  <2> DEFINE page == Page(window, keep)
  <2>3. PICK good \in SUBSET page, counted \in BOOLEAN :
          call' = [call EXCEPT ![c] = Step(Fetched(b, keep, good, counted, page, window))]
    <3>1. (IF BadRows THEN SUBSET page ELSE {page}) \subseteq SUBSET page
      OBVIOUS
    <3>2. \A good : (IF good = page THEN {FALSE} ELSE BOOLEAN) \subseteq BOOLEAN
      OBVIOUS
    <3> QED
      BY <2>2, <3>1, <3>2, Zenon
  <2>4. b \in Locals /\ Paged(b) /\ keep \in {"oldest", "newest"}
    BY <1>1, CacheConstants DEF Progress
  <2> DEFINE n == Step(Fetched(b, keep, good, counted, page, window))
  <2> HIDE DEF b
  <2>5. n \in Locals /\ Paged(n)
    BY <1>1, <2>1, <2>4, FetchKeepsPaged
  <2>6. call' = [call EXCEPT ![c] = n]
    BY <2>3
  <2> HIDE DEF n
  <2>7. /\ call' \in [Callers -> Locals] /\ call'[c] = n
        /\ \A d \in Callers : d # c => Alike(call'[d], call[d])
    BY <1>1, <2>5, <2>6, OwnCallChanges
  <2> QED
    BY <1>1, <2>1, <2>5, <2>7, OneCallChanges
<1>4. ASSUME NEW c \in Callers, Merge(c) PROVE Progress'
  <2> DEFINE b == call[c]
  <2>1. /\ b.cursor >= b.now /\ pc' = [pc EXCEPT ![c] = "open"]
        /\ UNCHANGED <<clock, listed, file, calls, kept, lost>>
    BY <1>4 DEF Merge, Goes
  <2>2. PICK seen \in Seen :
          call' = [call EXCEPT ![c] = [b EXCEPT !.merged = From(b.since, Over(b.rows, seen))]]
    BY <1>1, <1>4 DEF Merge
  <2> DEFINE n == [b EXCEPT !.merged = From(b.since, Over(b.rows, seen))]
  <2>3. b \in Locals /\ Paged(b) /\ seen \in Candles /\ DOMAIN seen \subseteq listed
    BY <1>1, <2>2, SeenIsListed DEF Progress
  <2> HIDE DEF b
  <2>4. n \in Locals /\ Paged(n) /\ Saves(n)
    BY <1>1, <2>1, <2>3, MergeSaves
  <2>5. call' = [call EXCEPT ![c] = n]
    BY <2>2
  <2> HIDE DEF n
  <2>6. /\ call' \in [Callers -> Locals] /\ call'[c] = n
        /\ \A d \in Callers : d # c => Alike(call'[d], call[d])
    BY <1>1, <2>4, <2>5, OwnCallChanges
  <2> QED
    BY <1>1, <2>1, <2>4, <2>6, OneCallChanges
<1>5. ASSUME NEW c \in Callers, Truncate(c) PROVE Progress'
  <2>1. pc[c] = "open" /\ Paged(call[c]) /\ Saves(call[c])
    BY <1>5, TruncateIs DEF Progress, Merging
  <2>2. file' \in Candles /\ DOMAIN file' \subseteq listed
    BY <1>5, TruncateIs, NothingIs
  <2>3. kept' \subseteq Times /\ lost' \subseteq Times
    BY <1>1, <1>5, TruncateIs
  <2> QED
    BY <1>1, <1>5, <2>1, <2>2, <2>3, TruncateIs, OneCallChanges
<1>6. ASSUME NEW c \in Callers, OpenFails(c) PROVE Progress'
  <2> DEFINE n == [call[c] EXCEPT !.spoiled = TRUE]
  <2>1. /\ pc[c] = "open" /\ pc' = [pc EXCEPT ![c] = "reply"]
        /\ UNCHANGED <<clock, listed, file, calls, kept, lost>>
        /\ call' = [call EXCEPT ![c] = n]
    BY <1>1, <1>6 DEF OpenFails, Goes
  <2>2. call[c] \in Locals /\ Paged(call[c]) /\ Saves(call[c])
    BY <1>1, <2>1 DEF Progress, Merging
  <2>3. n \in Locals /\ Alike(n, call[c])
    BY <2>2 DEF Locals, Alike
  <2>4. Paged(n) /\ Saves(n)
    BY <2>2, <2>3, AlikeKeeps
  <2> HIDE DEF n
  <2>5. /\ call' \in [Callers -> Locals] /\ call'[c] = n
        /\ \A d \in Callers : d # c => Alike(call'[d], call[d])
    BY <1>1, <2>1, <2>3, OwnCallChanges
  <2> QED
    BY <1>1, <2>1, <2>4, <2>5, OneCallChanges
<1>7. ASSUME NEW c \in Callers, Write(c) PROVE Progress'
  <2>1. /\ pc[c] = "write" /\ Paged(call[c]) /\ Saves(call[c]) /\ call[c] \in Locals
        /\ DOMAIN call[c].merged \subseteq listed
    BY <1>1, <1>7, WriteIs DEF Progress, Merging, Saves
  <2>2. call'[c] \in Locals /\ Alike(call'[c], call[c])
    BY <1>7, WriteIs
  <2>3. Paged(call'[c]) /\ Saves(call'[c])
    BY <2>1, <2>2, AlikeKeeps
  <2>4. file' \in Candles /\ DOMAIN file' \subseteq listed
    BY <1>1, <1>7, <2>1, WriteIs
  <2>5. kept' \subseteq Times /\ lost' \subseteq Times
    <3>1. call[c].missed \subseteq Times /\ DOMAIN call[c].merged \subseteq Times
      BY <2>1, CandlesAre DEF Locals
    <3>2. DOMAIN file' \subseteq Times
      BY <2>4, CandlesAre
    <3>3. /\ kept' = kept \cup DOMAIN file'
          /\ lost' = (lost \cup call[c].missed \cup DOMAIN call[c].merged) \ DOMAIN file'
      BY <1>7, WriteIs
    <3> QED
      BY <1>1, <3>1, <3>2, <3>3
  <2> QED
    BY <1>1, <1>7, <2>3, <2>4, <2>5, WriteIs, OneCallChanges
<1>8. ASSUME NEW c \in Callers, Return(c) PROVE Progress'
  <2>1. /\ call' = [call EXCEPT ![c] = NoCall] /\ pc' = [pc EXCEPT ![c] = "idle"]
        /\ UNCHANGED <<clock, listed, file, calls, kept, lost>>
    BY <1>8 DEF Return, Goes
  <2>2. /\ call' \in [Callers -> Locals] /\ call'[c] = NoCall
        /\ \A d \in Callers : d # c => Alike(call'[d], call[d])
    BY <1>1, <2>1, NoCallIs, OwnCallChanges
  <2>3. Paged(NoCall)
    BY <1>1, AnsweredPaged
  <2> QED
    BY <1>1, <2>1, <2>2, <2>3, OneCallChanges
<1>9. CASE Kill
  <2>1. /\ file' \in Candles /\ DOMAIN file' \subseteq listed /\ kept' = kept
        /\ pc' = [c \in Callers |-> "idle"] /\ call' = [c \in Callers |-> NoCall]
        /\ UNCHANGED <<clock, listed, calls>>
    BY <1>9, KillIs
  <2>2. lost' \subseteq Times
    <3>1. \A c \in Writers : Held(call[c]) \subseteq Times
      BY <1>1, CandlesAre DEF Writers, Locals, Held
    <3>2. UNION {Held(call[c]) : c \in Writers} \subseteq Times
      BY <3>1
    <3> QED
      BY <1>1, <1>9, <3>2, KillIs
  <2>3. Typed'
    BY <1>1, <2>1, <2>2, NoCallIs DEF Typed
  <2>4. Paged(NoCall)
    BY <1>1, AnsweredPaged
  <2> QED
    BY <2>1, <2>3, <2>4 DEF Progress, Merging, Paged
<1>10. CASE Tick
  <2>1. /\ clock' = clock + 1 /\ clock' \in Start..Horizon /\ clock' \in Nat
        /\ UNCHANGED <<listed, file, pc, call, calls, kept, lost>>
    BY <1>1, <1>10 DEF Tick
  <2>2. Typed'
    BY <1>1, <2>1 DEF Typed
  <2>3. ASSUME NEW c \in Callers
        PROVE  Paged(call[c])' /\ (Merging(c)' => Saves(call[c])')
    <3>1. Paged(call[c]) /\ (Merging(c) => Saves(call[c])) /\ call[c].now \in Nat
      BY <1>1 DEF Progress, Locals
    <3>2. call[c].now <= clock'
      BY <1>1, <2>1, <3>1 DEF Paged
    <3> QED
      BY <2>1, <3>1, <3>2 DEF Paged, Saves, Expected, Merging
  <2> QED
    BY <1>1, <2>1, <2>2, <2>3 DEF Progress
<1>11. CASE UNCHANGED vars
  BY <1>11 DEF vars, Progress, Typed, Paged, Saves, Expected, Merging
<1> QED
  BY <1>2, <1>3, <1>4, <1>5, <1>6, <1>7, <1>8, <1>9, <1>10, <1>11 DEF Next, CallStep

LEMMA AlwaysProgress == Spec => []Progress
BY ProgressInit, ProgressStep, PTL DEF Spec

(* Every file, cursor, window and history keeps its kind, with any number  *)
(* of callers, failed writes and kills included.                           *)
THEOREM TypeCorrect == Spec => []TypeOK
<1>1. Progress => TypeOK
  <2> SUFFICES ASSUME Progress PROVE TypeOK
    OBVIOUS
  <2>1. \A f \in Candles : IsCandles(f)
    BY CandlesAre DEF IsCandles, Marks
  <2> QED
    BY <2>1 DEF Progress, Typed, TypeOK, Locals
<1> QED
  BY <1>1, AlwaysProgress, PTL

-----------------------------------------------------------------------------
(* Whose rows are in the file                                              *)

LEMMA WrittenStep ==
  ASSUME Progress, Written, [Next]_vars
  PROVE  Written'
<1>1. /\ file \in Candles /\ call \in [Callers -> Locals]
      /\ pc \in [Callers -> {"idle", "page", "open", "write", "reply"}]
  BY DEF Progress, Typed
\* A step of a caller that leaves the file alone.
<1>2. ASSUME NEW c \in Callers, file' = file, \A d \in Callers : d # c => call'[d] = call[d],
             NEW to, pc' = [pc EXCEPT ![c] = to],
             to \in {"idle", "page", "open"} \/ call'[c].spoiled
      PROVE  Written'
  BY <1>1, <1>2 DEF Written
<1>3. ASSUME NEW c \in Callers, Begin(c) \/ FetchPage(c) \/ Merge(c) \/ OpenFails(c) \/ Return(c)
      PROVE  Written'
  <2>1. /\ file' = file /\ \A d \in Callers : d # c => call'[d] = call[d]
    BY <1>1, <1>3 DEF Begin, FetchPage, Merge, OpenFails, Return
  <2>2. CASE OpenFails(c)
    <3>1. pc' = [pc EXCEPT ![c] = "reply"] /\ call' = [call EXCEPT ![c].spoiled = TRUE]
      BY <2>2 DEF OpenFails, Goes
    <3>2. call'[c].spoiled
      BY <1>1, <3>1 DEF Locals
    <3> QED
      BY <1>2, <2>1, <3>1, <3>2
  <2>3. CASE Begin(c) \/ FetchPage(c) \/ Merge(c) \/ Return(c)
    <3>1. \E to \in {"idle", "page", "open"} : pc' = [pc EXCEPT ![c] = to]
      BY <2>3 DEF Begin, FetchPage, Merge, Return, Goes
    <3> QED
      BY <1>2, <2>1, <3>1
  <2> QED
    BY <1>3, <2>2, <2>3
<1>4. ASSUME NEW c \in Callers, Truncate(c) PROVE Written'
  <2> SUFFICES ASSUME NEW d \in Callers, ~call'[d].spoiled
               PROVE  /\ pc'[d] = "write" => file' = Nothing
                      /\ pc'[d] = "reply" => file' = call'[d].merged
    BY DEF Written
  <2>1. file' = Nothing /\ pc' = [pc EXCEPT ![c] = "write"]
    BY <1>4, TruncateIs
  <2>2. CASE d = c
    BY <1>1, <2>1, <2>2
  <2>3. CASE d # c
    <3>1. pc'[d] = pc[d] /\ pc[d] \notin {"write", "reply"}
      BY <1>1, <1>4, <2>1, <2>3, TruncateIs
    <3> QED
      BY <3>1
  <2> QED
    BY <2>2, <2>3
<1>5. ASSUME NEW c \in Callers, Write(c) PROVE Written'
  <2> SUFFICES ASSUME NEW d \in Callers, ~call'[d].spoiled
               PROVE  /\ pc'[d] = "write" => file' = Nothing
                      /\ pc'[d] = "reply" => file' = call'[d].merged
    BY DEF Written
  <2>1. pc[c] = "write" /\ pc' = [pc EXCEPT ![c] = "reply"]
    BY <1>5, WriteIs
  <2>2. CASE d = c
    <3>1. ~call[c].spoiled /\ (file = Nothing => file' = call[c].merged)
      BY <1>5, <2>2, WriteIs
    <3>2. file = Nothing
      BY <2>1, <3>1 DEF Written
    <3>3. call'[c].merged = call[c].merged
      BY <1>5, WriteIs DEF Alike
    <3> QED
      BY <1>1, <2>1, <2>2, <3>1, <3>2, <3>3
  <2>3. CASE d # c
    <3>1. pc'[d] = pc[d] /\ pc[d] \notin {"write", "reply"}
      BY <1>1, <1>5, <2>1, <2>3, WriteIs
    <3> QED
      BY <3>1
  <2> QED
    BY <2>2, <2>3
<1>6. CASE Kill
  BY <1>6, KillIs DEF Written
<1>7. CASE Tick \/ UNCHANGED vars
  BY <1>7 DEF Tick, vars, Written
<1> QED
  BY <1>3, <1>4, <1>5, <1>6, <1>7 DEF Next, CallStep

(* A call that answers ok, whose write took place and after which nobody   *)
(* else has touched the file, has saved every candle of its window but for *)
(* those that the exchange withheld, of those cut off a page never two     *)
(* neighbours, and has replaced every candle that was saved while it       *)
(* formed or written in part - for any number of callers, every length of  *)
(* a candle and of a page, however the pages fall and whatever other       *)
(* calls, failed writes and kills had left in the file.                    *)
THEOREM SuccessIsComplete == Spec => []SuccessMeansSaved
<1>1. Progress /\ Written => SuccessMeansSaved
  <2> SUFFICES ASSUME Progress, Written PROVE SuccessMeansSaved
    OBVIOUS
  <2>1. ASSUME NEW c \in Callers, Succeeds(c)
        PROVE  /\ \A t \in Expected(call[c]) \ DOMAIN file :
                    t \in call[c].cut /\ t + Frame \in DOMAIN file \cup call[c].dropped
               /\ \A t \in DOMAIN file \ (call[c].cut \cup call[c].dropped) :
                    /\ file[t] = "partial" => t + Frame > call[c].now
                    /\ file[t] = "torn"    => t >= call[c].now
    <3>1. file = call[c].merged /\ ~call[c].skipped /\ Saves(call[c])
      BY <2>1 DEF Progress, Written, Succeeds, Merging
    <3> QED
      BY <3>1 DEF Saves
  <2>2. WindowComplete
    BY <2>1 DEF WindowComplete
  <2>3. NoStaleCandle
    BY <2>1 DEF NoStaleCandle
  <2>4. GapsAreSingle
    BY <2>1 DEF GapsAreSingle, Expected
  <2> QED
    BY <2>2, <2>3, <2>4 DEF SuccessMeansSaved
<1>2. Init => Written
  BY DEF Init, Written, NoCall
<1>3. Progress /\ Written /\ [Next]_vars => Written'
  BY WrittenStep
<1> QED
  BY <1>1, <1>2, <1>3, AlwaysProgress, PTL DEF Spec

-----------------------------------------------------------------------------
(* What becomes of the candles that were saved                             *)

\* Steps that leave the file, the writers and the histories alone.
LEMMA KeptQuiet ==
  ASSUME Kept, UNCHANGED <<file, kept, lost>>, Writers' = Writers,
         \A c \in Writers : Held(call'[c]) = Held(call[c]) /\ call'[c].missed = call[c].missed,
         \A c \in Callers : pc'[c] = "open" =>
           \/ pc[c] = "open" /\ Held(call'[c]) = Held(call[c]) /\ call'[c].since = call[c].since
           \/ \A t \in kept : t >= call'[c].since => t \in Held(call'[c]) \cup lost \/ Pending(t)
  PROVE  Kept'
<1>1. \A t : Pending(t)' <=> Pending(t)
  BY DEF Pending, Held
<1>2. ASSUME NEW c \in Callers, pc'[c] = "open", NEW t \in kept', t >= call'[c].since
      PROVE  t \in Held(call'[c]) \cup lost' \/ Pending(t)'
  <2>1. CASE pc[c] = "open" /\ Held(call'[c]) = Held(call[c]) /\ call'[c].since = call[c].since
    BY <1>1, <1>2, <2>1 DEF Kept
  <2>2. CASE \A u \in kept : u >= call'[c].since => u \in Held(call'[c]) \cup lost \/ Pending(u)
    BY <1>1, <1>2, <2>2
  <2> QED
    BY <1>2, <2>1, <2>2
<1>3. \A t \in kept' : t \in DOMAIN file' \cup lost' \/ Pending(t)'
  BY <1>1 DEF Kept
<1>4. \A c \in Writers' : DOMAIN file' \subseteq call'[c].missed
  BY DEF Kept
<1>5. \A c \in Callers :
        pc'[c] = "open" =>
          \A t \in kept' :
            t >= call'[c].since => t \in Held(call[c])' \cup lost' \/ Pending(t)'
  BY <1>2 DEF Held
<1> QED
  BY <1>3, <1>4, <1>5 DEF Kept

LEMMA KeptStep ==
  ASSUME Progress, Kept, [Next]_vars
  PROVE  Kept'
<1>1. /\ listed \subseteq Times /\ file \in Candles /\ kept \subseteq Times
      /\ pc \in [Callers -> {"idle", "page", "open", "write", "reply"}]
      /\ call \in [Callers -> Locals]
  BY DEF Progress, Typed
<1>2. ASSUME NEW c \in Callers, Begin(c) \/ FetchPage(c) \/ OpenFails(c) \/ Return(c)
      PROVE  Kept'
  <2>1. /\ UNCHANGED <<file, kept, lost>> /\ pc[c] \in {"idle", "page", "open", "reply"}
        /\ \A d \in Callers : d # c => call'[d] = call[d] /\ pc'[d] = pc[d]
        /\ pc'[c] \in {"page", "reply", "idle"}
    BY <1>1, <1>2 DEF Begin, FetchPage, OpenFails, Return, Goes
  <2>2. Writers' = Writers
    BY <1>1, <2>1 DEF Writers
  <2>3. \A d \in Writers : d # c /\ d \in Callers
    BY <1>1, <2>1 DEF Writers
  <2>4. \A d \in Writers : Held(call'[d]) = Held(call[d]) /\ call'[d].missed = call[d].missed
    BY <2>1, <2>3
  <2>5. \A d \in Callers : pc'[d] = "open" =>
          pc[d] = "open" /\ Held(call'[d]) = Held(call[d]) /\ call'[d].since = call[d].since
    BY <2>1
  <2> QED
    BY <2>1, <2>2, <2>4, <2>5, KeptQuiet
<1>3. ASSUME NEW c \in Callers, Merge(c) PROVE Kept'
  <2> DEFINE b == call[c]
  <2>1. /\ b.cursor >= b.now /\ pc[c] = "page" /\ pc' = [pc EXCEPT ![c] = "open"]
        /\ UNCHANGED <<clock, listed, file, calls, kept, lost>>
    BY <1>3 DEF Merge, Goes
  <2>2. PICK seen \in Seen :
          call' = [call EXCEPT ![c] = [b EXCEPT !.merged = From(b.since, Over(b.rows, seen))]]
    BY <1>1, <1>3 DEF Merge
  <2> DEFINE n == [b EXCEPT !.merged = From(b.since, Over(b.rows, seen))]
  <2>3. b \in Locals /\ Paged(b) /\ seen \in Candles /\ DOMAIN seen \subseteq listed
    BY <1>1, <2>2, SeenIsListed DEF Progress
  <2>4. Writers' = Writers /\ \A d \in Writers : d # c /\ d \in Callers
    BY <1>1, <2>1 DEF Writers
  <2>5. call' = [call EXCEPT ![c] = n]
    BY <2>2
  <2> HIDE DEF b
  <2>6. /\ n \in Locals /\ Paged(n) /\ Saves(n)
        /\ n.since = b.since /\ n.missed = b.missed /\ n.spoiled = b.spoiled
        /\ {t \in DOMAIN seen : t >= b.since} \subseteq DOMAIN n.merged
    BY <1>1, <2>1, <2>3, MergeSaves
  <2> HIDE DEF n
  <2>7. /\ call'[c] = n /\ \A d \in Callers : d # c => call'[d] = call[d] /\ pc'[d] = pc[d]
    BY <1>1, <2>1, <2>5
  <2>8. ASSUME NEW t \in kept, t >= n.since
        PROVE  t \in Held(n) \cup lost \/ Pending(t)
    <3>1. t \in DOMAIN file \cup lost \/ Pending(t)
      BY DEF Kept
    <3>2. CASE t \in DOMAIN file
      <4>1. \/ seen = file
            \/ \E w \in Writers : TRUE
        BY <1>1, <2>2, SeenIs DEF Locals
      <4>2. CASE seen = file
        BY <2>6, <2>8, <3>2, <4>2 DEF Held
      <4>3. ASSUME NEW w \in Writers PROVE Pending(t)
        BY <3>2 DEF Kept, Pending, Held
      <4> QED
        BY <4>1, <4>2, <4>3
    <3> QED
      BY <3>1, <3>2
  <2>9. \A d \in Writers : Held(call'[d]) = Held(call[d]) /\ call'[d].missed = call[d].missed
    BY <2>4, <2>7
  <2>10. ASSUME NEW d \in Callers, pc'[d] = "open"
         PROVE  \/ pc[d] = "open" /\ Held(call'[d]) = Held(call[d]) /\ call'[d].since = call[d].since
                \/ \A t \in kept : t >= call'[d].since => t \in Held(call'[d]) \cup lost \/ Pending(t)
    <3>1. CASE d = c
      BY <2>7, <2>8, <3>1
    <3>2. CASE d # c
      BY <2>7, <2>10, <3>2
    <3> QED
      BY <3>1, <3>2
  <2> QED
    BY <2>1, <2>4, <2>9, <2>10, KeptQuiet
<1>4. ASSUME NEW c \in Callers, Truncate(c) PROVE Kept'
  <2>1. /\ pc[c] = "open" /\ pc' = [pc EXCEPT ![c] = "write"] /\ file' = Nothing
        /\ kept' = {t \in kept : t >= call[c].since} /\ lost' = lost
        /\ \A d \in Callers : Held(call'[d]) = Held(call[d]) /\ call'[d].since = call[d].since
    BY <1>4, TruncateIs DEF Alike, Held
  <2>2. Writers' = Writers \cup {c}
    BY <1>1, <2>1 DEF Writers
  <2>3. \A t : (t \in Held(call[c]) \/ Pending(t)) => Pending(t)'
    BY <2>1, <2>2 DEF Pending, Held, Writers
  <2>4. ASSUME NEW t \in kept'
        PROVE  t \in lost' \/ Pending(t)'
    <3>1. t \in Held(call[c]) \cup lost \/ Pending(t)
      BY <2>1, <2>4 DEF Kept
    <3> QED
      BY <2>1, <2>3, <3>1
  <2>5. \A d \in Writers' : DOMAIN file' \subseteq call'[d].missed
    BY <2>1, NothingIs
  <2> QED
    BY <2>4, <2>5 DEF Kept
<1>5. ASSUME NEW c \in Callers, Write(c) PROVE Kept'
  <2>1. /\ pc[c] = "write" /\ pc' = [pc EXCEPT ![c] = "reply"]
        /\ kept' = kept \cup DOMAIN file'
        /\ lost' = (lost \cup Held(call[c])) \ DOMAIN file'
    BY <1>5, WriteIs DEF Held
  <2>2. \A d \in Callers : d # c =>
          /\ call'[d].since = call[d].since
          /\ pc[d] \in {"open", "write"} =>
               /\ call'[d].missed = call[d].missed \cup DOMAIN file'
               /\ Held(call'[d]) = Held(call[d]) \cup DOMAIN file'
    BY <1>5, WriteIs DEF Alike, Held
  <2>3. Writers' = Writers \ {c} /\ Writers \subseteq Callers /\ c \in Writers
    BY <1>1, <2>1 DEF Writers
  <2>4. \A d \in Writers : pc[d] = "write"
    BY DEF Writers
  <2>5. \A t : Pending(t) => t \in DOMAIN file' \cup lost' \/ Pending(t)'
    <3> SUFFICES ASSUME NEW t, NEW w \in Writers, t \in Held(call[w])
                 PROVE  t \in DOMAIN file' \cup lost' \/ Pending(t)'
      BY DEF Pending
    <3>1. CASE w = c
      BY <2>1, <3>1
    <3>2. CASE w # c
      <4>1. w \in Writers' /\ t \in Held(call'[w])
        BY <2>2, <2>3, <2>4, <3>2
      <4> QED
        BY <4>1 DEF Pending, Held
    <3> QED
      BY <3>1, <3>2
  <2>6. DOMAIN file \subseteq Held(call[c])
    BY <2>3 DEF Kept, Held
  <2>7. ASSUME NEW t \in kept'
        PROVE  t \in DOMAIN file' \cup lost' \/ Pending(t)'
    <3>1. t \in DOMAIN file' \/ t \in DOMAIN file \cup lost \/ Pending(t)
      BY <2>1, <2>7 DEF Kept
    <3> QED
      BY <2>1, <2>5, <2>6, <3>1
  <2>8. ASSUME NEW d \in Callers, pc'[d] = "open", NEW t \in kept', t >= call'[d].since
        PROVE  t \in Held(call'[d]) \cup lost' \/ Pending(t)'
    <3>1. d # c /\ pc[d] = "open"
      BY <1>1, <2>1, <2>8
    <3>2. Held(call'[d]) = Held(call[d]) \cup DOMAIN file' /\ call'[d].since = call[d].since
      BY <2>2, <3>1
    <3>3. t \in DOMAIN file' \/ t \in Held(call[d]) \cup lost \/ Pending(t)
      BY <2>1, <2>8, <3>1, <3>2 DEF Kept
    <3> QED
      BY <2>1, <2>5, <3>2, <3>3
  <2>9. \A d \in Writers' : DOMAIN file' \subseteq call'[d].missed
    BY <2>2, <2>3, <2>4
  <2>10. \A d \in Callers :
           pc'[d] = "open" =>
             \A t \in kept' :
               t >= call'[d].since => t \in Held(call[d])' \cup lost' \/ Pending(t)'
    BY <2>8 DEF Held
  <2> QED
    BY <2>7, <2>9, <2>10 DEF Kept
<1>6. CASE Kill
  <2>1. /\ kept' = kept /\ Writers' = {} /\ \A c \in Callers : pc'[c] = "idle"
        /\ lost' = (lost \cup UNION {Held(call[c]) : c \in Writers}) \ DOMAIN file'
        /\ Writers = {} => file' = file
    BY <1>6, KillIs DEF Writers
  <2>2. \A t : Pending(t) => t \in UNION {Held(call[c]) : c \in Writers}
    BY DEF Pending
  <2>3. Writers # {} => DOMAIN file \subseteq UNION {Held(call[c]) : c \in Writers}
    BY DEF Kept, Held
  <2>4. \A t \in kept' : t \in DOMAIN file' \cup lost'
    BY <2>1, <2>2, <2>3 DEF Kept
  <2> QED
    BY <2>1, <2>4 DEF Kept
<1>7. CASE Tick \/ UNCHANGED vars
  BY <1>7 DEF Tick, vars, Kept, Pending, Writers, Held
<1> QED
  BY <1>2, <1>3, <1>4, <1>5, <1>6, <1>7 DEF Next, CallStep

(* Whenever nobody has truncated the file and not yet written it, it has   *)
(* every candle that was ever saved and not trimmed, but for those that    *)
(* a write cut short has cost, or a call that had read the file before     *)
(* they were saved - for any number of callers.                            *)
THEOREM LossesAreBounded == Spec => []SavedStays
<1>1. Kept => SavedStays
  BY DEF Kept, SavedStays, Pending
<1>2. Init => Kept
  BY NothingIs DEF Init, Kept, Writers
<1>3. Progress /\ Kept /\ [Next]_vars => Kept'
  BY KeptStep
<1> QED
  BY <1>1, <1>2, <1>3, AlwaysProgress, PTL DEF Spec

==============================================================================
