--------------------------- MODULE DecisionsProofs ---------------------------
(***************************************************************************)
(* Proofs about Decisions, for whatever is asked: any integers as scores,  *)
(* thresholds, prices and features, series of any length.  The invariant   *)
(* says that what was answered is what the route computes; what remains    *)
(* are facts about the operators.                                          *)
(***************************************************************************)
EXTENDS Decisions, FiniteSetTheorems, SequenceTheorems, WellFoundedInduction, TLAPS

Answers ==
  /\ request \in Requests
  /\ Answered("infer") =>
       answer = InferAnswer(request.scored, request.score15, request.htf,
                            request.best_thr, request.eps)
  /\ Answered("agents") => answer = DecideAll(request.features, request.thr)
  /\ Answered("train") =>
       answer \in TrainAnswers(request.close, request.tp, request.sl, request.pv)
  /\ Answered("env") =>
       answer = [pnl |-> EnvTrade(request.row, request.limits[1], request.limits[2],
                                  request.fee, request.atr_scale, 40, request.e_lo)]
  /\ Answered("features") =>
       answer = [cells |-> FeatureRow(request.n, request.i, request.mflow),
                 fbf |-> FalseBreak(request.i)]
  /\ Answered("bars") =>
       answer = [by_count |-> ByCount(request.rows, request.G),
                 by_time |-> ByTime(request.rows, request.G)]

\* A function on 1..n is a sequence of length n.
LEMMA LenIs ==
  ASSUME NEW S, NEW n \in Nat, NEW s \in [1..n -> S]
  PROVE  s \in Seq(S) /\ Len(s) = n
<1>1. s \in Seq(S)
  BY SeqDef
<1>2. DOMAIN s = 1..Len(s) /\ Len(s) \in Nat
  BY <1>1, LenProperties, Zenon
<1>3. DOMAIN s = 1..n
  OBVIOUS
<1>4. \A m \in Nat : 1..m = 1..n => m = n
  OBVIOUS
<1> QED
  BY <1>1, <1>2, <1>3, <1>4, Zenon

LEMMA RoutesAreApart ==
  ASSUME request \in Requests
  PROVE  /\ request.route = "infer" => request \in InferRequests
         /\ request.route = "agents" => request \in AgentRequests
         /\ request.route = "train" => request \in TrainRequests
         /\ request.route = "env" => request \in EnvRequests
         /\ request.route = "features" => request \in FeatureRequests
         /\ request.route = "bars" => request \in BarRequests
<1>1. request \in InferRequests => request.route = "infer"
  BY DecisionsConstants
<1>2. request \in AgentRequests => request.route = "agents"
  BY DecisionsConstants
<1>3. request \in TrainRequests => request.route = "train"
  BY DecisionsConstants
<1>4. request \in EnvRequests => request.route = "env"
  BY DecisionsConstants
<1>5. request \in FeatureRequests => request.route = "features"
  BY DecisionsConstants
<1>6. request \in BarRequests => request.route = "bars"
  BY DecisionsConstants
<1> QED
  BY <1>1, <1>2, <1>3, <1>4, <1>5, <1>6 DEF Requests

LEMMA AnswersInit == Init => Answers
BY DEF Init, Answers, Answered

LEMMA AnswersNext ==
  ASSUME Answers, [Next]_vars
  PROVE  Answers'
<1>1. CASE UNCHANGED vars
  BY <1>1 DEF vars, Answers, Answered
<1>2. CASE Infer
  BY <1>2 DEF Infer, Asked, Answers, Answered
<1>3. CASE Decide
  BY <1>3 DEF Decide, Asked, Answers, Answered
<1>4. CASE Train
  BY <1>4 DEF Train, Asked, Answers, Answered
<1>5. CASE Simulate
  BY <1>5 DEF Simulate, Asked, Answers, Answered
<1>6. CASE Describe
  BY <1>6 DEF Describe, Asked, Answers, Answered
<1>7. CASE Aggregate
  BY <1>7 DEF Aggregate, Asked, Answers, Answered
<1> QED
  BY <1>1, <1>2, <1>3, <1>4, <1>5, <1>6, <1>7 DEF Next

LEMMA AlwaysAnswers == Spec => []Answers
<1>1. Answers /\ [Next]_vars => Answers'
  BY AnswersNext
<1> QED
  BY AnswersInit, <1>1, PTL DEF Spec

-----------------------------------------------------------------------------
(* GET /api/infer                                                          *)

LEMMA FramesAreThree == IsFiniteSet(Frames) /\ Cardinality(Frames) = 3
<1>1. IsFiniteSet({}) /\ Cardinality({}) = 0
  BY FS_EmptySet
<1>2. IsFiniteSet({"60"}) /\ Cardinality({"60"}) = 1
  BY FS_Singleton
<1>3. {"60"} \cup {"240"} = {"60", "240"} /\ {"60", "240"} \cup {"1440"} = Frames
  BY DEF Frames
<1>4. "240" \notin {"60"} /\ "1440" \notin {"60", "240"}
  OBVIOUS
<1>5. IsFiniteSet({"60"} \cup {"240"}) /\ Cardinality({"60"} \cup {"240"}) = 2
  BY <1>2, <1>4, FS_AddElement
<1>6. IsFiniteSet({"60", "240"} \cup {"1440"}) /\ Cardinality({"60", "240"} \cup {"1440"}) = 3
  BY <1>3, <1>4, <1>5, FS_AddElement
<1> QED
  BY <1>3, <1>6

\* The weight of a score is a whole, or less where a frame disagrees.
LEMMA Weight ==
  ASSUME NEW score \in Int, NEW htf, DOMAIN htf \subseteq Frames
  PROVE  /\ Wctx(score, htf) \in 18..Whole
         /\ Wctx(score, htf) = Whole => \A f \in DOMAIN htf : Sgn(htf[f]) = Sgn(score)
<1> DEFINE D == DOMAIN htf
           A == Agreeing(score, htf)
<1>1. CASE D = {}
  BY <1>1 DEF Wctx, Whole
<1>2. CASE D # {}
  <2>1. IsFiniteSet(D) /\ Cardinality(D) \in Nat /\ Cardinality(D) <= 3
    BY FramesAreThree, FS_Subset, FS_CardinalityType
  <2>2. A \subseteq D
    BY DEF Agreeing
  <2>3. /\ IsFiniteSet(A) /\ Cardinality(A) \in Nat /\ Cardinality(A) <= Cardinality(D)
        /\ Cardinality(A) = Cardinality(D) => A = D
    BY <2>1, <2>2, FS_Subset, FS_CardinalityType
  <2>4. Cardinality(D) # 0
    BY <1>2, <2>1, FS_EmptySet
  <2>5. Wctx(score, htf) = 18 + (6 * Cardinality(A)) \div Cardinality(D)
    BY <1>2 DEF Wctx
  <2>6. \A a, d \in Nat : 0 < d /\ d <= 3 /\ a <= d =>
          /\ 18 + (6 * a) \div d \in 18..24
          /\ 18 + (6 * a) \div d = 24 => a = d
    <3> SUFFICES ASSUME NEW a \in Nat, NEW d \in Nat, 0 < d, d <= 3, a <= d
                 PROVE  /\ 18 + (6 * a) \div d \in 18..24
                        /\ 18 + (6 * a) \div d = 24 => a = d
      OBVIOUS
    <3>1. d = 1 \/ d = 2 \/ d = 3
      OBVIOUS
    <3>2. CASE d = 1
      BY <3>2
    <3>3. CASE d = 2
      BY <3>3
    <3>4. CASE d = 3
      BY <3>4
    <3> QED
      BY <3>1, <3>2, <3>3, <3>4
  <2>7. /\ Wctx(score, htf) \in 18..24
        /\ Wctx(score, htf) = 24 => A = D
    BY <2>1, <2>3, <2>4, <2>5, <2>6
  <2> QED
    BY <2>7 DEF Whole, Agreeing
<1> QED
  BY <1>1, <1>2

\* The votes of the frames are numbers, none against a score all agree with.
LEMMA VotesAreCounted ==
  ASSUME NEW sign, NEW htf, DOMAIN htf \subseteq Frames
  PROVE  /\ VotesFor(sign, htf) \in Nat
         /\ (\A f \in DOMAIN htf : Sgn(htf[f]) # sign) => VotesFor(sign, htf) = 0
<1> DEFINE voters == {f \in DOMAIN htf : Sgn(htf[f]) = sign}
           strong == {f \in voters : Strong(htf[f])}
<1>1. IsFiniteSet(voters) /\ IsFiniteSet(strong)
  BY FramesAreThree, FS_Subset
<1>2. Cardinality(voters) \in Nat /\ Cardinality(strong) \in Nat
  BY <1>1, FS_CardinalityType
<1>3. (\A f \in DOMAIN htf : Sgn(htf[f]) # sign) => voters = {} /\ strong = {}
  OBVIOUS
<1>4. Cardinality({}) = 0
  BY FS_EmptySet
<1>5. VotesFor(sign, htf) = Cardinality(voters) + Cardinality(strong)
  BY DEF VotesFor
<1> HIDE DEF voters, strong
<1> QED
  BY <1>2, <1>3, <1>4, <1>5

\* What the properties say of an answer, of any request.
LEMMA InferIsConsistent ==
  ASSUME NEW scored \in BOOLEAN, NEW score \in Int, NEW htf, NEW best_thr \in Int, NEW eps \in Int,
         DOMAIN htf \subseteq Frames
  PROVE  LET a == InferAnswer(scored, score, htf, best_thr, eps) IN
         /\ best_thr >= 30 /\ a.market_mode = "trendUp" => a.signal = "LONG"
         /\ best_thr >= 30 /\ a.market_mode = "trendDown" => a.signal = "SHORT"
         /\ a.market_mode = "correction" => a.wctx < Whole
         /\ \A m \in Nat : a.confidence >= m * a.scale /\ a.signal # "NEUTRAL" =>
              \/ (a.signal = "LONG") <=> (a.score15 > 0)
              \/ /\ a.market_mode = "flat" /\ m < 70
                 /\ 70 * Abs(a.score15) >= m * Thr(best_thr)
<1> DEFINE a == InferAnswer(scored, score, htf, best_thr, eps)
           inf == PolicyInfer(scored, score, htf)
           s == inf.score15
           thr == Thr(best_thr)
           net == NetHTF(inf.htf)
<1>1. /\ s \in Int /\ DOMAIN inf.htf \subseteq Frames
      /\ scored => s = score /\ inf.htf = htf /\ inf.wctx = Wctx(score, htf)
                   /\ inf.signal = PolicySignal(score, htf)
      /\ ~scored => s = 0
  BY DEF PolicyInfer, NoScore
<1>2. thr \in Int /\ thr > 0 /\ (best_thr >= 30 => thr >= 30)
  BY DEF Thr
<1>3. net \in Int
  BY <1>1, VotesAreCounted DEF NetHTF
<1>4. a.market_mode = MarketMode(s, thr, net) /\ a.wctx = inf.wctx /\ a.score15 = s
      /\ a.scale = 4 * thr /\ a.confidence = Confidence(s, thr, net)
      /\ a.signal = IF MarketMode(s, thr, net) = "flat" THEN FlatSignal(s, thr, eps) ELSE inf.signal
  BY DEF InferAnswer
<1> HIDE DEF a, inf, s, thr, net
<1>5. /\ MarketMode(s, thr, net) = "flat" <=> Abs(s) < thr
      /\ MarketMode(s, thr, net) = "correction" => Abs(s) >= thr /\ Sgn(s) * net <= -2
      /\ MarketMode(s, thr, net) = "trendUp" => s > 0 /\ Abs(s) >= thr
      /\ MarketMode(s, thr, net) = "trendDown" => s <= 0 /\ Abs(s) >= thr
  BY <1>1, <1>2, <1>3 DEF MarketMode, Abs
<1>6. Abs(s) >= thr => scored
  BY <1>1, <1>2 DEF Abs
<1>7. ASSUME scored
      PROVE  /\ PolicySignal(score, htf) = "LONG" => score > 0
             /\ PolicySignal(score, htf) = "SHORT" => score < 0
             /\ score >= 30 => PolicySignal(score, htf) = "LONG"
             /\ score <= -30 => PolicySignal(score, htf) = "SHORT"
             /\ PolicySignal(score, htf) \in Signals
  <2> DEFINE w == Wctx(score, htf)
  <2>1. w \in Int /\ 18 <= w /\ w <= 24
    BY Weight DEF Whole
  <2> HIDE DEF w
  <2>2. /\ score * w \in Int
        /\ score >= 30 => score * w >= 240
        /\ score <= -30 => score * w <= -240
        /\ score * w >= 240 => score > 0
        /\ score * w <= -240 => score < 0
    BY <2>1
  <2>3. PolicySignal(score, htf) = CASE Abs(score * w) < 240 -> "NEUTRAL"
                                     [] score * w >= 240 -> "LONG"
                                     [] OTHER -> "SHORT"
    BY DEF PolicySignal, ActGate, Whole, w
  <2> DEFINE aw == score * w
  <2> HIDE DEF aw
  <2> QED
    BY <2>2, <2>3 DEF Abs, Signals
<1>8. a.market_mode = "correction" => a.wctx < Whole
  <2> SUFFICES ASSUME a.market_mode = "correction"
               PROVE  a.wctx < Whole
    OBVIOUS
  <2>1. scored /\ Abs(score) >= thr /\ Sgn(score) * NetHTF(htf) <= -2
    BY <1>1, <1>4, <1>5, <1>6 DEF net
  <2>2. ASSUME \A f \in DOMAIN htf : Sgn(htf[f]) = Sgn(score)
        PROVE  FALSE
    <3>1. CASE score > 0
      <4>1. VotesFor(-1, htf) = 0 /\ VotesFor(1, htf) \in Nat
        BY <2>2, <3>1, VotesAreCounted DEF Sgn
      <4> QED
        BY <2>1, <3>1, <4>1 DEF NetHTF, Sgn
    <3>2. CASE score < 0
      <4>1. VotesFor(1, htf) = 0 /\ VotesFor(-1, htf) \in Nat
        BY <2>2, <3>2, VotesAreCounted DEF Sgn
      <4> QED
        BY <2>1, <3>2, <4>1 DEF NetHTF, Sgn
    <3>3. score # 0
      BY <1>2, <2>1 DEF Abs
    <3> QED
      BY <3>1, <3>2, <3>3
  <2>3. Wctx(score, htf) \in 18..Whole /\ Wctx(score, htf) # Whole
    BY <2>2, Weight
  <2> QED
    BY <1>1, <1>4, <2>1, <2>3 DEF Whole
<1>9. ASSUME NEW m \in Nat, a.confidence >= m * a.scale, a.signal # "NEUTRAL"
      PROVE  \/ (a.signal = "LONG") <=> (a.score15 > 0)
             \/ a.market_mode = "flat" /\ m < 70 /\ 70 * Abs(a.score15) >= m * thr
  <2>1. CASE Abs(s) < thr
    <3> DEFINE p == m * thr
    <3>1. Confidence(s, thr, net) = 280 * Abs(s) /\ Abs(s) \in Int
      BY <1>1, <2>1 DEF Confidence, Abs
    <3>2. m * (4 * thr) = 4 * p /\ p \in Int /\ (m >= 70 => p >= 70 * thr)
      BY <1>2
    <3>3. 280 * Abs(s) >= 4 * p
      BY <1>4, <1>9, <3>1, <3>2
    <3>4. a.market_mode = "flat" /\ a.score15 = s
      BY <1>4, <1>5, <2>1
    <3> HIDE DEF p
    <3>5. m < 70 /\ 70 * Abs(s) >= p
      BY <1>2, <2>1, <3>1, <3>2, <3>3
    <3> QED
      BY <3>4, <3>5 DEF p
  <2>2. CASE ~(Abs(s) < thr)
    <3>1. Abs(s) >= thr
      BY <1>1, <1>2, <2>2 DEF Abs
    <3>2. MarketMode(s, thr, net) # "flat"
      BY <1>5, <2>2
    <3>3. scored /\ a.signal = PolicySignal(score, htf) /\ a.score15 = score
      BY <1>1, <1>4, <1>6, <3>1, <3>2
    <3> QED
      BY <1>7, <1>9, <3>3 DEF Signals
  <2> QED
    BY <2>1, <2>2
<1>10. best_thr >= 30 =>
         /\ a.market_mode = "trendUp" => a.signal = "LONG"
         /\ a.market_mode = "trendDown" => a.signal = "SHORT"
  BY <1>1, <1>2, <1>4, <1>5, <1>6, <1>7 DEF Abs
<1> QED
  BY <1>8, <1>9, <1>10 DEF a, thr

LEMMA ModeMatches == Answers => ModeMatchesPolicy
<1> SUFFICES ASSUME Answers
             PROVE  ModeMatchesPolicy
  OBVIOUS
<1>1. ASSUME Answered("infer")
      PROVE  /\ request.best_thr >= 30 /\ answer.market_mode = "trendUp" => answer.signal = "LONG"
             /\ request.best_thr >= 30 /\ answer.market_mode = "trendDown" => answer.signal = "SHORT"
             /\ answer.market_mode = "correction" => answer.wctx < Whole
             /\ \A m \in Nat : answer.confidence >= m * answer.scale
                                /\ answer.signal # "NEUTRAL" =>
                  \/ (answer.signal = "LONG") <=> (answer.score15 > 0)
                  \/ /\ answer.market_mode = "flat" /\ m < 70
                     /\ 70 * Abs(answer.score15) >= m * Thr(request.best_thr)
  <2>1. request \in InferRequests
    BY <1>1, RoutesAreApart DEF Answers, Answered
  <2>2. /\ request.scored \in BOOLEAN /\ request.score15 \in Int /\ request.best_thr \in Int
        /\ request.eps \in Int /\ DOMAIN request.htf \subseteq Frames
    BY <2>1, DecisionsConstants
  <2>3. answer = InferAnswer(request.scored, request.score15, request.htf,
                             request.best_thr, request.eps)
    BY <1>1 DEF Answers
  <2> QED
    BY <2>2, <2>3, InferIsConsistent
<1>2. TrendIsFollowed /\ CorrectionIsDiscounted
  BY <1>1 DEF TrendIsFollowed, CorrectionIsDiscounted
<1>3. InvertedEntriesAreFlat
  <2> SUFFICES ASSUME Answered("infer"), NEW m \in MinConfidences, NEW last \in Closes,
                      NEW tp \in Percents, NEW sl \in Percents, Enters(answer, last, tp, sl, m)
               PROVE  \/ (answer.signal = "LONG") <=> (answer.score15 > 0)
                      \/ /\ answer.market_mode = "flat" /\ m < 70
                         /\ 70 * Abs(answer.score15) >= m * Thr(request.best_thr)
    BY DEF InvertedEntriesAreFlat
  <2>1. m \in Nat
    BY DecisionsConstants
  <2>2. answer.signal # "NEUTRAL" /\ answer.confidence >= m * answer.scale
    BY DEF Enters
  <2> QED
    BY <1>1, <2>1, <2>2
<1> QED
  BY <1>2, <1>3 DEF ModeMatchesPolicy

(* For any scores, votes, thresholds and corridors: the mode and the       *)
(* confidence that /api/infer shows fit the decision of the policy.        *)
THEOREM ModeFitsThePolicy == Spec => []ModeMatchesPolicy
BY AlwaysAnswers, ModeMatches, PTL

-----------------------------------------------------------------------------
(* Limits of orders and of simulated trades                                *)

\* What is sent for a price, compared with what is sent for another.
LEMMA SentIsNear ==
  ASSUME NEW price \in Int, NEW close \in Int, NEW n \in Sent(price)
  PROVE  /\ price >= close + Micro => n * Micro > close
         /\ price <= close - Micro => n * Micro < close
         /\ price <= close => \E c \in Sent(close) : n <= c
         /\ price >= close => \E c \in Sent(close) : n >= c
<1> DEFINE q == close \div Micro
           r == close % Micro
           high == IF 2 * r >= Micro THEN q + 1 ELSE q
           low == IF 2 * r <= Micro THEN q ELSE q + 1
<1>1. Micro \in Nat /\ Micro > 0
  BY SMT DEF Micro, One
<1>2. n \in Int /\ n * Micro \in Int /\ 2 * Abs(n * Micro - price) <= Micro
  BY <1>1 DEF Sent
<1>3. 2 * (n * Micro - price) <= Micro /\ 2 * (price - n * Micro) <= Micro
  BY <1>1, <1>2 DEF Abs
<1>4. /\ q \in Int /\ r \in Int /\ 0 <= r /\ r < Micro /\ close = q * Micro + r
      /\ q * Micro \in Int /\ (q + 1) * Micro = q * Micro + Micro
  BY <1>1
<1>5. Sent(close) = {x \in {q, q + 1} : 2 * Abs(x * Micro - close) <= Micro}
  BY DEF Sent
<1> HIDE DEF q, r
<1>6. high \in Sent(close) /\ low \in Sent(close) /\ high \in Int /\ low \in Int
  <2>1. q * Micro - close = -r /\ (q + 1) * Micro - close = Micro - r
    BY <1>1, <1>4
  <2>2. Abs(q * Micro - close) = r /\ Abs((q + 1) * Micro - close) = Micro - r
    BY <1>1, <1>4, <2>1 DEF Abs
  <2>3. 2 * r <= Micro => q \in Sent(close)
    BY <1>5, <2>2
  <2>4. 2 * r >= Micro => q + 1 \in Sent(close)
    <3>1. 2 * r >= Micro => 2 * (Micro - r) <= Micro
      BY <1>1, <1>4
    <3> QED
      BY <1>5, <2>2, <3>1
  <2> QED
    BY <1>1, <1>4, <2>3, <2>4
<1>7. /\ n > q => n * Micro >= q * Micro + Micro
      /\ n > q + 1 => n * Micro >= q * Micro + 2 * Micro
      /\ n < q => n * Micro <= q * Micro - Micro
      /\ n < q + 1 => n * Micro <= q * Micro
  <2>1. \A d \in Int : d * Micro \in Int /\ (d >= 1 => d * Micro >= Micro)
                       /\ (d >= 2 => d * Micro >= 2 * Micro)
                       /\ (d <= -1 => d * Micro <= -Micro) /\ (d <= 0 => d * Micro <= 0)
    BY <1>1
  <2>2. n - q \in Int /\ n * Micro = q * Micro + (n - q) * Micro
    BY <1>1, <1>2, <1>4
  <2> QED
    BY <1>1, <1>2, <1>4, <2>1, <2>2
<1>8. price \in Int /\ close \in Int
  OBVIOUS
<1>9. price <= close => n <= high
  BY <1>1, <1>2, <1>3, <1>4, <1>7, <1>8
<1>10. price >= close => n >= low
  BY <1>1, <1>2, <1>3, <1>4, <1>7, <1>8
<1>11. /\ price >= close + Micro => n * Micro > close
       /\ price <= close - Micro => n * Micro < close
  BY <1>1, <1>2, <1>3, <1>8
<1> HIDE DEF high, low
<1> QED
  BY <1>6, <1>9, <1>10, <1>11

\* A percentage puts its level where its sign says.
LEMMA LevelIs ==
  ASSUME NEW last \in Nat, NEW p \in Int
  PROVE  Upwards(last * (One + p), last, p) /\ Downwards(last * (One - p), last, p)
<1> DEFINE d == last * p
           c == last * One
<1>1. last * (One + p) = c + d /\ last * (One - p) = c - d
  BY SMT DEF One
<1>2. d \in Int /\ c \in Int /\ (p <= 0 => d <= 0)
  BY SMT DEF One
<1> HIDE DEF d, c
<1>3. /\ c + d \in Int /\ c - d \in Int
      /\ d >= Micro => c + d >= c + Micro
      /\ d >= Micro => c - d <= c - Micro
      /\ p <= 0 => c + d <= c
      /\ p <= 0 => c - d >= c
  BY <1>2, SMT DEF Micro, One
<1>4. ASSUME NEW n \in Sent(c + d)
      PROVE  /\ d >= Micro => n * Micro > c
             /\ p <= 0 => \E x \in Sent(c) : n <= x
  BY <1>2, <1>3, <1>4, SentIsNear
<1>5. ASSUME NEW n \in Sent(c - d)
      PROVE  /\ d >= Micro => n * Micro < c
             /\ p <= 0 => \E x \in Sent(c) : n >= x
  BY <1>2, <1>3, <1>5, SentIsNear
<1>6. last * p = d /\ last * One = c
  BY DEF d, c
<1> QED
  BY <1>1, <1>4, <1>5, <1>6 DEF Upwards, Downwards

\* Clamped or not, a short's exchanged limits or a long's: nothing exceeds them.
LEMMA TradeIsBounded ==
  ASSUME NEW fr \in Int, NEW tp \in Nat, NEW sl \in Nat
  PROVE  /\ Trade(TRUE, fr, tp, sl) \in (-sl)..tp
         /\ \A is_long \in BOOLEAN, most \in Nat :
              most >= tp /\ most >= sl => Trade(is_long, fr, tp, sl) \in (-most)..most
BY DEF Trade

LEMMA LimitsArePositive ==
  ASSUME NEW tp \in Nat, NEW sl \in Nat, NEW atr \in Nat, NEW atr_scale \in BOOLEAN
  PROVE  /\ Limits(tp, sl, atr, atr_scale).tp \in Nat
         /\ Limits(tp, sl, atr, atr_scale).sl \in Nat
<1>1. \A x \in Int : Clamp(x, 1, 5000) \in Nat
  BY DEF Clamp
<1>2. (tp * (1000 + 350 * atr)) \div 1000 \in Int /\ (sl * (1000 - 175 * atr)) \div 1000 \in Int
  OBVIOUS
<1>3. CASE atr_scale
  <2>1. /\ Limits(tp, sl, atr, atr_scale).tp = Clamp((tp * (1000 + 350 * atr)) \div 1000, 1, 5000)
        /\ Limits(tp, sl, atr, atr_scale).sl = Clamp((sl * (1000 - 175 * atr)) \div 1000, 1, 5000)
    BY <1>3 DEF Limits
  <2> QED
    BY <1>1, <1>2, <2>1
<1>4. CASE ~atr_scale
  BY <1>4 DEF Limits
<1> QED
  BY <1>3, <1>4

LEMMA LevelsKeep == LevelsKeepTheirSides
<1> SUFFICES ASSUME NEW last \in Closes, NEW tp \in Percents, NEW sl \in Percents
             PROVE  LET levels == Levels(last, tp, sl, answer.signal) IN
                    IF answer.signal = "LONG"
                    THEN Upwards(levels.tp_price, last, tp) /\ Downwards(levels.sl_price, last, sl)
                    ELSE Upwards(levels.sl_price, last, sl) /\ Downwards(levels.tp_price, last, tp)
  BY DEF LevelsKeepTheirSides
<1>1. last \in Nat /\ tp \in Int /\ sl \in Int
  BY DecisionsConstants
<1>2. /\ Upwards(last * (One + tp), last, tp) /\ Downwards(last * (One - tp), last, tp)
      /\ Upwards(last * (One + sl), last, sl) /\ Downwards(last * (One - sl), last, sl)
  BY <1>1, LevelIs
<1> QED
  BY <1>2 DEF Levels

LEMMA TradesBound == Answers => TradesAreBounded
<1> SUFFICES ASSUME Answers, Answered("env")
             PROVE  TradesAreBounded
  BY DEF TradesAreBounded
<1> DEFINE row == request.row
           l == Limits(request.limits[1], request.limits[2], row.atr, request.atr_scale)
           larger == IF l.tp > l.sl THEN l.tp ELSE l.sl
           trade == Trade(row.p_long01 >= 40, row.fut_ret, l.tp, l.sl)
<1>1. request \in EnvRequests
  BY RoutesAreApart DEF Answers, Answered
<1>2. /\ row.fut_ret \in Int /\ row.p_long01 \in Int /\ row.atr \in Nat /\ row.e01 \in Int
      /\ request.limits[1] \in Nat /\ request.limits[2] \in Nat /\ request.fee \in Nat
      /\ request.atr_scale \in BOOLEAN /\ request.e_lo \in Int
  BY <1>1, DecisionsConstants
<1>3. answer.pnl = IF row.e01 < request.e_lo THEN 0 ELSE trade - request.fee
  BY DEF Answers, EnvTrade
<1>4. l.tp \in Nat /\ l.sl \in Nat
  BY <1>2, LimitsArePositive
<1>5. larger \in Nat /\ larger >= l.tp /\ larger >= l.sl
  BY <1>4
<1>6. /\ row.p_long01 >= 40 => trade \in (-l.sl)..l.tp
      /\ trade \in (-larger)..larger
  <2>1. Trade(TRUE, row.fut_ret, l.tp, l.sl) \in (-l.sl)..l.tp
    BY <1>2, <1>4, TradeIsBounded
  <2>2. /\ Trade(TRUE, row.fut_ret, l.tp, l.sl) \in (-larger)..larger
        /\ Trade(FALSE, row.fut_ret, l.tp, l.sl) \in (-larger)..larger
    <3> HIDE DEF l, larger
    <3> QED
      BY <1>2, <1>4, <1>5, TradeIsBounded
  <2>3. /\ row.p_long01 >= 40 => trade = Trade(TRUE, row.fut_ret, l.tp, l.sl)
        /\ ~(row.p_long01 >= 40) => trade = Trade(FALSE, row.fut_ret, l.tp, l.sl)
    BY DEF Trade
  <2> HIDE DEF trade, l, larger
  <2> QED
    BY <2>1, <2>2, <2>3
<1> HIDE DEF trade, l, larger
<1>7. trade \in Int
  BY <1>5, <1>6
<1>8. ~(row.e01 < request.e_lo) => answer.pnl + request.fee = trade
  BY <1>2, <1>3, <1>7
<1>9. CASE row.e01 < request.e_lo /\ row.p_long01 >= 40
  BY <1>2, <1>3, <1>9 DEF TradesAreBounded
<1>10. CASE row.e01 < request.e_lo /\ ~(row.p_long01 >= 40)
  BY <1>2, <1>3, <1>10 DEF TradesAreBounded
<1>11. CASE ~(row.e01 < request.e_lo) /\ row.p_long01 >= 40
  BY <1>2, <1>6, <1>8, <1>11 DEF TradesAreBounded, l, larger
<1>12. CASE ~(row.e01 < request.e_lo) /\ ~(row.p_long01 >= 40)
  BY <1>2, <1>6, <1>8, <1>12 DEF TradesAreBounded, l, larger
<1> QED
  BY <1>9, <1>10, <1>11, <1>12

(* For any prices, tp and sl of whatever sign, limits, fees and rows: an   *)
(* order's levels are sent on the sides of the close that tp and sl say,   *)
(* a simulated trade stays between its limits.                             *)
THEOREM LimitsAreKept == Spec => []LimitsHold
<1>1. Answers => LimitsHold
  BY LevelsKeep, TradesBound DEF LimitsHold
<1> QED
  BY AlwaysAnswers, <1>1, PTL

-----------------------------------------------------------------------------
(* GET /api/agents/decision                                                *)

AgentRows == [n : Nat, energy : Int, trend : Int, vol : Nat, spread : Nat, momentum : Int]

\* Who votes, and how sure of it; flat and correction never do.
LEMMA VotesAreSure ==
  ASSUME NEW f \in AgentRows, NEW thr \in Int
  PROVE  LET v == Votes(f, thr) IN
         /\ \A a \in Agents : v[a].signal \in {-1, 0, 1}
         /\ v["flat"].signal = 0 /\ v["correction"].signal = 0
         /\ v["long"].signal \in {0, 1} /\ v["short"].signal \in {0, -1}
         /\ \A a \in {"long", "short", "breakout"} :
              /\ v[a].confidence \in Int
              /\ v[a].signal # 0 => v[a].confidence > thr
         /\ thr >= 50 => v["long"].signal = 0 \/ v["short"].signal = 0
         /\ f = StubFeatures /\ thr >= 0 =>
              /\ v["breakout"].signal = 0
              /\ v["long"].signal = -v["short"].signal
<1> DEFINE v == Votes(f, thr)
<1>1. /\ v["long"] = Long(f, thr) /\ v["short"] = Short(f, thr) /\ v["flat"] = Flat(f, thr)
      /\ v["breakout"] = Breakout(f, thr) /\ v["correction"] = Correction(f, thr)
  BY DEF Votes, Agents
<1> HIDE DEF v
<1>2. \A x \in Int : Sigmoid(x) \in Int /\ (Sigmoid(x) > 50 <=> x > 0)
  BY DEF Sigmoid
<1>3. \A x \in Int : Tanh(x) \in Int /\ (x = 0 => Tanh(x) = 0)
  BY DEF Tanh
<1>4. f.energy \in Int /\ f.trend \in Int /\ f.vol \in Nat /\ f.n \in Nat
  BY DEF AgentRows
<1>5. /\ v["long"].signal = (IF Sigmoid(f.energy) > thr THEN 1 ELSE 0)
      /\ v["long"].confidence = Sigmoid(f.energy)
  BY <1>1 DEF Long, Vote
<1>6. /\ v["short"].signal = (IF Sigmoid(-f.energy) > thr THEN -1 ELSE 0)
      /\ v["short"].confidence = Sigmoid(-f.energy)
  BY <1>1 DEF Short, Vote
<1>7. v["flat"].signal = 0 /\ v["correction"].signal = 0
  BY <1>1 DEF Flat, Correction, Vote
<1>8. /\ v["breakout"].signal \in {-1, 0, 1}
      /\ v["breakout"].confidence \in Int
      /\ v["breakout"].signal # 0 => v["breakout"].confidence > thr
  <2> DEFINE c == IF f.n < 4 THEN 0 ELSE Tanh(f.vol + Magnitude(f.trend))
  <2>1. c \in Int
    BY <1>3, <1>4 DEF Magnitude
  <2>2. /\ v["breakout"].signal =
             (IF f.n < 4 \/ c <= thr THEN 0 ELSE IF f.trend >= 0 THEN 1 ELSE -1)
        /\ v["breakout"].confidence = c
    BY <1>1 DEF Breakout, Vote
  <2> HIDE DEF c
  <2> QED
    BY <2>1, <2>2
<1>9. -f.energy \in Int /\ Sigmoid(f.energy) \in Int /\ Sigmoid(-f.energy) \in Int
  BY <1>2, <1>4
<1>10. \A a \in Agents : v[a].signal \in {-1, 0, 1}
  BY <1>5, <1>6, <1>7, <1>8 DEF Agents
<1>11. thr >= 50 => v["long"].signal = 0 \/ v["short"].signal = 0
  <2>1. ~(Sigmoid(f.energy) > 50 /\ Sigmoid(-f.energy) > 50)
    BY <1>2, <1>4
  <2> QED
    BY <1>5, <1>6, <1>9, <2>1
<1>12. f = StubFeatures /\ thr >= 0 =>
         /\ v["breakout"].signal = 0
         /\ v["long"].signal = -v["short"].signal
  <2> SUFFICES ASSUME f = StubFeatures, thr >= 0
               PROVE  v["breakout"].signal = 0 /\ v["long"].signal = -v["short"].signal
    OBVIOUS
  <2>1. f.energy = 0 /\ f.trend = 0 /\ f.vol = 0 /\ f.n = 8
    BY DEF StubFeatures
  <2>2. v["long"].signal = -v["short"].signal
    BY <1>5, <1>6, <1>9, <2>1
  <2>3. Tanh(f.vol + Magnitude(f.trend)) = 0
    BY <2>1 DEF Magnitude, Tanh
  <2>4. v["breakout"].signal = 0
    BY <1>1, <2>1, <2>3 DEF Breakout, Vote
  <2> QED
    BY <2>2, <2>4
<1> QED
  BY <1>5, <1>6, <1>7, <1>8, <1>9, <1>10, <1>11, <1>12 DEF v

\* The winners of a vote, for any three that may vote.
LEMMA WinnersAreBacked ==
  ASSUME NEW v, NEW thr \in Int, NEW win \in {-1, 1}, NEW con,
         con \in {"long", "short"},
         \A a \in Agents : v[a].signal \in {-1, 0, 1},
         \A a \in {con, "breakout"} :
           v[a].confidence \in Int /\ (v[a].signal = win => v[a].confidence > thr),
         \A a \in Agents \ {con, "breakout"} : v[a].signal # win,
         FinalSignal(v) = win
  PROVE  /\ Summary(v).signal = win
         /\ Supporters(v) # {} => Summary(v).confidence > thr * Summary(v).voters
<1> DEFINE S == {a \in Agents : v[a].signal = win}
<1>1. Supporters(v) = S
  BY DEF Supporters
<1>2. S \subseteq {con, "breakout"} /\ con # "breakout" /\ con \in Agents /\ "breakout" \in Agents
  BY DEF Agents
<1>3. /\ Cardinality({con}) = 1 /\ IsFiniteSet({con})
      /\ Cardinality({"breakout"}) = 1
  BY FS_Singleton
<1>4. Cardinality({con} \cup {"breakout"}) = 2
  <2>1. "breakout" \notin {con}
    BY <1>2
  <2>2. Cardinality({con} \cup {"breakout"}) = Cardinality({con}) + 1
    BY <1>3, <2>1, FS_AddElement
  <2> QED
    BY <1>3, <2>2
<1>5. \A sure : (sure = [a \in Agents |-> IF a \in S THEN v[a].confidence ELSE 0]) =>
         AddUp(sure) = (IF con \in S THEN v[con].confidence ELSE 0)
                        + (IF "breakout" \in S THEN v["breakout"].confidence ELSE 0)
  BY <1>2 DEF AddUp, Agents
<1>6. /\ Summary(v).signal = win /\ Summary(v).voters = Cardinality(S)
      /\ Summary(v).confidence = AddUp([a \in Agents |-> IF a \in S THEN v[a].confidence ELSE 0])
  BY <1>1 DEF Summary
<1>7. Summary(v).confidence = (IF con \in S THEN v[con].confidence ELSE 0)
                                + (IF "breakout" \in S THEN v["breakout"].confidence ELSE 0)
  BY <1>5, <1>6
<1>8. \A a \in S : v[a].confidence \in Int /\ v[a].confidence > thr
  BY <1>2
<1> HIDE DEF S
<1>9. CASE con \in S /\ "breakout" \in S
  <2>1. S = {con} \cup {"breakout"}
    BY <1>2, <1>9
  <2>2. Summary(v).voters = 2
    BY <1>4, <1>6, <2>1
  <2>3. Summary(v).confidence = v[con].confidence + v["breakout"].confidence
    BY <1>7, <1>9
  <2>4. /\ v[con].confidence \in Int /\ v[con].confidence > thr
        /\ v["breakout"].confidence \in Int /\ v["breakout"].confidence > thr
    BY <1>8, <1>9
  <2>5. \A a, b \in Int : a > thr /\ b > thr => a + b > thr * 2
    OBVIOUS
  <2>6. Summary(v).confidence > thr * Summary(v).voters
    BY <2>2, <2>3, <2>4, <2>5
  <2> QED
    BY <1>6, <2>6, Zenon
<1>10. CASE con \in S /\ "breakout" \notin S
  <2>1. S = {con}
    BY <1>2, <1>10
  <2>2. Summary(v).voters = 1
    BY <1>3, <1>6, <2>1
  <2>3. v[con].confidence \in Int /\ v[con].confidence > thr
    BY <1>8, <1>10
  <2>4. Summary(v).confidence = v[con].confidence
    BY <1>7, <1>10, <2>3
  <2>5. thr * 1 = thr
    OBVIOUS
  <2> QED
    BY <1>6, <2>2, <2>3, <2>4, <2>5
<1>11. CASE con \notin S /\ "breakout" \in S
  <2>1. S = {"breakout"}
    BY <1>2, <1>11
  <2>2. Summary(v).voters = 1
    BY <1>3, <1>6, <2>1
  <2>3. v["breakout"].confidence \in Int /\ v["breakout"].confidence > thr
    BY <1>8, <1>11
  <2>4. Summary(v).confidence = v["breakout"].confidence
    BY <1>7, <1>11, <2>3
  <2>5. thr * 1 = thr
    OBVIOUS
  <2> QED
    BY <1>6, <2>2, <2>3, <2>4, <2>5
<1>12. CASE con \notin S /\ "breakout" \notin S
  <2>1. S = {}
    BY <1>2, <1>12
  <2> QED
    BY <1>1, <1>6, <2>1
<1> QED
  BY <1>9, <1>10, <1>11, <1>12

LEMMA DecisionIsBacked ==
  ASSUME NEW f \in AgentRows, NEW thr \in Int
  PROVE  LET d == DecideAll(f, thr) IN
         /\ d.signal # 0 => d.confidence > thr * d.voters
         /\ thr >= 50 /\ d.signal # 0 => d.conflict = 0
         /\ f = StubFeatures /\ thr >= 0 => d.signal = 0
<1> DEFINE d == DecideAll(f, thr)
           v == Votes(f, thr)
           l == v["long"].signal
           s == v["short"].signal
           b == v["breakout"].signal
<1>1. CASE f.n = 0
  BY <1>1 DEF DecideAll, Silence
<1>2. CASE f.n # 0
  <2>1. d = Summary(v)
    BY <1>2 DEF DecideAll
  <2>2. /\ \A a \in Agents : v[a].signal \in {-1, 0, 1}
        /\ v["flat"].signal = 0 /\ v["correction"].signal = 0
        /\ l \in {0, 1} /\ s \in {0, -1}
        /\ \A a \in {"long", "short", "breakout"} :
             /\ v[a].confidence \in Int
             /\ v[a].signal # 0 => v[a].confidence > thr
        /\ thr >= 50 => l = 0 \/ s = 0
        /\ f = StubFeatures /\ thr >= 0 => b = 0 /\ l = -s
    BY VotesAreSure
  <2> HIDE DEF v, d
  <2>3. b \in {-1, 0, 1}
    BY <2>2 DEF Agents
  <2>4. FinalSignal(v) = (IF l + s + b > 0 THEN 1 ELSE IF l + s + b < 0 THEN -1 ELSE 0)
    <3>1. AddUp([a \in Agents |-> v[a].signal]) = l + s + 0 + b + 0
      BY <2>2 DEF AddUp, Agents
    <3>2. l + s + 0 + b + 0 = l + s + b
      BY <2>2, <2>3
    <3> QED
      BY <3>1, <3>2 DEF FinalSignal
  <2>5. d.signal = FinalSignal(v)
    BY <2>1 DEF Summary
  <2>6. f = StubFeatures /\ thr >= 0 => d.signal = 0
    BY <2>2, <2>3, <2>4, <2>5
  <2>7. d.signal # 0 => d.confidence > thr * d.voters
    <3>1. CASE FinalSignal(v) = 1
      <4>1. \A a \in Agents \ {"long", "breakout"} : v[a].signal # 1
        BY <2>2 DEF Agents
      <4>2. l = 1 \/ b = 1
        BY <2>2, <2>3, <2>4, <3>1
      <4>3. Supporters(v) # {}
        BY <3>1, <4>2 DEF Supporters, Agents
      <4>4. \A a \in {"long", "breakout"} :
              v[a].confidence \in Int /\ (v[a].signal = 1 => v[a].confidence > thr)
        BY <2>2
      <4>5. Summary(v).confidence > thr * Summary(v).voters
        <5>1. 1 \in {-1, 1} /\ "long" \in {"long", "short"}
          OBVIOUS
        <5> QED
          BY <2>2, <3>1, <4>1, <4>3, <4>4, <5>1, WinnersAreBacked
      <4> QED
        BY <2>1, <4>5
    <3>2. CASE FinalSignal(v) = -1
      <4>1. \A a \in Agents \ {"short", "breakout"} : v[a].signal # -1
        BY <2>2 DEF Agents
      <4>2. s = -1 \/ b = -1
        BY <2>2, <2>3, <2>4, <3>2
      <4>3. Supporters(v) # {}
        BY <3>2, <4>2 DEF Supporters, Agents
      <4>4. \A a \in {"short", "breakout"} :
              v[a].confidence \in Int /\ (v[a].signal = -1 => v[a].confidence > thr)
        BY <2>2
      <4>5. Summary(v).confidence > thr * Summary(v).voters
        <5>1. -1 \in {-1, 1} /\ "short" \in {"long", "short"}
          OBVIOUS
        <5> QED
          BY <2>2, <3>2, <4>1, <4>3, <4>4, <5>1, WinnersAreBacked
      <4> QED
        BY <2>1, <4>5
    <3> QED
      BY <2>4, <2>5, <3>1, <3>2
  <2>8. thr >= 50 /\ d.signal # 0 => d.conflict = 0
    <3> SUFFICES ASSUME thr >= 50, d.signal # 0
                 PROVE  d.conflict = 0
      OBVIOUS
    <3>1. FinalSignal(v) # 0
      BY <2>5
    <3>2. \A a \in {"long", "short", "breakout"} : v[a].signal \in {0, FinalSignal(v)}
      BY <2>2, <2>3, <2>4, <3>1
    <3>3. \A a \in Agents : v[a].signal \in {0, FinalSignal(v)}
      BY <2>2, <3>2 DEF Agents
    <3>4. Ballot(v) \ Supporters(v) = {}
      BY <3>1, <3>3 DEF Ballot, Supporters
    <3>5. Summary(v).conflict = Cardinality(Ballot(v) \ Supporters(v))
      BY <3>1 DEF Summary
    <3> QED
      BY <2>1, <3>4, <3>5, FS_EmptySet
  <2> QED
    BY <2>6, <2>7, <2>8 DEF d
<1> QED
  BY <1>1, <1>2

LEMMA DirectionsBacked == Answers => DirectionsAreBacked
<1> SUFFICES ASSUME Answers, Answered("agents")
             PROVE  DirectionsAreBacked
  BY DEF DirectionsAreBacked, SupportersAreSure, HighThresholdsAreUnanimous, StubsDecideNothing
<1>1. request \in AgentRequests
  BY RoutesAreApart DEF Answers, Answered
<1>2. request.features \in AgentRows /\ request.thr \in Int
  BY <1>1, DecisionsConstants DEF AgentRows
<1>3. answer = DecideAll(request.features, request.thr)
  BY DEF Answers
<1> QED
  BY <1>2, <1>3, DecisionIsBacked
     DEF DirectionsAreBacked, SupportersAreSure, HighThresholdsAreUnanimous, StubsDecideNothing

(* For any features and thresholds: a direction the agents decide for has  *)
(* sure supporters, unanimous ones above a half, and no stub makes one.    *)
THEOREM DecisionsAreBacked == Spec => []DirectionsAreBacked
BY AlwaysAnswers, DirectionsBacked, PTL

-----------------------------------------------------------------------------
(* Features: of the candles up to i, and none a NaN from the row first on. *)

Sound(c, i, first) ==
  c.nan \in BOOLEAN /\ c.reads \subseteq 1..i /\ (i >= first => ~c.nan)

LEMMA CellIsSound ==
  ASSUME NEW i \in Nat, NEW reads \in SUBSET (1..i)
  PROVE  Sound(Cell(reads), i, 0)
BY DEF Sound, Cell

LEMMA ZeroIsSound == \A i \in Nat : Sound(Zero, i, 0)
BY DEF Sound, Zero, Cell

LEMMA LaterIsSound ==
  ASSUME NEW i \in Nat, NEW p \in Nat, NEW q \in Nat, p <= q, NEW c, Sound(c, i, p)
  PROVE  Sound(c, i, q)
BY DEF Sound

LEMMA WithIsSound ==
  ASSUME NEW i \in Nat, NEW p \in Nat, NEW a, Sound(a, i, p), NEW b, Sound(b, i, p)
  PROVE  Sound(With(a, b), i, p)
<1>1. With(a, b).reads = a.reads \cup b.reads /\ (With(a, b).nan <=> a.nan \/ b.nan)
  BY DEF With
<1>2. With(a, b).nan \in BOOLEAN
  BY DEF With
<1> QED
  BY <1>1, <1>2 DEF Sound

LEMMA TestedIsSound ==
  ASSUME NEW i \in Nat, NEW p \in Nat, NEW a, Sound(a, i, p)
  PROVE  Sound(Tested(a), i, 0)
BY DEF Sound, Tested, Cell

LEMMA FromIsSound ==
  ASSUME NEW i \in Nat, NEW first \in Nat, NEW p \in Nat, NEW c, i >= first => Sound(c, i, p)
  PROVE  Sound(From(first, i, c), i, p)
<1>1. CASE i >= first
  BY <1>1 DEF From
<1>2. CASE ~(i >= first)
  <2>1. Sound(Zero, i, p)
    BY ZeroIsSound, LaterIsSound
  <2> QED
    BY <1>2, <2>1 DEF From
<1> QED
  BY <1>1, <1>2

LEMMA ChangesAreSound ==
  ASSUME NEW i \in Nat, NEW period \in Nat
  PROVE  Sound(Changes(period, i), i, period + 1)
BY DEF Sound, Changes, Cell, Nan

\* A window of a series is sound once all the values in it are.
LEMMA RollingIsSound ==
  ASSUME NEW i \in Nat, NEW v, NEW p \in Nat, NEW period \in Nat \ {0},
         \A j \in 1..i : Sound(v[j], j, p)
  PROVE  Sound(Rolling(v, period, i), i, p + period)
<1> DEFINE window == (i - period + 1)..i
<1>1. CASE i < period
  BY <1>1 DEF Rolling, Sound, Nan
<1>2. CASE ~(i < period)
  <2>1. window \subseteq 1..i
    BY <1>2
  <2>2. /\ Rolling(v, period, i).nan = (\E j \in window : v[j].nan)
        /\ Rolling(v, period, i).reads = UNION {v[j].reads : j \in window}
    BY <1>2 DEF Rolling
  <2>3. \A j \in window : v[j].reads \subseteq 1..i
    BY <2>1 DEF Sound
  <2>4. i >= p + period => \A j \in window : j >= p
    OBVIOUS
  <2>5. i >= p + period => \A j \in window : ~v[j].nan
    BY <2>1, <2>4 DEF Sound
  <2>6. UNION {v[j].reads : j \in window} \subseteq 1..i
    BY <2>3
  <2> HIDE DEF window
  <2> QED
    BY <2>2, <2>5, <2>6 DEF Sound
<1> QED
  BY <1>1, <1>2

LEMMA SeriesAreSound ==
  ASSUME NEW i \in Nat
  PROVE  /\ Sound(Candle[i], i, 26) \/ i = 0
         /\ Sound(Rsi(i), i, 26) /\ Sound(Atr[i], i, 26) /\ Sound(Macd[i], i, 26)
<1>1. \A j \in Nat : Candle[j] = Cell({j}) /\ Atr[j] = Changes(14, j)
  BY DEF Candle, Atr
<1>2. \A j \in Nat \ {0} : Sound(Candle[j], j, 0)
  <2> TAKE j \in Nat \ {0}
  <2>1. {j} \in SUBSET (1..j)
    OBVIOUS
  <2> QED
    BY <1>1, <2>1, CellIsSound
<1>3. Sound(Rsi(i), i, 26) /\ Sound(Atr[i], i, 26)
  <2>1. 14 \in Nat /\ 14 + 1 \in Nat /\ 26 \in Nat /\ 14 + 1 <= 26
    OBVIOUS
  <2>2. Sound(Changes(14, i), i, 14 + 1)
    BY <2>1, ChangesAreSound, Zenon
  <2>3. Sound(Changes(14, i), i, 26)
    BY <2>1, <2>2 DEF Sound
  <2> QED
    BY <1>1, <2>3 DEF Rsi
<1>4. Sound(Rolling(Candle, 12, i), i, 0 + 12) /\ Sound(Rolling(Candle, 26, i), i, 0 + 26)
  <2>1. \A j \in 1..i : Sound(Candle[j], j, 0)
    BY <1>2
  <2>2. 0 \in Nat /\ 12 \in Nat \ {0} /\ 26 \in Nat \ {0}
    OBVIOUS
  <2> QED
    BY <2>1, <2>2, RollingIsSound, Zenon
<1>5. Sound(Rolling(Candle, 12, i), i, 26) /\ Sound(Rolling(Candle, 26, i), i, 26)
  BY <1>4, LaterIsSound
<1>6. Sound(Macd[i], i, 26)
  <2>1. Macd[i] = With(Rolling(Candle, 12, i), Rolling(Candle, 26, i))
    BY DEF Macd
  <2> QED
    BY <1>5, <2>1, WithIsSound
<1> QED
  BY <1>2, <1>3, <1>6, LaterIsSound

LEMMA ContextIsSound ==
  ASSUME NEW i \in Nat \ {0}
  PROVE  /\ Sound(Energy(i), i, 60) /\ Sound(Liquidity(i), i, 60)
         /\ Sound(Sentiment(i), i, 60) /\ Sound(Phase(i), i, 60)
         /\ Sound(Candle[i], i, 60) /\ Sound(Macd[i], i, 60)
         /\ Sound(Atr[i], i, 60) /\ Sound(Rsi(i), i, 60)
<1>1. /\ Sound(Candle[i], i, 60) /\ Sound(Macd[i], i, 60)
      /\ Sound(Atr[i], i, 60) /\ Sound(Rsi(i), i, 60)
  BY SeriesAreSound, LaterIsSound
<1>2. Sound(Energy(i), i, 60)
  <2> DEFINE sma == Rolling(Atr, 14, i)
  <2>1. Sound(sma, i, 26 + 14)
    <3>1. \A j \in 1..i : Sound(Atr[j], j, 26)
      BY SeriesAreSound
    <3>2. 26 \in Nat /\ 14 \in Nat \ {0} /\ i \in Nat
      OBVIOUS
    <3> QED
      BY <3>1, <3>2, RollingIsSound, Zenon
  <2>2. Sound(sma, i, 60)
    BY <2>1, LaterIsSound
  <2>3. Sound(With(Atr[i], sma), i, 60) /\ Sound(Zero, i, 60)
    BY <1>1, <2>2, WithIsSound, ZeroIsSound, LaterIsSound
  <2>4. Energy(i) = IF sma.nan THEN Zero ELSE With(Atr[i], sma)
    BY DEF Energy
  <2> HIDE DEF sma
  <2> QED
    BY <2>3, <2>4
<1>3. Sound(Liquidity(i), i, 60)
  <2>1. i >= 21 => Sound(Cell((i - 20)..i), i, 60)
    <3>1. i >= 21 => (i - 20)..i \in SUBSET (1..i)
      OBVIOUS
    <3> QED
      BY <3>1, CellIsSound, LaterIsSound
  <2> QED
    BY <2>1, FromIsSound DEF Liquidity
<1>4. Sound(Sentiment(i), i, 60)
  <2>1. 1..i \in SUBSET (1..i)
    OBVIOUS
  <2> QED
    BY <2>1, CellIsSound, LaterIsSound DEF Sentiment
<1>5. Sound(Phase(i), i, 60)
  <2>1. Sound(With(Energy(i), Liquidity(i)), i, 60) /\ Sound(With(Atr[i], Candle[i]), i, 60)
    BY <1>1, <1>2, <1>3, WithIsSound
  <2>2. Sound(With(With(Energy(i), Liquidity(i)), With(Atr[i], Candle[i])), i, 60)
    BY <2>1, WithIsSound
  <2> QED
    BY <2>2, TestedIsSound, LaterIsSound DEF Phase
<1> QED
  BY <1>1, <1>2, <1>3, <1>4, <1>5

\* The averages of the matrix, as differences and ratios of two windows.
LEMMA AveragesAreSound ==
  ASSUME NEW i \in Nat \ {0}
  PROVE  /\ Sound(With(Macd[i], Rolling(Macd, 9, i)), i, 60)
         /\ Sound(With(Rolling(Candle, 5, i), Rolling(Candle, 10, i)), i, 60)
         /\ Sound(With(Rolling(Candle, 10, i), Rolling(Candle, 20, i)), i, 60)
         /\ Sound(With(Rolling(Atr, 10, i), Rolling(Atr, 20, i)), i, 60)
<1>1. \A j \in 1..i : Sound(Macd[j], j, 26) /\ Sound(Candle[j], j, 26) /\ Sound(Atr[j], j, 26)
  BY SeriesAreSound
<1>2. \A v, period : (period \in {5, 9, 10, 20} /\ (\A j \in 1..i : Sound(v[j], j, 26))) =>
                       Sound(Rolling(v, period, i), i, 60)
  <2> SUFFICES ASSUME NEW v, NEW period \in {5, 9, 10, 20}, \A j \in 1..i : Sound(v[j], j, 26)
               PROVE  Sound(Rolling(v, period, i), i, 60)
    OBVIOUS
  <2>1. 26 \in Nat /\ i \in Nat /\ period \in Nat \ {0}
    OBVIOUS
  <2>2. Sound(Rolling(v, period, i), i, 26 + period)
    BY <2>1, RollingIsSound, Zenon
  <2>3. 26 + period \in Nat /\ 60 \in Nat /\ 26 + period <= 60
    OBVIOUS
  <2> QED
    BY <2>1, <2>2, <2>3 DEF Sound
<1>3. /\ Sound(Rolling(Macd, 9, i), i, 60) /\ Sound(Rolling(Candle, 5, i), i, 60)
      /\ Sound(Rolling(Candle, 10, i), i, 60) /\ Sound(Rolling(Candle, 20, i), i, 60)
      /\ Sound(Rolling(Atr, 10, i), i, 60) /\ Sound(Rolling(Atr, 20, i), i, 60)
  BY <1>1, <1>2, Zenon
<1>4. Sound(Macd[i], i, 60)
  BY ContextIsSound
<1> QED
  BY <1>3, <1>4, WithIsSound

\* From a first row on, what is read does not reach below the first candle.
LEMMA ReachesAreSound ==
  ASSUME NEW i \in Nat \ {0}
  PROVE  /\ Sound(From(3, i, Cell((i - 2)..i)), i, 60)
         /\ Sound(From(4, i, Cell({i - 3, i})), i, 60)
         /\ Sound(From(2, i, Cell({i - 1, i})), i, 60)
         /\ Sound(From(15, i, Cell((i - 14)..i)), i, 60)
<1>1. \A first \in Nat : \A reads :
        (i >= first => reads \in SUBSET (1..i)) => Sound(From(first, i, Cell(reads)), i, 60)
  <2> SUFFICES ASSUME NEW first \in Nat, NEW reads
               PROVE  (i >= first => reads \in SUBSET (1..i)) =>
                        Sound(From(first, i, Cell(reads)), i, 60)
    OBVIOUS
  <2>1. (i >= first => reads \in SUBSET (1..i)) => (i >= first => Sound(Cell(reads), i, 60))
    BY CellIsSound, LaterIsSound
  <2> QED
    BY <2>1, FromIsSound
<1>2. /\ i >= 3 => (i - 2)..i \in SUBSET (1..i)
      /\ i >= 4 => {i - 3, i} \in SUBSET (1..i)
      /\ i >= 2 => {i - 1, i} \in SUBSET (1..i)
      /\ i >= 15 => (i - 14)..i \in SUBSET (1..i)
  OBVIOUS
<1>3. 2 \in Nat /\ 3 \in Nat /\ 4 \in Nat /\ 15 \in Nat
  OBVIOUS
<1> QED
  BY <1>1, <1>2, <1>3, Zenon

\* The money flow is never a NaN; its running sum alone looks ahead.
LEMMA MoneyFlowIsSound ==
  ASSUME NEW i \in Nat \ {0}, NEW n \in Nat
  PROVE  \A k \in 1..4 :
           /\ k # 3 => Sound(MoneyFlow(n, i)[k], i, 60)
           /\ ~MoneyFlow(n, i)[k].nan
<1>1. Sound(Mfi(n, i), i, 60) /\ ~Mfi(n, i).nan
  <2>1. ~From(15, i, Cell((i - 14)..i)).nan /\ ~Zero.nan
    BY DEF From, Zero, Cell
  <2>2. Sound(Zero, i, 60)
    BY ZeroIsSound, LaterIsSound
  <2> QED
    BY <2>1, <2>2, ReachesAreSound DEF Mfi
<1>2. Sound(FlowRatio(n, i), i, 60) /\ ~FlowRatio(n, i).nan
  <2>1. Sound(FlowRatio(n, i), i, 60)
    BY <1>1, FromIsSound DEF FlowRatio
  <2>2. ~FlowRatio(n, i).nan
    BY <1>1 DEF FlowRatio, From, Zero, Cell
  <2> QED
    BY <2>1, <2>2
<1>3. Sound(Sfi(n, i), i, 60) /\ ~Sfi(n, i).nan
  <2>1. Sound(Sfi(n, i), i, 60)
    BY <1>1, <1>2, WithIsSound DEF Sfi
  <2>2. ~Sfi(n, i).nan
    BY <1>1, <1>2 DEF Sfi, With
  <2> QED
    BY <2>1, <2>2
<1>4. ~CumFlow(n, i).nan
  BY DEF CumFlow, Cell
<1>5. /\ MoneyFlow(n, i)[1] = Mfi(n, i) /\ MoneyFlow(n, i)[2] = FlowRatio(n, i)
      /\ MoneyFlow(n, i)[3] = CumFlow(n, i) /\ MoneyFlow(n, i)[4] = Sfi(n, i)
  BY DEF MoneyFlow
<1>6. \A k \in 1..4 : k = 1 \/ k = 2 \/ k = 3 \/ k = 4
  OBVIOUS
<1> QED
  BY <1>1, <1>2, <1>3, <1>4, <1>5, <1>6

LEMMA TechnicalIsSound ==
  ASSUME NEW i \in Nat \ {0}
  PROVE  /\ Technical(i) \in Seq({Technical(i)[k] : k \in 1..28})
         /\ Len(Technical(i)) = 28
         /\ \A k \in 1..28 : Sound(Technical(i)[k], i, 60)
<1> DEFINE T == Technical(i)
<1>1. /\ T[1] = Macd[i] /\ T[2] = Rsi(i) /\ T[3] = Macd[i]
      /\ T[4] = With(Macd[i], Rolling(Macd, 9, i)) /\ T[5] = Atr[i]
      /\ T[6] = From(3, i, Cell((i - 2)..i)) /\ T[7] = From(4, i, Cell({i - 3, i}))
      /\ T[8] = Energy(i) /\ T[9] = Liquidity(i) /\ T[10] = Sentiment(i)
      /\ T[11] = Candle[i] /\ T[12] = Candle[i]
      /\ T[13] = Phase(i) /\ T[14] = Phase(i) /\ T[15] = Phase(i) /\ T[16] = Candle[i]
      /\ T[17] = From(2, i, Cell({i - 1, i})) /\ T[18] = From(2, i, Cell({i - 1, i}))
  BY DEF Technical
<1>2. /\ T[19] = From(6, i, With(Rolling(Candle, 5, i), Rolling(Candle, 10, i)))
      /\ T[20] = From(15, i, Rsi(i)) /\ T[21] = With(Macd[i], Atr[i])
      /\ T[22] = From(11, i, With(Rolling(Candle, 10, i), Rolling(Candle, 20, i)))
      /\ T[23] = From(21, i, With(Rolling(Atr, 10, i), Rolling(Atr, 20, i)))
      /\ T[24] = Tested(With(Macd[i], Rsi(i))) /\ T[25] = Tested(With(Macd[i], Rsi(i)))
      /\ T[26] = With(Energy(i), Tested(Macd[i])) /\ T[27] = With(Sentiment(i), Energy(i))
      /\ T[28] = With(Phase(i), Sentiment(i))
  BY DEF Technical
<1>3. T \in [1..28 -> {T[k] : k \in 1..28}]
  BY DEF Technical
<1>4. T \in Seq({T[k] : k \in 1..28}) /\ Len(T) = 28
  <2>1. 28 \in Nat
    OBVIOUS
  <2> HIDE DEF T
  <2> QED
    BY <1>3, <2>1, LenIs, Zenon
<1> HIDE DEF T
<1>5. /\ Sound(T[1], i, 60) /\ Sound(T[2], i, 60) /\ Sound(T[3], i, 60) /\ Sound(T[5], i, 60)
      /\ Sound(T[8], i, 60) /\ Sound(T[9], i, 60) /\ Sound(T[10], i, 60)
      /\ Sound(T[11], i, 60) /\ Sound(T[12], i, 60) /\ Sound(T[13], i, 60)
      /\ Sound(T[14], i, 60) /\ Sound(T[15], i, 60) /\ Sound(T[16], i, 60)
  <2>1. /\ Sound(Energy(i), i, 60) /\ Sound(Liquidity(i), i, 60)
        /\ Sound(Sentiment(i), i, 60) /\ Sound(Phase(i), i, 60)
        /\ Sound(Candle[i], i, 60) /\ Sound(Macd[i], i, 60)
        /\ Sound(Atr[i], i, 60) /\ Sound(Rsi(i), i, 60)
    BY ContextIsSound
  <2> QED
    BY <1>1, <2>1, Zenon
<1>6. Sound(T[4], i, 60)
  <2>1. Sound(With(Macd[i], Rolling(Macd, 9, i)), i, 60)
    BY AveragesAreSound, Zenon
  <2> QED
    BY <1>1, <2>1, Zenon
<1>7. Sound(T[6], i, 60) /\ Sound(T[7], i, 60) /\ Sound(T[17], i, 60) /\ Sound(T[18], i, 60)
  BY <1>1, ReachesAreSound
<1>8. Sound(T[19], i, 60) /\ Sound(T[22], i, 60) /\ Sound(T[23], i, 60)
  BY <1>2, AveragesAreSound, FromIsSound
<1>9. Sound(T[20], i, 60)
  BY <1>2, ContextIsSound, FromIsSound
<1>10. Sound(T[21], i, 60) /\ Sound(T[27], i, 60) /\ Sound(T[28], i, 60)
  BY <1>2, ContextIsSound, WithIsSound
<1>11. Sound(T[24], i, 60) /\ Sound(T[25], i, 60)
  <2>1. Sound(With(Macd[i], Rsi(i)), i, 60)
    BY ContextIsSound, WithIsSound
  <2> QED
    BY <1>2, <2>1, TestedIsSound, LaterIsSound
<1>12. Sound(T[26], i, 60)
  <2>1. Sound(Tested(Macd[i]), i, 60)
    BY ContextIsSound, TestedIsSound, LaterIsSound
  <2> QED
    BY <1>2, <2>1, ContextIsSound, WithIsSound
<1>13. \A k \in 1..28 : Sound(T[k], i, 60)
  BY <1>5, <1>6, <1>7, <1>8, <1>9, <1>10, <1>11, <1>12
<1> QED
  BY <1>4, <1>13 DEF T

LEMMA RowIsSound ==
  ASSUME NEW i \in Nat \ {0}, NEW n \in Nat, NEW mflow \in BOOLEAN
  PROVE  LET row == FeatureRow(n, i, mflow) IN
         \A k \in DOMAIN row :
           /\ k # CumFlowColumn => Sound(row[k], i, 60)
           /\ i >= 60 => ~row[k].nan
<1> DEFINE row == FeatureRow(n, i, mflow)
           T == Technical(i)
           M == MoneyFlow(n, i)
           S == {T[k] : k \in 1..28} \cup {M[k] : k \in 1..4}
<1>1. /\ T \in Seq({T[k] : k \in 1..28}) /\ Len(T) = 28
      /\ \A k \in 1..28 : Sound(T[k], i, 60)
  BY TechnicalIsSound
<1>2. T \in Seq(S)
  <2>1. {T[k] : k \in 1..28} \subseteq S
    OBVIOUS
  <2> HIDE DEF T, S
  <2>2. \A A, B : A \subseteq B => \A s \in Seq(A) : s \in Seq(B)
    OBVIOUS
  <2> QED
    BY <1>1, <2>1, <2>2, Zenon
<1>3. M \in Seq(S) /\ Len(M) = 4
  <2>1. M[1] \in S /\ M[2] \in S /\ M[3] \in S /\ M[4] \in S
    OBVIOUS
  <2>2. M = <<M[1], M[2], M[3], M[4]>>
    BY DEF MoneyFlow
  <2>3. \A a, b, c, d, C : a \in C /\ b \in C /\ c \in C /\ d \in C =>
          <<a, b, c, d>> \in Seq(C) /\ Len(<<a, b, c, d>>) = 4
    OBVIOUS
  <2>4. <<M[1], M[2], M[3], M[4]>> \in Seq(S) /\ Len(<<M[1], M[2], M[3], M[4]>>) = 4
    <3> HIDE DEF M, S
    <3> QED
      BY <2>1, <2>3, Zenon
  <2> HIDE DEF M, S
  <2> QED
    BY <2>2, <2>4, Zenon
<1>4. \A k \in 1..4 : (k # 3 => Sound(M[k], i, 60)) /\ ~M[k].nan
  BY MoneyFlowIsSound
<1>5. row = T \o (IF mflow THEN M ELSE <<>>)
  BY DEF FeatureRow
<1> HIDE DEF row, T, M, S
<1>6. CASE mflow
  <2>1. row = T \o M
    BY <1>5, <1>6
  <2>2. /\ row \in Seq(S) /\ Len(row) = 32
        /\ \A k \in 1..32 : row[k] = IF k <= 28 THEN T[k] ELSE M[k - 28]
    <3>1. /\ row \in Seq(S) /\ Len(row) = Len(T) + Len(M)
          /\ \A k \in 1..Len(T) + Len(M) :
               row[k] = IF k <= Len(T) THEN T[k] ELSE M[k - Len(T)]
      BY <1>2, <1>3, <2>1, ConcatProperties, Zenon
    <3>2. Len(T) + Len(M) = 32 /\ Len(T) = 28
      BY <1>1, <1>3
    <3> QED
      BY <3>1, <3>2
  <2>3. DOMAIN row = 1..32
    BY <2>2
  <2>4. ASSUME NEW k \in 1..32
        PROVE  /\ k # CumFlowColumn => Sound(row[k], i, 60)
               /\ i >= 60 => ~row[k].nan
    <3>1. CASE k <= 28
      <4>1. row[k] = T[k]
        BY <2>2, <3>1
      <4>2. k \in 1..28
        BY <3>1
      <4> QED
        BY <1>1, <4>1, <4>2 DEF Sound
    <3>2. CASE ~(k <= 28)
      <4>1. row[k] = M[k - 28]
        BY <2>2, <3>2
      <4>2. k - 28 \in 1..4 /\ (k # 31 => k - 28 # 3)
        BY <3>2
      <4> QED
        BY <1>4, <4>1, <4>2 DEF CumFlowColumn
    <3> QED
      BY <3>1, <3>2
  <2> QED
    BY <2>3, <2>4 DEF row
<1>7. CASE ~mflow
  <2>1. row = T
    BY <1>2, <1>5, <1>7, ConcatEmptySeq
  <2>2. DOMAIN row = 1..28
    BY <1>1, <1>2, <2>1
  <2>3. \A k \in DOMAIN row :
           /\ k # CumFlowColumn => Sound(row[k], i, 60)
           /\ i >= 60 => ~row[k].nan
    BY <1>1, <2>1, <2>2 DEF Sound
  <2> QED
    BY <2>3 DEF row
<1> QED
  BY <1>6, <1>7

LEMMA BreaksLookBack ==
  ASSUME NEW i \in Nat \ {0}
  PROVE  FalseBreak(i).reads \subseteq 1..i
<1>1. CASE i >= 2
  <2>1. /\ FalseBreak(i) = With(Candle[i], Support(i - 1))
        /\ Candle[i].reads = {i}
    BY <1>1 DEF FalseBreak, From, Candle, Cell
  <2>2. Support(i - 1).reads \subseteq 1..(i - 1)
    BY <1>1 DEF Support, Cell
  <2>3. 1..(i - 1) \subseteq 1..i /\ {i} \subseteq 1..i
    OBVIOUS
  <2> QED
    BY <2>1, <2>2, <2>3 DEF With
<1>2. CASE ~(i >= 2)
  BY <1>2 DEF FalseBreak, From, Zero, Cell
<1> QED
  BY <1>1, <1>2

\* A label is the return from the next candle to the one after it.
LEMMA FutIsNext ==
  ASSUME NEW close \in Seq(Nat), NEW i \in 1..Len(close)
  PROVE  Fut(close)[i] = IF i < Len(close) - 1 THEN Return(close[i + 1], close[i + 2]) ELSE 0
<1> DEFINE r == Returns(close)
           n == Len(close)
<1>1. DOMAIN close = 1..n /\ n \in Nat
  OBVIOUS
<1>2. r = [k \in 1..n |-> IF k < n THEN Return(close[k], close[k + 1]) ELSE 0]
  BY <1>1 DEF Returns
<1> HIDE DEF n
<1>3. DOMAIN r = 1..n /\ r \in Seq({r[k] : k \in 1..n}) /\ Len(r) = n
  <2> DEFINE S == {r[k] : k \in 1..n}
  <2>1. r \in [1..n -> S] /\ DOMAIN r = 1..n
    BY <1>2
  <2> HIDE DEF r, S
  <2>2. r \in Seq(S) /\ Len(r) = n
    BY <1>1, <2>1, LenIs, Zenon
  <2> QED
    BY <2>1, <2>2 DEF S
<1>4. Fut(close) = [k \in DOMAIN r |-> IF k < Len(r) THEN r[k + 1] ELSE 0]
  BY DEF Fut
<1> HIDE DEF r
<1>5. i \in 1..n
  BY DEF n
<1>6. Fut(close)[i] = IF i < n THEN r[i + 1] ELSE 0
  BY <1>3, <1>4, <1>5
<1>7. i < n => r[i + 1] = IF i + 1 < n THEN Return(close[i + 1], close[i + 1 + 1]) ELSE 0
  BY <1>1, <1>2, <1>5
<1>8. i + 1 + 1 = i + 2 /\ (i + 1 < n <=> i < n - 1) /\ (i < n - 1 => i < n)
  BY <1>1, <1>5
<1>9. n = Len(close)
  BY DEF n
<1> QED
  BY <1>6, <1>7, <1>8, <1>9

LEMMA LabelsAhead == Answers => LabelsLookAhead
<1> SUFFICES ASSUME Answers, Answered("train"), NEW i \in DOMAIN request.close
             PROVE  LET Known == [k \in DOMAIN request.close |->
                                    IF k <= i THEN 100 ELSE request.close[k]]
                    IN /\ Fut(request.close)[i] = Fut(Known)[i]
                       /\ i > Len(request.close) - 2 => Fut(request.close)[i] = 0
  BY DEF LabelsLookAhead
<1> DEFINE close == request.close
           Known == [k \in DOMAIN close |-> IF k <= i THEN 100 ELSE close[k]]
           n == Len(close)
<1>1. request \in TrainRequests
  BY RoutesAreApart DEF Answers, Answered
<1>2. close \in Seq(Nat)
  BY <1>1, DecisionsConstants
<1>3. n \in Nat /\ DOMAIN close = 1..n /\ i \in 1..n
  BY <1>2
<1>4. Known \in [1..n -> Nat]
  BY <1>2, <1>3
<1>5. Known \in Seq(Nat) /\ Len(Known) = n
  <2> HIDE DEF Known, n
  <2> QED
    BY <1>3, <1>4, LenIs, Zenon
<1>6. /\ Fut(close)[i] = IF i < n - 1 THEN Return(close[i + 1], close[i + 2]) ELSE 0
      /\ Fut(Known)[i] = IF i < n - 1 THEN Return(Known[i + 1], Known[i + 2]) ELSE 0
  <2> HIDE DEF Known
  <2> QED
    BY <1>2, <1>3, <1>5, FutIsNext
<1>7. i < n - 1 => Known[i + 1] = close[i + 1] /\ Known[i + 2] = close[i + 2]
  <2>1. \A k \in 1..n : ~(k <= i) => Known[k] = close[k]
    BY <1>3
  <2>2. i < n - 1 =>
          /\ i + 1 \in 1..n /\ ~(i + 1 <= i)
          /\ i + 2 \in 1..n /\ ~(i + 2 <= i)
    <3> HIDE DEF n
    <3> QED
      BY <1>3
  <2> HIDE DEF Known
  <2> QED
    BY <2>1, <2>2
<1> HIDE DEF Known
<1>8. Fut(close)[i] = Fut(Known)[i] /\ (i > n - 2 => Fut(close)[i] = 0)
  BY <1>3, <1>6, <1>7
<1> QED
  BY <1>8 DEF Known

LEMMA FeaturesBack ==
  ASSUME Answers
  PROVE  FeaturesLookBack /\ ScoredRowIsComplete
<1> SUFFICES ASSUME Answered("features")
             PROVE  /\ \A k \in DOMAIN answer.cells \ {CumFlowColumn} :
                         answer.cells[k].reads \subseteq 1..request.i
                    /\ answer.fbf.reads \subseteq 1..request.i
                    /\ request.i >= 60 => \A k \in DOMAIN answer.cells : ~answer.cells[k].nan
  BY DEF FeaturesLookBack, ScoredRowIsComplete, MinScoredRows
<1>1. request \in FeatureRequests
  BY RoutesAreApart DEF Answers, Answered
<1>2. request.i \in Nat \ {0} /\ request.n \in Nat /\ request.mflow \in BOOLEAN
  BY <1>1, DecisionsConstants
<1>3. /\ answer.cells = FeatureRow(request.n, request.i, request.mflow)
      /\ answer.fbf = FalseBreak(request.i)
  BY DEF Answers
<1>4. \A k \in DOMAIN answer.cells :
        /\ k # CumFlowColumn => Sound(answer.cells[k], request.i, 60)
        /\ request.i >= 60 => ~answer.cells[k].nan
  BY <1>2, <1>3, RowIsSound
<1>5. answer.fbf.reads \subseteq 1..request.i
  BY <1>2, <1>3, BreaksLookBack
<1> QED
  BY <1>4, <1>5 DEF Sound

(* For series of any length and any row: a label depends on later closes   *)
(* only, features but the cumulative flow on earlier candles only.         *)
THEOREM NothingLooksAhead == Spec => []NoLookAhead
<1>1. Answers => NoLookAhead
  BY LabelsAhead, FeaturesBack DEF NoLookAhead
<1> QED
  BY AlwaysAnswers, <1>1, PTL

(* For series of any length that the policy accepts: in the row it scores  *)
(* no feature is a NaN that was replaced.                                  *)
THEOREM ScoredRowsAreComplete == Spec => []ScoredRowIsComplete
<1>1. Answers => ScoredRowIsComplete
  BY FeaturesBack
<1> QED
  BY AlwaysAnswers, <1>1, PTL

-----------------------------------------------------------------------------
(* The search of best_thr.  Folds and the rows that are collected one by   *)
(* one are recursive functions: what they yield is shown by induction on   *)
(* the set of numbers for which it holds.                                  *)

LEMMA Earliest ==
  ASSUME NEW S \in SUBSET Nat, S # {}
  PROVE  \E t \in S : \A u \in S : t <= u
<1>1. PICK t \in S : \A u \in S : ~(<<u, t>> \in OpToRel(<, Nat))
  BY WFMin, NatLessThanWellFounded
<1>2. \A u \in S : ~(u < t)
  BY <1>1 DEF OpToRel
<1> QED
  BY <1>2

\* Induction, with a set for the property.
LEMMA Counting ==
  ASSUME NEW P \in SUBSET Nat, 0 \in P, \A n \in P : n + 1 \in P
  PROVE  P = Nat
<1> SUFFICES ASSUME Nat \ P # {}
             PROVE  FALSE
  OBVIOUS
<1>1. PICK n \in Nat \ P : \A u \in Nat \ P : n <= u
  BY Earliest
<1>2. n # 0 /\ n - 1 \in Nat /\ n - 1 \notin P
  <2>1. n # 0
    BY <1>1
  <2>2. n - 1 \in Nat
    BY <2>1
  <2>3. (n - 1) + 1 = n
    BY <1>1
  <2>4. n - 1 \in P => n \in P
    BY <2>3, Zenon
  <2> QED
    BY <1>1, <2>1, <2>2, <2>4
<1>3. n <= n - 1 /\ n \in Nat
  BY <1>1, <1>2
<1> QED
  BY <1>3

LEMMA LatestIs ==
  ASSUME NEW n \in Nat, NEW W \in SUBSET (1..n), W # {}
  PROVE  Max(W) \in W /\ \A u \in W : Max(W) >= u
<1> DEFINE R == {n - t : t \in W}
<1>1. R \in SUBSET Nat /\ R # {}
  <2>1. \A t \in W : n - t \in Nat
    OBVIOUS
  <2> QED
    BY <2>1
<1>2. PICK r \in R : \A s \in R : r <= s
  BY <1>1, Earliest
<1>3. PICK t \in W : r = n - t
  BY <1>2
<1>4. \A u \in W : n - t <= n - u
  BY <1>2, <1>3
<1>6. \A u \in W : u \in Int /\ t \in Int
  BY <1>3
<1>5. \E x \in W : \A y \in W : x >= y
  BY <1>4, <1>6
<1> QED
  BY <1>5, Zenon DEF Max

LEMMA OneLess ==
  ASSUME NEW W, IsFiniteSet(W), NEW m \in Nat, Cardinality(W) = m + 1
  PROVE  W # {} /\ \A x \in W : Cardinality(W \ {x}) = m
<1>1. W # {}
  BY FS_EmptySet
<1>2. \A x \in W : Cardinality(W \ {x}) = Cardinality(W) - 1
  BY FS_RemoveElement
<1> QED
  BY <1>1, <1>2

\* v is the sum of s over every set of positions.
AddsUp(v, s, n) ==
  /\ v \in [SUBSET (1..n) -> Int] /\ v[{}] = 0
  /\ \A W \in SUBSET (1..n) : W # {} => v[W] = v[W \ {Max(W)}] + s[Max(W)]

LEMMA SumIs ==
  ASSUME NEW n \in Nat, NEW s \in [1..n -> Int], NEW v, AddsUp(v, s, n)
  PROVE  SumOf(s) = v[1..n]
<1> DEFINE iter == CHOOSE f : f = [W \in SUBSET (1..n) |->
                      IF W = {} THEN 0 ELSE f[W \ {Max(W)}] + s[Max(W)]]
<1>1. DOMAIN s = 1..n
  OBVIOUS
<1>2. SumOf(s) = iter[1..n]
  BY <1>1, Zenon DEF SumOf, FoldLeft, MapThenFoldSet
<1>3. v = [W \in SUBSET (1..n) |-> IF W = {} THEN 0 ELSE v[W \ {Max(W)}] + s[Max(W)]]
  BY DEF AddsUp
<1>4. iter = [W \in SUBSET (1..n) |-> IF W = {} THEN 0 ELSE iter[W \ {Max(W)}] + s[Max(W)]]
  BY <1>3, Zenon
<1> HIDE DEF iter
<1> DEFINE Same == {m \in Nat : \A W \in SUBSET (1..n) : Cardinality(W) = m => iter[W] = v[W]}
<1>9. \A W \in SUBSET (1..n) : IsFiniteSet(W) /\ Cardinality(W) \in Nat
  <2>1. 1 \in Int /\ n \in Int
    OBVIOUS
  <2>2. IsFiniteSet(1..n)
    BY <2>1, FS_Interval
  <2> QED
    BY <2>2, FS_Subset, FS_CardinalityType
<1>5. 0 \in Same
  <2>1. ASSUME NEW W \in SUBSET (1..n), Cardinality(W) = 0
        PROVE  iter[W] = v[W]
    <3>1. W = {}
      BY <1>9, <2>1, FS_EmptySet
    <3>2. v[{}] = 0
      BY DEF AddsUp
    <3> QED
      BY <1>4, <3>1, <3>2
  <2> QED
    BY <2>1
<1>6. ASSUME NEW m \in Same
      PROVE  m + 1 \in Same
  <2>2. m \in Nat
    BY <1>6
  <2>1. ASSUME NEW W \in SUBSET (1..n), Cardinality(W) = m + 1
        PROVE  iter[W] = v[W]
    <3>1. IsFiniteSet(W)
      BY <1>9
    <3>2. W # {}
      BY <2>1, <2>2, <3>1, OneLess, Zenon
    <3>3. Max(W) \in W
      BY <3>2, LatestIs
    <3>4. Cardinality(W \ {Max(W)}) = m
      BY <2>1, <2>2, <3>1, <3>3, OneLess, Zenon
    <3>5. iter[W \ {Max(W)}] = v[W \ {Max(W)}]
      BY <1>6, <3>4
    <3>6. v[W] = v[W \ {Max(W)}] + s[Max(W)]
      BY <3>2 DEF AddsUp
    <3>7. iter[W] = iter[W \ {Max(W)}] + s[Max(W)]
      BY <1>4, <3>2
    <3> QED
      BY <3>5, <3>6, <3>7, Zenon
  <2> QED
    BY <2>1
<1>7. Same = Nat
  <2> HIDE DEF Same
  <2>1. Same \in SUBSET Nat
    BY DEF Same
  <2> QED
    BY <1>5, <1>6, <2>1, Counting
<1>8. Cardinality(1..n) \in Nat
  BY FS_Interval, FS_CardinalityType
<1> QED
  BY <1>2, <1>7, <1>8

LEMMA LabeledAre ==
  ASSUME NEW fut \in Seq(Int), NEW pos \in Int, NEW neg \in Int
  PROVE  Labeled(fut, pos, neg) \in Seq({i \in 1..Len(fut) : fut[i] >= pos \/ fut[i] <= -neg})
<1> DEFINE Is(k) == fut[k] >= pos \/ fut[k] <= -neg
           Step(f, k) == IF k = 0 THEN <<>>
                         ELSE IF Is(k) THEN Append(f[k - 1], k) ELSE f[k - 1]
           N == Len(fut)
           idx == CHOOSE f : f = [k \in 0..N |-> Step(f, k)]
           rows == {i \in 1..N : Is(i)}
           Ends == {m \in Nat : \E f : f = [k \in 0..m |-> Step(f, k)]}
           Typed == {m \in Nat : m <= N => idx[m] \in Seq(rows)}
<1>1. N \in Nat
  OBVIOUS
<1>2. Labeled(fut, pos, neg) = idx[N]
  BY Zenon DEF Labeled
<1>3. 0 \in Ends
  <2> DEFINE g == [k \in 0..0 |-> <<>>]
  <2>1. g = [k \in 0..0 |-> Step(g, k)]
    OBVIOUS
  <2> QED
    BY <2>1
<1>4. ASSUME NEW m \in Ends
      PROVE  m + 1 \in Ends
  <2>1. m \in Nat /\ \E f : f = [k \in 0..m |-> Step(f, k)]
    BY <1>4
  <2>2. PICK f : f = [k \in 0..m |-> Step(f, k)]
    BY <2>1
  <2> DEFINE g == [k \in 0..(m + 1) |-> IF k = m + 1 THEN Step(f, k) ELSE f[k]]
  <2>3. \A k \in 0..(m + 1) : g[k] = Step(g, k)
    <3> SUFFICES ASSUME NEW k \in 0..(m + 1)
                 PROVE  g[k] = Step(g, k)
      OBVIOUS
    <3>1. k # 0 => g[k - 1] = f[k - 1]
      BY <2>1
    <3>2. g[k] = Step(f, k)
      <4> HIDE DEF Step
      <4>1. k \in 0..m => f[k] = Step(f, k)
        BY <2>2
      <4>2. k = m + 1 \/ k \in 0..m
        BY <2>1
      <4> QED
        BY <4>1, <4>2
    <3>3. Step(f, k) = Step(g, k)
      <4> HIDE DEF g, Is
      <4> QED
        BY <3>1
    <3> QED
      BY <3>2, <3>3
  <2>4. g = [k \in 0..(m + 1) |-> Step(g, k)]
    <3>1. g = [k \in 0..(m + 1) |-> g[k]]
      OBVIOUS
    <3> HIDE DEF g, Step
    <3> QED
      BY <2>3, <3>1
  <2>5. m + 1 \in Nat
    BY <2>1
  <2> HIDE DEF g, Step
  <2> QED
    BY <2>4, <2>5
<1>5. Ends = Nat
  <2> HIDE DEF Ends
  <2>1. Ends \in SUBSET Nat
    BY DEF Ends
  <2> QED
    BY <1>3, <1>4, <2>1, Counting
<1>6. idx = [k \in 0..N |-> Step(idx, k)]
  <2> HIDE DEF Step
  <2>1. \E f : f = [k \in 0..N |-> Step(f, k)]
    BY <1>1, <1>5
  <2> QED
    BY <2>1, Zenon
<1> HIDE DEF idx, N
<1>7. \A k \in 0..N : idx[k] = Step(idx, k)
  <2> HIDE DEF Step
  <2> QED
    BY <1>6
<1>8. 0 \in Typed
  <2>1. idx[0] = <<>>
    BY <1>1, <1>7
  <2> HIDE DEF rows
  <2>2. <<>> \in Seq(rows)
    OBVIOUS
  <2> QED
    BY <2>1, <2>2
<1>9. ASSUME NEW m \in Typed
      PROVE  m + 1 \in Typed
  <2> SUFFICES ASSUME m + 1 <= N
               PROVE  idx[m + 1] \in Seq(rows)
    BY <1>9
  <2>1. m \in Nat /\ m + 1 \in 1..N /\ idx[m] \in Seq(rows)
    BY <1>1, <1>9
  <2>2. idx[m + 1] = IF Is(m + 1) THEN Append(idx[m], m + 1) ELSE idx[m]
    <3>1. idx[m + 1] = Step(idx, m + 1)
      BY <1>7, <2>1
    <3>2. m + 1 # 0 /\ (m + 1) - 1 = m
      BY <2>1
    <3> HIDE DEF Is
    <3> QED
      BY <3>1, <3>2
  <2>3. Is(m + 1) => m + 1 \in rows
    <3> HIDE DEF Is
    <3> QED
      BY <2>1
  <2> HIDE DEF rows, Is
  <2> QED
    BY <2>1, <2>2, <2>3
<1>10. Typed = Nat
  <2> HIDE DEF Typed
  <2>1. Typed \in SUBSET Nat
    BY DEF Typed
  <2> QED
    BY <1>8, <1>9, <2>1, Counting
<1>11. idx[N] \in Seq(rows)
  BY <1>1, <1>10
<1> QED
  BY <1>2, <1>11 DEF N

\* N returns, each of which a trade with these limits wins or loses.
AllLabeled(fr_va, N, tp, sl) ==
  fr_va \in [1..N -> Int] /\ \A k \in 1..N : fr_va[k] >= tp \/ fr_va[k] <= -sl

RightRows(fr_va, pv, t) == {k \in DOMAIN fr_va : (pv[k] >= t) <=> (fr_va[k] > 0)}

Accuracy(fr_va, pv, t) == Cardinality(RightRows(fr_va, pv, t))
Earned(a, N, tp, sl) == (tp + sl) * a - sl * N

\* On labelled rows a trade wins tp or loses sl: reward counts what is right.
LEMMA RewardCounts ==
  ASSUME NEW N \in Nat, NEW tp \in Nat \ {0}, NEW sl \in Nat \ {0}, NEW fr_va,
         AllLabeled(fr_va, N, tp, sl), NEW pv, NEW t
  PROVE  /\ Accuracy(fr_va, pv, t) \in 0..N
         /\ Reward(fr_va, pv, t, tp, sl) = Earned(Accuracy(fr_va, pv, t), N, tp, sl)
<1> DEFINE R == RightRows(fr_va, pv, t)
           s == [k \in 1..N |-> Trade(pv[k] >= t, fr_va[k], tp, sl)]
           gain(W) == tp * Cardinality(W \cap R) - sl * Cardinality(W \ R)
           v == [W \in SUBSET (1..N) |-> gain(W)]
<1>0. fr_va \in [1..N -> Int] /\ \A k \in 1..N : fr_va[k] >= tp \/ fr_va[k] <= -sl
  BY DEF AllLabeled
<1>1. R \subseteq 1..N /\ DOMAIN fr_va = 1..N
  BY <1>0 DEF RightRows
<1>2. Reward(fr_va, pv, t, tp, sl) = SumOf(s)
  BY <1>1, Zenon DEF Reward, Trades
<1>3. \A k \in 1..N : s[k] = IF k \in R THEN tp ELSE -sl
  <2> TAKE k \in 1..N
  <2>1. s[k] = Trade(pv[k] >= t, fr_va[k], tp, sl)
    OBVIOUS
  <2>2. k \in R <=> ((pv[k] >= t) <=> (fr_va[k] > 0))
    BY <1>1 DEF RightRows
  <2>3. fr_va[k] \in Int /\ (fr_va[k] >= tp \/ fr_va[k] <= -sl)
    BY <1>0
  <2>4. CASE pv[k] >= t
    <3>1. s[k] = IF fr_va[k] >= tp THEN tp ELSE IF fr_va[k] <= -sl THEN -sl ELSE fr_va[k]
      BY <2>1, <2>4 DEF Trade
    <3> HIDE DEF s, R
    <3> QED
      BY <2>2, <2>3, <2>4, <3>1
  <2>5. CASE ~(pv[k] >= t)
    <3>1. s[k] = IF fr_va[k] <= -sl THEN tp ELSE IF fr_va[k] >= tp THEN -sl ELSE -fr_va[k]
      BY <2>1, <2>5 DEF Trade
    <3> HIDE DEF s, R
    <3> QED
      BY <2>2, <2>3, <2>5, <3>1
  <2> QED
    BY <2>4, <2>5
<1>4. s \in [1..N -> Int]
  <2>1. \A k \in 1..N : s[k] \in Int
    BY <1>3
  <2>2. s = [k \in 1..N |-> s[k]]
    OBVIOUS
  <2> HIDE DEF s
  <2> QED
    BY <2>1, <2>2
<1> HIDE DEF s, R
<1>5. IsFiniteSet(1..N) /\ Cardinality(1..N) = N
  <2>1. 1 \in Int /\ N \in Int
    OBVIOUS
  <2> QED
    BY <2>1, FS_Interval
<1>6. \A W \in SUBSET (1..N) :
        /\ IsFiniteSet(W) /\ IsFiniteSet(W \cap R) /\ IsFiniteSet(W \ R)
        /\ Cardinality(W \cap R) \in Nat /\ Cardinality(W \ R) \in Nat
  BY <1>5, FS_Subset, FS_CardinalityType
<1>7. v \in [SUBSET (1..N) -> Int]
  <2>1. \A a, b \in Nat : tp * a - sl * b \in Int
    OBVIOUS
  <2>2. \A W \in SUBSET (1..N) : gain(W) \in Int
    BY <1>6, <2>1, Zenon
  <2> HIDE DEF gain
  <2> QED
    BY <2>2
<1>8. v[{}] = 0
  <2>1. {} \cap R = {} /\ {} \ R = {} /\ {} \in SUBSET (1..N)
    OBVIOUS
  <2>2. v[{}] = tp * Cardinality({}) - sl * Cardinality({})
    BY <2>1
  <2> QED
    BY <2>2, FS_EmptySet
<1>9. ASSUME NEW W \in SUBSET (1..N), W # {}
      PROVE  v[W] = v[W \ {Max(W)}] + s[Max(W)]
  <2> DEFINE x == Max(W)
             V == W \ {x}
  <2>1. x \in W /\ x \in 1..N /\ V \in SUBSET (1..N)
    BY <1>9, LatestIs
  <2>2. v[W] = gain(W) /\ v[V] = gain(V)
    BY <2>1
  <2>3. CASE x \in R
    <3>1. V \cap R = (W \cap R) \ {x} /\ V \ R = W \ R /\ x \in W \cap R
      BY <2>1, <2>3
    <3>2. Cardinality(V \cap R) = Cardinality(W \cap R) - 1
      <4>1. IsFiniteSet(W \cap R)
        BY <1>6
      <4>2. Cardinality((W \cap R) \ {x}) = Cardinality(W \cap R) - 1
        BY <3>1, <4>1, FS_RemoveElement, Zenon
      <4> QED
        BY <3>1, <4>2, Zenon
    <3>3. \A c \in Nat, d \in Nat : tp * c - sl * d = tp * (c - 1) - sl * d + tp
      OBVIOUS
    <3>4. s[x] = tp
      BY <1>3, <2>1, <2>3
    <3>5. gain(V) = tp * (Cardinality(W \cap R) - 1) - sl * Cardinality(W \ R)
      BY <3>1, <3>2
    <3>6. gain(W) = gain(V) + tp
      <4> DEFINE c == Cardinality(W \cap R)
                 d == Cardinality(W \ R)
      <4>1. c \in Nat /\ d \in Nat
        BY <1>6
      <4>2. gain(W) = tp * c - sl * d
        OBVIOUS
      <4> HIDE DEF gain, V
      <4>3. gain(V) = tp * (c - 1) - sl * d
        BY <3>5
      <4> HIDE DEF c, d
      <4>4. tp * c - sl * d = tp * (c - 1) - sl * d + tp
        BY <3>3, <4>1, Zenon
      <4> QED
        BY <4>2, <4>3, <4>4, Zenon
    <3> QED
      BY <2>2, <3>4, <3>6
  <2>4. CASE x \notin R
    <3>1. V \ R = (W \ R) \ {x} /\ V \cap R = W \cap R /\ x \in W \ R
      BY <2>1, <2>4
    <3>2. Cardinality(V \ R) = Cardinality(W \ R) - 1
      <4>1. IsFiniteSet(W \ R)
        BY <1>6
      <4>2. Cardinality((W \ R) \ {x}) = Cardinality(W \ R) - 1
        BY <3>1, <4>1, FS_RemoveElement, Zenon
      <4> QED
        BY <3>1, <4>2, Zenon
    <3>3. \A c \in Nat, d \in Nat : tp * c - sl * d = tp * c - sl * (d - 1) + (-sl)
      OBVIOUS
    <3>4. s[x] = -sl
      BY <1>3, <2>1, <2>4
    <3>5. gain(V) = tp * Cardinality(W \cap R) - sl * (Cardinality(W \ R) - 1)
      BY <3>1, <3>2
    <3>6. gain(W) = gain(V) + (-sl)
      <4> DEFINE c == Cardinality(W \cap R)
                 d == Cardinality(W \ R)
      <4>1. c \in Nat /\ d \in Nat
        BY <1>6
      <4>2. gain(W) = tp * c - sl * d
        OBVIOUS
      <4> HIDE DEF gain, V
      <4>3. gain(V) = tp * c - sl * (d - 1)
        BY <3>5
      <4> HIDE DEF c, d
      <4>4. tp * c - sl * d = tp * c - sl * (d - 1) + (-sl)
        BY <3>3, <4>1, Zenon
      <4> QED
        BY <4>2, <4>3, <4>4, Zenon
    <3> QED
      BY <2>2, <3>4, <3>6
  <2> QED
    BY <2>3, <2>4
<1>10. SumOf(s) = v[1..N]
  <2> HIDE DEF v
  <2>1. \A W \in SUBSET (1..N) : W # {} => v[W] = v[W \ {Max(W)}] + s[Max(W)]
    BY <1>9
  <2>2. AddsUp(v, s, N)
    BY <1>7, <1>8, <2>1 DEF AddsUp
  <2> QED
    BY <1>4, <2>2, SumIs, Zenon
<1>11. Cardinality(R) \in Nat /\ Cardinality(R) <= N
  <2>1. R \subseteq 1..N
    BY <1>1
  <2>2. IsFiniteSet(R) /\ Cardinality(R) <= Cardinality(1..N)
    BY <1>5, <2>1, FS_Subset, Zenon
  <2>3. Cardinality(R) \in Nat
    BY <2>2, FS_CardinalityType, Zenon
  <2> QED
    BY <1>5, <2>2, <2>3
<1>12. Cardinality((1..N) \ R) = N - Cardinality(R) /\ (1..N) \cap R = R
  <2>1. (1..N) \cap R = R
    BY <1>1
  <2>2. Cardinality((1..N) \ R) = Cardinality(1..N) - Cardinality((1..N) \cap R)
    <3>1. IsFiniteSet(R)
      BY <1>1, <1>5, FS_Subset, Zenon
    <3> QED
      BY <1>5, <3>1, FS_Difference, Zenon
  <2> QED
    BY <1>5, <2>1, <2>2, Zenon
<1>13. v[1..N] = tp * Cardinality(R) - sl * (N - Cardinality(R))
  BY <1>12
<1>14. \A c \in Nat : tp * c - sl * (N - c) = (tp + sl) * c - sl * N
  OBVIOUS
<1> QED
  BY <1>2, <1>10, <1>11, <1>13, <1>14 DEF R, Accuracy, Earned

\* Every close has a future return.
LEMMA FutAre ==
  ASSUME NEW close \in Seq(Nat)
  PROVE  Fut(close) \in Seq(Int) /\ Len(Fut(close)) = Len(close)
<1> DEFINE r == Returns(close)
           n == Len(close)
<1>1. DOMAIN close = 1..n /\ n \in Nat
  OBVIOUS
<1>2. DOMAIN r = 1..n
  BY <1>1 DEF Returns
<1>3. DOMAIN Fut(close) = DOMAIN r
  BY DEF Fut
<1> HIDE DEF r, n
<1>4. \A i \in 1..n : Fut(close)[i] \in Int
  <2> SUFFICES ASSUME NEW i \in 1..n
               PROVE  Fut(close)[i] \in Int
    OBVIOUS
  <2>1. i \in 1..Len(close)
    BY DEF n
  <2>2. Fut(close)[i] = IF i < Len(close) - 1 THEN Return(close[i + 1], close[i + 2]) ELSE 0
    BY <2>1, FutIsNext
  <2>3. i < Len(close) - 1 => close[i + 1] \in Nat /\ close[i + 2] \in Nat
    BY <1>1, <2>1
  <2>4. \A c, d \in Nat : Return(c, d) \in Int
    BY DEF Return, Unit
  <2>5. i < Len(close) - 1 => Return(close[i + 1], close[i + 2]) \in Int
    BY <2>3, <2>4, Zenon
  <2>6. 0 \in Int
    OBVIOUS
  <2> QED
    BY <2>2, <2>5, <2>6, Zenon
<1>5. Fut(close) \in [1..n -> Int]
  <2>1. Fut(close) = [i \in 1..n |-> Fut(close)[i]]
    <3>1. Fut(close) = [i \in DOMAIN r |-> IF i < Len(r) THEN r[i + 1] ELSE 0]
      BY DEF Fut, r
    <3> QED
      BY <1>2, <3>1
  <2> QED
    BY <1>4, <2>1
<1>6. Fut(close) \in Seq(Int) /\ Len(Fut(close)) = n
  BY <1>1, <1>5, LenIs, Zenon
<1> QED
  BY <1>6 DEF n

\* Rows are split with at least one to train on.
LEMMA SplitIs ==
  ASSUME NEW M \in Nat, M > 0
  PROVE  Split(M) \in 1..M
<1> DEFINE s == (M * TrainShare) \div 100
<1>1. TrainShare \in 1..99
  BY SearchConstants
<1>2. s \in Int /\ s >= 0
  BY <1>1
<1> HIDE DEF s
<1>3. Split(M) = IF s = 0 \/ s >= M THEN IF M > 1 THEN M - 1 ELSE 1 ELSE s
  BY DEF Split, s
<1> QED
  BY <1>2, <1>3

\* All that the search validates on is labelled.
CanBeRanked(close, tp, sl) ==
  \E N \in Nat :
    AllLabeled(Validation(close, tp, sl), N, LabelThr(tp), LabelThr(sl))

\* The returns to validate on are those of labelled rows.
LEMMA ValidationIsLabeled ==
  ASSUME NEW close \in Seq(Nat), NEW tp \in Nat, NEW sl \in Nat
  PROVE  CanBeRanked(close, tp, sl)
<1> DEFINE fut == Fut(close)
           pos == LabelThr(tp)
           neg == LabelThr(sl)
           idx == Labeled(fut, pos, neg)
           rows == {i \in 1..Len(fut) : fut[i] >= pos \/ fut[i] <= -neg}
           M == Len(idx)
           S == Split(M)
           fr == Validation(close, tp, sl)
<1>1. fut \in Seq(Int)
  BY FutAre
<1>2. pos \in Int /\ neg \in Int
  BY DEF LabelThr, Clamp
<1>3. fr = IF M < MinLabeled THEN <<>> ELSE [k \in 1..(M - S) |-> fut[idx[S + k]]]
  BY DEF Validation
<1> SUFFICES \E N \in Nat : AllLabeled(fr, N, pos, neg)
  BY DEF CanBeRanked
<1> HIDE DEF fut, pos, neg, idx, fr
<1>4. idx \in Seq(rows)
  BY <1>1, <1>2, LabeledAre, Zenon DEF idx
<1>5. \A i \in rows : fut[i] \in Int /\ (fut[i] >= pos \/ fut[i] <= -neg)
  BY <1>1
<1> HIDE DEF rows
<1>6. M \in Nat /\ \A k \in 1..M : idx[k] \in rows
  BY <1>4
<1>7. CASE M < MinLabeled
  <2>1. fr = <<>>
    BY <1>3, <1>7
  <2>2. fr \in [1..0 -> Int] /\ 1..0 = {}
    BY <2>1
  <2> QED
    BY <2>2 DEF AllLabeled
<1>8. CASE ~(M < MinLabeled)
  <2>1. M > 0
    BY <1>6, <1>8, SearchConstants
  <2>2. S \in 1..M
    BY <1>6, <2>1, SplitIs
  <2> HIDE DEF M, S
  <2>3. M - S \in Nat /\ \A k \in 1..(M - S) : S + k \in 1..M
    BY <1>6, <2>2
  <2>4. \A k \in 1..(M - S) : idx[S + k] \in rows
    BY <1>6, <2>3
  <2>5. fr = [k \in 1..(M - S) |-> fut[idx[S + k]]]
    BY <1>3, <1>8
  <2>6. fr \in [1..(M - S) -> Int]
    BY <1>5, <2>4, <2>5
  <2>7. \A k \in 1..(M - S) : fr[k] >= pos \/ fr[k] <= -neg
    BY <1>5, <2>4, <2>5
  <2>8. AllLabeled(fr, M - S, pos, neg)
    BY <2>6, <2>7 DEF AllLabeled
  <2> QED
    BY <2>3, <2>8
<1> QED
  BY <1>7, <1>8

\* t is the first of those in T that rank highest.
IsFirst(t, T, rank) == \A u \in T : rank[t] > rank[u] \/ (rank[t] = rank[u] /\ t <= u)

LEMMA FirstGreatest ==
  ASSUME NEW T \in SUBSET Nat, T # {}, NEW N \in Nat, NEW rank \in [T -> 0..N]
  PROVE  \E t \in T : IsFirst(t, T, rank)
<1> DEFINE Lacks == {N - rank[t] : t \in T}
<1>0. \A t \in T : rank[t] \in 0..N
  OBVIOUS
<1>1. Lacks \in SUBSET Nat /\ Lacks # {}
  <2>1. \A t \in T : N - rank[t] \in Nat
    BY <1>0
  <2> QED
    BY <2>1
<1>2. PICK m \in Lacks : \A n \in Lacks : m <= n
  BY <1>1, Earliest
<1> DEFINE Best == {t \in T : N - rank[t] = m}
<1>3. Best \in SUBSET Nat /\ Best # {}
  BY <1>2
<1>4. PICK t \in Best : \A u \in Best : t <= u
  BY <1>3, Earliest
<1>5. t \in T /\ N - rank[t] = m
  BY <1>4
<1>6. ASSUME NEW u \in T
      PROVE  rank[t] > rank[u] \/ (rank[t] = rank[u] /\ t <= u)
  <2>1. N - rank[u] \in Lacks
    OBVIOUS
  <2>2. m <= N - rank[u]
    BY <1>2, <2>1
  <2>3. N - rank[u] = m => t <= u
    BY <1>4
  <2>4. rank[u] \in 0..N /\ rank[t] \in 0..N
    BY <1>0, <1>5
  <2> HIDE DEF Lacks, Best
  <2> QED
    BY <1>5, <2>2, <2>3, <2>4
<1> QED
  BY <1>5, <1>6 DEF IsFirst

\* A positive weight keeps an order.
LEMMA WeightKeepsOrder ==
  ASSUME NEW N \in Nat, NEW tp \in Nat \ {0}, NEW sl \in Nat \ {0}
  PROVE  \A a, b \in Nat : /\ Earned(a, N, tp, sl) > Earned(b, N, tp, sl) <=> a > b
                           /\ Earned(a, N, tp, sl) = Earned(b, N, tp, sl) <=> a = b
<1> DEFINE w == tp + sl
           c == sl * N
<1>0. w \in Nat /\ w > 0 /\ c \in Int /\ \A a : Earned(a, N, tp, sl) = w * a - c
  BY DEF Earned
<1> HIDE DEF w, c
<1>1. \A d \in Nat : d > 0 => w * d > 0
  BY <1>0
<1>2. ASSUME NEW a \in Nat, NEW b \in Nat, a > b
      PROVE  w * a > w * b
  <2>1. a - b \in Nat /\ a - b > 0
    BY <1>2
  <2>2. w * (a - b) > 0
    BY <1>1, <2>1
  <2>3. w * (a - b) = w * a - w * b
    BY <1>0
  <2>4. w * a \in Int /\ w * b \in Int
    BY <1>0
  <2> QED
    BY <2>2, <2>3, <2>4
<1>3. \A a \in Nat : w * a \in Int
  BY <1>0
<1> SUFFICES ASSUME NEW a \in Nat, NEW b \in Nat
             PROVE  /\ w * a - c > w * b - c <=> a > b
                    /\ w * a - c = w * b - c <=> a = b
  BY <1>0
<1>4. w * a - c > w * b - c <=> w * a > w * b
  BY <1>0, <1>3
<1>5. w * a - c = w * b - c <=> w * a = w * b
  BY <1>0, <1>3
<1>6. a > b \/ a = b \/ b > a
  OBVIOUS
<1>7. w * a \in Int /\ w * b \in Int
  BY <1>3
<1>8. (a > b => w * a > w * b) /\ (b > a => w * b > w * a)
  BY <1>2
<1> QED
  BY <1>4, <1>5, <1>6, <1>7, <1>8

LEMMA BestIsMostAccurate ==
  ASSUME NEW N \in Nat, NEW tp \in Nat \ {0}, NEW sl \in Nat \ {0}, NEW fr_va,
         AllLabeled(fr_va, N, tp, sl), NEW pv
  PROVE  /\ BestThrs(fr_va, pv, tp, sl) # {}
         /\ \A best \in BestThrs(fr_va, pv, tp, sl), u \in Candidates :
              Accuracy(fr_va, pv, u) <= Accuracy(fr_va, pv, best)
<1> DEFINE rank == [t \in Candidates |-> Accuracy(fr_va, pv, t)]
           R(t) == Reward(fr_va, pv, t, tp, sl)
           T(t) == Trades(fr_va, pv, t, tp, sl)
<1>1. Candidates \in SUBSET Nat /\ Candidates # {}
  <2>1. 0 \in 0..20
    OBVIOUS
  <2> QED
    BY <2>1 DEF Candidates
<1>2. \A t \in Candidates : /\ Accuracy(fr_va, pv, t) \in 0..N
                            /\ R(t) = Earned(Accuracy(fr_va, pv, t), N, tp, sl)
  <2> TAKE t \in Candidates
  <2>1. Accuracy(fr_va, pv, t) \in 0..N
    BY RewardCounts, Zenon
  <2>2. Reward(fr_va, pv, t, tp, sl) = Earned(Accuracy(fr_va, pv, t), N, tp, sl)
    BY RewardCounts
  <2> QED
    BY <2>1, <2>2
<1>3. rank \in [Candidates -> 0..N]
  BY <1>2
<1>4. PICK t \in Candidates : IsFirst(t, Candidates, rank)
  BY <1>1, <1>3, FirstGreatest, Zenon
<1>6. \A x, u \in Candidates : /\ R(x) > R(u) <=> rank[x] > rank[u]
                               /\ R(x) = R(u) <=> rank[x] = rank[u]
  <2> SUFFICES ASSUME NEW x \in Candidates, NEW u \in Candidates
               PROVE  /\ R(x) > R(u) <=> rank[x] > rank[u]
                      /\ R(x) = R(u) <=> rank[x] = rank[u]
    OBVIOUS
  <2>1. rank[x] \in Nat /\ rank[u] \in Nat
    BY <1>3
  <2>2. R(x) = Earned(rank[x], N, tp, sl) /\ R(u) = Earned(rank[u], N, tp, sl)
    BY <1>2
  <2> HIDE DEF R, rank
  <2> QED
    BY <2>1, <2>2, WeightKeepsOrder
<1>7. \A x, u \in Candidates : /\ R(u) <= R(x) <=> rank[u] <= rank[x]
                               /\ T(u) = T(x) => rank[u] = rank[x]
  <2> SUFFICES ASSUME NEW x \in Candidates, NEW u \in Candidates
               PROVE  /\ R(u) <= R(x) <=> rank[u] <= rank[x]
                      /\ T(u) = T(x) => rank[u] = rank[x]
    OBVIOUS
  <2>1. rank[x] \in Nat /\ rank[u] \in Nat
    BY <1>3
  <2>2. R(x) \in Int /\ R(u) \in Int
    BY <1>2, <2>1 DEF Earned
  <2>3. T(u) = T(x) => R(u) = R(x)
    BY Zenon DEF Reward
  <2>4. R(u) > R(x) <=> rank[u] > rank[x]
    BY <1>6
  <2>5. R(u) = R(x) <=> rank[u] = rank[x]
    BY <1>6
  <2> HIDE DEF R, T, rank
  <2> QED
    BY <2>1, <2>2, <2>3, <2>4, <2>5
<1>8. BestThrs(fr_va, pv, tp, sl) =
        {x \in Candidates : \A u \in Candidates : R(u) <= R(x) /\ (u < x => T(u) # T(x))}
  BY Zenon DEF BestThrs
<1>9. \A u \in Candidates : rank[u] = Accuracy(fr_va, pv, u)
  OBVIOUS
<1> HIDE DEF R, T, rank
<1>10. ASSUME NEW u \in Candidates
       PROVE  R(u) <= R(t) /\ (u < t => T(u) # T(t))
  <2>1. rank[t] > rank[u] \/ (rank[t] = rank[u] /\ t <= u)
    BY <1>4 DEF IsFirst
  <2>2. rank[t] \in Nat /\ rank[u] \in Nat /\ t \in Nat /\ u \in Nat
    BY <1>1, <1>3
  <2>3. R(u) <= R(t)
    BY <1>7, <2>1, <2>2
  <2>4. T(u) = T(t) => rank[u] = rank[t]
    BY <1>7
  <2> QED
    BY <2>1, <2>2, <2>3, <2>4
<1>11. t \in BestThrs(fr_va, pv, tp, sl)
  BY <1>8, <1>10
<1>12. ASSUME NEW best \in BestThrs(fr_va, pv, tp, sl), NEW u \in Candidates
       PROVE  Accuracy(fr_va, pv, u) <= Accuracy(fr_va, pv, best)
  <2>1. best \in Candidates /\ R(u) <= R(best)
    BY <1>8, <1>12
  <2>2. rank[u] <= rank[best]
    BY <1>7, <2>1
  <2> QED
    BY <1>9, <2>1, <2>2
<1> QED
  BY <1>11, <1>12

LEMMA BestIsBest == Answers => BestThrIsMostAccurate
<1> SUFFICES ASSUME Answers, Answered("train"), answer.ok
             PROVE  LET fr_va == Validation(request.close, request.tp, request.sl) IN
                    \A u \in Candidates :
                      Accuracy(fr_va, request.pv, u)
                        <= Accuracy(fr_va, request.pv, answer.best_thr)
  BY DEF BestThrIsMostAccurate, Accuracy, RightRows
<1> DEFINE fr == Validation(request.close, request.tp, request.sl)
           win == LabelThr(request.tp)
           lose == LabelThr(request.sl)
<1>1. request \in TrainRequests
  BY RoutesAreApart DEF Answers, Answered
<1>2. request.close \in Seq(Nat) /\ request.tp \in Nat /\ request.sl \in Nat
  BY <1>1, DecisionsConstants
<1>3. answer \in TrainAnswers(request.close, request.tp, request.sl, request.pv)
  BY DEF Answers
<1>4. answer.best_thr \in BestThrs(fr, request.pv, win, lose)
  <2> DEFINE B == BestThrs(fr, request.pv, win, lose)
  <2>1. answer \in IF fr = <<>> THEN {[ok |-> FALSE, best_thr |-> 0]}
                   ELSE [ok : {TRUE}, best_thr : B]
    BY <1>3 DEF TrainAnswers
  <2> HIDE DEF B, fr
  <2>2. fr # <<>>
    <3> SUFFICES ASSUME fr = <<>>
                 PROVE  FALSE
      OBVIOUS
    <3>1. answer = [ok |-> FALSE, best_thr |-> 0]
      BY <2>1
    <3>2. answer.ok = FALSE
      BY <3>1
    <3> QED
      BY <3>2
  <2> QED
    BY <2>1, <2>2 DEF B
<1>5. win \in Nat \ {0} /\ lose \in Nat \ {0}
  BY <1>2 DEF LabelThr, Clamp
<1>6. \A p, q \in Nat : CanBeRanked(request.close, p, q)
  BY <1>2, ValidationIsLabeled
<1>7. CanBeRanked(request.close, request.tp, request.sl)
  BY <1>2, <1>6
<1>8. PICK N \in Nat : AllLabeled(fr, N, win, lose)
  BY <1>7 DEF CanBeRanked
<1> HIDE DEF fr, win, lose
<1> QED
  BY <1>4, <1>5, <1>8, BestIsMostAccurate DEF fr

(* For series of any length, prices, limits and predictions: the threshold *)
(* that the search takes is one of those that get most labelled rows of    *)
(* the validation right, although it compares rewards.                     *)
THEOREM BestThrIsAccurate == Spec => []BestThrIsMostAccurate
<1>1. Answers => BestThrIsMostAccurate
  BY BestIsBest
<1> QED
  BY AlwaysAnswers, <1>1, PTL

-----------------------------------------------------------------------------
(* The two scripts that make the higher frames                             *)

\* What a fold computes for every set of positions, exists.
IsFold(f, X, base, n, op) ==
  /\ f \in [SUBSET (1..n) -> X]
  /\ \A W \in SUBSET (1..n) :
       f[W] = IF W = {} THEN base ELSE op[Max(W)][f[W \ {Max(W)}]]

LEMMA FoldExists ==
  ASSUME NEW X, NEW base \in X, NEW n \in Nat, NEW op \in [1..n -> [X -> X]]
  PROVE  \E f : IsFold(f, X, base, n, op)
<1> DEFINE Fits(f, W) == f[W] = IF W = {} THEN base ELSE op[Max(W)][f[W \ {Max(W)}]]
           Folds(f, m) == f \in [SUBSET (1..m) -> X] /\ \A W \in SUBSET (1..m) : Fits(f, W)
           Ends == {m \in Nat : m <= n => \E f : Folds(f, m)}
<1>1. 0 \in Ends
  <2> DEFINE f == [W \in SUBSET (1..0) |-> base]
  <2>1. 1..0 = {}
    OBVIOUS
  <2>2. \A W \in SUBSET (1..0) : Fits(f, W)
    BY <2>1
  <2>3. f \in [SUBSET (1..0) -> X]
    OBVIOUS
  <2> QED
    BY <2>2, <2>3
<1>2. ASSUME NEW m \in Ends
      PROVE  m + 1 \in Ends
  <2>1. m \in Nat /\ m + 1 \in Nat
    BY <1>2
  <2> SUFFICES ASSUME m + 1 <= n
               PROVE  \E f : Folds(f, m + 1)
    BY <2>1
  <2>2. \E f : Folds(f, m)
    <3>1. m <= n
      BY <2>1
    <3> HIDE DEF Folds
    <3> QED
      BY <1>2, <3>1
  <2>3. PICK f : Folds(f, m)
    BY <2>2
  <2> DEFINE g == [W \in SUBSET (1..(m + 1)) |->
                     IF m + 1 \in W THEN op[m + 1][f[W \ {m + 1}]] ELSE f[W]]
  <2>4. \A W \in SUBSET (1..(m + 1)) :
          W \ {m + 1} \in SUBSET (1..m) /\ (m + 1 \notin W => W \in SUBSET (1..m))
    BY <2>1
  <2>5. op[m + 1] \in [X -> X]
    BY <2>1
  <2>6. g \in [SUBSET (1..(m + 1)) -> X]
    BY <2>3, <2>4, <2>5
  <2>7. ASSUME NEW W \in SUBSET (1..(m + 1))
        PROVE  Fits(g, W)
    <3>1. CASE m + 1 \in W
      <4>1. Max(W) = m + 1
        <5>1. W # {}
          BY <3>1
        <5>2. Max(W) \in W /\ Max(W) >= m + 1
          BY <2>1, <3>1, <5>1, LatestIs
        <5>3. Max(W) \in 1..(m + 1)
          BY <5>2
        <5> QED
          BY <2>1, <5>2, <5>3
      <4>2. g[W \ {m + 1}] = f[W \ {m + 1}]
        BY <2>4
      <4>3. g[W] = op[m + 1][f[W \ {m + 1}]]
        BY <3>1
      <4> HIDE DEF g
      <4> QED
        BY <3>1, <4>1, <4>2, <4>3
    <3>2. CASE m + 1 \notin W
      <4>1. W \in SUBSET (1..m) /\ g[W] = f[W]
        BY <2>4, <3>2
      <4>2. Fits(f, W)
        BY <2>3, <4>1
      <4>3. g[W \ {Max(W)}] = f[W \ {Max(W)}]
        BY <3>2, <4>1
      <4> HIDE DEF g
      <4> QED
        BY <4>1, <4>2, <4>3
    <3> QED
      BY <3>1, <3>2
  <2> HIDE DEF g, Fits
  <2> QED
    BY <2>6, <2>7
<1>3. Ends = Nat
  <2> HIDE DEF Ends
  <2>1. Ends \in SUBSET Nat
    BY DEF Ends
  <2> QED
    BY <1>1, <1>2, <2>1, Counting
<1>4. \E f : Folds(f, n)
  <2>1. n \in Ends /\ n <= n
    <3> HIDE DEF Ends
    <3> QED
      BY <1>3
  <2> HIDE DEF Folds
  <2> QED
    BY <2>1
<1> QED
  BY <1>4 DEF IsFold

\* The last position of a prefix is its length.
LEMMA PrefixEnds ==
  ASSUME NEW n \in Nat, NEW k \in 1..n
  PROVE  /\ 1..k \in SUBSET (1..n) /\ 1..k # {}
         /\ Max(1..k) = k /\ (1..k) \ {k} = 1..(k - 1)
<1>1. 1..k \in SUBSET (1..n) /\ k \in 1..k /\ k \in Nat
  OBVIOUS
<1>2. Max(1..k) \in 1..k /\ Max(1..k) >= k
  BY <1>1, LatestIs
<1>3. (1..k) \ {k} = 1..(k - 1)
  OBVIOUS
<1> QED
  BY <1>1, <1>2, <1>3

\* What is computed step by step exists.
AreSteps(f, X, base, n, op) ==
  f \in [0..n -> X] /\ f[0] = base /\ \A k \in 1..n : f[k] = op[k][f[k - 1]]

LEMMA StepsExist ==
  ASSUME NEW X, NEW base \in X, NEW n \in Nat, NEW op \in [1..n -> [X -> X]]
  PROVE  \E f : AreSteps(f, X, base, n, op)
<1>0. PICK v : IsFold(v, X, base, n, op)
  BY FoldExists, Zenon
<1>1. /\ v \in [SUBSET (1..n) -> X]
      /\ \A W \in SUBSET (1..n) : v[W] = IF W = {} THEN base ELSE op[Max(W)][v[W \ {Max(W)}]]
  BY <1>0 DEF IsFold
<1> DEFINE f == [k \in 0..n |-> v[1..k]]
<1>2. \A k \in 0..n : 1..k \in SUBSET (1..n)
  OBVIOUS
<1>3. f \in [0..n -> X]
  BY <1>1, <1>2
<1>4. f[0] = base
  <2>1. 1..0 = {} /\ {} \in SUBSET (1..n) /\ 0 \in 0..n
    OBVIOUS
  <2> QED
    BY <1>1, <2>1
<1>5. ASSUME NEW k \in 1..n
      PROVE  f[k] = op[k][f[k - 1]]
  <2>1. k \in 0..n /\ k - 1 \in 0..n
    OBVIOUS
  <2>2. f[k] = v[1..k] /\ f[k - 1] = v[1..(k - 1)]
    BY <2>1
  <2>3. /\ 1..k \in SUBSET (1..n) /\ 1..k # {}
        /\ Max(1..k) = k /\ (1..k) \ {k} = 1..(k - 1)
    BY PrefixEnds
  <2>4. v[1..k] = op[Max(1..k)][v[(1..k) \ {Max(1..k)}]]
    BY <1>1, <2>3, Zenon
  <2> HIDE DEF f
  <2> QED
    BY <2>2, <2>3, <2>4, Zenon
<1> QED
  BY <1>3, <1>4, <1>5 DEF AreSteps

Rows == Seq(Nat)

\* FlattenSeq joins the parts one after the other.
Joins(f, parts) ==
  /\ f \in [1..Len(parts) -> Rows]
  /\ \A i \in 1..Len(parts) : f[i] = IF i = 1 THEN parts[1] ELSE f[i - 1] \o parts[i]

LEMMA Joining ==
  ASSUME NEW parts \in Seq(Rows), parts # <<>>
  PROVE  \E f : Joins(f, parts)
<1> DEFINE n == Len(parts) - 1
           op == [k \in 1..n |-> [x \in Rows |-> x \o parts[k + 1]]]
<1>1. n \in Nat /\ Len(parts) \in Nat /\ Len(parts) = n + 1 /\ \A i \in 1..Len(parts) : parts[i] \in Rows
  BY EmptySeq
<1> HIDE DEF n
<1>2. op \in [1..n -> [Rows -> Rows]]
  <2>1. \A k \in 1..n : \A x \in Rows : x \o parts[k + 1] \in Rows
    <3> TAKE k \in 1..n
    <3> TAKE x \in Rows
    <3>1. parts[k + 1] \in Rows
      BY <1>1
    <3> QED
      BY <3>1, ConcatProperties DEF Rows
  <2> QED
    BY <2>1
<1>3. parts[1] \in Rows
  BY <1>1
<1>4. \A k \in 1..n, x \in Rows : op[k][x] = x \o parts[k + 1]
  OBVIOUS
<1> HIDE DEF op
<1>8. PICK g : AreSteps(g, Rows, parts[1], n, op)
  BY <1>1, <1>2, <1>3, StepsExist, Zenon
<1>5. g \in [0..n -> Rows] /\ g[0] = parts[1] /\ \A k \in 1..n : g[k] = op[k][g[k - 1]]
  BY <1>8 DEF AreSteps
<1> DEFINE f == [i \in 1..Len(parts) |-> g[i - 1]]
<1>6. f \in [1..Len(parts) -> Rows]
  BY <1>1, <1>5
<1>7. ASSUME NEW i \in 1..Len(parts)
      PROVE  f[i] = IF i = 1 THEN parts[1] ELSE f[i - 1] \o parts[i]
  <2>1. CASE i = 1
    BY <1>5, <2>1
  <2>2. CASE i # 1
    <3>1. i - 1 \in 1..n /\ i - 1 \in 1..Len(parts) /\ (i - 1) + 1 = i /\ i - 1 \in 0..n /\ (i - 1) - 1 \in 0..n
      BY <1>1, <2>2
    <3>2. f[i] = g[i - 1] /\ f[i - 1] = g[(i - 1) - 1]
      BY <3>1
    <3>3. g[i - 1] = op[i - 1][g[(i - 1) - 1]]
      BY <1>5, <3>1
    <3>4. g[(i - 1) - 1] \in Rows
      BY <1>5, <3>1
    <3>5. op[i - 1][g[(i - 1) - 1]] = g[(i - 1) - 1] \o parts[i]
      BY <1>4, <3>1, <3>4
    <3> HIDE DEF f
    <3> QED
      BY <2>2, <3>2, <3>3, <3>5
  <2> QED
    BY <2>1, <2>2
<1> QED
  BY <1>6, <1>7 DEF Joins

LEMMA FlattenJoins ==
  ASSUME NEW parts \in Seq(Rows), parts # <<>>
  PROVE  \E f : Joins(f, parts) /\ FlattenSeq(parts) = f[Len(parts)]
<1> DEFINE Step(f, i) == IF i = 1 THEN parts[i] ELSE f[i - 1] \o parts[i]
           flatten == CHOOSE f : f = [i \in 1..Len(parts) |-> Step(f, i)]
           n == Len(parts)
<1>1. n \in Nat /\ n # 0 /\ \A i \in 1..n : parts[i] \in Rows
  BY EmptySeq
<1>2. FlattenSeq(parts) = flatten[n]
  <2>1. Len(parts) # 0
    BY <1>1
  <2> QED
    BY <2>1, Zenon DEF FlattenSeq
<1>3. PICK g : Joins(g, parts)
  BY Joining
<1>4. g = [i \in 1..n |-> Step(g, i)]
  BY <1>3 DEF Joins
<1>5. flatten = [i \in 1..n |-> Step(flatten, i)]
  <2> HIDE DEF Step
  <2> QED
    BY <1>4, Zenon
<1> HIDE DEF flatten, n
<1>6. \A i \in 1..n : flatten[i] = Step(flatten, i)
  <2> HIDE DEF Step
  <2> QED
    BY <1>5
<1> DEFINE Typed == {m \in Nat : m + 1 <= n => flatten[m + 1] \in Rows}
<1>7. 0 \in Typed
  BY <1>1, <1>6
<1>8. ASSUME NEW m \in Typed
      PROVE  m + 1 \in Typed
  <2>0. m \in Nat
    BY <1>8
  <2> SUFFICES ASSUME (m + 1) + 1 <= n
               PROVE  flatten[(m + 1) + 1] \in Rows
    BY <2>0
  <2>1. m + 1 <= n /\ (m + 1) + 1 \in 1..n /\ (m + 1) + 1 # 1 /\ ((m + 1) + 1) - 1 = m + 1
    BY <1>1, <2>0
  <2>2. flatten[m + 1] \in Rows
    BY <1>8, <2>1
  <2>3. flatten[(m + 1) + 1] = flatten[m + 1] \o parts[(m + 1) + 1]
    BY <1>6, <2>1
  <2>4. parts[(m + 1) + 1] \in Rows
    BY <1>1, <2>1
  <2> QED
    BY <2>2, <2>3, <2>4, ConcatProperties DEF Rows
<1>9. Typed = Nat
  <2> HIDE DEF Typed
  <2>1. Typed \in SUBSET Nat
    BY DEF Typed
  <2> QED
    BY <1>7, <1>8, <2>1, Counting
<1>10. \A i \in 1..n : flatten[i] \in Rows
  <2> TAKE i \in 1..n
  <2>1. i - 1 \in Nat /\ (i - 1) + 1 = i /\ i <= n
    BY <1>1
  <2> QED
    BY <1>9, <2>1
<1>11. flatten \in [1..n -> Rows]
  <2>1. flatten = [i \in 1..n |-> flatten[i]]
    <3> HIDE DEF Step
    <3> QED
      BY <1>5
  <2> QED
    BY <1>10, <2>1
<1>12. Joins(flatten, parts)
  BY <1>6, <1>11 DEF Joins, n
<1> QED
  BY <1>2, <1>12 DEF n

\* The first parts are joined alike, whatever follows.
LEMMA JoinsAlike ==
  ASSUME NEW parts \in Seq(Rows), NEW more \in Seq(Rows), NEW f, NEW g,
         Joins(f, parts), Joins(g, more), Len(parts) <= Len(more),
         \A i \in 1..Len(parts) : more[i] = parts[i]
  PROVE  \A i \in 1..Len(parts) : g[i] = f[i]
<1> DEFINE n == Len(parts)
           Same == {m \in Nat : m + 1 <= n => g[m + 1] = f[m + 1]}
<1>1. n \in Nat /\ Len(more) \in Nat
  OBVIOUS
<1>2. /\ \A i \in 1..n : f[i] = IF i = 1 THEN parts[1] ELSE f[i - 1] \o parts[i]
      /\ \A i \in 1..n : g[i] = IF i = 1 THEN more[1] ELSE g[i - 1] \o more[i]
      /\ \A i \in 1..n : more[i] = parts[i]
  <2>1. \A i \in 1..n : i \in 1..Len(more)
    BY <1>1
  <2>2. \A i \in 1..Len(more) : g[i] = IF i = 1 THEN more[1] ELSE g[i - 1] \o more[i]
    BY DEF Joins
  <2>3. \A i \in 1..n : f[i] = IF i = 1 THEN parts[1] ELSE f[i - 1] \o parts[i]
    BY DEF Joins
  <2> QED
    BY <2>1, <2>2, <2>3, Zenon
<1> HIDE DEF n
<1>3. 0 \in Same
  BY <1>1, <1>2
<1>4. ASSUME NEW m \in Same
      PROVE  m + 1 \in Same
  <2>0. m \in Nat
    BY <1>4
  <2> SUFFICES ASSUME (m + 1) + 1 <= n
               PROVE  g[(m + 1) + 1] = f[(m + 1) + 1]
    BY <2>0
  <2>1. m + 1 <= n /\ (m + 1) + 1 \in 1..n /\ (m + 1) + 1 # 1 /\ ((m + 1) + 1) - 1 = m + 1
    BY <1>1, <2>0
  <2>2. g[m + 1] = f[m + 1]
    BY <1>4, <2>1
  <2>3. /\ f[(m + 1) + 1] = f[m + 1] \o parts[(m + 1) + 1]
        /\ g[(m + 1) + 1] = g[m + 1] \o more[(m + 1) + 1]
        /\ more[(m + 1) + 1] = parts[(m + 1) + 1]
    BY <1>2, <2>1
  <2> QED
    BY <2>2, <2>3
<1>5. Same = Nat
  <2> HIDE DEF Same
  <2>1. Same \in SUBSET Nat
    BY DEF Same
  <2> QED
    BY <1>3, <1>4, <2>1, Counting
<1>6. ASSUME NEW i \in 1..n
      PROVE  g[i] = f[i]
  <2>1. i - 1 \in Nat /\ (i - 1) + 1 = i /\ i <= n
    BY <1>1
  <2> QED
    BY <1>5, <2>1
<1> QED
  BY <1>6 DEF n

LEMMA FlattenAppend ==
  ASSUME NEW parts \in Seq(Rows), NEW last \in Rows
  PROVE  /\ FlattenSeq(<<last>>) = last
         /\ parts # <<>> => FlattenSeq(Append(parts, last)) = FlattenSeq(parts) \o last
         /\ parts # <<>> => FlattenSeq(parts) \in Rows
<1>1. FlattenSeq(<<last>>) = last
  <2>1. <<last>> \in Seq(Rows) /\ <<last>> # <<>> /\ Len(<<last>>) = 1 /\ <<last>>[1] = last
    OBVIOUS
  <2>2. PICK f : Joins(f, <<last>>) /\ FlattenSeq(<<last>>) = f[Len(<<last>>)]
    BY <2>1, FlattenJoins
  <2>3. f[1] = last
    BY <2>1, <2>2 DEF Joins
  <2> QED
    BY <2>1, <2>2, <2>3
<1>2. ASSUME parts # <<>>
      PROVE  /\ FlattenSeq(Append(parts, last)) = FlattenSeq(parts) \o last
             /\ FlattenSeq(parts) \in Rows
  <2> DEFINE more == Append(parts, last)
             n == Len(parts)
  <2>1. n \in Nat /\ n # 0
    BY <1>2, EmptySeq
  <2>2. /\ more \in Seq(Rows) /\ more # <<>> /\ Len(more) = n + 1 /\ more[n + 1] = last
        /\ \A i \in 1..n : more[i] = parts[i]
    BY AppendProperties
  <2> HIDE DEF more
  <2>3. PICK f : Joins(f, parts) /\ FlattenSeq(parts) = f[n]
    BY <1>2, FlattenJoins
  <2>4. PICK g : Joins(g, more) /\ FlattenSeq(more) = g[Len(more)]
    BY <2>2, FlattenJoins
  <2>5. \A i \in 1..n : g[i] = f[i]
    BY <2>1, <2>2, <2>3, <2>4, JoinsAlike
  <2>6. n \in 1..n /\ n + 1 \in 1..Len(more) /\ n + 1 # 1 /\ (n + 1) - 1 = n
    BY <2>1, <2>2
  <2>7. g[n + 1] = g[n] \o last
    BY <2>2, <2>4, <2>6 DEF Joins
  <2>8. f[n] \in Rows
    BY <2>3, <2>6 DEF Joins
  <2> QED
    BY <2>2, <2>3, <2>4, <2>5, <2>6, <2>7, <2>8 DEF more
<1> QED
  BY <1>1, <1>2

\* Bars, the rows of each, and the states of the two scripts.
BarsOfRows == [ts : Int, rows : Rows]
Parts(bars) == [k \in DOMAIN bars |-> bars[k].rows]

\* One row more, by count and by time, as ByCount and ByTime do it.
CountStep(s, row, G) ==
  LET bucket == s.n \div G IN
  IF bucket # s.prev
  THEN [bars |-> Append(s.bars, s.bar), bar |-> Bar(row, <<row>>),
        prev |-> bucket, n |-> s.n + 1]
  ELSE [s EXCEPT !.bar = Adding(@, row), !.n = @ + 1]

TimeStart(row, P) == Bar((row \div P) * P, <<row>>)
TimeStep(s, row, P) ==
  IF TimeStart(row, P).ts # s.bar.ts
  THEN [bars |-> Append(s.bars, s.bar), bar |-> TimeStart(row, P)]
  ELSE [s EXCEPT !.bar = Adding(@, row)]

CountStates == [bars : Seq(BarsOfRows), bar : BarsOfRows, prev : Int, n : Nat]
TimeStates == [bars : Seq(BarsOfRows), bar : BarsOfRows]

LEMMA BarsAre ==
  /\ \A ts \in Int, row \in Nat : Bar(ts, <<row>>) \in BarsOfRows
  /\ \A bar \in BarsOfRows, row \in Nat :
       /\ Adding(bar, row) \in BarsOfRows /\ Adding(bar, row).ts = bar.ts
       /\ Adding(bar, row).rows = Append(bar.rows, row)
<1>1. ASSUME NEW ts \in Int, NEW row \in Nat
      PROVE  Bar(ts, <<row>>) \in BarsOfRows
  <2>1. <<row>> \in Rows
    BY DEF Rows
  <2> QED
    BY <2>1 DEF Bar, BarsOfRows
<1>2. ASSUME NEW bar \in BarsOfRows, NEW row \in Nat
      PROVE  /\ Adding(bar, row) \in BarsOfRows /\ Adding(bar, row).ts = bar.ts
             /\ Adding(bar, row).rows = Append(bar.rows, row)
  <2>1. bar.rows \in Rows
    BY DEF BarsOfRows
  <2>2. Append(bar.rows, row) \in Rows
    BY <2>1, AppendProperties DEF Rows
  <2> QED
    BY <2>2 DEF Adding, BarsOfRows
<1> QED
  BY <1>1, <1>2

LEMMA PartsGrow ==
  ASSUME NEW bars \in Seq(BarsOfRows), NEW bar \in BarsOfRows
  PROVE  /\ Parts(bars) \in Seq(Rows) /\ (Parts(bars) = <<>> <=> bars = <<>>)
         /\ Parts(Append(bars, bar)) = Append(Parts(bars), bar.rows)
<1> DEFINE n == Len(bars)
           more == Append(bars, bar)
           all == [k \in 1..n |-> bars[k].rows]
<1>1. n \in Nat /\ DOMAIN bars = 1..n /\ \A k \in 1..n : bars[k] \in BarsOfRows
  OBVIOUS
<1>2. \A b \in BarsOfRows : b.rows \in Rows
  BY DEF BarsOfRows
<1>3. Parts(bars) = all
  BY <1>1 DEF Parts
<1>4. all \in [1..n -> Rows]
  BY <1>1, <1>2
<1>5. all \in Seq(Rows) /\ Len(all) = n
  <2> HIDE DEF all, n
  <2> QED
    BY <1>1, <1>4, LenIs, Zenon
<1>6. all = <<>> <=> bars = <<>>
  <2>1. all = <<>> <=> n = 0
    <3> HIDE DEF all, n
    <3> QED
      BY <1>5, EmptySeq
  <2>2. bars = <<>> <=> n = 0
    BY EmptySeq
  <2> QED
    BY <2>1, <2>2
<1>7. /\ more \in Seq(BarsOfRows) /\ Len(more) = n + 1 /\ more[n + 1] = bar
      /\ \A k \in 1..n : more[k] = bars[k]
  BY AppendProperties
<1>8. /\ Append(all, bar.rows) \in Seq(Rows) /\ Len(Append(all, bar.rows)) = n + 1
      /\ Append(all, bar.rows)[n + 1] = bar.rows
      /\ \A k \in 1..n : Append(all, bar.rows)[k] = all[k]
  <2> HIDE DEF all, n
  <2>1. bar.rows \in Rows
    BY <1>2
  <2> QED
    BY <1>5, <2>1, AppendProperties
<1>9. Parts(more) = [k \in 1..(n + 1) |-> more[k].rows]
  <2>1. DOMAIN more = 1..(n + 1)
    <3> HIDE DEF more, n
    <3> QED
      BY <1>7
  <2> QED
    BY <2>1 DEF Parts
<1>10. Append(all, bar.rows) = [k \in 1..(n + 1) |-> Append(all, bar.rows)[k]]
  <2> DEFINE s == Append(all, bar.rows)
  <2> HIDE DEF s, n
  <2>1. s \in Seq(Rows) /\ Len(s) = n + 1
    BY <1>8 DEF s
  <2>2. s = [k \in 1..(n + 1) |-> s[k]]
    BY <2>1
  <2> QED
    BY <2>2 DEF s
<1>11. \A k \in 1..(n + 1) : more[k].rows = Append(all, bar.rows)[k]
  <2> TAKE k \in 1..(n + 1)
  <2>1. k \in 1..n \/ k = n + 1
    BY <1>1
  <2>2. k \in 1..n => all[k] = bars[k].rows
    OBVIOUS
  <2> HIDE DEF more, all, n
  <2> QED
    BY <1>7, <1>8, <2>1, <2>2
<1> HIDE DEF more, all, n
<1>12. Parts(more) = Append(all, bar.rows)
  BY <1>9, <1>10, <1>11
<1> QED
  BY <1>3, <1>5, <1>6, <1>12 DEF more

LEMMA RowsAssociate ==
  ASSUME NEW s \in Seq(Nat), NEW t \in Seq(Nat), NEW u \in Seq(Nat)
  PROVE  (s \o t) \o u = s \o (t \o u)
BY SMTT(30)

\* However a row is added, it comes last when the bars are joined.
RowIsLast(bars, bar, row, ts) ==
  LET joined == FlattenSeq(Parts(Append(bars, bar))) IN
  /\ joined \in Rows
  /\ FlattenSeq(Parts(Append(Append(bars, bar), Bar(ts, <<row>>)))) = Append(joined, row)
  /\ FlattenSeq(Parts(Append(bars, Adding(bar, row)))) = Append(joined, row)

LEMMA FlatGrows ==
  ASSUME NEW bars \in Seq(BarsOfRows), NEW bar \in BarsOfRows, NEW row \in Nat, NEW ts \in Int
  PROVE  RowIsLast(bars, bar, row, ts)
<1> DEFINE ps == Parts(bars)
           p == bar.rows
           joined == FlattenSeq(Append(ps, p))
<1>1. bar.rows \in Rows /\ <<row>> \in Rows /\ Bar(ts, <<row>>).rows = <<row>>
  BY DEF BarsOfRows, Bar, Rows
<1>2. /\ ps \in Seq(Rows) /\ Parts(Append(bars, bar)) = Append(ps, p)
      /\ Parts(Append(bars, Adding(bar, row))) = Append(ps, Append(p, row))
  <2>1. Adding(bar, row) \in BarsOfRows /\ Adding(bar, row).rows = Append(p, row)
    BY BarsAre
  <2>2. ps \in Seq(Rows) /\ Parts(Append(bars, bar)) = Append(ps, p)
    BY PartsGrow, Zenon
  <2>3. Parts(Append(bars, Adding(bar, row))) = Append(ps, Adding(bar, row).rows)
    BY <2>1, PartsGrow, Zenon
  <2> QED
    BY <2>1, <2>2, <2>3, Zenon
<1>3. Append(bars, bar) \in Seq(BarsOfRows) /\ Append(bars, bar) # <<>>
  BY AppendProperties
<1>4. Parts(Append(Append(bars, bar), Bar(ts, <<row>>))) = Append(Append(ps, p), <<row>>)
  <2>1. Bar(ts, <<row>>) \in BarsOfRows
    BY BarsAre
  <2>2. Parts(Append(Append(bars, bar), Bar(ts, <<row>>)))
          = Append(Parts(Append(bars, bar)), Bar(ts, <<row>>).rows)
    BY <1>3, <2>1, PartsGrow, Zenon
  <2> QED
    BY <1>1, <1>2, <2>2, Zenon
<1> HIDE DEF ps
<1>5. Append(ps, p) \in Seq(Rows) /\ Append(ps, p) # <<>>
  BY <1>1, <1>2, AppendProperties
<1>6. Append(p, row) = p \o <<row>> /\ Append(p, row) \in Rows
  BY <1>1, AppendIsConcat, AppendProperties DEF Rows
<1>7. joined \in Rows /\ FlattenSeq(Append(Append(ps, p), <<row>>)) = joined \o <<row>>
  BY <1>1, <1>5, FlattenAppend
<1>8. joined \o <<row>> = Append(joined, row)
  <2> HIDE DEF joined
  <2> QED
    BY <1>7, AppendIsConcat DEF Rows
<1>9. FlattenSeq(Append(ps, Append(p, row))) = joined \o <<row>>
  <2>1. CASE ps = <<>>
    <3>1. \A x : Append(<<>>, x) = <<x>>
      OBVIOUS
    <3>2. joined = p /\ FlattenSeq(Append(ps, Append(p, row))) = Append(p, row)
      BY <1>1, <1>2, <1>6, <2>1, <3>1, FlattenAppend
    <3> QED
      BY <1>6, <3>2
  <2>2. CASE ps # <<>>
    <3>1. joined = FlattenSeq(ps) \o p /\ FlattenSeq(ps) \in Rows
      BY <1>1, <1>2, <2>2, FlattenAppend
    <3>2. FlattenSeq(Append(ps, Append(p, row))) = FlattenSeq(ps) \o (p \o <<row>>)
      BY <1>2, <1>6, <2>2, FlattenAppend
    <3>3. (FlattenSeq(ps) \o p) \o <<row>> = FlattenSeq(ps) \o (p \o <<row>>)
      <4>1. FlattenSeq(ps) \in Seq(Nat) /\ p \in Seq(Nat) /\ <<row>> \in Seq(Nat)
        BY <1>1, <3>1 DEF Rows
      <4> QED
        BY <4>1, RowsAssociate, Zenon
    <3> QED
      BY <3>1, <3>2, <3>3, Zenon
  <2> QED
    BY <2>1, <2>2
<1> QED
  BY <1>2, <1>4, <1>7, <1>8, <1>9 DEF RowIsLast

LEMMA CountStepIs ==
  ASSUME NEW s \in CountStates, NEW row \in Nat, NEW G \in Nat \ {0}
  PROVE  LET t == CountStep(s, row, G) IN
         /\ t \in CountStates /\ t.n = s.n + 1
         /\ s.n \div G # s.prev =>
              /\ t.bars = Append(s.bars, s.bar) /\ t.bar = Bar(row, <<row>>)
              /\ t.prev = s.n \div G
         /\ s.n \div G = s.prev =>
              t.bars = s.bars /\ t.bar = Adding(s.bar, row) /\ t.prev = s.prev
<1>1. /\ s.bars \in Seq(BarsOfRows) /\ s.bar \in BarsOfRows /\ s.prev \in Int /\ s.n \in Nat
      /\ s = [bars |-> s.bars, bar |-> s.bar, prev |-> s.prev, n |-> s.n]
  BY DEF CountStates
<1>2. Append(s.bars, s.bar) \in Seq(BarsOfRows)
  BY <1>1, AppendProperties
<1>3. Bar(row, <<row>>) \in BarsOfRows /\ Adding(s.bar, row) \in BarsOfRows
  BY <1>1, BarsAre
<1>4. s.n \div G \in Int /\ s.n + 1 \in Nat
  BY <1>1
<1>5. CASE s.n \div G # s.prev
  <2>1. CountStep(s, row, G) = [bars |-> Append(s.bars, s.bar), bar |-> Bar(row, <<row>>),
                                prev |-> s.n \div G, n |-> s.n + 1]
    BY <1>5 DEF CountStep
  <2> QED
    BY <1>2, <1>3, <1>4, <1>5, <2>1 DEF CountStates
<1>6. CASE s.n \div G = s.prev
  <2>1. CountStep(s, row, G) = [s EXCEPT !.bar = Adding(s.bar, row), !.n = s.n + 1]
    BY <1>6 DEF CountStep
  <2>2. CountStep(s, row, G) = [bars |-> s.bars, bar |-> Adding(s.bar, row),
                                prev |-> s.prev, n |-> s.n + 1]
    BY <1>1, <2>1
  <2> QED
    BY <1>1, <1>3, <1>4, <1>6, <2>2 DEF CountStates
<1> QED
  BY <1>5, <1>6

LEMMA TimeStepIs ==
  ASSUME NEW s \in TimeStates, NEW row \in Nat, NEW P \in Nat \ {0}
  PROVE  LET t == TimeStep(s, row, P) IN
         /\ t \in TimeStates
         /\ (row \div P) * P # s.bar.ts =>
              t.bars = Append(s.bars, s.bar) /\ t.bar = Bar((row \div P) * P, <<row>>)
         /\ (row \div P) * P = s.bar.ts => t.bars = s.bars /\ t.bar = Adding(s.bar, row)
<1>1. /\ s.bars \in Seq(BarsOfRows) /\ s.bar \in BarsOfRows
      /\ s = [bars |-> s.bars, bar |-> s.bar]
  BY DEF TimeStates
<1>2. Append(s.bars, s.bar) \in Seq(BarsOfRows)
  BY <1>1, AppendProperties
<1>3. (row \div P) * P \in Int
  OBVIOUS
<1>4. TimeStart(row, P) \in BarsOfRows /\ Adding(s.bar, row) \in BarsOfRows
  BY <1>1, <1>3, BarsAre DEF TimeStart
<1>5. TimeStart(row, P).ts = (row \div P) * P
  BY DEF TimeStart, Bar
<1>6. CASE (row \div P) * P # s.bar.ts
  <2>1. TimeStep(s, row, P) = [bars |-> Append(s.bars, s.bar), bar |-> TimeStart(row, P)]
    BY <1>5, <1>6 DEF TimeStep
  <2> QED
    BY <1>2, <1>4, <1>6, <2>1 DEF TimeStates, TimeStart
<1>7. CASE (row \div P) * P = s.bar.ts
  <2>1. TimeStep(s, row, P) = [s EXCEPT !.bar = Adding(s.bar, row)]
    BY <1>5, <1>7 DEF TimeStep
  <2>2. TimeStep(s, row, P) = [bars |-> s.bars, bar |-> Adding(s.bar, row)]
    BY <1>1, <2>1
  <2> QED
    BY <1>1, <1>4, <1>7, <2>2 DEF TimeStates
<1> QED
  BY <1>6, <1>7

TimeBegin(row, P) == [bars |-> <<>>, bar |-> TimeStart(row, P)]

\* q has the states of the first script, one for each row that is read.
Counts(q, rows, G) ==
  /\ q[0] = Begin(rows[1])
  /\ \A k \in 1..(Len(rows) - 1) : q[k] = CountStep(q[k - 1], rows[k + 1], G)

Times(q, rows, P) ==
  /\ q[0] = TimeBegin(rows[1], P)
  /\ \A k \in 1..(Len(rows) - 1) : q[k] = TimeStep(q[k - 1], rows[k + 1], P)

\* The folds of the two scripts, as a sequence of states.
LEMMA CountIsStepwise ==
  ASSUME NEW rows \in Rows, rows # <<>>, NEW G \in Nat \ {0}
  PROVE  \E q : /\ Counts(q, rows, G)
                /\ ByCount(rows, G) = Append(q[Len(rows) - 1].bars, q[Len(rows) - 1].bar)
<1> DEFINE tail == Tail(rows)
           n == Len(tail)
           base == Begin(Head(rows))
           At(f, W) == IF W = {} THEN base ELSE CountStep(f[W \ {Max(W)}], tail[Max(W)], G)
           iter == CHOOSE f : f = [W \in SUBSET (DOMAIN tail) |-> At(f, W)]
           op == [k \in 1..n |-> [x \in CountStates |-> CountStep(x, tail[k], G)]]
<1>1. /\ tail \in Rows /\ n \in Nat /\ n = Len(rows) - 1 /\ DOMAIN tail = 1..n
      /\ \A k \in 1..n : tail[k] \in Nat /\ tail[k] = rows[k + 1]
      /\ Head(rows) \in Nat /\ Head(rows) = rows[1]
  BY HeadTailProperties DEF Rows
<1>2. ByCount(rows, G) = Append(iter[DOMAIN tail].bars, iter[DOMAIN tail].bar)
  BY Zenon DEF ByCount, CountStep, FoldLeft, MapThenFoldSet
<1> HIDE DEF tail, n
<1>3. base \in CountStates
  <2>1. Bar(Head(rows), <<Head(rows)>>) \in BarsOfRows
    BY <1>1, BarsAre
  <2>2. <<>> \in Seq(BarsOfRows)
    OBVIOUS
  <2> QED
    BY <2>1, <2>2 DEF Begin, CountStates
<1> HIDE DEF base
<1>4. \A k \in 1..n : \A x \in CountStates : CountStep(x, tail[k], G) \in CountStates
  BY <1>1, CountStepIs
<1>5. op \in [1..n -> [CountStates -> CountStates]]
  BY <1>4
<1>6. \A k \in 1..n : \A x \in CountStates : op[k][x] = CountStep(x, tail[k], G)
  OBVIOUS
<1> HIDE DEF op
<1>7. PICK f : IsFold(f, CountStates, base, n, op)
  BY <1>1, <1>3, <1>5, FoldExists, Zenon
<1>8. \A W \in SUBSET (1..n) : f[W] = At(f, W)
  <2> SUFFICES ASSUME NEW W \in SUBSET (1..n), W # {}
               PROVE  f[W] = CountStep(f[W \ {Max(W)}], tail[Max(W)], G)
    BY <1>7 DEF IsFold
  <2>1. Max(W) \in 1..n
    BY <1>1, LatestIs
  <2>2. f[W \ {Max(W)}] \in CountStates /\ f[W] = op[Max(W)][f[W \ {Max(W)}]]
    BY <1>7 DEF IsFold
  <2> QED
    BY <1>6, <2>1, <2>2, Zenon
<1>9. f = [W \in SUBSET (DOMAIN tail) |-> At(f, W)]
  <2>1. f = [W \in SUBSET (1..n) |-> f[W]]
    BY <1>7 DEF IsFold
  <2> HIDE DEF At
  <2> QED
    BY <1>1, <1>8, <2>1
<1>10. iter = [W \in SUBSET (1..n) |-> At(iter, W)]
  <2> HIDE DEF At
  <2>1. iter = [W \in SUBSET (DOMAIN tail) |-> At(iter, W)]
    BY <1>9, Zenon
  <2> QED
    BY <1>1, <2>1
<1> HIDE DEF iter
<1>11. \A W \in SUBSET (1..n) : iter[W] = At(iter, W)
  <2> HIDE DEF At
  <2> QED
    BY <1>10
<1> DEFINE q == [k \in 0..n |-> iter[1..k]]
<1>12. q[0] = base
  <2>1. 1..0 = {} /\ {} \in SUBSET (1..n) /\ 0 \in 0..n
    BY <1>1
  <2>2. q[0] = iter[{}]
    BY <2>1
  <2> QED
    BY <1>11, <2>1, <2>2
<1>13. ASSUME NEW k \in 1..n
       PROVE  q[k] = CountStep(q[k - 1], rows[k + 1], G)
  <2>1. /\ 1..k \in SUBSET (1..n) /\ 1..k # {}
        /\ Max(1..k) = k /\ (1..k) \ {k} = 1..(k - 1)
    <3>1. n \in Nat
      BY <1>1
    <3> QED
      BY <3>1, PrefixEnds, Zenon
  <2>2. iter[1..k] = CountStep(iter[(1..k) \ {Max(1..k)}], tail[Max(1..k)], G)
    BY <1>11, <2>1, Zenon
  <2>3. iter[1..k] = CountStep(iter[1..(k - 1)], tail[k], G)
    BY <2>1, <2>2, Zenon
  <2>4. q[k] = iter[1..k] /\ q[k - 1] = iter[1..(k - 1)] /\ tail[k] = rows[k + 1]
    BY <1>1
  <2> HIDE DEF q
  <2> QED
    BY <2>3, <2>4, Zenon
<1>14. q[n] = iter[DOMAIN tail]
  BY <1>1
<1> HIDE DEF q
<1>15. Counts(q, rows, G)
  BY <1>1, <1>12, <1>13 DEF Counts, base
<1>16. ByCount(rows, G) = Append(q[Len(rows) - 1].bars, q[Len(rows) - 1].bar)
  BY <1>1, <1>2, <1>14, Zenon
<1> QED
  BY <1>15, <1>16

LEMMA TimeIsStepwise ==
  ASSUME NEW rows \in Rows, rows # <<>>, NEW P \in Nat \ {0}
  PROVE  \E q : /\ Times(q, rows, P)
                /\ ByTime(rows, P) = Append(q[Len(rows) - 1].bars, q[Len(rows) - 1].bar)
<1> DEFINE tail == Tail(rows)
           n == Len(tail)
           base == TimeBegin(Head(rows), P)
           At(f, W) == IF W = {} THEN base ELSE TimeStep(f[W \ {Max(W)}], tail[Max(W)], P)
           iter == CHOOSE f : f = [W \in SUBSET (DOMAIN tail) |-> At(f, W)]
           op == [k \in 1..n |-> [x \in TimeStates |-> TimeStep(x, tail[k], P)]]
<1>1. /\ tail \in Rows /\ n \in Nat /\ n = Len(rows) - 1 /\ DOMAIN tail = 1..n
      /\ \A k \in 1..n : tail[k] \in Nat /\ tail[k] = rows[k + 1]
      /\ Head(rows) \in Nat /\ Head(rows) = rows[1]
  BY HeadTailProperties DEF Rows
<1>2. ByTime(rows, P) = Append(iter[DOMAIN tail].bars, iter[DOMAIN tail].bar)
  BY Zenon DEF ByTime, TimeBegin, TimeStart, TimeStep, FoldLeft, MapThenFoldSet
<1> HIDE DEF tail, n
<1>3. base \in TimeStates
  <2>1. TimeStart(Head(rows), P) \in BarsOfRows
    <3>1. (Head(rows) \div P) * P \in Int
      BY <1>1
    <3> QED
      BY <1>1, <3>1, BarsAre DEF TimeStart
  <2>2. <<>> \in Seq(BarsOfRows)
    OBVIOUS
  <2> QED
    BY <2>1, <2>2 DEF TimeBegin, TimeStates
<1> HIDE DEF base
<1>4. \A k \in 1..n : \A x \in TimeStates : TimeStep(x, tail[k], P) \in TimeStates
  BY <1>1, TimeStepIs
<1>5. op \in [1..n -> [TimeStates -> TimeStates]]
  BY <1>4
<1>6. \A k \in 1..n : \A x \in TimeStates : op[k][x] = TimeStep(x, tail[k], P)
  OBVIOUS
<1> HIDE DEF op
<1>7. PICK f : IsFold(f, TimeStates, base, n, op)
  BY <1>1, <1>3, <1>5, FoldExists, Zenon
<1>8. \A W \in SUBSET (1..n) : f[W] = At(f, W)
  <2> SUFFICES ASSUME NEW W \in SUBSET (1..n), W # {}
               PROVE  f[W] = TimeStep(f[W \ {Max(W)}], tail[Max(W)], P)
    BY <1>7 DEF IsFold
  <2>1. Max(W) \in 1..n
    BY <1>1, LatestIs
  <2>2. f[W \ {Max(W)}] \in TimeStates /\ f[W] = op[Max(W)][f[W \ {Max(W)}]]
    BY <1>7 DEF IsFold
  <2> QED
    BY <1>6, <2>1, <2>2, Zenon
<1>9. f = [W \in SUBSET (DOMAIN tail) |-> At(f, W)]
  <2>1. f = [W \in SUBSET (1..n) |-> f[W]]
    BY <1>7 DEF IsFold
  <2> HIDE DEF At
  <2> QED
    BY <1>1, <1>8, <2>1
<1>10. iter = [W \in SUBSET (1..n) |-> At(iter, W)]
  <2> HIDE DEF At
  <2>1. iter = [W \in SUBSET (DOMAIN tail) |-> At(iter, W)]
    BY <1>9, Zenon
  <2> QED
    BY <1>1, <2>1
<1> HIDE DEF iter
<1>11. \A W \in SUBSET (1..n) : iter[W] = At(iter, W)
  <2> HIDE DEF At
  <2> QED
    BY <1>10
<1> DEFINE q == [k \in 0..n |-> iter[1..k]]
<1>12. q[0] = base
  <2>1. 1..0 = {} /\ {} \in SUBSET (1..n) /\ 0 \in 0..n
    BY <1>1
  <2>2. q[0] = iter[{}]
    BY <2>1
  <2> QED
    BY <1>11, <2>1, <2>2
<1>13. ASSUME NEW k \in 1..n
       PROVE  q[k] = TimeStep(q[k - 1], rows[k + 1], P)
  <2>1. /\ 1..k \in SUBSET (1..n) /\ 1..k # {}
        /\ Max(1..k) = k /\ (1..k) \ {k} = 1..(k - 1)
    <3>1. n \in Nat
      BY <1>1
    <3> QED
      BY <3>1, PrefixEnds, Zenon
  <2>2. iter[1..k] = TimeStep(iter[(1..k) \ {Max(1..k)}], tail[Max(1..k)], P)
    BY <1>11, <2>1, Zenon
  <2>3. iter[1..k] = TimeStep(iter[1..(k - 1)], tail[k], P)
    BY <2>1, <2>2, Zenon
  <2>4. q[k] = iter[1..k] /\ q[k - 1] = iter[1..(k - 1)] /\ tail[k] = rows[k + 1]
    BY <1>1
  <2> HIDE DEF q
  <2> QED
    BY <2>3, <2>4, Zenon
<1>14. q[n] = iter[DOMAIN tail]
  BY <1>1
<1> HIDE DEF q
<1>15. Times(q, rows, P)
  BY <1>1, <1>12, <1>13 DEF Times, base
<1>16. ByTime(rows, P) = Append(q[Len(rows) - 1].bars, q[Len(rows) - 1].bar)
  BY <1>1, <1>2, <1>14, Zenon
<1> QED
  BY <1>15, <1>16

\* The rows of all bars, the one being made included.
Joined(s) == FlattenSeq(Parts(Append(s.bars, s.bar)))

LEMMA OneRowMore ==
  ASSUME NEW rows \in Rows, NEW k \in 1..(Len(rows) - 1)
  PROVE  SubSeq(rows, 1, k + 1) = Append(SubSeq(rows, 1, k), rows[k + 1])
<1>1. /\ 1 \in 1..Len(rows) /\ k + 1 \in 1..Len(rows) /\ (k + 1) - 1 = k
      /\ Len(rows) \in Nat /\ k \in Int /\ 1 \in Int
  BY DEF Rows
<1>2. SubSeq(rows, 1, k + 1) = SubSeq(rows, 1, (k + 1) - 1) \o <<rows[k + 1]>>
  BY <1>1, SubSeqRecursiveSecond DEF Rows
<1>3. \A i \in 1..k : rows[i] \in Nat
  BY <1>1 DEF Rows
<1>4. SubSeq(rows, 1, k) \in Seq(Nat)
  BY <1>1, <1>3, SubSeqProperties
<1>5. rows[k + 1] \in Nat
  BY <1>1 DEF Rows
<1>6. Append(SubSeq(rows, 1, k), rows[k + 1]) = SubSeq(rows, 1, k) \o <<rows[k + 1]>>
  BY <1>4, <1>5, AppendIsConcat
<1> QED
  BY <1>1, <1>2, <1>6

LEMMA OneRow ==
  ASSUME NEW rows \in Rows, rows # <<>>, NEW ts
  PROVE  /\ rows[1] \in Nat /\ Len(rows) \in Nat \ {0}
         /\ FlattenSeq(Parts(Append(<<>>, Bar(ts, <<rows[1]>>)))) = SubSeq(rows, 1, 1)
<1>1. Len(rows) \in Nat \ {0} /\ 1 \in 1..Len(rows)
  BY EmptySeq DEF Rows
<1>2. rows[1] \in Nat
  BY <1>1 DEF Rows
<1>3. Parts(Append(<<>>, Bar(ts, <<rows[1]>>))) = <<<<rows[1]>>>>
  BY DEF Parts, Bar
<1>4. <<rows[1]>> \in Rows /\ <<>> \in Seq(Rows)
  BY <1>2 DEF Rows
<1>5. FlattenSeq(<<<<rows[1]>>>>) = <<rows[1]>>
  BY <1>4, FlattenAppend
<1>6. SubSeq(rows, 1, 1) = <<rows[1]>>
  <2>1. /\ SubSeq(rows, 1, 1) \in Seq(Nat) /\ Len(SubSeq(rows, 1, 1)) = 1
        /\ SubSeq(rows, 1, 1)[1] = rows[1]
    <3>1. 1 \in Int /\ \A i \in 1..1 : rows[i] \in Nat
      BY <1>2
    <3> QED
      BY <3>1, SubSeqProperties
  <2>2. \A s : s \in Seq(Nat) /\ Len(s) = 1 => s = <<s[1]>>
    OBVIOUS
  <2> QED
    BY <2>1, <2>2
<1> QED
  BY <1>1, <1>2, <1>3, <1>5, <1>6

\* After any row the bars made so far have the rows read so far, in order.
LEMMA CountKeepsRows ==
  ASSUME NEW rows \in Rows, rows # <<>>, NEW G \in Nat \ {0}, NEW q, Counts(q, rows, G)
  PROVE  \A k \in 0..(Len(rows) - 1) :
           q[k] \in CountStates /\ q[k].n = k + 1 /\ Joined(q[k]) = SubSeq(rows, 1, k + 1)
<1> DEFINE Fine(k) == q[k] \in CountStates /\ q[k].n = k + 1 /\ Joined(q[k]) = SubSeq(rows, 1, k + 1)
           Good == {k \in Nat : k <= Len(rows) - 1 => Fine(k)}
<1>1. /\ rows[1] \in Nat /\ Len(rows) \in Nat \ {0}
      /\ FlattenSeq(Parts(Append(<<>>, Bar(rows[1], <<rows[1]>>)))) = SubSeq(rows, 1, 1)
  BY OneRow
<1>2. Fine(0)
  <2>1. Bar(rows[1], <<rows[1]>>) \in BarsOfRows
    BY <1>1, BarsAre
  <2>2. <<>> \in Seq(BarsOfRows)
    OBVIOUS
  <2>3. q[0] = [bars |-> <<>>, bar |-> Bar(rows[1], <<rows[1]>>), prev |-> 0, n |-> 1]
    BY DEF Counts, Begin
  <2> QED
    BY <1>1, <2>1, <2>2, <2>3 DEF CountStates, Joined
<1>3. ASSUME NEW k \in Good
      PROVE  k + 1 \in Good
  <2>0. k \in Nat
    BY <1>3
  <2> SUFFICES ASSUME k + 1 <= Len(rows) - 1
               PROVE  Fine(k + 1)
    BY <2>0
  <2>1. k + 1 \in 1..(Len(rows) - 1) /\ (k + 1) - 1 = k /\ k <= Len(rows) - 1
    BY <1>1, <2>0
  <2>2. Fine(k)
    BY <1>3, <2>1
  <2>3. rows[(k + 1) + 1] \in Nat
    <3>1. (k + 1) + 1 \in 1..Len(rows)
      BY <1>1, <2>1
    <3> QED
      BY <3>1 DEF Rows
  <2> DEFINE s == q[k]
             t == q[k + 1]
             row == rows[(k + 1) + 1]
  <2>4. t = CountStep(s, row, G)
    BY <2>1 DEF Counts
  <2> HIDE DEF s, t
  <2>5. s \in CountStates /\ s.n = k + 1 /\ Joined(s) = SubSeq(rows, 1, k + 1)
    BY <2>2 DEF s
  <2> HIDE DEF row
  <2>6. /\ t \in CountStates /\ t.n = s.n + 1
        /\ \/ t.bars = Append(s.bars, s.bar) /\ t.bar = Bar(row, <<row>>)
           \/ t.bars = s.bars /\ t.bar = Adding(s.bar, row)
    BY <2>3, <2>4, <2>5, CountStepIs DEF row
  <2>7. s.bars \in Seq(BarsOfRows) /\ s.bar \in BarsOfRows /\ row \in Nat /\ row \in Int
    BY <2>3, <2>5 DEF CountStates, row
  <2>8. Joined(t) = Append(Joined(s), row)
    <3>1. RowIsLast(s.bars, s.bar, row, row)
      BY <2>7, FlatGrows, Zenon
    <3>2. /\ FlattenSeq(Parts(Append(Append(s.bars, s.bar), Bar(row, <<row>>))))
               = Append(Joined(s), row)
          /\ FlattenSeq(Parts(Append(s.bars, Adding(s.bar, row)))) = Append(Joined(s), row)
      BY <3>1, Zenon DEF RowIsLast, Joined
    <3> QED
      BY <2>6, <3>2, Zenon DEF Joined
  <2>9. SubSeq(rows, 1, (k + 1) + 1) = Append(SubSeq(rows, 1, k + 1), row)
    BY <2>1, OneRowMore DEF row
  <2> QED
    BY <2>5, <2>6, <2>8, <2>9 DEF t
<1>4. Good = Nat
  <2>1. 0 \in Good
    BY <1>2
  <2> HIDE DEF Good
  <2>2. Good \in SUBSET Nat
    BY DEF Good
  <2> QED
    BY <1>3, <2>1, <2>2, Counting
<1> HIDE DEF Fine
<1>5. ASSUME NEW k \in 0..(Len(rows) - 1)
      PROVE  Fine(k)
  <2>1. k \in Nat /\ k <= Len(rows) - 1
    BY <1>1
  <2> QED
    BY <1>4, <2>1
<1> QED
  BY <1>5 DEF Fine

LEMMA TimeKeepsRows ==
  ASSUME NEW rows \in Rows, rows # <<>>, NEW P \in Nat \ {0}, NEW q, Times(q, rows, P)
  PROVE  \A k \in 0..(Len(rows) - 1) :
           q[k] \in TimeStates /\ Joined(q[k]) = SubSeq(rows, 1, k + 1)
<1> DEFINE Fine(k) == q[k] \in TimeStates /\ Joined(q[k]) = SubSeq(rows, 1, k + 1)
           Good == {k \in Nat : k <= Len(rows) - 1 => Fine(k)}
           first == (rows[1] \div P) * P
<1>1. /\ rows[1] \in Nat /\ Len(rows) \in Nat \ {0}
      /\ FlattenSeq(Parts(Append(<<>>, Bar(first, <<rows[1]>>)))) = SubSeq(rows, 1, 1)
  BY OneRow
<1>2. Fine(0)
  <2>0. first \in Int
    BY <1>1
  <2>1. Bar(first, <<rows[1]>>) \in BarsOfRows
    BY <1>1, <2>0, BarsAre
  <2>2. <<>> \in Seq(BarsOfRows)
    OBVIOUS
  <2>3. q[0] = [bars |-> <<>>, bar |-> Bar(first, <<rows[1]>>)]
    BY DEF Times, TimeBegin, TimeStart
  <2> QED
    BY <1>1, <2>1, <2>2, <2>3 DEF TimeStates, Joined
<1>3. ASSUME NEW k \in Good
      PROVE  k + 1 \in Good
  <2>0. k \in Nat
    BY <1>3
  <2> SUFFICES ASSUME k + 1 <= Len(rows) - 1
               PROVE  Fine(k + 1)
    BY <2>0
  <2>1. k + 1 \in 1..(Len(rows) - 1) /\ (k + 1) - 1 = k /\ k <= Len(rows) - 1
    BY <1>1, <2>0
  <2>2. Fine(k)
    BY <1>3, <2>1
  <2>3. rows[(k + 1) + 1] \in Nat
    <3>1. (k + 1) + 1 \in 1..Len(rows)
      BY <1>1, <2>1
    <3> QED
      BY <3>1 DEF Rows
  <2> DEFINE s == q[k]
             t == q[k + 1]
             row == rows[(k + 1) + 1]
             start == (row \div P) * P
  <2>4. t = TimeStep(s, row, P)
    BY <2>1 DEF Times
  <2> HIDE DEF s, t
  <2>5. s \in TimeStates /\ Joined(s) = SubSeq(rows, 1, k + 1)
    BY <2>2 DEF s
  <2> HIDE DEF row
  <2>6. /\ t \in TimeStates
        /\ \/ t.bars = Append(s.bars, s.bar) /\ t.bar = Bar(start, <<row>>)
           \/ t.bars = s.bars /\ t.bar = Adding(s.bar, row)
    BY <2>3, <2>4, <2>5, TimeStepIs DEF row
  <2>7. s.bars \in Seq(BarsOfRows) /\ s.bar \in BarsOfRows /\ row \in Nat /\ start \in Int
    BY <2>3, <2>5 DEF TimeStates, row
  <2> HIDE DEF start
  <2>8. Joined(t) = Append(Joined(s), row)
    <3>1. RowIsLast(s.bars, s.bar, row, start)
      BY <2>7, FlatGrows, Zenon
    <3>2. /\ FlattenSeq(Parts(Append(Append(s.bars, s.bar), Bar(start, <<row>>))))
               = Append(Joined(s), row)
          /\ FlattenSeq(Parts(Append(s.bars, Adding(s.bar, row)))) = Append(Joined(s), row)
      BY <3>1, Zenon DEF RowIsLast, Joined
    <3> QED
      BY <2>6, <3>2, Zenon DEF Joined
  <2>9. SubSeq(rows, 1, (k + 1) + 1) = Append(SubSeq(rows, 1, k + 1), row)
    BY <2>1, OneRowMore DEF row
  <2> QED
    BY <2>5, <2>6, <2>8, <2>9 DEF t
<1>4. Good = Nat
  <2>1. 0 \in Good
    BY <1>2
  <2> HIDE DEF Good
  <2>2. Good \in SUBSET Nat
    BY DEF Good
  <2> QED
    BY <1>3, <2>1, <2>2, Counting
<1> HIDE DEF Fine
<1>5. ASSUME NEW k \in 0..(Len(rows) - 1)
      PROVE  Fine(k)
  <2>1. k \in Nat /\ k <= Len(rows) - 1
    BY <1>1
  <2> QED
    BY <1>4, <2>1
<1> QED
  BY <1>5 DEF Fine

LEMMA Quotient ==
  ASSUME NEW G \in Nat \ {0}, NEW q \in Int, NEW r \in Int, 0 <= r, r < G
  PROVE  (q * G + r) \div G = q
<1> DEFINE d == (q * G + r) \div G
           m == (q * G + r) % G
<1>0. q * G + r \in Int
  OBVIOUS
<1>1. d \in Int /\ m \in Int /\ 0 <= m /\ m < G /\ q * G + r = d * G + m
  BY <1>0
<1> HIDE DEF d, m
<1>2. d = q
  <2>1. (q - d) * G = m - r
    BY <1>1
  <2>2. CASE q - d >= 1
    <3>1. (q - d) * G >= G
      BY <1>1, <2>2
    <3> QED
      BY <1>1, <2>1, <3>1
  <2>3. CASE q - d <= -1
    <3>1. (q - d) * G <= -G
      BY <1>1, <2>3
    <3> QED
      BY <1>1, <2>1, <3>1
  <2> QED
    BY <1>1, <2>2, <2>3
<1> QED
  BY <1>2 DEF d

\* A row k places after one that begins a period is in the period of k.
LEMMA PeriodOf ==
  ASSUME NEW G \in Nat \ {0}, NEW h \in Nat, h % G = 0, NEW k \in Nat
  PROVE  ((h + k) \div G) * G = h + (k \div G) * G
<1> DEFINE a == h \div G
           q == k \div G
           r == k % G
<1>1. /\ a \in Int /\ q \in Int /\ r \in Int /\ 0 <= r /\ r < G
      /\ h = a * G /\ k = q * G + r
  OBVIOUS
<1> HIDE DEF a, q, r
<1>2. h + k = (a + q) * G + r /\ (a + q) * G = a * G + q * G /\ a + q \in Int
  BY <1>1
<1>3. ((a + q) * G + r) \div G = a + q
  BY <1>1, <1>2, Quotient
<1>4. ((h + k) \div G) * G = a * G + q * G
  BY <1>2, <1>3
<1> QED
  BY <1>1, <1>4 DEF q

\* A new period begins with its first row.
LEMMA PeriodBegins ==
  ASSUME NEW G \in Nat \ {0}, NEW k \in Nat
  PROVE  /\ (k + 1) \div G \in Int /\ k \div G \in Int
         /\ ((k + 1) \div G) * G = (k \div G) * G <=> (k + 1) \div G = k \div G
         /\ (k + 1) \div G # k \div G => ((k + 1) \div G) * G = k + 1
<1> DEFINE q == k \div G
           p == (k + 1) \div G
           r == k % G
<1>1. /\ q \in Int /\ p \in Int /\ r \in Int /\ 0 <= r /\ r < G
      /\ k = q * G + r
  OBVIOUS
<1>2. r + 1 < G => p = q
  <2> HIDE DEF q, r
  <2>1. k + 1 = q * G + (r + 1) /\ r + 1 \in Int /\ 0 <= r + 1
    BY <1>1
  <2> QED
    BY <1>1, <2>1, Quotient
<1>3. ~(r + 1 < G) => p * G = k + 1
  <2> HIDE DEF q, r
  <2> SUFFICES ASSUME ~(r + 1 < G)
               PROVE  p * G = k + 1
    OBVIOUS
  <2>1. r + 1 = G
    BY <1>1
  <2>2. k + 1 = (q + 1) * G + 0 /\ q + 1 \in Int /\ (q + 1) * G + 0 = (q + 1) * G
    BY <1>1, <2>1
  <2>3. ((q + 1) * G + 0) \div G = q + 1
    BY <2>2, Quotient
  <2> QED
    BY <2>2, <2>3
<1>4. p * G = q * G => p = q
  <2> HIDE DEF p, q
  <2>1. (p * G + 0) \div G = p /\ (q * G + 0) \div G = q
    BY <1>1, Quotient
  <2>2. p * G + 0 = p * G /\ q * G + 0 = q * G
    BY <1>1
  <2> QED
    BY <2>1, <2>2
<1> HIDE DEF r
<1> QED
  BY <1>1, <1>2, <1>3, <1>4

Rising(rows) == \A k \in 1..(Len(rows) - 1) : rows[k] < rows[k + 1]

\* As many rows as they span, one later than the other: there is no gap.
LEMMA Gapless ==
  ASSUME NEW rows \in Rows, rows # <<>>, Rising(rows),
         rows[Len(rows)] - rows[1] = Len(rows) - 1
  PROVE  \A k \in 0..(Len(rows) - 1) : rows[k + 1] = rows[1] + k
<1> DEFINE n == Len(rows)
           Apart(i, j) == i + j <= n => rows[i + j] >= rows[i] + j
           Good == {j \in Nat : \A i \in 1..n : Apart(i, j)}
<1>1. /\ n \in Nat \ {0} /\ \A i \in 1..n : rows[i] \in Nat
      /\ rows[n] - rows[1] = n - 1
  BY EmptySeq DEF Rows
<1>2. \A i \in 1..(n - 1) : rows[i] < rows[i + 1]
  BY DEF Rising
<1> HIDE DEF n
<1>3. 0 \in Good
  BY <1>1
<1>4. ASSUME NEW j \in Good
      PROVE  j + 1 \in Good
  <2>1. j \in Nat /\ j + 1 \in Nat
    BY <1>4
  <2>2. ASSUME NEW i \in 1..n, i + (j + 1) <= n
        PROVE  rows[i + (j + 1)] >= rows[i] + (j + 1)
    <3>1. i + j \in 1..(n - 1) /\ i + (j + 1) = (i + j) + 1 /\ i + j <= n /\ i + (j + 1) \in 1..n
      BY <1>1, <2>1, <2>2
    <3>2. rows[i + j] >= rows[i] + j
      BY <1>4, <3>1
    <3>3. rows[i + j] < rows[(i + j) + 1]
      BY <1>2, <3>1
    <3>4. rows[i + j] \in Nat /\ rows[i + (j + 1)] \in Nat /\ rows[i] \in Nat
      BY <1>1, <3>1
    <3> QED
      BY <2>1, <3>1, <3>2, <3>3, <3>4
  <2> QED
    BY <2>1, <2>2
<1>5. Good = Nat
  <2> HIDE DEF Good
  <2>1. Good \in SUBSET Nat
    BY DEF Good
  <2> QED
    BY <1>3, <1>4, <2>1, Counting
<1>6. \A j \in Nat : \A i \in 1..n : Apart(i, j)
  BY <1>5
<1>7. ASSUME NEW k \in 0..(n - 1)
      PROVE  rows[k + 1] = rows[1] + k
  <2>1. k \in Nat /\ 1 \in 1..n /\ k + 1 \in 1..n /\ 1 + k = k + 1 /\ n \in 1..n
    BY <1>1
  <2>2. rows[k + 1] >= rows[1] + k
    BY <1>6, <2>1
  <2>3. n - (k + 1) \in Nat /\ (k + 1) + (n - (k + 1)) = n
    BY <1>1
  <2>4. rows[n] >= rows[k + 1] + (n - (k + 1))
    <3>1. Apart(k + 1, n - (k + 1))
      <4> HIDE DEF Apart
      <4> QED
        BY <1>6, <2>1, <2>3
    <3> QED
      BY <1>1, <2>3, <3>1
  <2>5. rows[n] \in Nat /\ rows[k + 1] \in Nat /\ rows[1] \in Nat
    BY <1>1, <2>1
  <2>6. k \in Int /\ n \in Int /\ rows[n] = rows[1] + (n - 1)
    BY <1>1, <2>1, <2>5
  <2>8. rows[n] \in Int /\ rows[k + 1] \in Int /\ rows[1] \in Int
    BY <2>5
  <2> QED
    BY <2>2, <2>4, <2>6, <2>8
<1> QED
  BY <1>7 DEF n

\* Without gaps, and from the beginning of a period, both make the same bars.
LEMMA SameBars ==
  ASSUME NEW rows \in Rows, rows # <<>>, NEW G \in Nat \ {0}, rows[1] % G = 0,
         \A k \in 0..(Len(rows) - 1) : rows[k + 1] = rows[1] + k,
         NEW c, Counts(c, rows, G), NEW t, Times(t, rows, G)
  PROVE  \A k \in 0..(Len(rows) - 1) : c[k].bars = t[k].bars /\ c[k].bar = t[k].bar
<1> DEFINE h == rows[1]
           Same(k) == /\ c[k].bars = t[k].bars /\ c[k].bar = t[k].bar
                      /\ c[k].prev = k \div G /\ t[k].bar.ts = h + (k \div G) * G
           Good == {k \in Nat : k <= Len(rows) - 1 => Same(k)}
<1>1. Len(rows) \in Nat \ {0} /\ h \in Nat
  BY EmptySeq DEF Rows
<1>2. \A k \in Nat : k \div G \in Int /\ (k \div G) * G \in Int
  OBVIOUS
<1>3. \A k \in Nat : ((h + k) \div G) * G = h + (k \div G) * G
  BY <1>1, PeriodOf
<1>4. Same(0)
  <2>1. 0 \div G = 0 /\ h + 0 = h /\ 0 * G = 0
    OBVIOUS
  <2>2. (h \div G) * G = h
    BY <1>1, <1>3, <2>1
  <2>3. c[0] = [bars |-> <<>>, bar |-> Bar(h, <<h>>), prev |-> 0, n |-> 1]
    BY DEF Counts, Begin
  <2>4. t[0] = [bars |-> <<>>, bar |-> Bar(h, <<h>>)]
    BY <2>2 DEF Times, TimeBegin, TimeStart
  <2>5. Bar(h, <<h>>).ts = h
    BY DEF Bar
  <2> QED
    BY <1>1, <2>1, <2>3, <2>4, <2>5
<1>5. ASSUME NEW k \in Good
      PROVE  k + 1 \in Good
  <2>0. k \in Nat
    BY <1>5
  <2> SUFFICES ASSUME k + 1 <= Len(rows) - 1
               PROVE  Same(k + 1)
    BY <2>0
  <2>1. /\ k + 1 \in 1..(Len(rows) - 1) /\ (k + 1) - 1 = k /\ k \in 0..(Len(rows) - 1)
        /\ k <= Len(rows) - 1 /\ k + 1 \in 0..(Len(rows) - 1) /\ k + 1 \in Nat
    BY <1>1, <2>0
  <2>2. Same(k)
    BY <1>5, <2>1
  <2> DEFINE row == rows[(k + 1) + 1]
             q == k \div G
             p == (k + 1) \div G
  <2>3. row = h + (k + 1) /\ row \in Nat
    BY <1>1, <2>1
  <2>4. (row \div G) * G = h + p * G
    BY <1>3, <2>1, <2>3
  <2>5. c[k + 1] = CountStep(c[k], row, G) /\ t[k + 1] = TimeStep(t[k], row, G)
    BY <2>1 DEF Counts, Times
  <2>6. /\ c[k] \in CountStates /\ c[k].n = k + 1 /\ t[k] \in TimeStates
    BY <2>1, CountKeepsRows, TimeKeepsRows
  <2>7. /\ p \in Int /\ q \in Int
        /\ p * G = q * G <=> p = q
        /\ p # q => p * G = k + 1
    BY <2>0, PeriodBegins
  <2>8. p * G \in Int /\ q * G \in Int
    BY <2>7
  <2> HIDE DEF p, q, row, h
  <2>11. /\ p # q =>
               /\ c[k + 1].bars = Append(c[k].bars, c[k].bar) /\ c[k + 1].bar = Bar(row, <<row>>)
               /\ c[k + 1].prev = p
         /\ p = q =>
               /\ c[k + 1].bars = c[k].bars /\ c[k + 1].bar = Adding(c[k].bar, row)
               /\ c[k + 1].prev = q
    <3>1. c[k].n \div G = p /\ c[k].prev = q
      BY <2>2, <2>6 DEF p, q
    <3>2. /\ p # q =>
               /\ c[k + 1].bars = Append(c[k].bars, c[k].bar) /\ c[k + 1].bar = Bar(row, <<row>>)
               /\ c[k + 1].prev = p
          /\ p = q =>
               /\ c[k + 1].bars = c[k].bars /\ c[k + 1].bar = Adding(c[k].bar, row)
               /\ c[k + 1].prev = c[k].prev
      <4> DEFINE s == c[k]
                 u == CountStep(s, row, G)
      <4>1. /\ s.n \div G # s.prev =>
                 /\ u.bars = Append(s.bars, s.bar) /\ u.bar = Bar(row, <<row>>)
                 /\ u.prev = s.n \div G
            /\ s.n \div G = s.prev =>
                 u.bars = s.bars /\ u.bar = Adding(s.bar, row) /\ u.prev = s.prev
        <5> HIDE DEF s
        <5>1. s \in CountStates
          BY <2>6 DEF s
        <5> QED
          BY <2>3, <5>1, CountStepIs, Zenon
      <4>2. c[k + 1] = u
        BY <2>5
      <4> HIDE DEF u
      <4> QED
        BY <3>1, <4>1, <4>2
    <3> QED
      BY <3>1, <3>2
  <2>12. /\ (row \div G) * G # t[k].bar.ts =>
              /\ t[k + 1].bars = Append(t[k].bars, t[k].bar)
              /\ t[k + 1].bar = Bar((row \div G) * G, <<row>>)
         /\ (row \div G) * G = t[k].bar.ts =>
              t[k + 1].bars = t[k].bars /\ t[k + 1].bar = Adding(t[k].bar, row)
    <3> DEFINE s == t[k]
               u == TimeStep(s, row, G)
    <3>1. /\ (row \div G) * G # s.bar.ts =>
               u.bars = Append(s.bars, s.bar) /\ u.bar = Bar((row \div G) * G, <<row>>)
          /\ (row \div G) * G = s.bar.ts =>
               u.bars = s.bars /\ u.bar = Adding(s.bar, row)
      <4> HIDE DEF s
      <4>1. s \in TimeStates
        BY <2>6 DEF s
      <4> QED
        BY <2>3, <4>1, TimeStepIs
    <3>2. t[k + 1] = u
      BY <2>5
    <3> HIDE DEF u
    <3> QED
      BY <3>1, <3>2
  <2>9. CASE p = q
    <3>1. c[k + 1].bars = c[k].bars /\ c[k + 1].bar = Adding(c[k].bar, row) /\ c[k + 1].prev = q
      BY <2>9, <2>11
    <3>2. (row \div G) * G = t[k].bar.ts
      BY <2>2, <2>4, <2>9 DEF q
    <3>3. t[k + 1].bars = t[k].bars /\ t[k + 1].bar = Adding(t[k].bar, row)
      BY <2>12, <3>2
    <3>4. t[k + 1].bar.ts = t[k].bar.ts
      <4>1. t[k].bar \in BarsOfRows
        BY <2>6 DEF TimeStates
      <4>2. \A bar \in BarsOfRows : Adding(bar, row).ts = bar.ts
        BY <2>3, BarsAre
      <4>3. Adding(t[k].bar, row).ts = t[k].bar.ts
        BY <4>1, <4>2, Zenon
      <4> QED
        BY <3>3, <4>3
    <3> QED
      BY <2>2, <2>9, <3>1, <3>3, <3>4 DEF p, q
  <2>10. CASE p # q
    <3>1. /\ c[k + 1].bars = Append(c[k].bars, c[k].bar) /\ c[k + 1].bar = Bar(row, <<row>>)
          /\ c[k + 1].prev = p
      BY <2>10, <2>11
    <3>2. (row \div G) * G # t[k].bar.ts
      <4>1. p * G # q * G
        BY <2>7, <2>10
      <4>2. t[k].bar.ts = h + q * G
        BY <2>2 DEF q
      <4> QED
        BY <1>1, <2>4, <2>8, <4>1, <4>2
    <3>3. t[k + 1].bars = Append(t[k].bars, t[k].bar) /\ t[k + 1].bar = Bar((row \div G) * G, <<row>>)
      BY <2>12, <3>2
    <3>4. (row \div G) * G = row
      BY <2>3, <2>4, <2>7, <2>10
    <3>5. t[k + 1].bar = Bar(row, <<row>>) /\ Bar(row, <<row>>).ts = row
      BY <3>3, <3>4 DEF Bar
    <3>6. row = h + p * G
      BY <2>4, <3>4
    <3> QED
      BY <2>2, <3>1, <3>3, <3>5, <3>6 DEF p
  <2> QED
    BY <2>9, <2>10
<1>6. Good = Nat
  <2>1. 0 \in Good
    BY <1>4
  <2> HIDE DEF Good
  <2>2. Good \in SUBSET Nat
    BY DEF Good
  <2> QED
    BY <1>5, <2>1, <2>2, Counting
<1> HIDE DEF Same
<1>7. ASSUME NEW k \in 0..(Len(rows) - 1)
      PROVE  Same(k)
  <2>1. k \in Nat /\ k <= Len(rows) - 1
    BY <1>1
  <2> QED
    BY <1>6, <2>1
<1> QED
  BY <1>7 DEF Same

LEMMA FramesAgree ==
  ASSUME Answers
  PROVE  HigherFramesAgree
<1> DEFINE rows == request.rows
           G == request.G
           n == Len(rows)
<1> SUFFICES ASSUME Answered("bars")
             PROVE  /\ FlattenSeq(Parts(answer.by_count)) = rows
                    /\ FlattenSeq(Parts(answer.by_time)) = rows
                    /\ Last(rows) - Head(rows) = n - 1 /\ Head(rows) % G = 0 =>
                         answer.by_count = answer.by_time
  BY DEF HigherFramesAgree, Parts
<1>1. request \in BarRequests
  BY RoutesAreApart DEF Answers, Answered
<1>2. rows \in Rows /\ rows # <<>> /\ G \in Nat \ {0} /\ Rising(rows)
  BY <1>1, DecisionsConstants DEF Rows, Rising
<1>3. answer.by_count = ByCount(rows, G) /\ answer.by_time = ByTime(rows, G)
  BY DEF Answers
<1>4. /\ n \in Nat \ {0} /\ n - 1 \in 0..(n - 1) /\ (n - 1) + 1 = n
      /\ Head(rows) = rows[1] /\ Last(rows) = rows[n]
  BY <1>2, EmptySeq DEF Rows, Last
<1>5. SubSeq(rows, 1, n) = rows
  BY <1>2, SubSeqFull DEF Rows
<1> HIDE DEF rows, G, n
<1>6. PICK c : /\ Counts(c, rows, G)
               /\ ByCount(rows, G) = Append(c[n - 1].bars, c[n - 1].bar)
  BY <1>2, CountIsStepwise DEF n
<1>7. PICK t : /\ Times(t, rows, G)
               /\ ByTime(rows, G) = Append(t[n - 1].bars, t[n - 1].bar)
  BY <1>2, TimeIsStepwise DEF n
<1>8. Joined(c[n - 1]) = rows
  BY <1>2, <1>4, <1>5, <1>6, CountKeepsRows DEF n
<1>9. Joined(t[n - 1]) = rows
  BY <1>2, <1>4, <1>5, <1>7, TimeKeepsRows DEF n
<1>10. ASSUME Last(rows) - Head(rows) = n - 1, Head(rows) % G = 0
       PROVE  answer.by_count = answer.by_time
  <2>1. \A k \in 0..(n - 1) : rows[k + 1] = rows[1] + k
    BY <1>2, <1>4, <1>10, Gapless DEF n
  <2>2. c[n - 1].bars = t[n - 1].bars /\ c[n - 1].bar = t[n - 1].bar
    BY <1>2, <1>4, <1>6, <1>7, <1>10, <2>1, SameBars DEF n
  <2> QED
    BY <1>3, <1>6, <1>7, <2>2
<1> QED
  BY <1>3, <1>6, <1>7, <1>8, <1>9, <1>10 DEF Joined

(* However many candles there are and with whatever gaps, each goes into   *)
(* one bar of each script, in order; without gaps and from the beginning   *)
(* of a bar both scripts make the same bars.                               *)
THEOREM HigherFramesMatch == Spec => []HigherFramesAgree
<1>1. Answers => HigherFramesAgree
  BY FramesAgree
<1> QED
  BY AlwaysAnswers, <1>1, PTL

==============================================================================
