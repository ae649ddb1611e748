------------------------------ MODULE Decisions ------------------------------
(***************************************************************************)
(* The decisions that need no memory, over requests that are parameters:   *)
(* the answer of GET /api/infer and the robot's reading of it, the vote of *)
(* the agents, the training's features, labels and choice of a threshold,  *)
(* the trades of GET /api/train_env, and the candles of the higher frames. *)
(* A behaviour is one request and its answer.                              *)
(***************************************************************************)
EXTENDS InferDecision, AgentVote, ThresholdSearch, FeatureMatrix, HigherFrames

CONSTANTS
  InferRequests, AgentRequests, TrainRequests,   (* what is asked          *)
  EnvRequests, FeatureRequests, BarRequests,
  Closes, Percents, MinConfidences               (* of the robot, in turn  *)

\* The rows of BarRequests are sorted, none comes twice: both scripts see to that
\* before they make bars.
ASSUME DecisionsConstants ==
  /\ \A r \in InferRequests :
       /\ r.route = "infer" /\ r.scored \in BOOLEAN
       /\ r.score15 \in Int /\ r.best_thr \in Int /\ r.eps \in Int
       /\ DOMAIN r.htf \subseteq Frames /\ r.htf \in [DOMAIN r.htf -> Int]
  /\ AgentRequests \subseteq
       [route : {"agents"}, thr : Int,
        features : [n : Nat, energy : Int, trend : Int, vol : Nat, spread : Nat, momentum : Int]]
  /\ TrainRequests \subseteq
       [route : {"train"}, close : Seq(Nat), tp : Nat, sl : Nat, pv : Seq(Nat)]
  /\ EnvRequests \subseteq
       [route : {"env"}, row : [fut_ret : Int, p_long01 : Int, atr : Nat, e01 : Int],
        limits : Nat \X Nat, fee : Nat, atr_scale : BOOLEAN, e_lo : Int]
  /\ FeatureRequests \subseteq
       [route : {"features"}, n : Nat, i : Nat \ {0}, mflow : BOOLEAN]
  /\ \A r \in FeatureRequests : r.n >= MinRows /\ r.i <= r.n
  /\ BarRequests \subseteq [route : {"bars"}, rows : Seq(Nat) \ {<<>>}, G : Nat \ {0}]
  /\ \A r \in BarRequests : \A k \in 1..(Len(r.rows) - 1) : r.rows[k] < r.rows[k + 1]
  /\ Closes \subseteq Nat /\ Percents \subseteq Int /\ MinConfidences \subseteq Nat

Requests == InferRequests \cup AgentRequests \cup TrainRequests
              \cup EnvRequests \cup FeatureRequests \cup BarRequests

VARIABLES request, answer
vars == <<request, answer>>

Pending == [route |-> "pending"]

-----------------------------------------------------------------------------
Init == answer = Pending /\ request \in Requests

Asked(route) == answer = Pending /\ request.route = route /\ UNCHANGED request

Infer ==
  /\ Asked("infer")
  /\ answer' = InferAnswer(request.scored, request.score15, request.htf,
                           request.best_thr, request.eps)

Decide ==
  /\ Asked("agents")
  /\ answer' = DecideAll(request.features, request.thr)

Train ==
  /\ Asked("train")
  /\ answer' \in TrainAnswers(request.close, request.tp, request.sl, request.pv)

Simulate ==
  /\ Asked("env")
  /\ answer' = [pnl |-> EnvTrade(request.row, request.limits[1], request.limits[2],
                                 request.fee, request.atr_scale, 40, request.e_lo)]

Describe ==
  /\ Asked("features")
  /\ answer' = [cells |-> FeatureRow(request.n, request.i, request.mflow),
                fbf |-> FalseBreak(request.i)]

Aggregate ==
  /\ Asked("bars")
  /\ answer' = [by_count |-> ByCount(request.rows, request.G),
                by_time |-> ByTime(request.rows, request.G)]

Next == Infer \/ Decide \/ Train \/ Simulate \/ Describe \/ Aggregate

Spec == Init /\ [][Next]_vars

-----------------------------------------------------------------------------
(* Properties *)

Answered(route) == answer # Pending /\ request.route = route

(* The signal passes a gate of its own (0.10 of the weighted score), the   *)
(* mode passes the threshold: with any threshold the trainer may choose, a *)
(* market that is called a trend also gets that trend's signal, however    *)
(* the higher frames discount it.                                          *)
TrendIsFollowed ==
  Answered("infer") /\ request.best_thr >= 30 =>
    /\ answer.market_mode = "trendUp" => answer.signal = "LONG"
    /\ answer.market_mode = "trendDown" => answer.signal = "SHORT"

(* "correction" is read off the votes of the frames, the weight off their  *)
(* agreement, in another file: the two never contradict each other.  Where *)
(* every frame agrees with the score there is no correction.               *)
CorrectionIsDiscounted ==
  Answered("infer") /\ answer.market_mode = "correction" => answer.wctx < Whole

(* In a flat market the signal is the opposite of the score, and the robot *)
(* reads only signal and confidence.  Whatever confidence it asks for (60  *)
(* if it is not told), an order against the score is one in a market that  *)
(* the answer calls flat, on a score of at least that many 70ths of the    *)
(* threshold: from 70 on there is none.                                    *)
InvertedEntriesAreFlat ==
  Answered("infer") =>
    \A m \in MinConfidences, last \in Closes, tp, sl \in Percents :
      Enters(answer, last, tp, sl, m) =>
        \/ (answer.signal = "LONG") <=> (answer.score15 > 0)
        \/ /\ answer.market_mode = "flat" /\ m < 70
           /\ 70 * Abs(answer.score15) >= m * Thr(request.best_thr)

(* Mode and confidence, which the answer shows, never contradict the       *)
(* policy's decision, which it hides: trends are followed, corrections     *)
(* discounted, orders against the score are weak and in a flat market.     *)
ModeMatchesPolicy ==
  TrendIsFollowed /\ CorrectionIsDiscounted /\ InvertedEntriesAreFlat

\* What may be sent for a price that p puts above, or below, the close.
Upwards(price, last, p) ==
  \A n \in Sent(price) :
    /\ last * p >= Micro => n * Micro > last * One
    /\ p <= 0 => \E c \in Sent(last * One) : n <= c

Downwards(price, last, p) ==
  \A n \in Sent(price) :
    /\ last * p >= Micro => n * Micro < last * One
    /\ p <= 0 => \E c \in Sent(last * One) : n >= c

(* The robot sends whatever levels are positive, and the model's tp and sl *)
(* may be anything that GET /api/train was given.  A level that is meant   *)
(* to be 10^-6 or more away from the last close in the cache is sent on    *)
(* its side of that close, six decimals or not; a tp or sl that is not     *)
(* positive puts its level on the other side, or at best at what the close *)
(* itself is rounded to.  Nothing is said of the market, which may have    *)
(* left a cached close behind.                                             *)
LevelsKeepTheirSides ==
  Answered("infer") =>
    \A last \in Closes, tp, sl \in Percents, m \in MinConfidences :
      Enters(answer, last, tp, sl, m) =>
        LET levels == Levels(last, tp, sl, answer.signal) IN
        IF answer.signal = "LONG"
        THEN Upwards(levels.tp_price, last, tp) /\ Downwards(levels.sl_price, last, sl)
        ELSE Upwards(levels.sl_price, last, sl) /\ Downwards(levels.tp_price, last, tp)

(* The confidence of a directional decision is that of its supporters, and *)
(* exceeds the threshold that each of them had to pass.                    *)
SupportersAreSure ==
  Answered("agents") /\ answer.signal # 0 =>
    answer.confidence > request.thr * answer.voters

(* Long and short look at the same energy from two sides.  With a          *)
(* threshold of a half or more they never both vote, so that a directional *)
(* decision is unanimous.                                                  *)
HighThresholdsAreUnanimous ==
  Answered("agents") /\ request.thr >= 50 /\ answer.signal # 0 => answer.conflict = 0

(* The features that load_cached_xy makes up when there are none lead to   *)
(* no decision, whatever the threshold, if it is not negative.             *)
StubsDecideNothing ==
  Answered("agents") /\ request.features = StubFeatures /\ request.thr >= 0 =>
    answer.signal = 0

(* A decision of the agents for one direction is backed by those who voted *)
(* for it: they are sure enough, unanimous above a half, and real.         *)
DirectionsAreBacked ==
  SupportersAreSure /\ HighThresholdsAreUnanimous /\ StubsDecideNothing

(* tp and sl weigh right and wrong trades differently, and a short and a   *)
(* long swap their limits; still, on labelled rows, no threshold predicts  *)
(* more rows right than the one whose reward is found to be the greatest.  *)
BestThrIsMostAccurate ==
  Answered("train") /\ answer.ok =>
    LET fr_va == Validation(request.close, request.tp, request.sl)
        Right(t) == Cardinality({k \in DOMAIN fr_va : (request.pv[k] >= t) <=> (fr_va[k] > 0)})
    IN \A t \in Candidates : Right(t) <= Right(answer.best_thr)

(* A row is labelled by what comes after it: a candle's label changes with *)
(* no close up to its own, the last two candles of the data have none.     *)
LabelsLookAhead ==
  Answered("train") =>
    \A i \in DOMAIN request.close :
      LET Known == [k \in DOMAIN request.close |-> IF k <= i THEN 100 ELSE request.close[k]]
      IN /\ Fut(request.close)[i] = Fut(Known)[i]
         /\ i > Len(request.close) - 2 => Fut(request.close)[i] = 0

(* A row's features come from candles up to its own, those of the false    *)
(* breaks included -- but for the cumulative flow, which an environment    *)
(* variable adds and which is scaled by the whole series.                  *)
FeaturesLookBack ==
  Answered("features") =>
    /\ \A k \in DOMAIN answer.cells \ {CumFlowColumn} :
         answer.cells[k].reads \subseteq 1..request.i
    /\ answer.fbf.reads \subseteq 1..request.i

(* No row is trained to predict what its features have seen, nor by what   *)
(* they have not.                                                          *)
NoLookAhead == LabelsLookAhead /\ FeaturesLookBack

(* The row that is scored has all its features: with the fewest rows that  *)
(* the policy accepts none of them is a NaN that was replaced by 0.        *)
ScoredRowIsComplete ==
  Answered("features") /\ request.i = request.n /\ request.n >= MinScoredRows =>
    \A k \in DOMAIN answer.cells : ~answer.cells[k].nan

(* The scripts make the higher frames in two ways.  Either way every       *)
(* candle goes into one bar, in order, and where there is no gap and the   *)
(* first candle begins a bar, the bars are the same.                       *)
HigherFramesAgree ==
  Answered("bars") =>
    LET Parts(bars) == [k \in DOMAIN bars |-> bars[k].rows]
        Gapless == Last(request.rows) - Head(request.rows) = Len(request.rows) - 1
    IN /\ FlattenSeq(Parts(answer.by_count)) = request.rows
       /\ FlattenSeq(Parts(answer.by_time)) = request.rows
       /\ Gapless /\ Head(request.rows) % request.G = 0 =>
            answer.by_count = answer.by_time

(* What one trade of train_env may bring: a long between its stop and its  *)
(* profit; a short, whose limits are exchanged, no more than the larger of *)
(* the two either way; a row below the energy bound nothing, not even fees.*)
TradesAreBounded ==
  Answered("env") =>
    LET l == Limits(request.limits[1], request.limits[2], request.row.atr, request.atr_scale)
        larger == IF l.tp > l.sl THEN l.tp ELSE l.sl
        gross == answer.pnl + request.fee
    IN CASE request.row.e01 < request.e_lo -> answer.pnl = 0
         [] request.row.e01 >= request.e_lo /\ request.row.p_long01 >= 40 ->
              gross \in (-l.sl)..l.tp
         [] OTHER -> gross \in (-larger)..larger

(* Take-profit and stop-loss stay on their sides of the cached close where *)
(* an order is sent, and bound the result where a trade is simulated.      *)
LimitsHold == LevelsKeepTheirSides /\ TradesAreBounded

==============================================================================
