---------------------------- MODULE InferDecision ----------------------------
(***************************************************************************)
(* GET /api/infer (src/src/routes/infer.cpp, src/src/infer_policy.cpp) from *)
(* the scores of the policy to the answer, and what the trading robot makes *)
(* of the answer (src/src/robot/robot_loop.cpp).  Scores, thresholds and    *)
(* percentages are integers, in hundredths; fractions are kept over a       *)
(* common denominator, so that no comparison of the code is rounded away.   *)
(***************************************************************************)
EXTENDS Integers, FiniteSets

Frames == {"60", "240", "1440"}
Signals == {"LONG", "SHORT", "NEUTRAL"}
Modes == {"flat", "trendUp", "trendDown", "correction"}

Abs(x) == IF x < 0 THEN -x ELSE x
Least(x, y) == IF x < y THEN x ELSE y
Sgn(x) == IF x > 0 THEN 1 ELSE IF x < 0 THEN -1 ELSE 0

-----------------------------------------------------------------------------
(* infer_with_policy_mtf: htf maps each higher frame that has a score to it *)

Agreeing(score, htf) == {f \in DOMAIN htf : Sgn(htf[f]) = Sgn(score)}

\* 0.75 + 0.25 * agree / avail, in 24ths: exact for up to three frames.
Whole == 24
Wctx(score, htf) ==
  IF DOMAIN htf = {} THEN Whole
  ELSE 18 + (6 * Cardinality(Agreeing(score, htf))) \div Cardinality(DOMAIN htf)

ActGate == 10

PolicySignal(score, htf) ==
  LET a_w == score * Wctx(score, htf)
  IN CASE Abs(a_w) < ActGate * Whole -> "NEUTRAL"
       [] a_w >= ActGate * Whole     -> "LONG"
       [] OTHER                      -> "SHORT"

\* A model without a usable policy, or too few rows, leaves no score at
\* all; the handler's defaults for the missing fields take its place.
NoScore == [ok |-> FALSE, signal |-> "NEUTRAL", score15 |-> 0,
            htf |-> [f \in {} |-> 0], wctx |-> 0]

PolicyInfer(scored, score, htf) ==
  IF ~scored THEN NoScore
  ELSE [ok |-> TRUE, signal |-> PolicySignal(score, htf), score15 |-> score,
        htf |-> htf, wctx |-> Wctx(score, htf)]

-----------------------------------------------------------------------------
(* The handler: market mode, confidence and the signal of a flat market     *)

Strong(score) == Abs(score) >= 30

\* upVotes and downVotes of htf_votes: a strong frame counts twice.
VotesFor(sign, htf) ==
  LET voters == {f \in DOMAIN htf : Sgn(htf[f]) = sign}
  IN Cardinality(voters) + Cardinality({f \in voters : Strong(htf[f])})

NetHTF(htf) == VotesFor(1, htf) - VotesFor(-1, htf)

Thr(best_thr) == IF best_thr > 0 THEN best_thr ELSE 50

\* Mutant: the sign of the score plays no part.
MarketModeUnsigned(score, thr, net) ==
  CASE Abs(score) < thr -> "flat"
    [] Abs(score) >= thr /\ net <= -2 -> "correction"
    [] OTHER -> IF score > 0 THEN "trendUp" ELSE "trendDown"

MarketMode(score, thr, net) ==
  CASE Abs(score) < thr -> "flat"
    [] Abs(score) >= thr /\ Sgn(score) * net <= -2 -> "correction"
    [] OTHER -> IF score > 0 THEN "trendUp" ELSE "trendDown"

\* eps is the half-width of the corridor as a share of the threshold.
FlatSignal(score, thr, eps) ==
  IF Abs(100 * score) <= thr * eps THEN "NEUTRAL"
  ELSE IF 100 * score > thr * eps THEN "SHORT" ELSE "LONG"

\* Confidence in percent, as a fraction over 4 * thr.
\* Mutant: a flat market may be as sure of itself as a trend.
ConfidenceOfTrend(score, thr, net) ==
  IF Abs(score) < thr THEN 400 * Abs(score)
  ELSE 200 * Least(thr, Abs(score) - thr) + 50 * thr * Least(4, Abs(net))

Confidence(score, thr, net) ==
  IF Abs(score) < thr THEN 280 * Abs(score)
  ELSE 200 * Least(thr, Abs(score) - thr) + 50 * thr * Least(4, Abs(net))

InferAnswer(scored, score, htf, best_thr, eps) ==
  LET inf  == PolicyInfer(scored, score, htf)
      thr  == Thr(best_thr)
      net  == NetHTF(inf.htf)
      mode == MarketMode(inf.score15, thr, net)
  IN [ok |-> inf.ok, score15 |-> inf.score15, wctx |-> inf.wctx, market_mode |-> mode,
      signal |-> IF mode = "flat" THEN FlatSignal(inf.score15, thr, eps) ELSE inf.signal,
      confidence |-> Confidence(inf.score15, thr, net), scale |-> 4 * thr]

-----------------------------------------------------------------------------
(* enrich_with_levels, the robot and open_trade.  last is the last close in *)
(* the cache, in units of 10^-8; tp and sl, any numbers the model's file    *)
(* has, are in 1/10000, the prices computed with them in units of 10^-12.   *)

One == 10000
Micro == 100 * One

\* Mutant: the levels of a short are those of a long.
LevelsOfLong(last, tp, sl, signal) ==
  [tp_price |-> last * (One + tp), sl_price |-> last * (One - sl)]

Levels(last, tp, sl, signal) ==
  IF signal = "LONG" THEN [tp_price |-> last * (One + tp), sl_price |-> last * (One - sl)]
  ELSE [tp_price |-> last * (One - tp), sl_price |-> last * (One + sl)]

\* What may become of a price with six decimals, in units of 10^-6: a nearest
\* number, either where two are as near.
Sent(price) ==
  {n \in {price \div Micro, price \div Micro + 1} : 2 * Abs(n * Micro - price) <= Micro}

\* The conditions on the signal under which trading_loop goes on to an order.
Enters(answer, last, tp, sl, min_confidence) ==
  LET levels == Levels(last, tp, sl, answer.signal) IN
  /\ answer.signal # "NEUTRAL"
  /\ answer.confidence >= min_confidence * answer.scale
  /\ last > 0 /\ levels.tp_price > 0 /\ levels.sl_price > 0

==============================================================================
