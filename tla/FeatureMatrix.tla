---------------------------- MODULE FeatureMatrix ----------------------------
(***************************************************************************)
(* The feature matrix of the trainer and of the policy                     *)
(* (src/src/features, src/src/context_detector.cpp) without its numbers:   *)
(* of a cell there are the candles it is computed from, and whether it is  *)
(* NaN, which build_feature_matrix replaces by 0 in the end.  Candles and  *)
(* rows are numbered from 1.                                               *)
(***************************************************************************)
EXTENDS Integers, Sequences

Cell(reads) == [nan |-> FALSE, reads |-> reads]
Nan   == [nan |-> TRUE, reads |-> {}]
Zero  == Cell({})

With(a, b) == [nan |-> a.nan \/ b.nan, reads |-> a.reads \cup b.reads]

\* A comparison with NaN is false, and no NaN itself.
Tested(a) == Cell(a.reads)

\* sma_one, ema_one: the last `period` values of a series.
Rolling(v, period, i) ==
  IF i < period THEN Nan
  ELSE [nan   |-> \E j \in (i - period + 1)..i : v[j].nan,
        reads |-> UNION {v[j].reads : j \in (i - period + 1)..i}]

\* Mutant: the window ends with the next candle.
ChangesAhead(period, i) == IF i < period + 1 THEN Nan ELSE Cell((i - period + 1)..(i + 1))

\* rsi_one, atr_one: the last `period` changes from candle to candle.
Changes(period, i) == IF i < period + 1 THEN Nan ELSE Cell((i - period)..i)

Candle[i \in Nat] == Cell({i})
From(first, i, cell) == IF i >= first THEN cell ELSE Zero

Rsi(i)  == Changes(14, i)
Atr[i \in Nat]  == Changes(14, i)
Macd[i \in Nat] == With(Rolling(Candle, 12, i), Rolling(Candle, 26, i))

-----------------------------------------------------------------------------
(* compute_context *)

Energy(i) ==
  LET sma == Rolling(Atr, 14, i) IN IF sma.nan THEN Zero ELSE With(Atr[i], sma)

Liquidity(i) == From(21, i, Cell((i - 20)..i))

\* Each candle's sentiment has 0.3 of the one before.
Sentiment(i) == Cell(1..i)

Phase(i) == Tested(With(With(Energy(i), Liquidity(i)), With(Atr[i], Candle[i])))

-----------------------------------------------------------------------------
(* Money flow, four more columns if ETAI_FEAT_ENABLE_MFLOW is set          *)

Mfi(n, i)       == IF n < 16 THEN Zero ELSE From(15, i, Cell((i - 14)..i))
FlowRatio(n, i) == From(2, i, Mfi(n, i))

\* The running sum is centred and scaled by the whole series.
CumFlow(n, i) == Cell(UNION {FlowRatio(n, j).reads : j \in 1..(IF n > 1 THEN n ELSE i)})

Sfi(n, i) == With(FlowRatio(n, i), Mfi(n, i))

MoneyFlow(n, i) == << Mfi(n, i), FlowRatio(n, i), CumFlow(n, i), Sfi(n, i) >>

-----------------------------------------------------------------------------
(* build_feature_matrix                                                    *)

\* The columns of row i that are always there.
Technical(i) ==
  << Macd[i], Rsi(i), Macd[i], With(Macd[i], Rolling(Macd, 9, i)), Atr[i],
     From(3, i, Cell((i - 2)..i)),
     From(4, i, Cell({i - 3, i})),
     Energy(i), Liquidity(i), Sentiment(i), Candle[i], Candle[i],
     Phase(i), Phase(i), Phase(i),
     Candle[i],
     From(2, i, Cell({i - 1, i})), From(2, i, Cell({i - 1, i})),
     From(6, i, With(Rolling(Candle, 5, i), Rolling(Candle, 10, i))),
     From(15, i, Rsi(i)),
     With(Macd[i], Atr[i]),
     From(11, i, With(Rolling(Candle, 10, i), Rolling(Candle, 20, i))),
     From(21, i, With(Rolling(Atr, 10, i), Rolling(Atr, 20, i))),
     Tested(With(Macd[i], Rsi(i))), Tested(With(Macd[i], Rsi(i))),
     With(Energy(i), Tested(Macd[i])),
     With(Sentiment(i), Energy(i)),
     With(Phase(i), Sentiment(i)) >>

\* Row i of n.
FeatureRow(n, i, mflow) == Technical(i) \o (IF mflow THEN MoneyFlow(n, i) ELSE << >>)

CumFlowColumn == 31

\* rolling_support, rolling_resistance, and the false breaks of what they
\* were one candle before.
Support(i) == Cell((IF i > 20 THEN i - 19 ELSE 1)..i)
FalseBreak(i) == From(2, i, With(Candle[i], Support(i - 1)))

\* The fewest rows that build_feature_matrix and policy_score_on_raw take.
MinRows == 30
MinScoredRows == 60

==============================================================================
