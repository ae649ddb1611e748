--------------------------- MODULE ThresholdSearch ---------------------------
(***************************************************************************)
(* The discrete parts of the trainer (src/src/ppo_pro.cpp): future returns, *)
(* labels, the split and the search of best_thr; and the simulated trades   *)
(* of GET /api/train_env (src/src/routes/train_env.cpp).  Returns, tp, sl   *)
(* and fees are in units of 1/100000, probabilities in hundredths.  What    *)
(* the logistic regression predicts is an input: one probability for each   *)
(* validation row.                                                          *)
(***************************************************************************)
EXTENDS Integers, FiniteSets, SequencesExt

CONSTANTS
  MinLabeled,      (* fewest labelled rows a training accepts (200)        *)
  TrainShare       (* hundredths of the labelled rows to train on (80)     *)

ASSUME SearchConstants ==
  /\ MinLabeled \in Nat \ {0}
  /\ TrainShare \in 1..99

Unit == 100000
Clamp(x, low, high) == IF x < low THEN low ELSE IF x > high THEN high ELSE x

Return(c0, c1) == IF c0 > 0 THEN (c1 * Unit) \div c0 - Unit ELSE 0

\* r(i), the return from candle i to the next; 0 for the last one.
Returns(close) ==
  [i \in DOMAIN close |-> IF i < Len(close) THEN Return(close[i], close[i + 1]) ELSE 0]

\* Mutant: shift() is circular, and nothing resets the element it wraps.
FutWraps(close) ==
  LET r == Returns(close) IN [i \in DOMAIN r |-> r[(i % Len(r)) + 1]]

\* shift(r, -1), its last element reset.
Fut(close) ==
  LET r == Returns(close) IN [i \in DOMAIN r |-> IF i < Len(r) THEN r[i + 1] ELSE 0]

\* The labelled rows in order, collected one after the other.
Labeled(fut, thr_pos, thr_neg) ==
  LET idx[n \in 0..Len(fut)] ==
        IF n = 0 THEN <<>>
        ELSE IF fut[n] >= thr_pos \/ fut[n] <= -thr_neg THEN Append(idx[n - 1], n)
        ELSE idx[n - 1]
  IN idx[Len(fut)]

Split(M) ==
  LET s == (M * TrainShare) \div 100
  IN IF s = 0 \/ s >= M THEN IF M > 1 THEN M - 1 ELSE 1 ELSE s

\* thr_pos, thr_neg: 0.0001..0.1
LabelThr(limit) == Clamp(limit, 10, 10000)

\* fr_va: the future returns of the validation rows.
Validation(close, tp, sl) ==
  LET fut == Fut(close)
      idx == Labeled(fut, LabelThr(tp), LabelThr(sl))
  IN IF Len(idx) < MinLabeled THEN <<>>
     ELSE [k \in 1..(Len(idx) - Split(Len(idx))) |-> fut[idx[Split(Len(idx)) + k]]]

-----------------------------------------------------------------------------
(* The trade rule of pnl_series, simulate_reward_v1 and simulate_pnl_thr    *)

\* Mutant: a long is not stopped.
TradeUnstopped(is_long, fr, tp, sl) ==
  IF is_long THEN IF fr >= tp THEN tp ELSE fr
  ELSE IF fr <= -sl THEN tp ELSE IF fr >= tp THEN -sl ELSE -fr

Trade(is_long, fr, tp, sl) ==
  IF is_long THEN IF fr >= tp THEN tp ELSE IF fr <= -sl THEN -sl ELSE fr
  ELSE IF fr <= -sl THEN tp ELSE IF fr >= tp THEN -sl ELSE -fr

Trades(fr_va, pv, thr, tp, sl) ==
  [k \in DOMAIN fr_va |-> Trade(pv[k] >= thr, fr_va[k], tp, sl)]

SumOf(s) == FoldLeft(+, 0, s)

\* simulate_reward_v1, but for the rounding of its sum
Reward(fr_va, pv, thr, tp, sl) == SumOf(Trades(fr_va, pv, thr, tp, sl))

\* for (thr = 0.30; thr <= 0.70 + 1e-12; thr += 0.02)
Candidates == {30 + 2 * k : k \in 0..20}

\* The values that best_thr may get.  The code adds doubles in the order of the
\* rows and compares with >.  Rounding takes far less than a trade brings, so it
\* cannot make a smaller reward the greatest; but of equal rewards, whose trades
\* come in different orders, it may prefer any.  The same trades in the same
\* order have the same sum to the last bit: there the first threshold stays.
BestThrs(fr_va, pv, tp, sl) ==
  LET T(t) == Trades(fr_va, pv, t, tp, sl)
      R(t) == Reward(fr_va, pv, t, tp, sl)
  IN {t \in Candidates : \A u \in Candidates : R(u) <= R(t) /\ (u < t => T(u) # T(t))}

TrainAnswers(close, tp, sl, pv) ==
  LET fr_va == Validation(close, tp, sl)
  IN IF fr_va = <<>> THEN {[ok |-> FALSE, best_thr |-> 0]}
     ELSE [ok : {TRUE},
           best_thr : BestThrs(fr_va, pv, LabelThr(tp), LabelThr(sl))]

-----------------------------------------------------------------------------
(* train_env: one row, with its scaled limits; e01 and e_lo in hundredths,  *)
(* atr in whole units, k_atr = 0.35                                         *)

Limits(tp, sl, atr, atr_scale) ==
  IF ~atr_scale THEN [tp |-> tp, sl |-> sl]
  ELSE [tp |-> Clamp((tp * (1000 + 350 * atr)) \div 1000, 1, 5000),
        sl |-> Clamp((sl * (1000 - 175 * atr)) \div 1000, 1, 5000)]

EnvTrade(row, tp, sl, fee, atr_scale, thr_cut, e_lo) ==
  LET limits == Limits(tp, sl, row.atr, atr_scale)
  IN IF row.e01 < e_lo THEN 0
     ELSE Trade(row.p_long01 >= thr_cut, row.fut_ret, limits.tp, limits.sl) - fee

==============================================================================
