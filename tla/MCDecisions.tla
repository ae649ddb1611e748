---------------------------- MODULE MCDecisions -----------------------------
(***************************************************************************)
(* Decisions with sets of requests that have values on both sides of every *)
(* comparison of the code.                                                 *)
(***************************************************************************)
EXTENDS Decisions

Scores      == {-95, -60, -31, -14, -9, -2, 0, 1, 12, 29, 45, 60}
FrameScores == {-60, -20, 0, 20, 60}
ModelThrs   == {0, 8, 14, 30, 70}
Epsilons    == {-5, 0, 5, 50}
MCMinConfidences == {0, 60, 70, 90}
\* 0, 0.0000004, 0.000123 and 0.001: levels less and more than 10^-6 away.
MCCloses      == {0, 40, 12300, 100000}
MCPercents    == {-30, 0, 80, 10000}

MCInferRequests ==
  [route : {"infer"}, scored : BOOLEAN, score15 : Scores,
   htf : UNION {[D -> FrameScores] : D \in SUBSET Frames},
   best_thr : ModelThrs, eps : Epsilons]

Features ==
  [n : {0, 1, 3, 8}, energy : -2..2, trend : -2..2, vol : 0..1,
   spread : 0..1, momentum : {-2, 0, 1}]

MCAgentRequests ==
  [route : {"agents"}, features : Features, thr : {-10, 0, 30, 50, 60, 75}]

ClosePrices == [1..5 -> {0, 98, 100, 101}]
Pairs       == [1..2 -> {25, 31, 49, 51, 71}]

\* One probability per validation row; none lies on a candidate threshold.
MCTrainRequests ==
  [route : {"train"}, close : ClosePrices, tp : {300}, sl : {180}, pv : Pairs]
    \cup [route : {"train"}, close : ClosePrices, tp : {180}, sl : {1500}, pv : Pairs]
    \cup [route : {"train"}, close : ClosePrices, tp : {20000}, sl : {0}, pv : Pairs]
    \cup [route : {"train"}, close : [1..6 -> {98, 100, 101}], tp : {300}, sl : {180, 1500},
          pv : [1..3 -> {31, 49, 71}]]

MCEnvRequests ==
  [route : {"env"},
   row : [fut_ret : {-400, -250, -100, 0, 100, 250, 400}, p_long01 : {25, 71},
          atr : {0, 1, 8}, e01 : {10, 30}],
   limits : {<<300, 180>>, <<180, 300>>}, fee : {0, 50}, atr_scale : BOOLEAN, e_lo : {0, 20}]

\* The fewest rows for a matrix, one less than for a score, and those for it.
MCFeatureRequests ==
  UNION {[route : {"features"}, n : {n}, i : 1..n, mflow : BOOLEAN] :
           n \in {30, 59, 60}}

\* Candles with and without gaps, beginning anywhere.
MCBarRequests ==
  {[route |-> "bars", rows |-> SelectSeq([k \in 1..9 |-> k + 3], LAMBDA t : t \in times),
    G |-> G] : times \in SUBSET (4..12) \ {{}}, G \in {2, 4}}

==============================================================================
