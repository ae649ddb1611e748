------------------------------ MODULE AgentVote ------------------------------
(***************************************************************************)
(* GET /api/agents/decision: the five agents of src/src/agents/ and        *)
(* AgentLayer::decide_all.  Confidences and thresholds are percentages.    *)
(* The row of features is reduced to what the agents compute from it: its  *)
(* length, the mean of its last eight values (energy), the difference of   *)
(* the last and the fourth last value (trend) and of the last two          *)
(* (momentum), its standard deviation (vol) and variance (spread).         *)
(***************************************************************************)
EXTENDS Integers, FiniteSets

Agents == {"long", "short", "flat", "breakout", "correction"}

Magnitude(x) == IF x < 0 THEN -x ELSE x

\* 1 / (1 + exp(-x)) and tanh(x), rounded to whole percents.
Sigmoid(x) == CASE x <= -2 -> 12 [] x = -1 -> 27 [] x = 0 -> 50 [] x = 1 -> 73 [] OTHER -> 88
Tanh(x)    == CASE x = 0 -> 0 [] x = 1 -> 76 [] x = 2 -> 96 [] OTHER -> 99

Vote(signal, confidence) == [signal |-> signal, confidence |-> confidence]

Long(f, thr) ==
  LET c == Sigmoid(f.energy) IN Vote(IF c > thr THEN 1 ELSE 0, c)

Short(f, thr) ==
  LET c == Sigmoid(-f.energy) IN Vote(IF c > thr THEN -1 ELSE 0, c)

Flat(f, thr) == Vote(0, 100 \div (1 + f.spread))

Breakout(f, thr) ==
  LET c == IF f.n < 4 THEN 0 ELSE Tanh(f.vol + Magnitude(f.trend))
  IN Vote(IF f.n < 4 \/ c <= thr THEN 0 ELSE IF f.trend >= 0 THEN 1 ELSE -1, c)

Correction(f, thr) == Vote(0, IF f.n < 2 THEN 0 ELSE Tanh(Magnitude(f.momentum)))

Votes(f, thr) ==
  [a \in Agents |-> CASE a = "long" -> Long(f, thr)   [] a = "short" -> Short(f, thr)
                      [] a = "flat" -> Flat(f, thr)   [] a = "breakout" -> Breakout(f, thr)
                      [] OTHER -> Correction(f, thr)]

AddUp(of) == of["long"] + of["short"] + of["flat"] + of["breakout"] + of["correction"]

Ballot(v) == {a \in Agents : v[a].signal # 0}

FinalSignal(v) ==
  LET s == AddUp([a \in Agents |-> v[a].signal]) IN IF s > 0 THEN 1 ELSE IF s < 0 THEN -1 ELSE 0

\* The agents whose confidences are averaged.
\* Mutant: all of them, always.
Averaged(v) == Agents

Supporters(v) ==
  IF FinalSignal(v) = 0 THEN Agents ELSE {a \in Agents : v[a].signal = FinalSignal(v)}

\* final_confidence is confidence / voters, conflict_ratio is conflict / cast.
Summary(v) ==
  LET final == FinalSignal(v) IN
  [signal |-> final,
   confidence |-> AddUp([a \in Agents |-> IF a \in Supporters(v) THEN v[a].confidence ELSE 0]),
   voters |-> Cardinality(Supporters(v)),
   cast |-> Cardinality(Ballot(v)),
   conflict |-> IF final = 0 THEN Cardinality(Ballot(v)) ELSE Cardinality(Ballot(v) \ Supporters(v))]

Silence == [signal |-> 0, confidence |-> 0, voters |-> 1, cast |-> 0, conflict |-> 0]

DecideAll(f, thr) == IF f.n = 0 THEN Silence ELSE Summary(Votes(f, thr))

\* What load_cached_xy puts into the cache when it finds none.
StubFeatures == [n |-> 8, energy |-> 0, trend |-> 0, vol |-> 0, spread |-> 0, momentum |-> 0]

==============================================================================
