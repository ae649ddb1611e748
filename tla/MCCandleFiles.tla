---------------------------- MODULE MCCandleFiles ----------------------------
(* CandleFiles with two threads, and the operations and mishaps that may   *)
(* disturb each other; all of them in one behaviour would be some ten      *)
(* million states.                                                         *)
EXTENDS CandleFiles, TLC

CONSTANTS t1, t2

MCThreads == {t1, t2}

MCScenes ==
  { {"train", "pipeline", "kills"}, {"train", "rest", "failing"},
    {"train", "hydrate", "failing", "kills"}, {"pipeline", "hydrate", "failing"},
    {"pipeline", "rest", "kills"}, {"rest", "agents", "failing", "kills"} }

Symmetric == Permutations(MCThreads)

==============================================================================
