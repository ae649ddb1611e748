--------------------------- MODULE MCModelRegistry ---------------------------
(* ModelRegistry with the routes that are called together: trainings with   *)
(* faults, a training or a patch beside what else changes models, and every *)
(* route one request at a time.  The files hold models of two symbols; the  *)
(* one elsewhere says less, or has a value that a start does not accept.    *)
EXTENDS ModelRegistry, TLC

CONSTANTS btc, alt

Foreign(s, ok, thr, ma) ==
  [symbol |-> s, ok |-> ok,
   of |-> [n \in Names |-> CASE n = "thr" -> thr [] n = "ma" -> ma [] n = "fd" -> 3]]

Before(elsewhere) ==
  [p \in Paths |->
    CASE p = btc -> Trained(btc, TRUE, 1, 1)
      [] p = alt -> Trained(alt, TRUE, 2, 2)
      [] p = NoSymbol -> elsewhere]

MCFound == { Before(Foreign(NoSymbol, FALSE, Missing, 3)), Before(Foreign(alt, TRUE, 3, Odd(3))) }

Scene(ops, at_once, draws, faults) ==
  [ops |-> ops, at_once |-> at_once, draws |-> draws, faults |-> faults]

MCScenes ==
  { Scene({"train"}, 2, 2, TRUE),
    Scene({"train", "prepare"}, 2, 1, TRUE),
    Scene({"prepare", "reload"}, 2, 1, TRUE),
    Scene({"prepare", "set", "show"}, 2, 1, FALSE),
    Scene({"train", "set", "reload", "prepare", "show"}, 1, 1, TRUE) }

Symmetric == Permutations(Threads)

PatchScenes == { Scene({"reload", "set"}, 1, 1, FALSE) }

==============================================================================
