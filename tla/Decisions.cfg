\* All requests, one behaviour each.
SPECIFICATION Spec
CONSTANTS
  MinLabeled = 2
  TrainShare = 40
  InferRequests <- MCInferRequests
  AgentRequests <- MCAgentRequests
  TrainRequests <- MCTrainRequests
  EnvRequests <- MCEnvRequests
  FeatureRequests <- MCFeatureRequests
  BarRequests <- MCBarRequests
  Closes <- MCCloses
  Percents <- MCPercents
  MinConfidences <- MCMinConfidences
INVARIANTS
  ModeMatchesPolicy
  DirectionsAreBacked
  BestThrIsMostAccurate
  NoLookAhead
  ScoredRowIsComplete
  HigherFramesAgree
  LimitsHold
\* A request is answered once.
CHECK_DEADLOCK FALSE
