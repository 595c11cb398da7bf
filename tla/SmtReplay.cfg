SPECIFICATION Spec
CONSTANTS
  Inputs <- MCInputs
  Nexts <- MCNexts
  Outs <- MCOuts
  UnrollFactors = {1, 2, 3}
INVARIANTS BlocksDoNotRace SimulationFollowsModel RightTranslationPasses AcceptedOutputIsForced
CHECK_DEADLOCK FALSE
