SPECIFICATION Spec
CONSTANTS
  Inputs <- MCInputs
  Nexts <- MCNexts
  Outs <- MCOuts
  Stimuli <- MCStimuli
  LastTimes = {4, 7, 8}
  UnrollFactors = {2, 3}
  Period = 2
INVARIANT MismatchIsReported
CHECK_DEADLOCK FALSE
