SPECIFICATION Spec
CONSTANTS
  NumInputs = 2
  TagSize = 6
  Stepsize = 1
  LastTime = 4
  Generator = "FullResolution"
  ParamStepsize = 1
INVARIANT EveryTagTimeCovered
