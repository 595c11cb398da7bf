SPECIFICATION AnalysisSpec
CONSTANTS
  NumInputs = 2
  TagSize = 4
  Stepsize = 1
  LastTime = 3
  Generator = "Random"
  ParamStepsize = 1
  WordBits = 4
INVARIANTS ReportedFlowsAreReal InfluencesAreReported TagCountIsExact PropagatedIsReal 
