SPECIFICATION Spec
CONSTANTS
  NumInputs = 2
  TagSize = 8
  Stepsize = 2
  LastTime = 9
  Generator = "Random"
  ParamStepsize = 2
INVARIANTS TypeOK TagsInTheirWindow TagsAtScheduledTime BitNamesOneInjection OneRunPerInjection ExportedTagsAreDumped MissingLinesAreNotRead TagLastsAStep
PROPERTY EveryRunIsDumped
