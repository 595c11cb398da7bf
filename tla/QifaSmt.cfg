SPECIFICATION Spec
CONSTANTS
  Situations = {s1, s2}
  Components = {secret}
  Values = {v1, v2, v3}
  Outputs = {o1, o2, o3}
  Intermediate = TRUE
  Limits = {0, 2, 4}
  MaxCalls = 2
INVARIANTS TypeOK ReportIsAchievable ExactBelowLimit ReportCountsClasses
PROPERTIES RefinesEquivalenceClasses CallReturns
CHECK_DEADLOCK FALSE
