SPECIFICATION Spec
CONSTANTS
  Situations = {s1, s2}
  Components = {secret}
  Values = {v1, v2, v3}
  Outputs = {o1, o2, o3}
  Intermediate = FALSE
  Limits = {0, 2, 4}
  MaxCalls = 1
PROPERTY CallReturns
CHECK_DEADLOCK FALSE
