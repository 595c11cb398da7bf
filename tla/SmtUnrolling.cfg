CONSTANTS
  Designs <- MCDesigns
  RegisterTypes = {"reg"}
  EnableTypes = {"reg"}
  Unrolling = 2
SPECIFICATION Spec
INVARIANTS EdgesAreTheConnections NamedDesignsAreBuilt ReadsFollowTheNetlist NoVariableHasTwoDrivers
CHECK_DEADLOCK FALSE
