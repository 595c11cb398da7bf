SPECIFICATION Spec
CONSTANT Modules <- MCModules
CHECK_DEADLOCK FALSE
INVARIANTS EveryBitComesFromItsDriver NetsFormNoLoop DriversAreNotAssigned
