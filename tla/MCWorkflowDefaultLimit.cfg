CONSTANTS
  MaxIterations = 11
  Supersteps = 64
  MaxReruns = 0
  AgentsMayRaise = FALSE
  Patches <- HonestPatches
SPECIFICATION Spec
INVARIANTS
  FinalCycleMayFinish
CHECK_DEADLOCK FALSE
