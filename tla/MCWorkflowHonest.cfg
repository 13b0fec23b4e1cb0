CONSTANTS
  MaxIterations = 7
  Supersteps = 43
  MaxReruns = 1
  AgentsMayRaise = FALSE
  Patches <- HonestPatches
SPECIFICATION FairSpec
INVARIANTS
  ConventionAccepted
  LimitEndsWholeCycles
PROPERTIES
  CycleSpec
  RunReturns
CHECK_DEADLOCK FALSE
