CONSTANTS
  MaxIterations = 2
  Supersteps = 13
  MaxReruns = 1
  AgentsMayRaise = TRUE
  Patches <- CarelessPatches
SPECIFICATION Spec
INVARIANTS
  CompletionEarned
  ExplorerIdsUnique
PROPERTIES
  TerminalAbsorbing
CHECK_DEADLOCK FALSE
