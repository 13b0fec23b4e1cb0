CONSTANTS
  MaxIterations = 2
  Supersteps = 13
  MaxReruns = 0
  Patches <- HonestPatches
  AgentsMayRaise = FALSE
  NormalName <- Names
  ProhibitedNames = {"password"}
  WorkflowId = "w"
  ProductId = "demo"
  Tools <- SomeTools
  ForeignRoles = {{}, {"explorer"}, {"knowledge"}, {"validator"}, {"explorer", "knowledge"}, {"explorer", "knowledge", "validator"}}
  ForeignEvidence <- SomeEvidence
  ForeignContents <- SomeContents
  ForeignTimes = {0}
  Commands = {own, other}
  Own = own
  Missing = missing
  Torn = torn
SPECIFICATION CommandFairSpec
CONSTRAINT OthersWait
INVARIANTS
  HandoffSound
  HandoffAccepts
  FilesExplained
  RefusedTouchesNothing
PROPERTIES
  ConventionKept
  CommandReturns
CHECK_DEADLOCK FALSE
