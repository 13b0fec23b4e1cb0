CONSTANTS
  h1 = h1
  Helpers = {h1}
  Chunk = 2
  Limit <- SmallLimit
  MaxBytes <- SmallMaxBytes
  Reply = 1
SPECIFICATION FairSpec
INVARIANTS
  TypeOK
  ReapedAtEnd
  SurvivorsExplained
  VerdictHonest
PROPERTIES
  FirstFailureStands
  CallReturns
CHECK_DEADLOCK FALSE
