CONSTANTS
  h1 = h1
  Helpers = {h1}
  Chunk = 2
  Limit <- SmallLimit
  MaxBytes <- SmallMaxBytes
  Reply = 1
SPECIFICATION Spec
INVARIANTS
  GroupCleanedUp
CHECK_DEADLOCK FALSE
