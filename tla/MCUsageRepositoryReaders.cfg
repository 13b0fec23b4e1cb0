CONSTANTS
  w1 = w1
  w2 = w2
  r1 = r1
  Writers = {w1}
  Readers = {r1}
  Records <- RivalRecords
  Ids = {1, 2}
  Limits = {1, 2}
  MaxFiles = 3
  MaxPowerLosses = 1
  MayDamage = TRUE
  MayFail = FALSE
SPECIFICATION Spec
INVARIANTS
  NoFalseCorruption
  NothingAcknowledgedMissed
CHECK_DEADLOCK FALSE
