CONSTANTS
  w1 = w1
  w2 = w2
  r1 = r1
  Writers = {w1, w2}
  Readers = {}
  Records <- RivalRecords
  Ids = {1, 2}
  Limits = {1, 2}
  MaxFiles = 2
  MaxPowerLosses = 1
  MayDamage = FALSE
  MayFail = TRUE
SPECIFICATION FairSpec
INVARIANTS
  AcknowledgedDurable
  RefusedPublishesNothing
PROPERTIES
  StoreSpec
  SaveReturns
CHECK_DEADLOCK FALSE
