CONSTANTS
  t1 = t1
  t2 = t2
  t3 = t3
  Threads = {t1, t2, t3}
  Times <- ShortTimes
  MaxHandles = 1
  MaxDuration = 1
SPECIFICATION FairSpec
INVARIANTS
  HandleInOnePlace
  OneRecordPerHandle
  RecordTimesRight
PROPERTIES
  TerminalizationSettles
CHECK_DEADLOCK FALSE
