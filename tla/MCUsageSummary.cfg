CONSTANTS
  None = None
  MaxInteger = 6
  MaxLength = 4
  MaxRecords = 3
  Precision = 8
  RollUpPrecision = 16
  Requests <- SomeRequests
SPECIFICATION Spec
INVARIANTS
  SummaryAccepted
  OrderIrrelevant
  TotalsExact
CHECK_DEADLOCK FALSE
