SPECIFICATION FairSpec
CONSTANTS
  Last = 2
  Listed = 2
  Rejected <- SomeRejected
  MaxAttempts = 2
  MaxLate = 1
  MaxFaults = 1
INVARIANTS
  TypeOK
  CursorCovered
  SuccessPersisted
PROPERTIES
  CursorMonotone
  ConnectorsPolled
