SPECIFICATION FairSpec
CONSTANTS
  MaxImports = 2
  MaxRetries = 2
  MaxCommands = 2
CHECK_DEADLOCK FALSE
INVARIANTS TypeOK BlockedWhilePolled OfferedAfterImport ValidatedIsTrue SessionInv
PROPERTIES PollingEnds BlockingEnds
