SPECIFICATION FairSpec
CONSTANTS
  PageSize = 2
  Threshold = 4
  BulkThreshold = 4
  DefaultThreshold = 1
  hits <- MCHits
  ClickedRows = {2}
  MaxSubmits = 2
  MaxInFlight = 2
CHECK_DEADLOCK FALSE
INVARIANTS TypeOK PagesInOrder NoMoreResultsIsTrue SpinnerIsTrue SelectionIsOne OperationWithinThreshold
PROPERTIES SearchEnds
