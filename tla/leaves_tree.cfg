SPECIFICATION FairSpec
CONSTANTS
  Units <- MCUnits
  PageSize = 1
  FirstPages = 3
  Corpora <- MCCorpora
  MaxSearches = 2
INVARIANTS TypeOK ReadOnce CountsAreTrue ResultsInOrder NothingLeft
PROPERTIES LoadEnds
