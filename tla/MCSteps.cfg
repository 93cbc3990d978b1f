SPECIFICATION Spec
CONSTANTS
  Editors = {e1}
  Lists <- ThreeLists
  MaxRequests = 3
CHECK_DEADLOCK FALSE
INVARIANTS TypeOK LoadsOneList TestsAfterSetup StatusTellsResults
