CONSTANTS
  MaxKey = 4
  Lengths = {3, 24}
  PageSize = 48
  SpareBytes = 12
  LoadSlack = 4
  Fanout = 2
  MaxPages = 10
  MaxCalls = 1
  Queries = {{1, 2, 3, 4}}
  Absent = Absent
  Assumed = {"reread", "fits"}
SPECIFICATION Spec
INVARIANT ScanAgreesWithSearch
PROPERTY ImplementsMap
