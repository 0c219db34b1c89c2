CONSTANTS
  MaxKey = 6
  Lengths = {3}
  PageSize = 48
  SpareBytes = 12
  LoadSlack = 4
  Fanout = 2
  MaxPages = 14
  MaxCalls = 2
  Queries = {{1}, {4}, {1, 2, 3, 4, 5, 6}}
  Absent = Absent
  Assumed = {"reread", "still"}
SPECIFICATION Spec
INVARIANTS TypeOK CallsTakeEffect Balanced WellFilled NeverRaises CacheIsTrue
PROPERTY ImplementsMap
