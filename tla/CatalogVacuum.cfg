CONSTANTS
  Table = {t, u}
  Value = {v}
  Null = Null
  Absent = Absent
  MaxRid = 2
  MaxPages = 3
  MaxCalls = 2
  LeafRows = 1
  Room = 3
  Assumed = {"failed", "index", "bulk", "survive"}
SPECIFICATION Spec
PROPERTY ImplementsTables
SYMMETRY Symmetry
