CONSTANTS
  Table = {t, u}
  Value = {v}
  Null = Null
  Absent = Absent
  MaxRid = 2
  MaxPages = 3
  MaxCalls = 2
  LeafRows = 1
  Room = 3
  Assumed = {"failed", "index", "bulk", "vacuum", "survive"}
SPECIFICATION Spec
INVARIANTS TypeOK CatalogIsStored IndexesAgree CountsRight PagesOwnedOnce
PROPERTY ImplementsTables
SYMMETRY Symmetry
