CONSTANTS
  Session = {s1, s2}
  NoOne = NoOne
  Absent = {0}
  MaxPages = 2
  MaxTxns = 3
  MaxCrashes = 1
  Capacity = 1
  Relaxed = {}
SPECIFICATION DisciplinedSpec
INVARIANTS CommittedIsRecoverable SeesCommitted NoHalfTransactions
PROPERTIES ImplementsDurableStore SurvivesPowerLoss RepeatableRead
SYMMETRY SessionSymmetry
