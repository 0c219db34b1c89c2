CONSTANTS
  Session = {s1, s2}
  NoOne = NoOne
  Absent = {0}
  MaxPages = 2
  MaxTxns = 2
  MaxCrashes = 1
  Capacity = 1
  Relaxed = {"rollback"}
SPECIFICATION DisciplinedSpec
INVARIANT CommittedIsRecoverable
