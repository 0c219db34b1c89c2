CONSTANTS
  Absent = Absent
  MaxPages = 2
  MaxGroups = 3
  MaxCrashes = 2
SPECIFICATION Spec
INVARIANTS TypeOK NothingLost OnlyCommittedImages
PROPERTY OpenTerminates
CHECK_DEADLOCK FALSE
