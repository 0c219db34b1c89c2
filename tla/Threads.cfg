CONSTANTS
  t1 = t1
  t2 = t2
  t3 = t3
  s1 = s1
  s2 = s2
  v1 = v1
  Thread <- MCThread
  Session = {s1, s2}
  Serves <- MCServes
  Scripts <- MCScripts
  NoOne = NoOne
  Viewer = {v1}
  Views <- MCViews
SPECIFICATION Spec
INVARIANTS AnswersAreKept ReadsAreWhole FailuresLeaveNothing
PROPERTY EveryRequestEnds
CHECK_DEADLOCK FALSE
