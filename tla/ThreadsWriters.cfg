CONSTANTS
  t1 = t1
  t2 = t2
  t3 = t3
  s1 = s1
  s2 = s2
  v1 = v1
  Thread <- MCThread
  Session = {s1, s2}
  Serves <- MCServes
  Scripts <- MCWrites
  NoOne = NoOne
  Viewer = {}
  Views <- MCViews
SPECIFICATION Spec
INVARIANT WritersSerialize
CHECK_DEADLOCK FALSE
