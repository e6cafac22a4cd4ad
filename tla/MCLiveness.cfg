SPECIFICATION MCSpec
CONSTANTS
  MaxRetries = 1
  None = None
  w1 = w1
  w2 = w2
  t1 = t1
  t2 = t2
  s1 = s1
  s2 = s2
  r1 = r1
  r2 = r2
  r3 = r3
  Torn = Torn
  Gone = Gone
PROPERTIES EverythingEnds
CHECK_DEADLOCK FALSE
