SPECIFICATION FairSpec
CONSTANTS
  r1 = r1
  r2 = r2
  c1 = c1
  c2 = c2
  c3 = c3
  k1 = k1
  Subject = Subject
  None = None
  Gone = Gone
  Replicas = {r1, r2}
  Callers = {c1, c2, c3}
  On <- TwoAndOne
  Keys = {k1}
INVARIANTS TypeOK Alone OneAtAKey
PROPERTIES CallsEnd
