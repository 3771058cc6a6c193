SPECIFICATION Spec
CONSTANTS
  A = A
  B = B
  p1 = p1
  p2 = p2
  None = None
  Replicas = {A, B}
  Prints = {p1, p2}
  Stages = {"thumbnail", "geometry", "preview"}
  MaxRetries = 1
  Slots = 2
  Budget = 2
  Limit = 2
  Situations <- OneReplaced
INVARIANT NothingStale
\* When all jobs have settled nothing is left to do.
CHECK_DEADLOCK FALSE
