SPECIFICATION Spec
CONSTANTS
  h1 = h1
  h2 = h2
  h3 = h3
  None = None
  Procs = {h1, h2, h3}
  Situations <- StorageChanges
INVARIANT Reused
CHECK_DEADLOCK FALSE
