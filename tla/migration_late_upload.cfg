SPECIFICATION Spec
CONSTANTS
  A = A
  B = B
  x = x
  y = y
  disk = disk
  managed = managed
  f1 = f1
  f2 = f2
  None = None
  Replicas = {A, B}
  Admins = {x, y}
  Stores = {disk, managed}
  Managed = managed
  Files = {f1, f2}
  Uploads = {f2}
  Bounds <- TwoReplicas
  Owners = {1, 2, 3}
INVARIANT FilesCopied
CHECK_DEADLOCK FALSE
