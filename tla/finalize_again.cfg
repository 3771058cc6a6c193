SPECIFICATION Spec
CONSTANTS
  w1 = w1
  w2 = w2
  a1 = a1
  a2 = a2
  u1 = u1
  k = k
  h1 = h1
  h2 = h2
  None = None
  Unread = Unread
  Workspaces = {w1, w2}
  Accounts = {a1, a2}
  Keys = {k}
  Uploads = {u1}
  Procs = {h1, h2}
  Home <- HomeOf
  Place <- PlaceOf
  Size <- SizeOf
  WriteSizes = {1, 2}
  Quota = 3
  Limit = 2
  Situations <- UploadAndCrash
INVARIANT Replayable
CHECK_DEADLOCK FALSE
