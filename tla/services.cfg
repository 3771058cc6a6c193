SPECIFICATION Services
CONSTANTS
  A = A
  B = B
  p1 = p1
  p2 = p2
  w1 = w1
  w2 = w2
  w3 = w3
  w4 = w4
  a1 = a1
  a2 = a2
  a3 = a3
  i1 = i1
  k1 = k1
  u1 = u1
  u2 = u2
  c1 = c1
  c2 = c2
  c3 = c3
  t1 = t1
  t2 = t2
  t3 = t3
  n1 = n1
  n2 = n2
  None = None
  Unread = Unread
  Replicas = {A, B}
  Prints = {p1, p2}
  Stages = {"thumbnail", "geometry", "preview"}
  MaxRetries = 1
  Slots = 2
  Budget = 2
  Limit = 2
  Situations <- ChosenQueue
  Procs = {c1, c2}
  Requesters = {c1, c2, c3}
  BilledWorkspaces = {w1, w2}
  Holders = {a1, a2}
  Keys = {k1}
  Uploads = {u1, u2}
  Home <- UploadHome
  Place <- UploadPlace
  Size <- UploadSize
  WriteSizes = {1, 2}
  Quota = 3
  MaxHeld = 2
  Tags = {t1, t2, t3}
  Names = {n1, n2}
  Accounts = {a1, a2, a3}
  Workspaces = {w1, w2, w3, w4}
  Invites = {i1}
  MaxOwned = 2
  QuotaSituations <- ChosenQuota
  RegistrySituations <- ChosenRegistry
  SweepSituations <- ChosenSweep
  TagSituations <- ChosenTags
  MemberSituations <- ChosenMembers
  Rest <- AtRest
INVARIANTS ServicesTypeOK ResultsFit OnePass AccountsAdd QuotaKept Charged Returned NoneLost SavedIsRead QuietAfterStop NoLoops SiblingsDiffer MembersFit
PROPERTIES JobsSettle ServedOpen
\* When all jobs have settled and nobody calls, nothing is left to do.
CHECK_DEADLOCK FALSE
