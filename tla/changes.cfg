SPECIFICATION FairSpec
CONSTANTS
  e1 = e1
  l1 = l1
  u1 = u1
  u2 = u2
  u3 = u3
  u4 = u4
  h1 = h1
  h2 = h2
  server = server
  one = one
  two = two
  NewRequest = NewRequest
  Absent = Absent
  Missing = Missing
  NoKey = NoKey
  Open = Open
  Gone = Gone
  Expired = Expired
  Cut = Cut
  Unsure = Unsure
  Existing = {e1}
  Linked = {l1}
  Uploads = {u1, u2, u3, u4}
  Names = {one, two}
  FirstName = one
  Target <- ToBoth
  FileName <- OtherName
  Handlers = {h1, h2}
  Replicas = {server}
  Home <- OneServer
  Sends <- SendOwn
  MaxOps = 2
  Situations <- Changes
INVARIANTS ModelReachable TrackedUnbatched
PROPERTIES ImplementsLibrary PartConsumed EventuallyReady JournalDrains
\* Clients may stop calling: a state in which nothing is under way has no successor to promise.
CHECK_DEADLOCK FALSE
