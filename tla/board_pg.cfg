SPECIFICATION Spec
CONSTANTS
  p1 = p1
  p2 = p2
  a = a
  b = b
  Todo = Todo
  UpNext = UpNext
  InProgress = InProgress
  PostProcessing = PostProcessing
  Done = Done
  Whole = Whole
  AnyCard = AnyCard
  Unwritten = Unwritten
  Backend = "pg"
  Procs = {p1, p2}
  Calls = {"move", "move_group", "delete", "create_group", "delete_group", "archive"}
  TagOrder <- OneTag
  Tagged <- Untagged
  Used = {Todo, Done}
  Copies = 2
  MaxCopies = 3
  Fresh = {a}
INVARIANTS Conserved
PROPERTIES ArchivesReady
\* A deleted print takes no more calls.
CHECK_DEADLOCK FALSE
