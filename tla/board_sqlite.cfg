SPECIFICATION Spec
CONSTANTS
  p1 = p1
  p2 = p2
  a = a
  b = b
  Todo = Todo
  UpNext = UpNext
  InProgress = InProgress
  PostProcessing = PostProcessing
  Done = Done
  Whole = Whole
  AnyCard = AnyCard
  Unwritten = Unwritten
  Backend = "sqlite"
  Procs = {p1, p2}
  Calls = {"move", "move_group", "delete", "tag", "untag", "edit"}
  TagOrder <- TwoTags
  Tagged <- FirstOnce
  Used = {Todo, Done}
  Copies = 2
  MaxCopies = 2
  Fresh = {}
INVARIANTS TypeOK Conserved TagsFit CardsDealt
PROPERTY CardStillThere
SYMMETRY ProcSymmetry
\* A deleted print takes no more calls.
CHECK_DEADLOCK FALSE
