------------------------------- MODULE TagTree -------------------------------
(***************************************************************************)
(* Tags lie under tags.  Creates, renames and moves are checked under a     *)
(* lock on the workspace's row, which no index stands in for; deletions     *)
(* take no lock, and the database deletes the whole branch with the tag.    *)
(***************************************************************************)
EXTENDS Integers, FiniteSets

CONSTANTS Tags, Names, Procs, Situations, None

VARIABLES
  tag,   \* each row: its name and its parent, or None
  row,   \* the transaction that has written the workspace's row, or None
  proc,  \* what each call is doing
  left   \* what may still happen

vars == <<tag, row, proc, left>>

Stored == {t \in Tags : tag[t] # None}
Idle == [pc |-> "idle", id |-> None, name |-> None, parent |-> None, new |-> FALSE]

Init ==
  /\ left \in Situations
  /\ tag = left.tag /\ row = None /\ proc = [p \in Procs |-> Idle]

Spend(what) == left[what] > 0 /\ left' = [left EXCEPT ![what] = @ - 1]
Set(p, new) == proc' = [proc EXCEPT ![p] = new]
At(p, pc) == proc[p].pc = pc
Kept == "kept"  \* a field that updateGroup is not asked to change

(* The tags above one, itself included: whatever a walk over the parents meets. *)
Closed(U) == \A u \in U \cap Stored : tag[u].parent \in U \cup {None}
Above(t) == {s \in Tags : \A U \in SUBSET Tags : t \in U /\ Closed(U) => s \in U}

NameTaken(name, parent, except) ==
  \E t \in Stored \ {except} : tag[t].parent = parent /\ tag[t].name = name

(* createGroup, and updateCopyTags when it creates a tag at the root. *)
Create(p, t, name, parent) ==
  /\ At(p, "idle") /\ tag[t] = None /\ \A q \in Procs : proc[q].id # t
  /\ parent # t /\ Spend("creates")
  /\ Set(p, [pc |-> "lock", id |-> t, name |-> name, parent |-> parent, new |-> TRUE])
  /\ UNCHANGED <<tag, row>>

(* updateGroup: a rename, a move or both. *)
Update(p, t, name, parent) ==
  /\ At(p, "idle") /\ t \in Stored /\ Spend("updates")
  /\ name # Kept \/ parent # Kept
  /\ Set(p, [pc |-> "lock", id |-> t, name |-> name, parent |-> parent, new |-> FALSE])
  /\ UNCHANGED <<tag, row>>

(* Mutant: nothing is written to the workspace's row. *)
LockNothing(p) ==
  /\ At(p, "lock")
  /\ Set(p, [proc[p] EXCEPT !.pc = "check"])
  /\ UNCHANGED <<tag, row, left>>

(* lockWorkspaceTags: the row is held until the transaction ends. *)
LockWorkspaceTags(p) ==
  /\ At(p, "lock") /\ row = None
  /\ row' = p
  /\ Set(p, [proc[p] EXCEPT !.pc = "check"])
  /\ UNCHANGED <<tag, left>>

(* The transaction ends, with its row if it has one. *)
Ends(p) == Set(p, Idle) /\ row' = IF row = p THEN None ELSE row

(* requireTagParent, the current row, and requireUnusedGroupName. *)
NewName(c) == IF c.name = Kept THEN tag[c.id].name ELSE c.name
NewParent(c) == IF c.parent = Kept THEN tag[c.id].parent ELSE c.parent
ParentFits(c) == c.parent \in {Kept, None} \/ (c.parent \in Stored /\ (c.new \/ c.id \notin Above(c.parent)))
NameFits(c) ==
  IF c.new THEN ~NameTaken(c.name, c.parent, None)
  ELSE tag[c.id] # None /\ (NewName(c) # tag[c.id].name \/ NewParent(c) # tag[c.id].parent) =>
         ~NameTaken(NewName(c), NewParent(c), c.id)

(* Mutant: only a new name is looked up among the siblings. *)
CheckNewNames(p) ==
  LET c == proc[p] IN
  /\ At(p, "check")
  /\ IF ParentFits(c) /\ (c.name # Kept => NameFits(c))
     THEN Set(p, [c EXCEPT !.pc = "write"]) /\ UNCHANGED row
     ELSE Ends(p)
  /\ UNCHANGED <<tag, left>>

Check(p) ==
  LET c == proc[p] IN
  /\ At(p, "check")
  /\ IF ParentFits(c) /\ NameFits(c) THEN Set(p, [c EXCEPT !.pc = "write"]) /\ UNCHANGED row
     ELSE Ends(p)
  /\ UNCHANGED <<tag, left>>

(* The insert or the update: the foreign key refuses a parent that is gone,
   and a tag that is gone is not found. *)
Write(p) ==
  LET c == proc[p] IN
  /\ At(p, "write")
  /\ tag' = IF (c.parent \notin {Kept, None} /\ c.parent \notin Stored) \/ (~c.new /\ c.id \notin Stored) THEN tag
            ELSE [tag EXCEPT ![c.id] = [name |-> NewName(c), parent |-> NewParent(c)]]
  /\ Ends(p)
  /\ UNCHANGED left

(* deleteGroup, with its branch. *)
Delete(t) ==
  /\ t \in Stored /\ Spend("deletes")
  /\ tag' = [s \in Tags |-> IF tag[s] # None /\ t \in Above(s) THEN None ELSE tag[s]]
  /\ UNCHANGED <<row, proc>>

Next ==
  \/ \E p \in Procs : \/ LockWorkspaceTags(p) \/ Check(p) \/ Write(p)
                      \/ \E t \in Tags, parent \in Tags \cup {None, Kept} :
                           \/ \E name \in Names : parent # Kept /\ Create(p, t, name, parent)
                           \/ \E name \in Names \cup {Kept} : Update(p, t, name, parent)
  \/ \E t \in Tags : Delete(t)

Spec == Init /\ [][Next]_vars

-----------------------------------------------------------------------------
(* A tag has a name and a parent; a call names a tag. *)
TypeOK ==
  /\ \A t \in Stored : tag[t].name \in Names /\ tag[t].parent \in Tags \cup {None}
  /\ \A p \in Procs : proc[p].id \in Tags \cup {None} /\ (row = p => proc[p].pc \in {"check", "write"})

(* No moves that overlap put two tags into each other's branch: every tag has a
   root above it, and every parent is there. *)
NoLoops == \A t \in Stored :
  \E s \in Above(t) : tag[s] # None /\ tag[s].parent = None /\ Above(t) \subseteq Stored

(* Tags are shown by their path: no creates, renames and moves that overlap
   give two tags under one parent the same name. *)
SiblingsDiffer == \A s, t \in Stored :
  s # t /\ tag[s].parent = tag[t].parent => tag[s].name # tag[t].name
=============================================================================
