------------------------------ MODULE CopyBoard ------------------------------
(***************************************************************************)
(* The copies of one print on the board: request_statuses holds a count    *)
(* per stage, print_group_items a count per tag and stage, and requests    *)
(* the print's quantity.  A call reads the board, then runs a transaction. *)
(* On SQLite transactions run one at a time (BEGIN IMMEDIATE); on          *)
(* PostgreSQL, at its default READ COMMITTED, each statement reads what is *)
(* committed by then, and a row that another transaction has written is    *)
(* waited for.                                                             *)
(***************************************************************************)
EXTENDS Cohorts

CONSTANTS
  Backend,     \* "sqlite" or "pg"
  Procs,       \* calls that run at the same time
  Calls,       \* the kinds of call clients make
  Todo, UpNext, InProgress, PostProcessing, Done,   \* workflow.statuses
  Used,        \* bound: the stages the calls name
  MaxCopies,   \* bound: the largest quantity an edit asks for
  Copies,      \* the print's quantity at the start
  Tagged,      \* its tag counts at the start, in the first stage
  Fresh,       \* tags that are not created yet
  Whole,       \* the print's row of requests
  AnyCard, Unwritten

Workflow == <<Todo, UpNext, InProgress, PostProcessing, Done>>
Stages == {Todo, UpNext, InProgress, PostProcessing, Done}
Items == Tags \X Stages
Rows == Stages \cup Items \cup Tags \cup {Whole}   \* a tag's own row: 0 not created yet, 1 there, 2 deleted

ASSUME BoardAssumption ==
  /\ Backend \in {"sqlite", "pg"}
  /\ \A i, j \in 1..5 : Workflow[i] = Workflow[j] => i = j
  /\ Used \subseteq Stages
  /\ MaxCopies \in Nat /\ Copies \in Nat \ {0}
  /\ Tagged \in [Tags -> 0..Copies]
  /\ Fresh \subseteq Tags /\ \A t \in Fresh : Tagged[t] = 0
  /\ Tags \cap (Stages \cup Items) = {} /\ Stages \cap Items = {} /\ Whole \notin Stages \cup Items \cup Tags
  /\ Unwritten \notin Int

VARIABLES
  db,        \* the committed counts; 0 where there is no row
  archived,  \* requests.archived_at is set
  pc,        \* the next statement of each call
  call,      \* what the call asks for
  seen,      \* what its transaction has read
  write      \* its uncommitted writes, which lock their rows

vars == <<db, archived, pc, call, seen, write>>

NoCall == [kind |-> "none", from |-> Todo, to |-> Todo, n |-> 0, tags |-> {}, cards |-> {}, last |-> FALSE]
Nothing == [copies |-> 0, total |-> 0, tags |-> [t \in Tags |-> 0], taken |-> [t \in Tags |-> 0], left |-> {}]
Blank == [r \in Rows |-> Unwritten]

Init ==
  /\ db = [r \in Rows |-> IF r \in {Todo, Whole} THEN Copies
                          ELSE IF r \in Items THEN IF r[2] = Todo THEN Tagged[r[1]] ELSE 0
                          ELSE IF r \in Tags \ Fresh THEN 1 ELSE 0]
  /\ archived = FALSE
  /\ pc = [p \in Procs |-> "idle"]
  /\ call = [p \in Procs |-> NoCall]
  /\ seen = [p \in Procs |-> Nothing]
  /\ write = [p \in Procs |-> Blank]

-----------------------------------------------------------------------------
(* Rows and transactions.                                                  *)

Deleted == db[Whole] = 0
Latest(p, r) == IF write[p][r] # Unwritten THEN write[p][r] ELSE db[r]
CanLock(p, rows) == \A q \in Procs \ {p}, r \in rows : write[q][r] = Unwritten
Open(p) == pc[p] \notin {"idle", "begin"}
Started == db[UpNext] + db[InProgress] + db[PostProcessing] + db[Done]
TagsIn(counts, stage) == [t \in Tags |-> counts[<<t, stage>>]]

Goto(p, label) == pc' = [pc EXCEPT ![p] = label]

\* One statement: the rows it waits for, what it writes there, and the statement that follows.
Writes(p, rows, value(_), label) ==
  /\ CanLock(p, rows)
  /\ write' = [write EXCEPT ![p] = [r \in Rows |-> IF r \in rows THEN value(r) ELSE @[r]]]
  /\ Goto(p, label)
  /\ UNCHANGED <<db, archived, call>>

End(p) ==
  /\ Goto(p, "idle")
  /\ call' = [call EXCEPT ![p] = NoCall]
  /\ seen' = [seen EXCEPT ![p] = Nothing]
  /\ write' = [write EXCEPT ![p] = Blank]

\* A 409, a failed statement or the deadlock detector: nothing the transaction wrote remains.
Abort(p) == End(p) /\ UNCHANGED <<db, archived>>

Commit(p) ==
  /\ pc[p] = "commit"
  /\ db' = [r \in Rows |-> Latest(p, r)]
  /\ archived' = (archived \/ call[p].kind = "archive")
  /\ End(p)

Rollback(p) == Open(p) /\ Abort(p)

-----------------------------------------------------------------------------
(* Calls: what each checks before its transaction.                         *)

Ask(p, asked) ==
  /\ pc[p] = "idle" /\ asked.kind \in Calls /\ ~Deleted
  /\ Goto(p, "begin")
  /\ call' = [call EXCEPT ![p] = asked]
  /\ UNCHANGED <<db, archived, seen, write>>

\* planCopyMove; a move that names no card takes copies of any.
AskMove(p) ==
  \E from, to \in Used : \E n \in 1..db[from] :
    \E cards \in {AnyCard} \cup {{[count |-> n, tags |-> tags]} : tags \in SUBSET Tags} :
      from # to /\ Ask(p, [NoCall EXCEPT !.kind = "move", !.from = from, !.to = to, !.n = n, !.cards = cards])

\* STLQuestService.moveGroup: the cards that carry the tag, by the tag's count.
AskMoveGroup(p) ==
  \E from, to \in Used, t \in Tags :
    /\ from # to /\ db[<<t, from>>] \in 1..db[from]
    /\ Ask(p, [NoCall EXCEPT !.kind = "move_group", !.from = from, !.to = to, !.n = db[<<t, from>>], !.tags = {t}])

\* removeCopiesBatch: the print goes with the last of its copies.
AskDelete(p) ==
  \E from \in Used, tags \in SUBSET Tags : \E n \in 1..db[from] :
    Ask(p, [NoCall EXCEPT !.kind = "delete", !.from = from, !.n = n, !.cards = {[count |-> n, tags |-> tags]},
                          !.last = (n = db[Whole])])

\* updateCopyTags, which adds or removes a tag, and createGroup.
AskTag(p) ==
  \E kind \in {"tag", "untag", "create_group"}, from \in Used, t \in Tags : \E n \in 1..db[from] :
    /\ db[t] = IF kind = "create_group" THEN 0 ELSE 1
    /\ kind = "create_group" => \A q \in Procs : t \notin call[q].tags
    /\ Ask(p, [NoCall EXCEPT !.kind = kind, !.from = from, !.n = n, !.tags = {t}])

AskDeleteGroup(p) == \E t \in Tags : db[t] = 1 /\ Ask(p, [NoCall EXCEPT !.kind = "delete_group", !.tags = {t}])

\* update, with a new quantity or, for n = 0, without.
AskEdit(p) == \E n \in 0..MaxCopies : Ask(p, [NoCall EXCEPT !.kind = "edit", !.n = n])

\* autoArchiveDue: every copy of the print is in the last stage.
AllReady == db[Done] > 0 /\ \A s \in Stages \ {Done} : db[s] = 0
AskArchive(p) == ~archived /\ AllReady /\ Ask(p, [NoCall EXCEPT !.kind = "archive"])

\* setArchived takes a print out of the archive.
Unarchive ==
  /\ archived /\ \A q \in Procs : write[q][Whole] = Unwritten
  /\ archived' = FALSE
  /\ UNCHANGED <<db, pc, call, seen, write>>

FirstStatement(kind) ==
  CASE kind \in {"move", "delete"} -> "stage"
    [] kind = "move_group" -> "group"
    [] kind \in {"tag", "untag"} -> "available"
    [] kind = "create_group" -> "insert"
    [] kind = "delete_group" -> "drop"
    [] kind = "edit" -> "read"
    [] OTHER -> "lock_stages"

Begin(p) ==
  /\ pc[p] = "begin"
  /\ Backend = "sqlite" => \A q \in Procs : ~Open(q)
  /\ Goto(p, FirstStatement(call[p].kind))
  /\ UNCHANGED <<db, archived, call, seen, write>>

-----------------------------------------------------------------------------
(* moveCards and deleteCopiesBatch.                                        *)

\* moveGroup looks at the stage itself, here in one statement, and names every card with the tag.
ReadGroup(p) ==
  LET from == call[p].from
      cohorts == CohortsOf(db[from], TagsIn(db, from))
      carrying == {i \in DOMAIN cohorts : call[p].tags \subseteq cohorts[i].tags}
  IN
  /\ pc[p] = "group"
  /\ IF \A t \in call[p].tags : db[<<t, from>>] = call[p].n
     THEN /\ call' = [call EXCEPT ![p] = [@ EXCEPT !.n = AtMost(call[p].n, db[from]), !.cards = {cohorts[i] : i \in carrying}]]
          /\ Goto(p, "stage")
          /\ UNCHANGED <<db, archived, seen, write>>
     ELSE Abort(p)

\* stageTags is two statements: the stage, then its tags.
ReadStage(p) ==
  /\ pc[p] = "stage"
  /\ seen' = [seen EXCEPT ![p].copies = db[call[p].from]]
  /\ Goto(p, "tags")
  /\ UNCHANGED <<db, archived, call, write>>

\* printGroupCohortTakes: the copies of each cohort that the named cards, or any, give.
TakenFrom(cohorts, asked) ==
  IF asked.cards = AnyCard THEN FewestFirst(cohorts, asked.n)
  ELSE [i \in DOMAIN cohorts |-> SumOver({c \in asked.cards : c.tags = cohorts[i].tags}, LAMBDA c : c.count)]

\* Mutant of Enough: the stage holds the copies, whatever cards they are on.
InStage(copies, cohorts, asked) == asked.n <= copies

Enough(copies, cohorts, asked) ==
  /\ asked.n <= copies
  /\ asked.cards # AnyCard => \A c \in asked.cards : c.count <= OnCard(cohorts, c.tags)

CohortsRead(p) == CohortsOf(seen[p].copies, TagsIn(db, call[p].from))
Taken(p) == [t \in Tags |-> Carrying(CohortsRead(p), TakenFrom(CohortsRead(p), call[p]), t)]

\* takeCohortCopies.
ReadTags(p) ==
  /\ pc[p] = "tags"
  /\ IF Enough(seen[p].copies, CohortsRead(p), call[p])
     THEN /\ seen' = [seen EXCEPT ![p] = [@ EXCEPT !.tags = TagsIn(db, call[p].from), !.taken = Taken(p),
                                                   !.left = {t \in Tags : Taken(p)[t] > 0}]]
          /\ Goto(p, IF call[p].last THEN "total" ELSE "take_tags")
          /\ UNCHANGED <<db, archived, call, write>>
     ELSE Abort(p)

\* The tags are written in their order.
Before(t, u) == \E i, j \in DOMAIN TagOrder : i < j /\ TagOrder[i] = t /\ TagOrder[j] = u
NextTag(p) == {t \in seen[p].left : \A u \in seen[p].left \ {t} : Before(t, u)}

\* A write conditions on the count that was read.
Unchanged(p, r, read) == Latest(p, r) = read

\* removeTagCopies.
TakeTags(p) ==
  /\ pc[p] = "take_tags"
  /\ \/ seen[p].left = {} /\ Goto(p, "take_copies") /\ UNCHANGED <<db, archived, call, seen, write>>
     \/ \E t \in NextTag(p) :
          LET row == <<t, call[p].from>>
              remains(r) == seen[p].tags[t] - seen[p].taken[t]
          IN \/ /\ Unchanged(p, row, seen[p].tags[t])
                /\ Writes(p, {row}, remains, "take_tags")
                /\ seen' = [seen EXCEPT ![p].left = @ \ {t}]
             \/ CanLock(p, {row}) /\ ~Unchanged(p, row, seen[p].tags[t]) /\ Abort(p)

\* The stage gives its copies.
TakeCopies(p) ==
  LET from == call[p].from
      remains(r) == Latest(p, r) - call[p].n
  IN
  /\ pc[p] = "take_copies"
  /\ \/ /\ Unchanged(p, from, seen[p].copies)
        /\ Writes(p, {from}, remains, IF call[p].kind = "delete" THEN "quantity" ELSE "put_copies")
        /\ UNCHANGED seen
     \/ CanLock(p, {from}) /\ ~Unchanged(p, from, seen[p].copies) /\ Abort(p)

PutCopies(p) ==
  LET grows(r) == Latest(p, r) + call[p].n IN
  /\ pc[p] = "put_copies"
  /\ Writes(p, {call[p].to}, grows, "touch")
  /\ seen' = [seen EXCEPT ![p].left = {t \in Tags : seen[p].taken[t] > 0}]

\* updatedAt of the print's row.
Touch(p) ==
  LET same(r) == Latest(p, r) IN
  /\ pc[p] = "touch"
  /\ Writes(p, {Whole}, same, "put_tags") /\ UNCHANGED seen

\* addTagCopies; a row that is inserted needs the tag to be there still.
PutTags(p) ==
  /\ pc[p] = "put_tags"
  /\ \/ seen[p].left = {} /\ Goto(p, "commit") /\ UNCHANGED <<db, archived, call, seen, write>>
     \/ \E t \in NextTag(p) :
          LET grows(r) == Latest(p, r) + seen[p].taken[t] IN
          \/ db[t] # 1 /\ Abort(p)
          \/ /\ db[t] = 1 /\ CanLock(p, {t})
             /\ Writes(p, {<<t, call[p].to>>}, grows, "put_tags")
             /\ seen' = [seen EXCEPT ![p].left = @ \ {t}]

\* Mutant of QuantityLeft: the print keeps its quantity.
SameQuantity(p) == Latest(p, Whole)

QuantityLeft(p) == Latest(p, Whole) - call[p].n

Quantity(p) ==
  LET left(r) == QuantityLeft(p) IN
  /\ pc[p] = "quantity"
  /\ \/ Latest(p, Whole) > call[p].n /\ Writes(p, {Whole}, left, "commit") /\ UNCHANGED seen
     \/ CanLock(p, {Whole}) /\ Latest(p, Whole) <= call[p].n /\ Abort(p)

\* The deletion of the print: its quantity is read again, and the cascade takes every row.
Total(p) ==
  /\ pc[p] = "total"
  /\ IF db[Whole] = call[p].n THEN Goto(p, "erase") /\ UNCHANGED <<db, archived, call, seen, write>>
     ELSE Abort(p)

Erase(p) ==
  LET gone(r) == 0 IN
  /\ pc[p] = "erase"
  /\ Writes(p, Rows \ Tags, gone, "commit") /\ UNCHANGED seen

-----------------------------------------------------------------------------
(* updateCopyTags, createGroup and deleteGroup.                            *)

Available(p) ==
  /\ pc[p] = "available"
  /\ IF db[call[p].from] < call[p].n THEN Abort(p)
     ELSE /\ seen' = [seen EXCEPT ![p].copies = db[call[p].from]]
          /\ Goto(p, "assign")
          /\ UNCHANGED <<db, archived, call, write>>

\* Mutant of Assigned: the clamp to the stage's copies is missing.
Unclamped(n, count, copies) == count + n

Assigned(n, count, copies) == AtMost(count + n, copies)

\* The upsert; for a removal the delete and the update as one, since a count that changes between the two
\* is what the update sees, or its check rolls the call back.  The inserted row needs the print and the tag.
Assign(p) ==
  /\ pc[p] = "assign"
  /\ \E t \in call[p].tags :
       LET n == call[p].n
           counts(r) == IF call[p].kind = "untag" THEN IF Latest(p, r) <= n THEN 0 ELSE Latest(p, r) - n
                        ELSE Assigned(n, Latest(p, r), seen[p].copies)
       IN IF Deleted \/ db[t] # 1 THEN Abort(p)
          ELSE /\ CanLock(p, {t, Whole})
               /\ Writes(p, {r \in {<<t, call[p].from>>} : call[p].kind = "untag" => Latest(p, r) > 0}, counts, "commit")
               /\ UNCHANGED seen

\* createGroup inserts the counts its caller checked, before the transaction, against the stage.
Insert(p) ==
  /\ pc[p] = "insert"
  /\ \E t \in call[p].tags :
       LET created(r) == IF r = t THEN 1 ELSE call[p].n
       IN IF Deleted THEN Abort(p)
          ELSE /\ CanLock(p, {Whole})
               /\ Writes(p, {t, <<t, call[p].from>>}, created, "commit") /\ UNCHANGED seen

Drop(p) ==
  LET gone(r) == IF r \in Tags THEN 2 ELSE 0 IN
  /\ pc[p] = "drop"
  /\ \E t \in call[p].tags : Writes(p, {t} \cup ({t} \X Stages), gone, "commit") /\ UNCHANGED seen

-----------------------------------------------------------------------------
(* updateRequest.                                                          *)

Read(p) ==
  /\ pc[p] = "read"
  /\ IF Deleted \/ (call[p].n > 0 /\ call[p].n < Started) THEN Abort(p)
     ELSE /\ seen' = [seen EXCEPT ![p] = [@ EXCEPT !.copies = IF call[p].n = 0 THEN 0 ELSE call[p].n - Started,
                                                   !.total = IF call[p].n = 0 THEN db[Whole] ELSE call[p].n]]
          /\ Goto(p, IF call[p].n = 0 THEN "whole" ELSE "clamp")
          /\ UNCHANGED <<db, archived, call, write>>

Clamped(count, copies) == AtMost(count, copies)

Clamp(p) ==
  LET clamped(r) == Clamped(Latest(p, r), seen[p].copies) IN
  /\ pc[p] = "clamp"
  /\ Writes(p, {r \in Tags \X {Todo} : Latest(p, r) > 0}, clamped, "backlog") /\ UNCHANGED seen

Backlog(p) ==
  LET copies(r) == seen[p].copies IN
  /\ pc[p] = "backlog"
  /\ IF Deleted THEN Abort(p) ELSE Writes(p, {Todo}, copies, "whole") /\ UNCHANGED seen

WriteWhole(p) ==
  LET total(r) == seen[p].total IN
  /\ pc[p] = "whole"
  /\ IF Deleted THEN Abort(p) ELSE Writes(p, {Whole}, total, "commit") /\ UNCHANGED seen

-----------------------------------------------------------------------------
(* archiveRequestsStillDue.                                                *)

\* Mutant of LockedRows: the recheck runs without the two no-op writes.
NoRows == {}

LockedRows == Stages \cup {Whole}

LockStages(p) ==
  LET same(r) == Latest(p, r) IN
  /\ pc[p] = "lock_stages"
  /\ Writes(p, LockedRows \cap Stages, same, "lock_print") /\ UNCHANGED seen

LockPrint(p) ==
  LET same(r) == Latest(p, r) IN
  /\ pc[p] = "lock_print"
  /\ Writes(p, LockedRows \cap {Whole}, same, "recheck") /\ UNCHANGED seen

Recheck(p) ==
  /\ pc[p] = "recheck"
  /\ IF AllReady /\ ~archived THEN Goto(p, "commit") /\ UNCHANGED <<db, archived, call, seen, write>>
     ELSE Abort(p)

-----------------------------------------------------------------------------

Asks(p) ==
  \/ AskMove(p) \/ AskMoveGroup(p) \/ AskDelete(p) \/ AskTag(p) \/ AskDeleteGroup(p)
  \/ AskEdit(p) \/ AskArchive(p)

Statement(p) ==
  \/ ReadGroup(p) \/ ReadStage(p) \/ ReadTags(p) \/ TakeTags(p) \/ TakeCopies(p) \/ PutCopies(p)
  \/ Touch(p) \/ PutTags(p) \/ Quantity(p) \/ Total(p) \/ Erase(p) \/ Available(p) \/ Assign(p)
  \/ Insert(p) \/ Drop(p) \/ Read(p) \/ Clamp(p) \/ Backlog(p) \/ WriteWhole(p)
  \/ LockStages(p) \/ LockPrint(p) \/ Recheck(p)

Next == Unarchive \/ \E p \in Procs : Asks(p) \/ Begin(p) \/ Statement(p) \/ Commit(p) \/ Rollback(p)

Spec == Init /\ [][Next]_vars

-----------------------------------------------------------------------------
(* Properties.                                                             *)

Labels == {"idle", "begin", "group", "stage", "tags", "take_tags", "take_copies", "put_copies", "touch", "put_tags",
           "quantity", "total", "erase", "available", "assign", "insert", "drop", "read", "clamp", "backlog",
           "whole", "lock_stages", "lock_print", "recheck", "commit"}
Kinds == {"none", "move", "move_group", "delete", "tag", "untag", "create_group", "delete_group", "edit", "archive"}

\* The rows hold counts, the calls what their inputs and reads are: no count falls below zero.
TypeOK ==
  /\ db \in [Rows -> Nat]
  /\ archived \in BOOLEAN
  /\ pc \in [Procs -> Labels]
  /\ \A p \in Procs :
       /\ call[p] \in [kind : Kinds, from : Stages, to : Stages, n : Nat, tags : SUBSET Tags,
                       cards : {call[p].cards}, last : BOOLEAN]
       /\ call[p].cards = AnyCard \/ \A c \in call[p].cards : c \in [count : Nat, tags : SUBSET Tags]
       /\ seen[p] \in [copies : Nat, total : Nat, tags : [Tags -> Nat], taken : [Tags -> Nat], left : SUBSET Tags]
       /\ write[p] \in [Rows -> Nat \cup {Unwritten}]

InStages(counts) == counts[Todo] + counts[UpNext] + counts[InProgress] + counts[PostProcessing] + counts[Done]

\* No copy is lost or made: the stages hold as many copies as the print has, whatever calls overlap.
Conserved == InStages(db) = db[Whole]

\* A tag is on no more copies than the stage holds.
TagsFit == \A t \in Tags, s \in Stages : db[<<t, s>>] <= db[s]

\* A print is archived by itself only while all its copies are ready.
ArchivesReady == [][~archived /\ archived' => AllReady']_vars

\* The copies of a card on the board.
Card(counts, tags, stage) == OnCard(CohortsOf(counts[stage], TagsIn(counts, stage)), tags)

\* Every copy is on one card, a tag is on as many copies as it can, and copies go without a tag
\* whenever the tags do not need them.
CardsDealt ==
  \A s \in Used :
    LET cohorts == CohortsOf(db[s], TagsIn(db, s))
        card(tags) == OnCard(cohorts, tags)
        onCopies(t) == AtMost(db[<<t, s>>], db[s])
        needed == SumOver(Tags, onCopies)
    IN /\ SumOver(SUBSET Tags, card) = db[s]
       /\ \A t \in Tags : SumOver({tags \in SUBSET Tags : t \in tags}, card) = onCopies(t)
       /\ card({}) = db[s] - AtMost(needed, db[s])

\* The calls that take copies of one card commit.
NamedCards(p) == IF call[p].cards = AnyCard THEN {} ELSE call[p].cards
TakesCard(p, c) ==
  /\ pc[p] = "commit" /\ db' # db
  /\ call[p].kind \in {"move", "delete"} /\ call[p].cards = {c} /\ ~call[p].last

StillThere ==
  \A p \in Procs : \A c \in NamedCards(p) :
    TakesCard(p, c) => c.count <= Card(db, c.tags, call[p].from)

\* A card that is moved or deleted is still on the board when the call commits, whatever overlaps.
CardStillThere == [][StillThere]_vars
=============================================================================
