--------------------------- MODULE CopyBoardProofs ---------------------------
(***************************************************************************)
(* Proofs about CopyBoard, for every number of calls, tags and copies: an  *)
(* automatic archive only ever archives a print whose copies are all       *)
(* ready; the stages always hold as many copies as the print has; what is  *)
(* dealt onto cards is what is counted; and on SQLite a tag is never on    *)
(* more copies than its stage holds, nor is a card gone that a call takes. *)
(***************************************************************************)
EXTENDS CopyBoard, Sums

Counted == Stages \cup {Whole}

\* The shape that needs no arithmetic: of the rows only the counted ones hold numbers here.
CallsOn(cards) ==
  [kind : Kinds, from : Stages, to : Stages, n : Int, tags : SUBSET Tags, cards : cards, last : BOOLEAN]
CallShape(c) == c \in CallsOn({c.cards})
SeenShape(s) == s \in [copies : Int, total : Int, tags : {s.tags}, taken : {s.taken}, left : SUBSET Tags]
WriteShape(w) == w = [r \in Rows |-> w[r]] /\ \A r \in Counted : w[r] \in Int \cup {Unwritten}
Calling(p) == pc[p] \in Labels /\ CallShape(call[p]) /\ SeenShape(seen[p]) /\ WriteShape(write[p])

Shapes ==
  /\ db = [r \in Rows |-> db[r]] /\ \A r \in Counted : db[r] \in Int
  /\ archived \in BOOLEAN
  /\ pc = [p \in Procs |-> pc[p]] /\ call = [p \in Procs |-> call[p]]
  /\ seen = [p \in Procs |-> seen[p]] /\ write = [p \in Procs |-> write[p]]
  /\ \A p \in Procs : Calling(p)

\* A counted row that a transaction has written is locked: no other transaction has written it.
Locked(p, r) == write[p][r] # Unwritten
Exclusive == \A p, q \in Procs : p # q => \A r \in Counted : ~Locked(p, r) \/ ~Locked(q, r)

\* The statements before a call's first write to a counted row.
Early == {"idle", "begin", "group", "stage", "tags", "take_tags", "take_copies", "total", "erase", "available",
          "assign", "insert", "drop", "read", "clamp", "backlog", "lock_stages"}
Clean(p) == \A r \in Counted : ~Locked(p, r)
AsCommitted(p, r) == write[p][r] = db[r]

\* What an automatic archive holds when it gets to a statement.
Archiving(p) ==
  /\ pc[p] \in Early => Clean(p)
  /\ call[p].kind = "archive" => pc[p] \in {"begin", "lock_stages", "lock_print", "recheck", "commit"}
  /\ pc[p] = "lock_print" => \A s \in Stages : AsCommitted(p, s)
  /\ pc[p] = "lock_print" => ~Locked(p, Whole)
  /\ pc[p] = "recheck" => \A r \in Counted : AsCommitted(p, r)
  /\ pc[p] = "commit" /\ call[p].kind = "archive" => AllReady /\ \A r \in Counted : AsCommitted(p, r)

ArchiveInv == Shapes /\ Exclusive /\ \A p \in Procs : Archiving(p)

\* What a transaction has written changes a row by, and leaves the stages ahead of the print by.
Change(p, r) == IF Locked(p, r) THEN write[p][r] - db[r] ELSE 0
Ahead(p) == Change(p, Todo) + Change(p, UpNext) + Change(p, InProgress) + Change(p, PostProcessing)
              + Change(p, Done) - Change(p, Whole)

Editing == {"read", "clamp", "backlog", "whole"}

Balanced(p) ==
  LET n == call[p].n IN
  /\ call[p].kind # "none" => call[p].kind \in Calls
  /\ pc[p] \in Editing => "edit" \in Calls
  /\ call[p].kind \in {"move", "move_group"} => call[p].from # call[p].to
  /\ pc[p] \in {"group", "stage", "tags", "take_tags", "take_copies"} => call[p].kind \in {"move", "move_group", "delete"}
  /\ pc[p] = "put_copies" => /\ call[p].kind \in {"move", "move_group"} /\ Ahead(p) = -n
                             /\ \A r \in Counted \ {call[p].from} : ~Locked(p, r)
  /\ pc[p] = "quantity" => Ahead(p) = -n /\ ~Locked(p, Whole)
  /\ pc[p] = "touch" => Ahead(p) = 0 /\ ~Locked(p, Whole)
  /\ pc[p] \in {"put_tags", "lock_print", "recheck", "commit"} => Ahead(p) = 0
  /\ pc[p] \in {"clamp", "backlog"} => seen[p].copies - db[Todo] = seen[p].total - db[Whole]
  /\ pc[p] = "whole" => Ahead(p) = seen[p].total - db[Whole] /\ ~Locked(p, Whole)

Solo == Backend = "sqlite" => \A p, q \in Procs : Open(p) /\ Open(q) => p = q

BalanceInv == ArchiveInv /\ Conserved /\ Solo /\ \A p \in Procs : Balanced(p)

-----------------------------------------------------------------------------
(* A step of one call that commits nothing: the other calls stay as they   *)
(* are, and a counted row is locked only if no other call has locked it.   *)

LocalStep(p) ==
  /\ db' = db
  /\ pc' = [pc EXCEPT ![p] = pc'[p]] /\ call' = [call EXCEPT ![p] = call'[p]]
  /\ seen' = [seen EXCEPT ![p] = seen'[p]] /\ write' = [write EXCEPT ![p] = write'[p]]
  /\ \A r \in Counted : Locked(p, r)' => Locked(p, r) \/ \A q \in Procs \ {p} : ~Locked(q, r)

Sound(p) == LocalStep(p) /\ archived' = archived /\ Calling(p)' /\ Archiving(p)'

\* The counted rows are rows of their own: no tag, and no tag's count in a stage, is one of them.
LEMMA RowFacts ==
  /\ Counted \subseteq Rows /\ Stages \subseteq Counted /\ Whole \in Counted /\ Whole \notin Stages
  /\ Items \cap Counted = {} /\ Tags \cap Counted = {} /\ Unwritten \notin Int
  /\ \A t \in Tags, s \in Stages : <<t, s>> \in Rows /\ <<t, s>> \notin Counted
<1>1. Items \cap Stages = {} /\ Tags \cap Stages = {} /\ Whole \notin Stages \cup Items \cup Tags
  BY BoardAssumption DEF BoardAssumption
<1>2. \A t \in Tags, s \in Stages : <<t, s>> \in Items
  BY DEF Items
<1> QED
  BY <1>1, <1>2, BoardAssumption DEF BoardAssumption, Counted, Rows

\* The five stages of the workflow are five.
LEMMA StagesDiffer ==
  /\ {Todo, UpNext, InProgress, PostProcessing, Done} = Stages
  /\ Todo # UpNext /\ Todo # InProgress /\ Todo # PostProcessing /\ Todo # Done
  /\ UpNext # InProgress /\ UpNext # PostProcessing /\ UpNext # Done
  /\ InProgress # PostProcessing /\ InProgress # Done /\ PostProcessing # Done
<1>1. \A i, j \in 1..5 : Workflow[i] = Workflow[j] => i = j
  BY BoardAssumption DEF BoardAssumption
<1>2. Workflow[1] = Todo /\ Workflow[2] = UpNext /\ Workflow[3] = InProgress /\ Workflow[4] = PostProcessing
        /\ Workflow[5] = Done
  BY DEF Workflow
<1> QED
  BY <1>1, <1>2 DEF Stages

\* What a call holds between two calls.
LEMMA IdleShape == "idle" \in Labels /\ CallShape(NoCall) /\ SeenShape(Nothing) /\ WriteShape(Blank)
<1>1. CallShape(NoCall)
  BY StagesDiffer DEF CallShape, CallsOn, NoCall, Kinds
<1>2. SeenShape(Nothing)
  BY DEF SeenShape, Nothing
<1>3. WriteShape(Blank)
  BY RowFacts DEF WriteShape, Blank
<1> QED
  BY <1>1, <1>2, <1>3 DEF Labels

\* A call that ends without a commit leaves what the other calls hold, and nothing of its own.
LEMMA AbortSound ==
  ASSUME ArchiveInv, NEW p \in Procs, Abort(p)
  PROVE  Sound(p)
<1>1. db' = db /\ archived' = archived /\ pc'[p] = "idle" /\ call'[p] = NoCall /\ seen'[p] = Nothing
        /\ write'[p] = Blank
  BY DEF Abort, End, Goto, ArchiveInv, Shapes
<1>2. \A r \in Counted : write'[p][r] = Unwritten
  BY <1>1, RowFacts DEF Blank
<1>3. LocalStep(p)
  BY <1>1, <1>2 DEF Abort, End, Goto, LocalStep, Locked, ArchiveInv, Shapes
<1>4. Calling(p)'
  BY <1>1, IdleShape DEF Calling
<1>5. Archiving(p)'
  BY <1>1, <1>2 DEF Archiving, Clean, Locked, NoCall
<1> QED
  BY <1>1, <1>3, <1>4, <1>5 DEF Sound

\* The statements of the calls other than an automatic archive.
Plain == Labels \ {"idle", "begin", "lock_stages", "lock_print", "recheck"}

\* A statement that only reads, and moves on, leaves every write and every lock as it is.
LEMMA ReadSound ==
  ASSUME ArchiveInv, NEW p \in Procs, NEW label \in Plain, pc[p] \in Plain \ {"commit"},
         label \in Early => pc[p] \in Early,
         Goto(p, label), UNCHANGED <<db, archived, write>>,
         call' = [call EXCEPT ![p] = call'[p]], CallShape(call'[p]), call'[p].kind = call[p].kind,
         seen' = [seen EXCEPT ![p] = seen'[p]], SeenShape(seen'[p])
  PROVE  Sound(p)
<1>1. pc' = [pc EXCEPT ![p] = label] /\ pc'[p] = label /\ label \in Labels
  BY DEF Goto, ArchiveInv, Shapes, Plain
<1>2. Calling(p)'
  BY <1>1 DEF Calling, ArchiveInv, Shapes
<1>3. call[p].kind # "archive"
  BY DEF ArchiveInv, Archiving, Plain
<1>4. Archiving(p)'
  BY <1>1, <1>3 DEF Archiving, ArchiveInv, Clean, Locked, Plain
<1>5. LocalStep(p)
  BY <1>1 DEF LocalStep, Locked, ArchiveInv, Shapes
<1> QED
  BY <1>2, <1>4, <1>5 DEF Sound

\* What Writes does, whatever the values are.
Written(p, rows) ==
  /\ CanLock(p, rows) /\ UNCHANGED <<db, archived, call>>
  /\ write' = [write EXCEPT ![p] = write'[p]] /\ write'[p] = [r \in Rows |-> write'[p][r]]
  /\ \A r \in Rows \ rows : write'[p][r] = write[p][r]

\* A write waits for its rows, so it never writes a counted row that another call has written.
LEMMA WriteLocal ==
  ASSUME ArchiveInv, NEW p \in Procs, NEW rows, NEW label, Written(p, rows), Goto(p, label),
         seen' = [seen EXCEPT ![p] = seen'[p]]
  PROVE  LocalStep(p)
<1>1. \A r \in Counted : Locked(p, r)' => Locked(p, r) \/ \A q \in Procs \ {p} : ~Locked(q, r)
  BY RowFacts DEF Written, CanLock, Locked
<1> QED
  BY <1>1 DEF LocalStep, Written, Goto, ArchiveInv, Shapes

\* A statement that writes keeps the call's shape, and what an automatic archive holds, when the
\* statement's values are counts.
LEMMA WriteSound ==
  ASSUME ArchiveInv, NEW p \in Procs, NEW rows, NEW label \in Plain, pc[p] \in Plain \ {"commit"},
         label \in Early => pc[p] \in Early /\ rows \cap Counted = {},
         Written(p, rows), Goto(p, label), \A r \in rows \cap Counted : write'[p][r] \in Int,
         seen' = [seen EXCEPT ![p] = seen'[p]], SeenShape(seen'[p])
  PROVE  Sound(p)
<1>1. pc' = [pc EXCEPT ![p] = label] /\ pc'[p] = label /\ label \in Labels
  BY DEF Goto, ArchiveInv, Shapes, Plain
<1>2. WriteShape(write'[p])
  BY RowFacts DEF Written, WriteShape, ArchiveInv, Shapes, Calling
<1>3. Calling(p)'
  BY <1>1, <1>2 DEF Calling, ArchiveInv, Shapes, Written
<1>4. call[p].kind # "archive"
  BY DEF ArchiveInv, Archiving, Plain
<1>5. label \in Early => Clean(p)'
  BY RowFacts DEF ArchiveInv, Archiving, Clean, Locked, Written
<1>6. Archiving(p)'
  BY <1>1, <1>4, <1>5 DEF Archiving, Plain, Written
<1> QED
  BY <1>3, <1>6, WriteLocal DEF Sound, Written

\* Every statement of a transaction is a sound step of its call.
LEMMA StatementSound ==
  ASSUME ArchiveInv, NEW p \in Procs, Statement(p)
  PROVE  Sound(p)
<1> USE DEF ArchiveInv, Shapes
<1>0. CallShape(call[p]) /\ SeenShape(seen[p]) /\ db[call[p].from] \in Int /\ call[p].n \in Int
  BY RowFacts DEF Calling, CallShape, CallsOn
<1>1. CASE ReadGroup(p)
  <2>1. CASE Abort(p)
    BY <2>1, AbortSound
  <2>2. CASE ~Abort(p)
    <3>1. Goto(p, "stage") /\ pc[p] = "group" /\ UNCHANGED <<db, archived, seen, write>>
      BY <1>1, <2>2 DEF ReadGroup
    <3>2. PICK cards : call' = [call EXCEPT ![p] = [@ EXCEPT !.n = AtMost(call[p].n, db[call[p].from]), !.cards = cards]]
      BY <1>1, <2>2 DEF ReadGroup
    <3>3. CallShape(call'[p]) /\ call'[p].kind = call[p].kind
      BY <3>2, <1>0 DEF CallShape, CallsOn, AtMost
    <3> QED
      BY <1>0, <3>1, <3>2, <3>3, ReadSound DEF Plain, Labels, Early
  <2> QED
    BY <2>1, <2>2
<1>2. CASE ReadStage(p)
  <2>1. Goto(p, "tags") /\ pc[p] = "stage" /\ UNCHANGED <<db, archived, call, write>>
    BY <1>2 DEF ReadStage
  <2>2. seen' = [seen EXCEPT ![p].copies = db[call[p].from]]
    BY <1>2 DEF ReadStage
  <2>3. seen' = [seen EXCEPT ![p] = seen'[p]] /\ SeenShape(seen'[p])
    BY <2>2, <1>0 DEF SeenShape
  <2> QED
    BY <1>0, <2>1, <2>3, ReadSound DEF Plain, Labels, Early
<1>3. CASE ReadTags(p)
  <2>1. CASE Abort(p)
    BY <2>1, AbortSound
  <2>2. CASE ~Abort(p)
    <3>1. pc[p] = "tags" /\ UNCHANGED <<db, archived, call, write>>
          /\ Goto(p, IF call[p].last THEN "total" ELSE "take_tags")
      BY <1>3, <2>2 DEF ReadTags
    <3>2. seen' = [seen EXCEPT ![p] = [@ EXCEPT !.tags = TagsIn(db, call[p].from), !.taken = Taken(p),
                                                !.left = {t \in Tags : Taken(p)[t] > 0}]]
      BY <1>3, <2>2 DEF ReadTags
    <3>3. seen' = [seen EXCEPT ![p] = seen'[p]] /\ SeenShape(seen'[p])
      BY <3>2, <1>0 DEF SeenShape
    <3> QED
      BY <1>0, <3>1, <3>3, ReadSound DEF Plain, Labels, Early
  <2> QED
    BY <2>1, <2>2
<1>4. CASE TakeTags(p)
  <2>1. CASE Abort(p)
    BY <2>1, AbortSound
  <2>2. CASE seen[p].left = {} /\ Goto(p, "take_copies") /\ UNCHANGED <<db, archived, call, seen, write>>
    BY <1>0, <1>4, <2>2, ReadSound DEF TakeTags, Plain, Labels, Early
  <2>3. CASE ~Abort(p) /\ ~(seen[p].left = {} /\ Goto(p, "take_copies") /\ UNCHANGED <<db, archived, call, seen, write>>)
    <3>1. PICK t \in seen[p].left :
            /\ pc[p] = "take_tags" /\ seen' = [seen EXCEPT ![p].left = @ \ {t}]
            /\ Writes(p, {<<t, call[p].from>>}, LAMBDA r : seen[p].tags[t] - seen[p].taken[t], "take_tags")
      BY <1>4, <2>3 DEF TakeTags, NextTag
    <3>2. Written(p, {<<t, call[p].from>>}) /\ Goto(p, "take_tags")
      BY <3>1 DEF Writes, Written
    <3>3. seen' = [seen EXCEPT ![p] = seen'[p]] /\ SeenShape(seen'[p])
      BY <3>1, <1>0 DEF SeenShape
    <3>4. {<<t, call[p].from>>} \cap Counted = {}
      BY <1>0, RowFacts DEF CallShape, CallsOn, SeenShape
    <3> QED
      BY <3>1, <3>2, <3>3, <3>4, WriteSound DEF Plain, Labels, Early
  <2> QED
    BY <2>1, <2>2, <2>3
<1>5. CASE TakeCopies(p)
  <2>1. CASE Abort(p)
    BY <2>1, AbortSound
  <2>2. CASE ~Abort(p)
    <3>1. pc[p] = "take_copies" /\ UNCHANGED seen
          /\ Writes(p, {call[p].from}, LAMBDA r : Latest(p, r) - call[p].n,
                    IF call[p].kind = "delete" THEN "quantity" ELSE "put_copies")
      BY <1>5, <2>2 DEF TakeCopies
    <3>2. Written(p, {call[p].from}) /\ Goto(p, IF call[p].kind = "delete" THEN "quantity" ELSE "put_copies")
      BY <3>1 DEF Writes, Written
    <3>3. write'[p][call[p].from] \in Int
      BY <3>1, <1>0, RowFacts DEF Writes, Latest, Calling, CallShape, CallsOn, WriteShape
    <3> QED
      BY <3>1, <3>2, <3>3, <1>0, WriteSound DEF Plain, Labels, Early
  <2> QED
    BY <2>1, <2>2
<1>6. CASE PutCopies(p)
  <2>1. pc[p] = "put_copies" /\ Writes(p, {call[p].to}, LAMBDA r : Latest(p, r) + call[p].n, "touch")
        /\ seen' = [seen EXCEPT ![p].left = {t \in Tags : seen[p].taken[t] > 0}]
    BY <1>6 DEF PutCopies
  <2>2. Written(p, {call[p].to}) /\ Goto(p, "touch")
    BY <2>1 DEF Writes, Written
  <2>3. write'[p][call[p].to] \in Int
    <3>1. call[p].to \in Counted /\ call[p].to \in Rows
      BY <1>0, RowFacts DEF CallShape, CallsOn
    <3>2. Latest(p, call[p].to) \in Int
      BY <3>1, RowFacts DEF Latest, Calling, WriteShape
    <3>3. write'[p][call[p].to] = Latest(p, call[p].to) + call[p].n
      BY <2>1, <3>1 DEF Writes
    <3> QED
      BY <3>2, <3>3, <1>0
  <2>4. seen' = [seen EXCEPT ![p] = seen'[p]] /\ SeenShape(seen'[p])
    <3>1. seen' = [seen EXCEPT ![p].left = {t \in Tags : seen[p].taken[t] > 0}]
      BY <2>1
    <3> QED
      BY <3>1, <1>0 DEF SeenShape
  <2> QED
    BY <2>1, <2>2, <2>3, <2>4, WriteSound DEF Plain, Labels, Early
<1>7. CASE Touch(p)
  <2>1. pc[p] = "touch" /\ Writes(p, {Whole}, LAMBDA r : Latest(p, r), "put_tags") /\ UNCHANGED seen
    BY <1>7 DEF Touch
  <2>2. Written(p, {Whole}) /\ Goto(p, "put_tags")
    BY <2>1 DEF Writes, Written
  <2>3. write'[p][Whole] \in Int
    BY <2>1, RowFacts DEF Writes, Latest, Calling, WriteShape
  <2> QED
    BY <2>1, <2>2, <2>3, <1>0, WriteSound DEF Plain, Labels, Early
<1>8. CASE PutTags(p)
  <2>1. CASE Abort(p)
    BY <2>1, AbortSound
  <2>2. CASE seen[p].left = {} /\ Goto(p, "commit") /\ UNCHANGED <<db, archived, call, seen, write>>
    BY <1>0, <1>8, <2>2, ReadSound DEF PutTags, Plain, Labels, Early
  <2>3. CASE ~Abort(p) /\ ~(seen[p].left = {} /\ Goto(p, "commit") /\ UNCHANGED <<db, archived, call, seen, write>>)
    <3>1. PICK t \in seen[p].left :
            /\ pc[p] = "put_tags" /\ seen' = [seen EXCEPT ![p].left = @ \ {t}]
            /\ Writes(p, {<<t, call[p].to>>}, LAMBDA r : Latest(p, r) + seen[p].taken[t], "put_tags")
      BY <1>8, <2>3 DEF PutTags, NextTag
    <3>2. Written(p, {<<t, call[p].to>>}) /\ Goto(p, "put_tags")
      BY <3>1 DEF Writes, Written
    <3>3. seen' = [seen EXCEPT ![p] = seen'[p]] /\ SeenShape(seen'[p])
      BY <3>1, <1>0 DEF SeenShape
    <3>4. {<<t, call[p].to>>} \cap Counted = {}
      BY <1>0, RowFacts DEF CallShape, CallsOn, SeenShape
    <3> QED
      BY <3>1, <3>2, <3>3, <3>4, WriteSound DEF Plain, Labels, Early
  <2> QED
    BY <2>1, <2>2, <2>3
<1>9. CASE Quantity(p)
  <2>1. CASE Abort(p)
    BY <2>1, AbortSound
  <2>2. CASE ~Abort(p)
    <3>1. pc[p] = "quantity" /\ UNCHANGED seen /\ Writes(p, {Whole}, LAMBDA r : QuantityLeft(p), "commit")
      BY <1>9, <2>2 DEF Quantity
    <3>2. Written(p, {Whole}) /\ Goto(p, "commit")
      BY <3>1 DEF Writes, Written
    <3>3. write'[p][Whole] \in Int
      BY <3>1, <1>0, RowFacts DEF Writes, QuantityLeft, Latest, Calling, WriteShape
    <3> QED
      BY <3>1, <3>2, <3>3, <1>0, WriteSound DEF Plain, Labels, Early
  <2> QED
    BY <2>1, <2>2
<1>10. CASE Total(p)
  <2>1. CASE Abort(p)
    BY <2>1, AbortSound
  <2>2. CASE ~Abort(p)
    <3>1. pc[p] = "total" /\ Goto(p, "erase") /\ UNCHANGED <<db, archived, call, seen, write>>
      BY <1>10, <2>2 DEF Total
    <3> QED
      BY <3>1, <1>0, ReadSound DEF Plain, Labels, Early
  <2> QED
    BY <2>1, <2>2
<1>11. CASE Erase(p)
  <2>1. pc[p] = "erase" /\ UNCHANGED seen /\ Writes(p, Rows \ Tags, LAMBDA r : 0, "commit")
    BY <1>11 DEF Erase
  <2>2. Written(p, Rows \ Tags) /\ Goto(p, "commit")
    BY <2>1 DEF Writes, Written
  <2>3. \A r \in Counted : write'[p][r] \in Int
    BY <2>1, RowFacts DEF Writes
  <2> QED
    BY <2>1, <2>2, <2>3, <1>0, WriteSound DEF Plain, Labels, Early
<1>12. CASE Available(p)
  <2>1. CASE Abort(p)
    BY <2>1, AbortSound
  <2>2. CASE ~Abort(p)
    <3>1. pc[p] = "available" /\ Goto(p, "assign") /\ UNCHANGED <<db, archived, call, write>>
      BY <1>12, <2>2 DEF Available
    <3>2. seen' = [seen EXCEPT ![p].copies = db[call[p].from]]
      BY <1>12, <2>2 DEF Available
    <3>3. seen' = [seen EXCEPT ![p] = seen'[p]] /\ SeenShape(seen'[p])
      BY <3>2, <1>0 DEF SeenShape
    <3> QED
      BY <3>1, <3>3, <1>0, ReadSound DEF Plain, Labels, Early
  <2> QED
    BY <2>1, <2>2
<1>13. CASE Assign(p)
  <2>1. CASE Abort(p)
    BY <2>1, AbortSound
  <2>2. CASE ~Abort(p)
    <3> DEFINE counts(r) == IF call[p].kind = "untag" THEN IF Latest(p, r) <= call[p].n THEN 0 ELSE Latest(p, r) - call[p].n
                            ELSE Assigned(call[p].n, Latest(p, r), seen[p].copies)
    <3>1. PICK t \in call[p].tags :
            /\ pc[p] = "assign" /\ UNCHANGED seen
            /\ Writes(p, {r \in {<<t, call[p].from>>} : call[p].kind = "untag" => Latest(p, r) > 0},
                      LAMBDA r : counts(r), "commit")
      BY <1>13, <2>2 DEF Assign
    <3> DEFINE rows == {r \in {<<t, call[p].from>>} : call[p].kind = "untag" => Latest(p, r) > 0}
    <3>2. Written(p, rows) /\ Goto(p, "commit")
      BY <3>1 DEF Writes, Written
    <3>3. rows \cap Counted = {}
      BY <1>0, RowFacts DEF CallShape, CallsOn
    <3> HIDE DEF rows
    <3> QED
      BY <3>1, <3>2, <3>3, <1>0, WriteSound DEF Plain, Labels, Early
  <2> QED
    BY <2>1, <2>2
<1>14. CASE Insert(p)
  <2>1. CASE Abort(p)
    BY <2>1, AbortSound
  <2>2. CASE ~Abort(p)
    <3>1. PICK t \in call[p].tags :
            /\ pc[p] = "insert" /\ UNCHANGED seen
            /\ Writes(p, {t, <<t, call[p].from>>}, LAMBDA r : IF r = t THEN 1 ELSE call[p].n, "commit")
      BY <1>14, <2>2 DEF Insert
    <3>2. Written(p, {t, <<t, call[p].from>>}) /\ Goto(p, "commit")
      BY <3>1 DEF Writes, Written
    <3>3. {t, <<t, call[p].from>>} \cap Counted = {}
      BY <1>0, RowFacts DEF CallShape, CallsOn
    <3> QED
      BY <3>1, <3>2, <3>3, <1>0, WriteSound DEF Plain, Labels, Early
  <2> QED
    BY <2>1, <2>2
<1>15. CASE Drop(p)
  <2>1. PICK t \in call[p].tags :
          /\ pc[p] = "drop" /\ UNCHANGED seen
          /\ Writes(p, {t} \cup ({t} \X Stages), LAMBDA r : IF r \in Tags THEN 2 ELSE 0, "commit")
    BY <1>15 DEF Drop
  <2>2. Written(p, {t} \cup ({t} \X Stages)) /\ Goto(p, "commit")
    BY <2>1 DEF Writes, Written
  <2>3. ({t} \cup ({t} \X Stages)) \cap Counted = {}
    BY <1>0, RowFacts DEF CallShape, CallsOn
  <2> QED
    BY <2>1, <2>2, <2>3, <1>0, WriteSound DEF Plain, Labels, Early
<1>16. CASE Read(p)
  <2>1. CASE Abort(p)
    BY <2>1, AbortSound
  <2>2. CASE ~Abort(p)
    <3>1. pc[p] = "read" /\ Goto(p, IF call[p].n = 0 THEN "whole" ELSE "clamp") /\ UNCHANGED <<db, archived, call, write>>
      BY <1>16, <2>2 DEF Read
    <3> DEFINE copies == IF call[p].n = 0 THEN 0 ELSE call[p].n - Started
    <3> DEFINE total == IF call[p].n = 0 THEN db[Whole] ELSE call[p].n
    <3>2. seen' = [seen EXCEPT ![p] = [@ EXCEPT !.copies = copies, !.total = total]]
      BY <1>16, <2>2 DEF Read
    <3>3. copies \in Int /\ total \in Int
      <4>1. {UpNext, InProgress, PostProcessing, Done, Whole} \subseteq Counted
        BY RowFacts, StagesDiffer
      <4>2. Started \in Int /\ db[Whole] \in Int
        BY <4>1 DEF Started
      <4> QED
        BY <4>2, <1>0
    <3> HIDE DEF copies, total
    <3>4. seen' = [seen EXCEPT ![p] = seen'[p]] /\ SeenShape(seen'[p])
      BY <3>2, <3>3, <1>0 DEF SeenShape
    <3> QED
      BY <3>1, <3>4, <1>0, ReadSound DEF Plain, Labels, Early
  <2> QED
    BY <2>1, <2>2
<1>17. CASE Clamp(p)
  <2> DEFINE rows == {r \in Tags \X {Todo} : Latest(p, r) > 0}
  <2>1. pc[p] = "clamp" /\ UNCHANGED seen
        /\ Writes(p, rows, LAMBDA r : Clamped(Latest(p, r), seen[p].copies), "backlog")
    BY <1>17 DEF Clamp
  <2>2. Written(p, rows) /\ Goto(p, "backlog")
    BY <2>1 DEF Writes, Written
  <2>3. rows \cap Counted = {}
    BY RowFacts, StagesDiffer
  <2> HIDE DEF rows
  <2> QED
    BY <2>1, <2>2, <2>3, <1>0, WriteSound DEF Plain, Labels, Early
<1>18. CASE Backlog(p)
  <2>1. CASE Abort(p)
    BY <2>1, AbortSound
  <2>2. CASE ~Abort(p)
    <3>1. pc[p] = "backlog" /\ UNCHANGED seen /\ Writes(p, {Todo}, LAMBDA r : seen[p].copies, "whole")
      BY <1>18, <2>2 DEF Backlog
    <3>2. Written(p, {Todo}) /\ Goto(p, "whole")
      BY <3>1 DEF Writes, Written
    <3>3. write'[p][Todo] \in Int
      BY <3>1, <1>0, RowFacts, StagesDiffer DEF Writes, SeenShape
    <3> QED
      BY <3>1, <3>2, <3>3, <1>0, WriteSound DEF Plain, Labels, Early
  <2> QED
    BY <2>1, <2>2
<1>19. CASE WriteWhole(p)
  <2>1. CASE Abort(p)
    BY <2>1, AbortSound
  <2>2. CASE ~Abort(p)
    <3>1. pc[p] = "whole" /\ UNCHANGED seen /\ Writes(p, {Whole}, LAMBDA r : seen[p].total, "commit")
      BY <1>19, <2>2 DEF WriteWhole
    <3>2. Written(p, {Whole}) /\ Goto(p, "commit")
      BY <3>1 DEF Writes, Written
    <3>3. write'[p][Whole] \in Int
      BY <3>1, <1>0, RowFacts DEF Writes, SeenShape
    <3> QED
      BY <3>1, <3>2, <3>3, <1>0, WriteSound DEF Plain, Labels, Early
  <2> QED
    BY <2>1, <2>2
<1>20. CASE LockStages(p)
  <2>1. pc[p] = "lock_stages" /\ UNCHANGED seen /\ Writes(p, Stages, LAMBDA r : Latest(p, r), "lock_print")
    <3>1. LockedRows \cap Stages = Stages
      BY DEF LockedRows
    <3> QED
      BY <1>20, <3>1 DEF LockStages
  <2>2. Written(p, Stages) /\ Goto(p, "lock_print") /\ pc'[p] = "lock_print"
    BY <2>1 DEF Writes, Written, Goto
  <2>3. \A s \in Stages : write'[p][s] = db[s]
    BY <2>1, RowFacts DEF Writes, Latest, Archiving, Clean, Locked, Early
  <2>4. ~Locked(p, Whole)'
    BY <2>1, <2>2, RowFacts DEF Written, Archiving, Clean, Locked, Early
  <2>5. WriteShape(write'[p])
    BY <2>2, <2>3, RowFacts DEF Written, WriteShape, Calling
  <2>6. Calling(p)'
    BY <2>2, <2>5, <2>1 DEF Calling, Written, Labels
  <2>7. Archiving(p)'
    BY <2>1, <2>2, <2>3, <2>4 DEF Archiving, AsCommitted, Early, Written
  <2> QED
    BY <2>1, <2>2, <2>6, <2>7, WriteLocal DEF Sound, Written
<1>21. CASE LockPrint(p)
  <2>1. pc[p] = "lock_print" /\ UNCHANGED seen /\ Writes(p, {Whole}, LAMBDA r : Latest(p, r), "recheck")
    <3>1. LockedRows \cap {Whole} = {Whole}
      BY DEF LockedRows
    <3> QED
      BY <1>21, <3>1 DEF LockPrint
  <2>2. Written(p, {Whole}) /\ Goto(p, "recheck") /\ pc'[p] = "recheck"
    BY <2>1 DEF Writes, Written, Goto
  <2>3. \A r \in Counted : write'[p][r] = db[r]
    BY <2>1, <2>2, RowFacts DEF Writes, Written, Latest, Archiving, AsCommitted, Locked, Counted
  <2>4. WriteShape(write'[p])
    BY <2>2, <2>3, RowFacts DEF Written, WriteShape, Calling
  <2>5. Calling(p)'
    BY <2>2, <2>4, <2>1 DEF Calling, Written, Labels
  <2>6. Archiving(p)'
    BY <2>1, <2>2, <2>3 DEF Archiving, AsCommitted, Early, Written
  <2> QED
    BY <2>1, <2>2, <2>5, <2>6, WriteLocal DEF Sound, Written
<1>22. CASE Recheck(p)
  <2>1. CASE Abort(p)
    BY <2>1, AbortSound
  <2>2. CASE ~Abort(p)
    <3>1. pc[p] = "recheck" /\ Goto(p, "commit") /\ UNCHANGED <<db, archived, call, seen, write>> /\ AllReady
      BY <1>22, <2>2 DEF Recheck
    <3>2. pc' = [pc EXCEPT ![p] = "commit"] /\ pc'[p] = "commit"
      BY <3>1 DEF Goto
    <3>3. Calling(p)'
      BY <3>1, <3>2 DEF Calling, Labels
    <3>4. Archiving(p)'
      BY <3>1, <3>2 DEF Archiving, AsCommitted, Early, AllReady
    <3>5. LocalStep(p)
      BY <3>1, <3>2 DEF LocalStep, Locked
    <3> QED
      BY <3>1, <3>3, <3>4, <3>5 DEF Sound
  <2> QED
    BY <2>1, <2>2
<1> QED
  BY <1>1, <1>2, <1>3, <1>4, <1>5, <1>6, <1>7, <1>8, <1>9, <1>10, <1>11, <1>12, <1>13, <1>14, <1>15,
     <1>16, <1>17, <1>18, <1>19, <1>20, <1>21, <1>22 DEF Statement

\* A call that starts holds no lock and has read nothing.
LEMMA AskSound ==
  ASSUME ArchiveInv, NEW p \in Procs, NEW asked, Ask(p, asked), CallShape(asked)
  PROVE  Sound(p)
<1> USE DEF ArchiveInv, Shapes
<1>1. pc[p] = "idle" /\ pc' = [pc EXCEPT ![p] = "begin"] /\ call' = [call EXCEPT ![p] = asked]
      /\ UNCHANGED <<db, archived, seen, write>>
  BY DEF Ask, Goto
<1>2. Calling(p)'
  BY <1>1 DEF Calling, Labels
<1>3. Archiving(p)'
  BY <1>1 DEF Archiving, Clean, Locked, Early
<1>4. LocalStep(p)
  BY <1>1 DEF LocalStep, Locked
<1> QED
  BY <1>1, <1>2, <1>3, <1>4 DEF Sound

\* What a call asks for is NoCall with some of its fields replaced.
LEMMA NoCallShape ==
  ASSUME NEW cards
  PROVE  NoCall \in CallsOn({{}, cards})
BY StagesDiffer DEF NoCall, CallsOn, Kinds

(* A call that is asked for has the shape of one. *)
LEMMA AskedShape ==
  ASSUME NEW cards, NEW asked \in CallsOn(cards)
  PROVE  CallShape(asked)
BY DEF CallShape, CallsOn

\* Every kind of call starts soundly.
LEMMA AsksSound ==
  ASSUME ArchiveInv, NEW p \in Procs, Asks(p)
  PROVE  Sound(p)
<1>0. Used \subseteq Stages /\ MaxCopies \in Nat /\ \A s \in Used : \A n \in 1..db[s] : n \in Int
  BY BoardAssumption, RowFacts DEF BoardAssumption, ArchiveInv, Shapes
<1>1. CASE AskMove(p)
  <2>1. PICK from, to \in Used : \E n \in 1..db[from] : \E cards \in {AnyCard} \cup {{[count |-> n, tags |-> tags]} : tags \in SUBSET Tags} :
          Ask(p, [NoCall EXCEPT !.kind = "move", !.from = from, !.to = to, !.n = n, !.cards = cards])
    BY <1>1 DEF AskMove
  <2>2. PICK n \in 1..db[from] : \E cards :
          Ask(p, [NoCall EXCEPT !.kind = "move", !.from = from, !.to = to, !.n = n, !.cards = cards])
    BY <2>1
  <2>3. PICK cards : Ask(p, [NoCall EXCEPT !.kind = "move", !.from = from, !.to = to, !.n = n, !.cards = cards])
    BY <2>2
  <2>4. n \in Int /\ from \in Stages /\ to \in Stages
    BY <1>0
  <2>5. [NoCall EXCEPT !.kind = "move", !.from = from, !.to = to, !.n = n, !.cards = cards] \in CallsOn({{}, cards})
    BY <2>4, NoCallShape DEF CallsOn, Kinds
  <2> QED
    BY <2>3, <2>5, AskedShape, AskSound
<1>2. CASE AskMoveGroup(p)
  <2>1. PICK from, to \in Used, t \in Tags :
          /\ db[<<t, from>>] \in 1..db[from]
          /\ Ask(p, [NoCall EXCEPT !.kind = "move_group", !.from = from, !.to = to, !.n = db[<<t, from>>], !.tags = {t}])
    BY <1>2 DEF AskMoveGroup
  <2>2. db[<<t, from>>] \in Int /\ from \in Stages /\ to \in Stages
    BY <2>1, <1>0
  <2>3. [NoCall EXCEPT !.kind = "move_group", !.from = from, !.to = to, !.n = db[<<t, from>>], !.tags = {t}]
          \in CallsOn({{}, {}})
    BY <2>2, NoCallShape DEF CallsOn, Kinds
  <2> QED
    BY <2>1, <2>3, AskedShape, AskSound
<1>3. CASE AskDelete(p)
  <2>1. PICK from \in Used, tags \in SUBSET Tags : \E n \in 1..db[from] :
          Ask(p, [NoCall EXCEPT !.kind = "delete", !.from = from, !.n = n, !.cards = {[count |-> n, tags |-> tags]},
                                !.last = (n = db[Whole])])
    BY <1>3 DEF AskDelete
  <2>2. PICK n \in 1..db[from] :
          Ask(p, [NoCall EXCEPT !.kind = "delete", !.from = from, !.n = n, !.cards = {[count |-> n, tags |-> tags]},
                                !.last = (n = db[Whole])])
    BY <2>1
  <2> DEFINE cards == {[count |-> n, tags |-> tags]}
  <2> DEFINE last == n = db[Whole]
  <2>3. Ask(p, [NoCall EXCEPT !.kind = "delete", !.from = from, !.n = n, !.cards = cards, !.last = last])
    BY <2>2
  <2>4. last \in BOOLEAN /\ n \in Int /\ from \in Stages
    BY <1>0
  <2> HIDE DEF cards, last
  <2>5. [NoCall EXCEPT !.kind = "delete", !.from = from, !.n = n, !.cards = cards, !.last = last] \in CallsOn({{}, cards})
    BY <2>4, NoCallShape DEF CallsOn, Kinds
  <2> QED
    BY <2>3, <2>5, AskedShape, AskSound
<1>4. CASE AskTag(p)
  <2>1. PICK kind \in {"tag", "untag", "create_group"}, from \in Used, t \in Tags : \E n \in 1..db[from] :
          Ask(p, [NoCall EXCEPT !.kind = kind, !.from = from, !.n = n, !.tags = {t}])
    BY <1>4 DEF AskTag
  <2>2. PICK n \in 1..db[from] : Ask(p, [NoCall EXCEPT !.kind = kind, !.from = from, !.n = n, !.tags = {t}])
    BY <2>1
  <2>3. n \in Int /\ from \in Stages /\ kind \in Kinds
    BY <1>0 DEF Kinds
  <2>4. [NoCall EXCEPT !.kind = kind, !.from = from, !.n = n, !.tags = {t}] \in CallsOn({{}, {}})
    BY <2>3, NoCallShape DEF CallsOn
  <2> QED
    BY <2>2, <2>4, AskedShape, AskSound
<1>5. CASE AskDeleteGroup(p)
  <2>1. PICK t \in Tags : Ask(p, [NoCall EXCEPT !.kind = "delete_group", !.tags = {t}])
    BY <1>5 DEF AskDeleteGroup
  <2>2. [NoCall EXCEPT !.kind = "delete_group", !.tags = {t}] \in CallsOn({{}, {}})
    BY <1>0, NoCallShape DEF CallsOn, Kinds
  <2> QED
    BY <2>1, <2>2, AskedShape, AskSound
<1>6. CASE AskEdit(p)
  <2>1. PICK n \in 0..MaxCopies : Ask(p, [NoCall EXCEPT !.kind = "edit", !.n = n])
    BY <1>6 DEF AskEdit
  <2>2. n \in Int
    BY <1>0
  <2>3. [NoCall EXCEPT !.kind = "edit", !.n = n] \in CallsOn({{}, {}})
    BY <2>2, NoCallShape DEF CallsOn, Kinds
  <2> QED
    BY <2>1, <2>3, AskedShape, AskSound
<1>7. CASE AskArchive(p)
  <2>1. Ask(p, [NoCall EXCEPT !.kind = "archive"])
    BY <1>7 DEF AskArchive
  <2>2. [NoCall EXCEPT !.kind = "archive"] \in CallsOn({{}, {}})
    BY <1>0, NoCallShape DEF CallsOn, Kinds
  <2> QED
    BY <2>1, <2>2, AskedShape, AskSound
<1> QED
  BY <1>1, <1>2, <1>3, <1>4, <1>5, <1>6, <1>7 DEF Asks

\* A transaction that opens holds no lock yet.
LEMMA BeginSound ==
  ASSUME ArchiveInv, NEW p \in Procs, Begin(p)
  PROVE  Sound(p)
<1> USE DEF ArchiveInv, Shapes
<1> DEFINE label == FirstStatement(call[p].kind)
<1>1. pc[p] = "begin" /\ pc' = [pc EXCEPT ![p] = label] /\ UNCHANGED <<db, archived, call, seen, write>>
  BY DEF Begin, Goto
<1>2. label \in Early \cap Labels /\ label \notin {"idle", "begin"}
      /\ (call[p].kind = "archive" => label = "lock_stages")
  BY DEF FirstStatement, Early, Labels
<1>3. Early \cap {"lock_print", "recheck", "commit"} = {}
  BY DEF Early
<1> HIDE DEF label
<1>4. Calling(p)'
  BY <1>1, <1>2 DEF Calling
<1>5. Clean(p)'
  BY <1>1 DEF Archiving, Clean, Locked, Early
<1>6. Archiving(p)'
  BY <1>1, <1>2, <1>3, <1>5 DEF Archiving
<1>7. LocalStep(p)
  BY <1>1 DEF LocalStep, Locked
<1> QED
  BY <1>1, <1>4, <1>6, <1>7 DEF Sound

\* A step of one call keeps what it keeps for that call.
LEMMA SoundKeeps ==
  ASSUME ArchiveInv, NEW p \in Procs, Sound(p)
  PROVE  ArchiveInv'
<1>0. Shapes /\ Exclusive /\ LocalStep(p) /\ archived' = archived /\ Calling(p)' /\ Archiving(p)' /\ db' = db
  BY DEF ArchiveInv, Sound, LocalStep
<1>1. \A q \in Procs \ {p} : pc'[q] = pc[q] /\ call'[q] = call[q] /\ seen'[q] = seen[q] /\ write'[q] = write[q]
  BY <1>0 DEF LocalStep, Shapes
<1>2. ASSUME NEW q \in Procs \ {p} PROVE Calling(q)'
  BY <1>0, <1>1 DEF Shapes, Calling
<1>3. ASSUME NEW q \in Procs \ {p} PROVE Archiving(q)'
  <2>1. Archiving(q) /\ pc'[q] = pc[q] /\ call'[q] = call[q] /\ write'[q] = write[q]
    BY <1>1 DEF ArchiveInv
  <2>2. AllReady => AllReady'
    BY <1>0 DEF AllReady
  <2> QED
    BY <1>0, <2>1, <2>2 DEF Archiving, Clean, Locked, AsCommitted
<1>4. Exclusive'
  BY <1>0, <1>1 DEF LocalStep, Exclusive, Locked
<1>5. Shapes'
  BY <1>0, <1>2 DEF Shapes, LocalStep
<1> QED
  BY <1>0, <1>3, <1>4, <1>5 DEF ArchiveInv

\* A commit leaves what other calls hold true: they hold none of the rows it changes.
LEMMA CommitKeeps ==
  ASSUME ArchiveInv, NEW p \in Procs, Commit(p)
  PROVE  ArchiveInv'
<1> USE DEF ArchiveInv, Shapes
<1>1. db' = [r \in Rows |-> Latest(p, r)] /\ archived' = (archived \/ call[p].kind = "archive")
      /\ pc' = [pc EXCEPT ![p] = "idle"] /\ call' = [call EXCEPT ![p] = NoCall]
      /\ seen' = [seen EXCEPT ![p] = Nothing] /\ write' = [write EXCEPT ![p] = Blank]
  BY DEF Commit, End, Goto
<1>2. \A r \in Counted : db'[r] \in Int /\ (\A q \in Procs \ {p} : Locked(q, r) => db'[r] = db[r])
  <2> TAKE r \in Counted
  <2>1. db'[r] = Latest(p, r)
    BY <1>1, RowFacts
  <2>2. Latest(p, r) \in Int
    BY RowFacts DEF Latest, Calling, WriteShape
  <2>3. \A q \in Procs \ {p} : Locked(q, r) => ~Locked(p, r)
    BY DEF Exclusive
  <2> QED
    BY <2>1, <2>2, <2>3 DEF Latest, Locked
<1>3. \A q \in Procs \ {p} : pc'[q] = pc[q] /\ call'[q] = call[q] /\ seen'[q] = seen[q] /\ write'[q] = write[q]
  BY <1>1
<1>4. \A q \in Procs \ {p} : Calling(q)'
  BY <1>3 DEF Calling
<1>5. \A q \in Procs \ {p} : Archiving(q)'
  <2> TAKE q \in Procs \ {p}
  <2>1. \A r \in Counted : AsCommitted(q, r) => AsCommitted(q, r)' /\ db'[r] = db[r]
    BY ZenonT(40), <1>2, <1>3, RowFacts DEF AsCommitted, Locked
  <2>2. AllReady /\ (\A r \in Counted : AsCommitted(q, r)) => AllReady'
    BY <2>1, RowFacts, StagesDiffer DEF AllReady
  <2> QED
    BY <1>3, <2>1, <2>2, RowFacts DEF Archiving, Clean, Locked
<1>6. \A r \in Counted : write'[p][r] = Unwritten
  BY <1>1, RowFacts DEF Blank
<1>7. Calling(p)'
  BY <1>1, IdleShape DEF Calling
<1>8. Archiving(p)'
  BY <1>1, <1>6 DEF Archiving, Clean, Locked, NoCall
<1>9. Exclusive'
  BY <1>3, <1>6 DEF Exclusive, Locked
<1>10. Shapes'
  <2>1. archived' \in BOOLEAN
    BY <1>1
  <2> QED
    BY <1>1, <1>2, <1>4, <1>7, <2>1
<1> QED
  BY <1>5, <1>8, <1>9, <1>10

\* Taking a print out of the archive changes no count.
LEMMA UnarchiveKeeps ==
  ASSUME ArchiveInv, Unarchive
  PROVE  ArchiveInv'
BY DEF Unarchive, ArchiveInv, Shapes, Exclusive, Locked, Archiving, Calling, Clean, AsCommitted, AllReady

\* The board starts in the invariant of automatic archives.
LEMMA InitArchiveInv == Init => ArchiveInv
<1> SUFFICES ASSUME Init PROVE ArchiveInv
  OBVIOUS
<1>1. \A p \in Procs : pc[p] = "idle" /\ call[p] = NoCall /\ seen[p] = Nothing /\ write[p] = Blank
  BY DEF Init
<1>2. \A p \in Procs, r \in Counted : write[p][r] = Unwritten
  BY <1>1, RowFacts DEF Blank
<1>3. \A p \in Procs : Calling(p)
  BY <1>1, IdleShape DEF Calling
<1>4. \A p \in Procs : Archiving(p)
  BY <1>1, <1>2 DEF Archiving, Clean, Locked, NoCall
<1>5. \A r \in Counted : db[r] \in Int
  <2>1. \A r \in Counted : r \in Rows /\ r \notin Items /\ r \notin Tags
    BY RowFacts
  <2>2. Copies \in Int
    BY BoardAssumption DEF BoardAssumption
  <2> QED
    BY <2>1, <2>2 DEF Init
<1>6. Exclusive
  BY <1>2 DEF Exclusive, Locked
<1> QED
  BY <1>3, <1>4, <1>5, <1>6 DEF Init, ArchiveInv, Shapes

\* Every step of every call keeps the invariant of automatic archives.
LEMMA ArchiveInvStep == ArchiveInv /\ [Next]_vars => ArchiveInv'
<1> SUFFICES ASSUME ArchiveInv, [Next]_vars PROVE ArchiveInv'
  OBVIOUS
<1>1. CASE UNCHANGED vars
  BY <1>1 DEF vars, ArchiveInv, Shapes, Exclusive, Locked, Archiving, Calling, Clean, AsCommitted, AllReady
<1>2. CASE Unarchive
  BY <1>2, UnarchiveKeeps
<1>3. ASSUME NEW p \in Procs, Asks(p) \/ Begin(p) \/ Statement(p) \/ Rollback(p) PROVE ArchiveInv'
  BY <1>3, AsksSound, BeginSound, StatementSound, AbortSound, SoundKeeps DEF Rollback
<1>4. ASSUME NEW p \in Procs, Commit(p) PROVE ArchiveInv'
  BY <1>4, CommitKeeps
<1> QED
  BY <1>1, <1>2, <1>3, <1>4 DEF Next

\* What archiveRequestsStillDue has locked and rechecked is still so when it commits.
THEOREM ArchiveInvariant == Spec => []ArchiveInv
<1> QED
  BY InitArchiveInv, ArchiveInvStep, PTL DEF Spec

\* A print that is archived by itself has every copy in the last stage at that moment, whatever
\* moves, edits, deletes and tag changes overlap with the archive on either database.
THEOREM OnlyReadyArchived == Spec => ArchivesReady
<1>1. ArchiveInv /\ [Next]_vars => (~archived /\ archived' => AllReady')
  <2> SUFFICES ASSUME ArchiveInv, [Next]_vars, ~archived, archived' PROVE AllReady'
    OBVIOUS
  <2>1. ~UNCHANGED vars /\ ~Unarchive
    BY DEF vars, Unarchive
  <2>2. ~(\E p \in Procs : Asks(p) \/ Begin(p) \/ Statement(p) \/ Rollback(p))
    BY AsksSound, BeginSound, StatementSound, AbortSound DEF Rollback, Sound
  <2>3. PICK p \in Procs : Commit(p)
    BY <2>1, <2>2 DEF Next
  <2>4. call[p].kind = "archive" /\ pc[p] = "commit" /\ db' = [r \in Rows |-> Latest(p, r)]
    BY <2>3 DEF Commit
  <2>5. AllReady /\ \A r \in Counted : write[p][r] = db[r]
    BY <2>4 DEF ArchiveInv, Archiving, AsCommitted
  <2>6. \A r \in Counted : db'[r] = db[r]
    BY <2>4, <2>5, RowFacts DEF Latest
  <2> QED
    BY <2>5, <2>6, RowFacts, StagesDiffer DEF AllReady
<1>2. ArchiveInv /\ [Next]_vars => [~archived /\ archived' => AllReady']_vars
  BY <1>1
<1> QED
  BY <1>2, ArchiveInvariant, PTL DEF Spec, ArchivesReady

-----------------------------------------------------------------------------
(* The copies.  An edit of the quantity is let in on SQLite only: on       *)
(* PostgreSQL it writes from what it read before others committed.         *)

\* The change that a call has written to a counted row is an integer.
LEMMA ChangeInt ==
  ASSUME Shapes, NEW p \in Procs
  PROVE  /\ \A r \in Counted : db[r] \in Int /\ Change(p, r) \in Int /\ (Locked(p, r) => write[p][r] \in Int)
         /\ Ahead(p) \in Int
         /\ {Todo, UpNext, InProgress, PostProcessing, Done, Whole} = Counted
<1>1. \A r \in Counted : db[r] \in Int /\ Change(p, r) \in Int /\ (Locked(p, r) => write[p][r] \in Int)
  <2> TAKE r \in Counted
  <2>1. db[r] \in Int /\ write[p][r] \in Int \cup {Unwritten}
    BY DEF Shapes, Calling, WriteShape
  <2> QED
    BY <2>1 DEF Change, Locked
<1>2. {Todo, UpNext, InProgress, PostProcessing, Done, Whole} = Counted
  BY StagesDiffer DEF Counted
<1> QED
  BY <1>1, <1>2 DEF Ahead

\* A call that has written no counted row is even.
LEMMA CleanAhead ==
  ASSUME Shapes, NEW p \in Procs, Clean(p)
  PROVE  Ahead(p) = 0
<1>1. \A r \in Counted : Change(p, r) = 0
  BY DEF Clean, Change
<1> QED
  BY <1>1, ChangeInt DEF Ahead

\* A statement that writes no counted row leaves the call as far ahead as it was.
LEMMA NoneWritten ==
  ASSUME Shapes, NEW p \in Procs, db' = db, \A r \in Counted : write'[p][r] = write[p][r]
  PROVE  Ahead(p)' = Ahead(p) /\ \A r \in Counted : Locked(p, r)' = Locked(p, r)
<1>1. \A r \in Counted : Change(p, r)' = Change(p, r)
  BY DEF Change, Locked
<1> QED
  BY <1>1, ChangeInt DEF Ahead, Locked

\* One more stage written.
LEMMA StageWritten ==
  ASSUME Shapes, NEW p \in Procs, NEW s \in Stages, ~Locked(p, s), Written(p, {s}), write'[p][s] \in Int
  PROVE  /\ Ahead(p)' = Ahead(p) + (write'[p][s] - db[s])
         /\ \A r \in Counted \ {s} : Locked(p, r)' = Locked(p, r)
<1>1. \A r \in Counted \ {s} : Change(p, r)' = Change(p, r) /\ Locked(p, r)' = Locked(p, r)
  BY RowFacts DEF Written, Change, Locked
<1>2. Change(p, s) = 0 /\ Change(p, s)' = write'[p][s] - db[s]
  BY RowFacts DEF Written, Change, Locked
<1>3. s \in {Todo, UpNext, InProgress, PostProcessing, Done} /\ s # Whole /\ db[s] \in Int
  BY RowFacts, ChangeInt, StagesDiffer
<1> QED
  BY <1>1, <1>2, <1>3, ChangeInt, StagesDiffer, RowFacts DEF Ahead

\* The print's row written.
LEMMA WholeWritten ==
  ASSUME Shapes, NEW p \in Procs, ~Locked(p, Whole), Written(p, {Whole}), write'[p][Whole] \in Int
  PROVE  Ahead(p)' = Ahead(p) - (write'[p][Whole] - db[Whole])
<1>1. \A s \in Stages : Change(p, s)' = Change(p, s)
  BY RowFacts DEF Written, Change, Locked
<1>2. Change(p, Whole) = 0 /\ Change(p, Whole)' = write'[p][Whole] - db[Whole]
  BY RowFacts DEF Written, Change, Locked
<1> QED
  BY <1>1, <1>2, ChangeInt, StagesDiffer, RowFacts DEF Ahead

\* A call that ends without a commit is even.
LEMMA AbortBalanced ==
  ASSUME Shapes, NEW p \in Procs, Abort(p)
  PROVE  Balanced(p)' /\ ~Open(p)'
<1>1. pc'[p] = "idle" /\ call'[p] = NoCall
  BY DEF Abort, End, Goto, Shapes
<1> QED
  BY <1>1 DEF Balanced, Open, NoCall, Editing

\* Every statement keeps the books of its call: how far its writes leave the stages ahead of the print.
LEMMA StatementBalanced ==
  ASSUME BalanceInv, NEW p \in Procs, Statement(p)
  PROVE  Balanced(p)' /\ Open(p)
<1>0. /\ Shapes /\ Conserved /\ Balanced(p) /\ Archiving(p) /\ Calling(p) /\ CallShape(call[p]) /\ call[p].n \in Int
      /\ call[p].from \in Stages /\ call[p].to \in Stages /\ db[call[p].from] \in Int
      /\ seen[p].copies \in Int /\ seen[p].total \in Int
  <2>1. Calling(p)
    BY DEF BalanceInv, ArchiveInv, Shapes
  <2> QED
    BY <2>1, RowFacts DEF BalanceInv, ArchiveInv, Shapes, Calling, CallShape, CallsOn, SeenShape
<1>1. CASE ReadGroup(p)
  <2>1. CASE Abort(p)
    BY <1>0, <1>1, <2>1, AbortBalanced DEF ReadGroup, Open
  <2>2. CASE ~Abort(p)
    <3>1. pc[p] = "group" /\ pc'[p] = "stage"
      BY <1>0, <1>1, <2>2 DEF ReadGroup, Goto, Shapes
    <3>2. PICK cards : call' = [call EXCEPT ![p] = [@ EXCEPT !.n = AtMost(call[p].n, db[call[p].from]), !.cards = cards]]
      BY <1>1, <2>2 DEF ReadGroup
    <3>3. call'[p].kind = call[p].kind /\ call'[p].from = call[p].from /\ call'[p].to = call[p].to
      BY <1>0, <3>2 DEF Shapes, CallShape, CallsOn
    <3> QED
      BY <1>0, <3>1, <3>3 DEF Balanced, Editing, Open
  <2> QED
    BY <2>1, <2>2
<1>2. CASE ReadStage(p)
  <2>1. pc[p] = "stage" /\ pc'[p] = "tags" /\ call' = call
    BY <1>0, <1>2 DEF ReadStage, Goto, Shapes
  <2> QED
    BY <1>0, <2>1 DEF Balanced, Editing, Open
<1>3. CASE ReadTags(p)
  <2>1. CASE Abort(p)
    BY <1>0, <1>3, <2>1, AbortBalanced DEF ReadTags, Open
  <2>2. CASE ~Abort(p)
    <3>1. pc[p] = "tags" /\ pc'[p] \in {"total", "take_tags"} /\ call' = call
      BY <1>0, <1>3, <2>2 DEF ReadTags, Goto, Shapes
    <3> QED
      BY <1>0, <3>1 DEF Balanced, Editing, Open
  <2> QED
    BY <2>1, <2>2
<1>4. CASE TakeTags(p)
  <2>1. CASE Abort(p)
    BY <1>0, <1>4, <2>1, AbortBalanced DEF TakeTags, Open
  <2>2. CASE ~Abort(p)
    <3>1. pc[p] = "take_tags" /\ pc'[p] \in {"take_tags", "take_copies"} /\ call' = call
      BY <1>0, <1>4, <2>2 DEF TakeTags, Writes, Goto, Shapes
    <3> QED
      BY <1>0, <3>1 DEF Balanced, Editing, Open
  <2> QED
    BY <2>1, <2>2
<1>5. CASE TakeCopies(p)
  <2>1. CASE Abort(p)
    BY <1>0, <1>5, <2>1, AbortBalanced DEF TakeCopies, Open
  <2>2. CASE ~Abort(p)
    <3> DEFINE from == call[p].from
    <3> DEFINE label == IF call[p].kind = "delete" THEN "quantity" ELSE "put_copies"
    <3>1. pc[p] = "take_copies" /\ Writes(p, {from}, LAMBDA r : Latest(p, r) - call[p].n, label)
      BY <1>5, <2>2 DEF TakeCopies
    <3>2. Written(p, {from}) /\ call' = call /\ db' = db /\ pc'[p] = label
      BY <1>0, <3>1 DEF Writes, Written, Goto, Shapes
    <3>3. Clean(p)
      BY <1>0, <3>1 DEF Archiving, Early
    <3>4. write'[p][from] = db[from] - call[p].n
      BY <1>0, <3>1, <3>3, RowFacts DEF Writes, Latest, Clean, Locked, Shapes
    <3>5. Ahead(p)' = -call[p].n /\ \A r \in Counted \ {from} : ~Locked(p, r)'
      BY <1>0, <3>2, <3>3, <3>4, CleanAhead, StageWritten, RowFacts DEF Clean
    <3>6. call[p].kind \in {"move", "move_group", "delete"}
      BY <1>0, <3>1 DEF Balanced
    <3> QED
      BY <1>0, <3>1, <3>2, <3>5, <3>6, RowFacts DEF Balanced, Editing, Open
  <2> QED
    BY <2>1, <2>2
<1>6. CASE PutCopies(p)
  <2> DEFINE to == call[p].to
  <2>1. pc[p] = "put_copies" /\ Writes(p, {to}, LAMBDA r : Latest(p, r) + call[p].n, "touch")
    BY <1>6 DEF PutCopies
  <2>2. Written(p, {to}) /\ call' = call /\ db' = db /\ pc'[p] = "touch"
    BY <1>0, <2>1 DEF Writes, Written, Goto, Shapes
  <2>3. Ahead(p) = -call[p].n /\ \A r \in Counted \ {call[p].from} : ~Locked(p, r)
    BY <1>0, <2>1 DEF Balanced
  <2>4. to # call[p].from
    BY <1>0, <2>1 DEF Balanced
  <2>5. ~Locked(p, to) /\ ~Locked(p, Whole) /\ to # Whole /\ Whole # call[p].from
    BY <1>0, <2>3, <2>4, RowFacts
  <2>6. write'[p][to] = db[to] + call[p].n /\ db[to] \in Int
    BY <1>0, <2>1, <2>5, RowFacts DEF Writes, Latest, Locked, Shapes
  <2>7. Ahead(p)' = 0 /\ ~Locked(p, Whole)'
    BY <1>0, <2>2, <2>3, <2>5, <2>6, StageWritten, RowFacts
  <2> QED
    BY <1>0, <2>1, <2>2, <2>7 DEF Balanced, Editing, Open
<1>7. CASE Touch(p)
  <2>1. pc[p] = "touch" /\ Writes(p, {Whole}, LAMBDA r : Latest(p, r), "put_tags")
    BY <1>7 DEF Touch
  <2>2. Written(p, {Whole}) /\ call' = call /\ pc'[p] = "put_tags"
    BY <1>0, <2>1 DEF Writes, Written, Goto, Shapes
  <2>3. Ahead(p) = 0 /\ ~Locked(p, Whole)
    BY <1>0, <2>1 DEF Balanced
  <2>4. write'[p][Whole] = db[Whole] /\ db[Whole] \in Int
    BY <1>0, <2>1, <2>3, RowFacts DEF Writes, Latest, Locked, Shapes
  <2>5. Ahead(p)' = 0
    <3>1. write'[p][Whole] \in Int
      BY <2>4
    <3>2. Ahead(p)' = Ahead(p) - (write'[p][Whole] - db[Whole])
      BY <1>0, <2>2, <2>3, <3>1, WholeWritten
    <3> QED
      BY <3>2, <2>3, <2>4
  <2> QED
    BY <1>0, <2>1, <2>2, <2>5 DEF Balanced, Editing, Open
<1>8. CASE PutTags(p)
  <2>1. CASE Abort(p)
    BY <1>0, <1>8, <2>1, AbortBalanced DEF PutTags, Open
  <2>2. CASE ~Abort(p)
    <3>1. pc[p] = "put_tags" /\ pc'[p] \in {"put_tags", "commit"} /\ call' = call /\ db' = db
      BY <1>0, <1>8, <2>2 DEF PutTags, Writes, Goto, Shapes
    <3>2. \A r \in Counted : write'[p][r] = write[p][r]
      <4>1. CASE write' = write
        BY <4>1
      <4>2. CASE write' # write
        <5>1. PICK t \in seen[p].left : Writes(p, {<<t, call[p].to>>}, LAMBDA r : Latest(p, r) + seen[p].taken[t], "put_tags")
          BY <1>8, <2>2, <4>2 DEF PutTags, NextTag
        <5>2. <<t, call[p].to>> \notin Counted
          BY <1>0, RowFacts DEF Calling, SeenShape
        <5> QED
          BY <1>0, <5>1, <5>2, RowFacts DEF Writes, Shapes
      <4> QED
        BY <4>1, <4>2
    <3>3. Ahead(p)' = 0
      BY <1>0, <3>1, <3>2, NoneWritten DEF Balanced
    <3> QED
      BY <1>0, <3>1, <3>3 DEF Balanced, Editing, Open
  <2> QED
    BY <2>1, <2>2
<1>9. CASE Quantity(p)
  <2>1. CASE Abort(p)
    BY <1>0, <1>9, <2>1, AbortBalanced DEF Quantity, Open
  <2>2. CASE ~Abort(p)
    <3>1. pc[p] = "quantity" /\ Writes(p, {Whole}, LAMBDA r : QuantityLeft(p), "commit")
      BY <1>9, <2>2 DEF Quantity
    <3>2. Written(p, {Whole}) /\ call' = call /\ pc'[p] = "commit"
      BY <1>0, <3>1 DEF Writes, Written, Goto, Shapes
    <3>3. Ahead(p) = -call[p].n /\ ~Locked(p, Whole)
      BY <1>0, <3>1 DEF Balanced
    <3>4. write'[p][Whole] = db[Whole] - call[p].n /\ db[Whole] \in Int
      BY <1>0, <3>1, <3>3, RowFacts DEF Writes, QuantityLeft, Latest, Locked, Shapes
    <3>5. Ahead(p)' = 0
      <4>1. write'[p][Whole] \in Int
        BY <1>0, <3>4
      <4>2. Ahead(p)' = Ahead(p) - (write'[p][Whole] - db[Whole])
        BY <1>0, <3>2, <3>3, <4>1, WholeWritten
      <4> QED
        BY <1>0, <4>2, <3>3, <3>4
    <3> QED
      BY <1>0, <3>1, <3>2, <3>5 DEF Balanced, Editing, Open
  <2> QED
    BY <2>1, <2>2
<1>10. CASE Total(p)
  <2>1. CASE Abort(p)
    BY <1>0, <1>10, <2>1, AbortBalanced DEF Total, Open
  <2>2. CASE ~Abort(p)
    <3>1. pc[p] = "total" /\ pc'[p] = "erase" /\ call' = call
      BY <1>0, <1>10, <2>2 DEF Total, Goto, Shapes
    <3> QED
      BY <1>0, <3>1 DEF Balanced, Editing, Open
  <2> QED
    BY <2>1, <2>2
<1>11. CASE Erase(p)
  <2>1. pc[p] = "erase" /\ Writes(p, Rows \ Tags, LAMBDA r : 0, "commit")
    BY <1>11 DEF Erase
  <2>2. call' = call /\ db' = db /\ pc'[p] = "commit"
    BY <1>0, <2>1 DEF Writes, Goto, Shapes
  <2>3. \A r \in Counted : write'[p][r] = 0
    BY <1>0, <2>1, RowFacts DEF Writes, Shapes
  <2>4. \A r \in Counted : Change(p, r)' = -db[r] /\ db[r] \in Int
    BY <1>0, <2>2, <2>3, RowFacts DEF Change, Locked, Shapes
  <2>5. Ahead(p)' = 0
    BY <1>0, <2>4, ChangeInt DEF Ahead, Conserved, InStages
  <2> QED
    BY <1>0, <2>1, <2>2, <2>5 DEF Balanced, Editing, Open
<1>12. CASE Available(p)
  <2>1. CASE Abort(p)
    BY <1>0, <1>12, <2>1, AbortBalanced DEF Available, Open
  <2>2. CASE ~Abort(p)
    <3>1. pc[p] = "available" /\ pc'[p] = "assign" /\ call' = call
      BY <1>0, <1>12, <2>2 DEF Available, Goto, Shapes
    <3> QED
      BY <1>0, <3>1 DEF Balanced, Editing, Open
  <2> QED
    BY <2>1, <2>2
<1>13. CASE Assign(p)
  <2>1. CASE Abort(p)
    BY <1>0, <1>13, <2>1, AbortBalanced DEF Assign, Open
  <2>2. CASE ~Abort(p)
    <3> DEFINE counts(r) == IF call[p].kind = "untag" THEN IF Latest(p, r) <= call[p].n THEN 0 ELSE Latest(p, r) - call[p].n
                            ELSE Assigned(call[p].n, Latest(p, r), seen[p].copies)
    <3>1. PICK t \in call[p].tags :
            /\ pc[p] = "assign"
            /\ Writes(p, {r \in {<<t, call[p].from>>} : call[p].kind = "untag" => Latest(p, r) > 0},
                      LAMBDA r : counts(r), "commit")
      BY <1>13, <2>2 DEF Assign
    <3>2. call' = call /\ db' = db /\ pc'[p] = "commit"
      BY <1>0, <3>1 DEF Writes, Goto, Shapes
    <3>3. <<t, call[p].from>> \notin Counted
      BY <1>0, RowFacts DEF CallShape, CallsOn
    <3>4. \A r \in Counted : write'[p][r] = write[p][r]
      BY <1>0, <3>1, <3>3, RowFacts DEF Writes, Shapes
    <3>5. Clean(p)
      BY <1>0, <3>1 DEF Archiving, Early
    <3>6. Ahead(p)' = 0
      BY <1>0, <3>2, <3>4, <3>5, NoneWritten, CleanAhead
    <3> QED
      BY <1>0, <3>1, <3>2, <3>6 DEF Balanced, Editing, Open
  <2> QED
    BY <2>1, <2>2
<1>14. CASE Insert(p)
  <2>1. CASE Abort(p)
    BY <1>0, <1>14, <2>1, AbortBalanced DEF Insert, Open
  <2>2. CASE ~Abort(p)
    <3>1. PICK t \in call[p].tags :
            pc[p] = "insert" /\ Writes(p, {t, <<t, call[p].from>>}, LAMBDA r : IF r = t THEN 1 ELSE call[p].n, "commit")
      BY <1>14, <2>2 DEF Insert
    <3>2. call' = call /\ db' = db /\ pc'[p] = "commit"
      BY <1>0, <3>1 DEF Writes, Goto, Shapes
    <3>3. {t, <<t, call[p].from>>} \cap Counted = {}
      BY <1>0, RowFacts DEF CallShape, CallsOn
    <3>4. \A r \in Counted : write'[p][r] = write[p][r]
      BY <1>0, <3>1, <3>3, RowFacts DEF Writes, Shapes
    <3>5. Clean(p)
      BY <1>0, <3>1 DEF Archiving, Early
    <3>6. Ahead(p)' = 0
      BY <1>0, <3>2, <3>4, <3>5, NoneWritten, CleanAhead
    <3> QED
      BY <1>0, <3>1, <3>2, <3>6 DEF Balanced, Editing, Open
  <2> QED
    BY <2>1, <2>2
<1>15. CASE Drop(p)
  <2>1. PICK t \in call[p].tags :
          pc[p] = "drop" /\ Writes(p, {t} \cup ({t} \X Stages), LAMBDA r : IF r \in Tags THEN 2 ELSE 0, "commit")
    BY <1>15 DEF Drop
  <2>2. call' = call /\ db' = db /\ pc'[p] = "commit"
    BY <1>0, <2>1 DEF Writes, Goto, Shapes
  <2>3. ({t} \cup ({t} \X Stages)) \cap Counted = {}
    BY <1>0, RowFacts DEF CallShape, CallsOn
  <2>4. \A r \in Counted : write'[p][r] = write[p][r]
    BY <1>0, <2>1, <2>3, RowFacts DEF Writes, Shapes
  <2>5. Clean(p)
    BY <1>0, <2>1 DEF Archiving, Early
  <2>6. Ahead(p)' = 0
    BY <1>0, <2>2, <2>4, <2>5, NoneWritten, CleanAhead
  <2> QED
    BY <1>0, <2>1, <2>2, <2>6 DEF Balanced, Editing, Open
<1>16. CASE Read(p)
  <2>1. CASE Abort(p)
    BY <1>0, <1>16, <2>1, AbortBalanced DEF Read, Open
  <2>2. CASE ~Abort(p)
    <3> DEFINE n == call[p].n
    <3>1. pc[p] = "read" /\ call' = call /\ db' = db /\ write' = write /\ pc'[p] = IF n = 0 THEN "whole" ELSE "clamp"
      BY <1>0, <1>16, <2>2 DEF Read, Goto, Shapes
    <3>2. Clean(p) /\ "edit" \in Calls
      BY <1>0, <3>1 DEF Archiving, Early, Balanced, Editing
    <3>3. Ahead(p)' = 0 /\ ~Locked(p, Whole)'
      BY <1>0, <3>1, <3>2, NoneWritten, CleanAhead, RowFacts DEF Clean
    <3> DEFINE copies == IF n = 0 THEN 0 ELSE n - Started
    <3> DEFINE total == IF n = 0 THEN db[Whole] ELSE n
    <3>4. seen' = [seen EXCEPT ![p] = [@ EXCEPT !.copies = copies, !.total = total]]
      BY <1>16, <2>2 DEF Read
    <3>5. n # 0 => copies - db[Todo] = total - db[Whole]
      BY <1>0, ChangeInt DEF Conserved, InStages, Started
    <3>6. n = 0 => total - db[Whole] = 0
      BY <1>0, ChangeInt
    <3> HIDE DEF copies, total
    <3>7. seen'[p].copies = copies /\ seen'[p].total = total
      BY <1>0, <3>4 DEF Shapes, Calling, SeenShape
    <3> QED
      BY <1>0, <3>1, <3>2, <3>3, <3>5, <3>6, <3>7 DEF Balanced, Editing, Open
  <2> QED
    BY <2>1, <2>2
<1>17. CASE Clamp(p)
  <2> DEFINE rows == {r \in Tags \X {Todo} : Latest(p, r) > 0}
  <2>1. pc[p] = "clamp" /\ UNCHANGED seen
        /\ Writes(p, rows, LAMBDA r : Clamped(Latest(p, r), seen[p].copies), "backlog")
    BY <1>17 DEF Clamp
  <2>2. call' = call /\ db' = db /\ pc'[p] = "backlog"
    BY <1>0, <2>1 DEF Writes, Goto, Shapes
  <2> QED
    BY <1>0, <2>1, <2>2 DEF Balanced, Editing, Open
<1>18. CASE Backlog(p)
  <2>1. CASE Abort(p)
    BY <1>0, <1>18, <2>1, AbortBalanced DEF Backlog, Open
  <2>2. CASE ~Abort(p)
    <3>1. pc[p] = "backlog" /\ UNCHANGED seen /\ Writes(p, {Todo}, LAMBDA r : seen[p].copies, "whole")
      BY <1>18, <2>2 DEF Backlog
    <3>2. Written(p, {Todo}) /\ call' = call /\ db' = db /\ pc'[p] = "whole"
      BY <1>0, <3>1 DEF Writes, Written, Goto, Shapes
    <3>3. Clean(p) /\ Todo \in Stages
      BY <1>0, <3>1, StagesDiffer DEF Archiving, Early
    <3>4. write'[p][Todo] = seen[p].copies
      BY <1>0, <3>1, <3>3, RowFacts DEF Writes, Shapes
    <3>5. Ahead(p)' = seen[p].copies - db[Todo] /\ ~Locked(p, Whole)'
      <4>1. Ahead(p)' = Ahead(p) + (write'[p][Todo] - db[Todo]) /\ ~Locked(p, Whole)'
        BY <1>0, <3>2, <3>3, <3>4, StageWritten, RowFacts DEF Clean
      <4> QED
        BY <1>0, <4>1, <3>3, <3>4, CleanAhead, ChangeInt
    <3> QED
      BY <1>0, <3>1, <3>2, <3>5 DEF Balanced, Editing, Open
  <2> QED
    BY <2>1, <2>2
<1>19. CASE WriteWhole(p)
  <2>1. CASE Abort(p)
    BY <1>0, <1>19, <2>1, AbortBalanced DEF WriteWhole, Open
  <2>2. CASE ~Abort(p)
    <3>1. pc[p] = "whole" /\ UNCHANGED seen /\ Writes(p, {Whole}, LAMBDA r : seen[p].total, "commit")
      BY <1>19, <2>2 DEF WriteWhole
    <3>2. Written(p, {Whole}) /\ call' = call /\ pc'[p] = "commit"
      BY <1>0, <3>1 DEF Writes, Written, Goto, Shapes
    <3>3. Ahead(p) = seen[p].total - db[Whole] /\ ~Locked(p, Whole)
      BY <1>0, <3>1 DEF Balanced
    <3>4. write'[p][Whole] = seen[p].total
      BY <1>0, <3>1, RowFacts DEF Writes, Shapes
    <3>5. Ahead(p)' = 0
      <4>1. Ahead(p)' = Ahead(p) - (write'[p][Whole] - db[Whole])
        BY <1>0, <3>2, <3>3, <3>4, WholeWritten
      <4> QED
        BY <1>0, <4>1, <3>3, <3>4, ChangeInt
    <3> QED
      BY <1>0, <3>1, <3>2, <3>5 DEF Balanced, Editing, Open
  <2> QED
    BY <2>1, <2>2
<1>20. CASE LockStages(p)
  <2>1. pc[p] = "lock_stages" /\ Writes(p, Stages, LAMBDA r : Latest(p, r), "lock_print")
    <3>1. LockedRows \cap Stages = Stages
      BY DEF LockedRows
    <3> QED
      BY <1>20, <3>1 DEF LockStages
  <2>2. call' = call /\ db' = db /\ pc'[p] = "lock_print"
    BY <1>0, <2>1 DEF Writes, Goto, Shapes
  <2>3. Clean(p)
    BY <1>0, <2>1 DEF Archiving, Early
  <2>4. (\A s \in Stages : write'[p][s] = db[s]) /\ write'[p][Whole] = Unwritten
    BY <1>0, <2>1, <2>3, RowFacts DEF Writes, Latest, Clean, Locked, Shapes
  <2>5. \A r \in Counted : Change(p, r)' = 0
    BY <1>0, <2>2, <2>4, RowFacts, ChangeInt DEF Change, Locked, Counted
  <2>6. Ahead(p)' = 0
    BY <2>5, ChangeInt, <1>0 DEF Ahead
  <2> QED
    BY <1>0, <2>1, <2>2, <2>6 DEF Balanced, Editing, Open
<1>21. CASE LockPrint(p)
  <2>1. pc[p] = "lock_print" /\ Writes(p, {Whole}, LAMBDA r : Latest(p, r), "recheck")
    <3>1. LockedRows \cap {Whole} = {Whole}
      BY DEF LockedRows
    <3> QED
      BY <1>21, <3>1 DEF LockPrint
  <2>2. Written(p, {Whole}) /\ call' = call /\ pc'[p] = "recheck"
    BY <1>0, <2>1 DEF Writes, Written, Goto, Shapes
  <2>3. Ahead(p) = 0 /\ ~Locked(p, Whole)
    BY <1>0, <2>1 DEF Balanced, Archiving
  <2>4. write'[p][Whole] = db[Whole] /\ db[Whole] \in Int
    BY <1>0, <2>1, <2>3, RowFacts DEF Writes, Latest, Locked, Shapes
  <2>5. Ahead(p)' = 0
    <3>1. Ahead(p)' = Ahead(p) - (write'[p][Whole] - db[Whole])
      BY <1>0, <2>2, <2>3, <2>4, WholeWritten
    <3> QED
      BY <3>1, <2>3, <2>4
  <2> QED
    BY <1>0, <2>1, <2>2, <2>5 DEF Balanced, Editing, Open
<1>22. CASE Recheck(p)
  <2>1. CASE Abort(p)
    BY <1>0, <1>22, <2>1, AbortBalanced DEF Recheck, Open
  <2>2. CASE ~Abort(p)
    <3>1. pc[p] = "recheck" /\ pc'[p] = "commit" /\ UNCHANGED <<db, call, write>>
      BY <1>0, <1>22, <2>2 DEF Recheck, Goto, Shapes
    <3>2. Ahead(p)' = 0
      BY <1>0, <3>1, NoneWritten DEF Balanced
    <3> QED
      BY <1>0, <3>1, <3>2 DEF Balanced, Editing, Open
  <2> QED
    BY <2>1, <2>2
<1> QED
  BY <1>1, <1>2, <1>3, <1>4, <1>5, <1>6, <1>7, <1>8, <1>9, <1>10, <1>11, <1>12, <1>13, <1>14, <1>15,
     <1>16, <1>17, <1>18, <1>19, <1>20, <1>21, <1>22 DEF Statement

\* Every kind of call starts even.
LEMMA AsksBalanced ==
  ASSUME Shapes, NEW p \in Procs, Asks(p)
  PROVE  Balanced(p)' /\ ~Open(p)'
<1> DEFINE Fits(asked) == /\ asked.kind \in Calls
                          /\ asked.kind \in {"move", "move_group"} => asked.from # asked.to
<1>0. ASSUME NEW asked, Ask(p, asked), Fits(asked) PROVE Balanced(p)' /\ ~Open(p)'
  <2>1. pc'[p] = "begin" /\ call'[p] = asked
    BY <1>0 DEF Ask, Goto, Shapes
  <2> QED
    BY <1>0, <2>1 DEF Balanced, Editing, Open
<1>1. CASE AskMove(p)
  <2>1. PICK from, to, n, cards :
          from # to /\ Ask(p, [NoCall EXCEPT !.kind = "move", !.from = from, !.to = to, !.n = n, !.cards = cards])
    BY <1>1 DEF AskMove
  <2> DEFINE asked == [NoCall EXCEPT !.kind = "move", !.from = from, !.to = to, !.n = n, !.cards = cards]
  <2>2. asked.from = from /\ asked.to = to
    BY NoCallShape DEF CallsOn
  <2>3. Fits(asked)
    BY <2>1, <2>2 DEF Ask
  <2> QED
    BY <1>0, <2>1, <2>3
<1>2. CASE AskMoveGroup(p)
  <2>1. PICK from, to \in Used, t \in Tags :
          from # to /\ Ask(p, [NoCall EXCEPT !.kind = "move_group", !.from = from, !.to = to, !.n = db[<<t, from>>], !.tags = {t}])
    BY <1>2 DEF AskMoveGroup
  <2> DEFINE asked == [NoCall EXCEPT !.kind = "move_group", !.from = from, !.to = to, !.n = db[<<t, from>>], !.tags = {t}]
  <2>2. asked.from = from /\ asked.to = to
    BY NoCallShape DEF CallsOn
  <2>3. Fits(asked)
    BY <2>1, <2>2 DEF Ask
  <2> QED
    BY <1>0, <2>1, <2>3
<1>3. CASE AskDelete(p)
  <2>1. PICK from, n, cards, last :
          Ask(p, [NoCall EXCEPT !.kind = "delete", !.from = from, !.n = n, !.cards = cards, !.last = last])
    BY <1>3 DEF AskDelete
  <2> DEFINE asked == [NoCall EXCEPT !.kind = "delete", !.from = from, !.n = n, !.cards = cards, !.last = last]
  <2>2. asked.kind = "delete"
    BY NoCallShape DEF CallsOn
  <2>3. Fits(asked)
    BY <2>1, <2>2 DEF Ask
  <2> QED
    BY <1>0, <2>1, <2>3
<1>4. CASE AskTag(p)
  <2>1. PICK kind \in {"tag", "untag", "create_group"}, from \in Used, t \in Tags : \E n \in 1..db[from] :
          Ask(p, [NoCall EXCEPT !.kind = kind, !.from = from, !.n = n, !.tags = {t}])
    BY <1>4 DEF AskTag
  <2>2. PICK n : Ask(p, [NoCall EXCEPT !.kind = kind, !.from = from, !.n = n, !.tags = {t}])
    BY <2>1
  <2> DEFINE asked == [NoCall EXCEPT !.kind = kind, !.from = from, !.n = n, !.tags = {t}]
  <2>3. asked.kind \in {"tag", "untag", "create_group"}
    BY NoCallShape DEF CallsOn
  <2>4. Fits(asked)
    BY <2>2, <2>3 DEF Ask
  <2> QED
    BY <1>0, <2>2, <2>4
<1>5. CASE AskDeleteGroup(p)
  <2>1. PICK t \in Tags : Ask(p, [NoCall EXCEPT !.kind = "delete_group", !.tags = {t}])
    BY <1>5 DEF AskDeleteGroup
  <2> DEFINE asked == [NoCall EXCEPT !.kind = "delete_group", !.tags = {t}]
  <2>2. asked.kind = "delete_group"
    BY NoCallShape DEF CallsOn
  <2>3. Fits(asked)
    BY <2>1, <2>2 DEF Ask
  <2> QED
    BY <1>0, <2>1, <2>3
<1>6. CASE AskEdit(p)
  <2>1. PICK n : Ask(p, [NoCall EXCEPT !.kind = "edit", !.n = n])
    BY <1>6 DEF AskEdit
  <2> DEFINE asked == [NoCall EXCEPT !.kind = "edit", !.n = n]
  <2>2. asked.kind = "edit"
    BY NoCallShape DEF CallsOn
  <2>3. Fits(asked)
    BY <2>1, <2>2 DEF Ask
  <2> QED
    BY <1>0, <2>1, <2>3
<1>7. CASE AskArchive(p)
  <2>1. Ask(p, [NoCall EXCEPT !.kind = "archive"])
    BY <1>7 DEF AskArchive
  <2> DEFINE asked == [NoCall EXCEPT !.kind = "archive"]
  <2>2. asked.kind = "archive"
    BY NoCallShape DEF CallsOn
  <2>3. Fits(asked)
    BY <2>1, <2>2 DEF Ask
  <2> QED
    BY <1>0, <2>1, <2>3
<1> QED
  BY <1>1, <1>2, <1>3, <1>4, <1>5, <1>6, <1>7 DEF Asks

\* A transaction that opens is even; the reads of an edit happen inside it.
LEMMA BeginBalanced ==
  ASSUME BalanceInv, NEW p \in Procs, Begin(p)
  PROVE  Balanced(p)'
<1>1. pc[p] = "begin" /\ pc'[p] = FirstStatement(call[p].kind) /\ call' = call /\ db' = db /\ seen' = seen /\ write' = write
  BY DEF Begin, Goto, BalanceInv, ArchiveInv, Shapes
<1>2. Balanced(p) /\ call[p].kind \in Kinds
  BY DEF BalanceInv, ArchiveInv, Shapes, Calling, CallShape, CallsOn
<1>3. /\ pc'[p] \in {"stage", "group", "available", "insert", "drop", "read", "lock_stages"}
      /\ pc'[p] \in {"stage", "group"} => call[p].kind \in {"move", "move_group", "delete"}
      /\ pc'[p] = "read" => call[p].kind = "edit"
  BY <1>1 DEF FirstStatement
<1> QED
  BY <1>1, <1>2, <1>3 DEF Balanced, Editing

\* A step that commits nothing leaves what the other calls have written, and the copies, as they are.
LEMMA BalancedKeeps ==
  ASSUME BalanceInv, NEW p \in Procs, Sound(p), Balanced(p)', Solo'
  PROVE  BalanceInv'
<1>0. ArchiveInv /\ Shapes /\ LocalStep(p) /\ db' = db
  BY DEF BalanceInv, ArchiveInv, Sound, LocalStep
<1>1. ArchiveInv'
  BY <1>0, SoundKeeps
<1>2. Conserved'
  BY <1>0 DEF BalanceInv, Conserved, InStages
<1>3. ASSUME NEW q \in Procs \ {p} PROVE Balanced(q)'
  <2>1. pc'[q] = pc[q] /\ call'[q] = call[q] /\ seen'[q] = seen[q] /\ write'[q] = write[q]
    BY <1>0 DEF LocalStep, Shapes
  <2>2. Ahead(q)' = Ahead(q) /\ \A r \in Counted : Locked(q, r)' = Locked(q, r)
    BY <1>0, <2>1, NoneWritten
  <2>3. Balanced(q)
    BY DEF BalanceInv
  <2> QED
    BY <1>0, <2>1, <2>2, <2>3, RowFacts DEF Balanced
<1> QED
  BY <1>1, <1>2, <1>3 DEF BalanceInv

\* On SQLite at most one transaction stays open.
LEMMA SoloKeeps ==
  ASSUME BalanceInv, NEW p \in Procs, LocalStep(p), Open(p)' => Open(p)
  PROVE  Solo'
<1>1. \A q \in Procs : Open(q)' => Open(q)
  BY DEF LocalStep, Open, BalanceInv, ArchiveInv, Shapes
<1> QED
  BY <1>1 DEF Solo, BalanceInv

\* A commit carries the call's writes to the rows, and they are even by then.
LEMMA CommitBalance ==
  ASSUME BalanceInv, NEW p \in Procs, Commit(p), Backend = "sqlite" \/ "edit" \notin Calls
  PROVE  BalanceInv'
<1>0. ArchiveInv /\ Shapes /\ Conserved /\ Exclusive
  BY DEF BalanceInv, ArchiveInv
<1>1. pc[p] = "commit" /\ db' = [r \in Rows |-> Latest(p, r)] /\ pc' = [pc EXCEPT ![p] = "idle"]
      /\ call' = [call EXCEPT ![p] = NoCall] /\ seen' = [seen EXCEPT ![p] = Nothing] /\ write' = [write EXCEPT ![p] = Blank]
  BY DEF Commit, End, Goto
<1>2. ArchiveInv'
  BY <1>0, CommitKeeps
<1>3. Ahead(p) = 0
  BY <1>1 DEF BalanceInv, Balanced
<1>4. \A r \in Counted : db'[r] = db[r] + Change(p, r)
  <2> TAKE r \in Counted
  <2>1. db'[r] = Latest(p, r)
    BY <1>1, RowFacts
  <2>2. CASE Locked(p, r)
    BY <1>0, <2>1, <2>2, ChangeInt DEF Latest, Locked, Change
  <2>3. CASE ~Locked(p, r)
    BY <1>0, <2>1, <2>3, ChangeInt DEF Latest, Locked, Change
  <2> QED
    BY <2>2, <2>3
<1>5. Conserved'
  BY <1>0, <1>3, <1>4, ChangeInt DEF Conserved, InStages, Ahead
<1>6. ASSUME NEW q \in Procs \ {p} PROVE Balanced(q)'
  <2>1. pc'[q] = pc[q] /\ call'[q] = call[q] /\ seen'[q] = seen[q] /\ write'[q] = write[q]
    BY <1>0, <1>1 DEF Shapes
  <2>2. \A r \in Counted : Locked(q, r)' = Locked(q, r) /\ Change(q, r)' = Change(q, r)
    <3> TAKE r \in Counted
    <3>1. CASE Locked(q, r)
      <4>1. ~Locked(p, r)
        BY <1>0, <3>1 DEF Exclusive
      <4>2. db'[r] = db[r]
        BY <1>0, <1>4, <4>1, ChangeInt DEF Change
      <4> QED
        BY <2>1, <4>2 DEF Locked, Change
    <3>2. CASE ~Locked(q, r)
      BY <2>1, <3>2 DEF Locked, Change
    <3> QED
      BY <3>1, <3>2
  <2>3. Ahead(q)' = Ahead(q)
    BY <1>0, <2>2, ChangeInt DEF Ahead
  <2>4. pc[q] \notin Editing
    <3>1. Balanced(q) /\ Solo
      BY DEF BalanceInv
    <3>2. Open(p)
      BY <1>1 DEF Open
    <3> QED
      BY <3>1, <3>2 DEF Balanced, Editing, Solo, Open
  <2>5. Balanced(q)
    BY DEF BalanceInv
  <2> QED
    BY <2>1, <2>2, <2>3, <2>4, <2>5, RowFacts DEF Balanced, Editing
<1>7. Balanced(p)'
  BY <1>0, <1>1 DEF Balanced, Editing, NoCall, Shapes
<1>8. Solo'
  BY <1>0, <1>1 DEF BalanceInv, Solo, Open, Shapes
<1> QED
  BY <1>2, <1>5, <1>6, <1>7, <1>8 DEF BalanceInv

\* The board starts with its copies in the first stage, as many as the print has.
LEMMA InitBalanceInv == Init => BalanceInv
<1> SUFFICES ASSUME Init PROVE BalanceInv
  OBVIOUS
<1>1. ArchiveInv
  BY InitArchiveInv
<1>2. \A p \in Procs : pc[p] = "idle" /\ call[p] = NoCall
  BY DEF Init
<1>3. \A p \in Procs : Balanced(p)
  BY <1>2 DEF Balanced, NoCall, Editing
<1>4. Solo
  BY <1>2 DEF Solo, Open
<1>5. Conserved
  <2>1. \A r \in Counted : r \in Rows /\ r \notin Items /\ r \notin Tags
    BY RowFacts
  <2>2. Copies \in Int /\ Whole \notin Stages
    BY BoardAssumption, RowFacts DEF BoardAssumption
  <2>3. \A r \in Counted : db[r] = IF r \in {Todo, Whole} THEN Copies ELSE 0
    BY <2>1 DEF Init
  <2>4. db[Todo] = Copies /\ db[Whole] = Copies /\ db[UpNext] = 0 /\ db[InProgress] = 0 /\ db[PostProcessing] = 0 /\ db[Done] = 0
    BY <2>2, <2>3, RowFacts, StagesDiffer
  <2> QED
    BY <2>2, <2>4 DEF Conserved, InStages
<1> QED
  BY <1>1, <1>3, <1>4, <1>5 DEF BalanceInv

\* Every step of every call keeps the books.
LEMMA BalanceInvStep ==
  ASSUME Backend = "sqlite" \/ "edit" \notin Calls
  PROVE  BalanceInv /\ [Next]_vars => BalanceInv'
<1> SUFFICES ASSUME BalanceInv, [Next]_vars PROVE BalanceInv'
  OBVIOUS
<1>0. ArchiveInv /\ Shapes
  BY DEF BalanceInv, ArchiveInv
<1>1. CASE UNCHANGED vars \/ Unarchive
  <2>1. UNCHANGED <<db, pc, call, seen, write>>
    BY <1>1 DEF vars, Unarchive
  <2>2. ArchiveInv'
    BY <1>0, ArchiveInvStep
  <2>3. \A p \in Procs : Ahead(p)' = Ahead(p) /\ \A r \in Counted : Locked(p, r)' = Locked(p, r)
    BY <1>0, <2>1, NoneWritten
  <2>4. \A p \in Procs : Balanced(p)'
    BY <2>1, <2>3, RowFacts DEF BalanceInv, Balanced
  <2> QED
    BY <2>1, <2>2, <2>4 DEF BalanceInv, Conserved, InStages, Solo, Open
<1>2. ASSUME NEW p \in Procs, Asks(p) PROVE BalanceInv'
  <2>1. Sound(p) /\ Balanced(p)' /\ ~Open(p)'
    BY <1>0, <1>2, AsksSound, AsksBalanced
  <2> QED
    BY <2>1, SoloKeeps, BalancedKeeps DEF Sound
<1>3. ASSUME NEW p \in Procs, Begin(p) PROVE BalanceInv'
  <2>1. Sound(p) /\ Balanced(p)'
    BY <1>0, <1>3, BeginSound, BeginBalanced
  <2>2. Solo'
    <3>1. pc' = [pc EXCEPT ![p] = pc'[p]] /\ (Backend = "sqlite" => \A q \in Procs : ~Open(q))
      BY <2>1, <1>3 DEF Sound, LocalStep, Begin
    <3> QED
      BY <1>0, <3>1 DEF Solo, Open, Shapes
  <2> QED
    BY <2>1, <2>2, BalancedKeeps
<1>4. ASSUME NEW p \in Procs, Statement(p) PROVE BalanceInv'
  <2>1. Sound(p) /\ Balanced(p)' /\ Open(p)
    BY <1>0, <1>4, StatementSound, StatementBalanced
  <2> QED
    BY <2>1, SoloKeeps, BalancedKeeps DEF Sound
<1>5. ASSUME NEW p \in Procs, Rollback(p) PROVE BalanceInv'
  <2>1. Sound(p) /\ Balanced(p)' /\ ~Open(p)'
    BY <1>0, <1>5, AbortSound, AbortBalanced DEF Rollback
  <2> QED
    BY <2>1, SoloKeeps, BalancedKeeps DEF Sound
<1>6. ASSUME NEW p \in Procs, Commit(p) PROVE BalanceInv'
  BY <1>6, CommitBalance
<1> QED
  BY <1>1, <1>2, <1>3, <1>4, <1>5, <1>6 DEF Next

\* No copy is lost or made, whatever calls overlap: the stages together hold the print's quantity.
\* On PostgreSQL this leaves out updateRequest, which writes the quantity and the backlog from a read
\* that others may overtake.
THEOREM CopiesConserved ==
  ASSUME Backend = "sqlite" \/ "edit" \notin Calls
  PROVE  Spec => []Conserved
<1>1. BalanceInv => Conserved
  BY DEF BalanceInv
<1> QED
  BY <1>1, InitBalanceInv, BalanceInvStep, PTL DEF Spec

-----------------------------------------------------------------------------
(* The cards of a stage, dealt from the copies and the tags on them.       *)

(* The cards of a stage, as printGroupCohorts deals them. *)
Cohort == [count : Nat \ {0}, tags : SUBSET Tags]
Deck(cards) == cards \in Seq(Cohort) /\ \A i, j \in DOMAIN cards : cards[i].tags = cards[j].tags => i = j
Counts(cards) == [i \in DOMAIN cards |-> cards[i].count]

(* The cohorts that are drawn from before cohort i. *)
FewerTags(cards, j, i) ==
  \/ Cardinality(cards[j].tags) < Cardinality(cards[i].tags)
  \/ Cardinality(cards[j].tags) = Cardinality(cards[i].tags) /\ j < i
Earlier(cards, i) == {j \in DOMAIN cards : FewerTags(cards, j, i)}
Drawn(rest, count) == IF rest < 0 THEN 0 ELSE AtMost(rest, count)

(* There are finitely many tags, and of the cohorts of a stage. *)
LEMMA TagsAreFinite == IsFiniteSet(Tags) /\ \A T \in SUBSET Tags : IsFiniteSet(T) /\ Cardinality(T) \in Nat
<1>1. IsFiniteSet(1..Len(TagOrder)) /\ DOMAIN TagOrder = 1..Len(TagOrder)
  BY FS_Interval, OrderAssumption DEF OrderAssumption
<1>2. TagOrder \in Surjection(1..Len(TagOrder), Tags)
  BY <1>1, OrderAssumption DEF OrderAssumption, Tags, Surjection
<1>3. IsFiniteSet(Tags)
  BY <1>1, <1>2, FS_Surjection
<1> QED
  BY <1>3, FS_Subset, FS_CardinalityType

(* A sequence of cohorts is finite, and each of them has copies and some of the tags. *)
LEMMA DeckIsFinite ==
  ASSUME NEW cards \in Seq(Cohort)
  PROVE  /\ IsFiniteSet(DOMAIN cards) /\ DOMAIN cards = 1..Len(cards) /\ Len(cards) \in Nat
         /\ \A i \in DOMAIN cards : /\ cards[i] \in Cohort /\ cards[i].count \in Nat \ {0}
                                    /\ cards[i].tags \subseteq Tags /\ Cardinality(cards[i].tags) \in Nat
         /\ \A i \in DOMAIN cards : Counts(cards)[i] = cards[i].count
<1>1. IsFiniteSet(1..Len(cards)) /\ DOMAIN cards = 1..Len(cards)
  BY FS_Interval
<1>2. \A i \in DOMAIN cards : cards[i] \in Cohort
  OBVIOUS
<1> QED
  BY <1>1, <1>2, TagsAreFinite DEF Cohort, Counts

(* FewestFirst draws from a cohort what the earlier ones leave. *)
LEMMA FewestFirstIs ==
  ASSUME NEW cards \in Seq(Cohort), NEW n \in Nat
  PROVE  FewestFirst(cards, n)
           = [i \in DOMAIN cards |-> Drawn(n - SumFunctionOnSet(Counts(cards), Earlier(cards, i)), cards[i].count)]
<1>1. ASSUME NEW i \in DOMAIN cards
      PROVE  SumFunctionOnSet([j \in Earlier(cards, i) |-> cards[j].count], Earlier(cards, i))
               = SumFunctionOnSet(Counts(cards), Earlier(cards, i))
  <2>1. IsFiniteSet(Earlier(cards, i))
    BY DeckIsFinite, FS_Subset DEF Earlier
  <2>2. \A j \in Earlier(cards, i) : [k \in Earlier(cards, i) |-> cards[k].count][j] = Counts(cards)[j]
    BY DEF Earlier, Counts
  <2> QED
    BY <2>1, <2>2, SumAgree
<1>2. FewestFirst(cards, n)
        = [i \in DOMAIN cards |-> Drawn(n - SumFunctionOnSet([j \in Earlier(cards, i) |-> cards[j].count],
                                                             Earlier(cards, i)), cards[i].count)]
  BY DEF FewestFirst, SumOver, Earlier, FewerTags, Drawn
<1> QED
  BY <1>1, <1>2

(* The cohorts are drawn from in one order. *)
LEMMA EarlierOrders ==
  ASSUME NEW cards \in Seq(Cohort), NEW i \in DOMAIN cards, NEW j \in DOMAIN cards
  PROVE  /\ i \notin Earlier(cards, i)
         /\ i # j => i \in Earlier(cards, j) \/ j \in Earlier(cards, i)
         /\ i \in Earlier(cards, j) => Earlier(cards, i) \subseteq Earlier(cards, j)
<1>1. \A k \in DOMAIN cards : k \in Int /\ Cardinality(cards[k].tags) \in Nat
  BY DeckIsFinite
<1>2. ~FewerTags(cards, i, i)
  BY <1>1 DEF FewerTags
<1>3. i # j => FewerTags(cards, i, j) \/ FewerTags(cards, j, i)
  BY <1>1 DEF FewerTags
<1>4. \A k \in DOMAIN cards : FewerTags(cards, k, i) /\ FewerTags(cards, i, j) => FewerTags(cards, k, j)
  BY <1>1 DEF FewerTags
<1> QED
  BY <1>2, <1>3, <1>4 DEF Earlier

(* A sum over fewer is no greater. *)
LEMMA SumOfFewer ==
  ASSUME NEW f, NEW S, IsFiniteSet(S), NEW T \in SUBSET S, \A x \in S : f[x] \in Nat
  PROVE  SumFunctionOnSet(f, T) <= SumFunctionOnSet(f, S)
<1> DEFINE g == [x \in S |-> IF x \in T THEN f[x] ELSE 0]
<1>1. SumFunctionOnSet(f, T) = SumFunctionOnSet(g, S)
  BY SumInside
<1>2. \A x \in S : g[x] \in Nat /\ f[x] \in Nat /\ g[x] <= f[x]
  OBVIOUS
<1> HIDE DEF g
<1> QED
  BY <1>1, <1>2, SumMonotonic

(* Two sums are the sum of what they add up. *)
LEMMA SumPlus ==
  ASSUME NEW f, NEW g, NEW h, NEW S, IsFiniteSet(S),
         \A x \in S : f[x] \in Nat /\ g[x] \in Nat /\ h[x] = f[x] + g[x]
  PROVE  SumFunctionOnSet(h, S) = SumFunctionOnSet(f, S) + SumFunctionOnSet(g, S)
<1> DEFINE Sums(U) == SumFunctionOnSet(h, U) = SumFunctionOnSet(f, U) + SumFunctionOnSet(g, U)
           Bad == {U \in SUBSET S : ~Sums(U)}
<1> SUFFICES ASSUME Bad # {} PROVE FALSE
  BY Zenon
<1>1. \A U \in Bad : IsFiniteSet(U) /\ Cardinality(U) \in Nat
  BY FS_Subset, FS_CardinalityType
<1>2. PICK U \in Bad : \A V \in Bad : Cardinality(U) <= Cardinality(V)
  BY <1>1, LeastSet
<1>0. Sums({})
  <2>1. SumFunctionOnSet(h, {}) = 0 /\ SumFunctionOnSet(f, {}) = 0 /\ SumFunctionOnSet(g, {}) = 0
    BY SumOfNone
  <2> QED
    BY <2>1
<1>3. U # {}
  BY <1>0
<1>4. PICK x \in U : TRUE
  BY <1>3
<1> DEFINE V == U \ {x}
<1>5. Cardinality(V) = Cardinality(U) - 1
  BY <1>1, FS_RemoveElement
<1>6. V \in SUBSET S /\ V \notin Bad /\ IsFiniteSet(V)
  BY <1>1, <1>2, <1>5, FS_Subset
<1>7. /\ SumFunctionOnSet(f, U) = f[x] + SumFunctionOnSet(f, V)
      /\ SumFunctionOnSet(g, U) = g[x] + SumFunctionOnSet(g, V)
      /\ SumFunctionOnSet(h, U) = h[x] + SumFunctionOnSet(h, V)
  BY <1>1, SumTake
<1>8. SumFunctionOnSet(f, V) \in Nat /\ SumFunctionOnSet(g, V) \in Nat
  BY <1>6, SumIsNat
<1>9. Sums(V) /\ ~Sums(U)
  BY <1>6
<1>10. x \in S /\ f[x] \in Nat /\ g[x] \in Nat /\ h[x] = f[x] + g[x]
  BY <1>4
<1> HIDE DEF V
<1> QED
  BY <1>7, <1>8, <1>9, <1>10

(* From cohorts that come before all others, FewestFirst draws all it can. *)
LEMMA FewestFirstDraws ==
  ASSUME NEW cards \in Seq(Cohort), NEW n \in Nat,
         NEW S \in SUBSET DOMAIN cards, \A i \in S : Earlier(cards, i) \subseteq S
  PROVE  SumFunctionOnSet(FewestFirst(cards, n), S) = AtMost(n, SumFunctionOnSet(Counts(cards), S))
<1> DEFINE g == FewestFirst(cards, n)
           c == Counts(cards)
           Draws(U) == SumFunctionOnSet(g, U) = AtMost(n, SumFunctionOnSet(c, U))
           Bad == {U \in SUBSET DOMAIN cards : (\A i \in U : Earlier(cards, i) \subseteq U) /\ ~Draws(U)}
<1> SUFFICES ASSUME Bad # {} PROVE FALSE
  BY Zenon
<1>0. \A U \in SUBSET DOMAIN cards : IsFiniteSet(U)
  BY DeckIsFinite, FS_Subset
<1>1. PICK U \in Bad : \A V \in Bad : Cardinality(U) <= Cardinality(V)
  BY <1>0, LeastSet
<1>2. U # {}
  <2>1. SumFunctionOnSet(g, {}) = 0 /\ SumFunctionOnSet(c, {}) = 0
    BY SumOfNone
  <2>2. Draws({})
    BY <2>1 DEF AtMost
  <2> QED
    BY <2>2
<1>3. PICK x \in U : Earlier(cards, x) = U \ {x}
  <2> DEFINE Later(i) == U \ Earlier(cards, i)
             Laters == {Later(i) : i \in U}
  <2>1. \A T \in Laters : IsFiniteSet(T)
    BY <1>0
  <2>a. Laters # {}
    BY <1>2
  <2>b. PICK R \in Laters : \A T \in Laters : Cardinality(R) <= Cardinality(T)
    BY <2>1, <2>a, LeastSet
  <2>2. PICK x \in U : \A T \in Laters : Cardinality(Later(x)) <= Cardinality(T)
    BY <2>b
  <2>3. ASSUME NEW y \in U \ {x}, y \notin Earlier(cards, x)
        PROVE  FALSE
    <3>1. x \in Earlier(cards, y) /\ Earlier(cards, x) \subseteq Earlier(cards, y) /\ x \notin Earlier(cards, x)
      BY <2>3, EarlierOrders
    <3>2. Later(y) \subseteq Later(x) \ {x} /\ x \in Later(x) /\ IsFiniteSet(Later(x))
      BY <1>0, <3>1
    <3>a. IsFiniteSet(Later(x) \ {x}) /\ Cardinality(Later(x) \ {x}) = Cardinality(Later(x)) - 1
      BY ZenonT(60), <3>2, FS_RemoveElement
    <3>b. Cardinality(Later(y)) <= Cardinality(Later(x) \ {x}) /\ IsFiniteSet(Later(y))
      BY <3>2, <3>a, FS_Subset
    <3>3. Cardinality(Later(y)) <= Cardinality(Later(x) \ {x}) /\ Cardinality(Later(x)) \in Nat
          /\ Cardinality(Later(x) \ {x}) = Cardinality(Later(x)) - 1 /\ Cardinality(Later(y)) \in Nat
      BY <3>2, <3>a, <3>b, FS_CardinalityType
    <3>4. Cardinality(Later(x)) <= Cardinality(Later(y))
      BY <2>2
    <3> HIDE DEF Later
    <3> QED
      BY <3>3, <3>4
  <2>4. x \notin Earlier(cards, x) /\ Earlier(cards, x) \subseteq U
    BY EarlierOrders
  <2> QED
    BY <2>3, <2>4
<1> DEFINE V == U \ {x}
<1>4. V \in SUBSET DOMAIN cards /\ \A i \in V : Earlier(cards, i) \subseteq V
  <2>1. \A i \in Earlier(cards, x) : i \in DOMAIN cards
    BY DEF Earlier
  <2> QED
    BY <1>3, <2>1, EarlierOrders
<1>5. Cardinality(V) = Cardinality(U) - 1 /\ Cardinality(U) \in Nat
  BY <1>0, FS_RemoveElement, FS_CardinalityType
<1>6. Draws(V)
  BY <1>1, <1>4, <1>5
<1>7. \A i \in DOMAIN cards : c[i] = cards[i].count /\ c[i] \in Nat
  BY DeckIsFinite
<1>8. SumFunctionOnSet(c, U) = c[x] + SumFunctionOnSet(c, V) /\ SumFunctionOnSet(c, V) \in Nat
  <2>1. IsFiniteSet(U) /\ IsFiniteSet(V) /\ \A i \in U : c[i] \in Nat
    BY <1>0, <1>4, <1>7
  <2>2. SumFunctionOnSet(c, V) \in Nat
    BY <2>1, SumIsNat
  <2> HIDE DEF c
  <2> QED
    BY <2>1, <2>2, SumTake
<1>9. \A i \in DOMAIN cards : g[i] = Drawn(n - SumFunctionOnSet(c, Earlier(cards, i)), c[i])
  BY <1>7, FewestFirstIs
<1>10. \A i \in DOMAIN cards : g[i] \in Nat
  <2> TAKE i \in DOMAIN cards
  <2>1. SumFunctionOnSet(c, Earlier(cards, i)) \in Nat
    <3>1. Earlier(cards, i) \subseteq DOMAIN cards
      BY DEF Earlier
    <3> QED
      BY <1>0, <1>7, <3>1, SumIsNat
  <2> QED
    BY <1>7, <1>9, <2>1 DEF Drawn, AtMost
<1>11. SumFunctionOnSet(g, U) = g[x] + SumFunctionOnSet(g, V)
  BY <1>0, <1>10, SumTake
<1>12. g[x] = Drawn(n - SumFunctionOnSet(c, V), c[x]) /\ c[x] \in Nat
  BY <1>3, <1>7, <1>9
<1>13. ~Draws(U)
  OBVIOUS
<1> HIDE DEF V, g, c
<1>14. PICK a, b, d, e \in Nat : a = SumFunctionOnSet(c, V) /\ b = c[x] /\ d = g[x] /\ e = SumFunctionOnSet(g, V)
  BY <1>6, <1>8, <1>10, <1>12 DEF AtMost
<1> QED
  BY SMTT(60), <1>6, <1>8, <1>11, <1>12, <1>13, <1>14 DEF AtMost, Drawn

(* No cohort gives more than it has. *)
LEMMA DrawnFits ==
  ASSUME NEW cards \in Seq(Cohort), NEW n \in Nat
  PROVE  /\ FewestFirst(cards, n) \in [DOMAIN cards -> Nat]
         /\ \A i \in DOMAIN cards : FewestFirst(cards, n)[i] <= cards[i].count
         /\ \A i \in DOMAIN cards :
              /\ SumFunctionOnSet(Counts(cards), Earlier(cards, i)) \in Nat
              /\ FewestFirst(cards, n)[i] = Drawn(n - SumFunctionOnSet(Counts(cards), Earlier(cards, i)), cards[i].count)
<1> DEFINE rest(i) == SumFunctionOnSet(Counts(cards), Earlier(cards, i))
<1>1. ASSUME NEW i \in DOMAIN cards
      PROVE  rest(i) \in Nat
  <2>1. Earlier(cards, i) \subseteq DOMAIN cards
    BY DEF Earlier
  <2>2. IsFiniteSet(Earlier(cards, i)) /\ \A j \in Earlier(cards, i) : Counts(cards)[j] \in Nat
    BY <2>1, DeckIsFinite, FS_Subset
  <2> QED
    BY <2>2, SumIsNat
<1>2. FewestFirst(cards, n) = [i \in DOMAIN cards |-> Drawn(n - rest(i), cards[i].count)]
  BY FewestFirstIs
<1> HIDE DEF rest
<1>3. ASSUME NEW i \in DOMAIN cards
      PROVE  Drawn(n - rest(i), cards[i].count) \in Nat /\ Drawn(n - rest(i), cards[i].count) <= cards[i].count
  <2>1. cards[i].count \in Nat
    BY DeckIsFinite
  <2> QED
    BY <1>1, <2>1 DEF Drawn, AtMost
<1> QED
  BY <1>1, <1>2, <1>3 DEF rest

(* One cohort at most gives some of its copies and keeps others. *)
Parted(cards, n, i) == 0 < FewestFirst(cards, n)[i] /\ FewestFirst(cards, n)[i] < cards[i].count

(* Once a cohort is parted, nothing is left for those drawn from after it. *)
LEMMA NoneAfterParted ==
  ASSUME NEW cards \in Seq(Cohort), NEW n \in Nat, NEW i \in DOMAIN cards, NEW j \in DOMAIN cards,
         Parted(cards, n, i), i \in Earlier(cards, j)
  PROVE  ~Parted(cards, n, j)
<1> DEFINE c == Counts(cards)
           E == Earlier(cards, i) \cup {i}
<1>1. E \subseteq Earlier(cards, j) /\ Earlier(cards, j) \subseteq DOMAIN cards /\ i \notin Earlier(cards, i)
  BY EarlierOrders DEF Earlier
<1>2. IsFiniteSet(Earlier(cards, j)) /\ IsFiniteSet(E) /\ \A k \in DOMAIN cards : c[k] \in Nat
  BY <1>1, DeckIsFinite, FS_Subset
<1>3. SumFunctionOnSet(c, E) <= SumFunctionOnSet(c, Earlier(cards, j))
  <2>1. \A k \in Earlier(cards, j) : c[k] \in Nat
    BY <1>1, <1>2
  <2> HIDE DEF c, E
  <2> QED
    BY <1>1, <1>2, <2>1, SumOfFewer
<1>4. SumFunctionOnSet(c, E) = c[i] + SumFunctionOnSet(c, Earlier(cards, i))
  <2>1. \A k \in E : c[k] \in Nat
    BY <1>1, <1>2
  <2>2. E \ {i} = Earlier(cards, i) /\ i \in E
    BY <1>1
  <2> HIDE DEF c, E
  <2> QED
    BY <1>2, <2>1, <2>2, SumTake
<1>5. PICK a, b, d, e, h \in Nat :
         /\ a = SumFunctionOnSet(c, Earlier(cards, i)) /\ b = SumFunctionOnSet(c, Earlier(cards, j)) /\ d = cards[i].count
         /\ e = cards[j].count /\ h = SumFunctionOnSet(c, E) /\ c[i] = d
  <2>1. cards[i].count \in Nat /\ cards[j].count \in Nat /\ c[i] = cards[i].count
    BY DeckIsFinite
  <2>2. SumFunctionOnSet(c, Earlier(cards, i)) \in Nat /\ SumFunctionOnSet(c, Earlier(cards, j)) \in Nat
    BY DrawnFits
  <2> QED
    BY <1>4, <2>1, <2>2
<1>6. FewestFirst(cards, n)[i] = Drawn(n - a, d) /\ FewestFirst(cards, n)[j] = Drawn(n - b, e)
  BY <1>5, DrawnFits
<1> HIDE DEF c, E
<1> QED
  BY SMTT(60), <1>3, <1>4, <1>5, <1>6 DEF Parted, Drawn, AtMost

(* So one cohort at most is parted. *)
LEMMA OneIsParted ==
  ASSUME NEW cards \in Seq(Cohort), NEW n \in Nat, NEW i \in DOMAIN cards, NEW j \in DOMAIN cards,
         Parted(cards, n, i), Parted(cards, n, j)
  PROVE  i = j
BY EarlierOrders, NoneAfterParted

(* What DealTag makes of a stage's cards. *)
Tagging(cards, t, n) ==
  [i \in DOMAIN cards |->
     IF Parted(cards, n, i) THEN [cards[i] EXCEPT !.count = @ - FewestFirst(cards, n)[i]]
     ELSE IF FewestFirst(cards, n)[i] > 0 THEN [cards[i] EXCEPT !.tags = cards[i].tags \cup {t}] ELSE cards[i]]

(* What DealTag returns: the cohorts with the tag where they get it, and at most one parted off at the end. *)
LEMMA DealTagIs ==
  ASSUME NEW cards \in Seq(Cohort), NEW t, NEW n \in Nat
  PROVE  \/ (\A i \in DOMAIN cards : ~Parted(cards, n, i)) /\ DealTag(cards, t, n) = Tagging(cards, t, n)
         \/ \E i \in DOMAIN cards :
              /\ Parted(cards, n, i) /\ \A j \in DOMAIN cards \ {i} : ~Parted(cards, n, j)
              /\ DealTag(cards, t, n) = Append(Tagging(cards, t, n),
                   [count |-> FewestFirst(cards, n)[i], tags |-> cards[i].tags \cup {t}])
<1> DEFINE g == FewestFirst(cards, n)
           split == {i \in DOMAIN cards : 0 < g[i] /\ g[i] < cards[i].count}
           p == CHOOSE i \in split : TRUE
<1>1. DealTag(cards, t, n) =
        Tagging(cards, t, n) \o
          IF split = {} THEN <<>> ELSE <<[count |-> g[p], tags |-> cards[p].tags \cup {t}]>>
  <2> DEFINE dealt == [i \in DOMAIN cards |->
               IF i \in split THEN [cards[i] EXCEPT !.count = @ - g[i]]
               ELSE IF g[i] > 0 THEN [cards[i] EXCEPT !.tags = cards[i].tags \cup {t}] ELSE cards[i]]
  <2>1. DealTag(cards, t, n) =
          dealt \o IF split = {} THEN <<>> ELSE <<[count |-> g[p], tags |-> cards[p].tags \cup {t}]>>
    BY Zenon DEF DealTag
  <2>2. dealt = Tagging(cards, t, n)
    BY DEF Tagging, Parted
  <2> QED
    BY <2>1, <2>2, Zenon
<1>0. Len(cards) \in Nat /\ DOMAIN cards = 1..Len(cards) /\ Tagging(cards, t, n) = [i \in 1..Len(cards) |-> Tagging(cards, t, n)[i]]
  BY DeckIsFinite DEF Tagging
<1>a. /\ Tagging(cards, t, n) \o <<>> = Tagging(cards, t, n)
      /\ \A x : Tagging(cards, t, n) \o <<x>> = Append(Tagging(cards, t, n), x)
  <2>1. PICK m, s : m \in Nat /\ Tagging(cards, t, n) = s /\ s = [i \in 1..m |-> s[i]]
    BY <1>0
  <2>2. s \in Seq({s[i] : i \in 1..m})
    BY SMTT(60), <2>1
  <2>3. s \o <<>> = s
    BY <2>2
  <2>4. ASSUME NEW x
        PROVE  s \o <<x>> = Append(s, x)
    <3>1. s \in Seq({s[i] : i \in 1..m} \cup {x}) /\ x \in {s[i] : i \in 1..m} \cup {x}
      BY <2>1
    <3> QED
      BY <3>1
  <2> QED
    BY <2>1, <2>3, <2>4
<1>2. CASE split = {}
  BY <1>1, <1>a, <1>2 DEF Parted
<1>3. CASE split # {}
  <2>1. p \in split
    BY <1>3
  <2>2. p \in DOMAIN cards /\ Parted(cards, n, p)
    BY <2>1 DEF Parted
  <2> HIDE DEF p
  <2>3. \A j \in DOMAIN cards \ {p} : ~Parted(cards, n, j)
    BY <2>2, OneIsParted
  <2> QED
    BY <1>1, <1>a, <1>3, <2>2, <2>3
<1> QED
  BY <1>2, <1>3

(* The copies on the cohorts whose tags are among these sets of tags. *)
Weigh(cards, A) == [i \in DOMAIN cards |-> IF cards[i].tags \in A THEN cards[i].count ELSE 0]
CopiesOn(cards, A) == SumFunctionOnSet(Weigh(cards, A), DOMAIN cards)

(* Of those, what DealTag leaves as it is, and what gets the tag. *)
Keeps(cards, g, A) == [i \in DOMAIN cards |-> IF cards[i].tags \in A THEN cards[i].count - g[i] ELSE 0]
Gives(cards, t, g, A) == [i \in DOMAIN cards |-> IF cards[i].tags \cup {t} \in A THEN g[i] ELSE 0]
KeptAndGiven(cards, t, n, A) ==
  [i \in DOMAIN cards |-> Keeps(cards, FewestFirst(cards, n), A)[i] + Gives(cards, t, FewestFirst(cards, n), A)[i]]

(* What is kept and what is given are counts. *)
LEMMA WeightsAreNat ==
  ASSUME NEW cards \in Seq(Cohort), NEW n \in Nat, NEW t, NEW A
  PROVE  \A i \in DOMAIN cards :
           /\ Weigh(cards, A)[i] \in Nat
           /\ Keeps(cards, FewestFirst(cards, n), A)[i] \in Nat
           /\ Gives(cards, t, FewestFirst(cards, n), A)[i] \in Nat
           /\ KeptAndGiven(cards, t, n, A)[i]
                = Keeps(cards, FewestFirst(cards, n), A)[i] + Gives(cards, t, FewestFirst(cards, n), A)[i]
           /\ KeptAndGiven(cards, t, n, A)[i] \in Nat
<1> TAKE i \in DOMAIN cards
<1>1. PICK a, b \in Nat : a = cards[i].count /\ b = FewestFirst(cards, n)[i] /\ b <= a
  <2>1. cards[i].count \in Nat
    BY DeckIsFinite
  <2>2. FewestFirst(cards, n)[i] \in Nat /\ FewestFirst(cards, n)[i] <= cards[i].count
    BY DrawnFits
  <2> QED
    BY <2>1, <2>2
<1>2. Weigh(cards, A)[i] \in Nat
  BY <1>1 DEF Weigh
<1>3. Keeps(cards, FewestFirst(cards, n), A)[i] \in Nat
  BY <1>1 DEF Keeps
<1>4. Gives(cards, t, FewestFirst(cards, n), A)[i] \in Nat
  BY <1>1 DEF Gives
<1> QED
  BY <1>2, <1>3, <1>4 DEF KeptAndGiven

(* The cards after DealTag, as far as the weights go. *)
LEMMA Retagged ==
  ASSUME NEW cards \in Seq(Cohort), NEW t \in Tags, NEW n \in Nat, NEW i \in DOMAIN cards
  PROVE  /\ Tagging(cards, t, n)[i] \in Cohort
         /\ Parted(cards, n, i) => Tagging(cards, t, n)[i] =
              [count |-> cards[i].count - FewestFirst(cards, n)[i], tags |-> cards[i].tags]
         /\ ~Parted(cards, n, i) /\ FewestFirst(cards, n)[i] > 0 =>
              /\ Tagging(cards, t, n)[i] = [count |-> cards[i].count, tags |-> cards[i].tags \cup {t}]
              /\ FewestFirst(cards, n)[i] = cards[i].count
         /\ ~Parted(cards, n, i) /\ FewestFirst(cards, n)[i] = 0 => Tagging(cards, t, n)[i] = cards[i]
<1>1. PICK a, b, s : a = cards[i].count /\ b = FewestFirst(cards, n)[i] /\ b <= a /\ b \in Nat /\ a \in Nat \ {0}
                     /\ s = cards[i].tags /\ s \subseteq Tags /\ cards[i] = [count |-> a, tags |-> s]
  BY DeckIsFinite, DrawnFits DEF Cohort
<1>2. Parted(cards, n, i) <=> 0 < b /\ b < a
  BY <1>1 DEF Parted
<1>3. Tagging(cards, t, n)[i] = IF Parted(cards, n, i) THEN [count |-> a - b, tags |-> s]
                               ELSE IF b > 0 THEN [count |-> a, tags |-> s \cup {t}] ELSE [count |-> a, tags |-> s]
  <2>1. Tagging(cards, t, n)[i] = IF Parted(cards, n, i) THEN [cards[i] EXCEPT !.count = @ - b]
                               ELSE IF b > 0 THEN [cards[i] EXCEPT !.tags = s \cup {t}] ELSE cards[i]
    BY <1>1, Zenon DEF Tagging
  <2>2. [[count |-> a, tags |-> s] EXCEPT !.count = @ - b] = [count |-> a - b, tags |-> s]
    OBVIOUS
  <2>3. [[count |-> a, tags |-> s] EXCEPT !.tags = s \cup {t}] = [count |-> a, tags |-> s \cup {t}]
    <3>1. \A u : [[count |-> a, tags |-> s] EXCEPT !.tags = u] = [count |-> a, tags |-> u]
      OBVIOUS
    <3> QED
      BY <3>1
  <2>4. cards[i] = [count |-> a, tags |-> s]
    BY <1>1
  <2> QED
    BY <2>1, <2>2, <2>3, <2>4, Zenon
<1>4. b <= a /\ b \in Nat /\ a \in Nat \ {0} /\ s \cup {t} \subseteq Tags
  BY <1>1
<1>5. Tagging(cards, t, n)[i] \in Cohort
  BY <1>1, <1>2, <1>3, <1>4 DEF Cohort
<1> QED
  BY <1>1, <1>2, <1>3, <1>4, <1>5

(* DealTag keeps or gives the tag to every copy: what the cards then weigh. *)
LEMMA DealWeights ==
  ASSUME NEW cards \in Seq(Cohort), NEW t \in Tags, NEW n \in Nat, NEW A
  PROVE  CopiesOn(DealTag(cards, t, n), A) = SumFunctionOnSet(KeptAndGiven(cards, t, n, A), DOMAIN cards)
<1> DEFINE g == FewestFirst(cards, n)
           dealt == Tagging(cards, t, n)
           kg == KeptAndGiven(cards, t, n, A)
           D == DOMAIN cards
<1>1. IsFiniteSet(D) /\ D = 1..Len(cards) /\ Len(cards) \in Nat
  BY DeckIsFinite
<1>2. DOMAIN dealt = D /\ dealt \in Seq(Cohort) /\ Len(dealt) = Len(cards)
  <2>1. DOMAIN dealt = D
    BY DEF Tagging
  <2>2. \A i \in D : dealt[i] \in Cohort
    BY Retagged
  <2>3. dealt = [i \in 1..Len(cards) |-> dealt[i]]
    BY <1>1, <2>1 DEF Tagging
  <2> HIDE DEF dealt, D
  <2>4. dealt \in [1..Len(cards) -> Cohort]
    BY <1>1, <2>2, <2>3
  <2> QED
    BY <1>1, <2>1, <2>4
<1>3. \A i \in D : /\ kg[i] = Keeps(cards, g, A)[i] + Gives(cards, t, g, A)[i] /\ kg[i] \in Nat
                   /\ Keeps(cards, g, A)[i] \in Nat /\ Gives(cards, t, g, A)[i] \in Nat
  BY WeightsAreNat
<1>4. ASSUME NEW i \in D, ~Parted(cards, n, i)
      PROVE  Weigh(dealt, A)[i] = kg[i]
  <2>1. PICK a, b, s : a \in Nat /\ b \in Nat /\ a = cards[i].count /\ b = g[i] /\ s = cards[i].tags
    <3>1. cards[i].count \in Nat
      BY DeckIsFinite
    <3>2. FewestFirst(cards, n)[i] \in Nat
      BY DrawnFits
    <3> QED
      BY <3>1, <3>2
  <2>2. kg[i] = (IF s \in A THEN a - b ELSE 0) + (IF s \cup {t} \in A THEN b ELSE 0)
    BY <1>3, <2>1 DEF Keeps, Gives
  <2>3. Weigh(dealt, A)[i] = IF dealt[i].tags \in A THEN dealt[i].count ELSE 0
    BY <1>2 DEF Weigh
  <2>4. CASE b = 0
    <3>1. ~Parted(cards, n, i) /\ FewestFirst(cards, n)[i] = 0 => dealt[i] = cards[i]
      BY ZenonT(60), Retagged
    <3>2. dealt[i] = cards[i]
      BY <1>4, <2>1, <2>4, <3>1
    <3> HIDE DEF kg, dealt, g, D
    <3> QED
      BY <2>1, <2>2, <2>3, <2>4, <3>2
  <2>5. CASE b > 0
    <3>1. ~Parted(cards, n, i) /\ FewestFirst(cards, n)[i] > 0 =>
            dealt[i] = [count |-> cards[i].count, tags |-> cards[i].tags \cup {t}] /\ g[i] = cards[i].count
      BY Retagged
    <3>2. dealt[i] = [count |-> a, tags |-> s \cup {t}] /\ b = a
      BY <1>4, <2>1, <2>5, <3>1
    <3> HIDE DEF kg, dealt, g, D
    <3> QED
      BY <2>1, <2>2, <2>3, <2>5, <3>2
  <2> QED
    BY <2>1, <2>4, <2>5
<1>5. ASSUME NEW i \in D, Parted(cards, n, i)
      PROVE  Weigh(dealt, A)[i] = Keeps(cards, g, A)[i]
  <2>1. dealt[i] = [count |-> cards[i].count - g[i], tags |-> cards[i].tags]
    BY ZenonT(60), <1>5, Retagged
  <2> HIDE DEF dealt, g
  <2> QED
    BY <1>2, <2>1 DEF Weigh, Keeps
<1>6. CASE (\A i \in DOMAIN cards : ~Parted(cards, n, i)) /\ DealTag(cards, t, n) = Tagging(cards, t, n)
  <2>1. \A i \in D : Weigh(dealt, A)[i] = kg[i]
    BY <1>4, <1>6
  <2>2. SumFunctionOnSet(Weigh(dealt, A), D) = SumFunctionOnSet(kg, D)
    <3> HIDE DEF dealt, kg, D
    <3> QED
      BY <1>1, <2>1, SumAgree
  <2> QED
    BY <1>2, <1>6, <2>2 DEF CopiesOn
<1>7. ASSUME NEW p \in DOMAIN cards, Parted(cards, n, p), \A j \in DOMAIN cards \ {p} : ~Parted(cards, n, j),
             DealTag(cards, t, n) = Append(Tagging(cards, t, n),
                   [count |-> FewestFirst(cards, n)[p], tags |-> cards[p].tags \cup {t}])
      PROVE  CopiesOn(DealTag(cards, t, n), A) = SumFunctionOnSet(kg, DOMAIN cards)
  <2> DEFINE new == [count |-> g[p], tags |-> cards[p].tags \cup {t}]
             all == DealTag(cards, t, n)
             last == Len(cards) + 1
             w == Weigh(all, A)
  <2>1. DOMAIN all = D \cup {last} /\ last \notin D /\ all[last] = new /\ \A i \in D : all[i] = dealt[i]
    <3> HIDE DEF new, D
    <3>1. all = Append(dealt, new)
      BY <1>7 DEF new
    <3> HIDE DEF all, dealt
    <3>2. DOMAIN all = 1..(Len(cards) + 1) /\ all[Len(cards) + 1] = new /\ \A i \in 1..Len(cards) : all[i] = dealt[i]
      BY SMTT(60), <1>1, <1>2, <3>1
    <3> QED
      BY <1>1, <3>2
  <2>2. w[last] = Gives(cards, t, g, A)[p]
    <3> HIDE DEF all, g, last, D
    <3>1. last \in DOMAIN all /\ all[last].tags = cards[p].tags \cup {t} /\ all[last].count = g[p]
      BY <2>1
    <3> QED
      BY <3>1 DEF Weigh, Gives
  <2>3. \A i \in D : w[i] = Weigh(dealt, A)[i]
    <3> HIDE DEF all, dealt
    <3> QED
      BY <1>2, <2>1 DEF Weigh
  <2>4. \A i \in D \ {p} : w[i] = kg[i]
    BY <1>4, <1>7, <2>3
  <2>5. w[p] = Keeps(cards, g, A)[p] /\ w[p] \in Nat /\ kg[p] = w[p] + w[last] /\ w[last] \in Nat
    BY <1>3, <1>5, <1>7, <2>2, <2>3
  <2>6. CopiesOn(all, A) = SumFunctionOnSet(w, D \cup {last})
    BY <2>1 DEF CopiesOn
  <2> HIDE DEF all, w, kg, D, dealt, g, last, new
  <2>7. IsFiniteSet(D \cup {last}) /\ \A i \in D \cup {last} : w[i] \in Nat
    <3>1. IsFiniteSet(D \cup {last})
      BY <1>1, FS_AddElement
    <3> QED
      BY <1>3, <2>4, <2>5, <3>1
  <2>8. SumFunctionOnSet(w, D \cup {last}) = w[last] + SumFunctionOnSet(w, D)
    <3>1. (D \cup {last}) \ {last} = D /\ last \in D \cup {last}
      BY <2>1
    <3> QED
      BY <2>7, <3>1, SumTake
  <2>9. p \in D
    BY <1>7 DEF D
  <2>10. SumFunctionOnSet(kg, D) = SumFunctionOnSet(w, D) - w[p] + kg[p] /\ SumFunctionOnSet(w, D) \in Nat
    <3>1. kg[p] \in Nat /\ \A i \in D : w[i] \in Nat
      BY <1>3, <2>7, <2>9
    <3>2. \A i \in D \ {p} : kg[i] = w[i]
      BY <2>4
    <3>3. IsFiniteSet(D)
      BY <1>1
    <3>4. \A S, f, h : \A x \in S :
            IsFiniteSet(S) /\ h[x] \in Nat /\ (\A y \in S : f[y] \in Nat) /\ (\A y \in S \ {x} : h[y] = f[y])
              => SumFunctionOnSet(h, S) = SumFunctionOnSet(f, S) - f[x] + h[x] /\ SumFunctionOnSet(f, S) \in Nat
      BY SumChange
    <3> QED
      BY <2>9, <3>1, <3>2, <3>3, <3>4
  <2>11. CopiesOn(all, A) = SumFunctionOnSet(kg, D)
    BY <2>5, <2>6, <2>8, <2>10
  <2> QED
    BY <2>11 DEF all, D
<1> QED
  BY <1>6, <1>7, DealTagIs

(* A deck stays one, and the tag is all that comes to its cards. *)
LEMMA DeckKept ==
  ASSUME NEW cards, Deck(cards), NEW t \in Tags, NEW n \in Nat,
         NEW U \in SUBSET Tags, t \notin U, \A i \in DOMAIN cards : cards[i].tags \subseteq U
  PROVE  Deck(DealTag(cards, t, n)) /\ \A i \in DOMAIN DealTag(cards, t, n) : DealTag(cards, t, n)[i].tags \subseteq U \cup {t}
<1> DEFINE g == FewestFirst(cards, n)
           dealt == Tagging(cards, t, n)
           D == DOMAIN cards
<1>1. cards \in Seq(Cohort) /\ D = 1..Len(cards) /\ Len(cards) \in Nat
  BY DeckIsFinite DEF Deck
<1>2. DOMAIN dealt = D /\ dealt = [i \in D |-> dealt[i]]
  BY DEF Tagging
<1>3. ASSUME NEW i \in D
      PROVE  /\ dealt[i] \in Cohort
             /\ dealt[i].tags = cards[i].tags \/ dealt[i].tags = cards[i].tags \cup {t}
             /\ Parted(cards, n, i) => dealt[i].tags = cards[i].tags /\ g[i] \in Nat \ {0}
  <2>1. /\ dealt[i] \in Cohort
        /\ Parted(cards, n, i) => dealt[i] =
             [count |-> cards[i].count - FewestFirst(cards, n)[i], tags |-> cards[i].tags]
        /\ ~Parted(cards, n, i) /\ FewestFirst(cards, n)[i] > 0 =>
             dealt[i] = [count |-> cards[i].count, tags |-> cards[i].tags \cup {t}]
        /\ ~Parted(cards, n, i) /\ FewestFirst(cards, n)[i] = 0 => dealt[i] = cards[i]
    BY <1>1, Retagged
  <2>2. g[i] \in Nat
    BY <1>1, DrawnFits
  <2>3. Parted(cards, n, i) => g[i] > 0
    BY DEF Parted
  <2> HIDE DEF dealt
  <2> QED
    BY <2>1, <2>2, <2>3
<1>a. \A i, j \in D : cards[i].tags = cards[j].tags => i = j
  BY DEF Deck
<1>b. ASSUME NEW i \in D, NEW j \in D
      PROVE  /\ cards[i].tags \cup {t} # cards[j].tags
             /\ cards[i].tags \cup {t} = cards[j].tags \cup {t} => i = j
  <2>1. t \notin cards[i].tags /\ t \notin cards[j].tags
    OBVIOUS
  <2>2. cards[i].tags \cup {t} = cards[j].tags \cup {t} => cards[i].tags = cards[j].tags
    BY <2>1, Zenon
  <2> QED
    BY <1>a, <2>1, <2>2, Zenon
<1>4. \A i, j \in D : dealt[i].tags = dealt[j].tags => i = j
  <2> HIDE DEF dealt, D
  <2> TAKE i, j \in D
  <2>1. dealt[i].tags = cards[i].tags \/ dealt[i].tags = cards[i].tags \cup {t}
    BY <1>3
  <2>2. dealt[j].tags = cards[j].tags \/ dealt[j].tags = cards[j].tags \cup {t}
    BY <1>3
  <2> QED
    BY <1>a, <1>b, <2>1, <2>2, Zenon
<1>5. dealt \in Seq(Cohort)
  <2>1. dealt \in [1..Len(cards) -> Cohort]
    <3> HIDE DEF dealt, D
    <3> QED
      BY <1>1, <1>2, <1>3
  <2> QED
    BY <1>1, <2>1
<1>6. \A i \in D : dealt[i].tags \subseteq U \cup {t}
  BY <1>3
<1>7. CASE DealTag(cards, t, n) = dealt
  BY <1>2, <1>4, <1>5, <1>6, <1>7 DEF Deck
<1>8. ASSUME NEW p \in DOMAIN cards, Parted(cards, n, p),
             DealTag(cards, t, n) = Append(dealt, [count |-> g[p], tags |-> cards[p].tags \cup {t}])
      PROVE  Deck(DealTag(cards, t, n)) /\ \A i \in DOMAIN DealTag(cards, t, n) : DealTag(cards, t, n)[i].tags \subseteq U \cup {t}
  <2> DEFINE new == [count |-> g[p], tags |-> cards[p].tags \cup {t}]
             all == DealTag(cards, t, n)
             last == Len(cards) + 1
  <2>1. new \in Cohort
    BY <1>3, <1>8 DEF Cohort
  <2>2. new.tags = cards[p].tags \cup {t} /\ new.tags \subseteq U \cup {t}
    BY <1>8
  <2>3. all \in Seq(Cohort) /\ DOMAIN all = D \cup {last} /\ last \notin D /\ all[last] = new
        /\ \A i \in D : all[i] = dealt[i]
    <3>1. all = Append(dealt, new)
      BY <1>8
    <3>2. Len(dealt) = Len(cards)
      BY <1>1, <1>2, <1>5
    <3> HIDE DEF new, D, all, dealt, last
    <3>3. all \in Seq(Cohort) /\ DOMAIN all = 1..(Len(cards) + 1) /\ all[Len(cards) + 1] = new /\ \A i \in 1..Len(cards) : all[i] = dealt[i]
      BY <1>1, <1>2, <1>5, <2>1, <3>1, <3>2
    <3> QED
      BY <1>1, <3>3 DEF last
  <2>4. \A i \in D : dealt[i].tags # new.tags
    <3> TAKE i \in D
    <3>1. CASE i = p
      BY <1>3, <1>8, <2>2, <3>1
    <3>2. CASE i # p
      <4>1. dealt[i].tags = cards[i].tags \/ dealt[i].tags = cards[i].tags \cup {t}
        BY <1>3
      <4>2. cards[i].tags # cards[p].tags \cup {t} /\ cards[i].tags \cup {t} # cards[p].tags \cup {t}
        BY <1>b, <3>2
      <4> HIDE DEF dealt, new
      <4> QED
        BY <2>2, <4>1, <4>2, Zenon
    <3> QED
      BY <3>1, <3>2
  <2> HIDE DEF new, D, all, dealt, last
  <2>5. \A i, j \in DOMAIN all : all[i].tags = all[j].tags => i = j
    BY <1>4, <2>3, <2>4
  <2>6. \A i \in DOMAIN all : all[i].tags \subseteq U \cup {t}
    BY <1>6, <2>2, <2>3
  <2> QED
    BY <2>3, <2>5, <2>6 DEF Deck, all
<1> QED
  BY <1>1, <1>7, <1>8, DealTagIs

(* Where the tag makes no difference the copies stay as many. *)
LEMMA SameWeight ==
  ASSUME NEW cards \in Seq(Cohort), NEW t \in Tags, NEW n \in Nat, NEW A,
         \A i \in DOMAIN cards : cards[i].tags \in A <=> cards[i].tags \cup {t} \in A
  PROVE  CopiesOn(DealTag(cards, t, n), A) = CopiesOn(cards, A)
<1> DEFINE kg == KeptAndGiven(cards, t, n, A)
           g == FewestFirst(cards, n)
<1>1. ASSUME NEW i \in DOMAIN cards
      PROVE  kg[i] = Weigh(cards, A)[i]
  <2>1. cards[i].count \in Nat
    BY DeckIsFinite
  <2>2. g[i] \in Nat
    BY DrawnFits
  <2>3. kg[i] = Keeps(cards, g, A)[i] + Gives(cards, t, g, A)[i]
    BY WeightsAreNat
  <2> HIDE DEF kg, g
  <2> QED
    BY <2>1, <2>2, <2>3 DEF Keeps, Gives, Weigh
<1>2. SumFunctionOnSet(kg, DOMAIN cards) = SumFunctionOnSet(Weigh(cards, A), DOMAIN cards)
  <2>1. IsFiniteSet(DOMAIN cards)
    BY DeckIsFinite
  <2> HIDE DEF kg
  <2> QED
    BY <1>1, <2>1, SumAgree
<1> QED
  BY <1>2, DealWeights DEF CopiesOn

(* The sum of all counts, and of the counts of all cohorts. *)
LEMMA AllCopies ==
  ASSUME NEW cards \in Seq(Cohort)
  PROVE  /\ SumFunctionOnSet(Counts(cards), DOMAIN cards) = CopiesOn(cards, SUBSET Tags)
         /\ \A A : CopiesOn(cards, A) \in Nat
<1>1. IsFiniteSet(DOMAIN cards) /\ \A i \in DOMAIN cards : Counts(cards)[i] = Weigh(cards, SUBSET Tags)[i]
  BY DeckIsFinite DEF Counts, Weigh
<1>2. ASSUME NEW A
      PROVE  CopiesOn(cards, A) \in Nat
  <2>1. \A i \in DOMAIN cards : Weigh(cards, A)[i] \in Nat
    BY WeightsAreNat
  <2> QED
    BY <1>1, <2>1, SumIsNat DEF CopiesOn
<1> QED
  BY <1>1, <1>2, SumAgree DEF CopiesOn

(* The tag comes to as many copies as it is dealt to. *)
LEMMA NewTagWeight ==
  ASSUME NEW cards \in Seq(Cohort), NEW t \in Tags, NEW n \in Nat, \A i \in DOMAIN cards : t \notin cards[i].tags
  PROVE  CopiesOn(DealTag(cards, t, n), {T \in SUBSET Tags : t \in T}) = AtMost(n, CopiesOn(cards, SUBSET Tags))
<1> DEFINE A == {T \in SUBSET Tags : t \in T}
           kg == KeptAndGiven(cards, t, n, A)
           g == FewestFirst(cards, n)
<1>1. ASSUME NEW i \in DOMAIN cards
      PROVE  kg[i] = g[i]
  <2>1. cards[i].tags \subseteq Tags
    BY DeckIsFinite
  <2>2. g[i] \in Nat
    BY DrawnFits
  <2>3. kg[i] = Keeps(cards, g, A)[i] + Gives(cards, t, g, A)[i]
    BY WeightsAreNat
  <2>4. cards[i].tags \notin A /\ cards[i].tags \cup {t} \in A
    BY <2>1
  <2> HIDE DEF kg, g, A
  <2> QED
    BY <2>2, <2>3, <2>4 DEF Keeps, Gives
<1>2. SumFunctionOnSet(kg, DOMAIN cards) = SumFunctionOnSet(g, DOMAIN cards)
  <2>1. IsFiniteSet(DOMAIN cards)
    BY DeckIsFinite
  <2> HIDE DEF kg, g
  <2> QED
    BY <1>1, <2>1, SumAgree
<1>3. SumFunctionOnSet(g, DOMAIN cards) = AtMost(n, SumFunctionOnSet(Counts(cards), DOMAIN cards))
  <2>1. \A i \in DOMAIN cards : Earlier(cards, i) \subseteq DOMAIN cards
    BY DEF Earlier
  <2> QED
    BY <2>1, FewestFirstDraws
<1> QED
  BY <1>2, <1>3, AllCopies, DealWeights

(* A sum to which only one member adds. *)
LEMMA SumOfOne ==
  ASSUME NEW f, NEW S, IsFiniteSet(S), NEW x \in S, f[x] \in Nat, \A y \in S \ {x} : f[y] = 0
  PROVE  SumFunctionOnSet(f, S) = f[x]
<1>1. \A y \in S : f[y] \in Nat
  OBVIOUS
<1>2. SumFunctionOnSet(f, S) = f[x] + SumFunctionOnSet(f, S \ {x})
  BY <1>1, SumTake
<1>3. IsFiniteSet(S \ {x})
  BY FS_Subset
<1>4. SumFunctionOnSet(f, S \ {x}) = 0
  BY <1>3, SumOfZeros
<1> QED
  BY <1>2, <1>4

(* What is left without a tag. *)
LEMMA UntaggedWeight ==
  ASSUME NEW cards, Deck(cards), NEW t \in Tags, NEW n \in Nat
  PROVE  CopiesOn(DealTag(cards, t, n), {{}}) = CopiesOn(cards, {{}}) - AtMost(n, CopiesOn(cards, {{}}))
<1> DEFINE kg == KeptAndGiven(cards, t, n, {{}})
           g == FewestFirst(cards, n)
           w == Weigh(cards, {{}})
           D == DOMAIN cards
<1>1. cards \in Seq(Cohort) /\ IsFiniteSet(D)
  BY DeckIsFinite DEF Deck
<1>2. ASSUME NEW i \in D
      PROVE  /\ w[i] = IF cards[i].tags = {} THEN cards[i].count ELSE 0
             /\ kg[i] = IF cards[i].tags = {} THEN cards[i].count - g[i] ELSE 0
             /\ g[i] \in Nat /\ g[i] <= cards[i].count /\ cards[i].count \in Nat
  <2>1. cards[i].count \in Nat
    BY <1>1, DeckIsFinite
  <2>2. g[i] \in Nat /\ g[i] <= cards[i].count
    BY <1>1, DrawnFits
  <2>3. kg[i] = Keeps(cards, g, {{}})[i] + Gives(cards, t, g, {{}})[i]
    BY <1>1, WeightsAreNat
  <2>4. Gives(cards, t, g, {{}})[i] = 0
    BY DEF Gives
  <2>5. Keeps(cards, g, {{}})[i] = IF cards[i].tags = {} THEN cards[i].count - g[i] ELSE 0
    BY DEF Keeps
  <2>6. w[i] = IF cards[i].tags = {} THEN cards[i].count ELSE 0
    BY DEF Weigh
  <2> HIDE DEF kg, g, w
  <2> QED
    BY <2>1, <2>2, <2>3, <2>4, <2>5, <2>6
<1>3. CopiesOn(DealTag(cards, t, n), {{}}) = SumFunctionOnSet(kg, D) /\ CopiesOn(cards, {{}}) = SumFunctionOnSet(w, D)
  BY <1>1, DealWeights DEF CopiesOn
<1>4. CASE \A i \in D : cards[i].tags # {}
  <2>1. (\A i \in D : kg[i] = 0) /\ (\A i \in D : w[i] = 0)
    BY <1>2, <1>4
  <2>2. SumFunctionOnSet(kg, D) = 0 /\ SumFunctionOnSet(w, D) = 0
    <3> HIDE DEF kg, w, D
    <3> QED
      BY <1>1, <2>1, SumOfZeros
  <2> QED
    BY <1>3, <2>2 DEF AtMost
<1>5. ASSUME NEW p \in D, cards[p].tags = {}
      PROVE  CopiesOn(DealTag(cards, t, n), {{}}) = CopiesOn(cards, {{}}) - AtMost(n, CopiesOn(cards, {{}}))
  <2>1. \A i \in D \ {p} : cards[i].tags # {}
    BY <1>5 DEF Deck
  <2>2. (\A i \in D \ {p} : kg[i] = 0) /\ (\A i \in D \ {p} : w[i] = 0)
    BY <1>2, <2>1
  <2>3. w[p] = cards[p].count /\ kg[p] = cards[p].count - g[p] /\ w[p] \in Nat /\ kg[p] \in Nat
    BY <1>2, <1>5
  <2>4. SumFunctionOnSet(kg, D) = kg[p] /\ SumFunctionOnSet(w, D) = w[p]
    <3> HIDE DEF kg, w, D
    <3> QED
      BY <1>1, <2>2, <2>3, SumOfOne
  <2>5. Earlier(cards, p) = {}
    <3>1. ASSUME NEW j \in D, FewerTags(cards, j, p)
          PROVE  FALSE
      <4>1. Cardinality(cards[p].tags) = 0
        BY <1>5, FS_EmptySet
      <4>2. IsFiniteSet(cards[j].tags) /\ Cardinality(cards[j].tags) \in Nat
        BY <1>1, DeckIsFinite, TagsAreFinite
      <4>3. cards[j].tags = {} /\ j < p
        BY <3>1, <4>1, <4>2, FS_EmptySet DEF FewerTags
      <4>4. j \in Int /\ p \in Int
        BY <1>1, DeckIsFinite
      <4> QED
        BY <2>1, <4>3, <4>4
    <3> QED
      BY <3>1 DEF Earlier
  <2>6. g[p] = AtMost(n, cards[p].count)
    <3>1. g[p] = Drawn(n - SumFunctionOnSet(Counts(cards), {}), cards[p].count)
      BY <1>1, <2>5, DrawnFits
    <3>2. SumFunctionOnSet(Counts(cards), {}) = 0
      BY SumOfNone
    <3> HIDE DEF g
    <3> QED
      BY <3>1, <3>2 DEF Drawn
  <2> HIDE DEF kg, w, D, g
  <2> QED
    BY <1>3, <2>3, <2>4, <2>6
<1> QED
  BY <1>4, <1>5

(* The least of some numbers: the induction over numbers. *)
LEMMA LeastNat ==
  ASSUME NEW B \in SUBSET Nat, B # {}
  PROVE  \E n \in B : \A m \in B : n <= m
<1>1. PICK n \in B : \A m \in B : ~(<<m, n>> \in OpToRel(<, Nat))
  BY WFMin, NatLessThanWellFounded
<1> QED
  BY <1>1, LessIn

(* What the cards are after the first k tags. *)
Upto(k) == {TagOrder[i] : i \in 1..k}
Shown(count, tagCount) == [t \in Tags |-> AtMost(tagCount[t], count)]
With(t) == {T \in SUBSET Tags : t \in T}
Dealt(cards, count, tagCount, k) ==
  /\ Deck(cards)
  /\ \A i \in DOMAIN cards : cards[i].tags \subseteq Upto(k)
  /\ CopiesOn(cards, SUBSET Tags) = count
  /\ \A t \in Upto(k) : CopiesOn(cards, With(t)) = AtMost(tagCount[t], count)
  /\ CopiesOn(cards, {{}}) = count - AtMost(SumFunctionOnSet(Shown(count, tagCount), Upto(k)), count)

FirstCards(count) == IF count > 0 THEN <<[count |-> count, tags |-> {}]>> ELSE <<>>

(* Before any tag is dealt there is one card with all the copies, or none. *)
LEMMA NoneDealt ==
  ASSUME NEW count \in Nat, NEW tagCount
  PROVE  Dealt(FirstCards(count), count, tagCount, 0)
<1> DEFINE cards == FirstCards(count)
<1>1. Upto(0) = {}
  BY DEF Upto
<1>2. SumFunctionOnSet(Shown(count, tagCount), {}) = 0
  BY SumOfNone
<1>a. count - AtMost(SumFunctionOnSet(Shown(count, tagCount), Upto(0)), count) = count
  BY <1>1, <1>2 DEF AtMost
<1>b. ASSUME Deck(cards), \A i \in DOMAIN cards : cards[i].tags = {},
             CopiesOn(cards, SUBSET Tags) = count, CopiesOn(cards, {{}}) = count
      PROVE  Dealt(FirstCards(count), count, tagCount, 0)
  <2>1. \A i \in DOMAIN cards : cards[i].tags \subseteq Upto(0)
    BY <1>b
  <2>2. \A t \in Upto(0) : CopiesOn(cards, With(t)) = AtMost(tagCount[t], count)
    BY <1>1
  <2>3. CopiesOn(cards, {{}}) = count - AtMost(SumFunctionOnSet(Shown(count, tagCount), Upto(0)), count)
    BY <1>a, <1>b
  <2> QED
    BY <1>b, <2>1, <2>2, <2>3, Zenon DEF Dealt
<1>3. CASE count = 0
  <2>1. cards = <<>>
    BY <1>3 DEF FirstCards
  <2>2. DOMAIN cards = {} /\ cards \in Seq(Cohort)
    <3> HIDE DEF cards
    <3> QED
      BY <2>1
  <2>3. ASSUME NEW A
        PROVE  CopiesOn(cards, A) = 0
    <3>1. CopiesOn(cards, A) = SumFunctionOnSet(Weigh(cards, A), {})
      BY <2>2 DEF CopiesOn
    <3> QED
      BY <3>1, SumOfNone
  <2>4. CopiesOn(cards, SUBSET Tags) = 0 /\ CopiesOn(cards, {{}}) = 0
    BY <2>3
  <2>5. Deck(cards) /\ \A i \in DOMAIN cards : cards[i].tags = {}
    <3> HIDE DEF cards
    <3> QED
      BY <2>2 DEF Deck
  <2> QED
    BY <1>b, <1>3, <2>4, <2>5, Zenon
<1>4. CASE count > 0
  <2>1. cards = <<[count |-> count, tags |-> {}]>>
    BY <1>4 DEF FirstCards
  <2>2. DOMAIN cards = {1} /\ cards \in Seq(Cohort) /\ cards[1].tags = {} /\ cards[1].count = count
    <3>1. [count |-> count, tags |-> {}] \in Cohort
      BY <1>4 DEF Cohort
    <3> HIDE DEF cards
    <3> QED
      BY <2>1, <3>1
  <2>3. ASSUME NEW A, {} \in A
        PROVE  CopiesOn(cards, A) = count
    <3> DEFINE w == Weigh(cards, A)
    <3>1. w[1] = count
      BY <2>2, <2>3 DEF Weigh
    <3>2. IsFiniteSet({1})
      BY FS_Singleton
    <3>3. SumFunctionOnSet(w, {1}) = w[1]
      <4> HIDE DEF w
      <4> QED
        BY <3>1, <3>2, SumOfOne
    <3> QED
      BY <2>2, <3>1, <3>3 DEF CopiesOn
  <2>4. CopiesOn(cards, SUBSET Tags) = count /\ CopiesOn(cards, {{}}) = count
    BY <2>3
  <2>5. Deck(cards) /\ \A i \in DOMAIN cards : cards[i].tags = {}
    <3> HIDE DEF cards
    <3> QED
      BY <2>2 DEF Deck
  <2> QED
    BY <1>b, <2>4, <2>5, Zenon
<1> QED
  BY <1>3, <1>4

(* One more tag. *)
LEMMA DealtNext ==
  ASSUME NEW cards, NEW count \in Nat, NEW tagCount \in [Tags -> Nat], NEW k \in 1..Len(TagOrder),
         Dealt(cards, count, tagCount, k - 1)
  PROVE  Dealt(DealTag(cards, TagOrder[k], AtMost(tagCount[TagOrder[k]], count)), count, tagCount, k)
<1> DEFINE t == TagOrder[k]
           n == AtMost(tagCount[t], count)
           U == Upto(k - 1)
           after == DealTag(cards, t, n)
           f == Shown(count, tagCount)
<1>0. Len(TagOrder) \in Nat /\ DOMAIN TagOrder = 1..Len(TagOrder)
  BY OrderAssumption DEF OrderAssumption
<1>1. t \in Tags /\ U \in SUBSET Tags /\ t \notin U /\ Upto(k) = U \cup {t}
  <2>1. \A i \in 1..(k - 1) : i \in DOMAIN TagOrder /\ i # k
    BY <1>0
  <2>2. k \in DOMAIN TagOrder
    BY <1>0
  <2>3. \A i \in 1..(k - 1) : TagOrder[i] # TagOrder[k]
    BY <2>1, <2>2, OrderAssumption DEF OrderAssumption
  <2>4. \A i : i \in 1..k <=> i \in 1..(k - 1) \/ i = k
    OBVIOUS
  <2> QED
    BY <2>1, <2>2, <2>3, <2>4 DEF Upto, Tags
<1>2. n \in Nat /\ n <= count
  BY <1>1 DEF AtMost
<1>3. Deck(cards) /\ cards \in Seq(Cohort) /\ \A i \in DOMAIN cards : cards[i].tags \subseteq U
  BY DEF Dealt, Deck
<1> HIDE DEF t, n, U, after, f
<1>4. Deck(after) /\ \A i \in DOMAIN after : after[i].tags \subseteq U \cup {t}
  BY <1>1, <1>2, <1>3, DeckKept DEF after
<1>5. CopiesOn(cards, SUBSET Tags) = count
  BY DEF Dealt
<1>6. CopiesOn(after, SUBSET Tags) = count
  <2>1. \A i \in DOMAIN cards : cards[i].tags \subseteq Tags
    BY <1>3, DeckIsFinite
  <2>2. \A i \in DOMAIN cards : cards[i].tags \in SUBSET Tags <=> cards[i].tags \cup {t} \in SUBSET Tags
    BY <1>1, <2>1
  <2> QED
    BY SMTT(60), <1>1, <1>2, <1>3, <1>5, <2>2, SameWeight DEF after
<1>7. CopiesOn(after, With(t)) = AtMost(tagCount[t], count)
  <2>1. CopiesOn(after, With(t)) = AtMost(n, count)
    <3>1. \A i \in DOMAIN cards : t \notin cards[i].tags
      BY <1>1, <1>3
    <3>2. CopiesOn(after, With(t)) = AtMost(n, CopiesOn(cards, SUBSET Tags))
      BY <1>1, <1>2, <1>3, <3>1, NewTagWeight DEF after, With
    <3> QED
      BY <1>5, <3>2
  <2> QED
    BY <1>2, <2>1 DEF n, AtMost
<1>8. ASSUME NEW u \in U
      PROVE  CopiesOn(after, With(u)) = AtMost(tagCount[u], count)
  <2>1. CopiesOn(cards, With(u)) = AtMost(tagCount[u], count)
    BY <1>8 DEF Dealt, U
  <2>2. ASSUME NEW i \in DOMAIN cards
        PROVE  cards[i].tags \in With(u) <=> cards[i].tags \cup {t} \in With(u)
    <3>1. cards[i].tags \subseteq Tags /\ u # t
      BY <1>1, <1>3, <1>8, DeckIsFinite
    <3> QED
      BY <1>1, <3>1 DEF With
  <2>3. CopiesOn(after, With(u)) = CopiesOn(cards, With(u))
    BY ZenonT(60), <1>1, <1>2, <1>3, <2>2, SameWeight DEF after
  <2> QED
    BY <2>1, <2>3
<1>9. CopiesOn(after, {{}}) = count - AtMost(SumFunctionOnSet(f, Upto(k)), count)
  <2>1. IsFiniteSet(Upto(k)) /\ IsFiniteSet(U) /\ \A x \in Upto(k) : f[x] \in Nat
    <3>1. IsFiniteSet(Upto(k)) /\ IsFiniteSet(U) /\ Upto(k) \subseteq Tags
      BY <1>1, TagsAreFinite, FS_Subset
    <3>2. \A x \in Tags : f[x] \in Nat
      BY DEF f, Shown, AtMost
    <3> QED
      BY <3>1, <3>2
  <2>2. SumFunctionOnSet(f, Upto(k)) = f[t] + SumFunctionOnSet(f, U)
    <3>1. Upto(k) \ {t} = U /\ t \in Upto(k)
      BY <1>1
    <3>2. \A y \in Upto(k) : SumFunctionOnSet(f, Upto(k)) = f[y] + SumFunctionOnSet(f, Upto(k) \ {y})
      BY <2>1, SumTake
    <3> QED
      BY <3>1, <3>2
  <2>3. SumFunctionOnSet(f, U) \in Nat
    BY <1>1, <2>1, SumIsNat
  <2>4. f[t] = n
    BY <1>1 DEF f, n, Shown
  <2>5. CopiesOn(cards, {{}}) = count - AtMost(SumFunctionOnSet(f, U), count)
    BY DEF Dealt, f, U
  <2>6. CopiesOn(after, {{}}) = CopiesOn(cards, {{}}) - AtMost(n, CopiesOn(cards, {{}}))
    BY <1>1, <1>2, <1>3, UntaggedWeight DEF after
  <2>7. PICK a, b, c \in Int : a = SumFunctionOnSet(f, U) /\ b = SumFunctionOnSet(f, Upto(k)) /\ c = CopiesOn(cards, {{}})
                               /\ a \in Nat /\ b = n + a
    BY <1>2, <2>2, <2>3, <2>4, <2>5 DEF AtMost
  <2> QED
    BY SMTT(60), <1>2, <2>5, <2>6, <2>7 DEF AtMost
<1>10. Dealt(after, count, tagCount, k)
  BY <1>1, <1>4, <1>6, <1>7, <1>8, <1>9 DEF Dealt, f
<1> QED
  BY <1>10 DEF after, t, n

(* The cards after each tag up to m. *)
NextCards(cards, count, tagCount, k) == DealTag(cards, TagOrder[k], AtMost(tagCount[TagOrder[k]], count))
Deals(f, m, count, tagCount) ==
  f = [k \in 0..m |-> IF k = 0 THEN FirstCards(count) ELSE NextCards(f[k - 1], count, tagCount, k)]

(* The recursive function that deals one tag after the other: there is one for any number of tags. *)
LEMMA DealsExist ==
  ASSUME NEW count, NEW tagCount, NEW m \in Nat
  PROVE  \E f : Deals(f, m, count, tagCount)
<1> DEFINE Bad == {k \in Nat : ~ \E f : Deals(f, k, count, tagCount)}
<1> SUFFICES ASSUME Bad # {} PROVE FALSE
  OBVIOUS
<1>1. PICK k \in Bad : \A j \in Bad : k <= j
  BY LeastNat
<1>2. k # 0
  <2> DEFINE g == [i \in 0..0 |-> FirstCards(count)]
  <2>1. \A i \in 0..0 : i = 0
    OBVIOUS
  <2>2. Deals(g, 0, count, tagCount)
    BY <2>1, Zenon DEF Deals
  <2> QED
    BY <2>2
<1>3. k - 1 \in Nat /\ k - 1 \notin Bad /\ k \in Nat
  BY <1>1, <1>2
<1>4. PICK f : Deals(f, k - 1, count, tagCount)
  BY <1>3
<1> DEFINE g == [i \in 0..k |-> IF i = 0 THEN FirstCards(count) ELSE NextCards(f[i - 1], count, tagCount, i)]
<1>5. \A i \in 0..k : i # 0 => g[i - 1] = f[i - 1]
  <2> TAKE i \in 0..k
  <2> HAVE i # 0
  <2>1. i - 1 \in 0..k /\ i - 1 \in 0..(k - 1)
    BY <1>3
  <2>2. f[i - 1] = IF i - 1 = 0 THEN FirstCards(count) ELSE NextCards(f[i - 1 - 1], count, tagCount, i - 1)
    BY <1>4, <2>1, Zenon DEF Deals
  <2>3. g[i - 1] = IF i - 1 = 0 THEN FirstCards(count) ELSE NextCards(f[i - 1 - 1], count, tagCount, i - 1)
    BY <2>1, Zenon
  <2> QED
    BY <2>2, <2>3, Zenon
<1>6. g = [i \in 0..k |-> IF i = 0 THEN FirstCards(count) ELSE NextCards(g[i - 1], count, tagCount, i)]
  BY <1>5, Zenon
<1>7. Deals(g, k, count, tagCount)
  BY <1>6, Zenon DEF Deals
<1> QED
  BY <1>1, <1>7

(* printGroupCohorts deals every tag. *)
LEMMA CohortsAreDealt ==
  ASSUME NEW count \in Nat, NEW tagCount \in [Tags -> Nat]
  PROVE  Dealt(CohortsOf(count, tagCount), count, tagCount, Len(TagOrder))
<1> DEFINE f == CHOOSE f : Deals(f, Len(TagOrder), count, tagCount)
<1>0. Len(TagOrder) \in Nat
  BY OrderAssumption DEF OrderAssumption
<1>1. CohortsOf(count, tagCount) = f[Len(TagOrder)]
  BY Zenon DEF CohortsOf, Deals, FirstCards, NextCards
<1>2. Deals(f, Len(TagOrder), count, tagCount)
  BY <1>0, DealsExist
<1> HIDE DEF f
<1> DEFINE Bad == {k \in 0..Len(TagOrder) : ~Dealt(f[k], count, tagCount, k)}
<1>3. Bad = {}
  <2> SUFFICES ASSUME Bad # {} PROVE FALSE
    OBVIOUS
  <2>0. Bad \in SUBSET Nat
    BY <1>0
  <2>1. PICK k \in Bad : \A j \in Bad : k <= j
    BY <2>0, LeastNat
  <2>2. k # 0
    <3>1. 0 \in 0..Len(TagOrder)
      BY <1>0
    <3>2. f[0] = FirstCards(count)
      BY <1>2, <3>1, Zenon DEF Deals
    <3>3. Dealt(f[0], count, tagCount, 0)
      BY <3>2, NoneDealt
    <3> QED
      BY <2>1, <3>3
  <2>3. k \in 1..Len(TagOrder) /\ k \in 0..Len(TagOrder) /\ k - 1 \in 0..Len(TagOrder) /\ ~(k <= k - 1)
    BY <1>0, <2>1, <2>2
  <2>4. Dealt(f[k - 1], count, tagCount, k - 1)
    BY <2>1, <2>3
  <2>5. f[k] = NextCards(f[k - 1], count, tagCount, k)
    BY <1>2, <2>2, <2>3, Zenon DEF Deals
  <2>6. Dealt(f[k], count, tagCount, k)
    BY <2>3, <2>4, <2>5, DealtNext DEF NextCards
  <2> QED
    BY <2>1, <2>6
<1>4. Len(TagOrder) \in 0..Len(TagOrder)
  BY <1>0
<1> QED
  BY <1>1, <1>3, <1>4

(* All the tags are dealt. *)
LEMMA AllTags == Upto(Len(TagOrder)) = Tags
<1>1. DOMAIN TagOrder = 1..Len(TagOrder)
  BY OrderAssumption DEF OrderAssumption
<1> QED
  BY <1>1 DEF Upto, Tags

(* A card shows the copies of its cohort. *)
LEMMA OnCardIs ==
  ASSUME NEW cards \in Seq(Cohort), NEW T
  PROVE  OnCard(cards, T) = CopiesOn(cards, {T}) /\ OnCard(cards, T) \in Nat
<1> DEFINE D == DOMAIN cards
           S == {i \in D : cards[i].tags = T}
           w == Weigh(cards, {T})
           c == [i \in S |-> cards[i].count]
           in == [i \in D |-> IF i \in S THEN c[i] ELSE 0]
<1>0. IsFiniteSet(D) /\ S \in SUBSET D /\ IsFiniteSet(S)
  BY DeckIsFinite, FS_Subset
<1>1. \A i \in S : c[i] \in Nat
  BY DeckIsFinite
<1>2. \A i \in D : w[i] = in[i]
  BY DEF Weigh
<1>3. OnCard(cards, T) = SumFunctionOnSet(c, S)
  BY DEF OnCard, SumOver
<1>4. CopiesOn(cards, {T}) = SumFunctionOnSet(w, D)
  BY DEF CopiesOn
<1>5. SumFunctionOnSet(c, S) = SumFunctionOnSet(in, D)
  <2> HIDE DEF c, D, S
  <2> QED
    BY <1>0, <1>1, SumInside
<1>6. SumFunctionOnSet(w, D) = SumFunctionOnSet(in, D)
  <2> HIDE DEF w, in, D
  <2> QED
    BY <1>0, <1>2, SumAgree
<1> QED
  BY <1>3, <1>4, <1>5, <1>6, AllCopies

(* The copies on several cards. *)
LEMMA CardsSum ==
  ASSUME NEW cards \in Seq(Cohort), NEW A, IsFiniteSet(A)
  PROVE  SumFunctionOnSet([T \in A |-> OnCard(cards, T)], A) = CopiesOn(cards, A)
<1> DEFINE c == [T \in A |-> OnCard(cards, T)]
           Bad == {B \in SUBSET A : SumFunctionOnSet(c, B) # CopiesOn(cards, B)}
<1> SUFFICES ASSUME Bad # {} PROVE FALSE
  OBVIOUS
<1>0. IsFiniteSet(DOMAIN cards)
  BY DeckIsFinite
<1>1. \A B \in SUBSET A : IsFiniteSet(B) /\ Cardinality(B) \in Nat
  BY FS_Subset, FS_CardinalityType
<1>2. PICK B \in Bad : \A V \in Bad : Cardinality(B) <= Cardinality(V)
  BY <1>1, LeastSet
<1>3. \A T \in A : c[T] = CopiesOn(cards, {T}) /\ c[T] \in Nat
  BY OnCardIs
<1>4. B # {}
  <2>1. SumFunctionOnSet(c, {}) = 0
    BY SumOfNone
  <2>2. \A i \in DOMAIN cards : Weigh(cards, {})[i] = 0
    BY DEF Weigh
  <2>3. CopiesOn(cards, {}) = 0
    BY <1>0, <2>2, SumOfZeros DEF CopiesOn
  <2> QED
    BY <2>1, <2>3
<1>5. PICK T \in B : TRUE
  BY <1>4
<1> DEFINE V == B \ {T}
<1>6. Cardinality(V) = Cardinality(B) - 1 /\ Cardinality(B) \in Nat
  BY <1>1, FS_RemoveElement
<1>7. SumFunctionOnSet(c, V) = CopiesOn(cards, V)
  BY <1>2, <1>6
<1>8. SumFunctionOnSet(c, B) = c[T] + SumFunctionOnSet(c, V)
  <2>1. IsFiniteSet(B) /\ \A x \in B : c[x] \in Nat
    BY <1>1, <1>3
  <2> HIDE DEF c
  <2> QED
    BY <2>1, SumTake
<1>9. CopiesOn(cards, B) = CopiesOn(cards, {T}) + CopiesOn(cards, V)
  <2>1. \A i \in DOMAIN cards : /\ Weigh(cards, {T})[i] \in Nat /\ Weigh(cards, V)[i] \in Nat
                                /\ Weigh(cards, B)[i] = Weigh(cards, {T})[i] + Weigh(cards, V)[i]
    <3> TAKE i \in DOMAIN cards
    <3>1. cards[i].count \in Nat
      BY DeckIsFinite
    <3>2. cards[i].tags \in B <=> cards[i].tags = T \/ cards[i].tags \in V
      BY <1>5
    <3>3. cards[i].tags = T => cards[i].tags \notin V
      OBVIOUS
    <3> HIDE DEF V
    <3> QED
      BY <3>1, <3>2, <3>3 DEF Weigh
  <2> DEFINE D == DOMAIN cards
             whole == Weigh(cards, B)
             one == Weigh(cards, {T})
             others == Weigh(cards, V)
  <2>2. SumFunctionOnSet(whole, D) = SumFunctionOnSet(one, D) + SumFunctionOnSet(others, D)
    <3>1. IsFiniteSet(D) /\ \A i \in D : one[i] \in Nat /\ others[i] \in Nat /\ whole[i] = one[i] + others[i]
      BY <1>0, <2>1
    <3> HIDE DEF D, whole, one, others
    <3> QED
      BY <3>1, SumPlus
  <2> QED
    BY <2>2, Zenon DEF CopiesOn
<1>10. c[T] = CopiesOn(cards, {T}) /\ B \in Bad
  BY <1>3, <1>5
<1> HIDE DEF V, c
<1> QED
  BY <1>7, <1>8, <1>9, <1>10

\* The cards have the stage's copies, the tags' and, without a tag, the copies that no tag needs.
CardsMatch(count, tagCount, cards) ==
  /\ SumFunctionOnSet([T \in SUBSET Tags |-> OnCard(cards, T)], SUBSET Tags) = count
  /\ \A t \in Tags : SumFunctionOnSet([T \in With(t) |-> OnCard(cards, T)], With(t)) = AtMost(tagCount[t], count)
  /\ OnCard(cards, {}) = count - AtMost(SumFunctionOnSet(Shown(count, tagCount), Tags), count)

(* The board's cards: every copy is on one, a tag is on as many as it can, the rest goes without. *)
LEMMA CardsAre ==
  ASSUME NEW count \in Nat, NEW tagCount \in [Tags -> Nat], NEW cards, cards = CohortsOf(count, tagCount)
  PROVE  CardsMatch(count, tagCount, cards)
<1>1. Dealt(cards, count, tagCount, Len(TagOrder))
  BY CohortsAreDealt
<1>2. cards \in Seq(Cohort) /\ Deck(cards)
  BY <1>1 DEF Dealt, Deck
<1>3. IsFiniteSet(SUBSET Tags)
  BY TagsAreFinite, FS_SUBSET
<1>4. SumFunctionOnSet([T \in SUBSET Tags |-> OnCard(cards, T)], SUBSET Tags) = count
  BY <1>1, <1>2, <1>3, CardsSum DEF Dealt
<1>5. ASSUME NEW t \in Tags
      PROVE  SumFunctionOnSet([T \in With(t) |-> OnCard(cards, T)], With(t)) = AtMost(tagCount[t], count)
  <2>1. IsFiniteSet(With(t))
    BY <1>3, FS_Subset DEF With
  <2>2. CopiesOn(cards, With(t)) = AtMost(tagCount[t], count)
    BY <1>1, AllTags DEF Dealt
  <2>3. SumFunctionOnSet([T \in With(t) |-> OnCard(cards, T)], With(t)) = CopiesOn(cards, With(t))
    BY <1>2, <2>1, CardsSum
  <2> QED
    BY <2>2, <2>3
<1>6. OnCard(cards, {}) = count - AtMost(SumFunctionOnSet(Shown(count, tagCount), Tags), count)
  <2>1. OnCard(cards, {}) = CopiesOn(cards, {{}})
    BY <1>2, OnCardIs
  <2> QED
    BY <1>1, <2>1, AllTags DEF Dealt
<1> QED
  BY Zenon, <1>4, <1>5, <1>6 DEF CardsMatch

-----------------------------------------------------------------------------
(* What a call takes of the cards.                                         *)

(* Cards that a call names: no two have the same tags. *)
Named(cards) ==
  /\ IsFiniteSet(cards) /\ cards \subseteq [count : Nat, tags : SUBSET Tags]
  /\ \A c, d \in cards : c.tags = d.tags => c = d
CardCounts(cards) == [c \in cards |-> c.count]
Asked(asked) == asked.n \in Nat /\ (asked.cards = AnyCard \/ Named(asked.cards))

(* What a call takes from a cohort: the named card's copies. *)
LEMMA NamedTake ==
  ASSUME NEW cards \in Seq(Cohort), NEW asked, asked.cards # AnyCard, Named(asked.cards), NEW i \in DOMAIN cards
  PROVE  /\ \A c \in asked.cards : c.tags = cards[i].tags => TakenFrom(cards, asked)[i] = c.count
         /\ (\A c \in asked.cards : c.tags # cards[i].tags) => TakenFrom(cards, asked)[i] = 0
<1> DEFINE S == {c \in asked.cards : c.tags = cards[i].tags}
<1>1. TakenFrom(cards, asked)[i] = SumFunctionOnSet(CardCounts(S), S)
  BY Zenon DEF TakenFrom, SumOver, CardCounts
<1>2. ASSUME NEW c \in asked.cards, c.tags = cards[i].tags
      PROVE  TakenFrom(cards, asked)[i] = c.count
  <2>1. S = {c}
    BY <1>2 DEF Named
  <2>2. IsFiniteSet({c}) /\ c.count \in Nat
    BY FS_Singleton DEF Named
  <2>3. CardCounts({c})[c] = c.count
    BY DEF CardCounts
  <2>4. SumFunctionOnSet(CardCounts({c}), {c}) = CardCounts({c})[c]
    BY <2>2, <2>3, SumOfOne
  <2> QED
    BY <1>1, <2>1, <2>3, <2>4
<1>3. ASSUME \A c \in asked.cards : c.tags # cards[i].tags
      PROVE  TakenFrom(cards, asked)[i] = 0
  <2>1. S = {}
    BY <1>3
  <2> QED
    BY <1>1, <2>1, SumOfNone
<1> QED
  BY <1>2, <1>3

(* A card has the copies of its cohort. *)
LEMMA CardOfCohort ==
  ASSUME NEW cards, Deck(cards), NEW T
  PROVE  /\ \A i \in DOMAIN cards : cards[i].tags = T => OnCard(cards, T) = cards[i].count
         /\ (\A i \in DOMAIN cards : cards[i].tags # T) => OnCard(cards, T) = 0
<1> DEFINE w == Weigh(cards, {T})
           D == DOMAIN cards
<1>1. cards \in Seq(Cohort) /\ IsFiniteSet(D)
  BY DeckIsFinite DEF Deck
<1>2. OnCard(cards, T) = SumFunctionOnSet(w, D)
  BY <1>1, OnCardIs DEF CopiesOn
<1>3. ASSUME NEW i \in D, cards[i].tags = T
      PROVE  OnCard(cards, T) = cards[i].count
  <2>1. w[i] = cards[i].count /\ w[i] \in Nat
    BY <1>1, <1>3, DeckIsFinite DEF Weigh
  <2>2. \A j \in D \ {i} : w[j] = 0
    BY <1>3 DEF Weigh, Deck
  <2>3. SumFunctionOnSet(w, D) = w[i]
    <3> HIDE DEF w, D
    <3> QED
      BY <1>1, <1>3, <2>1, <2>2, SumOfOne
  <2> QED
    BY <1>2, <2>1, <2>3
<1>4. ASSUME \A i \in D : cards[i].tags # T
      PROVE  OnCard(cards, T) = 0
  <2>1. \A i \in D : w[i] = 0
    BY <1>4 DEF Weigh
  <2> HIDE DEF w, D
  <2> QED
    BY <1>1, <1>2, <2>1, SumOfZeros
<1> QED
  BY <1>3, <1>4

(* No more is taken from a cohort than it has, and as many copies in all as are asked for. *)
LEMMA TakenFits ==
  ASSUME NEW cards, Deck(cards), NEW copies, NEW asked, Asked(asked), Enough(copies, cards, asked)
  PROVE  /\ DOMAIN TakenFrom(cards, asked) = DOMAIN cards
         /\ \A i \in DOMAIN cards : TakenFrom(cards, asked)[i] \in Nat /\ TakenFrom(cards, asked)[i] <= cards[i].count
<1>1. cards \in Seq(Cohort)
  BY DEF Deck
<1>2. CASE asked.cards = AnyCard
  BY <1>1, <1>2, DrawnFits, Zenon DEF TakenFrom, Asked
<1>3. CASE asked.cards # AnyCard
  <2>1. Named(asked.cards)
    BY <1>3 DEF Asked
  <2>2. DOMAIN TakenFrom(cards, asked) = DOMAIN cards
    BY <1>3, Zenon DEF TakenFrom
  <2>3. ASSUME NEW i \in DOMAIN cards
        PROVE  TakenFrom(cards, asked)[i] \in Nat /\ TakenFrom(cards, asked)[i] <= cards[i].count
    <3>1. cards[i].count \in Nat
      BY <1>1, DeckIsFinite
    <3>2. ASSUME NEW c \in asked.cards, c.tags = cards[i].tags
          PROVE  TakenFrom(cards, asked)[i] \in Nat /\ TakenFrom(cards, asked)[i] <= cards[i].count
      <4>1. TakenFrom(cards, asked)[i] = c.count
        BY <1>1, <1>3, <2>1, <3>2, NamedTake
      <4>2. c.count <= OnCard(cards, c.tags) /\ c.count \in Nat
        BY <1>3, <2>1 DEF Enough, Named
      <4>3. OnCard(cards, c.tags) = cards[i].count
        BY <3>2, CardOfCohort
      <4> QED
        BY <4>1, <4>2, <4>3
    <3>3. CASE \A c \in asked.cards : c.tags # cards[i].tags
      BY <1>1, <1>3, <2>1, <3>1, <3>3, NamedTake
    <3> QED
      BY <3>2, <3>3
  <2> QED
    BY <2>2, <2>3
<1> QED
  BY <1>2, <1>3

(* What is taken of the cohorts is what the named cards add up to. *)
LEMMA AllTaken ==
  ASSUME NEW cards, Deck(cards), NEW asked, asked.cards # AnyCard, Named(asked.cards), NEW copies,
         Enough(copies, cards, asked)
  PROVE  SumFunctionOnSet(TakenFrom(cards, asked), DOMAIN cards)
           = SumFunctionOnSet(CardCounts(asked.cards), asked.cards)
<1> DEFINE K == asked.cards
           D == DOMAIN cards
           c == CardCounts(K)
           taken == TakenFrom(cards, asked)
           Part(B) == [i \in D |-> IF \E d \in B : d.tags = cards[i].tags THEN taken[i] ELSE 0]
           Bad == {B \in SUBSET K : SumFunctionOnSet(Part(B), D) # SumFunctionOnSet(c, B)}
<1>0. cards \in Seq(Cohort) /\ IsFiniteSet(D) /\ \A i \in D : taken[i] \in Nat /\ cards[i].count \in Nat
  <2>1. cards \in Seq(Cohort) /\ IsFiniteSet(D) /\ \A i \in D : cards[i].count \in Nat
    BY DeckIsFinite DEF Deck
  <2>2. ASSUME NEW i \in D
        PROVE  taken[i] \in Nat
    <3>1. \A d \in K : d.tags = cards[i].tags => taken[i] = d.count
      BY <2>1, NamedTake
    <3>2. (\A d \in K : d.tags # cards[i].tags) => taken[i] = 0
      BY <2>1, NamedTake
    <3> HIDE DEF taken
    <3> QED
      BY <3>1, <3>2 DEF Named
  <2> QED
    BY <2>1, <2>2
<1>1. \A B \in SUBSET K : IsFiniteSet(B) /\ Cardinality(B) \in Nat
  BY FS_Subset, FS_CardinalityType DEF Named
<1>2. Bad = {}
  <2> SUFFICES ASSUME Bad # {} PROVE FALSE
    OBVIOUS
  <2>1. PICK B \in Bad : \A V \in Bad : Cardinality(B) <= Cardinality(V)
    BY <1>1, LeastSet
  <2>2. B # {}
    <3>1. SumFunctionOnSet(c, {}) = 0
      BY SumOfNone
    <3>2. \A i \in D : Part({})[i] = 0
      OBVIOUS
    <3>3. SumFunctionOnSet(Part({}), D) = 0
      <4> DEFINE none == Part({})
      <4>1. \A i \in D : none[i] = 0
        BY <3>2
      <4>2. SumFunctionOnSet(none, D) = 0
        <5> HIDE DEF none, D
        <5> QED
          BY <1>0, <4>1, SumOfZeros
      <4> QED
        BY <4>2
    <3> QED
      BY <3>1, <3>3
  <2>3. PICK d \in B : TRUE
    BY <2>2
  <2> DEFINE V == B \ {d}
             f == Part(V)
             g == Part(B)
  <2>4. Cardinality(V) = Cardinality(B) - 1 /\ Cardinality(B) \in Nat
    BY <1>1, FS_RemoveElement
  <2>5. SumFunctionOnSet(f, D) = SumFunctionOnSet(c, V)
    <3>1. V \notin Bad /\ V \in SUBSET K
      BY <2>1, <2>4
    <3> QED
      BY <3>1
  <2>6. SumFunctionOnSet(c, B) = d.count + SumFunctionOnSet(c, V) /\ SumFunctionOnSet(c, V) \in Nat /\ d.count \in Nat
    <3>1. c[d] = d.count /\ d \in K /\ d.count \in Nat
      BY <2>3 DEF CardCounts, Named
    <3>2. \A x \in B : c[x] \in Nat
      BY DEF CardCounts, Named
    <3>3. IsFiniteSet(B) /\ IsFiniteSet(V)
      BY <1>1
    <3> HIDE DEF c
    <3>4. SumFunctionOnSet(c, V) \in Nat
      BY <3>2, <3>3, SumIsNat
    <3>5. SumFunctionOnSet(c, B) = c[d] + SumFunctionOnSet(c, B \ {d})
      BY <2>3, <3>2, <3>3, SumTake
    <3> QED
      BY <3>1, <3>4, <3>5
  <2>7. ASSUME NEW j \in D, cards[j].tags = d.tags
        PROVE  SumFunctionOnSet(g, D) = d.count + SumFunctionOnSet(f, D)
    <3>1. taken[j] = d.count
      BY <1>0, <2>3, <2>7, NamedTake
    <3>2. f[j] = 0 /\ g[j] = d.count
      <4>1. \A e \in V : e.tags # cards[j].tags
        BY <2>3, <2>7 DEF Named
      <4> HIDE DEF taken
      <4> QED
        BY <2>3, <2>7, <3>1, <4>1
    <3>3. \A i \in D \ {j} : g[i] = f[i]
      <4> TAKE i \in D \ {j}
      <4>1. cards[i].tags # d.tags
        BY <2>7 DEF Deck
      <4>2. (\E e \in B : e.tags = cards[i].tags) <=> (\E e \in V : e.tags = cards[i].tags)
        BY <2>3, <4>1
      <4> HIDE DEF taken
      <4> QED
        BY <4>2
    <3>4. \A i \in D : f[i] \in Nat
      BY <1>0
    <3>5. SumFunctionOnSet(g, D) = SumFunctionOnSet(f, D) - f[j] + g[j] /\ SumFunctionOnSet(f, D) \in Nat
      <4> HIDE DEF f, g, D
      <4>1. \A S, a, b : \A x \in S :
              IsFiniteSet(S) /\ b[x] \in Nat /\ (\A y \in S : a[y] \in Nat) /\ (\A y \in S \ {x} : b[y] = a[y])
                => SumFunctionOnSet(b, S) = SumFunctionOnSet(a, S) - a[x] + b[x] /\ SumFunctionOnSet(a, S) \in Nat
        BY SumChange
      <4>2. IsFiniteSet(D) /\ j \in D /\ g[j] \in Nat
        BY <1>0, <2>6, <2>7, <3>2
      <4>3. (\A y \in D : f[y] \in Nat) /\ (\A y \in D \ {j} : g[y] = f[y])
        BY <3>3, <3>4
      <4> HIDE DEF Part
      <4> QED
        BY <4>1, <4>2, <4>3
    <3> HIDE DEF f, g
    <3> QED
      BY <2>6, <3>2, <3>5
  <2>8. CASE \A j \in D : cards[j].tags # d.tags
    <3>1. d.count <= 0
      <4>1. OnCard(cards, d.tags) = 0
        BY <2>8, CardOfCohort
      <4> QED
        BY <2>3, <4>1 DEF Enough
    <3>2. d.count = 0
      BY <2>6, <3>1
    <3>3. \A i \in D : g[i] = f[i]
      <4> TAKE i \in D
      <4>1. (\E e \in B : e.tags = cards[i].tags) <=> (\E e \in V : e.tags = cards[i].tags)
        BY <2>3, <2>8
      <4> HIDE DEF taken
      <4> QED
        BY <4>1
    <3>4. SumFunctionOnSet(g, D) = SumFunctionOnSet(f, D)
      <4> HIDE DEF f, g, D
      <4> QED
        BY <1>0, <3>3, SumAgree
    <3> QED
      BY <2>5, <2>6, <3>2, <3>4
  <2> HIDE DEF f, V, c, D
  <2>9. SumFunctionOnSet(g, D) = d.count + SumFunctionOnSet(f, D)
    BY <2>5, <2>6, <2>7, <2>8
  <2>10. SumFunctionOnSet(g, D) = SumFunctionOnSet(c, B)
    BY <2>5, <2>6, <2>9
  <2> QED
    BY <2>1, <2>10
<1>3. SumFunctionOnSet(Part(K), D) = SumFunctionOnSet(c, K)
  BY <1>2
<1>4. SumFunctionOnSet(taken, D) = SumFunctionOnSet(Part(K), D)
  <2> DEFINE f == Part(K)
  <2>1. \A i \in D : taken[i] = f[i]
    <3> TAKE i \in D
    <3>1. (\A d \in K : d.tags # cards[i].tags) => taken[i] = 0
      BY <1>0, NamedTake
    <3> HIDE DEF taken
    <3> QED
      BY <3>1
  <2>2. SumFunctionOnSet(taken, D) = SumFunctionOnSet(f, D)
    <3> HIDE DEF f, D, taken
    <3> QED
      BY <1>0, <2>1, SumAgree
  <2> QED
    BY <2>2
<1> QED
  BY <1>3, <1>4

(* A call's copies are those of the cards that it names. *)
Paid(asked) == asked.cards # AnyCard => asked.n = SumFunctionOnSet(CardCounts(asked.cards), asked.cards)

(* What a call takes of a tag, and what it leaves. *)
LEMMA CarryingFits ==
  ASSUME NEW cards, Deck(cards), NEW t \in Tags, NEW asked, Asked(asked),
         NEW copies, copies = CopiesOn(cards, SUBSET Tags), Enough(copies, cards, asked),
         NEW taken, taken = TakenFrom(cards, asked)
  PROVE  /\ Carrying(cards, taken, t) \in Nat
         /\ Carrying(cards, taken, t) <= CopiesOn(cards, With(t))
         /\ Paid(asked) => /\ Carrying(cards, taken, t) <= asked.n
                           /\ CopiesOn(cards, With(t)) - Carrying(cards, taken, t) <= copies - asked.n
<1> DEFINE D == DOMAIN cards
           S == {i \in D : t \in cards[i].tags}
           c == Counts(cards)
           on == [i \in S |-> taken[i]]
           keep == [i \in D |-> c[i] - taken[i]]
<1>1. cards \in Seq(Cohort) /\ IsFiniteSet(D) /\ S \in SUBSET D /\ IsFiniteSet(S)
  <2>1. cards \in Seq(Cohort) /\ IsFiniteSet(D)
    BY DeckIsFinite DEF Deck
  <2> QED
    BY <2>1, FS_Subset
<1>2. \A i \in D : taken[i] \in Nat /\ taken[i] <= c[i] /\ c[i] \in Nat /\ keep[i] \in Nat /\ c[i] = taken[i] + keep[i]
  <2> TAKE i \in D
  <2>1. c[i] \in Nat /\ c[i] = cards[i].count
    BY <1>1, DeckIsFinite
  <2>2. taken[i] \in Nat /\ taken[i] <= cards[i].count
    BY TakenFits
  <2> HIDE DEF c
  <2> QED
    BY <2>1, <2>2
<1>3. Carrying(cards, taken, t) = SumFunctionOnSet(taken, S)
  <2>1. Carrying(cards, taken, t) = SumFunctionOnSet(on, S)
    BY Zenon DEF Carrying, SumOver
  <2>2. \A i \in S : on[i] = taken[i]
    OBVIOUS
  <2> HIDE DEF on, S
  <2> QED
    BY <1>1, <2>1, <2>2, SumAgree
<1>4. CopiesOn(cards, With(t)) = SumFunctionOnSet(c, S)
  <2> DEFINE w == Weigh(cards, With(t))
             in == [i \in D |-> IF i \in S THEN c[i] ELSE 0]
  <2>1. \A i \in D : w[i] = in[i]
    <3> TAKE i \in D
    <3>1. cards[i].tags \subseteq Tags
      BY <1>1, DeckIsFinite
    <3> QED
      BY <3>1 DEF Weigh, With, Counts
  <2>2. SumFunctionOnSet(c, S) = SumFunctionOnSet(in, D)
    <3> HIDE DEF c, S, D
    <3> QED
      BY <1>1, <1>2, SumInside
  <2>3. SumFunctionOnSet(w, D) = SumFunctionOnSet(in, D)
    <3> HIDE DEF w, in, D
    <3> QED
      BY <1>1, <2>1, SumAgree
  <2> QED
    BY <2>2, <2>3 DEF CopiesOn
<1>5. SumFunctionOnSet(c, D) = copies
  BY <1>1, AllCopies
<1>6. Paid(asked) => SumFunctionOnSet(taken, D) = asked.n
  <2>1. CASE asked.cards = AnyCard
    <3>1. taken = FewestFirst(cards, asked.n)
      BY <2>1, Zenon DEF TakenFrom
    <3>2. \A i \in D : Earlier(cards, i) \subseteq D
      BY DEF Earlier
    <3>3. SumFunctionOnSet(taken, D) = AtMost(asked.n, SumFunctionOnSet(c, D))
      BY <1>1, <3>1, <3>2, FewestFirstDraws DEF Asked
    <3>4. asked.n <= copies /\ asked.n \in Nat /\ copies \in Nat
      BY <1>1, AllCopies DEF Enough, Asked
    <3> HIDE DEF c, D
    <3> QED
      BY <1>5, <3>3, <3>4 DEF AtMost
  <2>2. CASE asked.cards # AnyCard
    BY <2>2, AllTaken DEF Paid, Asked
  <2> QED
    BY <2>1, <2>2
<1> HIDE DEF D, S, c, keep
<1>7. SumFunctionOnSet(c, S) = SumFunctionOnSet(taken, S) + SumFunctionOnSet(keep, S)
  BY <1>1, <1>2, SumPlus
<1>8. SumFunctionOnSet(c, D) = SumFunctionOnSet(taken, D) + SumFunctionOnSet(keep, D)
  BY <1>1, <1>2, SumPlus
<1>9. SumFunctionOnSet(keep, S) <= SumFunctionOnSet(keep, D) /\ SumFunctionOnSet(taken, S) <= SumFunctionOnSet(taken, D)
  BY <1>1, <1>2, SumOfFewer
<1>10. /\ SumFunctionOnSet(keep, S) \in Nat /\ SumFunctionOnSet(keep, D) \in Nat
       /\ SumFunctionOnSet(taken, S) \in Nat /\ SumFunctionOnSet(taken, D) \in Nat
  BY <1>1, <1>2, SumIsNat
<1> QED
  BY <1>3, <1>4, <1>5, <1>6, <1>7, <1>8, <1>9, <1>10

-----------------------------------------------------------------------------
(* Every count stays one, and the tags on the cards add up to the tags' counts. *)

\* What a call asks for, has read and has written are counts; it takes no more of a tag than it has read.
Numbers(p) ==
  /\ Asked(call[p])
  /\ seen[p].copies \in Nat /\ seen[p].total \in Nat /\ seen[p].tags \in [Tags -> Nat] /\ seen[p].taken \in [Tags -> Nat]
  /\ \A t \in Tags : seen[p].taken[t] <= seen[p].tags[t]
  /\ \A r \in Rows : write[p][r] \in Nat \cup {Unwritten}
  /\ pc[p] \in {"take_tags", "take_copies"} => call[p].n <= seen[p].copies

NumberInv == ArchiveInv /\ db \in [Rows -> Nat] /\ \A p \in Procs : Numbers(p)

\* The counts that a call reads of a stage's tags, and the cards that it makes of them.
LEMMA TagsRead ==
  ASSUME db \in [Rows -> Nat], NEW s \in Stages
  PROVE  TagsIn(db, s) \in [Tags -> Nat] /\ db[s] \in Nat /\ \A t \in Tags : TagsIn(db, s)[t] = db[<<t, s>>]
BY RowFacts DEF TagsIn

\* Some of a stage's cards.
LEMMA CardsNamed ==
  ASSUME NEW cards, Deck(cards), NEW S \in SUBSET DOMAIN cards
  PROVE  Named({cards[i] : i \in S})
<1> DEFINE K == {cards[i] : i \in S}
           f == [i \in S |-> cards[i]]
<1>1. cards \in Seq(Cohort) /\ IsFiniteSet(DOMAIN cards) /\ \A i \in DOMAIN cards : cards[i] \in Cohort
  BY DeckIsFinite DEF Deck
<1>2. IsFiniteSet(S)
  BY <1>1, FS_Subset
<1>3. f \in Surjection(S, K)
  BY DEF Surjection
<1>4. IsFiniteSet(K)
  BY <1>2, <1>3, FS_Surjection
<1>5. K \subseteq [count : Nat, tags : SUBSET Tags]
  BY <1>1 DEF Cohort
<1>6. \A c, d \in K : c.tags = d.tags => c = d
  BY DEF Deck
<1> QED
  BY <1>4, <1>5, <1>6 DEF Named

\* What a read of a stage takes of each tag.
LEMMA TakenNumbers ==
  ASSUME NEW copies \in Nat, NEW tagCount \in [Tags -> Nat], NEW asked, Asked(asked),
         NEW cards, cards = CohortsOf(copies, tagCount), Enough(copies, cards, asked)
  PROVE  /\ [t \in Tags |-> Carrying(cards, TakenFrom(cards, asked), t)] \in [Tags -> Nat]
         /\ \A t \in Tags : Carrying(cards, TakenFrom(cards, asked), t) <= tagCount[t]
         /\ asked.n <= copies
<1>1. Deck(cards) /\ CopiesOn(cards, SUBSET Tags) = copies /\ \A t \in Tags : CopiesOn(cards, With(t)) = AtMost(tagCount[t], copies)
  <2>1. Deck(cards) /\ \A t \in Tags : CopiesOn(cards, With(t)) = AtMost(tagCount[t], copies)
    BY CohortsAreDealt, AllTags DEF Dealt
  <2>2. CopiesOn(cards, SUBSET Tags) = copies
    BY CohortsAreDealt DEF Dealt
  <2> QED
    BY <2>1, <2>2
<1>2. ASSUME NEW t \in Tags
      PROVE  Carrying(cards, TakenFrom(cards, asked), t) \in Nat /\ Carrying(cards, TakenFrom(cards, asked), t) <= tagCount[t]
  <2>1. /\ Carrying(cards, TakenFrom(cards, asked), t) \in Nat
        /\ Carrying(cards, TakenFrom(cards, asked), t) <= CopiesOn(cards, With(t))
    BY <1>1, CarryingFits
  <2>2. CopiesOn(cards, With(t)) <= tagCount[t] /\ CopiesOn(cards, With(t)) \in Nat
    BY <1>1 DEF AtMost
  <2>3. tagCount[t] \in Nat
    OBVIOUS
  <2> QED
    BY <2>1, <2>2, <2>3
<1>3. asked.n <= copies
  BY DEF Enough
<1> QED
  BY <1>2, <1>3

\* A call that ends leaves no counts of its own.
LEMMA AbortNumbers ==
  ASSUME ArchiveInv, NEW p \in Procs, pc'[p] = "idle", call'[p] = NoCall, seen'[p] = Nothing, write'[p] = Blank
  PROVE  Numbers(p)'
<1>1. Asked(NoCall)
  BY FS_EmptySet DEF NoCall, Asked, Named
<1>2. /\ Nothing.copies \in Nat /\ Nothing.total \in Nat /\ Nothing.tags \in [Tags -> Nat] /\ Nothing.taken \in [Tags -> Nat]
      /\ \A t \in Tags : Nothing.taken[t] <= Nothing.tags[t]
  BY DEF Nothing
<1>3. \A r \in Rows : Blank[r] \in Nat \cup {Unwritten}
  BY DEF Blank
<1> QED
  BY <1>1, <1>2, <1>3 DEF Numbers

\* A statement that leaves what was asked and read, and writes counts.
LEMMA SameNumbers ==
  ASSUME NumberInv, NEW p \in Procs, call'[p] = call[p],
         seen'[p].copies = seen[p].copies, seen'[p].total = seen[p].total,
         seen'[p].tags = seen[p].tags, seen'[p].taken = seen[p].taken,
         \A r \in Rows : write'[p][r] = write[p][r] \/ write'[p][r] \in Nat,
         pc'[p] \in {"take_tags", "take_copies"} => pc[p] \in {"take_tags", "take_copies"}
  PROVE  Numbers(p)'
BY Zenon DEF NumberInv, Numbers

\* The rows hold counts, as a transaction sees them too.
LEMMA LatestCounts ==
  ASSUME NumberInv, NEW p \in Procs
  PROVE  \A r \in Rows : Latest(p, r) \in Nat /\ db[r] \in Nat
BY DEF NumberInv, Numbers, Latest

\* Every statement reads and writes counts.
LEMMA StatementNumbers ==
  ASSUME NumberInv, NEW p \in Procs, Statement(p)
  PROVE  Numbers(p)'
<1>0. /\ ArchiveInv /\ Shapes /\ Numbers(p) /\ Calling(p) /\ call[p].n \in Nat
      /\ call[p].from \in Stages /\ call[p].to \in Stages /\ call[p].tags \subseteq Tags
      /\ seen[p].copies \in Nat /\ seen[p].total \in Nat /\ seen[p].left \subseteq Tags
      /\ \A t \in Tags : seen[p].tags[t] \in Nat /\ seen[p].taken[t] \in Nat /\ seen[p].taken[t] <= seen[p].tags[t]
  <2>1. ArchiveInv /\ Shapes /\ Numbers(p) /\ Calling(p)
    BY DEF NumberInv, ArchiveInv, Shapes
  <2>2. call[p].from \in Stages /\ call[p].to \in Stages /\ call[p].tags \subseteq Tags /\ seen[p].left \subseteq Tags
    BY <2>1 DEF Calling, CallShape, CallsOn, SeenShape
  <2> QED
    BY <2>1, <2>2 DEF Numbers, Asked
<1>a. Sound(p) /\ db' = db
  BY <1>0, StatementSound DEF Sound, LocalStep
<1>b. \A r \in Rows : Latest(p, r) \in Nat /\ db[r] \in Nat
  BY LatestCounts
<1>c. \A s \in Stages : s \in Rows /\ db[s] \in Nat /\ Latest(p, s) \in Nat
  BY <1>b, RowFacts
<1>d. \A t \in Tags, s \in Stages : <<t, s>> \in Rows /\ Latest(p, <<t, s>>) \in Nat
  BY <1>b, RowFacts
<1>e. Abort(p) => Numbers(p)'
  <2> SUFFICES ASSUME Abort(p) PROVE Numbers(p)'
    OBVIOUS
  <2>1. pc'[p] = "idle" /\ call'[p] = NoCall /\ seen'[p] = Nothing /\ write'[p] = Blank
    BY <1>0 DEF Abort, End, Goto, Shapes
  <2> QED
    BY <1>0, <2>1, AbortNumbers
<1>f. ASSUME write' = write
      PROVE  \A r \in Rows : write'[p][r] = write[p][r] \/ write'[p][r] \in Nat
  BY <1>f
<1>1. CASE ReadGroup(p)
  <2>1. CASE ~Abort(p)
    <3> DEFINE cohorts == CohortsOf(db[call[p].from], TagsIn(db, call[p].from))
               carrying == {i \in DOMAIN cohorts : call[p].tags \subseteq cohorts[i].tags}
               cards == {cohorts[i] : i \in carrying}
               n == AtMost(call[p].n, db[call[p].from])
    <3>1. /\ call' = [call EXCEPT ![p] = [@ EXCEPT !.n = n, !.cards = cards]]
          /\ UNCHANGED <<seen, write>> /\ pc' = [pc EXCEPT ![p] = "stage"]
      BY <1>1, <2>1 DEF ReadGroup, Goto
    <3>2. Deck(cohorts)
      BY <1>0, TagsRead, CohortsAreDealt DEF Dealt, NumberInv
    <3>3. Named(cards)
      <4> HIDE DEF cohorts
      <4> QED
        BY <3>2, CardsNamed
    <3>4. n \in Nat
      BY <1>0, <1>c DEF AtMost
    <3> HIDE DEF cohorts, carrying, cards, n
    <3>5. call'[p].n = n /\ call'[p].cards = cards /\ pc'[p] = "stage" /\ seen' = seen /\ write' = write
      <4>1. call[p] \in CallsOn({call[p].cards}) /\ call'[p] = [call[p] EXCEPT !.n = n, !.cards = cards]
        BY <1>0, <3>1 DEF Shapes, Calling, CallShape
      <4>2. call'[p].n = n /\ call'[p].cards = cards
        BY <4>1 DEF CallsOn
      <4> QED
        BY <1>0, <3>1, <4>2 DEF Shapes
    <3> QED
      BY <1>0, <3>3, <3>4, <3>5 DEF Numbers, Asked
  <2> QED
    BY <1>e, <2>1
<1>2. CASE ReadStage(p)
  <2>1. pc' = [pc EXCEPT ![p] = "tags"] /\ UNCHANGED <<call, write>> /\ seen' = [seen EXCEPT ![p].copies = db[call[p].from]]
    BY <1>2 DEF ReadStage, Goto
  <2>2. /\ pc'[p] = "tags" /\ seen'[p].copies = db[call[p].from] /\ seen'[p].total = seen[p].total
        /\ seen'[p].tags = seen[p].tags /\ seen'[p].taken = seen[p].taken
    BY <1>0, <2>1 DEF Shapes, Calling, SeenShape
  <2> QED
    BY <1>0, <1>c, <2>1, <2>2 DEF Numbers
<1>3. CASE ReadTags(p)
  <2>1. CASE ~Abort(p)
    <3> DEFINE cohorts == CohortsOf(seen[p].copies, TagsIn(db, call[p].from))
               taken == [t \in Tags |-> Carrying(cohorts, TakenFrom(cohorts, call[p]), t)]
    <3>1. /\ Enough(seen[p].copies, cohorts, call[p]) /\ UNCHANGED <<call, write>>
          /\ seen' = [seen EXCEPT ![p] = [@ EXCEPT !.tags = TagsIn(db, call[p].from), !.taken = taken,
                                                  !.left = {t \in Tags : taken[t] > 0}]]
      BY <1>3, <2>1 DEF ReadTags, CohortsRead, Taken
    <3>2. /\ taken \in [Tags -> Nat] /\ (\A t \in Tags : taken[t] <= TagsIn(db, call[p].from)[t])
          /\ call[p].n <= seen[p].copies /\ TagsIn(db, call[p].from) \in [Tags -> Nat]
      <4>1. TagsIn(db, call[p].from) \in [Tags -> Nat]
        BY <1>0, TagsRead DEF NumberInv
      <4> HIDE DEF cohorts
      <4>2. /\ taken \in [Tags -> Nat]
            /\ \A t \in Tags : Carrying(cohorts, TakenFrom(cohorts, call[p]), t) <= TagsIn(db, call[p].from)[t]
            /\ call[p].n <= seen[p].copies
        BY <1>0, <3>1, <4>1, TakenNumbers DEF Numbers, cohorts
      <4> QED
        BY <4>1, <4>2
    <3> HIDE DEF taken, cohorts
    <3>3. /\ seen'[p].copies = seen[p].copies /\ seen'[p].total = seen[p].total
          /\ seen'[p].tags = TagsIn(db, call[p].from) /\ seen'[p].taken = taken
      BY <1>0, <3>1 DEF Shapes, Calling, SeenShape
    <3> QED
      BY <1>0, <3>1, <3>2, <3>3 DEF Numbers
  <2> QED
    BY <1>e, <2>1
<1>4. CASE TakeTags(p)
  <2>1. CASE seen[p].left = {} /\ Goto(p, "take_copies") /\ UNCHANGED <<db, archived, call, seen, write>>
    <3>1. pc[p] = "take_tags"
      BY <1>4 DEF TakeTags
    <3> QED
      BY <1>f, <2>1, <3>1, SameNumbers
  <2>2. CASE ~Abort(p) /\ ~(seen[p].left = {} /\ Goto(p, "take_copies") /\ UNCHANGED <<db, archived, call, seen, write>>)
    <3>1. PICK t \in seen[p].left :
            /\ pc[p] = "take_tags" /\ seen' = [seen EXCEPT ![p].left = @ \ {t}]
            /\ Writes(p, {<<t, call[p].from>>}, LAMBDA r : seen[p].tags[t] - seen[p].taken[t], "take_tags")
      BY <1>4, <2>2 DEF TakeTags, NextTag
    <3>2. seen[p].tags[t] - seen[p].taken[t] \in Nat
      BY <1>0
    <3>3. call' = call /\ \A r \in Rows : write'[p][r] = write[p][r] \/ write'[p][r] \in Nat
      BY <1>0, <3>1, <3>2 DEF Writes, Shapes
    <3>4. /\ seen'[p].copies = seen[p].copies /\ seen'[p].total = seen[p].total
          /\ seen'[p].tags = seen[p].tags /\ seen'[p].taken = seen[p].taken
      BY <1>0, <3>1 DEF Shapes, Calling, SeenShape
    <3> QED
      BY <3>1, <3>3, <3>4, SameNumbers
  <2> QED
    BY <1>e, <2>1, <2>2
<1>5. CASE TakeCopies(p)
  <2>1. CASE ~Abort(p)
    <3>1. /\ pc[p] = "take_copies" /\ UNCHANGED seen /\ Latest(p, call[p].from) = seen[p].copies
          /\ Writes(p, {call[p].from}, LAMBDA r : Latest(p, r) - call[p].n,
                    IF call[p].kind = "delete" THEN "quantity" ELSE "put_copies")
      BY <1>5, <2>1 DEF TakeCopies, Unchanged
    <3>2. Latest(p, call[p].from) - call[p].n \in Nat
      <4>1. pc[p] = "take_copies" /\ Latest(p, call[p].from) = seen[p].copies
        BY Zenon, <3>1
      <4>2. call[p].n <= seen[p].copies
        BY <1>0, <4>1 DEF Numbers
      <4> QED
        BY <1>0, <4>1, <4>2
    <3>3. call' = call /\ \A r \in Rows : write'[p][r] = write[p][r] \/ write'[p][r] \in Nat
      BY <1>0, <3>1, <3>2 DEF Writes, Shapes
    <3> QED
      BY <3>1, <3>3, SameNumbers
  <2> QED
    BY <1>e, <2>1
<1>6. CASE PutCopies(p)
  <2>1. /\ pc[p] = "put_copies" /\ seen' = [seen EXCEPT ![p].left = {t \in Tags : seen[p].taken[t] > 0}]
        /\ Writes(p, {call[p].to}, LAMBDA r : Latest(p, r) + call[p].n, "touch")
    BY <1>6 DEF PutCopies
  <2>2. Latest(p, call[p].to) + call[p].n \in Nat
    BY <1>0, <1>c
  <2>3. call' = call /\ pc'[p] = "touch" /\ \A r \in Rows : write'[p][r] = write[p][r] \/ write'[p][r] \in Nat
    BY <1>0, <2>1, <2>2 DEF Writes, Shapes, Goto
  <2>4. /\ seen'[p].copies = seen[p].copies /\ seen'[p].total = seen[p].total
        /\ seen'[p].tags = seen[p].tags /\ seen'[p].taken = seen[p].taken
    <3>1. seen' = [seen EXCEPT ![p].left = {t \in Tags : seen[p].taken[t] > 0}]
      BY <2>1
    <3> QED
      BY <1>0, <3>1 DEF Shapes, Calling, SeenShape
  <2> QED
    BY <2>3, <2>4, SameNumbers
<1>7. CASE Touch(p)
  <2>1. Writes(p, {Whole}, LAMBDA r : Latest(p, r), "put_tags") /\ UNCHANGED seen
    BY <1>7 DEF Touch
  <2>2. call' = call /\ pc'[p] = "put_tags" /\ \A r \in Rows : write'[p][r] = write[p][r] \/ write'[p][r] \in Nat
    BY <1>0, <1>b, <2>1 DEF Writes, Shapes, Goto
  <2> QED
    BY <2>1, <2>2, SameNumbers
<1>8. CASE PutTags(p)
  <2>1. CASE seen[p].left = {} /\ Goto(p, "commit") /\ UNCHANGED <<db, archived, call, seen, write>>
    <3>1. pc'[p] = "commit"
      BY <1>0, <2>1 DEF Goto, Shapes
    <3> QED
      BY <1>f, <2>1, <3>1, SameNumbers
  <2>2. CASE ~Abort(p) /\ ~(seen[p].left = {} /\ Goto(p, "commit") /\ UNCHANGED <<db, archived, call, seen, write>>)
    <3>1. PICK t \in seen[p].left :
            /\ pc[p] = "put_tags" /\ seen' = [seen EXCEPT ![p].left = @ \ {t}]
            /\ Writes(p, {<<t, call[p].to>>}, LAMBDA r : Latest(p, r) + seen[p].taken[t], "put_tags")
      BY <1>8, <2>2 DEF PutTags, NextTag
    <3>2. Latest(p, <<t, call[p].to>>) + seen[p].taken[t] \in Nat
      <4>1. t \in Tags
        BY <1>0
      <4> QED
        BY <1>0, <1>d, <4>1
    <3>3. call' = call /\ pc'[p] = "put_tags" /\ \A r \in Rows : write'[p][r] = write[p][r] \/ write'[p][r] \in Nat
      BY <1>0, <3>1, <3>2 DEF Writes, Shapes, Goto
    <3>4. /\ seen'[p].copies = seen[p].copies /\ seen'[p].total = seen[p].total
          /\ seen'[p].tags = seen[p].tags /\ seen'[p].taken = seen[p].taken
      BY <1>0, <3>1 DEF Shapes, Calling, SeenShape
    <3> QED
      BY <3>3, <3>4, SameNumbers
  <2> QED
    BY <1>e, <2>1, <2>2
<1>9. CASE Quantity(p)
  <2>1. CASE ~Abort(p)
    <3>1. Latest(p, Whole) > call[p].n /\ UNCHANGED seen /\ Writes(p, {Whole}, LAMBDA r : QuantityLeft(p), "commit")
      BY <1>9, <2>1 DEF Quantity
    <3>2. QuantityLeft(p) \in Nat
      <4>1. Latest(p, Whole) \in Nat
        BY <1>b, RowFacts
      <4>2. Latest(p, Whole) > call[p].n
        BY Zenon, <3>1
      <4> QED
        BY <1>0, <4>1, <4>2 DEF QuantityLeft
    <3>3. call' = call /\ pc'[p] = "commit" /\ \A r \in Rows : write'[p][r] = write[p][r] \/ write'[p][r] \in Nat
      BY <1>0, <3>1, <3>2 DEF Writes, Shapes, Goto
    <3> QED
      BY <3>1, <3>3, SameNumbers
  <2> QED
    BY <1>e, <2>1
<1>10. CASE Total(p)
  <2>1. CASE ~Abort(p)
    <3>1. pc' = [pc EXCEPT ![p] = "erase"] /\ UNCHANGED <<db, archived, call, seen, write>>
      BY <1>10, <2>1 DEF Total, Goto
    <3>2. pc'[p] = "erase"
      BY <1>0, <3>1 DEF Shapes
    <3> QED
      BY <1>f, <3>1, <3>2, SameNumbers
  <2> QED
    BY <1>e, <2>1
<1>11. CASE Erase(p)
  <2>1. UNCHANGED seen /\ Writes(p, Rows \ Tags, LAMBDA r : 0, "commit")
    BY <1>11 DEF Erase
  <2>2. call' = call /\ pc'[p] = "commit" /\ \A r \in Rows : write'[p][r] = write[p][r] \/ write'[p][r] \in Nat
    BY <1>0, <2>1 DEF Writes, Shapes, Goto
  <2> QED
    BY <2>1, <2>2, SameNumbers
<1>12. CASE Available(p)
  <2>1. CASE ~Abort(p)
    <3>1. /\ pc' = [pc EXCEPT ![p] = "assign"] /\ UNCHANGED <<call, write>>
          /\ seen' = [seen EXCEPT ![p].copies = db[call[p].from]]
      BY <1>12, <2>1 DEF Available, Goto
    <3>2. /\ pc'[p] = "assign" /\ seen'[p].copies = db[call[p].from] /\ seen'[p].total = seen[p].total
          /\ seen'[p].tags = seen[p].tags /\ seen'[p].taken = seen[p].taken
      BY <1>0, <3>1 DEF Shapes, Calling, SeenShape
    <3> QED
      BY <1>0, <1>c, <3>1, <3>2 DEF Numbers
  <2> QED
    BY <1>e, <2>1
<1>13. CASE Assign(p)
  <2>1. CASE ~Abort(p)
    <3> DEFINE counts(r) == IF call[p].kind = "untag" THEN IF Latest(p, r) <= call[p].n THEN 0 ELSE Latest(p, r) - call[p].n
                            ELSE Assigned(call[p].n, Latest(p, r), seen[p].copies)
    <3>1. PICK t \in call[p].tags :
            /\ UNCHANGED seen
            /\ Writes(p, {r \in {<<t, call[p].from>>} : call[p].kind = "untag" => Latest(p, r) > 0},
                      LAMBDA r : counts(r), "commit")
      BY <1>13, <2>1 DEF Assign
    <3>2. counts(<<t, call[p].from>>) \in Nat
      <4>1. Latest(p, <<t, call[p].from>>) \in Nat
        BY <1>0, <1>d
      <4> QED
        BY <1>0, <4>1 DEF Assigned, AtMost
    <3>3. call' = call /\ pc'[p] = "commit" /\ \A r \in Rows : write'[p][r] = write[p][r] \/ write'[p][r] = counts(<<t, call[p].from>>)
      BY <1>0, <3>1 DEF Writes, Shapes, Goto
    <3> HIDE DEF counts
    <3> QED
      BY <3>1, <3>2, <3>3, SameNumbers
  <2> QED
    BY <1>e, <2>1
<1>14. CASE Insert(p)
  <2>1. CASE ~Abort(p)
    <3>1. PICK t \in call[p].tags :
            UNCHANGED seen /\ Writes(p, {t, <<t, call[p].from>>}, LAMBDA r : IF r = t THEN 1 ELSE call[p].n, "commit")
      BY <1>14, <2>1 DEF Insert
    <3>2. call' = call /\ pc'[p] = "commit" /\ \A r \in Rows : write'[p][r] = write[p][r] \/ write'[p][r] \in Nat
      BY <1>0, <3>1 DEF Writes, Shapes, Goto
    <3> QED
      BY <3>1, <3>2, SameNumbers
  <2> QED
    BY <1>e, <2>1
<1>15. CASE Drop(p)
  <2>1. PICK t \in call[p].tags :
          UNCHANGED seen /\ Writes(p, {t} \cup ({t} \X Stages), LAMBDA r : IF r \in Tags THEN 2 ELSE 0, "commit")
    BY <1>15 DEF Drop
  <2>2. call' = call /\ pc'[p] = "commit" /\ \A r \in Rows : write'[p][r] = write[p][r] \/ write'[p][r] \in Nat
    BY <1>0, <2>1 DEF Writes, Shapes, Goto
  <2> QED
    BY <2>1, <2>2, SameNumbers
<1>16. CASE Read(p)
  <2>1. CASE ~Abort(p)
    <3> DEFINE copies == IF call[p].n = 0 THEN 0 ELSE call[p].n - Started
               total == IF call[p].n = 0 THEN db[Whole] ELSE call[p].n
    <3>1. /\ ~(call[p].n > 0 /\ call[p].n < Started) /\ UNCHANGED <<call, write>>
          /\ seen' = [seen EXCEPT ![p] = [@ EXCEPT !.copies = copies, !.total = total]]
          /\ pc' = [pc EXCEPT ![p] = IF call[p].n = 0 THEN "whole" ELSE "clamp"]
      BY <1>16, <2>1 DEF Read, Goto
    <3>2. copies \in Nat /\ total \in Nat
      <4>1. Started \in Nat
        BY <1>c, StagesDiffer DEF Started
      <4>2. db[Whole] \in Nat
        BY <1>b, RowFacts
      <4> QED
        BY <1>0, <3>1, <4>1, <4>2
    <3> HIDE DEF copies, total
    <3>3. /\ pc'[p] \in {"whole", "clamp"} /\ seen'[p].copies = copies /\ seen'[p].total = total
          /\ seen'[p].tags = seen[p].tags /\ seen'[p].taken = seen[p].taken
      BY <1>0, <3>1 DEF Shapes, Calling, SeenShape
    <3> QED
      BY <1>0, <3>1, <3>2, <3>3 DEF Numbers
  <2> QED
    BY <1>e, <2>1
<1>17. CASE Clamp(p)
  <2>1. /\ UNCHANGED seen
        /\ Writes(p, {r \in Tags \X {Todo} : Latest(p, r) > 0}, LAMBDA r : Clamped(Latest(p, r), seen[p].copies), "backlog")
    BY <1>17 DEF Clamp
  <2>2. \A r \in Rows : Clamped(Latest(p, r), seen[p].copies) \in Nat
    BY <1>0, <1>b DEF Clamped, AtMost
  <2>3. call' = call /\ pc'[p] = "backlog" /\ \A r \in Rows : write'[p][r] = write[p][r] \/ write'[p][r] \in Nat
    BY <1>0, <2>1, <2>2 DEF Writes, Shapes, Goto
  <2> QED
    BY <2>1, <2>3, SameNumbers
<1>18. CASE Backlog(p)
  <2>1. CASE ~Abort(p)
    <3>1. UNCHANGED seen /\ Writes(p, {Todo}, LAMBDA r : seen[p].copies, "whole")
      BY <1>18, <2>1 DEF Backlog
    <3>2. call' = call /\ pc'[p] = "whole" /\ \A r \in Rows : write'[p][r] = write[p][r] \/ write'[p][r] \in Nat
      BY <1>0, <3>1 DEF Writes, Shapes, Goto
    <3> QED
      BY <3>1, <3>2, SameNumbers
  <2> QED
    BY <1>e, <2>1
<1>19. CASE WriteWhole(p)
  <2>1. CASE ~Abort(p)
    <3>1. UNCHANGED seen /\ Writes(p, {Whole}, LAMBDA r : seen[p].total, "commit")
      BY <1>19, <2>1 DEF WriteWhole
    <3>2. call' = call /\ pc'[p] = "commit" /\ \A r \in Rows : write'[p][r] = write[p][r] \/ write'[p][r] \in Nat
      BY <1>0, <3>1 DEF Writes, Shapes, Goto
    <3> QED
      BY <3>1, <3>2, SameNumbers
  <2> QED
    BY <1>e, <2>1
<1>20. CASE LockStages(p)
  <2>1. UNCHANGED seen /\ Writes(p, LockedRows \cap Stages, LAMBDA r : Latest(p, r), "lock_print")
    BY <1>20 DEF LockStages
  <2>2. call' = call /\ pc'[p] = "lock_print" /\ \A r \in Rows : write'[p][r] = write[p][r] \/ write'[p][r] \in Nat
    BY <1>0, <1>b, <2>1 DEF Writes, Shapes, Goto
  <2> QED
    BY <2>1, <2>2, SameNumbers
<1>21. CASE LockPrint(p)
  <2>1. UNCHANGED seen /\ Writes(p, LockedRows \cap {Whole}, LAMBDA r : Latest(p, r), "recheck")
    BY <1>21 DEF LockPrint
  <2>2. call' = call /\ pc'[p] = "recheck" /\ \A r \in Rows : write'[p][r] = write[p][r] \/ write'[p][r] \in Nat
    BY <1>0, <1>b, <2>1 DEF Writes, Shapes, Goto
  <2> QED
    BY <2>1, <2>2, SameNumbers
<1>22. CASE Recheck(p)
  <2>1. CASE ~Abort(p)
    <3>1. pc' = [pc EXCEPT ![p] = "commit"] /\ UNCHANGED <<db, archived, call, seen, write>>
      BY <1>22, <2>1 DEF Recheck, Goto
    <3>2. pc'[p] = "commit"
      BY <1>0, <3>1 DEF Shapes
    <3> QED
      BY <1>f, <3>1, <3>2, SameNumbers
  <2> QED
    BY <1>e, <2>1
<1> QED
  BY <1>1, <1>2, <1>3, <1>4, <1>5, <1>6, <1>7, <1>8, <1>9, <1>10, <1>11, <1>12, <1>13, <1>14, <1>15,
     <1>16, <1>17, <1>18, <1>19, <1>20, <1>21, <1>22 DEF Statement

\* Every kind of call asks for counts, and for the cards by their counts.
LEMMA AsksNumbers ==
  ASSUME NumberInv, NEW p \in Procs, Asks(p)
  PROVE  Numbers(p)'
<1>0. ArchiveInv /\ Shapes /\ Numbers(p) /\ MaxCopies \in Nat /\ \A s \in Used : db[s] \in Nat
  <2>1. Used \subseteq Stages /\ MaxCopies \in Nat
    BY BoardAssumption DEF BoardAssumption
  <2> QED
    BY <2>1, LatestCounts, RowFacts DEF NumberInv, ArchiveInv
<1>a. \A s \in Used : \A n \in 1..db[s] : n \in Nat
  BY <1>0
<1>b. Named({})
  BY FS_EmptySet DEF Named
<1>c. ASSUME NEW asked, Ask(p, asked), asked.n \in Nat, asked.cards = AnyCard \/ Named(asked.cards)
      PROVE  Numbers(p)'
  <2>1. pc'[p] = "begin" /\ call'[p] = asked /\ seen'[p] = seen[p] /\ write'[p] = write[p]
    BY <1>0, <1>c DEF Ask, Goto, Shapes
  <2> QED
    BY <1>0, <1>c, <2>1 DEF Numbers, Asked
<1>d. ASSUME NEW n \in Nat, NEW tags \in SUBSET Tags
      PROVE  Named({[count |-> n, tags |-> tags]})
  <2>1. IsFiniteSet({[count |-> n, tags |-> tags]})
    BY FS_Singleton
  <2>2. [count |-> n, tags |-> tags] \in [count : Nat, tags : SUBSET Tags]
    OBVIOUS
  <2> QED
    BY <2>1, <2>2 DEF Named
<1>1. CASE AskMove(p)
  <2>1. PICK from, to \in Used : \E n \in 1..db[from] : \E cards \in {AnyCard} \cup {{[count |-> n, tags |-> tags]} : tags \in SUBSET Tags} :
          Ask(p, [NoCall EXCEPT !.kind = "move", !.from = from, !.to = to, !.n = n, !.cards = cards])
    BY <1>1 DEF AskMove
  <2>2. PICK n \in 1..db[from] : \E cards \in {AnyCard} \cup {{[count |-> n, tags |-> tags]} : tags \in SUBSET Tags} :
          Ask(p, [NoCall EXCEPT !.kind = "move", !.from = from, !.to = to, !.n = n, !.cards = cards])
    BY <2>1
  <2>3. PICK cards \in {AnyCard} \cup {{[count |-> n, tags |-> tags]} : tags \in SUBSET Tags} :
          Ask(p, [NoCall EXCEPT !.kind = "move", !.from = from, !.to = to, !.n = n, !.cards = cards])
    BY <2>2
  <2> DEFINE asked == [NoCall EXCEPT !.kind = "move", !.from = from, !.to = to, !.n = n, !.cards = cards]
  <2>4. asked.n = n /\ asked.cards = cards
    BY NoCallShape DEF CallsOn
  <2>5. n \in Nat /\ (cards = AnyCard \/ Named(cards))
    BY <1>a, <1>d
  <2>6. Ask(p, asked) /\ asked.n \in Nat /\ (asked.cards = AnyCard \/ Named(asked.cards))
    BY <2>3, <2>4, <2>5
  <2> HIDE DEF asked
  <2> QED
    BY <1>c, <2>6
<1>2. CASE AskMoveGroup(p)
  <2>1. PICK from, to \in Used, t \in Tags :
          /\ db[<<t, from>>] \in 1..db[from]
          /\ Ask(p, [NoCall EXCEPT !.kind = "move_group", !.from = from, !.to = to, !.n = db[<<t, from>>], !.tags = {t}])
    BY <1>2 DEF AskMoveGroup
  <2> DEFINE asked == [NoCall EXCEPT !.kind = "move_group", !.from = from, !.to = to, !.n = db[<<t, from>>], !.tags = {t}]
  <2>2. asked.n = db[<<t, from>>] /\ asked.cards = {}
    BY NoCallShape DEF CallsOn, NoCall
  <2>3. db[<<t, from>>] \in Nat
    BY <1>a, <2>1
  <2>4. Ask(p, asked) /\ asked.n \in Nat /\ (asked.cards = AnyCard \/ Named(asked.cards))
    BY <1>b, <2>1, <2>2, <2>3
  <2> HIDE DEF asked
  <2> QED
    BY <1>c, <2>4
<1>3. CASE AskDelete(p)
  <2>1. PICK from \in Used, tags \in SUBSET Tags : \E n \in 1..db[from] :
          Ask(p, [NoCall EXCEPT !.kind = "delete", !.from = from, !.n = n, !.cards = {[count |-> n, tags |-> tags]},
                                !.last = (n = db[Whole])])
    BY <1>3 DEF AskDelete
  <2>2. PICK n \in 1..db[from] :
          Ask(p, [NoCall EXCEPT !.kind = "delete", !.from = from, !.n = n, !.cards = {[count |-> n, tags |-> tags]},
                                !.last = (n = db[Whole])])
    BY <2>1
  <2> DEFINE asked == [NoCall EXCEPT !.kind = "delete", !.from = from, !.n = n, !.cards = {[count |-> n, tags |-> tags]},
                                     !.last = (n = db[Whole])]
  <2>3. asked.n = n /\ asked.cards = {[count |-> n, tags |-> tags]}
    BY NoCallShape DEF CallsOn
  <2>4. n \in Nat /\ Named({[count |-> n, tags |-> tags]})
    BY <1>a, <1>d
  <2>5. Ask(p, asked) /\ asked.n \in Nat /\ (asked.cards = AnyCard \/ Named(asked.cards))
    BY <2>2, <2>3, <2>4
  <2> HIDE DEF asked
  <2> QED
    BY <1>c, <2>5
<1>4. CASE AskTag(p)
  <2>1. PICK kind \in {"tag", "untag", "create_group"}, from \in Used, t \in Tags : \E n \in 1..db[from] :
          Ask(p, [NoCall EXCEPT !.kind = kind, !.from = from, !.n = n, !.tags = {t}])
    BY <1>4 DEF AskTag
  <2>2. PICK n \in 1..db[from] : Ask(p, [NoCall EXCEPT !.kind = kind, !.from = from, !.n = n, !.tags = {t}])
    BY <2>1
  <2> DEFINE asked == [NoCall EXCEPT !.kind = kind, !.from = from, !.n = n, !.tags = {t}]
  <2>3. asked.n = n /\ asked.cards = {}
    BY NoCallShape DEF CallsOn, NoCall
  <2>4. n \in Nat
    BY <1>a
  <2>5. Ask(p, asked) /\ asked.n \in Nat /\ (asked.cards = AnyCard \/ Named(asked.cards))
    BY <1>b, <2>2, <2>3, <2>4
  <2> HIDE DEF asked
  <2> QED
    BY <1>c, <2>5
<1>5. CASE AskDeleteGroup(p)
  <2>1. PICK t \in Tags : Ask(p, [NoCall EXCEPT !.kind = "delete_group", !.tags = {t}])
    BY <1>5 DEF AskDeleteGroup
  <2> DEFINE asked == [NoCall EXCEPT !.kind = "delete_group", !.tags = {t}]
  <2>2. asked.n = 0 /\ asked.cards = {}
    BY NoCallShape DEF CallsOn, NoCall
  <2>3. Ask(p, asked) /\ asked.n \in Nat /\ (asked.cards = AnyCard \/ Named(asked.cards))
    BY <1>b, <2>1, <2>2
  <2> HIDE DEF asked
  <2> QED
    BY <1>c, <2>3
<1>6. CASE AskEdit(p)
  <2>1. PICK n \in 0..MaxCopies : Ask(p, [NoCall EXCEPT !.kind = "edit", !.n = n])
    BY <1>6 DEF AskEdit
  <2> DEFINE asked == [NoCall EXCEPT !.kind = "edit", !.n = n]
  <2>2. asked.n = n /\ asked.cards = {}
    BY NoCallShape DEF CallsOn, NoCall
  <2>3. n \in Nat
    BY <1>0
  <2>4. Ask(p, asked) /\ asked.n \in Nat /\ (asked.cards = AnyCard \/ Named(asked.cards))
    BY <1>b, <2>1, <2>2, <2>3
  <2> HIDE DEF asked
  <2> QED
    BY <1>c, <2>4
<1>7. CASE AskArchive(p)
  <2>1. Ask(p, [NoCall EXCEPT !.kind = "archive"])
    BY <1>7 DEF AskArchive
  <2> DEFINE asked == [NoCall EXCEPT !.kind = "archive"]
  <2>2. asked.n = 0 /\ asked.cards = {}
    BY NoCallShape DEF CallsOn, NoCall
  <2>3. Ask(p, asked) /\ asked.n \in Nat /\ (asked.cards = AnyCard \/ Named(asked.cards))
    BY <1>b, <2>1, <2>2
  <2> HIDE DEF asked
  <2> QED
    BY <1>c, <2>3
<1> QED
  BY <1>1, <1>2, <1>3, <1>4, <1>5, <1>6, <1>7 DEF Asks

\* The rows start as counts, and no call has asked for anything.
LEMMA InitNumbers == Init => NumberInv
<1> SUFFICES ASSUME Init PROVE NumberInv
  OBVIOUS
<1>1. ArchiveInv
  BY InitArchiveInv
<1>2. Asked(NoCall)
  BY FS_EmptySet DEF NoCall, Asked, Named
<1>3. /\ Nothing.copies \in Nat /\ Nothing.total \in Nat /\ Nothing.tags \in [Tags -> Nat] /\ Nothing.taken \in [Tags -> Nat]
      /\ \A t \in Tags : Nothing.taken[t] <= Nothing.tags[t]
  BY DEF Nothing
<1>4. \A r \in Rows : Blank[r] \in Nat \cup {Unwritten}
  BY DEF Blank
<1>5. \A p \in Procs : Numbers(p)
  BY <1>2, <1>3, <1>4 DEF Numbers, Init
<1>6. db \in [Rows -> Nat]
  <2>1. Copies \in Nat /\ Tagged \in [Tags -> 0..Copies]
    BY BoardAssumption DEF BoardAssumption
  <2>2. \A r \in Items : Tagged[r[1]] \in Nat
    BY <2>1 DEF Items
  <2> QED
    BY <2>1, <2>2 DEF Init
<1> QED
  BY <1>1, <1>5, <1>6 DEF NumberInv

\* A step of one call that commits nothing leaves what the other calls hold.
LEMMA NumbersKept ==
  ASSUME NumberInv, ArchiveInv', NEW p \in Procs, Numbers(p)', db' = db,
         \A q \in Procs \ {p} : pc'[q] = pc[q] /\ call'[q] = call[q] /\ seen'[q] = seen[q] /\ write'[q] = write[q]
  PROVE  NumberInv'
<1>1. ASSUME NEW q \in Procs \ {p} PROVE Numbers(q)'
  BY Zenon DEF NumberInv, Numbers
<1> QED
  BY <1>1 DEF NumberInv

\* Every step of every call keeps the counts counts.
LEMMA NumberInvStep == NumberInv /\ [Next]_vars => NumberInv'
<1> SUFFICES ASSUME NumberInv, [Next]_vars PROVE NumberInv'
  OBVIOUS
<1>0. ArchiveInv /\ Shapes /\ ArchiveInv'
  BY ArchiveInvStep DEF NumberInv, ArchiveInv
<1>1. CASE UNCHANGED vars \/ Unarchive
  <2>1. UNCHANGED <<db, pc, call, seen, write>>
    BY <1>1 DEF vars, Unarchive
  <2> QED
    BY <1>0, <2>1 DEF NumberInv, Numbers
<1>a. ASSUME NEW p \in Procs, Sound(p)
      PROVE  db' = db /\ \A q \in Procs \ {p} : pc'[q] = pc[q] /\ call'[q] = call[q] /\ seen'[q] = seen[q] /\ write'[q] = write[q]
  BY <1>0, <1>a DEF Sound, LocalStep, Shapes
<1>2. ASSUME NEW p \in Procs, Asks(p) PROVE NumberInv'
  BY <1>0, <1>2, <1>a, AsksSound, AsksNumbers, NumbersKept
<1>3. ASSUME NEW p \in Procs, Begin(p) PROVE NumberInv'
  <2>1. Sound(p)
    BY <1>0, <1>3, BeginSound
  <2>2. UNCHANGED <<db, call, seen, write>> /\ pc'[p] = FirstStatement(call[p].kind)
    BY <1>0, <1>3 DEF Begin, Goto, Shapes
  <2>3. pc'[p] \notin {"take_tags", "take_copies"}
    BY <2>2 DEF FirstStatement
  <2>4. Numbers(p)'
    BY <2>2, <2>3 DEF NumberInv, Numbers
  <2> QED
    BY <1>0, <1>a, <2>1, <2>4, NumbersKept
<1>4. ASSUME NEW p \in Procs, Statement(p) PROVE NumberInv'
  BY <1>0, <1>4, <1>a, StatementSound, StatementNumbers, NumbersKept
<1>5. ASSUME NEW p \in Procs, Rollback(p) PROVE NumberInv'
  <2>1. Sound(p) /\ pc'[p] = "idle" /\ call'[p] = NoCall /\ seen'[p] = Nothing /\ write'[p] = Blank
    BY <1>0, <1>5, AbortSound DEF Rollback, Abort, End, Goto, Shapes
  <2>2. Numbers(p)'
    BY <1>0, <2>1, AbortNumbers
  <2> QED
    BY <1>0, <1>a, <2>1, <2>2, NumbersKept
<1>6. ASSUME NEW p \in Procs, Commit(p) PROVE NumberInv'
  <2>1. /\ db' = [r \in Rows |-> Latest(p, r)] /\ pc' = [pc EXCEPT ![p] = "idle"] /\ call' = [call EXCEPT ![p] = NoCall]
        /\ seen' = [seen EXCEPT ![p] = Nothing] /\ write' = [write EXCEPT ![p] = Blank]
    BY <1>6 DEF Commit, End, Goto
  <2>2. db' \in [Rows -> Nat]
    <3>1. \A r \in Rows : Latest(p, r) \in Nat
      BY LatestCounts
    <3> HIDE DEF Latest
    <3> QED
      BY <2>1, <3>1
  <2>3. Numbers(p)'
    BY <1>0, <2>1, AbortNumbers DEF Shapes
  <2>4. ASSUME NEW q \in Procs \ {p} PROVE Numbers(q)'
    <3>1. pc'[q] = pc[q] /\ call'[q] = call[q] /\ seen'[q] = seen[q] /\ write'[q] = write[q]
      BY <1>0, <2>1 DEF Shapes
    <3> QED
      BY Zenon, <3>1 DEF NumberInv, Numbers
  <2> QED
    BY <1>0, <2>2, <2>3, <2>4 DEF NumberInv
<1> QED
  BY <1>1, <1>2, <1>3, <1>4, <1>5, <1>6 DEF Next

\* No count of the board falls below zero, and calls hold what they have asked for and read.
LEMMA NumbersAreTyped == NumberInv => TypeOK
<1> SUFFICES ASSUME NumberInv PROVE TypeOK
  OBVIOUS
<1>0. Shapes /\ archived \in BOOLEAN /\ db \in [Rows -> Nat]
  BY DEF NumberInv, ArchiveInv, Shapes
<1>1. pc \in [Procs -> Labels]
  BY <1>0 DEF Shapes, Calling
<1>2. ASSUME NEW p \in Procs
      PROVE  /\ call[p] \in [kind : Kinds, from : Stages, to : Stages, n : Nat, tags : SUBSET Tags,
                             cards : {call[p].cards}, last : BOOLEAN]
             /\ call[p].cards = AnyCard \/ \A c \in call[p].cards : c \in [count : Nat, tags : SUBSET Tags]
             /\ seen[p] \in [copies : Nat, total : Nat, tags : [Tags -> Nat], taken : [Tags -> Nat], left : SUBSET Tags]
             /\ write[p] \in [Rows -> Nat \cup {Unwritten}]
  <2>1. CallShape(call[p]) /\ SeenShape(seen[p]) /\ WriteShape(write[p]) /\ Numbers(p)
    BY <1>0 DEF Shapes, Calling, NumberInv
  <2>2. call[p] \in CallsOn({call[p].cards}) /\ call[p].n \in Nat
    BY <2>1 DEF CallShape, Numbers, Asked
  <2>3. call[p] \in [kind : Kinds, from : Stages, to : Stages, n : Nat, tags : SUBSET Tags,
                     cards : {call[p].cards}, last : BOOLEAN]
    BY <2>2 DEF CallsOn
  <2>4. call[p].cards = AnyCard \/ \A c \in call[p].cards : c \in [count : Nat, tags : SUBSET Tags]
    BY <2>1 DEF Numbers, Asked, Named
  <2>5. seen[p] \in [copies : Nat, total : Nat, tags : [Tags -> Nat], taken : [Tags -> Nat], left : SUBSET Tags]
    BY <2>1 DEF SeenShape, Numbers
  <2>6. write[p] \in [Rows -> Nat \cup {Unwritten}]
    BY <2>1 DEF WriteShape, Numbers
  <2> QED
    BY <2>3, <2>4, <2>5, <2>6
<1> QED
  BY <1>0, <1>1, <1>2 DEF TypeOK

\* Type correctness: the cards a call names and takes from are counted, never below zero.
THEOREM TypeCorrect == Spec => []TypeOK
<1> QED
  BY InitNumbers, NumberInvStep, NumbersAreTyped, PTL DEF Spec

\* The board deals the copies of a stage onto cards as its counts say.
LEMMA NumbersAreDealt == NumberInv => CardsDealt
<1> SUFFICES ASSUME NumberInv, NEW s \in Used
    PROVE  LET cohorts == CohortsOf(db[s], TagsIn(db, s))
               card(tags) == OnCard(cohorts, tags)
               onCopies(t) == AtMost(db[<<t, s>>], db[s])
               needed == SumOver(Tags, onCopies)
           IN /\ SumOver(SUBSET Tags, card) = db[s]
              /\ \A t \in Tags : SumOver({tags \in SUBSET Tags : t \in tags}, card) = onCopies(t)
              /\ card({}) = db[s] - AtMost(needed, db[s])
  BY Zenon DEF CardsDealt
<1> DEFINE cohorts == CohortsOf(db[s], TagsIn(db, s))
<1>1. s \in Stages /\ db \in [Rows -> Nat]
  BY BoardAssumption DEF BoardAssumption, NumberInv
<1>2. TagsIn(db, s) \in [Tags -> Nat] /\ db[s] \in Nat /\ \A t \in Tags : TagsIn(db, s)[t] = db[<<t, s>>]
  BY <1>1, TagsRead
<1>3. /\ SumFunctionOnSet([T \in SUBSET Tags |-> OnCard(cohorts, T)], SUBSET Tags) = db[s]
      /\ \A t \in Tags : SumFunctionOnSet([T \in With(t) |-> OnCard(cohorts, T)], With(t)) = AtMost(TagsIn(db, s)[t], db[s])
      /\ OnCard(cohorts, {}) = db[s] - AtMost(SumFunctionOnSet(Shown(db[s], TagsIn(db, s)), Tags), db[s])
  <2>1. CardsMatch(db[s], TagsIn(db, s), cohorts)
    BY <1>2, CardsAre
  <2> QED
    BY Zenon, <2>1 DEF CardsMatch
<1>4. SumFunctionOnSet(Shown(db[s], TagsIn(db, s)), Tags) = SumFunctionOnSet([t \in Tags |-> AtMost(db[<<t, s>>], db[s])], Tags)
  <2>1. Shown(db[s], TagsIn(db, s)) = [t \in Tags |-> AtMost(db[<<t, s>>], db[s])]
    BY <1>2 DEF Shown
  <2> QED
    BY <2>1
<1> HIDE DEF cohorts
<1>5. /\ SumFunctionOnSet([T \in SUBSET Tags |-> OnCard(cohorts, T)], SUBSET Tags) = db[s]
      /\ \A t \in Tags : SumFunctionOnSet([T \in {tags \in SUBSET Tags : t \in tags} |-> OnCard(cohorts, T)],
                                          {tags \in SUBSET Tags : t \in tags}) = AtMost(db[<<t, s>>], db[s])
      /\ OnCard(cohorts, {}) = db[s] - AtMost(SumFunctionOnSet([t \in Tags |-> AtMost(db[<<t, s>>], db[s])], Tags), db[s])
  <2>1. ASSUME NEW t \in Tags
        PROVE  SumFunctionOnSet([T \in {tags \in SUBSET Tags : t \in tags} |-> OnCard(cohorts, T)],
                                {tags \in SUBSET Tags : t \in tags}) = AtMost(db[<<t, s>>], db[s])
    <3>1. With(t) = {tags \in SUBSET Tags : t \in tags}
      BY Zenon DEF With
    <3>2. SumFunctionOnSet([T \in With(t) |-> OnCard(cohorts, T)], With(t)) = AtMost(TagsIn(db, s)[t], db[s])
      BY Zenon, <1>3
    <3>3. TagsIn(db, s)[t] = db[<<t, s>>]
      BY <1>2
    <3> QED
      BY Zenon, <3>1, <3>2, <3>3
  <2> QED
    BY Zenon, <1>3, <1>4, <2>1
<1> QED
  BY Zenon, <1>5 DEF SumOver, cohorts

\* Whatever counts the calls leave, on either database and for any tags and copies, every copy is on
\* one card, a tag on as many as it can be, and copies go without a tag when the tags do not need them.
THEOREM CardsAreAsCounted == Spec => []CardsDealt
<1> QED
  BY InitNumbers, NumberInvStep, NumbersAreDealt, PTL DEF Spec

-----------------------------------------------------------------------------
(* The cards that a call takes are still there when it commits, on SQLite. *)

\* What a call has read of the cards that it takes stays so until it commits.
Still(p) ==
  /\ pc[p] = "tags" => seen[p].copies = db[call[p].from]
  /\ pc[p] = "group" => call[p].kind = "move_group"
  /\ Open(p) /\ pc[p] \notin {"stage", "tags"} /\ call[p].kind \in {"move", "delete"}
       => \A c \in NamedCards(p) : c.count <= Card(db, c.tags, call[p].from)

StillInv == BalanceInv /\ \A p \in Procs : Still(p)

\* Of a transaction's statements, three read the cards; the others keep what was asked.
Later == {"take_tags", "take_copies", "put_copies", "touch", "put_tags", "quantity", "total", "erase", "assign", "clamp",
          "backlog", "whole", "lock_print", "recheck", "commit"}
Onwards(p) == call' = call /\ pc[p] \notin {"idle", "begin", "group", "stage", "tags"} /\ pc'[p] \in Later

(* Where each statement leads. *)
LEMMA StatementFlow ==
  ASSUME Shapes, NEW p \in Procs, Statement(p)
  PROVE  \/ Abort(p) \/ ReadStage(p) \/ Onwards(p)
         \/ ReadGroup(p) /\ pc[p] = "group" /\ pc'[p] = "stage" /\ call'[p].kind = call[p].kind
         \/ /\ ReadTags(p) /\ pc[p] = "tags" /\ call' = call /\ pc'[p] \in {"total", "take_tags"}
            /\ Enough(seen[p].copies, CohortsRead(p), call[p])
<1> SUFFICES ASSUME ~Abort(p)
             PROVE  \/ ReadStage(p) \/ Onwards(p)
                    \/ ReadGroup(p) /\ pc[p] = "group" /\ pc'[p] = "stage" /\ call'[p].kind = call[p].kind
                    \/ /\ ReadTags(p) /\ pc[p] = "tags" /\ call' = call /\ pc'[p] \in {"total", "take_tags"}
                       /\ Enough(seen[p].copies, CohortsRead(p), call[p])
  OBVIOUS
<1>0. CallShape(call[p])
  BY DEF Shapes, Calling
<1>a. ASSUME call' = call, pc[p] \notin {"idle", "begin", "group", "stage", "tags"}, \E label \in Later : Goto(p, label)
      PROVE  Onwards(p)
  BY <1>a DEF Onwards, Later, Goto, Shapes
<1>1. CASE ReadGroup(p)
  <2>1. pc[p] = "group" /\ pc'[p] = "stage"
    BY <1>1 DEF ReadGroup, Goto, Shapes
  <2>2. PICK n, cards : call' = [call EXCEPT ![p] = [@ EXCEPT !.n = n, !.cards = cards]]
    BY <1>1 DEF ReadGroup
  <2>3. call'[p].kind = call[p].kind
    BY <1>0, <2>2 DEF CallShape, CallsOn, Shapes
  <2> QED
    BY <1>1, <2>1, <2>3
<1>2. CASE ReadTags(p)
  <2>1. /\ pc[p] = "tags" /\ call' = call /\ Goto(p, IF call[p].last THEN "total" ELSE "take_tags")
        /\ Enough(seen[p].copies, CohortsRead(p), call[p])
    BY <1>2 DEF ReadTags
  <2>2. pc'[p] \in {"total", "take_tags"}
    BY <2>1 DEF Goto, Shapes
  <2> QED
    BY <1>2, <2>1, <2>2
<1>3. CASE TakeTags(p)
  <2>1. call' = call /\ pc[p] = "take_tags" /\ \E label \in Later : Goto(p, label)
    BY <1>3 DEF TakeTags, Writes, Later
  <2> QED
    BY <1>a, <2>1
<1>4. CASE TakeCopies(p)
  <2>1. call' = call /\ pc[p] = "take_copies" /\ \E label \in Later : Goto(p, label)
    BY <1>4 DEF TakeCopies, Writes, Later
  <2> QED
    BY <1>a, <2>1
<1>5. CASE PutCopies(p)
  <2>1. call' = call /\ pc[p] = "put_copies" /\ \E label \in Later : Goto(p, label)
    BY <1>5 DEF PutCopies, Writes, Later
  <2> QED
    BY <1>a, <2>1
<1>6. CASE Touch(p)
  <2>1. call' = call /\ pc[p] = "touch" /\ \E label \in Later : Goto(p, label)
    BY <1>6 DEF Touch, Writes, Later
  <2> QED
    BY <1>a, <2>1
<1>7. CASE PutTags(p)
  <2>1. call' = call /\ pc[p] = "put_tags" /\ \E label \in Later : Goto(p, label)
    BY <1>7 DEF PutTags, Writes, Later
  <2> QED
    BY <1>a, <2>1
<1>8. CASE Quantity(p)
  <2>1. call' = call /\ pc[p] = "quantity" /\ \E label \in Later : Goto(p, label)
    BY <1>8 DEF Quantity, Writes, Later
  <2> QED
    BY <1>a, <2>1
<1>9. CASE Total(p)
  <2>1. call' = call /\ pc[p] = "total" /\ \E label \in Later : Goto(p, label)
    BY <1>9 DEF Total, Writes, Later
  <2> QED
    BY <1>a, <2>1
<1>10. CASE Erase(p)
  <2>1. call' = call /\ pc[p] = "erase" /\ \E label \in Later : Goto(p, label)
    BY <1>10 DEF Erase, Writes, Later
  <2> QED
    BY <1>a, <2>1
<1>11. CASE Available(p)
  <2>1. call' = call /\ pc[p] = "available" /\ \E label \in Later : Goto(p, label)
    BY <1>11 DEF Available, Writes, Later
  <2> QED
    BY <1>a, <2>1
<1>12. CASE Assign(p)
  <2>1. call' = call /\ pc[p] = "assign" /\ \E label \in Later : Goto(p, label)
    BY <1>12 DEF Assign, Writes, Later
  <2> QED
    BY <1>a, <2>1
<1>13. CASE Insert(p)
  <2>1. call' = call /\ pc[p] = "insert" /\ \E label \in Later : Goto(p, label)
    BY <1>13 DEF Insert, Writes, Later
  <2> QED
    BY <1>a, <2>1
<1>14. CASE Drop(p)
  <2>1. call' = call /\ pc[p] = "drop" /\ \E label \in Later : Goto(p, label)
    BY <1>14 DEF Drop, Writes, Later
  <2> QED
    BY <1>a, <2>1
<1>15. CASE Read(p)
  <2>1. call' = call /\ pc[p] = "read" /\ \E label \in Later : Goto(p, label)
    BY <1>15 DEF Read, Writes, Later
  <2> QED
    BY <1>a, <2>1
<1>16. CASE Clamp(p)
  <2>1. call' = call /\ pc[p] = "clamp" /\ \E label \in Later : Goto(p, label)
    BY <1>16 DEF Clamp, Writes, Later
  <2> QED
    BY <1>a, <2>1
<1>17. CASE Backlog(p)
  <2>1. call' = call /\ pc[p] = "backlog" /\ \E label \in Later : Goto(p, label)
    BY <1>17 DEF Backlog, Writes, Later
  <2> QED
    BY <1>a, <2>1
<1>18. CASE WriteWhole(p)
  <2>1. call' = call /\ pc[p] = "whole" /\ \E label \in Later : Goto(p, label)
    BY <1>18 DEF WriteWhole, Writes, Later
  <2> QED
    BY <1>a, <2>1
<1>19. CASE LockStages(p)
  <2>1. call' = call /\ pc[p] = "lock_stages" /\ \E label \in Later : Goto(p, label)
    BY <1>19 DEF LockStages, Writes, Later
  <2> QED
    BY <1>a, <2>1
<1>20. CASE LockPrint(p)
  <2>1. call' = call /\ pc[p] = "lock_print" /\ \E label \in Later : Goto(p, label)
    BY <1>20 DEF LockPrint, Writes, Later
  <2> QED
    BY <1>a, <2>1
<1>21. CASE Recheck(p)
  <2>1. call' = call /\ pc[p] = "recheck" /\ \E label \in Later : Goto(p, label)
    BY <1>21 DEF Recheck, Writes, Later
  <2> QED
    BY <1>a, <2>1
<1> QED
  BY <1>1, <1>2, <1>3, <1>4, <1>5, <1>6, <1>7, <1>8, <1>9, <1>10, <1>11, <1>12, <1>13, <1>14, <1>15, <1>16, <1>17, <1>18, <1>19, <1>20, <1>21 DEF Statement

\* A statement keeps the cards: nothing that it reads of them changes before it commits.
LEMMA StatementStill ==
  ASSUME StillInv, Backend = "sqlite", NEW p \in Procs, Statement(p)
  PROVE  Still(p)'
<1>0. Shapes /\ db' = db /\ Still(p) /\ Balanced(p) /\ Calling(p)
  BY StatementSound DEF StillInv, BalanceInv, ArchiveInv, Sound, LocalStep, Shapes
<1>1. CASE Abort(p)
  <2>1. pc'[p] = "idle"
    BY <1>0, <1>1 DEF Abort, End, Goto, Shapes
  <2> QED
    BY <2>1 DEF Still, Open
<1>2. CASE ReadStage(p)
  <2>1. call' = call /\ pc'[p] = "tags" /\ seen' = [seen EXCEPT ![p].copies = db[call[p].from]]
    BY <1>0, <1>2 DEF ReadStage, Goto, Shapes
  <2>2. seen'[p].copies = db[call[p].from]
    BY <1>0, <2>1 DEF Shapes, Calling, SeenShape
  <2> QED
    BY <1>0, <2>1, <2>2 DEF Still
<1>3. CASE ReadGroup(p) /\ pc[p] = "group" /\ pc'[p] = "stage" /\ call'[p].kind = call[p].kind
  BY <1>3 DEF Still
<1>4. CASE /\ ReadTags(p) /\ pc[p] = "tags" /\ call' = call /\ pc'[p] \in {"total", "take_tags"}
           /\ Enough(seen[p].copies, CohortsRead(p), call[p])
  <2>1. seen[p].copies = db[call[p].from]
    BY <1>0, <1>4 DEF Still
  <2>2. \A c \in NamedCards(p) : c.count <= Card(db, c.tags, call[p].from)
    <3>1. call[p].cards # AnyCard => \A c \in call[p].cards : c.count <= OnCard(CohortsRead(p), c.tags)
      BY <1>4 DEF Enough
    <3>2. CohortsRead(p) = CohortsOf(db[call[p].from], TagsIn(db, call[p].from))
      BY <2>1 DEF CohortsRead
    <3> QED
      BY Zenon, <3>1, <3>2 DEF NamedCards, Card
  <2>3. (\A c \in NamedCards(p) : c.count <= Card(db, c.tags, call[p].from))'
    BY Zenon, <1>0, <1>4, <2>2 DEF NamedCards, Card, TagsIn
  <2> QED
    BY Zenon, <1>4, <2>3 DEF Still
<1>5. CASE Onwards(p)
  <2>1. /\ call' = call /\ pc'[p] \notin {"group", "tags"} /\ Open(p) /\ pc[p] \notin {"stage", "tags"}
    BY <1>5 DEF Onwards, Later, Open
  <2>2. call[p].kind \in {"move", "delete"} => \A c \in NamedCards(p) : c.count <= Card(db, c.tags, call[p].from)
    BY Zenon, <1>0, <2>1 DEF Still
  <2>3. call'[p].kind \in {"move", "delete"} => (\A c \in NamedCards(p) : c.count <= Card(db, c.tags, call[p].from))'
    BY Zenon, <1>0, <2>1, <2>2 DEF NamedCards, Card, TagsIn
  <2> QED
    BY Zenon, <2>1, <2>3 DEF Still
<1> QED
  BY <1>0, <1>1, <1>2, <1>3, <1>4, <1>5, StatementFlow

\* While a transaction is open on SQLite no other one is, so no other one commits.
LEMMA StillKept ==
  ASSUME StillInv, Backend = "sqlite", NEW p \in Procs, NEW q \in Procs \ {p},
         db' = db \/ Open(p),
         pc'[q] = pc[q], call'[q] = call[q], seen'[q] = seen[q]
  PROVE  Still(q)'
<1>1. Still(q) /\ Solo
  BY DEF StillInv, BalanceInv
<1>2. CASE db' = db
  BY Zenon, <1>1, <1>2 DEF Still, NamedCards, Card, TagsIn, Open
<1>3. CASE Open(p)
  <2>1. ~Open(q)
    BY <1>1, <1>3 DEF Solo
  <2> QED
    BY <2>1 DEF Open, Still
<1> QED
  BY <1>2, <1>3

(* No call takes a card yet. *)
LEMMA InitStill == Init => StillInv
<1> SUFFICES ASSUME Init PROVE StillInv
  OBVIOUS
<1>1. \A p \in Procs : Still(p)
  BY DEF Init, Still, Open
<1> QED
  BY <1>1, InitBalanceInv DEF StillInv

\* Every step of every call keeps the cards that open transactions take on the board.
LEMMA StillInvStep ==
  ASSUME Backend = "sqlite"
  PROVE  StillInv /\ [Next]_vars => StillInv'
<1> SUFFICES ASSUME StillInv, [Next]_vars PROVE StillInv'
  OBVIOUS
<1>0. BalanceInv /\ ArchiveInv /\ Shapes /\ BalanceInv'
  BY BalanceInvStep DEF StillInv, BalanceInv, ArchiveInv
<1>1. CASE UNCHANGED vars \/ Unarchive
  <2>1. UNCHANGED <<db, pc, call, seen>>
    BY <1>1 DEF vars, Unarchive
  <2>2. ASSUME NEW p \in Procs PROVE Still(p)'
    BY Zenon, <2>1 DEF StillInv, Still, NamedCards, Card, TagsIn, Open
  <2> QED
    BY <1>0, <2>2 DEF StillInv
<1>a. ASSUME NEW p \in Procs, Sound(p), Still(p)' PROVE StillInv'
  <2>1. db' = db /\ \A q \in Procs \ {p} : pc'[q] = pc[q] /\ call'[q] = call[q] /\ seen'[q] = seen[q]
    BY <1>0, <1>a DEF Sound, LocalStep, Shapes
  <2>2. \A q \in Procs \ {p} : Still(q)'
    BY <2>1, StillKept
  <2> QED
    BY <1>0, <1>a, <2>2 DEF StillInv
<1>2. ASSUME NEW p \in Procs, Asks(p) PROVE StillInv'
  <2>1. Sound(p) /\ ~Open(p)'
    BY <1>0, <1>2, AsksSound, AsksBalanced
  <2>2. Still(p)'
    BY <2>1 DEF Still, Open
  <2> QED
    BY <1>a, <2>1, <2>2
<1>3. ASSUME NEW p \in Procs, Begin(p) PROVE StillInv'
  <2>1. Sound(p)
    BY <1>0, <1>3, BeginSound
  <2>2. pc'[p] = FirstStatement(call[p].kind) /\ call' = call
    BY <1>0, <1>3 DEF Begin, Goto, Shapes
  <2>3. /\ pc'[p] # "tags" /\ (pc'[p] = "group" => call[p].kind = "move_group")
        /\ call[p].kind \in {"move", "delete"} => pc'[p] = "stage"
    BY <2>2, <1>0 DEF FirstStatement, Shapes, Calling, CallShape, CallsOn, Kinds
  <2>4. Still(p)'
    BY <2>2, <2>3 DEF Still
  <2> QED
    BY <1>a, <2>1, <2>4
<1>4. ASSUME NEW p \in Procs, Statement(p) PROVE StillInv'
  BY <1>0, <1>4, <1>a, StatementSound, StatementStill
<1>5. ASSUME NEW p \in Procs, Rollback(p) PROVE StillInv'
  <2>1. Sound(p) /\ ~Open(p)'
    BY <1>0, <1>5, AbortSound, AbortBalanced DEF Rollback
  <2>2. Still(p)'
    BY <2>1 DEF Still, Open
  <2> QED
    BY <1>a, <2>1, <2>2
<1>6. ASSUME NEW p \in Procs, Commit(p) PROVE StillInv'
  <2>1. /\ Open(p) /\ pc' = [pc EXCEPT ![p] = "idle"] /\ call' = [call EXCEPT ![p] = NoCall]
        /\ seen' = [seen EXCEPT ![p] = Nothing]
    BY <1>6 DEF Commit, End, Goto, Open
  <2>2. Still(p)'
    BY <1>0, <2>1 DEF Still, Open, Shapes
  <2>3. ASSUME NEW q \in Procs \ {p} PROVE Still(q)'
    <3>1. pc'[q] = pc[q] /\ call'[q] = call[q] /\ seen'[q] = seen[q]
      BY <1>0, <2>1 DEF Shapes
    <3> QED
      BY <2>1, <3>1, StillKept
  <2> QED
    BY <1>0, <2>2, <2>3 DEF StillInv
<1> QED
  BY <1>1, <1>2, <1>3, <1>4, <1>5, <1>6 DEF Next

\* On SQLite a card that a call moves or deletes is on the board, with as many copies as it takes,
\* when the call commits: what it has read of the stage and of its tags is of one state.
THEOREM TakenCardsThere ==
  ASSUME Backend = "sqlite"
  PROVE  Spec => CardStillThere
<1>1. StillInv => [StillThere]_vars
  <2> SUFFICES ASSUME StillInv, NEW p \in Procs, NEW c \in NamedCards(p), TakesCard(p, c)
               PROVE  c.count <= Card(db, c.tags, call[p].from)
    BY DEF StillThere
  <2>1. Open(p) /\ pc[p] \notin {"stage", "tags"} /\ call[p].kind \in {"move", "delete"}
    BY DEF TakesCard, Open
  <2> QED
    BY <2>1, Zenon DEF StillInv, Still
<1> QED
  BY <1>1, InitStill, StillInvStep, PTL DEF Spec, CardStillThere

-----------------------------------------------------------------------------
(* A tag is never on more copies than its stage holds, on SQLite.          *)

\* What a call knows of itself: the copies that it asks for are those of its cards.
Knows(p) ==
  /\ call[p].kind = "move_group" => \E t \in Tags : call[p].tags = {t}
  /\ call[p].kind \in {"move", "delete"} \/ (call[p].kind = "move_group" /\ pc[p] \notin {"begin", "group"}) => Paid(call[p])
  /\ pc[p] = "group" => call[p].kind = "move_group"
  /\ pc[p] = "insert" => call[p].kind = "create_group"

\* The cards that carry a tag have the copies that carry it.
LEMMA CarryingPaid ==
  ASSUME NEW cards, Deck(cards), NEW t \in Tags, NEW S, S = {i \in DOMAIN cards : t \in cards[i].tags},
         NEW K, K = {cards[i] : i \in S}, K # AnyCard
  PROVE  SumFunctionOnSet(CardCounts(K), K) = CopiesOn(cards, With(t))
<1> DEFINE D == DOMAIN cards
           w == Weigh(cards, With(t))
           copies == CopiesOn(cards, SUBSET Tags)
           asked == [n |-> 0, cards |-> K]
<1>1. cards \in Seq(Cohort) /\ IsFiniteSet(D) /\ \A i \in D : cards[i].tags \subseteq Tags /\ cards[i].count \in Nat
  BY DeckIsFinite DEF Deck
<1>2. Named(K)
  BY CardsNamed
<1>3. copies \in Nat
  BY <1>1, AllCopies
<1>4. \A c \in K : c.count <= OnCard(cards, c.tags)
  <2> SUFFICES ASSUME NEW i \in S PROVE cards[i].count <= OnCard(cards, cards[i].tags)
    OBVIOUS
  <2>1. OnCard(cards, cards[i].tags) = cards[i].count
    BY CardOfCohort
  <2> QED
    BY <1>1, <2>1
<1>5. asked.n = 0 /\ asked.cards = K
  OBVIOUS
<1> HIDE DEF asked, copies
<1>6. Enough(copies, cards, asked)
  BY <1>3, <1>4, <1>5 DEF Enough
<1>7. SumFunctionOnSet(TakenFrom(cards, asked), D) = SumFunctionOnSet(CardCounts(K), K)
  <2>1. asked.cards # AnyCard /\ Named(asked.cards)
    BY <1>2, <1>5
  <2>2. SumFunctionOnSet(TakenFrom(cards, asked), D) = SumFunctionOnSet(CardCounts(asked.cards), asked.cards)
    BY <1>6, <2>1, AllTaken
  <2> QED
    BY <1>5, <2>2
<1>8. \A i \in D : TakenFrom(cards, asked)[i] = w[i]
  <2> TAKE i \in D
  <2>1. /\ \A c \in K : c.tags = cards[i].tags => TakenFrom(cards, asked)[i] = c.count
        /\ (\A c \in K : c.tags # cards[i].tags) => TakenFrom(cards, asked)[i] = 0
    <3>1. asked.cards # AnyCard /\ Named(asked.cards)
      BY <1>2, <1>5
    <3>2. /\ \A c \in asked.cards : c.tags = cards[i].tags => TakenFrom(cards, asked)[i] = c.count
          /\ (\A c \in asked.cards : c.tags # cards[i].tags) => TakenFrom(cards, asked)[i] = 0
      BY <1>1, <3>1, NamedTake
    <3> QED
      BY <1>5, <3>2
  <2>2. CASE i \in S
    <3>1. TakenFrom(cards, asked)[i] = cards[i].count
      BY <2>1, <2>2
    <3> QED
      BY <1>1, <2>2, <3>1 DEF Weigh, With
  <2>3. CASE i \notin S
    <3>1. \A c \in K : c.tags # cards[i].tags
      BY <2>3
    <3> QED
      BY <2>1, <2>3, <3>1 DEF Weigh, With
  <2> QED
    BY <2>2, <2>3
<1> HIDE DEF w, D
<1>9. SumFunctionOnSet(TakenFrom(cards, asked), D) = SumFunctionOnSet(w, D)
  BY <1>1, <1>8, SumAgree
<1> QED
  BY <1>7, <1>9 DEF CopiesOn, w, D

\* A call that names one card asks for its copies.
LEMMA OnePaid ==
  ASSUME NEW n \in Nat, NEW T, NEW asked, asked.n = n, asked.cards = {[count |-> n, tags |-> T]}
  PROVE  Paid(asked)
<1> DEFINE c == [count |-> n, tags |-> T]
<1>1. c.count = n
  OBVIOUS
<1> HIDE DEF c
<1>2. CardCounts({c})[c] = n
  BY <1>1 DEF CardCounts
<1>3. IsFiniteSet({c})
  BY FS_Singleton
<1>4. SumFunctionOnSet(CardCounts({c}), {c}) = CardCounts({c})[c]
  BY <1>2, <1>3, SumOfOne
<1> QED
  BY <1>2, <1>4 DEF Paid, c

\* Every kind of call asks for the copies of the cards that it names.
LEMMA AsksKnows ==
  ASSUME NumberInv, NEW p \in Procs, Asks(p)
  PROVE  Knows(p)'
<1>0. Shapes /\ \A s \in Used : db[s] \in Nat
  <2>1. Used \subseteq Stages
    BY BoardAssumption DEF BoardAssumption
  <2> QED
    BY <2>1, LatestCounts, RowFacts DEF NumberInv, ArchiveInv
<1>a. \A s \in Used : \A n \in 1..db[s] : n \in Nat
  BY <1>0
<1>c. ASSUME NEW asked, Ask(p, asked), asked.kind = "move_group" => \E t \in Tags : asked.tags = {t},
             asked.kind \in {"move", "delete"} => Paid(asked)
      PROVE  Knows(p)'
  <2>1. pc'[p] = "begin" /\ call'[p] = asked
    BY <1>0, <1>c DEF Ask, Goto, Shapes
  <2> QED
    BY <1>c, <2>1 DEF Knows
<1>d. ASSUME NEW asked, Ask(p, asked), asked.kind \notin {"move", "delete", "move_group"} PROVE Knows(p)'
  BY <1>c, <1>d
<1>1. CASE AskMove(p)
  <2>1. PICK from, to \in Used : \E n \in 1..db[from] : \E cards \in {AnyCard} \cup {{[count |-> n, tags |-> tags]} : tags \in SUBSET Tags} :
          Ask(p, [NoCall EXCEPT !.kind = "move", !.from = from, !.to = to, !.n = n, !.cards = cards])
    BY <1>1 DEF AskMove
  <2>2. PICK n \in 1..db[from] : \E cards \in {AnyCard} \cup {{[count |-> n, tags |-> tags]} : tags \in SUBSET Tags} :
          Ask(p, [NoCall EXCEPT !.kind = "move", !.from = from, !.to = to, !.n = n, !.cards = cards])
    BY <2>1
  <2>3. PICK cards \in {AnyCard} \cup {{[count |-> n, tags |-> tags]} : tags \in SUBSET Tags} :
          Ask(p, [NoCall EXCEPT !.kind = "move", !.from = from, !.to = to, !.n = n, !.cards = cards])
    BY <2>2
  <2> DEFINE asked == [NoCall EXCEPT !.kind = "move", !.from = from, !.to = to, !.n = n, !.cards = cards]
  <2>4. asked.n = n /\ asked.cards = cards /\ asked.kind = "move"
    BY NoCallShape DEF CallsOn
  <2>5. Ask(p, asked)
    BY <2>3
  <2> HIDE DEF asked
  <2>6. Paid(asked)
    <3>1. CASE cards = AnyCard
      BY <2>4, <3>1 DEF Paid
    <3>2. CASE cards \in {{[count |-> n, tags |-> tags]} : tags \in SUBSET Tags}
      <4>1. PICK tags \in SUBSET Tags : cards = {[count |-> n, tags |-> tags]}
        BY <3>2
      <4>2. n \in Nat
        BY <1>a
      <4> QED
        BY <2>4, <4>1, <4>2, OnePaid
    <3> QED
      BY <3>1, <3>2
  <2> QED
    BY <1>c, <2>4, <2>5, <2>6
<1>2. CASE AskMoveGroup(p)
  <2>1. PICK from, to \in Used, t \in Tags :
          Ask(p, [NoCall EXCEPT !.kind = "move_group", !.from = from, !.to = to, !.n = db[<<t, from>>], !.tags = {t}])
    BY <1>2 DEF AskMoveGroup
  <2> DEFINE asked == [NoCall EXCEPT !.kind = "move_group", !.from = from, !.to = to, !.n = db[<<t, from>>], !.tags = {t}]
  <2>2. asked.kind = "move_group" /\ asked.tags = {t}
    BY NoCallShape DEF CallsOn
  <2>3. Ask(p, asked)
    BY <2>1
  <2> HIDE DEF asked
  <2> QED
    BY <1>c, <2>2, <2>3
<1>3. CASE AskDelete(p)
  <2>1. PICK from \in Used, tags \in SUBSET Tags : \E n \in 1..db[from] :
          Ask(p, [NoCall EXCEPT !.kind = "delete", !.from = from, !.n = n, !.cards = {[count |-> n, tags |-> tags]},
                                !.last = (n = db[Whole])])
    BY <1>3 DEF AskDelete
  <2>2. PICK n \in 1..db[from] :
          Ask(p, [NoCall EXCEPT !.kind = "delete", !.from = from, !.n = n, !.cards = {[count |-> n, tags |-> tags]},
                                !.last = (n = db[Whole])])
    BY <2>1
  <2> DEFINE asked == [NoCall EXCEPT !.kind = "delete", !.from = from, !.n = n, !.cards = {[count |-> n, tags |-> tags]},
                                     !.last = (n = db[Whole])]
  <2>3. asked.n = n /\ asked.cards = {[count |-> n, tags |-> tags]} /\ asked.kind = "delete"
    BY NoCallShape DEF CallsOn
  <2>4. n \in Nat /\ Ask(p, asked)
    BY <1>a, <2>2
  <2> HIDE DEF asked
  <2>5. Paid(asked)
    BY <2>3, <2>4, OnePaid
  <2> QED
    BY <1>c, <2>3, <2>4, <2>5
<1>4. CASE AskTag(p)
  <2>1. PICK kind \in {"tag", "untag", "create_group"}, from \in Used, t \in Tags : \E n \in 1..db[from] :
          Ask(p, [NoCall EXCEPT !.kind = kind, !.from = from, !.n = n, !.tags = {t}])
    BY <1>4 DEF AskTag
  <2>2. PICK n \in 1..db[from] : Ask(p, [NoCall EXCEPT !.kind = kind, !.from = from, !.n = n, !.tags = {t}])
    BY <2>1
  <2> DEFINE asked == [NoCall EXCEPT !.kind = kind, !.from = from, !.n = n, !.tags = {t}]
  <2>3. asked.kind = kind
    BY NoCallShape DEF CallsOn
  <2> QED
    BY <1>d, <2>2, <2>3
<1>5. CASE AskDeleteGroup(p)
  <2>1. PICK t \in Tags : Ask(p, [NoCall EXCEPT !.kind = "delete_group", !.tags = {t}])
    BY <1>5 DEF AskDeleteGroup
  <2>2. [NoCall EXCEPT !.kind = "delete_group", !.tags = {t}].kind = "delete_group"
    BY NoCallShape DEF CallsOn
  <2> QED
    BY <1>d, <2>1, <2>2
<1>6. CASE AskEdit(p)
  <2>1. PICK n \in 0..MaxCopies : Ask(p, [NoCall EXCEPT !.kind = "edit", !.n = n])
    BY <1>6 DEF AskEdit
  <2>2. [NoCall EXCEPT !.kind = "edit", !.n = n].kind = "edit"
    BY NoCallShape DEF CallsOn
  <2> QED
    BY <1>d, <2>1, <2>2
<1>7. CASE AskArchive(p)
  <2>1. Ask(p, [NoCall EXCEPT !.kind = "archive"])
    BY <1>7 DEF AskArchive
  <2>2. [NoCall EXCEPT !.kind = "archive"].kind = "archive"
    BY NoCallShape DEF CallsOn
  <2> QED
    BY <1>d, <2>1, <2>2
<1> QED
  BY <1>1, <1>2, <1>3, <1>4, <1>5, <1>6, <1>7 DEF Asks

(* A call that opens its transaction knows what it knew. *)
LEMMA BeginKnows ==
  ASSUME Shapes, NEW p \in Procs, Knows(p), Begin(p)
  PROVE  Knows(p)'
<1>1. pc[p] = "begin" /\ pc'[p] = FirstStatement(call[p].kind) /\ call' = call /\ call[p].kind \in Kinds
  BY DEF Begin, Goto, Shapes, Calling, CallShape, CallsOn
<1>2. /\ pc'[p] = "group" <=> call[p].kind = "move_group"
      /\ pc'[p] = "insert" <=> call[p].kind = "create_group"
      /\ pc'[p] # "begin"
  BY <1>1 DEF FirstStatement, Kinds
<1> QED
  BY <1>1, <1>2 DEF Knows

\* moveGroup names the cards that carry its tag, and asks for their copies.
LEMMA StatementKnows ==
  ASSUME NumberInv, NEW p \in Procs, Knows(p), Statement(p)
  PROVE  Knows(p)'
<1>0. Shapes /\ Calling(p)
  BY DEF NumberInv, ArchiveInv, Shapes
<1>1. CASE Abort(p)
  <2>1. pc'[p] = "idle" /\ call'[p] = NoCall
    BY <1>0, <1>1 DEF Abort, End, Goto, Shapes
  <2> QED
    BY <2>1 DEF Knows, NoCall
<1>2. CASE ReadStage(p)
  <2>1. call' = call /\ pc[p] = "stage" /\ pc'[p] = "tags"
    BY <1>0, <1>2 DEF ReadStage, Goto, Shapes
  <2> QED
    BY <2>1 DEF Knows
<1>3. CASE ReadGroup(p) /\ ~Abort(p) /\ pc[p] = "group" /\ pc'[p] = "stage" /\ call'[p].kind = call[p].kind
  <2> DEFINE from == call[p].from
             cohorts == CohortsOf(db[from], TagsIn(db, from))
             n == AtMost(call[p].n, db[from])
  <2>1. PICK t \in Tags : call[p].tags = {t}
    BY <1>3 DEF Knows
  <2> DEFINE S == {i \in DOMAIN cohorts : t \in cohorts[i].tags}
             K == {cohorts[i] : i \in S}
  <2>2. /\ \A u \in call[p].tags : db[<<u, from>>] = call[p].n
        /\ call' = [call EXCEPT ![p] = [@ EXCEPT !.n = n,
                      !.cards = {cohorts[i] : i \in {j \in DOMAIN cohorts : call[p].tags \subseteq cohorts[j].tags}}]]
    BY <1>3 DEF ReadGroup
  <2>3. {j \in DOMAIN cohorts : call[p].tags \subseteq cohorts[j].tags} = S
    BY <2>1
  <2>4. call'[p].n = n /\ call'[p].cards = K /\ call'[p].tags = call[p].tags
    <3> HIDE DEF cohorts, n
    <3>1. call[p] \in CallsOn({call[p].cards}) /\ call'[p] = [call[p] EXCEPT !.n = n,
                      !.cards = {cohorts[i] : i \in {j \in DOMAIN cohorts : call[p].tags \subseteq cohorts[j].tags}}]
      BY <1>0, <2>2 DEF Shapes, Calling, CallShape
    <3>2. {cohorts[i] : i \in {j \in DOMAIN cohorts : call[p].tags \subseteq cohorts[j].tags}} = K
      BY Zenon, <2>3
    <3> HIDE DEF K, S
    <3> QED
      BY <3>1, <3>2 DEF CallsOn
  <2>5. n = CopiesOn(cohorts, With(t)) /\ Deck(cohorts)
    <3>1. from \in Stages /\ db \in [Rows -> Nat]
      BY <1>0 DEF Calling, CallShape, CallsOn, NumberInv
    <3>2. TagsIn(db, from) \in [Tags -> Nat] /\ db[from] \in Nat /\ TagsIn(db, from)[t] = db[<<t, from>>]
      BY <3>1, TagsRead
    <3>3. Deck(cohorts) /\ CopiesOn(cohorts, With(t)) = AtMost(TagsIn(db, from)[t], db[from])
      BY <3>2, CohortsAreDealt, AllTags DEF Dealt
    <3> QED
      BY <2>1, <2>2, <3>2, <3>3
  <2>6. Paid(call'[p])
    <3> HIDE DEF cohorts, n
    <3>1. ASSUME K # AnyCard PROVE SumFunctionOnSet(CardCounts(K), K) = CopiesOn(cohorts, With(t))
      BY <2>5, <3>1, CarryingPaid
    <3> HIDE DEF K, S
    <3> QED
      BY <2>4, <2>5, <3>1 DEF Paid
  <2>7. Paid(call[p])'
    BY Zenon, <2>6 DEF Paid, CardCounts
  <2> QED
    BY <1>3, <2>1, <2>4, <2>7 DEF Knows
<1>4. CASE ReadTags(p) /\ pc[p] = "tags" /\ call' = call /\ pc'[p] \in {"total", "take_tags"}
  BY <1>4 DEF Knows
<1>5. CASE Onwards(p)
  BY <1>5 DEF Knows, Onwards, Later
<1> QED
  BY <1>0, <1>1, <1>2, <1>3, <1>4, <1>5, StatementFlow

\* A call's statements before it writes anything, and those at which what it has written fits already.
Unwritable == {"idle", "begin", "group", "stage", "tags", "total", "erase", "available", "assign", "insert", "drop",
               "read", "clamp", "lock_stages"}
Fitted == {"put_copies", "quantity", "whole", "lock_print", "recheck", "commit"}

\* A tag is on no more copies than the stage holds, as a transaction sees them.
FitsIn(p, s) == \A t \in Tags : Latest(p, <<t, s>>) <= Latest(p, s)

\* What a call still owes a tag in the stage that it moves copies to.
Owed(p, t) == IF t \in seen[p].left THEN seen[p].taken[t] ELSE 0

\* What a call takes of each tag, and leaves of it in the stage.
Taking(p) ==
  LET n == call[p].n
      from == call[p].from
  IN
  /\ \A t \in Tags : seen[p].taken[t] <= n /\ seen[p].tags[t] - seen[p].taken[t] <= seen[p].copies - n
  /\ \A t \in Tags \ seen[p].left : Latest(p, <<t, from>>) = seen[p].tags[t] - seen[p].taken[t]
  /\ \A t \in Tags, s \in Stages \ {from} : ~Locked(p, <<t, s>>)
  /\ pc[p] = "take_copies" => seen[p].left = {}

\* What a transaction has read and written of the tags' counts.
Fitting(p) ==
  /\ pc[p] \in Unwritable => \A r \in Rows : ~Locked(p, r)
  /\ pc[p] \in {"tags", "assign"} => seen[p].copies = db[call[p].from]
  /\ pc[p] \in {"take_tags", "take_copies"} => Taking(p)
  /\ pc[p] = "put_copies" => \A t \in Tags : seen[p].taken[t] <= call[p].n
  /\ pc[p] \in {"touch", "put_tags"} => /\ \A s \in Stages \ {call[p].to} : FitsIn(p, s)
                                        /\ \A t \in Tags : Latest(p, <<t, call[p].to>>) + Owed(p, t) <= Latest(p, call[p].to)
  /\ pc[p] = "backlog" => /\ \A t \in Tags : Latest(p, <<t, Todo>>) <= seen[p].copies
                          /\ \A t \in Tags, s \in Stages \ {Todo} : ~Locked(p, <<t, s>>)
  /\ pc[p] \in Fitted => \A s \in Stages : FitsIn(p, s)

FitInv == BalanceInv /\ NumberInv /\ TagsFit /\ \A p \in Procs : Knows(p) /\ Fitting(p)

\* What a transaction sees after it writes.
LEMMA LatestWritten ==
  ASSUME Shapes, db' = db, NEW p \in Procs, NEW rows, Written(p, rows), \A r \in rows \cap Rows : write'[p][r] \in Nat
  PROVE  \A r \in Rows : /\ r \in rows => Latest(p, r)' = write'[p][r]
                         /\ r \notin rows => Latest(p, r)' = Latest(p, r) /\ Locked(p, r)' = Locked(p, r)
<1> TAKE r \in Rows
<1>1. CASE r \in rows
  <2>1. write'[p][r] \in Nat /\ Unwritten \notin Nat
    BY <1>1, BoardAssumption DEF BoardAssumption
  <2> QED
    BY <1>1, <2>1 DEF Latest
<1>2. CASE r \notin rows
  BY <1>2 DEF Latest, Locked, Written
<1> QED
  BY <1>1, <1>2

\* A call that reads the cards takes no more of a tag than its copies, and leaves no more than the rest.
LEMMA ReadTaking ==
  ASSUME FitInv, NEW p \in Procs, pc[p] = "tags", Enough(seen[p].copies, CohortsRead(p), call[p]), NEW t \in Tags
  PROVE  /\ Taken(p)[t] \in Nat /\ Taken(p)[t] <= call[p].n
         /\ TagsIn(db, call[p].from)[t] - Taken(p)[t] <= seen[p].copies - call[p].n
         /\ TagsIn(db, call[p].from)[t] = db[<<t, call[p].from>>]
<1> DEFINE from == call[p].from
           copies == seen[p].copies
           cards == CohortsRead(p)
           taken == TakenFrom(cards, call[p])
<1>0. /\ Shapes /\ Calling(p) /\ Numbers(p) /\ from \in Stages /\ db \in [Rows -> Nat] /\ Asked(call[p])
      /\ call[p].n \in Nat /\ copies \in Nat /\ copies = db[from] /\ Paid(call[p]) /\ db[<<t, from>>] <= db[from]
  <2>1. Shapes /\ Calling(p) /\ Numbers(p) /\ db \in [Rows -> Nat] /\ Balanced(p) /\ Knows(p) /\ Fitting(p)
    BY DEF FitInv, NumberInv, BalanceInv, ArchiveInv, Shapes
  <2>2. from \in Stages /\ call[p].kind \in {"move", "move_group", "delete"}
    BY <2>1 DEF Calling, CallShape, CallsOn, Balanced
  <2>3. copies = db[from] /\ Paid(call[p]) /\ db[<<t, from>>] <= db[from]
    BY <2>1, <2>2 DEF Fitting, Knows, FitInv, TagsFit
  <2> QED
    BY <2>1, <2>2, <2>3 DEF Numbers, Asked
<1>1. TagsIn(db, from) \in [Tags -> Nat] /\ db[from] \in Nat /\ TagsIn(db, from)[t] = db[<<t, from>>]
  BY <1>0, TagsRead
<1>2. /\ Deck(cards) /\ CopiesOn(cards, SUBSET Tags) = copies
      /\ CopiesOn(cards, With(t)) = AtMost(TagsIn(db, from)[t], copies)
  <2>1. cards = CohortsOf(copies, TagsIn(db, from))
    BY DEF CohortsRead
  <2> HIDE DEF cards
  <2>2. Dealt(cards, copies, TagsIn(db, from), Len(TagOrder))
    BY <1>0, <1>1, <2>1, CohortsAreDealt
  <2> QED
    BY <2>2, AllTags DEF Dealt
<1>3. CopiesOn(cards, With(t)) = TagsIn(db, from)[t]
  <2>1. AtMost(TagsIn(db, from)[t], copies) = TagsIn(db, from)[t]
    BY <1>0, <1>1 DEF AtMost
  <2> QED
    BY <1>2, <2>1
<1>4. Taken(p)[t] = Carrying(cards, taken, t)
  BY Zenon DEF Taken
<1> HIDE DEF cards
<1>5. taken = TakenFrom(cards, call[p]) /\ Enough(copies, cards, call[p])
  BY DEF cards
<1> HIDE DEF taken, copies
<1>6. /\ Carrying(cards, taken, t) \in Nat /\ Carrying(cards, taken, t) <= call[p].n
      /\ CopiesOn(cards, With(t)) - Carrying(cards, taken, t) <= copies - call[p].n
  BY <1>0, <1>2, <1>5, CarryingFits
<1> QED
  BY <1>1, <1>3, <1>4, <1>6 DEF copies

\* Every statement keeps the tags fitting, as its transaction sees them.
LEMMA StatementFits ==
  ASSUME FitInv, "create_group" \notin Calls, NEW p \in Procs, Statement(p)
  PROVE  Fitting(p)'
<1>0. PICK from, to \in Stages :
      /\ from = call[p].from /\ to = call[p].to
      /\ ArchiveInv /\ Shapes /\ NumberInv /\ Numbers(p) /\ Calling(p) /\ Archiving(p) /\ Balanced(p) /\ Knows(p) /\ Fitting(p)
      /\ call[p].n \in Nat /\ call[p].tags \subseteq Tags
      /\ seen[p].copies \in Nat /\ seen[p].left \subseteq Tags
      /\ \A t \in Tags : seen[p].tags[t] \in Nat /\ seen[p].taken[t] \in Nat /\ seen[p].taken[t] <= seen[p].tags[t]
  <2>1. ArchiveInv /\ Shapes /\ NumberInv /\ Numbers(p) /\ Calling(p) /\ Archiving(p) /\ Balanced(p) /\ Knows(p) /\ Fitting(p)
    BY DEF FitInv, BalanceInv, NumberInv, ArchiveInv, Shapes
  <2>2. call[p].from \in Stages /\ call[p].to \in Stages /\ call[p].tags \subseteq Tags /\ seen[p].left \subseteq Tags
    BY <2>1 DEF Calling, CallShape, CallsOn, SeenShape
  <2> QED
    BY <2>1, <2>2 DEF Numbers, Asked
<1>a. db' = db
  BY <1>0, StatementSound DEF Sound, LocalStep
<1>b. \A r \in Rows : Latest(p, r) \in Nat /\ db[r] \in Nat /\ (~Locked(p, r) => Latest(p, r) = db[r])
  BY <1>0, LatestCounts DEF Latest, Locked
<1>c. \A s \in Stages : s \in Rows /\ s \in Counted /\ s # Whole /\ s \notin Tags /\ Latest(p, s) \in Nat /\ db[s] \in Nat
  BY <1>b, RowFacts
<1>d. \A t \in Tags, s \in Stages : /\ <<t, s>> \in Rows /\ <<t, s>> \notin Counted /\ <<t, s>> \notin Tags
                                    /\ Latest(p, <<t, s>>) \in Nat /\ db[<<t, s>>] \in Nat /\ db[<<t, s>>] <= db[s]
  <2>1. \A t \in Tags, s \in Stages : <<t, s>> \in Rows /\ <<t, s>> \notin Counted /\ <<t, s>> \in Items
    BY RowFacts DEF Items
  <2>2. Tags \cap Items = {}
    BY BoardAssumption DEF BoardAssumption
  <2> QED
    BY <1>b, <2>1, <2>2 DEF FitInv, TagsFit
<1>e. Abort(p) => Fitting(p)'
  <2> SUFFICES ASSUME Abort(p) PROVE Fitting(p)'
    OBVIOUS
  <2>1. pc'[p] = "idle" /\ write'[p] = Blank
    BY <1>0 DEF Abort, End, Goto, Shapes
  <2>2. \A r \in Rows : ~Locked(p, r)'
    BY <2>1 DEF Blank, Locked
  <2> QED
    BY <2>1, <2>2 DEF Fitting, Fitted, Unwritable
<1>f. ASSUME write' = write
      PROVE  \A r \in Rows : Latest(p, r)' = Latest(p, r) /\ Locked(p, r)' = Locked(p, r)
  BY <1>a, <1>f DEF Latest, Locked
<1>g. ASSUME NEW s \in Stages, ~Locked(p, s), \A t \in Tags : ~Locked(p, <<t, s>>)
      PROVE  FitsIn(p, s)
  BY <1>b, <1>c, <1>d, <1>g DEF FitsIn
<1>h. pc[p] \in Early => \A s \in Stages : ~Locked(p, s)
  BY <1>0, <1>c DEF Archiving, Clean
<1>i. ASSUME pc'[p] \in Fitted, \A s \in Stages : FitsIn(p, s)', pc'[p] # "put_copies"
      PROVE  Fitting(p)'
  BY <1>i DEF Fitting, Fitted, Unwritable
<1>j. ASSUME pc'[p] \in Unwritable \ {"tags", "assign"}, \A r \in Rows : ~Locked(p, r)'
      PROVE  Fitting(p)'
  BY <1>j DEF Fitting, Fitted, Unwritable
<1>k. ASSUME NEW s \in Stages, FitsIn(p, s), Latest(p, s)' = Latest(p, s),
             \A t \in Tags : Latest(p, <<t, s>>)' = Latest(p, <<t, s>>)
      PROVE  FitsIn(p, s)'
  BY <1>k DEF FitsIn
<1>l. ASSUME Written(p, {Whole}), write'[p][Whole] \in Nat
      PROVE  \A s \in Stages : Latest(p, s)' = Latest(p, s) /\ \A t \in Tags : Latest(p, <<t, s>>)' = Latest(p, <<t, s>>)
  <2>1. \A r \in Rows : r \notin {Whole} => Latest(p, r)' = Latest(p, r)
    BY <1>0, <1>a, <1>l, LatestWritten
  <2> QED
    BY <1>c, <1>d, <2>1, RowFacts
<1>m. ASSUME Written(p, {Whole}), write'[p][Whole] \in Nat, pc'[p] \in Fitted, pc'[p] # "put_copies", \A s \in Stages : FitsIn(p, s)
      PROVE  Fitting(p)'
  <2>1. \A s \in Stages : FitsIn(p, s)'
    BY <1>k, <1>l, <1>m
  <2> QED
    BY <1>i, <1>m, <2>1
<1>1. CASE ReadGroup(p)
  <2>1. CASE ~Abort(p)
    <3>1. pc[p] = "group" /\ pc'[p] = "stage" /\ write' = write
      BY <1>0, <1>1, <2>1 DEF ReadGroup, Goto, Shapes
    <3>2. \A r \in Rows : ~Locked(p, r)'
      BY <1>0, <1>f, <3>1 DEF Fitting, Unwritable
    <3> QED
      BY <1>j, <3>1, <3>2 DEF Unwritable
  <2> QED
    BY <1>e, <2>1
<1>2. CASE ReadStage(p)
  <2>1. /\ pc[p] = "stage" /\ pc'[p] = "tags" /\ call' = call /\ write' = write
        /\ seen' = [seen EXCEPT ![p].copies = db[call[p].from]]
    BY <1>0, <1>2 DEF ReadStage, Goto, Shapes
  <2>2. seen'[p].copies = db'[call'[p].from]
    BY <1>0, <1>a, <2>1 DEF Shapes, Calling, SeenShape
  <2>3. \A r \in Rows : ~Locked(p, r)'
    BY <1>0, <1>f, <2>1 DEF Fitting, Unwritable
  <2> QED
    BY <2>1, <2>2, <2>3 DEF Fitting, Fitted, Unwritable
<1>3. CASE ReadTags(p)
  <2>1. CASE ~Abort(p)
    <3>1. /\ pc[p] = "tags" /\ call' = call /\ write' = write /\ Enough(seen[p].copies, CohortsRead(p), call[p])
          /\ pc'[p] = IF call[p].last THEN "total" ELSE "take_tags"
          /\ seen' = [seen EXCEPT ![p] = [@ EXCEPT !.tags = TagsIn(db, call[p].from), !.taken = Taken(p),
                                                  !.left = {t \in Tags : Taken(p)[t] > 0}]]
      BY <1>0, <1>3, <2>1 DEF ReadTags, Goto, Shapes
    <3>2. \A r \in Rows : ~Locked(p, r)' /\ Latest(p, r)' = db[r]
      BY <1>0, <1>b, <1>f, <3>1 DEF Fitting, Unwritable
    <3>3. CASE pc'[p] = "total"
      BY <1>j, <3>2, <3>3 DEF Unwritable
    <3>4. CASE pc'[p] = "take_tags"
      <4> DEFINE tags == TagsIn(db, call[p].from)
                 taken == Taken(p)
      <4>1. \A t \in Tags : /\ taken[t] \in Nat /\ taken[t] <= call[p].n /\ tags[t] - taken[t] <= seen[p].copies - call[p].n
                            /\ tags[t] = db[<<t, from>>]
        BY <1>0, <3>1, ReadTaking
      <4> HIDE DEF tags, taken
      <4>2. /\ seen'[p].copies = seen[p].copies /\ seen'[p].tags = tags /\ seen'[p].taken = taken
            /\ seen'[p].left = {t \in Tags : taken[t] > 0}
        <5>1. seen' = [seen EXCEPT ![p] = [@ EXCEPT !.tags = tags, !.taken = taken, !.left = {t \in Tags : taken[t] > 0}]]
          BY <3>1 DEF tags, taken
        <5> QED
          BY <1>0, <5>1 DEF Shapes, Calling, SeenShape
      <4>3. \A t \in Tags \ seen'[p].left : tags[t] - taken[t] = db[<<t, from>>]
        BY <1>0, <1>d, <4>1, <4>2
      <4>4. /\ \A t \in Tags : seen'[p].taken[t] <= call'[p].n
            /\ \A t \in Tags : seen'[p].tags[t] - seen'[p].taken[t] <= seen'[p].copies - call'[p].n
        BY <3>1, <4>1, <4>2
      <4>5. \A t \in Tags \ seen'[p].left : Latest(p, <<t, from>>)' = seen'[p].tags[t] - seen'[p].taken[t]
        <5> TAKE t \in Tags \ seen'[p].left
        <5>1. <<t, from>> \in Rows
          BY <1>0, <1>d
        <5>2. Latest(p, <<t, from>>)' = db[<<t, from>>]
          BY Zenon, <3>2, <5>1
        <5> QED
          BY <4>2, <4>3, <5>2
      <4>6. \A t \in Tags, s \in Stages : ~Locked(p, <<t, s>>)'
        BY <1>d, <3>2
      <4>7. Taking(p)'
        BY <1>0, <3>1, <3>4, <4>4, <4>5, <4>6 DEF Taking
      <4> QED
        BY <3>4, <4>7 DEF Fitting, Fitted, Unwritable
    <3> QED
      BY <3>1, <3>3, <3>4
  <2> QED
    BY <1>e, <2>1
<1>4. CASE TakeTags(p)
  <2>0. pc[p] = "take_tags" /\ Taking(p)
    BY <1>0, <1>4 DEF TakeTags, Fitting
  <2>1. CASE seen[p].left = {} /\ Goto(p, "take_copies") /\ UNCHANGED <<db, archived, call, seen, write>>
    <3>1. pc'[p] = "take_copies"
      BY <1>0, <2>1 DEF Goto, Shapes
    <3>2. \A r \in Rows : Latest(p, r)' = Latest(p, r) /\ Locked(p, r)' = Locked(p, r)
      BY <1>f, <2>1
    <3>3. Taking(p)'
      BY <1>0, <1>d, <2>0, <2>1, <3>2 DEF Taking
    <3> QED
      BY <3>1, <3>3 DEF Fitting, Fitted, Unwritable
  <2>2. CASE ~Abort(p) /\ ~(seen[p].left = {} /\ Goto(p, "take_copies") /\ UNCHANGED <<db, archived, call, seen, write>>)
    <3>1. PICK t \in seen[p].left :
            /\ seen' = [seen EXCEPT ![p].left = @ \ {t}]
            /\ Writes(p, {<<t, call[p].from>>}, LAMBDA r : seen[p].tags[t] - seen[p].taken[t], "take_tags")
      BY <1>4, <2>2 DEF TakeTags, NextTag
    <3> DEFINE row == <<t, from>>
    <3>2. Written(p, {row}) /\ call' = call /\ pc'[p] = "take_tags"
      BY <1>0, <3>1 DEF Writes, Written, Goto, Shapes
    <3>3. t \in Tags /\ row \in Rows
      BY <1>0, <1>d
    <3>4. write'[p][row] = seen[p].tags[t] - seen[p].taken[t]
      BY <1>0, <3>1, <3>3 DEF Writes, Shapes
    <3>5. write'[p][row] \in Nat
      BY <1>0, <3>3, <3>4
    <3>6. \A r \in Rows : /\ r = row => Latest(p, r)' = seen[p].tags[t] - seen[p].taken[t]
                          /\ r # row => Latest(p, r)' = Latest(p, r) /\ Locked(p, r)' = Locked(p, r)
      <4>1. \A r \in Rows : /\ r \in {row} => Latest(p, r)' = write'[p][r]
                            /\ r \notin {row} => Latest(p, r)' = Latest(p, r) /\ Locked(p, r)' = Locked(p, r)
        <5> HIDE DEF row
        <5> QED
          BY <1>0, <1>a, <3>2, <3>5, LatestWritten
      <4> HIDE DEF row
      <4> QED
        BY <3>4, <4>1
    <3>7. /\ seen'[p].copies = seen[p].copies /\ seen'[p].tags = seen[p].tags /\ seen'[p].taken = seen[p].taken
          /\ seen'[p].left = seen[p].left \ {t}
      <4>1. seen' = [seen EXCEPT ![p].left = @ \ {t}]
        BY Zenon, <3>1
      <4> QED
        BY <1>0, <4>1 DEF Shapes, Calling, SeenShape
    <3>8. \A u \in Tags \ (seen[p].left \ {t}) : Latest(p, <<u, from>>)' = seen[p].tags[u] - seen[p].taken[u]
      <4> TAKE u \in Tags \ (seen[p].left \ {t})
      <4>1. <<u, from>> \in Rows
        BY <1>0, <1>d
      <4>2. CASE u = t
        <5>1. <<u, from>> = row
          BY <4>2
        <5> QED
          BY Zenon, <3>6, <4>1, <4>2, <5>1
      <4>3. CASE u # t
        <5>1. <<u, from>> # row
          BY <4>3
        <5>2. Latest(p, <<u, from>>)' = Latest(p, <<u, from>>)
          BY Zenon, <3>6, <4>1, <5>1
        <5>3. Latest(p, <<u, from>>) = seen[p].tags[u] - seen[p].taken[u]
          BY <1>0, <2>0, <4>3 DEF Taking
        <5> QED
          BY <5>2, <5>3
      <4> QED
        BY <4>2, <4>3
    <3>9. \A u \in Tags, s \in Stages \ {from} : ~Locked(p, <<u, s>>)'
      <4> TAKE u \in Tags, s \in Stages \ {from}
      <4>1. <<u, s>> \in Rows /\ <<u, s>> # row /\ ~Locked(p, <<u, s>>)
        BY <1>0, <1>d, <2>0 DEF Taking
      <4> QED
        BY <3>6, <4>1
    <3>10. \A u \in Tags : seen[p].taken[u] <= call[p].n /\ seen[p].tags[u] - seen[p].taken[u] <= seen[p].copies - call[p].n
      BY <2>0 DEF Taking
    <3> HIDE DEF row
    <3>11. Taking(p)'
      BY <1>0, <3>2, <3>7, <3>8, <3>9, <3>10 DEF Taking
    <3> QED
      BY <3>2, <3>11 DEF Fitting, Fitted, Unwritable
  <2> QED
    BY <1>e, <2>1, <2>2
<1>5. CASE TakeCopies(p)
  <2>1. CASE ~Abort(p)
    <3>1. /\ pc[p] = "take_copies" /\ seen' = seen /\ Latest(p, call[p].from) = seen[p].copies
          /\ Writes(p, {call[p].from}, LAMBDA r : Latest(p, r) - call[p].n, IF call[p].kind = "delete" THEN "quantity" ELSE "put_copies")
      BY <1>5, <2>1 DEF TakeCopies, Unchanged
    <3>2. Written(p, {from}) /\ call' = call /\ pc'[p] \in {"quantity", "put_copies"}
      BY <1>0, <3>1 DEF Writes, Written, Goto, Shapes
    <3>3. pc[p] = "take_copies" /\ seen' = seen /\ Latest(p, from) = seen[p].copies
      BY Zenon, <1>0, <3>1
    <3>4. call[p].n <= seen[p].copies /\ Taking(p) /\ seen[p].left = {}
      BY <1>0, <3>3 DEF Numbers, Fitting, Taking
    <3>5. write'[p][from] = seen[p].copies - call[p].n
      BY <1>0, <1>c, <3>1 DEF Writes, Shapes
    <3>6. write'[p][from] \in Nat
      BY <1>0, <3>4, <3>5
    <3>7. \A r \in Rows : /\ r \in {from} => Latest(p, r)' = write'[p][r]
                          /\ r \notin {from} => Latest(p, r)' = Latest(p, r) /\ Locked(p, r)' = Locked(p, r)
      BY <1>0, <1>a, <3>2, <3>6, LatestWritten
    <3>8. \A s \in Stages : FitsIn(p, s)'
      <4> TAKE s \in Stages
      <4>0. \A t \in Tags : Latest(p, <<t, s>>)' = Latest(p, <<t, s>>)
        <5>1. from \in Counted
          BY <1>0, <1>c
        <5> QED
          BY <1>d, <3>7, <5>1
      <4>1. CASE s = from
        <5>1. Latest(p, s)' = seen[p].copies - call[p].n
          BY <1>c, <3>5, <3>7, <4>1
        <5>2. \A t \in Tags : Latest(p, <<t, s>>) <= seen[p].copies - call[p].n
          BY <1>0, <3>4, <4>1 DEF Taking
        <5> QED
          BY <4>0, <5>1, <5>2 DEF FitsIn
      <4>2. CASE s # from
        <5>1. \A t \in Tags : ~Locked(p, <<t, s>>)
          BY <1>0, <3>4, <4>2 DEF Taking
        <5>2. ~Locked(p, s)
          BY <1>h, <3>3 DEF Early
        <5>3. FitsIn(p, s)
          BY <1>g, <5>1, <5>2
        <5>4. Latest(p, s)' = Latest(p, s)
          BY <1>c, <3>7, <4>2
        <5> QED
          BY <1>k, <4>0, <5>3, <5>4
      <4> QED
        BY <4>1, <4>2
    <3>9. \A t \in Tags : seen'[p].taken[t] <= call'[p].n
      BY <3>2, <3>3, <3>4 DEF Taking
    <3> QED
      BY <3>2, <3>8, <3>9 DEF Fitting, Fitted, Unwritable
  <2> QED
    BY <1>e, <2>1
<1>6. CASE PutCopies(p)
  <2>1. /\ pc[p] = "put_copies" /\ seen' = [seen EXCEPT ![p].left = {t \in Tags : seen[p].taken[t] > 0}]
        /\ Writes(p, {call[p].to}, LAMBDA r : Latest(p, r) + call[p].n, "touch")
    BY <1>6 DEF PutCopies
  <2>2. Written(p, {to}) /\ call' = call /\ pc'[p] = "touch"
    BY <1>0, <2>1 DEF Writes, Written, Goto, Shapes
  <2>3. write'[p][to] = Latest(p, to) + call[p].n
    BY <1>0, <1>c, <2>1 DEF Writes, Shapes
  <2>4. /\ \A t \in Tags : seen[p].taken[t] <= call[p].n
        /\ \A s \in Stages : FitsIn(p, s)
    BY Zenon, <1>0, <2>1 DEF Fitting, Fitted
  <2>5. write'[p][to] \in Nat
    BY <1>0, <1>c, <2>3
  <2>6. to \in Stages /\ to \in Counted
    BY <1>0, <1>c
  <2>7. seen'[p].taken = seen[p].taken /\ seen'[p].left = {t \in Tags : seen[p].taken[t] > 0}
    <3>1. seen' = [seen EXCEPT ![p].left = {t \in Tags : seen[p].taken[t] > 0}]
      BY Zenon, <2>1
    <3> QED
      BY <1>0, <3>1 DEF Shapes, Calling, SeenShape
  <2>8. \A r \in Rows : /\ r \in {to} => Latest(p, r)' = write'[p][r]
                        /\ r \notin {to} => Latest(p, r)' = Latest(p, r) /\ Locked(p, r)' = Locked(p, r)
    BY <1>0, <1>a, <2>2, <2>5, LatestWritten
  <2>9. \A t \in Tags, s \in Stages : Latest(p, <<t, s>>)' = Latest(p, <<t, s>>)
    BY <1>d, <2>6, <2>8
  <2>10. \A s \in Stages \ {to} : FitsIn(p, s)'
    <3> TAKE s \in Stages \ {to}
    <3>1. Latest(p, s)' = Latest(p, s)
      BY <1>c, <2>8
    <3> QED
      BY <1>k, <2>4, <2>9, <3>1
  <2>11. \A t \in Tags : Latest(p, <<t, to>>)' + Owed(p, t)' <= Latest(p, to)'
    <3> TAKE t \in Tags
    <3>1. Latest(p, to)' = Latest(p, to) + call[p].n /\ Latest(p, <<t, to>>)' = Latest(p, <<t, to>>)
      <4>1. to \in Rows /\ Latest(p, to)' = write'[p][to]
        BY <1>c, <2>6, <2>8
      <4> QED
        BY <2>3, <2>6, <2>9, <4>1
    <3>2. Owed(p, t)' \in Nat /\ Owed(p, t)' <= call[p].n
      BY <1>0, <2>4, <2>7 DEF Owed
    <3>3. Latest(p, <<t, to>>) <= Latest(p, to) /\ Latest(p, <<t, to>>) \in Nat /\ Latest(p, to) \in Nat
      BY <1>c, <1>d, <2>4, <2>6 DEF FitsIn
    <3> QED
      BY <1>0, <3>1, <3>2, <3>3
  <2> QED
    BY <1>0, <2>2, <2>10, <2>11 DEF Fitting, Fitted, Unwritable
<1>7. CASE Touch(p)
  <2>1. pc[p] = "touch" /\ seen' = seen /\ Writes(p, {Whole}, LAMBDA r : Latest(p, r), "put_tags")
    BY <1>7 DEF Touch
  <2>2. Written(p, {Whole}) /\ call' = call /\ pc'[p] = "put_tags" /\ pc[p] = "touch" /\ seen' = seen
    BY <1>0, <2>1 DEF Writes, Written, Goto, Shapes
  <2>3. write'[p][Whole] \in Nat
    BY <1>0, <1>b, <2>1, RowFacts DEF Writes, Shapes
  <2>4. \A s \in Stages : Latest(p, s)' = Latest(p, s) /\ \A t \in Tags : Latest(p, <<t, s>>)' = Latest(p, <<t, s>>)
    BY <1>l, <2>2, <2>3
  <2>5. /\ \A s \in Stages \ {to} : FitsIn(p, s)
        /\ \A t \in Tags : Latest(p, <<t, to>>) + Owed(p, t) <= Latest(p, to)
    BY Zenon, <1>0, <2>2 DEF Fitting
  <2>6. \A s \in Stages \ {to} : FitsIn(p, s)'
    BY <1>k, <2>4, <2>5
  <2>7. \A t \in Tags : Latest(p, <<t, to>>)' + Owed(p, t)' <= Latest(p, to)'
    BY <1>0, <2>2, <2>4, <2>5 DEF Owed
  <2> QED
    BY <1>0, <2>2, <2>6, <2>7 DEF Fitting, Fitted, Unwritable
<1>8. CASE PutTags(p)
  <2>0. /\ pc[p] = "put_tags"
        /\ \A s \in Stages \ {to} : FitsIn(p, s)
        /\ \A t \in Tags : Latest(p, <<t, to>>) + Owed(p, t) <= Latest(p, to)
    BY <1>0, <1>8 DEF PutTags, Fitting
  <2>1. CASE seen[p].left = {} /\ Goto(p, "commit") /\ UNCHANGED <<db, archived, call, seen, write>>
    <3>1. pc'[p] = "commit" /\ write' = write
      BY <1>0, <2>1 DEF Goto, Shapes
    <3>2. ASSUME NEW s \in Stages PROVE FitsIn(p, s)
      <4>1. CASE s = to
        <5>1. ASSUME NEW t \in Tags PROVE Latest(p, <<t, s>>) <= Latest(p, s)
          <6>1. Owed(p, t) = 0
            BY <2>1 DEF Owed
          <6>2. Latest(p, <<t, s>>) + Owed(p, t) <= Latest(p, s)
            BY <2>0, <4>1
          <6> QED
            BY <1>d, <6>1, <6>2
        <5> QED
          BY <5>1 DEF FitsIn
      <4>2. CASE s # to
        BY <2>0, <4>2
      <4> QED
        BY <4>1, <4>2
    <3>3. ASSUME NEW s \in Stages PROVE FitsIn(p, s)'
      <4>1. Latest(p, s)' = Latest(p, s) /\ \A t \in Tags : Latest(p, <<t, s>>)' = Latest(p, <<t, s>>)
        BY <1>c, <1>d, <1>f, <3>1
      <4> QED
        BY <1>k, <3>2, <4>1
    <3> QED
      BY <1>i, <3>1, <3>3 DEF Fitted
  <2>2. CASE ~Abort(p) /\ ~(seen[p].left = {} /\ Goto(p, "commit") /\ UNCHANGED <<db, archived, call, seen, write>>)
    <3>1. PICK t \in seen[p].left :
            /\ seen' = [seen EXCEPT ![p].left = @ \ {t}]
            /\ Writes(p, {<<t, call[p].to>>}, LAMBDA r : Latest(p, r) + seen[p].taken[t], "put_tags")
      BY <1>8, <2>2 DEF PutTags, NextTag
    <3> DEFINE row == <<t, to>>
    <3>2. Written(p, {row}) /\ call' = call /\ pc'[p] = "put_tags"
      BY <1>0, <3>1 DEF Writes, Written, Goto, Shapes
    <3>3. t \in Tags /\ row \in Rows /\ row \notin Counted
      BY <1>0, <1>d
    <3>4. write'[p][row] = Latest(p, row) + seen[p].taken[t]
      BY <1>0, <3>1, <3>3 DEF Writes, Shapes
    <3>5. write'[p][row] \in Nat
      BY <1>0, <1>b, <3>3, <3>4
    <3>6. \A r \in Rows : /\ r \in {row} => Latest(p, r)' = write'[p][r]
                          /\ r \notin {row} => Latest(p, r)' = Latest(p, r) /\ Locked(p, r)' = Locked(p, r)
      <4> HIDE DEF row
      <4> QED
        BY <1>0, <1>a, <3>2, <3>5, LatestWritten
    <3>7. seen'[p].taken = seen[p].taken /\ seen'[p].left = seen[p].left \ {t}
      <4>1. seen' = [seen EXCEPT ![p].left = @ \ {t}]
        BY Zenon, <3>1
      <4> QED
        BY <1>0, <4>1 DEF Shapes, Calling, SeenShape
    <3>8. \A s \in Stages : Latest(p, s)' = Latest(p, s)
      BY <1>c, <3>3, <3>6
    <3>9. \A s \in Stages \ {to} : FitsIn(p, s)'
      <4> TAKE s \in Stages \ {to}
      <4>1. \A u \in Tags : Latest(p, <<u, s>>)' = Latest(p, <<u, s>>)
        <5> TAKE u \in Tags
        <5>1. <<u, s>> # row /\ <<u, s>> \in Rows
          BY <1>d
        <5> QED
          BY <3>6, <5>1
      <4> QED
        BY <1>k, <2>0, <3>8, <4>1
    <3>10. \A u \in Tags : Latest(p, <<u, to>>)' + Owed(p, u)' <= Latest(p, to)'
      <4> TAKE u \in Tags
      <4>1. /\ Latest(p, to)' = Latest(p, to) /\ Latest(p, <<u, to>>) + Owed(p, u) <= Latest(p, to)
            /\ <<u, to>> \in Rows /\ Latest(p, <<u, to>>) \in Nat
        <5>1. to \in Stages
          BY <1>0
        <5> QED
          BY <1>d, <2>0, <3>8, <5>1
      <4>2. CASE u = t
        <5>1. Owed(p, u)' = 0 /\ Owed(p, u) = seen[p].taken[t] /\ seen[p].taken[t] \in Nat
          BY <1>0, <3>3, <3>7, <4>2 DEF Owed
        <5>2. Latest(p, <<u, to>>)' = Latest(p, <<u, to>>) + seen[p].taken[t]
          <6>1. <<u, to>> = row
            BY <4>2
          <6>2. Latest(p, row)' = write'[p][row]
            BY Zenon, <3>3, <3>6
          <6> QED
            BY Zenon, <3>4, <6>1, <6>2
        <5> QED
          BY <4>1, <5>1, <5>2
      <4>3. CASE u # t
        <5>1. Owed(p, u)' = Owed(p, u)
          BY <3>7, <4>3 DEF Owed
        <5>2. Latest(p, <<u, to>>)' = Latest(p, <<u, to>>)
          <6>1. <<u, to>> # row
            BY <4>3
          <6> QED
            BY <3>6, <4>1, <6>1
        <5> QED
          BY <4>1, <5>1, <5>2
      <4> QED
        BY <4>2, <4>3
    <3> HIDE DEF row
    <3> QED
      BY <1>0, <3>2, <3>9, <3>10 DEF Fitting, Fitted, Unwritable
  <2> QED
    BY <1>e, <2>1, <2>2
<1>9. CASE Quantity(p)
  <2>1. CASE ~Abort(p)
    <3>1. pc[p] = "quantity" /\ Latest(p, Whole) > call[p].n /\ Writes(p, {Whole}, LAMBDA r : QuantityLeft(p), "commit")
      BY <1>9, <2>1 DEF Quantity
    <3>2. Written(p, {Whole}) /\ pc'[p] = "commit"
      BY <1>0, <3>1 DEF Writes, Written, Goto, Shapes
    <3>3. write'[p][Whole] \in Nat
      <4>1. Latest(p, Whole) \in Nat /\ Whole \in Rows
        BY <1>b, RowFacts
      <4>2. write'[p][Whole] = QuantityLeft(p)
        BY <1>0, <3>1, <4>1 DEF Writes, Shapes
      <4>3. Latest(p, Whole) > call[p].n
        BY Zenon, <3>1
      <4> QED
        BY <1>0, <4>1, <4>2, <4>3 DEF QuantityLeft
    <3>4. \A s \in Stages : FitsIn(p, s)
      BY Zenon, <1>0, <3>1 DEF Fitting, Fitted
    <3> QED
      BY <1>m, <3>2, <3>3, <3>4 DEF Fitted
  <2> QED
    BY <1>e, <2>1
<1>10. CASE Total(p)
  <2>1. CASE ~Abort(p)
    <3>1. pc[p] = "total" /\ pc'[p] = "erase" /\ write' = write
      BY <1>0, <1>10, <2>1 DEF Total, Goto, Shapes
    <3>2. \A r \in Rows : ~Locked(p, r)'
      BY <1>0, <1>f, <3>1 DEF Fitting, Unwritable
    <3> QED
      BY <1>j, <3>1, <3>2 DEF Unwritable
  <2> QED
    BY <1>e, <2>1
<1>11. CASE Erase(p)
  <2>1. Writes(p, Rows \ Tags, LAMBDA r : 0, "commit")
    BY <1>11 DEF Erase
  <2>2. Written(p, Rows \ Tags) /\ pc'[p] = "commit" /\ \A r \in Rows \ Tags : write'[p][r] = 0
    BY <1>0, <2>1 DEF Writes, Written, Goto, Shapes
  <2>3. \A r \in Rows \ Tags : Latest(p, r)' = 0
    <3>1. \A r \in (Rows \ Tags) \cap Rows : write'[p][r] \in Nat
      BY <2>2
    <3> QED
      BY <1>0, <1>a, <2>2, <3>1, LatestWritten
  <2>4. \A s \in Stages : FitsIn(p, s)'
    BY <1>c, <1>d, <2>3 DEF FitsIn
  <2> QED
    BY <1>i, <2>2, <2>4 DEF Fitted
<1>12. CASE Available(p)
  <2>1. CASE ~Abort(p)
    <3>1. /\ pc[p] = "available" /\ pc'[p] = "assign" /\ call' = call /\ write' = write
          /\ seen' = [seen EXCEPT ![p].copies = db[call[p].from]]
      BY <1>0, <1>12, <2>1 DEF Available, Goto, Shapes
    <3>2. seen'[p].copies = db'[call'[p].from]
      BY <1>0, <1>a, <3>1 DEF Shapes, Calling, SeenShape
    <3>3. \A r \in Rows : ~Locked(p, r)'
      BY <1>0, <1>f, <3>1 DEF Fitting, Unwritable
    <3> QED
      BY <3>1, <3>2, <3>3 DEF Fitting, Fitted, Unwritable
  <2> QED
    BY <1>e, <2>1
<1>13. CASE Assign(p)
  <2>1. CASE ~Abort(p)
    <3> DEFINE counts(r) == IF call[p].kind = "untag" THEN IF Latest(p, r) <= call[p].n THEN 0 ELSE Latest(p, r) - call[p].n
                            ELSE Assigned(call[p].n, Latest(p, r), seen[p].copies)
    <3>1. PICK t \in call[p].tags :
            /\ pc[p] = "assign"
            /\ Writes(p, {r \in {<<t, call[p].from>>} : call[p].kind = "untag" => Latest(p, r) > 0},
                      LAMBDA r : counts(r), "commit")
      BY <1>13, <2>1 DEF Assign
    <3> DEFINE row == <<t, from>>
               rows == {r \in {row} : call[p].kind = "untag" => Latest(p, r) > 0}
    <3>2. pc[p] = "assign" /\ Written(p, rows) /\ pc'[p] = "commit"
      BY <1>0, <3>1 DEF Writes, Written, Goto, Shapes
    <3>3. t \in Tags /\ row \in Rows /\ row \notin Counted /\ Latest(p, row) \in Nat /\ Latest(p, row) <= db[from]
      <4>1. t \in Tags /\ row \in Rows /\ row \notin Counted /\ ~Locked(p, row)
        BY <1>0, <1>d, <3>2 DEF Fitting, Unwritable
      <4> QED
        BY <1>0, <1>b, <1>d, <4>1
    <3>4. seen[p].copies = db[from] /\ \A r \in Rows : Latest(p, r) = db[r]
      BY <1>0, <1>b, <3>2 DEF Fitting, Unwritable
    <3>5. counts(row) \in Nat /\ counts(row) <= db[from]
      <4>1. CASE call[p].kind = "untag"
        BY <1>0, <1>c, <3>3, <4>1
      <4>2. CASE call[p].kind # "untag"
        BY <1>0, <1>c, <3>3, <3>4, <4>2 DEF Assigned, AtMost
      <4> QED
        BY <4>1, <4>2
    <3>6. row \in rows => write'[p][row] = counts(row)
      BY <1>0, <3>1, <3>3 DEF Writes, Shapes
    <3> HIDE DEF counts
    <3>7. \A r \in rows : r = row
      OBVIOUS
    <3>8. \A r \in rows \cap Rows : write'[p][r] \in Nat
      BY <3>5, <3>6, <3>7
    <3> HIDE DEF rows, row
    <3>9. \A r \in Rows : /\ r \in rows => Latest(p, r)' = write'[p][r]
                          /\ r \notin rows => Latest(p, r)' = Latest(p, r) /\ Locked(p, r)' = Locked(p, r)
      BY <1>0, <1>a, <3>2, <3>8, LatestWritten
    <3>10. \A s \in Stages : Latest(p, s)' = db[s]
      BY <1>c, <3>3, <3>4, <3>7, <3>9
    <3>11. \A u \in Tags, s \in Stages : Latest(p, <<u, s>>)' <= db[s]
      <4> TAKE u \in Tags, s \in Stages
      <4>1. CASE <<u, s>> \in rows
        <5>1. <<u, s>> = row /\ row \in rows
          BY <3>7, <4>1
        <5>2. Latest(p, row)' = counts(row)
          <6>1. Latest(p, row)' = write'[p][row]
            BY Zenon, <3>3, <3>9, <5>1
          <6> QED
            BY <3>6, <5>1, <6>1
        <5>3. s = from
          BY <5>1 DEF row
        <5>4. Latest(p, <<u, s>>)' = counts(row)
          BY Zenon, <5>1, <5>2
        <5> QED
          BY <3>5, <5>3, <5>4
      <4>2. CASE <<u, s>> \notin rows
        BY <1>d, <3>4, <3>9, <4>2
      <4> QED
        BY <4>1, <4>2
    <3>12. \A s \in Stages : FitsIn(p, s)'
      BY <3>10, <3>11 DEF FitsIn
    <3> QED
      BY <1>i, <3>2, <3>12 DEF Fitted
  <2> QED
    BY <1>e, <2>1
<1>14. CASE Insert(p)
  <2>1. pc[p] = "insert"
    BY <1>14 DEF Insert
  <2> QED
    BY <1>0, <2>1 DEF Knows, Balanced
<1>15. CASE Drop(p)
  <2>1. PICK t \in call[p].tags :
          pc[p] = "drop" /\ Writes(p, {t} \cup ({t} \X Stages), LAMBDA r : IF r \in Tags THEN 2 ELSE 0, "commit")
    BY <1>15 DEF Drop
  <2> DEFINE rows == {t} \cup ({t} \X Stages)
  <2>2. pc[p] = "drop" /\ Written(p, rows) /\ pc'[p] = "commit" /\ \A r \in rows \cap Rows : write'[p][r] = IF r \in Tags THEN 2 ELSE 0
    BY <1>0, <2>1 DEF Writes, Written, Goto, Shapes
  <2>3. \A s \in Stages : s \notin rows
    <3>1. t \in Tags
      BY <1>0
    <3>2. {t} \X Stages \subseteq Items
      BY <3>1 DEF Items
    <3> QED
      BY <1>c, <3>1, <3>2, RowFacts
  <2>4. \A r \in rows \cap Rows : write'[p][r] \in Nat
    BY <2>2
  <2> HIDE DEF rows
  <2>5. \A r \in Rows : /\ r \in rows => Latest(p, r)' = write'[p][r]
                        /\ r \notin rows => Latest(p, r)' = Latest(p, r) /\ Locked(p, r)' = Locked(p, r)
    BY <1>0, <1>a, <2>2, <2>4, LatestWritten
  <2>6. \A r \in Rows : Latest(p, r) = db[r]
    BY <1>0, <1>b, <2>2 DEF Fitting, Unwritable
  <2>7. \A u \in Tags, s \in Stages : Latest(p, <<u, s>>)' <= db[s] /\ Latest(p, s)' = db[s]
    <3> TAKE u \in Tags, s \in Stages
    <3>1. Latest(p, s)' = db[s]
      BY <1>c, <2>3, <2>5, <2>6
    <3>2. CASE <<u, s>> \in rows
      <4>1. Latest(p, <<u, s>>)' = 0
        BY <1>d, <2>2, <2>5, <3>2
      <4> QED
        BY <1>c, <3>1, <4>1
    <3>3. CASE <<u, s>> \notin rows
      BY <1>d, <2>5, <2>6, <3>1, <3>3
    <3> QED
      BY <3>1, <3>2, <3>3
  <2>8. \A s \in Stages : FitsIn(p, s)'
    BY <2>7 DEF FitsIn
  <2> QED
    BY <1>i, <2>2, <2>8 DEF Fitted
<1>16. CASE Read(p)
  <2>1. CASE ~Abort(p)
    <3>1. pc[p] = "read" /\ write' = write /\ pc'[p] \in {"whole", "clamp"}
      BY <1>0, <1>16, <2>1 DEF Read, Goto, Shapes
    <3>2. \A r \in Rows : ~Locked(p, r) /\ ~Locked(p, r)' /\ Latest(p, r)' = Latest(p, r)
      BY <1>0, <1>f, <3>1 DEF Fitting, Unwritable
    <3>3. \A s \in Stages : FitsIn(p, s)'
      <4> TAKE s \in Stages
      <4>1. FitsIn(p, s)
        BY <1>c, <1>d, <1>g, <3>2
      <4> QED
        BY <1>c, <1>d, <1>k, <3>2, <4>1
    <3>4. CASE pc'[p] = "whole"
      BY <1>i, <3>3, <3>4 DEF Fitted
    <3>5. CASE pc'[p] = "clamp"
      BY <1>j, <3>2, <3>5 DEF Unwritable
    <3> QED
      BY <3>1, <3>4, <3>5
  <2> QED
    BY <1>e, <2>1
<1>17. CASE Clamp(p)
  <2> DEFINE rows == {r \in Tags \X {Todo} : Latest(p, r) > 0}
  <2>1. pc[p] = "clamp" /\ seen' = seen /\ Writes(p, rows, LAMBDA r : Clamped(Latest(p, r), seen[p].copies), "backlog")
    BY <1>17 DEF Clamp
  <2>2. /\ pc[p] = "clamp" /\ seen' = seen /\ Written(p, rows) /\ pc'[p] = "backlog"
        /\ \A r \in rows \cap Rows : write'[p][r] = Clamped(Latest(p, r), seen[p].copies)
    BY <1>0, <2>1 DEF Writes, Written, Goto, Shapes
  <2>3. \A r \in rows \cap Rows : write'[p][r] \in Nat /\ write'[p][r] <= seen[p].copies
    <3> TAKE r \in rows \cap Rows
    <3>1. Latest(p, r) \in Nat /\ write'[p][r] = AtMost(Latest(p, r), seen[p].copies)
      BY <1>b, <2>2 DEF Clamped
    <3> QED
      BY <1>0, <3>1 DEF AtMost
  <2>4. \A t \in Tags, s \in Stages : /\ (s # Todo => <<t, s>> \notin rows)
                                       /\ (s = Todo /\ <<t, s>> \notin rows => Latest(p, <<t, s>>) = 0)
    <3> TAKE t \in Tags, s \in Stages
    <3>1. Latest(p, <<t, s>>) \in Nat
      BY <1>d
    <3> QED
      BY <3>1
  <2>5. \A r \in Rows : ~Locked(p, r)
    BY <1>0, <2>2 DEF Fitting, Unwritable
  <2> HIDE DEF rows
  <2>6. \A r \in Rows : /\ r \in rows => Latest(p, r)' = write'[p][r]
                        /\ r \notin rows => Latest(p, r)' = Latest(p, r) /\ Locked(p, r)' = Locked(p, r)
    BY <1>0, <1>a, <2>2, <2>3, LatestWritten
  <2>7. \A t \in Tags : Latest(p, <<t, Todo>>)' <= seen[p].copies
    <3> TAKE t \in Tags
    <3>1. Todo \in Stages /\ <<t, Todo>> \in Rows
      BY <1>d, StagesDiffer
    <3>2. CASE <<t, Todo>> \in rows
      BY <2>3, <2>6, <3>1, <3>2
    <3>3. CASE <<t, Todo>> \notin rows
      <4>1. Latest(p, <<t, Todo>>)' = 0
        BY <2>4, <2>6, <3>1, <3>3
      <4> QED
        BY <1>0, <4>1
    <3> QED
      BY <3>2, <3>3
  <2>8. \A t \in Tags, s \in Stages \ {Todo} : ~Locked(p, <<t, s>>)'
    BY <1>d, <2>4, <2>5, <2>6
  <2>9. \A t \in Tags : Latest(p, <<t, Todo>>)' <= seen'[p].copies
    BY <2>2, <2>7
  <2> QED
    BY <2>2, <2>8, <2>9 DEF Fitting, Fitted, Unwritable
<1>18. CASE Backlog(p)
  <2>1. CASE ~Abort(p)
    <3>1. pc[p] = "backlog" /\ Writes(p, {Todo}, LAMBDA r : seen[p].copies, "whole")
      BY <1>18, <2>1 DEF Backlog
    <3>2. pc[p] = "backlog" /\ Written(p, {Todo}) /\ pc'[p] = "whole" /\ Todo \in Stages
      BY <1>0, <3>1, StagesDiffer DEF Writes, Written, Goto, Shapes
    <3>3. write'[p][Todo] = seen[p].copies
      BY <1>0, <1>c, <3>1, <3>2 DEF Writes, Shapes
    <3>4. /\ \A t \in Tags : Latest(p, <<t, Todo>>) <= seen[p].copies
          /\ \A t \in Tags, s \in Stages \ {Todo} : ~Locked(p, <<t, s>>)
      BY <1>0, <3>2 DEF Fitting
    <3>5. \A r \in Rows : /\ r \in {Todo} => Latest(p, r)' = write'[p][r]
                          /\ r \notin {Todo} => Latest(p, r)' = Latest(p, r) /\ Locked(p, r)' = Locked(p, r)
      BY <1>0, <1>a, <3>2, <3>3, LatestWritten
    <3>6. \A t \in Tags, s \in Stages : Latest(p, <<t, s>>)' = Latest(p, <<t, s>>)
      BY <1>c, <1>d, <3>2, <3>5
    <3>7. \A s \in Stages : FitsIn(p, s)'
      <4> TAKE s \in Stages
      <4>1. CASE s = Todo
        <5>1. Latest(p, s)' = seen[p].copies
          BY <1>c, <3>3, <3>5, <4>1
        <5> QED
          BY <3>4, <3>6, <4>1, <5>1 DEF FitsIn
      <4>2. CASE s # Todo
        <5>1. ~Locked(p, s)
          BY <1>h, <3>2 DEF Early
        <5>2. FitsIn(p, s)
          BY <1>g, <3>4, <4>2, <5>1
        <5>3. Latest(p, s)' = Latest(p, s)
          BY <1>c, <3>5, <4>2
        <5> QED
          BY <1>k, <3>6, <5>2, <5>3
      <4> QED
        BY <4>1, <4>2
    <3> QED
      BY <1>i, <3>2, <3>7 DEF Fitted
  <2> QED
    BY <1>e, <2>1
<1>19. CASE WriteWhole(p)
  <2>1. CASE ~Abort(p)
    <3>1. pc[p] = "whole" /\ Writes(p, {Whole}, LAMBDA r : seen[p].total, "commit")
      BY <1>19, <2>1 DEF WriteWhole
    <3>2. Written(p, {Whole}) /\ pc'[p] = "commit" /\ pc[p] = "whole"
      BY <1>0, <3>1 DEF Writes, Written, Goto, Shapes
    <3>3. write'[p][Whole] \in Nat
      BY <1>0, <3>1, RowFacts DEF Writes, Shapes, Numbers
    <3>4. \A s \in Stages : FitsIn(p, s)
      BY <1>0, <3>2 DEF Fitting, Fitted
    <3> QED
      BY <1>m, <3>2, <3>3, <3>4 DEF Fitted
  <2> QED
    BY <1>e, <2>1
<1>20. CASE LockStages(p)
  <2>1. pc[p] = "lock_stages" /\ Writes(p, LockedRows \cap Stages, LAMBDA r : Latest(p, r), "lock_print")
    BY <1>20 DEF LockStages
  <2>2. /\ pc[p] = "lock_stages" /\ Written(p, LockedRows \cap Stages) /\ pc'[p] = "lock_print"
        /\ \A r \in (LockedRows \cap Stages) \cap Rows : write'[p][r] = Latest(p, r)
    BY <1>0, <2>1 DEF Writes, Written, Goto, Shapes
  <2>3. \A r \in Rows : Latest(p, r)' = Latest(p, r) /\ Latest(p, r) = db[r]
    <3>1. \A r \in (LockedRows \cap Stages) \cap Rows : write'[p][r] \in Nat
      BY <1>b, <2>2
    <3>2. \A r \in Rows : /\ r \in LockedRows \cap Stages => Latest(p, r)' = write'[p][r]
                          /\ r \notin LockedRows \cap Stages => Latest(p, r)' = Latest(p, r)
      BY <1>0, <1>a, <2>2, <3>1, LatestWritten
    <3>3. \A r \in Rows : Latest(p, r) = db[r]
      BY <1>0, <1>b, <2>2 DEF Fitting, Unwritable
    <3> QED
      BY <2>2, <3>2, <3>3
  <2>4. \A s \in Stages : FitsIn(p, s)'
    BY <1>c, <1>d, <2>3 DEF FitsIn
  <2> QED
    BY <1>i, <2>2, <2>4 DEF Fitted
<1>21. CASE LockPrint(p)
  <2>1. pc[p] = "lock_print" /\ Writes(p, {Whole}, LAMBDA r : Latest(p, r), "recheck")
    <3>1. LockedRows \cap {Whole} = {Whole}
      BY DEF LockedRows
    <3> QED
      BY <1>21, <3>1 DEF LockPrint
  <2>2. pc[p] = "lock_print" /\ Written(p, {Whole}) /\ pc'[p] = "recheck"
    BY <1>0, <2>1 DEF Writes, Written, Goto, Shapes
  <2>3. write'[p][Whole] \in Nat
    BY <1>0, <1>b, <2>1, RowFacts DEF Writes, Shapes
  <2>4. \A s \in Stages : FitsIn(p, s)
    BY <1>0, <2>2 DEF Fitting, Fitted
  <2> QED
    BY <1>m, <2>2, <2>3, <2>4 DEF Fitted
<1>22. CASE Recheck(p)
  <2>1. CASE ~Abort(p)
    <3>1. pc[p] = "recheck" /\ pc'[p] = "commit" /\ write' = write
      BY <1>0, <1>22, <2>1 DEF Recheck, Goto, Shapes
    <3>2. \A s \in Stages : FitsIn(p, s)
      BY <1>0, <3>1 DEF Fitting, Fitted
    <3>3. \A s \in Stages : FitsIn(p, s)'
      BY <1>c, <1>d, <1>f, <1>k, <3>1, <3>2
    <3> QED
      BY <1>i, <3>1, <3>3 DEF Fitted
  <2> QED
    BY <1>e, <2>1
<1> QED
  BY <1>1, <1>2, <1>3, <1>4, <1>5, <1>6, <1>7, <1>8, <1>9, <1>10, <1>11, <1>12, <1>13, <1>14, <1>15,
     <1>16, <1>17, <1>18, <1>19, <1>20, <1>21, <1>22 DEF Statement

\* A call that has opened no transaction has written nothing, which is all it has to hold.
LEMMA UnopenedFits ==
  ASSUME NEW p \in Procs, pc'[p] \in Unwritable \ {"tags", "assign"}, write'[p] = write[p], \A r \in Rows : ~Locked(p, r)
  PROVE  Fitting(p)'
<1>1. \A r \in Rows : ~Locked(p, r)'
  BY DEF Locked
<1> QED
  BY <1>1 DEF Fitting, Fitted, Unwritable

\* Every step of every call keeps the tags fitting, in the rows and in what the transactions see.
LEMMA FitsKept ==
  ASSUME FitInv, BalanceInv', NumberInv', NEW p \in Procs, db' = db, Knows(p)', Fitting(p)',
         \A q \in Procs \ {p} : pc'[q] = pc[q] /\ call'[q] = call[q] /\ seen'[q] = seen[q] /\ write'[q] = write[q]
  PROVE  FitInv'
<1>1. ASSUME NEW q \in Procs \ {p} PROVE Knows(q)' /\ Fitting(q)'
  <2>0. PICK from, to, n :
        /\ from = call[q].from /\ to = call[q].to /\ n = call[q].n /\ from = call'[q].from /\ to = call'[q].to /\ n = call'[q].n
        /\ call'[q] = call[q] /\ seen'[q] = seen[q] /\ pc'[q] = pc[q]
    OBVIOUS
  <2>1. \A r : Latest(q, r)' = Latest(q, r) /\ Locked(q, r)' = Locked(q, r)
    BY DEF Latest, Locked
  <2>2. Knows(q) /\ Fitting(q)
    BY DEF FitInv
  <2>3. Knows(q)'
    BY Zenon, <2>2 DEF Knows, Paid, CardCounts
  <2>4. \A s \in Stages : FitsIn(q, s)' = FitsIn(q, s)
    BY <2>1 DEF FitsIn
  <2>5. pc[q] \in {"take_tags", "take_copies"} => Taking(q)'
    <3> SUFFICES ASSUME Taking(q) PROVE Taking(q)'
      BY <2>2 DEF Fitting
    <3>1. /\ \A t \in Tags : seen'[q].taken[t] <= n /\ seen'[q].tags[t] - seen'[q].taken[t] <= seen'[q].copies - n
          /\ \A t \in Tags \ seen'[q].left : Latest(q, <<t, from>>)' = seen'[q].tags[t] - seen'[q].taken[t]
          /\ \A t \in Tags, s \in Stages \ {from} : ~Locked(q, <<t, s>>)'
          /\ pc'[q] = "take_copies" => seen'[q].left = {}
      BY <2>0, <2>1 DEF Taking
    <3> QED
      BY <2>0, <3>1 DEF Taking, Latest
  <2>6. \A t \in Tags : Owed(q, t)' = Owed(q, t)
    BY DEF Owed
  <2>7. Fitting(q)'
    <3> USE <2>2, <2>4, <2>5, <2>6
    <3>1. pc'[q] \in Unwritable => \A r \in Rows : ~Locked(q, r)'
      BY <2>1 DEF Fitting
    <3>2. pc'[q] \in {"tags", "assign"} => seen'[q].copies = db'[call'[q].from]
      BY DEF Fitting
    <3>3. pc'[q] \in {"take_tags", "take_copies"} => Taking(q)'
      OBVIOUS
    <3>4. pc'[q] = "put_copies" => \A t \in Tags : seen'[q].taken[t] <= call'[q].n
      BY DEF Fitting
    <3>5. pc'[q] \in {"touch", "put_tags"} =>
             /\ \A s \in Stages \ {to} : FitsIn(q, s)'
             /\ \A t \in Tags : Latest(q, <<t, to>>)' + Owed(q, t)' <= Latest(q, to)'
      BY <2>0, <2>1 DEF Fitting
    <3>6. pc'[q] = "backlog" => /\ \A t \in Tags : Latest(q, <<t, Todo>>)' <= seen'[q].copies
                                /\ \A t \in Tags, s \in Stages \ {Todo} : ~Locked(q, <<t, s>>)'
      BY <2>1 DEF Fitting
    <3>7. pc'[q] \in Fitted => \A s \in Stages : FitsIn(q, s)'
      BY DEF Fitting
    <3>8. (/\ pc[q] \in {"touch", "put_tags"} => /\ \A s \in Stages \ {call[q].to} : FitsIn(q, s)
                                                 /\ \A t \in Tags : Latest(q, <<t, call[q].to>>) + Owed(q, t) <= Latest(q, call[q].to))'
      BY <2>0, <3>5 DEF Latest
    <3> HIDE <2>2
    <3> QED
      BY <3>1, <3>2, <3>3, <3>4, <3>8, <3>6, <3>7 DEF Fitting
  <2> QED
    BY <2>3, <2>7
<1>2. TagsFit'
  BY DEF FitInv, TagsFit
<1> QED
  BY <1>1, <1>2 DEF FitInv

(* Nothing is written yet, and the tags fit as the situation says. *)
LEMMA InitFits == Init => FitInv
<1> SUFFICES ASSUME Init PROVE FitInv
  OBVIOUS
<1>1. \A p \in Procs : Knows(p)
  BY DEF Init, NoCall, Knows
<1>2. \A p \in Procs : Fitting(p)
  <2> TAKE p \in Procs
  <2>1. pc[p] = "idle" /\ \A r \in Rows : ~Locked(p, r)
    BY DEF Init, Blank, Locked
  <2> QED
    BY <2>1 DEF Fitting, Fitted, Unwritable
<1>3. TagsFit
  <2> SUFFICES ASSUME NEW t \in Tags, NEW s \in Stages PROVE db[<<t, s>>] <= db[s]
    BY DEF TagsFit
  <2>1. /\ <<t, s>> \in Items /\ <<t, s>> \in Rows /\ s \in Rows /\ s \notin Items /\ s \notin Tags /\ s # Whole
        /\ <<t, s>> \notin {Todo, Whole} /\ Copies \in Nat /\ Tagged[t] \in 0..Copies
    <3>1. <<t, s>> \in Items
      BY DEF Items
    <3>2. Todo \in Stages /\ Copies \in Nat /\ Tagged \in [Tags -> 0..Copies]
      BY BoardAssumption, StagesDiffer DEF BoardAssumption
    <3>3. s \in Counted /\ <<t, s>> \notin Counted /\ s # Whole /\ s \in Rows /\ <<t, s>> \in Rows
      BY RowFacts
    <3>4. s \notin Items /\ s \notin Tags
      BY <3>3, RowFacts
    <3> QED
      BY <3>1, <3>2, <3>3, <3>4 DEF Counted
  <2>2. db[<<t, s>>] = IF s = Todo THEN Tagged[t] ELSE 0
    BY <2>1 DEF Init
  <2>3. db[s] = IF s = Todo THEN Copies ELSE 0
    BY <2>1 DEF Init
  <2> QED
    BY <2>1, <2>2, <2>3
<1> QED
  BY <1>1, <1>2, <1>3, InitBalanceInv, InitNumbers DEF FitInv

(* Every step keeps the tags fitting. *)
LEMMA FitInvStep ==
  ASSUME Backend = "sqlite", "create_group" \notin Calls
  PROVE  FitInv /\ [Next]_vars => FitInv'
<1> SUFFICES ASSUME FitInv, [Next]_vars PROVE FitInv'
  OBVIOUS
<1>0. BalanceInv /\ ArchiveInv /\ Shapes /\ NumberInv /\ Solo /\ BalanceInv' /\ NumberInv'
  BY BalanceInvStep, NumberInvStep DEF FitInv, BalanceInv, ArchiveInv
<1>a. ASSUME NEW p \in Procs, Sound(p), Knows(p)', Fitting(p)' PROVE FitInv'
  <2>1. db' = db /\ \A q \in Procs \ {p} : pc'[q] = pc[q] /\ call'[q] = call[q] /\ seen'[q] = seen[q] /\ write'[q] = write[q]
    BY <1>0, <1>a DEF Sound, LocalStep, Shapes
  <2> QED
    BY <1>0, <1>a, <2>1, FitsKept
<1>1. CASE UNCHANGED vars \/ Unarchive
  <2>1. UNCHANGED <<db, pc, call, seen, write>>
    BY <1>1 DEF vars, Unarchive
  <2>2. CASE Procs = {}
    BY <1>0, <2>1, <2>2 DEF FitInv, TagsFit
  <2>3. CASE Procs # {}
    <3>1. PICK p \in Procs : TRUE
      BY <2>3
    <3>2. Knows(p) /\ Fitting(p)
      BY DEF FitInv
    <3>3. Knows(p)'
      BY Zenon, <2>1, <3>2 DEF Knows, Paid, CardCounts
    <3>4. Fitting(p)'
      BY Zenon, <2>1, <3>2 DEF Fitting, FitsIn, Taking, Owed, Latest, Locked
    <3> QED
      BY <1>0, <2>1, <3>3, <3>4, FitsKept
  <2> QED
    BY <2>2, <2>3
<1>2. ASSUME NEW p \in Procs, Asks(p) PROVE FitInv'
  <2>1. Sound(p) /\ Knows(p)'
    BY <1>0, <1>2, AsksSound, AsksKnows
  <2>2. PICK asked : Ask(p, asked)
    BY <1>2 DEF Asks, AskMove, AskMoveGroup, AskDelete, AskTag, AskDeleteGroup, AskEdit, AskArchive
  <2>3. pc[p] = "idle" /\ pc'[p] = "begin" /\ write' = write
    BY <1>0, <2>2 DEF Ask, Goto, Shapes
  <2>4. Fitting(p)'
    BY <2>3, UnopenedFits DEF FitInv, Fitting, Unwritable
  <2> QED
    BY <1>a, <2>1, <2>4
<1>3. ASSUME NEW p \in Procs, Begin(p) PROVE FitInv'
  <2>1. Sound(p) /\ Knows(p)'
    BY <1>0, <1>3, BeginSound, BeginKnows DEF FitInv
  <2>2. pc[p] = "begin" /\ pc'[p] = FirstStatement(call[p].kind) /\ write' = write
    BY <1>0, <1>3 DEF Begin, Goto, Shapes
  <2>3. pc'[p] \in Unwritable \ {"tags", "assign"}
    BY <2>2 DEF FirstStatement, Unwritable
  <2>4. Fitting(p)'
    BY <2>2, <2>3, UnopenedFits DEF FitInv, Fitting, Unwritable
  <2> QED
    BY <1>a, <2>1, <2>4
<1>4. ASSUME NEW p \in Procs, Statement(p) PROVE FitInv'
  <2>1. Sound(p) /\ Knows(p)'
    BY <1>0, <1>4, StatementSound, StatementKnows DEF FitInv
  <2>2. Fitting(p)'
    BY <1>4, StatementFits
  <2> QED
    BY <1>a, <2>1, <2>2
<1>b. ASSUME NEW p \in Procs, pc'[p] = "idle", call'[p] = NoCall, write'[p] = Blank
      PROVE  Knows(p)' /\ Fitting(p)'
  <2>1. \A r \in Rows : ~Locked(p, r)'
    BY <1>b DEF Blank, Locked
  <2>2. Fitting(p)'
    BY <1>b, <2>1 DEF Fitting, Fitted, Unwritable
  <2>3. Knows(p)'
    BY <1>b DEF Knows, NoCall
  <2> QED
    BY <2>2, <2>3
<1>5. ASSUME NEW p \in Procs, Rollback(p) PROVE FitInv'
  <2>1. Sound(p) /\ pc'[p] = "idle" /\ call'[p] = NoCall /\ write'[p] = Blank
    BY <1>0, <1>5, AbortSound DEF Rollback, Abort, End, Goto, Shapes
  <2> QED
    BY <1>a, <1>b, <2>1
<1>6. ASSUME NEW p \in Procs, Commit(p) PROVE FitInv'
  <2>1. /\ pc[p] = "commit" /\ db' = [r \in Rows |-> Latest(p, r)] /\ pc' = [pc EXCEPT ![p] = "idle"]
        /\ call' = [call EXCEPT ![p] = NoCall] /\ write' = [write EXCEPT ![p] = Blank]
    BY <1>6 DEF Commit, End, Goto
  <2>2. TagsFit'
    <3> SUFFICES ASSUME NEW t \in Tags, NEW s \in Stages PROVE db'[<<t, s>>] <= db'[s]
      BY DEF TagsFit
    <3>1. FitsIn(p, s)
      BY <2>1 DEF FitInv, Fitting, Fitted
    <3>2. <<t, s>> \in Rows /\ s \in Rows
      BY RowFacts
    <3>3. db'[<<t, s>>] = Latest(p, <<t, s>>) /\ db'[s] = Latest(p, s)
      BY <2>1, <3>2
    <3> QED
      BY <3>1, <3>3 DEF FitsIn
  <2>3. Knows(p)' /\ Fitting(p)'
    BY <1>0, <1>b, <2>1 DEF Shapes
  <2>4. ASSUME NEW q \in Procs \ {p} PROVE Knows(q)' /\ Fitting(q)'
    <3>1. pc'[q] = pc[q] /\ call'[q] = call[q] /\ write'[q] = write[q]
      BY <1>0, <2>1 DEF Shapes
    <3>2. pc[q] \in {"idle", "begin"}
      BY <1>0, <2>1 DEF Solo, Open
    <3>3. Knows(q) /\ Fitting(q)
      BY DEF FitInv
    <3>4. Fitting(q)'
      BY <3>1, <3>2, <3>3, UnopenedFits DEF Fitting, Unwritable
    <3>5. Knows(q)'
      BY Zenon, <3>1, <3>3 DEF Knows, Paid, CardCounts
    <3> QED
      BY <3>4, <3>5
  <2> QED
    BY <1>0, <2>2, <2>3, <2>4 DEF FitInv
<1> QED
  BY <1>1, <1>2, <1>3, <1>4, <1>5, <1>6 DEF Next

\* On SQLite a tag is never on more copies than its stage holds, whatever moves, deletions, tag and
\* quantity edits overlap. A new group's counts are left out: createGroup checks them before its
\* transaction, and not in it.
THEOREM TagsStayFitting ==
  ASSUME Backend = "sqlite", "create_group" \notin Calls
  PROVE  Spec => []TagsFit
<1>1. FitInv => TagsFit
  BY DEF FitInv
<1> QED
  BY <1>1, InitFits, FitInvStep, PTL DEF Spec
=============================================================================
