------------------------- MODULE StorageQuotaProofs -------------------------
(***************************************************************************)
(* Proofs about StorageQuota: whatever calls, failures, hand-overs and      *)
(* crashes there are, every row says what its files, its unfinished calls   *)
(* and its uploads account for, the accounts add up to the rows, and the    *)
(* quota is kept.                                                           *)
(*                                                                         *)
(* The argument has three layers.  Sound: each call is where it may be in   *)
(* its handler, knows the size of the file it replaces, and no two calls    *)
(* are at one path or one upload.  Balanced: a row is the sum, over the     *)
(* paths, of what is charged for the file there - its size, or until the    *)
(* books follow the size it had - and of the bytes that calls and uploads   *)
(* hold.  Spent: the accounts add up, within the quota.                     *)
(***************************************************************************)
EXTENDS StorageQuota, Sums

-----------------------------------------------------------------------------
(* What is assumed of the constants. *)
Situation == [holder : [Workspaces -> Accounts \cup {None}], uploads : SUBSET Uploads,
              attaching : SUBSET Uploads, writes : Nat, faults : Nat, crashes : Nat, moves : Nat,
              scans : Nat, late : Nat, lost : Nat, dropped : Nat]

Given ==
  /\ IsFiniteSet(Workspaces) /\ IsFiniteSet(Keys) /\ IsFiniteSet(Uploads)
  /\ Home \in [Uploads -> Workspaces] /\ Place \in [Uploads -> Keys] /\ Size \in [Uploads -> Nat \ {0}]
  /\ WriteSizes \subseteq Nat /\ Quota \in Nat
  /\ None \notin Workspaces \cup Accounts \cup Keys \cup Uploads
  /\ Unread \notin Accounts \cup {None}
  /\ Situations \subseteq Situation

-----------------------------------------------------------------------------
(* Sound *)
Row == [kept : Nat, held : Nat]
Session == [there : BOOLEAN, live : BOOLEAN, bytes : Nat, finalizing : Nat, part : BOOLEAN, op : BOOLEAN]
Steps == {"idle", "reserve", "put", "finish", "undo", "inventory", "recount", "begin", "settle",
          "complete", "abandon", "reserve_upload"}
Keyed == {"write", "remove", "upload"}
Alone == {"scan", "clear"}
Call == [pc : Steps, kind : {"none", "create"} \cup Keyed \cup Alone, w : Workspaces \cup {None},
         key : Keys \cup {None}, up : Uploads \cup {None}, size : Nat, was : Nat, held : Nat, count : Nat,
         seen : Accounts \cup {None, Unread}]
Sized == [Workspaces -> [Keys -> Nat]]

Shape ==
  /\ holder \in [Workspaces -> Accounts \cup {None}]
  /\ usage \in [Workspaces -> Row] /\ account \in [Accounts -> Row]
  /\ stored \in Sized /\ session \in [Uploads -> Session] /\ proc \in [Procs -> Call]
  /\ closed \subseteq Workspaces /\ torn \subseteq Workspaces /\ raced \in BOOLEAN
  /\ left \in Situation

(* A call is where it may be in its handler, and the size it knows is that of its file. *)
Fits(c, files, sessions) ==
  /\ c.kind = "none" => c = Idle
  /\ c.kind # "none" => c.w \in Workspaces
  /\ c.kind \in {"write", "remove"} =>
       /\ c.key \in Keys /\ c.up = None
       /\ c.pc \in {"reserve", "put", "finish", "undo", "inventory", "recount"}
       /\ c.held = NotBelow0(c.size - c.was)
       /\ c.pc \in {"reserve", "put"} => c.was = files[c.w][c.key]
       /\ c.pc = "finish" => c.size = files[c.w][c.key]
  /\ c.kind = "remove" => c.size = 0 /\ c.pc \notin {"reserve", "undo"}
  /\ c.kind = "upload" =>
       /\ c.up \in Uploads /\ c.w = Home[c.up] /\ c.key = Place[c.up] /\ c.size = Size[c.up] /\ c.held = 0
       /\ c.pc \in {"begin", "put", "settle", "complete", "abandon", "inventory", "recount"}
       /\ sessions[c.up].op
       /\ c.pc = "put" => c.was = files[c.w][c.key]
       /\ c.pc = "settle" => c.size = files[c.w][c.key]
       /\ c.pc = "complete" => sessions[c.up].finalizing = 0
  /\ c.kind = "create" =>
       /\ c.up \in Uploads /\ c.w = Home[c.up] /\ c.key = None /\ c.pc = "reserve_upload"
       /\ ~sessions[c.up].op /\ sessions[c.up].finalizing = 0
  /\ c.kind \in Alone => c.key = None /\ c.up = None /\ c.pc \in {"inventory", "recount"}

(* Two calls are not at one path, nor at one upload; an exclusive one is alone. *)
Apart(c, d) ==
  /\ c.kind \in Alone /\ c.w = d.w => d.kind = "create"
  /\ c.kind \in Keyed /\ d.kind \in Keyed /\ c.w = d.w => c.key # d.key
  /\ c.up # None => c.up # d.up

CallsFit == \A p \in Procs : Fits(proc[p], stored, session)
CallsApart == \A p, q \in Procs : p # q => Apart(proc[p], proc[q])

(* An upload's bytes are its size; one that has not begun has left no trace. *)
SessionFits(u) ==
  /\ session[u].bytes \in {0, Size[u]} /\ session[u].finalizing \in {0, Size[u]}
  /\ u \in left.uploads => session[u] = NoSession /\ \A p \in Procs : proc[p].up # u
  /\ session[u].finalizing > 0 => session[u].op \/ u \in stranded

Sound == Shape /\ CallsFit /\ CallsApart /\ \A u \in Uploads : SessionFits(u)

-----------------------------------------------------------------------------
(* Balanced *)
LandedAt(c, w, k) == c.w = w /\ c.key = k /\ c.pc \in {"finish", "settle", "inventory", "recount"}
HoldsAt(c, w, k) == /\ c.w = w /\ c.key = k /\ c.kind = "write"
                    /\ c.pc \in {"put", "finish", "undo", "inventory", "recount"}
DueBy(c, w, k, n) == IF LandedAt(c, w, k) THEN c.was ELSE n
HoldBy(c, w, k) == IF HoldsAt(c, w, k) THEN c.held ELSE 0
Landed(calls, w, k) == {p \in Procs : LandedAt(calls[p], w, k)}
Holding(calls, w, k) == {p \in Procs : HoldsAt(calls[p], w, k)}

(* What a row is charged for the files, and what calls hold, at each path. *)
Dues(calls, files, w) ==
  [k \in Keys |-> IF Landed(calls, w, k) = {} THEN files[w][k]
                  ELSE calls[One(Landed(calls, w, k))].was]
Holds(calls, w) ==
  [k \in Keys |-> IF Holding(calls, w, k) = {} THEN 0
                  ELSE calls[One(Holding(calls, w, k))].held]
DueSum(calls, files, w) == SumFunctionOnSet(Dues(calls, files, w), Keys)
HoldSum(calls, w) == SumFunctionOnSet(Holds(calls, w), Keys)
KeptDue(w) == DueSum(proc, stored, w)
HeldDue(w) == HoldSum(proc, w) + Finalizing(w)

RowFits(w) ==
  w \notin torn /\ (\A p \in Procs : proc[p].w = w => proc[p].kind # "clear") =>
    usage[w].kept = KeptDue(w) /\ usage[w].held = HeldDue(w)

(* A row that is off may say too little of what is held only once it has been refunded,
   until it is counted again. *)
Backed(w) ==
  \/ usage[w].held >= HeldDue(w)
  \/ w \in closed /\ usage[w] = Zero /\ \A p \in Active(w) : Exclusive(p)

Counted(p) == At(p, "recount") => proc[p].count = Inventory(proc[p].w) /\ Active(proc[p].w) = {p}

Balanced == raced \/ /\ \A w \in Workspaces : RowFits(w) /\ Backed(w)
                     /\ \A p \in Procs : Counted(p)

-----------------------------------------------------------------------------
(* Spent *)
Inv == Sound /\ Balanced /\ AccountsAdd /\ QuotaKept

-----------------------------------------------------------------------------
(* Sound: the shapes of what the actions build. *)

LEMMA IdleIsCall == ASSUME Given PROVE Idle \in Call /\ \A f, s : Fits(Idle, f, s)
BY DEF Given, Idle, Call, Steps, Fits, Keyed, Alone

LEMMA NoSessionIsOne == NoSession \in Session /\ NoSession.finalizing = 0 /\ NoSession.bytes = 0
                        /\ NoSession.op = FALSE /\ NoSession.live = FALSE /\ NoSession.there = FALSE
BY DEF NoSession, Session

LEMMA NotBelow0IsNat == \A n \in Int : NotBelow0(n) \in Nat /\ (n >= 0 => NotBelow0(n) = n) /\ (n <= 0 => NotBelow0(n) = 0)
BY DEF NotBelow0

(* The same call, further on. *)
SameTask(c, d) == /\ c.kind = d.kind /\ c.w = d.w /\ c.key = d.key /\ c.up = d.up
                  /\ c.size = d.size /\ c.held = d.held

(* To changes where a call is, and what it has read. *)
LEMMA ToCall ==
  ASSUME Shape, NEW p \in Procs, NEW pc \in Steps, Given, To(p, pc)
  PROVE  \E c \in Call : /\ proc' = [proc EXCEPT ![p] = c] /\ SameTask(c, proc[p])
                         /\ c.pc = pc /\ c.was = proc[p].was
<1>1. PICK c : c = [proc[p] EXCEPT !.pc = pc, !.seen = Unread]
  OBVIOUS
<1>2. proc[p] \in Call
  BY DEF Shape
<1>3. c \in Call /\ SameTask(c, proc[p]) /\ c.pc = pc /\ c.was = proc[p].was
  BY <1>1, <1>2 DEF Call, SameTask
<1>4. proc' = [proc EXCEPT ![p] = c]
  BY <1>1 DEF To, Shape
<1> QED
  BY <1>3, <1>4

(* One call changes: the others stay as they were. *)
LEMMA CallChanges ==
  ASSUME Sound, NEW p \in Procs, NEW c \in Call, proc' = [proc EXCEPT ![p] = c],
         Fits(c, stored', session'),
         \A q \in Procs \ {p} : /\ Fits(proc[q], stored', session')
                                /\ Apart(c, proc[q]) /\ Apart(proc[q], c)
  PROVE  /\ proc' \in [Procs -> Call] /\ CallsFit' /\ CallsApart'
         /\ \A q \in Procs : proc'[q] = IF q = p THEN c ELSE proc[q]
<1>1. /\ proc' \in [Procs -> Call]
      /\ \A q \in Procs : proc'[q] = IF q = p THEN c ELSE proc[q]
  BY DEF Sound, Shape
<1>2. CallsFit'
  BY <1>1 DEF CallsFit
<1>3. CallsApart'
  BY <1>1 DEF CallsApart, Sound
<1> QED
  BY <1>1, <1>2, <1>3

(* A call that goes on with its task stays apart from the others, and one that ends is. *)
LEMMA StaysApart ==
  ASSUME Given, Sound, NEW p \in Procs, NEW c \in Call, c = Idle \/ SameTask(c, proc[p]),
         NEW q \in Procs \ {p}
  PROVE  Apart(c, proc[q]) /\ Apart(proc[q], c)
<1>1. Apart(proc[p], proc[q]) /\ Apart(proc[q], proc[p])
  BY DEF Sound, CallsApart
<1>2. CASE SameTask(c, proc[p])
  BY <1>1, <1>2 DEF Apart, SameTask
<1>3. CASE c = Idle
  <2>1. c.kind = "none" /\ c.up = None /\ c.w = None
    BY <1>3 DEF Idle
  <2>2. proc[q].kind \in Alone => proc[q].w # None
    BY DEF Sound, CallsFit, Fits, Given, Alone
  <2> QED
    BY <2>1, <2>2 DEF Apart, Keyed, Alone
<1> QED
  BY <1>2, <1>3

(* What a call does to its file and its session leaves the other calls where they are. *)
LEMMA OthersFit ==
  ASSUME Given, Sound, NEW p \in Procs, NEW q \in Procs \ {p},
         \A x \in Workspaces, j \in Keys :
           x # proc[p].w \/ j # proc[p].key \/ proc[p].kind \notin Keyed => stored'[x][j] = stored[x][j],
         \A u \in Uploads : u # proc[p].up =>
           session'[u].op = session[u].op /\ session'[u].finalizing = session[u].finalizing
  PROVE  Fits(proc[q], stored', session')
<1>1. Fits(proc[q], stored, session) /\ Apart(proc[p], proc[q]) /\ proc[q] \in Call
  BY DEF Sound, CallsFit, CallsApart, Shape
<1>2. CASE proc[q].kind \in {"write", "remove"}
  BY <1>1, <1>2 DEF Fits, Apart, Keyed, Alone
<1>3. CASE proc[q].kind = "upload"
  <2>1. proc[q].up \in Uploads /\ proc[q].up # None
    BY <1>1, <1>3 DEF Fits, Given
  <2>2. proc[q].w \in Workspaces /\ proc[q].key \in Keys
    BY <1>1, <1>3, <2>1 DEF Fits, Given
  <2>3. stored'[proc[q].w][proc[q].key] = stored[proc[q].w][proc[q].key]
    BY <1>1, <1>3, <2>2 DEF Apart, Keyed
  <2>4. proc[q].up # proc[p].up
    BY <1>1, <2>1 DEF Apart
  <2> QED
    BY <1>1, <1>3, <2>1, <2>2, <2>3, <2>4 DEF Fits, Alone
<1>4. CASE proc[q].kind = "create"
  <2>1. proc[q].up \in Uploads /\ proc[q].up # None /\ proc[q].up # proc[p].up
    BY <1>1, <1>4 DEF Fits, Given, Apart
  <2> QED
    BY <1>1, <1>4, <2>1 DEF Fits, Alone
<1>5. CASE proc[q].kind \in {"none"} \cup Alone
  BY <1>1, <1>5 DEF Fits, Alone
<1> QED
  BY <1>1, <1>2, <1>3, <1>4, <1>5 DEF Call, Keyed

(* A call goes on or ends, and does no more than that to others. *)
LEMMA GoesOn ==
  ASSUME Given, Sound, NEW p \in Procs, NEW c \in Call, proc' = [proc EXCEPT ![p] = c],
         c = Idle \/ SameTask(c, proc[p]), Fits(c, stored', session'),
         \A x \in Workspaces, j \in Keys :
           x # proc[p].w \/ j # proc[p].key \/ proc[p].kind \notin Keyed => stored'[x][j] = stored[x][j],
         \A u \in Uploads : u # proc[p].up =>
           session'[u].op = session[u].op /\ session'[u].finalizing = session[u].finalizing
  PROVE  /\ proc' \in [Procs -> Call] /\ CallsFit' /\ CallsApart'
         /\ \A q \in Procs : proc'[q].up \in {None, proc[q].up}
<1>1. \A q \in Procs \ {p} : /\ Fits(proc[q], stored', session')
                             /\ Apart(c, proc[q]) /\ Apart(proc[q], c)
  BY OthersFit, StaysApart
<1>2. /\ proc' \in [Procs -> Call] /\ CallsFit' /\ CallsApart'
      /\ \A q \in Procs : proc'[q] = IF q = p THEN c ELSE proc[q]
  BY <1>1, CallChanges
<1>3. c.up \in {None, proc[p].up}
  BY DEF Idle, SameTask
<1> QED
  BY <1>2, <1>3

(* One session changes, which had begun. *)
LEMMA SessionChanges ==
  ASSUME Given, Sound, NEW u0 \in Uploads, NEW s \in Session, session' = [session EXCEPT ![u0] = s],
         left'.uploads = left.uploads, u0 \notin left.uploads, stranded \subseteq stranded',
         \A q \in Procs : proc'[q].up \in {None, proc[q].up},
         s.bytes \in {0, Size[u0]}, s.finalizing \in {0, Size[u0]},
         s.finalizing > 0 => s.op \/ u0 \in stranded'
  PROVE  session' \in [Uploads -> Session] /\ \A u \in Uploads : SessionFits(u)'
<1>1. session' \in [Uploads -> Session] /\ \A u \in Uploads : session'[u] = IF u = u0 THEN s ELSE session[u]
  BY DEF Sound, Shape
<1>2. ASSUME NEW u \in Uploads PROVE SessionFits(u)'
  <2>1. SessionFits(u) /\ u # None
    BY DEF Sound, Given
  <2> QED
    BY <1>1, <2>1 DEF SessionFits
<1> QED
  BY <1>1, <1>2

(* No session changes. *)
LEMMA SessionsStay ==
  ASSUME Given, Sound, session' = session, left'.uploads = left.uploads, stranded \subseteq stranded',
         \A q \in Procs : proc'[q].up \in {None, proc[q].up}
  PROVE  \A u \in Uploads : SessionFits(u)'
<1>1. SUFFICES ASSUME NEW u \in Uploads PROVE SessionFits(u)'
  OBVIOUS
<1>2. SessionFits(u) /\ u # None
  BY DEF Sound, Given
<1> QED
  BY <1>2 DEF SessionFits

(* What happens is one thing less of what may. *)
LEMMA SpendLeaves ==
  ASSUME Shape, NEW what \in {"writes", "faults", "crashes", "moves", "scans", "late", "lost", "dropped"}, Spend(what)
  PROVE  left' \in Situation /\ left'.uploads = left.uploads
BY DEF Spend, Shape, Situation

(* A call that is idle does nothing, and one with an upload is at it. *)
LEMMA IdleCall ==
  ASSUME Given, Sound, NEW p \in Procs, At(p, "idle")
  PROVE  proc[p] = Idle /\ proc[p].w = None /\ proc[p].key = None /\ proc[p].up = None /\ proc[p].kind = "none"
<1>1. Fits(proc[p], stored, session) /\ proc[p] \in Call
  BY DEF Sound, CallsFit, Shape
<1>2. proc[p].kind = "none"
  BY <1>1 DEF Fits, At, Call, Keyed, Alone
<1> QED
  BY <1>1, <1>2 DEF Fits, Idle

(* The counts are natural numbers. *)
LEMMA CountsAreNat ==
  ASSUME Given, Shape
  PROVE  \A w \in Workspaces : Inventory(w) \in Nat /\ Finalizing(w) \in Nat
<1>1. SUFFICES ASSUME NEW w \in Workspaces PROVE Inventory(w) \in Nat /\ Finalizing(w) \in Nat
  OBVIOUS
<1>2. \A k \in Keys : stored[w][k] \in Nat
  BY DEF Shape, Sized
<1>3. Inventory(w) \in Nat
  BY <1>2, SumIsNat DEF Inventory, Given
<1> DEFINE f == [u \in Uploads |-> session[u].finalizing]
           S == {u \in Uploads : Home[u] = w}
<1>4. \A u \in S : f[u] \in Nat
  BY DEF Shape, Session
<1>5. IsFiniteSet(S)
  BY FS_Subset DEF Given
<1>6. SumFunctionOnSet(f, S) \in Nat
  <2> HIDE DEF f, S
  <2> QED
    BY <1>4, <1>5, SumIsNat
<1> QED
  BY <1>3, <1>6 DEF Finalizing

(* Both books keep natural numbers. *)
LEMMA BooksTypes ==
  ASSUME Shape, NEW p \in Procs, NEW kept \in Int, NEW held \in Int, Books(p, kept, held)
  PROVE  usage' \in [Workspaces -> Row] /\ account' \in [Accounts -> Row]
<1>1. \A r \in Row : Adds(r, kept, held) \in Row
  BY NotBelow0IsNat DEF Adds, Row
<1> QED
  BY <1>1 DEF Books, Shape

(* Who is where in which handler. *)
LEMMA Handlers ==
  ASSUME Given, Sound, NEW p \in Procs, proc[p].pc # "idle"
  PROVE  /\ proc[p].w \in Workspaces /\ proc[p].kind # "none"
         /\ proc[p].pc = "reserve_upload" <=> proc[p].kind = "create"
         /\ proc[p].pc \in {"reserve", "undo"} => proc[p].kind = "write"
         /\ proc[p].pc = "finish" => proc[p].kind \in {"write", "remove"}
         /\ proc[p].pc \in {"begin", "settle", "complete", "abandon"} => proc[p].kind = "upload"
         /\ proc[p].pc = "put" => proc[p].kind \in Keyed
         /\ proc[p].kind \in {"upload", "create"} => proc[p].up \in Uploads /\ proc[p].up \notin left.uploads
         /\ proc[p].kind \in Keyed => proc[p].key \in Keys
<1>1. Fits(proc[p], stored, session) /\ proc[p] \in Call
  BY DEF Sound, CallsFit, Shape
<1>2. proc[p].kind # "none"
  BY <1>1 DEF Fits, Idle
<1>3. proc[p].kind \in {"create", "write", "remove", "upload", "scan", "clear"}
  BY <1>1, <1>2 DEF Call, Keyed, Alone
<1>4. proc[p].kind \in {"upload", "create"} => proc[p].up \in Uploads /\ proc[p].up \notin left.uploads
  BY <1>1 DEF Fits, Sound, SessionFits
<1>5. proc[p].kind = "upload" => proc[p].key \in Keys
  BY <1>1 DEF Fits, Given
<1> QED
  BY <1>1, <1>2, <1>3, <1>4, <1>5 DEF Fits, Keyed, Alone

(* A call ends. *)
LEMMA Ends ==
  ASSUME Given, Sound, NEW p \in Procs, End(p),
         \A x \in Workspaces, j \in Keys :
           x # proc[p].w \/ j # proc[p].key \/ proc[p].kind \notin Keyed => stored'[x][j] = stored[x][j],
         \A u \in Uploads : u # proc[p].up =>
           session'[u].op = session[u].op /\ session'[u].finalizing = session[u].finalizing
  PROVE  /\ proc' \in [Procs -> Call] /\ CallsFit' /\ CallsApart'
         /\ \A q \in Procs : proc'[q].up \in {None, proc[q].up}
BY IdleIsCall, GoesOn DEF End

LEMMA ReadHolderSound ==
  ASSUME Given, Sound, NEW p \in Procs, ReadHolder(p)
  PROVE  Sound'
<1>1. PICK c : c = [proc[p] EXCEPT !.seen = holder[proc[p].w]]
  OBVIOUS
<1>2. proc[p] \in Call /\ proc[p].pc # "idle" /\ Fits(proc[p], stored, session)
  BY DEF Sound, Shape, CallsFit, ReadHolder, Transactions
<1>3. proc[p].w \in Workspaces /\ proc[p].kind # "none"
  BY <1>2, Handlers
<1>4. c \in Call /\ SameTask(c, proc[p]) /\ c.pc = proc[p].pc /\ c.was = proc[p].was
  BY <1>1, <1>2, <1>3 DEF Call, SameTask, Sound, Shape
<1>5. proc' = [proc EXCEPT ![p] = c]
  BY <1>1 DEF ReadHolder
<1>6. stored' = stored /\ session' = session
  BY DEF ReadHolder
<1>7. Fits(c, stored', session')
  BY <1>2, <1>3, <1>4, <1>6 DEF Fits, SameTask
<1>8. /\ proc' \in [Procs -> Call] /\ CallsFit' /\ CallsApart'
      /\ \A q \in Procs : proc'[q].up \in {None, proc[q].up}
  BY <1>4, <1>5, <1>6, <1>7, GoesOn
<1>9. \A u \in Uploads : SessionFits(u)'
  BY <1>8, SessionsStay DEF ReadHolder, ghosts
<1> QED
  BY <1>8, <1>9 DEF ReadHolder, Sound, Shape, books, ghosts

LEMMA ReserveUploadSound ==
  ASSUME Given, Sound, NEW p \in Procs, ReserveUpload(p)
  PROVE  Sound'
<1> DEFINE u0 == proc[p].up
<1>1. proc[p].kind = "create" /\ u0 \in Uploads /\ u0 \notin left.uploads
  BY Handlers DEF ReserveUpload, At
<1>2. ~session[u0].op /\ session[u0].finalizing = 0 /\ session[u0] \in Session
  BY <1>1 DEF Sound, CallsFit, Fits, Shape
<1>3. \E s \in Session : /\ session' = [session EXCEPT ![u0] = s] /\ s.finalizing = 0 /\ ~s.op
                         /\ s.bytes \in {0, Size[u0]}
  <2>1. PICK s : s = IF ~session[u0].there \/ proc[p].seen = None THEN session[u0]
                     ELSE IF Charge(proc[p].seen) + Size[u0] > Quota
                       THEN (IF session[u0].bytes = 0 THEN NoSession ELSE session[u0])
                     ELSE [session[u0] EXCEPT !.bytes = Size[u0], !.live = TRUE]
    OBVIOUS
  <2>2. session' = [session EXCEPT ![u0] = s]
    BY <2>1 DEF ReserveUpload
  <2>3. session[u0].bytes \in {0, Size[u0]} /\ Size[u0] \in Nat
    BY <1>1 DEF Sound, SessionFits, Given
  <2>4. s \in Session /\ s.finalizing = 0 /\ ~s.op /\ s.bytes \in {0, Size[u0]}
    BY <1>2, <2>1, <2>3, NoSessionIsOne DEF Session
  <2> QED
    BY <2>2, <2>4
<1>4. PICK s \in Session : /\ session' = [session EXCEPT ![u0] = s] /\ s.finalizing = 0 /\ ~s.op
                          /\ s.bytes \in {0, Size[u0]}
  BY <1>3
<1>5. \A u \in Uploads : u # u0 => session'[u] = session[u]
  BY <1>4 DEF Sound, Shape
<1>6. /\ proc' \in [Procs -> Call] /\ CallsFit' /\ CallsApart'
      /\ \A q \in Procs : proc'[q].up \in {None, proc[q].up}
  BY <1>5, Ends DEF ReserveUpload
<1>7. left' = left /\ stranded' = stranded
  BY DEF ReserveUpload, ghosts
<1>8. session' \in [Uploads -> Session] /\ \A u \in Uploads : SessionFits(u)'
  <2>1. left'.uploads = left.uploads /\ stranded \subseteq stranded' /\ s.finalizing \in {0, Size[u0]}
        /\ (s.finalizing > 0 => s.op \/ u0 \in stranded')
    BY <1>4, <1>7
  <2> HIDE DEF u0
  <2> QED
    BY <1>1, <1>4, <1>6, <2>1, SessionChanges
<1> QED
  BY <1>6, <1>8 DEF ReserveUpload, Sound, Shape, books, ghosts

(* Only a session changes, and keeps its operation. *)
LEMMA SessionOnly ==
  ASSUME Given, Sound, NEW u0 \in Uploads, NEW s \in Session, session' = [session EXCEPT ![u0] = s],
         s.op = session[u0].op, s.finalizing \in {0, session[u0].finalizing}, s.bytes \in {0, session[u0].bytes},
         session[u0] # NoSession, UNCHANGED <<holder, usage, account, stored, proc, closed, stranded, raced>>,
         torn' \subseteq Workspaces, left' \in Situation, left'.uploads = left.uploads
  PROVE  Sound'
<1>1. SessionFits(u0) /\ session[u0] \in Session /\ Size[u0] \in Nat
  BY DEF Sound, Shape, Given
<1>2. /\ u0 \notin left.uploads /\ s.bytes \in {0, Size[u0]} /\ s.finalizing \in {0, Size[u0]}
      /\ s.finalizing > 0 => s.op \/ u0 \in stranded'
      /\ stranded \subseteq stranded'
  BY <1>1 DEF SessionFits
<1>3. \A q \in Procs : proc'[q].up \in {None, proc[q].up}
  OBVIOUS
<1>4. session' \in [Uploads -> Session] /\ \A u \in Uploads : SessionFits(u)'
  BY <1>2, <1>3, SessionChanges
<1>5. \A u \in Uploads : session'[u] = IF u = u0 THEN s ELSE session[u]
  BY DEF Sound, Shape
<1>6. ASSUME NEW p \in Procs PROVE Fits(proc[p], stored', session')
  <2>1. Fits(proc[p], stored, session)
    BY DEF Sound, CallsFit
  <2>2. \A u \in Uploads : /\ session'[u].op = session[u].op
                          /\ session[u].finalizing = 0 => session'[u].finalizing = 0
    BY <1>5
  <2> QED
    BY <2>1, <2>2 DEF Fits
<1>7. CallsFit' /\ CallsApart'
  BY <1>6 DEF CallsFit, CallsApart, Sound
<1> QED
  BY <1>4, <1>7 DEF Sound, Shape

LEMMA RunOutSound ==
  ASSUME Given, Sound, NEW u \in Uploads, RunOut(u)
  PROVE  Sound'
<1>1. PICK s : s = [session[u] EXCEPT !.live = FALSE]
  OBVIOUS
<1>2. session' = [session EXCEPT ![u] = s] /\ session[u] \in Session
  BY <1>1 DEF RunOut, Sound, Shape
<1>3. s \in Session /\ s.op = session[u].op /\ s.finalizing = session[u].finalizing /\ s.bytes = session[u].bytes
  BY <1>1, <1>2 DEF Session
<1>4. session[u] # NoSession
  BY NoSessionIsOne DEF RunOut
<1>5. left' \in Situation /\ left'.uploads = left.uploads
  BY SpendLeaves DEF RunOut, Sound
<1>6. UNCHANGED <<holder, usage, account, stored, proc, closed, stranded, raced>> /\ torn' \subseteq Workspaces
  BY DEF RunOut, books, ghosts, Sound, Shape
<1> QED
  BY <1>2, <1>3, <1>4, <1>5, <1>6, SessionOnly

LEMMA TouchSound ==
  ASSUME Given, Sound, NEW u \in Uploads, Touch(u)
  PROVE  Sound'
<1>1. PICK s : s = [session[u] EXCEPT !.live = TRUE]
  OBVIOUS
<1>2. session' = [session EXCEPT ![u] = s] /\ session[u] \in Session
  BY <1>1 DEF Touch, Sound, Shape
<1>3. s \in Session /\ s.op = session[u].op /\ s.finalizing = session[u].finalizing /\ s.bytes = session[u].bytes
  BY <1>1, <1>2 DEF Session
<1>4. session[u] # NoSession
  BY NoSessionIsOne DEF Touch
<1>5. left' \in Situation /\ left'.uploads = left.uploads
  BY DEF Touch, Sound, Shape
<1>6. UNCHANGED <<holder, usage, account, stored, proc, closed, stranded, raced>> /\ torn' \subseteq Workspaces
  BY DEF Touch, books, Sound, Shape
<1> QED
  BY <1>2, <1>3, <1>4, <1>5, <1>6, SessionOnly

LEMMA PartLostSound ==
  ASSUME Given, Sound, NEW u \in Uploads, PartLost(u)
  PROVE  Sound'
<1>1. PICK s : s = [session[u] EXCEPT !.part = FALSE]
  OBVIOUS
<1>2. session' = [session EXCEPT ![u] = s] /\ session[u] \in Session
  BY <1>1 DEF PartLost, Sound, Shape
<1>3. s \in Session /\ s.op = session[u].op /\ s.finalizing = session[u].finalizing /\ s.bytes = session[u].bytes
  BY <1>1, <1>2 DEF Session
<1>4. session[u] # NoSession
  BY DEF PartLost, NoSession
<1>5. left' \in Situation /\ left'.uploads = left.uploads
  BY SpendLeaves DEF PartLost, Sound
<1>6. UNCHANGED <<holder, usage, account, stored, proc, closed, stranded, raced>> /\ torn' \subseteq Workspaces
  BY DEF PartLost, books, ghosts, Sound, Shape
<1> QED
  BY <1>2, <1>3, <1>4, <1>5, <1>6, SessionOnly

(* What is dropped had nothing that was being finalized, and asks for nothing. *)
LEMMA DropTakes ==
  ASSUME Given, Sound, NEW u \in Uploads, Drop(u)
  PROVE  \E s \in Session : /\ session' = [session EXCEPT ![u] = s] /\ s.op = session[u].op
                            /\ session[u].finalizing = 0 /\ s.finalizing = 0 /\ s.bytes = 0 /\ ~s.live
                            /\ session[u] \in Session /\ session[u] # NoSession
                            /\ left' \in Situation /\ left'.uploads = left.uploads
<1>1. PICK expired \in BOOLEAN :
        /\ IF expired THEN ~session[u].live /\ UNCHANGED left ELSE Spend("dropped")
        /\ session' = [session EXCEPT ![u] = [NoSession EXCEPT !.op = session[u].op,
             !.part = ~expired /\ session[u].op /\ session[u].part]]
  BY DEF Drop
<1>2. PICK s : s = [NoSession EXCEPT !.op = session[u].op, !.part = ~expired /\ session[u].op /\ session[u].part]
  OBVIOUS
<1>3. session' = [session EXCEPT ![u] = s] /\ session[u] \in Session /\ session[u] # NoSession
      /\ session[u].finalizing = 0
  BY <1>1, <1>2, NoSessionIsOne DEF Drop, Sound, Shape
<1>4. s \in Session /\ s.op = session[u].op /\ s.finalizing = 0 /\ s.bytes = 0 /\ ~s.live
  BY <1>2, <1>3 DEF Session, NoSession
<1>5. left' \in Situation /\ left'.uploads = left.uploads
  BY <1>1, SpendLeaves DEF Sound, Shape
<1> QED
  BY <1>3, <1>4, <1>5

LEMMA DropSound ==
  ASSUME Given, Sound, NEW u \in Uploads, Drop(u)
  PROVE  Sound'
<1>1. PICK s \in Session : /\ session' = [session EXCEPT ![u] = s] /\ s.op = session[u].op
                           /\ s.finalizing = 0 /\ s.bytes = 0 /\ session[u] # NoSession
                           /\ left' \in Situation /\ left'.uploads = left.uploads
  BY DropTakes
<1>2. UNCHANGED <<holder, usage, account, stored, proc, closed, stranded, raced>> /\ torn' \subseteq Workspaces
  BY DEF Drop, books, ghosts, Sound, Shape
<1> QED
  BY <1>1, <1>2, SessionOnly

LEMMA DeleteSessionSound ==
  ASSUME Given, Sound, NEW u \in Uploads, DeleteSession(u)
  PROVE  Sound'
<1>1. PICK s : s = [NoSession EXCEPT !.op = session[u].op]
  OBVIOUS
<1>2. session' = [session EXCEPT ![u] = s] /\ session[u] \in Session /\ session[u] # NoSession
  BY <1>1, NoSessionIsOne DEF DeleteSession, Sound, Shape
<1>3. s \in Session /\ s.op = session[u].op /\ s.finalizing = 0 /\ s.bytes = 0
  BY <1>1, <1>2 DEF Session, NoSession
<1>4. left' \in Situation /\ left'.uploads = left.uploads
  BY SpendLeaves DEF DeleteSession, Sound
<1>5. UNCHANGED <<holder, usage, account, stored, proc, closed, stranded, raced>> /\ torn' \subseteq Workspaces
  BY DEF DeleteSession, books, Sound, Shape, Given
<1> QED
  BY <1>2, <1>3, <1>4, <1>5, SessionOnly

LEMMA CreateSound ==
  ASSUME Given, Sound, NEW p \in Procs, NEW u0 \in Uploads, Create(p, u0)
  PROVE  Sound'
<1>1. PICK s : s = [NoSession EXCEPT !.there = TRUE, !.live = TRUE, !.part = TRUE]
  OBVIOUS
<1>2. PICK c : c = [Idle EXCEPT !.pc = "reserve_upload", !.kind = "create", !.w = Home[u0], !.up = u0]
  OBVIOUS
<1>3. s \in Session /\ s.finalizing = 0 /\ ~s.op /\ s.bytes = 0
  BY <1>1 DEF NoSession, Session
<1>4. c \in Call /\ c.kind = "create" /\ c.w = Home[u0] /\ c.key = None /\ c.up = u0 /\ c.pc = "reserve_upload"
  BY <1>2 DEF Idle, Call, Steps, Keyed, Given
<1>5. proc' = [proc EXCEPT ![p] = c] /\ session' = [session EXCEPT ![u0] = s] /\ stored' = stored
  BY <1>1, <1>2 DEF Create
<1>6. \A u \in Uploads : session'[u] = IF u = u0 THEN s ELSE session[u]
  BY <1>5 DEF Sound, Shape
<1>7. Fits(c, stored', session')
  BY <1>3, <1>4, <1>6 DEF Fits, Alone, Given
<1>8. u0 \in left.uploads /\ \A q \in Procs : proc[q].up # u0
  BY DEF Create, Sound, SessionFits
<1>9. proc[p].w = None /\ proc[p].key = None /\ proc[p].up = None
  BY IdleCall DEF Create
<1>10. ASSUME NEW q \in Procs \ {p}
       PROVE  Fits(proc[q], stored', session') /\ Apart(c, proc[q]) /\ Apart(proc[q], c)
  <2>1. Fits(proc[q], stored, session)
    BY DEF Sound, CallsFit
  <2>2. Fits(proc[q], stored', session')
    BY <1>5, <1>6, <1>8, <2>1 DEF Fits
  <2>3. Apart(c, proc[q]) /\ Apart(proc[q], c)
    BY <1>4, <1>8 DEF Apart, Alone, Keyed
  <2> QED
    BY <2>2, <2>3
<1>11. /\ proc' \in [Procs -> Call] /\ CallsFit' /\ CallsApart'
       /\ \A q \in Procs : proc'[q] = IF q = p THEN c ELSE proc[q]
  BY <1>4, <1>5, <1>7, <1>10, CallChanges
<1>12. left' \in Situation /\ left'.uploads = left.uploads \ {u0}
  BY DEF Create, Sound, Shape, Situation
<1>13. ASSUME NEW u \in Uploads PROVE SessionFits(u)'
  <2>1. SessionFits(u)
    BY DEF Sound
  <2>2. stranded' = stranded
    BY DEF Create, ghosts
  <2>3. CASE u = u0
    BY <1>3, <1>6, <1>12, <2>3 DEF SessionFits
  <2>4. CASE u # u0
    BY <1>4, <1>6, <1>11, <1>12, <2>1, <2>2, <2>4 DEF SessionFits
  <2> QED
    BY <2>3, <2>4
<1>14. session' \in [Uploads -> Session]
  BY <1>3, <1>5 DEF Sound, Shape
<1> QED
  BY <1>11, <1>12, <1>13, <1>14 DEF Sound, Shape, Create, books, ghosts

(* A call that enters finds no exclusive one, and none at its path. *)
LEMMA EntersApart ==
  ASSUME Given, Sound, NEW p \in Procs, NEW w \in Workspaces, NEW k \in Keys, Enters(p, w), Free(w, k),
         NEW c \in Call, c.kind \in Keyed, c.w = w, c.key = k,
         c.up # None => \A q \in Procs : proc[q].up # c.up,
         NEW q \in Procs \ {p}
  PROVE  Apart(c, proc[q]) /\ Apart(proc[q], c)
<1>1. proc[q].w = w /\ proc[q].kind # "create" => ~Exclusive(q) /\ proc[q].key # k
  BY DEF Enters, Free, Active
<1> QED
  BY <1>1 DEF Apart, Exclusive, Alone, Keyed

LEMMA WriteSound ==
  ASSUME Given, Sound, NEW p \in Procs, NEW w \in Workspaces, NEW k \in Keys, NEW n \in WriteSizes,
         Write(p, w, k, n)
  PROVE  Sound'
<1>1. PICK c0 : c0 = [Idle EXCEPT !.kind = "write", !.key = k, !.size = n, !.was = stored[w][k],
                    !.held = NotBelow0(n - stored[w][k]), !.pc = IF n > stored[w][k] THEN "reserve" ELSE "put"]
  OBVIOUS
<1>2. PICK c : c = [c0 EXCEPT !.w = w]
  OBVIOUS
<1>3. stored[w][k] \in Nat /\ n \in Nat
  BY DEF Sound, Shape, Sized, Given
<1>4. NotBelow0(n - stored[w][k]) \in Nat
  BY <1>3, NotBelow0IsNat
<1>5. /\ c \in Call /\ c.kind = "write" /\ c.w = w /\ c.key = k /\ c.up = None /\ c.size = n
      /\ c.was = stored[w][k] /\ c.held = NotBelow0(n - stored[w][k]) /\ c.pc \in {"reserve", "put"}
  BY <1>1, <1>2, <1>3, <1>4 DEF Idle, Call, Steps, Keyed
<1>6. proc' = [proc EXCEPT ![p] = c] /\ stored' = stored /\ session' = session
  BY <1>1, <1>2 DEF Write, Begin
<1>7. Fits(c, stored', session')
  BY <1>3, <1>5, <1>6 DEF Fits, Alone
<1>8. ASSUME NEW q \in Procs \ {p}
      PROVE  Fits(proc[q], stored', session') /\ Apart(c, proc[q]) /\ Apart(proc[q], c)
  <2>1. Fits(proc[q], stored', session')
    BY <1>6 DEF Sound, CallsFit
  <2> QED
    BY <1>5, <2>1, EntersApart DEF Write, Keyed
<1>9. /\ proc' \in [Procs -> Call] /\ CallsFit' /\ CallsApart'
      /\ \A q \in Procs : proc'[q] = IF q = p THEN c ELSE proc[q]
  BY <1>5, <1>6, <1>7, <1>8, CallChanges
<1>10. left' \in Situation /\ left'.uploads = left.uploads
  BY SpendLeaves DEF Write, Sound
<1>11. \A u \in Uploads : SessionFits(u)'
  BY <1>5, <1>6, <1>9, <1>10, SessionsStay DEF Write, Begin
<1> QED
  BY <1>9, <1>10, <1>11 DEF Sound, Shape, Write, Begin, books

LEMMA RemoveSound ==
  ASSUME Given, Sound, NEW p \in Procs, NEW w \in Workspaces, NEW k \in Keys, Remove(p, w, k)
  PROVE  Sound'
<1>1. PICK c0 : c0 = [Idle EXCEPT !.kind = "remove", !.key = k, !.was = stored[w][k], !.pc = "put"]
  OBVIOUS
<1>2. PICK c : c = [c0 EXCEPT !.w = w]
  OBVIOUS
<1>3. stored[w][k] \in Nat
  BY DEF Sound, Shape, Sized, Given
<1>4. NotBelow0(0 - stored[w][k]) = 0
  BY <1>3, NotBelow0IsNat
<1>5. /\ c \in Call /\ c.kind = "remove" /\ c.w = w /\ c.key = k /\ c.up = None /\ c.size = 0
      /\ c.was = stored[w][k] /\ c.held = 0 /\ c.pc = "put"
  BY <1>1, <1>2, <1>3 DEF Idle, Call, Steps, Keyed
<1>6. proc' = [proc EXCEPT ![p] = c] /\ stored' = stored /\ session' = session
  BY <1>1, <1>2 DEF Remove, Begin
<1>7. Fits(c, stored', session')
  BY <1>3, <1>4, <1>5, <1>6 DEF Fits, Alone
<1>8. ASSUME NEW q \in Procs \ {p}
      PROVE  Fits(proc[q], stored', session') /\ Apart(c, proc[q]) /\ Apart(proc[q], c)
  <2>1. Fits(proc[q], stored', session')
    BY <1>6 DEF Sound, CallsFit
  <2> QED
    BY <1>5, <2>1, EntersApart DEF Remove, Keyed
<1>9. /\ proc' \in [Procs -> Call] /\ CallsFit' /\ CallsApart'
      /\ \A q \in Procs : proc'[q] = IF q = p THEN c ELSE proc[q]
  BY <1>5, <1>6, <1>7, <1>8, CallChanges
<1>10. left' \in Situation /\ left'.uploads = left.uploads
  BY SpendLeaves DEF Remove, Sound
<1>11. \A u \in Uploads : SessionFits(u)'
  BY <1>5, <1>6, <1>9, <1>10, SessionsStay DEF Remove, Begin
<1> QED
  BY <1>9, <1>10, <1>11 DEF Sound, Shape, Remove, Begin, books

LEMMA FinalizeSound ==
  ASSUME Given, Sound, NEW p \in Procs, NEW u0 \in Uploads, Finalize(p, u0)
  PROVE  Sound'
<1> DEFINE w == Home[u0]
           k == Place[u0]
<1>1. PICK c0 : c0 = [Idle EXCEPT !.kind = "upload", !.key = k, !.up = u0, !.size = Size[u0], !.pc = "begin"]
  OBVIOUS
<1>2. PICK c : c = [c0 EXCEPT !.w = w]
  OBVIOUS
<1>3. PICK s : s = [session[u0] EXCEPT !.op = TRUE]
  OBVIOUS
<1>4. w \in Workspaces /\ k \in Keys /\ Size[u0] \in Nat /\ session[u0] \in Session /\ SessionFits(u0)
  BY DEF Sound, Shape, Given
<1>5. /\ c \in Call /\ c.kind = "upload" /\ c.w = w /\ c.key = k /\ c.up = u0 /\ c.size = Size[u0]
      /\ c.held = 0 /\ c.pc = "begin"
  BY <1>1, <1>2, <1>4 DEF Idle, Call, Steps, Keyed
<1>6. s \in Session /\ s.op /\ s.finalizing = session[u0].finalizing /\ s.bytes = session[u0].bytes
  BY <1>3, <1>4 DEF Session
<1>7. proc' = [proc EXCEPT ![p] = c] /\ stored' = stored /\ session' = [session EXCEPT ![u0] = s]
  <2>1. proc' = [proc EXCEPT ![p] = [c0 EXCEPT !.w = w]] /\ stored' = stored
    BY <1>1 DEF Finalize, Begin
  <2>2. session' = [session EXCEPT ![u0] = s]
    BY <1>3, <1>4 DEF Finalize, Sound, Shape
  <2> QED
    BY <1>2, <2>1, <2>2
<1>8. \A u \in Uploads : session'[u] = IF u = u0 THEN s ELSE session[u]
  BY <1>6, <1>7 DEF Sound, Shape
<1>9. Fits(c, stored', session')
  BY <1>4, <1>5, <1>6, <1>8 DEF Fits, Alone
<1>10. \A q \in Procs : proc[q].up # u0
  BY DEF Finalize
<1>11. ASSUME NEW q \in Procs \ {p}
      PROVE  Fits(proc[q], stored', session') /\ Apart(c, proc[q]) /\ Apart(proc[q], c)
  <2>1. Fits(proc[q], stored, session)
    BY DEF Sound, CallsFit
  <2>2. Fits(proc[q], stored', session')
    BY <1>7, <1>8, <1>10, <2>1 DEF Fits
  <2>3. Enters(p, w) /\ Free(w, k)
    BY DEF Finalize
  <2> HIDE DEF w, k
  <2> QED
    BY <1>4, <1>5, <1>10, <2>2, <2>3, EntersApart DEF Keyed
<1>12. /\ proc' \in [Procs -> Call] /\ CallsFit' /\ CallsApart'
      /\ \A q \in Procs : proc'[q] = IF q = p THEN c ELSE proc[q]
  BY <1>5, <1>7, <1>9, <1>11, CallChanges
<1>13. left' = left /\ stranded' = stranded /\ u0 \notin left.uploads
  BY <1>4, NoSessionIsOne DEF Finalize, Begin, SessionFits
<1>14. ASSUME NEW u \in Uploads PROVE SessionFits(u)'
  <2>1. SessionFits(u)
    BY DEF Sound
  <2> QED
    BY <1>5, <1>6, <1>8, <1>12, <1>13, <2>1 DEF SessionFits
<1>15. session' \in [Uploads -> Session]
  BY <1>6, <1>7 DEF Sound, Shape
<1> QED
  BY <1>12, <1>13, <1>14, <1>15 DEF Sound, Shape, Finalize, Begin, books

LEMMA ScanSound ==
  ASSUME Given, Sound, NEW p \in Procs, NEW w \in Workspaces, Scan(p, w)
  PROVE  Sound'
<1>1. PICK kind \in {"scan", "clear"} :
        /\ proc' = [proc EXCEPT ![p] = [Idle EXCEPT !.kind = kind, !.w = w, !.pc = "inventory"]]
        /\ stored' = IF kind = "clear" THEN [stored EXCEPT ![w] = [k \in Keys |-> 0]] ELSE stored
  BY DEF Scan
<1>2. PICK c : c = [Idle EXCEPT !.kind = kind, !.w = w, !.pc = "inventory"]
  OBVIOUS
<1>3. c \in Call /\ c.kind \in Alone /\ c.w = w /\ c.key = None /\ c.up = None /\ c.pc = "inventory"
  BY <1>2 DEF Idle, Call, Steps, Alone
<1>4. proc' = [proc EXCEPT ![p] = c] /\ session' = session
  BY <1>1, <1>2 DEF Scan
<1>5. Fits(c, stored', session')
  BY <1>3 DEF Fits, Alone
<1>6. stored' \in Sized /\ \A x \in Workspaces : x # w => stored'[x] = stored[x]
  BY <1>1 DEF Sound, Shape, Sized
<1>7. ASSUME NEW q \in Procs \ {p}
      PROVE  Fits(proc[q], stored', session') /\ Apart(c, proc[q]) /\ Apart(proc[q], c)
  <2>1. Fits(proc[q], stored, session)
    BY DEF Sound, CallsFit
  <2>2. proc[q].w # w \/ proc[q].kind = "create"
    BY DEF Scan, Active
  <2>3. Fits(proc[q], stored', session')
    BY <1>4, <1>6, <2>1, <2>2 DEF Fits, Given
  <2>4. Apart(c, proc[q]) /\ Apart(proc[q], c)
    BY <1>3, <2>2 DEF Apart, Alone, Keyed
  <2> QED
    BY <2>3, <2>4
<1>8. /\ proc' \in [Procs -> Call] /\ CallsFit' /\ CallsApart'
      /\ \A q \in Procs : proc'[q] = IF q = p THEN c ELSE proc[q]
  BY <1>3, <1>4, <1>5, <1>7, CallChanges
<1>9. left' \in Situation /\ left'.uploads = left.uploads
  BY SpendLeaves DEF Scan, Sound, Shape
<1>10. \A u \in Uploads : SessionFits(u)'
  BY <1>3, <1>4, <1>8, <1>9, SessionsStay DEF Scan, ghosts
<1> QED
  BY <1>6, <1>8, <1>9, <1>10 DEF Sound, Shape, Scan, books, ghosts

(* A call goes on without touching files or sessions. *)
LEMMA MovesOn ==
  ASSUME Given, Sound, NEW p \in Procs, NEW pc \in Steps, To(p, pc), stored' = stored, session' = session,
         proc[p].pc # "idle",
         \/ proc[p].kind \in Keyed /\ pc = "inventory"
         \/ proc[p].kind = "write" /\ pc = "put" /\ proc[p].pc = "reserve"
         \/ proc[p].kind = "write" /\ pc = "undo"
         \/ proc[p].kind = "upload" /\ pc = "abandon"
  PROVE  /\ proc' \in [Procs -> Call] /\ CallsFit' /\ CallsApart'
         /\ \A q \in Procs : proc'[q].up \in {None, proc[q].up}
<1>1. PICK c \in Call : /\ proc' = [proc EXCEPT ![p] = c] /\ SameTask(c, proc[p])
                       /\ c.pc = pc /\ c.was = proc[p].was
  BY ToCall DEF Sound
<1>2. Fits(proc[p], stored, session)
  BY DEF Sound, CallsFit
<1>3. Fits(c, stored', session')
  BY <1>1, <1>2 DEF Fits, SameTask, Keyed, Alone
<1> QED
  BY <1>1, <1>3, GoesOn

LEMMA ReserveSound ==
  ASSUME Given, Sound, NEW p \in Procs, Reserve(p)
  PROVE  Sound'
<1>1. proc[p].kind = "write" /\ proc[p].w \in Workspaces /\ proc[p] \in Call /\ proc[p].held \in Nat
  BY Handlers DEF Reserve, At, Sound, Shape, Call
<1>2. usage' \in [Workspaces -> Row] /\ account' \in [Accounts -> Row]
  BY <1>1, BooksTypes DEF Reserve, books, Sound, Shape
<1>3. stored' = stored /\ session' = session /\ left' = left /\ stranded' = stranded
  BY DEF Reserve, ghosts
<1>4. /\ proc' \in [Procs -> Call] /\ CallsFit' /\ CallsApart'
      /\ \A q \in Procs : proc'[q].up \in {None, proc[q].up}
  BY <1>1, <1>3, MovesOn, Ends DEF Reserve, At, Steps
<1>5. \A u \in Uploads : SessionFits(u)'
  BY <1>3, <1>4, SessionsStay
<1> QED
  BY <1>2, <1>4, <1>5 DEF Reserve, Sound, Shape, ghosts

(* A call's file is written: the others are as they were. *)
LEMMA FileWritten ==
  ASSUME Given, Sound, NEW p \in Procs, proc[p].w \in Workspaces, proc[p].key \in Keys, proc[p].size \in Nat,
         stored' = [stored EXCEPT ![proc[p].w][proc[p].key] = proc[p].size]
  PROVE  /\ stored' \in Sized /\ stored'[proc[p].w][proc[p].key] = proc[p].size
         /\ \A x \in Workspaces, j \in Keys : x # proc[p].w \/ j # proc[p].key => stored'[x][j] = stored[x][j]
BY DEF Sound, Shape, Sized

LEMMA PutSound ==
  ASSUME Given, Sound, NEW p \in Procs, Put(p)
  PROVE  Sound'
<1>1. /\ proc[p].kind \in {"write", "remove"} /\ proc[p].w \in Workspaces /\ proc[p].key \in Keys
      /\ proc[p].size \in Nat
  BY Handlers DEF Put, At, Sound, Shape, Call, Keyed
<1>2. PICK c \in Call : /\ proc' = [proc EXCEPT ![p] = c] /\ SameTask(c, proc[p])
                       /\ c.pc = "finish" /\ c.was = proc[p].was
  BY ToCall DEF Sound, Put, Steps
<1>3. /\ stored' \in Sized /\ stored'[proc[p].w][proc[p].key] = proc[p].size
      /\ \A x \in Workspaces, j \in Keys : x # proc[p].w \/ j # proc[p].key => stored'[x][j] = stored[x][j]
  BY <1>1, FileWritten DEF Put
<1>4. Fits(c, stored', session')
  BY <1>1, <1>2, <1>3 DEF Fits, SameTask, Alone, Sound, CallsFit
<1>5. session' = session /\ left' = left /\ stranded' = stranded
  BY DEF Put, ghosts
<1>6. /\ proc' \in [Procs -> Call] /\ CallsFit' /\ CallsApart'
      /\ \A q \in Procs : proc'[q].up \in {None, proc[q].up}
  BY <1>1, <1>2, <1>3, <1>4, <1>5, GoesOn DEF Keyed
<1>7. \A u \in Uploads : SessionFits(u)'
  BY <1>5, <1>6, SessionsStay
<1> QED
  BY <1>3, <1>6, <1>7 DEF Put, Sound, Shape, books, ghosts

LEMMA PutFailsSound ==
  ASSUME Given, Sound, NEW p \in Procs, PutFails(p)
  PROVE  Sound'
<1>1. /\ proc[p].kind \in Keyed /\ proc[p].w \in Workspaces /\ proc[p].key \in Keys
      /\ proc[p].size \in Nat
  BY Handlers DEF PutFails, At, Sound, Shape, Call
<1>2. /\ stored' \in Sized
      /\ \A x \in Workspaces, j \in Keys : x # proc[p].w \/ j # proc[p].key => stored'[x][j] = stored[x][j]
  <2>1. CASE stored' = stored
    BY <2>1 DEF Sound, Shape
  <2>2. CASE stored' = [stored EXCEPT ![proc[p].w][proc[p].key] = proc[p].size]
    BY <1>1, <2>2, FileWritten
  <2> QED
    BY <2>1, <2>2 DEF PutFails
<1>3. session' = session /\ left' \in Situation /\ left'.uploads = left.uploads /\ stranded' = stranded
  BY SpendLeaves DEF PutFails, Sound
<1>4. /\ proc' \in [Procs -> Call] /\ CallsFit' /\ CallsApart'
      /\ \A q \in Procs : proc'[q].up \in {None, proc[q].up}
  <2>1. CASE proc[p].kind = "write"
    <3>1. PICK c \in Call : /\ proc' = [proc EXCEPT ![p] = c] /\ SameTask(c, proc[p])
                           /\ c.pc = "undo" /\ c.was = proc[p].was
      BY <2>1, ToCall DEF Sound, PutFails, Steps
    <3>2. Fits(c, stored', session')
      BY <2>1, <3>1 DEF Fits, SameTask, Alone, Sound, CallsFit
    <3> QED
      BY <1>1, <1>2, <1>3, <3>1, <3>2, GoesOn
  <2>2. CASE proc[p].kind # "write"
    BY <1>1, <1>2, <1>3, <2>2, Ends DEF PutFails
  <2> QED
    BY <2>1, <2>2
<1>5. \A u \in Uploads : SessionFits(u)'
  BY <1>3, <1>4, SessionsStay
<1>6. torn' \subseteq Workspaces
  BY <1>1 DEF PutFails, Sound, Shape
<1> QED
  BY <1>2, <1>3, <1>4, <1>5, <1>6 DEF PutFails, Sound, Shape, books

LEMMA FinishSound ==
  ASSUME Given, Sound, NEW p \in Procs, Finish(p)
  PROVE  Sound'
<1>1. proc[p].kind \in {"write", "remove"} /\ proc[p].w \in Workspaces /\ proc[p] \in Call
  BY Handlers DEF Finish, At, Sound, Shape
<1>2. proc[p].size - proc[p].was \in Int /\ -proc[p].held \in Int
  BY <1>1 DEF Call
<1>3. usage' \in [Workspaces -> Row] /\ account' \in [Accounts -> Row]
  BY <1>1, <1>2, BooksTypes DEF Finish, books, Sound, Shape
<1>4. stored' = stored /\ session' = session /\ left' = left /\ stranded' = stranded
  BY DEF Finish, ghosts
<1>5. /\ proc' \in [Procs -> Call] /\ CallsFit' /\ CallsApart'
      /\ \A q \in Procs : proc'[q].up \in {None, proc[q].up}
  BY <1>1, <1>4, MovesOn, Ends DEF Finish, At, Steps, Keyed
<1>6. \A u \in Uploads : SessionFits(u)'
  BY <1>4, <1>5, SessionsStay
<1> QED
  BY <1>3, <1>5, <1>6 DEF Finish, Sound, Shape, ghosts

LEMMA UndoSound ==
  ASSUME Given, Sound, NEW p \in Procs, Undo(p)
  PROVE  Sound'
<1>1. proc[p].w \in Workspaces /\ proc[p] \in Call
  BY Handlers DEF Undo, At, Sound, Shape
<1>2. -proc[p].held \in Int
  BY <1>1 DEF Call
<1>3. usage' \in [Workspaces -> Row] /\ account' \in [Accounts -> Row]
  BY <1>1, <1>2, BooksTypes DEF Undo, books, Sound, Shape
<1>4. stored' = stored /\ session' = session /\ left' = left /\ stranded' = stranded
  BY DEF Undo
<1>5. /\ proc' \in [Procs -> Call] /\ CallsFit' /\ CallsApart'
      /\ \A q \in Procs : proc'[q].up \in {None, proc[q].up}
  BY <1>4, Ends DEF Undo
<1>6. \A u \in Uploads : SessionFits(u)'
  BY <1>4, <1>5, SessionsStay
<1> QED
  BY <1>1, <1>3, <1>5, <1>6 DEF Undo, Sound, Shape

LEMMA TransactionFailsSound ==
  ASSUME Given, Sound, NEW p \in Procs, TransactionFails(p)
  PROVE  Sound'
<1>1. proc[p].w \in Workspaces /\ proc[p].pc # "idle"
  BY Handlers DEF TransactionFails, Transactions
<1>2. proc[p].pc \in {"finish", "settle"} => proc[p].kind \in Keyed
  BY Handlers, <1>1 DEF Keyed
<1>3. /\ stored' = stored /\ session' = session /\ left' \in Situation /\ left'.uploads = left.uploads
      /\ stranded' = stranded
  BY SpendLeaves DEF TransactionFails, Sound
<1>4. /\ proc' \in [Procs -> Call] /\ CallsFit' /\ CallsApart'
      /\ \A q \in Procs : proc'[q].up \in {None, proc[q].up}
  BY <1>1, <1>2, <1>3, MovesOn, Ends DEF TransactionFails, Steps
<1>5. \A u \in Uploads : SessionFits(u)'
  BY <1>3, <1>4, SessionsStay
<1> QED
  BY <1>1, <1>3, <1>4, <1>5 DEF TransactionFails, Sound, Shape, books

LEMMA CountSound ==
  ASSUME Given, Sound, NEW p \in Procs, Count(p)
  PROVE  Sound'
<1>1. proc[p].w \in Workspaces /\ proc[p] \in Call /\ proc[p].kind # "none" /\ proc[p].kind # "create"
  BY Handlers DEF Count, At, Sound, Shape
<1>2. PICK c : c = [proc[p] EXCEPT !.pc = "recount", !.seen = Unread, !.count = Inventory(proc[p].w)]
  OBVIOUS
<1>3. Inventory(proc[p].w) \in Nat
  BY <1>1, CountsAreNat DEF Sound
<1>4. c \in Call /\ SameTask(c, proc[p]) /\ c.pc = "recount" /\ c.was = proc[p].was
  BY <1>1, <1>2, <1>3 DEF Call, Steps, SameTask
<1>5. proc' = [proc EXCEPT ![p] = c] /\ stored' = stored /\ session' = session /\ left' = left /\ stranded' = stranded
  BY <1>2 DEF Count
<1>6. Fits(c, stored', session')
  BY <1>1, <1>4, <1>5 DEF Fits, SameTask, Sound, CallsFit, Count, At
<1>7. /\ proc' \in [Procs -> Call] /\ CallsFit' /\ CallsApart'
      /\ \A q \in Procs : proc'[q].up \in {None, proc[q].up}
  BY <1>4, <1>5, <1>6, GoesOn
<1>8. \A u \in Uploads : SessionFits(u)'
  BY <1>5, <1>7, SessionsStay
<1> QED
  BY <1>5, <1>7, <1>8 DEF Count, Sound, Shape, books

LEMMA ReconcileSound ==
  ASSUME Given, Sound, NEW p \in Procs, Reconcile(p)
  PROVE  Sound'
<1> DEFINE w == proc[p].w
<1>1. w \in Workspaces /\ proc[p] \in Call
  BY Handlers DEF Reconcile, At, Sound, Shape
<1>2. proc[p].count - usage[w].kept \in Int /\ Finalizing(w) - usage[w].held \in Int
  BY <1>1, CountsAreNat DEF Call, Sound, Shape, Row
<1>3. usage' \in [Workspaces -> Row] /\ account' \in [Accounts -> Row]
  BY <1>1, <1>2, BooksTypes DEF Reconcile, books, Sound, Shape
<1>4. stored' = stored /\ session' = session /\ left' = left /\ stranded' = stranded
  BY DEF Reconcile
<1>5. /\ proc' \in [Procs -> Call] /\ CallsFit' /\ CallsApart'
      /\ \A q \in Procs : proc'[q].up \in {None, proc[q].up}
  BY <1>4, Ends DEF Reconcile
<1>6. \A u \in Uploads : SessionFits(u)'
  BY <1>4, <1>5, SessionsStay
<1>7. closed' \subseteq Workspaces /\ torn' \subseteq Workspaces
  BY <1>1 DEF Reconcile, Sound, Shape
<1> QED
  BY <1>3, <1>5, <1>6, <1>7 DEF Reconcile, Sound, Shape

(* An upload's call, with its session, goes on, ends, or gives its operation up. *)
LEMMA UploadGoesOn ==
  ASSUME Given, Sound, NEW p \in Procs, proc[p].kind = "upload", NEW s \in Session,
         session' = [session EXCEPT ![proc[p].up] = s],
         NEW c \in Call, proc' = [proc EXCEPT ![p] = c], c = Idle \/ SameTask(c, proc[p]),
         Fits(c, stored', session'),
         stored' \in Sized,
         \A x \in Workspaces, j \in Keys :
           x # proc[p].w \/ j # proc[p].key => stored'[x][j] = stored[x][j],
         s.bytes \in {0, Size[proc[p].up]}, s.finalizing \in {0, Size[proc[p].up]},
         s.finalizing > 0 => s.op \/ proc[p].up \in stranded', stranded \subseteq stranded',
         usage' \in [Workspaces -> Row], account' \in [Accounts -> Row], torn' \subseteq Workspaces,
         UNCHANGED <<holder, closed, raced, left>>
  PROVE  Sound'
<1>1. proc[p].up \in Uploads /\ proc[p].up \notin left.uploads
  BY Handlers DEF Sound, CallsFit, Fits, SessionFits
<1>2. \A u \in Uploads : u # proc[p].up => session'[u] = session[u]
  BY DEF Sound, Shape
<1>3. /\ proc' \in [Procs -> Call] /\ CallsFit' /\ CallsApart'
      /\ \A q \in Procs : proc'[q].up \in {None, proc[q].up}
  <2>1. proc[p].kind \in Keyed
    BY DEF Keyed
  <2>2. \A x \in Workspaces, j \in Keys :
          x # proc[p].w \/ j # proc[p].key \/ proc[p].kind \notin Keyed => stored'[x][j] = stored[x][j]
    BY <2>1
  <2>3. \A u \in Uploads : u # proc[p].up =>
          session'[u].op = session[u].op /\ session'[u].finalizing = session[u].finalizing
    BY <1>2
  <2> QED
    BY <2>2, <2>3, GoesOn
<1>4. session' \in [Uploads -> Session] /\ \A u \in Uploads : SessionFits(u)'
  <2>1. PICK u0 \in Uploads : u0 = proc[p].up
    BY <1>1
  <2>2. /\ session' = [session EXCEPT ![u0] = s] /\ u0 \notin left.uploads /\ left'.uploads = left.uploads
        /\ s.bytes \in {0, Size[u0]} /\ s.finalizing \in {0, Size[u0]}
        /\ s.finalizing > 0 => s.op \/ u0 \in stranded'
    BY <1>1, <2>1
  <2> QED
    BY <1>3, <2>2, SessionChanges
<1> QED
  BY <1>3, <1>4 DEF Sound, Shape

(* What is known of the session of an upload's call. *)
LEMMA UploadSession ==
  ASSUME Given, Sound, NEW p \in Procs, proc[p].kind = "upload"
  PROVE  /\ proc[p].up \in Uploads /\ proc[p].w = Home[proc[p].up] /\ proc[p].w \in Workspaces
         /\ proc[p].key \in Keys /\ proc[p].size = Size[proc[p].up] /\ Size[proc[p].up] \in Nat \ {0}
         /\ session[proc[p].up] \in Session /\ session[proc[p].up].op
         /\ session[proc[p].up].bytes \in {0, Size[proc[p].up]}
         /\ session[proc[p].up].finalizing \in {0, Size[proc[p].up]}
         /\ proc[p].size \in Nat /\ proc[p].was \in Nat /\ proc[p].held = 0
         /\ proc[p].pc = "complete" => session[proc[p].up].finalizing = 0
<1>1. Fits(proc[p], stored, session) /\ proc[p] \in Call
  BY DEF Sound, CallsFit, Shape
<1> QED
  BY <1>1 DEF Fits, Call, Sound, Shape, SessionFits, Given

LEMMA BeginFinalizeSound ==
  ASSUME Given, Sound, NEW p \in Procs, BeginFinalize(p)
  PROVE  Sound'
<1> DEFINE u == proc[p].up
<1>1. proc[p].kind = "upload"
  BY Handlers DEF BeginFinalize, At
<1>2. /\ u \in Uploads /\ proc[p].w \in Workspaces /\ proc[p].key \in Keys /\ session[u] \in Session
      /\ session[u].op /\ session[u].bytes \in {0, Size[u]} /\ session[u].finalizing \in {0, Size[u]}
      /\ Size[u] \in Nat \ {0}
  BY <1>1, UploadSession
<1>3. UNCHANGED <<holder, stored, closed, torn, stranded, raced, left>>
  BY DEF BeginFinalize
<1>4. CASE End(p) /\ UNCHANGED <<books, session, over>>
  <2>1. /\ proc' \in [Procs -> Call] /\ CallsFit' /\ CallsApart'
        /\ \A q \in Procs : proc'[q].up \in {None, proc[q].up}
    BY <1>3, <1>4, Ends
  <2>2. \A v \in Uploads : SessionFits(v)'
    BY <1>3, <1>4, <2>1, SessionsStay
  <2> QED
    BY <1>3, <1>4, <2>1, <2>2 DEF Sound, Shape, books
<1>5. CASE ~(End(p) /\ UNCHANGED <<books, session, over>>)
  <2>1. /\ proc' = [proc EXCEPT ![p] = [@ EXCEPT !.pc = "put", !.seen = Unread,
                  !.was = stored[proc[p].w][proc[p].key]]]
        /\ proc[p].seen # None
        /\ IF session[u].finalizing > 0 THEN UNCHANGED <<books, session, over>>
           ELSE /\ session' = [session EXCEPT ![u] = [@ EXCEPT !.bytes = 0, !.finalizing = session[u].bytes]]
                /\ Books(p, 0, session[u].bytes)
    BY <1>5 DEF BeginFinalize
  <2>2. PICK c : c = [proc[p] EXCEPT !.pc = "put", !.seen = Unread, !.was = stored[proc[p].w][proc[p].key]]
    OBVIOUS
  <2>3. proc' = [proc EXCEPT ![p] = c] /\ proc[p] \in Call
    BY <2>1, <2>2 DEF Sound, Shape
  <2>4. /\ c \in Call /\ SameTask(c, proc[p]) /\ c.pc = "put" /\ c.was = stored[proc[p].w][proc[p].key]
    <3>1. stored[proc[p].w][proc[p].key] \in Nat
      BY <1>2 DEF Sound, Shape, Sized
    <3> QED
      BY <2>2, <2>3, <3>1 DEF Call, Steps, SameTask
  <2>5. \E s \in Session : /\ session' = [session EXCEPT ![u] = s] /\ s.op
                           /\ s.bytes \in {0, Size[u]} /\ s.finalizing \in {0, Size[u]}
    <3>1. CASE session[u].finalizing > 0
      BY <1>2, <2>1, <3>1 DEF Sound, Shape
    <3>2. CASE ~(session[u].finalizing > 0)
      <4>1. PICK s : s = [session[u] EXCEPT !.bytes = 0, !.finalizing = session[u].bytes]
        OBVIOUS
      <4>2. s \in Session /\ s.op /\ s.bytes = 0 /\ s.finalizing = session[u].bytes
        BY <1>2, <4>1 DEF Session
      <4>3. session' = [session EXCEPT ![u] = s]
        BY <1>2, <2>1, <3>2, <4>1 DEF Sound, Shape
      <4> QED
        BY <1>2, <4>2, <4>3
    <3> QED
      BY <3>1, <3>2
  <2>6. PICK s \in Session : /\ session' = [session EXCEPT ![u] = s] /\ s.op
                            /\ s.bytes \in {0, Size[u]} /\ s.finalizing \in {0, Size[u]}
    BY <2>5
  <2>7. session'[u] = s
    BY <1>2, <2>6 DEF Sound, Shape
  <2>8. Fits(c, stored', session')
    BY <1>1, <1>3, <2>4, <2>6, <2>7 DEF Fits, SameTask, Alone, Sound, CallsFit
  <2>9. usage' \in [Workspaces -> Row] /\ account' \in [Accounts -> Row]
    <3>1. session[u].bytes \in Int
      BY <1>2
    <3>2. Books(p, 0, session[u].bytes) \/ UNCHANGED books
      BY <2>1
    <3> QED
      BY <3>1, <3>2, BooksTypes DEF books, Sound, Shape
  <2>10. stored' \in Sized /\ torn' \subseteq Workspaces /\ stranded \subseteq stranded'
    BY <1>3 DEF Sound, Shape
  <2> QED
    BY <1>1, <1>3, <2>3, <2>4, <2>6, <2>8, <2>9, <2>10, UploadGoesOn
<1> QED
  BY <1>4, <1>5

LEMMA PublishSound ==
  ASSUME Given, Sound, NEW p \in Procs, Publish(p)
  PROVE  Sound'
<1> DEFINE u == proc[p].up
<1>1. proc[p].kind = "upload"
  BY DEF Publish
<1>2. /\ u \in Uploads /\ proc[p].w \in Workspaces /\ proc[p].key \in Keys /\ session[u] \in Session
      /\ session[u].op /\ session[u].bytes \in {0, Size[u]} /\ session[u].finalizing \in {0, Size[u]}
      /\ proc[p].size \in Nat
  BY <1>1, UploadSession
<1>3. /\ UNCHANGED <<holder, closed, raced, left>> /\ stranded \subseteq stranded' /\ torn' \subseteq Workspaces
      /\ usage' \in [Workspaces -> Row] /\ account' \in [Accounts -> Row]
  BY DEF Publish, ghosts, books, Sound, Shape
<1>4. CASE To(p, "abandon") /\ UNCHANGED <<stored, session>>
  <2>1. /\ proc' \in [Procs -> Call] /\ CallsFit' /\ CallsApart'
        /\ \A q \in Procs : proc'[q].up \in {None, proc[q].up}
    BY <1>1, <1>4, MovesOn DEF Publish, At, Steps
  <2>2. \A v \in Uploads : SessionFits(v)'
    BY <1>3, <1>4, <2>1, SessionsStay
  <2> QED
    BY <1>3, <1>4, <2>1, <2>2 DEF Sound, Shape
<1>5. CASE /\ stored' = [stored EXCEPT ![proc[p].w][proc[p].key] = proc[p].size]
           /\ session' = [session EXCEPT ![u].part = FALSE]
           /\ To(p, "settle")
  <2>1. PICK s : s = [session[u] EXCEPT !.part = FALSE]
    OBVIOUS
  <2>2. s \in Session /\ s.op /\ s.bytes = session[u].bytes /\ s.finalizing = session[u].finalizing
    BY <1>2, <2>1 DEF Session
  <2>3. session' = [session EXCEPT ![u] = s]
    BY <1>2, <1>5, <2>1 DEF Sound, Shape
  <2>4. session'[u] = s
    BY <1>2, <2>3 DEF Sound, Shape
  <2>5. /\ stored' \in Sized /\ stored'[proc[p].w][proc[p].key] = proc[p].size
        /\ \A x \in Workspaces, j \in Keys : x # proc[p].w \/ j # proc[p].key => stored'[x][j] = stored[x][j]
    BY <1>2, <1>5, FileWritten
  <2>6. PICK c \in Call : /\ proc' = [proc EXCEPT ![p] = c] /\ SameTask(c, proc[p])
                         /\ c.pc = "settle" /\ c.was = proc[p].was
    BY <1>5, ToCall DEF Sound, Steps
  <2>7. Fits(c, stored', session')
    BY <1>1, <2>2, <2>4, <2>5, <2>6 DEF Fits, SameTask, Alone, Sound, CallsFit
  <2> QED
    BY <1>1, <1>2, <1>3, <2>2, <2>3, <2>5, <2>6, <2>7, UploadGoesOn
<1> QED
  BY <1>4, <1>5 DEF Publish

LEMMA SettleSound ==
  ASSUME Given, Sound, NEW p \in Procs, Settle(p)
  PROVE  Sound'
<1> DEFINE u == proc[p].up
<1>1. proc[p].kind = "upload"
  BY Handlers DEF Settle, At
<1>2. /\ u \in Uploads /\ proc[p].w \in Workspaces /\ proc[p].key \in Keys /\ session[u] \in Session
      /\ session[u].op /\ session[u].bytes \in {0, Size[u]} /\ session[u].finalizing \in {0, Size[u]}
      /\ proc[p].size \in Nat /\ proc[p].was \in Nat /\ Size[u] \in Nat \ {0}
  BY <1>1, UploadSession
<1>3. UNCHANGED <<holder, stored, closed, over, stranded, raced, left>>
  BY DEF Settle
<1>4. CASE proc[p].seen = None
  <2>0. To(p, "inventory") /\ UNCHANGED <<books, session, torn>>
    BY <1>4 DEF Settle
  <2>1. /\ proc' \in [Procs -> Call] /\ CallsFit' /\ CallsApart'
        /\ \A q \in Procs : proc'[q].up \in {None, proc[q].up}
    BY <1>1, <1>3, <2>0, MovesOn DEF Settle, At, Steps, Keyed
  <2>2. \A v \in Uploads : SessionFits(v)'
    BY <1>3, <2>0, <2>1, SessionsStay
  <2> QED
    BY <1>3, <2>0, <2>1, <2>2 DEF Sound, Shape, books
<1>5. CASE proc[p].seen # None
  <2>0. /\ Settled(p, proc[p].size - proc[p].was) /\ To(p, "complete")
        /\ torn' = IF session[u].finalizing = 0 THEN torn \cup {proc[p].w} ELSE torn
    BY <1>5 DEF Settle
  <2>1. PICK s : s = [session[u] EXCEPT !.finalizing = 0]
    OBVIOUS
  <2>2. s \in Session /\ s.op /\ s.bytes = session[u].bytes /\ s.finalizing = 0
    BY <1>2, <2>1 DEF Session
  <2>3. session' = [session EXCEPT ![u] = s]
    BY <1>2, <1>5, <2>0, <2>1 DEF Settled, Sound, Shape
  <2>4. session'[u] = s
    BY <1>2, <2>3 DEF Sound, Shape
  <2>5. usage' \in [Workspaces -> Row] /\ account' \in [Accounts -> Row]
    <3>1. proc[p].size - proc[p].was \in Int /\ -session[u].finalizing \in Int
      BY <1>2
    <3> QED
      BY <2>0, <3>1, BooksTypes DEF Settled, books, Sound, Shape
  <2>6. PICK c \in Call : /\ proc' = [proc EXCEPT ![p] = c] /\ SameTask(c, proc[p])
                         /\ c.pc = "complete" /\ c.was = proc[p].was
    BY <2>0, ToCall DEF Sound, Steps
  <2>7. Fits(c, stored', session')
    BY <1>1, <1>3, <2>2, <2>4, <2>6 DEF Fits, SameTask, Alone, Sound, CallsFit
  <2>8. stored' \in Sized /\ torn' \subseteq Workspaces /\ stranded \subseteq stranded'
    BY <1>2, <1>3, <2>0 DEF Sound, Shape
  <2>9. s.finalizing \in {0, Size[u]} /\ s.bytes \in {0, Size[u]}
    BY <1>2, <2>2
  <2> QED
    BY <1>1, <1>3, <2>2, <2>3, <2>5, <2>6, <2>7, <2>8, <2>9, UploadGoesOn
<1> QED
  BY <1>4, <1>5

LEMMA CompleteSound ==
  ASSUME Given, Sound, NEW p \in Procs, Complete(p)
  PROVE  Sound'
<1> DEFINE u == proc[p].up
<1>1. proc[p].kind = "upload"
  BY Handlers DEF Complete, At
<1>2. session[u].finalizing = 0 /\ u \in Uploads
  BY <1>1, UploadSession DEF Complete, At
<1>3. PICK s : s = [NoSession EXCEPT !.finalizing = session[u].finalizing]
  OBVIOUS
<1>4. s \in Session /\ s.bytes = 0 /\ s.finalizing = 0
  <2>1. s = [there |-> FALSE, live |-> FALSE, bytes |-> 0, finalizing |-> 0, part |-> FALSE, op |-> FALSE]
    BY <1>2, <1>3 DEF NoSession
  <2> QED
    BY <2>1 DEF Session
<1>5. session' = [session EXCEPT ![u] = s]
  BY <1>3 DEF Complete
<1>6. Idle \in Call /\ proc' = [proc EXCEPT ![p] = Idle] /\ Fits(Idle, stored', session')
  BY IdleIsCall DEF Complete, End
<1>7. /\ UNCHANGED <<holder, closed, raced, left>> /\ stranded \subseteq stranded' /\ torn' \subseteq Workspaces
      /\ usage' \in [Workspaces -> Row] /\ account' \in [Accounts -> Row] /\ stored' = stored /\ stored' \in Sized
  BY DEF Complete, ghosts, books, Sound, Shape
<1>8. s.finalizing \in {0, Size[u]} /\ s.bytes \in {0, Size[u]} /\ ~(s.finalizing > 0)
  BY <1>4
<1>9. \A x \in Workspaces, j \in Keys :
        x # proc[p].w \/ j # proc[p].key => stored'[x][j] = stored[x][j]
  BY <1>7
<1> QED
  BY <1>1, <1>4, <1>5, <1>6, <1>7, <1>8, <1>9, UploadGoesOn

LEMMA AbandonSound ==
  ASSUME Given, Sound, NEW p \in Procs, Abandon(p)
  PROVE  Sound'
<1> DEFINE u == proc[p].up
           f == session[u].finalizing
           givesBack == u \notin left.attaching /\ proc[p].seen # None
<1>1. proc[p].kind = "upload"
  BY Handlers DEF Abandon, At
<1>2. /\ u \in Uploads /\ proc[p].w \in Workspaces /\ session[u] \in Session /\ Size[u] \in Nat \ {0}
      /\ session[u].bytes \in {0, Size[u]} /\ f \in {0, Size[u]}
  BY <1>1, UploadSession
<1>3. PICK s : s = [session[u] EXCEPT !.op = FALSE, !.finalizing = IF givesBack THEN 0 ELSE f]
  OBVIOUS
<1>4. s \in Session /\ s.bytes = session[u].bytes /\ s.finalizing = IF givesBack THEN 0 ELSE f
  BY <1>2, <1>3 DEF Session
<1>5. session' = [session EXCEPT ![u] = s]
  BY <1>2, <1>3 DEF Abandon, Sound, Shape
<1>6. Idle \in Call /\ proc' = [proc EXCEPT ![p] = Idle] /\ Fits(Idle, stored', session')
  BY IdleIsCall DEF Abandon, End
<1>7. usage' \in [Workspaces -> Row] /\ account' \in [Accounts -> Row]
  <2>1. -f \in Int
    BY <1>2
  <2>2. Books(p, 0, -f) \/ UNCHANGED books
    BY DEF Abandon
  <2>3. CASE Books(p, 0, -f)
    <3>1. Shape
      BY DEF Sound
    <3> HIDE DEF Sound, u, f
    <3> QED
      BY <2>1, <2>3, <3>1, BooksTypes
  <2>4. CASE UNCHANGED books
    BY <2>4 DEF books, Sound, Shape
  <2> QED
    BY <2>2, <2>3, <2>4
<1>8. /\ UNCHANGED <<holder, closed, raced, left>> /\ stranded \subseteq stranded' /\ torn' \subseteq Workspaces
      /\ stored' = stored /\ stored' \in Sized
  BY DEF Abandon, Sound, Shape
<1>9. s.finalizing > 0 => u \in stranded'
  BY <1>4 DEF Abandon
<1>10. s.finalizing \in {0, Size[u]} /\ s.bytes \in {0, Size[u]}
  BY <1>2, <1>4
<1> QED
  BY <1>1, <1>4, <1>5, <1>6, <1>7, <1>8, <1>9, <1>10, UploadGoesOn

(* A hand-over keeps natural numbers. *)
LEMMA MovesTypes ==
  ASSUME Shape, NEW w \in Workspaces, NEW from, NEW to, Moves(w, from, to)
  PROVE  account' \in [Accounts -> Row]
<1>1. usage[w].kept \in Nat /\ usage[w].held \in Nat
  BY DEF Shape, Row
<1>2. \A r \in Row : Adds(r, usage[w].kept, usage[w].held) \in Row /\ Adds(r, -usage[w].kept, -usage[w].held) \in Row
  BY <1>1, NotBelow0IsNat DEF Adds, Row
<1> QED
  BY <1>2 DEF Moves, Shape

LEMMA ReholdSound ==
  ASSUME Given, Sound, NEW w \in Workspaces, NEW to \in Accounts \cup {None}, Rehold(w, to)
  PROVE  Sound'
<1>1. left' \in Situation /\ left'.uploads = left.uploads
  BY SpendLeaves DEF Rehold, Sound
<1>2. account' \in [Accounts -> Row]
  BY MovesTypes DEF Rehold, Sound
<1>3. \A u \in Uploads : SessionFits(u)'
  BY <1>1, SessionsStay DEF Rehold
<1> QED
  BY <1>1, <1>2, <1>3 DEF Rehold, Sound, Shape, CallsFit, CallsApart

LEMMA RefundSound ==
  ASSUME Given, Sound, NEW w \in Workspaces, Refund(w)
  PROVE  Sound'
<1>1. left' \in Situation /\ left'.uploads = left.uploads
  BY SpendLeaves DEF Refund, Sound
<1>2. account' \in [Accounts -> Row] /\ usage' \in [Workspaces -> Row]
  BY MovesTypes DEF Refund, Sound, Shape, Zero, Row
<1>3. \A u \in Uploads : SessionFits(u)'
  BY <1>1, SessionsStay DEF Refund
<1> QED
  BY <1>1, <1>2, <1>3 DEF Refund, Sound, Shape, CallsFit, CallsApart

LEMMA CrashSound ==
  ASSUME Given, Sound, Crash
  PROVE  Sound'
<1>1. left' \in Situation /\ left'.uploads = left.uploads
  BY SpendLeaves DEF Crash, Sound
<1>2. proc' \in [Procs -> Call] /\ CallsFit' /\ \A q \in Procs : proc'[q] = Idle
  BY IdleIsCall DEF Crash, CallsFit
<1>3. Idle.up = None /\ Idle.kind = "none"
  BY DEF Idle
<1>4. CallsApart'
  BY <1>2, <1>3 DEF CallsApart, Apart, Alone, Keyed
<1>5. \A u \in Uploads : SessionFits(u)'
  BY <1>1, <1>2, <1>3, SessionsStay DEF Crash
<1> QED
  BY <1>1, <1>2, <1>4, <1>5 DEF Crash, Sound, Shape, books

LEMMA SoundInit == ASSUME Given, Init PROVE Sound
<1>1. \A p \in Procs : proc[p] = Idle
  BY DEF Init
<1>2. Shape
  BY IdleIsCall, NoSessionIsOne DEF Init, Given, Shape, Situation, Zero, Row, Sized
<1>3. CallsFit
  BY <1>1, IdleIsCall DEF CallsFit
<1>4. Idle.up = None /\ Idle.kind = "none"
  BY DEF Idle
<1>5. CallsApart
  BY <1>1, <1>4 DEF CallsApart, Apart, Alone, Keyed
<1>6. ASSUME NEW u \in Uploads PROVE SessionFits(u)
  BY <1>1, <1>4, NoSessionIsOne DEF SessionFits, Init, Given
<1> QED
  BY <1>2, <1>3, <1>5, <1>6 DEF Sound

(* Every step keeps the calls and the sessions sound. *)
LEMMA SoundStep == ASSUME Given, Sound, [Next]_vars PROVE Sound'
<1>1. CASE UNCHANGED vars
  BY <1>1 DEF vars, Sound, Shape, CallsFit, CallsApart, SessionFits
<1>2. CASE \E p \in Procs : \/ ReadHolder(p) \/ ReserveUpload(p) \/ Reserve(p) \/ Put(p) \/ PutFails(p)
                           \/ Finish(p) \/ Undo(p) \/ TransactionFails(p) \/ Count(p) \/ Reconcile(p)
                           \/ BeginFinalize(p) \/ Settle(p) \/ Publish(p) \/ Complete(p) \/ Abandon(p)
  BY <1>2, ReadHolderSound, ReserveUploadSound, ReserveSound, PutSound, PutFailsSound, FinishSound, UndoSound,
     TransactionFailsSound, CountSound, ReconcileSound, BeginFinalizeSound, SettleSound, PublishSound,
     CompleteSound, AbandonSound
<1>3. CASE \E p \in Procs, u \in Uploads : Create(p, u) \/ Finalize(p, u)
  BY <1>3, CreateSound, FinalizeSound
<1>4. CASE \E p \in Procs, w \in Workspaces :
             \/ Scan(p, w)
             \/ \E k \in Keys : Remove(p, w, k) \/ \E n \in WriteSizes : Write(p, w, k, n)
  BY <1>4, ScanSound, RemoveSound, WriteSound
<1>5. CASE \E u \in Uploads : RunOut(u) \/ Touch(u) \/ PartLost(u) \/ Drop(u) \/ DeleteSession(u)
  BY <1>5, RunOutSound, TouchSound, PartLostSound, DropSound, DeleteSessionSound
<1>6. CASE \E w \in Workspaces : Refund(w) \/ \E a \in Accounts \cup {None} : Rehold(w, a)
  BY <1>6, RefundSound, ReholdSound
<1>7. CASE Crash
  BY <1>7, CrashSound
<1> QED
  BY <1>1, <1>2, <1>3, <1>4, <1>5, <1>6, <1>7 DEF Next

-----------------------------------------------------------------------------
(* Balanced: what is due at a path depends on the call that is at it. *)

LEMMA DueThere ==
  ASSUME NEW calls, NEW files, NEW w, NEW k \in Keys, NEW p \in Procs,
         \A q \in Procs \ {p} : ~LandedAt(calls[q], w, k) /\ ~HoldsAt(calls[q], w, k)
  PROVE  /\ Dues(calls, files, w)[k] = DueBy(calls[p], w, k, files[w][k])
         /\ Holds(calls, w)[k] = HoldBy(calls[p], w, k)
<1>1. Landed(calls, w, k) = IF LandedAt(calls[p], w, k) THEN {p} ELSE {}
  BY DEF Landed
<1>2. Holding(calls, w, k) = IF HoldsAt(calls[p], w, k) THEN {p} ELSE {}
  BY DEF Holding
<1>3. One({p}) = p
  BY OneOfIt
<1>4. Dues(calls, files, w)[k] = IF Landed(calls, w, k) = {} THEN files[w][k] ELSE calls[One(Landed(calls, w, k))].was
  BY DEF Dues
<1>5. Holds(calls, w)[k] = IF Holding(calls, w, k) = {} THEN 0 ELSE calls[One(Holding(calls, w, k))].held
  BY DEF Holds
<1> QED
  BY <1>1, <1>2, <1>3, <1>4, <1>5 DEF DueBy, HoldBy

(* A call that is not at a path, before or after, leaves what is due there. *)
LEMMA DueElsewhere ==
  ASSUME NEW calls, NEW calls2, NEW files, NEW files2, NEW w, NEW k \in Keys, files2[w][k] = files[w][k],
         \A q \in Procs : \/ calls2[q] = calls[q]
                         \/ /\ ~LandedAt(calls[q], w, k) /\ ~LandedAt(calls2[q], w, k)
                            /\ ~HoldsAt(calls[q], w, k) /\ ~HoldsAt(calls2[q], w, k)
  PROVE  /\ Dues(calls2, files2, w)[k] = Dues(calls, files, w)[k]
         /\ Holds(calls2, w)[k] = Holds(calls, w)[k]
<1>1. Landed(calls2, w, k) = Landed(calls, w, k)
  BY DEF Landed
<1>2. Landed(calls, w, k) # {} => calls2[One(Landed(calls, w, k))] = calls[One(Landed(calls, w, k))]
  <2>1. ASSUME Landed(calls, w, k) # {}
        PROVE  calls2[One(Landed(calls, w, k))] = calls[One(Landed(calls, w, k))]
    <3>1. One(Landed(calls, w, k)) \in Landed(calls, w, k)
      BY <2>1, OneOfIt
    <3> QED
      BY <3>1 DEF Landed
  <2> QED
    BY <2>1
<1>3. Holding(calls2, w, k) = Holding(calls, w, k)
  BY DEF Holding
<1>4. Holding(calls, w, k) # {} => calls2[One(Holding(calls, w, k))] = calls[One(Holding(calls, w, k))]
  <2>1. ASSUME Holding(calls, w, k) # {}
        PROVE  calls2[One(Holding(calls, w, k))] = calls[One(Holding(calls, w, k))]
    <3>1. One(Holding(calls, w, k)) \in Holding(calls, w, k)
      BY <2>1, OneOfIt
    <3> QED
      BY <3>1 DEF Holding
  <2> QED
    BY <2>1
<1> QED
  BY <1>1, <1>2, <1>3, <1>4 DEF Dues, Holds

(* What is due and held is natural. *)
LEMMA DuesAreNat ==
  ASSUME Given, NEW calls \in [Procs -> Call], NEW files \in Sized, NEW w \in Workspaces, NEW k \in Keys
  PROVE  Dues(calls, files, w)[k] \in Nat /\ Holds(calls, w)[k] \in Nat
<1>1. files[w][k] \in Nat /\ \A q \in Procs : calls[q].was \in Nat /\ calls[q].held \in Nat
  BY DEF Sized, Call
<1>2. Landed(calls, w, k) # {} => One(Landed(calls, w, k)) \in Procs
  BY OneOfIt DEF Landed
<1>3. Holding(calls, w, k) # {} => One(Holding(calls, w, k)) \in Procs
  BY OneOfIt DEF Holding
<1> QED
  BY <1>1, <1>2, <1>3 DEF Dues, Holds

(* The sums over all paths. *)
LEMMA DueSums ==
  ASSUME Given, NEW calls \in [Procs -> Call], NEW files \in Sized, NEW w \in Workspaces
  PROVE  /\ DueSum(calls, files, w) \in Nat /\ HoldSum(calls, w) \in Nat
         /\ \A k \in Keys : Dues(calls, files, w)[k] <= DueSum(calls, files, w) /\ Holds(calls, w)[k] <= HoldSum(calls, w)
<1> DEFINE d == Dues(calls, files, w)
           h == Holds(calls, w)
<1>1. \A k \in Keys : d[k] \in Nat /\ h[k] \in Nat
  BY DuesAreNat
<1> HIDE DEF d, h
<1>2. IsFiniteSet(Keys)
  BY DEF Given
<1>3. SumFunctionOnSet(d, Keys) \in Nat /\ SumFunctionOnSet(h, Keys) \in Nat
  BY <1>1, <1>2, SumIsNat
<1>4. ASSUME NEW k \in Keys
      PROVE  d[k] <= SumFunctionOnSet(d, Keys) /\ h[k] <= SumFunctionOnSet(h, Keys)
  BY <1>1, <1>2, SumChange
<1> QED
  BY <1>3, <1>4 DEF DueSum, HoldSum, d, h

(* When one path's call or file changes, the sums change by what is due there. *)
LEMMA SumsChange ==
  ASSUME Given, NEW calls \in [Procs -> Call], NEW files \in Sized, NEW calls2 \in [Procs -> Call],
         NEW files2 \in Sized, NEW w \in Workspaces, NEW k \in Keys,
         \A j \in Keys \ {k} : /\ Dues(calls2, files2, w)[j] = Dues(calls, files, w)[j]
                             /\ Holds(calls2, w)[j] = Holds(calls, w)[j]
  PROVE  /\ DueSum(calls2, files2, w) = DueSum(calls, files, w) - Dues(calls, files, w)[k] + Dues(calls2, files2, w)[k]
         /\ HoldSum(calls2, w) = HoldSum(calls, w) - Holds(calls, w)[k] + Holds(calls2, w)[k]
<1> DEFINE d == Dues(calls, files, w)
           h == Holds(calls, w)
           d2 == Dues(calls2, files2, w)
           h2 == Holds(calls2, w)
<1>1. \A j \in Keys : d[j] \in Nat /\ h[j] \in Nat /\ d2[j] \in Nat /\ h2[j] \in Nat
  BY DuesAreNat
<1>2. \A j \in Keys \ {k} : d2[j] = d[j] /\ h2[j] = h[j]
  OBVIOUS
<1>3. DueSum(calls2, files2, w) = SumFunctionOnSet(d2, Keys) /\ DueSum(calls, files, w) = SumFunctionOnSet(d, Keys)
      /\ HoldSum(calls2, w) = SumFunctionOnSet(h2, Keys) /\ HoldSum(calls, w) = SumFunctionOnSet(h, Keys)
  BY DEF DueSum, HoldSum
<1> HIDE DEF d, h, d2, h2
<1>4. IsFiniteSet(Keys)
  BY DEF Given
<1>5. SumFunctionOnSet(d2, Keys) = SumFunctionOnSet(d, Keys) - d[k] + d2[k]
  BY <1>1, <1>2, <1>4, SumChange
<1>6. SumFunctionOnSet(h2, Keys) = SumFunctionOnSet(h, Keys) - h[k] + h2[k]
  BY <1>1, <1>2, <1>4, SumChange
<1> QED
  BY <1>3, <1>5, <1>6 DEF d, h, d2, h2

(* And when none changes they stay. *)
LEMMA SumsStay ==
  ASSUME Given, NEW calls, NEW files, NEW calls2, NEW files2, NEW w,
         \A j \in Keys : /\ Dues(calls2, files2, w)[j] = Dues(calls, files, w)[j]
                       /\ Holds(calls2, w)[j] = Holds(calls, w)[j]
  PROVE  DueSum(calls2, files2, w) = DueSum(calls, files, w) /\ HoldSum(calls2, w) = HoldSum(calls, w)
<1>1. Dues(calls2, files2, w) = Dues(calls, files, w) /\ Holds(calls2, w) = Holds(calls, w)
  BY DEF Dues, Holds
<1> QED
  BY <1>1 DEF DueSum, HoldSum

(* A call that is apart from another is not at its path. *)
LEMMA NotThere ==
  ASSUME Given, NEW c, NEW d \in Call, NEW files, NEW sessions, Apart(c, d), Fits(d, files, sessions),
         c.kind \in Keyed, c.key \in Keys, c.w \in Workspaces
  PROVE  ~LandedAt(d, c.w, c.key) /\ ~HoldsAt(d, c.w, c.key)
<1>1. SUFFICES ASSUME d.w = c.w, d.key = c.key PROVE FALSE
  BY DEF LandedAt, HoldsAt
<1>2. c.key # None /\ c.w # None
  BY DEF Given
<1>3. d.kind = "none" => d.w = None
  BY DEF Fits, Idle
<1>4. d.kind \in {"create", "scan", "clear"} => d.key = None
  BY DEF Fits, Alone
<1>5. d.kind \in Keyed
  BY <1>1, <1>2, <1>3, <1>4 DEF Call, Alone
<1> QED
  BY <1>1, <1>5 DEF Apart

(* The bytes that uploads of a workspace hold change with one of them, or stay. *)
LEMMA FinalizingStays ==
  ASSUME Given, Sound, NEW w \in Workspaces,
         \A u \in Uploads : Home[u] = w => session'[u].finalizing = session[u].finalizing
  PROVE  Finalizing(w)' = Finalizing(w)
<1> DEFINE f == [u \in Uploads |-> session[u].finalizing]
           g == [u \in Uploads |-> session'[u].finalizing]
           S == {u \in Uploads : Home[u] = w}
<1>1. \A u \in S : g[u] = f[u]
  OBVIOUS
<1>2. IsFiniteSet(S)
  BY FS_Subset DEF Given
<1>3. SumFunctionOnSet(g, S) = SumFunctionOnSet(f, S)
  <2> HIDE DEF f, g, S
  <2> QED
    BY <1>1, <1>2, SumAgree
<1> QED
  BY <1>3 DEF Finalizing

LEMMA FinalizingChanges ==
  ASSUME Given, Sound, Sound', NEW w \in Workspaces, NEW u0 \in Uploads, Home[u0] = w,
         \A u \in Uploads \ {u0} : session'[u].finalizing = session[u].finalizing
  PROVE  /\ Finalizing(w)' = Finalizing(w) - session[u0].finalizing + session'[u0].finalizing
         /\ session[u0].finalizing <= Finalizing(w)
<1> DEFINE f == [u \in Uploads |-> session[u].finalizing]
           g == [u \in Uploads |-> session'[u].finalizing]
           S == {u \in Uploads : Home[u] = w}
<1>1. \A u \in S : f[u] \in Nat /\ g[u] \in Nat
  BY DEF Sound, Shape, Session
<1>2. \A u \in S \ {u0} : g[u] = f[u]
  OBVIOUS
<1>3. IsFiniteSet(S) /\ u0 \in S
  BY FS_Subset DEF Given
<1>4. f[u0] = session[u0].finalizing /\ g[u0] = session'[u0].finalizing
  OBVIOUS
<1>5. SumFunctionOnSet(g, S) = SumFunctionOnSet(f, S) - f[u0] + g[u0] /\ f[u0] <= SumFunctionOnSet(f, S)
  <2> HIDE DEF f, g, S
  <2> QED
    BY <1>1, <1>2, <1>3, SumChange
<1> QED
  BY <1>4, <1>5 DEF Finalizing

(* Another path of the workspace. *)
LEMMA OtherPath ==
  ASSUME NEW p \in Procs, NEW w, NEW k, NEW j \in Keys \ {k}, \A q \in Procs \ {p} : proc'[q] = proc[q],
         \A i \in Keys : i # k => stored'[w][i] = stored[w][i],
         /\ ~LandedAt(proc[p], w, j) /\ ~LandedAt(proc'[p], w, j)
         /\ ~HoldsAt(proc[p], w, j) /\ ~HoldsAt(proc'[p], w, j)
  PROVE  /\ Dues(proc', stored', w)[j] = Dues(proc, stored, w)[j]
         /\ Holds(proc', w)[j] = Holds(proc, w)[j]
BY DueElsewhere

(* A call at a path moves on, or ends: what is due in its workspace changes by what is due there. *)
LEMMA AtItsPath ==
  ASSUME Given, Sound, Sound', NEW p \in Procs, NEW w \in Workspaces, NEW k \in Keys,
         \A q \in Procs \ {p} : proc'[q] = proc[q],
         (proc[p].kind \in Keyed /\ proc[p].w = w /\ proc[p].key = k) \/ proc[p] = Idle,
         (proc'[p].kind \in Keyed /\ proc'[p].w = w /\ proc'[p].key = k) \/ proc'[p] = Idle,
         proc[p] # Idle \/ proc'[p] # Idle,
         \A j \in Keys : j # k => stored'[w][j] = stored[w][j]
  PROVE  /\ KeptDue(w)' = KeptDue(w) - DueBy(proc[p], w, k, stored[w][k]) + DueBy(proc'[p], w, k, stored'[w][k])
         /\ HoldSum(proc, w)' = HoldSum(proc, w) - HoldBy(proc[p], w, k) + HoldBy(proc'[p], w, k)
         /\ DueBy(proc[p], w, k, stored[w][k]) <= KeptDue(w) /\ HoldBy(proc[p], w, k) <= HoldSum(proc, w)
         /\ KeptDue(w) \in Nat /\ HoldSum(proc, w) \in Nat
         /\ DueBy(proc[p], w, k, stored[w][k]) \in Nat /\ DueBy(proc'[p], w, k, stored'[w][k]) \in Nat
         /\ HoldBy(proc[p], w, k) \in Nat /\ HoldBy(proc'[p], w, k) \in Nat
<1>0. PICK old, new, held, hold : /\ old = DueBy(proc[p], w, k, stored[w][k]) /\ new = DueBy(proc'[p], w, k, stored'[w][k])
                                  /\ held = HoldBy(proc[p], w, k) /\ hold = HoldBy(proc'[p], w, k)
  OBVIOUS
<1>1. proc \in [Procs -> Call] /\ proc' \in [Procs -> Call] /\ stored \in Sized /\ stored' \in Sized
  BY DEF Sound, Shape
<1>2. Idle.w = None /\ Idle.kind = "none" /\ None \notin Workspaces
  BY DEF Idle, Given
<1>3. ASSUME NEW q \in Procs \ {p}
      PROVE  ~LandedAt(proc[q], w, k) /\ ~HoldsAt(proc[q], w, k)
  <2>1. CASE proc[p] # Idle
    <3>1. Apart(proc[p], proc[q]) /\ Fits(proc[q], stored, session) /\ proc[q] \in Call
      BY DEF Sound, CallsApart, CallsFit, Shape
    <3> QED
      BY <2>1, <3>1, NotThere
  <2>2. CASE proc'[p] # Idle
    <3>1. Apart(proc'[p], proc'[q]) /\ Fits(proc'[q], stored', session') /\ proc'[q] \in Call
      BY DEF Sound, CallsApart, CallsFit, Shape
    <3>2. ~LandedAt(proc'[q], w, k) /\ ~HoldsAt(proc'[q], w, k)
      BY <2>2, <3>1, NotThere
    <3> QED
      BY <3>2
  <2> QED
    BY <2>1, <2>2
<1>4. Dues(proc, stored, w)[k] = old /\ Holds(proc, w)[k] = held
  BY <1>0, <1>3, DueThere
<1>5. Dues(proc', stored', w)[k] = new /\ Holds(proc', w)[k] = hold
  <2>1. \A q \in Procs \ {p} : ~LandedAt(proc'[q], w, k) /\ ~HoldsAt(proc'[q], w, k)
    BY <1>3
  <2> QED
    BY <1>0, <2>1, DueThere
<1>6. ASSUME NEW j \in Keys \ {k}
      PROVE  /\ Dues(proc', stored', w)[j] = Dues(proc, stored, w)[j]
             /\ Holds(proc', w)[j] = Holds(proc, w)[j]
  <2>1. /\ ~LandedAt(proc[p], w, j) /\ ~LandedAt(proc'[p], w, j)
        /\ ~HoldsAt(proc[p], w, j) /\ ~HoldsAt(proc'[p], w, j)
    BY <1>2 DEF LandedAt, HoldsAt
  <2> QED
    BY <2>1, OtherPath
<1>7. /\ DueSum(proc', stored', w) = DueSum(proc, stored, w) - old + new
      /\ HoldSum(proc', w) = HoldSum(proc, w) - held + hold
  BY <1>1, <1>4, <1>5, <1>6, SumsChange
<1>8. /\ DueSum(proc, stored, w) \in Nat /\ HoldSum(proc, w) \in Nat
      /\ old <= DueSum(proc, stored, w) /\ held <= HoldSum(proc, w)
  BY <1>1, <1>4, DueSums
<1>9. old \in Nat /\ new \in Nat /\ held \in Nat /\ hold \in Nat
  BY <1>1, <1>4, <1>5, DuesAreNat
<1> QED
  BY <1>0, <1>7, <1>8, <1>9 DEF KeptDue

(* Where no call at a path moves and no file changes, what is due stays. *)
LEMMA NothingDueChanges ==
  ASSUME Given, NEW w \in Workspaces, stored'[w] = stored[w],
         \A q \in Procs : \/ proc'[q] = proc[q]
                         \/ (proc[q].key \notin Keys /\ proc'[q].key \notin Keys)
                         \/ (proc[q].w # w /\ proc'[q].w # w)
  PROVE  KeptDue(w)' = KeptDue(w) /\ HoldSum(proc, w)' = HoldSum(proc, w)
<1>1. ASSUME NEW j \in Keys
      PROVE  /\ Dues(proc', stored', w)[j] = Dues(proc, stored, w)[j]
             /\ Holds(proc', w)[j] = Holds(proc, w)[j]
  <2>1. \A q \in Procs : \/ proc'[q] = proc[q]
                        \/ /\ ~LandedAt(proc[q], w, j) /\ ~LandedAt(proc'[q], w, j)
                           /\ ~HoldsAt(proc[q], w, j) /\ ~HoldsAt(proc'[q], w, j)
    BY DEF LandedAt, HoldsAt
  <2> QED
    BY <2>1, DueElsewhere
<1> QED
  BY <1>1, SumsStay DEF KeptDue

(* A workspace where nothing happens stays as it is. *)
LEMMA Elsewhere ==
  ASSUME Given, Sound, Sound', Balanced, ~raced, NEW x \in Workspaces,
         \A q \in Procs : proc[q].w = x \/ proc'[q].w = x => proc'[q] = proc[q],
         \A u \in Uploads : Home[u] = x => session'[u].finalizing = session[u].finalizing,
         stored'[x] = stored[x], usage'[x] = usage[x], x \in torn => x \in torn', x \in closed => x \in closed'
  PROVE  RowFits(x)' /\ Backed(x)' /\ \A q \in Procs : proc'[q].w = x => Counted(q)'
<1>1. RowFits(x) /\ Backed(x)
  BY DEF Balanced
<1>2. KeptDue(x)' = KeptDue(x) /\ HoldSum(proc, x)' = HoldSum(proc, x)
  BY NothingDueChanges
<1>3. Finalizing(x)' = Finalizing(x)
  BY FinalizingStays
<1>4. HeldDue(x)' = HeldDue(x)
  BY <1>2, <1>3 DEF HeldDue
<1>5. RowFits(x)'
  BY <1>1, <1>2, <1>4 DEF RowFits
<1>6. Active(x)' = Active(x) /\ \A q \in Active(x) : proc'[q] = proc[q]
  BY DEF Active
<1>7. Backed(x)'
  BY <1>1, <1>4, <1>6 DEF Backed, Exclusive
<1>8. Inventory(x)' = Inventory(x)
  BY DEF Inventory
<1>9. ASSUME NEW q \in Procs, proc'[q].w = x PROVE Counted(q)'
  <2>1. Counted(q) /\ proc'[q] = proc[q]
    BY <1>9 DEF Balanced
  <2> QED
    BY <1>6, <1>8, <1>9, <2>1 DEF Counted, At
<1> QED
  BY <1>5, <1>7, <1>9

(* One call acts in one workspace: the others need no look. *)
LEMMA OneActs ==
  ASSUME Given, Sound, Sound', Balanced, ~raced, NEW p \in Procs, NEW w \in Workspaces,
         \A q \in Procs \ {p} : proc'[q] = proc[q], proc[p].w \in {w, None}, proc'[p].w \in {w, None},
         \A u \in Uploads : Home[u] # w => session'[u].finalizing = session[u].finalizing,
         \A x \in Workspaces : x # w => /\ stored'[x] = stored[x] /\ usage'[x] = usage[x]
                                     /\ (x \in torn => x \in torn') /\ (x \in closed => x \in closed'),
         RowFits(w)', Backed(w)', \A q \in Procs : proc'[q].w = w => Counted(q)'
  PROVE  Balanced'
<1>1. ASSUME NEW x \in Workspaces, x # w
      PROVE  RowFits(x)' /\ Backed(x)' /\ \A q \in Procs : proc'[q].w = x => Counted(q)'
  <2>1. \A q \in Procs : proc[q].w = x \/ proc'[q].w = x => proc'[q] = proc[q]
    BY <1>1 DEF Given
  <2> QED
    BY <1>1, <2>1, Elsewhere
<1>2. ASSUME NEW q \in Procs PROVE Counted(q)'
  <2>1. CASE proc'[q].w \in Workspaces
    BY <1>1, <2>1
  <2>2. CASE proc'[q].w \notin Workspaces
    <3>1. Fits(proc'[q], stored', session')
      BY DEF Sound, CallsFit
    <3>2. proc'[q].kind = "none"
      BY <2>2, <3>1 DEF Fits
    <3>3. proc'[q] = Idle
      BY <3>1, <3>2 DEF Fits
    <3>4. proc'[q].pc = "idle"
      BY <3>3 DEF Idle
    <3> QED
      BY <3>4 DEF Counted, At
  <2> QED
    BY <2>1, <2>2
<1> QED
  BY <1>1, <1>2 DEF Balanced

(* While a call is under way in a workspace, no other has counted there. *)
LEMMA NoneCounts ==
  ASSUME Given, Sound, Balanced, ~raced, NEW p \in Procs, NEW w \in Workspaces,
         \A q \in Procs \ {p} : proc'[q] = proc[q],
         p \in Active(w) \/ ~Counting(w), ~At(p, "recount")'
  PROVE  \A q \in Procs : proc'[q].w = w => Counted(q)'
<1>1. SUFFICES ASSUME NEW q \in Procs \ {p}, proc[q].w = w, At(q, "recount") PROVE FALSE
  BY DEF Counted, At
<1>2. Active(w) = {q}
  BY <1>1 DEF Balanced, Counted
<1>3. q \in Active(w)
  BY <1>2
<1> QED
  BY <1>1, <1>2, <1>3 DEF Counting, At

(* A call at a path shares its workspace with no exclusive one. *)
LEMMA NoClear ==
  ASSUME Given, Sound, NEW p \in Procs, proc[p].kind \in Keyed, NEW q \in Procs, proc[q].w = proc[p].w
  PROVE  proc[q].kind \notin Alone
<1>1. p # q => Apart(proc[q], proc[p])
  BY DEF Sound, CallsApart
<1> QED
  BY <1>1 DEF Apart, Keyed, Alone

(* What is known of the rows while a call at a path is under way. *)
LEMMA RowsHere ==
  ASSUME Given, Sound, Balanced, ~raced, NEW p \in Procs, proc[p].kind \in Keyed, NEW w \in Workspaces, w = proc[p].w
  PROVE  /\ w \notin torn => usage[w].kept = KeptDue(w) /\ usage[w].held = HeldDue(w)
         /\ usage[w].held >= HeldDue(w) /\ p \in Active(w)
         /\ usage[w].kept \in Nat /\ usage[w].held \in Nat /\ Finalizing(w) \in Nat
<1>1. RowFits(w) /\ Backed(w)
  BY DEF Balanced
<1>2. p \in Active(w) /\ ~Exclusive(p)
  BY DEF Active, Keyed, Exclusive
<1>3. \A q \in Procs : proc[q].w = w => proc[q].kind # "clear"
  BY NoClear DEF Alone
<1>4. usage[w].kept \in Nat /\ usage[w].held \in Nat
  BY DEF Sound, Shape, Row
<1>5. Finalizing(w) \in Nat
  BY CountsAreNat DEF Sound
<1> QED
  BY <1>1, <1>2, <1>3, <1>4, <1>5 DEF RowFits, Backed

(* A call at a path acts: its row's sums are all there is to look at. *)
LEMMA KeyedActs ==
  ASSUME Given, Sound, Sound', Balanced, ~raced, NEW p \in Procs, NEW w \in Workspaces, NEW k \in Keys,
         \A q \in Procs \ {p} : proc'[q] = proc[q], proc[p].w \in {w, None}, proc'[p].w \in {w, None},
         p \in Active(w) \/ ~Counting(w), ~At(p, "recount")',
         \A x \in Workspaces, j \in Keys : x # w \/ j # k => stored'[x][j] = stored[x][j],
         \A u \in Uploads : Home[u] # w => session'[u].finalizing = session[u].finalizing,
         \A x \in Workspaces : x # w => /\ usage'[x] = usage[x]
                                     /\ (x \in torn => x \in torn') /\ (x \in closed => x \in closed'),
         w \notin torn' => usage'[w].kept = KeptDue(w)' /\ usage'[w].held = HeldDue(w)',
         usage'[w].held >= HeldDue(w)'
  PROVE  Balanced'
<1>1. RowFits(w)' /\ Backed(w)'
  BY DEF RowFits, Backed
<1>2. \A q \in Procs : proc'[q].w = w => Counted(q)'
  BY NoneCounts
<1>3. ASSUME NEW x \in Workspaces, x # w PROVE stored'[x] = stored[x]
  <2>1. stored'[x] \in [Keys -> Nat] /\ stored[x] \in [Keys -> Nat]
    BY DEF Sound, Shape, Sized
  <2>2. \A j \in Keys : stored'[x][j] = stored[x][j]
    BY <1>3
  <2> QED
    BY <2>1, <2>2
<1> QED
  BY <1>1, <1>2, <1>3, OneActs

LEMMA BooksHere ==
  ASSUME Shape, NEW p \in Procs, NEW kept, NEW held, Books(p, kept, held), NEW w \in Workspaces, w = proc[p].w
  PROVE  /\ usage'[w].kept = NotBelow0(usage[w].kept + kept) /\ usage'[w].held = NotBelow0(usage[w].held + held)
         /\ \A x \in Workspaces : x # w => usage'[x] = usage[x]
BY DEF Books, Adds, Shape

(* What uploads hold after a step is a natural number too. *)
LEMMA FinalizingIsNatNext ==
  ASSUME Given, Sound', NEW w \in Workspaces
  PROVE  Finalizing(w)' \in Nat
<1> DEFINE g == [u \in Uploads |-> session'[u].finalizing]
           S == {u \in Uploads : Home[u] = w}
<1>1. \A u \in S : g[u] \in Nat
  BY DEF Sound, Shape, Session
<1>2. IsFiniteSet(S)
  BY FS_Subset DEF Given
<1>3. SumFunctionOnSet(g, S) \in Nat
  <2> HIDE DEF g, S
  <2> QED
    BY <1>1, <1>2, SumIsNat
<1> QED
  BY <1>3 DEF Finalizing

(* A step leaves other paths and workspaces, and marks no row as counted. *)
OthersStay(w, k) ==
  /\ \A x \in Workspaces, j \in Keys : x # w \/ j # k => stored'[x][j] = stored[x][j]
  /\ \A u \in Uploads : Home[u] # w => session'[u].finalizing = session[u].finalizing
  /\ \A x \in Workspaces : x # w => usage'[x] = usage[x]
  /\ torn \subseteq torn' /\ closed \subseteq closed'

(* The row of a workspace follows what a call there, which becomes c, changes. *)
Follows(p, w, k, c) ==
  /\ w \notin torn' =>
       /\ usage'[w].kept = usage[w].kept - DueBy(proc[p], w, k, stored[w][k]) + DueBy(c, w, k, stored'[w][k])
       /\ usage'[w].held - Finalizing(w)' - HoldBy(c, w, k) = usage[w].held - Finalizing(w) - HoldBy(proc[p], w, k)
  /\ usage'[w].held - Finalizing(w)' - HoldBy(c, w, k) >= usage[w].held - Finalizing(w) - HoldBy(proc[p], w, k)

(* When it does, all rows are balanced after the step. *)
LEMMA CallAtPath ==
  ASSUME Given, Sound, Sound', Balanced, ~raced, NEW p \in Procs, proc[p].kind \in Keyed,
         NEW w \in Workspaces, w = proc[p].w, NEW k \in Keys, k = proc[p].key,
         NEW c \in Call, proc' = [proc EXCEPT ![p] = c], c = Idle \/ SameTask(c, proc[p]), c.pc # "recount",
         OthersStay(w, k), Follows(p, w, k, c)
  PROVE  Balanced'
<1>0. PICK old, new, held, hold : /\ old = DueBy(proc[p], w, k, stored[w][k]) /\ new = DueBy(c, w, k, stored'[w][k])
                                  /\ held = HoldBy(proc[p], w, k) /\ hold = HoldBy(c, w, k)
  OBVIOUS
<1>1. proc'[p] = c /\ \A q \in Procs \ {p} : proc'[q] = proc[q]
  BY DEF Sound, Shape
<1>2. (c.kind \in Keyed /\ c.w = w /\ c.key = k) \/ c = Idle
  BY DEF SameTask
<1>3. proc[p] # Idle
  BY DEF Idle, Keyed
<1>4. /\ KeptDue(w)' = KeptDue(w) - old + new /\ HoldSum(proc, w)' = HoldSum(proc, w) - held + hold
      /\ KeptDue(w) \in Nat /\ HoldSum(proc, w) \in Nat /\ old \in Nat /\ new \in Nat /\ held \in Nat /\ hold \in Nat
  <2>1. proc[p].kind \in Keyed /\ proc[p].w = w /\ proc[p].key = k
    OBVIOUS
  <2>2. (proc'[p].kind \in Keyed /\ proc'[p].w = w /\ proc'[p].key = k) \/ proc'[p] = Idle
    BY <1>1, <1>2
  <2>3. new = DueBy(proc'[p], w, k, stored'[w][k]) /\ hold = HoldBy(proc'[p], w, k)
    BY <1>0, <1>1
  <2>4. \A j \in Keys : j # k => stored'[w][j] = stored[w][j]
    BY DEF OthersStay
  <2>5. /\ KeptDue(w)' = KeptDue(w) - DueBy(proc[p], w, k, stored[w][k]) + DueBy(proc'[p], w, k, stored'[w][k])
        /\ HoldSum(proc, w)' = HoldSum(proc, w) - HoldBy(proc[p], w, k) + HoldBy(proc'[p], w, k)
        /\ KeptDue(w) \in Nat /\ HoldSum(proc, w) \in Nat
        /\ DueBy(proc[p], w, k, stored[w][k]) \in Nat /\ DueBy(proc'[p], w, k, stored'[w][k]) \in Nat
        /\ HoldBy(proc[p], w, k) \in Nat /\ HoldBy(proc'[p], w, k) \in Nat
    BY <1>1, <1>3, <2>1, <2>2, <2>4, AtItsPath
  <2> QED
    BY <1>0, <2>3, <2>5
<1>5. /\ w \notin torn => usage[w].kept = KeptDue(w) /\ usage[w].held = HeldDue(w)
      /\ usage[w].held >= HeldDue(w) /\ p \in Active(w)
      /\ usage[w].kept \in Nat /\ usage[w].held \in Nat /\ Finalizing(w) \in Nat
  BY RowsHere
<1>6. HeldDue(w) = HoldSum(proc, w) + Finalizing(w) /\ HeldDue(w)' = HoldSum(proc, w)' + Finalizing(w)'
  BY DEF HeldDue
<1>7. usage'[w].held \in Nat /\ Finalizing(w)' \in Nat
  <2>2. Finalizing(w)' \in Nat
    BY FinalizingIsNatNext
  <2> QED
    BY <2>2 DEF Sound, Shape, Row
<1>8. w \notin torn' => usage'[w].kept = KeptDue(w)' /\ usage'[w].held = HeldDue(w)'
  <2>1. SUFFICES ASSUME w \notin torn' PROVE usage'[w].kept = KeptDue(w)' /\ usage'[w].held = HeldDue(w)'
    OBVIOUS
  <2>2. /\ usage'[w].kept = usage[w].kept - old + new
        /\ usage'[w].held - Finalizing(w)' - hold = usage[w].held - Finalizing(w) - held
    BY <1>0, <2>1 DEF Follows
  <2>3. usage[w].kept = KeptDue(w) /\ usage[w].held = HeldDue(w)
    BY <1>5, <2>1 DEF OthersStay
  <2> QED
    BY <1>4, <1>5, <1>6, <1>7, <2>2, <2>3
<1>9. usage'[w].held >= HeldDue(w)'
  <2>1. usage'[w].held - Finalizing(w)' - hold >= usage[w].held - Finalizing(w) - held
    BY <1>0 DEF Follows
  <2> QED
    BY <1>4, <1>5, <1>6, <1>7, <2>1
<1>10. proc[p].w \in {w, None} /\ proc'[p].w \in {w, None}
  BY <1>1, <1>2 DEF Idle
<1>11. ~At(p, "recount")'
  BY <1>1 DEF At
<1>12. /\ \A x \in Workspaces, j \in Keys : x # w \/ j # k => stored'[x][j] = stored[x][j]
       /\ \A u \in Uploads : Home[u] # w => session'[u].finalizing = session[u].finalizing
       /\ \A x \in Workspaces : x # w => /\ usage'[x] = usage[x]
                                      /\ (x \in torn => x \in torn') /\ (x \in closed => x \in closed')
  BY DEF OthersStay
<1> QED
  BY <1>1, <1>5, <1>8, <1>9, <1>10, <1>11, <1>12, KeyedActs

(* Where a call is at its path, by its kind and its step. *)
LEMMA Places ==
  ASSUME Given, Sound, NEW p \in Procs, proc[p].kind \in Keyed, NEW n
  PROVE  /\ proc[p].w \in Workspaces /\ proc[p].key \in Keys /\ proc[p] \in Call
         /\ proc[p].size \in Nat /\ proc[p].was \in Nat /\ proc[p].held \in Nat
         /\ usage[proc[p].w].kept \in Nat /\ usage[proc[p].w].held \in Nat
         /\ DueBy(proc[p], proc[p].w, proc[p].key, n) =
              IF proc[p].pc \in {"finish", "settle", "inventory", "recount"} THEN proc[p].was ELSE n
         /\ HoldBy(proc[p], proc[p].w, proc[p].key) =
              IF proc[p].pc \in {"put", "finish", "undo", "inventory", "recount"} THEN proc[p].held ELSE 0
<1>1. Fits(proc[p], stored, session) /\ proc[p] \in Call
  BY DEF Sound, CallsFit, Shape
<1>2. proc[p].w \in Workspaces /\ proc[p].key \in Keys
  BY <1>1 DEF Fits, Keyed, Given
<1>3. proc[p].size \in Nat /\ proc[p].was \in Nat /\ proc[p].held \in Nat
  BY <1>1 DEF Call
<1>4. proc[p].kind # "write" => proc[p].held = 0
  BY <1>1, <1>3, NotBelow0IsNat DEF Fits, Keyed
<1>5. usage[proc[p].w].kept \in Nat /\ usage[proc[p].w].held \in Nat
  BY <1>2 DEF Sound, Shape, Row
<1> QED
  BY <1>1, <1>2, <1>3, <1>4, <1>5 DEF DueBy, HoldBy, LandedAt, HoldsAt

(* The same of the call after its step. *)
LEMMA PlacesAfter ==
  ASSUME Given, Sound, NEW p \in Procs, proc[p].kind \in Keyed, NEW c \in Call, c = Idle \/ SameTask(c, proc[p]), NEW n
  PROVE  /\ DueBy(c, proc[p].w, proc[p].key, n) =
              IF c.pc \in {"finish", "settle", "inventory", "recount"} THEN c.was ELSE n
         /\ HoldBy(c, proc[p].w, proc[p].key) =
              IF c.pc \in {"put", "finish", "undo", "inventory", "recount"} THEN proc[p].held ELSE 0
<1>1. proc[p].kind # "write" => proc[p].held = 0
  <2>1. Fits(proc[p], stored, session) /\ proc[p] \in Call
    BY DEF Sound, CallsFit, Shape
  <2> QED
    BY <2>1, NotBelow0IsNat DEF Fits, Keyed, Call
<1>2. CASE SameTask(c, proc[p])
  BY <1>1, <1>2 DEF SameTask, DueBy, HoldBy, LandedAt, HoldsAt
<1>3. CASE c = Idle
  <2>1. c.pc = "idle"
    BY <1>3 DEF Idle
  <2> QED
    BY <2>1 DEF DueBy, HoldBy, LandedAt, HoldsAt
<1> QED
  BY <1>2, <1>3

LEMMA ReserveBalances ==
  ASSUME Given, Sound, Sound', Balanced, ~raced, NEW p \in Procs, Reserve(p)
  PROVE  Balanced'
<1>1. PICK w, k : w = proc[p].w /\ k = proc[p].key
  OBVIOUS
<1>2. proc[p].kind \in Keyed /\ proc[p].pc = "reserve"
  BY Handlers DEF Reserve, At, Keyed
<1>3. /\ w \in Workspaces /\ k \in Keys /\ proc[p].held \in Nat /\ usage[w].kept \in Nat /\ usage[w].held \in Nat
      /\ DueBy(proc[p], w, k, stored[w][k]) = stored[w][k] /\ HoldBy(proc[p], w, k) = 0
      /\ stored[w][k] \in Nat /\ Finalizing(w) \in Nat
  BY <1>1, <1>2, Places, CountsAreNat DEF Sound, Shape, Sized
<1>4. /\ stored' = stored /\ session' = session /\ torn' = torn /\ closed' = closed
  BY DEF Reserve, ghosts
<1>5. Finalizing(w)' = Finalizing(w)
  BY <1>3, <1>4, FinalizingStays
<1>6. CASE Books(p, 0, proc[p].held) /\ To(p, "put")
  <2>1. PICK c \in Call : /\ proc' = [proc EXCEPT ![p] = c] /\ SameTask(c, proc[p])
                         /\ c.pc = "put" /\ c.was = proc[p].was
    BY <1>6, ToCall DEF Sound, Steps
  <2>2. DueBy(c, w, k, stored'[w][k]) = stored[w][k] /\ HoldBy(c, w, k) = proc[p].held
    BY <1>1, <1>2, <1>4, <2>1, PlacesAfter
  <2>3. /\ usage'[w].kept = usage[w].kept /\ usage'[w].held = usage[w].held + proc[p].held
        /\ \A x \in Workspaces : x # w => usage'[x] = usage[x]
    BY <1>1, <1>3, <1>6, BooksHere, NotBelow0IsNat DEF Sound
  <2>4. Follows(p, w, k, c)
    BY <1>3, <1>5, <2>2, <2>3 DEF Follows
  <2>5. OthersStay(w, k)
    BY <1>4, <2>3 DEF OthersStay
  <2> QED
    BY <1>1, <1>2, <1>3, <2>1, <2>4, <2>5, CallAtPath
<1>7. CASE End(p) /\ UNCHANGED books
  <2>1. Idle \in Call /\ Idle.pc = "idle" /\ proc' = [proc EXCEPT ![p] = Idle]
    BY <1>7, IdleIsCall DEF Idle, End
  <2>2. DueBy(Idle, w, k, stored'[w][k]) = stored[w][k] /\ HoldBy(Idle, w, k) = 0
    BY <1>1, <1>2, <1>4, <2>1, PlacesAfter
  <2>3. usage' = usage
    BY <1>7 DEF books
  <2>4. Follows(p, w, k, Idle)
    BY <1>3, <1>5, <2>2, <2>3 DEF Follows
  <2>5. OthersStay(w, k)
    BY <1>4, <2>3 DEF OthersStay
  <2> QED
    BY <1>1, <1>2, <1>3, <2>1, <2>4, <2>5, CallAtPath
<1> QED
  BY <1>6, <1>7 DEF Reserve

(* A call that ends with nothing landed, or is at a step where nothing is due for it any more. *)
LEMMA EndsAtPath ==
  ASSUME Given, Sound, Sound', Balanced, ~raced, NEW p \in Procs, proc[p].kind \in Keyed, End(p),
         NEW w, w = proc[p].w, NEW k, k = proc[p].key, OthersStay(w, k),
         w \notin torn' =>
           /\ usage'[w].kept = usage[w].kept - DueBy(proc[p], w, k, stored[w][k]) + stored'[w][k]
           /\ usage'[w].held - Finalizing(w)' = usage[w].held - Finalizing(w) - HoldBy(proc[p], w, k),
         usage'[w].held - Finalizing(w)' >= usage[w].held - Finalizing(w) - HoldBy(proc[p], w, k)
  PROVE  Balanced'
<1>1. Idle \in Call /\ Idle.pc = "idle" /\ proc' = [proc EXCEPT ![p] = Idle]
  BY IdleIsCall DEF Idle, End
<1>2. w \in Workspaces /\ k \in Keys
  BY Places
<1>3. DueBy(Idle, w, k, stored'[w][k]) = stored'[w][k] /\ HoldBy(Idle, w, k) = 0
  BY <1>1, PlacesAfter
<1>4. usage'[w].held \in Nat /\ Finalizing(w)' \in Nat
  BY <1>2, FinalizingIsNatNext DEF Sound, Shape, Row
<1>5. Follows(p, w, k, Idle)
  BY <1>3, <1>4 DEF Follows
<1> QED
  BY <1>1, <1>2, <1>5, CallAtPath

(* A call that goes on where it is charged for what it was. *)
LEMMA GoesOnAtPath ==
  ASSUME Given, Sound, Sound', Balanced, ~raced, NEW p \in Procs, proc[p].kind \in Keyed,
         NEW w, w = proc[p].w, NEW k, k = proc[p].key, OthersStay(w, k),
         NEW c \in Call, proc' = [proc EXCEPT ![p] = c], SameTask(c, proc[p]), c.pc # "recount",
         w \notin torn' => DueBy(c, w, k, stored'[w][k]) = DueBy(proc[p], w, k, stored[w][k]),
         HoldBy(c, w, k) = HoldBy(proc[p], w, k), usage' = usage, Finalizing(w)' = Finalizing(w)
  PROVE  Balanced'
<1>1. w \in Workspaces /\ k \in Keys /\ usage[w].kept \in Nat /\ usage[w].held \in Nat
  BY Places
<1>2. Finalizing(w) \in Nat /\ stored[w][k] \in Nat
  BY <1>1, CountsAreNat DEF Sound, Shape, Sized
<1>3. DueBy(proc[p], w, k, stored[w][k]) \in Nat /\ HoldBy(proc[p], w, k) \in Nat
  BY <1>2, Places
<1>4. Follows(p, w, k, c)
  BY <1>1, <1>2, <1>3 DEF Follows
<1> QED
  BY <1>1, <1>4, CallAtPath

(* Where a call is, and the numbers there. *)
LEMMA Numbers ==
  ASSUME Given, Sound, NEW p \in Procs, proc[p].kind \in Keyed, NEW w, w = proc[p].w, NEW k, k = proc[p].key
  PROVE  /\ w \in Workspaces /\ k \in Keys /\ usage[w].kept \in Nat /\ usage[w].held \in Nat
         /\ stored[w][k] \in Nat /\ Finalizing(w) \in Nat
         /\ proc[p].was \in Nat /\ proc[p].size \in Nat /\ proc[p].held \in Nat
<1>1. w \in Workspaces /\ k \in Keys
  BY Places
<1>2. Finalizing(w) \in Nat /\ stored[w][k] \in Nat
  BY <1>1, CountsAreNat DEF Sound, Shape, Sized
<1> QED
  BY <1>1, <1>2, Places

(* A call's own part is within the sums. *)
LEMMA HereSums ==
  ASSUME Given, Sound, NEW p \in Procs, proc[p].kind \in Keyed, NEW w, w = proc[p].w, NEW k, k = proc[p].key
  PROVE  /\ DueBy(proc[p], w, k, stored[w][k]) <= KeptDue(w) /\ HoldBy(proc[p], w, k) <= HoldSum(proc, w)
         /\ KeptDue(w) \in Nat /\ HoldSum(proc, w) \in Nat
<1>1. w \in Workspaces /\ k \in Keys
  BY Numbers
<1>2. proc \in [Procs -> Call] /\ stored \in Sized
  BY DEF Sound, Shape
<1>3. ASSUME NEW q \in Procs \ {p}
      PROVE  ~LandedAt(proc[q], w, k) /\ ~HoldsAt(proc[q], w, k)
  <2>1. Apart(proc[p], proc[q]) /\ Fits(proc[q], stored, session) /\ proc[q] \in Call
    BY <1>2 DEF Sound, CallsApart, CallsFit
  <2> QED
    BY <1>1, <2>1, NotThere
<1>4. Dues(proc, stored, w)[k] = DueBy(proc[p], w, k, stored[w][k]) /\ Holds(proc, w)[k] = HoldBy(proc[p], w, k)
  <2>1. PICK j \in Keys : j = k
    BY <1>1
  <2>2. \A q \in Procs \ {p} : ~LandedAt(proc[q], w, j) /\ ~HoldsAt(proc[q], w, j)
    BY <1>3, <2>1
  <2>3. Dues(proc, stored, w)[j] = DueBy(proc[p], w, j, stored[w][j]) /\ Holds(proc, w)[j] = HoldBy(proc[p], w, j)
    BY <2>2, DueThere
  <2> QED
    BY <2>1, <2>3
<1> QED
  BY <1>1, <1>2, <1>4, DueSums DEF KeptDue

LEMMA PutBalances ==
  ASSUME Given, Sound, Sound', Balanced, ~raced, NEW p \in Procs, Put(p)
  PROVE  Balanced'
<1>1. PICK w, k : w = proc[p].w /\ k = proc[p].key
  OBVIOUS
<1>2. proc[p].kind \in {"write", "remove"} /\ proc[p].kind \in Keyed /\ proc[p].pc = "put"
  BY Handlers DEF Put, At, Keyed
<1>3. w \in Workspaces /\ k \in Keys
  BY <1>1, <1>2, Numbers
<1>4. PICK c \in Call : /\ proc' = [proc EXCEPT ![p] = c] /\ SameTask(c, proc[p])
                       /\ c.pc = "finish" /\ c.was = proc[p].was
  BY ToCall DEF Sound, Put, Steps
<1>5. proc[p].was = stored[w][k]
  BY <1>1, <1>2 DEF Sound, CallsFit, Fits
<1>6. DueBy(c, w, k, stored'[w][k]) = DueBy(proc[p], w, k, stored[w][k]) /\ HoldBy(c, w, k) = HoldBy(proc[p], w, k)
  BY <1>1, <1>2, <1>4, <1>5, Places, PlacesAfter
<1>7. \A x \in Workspaces, j \in Keys : x # w \/ j # k => stored'[x][j] = stored[x][j]
  BY <1>1, <1>2, <1>3, Places, FileWritten DEF Put
<1>8. session' = session /\ usage' = usage /\ torn' = torn /\ closed' = closed
  BY DEF Put, books, ghosts
<1>9. OthersStay(w, k)
  BY <1>7, <1>8 DEF OthersStay
<1>10. Finalizing(w)' = Finalizing(w)
  BY <1>3, <1>8, FinalizingStays
<1> QED
  BY <1>1, <1>2, <1>4, <1>6, <1>8, <1>9, <1>10, GoesOnAtPath

LEMMA PutFailsBalances ==
  ASSUME Given, Sound, Sound', Balanced, ~raced, NEW p \in Procs, PutFails(p)
  PROVE  Balanced'
<1>1. PICK w, k : w = proc[p].w /\ k = proc[p].key
  OBVIOUS
<1>2. proc[p].kind \in Keyed /\ proc[p].pc = "put"
  BY Handlers DEF PutFails, At, Keyed
<1>3. /\ w \in Workspaces /\ k \in Keys /\ usage[w].kept \in Nat /\ usage[w].held \in Nat
      /\ stored[w][k] \in Nat /\ Finalizing(w) \in Nat
  BY <1>1, <1>2, Numbers
<1>4. /\ session' = session /\ usage' = usage /\ closed' = closed /\ torn \subseteq torn'
      /\ w \notin torn' => stored' = stored
  BY <1>1 DEF PutFails, books
<1>5. \A x \in Workspaces, j \in Keys : x # w \/ j # k => stored'[x][j] = stored[x][j]
  <2>1. CASE stored' = [stored EXCEPT ![proc[p].w][proc[p].key] = proc[p].size]
    BY <1>1, <1>2, <1>3, <2>1, Places, FileWritten
  <2> QED
    BY <2>1 DEF PutFails
<1>6. OthersStay(w, k)
  BY <1>4, <1>5 DEF OthersStay
<1>7. Finalizing(w)' = Finalizing(w)
  BY <1>3, <1>4, FinalizingStays
<1>8. CASE proc[p].kind = "write"
  <2>1. PICK c \in Call : /\ proc' = [proc EXCEPT ![p] = c] /\ SameTask(c, proc[p])
                         /\ c.pc = "undo" /\ c.was = proc[p].was
    BY <1>8, ToCall DEF Sound, PutFails, Steps
  <2>2. HoldBy(c, w, k) = HoldBy(proc[p], w, k)
    BY <1>1, <1>2, <2>1, Places, PlacesAfter
  <2>3. w \notin torn' => DueBy(c, w, k, stored'[w][k]) = DueBy(proc[p], w, k, stored[w][k])
    BY <1>1, <1>2, <1>4, <2>1, Places, PlacesAfter
  <2> QED
    BY <1>1, <1>2, <1>4, <1>6, <1>7, <2>1, <2>2, <2>3, GoesOnAtPath
<1>9. CASE proc[p].kind # "write"
  <2>1. End(p)
    BY <1>9 DEF PutFails
  <2>2. HoldBy(proc[p], w, k) = 0 /\ DueBy(proc[p], w, k, stored[w][k]) = stored[w][k]
    BY <1>1, <1>2, <1>9 DEF HoldBy, HoldsAt, DueBy, LandedAt
  <2> QED
    BY <1>1, <1>2, <1>3, <1>4, <1>6, <1>7, <2>1, <2>2, EndsAtPath
<1> QED
  BY <1>8, <1>9

LEMMA FinishBalances ==
  ASSUME Given, Sound, Sound', Balanced, ~raced, NEW p \in Procs, Finish(p)
  PROVE  Balanced'
<1>1. PICK w, k : w = proc[p].w /\ k = proc[p].key
  OBVIOUS
<1>2. proc[p].kind \in {"write", "remove"} /\ proc[p].kind \in Keyed /\ proc[p].pc = "finish"
  BY Handlers DEF Finish, At, Keyed
<1>3. /\ w \in Workspaces /\ k \in Keys /\ usage[w].kept \in Nat /\ usage[w].held \in Nat
      /\ stored[w][k] \in Nat /\ Finalizing(w) \in Nat
      /\ proc[p].was \in Nat /\ proc[p].size \in Nat /\ proc[p].held \in Nat
  BY <1>1, <1>2, Numbers
<1>4. /\ session' = session /\ stored' = stored /\ closed' = closed /\ torn = torn'
  BY DEF Finish, ghosts
<1>5. Finalizing(w)' = Finalizing(w)
  BY <1>3, <1>4, FinalizingStays
<1>6. proc[p].size = stored[w][k]
  BY <1>1, <1>2 DEF Sound, CallsFit, Fits
<1>7. DueBy(proc[p], w, k, stored[w][k]) = proc[p].was /\ HoldBy(proc[p], w, k) = proc[p].held
  BY <1>1, <1>2, Places
<1>8. CASE proc[p].seen = None
  <2>1. To(p, "inventory") /\ usage' = usage
    BY <1>8 DEF Finish, books
  <2>2. PICK c \in Call : /\ proc' = [proc EXCEPT ![p] = c] /\ SameTask(c, proc[p])
                         /\ c.pc = "inventory" /\ c.was = proc[p].was
    BY <2>1, ToCall DEF Sound, Steps
  <2>3. HoldBy(c, w, k) = HoldBy(proc[p], w, k) /\ DueBy(c, w, k, stored'[w][k]) = DueBy(proc[p], w, k, stored[w][k])
    BY <1>1, <1>2, <1>7, <2>2, PlacesAfter
  <2>4. OthersStay(w, k)
    BY <1>4, <2>1 DEF OthersStay
  <2> QED
    BY <1>1, <1>2, <1>5, <2>1, <2>2, <2>3, <2>4, GoesOnAtPath
<1>9. CASE proc[p].seen # None
  <2>1. Books(p, proc[p].size - proc[p].was, -proc[p].held) /\ End(p)
    BY <1>9 DEF Finish
  <2>2. /\ usage'[w].kept = NotBelow0(usage[w].kept + (proc[p].size - proc[p].was))
        /\ usage'[w].held = NotBelow0(usage[w].held + (-proc[p].held))
        /\ \A x \in Workspaces : x # w => usage'[x] = usage[x]
    BY <1>1, <1>3, <2>1, BooksHere DEF Sound
  <2>3. proc[p].was <= KeptDue(w) /\ proc[p].held <= HoldSum(proc, w) /\ HoldSum(proc, w) \in Nat /\ KeptDue(w) \in Nat
    BY <1>1, <1>2, <1>3, <1>7, HereSums
  <2>4. /\ w \notin torn => usage[w].kept = KeptDue(w) /\ usage[w].held = HeldDue(w)
        /\ usage[w].held >= HoldSum(proc, w) + Finalizing(w)
    BY <1>1, <1>2, <1>3, RowsHere DEF HeldDue
  <2>5. usage'[w].held = usage[w].held - proc[p].held
    <3>1. usage[w].held + (-proc[p].held) \in Int /\ usage[w].held + (-proc[p].held) >= 0
      BY <1>3, <2>3, <2>4
    <3> QED
      BY <1>3, <2>2, <3>1, NotBelow0IsNat
  <2>6. w \notin torn => usage'[w].kept = usage[w].kept - proc[p].was + stored[w][k]
    <3>1. SUFFICES ASSUME w \notin torn PROVE usage'[w].kept = usage[w].kept - proc[p].was + stored[w][k]
      OBVIOUS
    <3>2. usage[w].kept + (proc[p].size - proc[p].was) \in Int /\ usage[w].kept + (proc[p].size - proc[p].was) >= 0
      BY <1>3, <2>3, <2>4, <3>1
    <3> QED
      BY <1>3, <1>6, <2>2, <3>2, NotBelow0IsNat
  <2>7. OthersStay(w, k)
    BY <1>4, <2>2 DEF OthersStay
  <2>8. usage'[w].held - Finalizing(w)' = usage[w].held - Finalizing(w) - HoldBy(proc[p], w, k)
    BY <1>3, <1>5, <1>7, <2>5
  <2>9. usage'[w].held - Finalizing(w)' >= usage[w].held - Finalizing(w) - HoldBy(proc[p], w, k)
    BY <1>3, <1>5, <1>7, <2>5
  <2>10. w \notin torn' => usage'[w].kept = usage[w].kept - DueBy(proc[p], w, k, stored[w][k]) + stored'[w][k]
    BY <1>4, <1>7, <2>6
  <2> QED
    BY <1>1, <1>2, <2>1, <2>7, <2>8, <2>9, <2>10, EndsAtPath
<1> QED
  BY <1>8, <1>9

LEMMA UndoBalances ==
  ASSUME Given, Sound, Sound', Balanced, ~raced, NEW p \in Procs, Undo(p)
  PROVE  Balanced'
<1>1. PICK w, k : w = proc[p].w /\ k = proc[p].key
  OBVIOUS
<1>2. proc[p].kind = "write" /\ proc[p].kind \in Keyed /\ proc[p].pc = "undo"
  BY Handlers DEF Undo, At, Keyed
<1>3. /\ w \in Workspaces /\ k \in Keys /\ usage[w].kept \in Nat /\ usage[w].held \in Nat
      /\ stored[w][k] \in Nat /\ Finalizing(w) \in Nat /\ proc[p].held \in Nat
  BY <1>1, <1>2, Numbers
<1>4. /\ session' = session /\ stored' = stored /\ closed' = closed /\ torn \subseteq torn' /\ End(p)
  BY DEF Undo
<1>5. Finalizing(w)' = Finalizing(w)
  BY <1>3, <1>4, FinalizingStays
<1>6. DueBy(proc[p], w, k, stored[w][k]) = stored[w][k] /\ HoldBy(proc[p], w, k) = proc[p].held
  BY <1>1, <1>2, Places
<1>7. CASE proc[p].seen = None
  <2>1. usage' = usage /\ w \in torn'
    BY <1>1, <1>7 DEF Undo, books
  <2>2. OthersStay(w, k)
    BY <1>4, <2>1 DEF OthersStay
  <2> QED
    BY <1>1, <1>2, <1>3, <1>4, <1>5, <1>6, <2>1, <2>2, EndsAtPath
<1>8. CASE proc[p].seen # None
  <2>1. Books(p, 0, -proc[p].held)
    BY <1>8 DEF Undo
  <2>2. /\ usage'[w].kept = NotBelow0(usage[w].kept + 0)
        /\ usage'[w].held = NotBelow0(usage[w].held + (-proc[p].held))
        /\ \A x \in Workspaces : x # w => usage'[x] = usage[x]
    BY <1>1, <1>3, <2>1, BooksHere DEF Sound
  <2>3. proc[p].held <= HoldSum(proc, w) /\ HoldSum(proc, w) \in Nat
    BY <1>1, <1>2, <1>3, <1>6, HereSums
  <2>4. usage[w].held >= HoldSum(proc, w) + Finalizing(w)
    BY <1>1, <1>2, <1>3, RowsHere DEF HeldDue
  <2>5. usage'[w].held = usage[w].held - proc[p].held /\ usage'[w].kept = usage[w].kept
    <3>1. usage[w].held + (-proc[p].held) \in Int /\ usage[w].held + (-proc[p].held) >= 0
      BY <1>3, <2>3, <2>4
    <3> QED
      BY <1>3, <2>2, <3>1, NotBelow0IsNat
  <2>6. OthersStay(w, k)
    BY <1>4, <2>2 DEF OthersStay
  <2> QED
    BY <1>1, <1>2, <1>3, <1>4, <1>5, <1>6, <2>5, <2>6, EndsAtPath
<1> QED
  BY <1>7, <1>8

LEMMA BeginFinalizeBalances ==
  ASSUME Given, Sound, Sound', Balanced, ~raced, NEW p \in Procs, BeginFinalize(p)
  PROVE  Balanced'
<1>1. PICK w, k, u : w = proc[p].w /\ k = proc[p].key /\ u = proc[p].up
  OBVIOUS
<1>2. proc[p].kind = "upload" /\ proc[p].kind \in Keyed /\ proc[p].pc = "begin"
  BY Handlers DEF BeginFinalize, At, Keyed
<1>3. /\ w \in Workspaces /\ k \in Keys /\ usage[w].kept \in Nat /\ usage[w].held \in Nat
      /\ stored[w][k] \in Nat /\ Finalizing(w) \in Nat
  BY <1>1, <1>2, Numbers
<1>4. UNCHANGED <<stored, closed, torn>>
  BY DEF BeginFinalize
<1>5. /\ DueBy(proc[p], w, k, stored[w][k]) = stored[w][k] /\ HoldBy(proc[p], w, k) = 0
  BY <1>1, <1>2, Places DEF HoldBy, HoldsAt
<1>6. CASE End(p) /\ UNCHANGED <<books, session, over>>
  <2>1. usage' = usage /\ session' = session
    BY <1>6 DEF books
  <2>2. Finalizing(w)' = Finalizing(w)
    BY <1>3, <2>1, FinalizingStays
  <2>3. OthersStay(w, k)
    BY <1>4, <2>1 DEF OthersStay
  <2> QED
    BY <1>1, <1>2, <1>3, <1>4, <1>5, <1>6, <2>1, <2>2, <2>3, EndsAtPath
<1>7. CASE ~(End(p) /\ UNCHANGED <<books, session, over>>)
  <2>1. /\ proc' = [proc EXCEPT ![p] = [@ EXCEPT !.pc = "put", !.seen = Unread, !.was = stored[w][k]]]
        /\ IF session[u].finalizing > 0 THEN UNCHANGED <<books, session, over>>
           ELSE /\ session' = [session EXCEPT ![u] = [@ EXCEPT !.bytes = 0, !.finalizing = session[u].bytes]]
                /\ Books(p, 0, session[u].bytes)
    BY <1>1, <1>7 DEF BeginFinalize
  <2>2. PICK c : c = [proc[p] EXCEPT !.pc = "put", !.seen = Unread, !.was = stored[w][k]]
    OBVIOUS
  <2>3. proc[p] \in Call /\ proc' = [proc EXCEPT ![p] = c]
    BY <2>1, <2>2 DEF Sound, Shape
  <2>4. c \in Call /\ SameTask(c, proc[p]) /\ c.pc = "put"
    BY <1>3, <2>2, <2>3 DEF Call, Steps, SameTask
  <2>5. DueBy(c, w, k, stored'[w][k]) = stored[w][k] /\ HoldBy(c, w, k) = 0
    BY <1>1, <1>2, <1>4, <2>4, PlacesAfter DEF HoldBy, HoldsAt, SameTask
  <2>6. /\ u \in Uploads /\ w = Home[u] /\ session[u].bytes \in Nat /\ session[u].finalizing \in Nat
    BY <1>1, <1>2, UploadSession DEF Session
  <2>7. CASE session[u].finalizing > 0
    <3>1. usage' = usage /\ session' = session
      BY <2>1, <2>7 DEF books
    <3>2. Finalizing(w)' = Finalizing(w)
      BY <1>3, <3>1, FinalizingStays
    <3>3. OthersStay(w, k)
      BY <1>4, <3>1 DEF OthersStay
    <3> QED
      BY <1>1, <1>2, <1>5, <2>3, <2>4, <2>5, <3>1, <3>2, <3>3, GoesOnAtPath
  <2>8. CASE ~(session[u].finalizing > 0)
    <3>1. /\ session' = [session EXCEPT ![u] = [@ EXCEPT !.bytes = 0, !.finalizing = session[u].bytes]]
          /\ Books(p, 0, session[u].bytes)
      BY <2>1, <2>8
    <3>2. session'[u].finalizing = session[u].bytes /\ session[u].finalizing = 0
          /\ \A v \in Uploads \ {u} : session'[v].finalizing = session[v].finalizing
      BY <2>6, <2>8, <3>1 DEF Sound, Shape, Session
    <3>3. Finalizing(w)' = Finalizing(w) + session[u].bytes
      <4>1. Finalizing(w)' = Finalizing(w) - session[u].finalizing + session'[u].finalizing
        BY <1>3, <2>6, <3>2, FinalizingChanges
      <4> QED
        BY <1>3, <2>6, <3>2, <4>1
    <3>4. /\ usage'[w].kept = usage[w].kept /\ usage'[w].held = usage[w].held + session[u].bytes
          /\ \A x \in Workspaces : x # w => usage'[x] = usage[x]
      <4>1. /\ usage'[w].kept = NotBelow0(usage[w].kept + 0)
            /\ usage'[w].held = NotBelow0(usage[w].held + session[u].bytes)
            /\ \A x \in Workspaces : x # w => usage'[x] = usage[x]
        BY <1>1, <1>3, <3>1, BooksHere DEF Sound
      <4>2. usage[w].held + session[u].bytes \in Int /\ usage[w].held + session[u].bytes >= 0
        BY <1>3, <2>6
      <4> QED
        BY <1>3, <4>1, <4>2, NotBelow0IsNat
    <3>5. OthersStay(w, k)
      BY <1>4, <2>6, <3>2, <3>4 DEF OthersStay
    <3>6. Follows(p, w, k, c)
      BY <1>3, <1>4, <1>5, <2>5, <2>6, <3>3, <3>4 DEF Follows
    <3> QED
      BY <1>1, <1>2, <1>3, <2>3, <2>4, <3>5, <3>6, CallAtPath
  <2> QED
    BY <2>7, <2>8
<1> QED
  BY <1>6, <1>7

LEMMA PublishBalances ==
  ASSUME Given, Sound, Sound', Balanced, ~raced, NEW p \in Procs, Publish(p)
  PROVE  Balanced'
<1>1. PICK w, k, u : w = proc[p].w /\ k = proc[p].key /\ u = proc[p].up
  OBVIOUS
<1>2. proc[p].kind = "upload" /\ proc[p].kind \in Keyed /\ proc[p].pc = "put"
  BY DEF Publish, At, Keyed
<1>3. /\ w \in Workspaces /\ k \in Keys /\ stored[w][k] \in Nat
  BY <1>1, <1>2, Numbers
<1>4. UNCHANGED <<usage, closed, torn>>
  BY DEF Publish, books, ghosts
<1>5. /\ DueBy(proc[p], w, k, stored[w][k]) = stored[w][k] /\ HoldBy(proc[p], w, k) = 0
  BY <1>1, <1>2, Places DEF HoldBy, HoldsAt
<1>6. proc[p].was = stored[w][k] /\ u \in Uploads
  BY <1>1, <1>2 DEF Sound, CallsFit, Fits
<1>7. /\ \A x \in Workspaces, j \in Keys : x # w \/ j # k => stored'[x][j] = stored[x][j]
      /\ \A v \in Uploads : session'[v].finalizing = session[v].finalizing
      /\ \/ To(p, "settle")
         \/ To(p, "abandon") /\ stored' = stored
  <2>1. CASE /\ stored' = [stored EXCEPT ![proc[p].w][proc[p].key] = proc[p].size]
             /\ session' = [session EXCEPT ![u].part = FALSE]
             /\ To(p, "settle")
    <3>1. \A x \in Workspaces, j \in Keys : x # w \/ j # k => stored'[x][j] = stored[x][j]
      BY <1>1, <1>2, <1>3, <2>1, Places, FileWritten
    <3>2. \A v \in Uploads : session'[v].finalizing = session[v].finalizing
      BY <2>1 DEF Sound, Shape, Session
    <3> QED
      BY <2>1, <3>1, <3>2
  <2>2. CASE To(p, "abandon") /\ UNCHANGED <<stored, session>>
    BY <2>2
  <2> QED
    BY <1>1, <2>1, <2>2 DEF Publish
<1>8. Finalizing(w)' = Finalizing(w) /\ OthersStay(w, k)
  BY <1>3, <1>4, <1>7, FinalizingStays DEF OthersStay
<1>9. PICK c \in Call : /\ proc' = [proc EXCEPT ![p] = c] /\ SameTask(c, proc[p]) /\ c.was = proc[p].was
                       /\ (c.pc = "settle" \/ (c.pc = "abandon" /\ stored' = stored))
  BY <1>7, ToCall DEF Sound, Steps
<1>10. DueBy(c, w, k, stored'[w][k]) = stored[w][k] /\ HoldBy(c, w, k) = 0
  BY <1>1, <1>2, <1>6, <1>9, PlacesAfter DEF HoldBy, HoldsAt, SameTask
<1>11. c.pc # "recount"
  BY <1>9
<1> QED
  BY <1>1, <1>2, <1>4, <1>5, <1>8, <1>9, <1>10, <1>11, GoesOnAtPath

LEMMA SettleBalances ==
  ASSUME Given, Sound, Sound', Balanced, ~raced, NEW p \in Procs, Settle(p)
  PROVE  Balanced'
<1>1. PICK w, k, u : w = proc[p].w /\ k = proc[p].key /\ u = proc[p].up
  OBVIOUS
<1>2. proc[p].kind = "upload" /\ proc[p].kind \in Keyed /\ proc[p].pc = "settle"
  BY Handlers DEF Settle, At, Keyed
<1>3. /\ w \in Workspaces /\ k \in Keys /\ usage[w].kept \in Nat /\ usage[w].held \in Nat
      /\ stored[w][k] \in Nat /\ Finalizing(w) \in Nat /\ proc[p].was \in Nat /\ proc[p].size \in Nat
  BY <1>1, <1>2, Numbers
<1>4. UNCHANGED <<stored, closed>>
  BY DEF Settle
<1>5. DueBy(proc[p], w, k, stored[w][k]) = proc[p].was /\ HoldBy(proc[p], w, k) = 0
  BY <1>1, <1>2, Places DEF HoldBy, HoldsAt
<1>6. proc[p].size = stored[w][k] /\ u \in Uploads /\ w = Home[u] /\ session[u].finalizing \in Nat
  BY <1>1, <1>2, UploadSession DEF Sound, CallsFit, Fits, Session
<1>7. CASE proc[p].seen = None
  <2>1. To(p, "inventory") /\ usage' = usage /\ session' = session /\ torn' = torn
    BY <1>7 DEF Settle, books
  <2>2. PICK c \in Call : /\ proc' = [proc EXCEPT ![p] = c] /\ SameTask(c, proc[p])
                         /\ c.pc = "inventory" /\ c.was = proc[p].was
    BY <2>1, ToCall DEF Sound, Steps
  <2>3. HoldBy(c, w, k) = 0 /\ DueBy(c, w, k, stored'[w][k]) = proc[p].was
    BY <1>1, <1>2, <2>2, PlacesAfter DEF HoldBy, HoldsAt, SameTask
  <2>4. OthersStay(w, k)
    BY <1>4, <2>1 DEF OthersStay
  <2>5. Finalizing(w)' = Finalizing(w)
    BY <1>3, <2>1, FinalizingStays
  <2> QED
    BY <1>1, <1>2, <1>5, <2>1, <2>2, <2>3, <2>4, <2>5, GoesOnAtPath
<1>8. CASE proc[p].seen # None
  <2>1. /\ Settled(p, proc[p].size - proc[p].was) /\ To(p, "complete")
        /\ torn' = IF session[u].finalizing = 0 THEN torn \cup {w} ELSE torn
    BY <1>1, <1>8 DEF Settle
  <2>2. PICK c \in Call : /\ proc' = [proc EXCEPT ![p] = c] /\ SameTask(c, proc[p])
                         /\ c.pc = "complete" /\ c.was = proc[p].was
    BY <2>1, ToCall DEF Sound, Steps
  <2>3. HoldBy(c, w, k) = 0 /\ DueBy(c, w, k, stored'[w][k]) = stored[w][k]
    BY <1>1, <1>2, <1>4, <2>2, PlacesAfter DEF HoldBy, HoldsAt, SameTask
  <2>4. session' = [session EXCEPT ![u] = [@ EXCEPT !.finalizing = 0]]
    BY <1>1, <1>8, <2>1 DEF Settled
  <2>5. session'[u].finalizing = 0 /\ \A v \in Uploads \ {u} : session'[v].finalizing = session[v].finalizing
    BY <1>6, <2>4 DEF Sound, Shape, Session
  <2>6. Finalizing(w)' = Finalizing(w) - session[u].finalizing + 0 /\ session[u].finalizing <= Finalizing(w)
    BY <1>3, <1>6, <2>5, FinalizingChanges
  <2>7. Finalizing(w)' = Finalizing(w) - session[u].finalizing
    BY <1>3, <1>6, <2>6
  <2>8. proc[p].was <= KeptDue(w) /\ HoldSum(proc, w) \in Nat /\ KeptDue(w) \in Nat
    BY <1>1, <1>2, <1>3, <1>5, HereSums
  <2>9. /\ w \notin torn => usage[w].kept = KeptDue(w)
        /\ usage[w].held >= HoldSum(proc, w) + Finalizing(w)
    BY <1>1, <1>2, <1>3, RowsHere DEF HeldDue
  <2>10. CASE session[u].finalizing = 0
    <3>1. usage' = usage /\ w \in torn' /\ torn \subseteq torn'
      BY <1>1, <2>1, <2>10 DEF Settled, books
    <3>2. Follows(p, w, k, c)
      BY <1>3, <1>5, <2>3, <2>7, <2>10, <3>1 DEF Follows
    <3>3. OthersStay(w, k)
      BY <1>4, <1>6, <2>5, <3>1 DEF OthersStay
    <3> QED
      BY <1>1, <1>2, <1>3, <2>2, <3>2, <3>3, CallAtPath
  <2>11. CASE session[u].finalizing # 0
    <3>1. Books(p, proc[p].size - proc[p].was, -session[u].finalizing) /\ torn' = torn
      BY <1>1, <1>8, <2>1, <2>11 DEF Settled
    <3>2. /\ usage'[w].kept = NotBelow0(usage[w].kept + (proc[p].size - proc[p].was))
          /\ usage'[w].held = NotBelow0(usage[w].held + (-session[u].finalizing))
          /\ \A x \in Workspaces : x # w => usage'[x] = usage[x]
      BY <1>1, <1>3, <3>1, BooksHere DEF Sound
    <3>3. usage'[w].held = usage[w].held - session[u].finalizing
      <4>1. usage[w].held + (-session[u].finalizing) \in Int /\ usage[w].held + (-session[u].finalizing) >= 0
        BY <1>3, <1>6, <2>6, <2>8, <2>9
      <4> QED
        BY <1>3, <1>6, <3>2, <4>1, NotBelow0IsNat
    <3>4. w \notin torn => usage'[w].kept = usage[w].kept - proc[p].was + stored[w][k]
      <4>1. SUFFICES ASSUME w \notin torn PROVE usage'[w].kept = usage[w].kept - proc[p].was + stored[w][k]
        OBVIOUS
      <4>2. usage[w].kept + (proc[p].size - proc[p].was) \in Int /\ usage[w].kept + (proc[p].size - proc[p].was) >= 0
        BY <1>3, <2>8, <2>9, <4>1
      <4> QED
        BY <1>3, <1>6, <3>2, <4>2, NotBelow0IsNat
    <3>5. Follows(p, w, k, c)
      BY <1>3, <1>5, <1>6, <2>3, <2>7, <3>1, <3>3, <3>4 DEF Follows
    <3>6. OthersStay(w, k)
      BY <1>4, <1>6, <2>5, <3>1, <3>2 DEF OthersStay
    <3> QED
      BY <1>1, <1>2, <1>3, <2>2, <3>5, <3>6, CallAtPath
  <2> QED
    BY <2>10, <2>11
<1> QED
  BY <1>7, <1>8

LEMMA CompleteBalances ==
  ASSUME Given, Sound, Sound', Balanced, ~raced, NEW p \in Procs, Complete(p)
  PROVE  Balanced'
<1>1. PICK w, k : w = proc[p].w /\ k = proc[p].key
  OBVIOUS
<1>2. proc[p].kind = "upload" /\ proc[p].kind \in Keyed /\ proc[p].pc = "complete"
  BY Handlers DEF Complete, At, Keyed
<1>3. /\ w \in Workspaces /\ k \in Keys /\ usage[w].kept \in Nat /\ usage[w].held \in Nat
      /\ stored[w][k] \in Nat /\ Finalizing(w) \in Nat
  BY <1>1, <1>2, Numbers
<1>4. UNCHANGED <<usage, stored, closed, torn>> /\ End(p)
  BY DEF Complete, books, ghosts
<1>5. DueBy(proc[p], w, k, stored[w][k]) = stored[w][k] /\ HoldBy(proc[p], w, k) = 0
  BY <1>1, <1>2, Places DEF HoldBy, HoldsAt
<1>6. \A v \in Uploads : session'[v].finalizing = session[v].finalizing
  BY DEF Complete, NoSession, Sound, Shape, Session
<1>7. Finalizing(w)' = Finalizing(w) /\ OthersStay(w, k)
  BY <1>3, <1>4, <1>6, FinalizingStays DEF OthersStay
<1> QED
  BY <1>1, <1>2, <1>3, <1>4, <1>5, <1>7, EndsAtPath

LEMMA AbandonBalances ==
  ASSUME Given, Sound, Sound', Balanced, ~raced, NEW p \in Procs, Abandon(p)
  PROVE  Balanced'
<1>1. PICK w, k, u : w = proc[p].w /\ k = proc[p].key /\ u = proc[p].up
  OBVIOUS
<1>2. proc[p].kind = "upload" /\ proc[p].kind \in Keyed /\ proc[p].pc = "abandon"
  BY Handlers DEF Abandon, At, Keyed
<1>3. /\ w \in Workspaces /\ k \in Keys /\ usage[w].kept \in Nat /\ usage[w].held \in Nat
      /\ stored[w][k] \in Nat /\ Finalizing(w) \in Nat
  BY <1>1, <1>2, Numbers
<1>4. UNCHANGED <<stored, closed, torn>> /\ End(p)
  BY DEF Abandon
<1>5. DueBy(proc[p], w, k, stored[w][k]) = stored[w][k] /\ HoldBy(proc[p], w, k) = 0
  BY <1>1, <1>2, Places DEF HoldBy, HoldsAt
<1>6. u \in Uploads /\ w = Home[u] /\ session[u].finalizing \in Nat
  BY <1>1, <1>2, UploadSession DEF Session
<1>7. PICK f : f = session[u].finalizing
  OBVIOUS
<1>8. PICK givesBack : givesBack = (u \notin left.attaching /\ proc[p].seen # None)
  OBVIOUS
<1>9. /\ IF givesBack /\ f > 0 THEN Books(p, 0, -f) ELSE UNCHANGED books
      /\ session' = [session EXCEPT ![u] = [@ EXCEPT !.op = FALSE, !.finalizing = IF givesBack THEN 0 ELSE f]]
  BY <1>1, <1>7, <1>8 DEF Abandon
<1>10. /\ session'[u].finalizing = IF givesBack THEN 0 ELSE f
       /\ \A v \in Uploads \ {u} : session'[v].finalizing = session[v].finalizing
  BY <1>6, <1>9 DEF Sound, Shape, Session
<1>11. Finalizing(w)' = Finalizing(w) - f + session'[u].finalizing /\ f <= Finalizing(w)
  BY <1>3, <1>6, <1>7, <1>10, FinalizingChanges
<1>12. HoldSum(proc, w) \in Nat /\ usage[w].held >= HoldSum(proc, w) + Finalizing(w)
  BY <1>1, <1>2, <1>3, HereSums, RowsHere DEF HeldDue
<1>13. CASE givesBack /\ f > 0
  <2>1. /\ usage'[w].kept = NotBelow0(usage[w].kept + 0)
        /\ usage'[w].held = NotBelow0(usage[w].held + (-f))
        /\ \A x \in Workspaces : x # w => usage'[x] = usage[x]
    BY <1>1, <1>3, <1>9, <1>13, BooksHere DEF Sound
  <2>2. usage'[w].held = usage[w].held - f /\ usage'[w].kept = usage[w].kept
    <3>1. usage[w].held + (-f) \in Int /\ usage[w].held + (-f) >= 0
      BY <1>3, <1>6, <1>7, <1>11, <1>12
    <3> QED
      BY <1>3, <1>6, <1>7, <2>1, <3>1, NotBelow0IsNat
  <2>3. OthersStay(w, k)
    BY <1>4, <1>6, <1>10, <2>1 DEF OthersStay
  <2>4. Finalizing(w)' = Finalizing(w) - f
    BY <1>3, <1>6, <1>7, <1>10, <1>11, <1>13
  <2>5. usage'[w].held - Finalizing(w)' = usage[w].held - Finalizing(w) - HoldBy(proc[p], w, k)
    BY <1>3, <1>5, <1>6, <1>7, <2>2, <2>4
  <2>6. usage'[w].held - Finalizing(w)' >= usage[w].held - Finalizing(w) - HoldBy(proc[p], w, k)
    BY <1>3, <1>5, <1>6, <1>7, <2>2, <2>4
  <2>7. usage'[w].kept = usage[w].kept - DueBy(proc[p], w, k, stored[w][k]) + stored'[w][k]
    BY <1>3, <1>4, <1>5, <2>2
  <2> QED
    BY <1>1, <1>2, <1>3, <1>4, <2>3, <2>5, <2>6, <2>7, EndsAtPath
<1>14. CASE ~(givesBack /\ f > 0)
  <2>1. usage' = usage /\ session'[u].finalizing = f
    BY <1>6, <1>7, <1>9, <1>10, <1>14 DEF books
  <2>2. OthersStay(w, k)
    BY <1>4, <1>6, <1>10, <2>1 DEF OthersStay
  <2>3. Finalizing(w)' = Finalizing(w)
    BY <1>3, <1>6, <1>7, <1>11, <2>1
  <2> QED
    BY <1>1, <1>2, <1>3, <1>4, <1>5, <2>1, <2>2, <2>3, EndsAtPath
<1> QED
  BY <1>13, <1>14

(* Calls that stay where they are leave what is due. *)
LEMMA DuesStay ==
  ASSUME NEW w \in Workspaces, stored'[w] = stored[w],
         \A q \in Procs, k \in Keys :
           /\ LandedAt(proc'[q], w, k) <=> LandedAt(proc[q], w, k)
           /\ HoldsAt(proc'[q], w, k) <=> HoldsAt(proc[q], w, k)
           /\ LandedAt(proc[q], w, k) => proc'[q].was = proc[q].was
           /\ HoldsAt(proc[q], w, k) => proc'[q].held = proc[q].held
  PROVE  KeptDue(w)' = KeptDue(w) /\ HoldSum(proc, w)' = HoldSum(proc, w)
<1>1. ASSUME NEW k \in Keys
      PROVE  /\ Landed(proc', w, k) = Landed(proc, w, k) /\ Holding(proc', w, k) = Holding(proc, w, k)
             /\ Landed(proc, w, k) # {} => proc'[One(Landed(proc, w, k))].was = proc[One(Landed(proc, w, k))].was
             /\ Holding(proc, w, k) # {} => proc'[One(Holding(proc, w, k))].held = proc[One(Holding(proc, w, k))].held
  <2>1. Landed(proc', w, k) = Landed(proc, w, k) /\ Holding(proc', w, k) = Holding(proc, w, k)
    BY DEF Landed, Holding
  <2>2. Landed(proc, w, k) # {} => One(Landed(proc, w, k)) \in Landed(proc, w, k)
    BY OneOfIt
  <2>3. Holding(proc, w, k) # {} => One(Holding(proc, w, k)) \in Holding(proc, w, k)
    BY OneOfIt
  <2>4. Landed(proc, w, k) # {} => proc'[One(Landed(proc, w, k))].was = proc[One(Landed(proc, w, k))].was
    BY <2>2 DEF Landed
  <2>5. Holding(proc, w, k) # {} => proc'[One(Holding(proc, w, k))].held = proc[One(Holding(proc, w, k))].held
    BY <2>3 DEF Holding
  <2> QED
    BY <2>1, <2>4, <2>5
<1>2. Dues(proc', stored', w) = Dues(proc, stored, w) /\ Holds(proc', w) = Holds(proc, w)
  BY <1>1 DEF Dues, Holds
<1> QED
  BY <1>2 DEF KeptDue, DueSum, HoldSum

(* Where no call is at a path, the files are what is due, and nothing is held. *)
LEMMA NoCallsDue ==
  ASSUME Given, NEW calls, NEW files \in Sized, NEW w \in Workspaces,
         \A q \in Procs : calls[q].w = w => calls[q].key \notin Keys
  PROVE  DueSum(calls, files, w) = SumFunctionOnSet(files[w], Keys) /\ HoldSum(calls, w) = 0
<1>1. \A k \in Keys : Landed(calls, w, k) = {} /\ Holding(calls, w, k) = {}
  BY DEF Landed, Holding, LandedAt, HoldsAt
<1>2. files[w] \in [Keys -> Nat]
  BY DEF Sized
<1>3. Dues(calls, files, w) = [k \in Keys |-> files[w][k]]
  BY <1>1 DEF Dues
<1>4. Dues(calls, files, w) = files[w]
  BY <1>2, <1>3
<1>5. \A k \in Keys : Holds(calls, w)[k] = 0
  BY <1>1 DEF Holds
<1>6. SumFunctionOnSet(Holds(calls, w), Keys) = 0
  <2>1. PICK h : h = Holds(calls, w)
    OBVIOUS
  <2> QED
    BY <1>5, <2>1, SumOfZeros DEF Given
<1> QED
  BY <1>4, <1>6 DEF DueSum, HoldSum

(* Only calls that are no call on the store are at no path in a workspace where none is active. *)
LEMMA NoneActive ==
  ASSUME Given, Sound, NEW w \in Workspaces, NEW S, Active(w) \subseteq S
  PROVE  /\ \A q \in Procs : proc[q].w = w /\ q \notin S => proc[q].kind = "create" /\ proc[q].key = None
                                                        /\ proc[q].pc = "reserve_upload"
         /\ None \notin Keys
<1>1. SUFFICES ASSUME NEW q \in Procs, proc[q].w = w, q \notin S
               PROVE  proc[q].kind = "create" /\ proc[q].key = None /\ proc[q].pc = "reserve_upload"
  BY DEF Given
<1>2. Fits(proc[q], stored, session) /\ proc[q].kind = "create"
  BY <1>1 DEF Active, Sound, CallsFit
<1> QED
  BY <1>2 DEF Fits

(* A call on the store is the same after a step; others come and go. *)
Quiet(q) ==
  \/ /\ SameTask(proc'[q], proc[q]) /\ proc'[q].pc = proc[q].pc /\ proc'[q].was = proc[q].was
     /\ proc'[q].count = proc[q].count
  \/ proc[q].kind \in {"none", "create"} /\ proc'[q].kind \in {"none", "create"}

(* What uploads hold there stays, or is less while the row is off. *)
Lets(w) == Finalizing(w)' <= Finalizing(w) /\ (w \notin torn' => w \notin torn /\ Finalizing(w)' = Finalizing(w))

(* Such a step leaves the rows as they are, whatever sessions are given up. *)
LEMMA QuietStep ==
  ASSUME Given, Sound, Sound', Balanced, ~raced, \A q \in Procs : Quiet(q), stored' = stored, usage' = usage,
         \A w \in Workspaces : Lets(w), closed \subseteq closed'
  PROVE  Balanced'
<1>1. ASSUME NEW q \in Procs, proc[q].kind \in {"none", "create"}
      PROVE  proc[q].key = None /\ proc[q].pc \in {"idle", "reserve_upload"}
  BY <1>1 DEF Sound, CallsFit, Fits, Idle
<1>2. ASSUME NEW q \in Procs, proc'[q].kind \in {"none", "create"}
      PROVE  proc'[q].key = None /\ proc'[q].pc \in {"idle", "reserve_upload"}
  <2>1. Fits(proc'[q], stored', session')
    BY DEF Sound, CallsFit
  <2> QED
    BY <1>2, <2>1 DEF Fits, Idle
<1>3. None \notin Keys
  BY DEF Given
<1>4. ASSUME NEW w \in Workspaces PROVE KeptDue(w)' = KeptDue(w) /\ HoldSum(proc, w)' = HoldSum(proc, w)
  <2>1. ASSUME NEW q \in Procs, NEW k \in Keys
        PROVE  /\ LandedAt(proc'[q], w, k) <=> LandedAt(proc[q], w, k)
               /\ HoldsAt(proc'[q], w, k) <=> HoldsAt(proc[q], w, k)
               /\ LandedAt(proc[q], w, k) => proc'[q].was = proc[q].was
               /\ HoldsAt(proc[q], w, k) => proc'[q].held = proc[q].held
    <3>1. CASE proc[q].kind \in {"none", "create"} /\ proc'[q].kind \in {"none", "create"}
      BY <1>1, <1>2, <1>3, <3>1 DEF LandedAt, HoldsAt
    <3>2. CASE SameTask(proc'[q], proc[q]) /\ proc'[q].pc = proc[q].pc /\ proc'[q].was = proc[q].was
      BY <3>2 DEF SameTask, LandedAt, HoldsAt
    <3> QED
      BY <3>1, <3>2 DEF Quiet
  <2> QED
    BY <2>1, DuesStay
<1>5. ASSUME NEW q \in Procs, NEW w \in Workspaces, proc'[q].w = w, proc'[q].kind \notin {"none", "create"}
      PROVE  proc[q].w = w /\ proc[q].kind = proc'[q].kind /\ proc'[q].pc = proc[q].pc /\ proc'[q].count = proc[q].count
  BY <1>5 DEF Quiet, SameTask
<1>6. ASSUME NEW q \in Procs, NEW w \in Workspaces, proc[q].w = w, proc[q].kind \notin {"none", "create"}
      PROVE  proc'[q].w = w /\ proc[q].kind = proc'[q].kind
  BY <1>6 DEF Quiet, SameTask
<1>7. ASSUME NEW q \in Procs, NEW w \in Workspaces, proc'[q].w = w PROVE proc'[q].kind # "none"
  <2>1. Fits(proc'[q], stored', session')
    BY DEF Sound, CallsFit
  <2> QED
    BY <1>7, <2>1 DEF Fits, Idle, Given
<1>8. ASSUME NEW q \in Procs, NEW w \in Workspaces, proc[q].w = w PROVE proc[q].kind # "none"
  BY <1>8 DEF Sound, CallsFit, Fits, Idle, Given
<1>9. ASSUME NEW w \in Workspaces PROVE Active(w)' = Active(w)
  BY <1>5, <1>6, <1>7, <1>8 DEF Active
<1>10. ASSUME NEW w \in Workspaces PROVE RowFits(w)' /\ Backed(w)'
  <2>1. RowFits(w) /\ Backed(w)
    BY DEF Balanced
  <2>2. HeldDue(w) = HoldSum(proc, w) + Finalizing(w) /\ HeldDue(w)' = HoldSum(proc, w) + Finalizing(w)'
    BY <1>4 DEF HeldDue
  <2>3. Finalizing(w) \in Nat /\ Finalizing(w)' \in Nat /\ HoldSum(proc, w) \in Nat /\ usage[w].held \in Nat
    BY CountsAreNat, FinalizingIsNatNext, DueSums DEF Sound, Shape, Row
  <2>4. RowFits(w)'
    <3>1. SUFFICES ASSUME w \notin torn', \A q \in Procs : proc'[q].w = w => proc'[q].kind # "clear"
                   PROVE  usage'[w].kept = KeptDue(w)' /\ usage'[w].held = HeldDue(w)'
      BY DEF RowFits
    <3>2. \A q \in Procs : proc[q].w = w => proc[q].kind # "clear"
      BY <1>6, <3>1
    <3>3. w \notin torn /\ HeldDue(w)' = HeldDue(w)
      BY <2>2, <3>1 DEF Lets
    <3> QED
      BY <1>4, <2>1, <3>2, <3>3 DEF RowFits
  <2>5. Backed(w)'
    <3>1. CASE usage[w].held >= HeldDue(w)
      <4>1. Finalizing(w)' <= Finalizing(w)
        BY DEF Lets
      <4>2. usage'[w].held >= HeldDue(w)'
        BY <2>2, <2>3, <3>1, <4>1
      <4> QED
        BY <4>2 DEF Backed
    <3>2. CASE w \in closed /\ usage[w] = Zero /\ \A p \in Active(w) : Exclusive(p)
      <4>1. ASSUME NEW p \in Active(w)' PROVE Exclusive(p)'
        <5>1. p \in Active(w) /\ p \in Procs /\ proc[p].w = w /\ proc[p].kind \notin {"none", "create"}
          BY <1>8, <1>9 DEF Active
        <5>2. proc'[p].kind = proc[p].kind
          BY <1>6, <5>1
        <5> QED
          BY <3>2, <5>1, <5>2 DEF Exclusive
      <4>2. \A p \in Active(w)' : Exclusive(p)'
        BY <4>1
      <4> QED
        BY <3>2, <4>2 DEF Backed
    <3> QED
      BY <2>1, <3>1, <3>2 DEF Backed
  <2> QED
    BY <2>4, <2>5
<1>11. ASSUME NEW q \in Procs PROVE Counted(q)'
  <2>1. SUFFICES ASSUME proc'[q].pc = "recount" PROVE Counted(q)'
    BY DEF Counted, At
  <2>2. proc'[q].kind \notin {"none", "create"}
    BY <1>2, <2>1
  <2>3. Fits(proc'[q], stored', session')
    BY DEF Sound, CallsFit
  <2>4. PICK w \in Workspaces : w = proc'[q].w
    BY <2>2, <2>3 DEF Fits
  <2>5. proc[q].w = w /\ proc[q].pc = "recount" /\ proc'[q].count = proc[q].count
    BY <1>5, <2>1, <2>2, <2>4
  <2>6. proc[q].count = Inventory(w) /\ Active(w) = {q}
    BY <2>5 DEF Balanced, Counted, At
  <2>7. Inventory(w)' = Inventory(w)
    BY DEF Inventory
  <2>8. proc'[q].count = Inventory(w)' /\ Active(w)' = {q}
    BY <1>9, <2>5, <2>6, <2>7
  <2> QED
    BY <2>4, <2>8 DEF Counted, At, Inventory, Active
<1> QED
  BY <1>10, <1>11 DEF Balanced

(* Where no session's finalizing bytes change, every workspace keeps what its uploads hold. *)
LEMMA LetsAll ==
  ASSUME Given, Sound, Sound', torn' = torn, \A u \in Uploads : session'[u].finalizing = session[u].finalizing
  PROVE  \A w \in Workspaces : Lets(w)
<1>1. SUFFICES ASSUME NEW w \in Workspaces PROVE Lets(w)
  OBVIOUS
<1>2. Finalizing(w)' = Finalizing(w)
  BY FinalizingStays
<1>3. Finalizing(w) \in Nat
  BY CountsAreNat DEF Sound
<1> QED
  BY <1>2, <1>3 DEF Lets

(* A call that is none on the store ends, or begins. *)
LEMMA QuietCall ==
  ASSUME Sound, NEW p \in Procs, NEW c, proc' = [proc EXCEPT ![p] = c],
         \/ SameTask(c, proc[p]) /\ c.pc = proc[p].pc /\ c.was = proc[p].was /\ c.count = proc[p].count
         \/ proc[p].kind \in {"none", "create"} /\ c.kind \in {"none", "create"}
  PROVE  \A q \in Procs : Quiet(q)
<1>1. \A q \in Procs : proc'[q] = IF q = p THEN c ELSE proc[q]
  BY DEF Sound, Shape
<1> QED
  BY <1>1 DEF Quiet, SameTask

LEMMA ReadHolderBalances ==
  ASSUME Given, Sound, Sound', Balanced, ~raced, NEW p \in Procs, ReadHolder(p)
  PROVE  Balanced'
<1>1. PICK c : c = [proc[p] EXCEPT !.seen = holder[proc[p].w]]
  OBVIOUS
<1>2. proc' = [proc EXCEPT ![p] = c] /\ proc[p] \in Call
  BY <1>1 DEF ReadHolder, Sound, Shape
<1>3. SameTask(c, proc[p]) /\ c.pc = proc[p].pc /\ c.was = proc[p].was /\ c.count = proc[p].count
  BY <1>1, <1>2 DEF Call, SameTask
<1>4. \A q \in Procs : Quiet(q)
  BY <1>2, <1>3, QuietCall
<1>5. UNCHANGED <<stored, session, usage, torn, closed>>
  BY DEF ReadHolder, books, ghosts
<1>6. \A w \in Workspaces : Lets(w)
  BY <1>5, LetsAll
<1> QED
  BY <1>4, <1>5, <1>6, QuietStep

LEMMA ReserveUploadBalances ==
  ASSUME Given, Sound, Sound', Balanced, ~raced, NEW p \in Procs, ReserveUpload(p)
  PROVE  Balanced'
<1>1. proc[p].kind = "create" /\ proc[p].up \in Uploads
  BY Handlers DEF ReserveUpload, At
<1>2. proc' = [proc EXCEPT ![p] = Idle] /\ Idle.kind = "none"
  BY DEF ReserveUpload, End, Idle
<1>3. \A q \in Procs : Quiet(q)
  BY <1>1, <1>2, QuietCall
<1>4. UNCHANGED <<stored, usage, torn, closed>>
  BY DEF ReserveUpload, books, ghosts
<1>5. \A u \in Uploads : session'[u].finalizing = session[u].finalizing
  <2>1. session[proc[p].up].finalizing = 0 /\ session[proc[p].up] \in Session
    BY <1>1 DEF Sound, CallsFit, Fits, Shape
  <2>2. NoSession.finalizing = 0
    BY DEF NoSession
  <2>3. PICK s : /\ session' = [session EXCEPT ![proc[p].up] = s] /\ s.finalizing = 0
    <3>1. PICK s : s = IF ~session[proc[p].up].there \/ proc[p].seen = None THEN session[proc[p].up]
                       ELSE IF Charge(proc[p].seen) + Size[proc[p].up] > Quota
                         THEN (IF session[proc[p].up].bytes = 0 THEN NoSession ELSE session[proc[p].up])
                       ELSE [session[proc[p].up] EXCEPT !.bytes = Size[proc[p].up], !.live = TRUE]
      OBVIOUS
    <3>2. session' = [session EXCEPT ![proc[p].up] = s]
      BY <3>1 DEF ReserveUpload
    <3>3. s.finalizing = 0
      BY <2>1, <2>2, <3>1 DEF Session
    <3> QED
      BY <3>2, <3>3
  <2> QED
    BY <2>1, <2>3 DEF Sound, Shape
<1>6. \A w \in Workspaces : Lets(w)
  BY <1>4, <1>5, LetsAll
<1> QED
  BY <1>3, <1>4, <1>6, QuietStep

LEMMA CreateBalances ==
  ASSUME Given, Sound, Sound', Balanced, ~raced, NEW p \in Procs, NEW u \in Uploads, Create(p, u)
  PROVE  Balanced'
<1>1. proc[p].kind = "none"
  BY IdleCall DEF Create
<1>2. PICK c : c = [Idle EXCEPT !.pc = "reserve_upload", !.kind = "create", !.w = Home[u], !.up = u]
  OBVIOUS
<1>3. proc' = [proc EXCEPT ![p] = c] /\ c.kind = "create"
  BY <1>2 DEF Create, Idle
<1>4. \A q \in Procs : Quiet(q)
  BY <1>1, <1>3, QuietCall
<1>5. UNCHANGED <<stored, usage, torn, closed>>
  BY DEF Create, books, ghosts
<1>6. \A v \in Uploads : session'[v].finalizing = session[v].finalizing
  <2>1. session[u] = NoSession
    BY DEF Create, Sound, SessionFits
  <2> QED
    BY <2>1 DEF Create, NoSession, Sound, Shape
<1>7. \A w \in Workspaces : Lets(w)
  BY <1>5, <1>6, LetsAll
<1> QED
  BY <1>4, <1>5, <1>7, QuietStep

(* Calls stay as they are. *)
LEMMA QuietAll == ASSUME proc' = proc PROVE \A q \in Procs : Quiet(q)
BY DEF Quiet, SameTask

(* A session runs out, comes back, loses its part or is given up before its bytes are finalized. *)
LEMMA SessionOnlyBalances ==
  ASSUME Given, Sound, Sound', Balanced, ~raced, NEW u \in Uploads, RunOut(u) \/ Touch(u) \/ PartLost(u) \/ Drop(u)
  PROVE  Balanced'
<1>1. \A q \in Procs : Quiet(q)
  BY QuietAll DEF RunOut, Touch, PartLost, Drop
<1>2. UNCHANGED <<stored, usage, torn, closed>>
  BY DEF RunOut, Touch, PartLost, Drop, books, ghosts
<1>3. \A v \in Uploads : session'[v].finalizing = session[v].finalizing
  <2>1. CASE RunOut(u) \/ Touch(u) \/ PartLost(u)
    BY <2>1 DEF RunOut, Touch, PartLost, Sound, Shape, Session
  <2>2. CASE Drop(u)
    BY <2>2, DropTakes DEF Sound, Shape
  <2> QED
    BY <2>1, <2>2
<1>4. \A w \in Workspaces : Lets(w)
  BY <1>2, <1>3, LetsAll
<1> QED
  BY <1>1, <1>2, <1>4, QuietStep

LEMMA DeleteSessionBalances ==
  ASSUME Given, Sound, Sound', Balanced, ~raced, NEW u \in Uploads, DeleteSession(u)
  PROVE  Balanced'
<1>1. \A q \in Procs : Quiet(q)
  BY QuietAll DEF DeleteSession
<1>2. UNCHANGED <<stored, usage, closed>>
  BY DEF DeleteSession, books
<1>3. session'[u].finalizing = 0 /\ \A v \in Uploads \ {u} : session'[v].finalizing = session[v].finalizing
  BY DEF DeleteSession, NoSession, Sound, Shape, Session
<1>4. session[u].finalizing \in Nat /\ Home[u] \in Workspaces
  BY DEF Sound, Shape, Session, Given
<1>5. ASSUME NEW w \in Workspaces PROVE Lets(w)
  <2>1. Finalizing(w) \in Nat
    BY CountsAreNat DEF Sound
  <2>2. CASE Home[u] = w
    <3>1. Finalizing(w)' = Finalizing(w) - session[u].finalizing + session'[u].finalizing
      BY <1>3, <2>2, FinalizingChanges
    <3>2. Finalizing(w)' = Finalizing(w) - session[u].finalizing
      BY <1>3, <1>4, <2>1, <3>1
    <3>3. torn' = IF session[u].finalizing > 0 THEN torn \cup {w} ELSE torn
      BY <2>2 DEF DeleteSession
    <3> QED
      BY <1>4, <2>1, <3>2, <3>3 DEF Lets
  <2>3. CASE Home[u] # w
    <3>1. Finalizing(w)' = Finalizing(w)
      BY <1>3, <2>3, FinalizingStays
    <3>2. torn \subseteq torn'
      BY DEF DeleteSession
    <3> QED
      BY <2>1, <3>1, <3>2 DEF Lets
  <2> QED
    BY <2>2, <2>3
<1> QED
  BY <1>1, <1>2, <1>5, QuietStep

LEMMA ReholdBalances ==
  ASSUME Given, Sound, Sound', Balanced, ~raced, NEW w \in Workspaces, NEW to, Rehold(w, to)
  PROVE  Balanced'
<1>1. \A q \in Procs : Quiet(q)
  BY QuietAll DEF Rehold
<1>2. UNCHANGED <<stored, usage, session, torn>> /\ closed \subseteq closed'
  BY DEF Rehold
<1>3. \A x \in Workspaces : Lets(x)
  BY <1>2, LetsAll
<1> QED
  BY <1>1, <1>2, <1>3, QuietStep

(* An exclusive call ends with its row off. *)
LEMMA EndsAlone ==
  ASSUME Given, Sound, Sound', Balanced, ~raced, NEW p \in Procs, proc[p].kind \in Alone, End(p),
         NEW w, w = proc[p].w, UNCHANGED <<stored, usage, session>>, torn' = torn \cup {w}, closed \subseteq closed'
  PROVE  Balanced'
<1>1. w \in Workspaces /\ proc[p].key = None /\ p \in Active(w)
  BY DEF Sound, CallsFit, Fits, Alone, Active
<1>2. proc'[p] = Idle /\ \A q \in Procs \ {p} : proc'[q] = proc[q]
  BY DEF End, Sound, Shape
<1>3. Idle.w = None /\ Idle.key = None /\ Idle.pc = "idle" /\ None \notin Keys /\ None \notin Workspaces
  BY DEF Idle, Given
<1>4. KeptDue(w)' = KeptDue(w) /\ HoldSum(proc, w)' = HoldSum(proc, w)
  BY <1>1, <1>2, <1>3, NothingDueChanges
<1>5. Finalizing(w)' = Finalizing(w)
  BY <1>1, FinalizingStays
<1>6. HeldDue(w)' = HeldDue(w)
  BY <1>4, <1>5 DEF HeldDue
<1>7. RowFits(w)'
  BY <1>1 DEF RowFits
<1>8. \A q \in Active(w)' : q \in Active(w) /\ proc'[q] = proc[q]
  BY <1>1, <1>2, <1>3 DEF Active
<1>9. Backed(w)'
  BY <1>1, <1>6, <1>8 DEF Balanced, Backed, Exclusive
<1>10. \A q \in Procs : proc'[q].w = w => Counted(q)'
  <2>1. ~At(p, "recount")'
    BY <1>2, <1>3 DEF At
  <2> QED
    BY <1>1, <1>2, <2>1, NoneCounts
<1>11. proc[p].w \in {w, None} /\ proc'[p].w \in {w, None}
  BY <1>2, <1>3
<1>12. \A x \in Workspaces : x # w => /\ stored'[x] = stored[x] /\ usage'[x] = usage[x]
                                    /\ (x \in torn => x \in torn') /\ (x \in closed => x \in closed')
  OBVIOUS
<1>13. \A u \in Uploads : Home[u] # w => session'[u].finalizing = session[u].finalizing
  OBVIOUS
<1> QED
  BY <1>1, <1>2, <1>7, <1>9, <1>10, <1>11, <1>12, <1>13, OneActs

(* The same of a call at a path: what is due for it is lost, or there is nothing. *)
LEMMA EndsOff ==
  ASSUME Given, Sound, Sound', Balanced, ~raced, NEW p \in Procs, proc[p].kind \in Keyed, End(p),
         NEW w, w = proc[p].w, NEW k, k = proc[p].key, UNCHANGED <<stored, usage, session, closed>>,
         torn \subseteq torn', w \in torn' \/ proc[p].pc \in {"reserve", "begin", "abandon"}
  PROVE  Balanced'
<1>1. /\ w \in Workspaces /\ k \in Keys /\ usage[w].kept \in Nat /\ usage[w].held \in Nat
      /\ stored[w][k] \in Nat /\ Finalizing(w) \in Nat /\ proc[p].held \in Nat
  BY Numbers
<1>2. /\ w \notin torn' => DueBy(proc[p], w, k, stored[w][k]) = stored[w][k] /\ HoldBy(proc[p], w, k) = 0
      /\ HoldBy(proc[p], w, k) \in Nat
  BY <1>1, Places
<1>3. Finalizing(w)' = Finalizing(w)
  BY <1>1, FinalizingStays
<1>4. OthersStay(w, k)
  BY DEF OthersStay
<1> QED
  BY <1>1, <1>2, <1>3, <1>4, EndsAtPath

LEMMA TransactionFailsBalances ==
  ASSUME Given, Sound, Sound', Balanced, ~raced, NEW p \in Procs, TransactionFails(p)
  PROVE  Balanced'
<1>1. PICK w, k : w = proc[p].w /\ k = proc[p].key
  OBVIOUS
<1>2. proc[p].pc \in {"begin", "settle", "abandon", "reserve", "finish", "undo", "recount"}
  BY DEF TransactionFails, Transactions
<1>3. /\ proc[p].kind \in Keyed \cup Alone /\ proc[p] \in Call
      /\ proc[p].kind \in Alone => proc[p].pc = "recount"
  <2>1. Fits(proc[p], stored, session) /\ proc[p] \in Call /\ proc[p].kind \notin {"none", "create"}
    BY <1>2, Handlers DEF Sound, CallsFit, Shape
  <2> QED
    BY <1>2, <2>1 DEF Fits, Call
<1>4. UNCHANGED <<stored, usage, session>>
  BY DEF TransactionFails, books
<1>5. CASE proc[p].pc \in {"finish", "settle"}
  <2>1. To(p, "inventory") /\ UNCHANGED <<torn, closed>>
    BY <1>5 DEF TransactionFails
  <2>2. PICK c \in Call : /\ proc' = [proc EXCEPT ![p] = c] /\ SameTask(c, proc[p])
                         /\ c.pc = "inventory" /\ c.was = proc[p].was
    BY <2>1, ToCall DEF Sound, Steps
  <2>3. proc[p].kind \in Keyed
    BY <1>3, <1>5
  <2>4. HoldBy(c, w, k) = HoldBy(proc[p], w, k) /\ DueBy(c, w, k, stored'[w][k]) = DueBy(proc[p], w, k, stored[w][k])
    <3>1. proc[p].pc = "settle" => proc[p].kind = "upload"
      BY Handlers
    <3> QED
      BY <1>1, <1>5, <2>2, <3>1 DEF HoldBy, HoldsAt, DueBy, LandedAt, SameTask
  <2>5. OthersStay(w, k)
    BY <1>4, <2>1 DEF OthersStay
  <2>6. Finalizing(w)' = Finalizing(w)
    BY <1>1, <1>4, <2>3, Numbers, FinalizingStays
  <2> QED
    BY <1>1, <1>4, <2>2, <2>3, <2>4, <2>5, <2>6, GoesOnAtPath
<1>6. CASE proc[p].pc \notin {"finish", "settle"}
  <2>1. /\ End(p)
        /\ torn' = IF proc[p].pc \in {"undo", "recount"} THEN torn \cup {w} ELSE torn
        /\ closed' = IF Exclusive(p) THEN closed \cup {w} ELSE closed
    BY <1>1, <1>6 DEF TransactionFails
  <2>2. CASE proc[p].kind \in Alone
    BY <1>1, <1>3, <1>4, <2>1, <2>2, EndsAlone
  <2>3. CASE proc[p].kind \in Keyed
    <3>1. ~Exclusive(p)
      BY <2>3 DEF Exclusive, Keyed
    <3> QED
      BY <1>1, <1>2, <1>4, <1>6, <2>1, <2>3, <3>1, EndsOff
  <2> QED
    BY <1>3, <2>2, <2>3
<1> QED
  BY <1>5, <1>6

LEMMA CountBalances ==
  ASSUME Given, Sound, Sound', Balanced, ~raced, ~raced', NEW p \in Procs, Count(p)
  PROVE  Balanced'
<1>1. PICK w : w = proc[p].w
  OBVIOUS
<1>2. PICK c : c = [proc[p] EXCEPT !.pc = "recount", !.seen = Unread, !.count = Inventory(w)]
  OBVIOUS
<1>3. proc[p] \in Call /\ proc[p].pc = "inventory" /\ proc' = [proc EXCEPT ![p] = c]
  BY <1>1, <1>2 DEF Count, At, Sound, Shape
<1>4. SameTask(c, proc[p]) /\ c.pc = "recount" /\ c.was = proc[p].was /\ c.count = Inventory(w)
  BY <1>2, <1>3 DEF Call, SameTask
<1>5. proc'[p] = c /\ \A q \in Procs \ {p} : proc'[q] = proc[q]
  BY <1>3 DEF Sound, Shape
<1>6. w \in Workspaces /\ Active(w) = {p} /\ UNCHANGED <<stored, usage, session, torn, closed>>
  BY <1>1, <1>3, Handlers DEF Count, books
<1>7. KeptDue(w)' = KeptDue(w) /\ HoldSum(proc, w)' = HoldSum(proc, w)
  <2>1. ASSUME NEW q \in Procs, NEW k \in Keys
        PROVE  /\ LandedAt(proc'[q], w, k) <=> LandedAt(proc[q], w, k)
               /\ HoldsAt(proc'[q], w, k) <=> HoldsAt(proc[q], w, k)
               /\ LandedAt(proc[q], w, k) => proc'[q].was = proc[q].was
               /\ HoldsAt(proc[q], w, k) => proc'[q].held = proc[q].held
    BY <1>3, <1>4, <1>5 DEF SameTask, LandedAt, HoldsAt
  <2> QED
    BY <1>6, <2>1, DuesStay
<1>8. Finalizing(w)' = Finalizing(w)
  BY <1>6, FinalizingStays
<1>9. HeldDue(w)' = HeldDue(w)
  BY <1>7, <1>8 DEF HeldDue
<1>10. \A q \in Procs : proc'[q].w = proc[q].w /\ proc'[q].kind = proc[q].kind
  BY <1>4, <1>5 DEF SameTask
<1>11. RowFits(w)'
  BY <1>6, <1>7, <1>9, <1>10 DEF RowFits, Balanced
<1>12. Active(w)' = {p}
  BY <1>6, <1>10 DEF Active
<1>13. Backed(w)'
  BY <1>6, <1>9, <1>10, <1>12 DEF Balanced, Backed, Exclusive
<1>14. Inventory(w)' = Inventory(w)
  BY <1>6 DEF Inventory
<1>15. ASSUME NEW q \in Procs, proc'[q].w = w PROVE Counted(q)'
  <2>1. CASE q = p
    <3>1. proc'[q].count = Inventory(w)' /\ Active(w)' = {q}
      BY <1>4, <1>5, <1>12, <1>14, <2>1
    <3> QED
      BY <1>15, <3>1 DEF Counted, At, Inventory, Active
  <2>2. CASE q # p
    <3>1. proc'[q] = proc[q] /\ proc[q].pc # "recount"
      <4>1. proc[q].pc = "reserve_upload"
        BY <1>5, <1>6, <1>15, <2>2, NoneActive
      <4> QED
        BY <1>5, <2>2, <4>1
    <3> QED
      BY <3>1 DEF Counted, At
  <2> QED
    BY <2>1, <2>2
<1>16. proc[p].w \in {w, None} /\ proc'[p].w \in {w, None}
  BY <1>1, <1>10
<1>17. \A x \in Workspaces : x # w => /\ stored'[x] = stored[x] /\ usage'[x] = usage[x]
                                    /\ (x \in torn => x \in torn') /\ (x \in closed => x \in closed')
  BY <1>6
<1>18. \A u \in Uploads : Home[u] # w => session'[u].finalizing = session[u].finalizing
  BY <1>6
<1> QED
  BY <1>5, <1>6, <1>11, <1>13, <1>15, <1>16, <1>17, <1>18, OneActs

(* A row that is counted is set to what is there, wherever it was. *)
LEMMA CountedExactly ==
  ASSUME Given, Sound, Balanced, ~raced, NEW p \in Procs, At(p, "recount"), NEW w, w = proc[p].w
  PROVE  /\ w \in Workspaces /\ Active(w) = {p}
         /\ usage[w].kept \in Nat /\ usage[w].held \in Nat /\ proc[p].count \in Nat /\ Finalizing(w) \in Nat
         /\ proc[p].count = Inventory(w)
         /\ NotBelow0(usage[w].kept + (proc[p].count - usage[w].kept)) = proc[p].count
         /\ NotBelow0(usage[w].held + (Finalizing(w) - usage[w].held)) = Finalizing(w)
<1>1. w \in Workspaces
  BY Handlers DEF At
<1>2. proc[p].count = Inventory(w) /\ Active(w) = {p}
  BY DEF Balanced, Counted
<1>3. Inventory(w) \in Nat /\ Finalizing(w) \in Nat /\ usage[w].kept \in Nat /\ usage[w].held \in Nat
  BY <1>1, CountsAreNat DEF Sound, Shape, Row
<1>4. /\ usage[w].kept + (proc[p].count - usage[w].kept) = proc[p].count
      /\ usage[w].held + (Finalizing(w) - usage[w].held) = Finalizing(w)
  BY <1>2, <1>3
<1> QED
  BY <1>1, <1>2, <1>3, <1>4, NotBelow0IsNat

LEMMA ReconcileBalances ==
  ASSUME Given, Sound, Sound', Balanced, ~raced, NEW p \in Procs, Reconcile(p)
  PROVE  Balanced'
<1>1. PICK w, k : w = proc[p].w /\ k = proc[p].key
  OBVIOUS
<1>2. At(p, "recount") /\ End(p) /\ UNCHANGED <<stored, session>>
  BY DEF Reconcile
<1>3. /\ w \in Workspaces /\ Active(w) = {p} /\ usage[w].kept \in Nat /\ usage[w].held \in Nat
      /\ proc[p].count \in Nat /\ Finalizing(w) \in Nat /\ proc[p].count = Inventory(w)
      /\ NotBelow0(usage[w].kept + (proc[p].count - usage[w].kept)) = proc[p].count
      /\ NotBelow0(usage[w].held + (Finalizing(w) - usage[w].held)) = Finalizing(w)
  BY <1>1, <1>2, CountedExactly
<1>4. proc[p].kind \in Keyed \cup Alone
  <2>1. proc[p] \in Call /\ proc[p].kind \notin {"none", "create"}
    BY <1>2, Handlers DEF At, Sound, Shape
  <2> QED
    BY <2>1 DEF Call
<1>5. CASE proc[p].seen = None
  <2>1. torn' = torn \cup {w} /\ usage' = usage /\ closed' = closed
    BY <1>1, <1>5 DEF Reconcile, books
  <2>2. CASE proc[p].kind \in Keyed
    BY <1>1, <1>2, <2>1, <2>2, EndsOff
  <2>3. CASE proc[p].kind \in Alone
    BY <1>1, <1>2, <2>1, <2>3, EndsAlone
  <2> QED
    BY <1>4, <2>2, <2>3
<1>6. CASE proc[p].seen # None
  <2>1. /\ Books(p, proc[p].count - usage[w].kept, Finalizing(w) - usage[w].held)
        /\ torn' = torn \ {w} /\ closed' = closed \ {w}
    BY <1>1, <1>6 DEF Reconcile
  <2>2. /\ usage'[w].kept = proc[p].count /\ usage'[w].held = Finalizing(w)
        /\ \A x \in Workspaces : x # w => usage'[x] = usage[x]
    BY <1>1, <1>3, <2>1, BooksHere DEF Sound
  <2>3. proc'[p] = Idle /\ \A q \in Procs \ {p} : proc'[q] = proc[q]
    BY <1>2 DEF End, Sound, Shape
  <2>4. Idle.w = None /\ Idle.pc = "idle" /\ None \notin Workspaces
    BY DEF Idle, Given
  <2>5. \A q \in Procs : proc'[q].w = w => proc'[q].key \notin Keys
    BY <1>3, <2>3, <2>4, NoneActive
  <2>6. KeptDue(w)' = Inventory(w)' /\ HoldSum(proc, w)' = 0
    <3>1. stored' \in Sized
      BY DEF Sound, Shape
    <3>2. DueSum(proc', stored', w) = SumFunctionOnSet(stored'[w], Keys) /\ HoldSum(proc', w) = 0
      BY <1>3, <2>5, <3>1, NoCallsDue
    <3> QED
      BY <3>2 DEF KeptDue, Inventory
  <2>7. Inventory(w)' = Inventory(w) /\ Finalizing(w)' = Finalizing(w)
    BY <1>2, <1>3, FinalizingStays DEF Inventory
  <2>8. usage'[w].kept = KeptDue(w)' /\ usage'[w].held = HeldDue(w)' /\ HeldDue(w)' \in Nat
    BY <1>3, <2>2, <2>6, <2>7 DEF HeldDue
  <2>9. RowFits(w)' /\ Backed(w)'
    BY <2>8 DEF RowFits, Backed
  <2>10. \A q \in Procs : proc'[q].w = w => Counted(q)'
    <3>1. ~At(p, "recount")' /\ p \in Active(w)
      BY <1>3, <2>3, <2>4 DEF At
    <3> QED
      BY <1>3, <2>3, <3>1, NoneCounts
  <2>11. proc[p].w \in {w, None} /\ proc'[p].w \in {w, None}
    BY <1>1, <2>3, <2>4
  <2>12. \A x \in Workspaces : x # w => /\ stored'[x] = stored[x] /\ usage'[x] = usage[x]
                                      /\ (x \in torn => x \in torn') /\ (x \in closed => x \in closed')
    BY <1>2, <2>1, <2>2
  <2>13. \A u \in Uploads : Home[u] # w => session'[u].finalizing = session[u].finalizing
    BY <1>2
  <2> QED
    BY <1>3, <2>3, <2>9, <2>10, <2>11, <2>12, <2>13, OneActs
<1> QED
  BY <1>5, <1>6

(* A call enters at a path: the row is its workspace's still, and nothing is due for it yet. *)
LEMMA CallEnters ==
  ASSUME Given, Sound, Sound', Balanced, ~raced, ~raced', NEW p \in Procs, NEW w \in Workspaces, NEW k \in Keys,
         Enters(p, w), raced' = (raced \/ Counting(w)), NEW c \in Call, proc' = [proc EXCEPT ![p] = c],
         c.kind \in Keyed, c.w = w, c.key = k, c.pc \in {"reserve", "put", "begin"},
         c.pc = "put" => c.held = 0, UNCHANGED <<usage, stored, torn, closed>>,
         \A u \in Uploads : session'[u].finalizing = session[u].finalizing
  PROVE  Balanced'
<1>1. proc[p] = Idle /\ proc[p].w = None
  BY IdleCall DEF Enters
<1>2. proc'[p] = c /\ \A q \in Procs \ {p} : proc'[q] = proc[q]
  BY DEF Sound, Shape
<1>3. stored[w][k] \in Nat /\ stored'[w][k] = stored[w][k]
  BY DEF Sound, Shape, Sized
<1>4. DueBy(proc[p], w, k, stored[w][k]) = stored[w][k] /\ HoldBy(proc[p], w, k) = 0
  BY <1>1 DEF DueBy, HoldBy, LandedAt, HoldsAt, Given
<1>5. DueBy(proc'[p], w, k, stored'[w][k]) = stored[w][k] /\ HoldBy(proc'[p], w, k) = 0
  BY <1>2, <1>3 DEF DueBy, HoldBy, LandedAt, HoldsAt
<1>6. /\ (proc'[p].kind \in Keyed /\ proc'[p].w = w /\ proc'[p].key = k) /\ proc'[p] # Idle
      /\ \A j \in Keys : j # k => stored'[w][j] = stored[w][j]
  BY <1>2 DEF Idle, Keyed
<1>7. /\ KeptDue(w)' = KeptDue(w) - DueBy(proc[p], w, k, stored[w][k]) + DueBy(proc'[p], w, k, stored'[w][k])
      /\ HoldSum(proc, w)' = HoldSum(proc, w) - HoldBy(proc[p], w, k) + HoldBy(proc'[p], w, k)
      /\ KeptDue(w) \in Nat /\ HoldSum(proc, w) \in Nat
  BY <1>1, <1>2, <1>6, AtItsPath
<1>8. KeptDue(w)' = KeptDue(w) /\ HoldSum(proc, w)' = HoldSum(proc, w)
  BY <1>3, <1>4, <1>5, <1>7
<1>9. Finalizing(w)' = Finalizing(w)
  BY FinalizingStays
<1>10. HeldDue(w)' = HeldDue(w)
  BY <1>8, <1>9 DEF HeldDue
<1>11. RowFits(w) /\ Backed(w)
  BY DEF Balanced
<1>12. \A q \in Procs : proc[q].w = w => proc[q].kind # "clear"
  BY DEF Enters, Active, Exclusive
<1>13. w \notin torn' => usage'[w].kept = KeptDue(w)' /\ usage'[w].held = HeldDue(w)'
  BY <1>8, <1>10, <1>11, <1>12 DEF RowFits
<1>14. usage'[w].held >= HeldDue(w)'
  BY <1>10, <1>11 DEF Backed, Enters
<1>15. ~Counting(w) /\ ~At(p, "recount")'
  BY <1>2 DEF At
<1>16. /\ proc[p].w \in {w, None} /\ proc'[p].w \in {w, None}
       /\ \A x \in Workspaces, j \in Keys : x # w \/ j # k => stored'[x][j] = stored[x][j]
       /\ \A u \in Uploads : Home[u] # w => session'[u].finalizing = session[u].finalizing
       /\ \A x \in Workspaces : x # w => /\ usage'[x] = usage[x]
                                     /\ (x \in torn => x \in torn') /\ (x \in closed => x \in closed')
  BY <1>1, <1>2
<1> QED
  BY <1>2, <1>13, <1>14, <1>15, <1>16, KeyedActs

(* A write that enters reserves what it needs, and nothing when it needs no more. *)
LEMMA WriteEnters ==
  ASSUME Given, Sound, NEW p \in Procs, NEW w \in Workspaces, NEW k \in Keys, NEW n \in WriteSizes,
         Write(p, w, k, n)
  PROVE  \E c \in Call : /\ proc' = [proc EXCEPT ![p] = c] /\ c.kind \in Keyed /\ c.w = w /\ c.key = k
                         /\ c.pc \in {"reserve", "put"} /\ (c.pc = "put" => c.held = 0)
<1>1. PICK c0 : c0 = [Idle EXCEPT !.kind = "write", !.key = k, !.size = n, !.was = stored[w][k],
                    !.held = NotBelow0(n - stored[w][k]), !.pc = IF n > stored[w][k] THEN "reserve" ELSE "put"]
  OBVIOUS
<1>2. PICK c : c = [c0 EXCEPT !.w = w]
  OBVIOUS
<1>3. stored[w][k] \in Nat /\ n \in Nat
  BY DEF Sound, Shape, Sized, Given
<1>4. NotBelow0(n - stored[w][k]) \in Nat
  BY <1>3, NotBelow0IsNat
<1>5. /\ c \in Call /\ c.kind = "write" /\ c.w = w /\ c.key = k /\ c.up = None /\ c.size = n
      /\ c.was = stored[w][k] /\ c.held = NotBelow0(n - stored[w][k]) /\ c.pc \in {"reserve", "put"}
  BY <1>1, <1>2, <1>3, <1>4 DEF Idle, Call, Steps, Keyed
<1>6. proc' = [proc EXCEPT ![p] = c]
  BY <1>1, <1>2 DEF Write, Begin
<1>7. c.pc = "put" => ~(n > stored[w][k])
  BY <1>1, <1>2 DEF Idle
<1>8. ~(n > stored[w][k]) => NotBelow0(n - stored[w][k]) = 0
  BY <1>3, NotBelow0IsNat
<1> QED
  BY <1>5, <1>6, <1>7, <1>8 DEF Keyed

LEMMA WriteBalances ==
  ASSUME Given, Sound, Sound', Balanced, ~raced, ~raced', NEW p \in Procs, NEW w \in Workspaces, NEW k \in Keys,
         NEW n \in WriteSizes, Write(p, w, k, n)
  PROVE  Balanced'
<1>1. PICK c \in Call : /\ proc' = [proc EXCEPT ![p] = c] /\ c.kind \in Keyed /\ c.w = w /\ c.key = k
                       /\ c.pc \in {"reserve", "put"} /\ (c.pc = "put" => c.held = 0)
  BY WriteEnters
<1>2. UNCHANGED <<usage, stored, torn, closed, session>> /\ Enters(p, w) /\ raced' = (raced \/ Counting(w))
  BY DEF Write, Begin, books
<1> QED
  BY <1>1, <1>2, CallEnters

LEMMA RemoveBalances ==
  ASSUME Given, Sound, Sound', Balanced, ~raced, ~raced', NEW p \in Procs, NEW w \in Workspaces, NEW k \in Keys,
         Remove(p, w, k)
  PROVE  Balanced'
<1>1. PICK c0 : c0 = [Idle EXCEPT !.kind = "remove", !.key = k, !.was = stored[w][k], !.pc = "put"]
  OBVIOUS
<1>2. PICK c : c = [c0 EXCEPT !.w = w]
  OBVIOUS
<1>3. stored[w][k] \in Nat
  BY DEF Sound, Shape, Sized
<1>4. /\ c \in Call /\ c.kind = "remove" /\ c.kind \in Keyed /\ c.w = w /\ c.key = k /\ c.held = 0 /\ c.pc = "put"
  BY <1>1, <1>2, <1>3 DEF Idle, Call, Steps, Keyed
<1>5. proc' = [proc EXCEPT ![p] = c]
  BY <1>1, <1>2 DEF Remove, Begin
<1>6. UNCHANGED <<usage, stored, torn, closed, session>> /\ Enters(p, w) /\ raced' = (raced \/ Counting(w))
  BY DEF Remove, Begin, books
<1> QED
  BY <1>4, <1>5, <1>6, CallEnters

LEMMA FinalizeBalances ==
  ASSUME Given, Sound, Sound', Balanced, ~raced, ~raced', NEW p \in Procs, NEW u0 \in Uploads, Finalize(p, u0)
  PROVE  Balanced'
<1>0. PICK w \in Workspaces, k \in Keys : w = Home[u0] /\ k = Place[u0]
  BY DEF Given
<1>1. PICK c0 : c0 = [Idle EXCEPT !.kind = "upload", !.key = k, !.up = u0, !.size = Size[u0], !.pc = "begin"]
  OBVIOUS
<1>2. PICK c : c = [c0 EXCEPT !.w = w]
  OBVIOUS
<1>3. Size[u0] \in Nat
  BY DEF Given
<1>4. /\ c \in Call /\ c.kind = "upload" /\ c.kind \in Keyed /\ c.w = w /\ c.key = k /\ c.pc = "begin"
  BY <1>1, <1>2, <1>3 DEF Idle, Call, Steps, Keyed
<1>5. proc' = [proc EXCEPT ![p] = c]
  BY <1>0, <1>1, <1>2 DEF Finalize, Begin
<1>6. UNCHANGED <<usage, stored, torn, closed>> /\ Enters(p, w) /\ raced' = (raced \/ Counting(w))
  BY <1>0 DEF Finalize, Begin, books
<1>7. \A u \in Uploads : session'[u].finalizing = session[u].finalizing
  <2>1. session' = [session EXCEPT ![u0].op = TRUE]
    BY DEF Finalize
  <2> QED
    BY <2>1 DEF Sound, Shape, Session
<1> QED
  BY <1>4, <1>5, <1>6, <1>7, CallEnters

LEMMA ScanBalances ==
  ASSUME Given, Sound, Sound', Balanced, ~raced, NEW p \in Procs, NEW w \in Workspaces, Scan(p, w)
  PROVE  Balanced'
<1>1. PICK kind \in {"scan", "clear"} :
        /\ proc' = [proc EXCEPT ![p] = [Idle EXCEPT !.kind = kind, !.w = w, !.pc = "inventory"]]
        /\ stored' = IF kind = "clear" THEN [stored EXCEPT ![w] = [k \in Keys |-> 0]] ELSE stored
  BY DEF Scan
<1>2. PICK c : c = [Idle EXCEPT !.kind = kind, !.w = w, !.pc = "inventory"]
  OBVIOUS
<1>3. c.kind = kind /\ c.w = w /\ c.key = None /\ c.pc = "inventory"
  BY <1>2 DEF Idle
<1>4. proc'[p] = c /\ \A q \in Procs \ {p} : proc'[q] = proc[q]
  BY <1>1, <1>2 DEF Sound, Shape
<1>5. UNCHANGED <<session, usage, torn, closed>> /\ Active(w) = {}
  BY DEF Scan, books, ghosts
<1>6. proc[p] = Idle /\ proc[p].w = None /\ proc[p].key = None /\ None \notin Keys
  BY IdleCall DEF Scan, Given
<1>7. \A q \in Procs : proc[q].w = w => proc[q].key \notin Keys /\ proc[q].pc = "reserve_upload" /\ proc[q].kind = "create"
  BY <1>5, NoneActive
<1>8. \A q \in Procs : proc'[q].w = w => proc'[q].key \notin Keys
  BY <1>3, <1>4, <1>6, <1>7
<1>9. HoldSum(proc, w) = 0 /\ HoldSum(proc, w)' = 0 /\ Finalizing(w)' = Finalizing(w)
  <2>1. HoldSum(proc, w) = 0
    BY <1>7, NoCallsDue DEF Sound, Shape
  <2>2. HoldSum(proc', w) = 0
    BY <1>8, NoCallsDue DEF Sound, Shape
  <2>3. Finalizing(w)' = Finalizing(w)
    BY <1>5, FinalizingStays
  <2> QED
    BY <2>1, <2>2, <2>3
<1>10. HeldDue(w)' = HeldDue(w)
  BY <1>9 DEF HeldDue
<1>11. RowFits(w) /\ Backed(w)
  BY DEF Balanced
<1>12. RowFits(w)'
  <2>1. CASE kind = "clear"
    BY <1>3, <1>4, <2>1 DEF RowFits
  <2>2. CASE kind # "clear"
    <3>1. stored' = stored
      BY <1>1, <2>2
    <3>2. KeptDue(w)' = KeptDue(w)
      BY <1>3, <1>4, <1>6, <3>1, NothingDueChanges
    <3>3. \A q \in Procs : proc[q].w = w => proc[q].kind # "clear"
      BY <1>7
    <3> QED
      BY <1>5, <1>10, <1>11, <3>2, <3>3 DEF RowFits
  <2> QED
    BY <2>1, <2>2
<1>13. \A q \in Procs : proc'[q].w = w => proc'[q].kind \in {"scan", "clear", "create"} /\ proc'[q].pc # "recount"
  BY <1>3, <1>4, <1>7
<1>14. Backed(w)'
  BY <1>5, <1>10, <1>11, <1>13 DEF Backed, Active, Exclusive
<1>15. \A q \in Procs : proc'[q].w = w => Counted(q)'
  BY <1>13 DEF Counted, At
<1>16. /\ proc[p].w \in {w, None} /\ proc'[p].w \in {w, None}
       /\ \A u \in Uploads : Home[u] # w => session'[u].finalizing = session[u].finalizing
       /\ \A x \in Workspaces : x # w => /\ stored'[x] = stored[x] /\ usage'[x] = usage[x]
                                      /\ (x \in torn => x \in torn') /\ (x \in closed => x \in closed')
  BY <1>1, <1>3, <1>4, <1>5, <1>6 DEF Sound, Shape, Sized
<1> QED
  BY <1>4, <1>12, <1>14, <1>15, <1>16, OneActs

LEMMA RefundBalances ==
  ASSUME Given, Sound, Sound', Balanced, ~raced, ~raced', NEW w \in Workspaces, Refund(w)
  PROVE  Balanced'
<1>1. UNCHANGED <<stored, session, proc>> /\ torn' = torn \cup {w} /\ closed' = closed \cup {w} /\ Active(w) = {}
  BY DEF Refund
<1>2. usage'[w] = Zero /\ \A x \in Workspaces : x # w => usage'[x] = usage[x]
  BY DEF Refund, Sound, Shape
<1>3. Active(w)' = {}
  BY <1>1 DEF Active
<1>4. RowFits(w)' /\ Backed(w)'
  BY <1>1, <1>2, <1>3 DEF RowFits, Backed
<1>5. ASSUME NEW x \in Workspaces, x # w PROVE RowFits(x)' /\ Backed(x)'
  BY <1>1, <1>2, <1>5, Elsewhere
<1>6. ASSUME NEW q \in Procs PROVE Counted(q)'
  BY <1>1 DEF Balanced, Counted, At, Inventory, Active
<1> QED
  BY <1>4, <1>5, <1>6 DEF Balanced

LEMMA CrashBalances ==
  ASSUME Given, Sound, Sound', Balanced, ~raced, Crash
  PROVE  Balanced'
<1>1. /\ UNCHANGED <<usage, stored, session>> /\ closed' = Workspaces
      /\ torn' = torn \cup {w \in Workspaces : Active(w) # {}}
  BY DEF Crash, books
<1>2. \A q \in Procs : proc'[q] = Idle
  BY DEF Crash
<1>3. Idle.w = None /\ Idle.pc = "idle" /\ None \notin Workspaces
  BY DEF Idle, Given
<1>4. ASSUME NEW w \in Workspaces PROVE RowFits(w)' /\ Backed(w)'
  <2>1. RowFits(w) /\ Backed(w)
    BY DEF Balanced
  <2>2. KeptDue(w)' = Inventory(w)' /\ HoldSum(proc, w)' = 0
    <3>1. DueSum(proc', stored', w) = SumFunctionOnSet(stored'[w], Keys) /\ HoldSum(proc', w) = 0
      BY <1>2, <1>3, NoCallsDue DEF Sound, Shape
    <3> QED
      BY <3>1 DEF KeptDue, Inventory
  <2>3. Finalizing(w)' = Finalizing(w) /\ Inventory(w)' = Inventory(w)
    BY <1>1, FinalizingStays DEF Inventory
  <2>4. Finalizing(w) \in Nat /\ HoldSum(proc, w) \in Nat /\ usage[w].held \in Nat
    BY CountsAreNat, DueSums DEF Sound, Shape, Row
  <2>5. HeldDue(w)' = Finalizing(w) /\ HeldDue(w) = HoldSum(proc, w) + Finalizing(w)
    BY <2>2, <2>3, <2>4 DEF HeldDue
  <2>6. RowFits(w)'
    <3>1. SUFFICES ASSUME w \notin torn' PROVE usage'[w].kept = KeptDue(w)' /\ usage'[w].held = HeldDue(w)'
      BY DEF RowFits
    <3>2. Active(w) = {} /\ w \notin torn
      BY <1>1, <3>1
    <3>3. \A q \in Procs : proc[q].w = w => proc[q].key \notin Keys /\ proc[q].kind # "clear"
      BY <3>2, NoneActive
    <3>4. KeptDue(w) = Inventory(w) /\ HoldSum(proc, w) = 0
      <4>1. DueSum(proc, stored, w) = SumFunctionOnSet(stored[w], Keys) /\ HoldSum(proc, w) = 0
        BY <3>3, NoCallsDue DEF Sound, Shape
      <4> QED
        BY <4>1 DEF KeptDue, Inventory
    <3>5. usage[w].kept = KeptDue(w) /\ usage[w].held = HeldDue(w)
      BY <2>1, <3>2, <3>3 DEF RowFits
    <3> QED
      BY <1>1, <2>2, <2>3, <2>4, <2>5, <3>4, <3>5
  <2>7. Backed(w)'
    <3>1. CASE usage[w].held >= HeldDue(w)
      <4>1. usage'[w].held >= HeldDue(w)'
        BY <1>1, <2>4, <2>5, <3>1
      <4> QED
        BY <4>1 DEF Backed
    <3>2. CASE usage[w] = Zero
      <4>1. Active(w)' = {}
        BY <1>2, <1>3 DEF Active
      <4> QED
        BY <1>1, <3>2, <4>1 DEF Backed
    <3> QED
      BY <2>1, <3>1, <3>2 DEF Backed
  <2> QED
    BY <2>6, <2>7
<1>5. \A q \in Procs : Counted(q)'
  BY <1>2, <1>3 DEF Counted, At
<1> QED
  BY <1>4, <1>5 DEF Balanced

LEMMA BalancedInit == ASSUME Given, Init, Sound PROVE Balanced
<1>1. \A q \in Procs : proc[q] = Idle
  BY DEF Init
<1>2. Idle.w = None /\ Idle.pc = "idle" /\ None \notin Workspaces
  BY DEF Idle, Given
<1>3. ASSUME NEW w \in Workspaces PROVE RowFits(w) /\ Backed(w)
  <2>1. DueSum(proc, stored, w) = SumFunctionOnSet(stored[w], Keys) /\ HoldSum(proc, w) = 0
    BY <1>1, <1>2, NoCallsDue DEF Sound, Shape
  <2>2. SumFunctionOnSet(stored[w], Keys) = 0
    <3>1. PICK f : f = stored[w]
      OBVIOUS
    <3>2. \A k \in Keys : f[k] = 0
      BY <3>1 DEF Init
    <3> QED
      BY <3>1, <3>2, SumOfZeros DEF Given
  <2>3. Finalizing(w) = 0
    <3>1. PICK f, S : f = [u \in Uploads |-> session[u].finalizing] /\ S = {u \in Uploads : Home[u] = w}
      OBVIOUS
    <3>2. IsFiniteSet(S) /\ \A u \in S : f[u] = 0
      BY <3>1, FS_Subset, NoSessionIsOne DEF Init, Given
    <3>3. SumFunctionOnSet(f, S) = 0
      BY <3>2, SumOfZeros
    <3> QED
      BY <3>1, <3>3 DEF Finalizing
  <2>4. usage[w].kept = 0 /\ usage[w].held = 0
    BY DEF Init, Zero
  <2>5. KeptDue(w) = 0 /\ HeldDue(w) = 0
    BY <2>1, <2>2, <2>3 DEF KeptDue, HeldDue
  <2> QED
    BY <2>4, <2>5 DEF RowFits, Backed
<1>4. \A q \in Procs : Counted(q)
  BY <1>1, <1>2 DEF Counted, At
<1> QED
  BY <1>3, <1>4 DEF Balanced

(* Once raced, for good. *)
LEMMA RacedStays == ASSUME [Next]_vars, raced PROVE raced'
<1>1. CASE UNCHANGED vars
  BY <1>1 DEF vars
<1>2. CASE \E p \in Procs : \/ ReadHolder(p) \/ ReserveUpload(p) \/ Reserve(p) \/ Put(p) \/ PutFails(p)
                           \/ Finish(p) \/ Undo(p) \/ TransactionFails(p) \/ Count(p) \/ Reconcile(p)
                           \/ BeginFinalize(p) \/ Settle(p) \/ Publish(p) \/ Complete(p) \/ Abandon(p)
  <2>1. PICK p \in Procs : \/ ReadHolder(p) \/ ReserveUpload(p) \/ Reserve(p) \/ Put(p) \/ PutFails(p)
                          \/ Finish(p) \/ Undo(p) \/ TransactionFails(p) \/ Count(p) \/ Reconcile(p)
                          \/ BeginFinalize(p) \/ Settle(p) \/ Publish(p) \/ Complete(p) \/ Abandon(p)
    BY <1>2
  <2>2. ReadHolder(p) \/ ReserveUpload(p) \/ Reserve(p) \/ Put(p) \/ Finish(p) \/ Publish(p) \/ Complete(p) => raced'
    BY DEF ReadHolder, ReserveUpload, Reserve, Put, Finish, Publish, Complete, ghosts
  <2>3. PutFails(p) \/ Undo(p) \/ TransactionFails(p) \/ BeginFinalize(p) \/ Settle(p) \/ Abandon(p) => raced'
    BY DEF PutFails, Undo, TransactionFails, BeginFinalize, Settle, Abandon
  <2>4. Count(p) \/ Reconcile(p) => raced'
    BY DEF Count, Reconcile
  <2> QED
    BY <2>1, <2>2, <2>3, <2>4
<1>3. CASE \E p \in Procs, u \in Uploads : Create(p, u) \/ Finalize(p, u)
  BY <1>3 DEF Create, Finalize, Begin, ghosts
<1>4. CASE \E p \in Procs, w \in Workspaces :
             \/ Scan(p, w)
             \/ \E k \in Keys : Remove(p, w, k) \/ \E n \in WriteSizes : Write(p, w, k, n)
  <2>1. ASSUME NEW p \in Procs, NEW w \in Workspaces, NEW k \in Keys, NEW n
        PROVE  Remove(p, w, k) \/ Write(p, w, k, n) => raced'
    <3>1. ASSUME NEW c, Begin(p, w, c) PROVE raced'
      BY <3>1 DEF Begin
    <3> QED
      BY <3>1 DEF Remove, Write
  <2>2. ASSUME NEW p \in Procs, NEW w \in Workspaces, Scan(p, w) PROVE raced'
    BY <2>2 DEF Scan, ghosts
  <2>3. PICK p \in Procs, w \in Workspaces :
          \/ Scan(p, w)
          \/ \E k \in Keys : Remove(p, w, k) \/ \E n \in WriteSizes : Write(p, w, k, n)
    BY <1>4
  <2> QED
    BY <2>1, <2>2, <2>3
<1>5. CASE \E u \in Uploads : RunOut(u) \/ Touch(u) \/ PartLost(u) \/ Drop(u) \/ DeleteSession(u)
  BY <1>5 DEF RunOut, Touch, PartLost, Drop, DeleteSession, ghosts
<1>6. CASE \E w \in Workspaces : Refund(w) \/ \E a \in Accounts \cup {None} : Rehold(w, a)
  BY <1>6 DEF Refund, Rehold
<1>7. CASE Crash
  BY <1>7 DEF Crash
<1> QED
  BY <1>1, <1>2, <1>3, <1>4, <1>5, <1>6, <1>7 DEF Next

(* Every step leaves the rows balanced. *)
LEMMA BalancedStep == ASSUME Given, Sound, Sound', Balanced, [Next]_vars PROVE Balanced'
<1>1. CASE raced \/ raced'
  BY <1>1, RacedStays DEF Balanced
<1>2. CASE ~raced /\ ~raced'
  <2>1. CASE UNCHANGED vars
    BY <2>1 DEF vars, Balanced, RowFits, Backed, Counted, At, Active, Exclusive, Inventory, KeptDue, HeldDue,
       Finalizing
  <2>2. CASE \E p \in Procs : \/ ReadHolder(p) \/ ReserveUpload(p) \/ Reserve(p) \/ Put(p) \/ PutFails(p)
                             \/ Finish(p) \/ Undo(p) \/ TransactionFails(p) \/ Count(p) \/ Reconcile(p)
                             \/ BeginFinalize(p) \/ Settle(p) \/ Publish(p) \/ Complete(p) \/ Abandon(p)
    BY <1>2, <2>2, ReadHolderBalances, ReserveUploadBalances, ReserveBalances, PutBalances, PutFailsBalances,
       FinishBalances, UndoBalances, TransactionFailsBalances, CountBalances, ReconcileBalances,
       BeginFinalizeBalances, SettleBalances, PublishBalances, CompleteBalances, AbandonBalances
  <2>3. CASE \E p \in Procs, u \in Uploads : Create(p, u) \/ Finalize(p, u)
    BY <1>2, <2>3, CreateBalances, FinalizeBalances
  <2>4. CASE \E p \in Procs, w \in Workspaces :
               \/ Scan(p, w)
               \/ \E k \in Keys : Remove(p, w, k) \/ \E n \in WriteSizes : Write(p, w, k, n)
    BY <1>2, <2>4, ScanBalances, RemoveBalances, WriteBalances
  <2>5. CASE \E u \in Uploads : RunOut(u) \/ Touch(u) \/ PartLost(u) \/ Drop(u) \/ DeleteSession(u)
    BY <1>2, <2>5, SessionOnlyBalances, DeleteSessionBalances
  <2>6. CASE \E w \in Workspaces : Refund(w) \/ \E a \in Accounts \cup {None} : Rehold(w, a)
    BY <1>2, <2>6, RefundBalances, ReholdBalances
  <2>7. CASE Crash
    BY <1>2, <2>7, CrashBalances
  <2> QED
    BY <2>1, <2>2, <2>3, <2>4, <2>5, <2>6, <2>7 DEF Next
<1> QED
  BY <1>1, <1>2

-----------------------------------------------------------------------------
(* Spent: what accounts are charged is the sum of what their workspaces use.  The sums
   over a part are written as sums over all, with 0 for what is another's. *)

Of(h, a, n) == IF h = a THEN n ELSE 0
Asks(s) == IF s.live THEN s.bytes ELSE 0
KeptIn(a) == SumFunctionOnSet([w \in Workspaces |-> usage[w].kept], Held(a))
HeldIn(a) == SumFunctionOnSet([w \in Workspaces |-> usage[w].held], Held(a))
AddsUp(a) == (a \notin cut => account[a].kept = KeptIn(a)) /\ account[a].held = HeldIn(a)
KeptBy(h, use, a) == [w \in Workspaces |-> Of(h[w], a, use[w].kept)]
HeldBy(h, use, a) == [w \in Workspaces |-> Of(h[w], a, use[w].held)]
AskedBy(h, sessions, a) == [u \in Uploads |-> Of(h[Home[u]], a, Asks(sessions[u]))]

LEMMA OfIsNat == ASSUME NEW h, NEW a, NEW n \in Nat PROVE Of(h, a, n) \in Nat /\ Of(h, a, n) <= n
BY DEF Of

LEMMA InIsBy ==
  ASSUME Given, NEW h, NEW use \in [Workspaces -> Row], NEW a
  PROVE  /\ SumFunctionOnSet([w \in Workspaces |-> use[w].kept], {w \in Workspaces : h[w] = a})
              = SumFunctionOnSet(KeptBy(h, use, a), Workspaces)
         /\ SumFunctionOnSet([w \in Workspaces |-> use[w].held], {w \in Workspaces : h[w] = a})
              = SumFunctionOnSet(HeldBy(h, use, a), Workspaces)
<1>1. PICK T : T = {w \in Workspaces : h[w] = a}
  OBVIOUS
<1>2. PICK f, g : f = [w \in Workspaces |-> use[w].kept] /\ g = [w \in Workspaces |-> use[w].held]
  OBVIOUS
<1>3. T \in SUBSET Workspaces /\ IsFiniteSet(Workspaces) /\ \A w \in T : f[w] \in Nat /\ g[w] \in Nat
  BY <1>1, <1>2 DEF Given, Row
<1>4. /\ SumFunctionOnSet(f, T) = SumFunctionOnSet([w \in Workspaces |-> IF w \in T THEN f[w] ELSE 0], Workspaces)
      /\ SumFunctionOnSet(g, T) = SumFunctionOnSet([w \in Workspaces |-> IF w \in T THEN g[w] ELSE 0], Workspaces)
  BY <1>3, SumInside
<1>5. /\ [w \in Workspaces |-> IF w \in T THEN f[w] ELSE 0] = KeptBy(h, use, a)
      /\ [w \in Workspaces |-> IF w \in T THEN g[w] ELSE 0] = HeldBy(h, use, a)
  BY <1>1, <1>2 DEF KeptBy, HeldBy, Of
<1> QED
  BY <1>1, <1>2, <1>4, <1>5

(* One workspace's row, or its holder, changes. *)
LEMMA ByChanges ==
  ASSUME Given, NEW h, NEW use \in [Workspaces -> Row], NEW h2, NEW use2 \in [Workspaces -> Row], NEW a,
         NEW w \in Workspaces, \A x \in Workspaces \ {w} : use2[x] = use[x] /\ h2[x] = h[x]
  PROVE  /\ SumFunctionOnSet(KeptBy(h2, use2, a), Workspaces) =
              SumFunctionOnSet(KeptBy(h, use, a), Workspaces) - Of(h[w], a, use[w].kept) + Of(h2[w], a, use2[w].kept)
         /\ SumFunctionOnSet(HeldBy(h2, use2, a), Workspaces) =
              SumFunctionOnSet(HeldBy(h, use, a), Workspaces) - Of(h[w], a, use[w].held) + Of(h2[w], a, use2[w].held)
         /\ Of(h[w], a, use[w].kept) <= SumFunctionOnSet(KeptBy(h, use, a), Workspaces)
         /\ Of(h[w], a, use[w].held) <= SumFunctionOnSet(HeldBy(h, use, a), Workspaces)
         /\ SumFunctionOnSet(KeptBy(h, use, a), Workspaces) \in Nat
         /\ SumFunctionOnSet(HeldBy(h, use, a), Workspaces) \in Nat
<1>1. PICK f, f2, g, g2 : /\ f = KeptBy(h, use, a) /\ f2 = KeptBy(h2, use2, a)
                          /\ g = HeldBy(h, use, a) /\ g2 = HeldBy(h2, use2, a)
  OBVIOUS
<1>2. \A x \in Workspaces : f[x] \in Nat /\ f2[x] \in Nat /\ g[x] \in Nat /\ g2[x] \in Nat
  BY <1>1 DEF KeptBy, HeldBy, Of, Row
<1>3. \A x \in Workspaces \ {w} : f2[x] = f[x] /\ g2[x] = g[x]
  BY <1>1 DEF KeptBy, HeldBy
<1>4. /\ f[w] = Of(h[w], a, use[w].kept) /\ f2[w] = Of(h2[w], a, use2[w].kept)
      /\ g[w] = Of(h[w], a, use[w].held) /\ g2[w] = Of(h2[w], a, use2[w].held)
  BY <1>1 DEF KeptBy, HeldBy
<1>5. IsFiniteSet(Workspaces)
  BY DEF Given
<1>6. /\ SumFunctionOnSet(f, Workspaces) \in Nat /\ f[w] <= SumFunctionOnSet(f, Workspaces)
      /\ SumFunctionOnSet(f2, Workspaces) = SumFunctionOnSet(f, Workspaces) - f[w] + f2[w]
  BY <1>2, <1>3, <1>5, SumChange
<1>7. /\ SumFunctionOnSet(g, Workspaces) \in Nat /\ g[w] <= SumFunctionOnSet(g, Workspaces)
      /\ SumFunctionOnSet(g2, Workspaces) = SumFunctionOnSet(g, Workspaces) - g[w] + g2[w]
  BY <1>2, <1>3, <1>5, SumChange
<1> QED
  BY <1>1, <1>4, <1>6, <1>7

LEMMA AccountChanges ==
  ASSUME Given, Sound, Sound', NEW w \in Workspaces, NEW a \in Accounts,
         \A x \in Workspaces \ {w} : usage'[x] = usage[x] /\ holder'[x] = holder[x]
  PROVE  /\ KeptIn(a)' = KeptIn(a) - Of(holder[w], a, usage[w].kept) + Of(holder'[w], a, usage'[w].kept)
         /\ HeldIn(a)' = HeldIn(a) - Of(holder[w], a, usage[w].held) + Of(holder'[w], a, usage'[w].held)
         /\ Of(holder[w], a, usage[w].kept) <= KeptIn(a) /\ Of(holder[w], a, usage[w].held) <= HeldIn(a)
         /\ KeptIn(a) \in Nat /\ HeldIn(a) \in Nat
<1>1. usage \in [Workspaces -> Row] /\ usage' \in [Workspaces -> Row]
  BY DEF Sound, Shape
<1>2. /\ KeptIn(a) = SumFunctionOnSet(KeptBy(holder, usage, a), Workspaces)
      /\ HeldIn(a) = SumFunctionOnSet(HeldBy(holder, usage, a), Workspaces)
  BY <1>1, InIsBy DEF KeptIn, HeldIn, Held
<1>3. /\ KeptIn(a)' = SumFunctionOnSet(KeptBy(holder', usage', a), Workspaces)
      /\ HeldIn(a)' = SumFunctionOnSet(HeldBy(holder', usage', a), Workspaces)
  BY <1>1, InIsBy DEF KeptIn, HeldIn, Held
<1>4. /\ SumFunctionOnSet(KeptBy(holder', usage', a), Workspaces) =
           SumFunctionOnSet(KeptBy(holder, usage, a), Workspaces) - Of(holder[w], a, usage[w].kept)
             + Of(holder'[w], a, usage'[w].kept)
      /\ SumFunctionOnSet(HeldBy(holder', usage', a), Workspaces) =
           SumFunctionOnSet(HeldBy(holder, usage, a), Workspaces) - Of(holder[w], a, usage[w].held)
             + Of(holder'[w], a, usage'[w].held)
      /\ Of(holder[w], a, usage[w].kept) <= SumFunctionOnSet(KeptBy(holder, usage, a), Workspaces)
      /\ Of(holder[w], a, usage[w].held) <= SumFunctionOnSet(HeldBy(holder, usage, a), Workspaces)
      /\ SumFunctionOnSet(KeptBy(holder, usage, a), Workspaces) \in Nat
      /\ SumFunctionOnSet(HeldBy(holder, usage, a), Workspaces) \in Nat
  BY <1>1, ByChanges
<1> QED
  BY <1>2, <1>3, <1>4

(* What uploads have asked for. *)
LEMMA UploadBytesAre ==
  ASSUME Given, Shape, NEW a
  PROVE  /\ UploadBytes(a) = SumFunctionOnSet(AskedBy(holder, session, a), Uploads)
         /\ \A u \in Uploads : AskedBy(holder, session, a)[u] \in Nat
         /\ UploadBytes(a) \in Nat
<1>1. PICK T, f : /\ T = {u \in Uploads : holder[Home[u]] = a /\ session[u].live}
                  /\ f = [u \in Uploads |-> session[u].bytes]
  OBVIOUS
<1>2. T \in SUBSET Uploads /\ IsFiniteSet(Uploads) /\ \A u \in T : f[u] \in Nat
  BY <1>1 DEF Given, Shape, Session
<1>3. SumFunctionOnSet(f, T) = SumFunctionOnSet([u \in Uploads |-> IF u \in T THEN f[u] ELSE 0], Uploads)
  BY <1>2, SumInside
<1>4. [u \in Uploads |-> IF u \in T THEN f[u] ELSE 0] = AskedBy(holder, session, a)
  BY <1>1 DEF AskedBy, Of, Asks
<1>5. \A u \in Uploads : AskedBy(holder, session, a)[u] \in Nat
  BY DEF AskedBy, Of, Asks, Shape, Session
<1>6. SumFunctionOnSet(AskedBy(holder, session, a), Uploads) \in Nat
  <2>1. PICK g : g = AskedBy(holder, session, a)
    OBVIOUS
  <2> QED
    BY <1>2, <1>5, <2>1, SumIsNat
<1> QED
  BY <1>1, <1>3, <1>4, <1>5, <1>6 DEF UploadBytes

(* The same after a step. *)
LEMMA UploadBytesNext ==
  ASSUME Given, Sound, Sound', NEW a
  PROVE  /\ UploadBytes(a)' = SumFunctionOnSet(AskedBy(holder', session', a), Uploads)
         /\ \A u \in Uploads : AskedBy(holder', session', a)[u] \in Nat
         /\ UploadBytes(a)' \in Nat
<1>1. PICK T, f : /\ T = {u \in Uploads : holder'[Home[u]] = a /\ session'[u].live}
                  /\ f = [u \in Uploads |-> session'[u].bytes]
  OBVIOUS
<1>2. T \in SUBSET Uploads /\ IsFiniteSet(Uploads) /\ \A u \in T : f[u] \in Nat
  BY <1>1 DEF Given, Sound, Shape, Session
<1>3. SumFunctionOnSet(f, T) = SumFunctionOnSet([u \in Uploads |-> IF u \in T THEN f[u] ELSE 0], Uploads)
  BY <1>2, SumInside
<1>4. [u \in Uploads |-> IF u \in T THEN f[u] ELSE 0] = AskedBy(holder', session', a)
  BY <1>1 DEF AskedBy, Of, Asks
<1>5. \A u \in Uploads : AskedBy(holder', session', a)[u] \in Nat
  BY DEF AskedBy, Of, Asks, Sound, Shape, Session
<1>6. SumFunctionOnSet(AskedBy(holder', session', a), Uploads) \in Nat
  <2>1. PICK g : g = AskedBy(holder', session', a)
    OBVIOUS
  <2> QED
    BY <1>2, <1>5, <2>1, SumIsNat
<1> QED
  BY <1>1, <1>3, <1>4, <1>5, <1>6 DEF UploadBytes

(* An upload asks for no more than before. *)
AsksNoMore(u, a) == Of(holder'[Home[u]], a, Asks(session'[u])) <= Of(holder[Home[u]], a, Asks(session[u]))

LEMMA UploadsAskNoMore ==
  ASSUME Given, Sound, Sound', NEW a, \A u \in Uploads : AsksNoMore(u, a)
  PROVE  UploadBytes(a)' <= UploadBytes(a) /\ UploadBytes(a) \in Nat /\ UploadBytes(a)' \in Nat
<1>1. PICK f, g : f = AskedBy(holder, session, a) /\ g = AskedBy(holder', session', a)
  OBVIOUS
<1>2. /\ UploadBytes(a) = SumFunctionOnSet(f, Uploads) /\ UploadBytes(a)' = SumFunctionOnSet(g, Uploads)
      /\ UploadBytes(a) \in Nat /\ UploadBytes(a)' \in Nat
      /\ \A u \in Uploads : f[u] \in Nat /\ g[u] \in Nat
  BY <1>1, UploadBytesAre, UploadBytesNext DEF Sound
<1>3. \A u \in Uploads : g[u] <= f[u]
  BY <1>1 DEF AskedBy, AsksNoMore
<1>4. SumFunctionOnSet(g, Uploads) <= SumFunctionOnSet(f, Uploads)
  BY <1>2, <1>3, SumMonotonic DEF Given
<1> QED
  BY <1>2, <1>4

(* One upload asks for more, or gives up what it has asked for. *)
LEMMA OneAsks ==
  ASSUME Given, Sound, Sound', NEW a, NEW u \in Uploads, holder' = holder,
         \A v \in Uploads \ {u} : Asks(session'[v]) = Asks(session[v])
  PROVE  /\ UploadBytes(a)' = UploadBytes(a) - Of(holder[Home[u]], a, Asks(session[u]))
                                + Of(holder[Home[u]], a, Asks(session'[u]))
         /\ UploadBytes(a) \in Nat /\ UploadBytes(a)' \in Nat
<1>1. PICK f, g : f = AskedBy(holder, session, a) /\ g = AskedBy(holder', session', a)
  OBVIOUS
<1>2. /\ UploadBytes(a) = SumFunctionOnSet(f, Uploads) /\ UploadBytes(a)' = SumFunctionOnSet(g, Uploads)
      /\ UploadBytes(a) \in Nat /\ UploadBytes(a)' \in Nat
      /\ \A v \in Uploads : f[v] \in Nat /\ g[v] \in Nat
  BY <1>1, UploadBytesAre, UploadBytesNext DEF Sound
<1>3. \A v \in Uploads \ {u} : g[v] = f[v]
  BY <1>1 DEF AskedBy
<1>4. f[u] = Of(holder[Home[u]], a, Asks(session[u])) /\ g[u] = Of(holder[Home[u]], a, Asks(session'[u]))
  BY <1>1 DEF AskedBy
<1>5. SumFunctionOnSet(g, Uploads) = SumFunctionOnSet(f, Uploads) - f[u] + g[u]
  BY <1>2, <1>3, SumChange DEF Given
<1> QED
  BY <1>2, <1>4, <1>5

(* An account stays within the quota. *)
Within(a) == Charge(a)' <= Charge(a) \/ Charge(a)' <= Quota

LEMMA QuotaHolds ==
  ASSUME Given, Sound, Sound', QuotaKept, ~raced, over \subseteq over', \A a \in Accounts \ over' : Within(a)
  PROVE  QuotaKept'
<1>1. SUFFICES ASSUME NEW a \in Accounts \ over' PROVE Charge(a)' <= Quota
  BY DEF QuotaKept
<1>2. Charge(a) <= Quota
  BY DEF QuotaKept
<1>3. Charge(a) \in Nat /\ Charge(a)' \in Nat /\ Quota \in Nat
  <2>1. UploadBytes(a) \in Nat /\ UploadBytes(a)' \in Nat
    BY UploadBytesAre, UploadBytesNext DEF Sound
  <2>2. account[a] \in Row /\ account'[a] \in Row
    BY DEF Sound, Shape
  <2> QED
    BY <2>1, <2>2 DEF Charge, Row, Given
<1>4. Within(a)
  OBVIOUS
<1> QED
  BY <1>2, <1>3, <1>4 DEF Within

(* A charge that does not grow is within it. *)
LEMMA ChargeNoMore ==
  ASSUME Given, Sound, Sound', NEW a \in Accounts, \A u \in Uploads : AsksNoMore(u, a),
         account'[a].kept + account'[a].held <= account[a].kept + account[a].held
  PROVE  Within(a)
<1>1. UploadBytes(a)' <= UploadBytes(a) /\ UploadBytes(a) \in Nat /\ UploadBytes(a)' \in Nat
  BY UploadsAskNoMore
<1>2. account[a] \in Row /\ account'[a] \in Row
  BY DEF Sound, Shape
<1>3. PICK x, x2, y, y2, z, z2 : /\ x = account[a].kept /\ x2 = account'[a].kept
                                 /\ y = account[a].held /\ y2 = account'[a].held
                                 /\ z = UploadBytes(a) /\ z2 = UploadBytes(a)'
  OBVIOUS
<1>4. x \in Nat /\ x2 \in Nat /\ y \in Nat /\ y2 \in Nat /\ z \in Nat /\ z2 \in Nat /\ x2 + y2 <= x + y /\ z2 <= z
  BY <1>1, <1>2, <1>3 DEF Row
<1>5. x2 + y2 + z2 <= x + y + z
  BY <1>4
<1>6. Charge(a) = x + y + z /\ Charge(a)' = x2 + y2 + z2
  BY <1>3 DEF Charge
<1> QED
  BY <1>5, <1>6 DEF Within

LEMMA AsksOfHolder ==
  ASSUME Given, Sound, Sound', holder' = holder, NEW a, \A u \in Uploads : Asks(session'[u]) <= Asks(session[u])
  PROVE  \A u \in Uploads : AsksNoMore(u, a)
<1>1. \A u \in Uploads : Asks(session'[u]) \in Nat /\ Asks(session[u]) \in Nat
  BY DEF Asks, Sound, Shape, Session
<1> QED
  BY <1>1 DEF AsksNoMore, Of

(* Nothing is charged: what there is stays within. *)
LEMMA NothingSpent ==
  ASSUME Given, Sound, Sound', AccountsAdd, QuotaKept, ~raced, UNCHANGED <<holder, usage, account, cut>>,
         over \subseteq over', \A u \in Uploads : Asks(session'[u]) <= Asks(session[u])
  PROVE  AccountsAdd' /\ QuotaKept'
<1>1. AccountsAdd'
  BY DEF AccountsAdd, Held
<1>2. ASSUME NEW a \in Accounts PROVE Within(a)
  <2>1. \A u \in Uploads : AsksNoMore(u, a)
    BY AsksOfHolder
  <2>2. account[a].kept + account[a].held \in Nat
    BY DEF Sound, Shape, Row
  <2> QED
    BY <2>1, <2>2, ChargeNoMore
<1> QED
  BY <1>1, <1>2, QuotaHolds

LEMMA AccountsAddUps == AccountsAdd <=> raced \/ \A a \in Accounts : AddsUp(a)
BY DEF AccountsAdd, AddsUp, KeptIn, HeldIn

LEMMA AccountsAddNext == ASSUME \A a \in Accounts : AddsUp(a)' PROVE AccountsAdd'
BY DEF AccountsAdd, AddsUp, KeptIn, HeldIn

(* Both books move by the same, but for what is cut off. *)
LEMMA BooksAdd ==
  ASSUME Given, Sound, Sound', AccountsAdd, ~raced, NEW p \in Procs, NEW dk \in Int, NEW dh \in Int, Books(p, dk, dh),
         NEW w \in Workspaces, w = proc[p].w, NEW a, a = proc[p].seen, a # None, LocksHolder(p), holder' = holder,
         usage[w].held + dh >= 0, usage[w].kept + dk >= 0 \/ w \in torn
  PROVE  /\ AccountsAdd' /\ a \in Accounts /\ holder[w] = a
         /\ account[a].kept \in Nat /\ account[a].held \in Nat
         /\ account'[a].held = account[a].held + dh
         /\ account'[a].kept = NotBelow0(account[a].kept + dk)
         /\ \A b \in Accounts \ {a} : account'[b] = account[b]
<1>1. a \in Accounts /\ holder[w] = a
  BY DEF LocksHolder, Sound, Shape
<1>2. /\ usage[w].kept \in Nat /\ usage[w].held \in Nat /\ account[a].kept \in Nat /\ account[a].held \in Nat
      /\ usage \in [Workspaces -> Row] /\ account \in [Accounts -> Row]
  BY <1>1 DEF Sound, Shape, Row
<1>3. /\ usage'[w].kept = NotBelow0(usage[w].kept + dk) /\ usage'[w].held = NotBelow0(usage[w].held + dh)
      /\ \A x \in Workspaces \ {w} : usage'[x] = usage[x]
  BY BooksHere DEF Sound
<1>4. /\ account'[a].kept = NotBelow0(account[a].kept + dk) /\ account'[a].held = NotBelow0(account[a].held + dh)
      /\ \A b \in Accounts \ {a} : account'[b] = account[b]
  BY <1>1, <1>2 DEF Books, Adds
<1>5. usage'[w].held = usage[w].held + dh
  BY <1>2, <1>3, NotBelow0IsNat
<1>6. AddsUp(a)
  BY <1>1, AccountsAddUps
<1>7. /\ KeptIn(a)' = KeptIn(a) - usage[w].kept + usage'[w].kept /\ HeldIn(a)' = HeldIn(a) - usage[w].held + usage'[w].held
      /\ usage[w].kept <= KeptIn(a) /\ usage[w].held <= HeldIn(a) /\ KeptIn(a) \in Nat /\ HeldIn(a) \in Nat
  <2>1. /\ KeptIn(a)' = KeptIn(a) - Of(holder[w], a, usage[w].kept) + Of(holder'[w], a, usage'[w].kept)
        /\ HeldIn(a)' = HeldIn(a) - Of(holder[w], a, usage[w].held) + Of(holder'[w], a, usage'[w].held)
        /\ Of(holder[w], a, usage[w].kept) <= KeptIn(a) /\ Of(holder[w], a, usage[w].held) <= HeldIn(a)
        /\ KeptIn(a) \in Nat /\ HeldIn(a) \in Nat
    BY <1>1, <1>3, AccountChanges
  <2>2. /\ Of(holder[w], a, usage[w].kept) = usage[w].kept /\ Of(holder'[w], a, usage'[w].kept) = usage'[w].kept
        /\ Of(holder[w], a, usage[w].held) = usage[w].held /\ Of(holder'[w], a, usage'[w].held) = usage'[w].held
    BY <1>1 DEF Of
  <2> QED
    BY <2>1, <2>2
<1>8. account[a].held = HeldIn(a) /\ (a \notin cut => account[a].kept = KeptIn(a))
  BY <1>6 DEF AddsUp
<1>9. account'[a].held = account[a].held + dh
  <2>1. account[a].held + dh >= 0 /\ account[a].held + dh \in Int
    BY <1>2, <1>7, <1>8
  <2> QED
    BY <1>4, <2>1, NotBelow0IsNat
<1>10. cut \subseteq cut' /\ (a \notin cut' => usage[w].kept + dk >= 0)
  <2>1. cut' = IF w \in torn /\ usage[w].kept + dk < 0 THEN cut \cup {a} ELSE cut
    BY DEF Books
  <2>2. usage[w].kept + dk \in Int
    BY <1>2
  <2> QED
    BY <2>1, <2>2
<1>11. AddsUp(a)'
  <2>1. account'[a].held = HeldIn(a)'
    BY <1>2, <1>5, <1>7, <1>8, <1>9
  <2>2. ASSUME a \notin cut' PROVE account'[a].kept = KeptIn(a)'
    <3>1. usage[w].kept + dk >= 0 /\ account[a].kept = KeptIn(a)
      BY <1>8, <1>10, <2>2
    <3>2. usage'[w].kept = usage[w].kept + dk
      BY <1>2, <1>3, <3>1, NotBelow0IsNat
    <3>3. account[a].kept + dk >= 0 /\ account[a].kept + dk \in Int
      BY <1>2, <1>7, <3>1
    <3>4. account'[a].kept = account[a].kept + dk
      BY <1>4, <3>3, NotBelow0IsNat
    <3> QED
      BY <1>2, <1>7, <3>1, <3>2, <3>4
  <2> QED
    BY <2>1, <2>2 DEF AddsUp
<1>12. ASSUME NEW b \in Accounts, b # a PROVE AddsUp(b)'
  <2>1. AddsUp(b)
    BY AccountsAddUps
  <2>2. /\ KeptIn(b)' = KeptIn(b) - Of(holder[w], b, usage[w].kept) + Of(holder'[w], b, usage'[w].kept)
        /\ HeldIn(b)' = HeldIn(b) - Of(holder[w], b, usage[w].held) + Of(holder'[w], b, usage'[w].held)
        /\ KeptIn(b) \in Nat /\ HeldIn(b) \in Nat
    BY <1>3, AccountChanges
  <2>3. /\ Of(holder[w], b, usage[w].kept) = 0 /\ Of(holder'[w], b, usage'[w].kept) = 0
        /\ Of(holder[w], b, usage[w].held) = 0 /\ Of(holder'[w], b, usage'[w].held) = 0
    BY <1>1, <1>12 DEF Of
  <2>4. KeptIn(b)' = KeptIn(b) /\ HeldIn(b)' = HeldIn(b)
    BY <2>2, <2>3
  <2> QED
    BY <1>4, <1>10, <1>12, <2>1, <2>4 DEF AddsUp
<1>13. AccountsAdd'
  BY <1>11, <1>12, AccountsAddNext
<1> QED
  BY <1>1, <1>2, <1>4, <1>9, <1>13

(* Both books, with no more in all, or for an account that is over. *)
LEMMA BooksSpend ==
  ASSUME Given, Sound, Sound', AccountsAdd, QuotaKept, ~raced, NEW p \in Procs, NEW dk \in Int, NEW dh \in Int,
         Books(p, dk, dh), NEW w \in Workspaces, w = proc[p].w, NEW a, a = proc[p].seen, a # None, LocksHolder(p),
         holder' = holder, usage[w].held + dh >= 0, usage[w].kept + dk >= 0 \/ w \in torn,
         over \subseteq over', a \in over' \/ (dk + dh <= 0 /\ dh <= 0),
         \A u \in Uploads : Asks(session'[u]) <= Asks(session[u])
  PROVE  AccountsAdd' /\ QuotaKept'
<1>1. /\ AccountsAdd' /\ a \in Accounts
      /\ account[a].kept \in Nat /\ account[a].held \in Nat
      /\ account'[a].held = account[a].held + dh
      /\ account'[a].kept = NotBelow0(account[a].kept + dk)
      /\ \A b \in Accounts \ {a} : account'[b] = account[b]
  BY BooksAdd
<1>2. ASSUME NEW b \in Accounts \ over' PROVE Within(b)
  <2>1. \A u \in Uploads : AsksNoMore(u, b)
    BY AsksOfHolder
  <2>2. account'[b].kept + account'[b].held <= account[b].kept + account[b].held
    <3>1. CASE b # a
      BY <1>1, <3>1 DEF Sound, Shape, Row
    <3>2. CASE b = a
      <4>1. dk + dh <= 0 /\ dh <= 0
        BY <3>2
      <4>2. CASE account[a].kept + dk >= 0
        <5>1. account'[a].kept = account[a].kept + dk
          BY <1>1, <4>2, NotBelow0IsNat
        <5> QED
          BY <1>1, <3>2, <4>1, <5>1
      <4>3. CASE ~(account[a].kept + dk >= 0)
        <5>1. account'[a].kept = 0
          BY <1>1, <4>3, NotBelow0IsNat
        <5> QED
          BY <1>1, <3>2, <4>1, <5>1
      <4> QED
        BY <4>2, <4>3
    <3> QED
      BY <3>1, <3>2
  <2> QED
    BY <2>1, <2>2, ChargeNoMore
<1> QED
  BY <1>1, <1>2, QuotaHolds

LEMMA AsksSame == ASSUME Sound, session' = session PROVE \A u \in Uploads : Asks(session'[u]) <= Asks(session[u])
BY DEF Asks, Sound, Shape, Session

(* What a call at a path holds and is due is in its row. *)
LEMMA RowCovers ==
  ASSUME Given, Sound, Balanced, ~raced, NEW p \in Procs, proc[p].kind \in Keyed, NEW w, w = proc[p].w,
         NEW k, k = proc[p].key
  PROVE  /\ usage[w].held >= HoldBy(proc[p], w, k) + Finalizing(w)
         /\ w \notin torn => usage[w].kept >= DueBy(proc[p], w, k, stored[w][k])
         /\ HoldBy(proc[p], w, k) \in Nat
<1>1. w \in Workspaces /\ Finalizing(w) \in Nat /\ usage[w].held \in Nat /\ usage[w].kept \in Nat /\ stored[w][k] \in Nat
  BY Numbers
<1>2. /\ DueBy(proc[p], w, k, stored[w][k]) <= KeptDue(w) /\ HoldBy(proc[p], w, k) <= HoldSum(proc, w)
      /\ KeptDue(w) \in Nat /\ HoldSum(proc, w) \in Nat
  BY HereSums
<1>3. DueBy(proc[p], w, k, stored[w][k]) \in Nat /\ HoldBy(proc[p], w, k) \in Nat
  BY <1>1, Places
<1>4. /\ w \notin torn => usage[w].kept = KeptDue(w)
      /\ usage[w].held >= HoldSum(proc, w) + Finalizing(w)
  BY <1>1, RowsHere DEF HeldDue
<1> QED
  BY <1>1, <1>2, <1>3, <1>4

(* A call that holds nothing in the books, or gives all of it back. *)
LEMMA FinishSpends ==
  ASSUME Given, Sound, Sound', Balanced, AccountsAdd, QuotaKept, ~raced, NEW p \in Procs, Finish(p)
  PROVE  AccountsAdd' /\ QuotaKept'
<1>1. PICK w, k : w = proc[p].w /\ k = proc[p].key
  OBVIOUS
<1>2. proc[p].kind \in {"write", "remove"} /\ proc[p].kind \in Keyed /\ proc[p].pc = "finish"
  BY Handlers DEF Finish, At, Keyed
<1>3. /\ w \in Workspaces /\ usage[w].kept \in Nat /\ usage[w].held \in Nat /\ Finalizing(w) \in Nat
      /\ proc[p].was \in Nat /\ proc[p].size \in Nat /\ proc[p].held \in Nat
  BY <1>1, <1>2, Numbers
<1>4. UNCHANGED <<holder, session, over>> /\ LocksHolder(p)
  BY DEF Finish, ghosts
<1>5. CASE proc[p].seen = None
  BY <1>4, <1>5, NothingSpent, AsksSame DEF Finish, books
<1>6. CASE proc[p].seen # None
  <2>1. PICK dk, dh : dk = proc[p].size - proc[p].was /\ dh = -proc[p].held
    OBVIOUS
  <2>2. Books(p, dk, dh)
    BY <1>6, <2>1 DEF Finish
  <2>3. proc[p].held = NotBelow0(proc[p].size - proc[p].was)
    BY <1>2 DEF Sound, CallsFit, Fits
  <2>4. dk \in Int /\ dh \in Int /\ dk + dh <= 0 /\ dh <= 0
    BY <1>3, <2>1, <2>3 DEF NotBelow0
  <2>5. DueBy(proc[p], w, k, stored[w][k]) = proc[p].was /\ HoldBy(proc[p], w, k) = proc[p].held
    BY <1>1, <1>2, Places
  <2>6. usage[w].held >= proc[p].held + Finalizing(w) /\ (w \notin torn => usage[w].kept >= proc[p].was)
    BY <1>1, <1>2, <2>5, RowCovers
  <2>7. usage[w].held + dh >= 0 /\ (usage[w].kept + dk >= 0 \/ w \in torn)
    BY <1>3, <2>1, <2>6
  <2> QED
    BY <1>1, <1>3, <1>4, <1>6, <2>2, <2>4, <2>7, BooksSpend, AsksSame
<1> QED
  BY <1>5, <1>6

LEMMA UndoSpends ==
  ASSUME Given, Sound, Sound', Balanced, AccountsAdd, QuotaKept, ~raced, NEW p \in Procs, Undo(p)
  PROVE  AccountsAdd' /\ QuotaKept'
<1>1. PICK w, k : w = proc[p].w /\ k = proc[p].key
  OBVIOUS
<1>2. proc[p].kind \in Keyed /\ proc[p].pc = "undo"
  BY Handlers DEF Undo, At, Keyed
<1>3. /\ w \in Workspaces /\ usage[w].kept \in Nat /\ usage[w].held \in Nat /\ Finalizing(w) \in Nat
      /\ proc[p].held \in Nat
  BY <1>1, <1>2, Numbers
<1>4. UNCHANGED <<holder, session, over>> /\ LocksHolder(p)
  BY DEF Undo
<1>5. CASE proc[p].seen = None
  BY <1>4, <1>5, NothingSpent, AsksSame DEF Undo, books
<1>6. CASE proc[p].seen # None
  <2>1. PICK dh : dh = -proc[p].held
    OBVIOUS
  <2>2. Books(p, 0, dh)
    BY <1>6, <2>1 DEF Undo
  <2>3. dh \in Int /\ 0 + dh <= 0 /\ dh <= 0 /\ 0 \in Int
    BY <1>3, <2>1
  <2>4. HoldBy(proc[p], w, k) = proc[p].held
    BY <1>1, <1>2, Places
  <2>5. usage[w].held >= proc[p].held + Finalizing(w)
    BY <1>1, <1>2, <2>4, RowCovers
  <2>6. usage[w].held + dh >= 0 /\ usage[w].kept + 0 >= 0
    BY <1>3, <2>1, <2>5
  <2> QED
    BY <1>1, <1>3, <1>4, <1>6, <2>2, <2>3, <2>6, BooksSpend, AsksSame
<1> QED
  BY <1>5, <1>6

LEMMA SettleSpends ==
  ASSUME Given, Sound, Sound', Balanced, AccountsAdd, QuotaKept, ~raced, NEW p \in Procs, Settle(p)
  PROVE  AccountsAdd' /\ QuotaKept'
<1>1. PICK w, k, u : w = proc[p].w /\ k = proc[p].key /\ u = proc[p].up
  OBVIOUS
<1>2. proc[p].kind = "upload" /\ proc[p].kind \in Keyed /\ proc[p].pc = "settle"
  BY Handlers DEF Settle, At, Keyed
<1>3. /\ w \in Workspaces /\ usage[w].kept \in Nat /\ usage[w].held \in Nat /\ Finalizing(w) \in Nat
      /\ proc[p].was \in Nat /\ proc[p].size \in Nat
  BY <1>1, <1>2, Numbers
<1>4. UNCHANGED <<holder, over>> /\ LocksHolder(p)
  BY DEF Settle
<1>5. u \in Uploads /\ w = Home[u] /\ proc[p].size = Size[u] /\ session[u].finalizing \in {0, Size[u]} /\ Size[u] \in Nat
  BY <1>1, <1>2 DEF Sound, CallsFit, Fits, SessionFits, Given
<1>6. \A v \in Uploads : Asks(session'[v]) <= Asks(session[v])
  <2>1. session' = session \/ session' = [session EXCEPT ![u] = [@ EXCEPT !.finalizing = 0]]
    BY <1>1, <1>5 DEF Settle, Settled, Sound, Shape
  <2> QED
    BY <2>1 DEF Asks, Sound, Shape, Session
<1>7. CASE proc[p].seen = None \/ session[u].finalizing = 0
  <2>1. UNCHANGED books
    BY <1>1, <1>7 DEF Settle, Settled
  <2> QED
    BY <1>4, <1>6, <2>1, NothingSpent DEF books
<1>8. CASE proc[p].seen # None /\ session[u].finalizing # 0
  <2>1. PICK dk, dh : dk = proc[p].size - proc[p].was /\ dh = -session[u].finalizing
    OBVIOUS
  <2>2. Books(p, dk, dh)
    BY <1>1, <1>8, <2>1 DEF Settle, Settled
  <2>3. dk \in Int /\ dh \in Int /\ dk + dh <= 0 /\ dh <= 0
    BY <1>3, <1>5, <1>8, <2>1
  <2>4. DueBy(proc[p], w, k, stored[w][k]) = proc[p].was
    BY <1>1, <1>2, Places
  <2>5. usage[w].held >= Finalizing(w) /\ (w \notin torn => usage[w].kept >= proc[p].was)
    BY <1>1, <1>2, <1>3, <2>4, RowCovers
  <2>6. session[u].finalizing <= Finalizing(w)
    <3>1. session'[u].finalizing = 0 /\ \A v \in Uploads \ {u} : session'[v].finalizing = session[v].finalizing
      BY <1>1, <1>5, <1>8 DEF Settle, Settled, Sound, Shape, Session
    <3> QED
      BY <1>3, <1>5, <3>1, FinalizingChanges
  <2>7. usage[w].held + dh >= 0 /\ (usage[w].kept + dk >= 0 \/ w \in torn)
    BY <1>3, <1>5, <2>1, <2>5, <2>6
  <2>8. w \in Workspaces /\ w = proc[p].w /\ proc[p].seen # None
    BY <1>1, <1>3, <1>8
  <2> QED
    BY <1>4, <1>6, <2>2, <2>3, <2>7, <2>8, BooksSpend
<1> QED
  BY <1>7, <1>8

LEMMA AbandonSpends ==
  ASSUME Given, Sound, Sound', Balanced, AccountsAdd, QuotaKept, ~raced, NEW p \in Procs, Abandon(p)
  PROVE  AccountsAdd' /\ QuotaKept'
<1>1. PICK w, k, u : w = proc[p].w /\ k = proc[p].key /\ u = proc[p].up
  OBVIOUS
<1>2. proc[p].kind = "upload" /\ proc[p].kind \in Keyed /\ proc[p].pc = "abandon"
  BY Handlers DEF Abandon, At, Keyed
<1>3. /\ w \in Workspaces /\ usage[w].kept \in Nat /\ usage[w].held \in Nat /\ Finalizing(w) \in Nat
  BY <1>1, <1>2, Numbers
<1>4. UNCHANGED <<holder, over>> /\ LocksHolder(p)
  BY DEF Abandon
<1>5. u \in Uploads /\ w = Home[u] /\ session[u].finalizing \in Nat
  BY <1>1, <1>2, UploadSession DEF Session
<1>6. PICK givesBack : givesBack = (u \notin left.attaching /\ proc[p].seen # None)
  OBVIOUS
<1>7. /\ IF givesBack /\ session[u].finalizing > 0 THEN Books(p, 0, -session[u].finalizing) ELSE UNCHANGED books
      /\ session' = [session EXCEPT ![u] = [@ EXCEPT !.op = FALSE,
                                            !.finalizing = IF givesBack THEN 0 ELSE session[u].finalizing]]
  BY <1>1, <1>6 DEF Abandon
<1>8. \A v \in Uploads : Asks(session'[v]) <= Asks(session[v])
  BY <1>7 DEF Asks, Sound, Shape, Session
<1>9. CASE ~(givesBack /\ session[u].finalizing > 0)
  <2>1. UNCHANGED books
    BY <1>7, <1>9
  <2> QED
    BY <1>4, <1>8, <2>1, NothingSpent DEF books
<1>10. CASE givesBack /\ session[u].finalizing > 0
  <2>1. PICK dh : dh = -session[u].finalizing
    OBVIOUS
  <2>2. Books(p, 0, dh) /\ proc[p].seen # None
    BY <1>6, <1>7, <1>10, <2>1
  <2>3. dh \in Int /\ 0 + dh <= 0 /\ dh <= 0 /\ 0 \in Int
    BY <1>5, <2>1
  <2>4. usage[w].held >= HoldBy(proc[p], w, k) + Finalizing(w) /\ HoldBy(proc[p], w, k) \in Nat
    BY <1>1, <1>2, RowCovers
  <2>5. session[u].finalizing <= Finalizing(w)
    <3>1. \A v \in Uploads \ {u} : session'[v].finalizing = session[v].finalizing
      BY <1>7 DEF Sound, Shape
    <3> QED
      BY <1>3, <1>5, <3>1, FinalizingChanges
  <2>6. usage[w].held + dh >= 0 /\ usage[w].kept + 0 >= 0
    BY <1>3, <1>5, <2>1, <2>4, <2>5
  <2> QED
    BY <1>1, <1>3, <1>4, <1>8, <2>2, <2>3, <2>6, BooksSpend
<1> QED
  BY <1>9, <1>10

LEMMA ReserveSpends ==
  ASSUME Given, Sound, Sound', Balanced, AccountsAdd, QuotaKept, ~raced, NEW p \in Procs, Reserve(p)
  PROVE  AccountsAdd' /\ QuotaKept'
<1>1. PICK w, k, a : w = proc[p].w /\ k = proc[p].key /\ a = proc[p].seen
  OBVIOUS
<1>2. proc[p].kind \in Keyed /\ proc[p].pc = "reserve"
  BY Handlers DEF Reserve, At, Keyed
<1>3. w \in Workspaces /\ usage[w].kept \in Nat /\ usage[w].held \in Nat /\ proc[p].held \in Nat
  BY <1>1, <1>2, Numbers
<1>4. UNCHANGED <<holder, session, over>> /\ LocksHolder(p)
  BY DEF Reserve, ghosts
<1>5. CASE UNCHANGED books
  BY <1>4, <1>5, NothingSpent, AsksSame DEF books
<1>6. CASE ~(UNCHANGED books)
  <2>1. a # None /\ Charge(a) + proc[p].held <= Quota /\ Books(p, 0, proc[p].held)
    BY <1>1, <1>6 DEF Reserve
  <2>2. PICK dh : dh = proc[p].held
    OBVIOUS
  <2>3. Books(p, 0, dh) /\ 0 \in Int /\ dh \in Int /\ usage[w].held + dh >= 0 /\ usage[w].kept + 0 >= 0
    BY <1>3, <2>1, <2>2
  <2>4. /\ AccountsAdd' /\ a \in Accounts /\ account[a].kept \in Nat /\ account[a].held \in Nat
        /\ account'[a].held = account[a].held + dh /\ account'[a].kept = NotBelow0(account[a].kept + 0)
        /\ \A b \in Accounts \ {a} : account'[b] = account[b]
    BY <1>1, <1>3, <1>4, <2>1, <2>3, BooksAdd
  <2>5. account'[a].kept = account[a].kept
    BY <2>4, NotBelow0IsNat
  <2>6. ASSUME NEW b \in Accounts PROVE Within(b)
    <3>1. \A u \in Uploads : AsksNoMore(u, b)
      BY <1>4, AsksOfHolder, AsksSame
    <3>2. CASE b # a
      <4>1. account'[b].kept + account'[b].held <= account[b].kept + account[b].held
        BY <2>4, <3>2 DEF Sound, Shape, Row
      <4> QED
        BY <3>1, <4>1, ChargeNoMore
    <3>3. CASE b = a
      <4>1. UploadBytes(a)' <= UploadBytes(a) /\ UploadBytes(a) \in Nat /\ UploadBytes(a)' \in Nat
        BY <3>1, <3>3, UploadsAskNoMore
      <4>2. Charge(a)' = account[a].kept + (account[a].held + dh) + UploadBytes(a)'
        BY <2>4, <2>5 DEF Charge
      <4>3. Charge(a) = account[a].kept + account[a].held + UploadBytes(a)
        BY DEF Charge
      <4>4. Charge(a)' <= Charge(a) + dh
        BY <1>3, <2>2, <2>4, <4>1, <4>2, <4>3
      <4>5. Charge(a)' \in Nat /\ Charge(a) \in Nat /\ Quota \in Nat
        BY <1>3, <2>2, <2>4, <4>1, <4>2, <4>3 DEF Given
      <4>6. Charge(a)' <= Quota
        BY <1>3, <2>1, <2>2, <4>4, <4>5
      <4> QED
        BY <3>3, <4>6 DEF Within
    <3> QED
      BY <3>2, <3>3
  <2> QED
    BY <1>4, <2>4, <2>6, QuotaHolds
<1> QED
  BY <1>5, <1>6

LEMMA BeginFinalizeSpends ==
  ASSUME Given, Sound, Sound', Balanced, AccountsAdd, QuotaKept, ~raced, NEW p \in Procs, BeginFinalize(p)
  PROVE  AccountsAdd' /\ QuotaKept'
<1>1. PICK w, k, u, a : w = proc[p].w /\ k = proc[p].key /\ u = proc[p].up /\ a = proc[p].seen
  OBVIOUS
<1>2. proc[p].kind = "upload" /\ proc[p].kind \in Keyed /\ proc[p].pc = "begin"
  BY Handlers DEF BeginFinalize, At, Keyed
<1>3. /\ w \in Workspaces /\ usage[w].kept \in Nat /\ usage[w].held \in Nat
  BY <1>1, <1>2, Numbers
<1>4. holder' = holder /\ LocksHolder(p)
  BY DEF BeginFinalize
<1>5. u \in Uploads /\ w = Home[u] /\ session[u].bytes \in Nat
  BY <1>1, <1>2, UploadSession DEF Session
<1>6. CASE UNCHANGED <<books, session, over>>
  BY <1>4, <1>6, NothingSpent, AsksSame DEF books
<1>7. CASE ~(UNCHANGED <<books, session, over>>)
  <2>1. /\ a # None /\ Books(p, 0, session[u].bytes)
        /\ session' = [session EXCEPT ![u] = [@ EXCEPT !.bytes = 0, !.finalizing = session[u].bytes]]
        /\ over' = IF session[u].live THEN over ELSE over \cup {a}
    BY <1>1, <1>7 DEF BeginFinalize
  <2>2. PICK dh : dh = session[u].bytes
    OBVIOUS
  <2>3. Books(p, 0, dh) /\ 0 \in Int /\ dh \in Int /\ usage[w].held + dh >= 0 /\ usage[w].kept + 0 >= 0
    BY <1>3, <1>5, <2>1, <2>2
  <2>4. \A v \in Uploads : Asks(session'[v]) <= Asks(session[v])
    BY <2>1 DEF Asks, Sound, Shape, Session
  <2>5. CASE ~session[u].live
    <3>1. a \in over' /\ over \subseteq over'
      BY <2>1, <2>5
    <3> QED
      BY <1>1, <1>3, <1>4, <2>1, <2>3, <2>4, <3>1, BooksSpend
  <2>6. CASE session[u].live
    <3>1. /\ AccountsAdd' /\ a \in Accounts /\ holder[w] = a
          /\ account[a].kept \in Nat /\ account[a].held \in Nat
          /\ account'[a].held = account[a].held + dh /\ account'[a].kept = NotBelow0(account[a].kept + 0)
          /\ \A b \in Accounts \ {a} : account'[b] = account[b]
      BY <1>1, <1>3, <1>4, <2>1, <2>3, BooksAdd
    <3>2. account'[a].kept = account[a].kept
      BY <3>1, NotBelow0IsNat
    <3>3. Asks(session'[u]) = 0 /\ Asks(session[u]) = dh /\ \A v \in Uploads \ {u} : Asks(session'[v]) = Asks(session[v])
      BY <1>5, <2>1, <2>2, <2>6 DEF Asks, Sound, Shape, Session
    <3>4. /\ UploadBytes(a)' = UploadBytes(a) - dh + 0 /\ UploadBytes(a) \in Nat /\ UploadBytes(a)' \in Nat
      <4>1. Of(holder[Home[u]], a, Asks(session[u])) = dh /\ Of(holder[Home[u]], a, Asks(session'[u])) = 0
        BY <1>5, <3>1, <3>3 DEF Of
      <4>2. /\ UploadBytes(a)' = UploadBytes(a) - Of(holder[Home[u]], a, Asks(session[u]))
                                 + Of(holder[Home[u]], a, Asks(session'[u]))
            /\ UploadBytes(a) \in Nat /\ UploadBytes(a)' \in Nat
        BY <1>4, <1>5, <3>3, OneAsks
      <4> QED
        BY <4>1, <4>2
    <3>5. ASSUME NEW b \in Accounts PROVE Within(b)
      <4>1. CASE b # a
        <5>1. account'[b].kept + account'[b].held <= account[b].kept + account[b].held
          BY <3>1, <4>1 DEF Sound, Shape, Row
        <5> QED
          BY <1>4, <2>4, <5>1, AsksOfHolder, ChargeNoMore
      <4>2. CASE b = a
        <5>1. Charge(a)' = account[a].kept + (account[a].held + dh) + UploadBytes(a)'
          BY <3>1, <3>2 DEF Charge
        <5>2. Charge(a) = account[a].kept + account[a].held + UploadBytes(a)
          BY DEF Charge
        <5>3. Charge(a)' <= Charge(a)
          BY <1>5, <2>2, <3>1, <3>4, <5>1, <5>2
        <5> QED
          BY <4>2, <5>3 DEF Within
      <4> QED
        BY <4>1, <4>2
    <3> QED
      BY <2>1, <2>6, <3>1, <3>5, QuotaHolds
  <2> QED
    BY <2>5, <2>6
<1> QED
  BY <1>6, <1>7

LEMMA ReserveUploadSpends ==
  ASSUME Given, Sound, Sound', Balanced, AccountsAdd, QuotaKept, ~raced, NEW p \in Procs, ReserveUpload(p)
  PROVE  AccountsAdd' /\ QuotaKept'
<1>1. PICK w, u, a : w = proc[p].w /\ u = proc[p].up /\ a = proc[p].seen
  OBVIOUS
<1>2. u \in Uploads /\ w = Home[u] /\ w \in Workspaces /\ Size[u] \in Nat /\ Quota \in Nat
  <2>1. proc[p].kind = "create"
    BY Handlers DEF ReserveUpload, At
  <2> QED
    BY <1>1, <2>1 DEF Sound, CallsFit, Fits, Given
<1>3. UNCHANGED <<holder, usage, account, cut, over>> /\ LocksHolder(p)
  BY DEF ReserveUpload, books, ghosts
<1>4. CASE ~session[u].there \/ a = None
  <2>1. session' = session
    BY <1>1, <1>4 DEF ReserveUpload, Sound, Shape
  <2> QED
    BY <1>3, <2>1, NothingSpent, AsksSame
<1>5. CASE ~(~session[u].there \/ a = None) /\ Charge(a) + Size[u] > Quota
  <2>1. session' = [session EXCEPT ![u] = NoSession] \/ session' = session
    BY <1>1, <1>5 DEF ReserveUpload, Sound, Shape
  <2>2. \A v \in Uploads : Asks(session'[v]) <= Asks(session[v])
    BY <2>1, NoSessionIsOne DEF Asks, Sound, Shape, Session
  <2> QED
    BY <1>3, <2>2, NothingSpent
<1>6. CASE ~(~session[u].there \/ a = None) /\ ~(Charge(a) + Size[u] > Quota)
  <2>1. session' = [session EXCEPT ![u] = [@ EXCEPT !.bytes = Size[u], !.live = TRUE]]
    BY <1>1, <1>6 DEF ReserveUpload, Sound, Shape
  <2>2. Asks(session'[u]) = Size[u] /\ \A v \in Uploads \ {u} : Asks(session'[v]) = Asks(session[v])
    BY <1>2, <2>1 DEF Asks, Sound, Shape, Session
  <2>3. AccountsAdd'
    BY <1>3 DEF AccountsAdd, Held
  <2>4. a \in Accounts /\ holder[w] = a
    BY <1>1, <1>2, <1>3, <1>6 DEF LocksHolder, Sound, Shape
  <2>5. \A v \in Uploads : Asks(session[v]) \in Nat
    BY DEF Asks, Sound, Shape, Session
  <2>6. ASSUME NEW b \in Accounts PROVE Within(b)
    <3>1. PICK m, n : m = Of(holder[Home[u]], b, Asks(session[u])) /\ n = Of(holder[Home[u]], b, Asks(session'[u]))
      OBVIOUS
    <3>2. UploadBytes(b)' = UploadBytes(b) - m + n /\ UploadBytes(b) \in Nat /\ UploadBytes(b)' \in Nat
      BY <1>2, <1>3, <2>2, <3>1, OneAsks
    <3>3. m \in Nat /\ account[b].kept \in Nat /\ account[b].held \in Nat
      BY <1>2, <2>5, <3>1, OfIsNat DEF Sound, Shape, Row
    <3>4. /\ Charge(b)' = account[b].kept + account[b].held + UploadBytes(b)'
          /\ Charge(b) = account[b].kept + account[b].held + UploadBytes(b)
      BY <1>3 DEF Charge
    <3>5. CASE b = a
      <4>1. n = Size[u]
        BY <1>2, <2>2, <2>4, <3>1, <3>5 DEF Of
      <4>2. Charge(b)' <= Charge(b) + Size[u] /\ Charge(b) \in Nat /\ Charge(b)' \in Nat
        BY <1>2, <3>2, <3>3, <3>4, <4>1
      <4>3. Charge(b)' <= Quota
        BY <1>2, <1>6, <3>5, <4>2
      <4> QED
        BY <4>3 DEF Within
    <3>6. CASE b # a
      <4>1. n = 0
        BY <1>2, <2>4, <3>1, <3>6 DEF Of
      <4>2. Charge(b)' <= Charge(b)
        BY <3>2, <3>3, <3>4, <4>1
      <4> QED
        BY <4>2 DEF Within
    <3> QED
      BY <3>5, <3>6
  <2> QED
    BY <1>3, <2>3, <2>6, QuotaHolds
<1> QED
  BY <1>4, <1>5, <1>6

LEMMA ReconcileSpends ==
  ASSUME Given, Sound, Sound', Balanced, AccountsAdd, QuotaKept, ~raced, NEW p \in Procs, Reconcile(p)
  PROVE  AccountsAdd' /\ QuotaKept'
<1>1. PICK w, a : w = proc[p].w /\ a = proc[p].seen
  OBVIOUS
<1>2. At(p, "recount") /\ UNCHANGED <<holder, session>> /\ LocksHolder(p)
  BY DEF Reconcile
<1>3. /\ w \in Workspaces /\ usage[w].kept \in Nat /\ usage[w].held \in Nat
      /\ proc[p].count \in Nat /\ Finalizing(w) \in Nat
  BY <1>1, <1>2, CountedExactly
<1>4. CASE a = None
  <2>1. UNCHANGED <<books, over>>
    BY <1>1, <1>4 DEF Reconcile
  <2> QED
    BY <1>2, <2>1, NothingSpent, AsksSame DEF books
<1>5. CASE a # None
  <2>1. PICK dk, dh : dk = proc[p].count - usage[w].kept /\ dh = Finalizing(w) - usage[w].held
    OBVIOUS
  <2>2. Books(p, dk, dh) /\ over' = IF dk + dh > 0 THEN over \cup {a} ELSE over
    BY <1>1, <1>5, <2>1 DEF Reconcile
  <2>3. dk \in Int /\ dh \in Int /\ usage[w].kept + dk >= 0 /\ usage[w].held + dh >= 0
    BY <1>3, <2>1
  <2>4. a \in over' \/ (dk + dh <= 0 /\ dh <= 0)
    <3>1. CASE dk + dh > 0
      BY <2>2, <3>1
    <3>2. CASE ~(dk + dh > 0)
      <4>1. HoldSum(proc, w) \in Nat
        BY <1>3, DueSums DEF Sound, Shape
      <4>2. Backed(w)
        BY <1>3 DEF Balanced
      <4>3. CASE usage[w].held >= HeldDue(w)
        BY <1>3, <2>1, <2>3, <3>2, <4>1, <4>3 DEF HeldDue
      <4>4. CASE usage[w] = Zero
        BY <1>3, <2>1, <2>3, <3>2, <4>4 DEF Zero
      <4> QED
        BY <4>2, <4>3, <4>4 DEF Backed
    <3> QED
      BY <3>1, <3>2
  <2>5. over \subseteq over'
    BY <2>2
  <2> QED
    BY <1>1, <1>2, <1>3, <1>5, <2>2, <2>3, <2>4, <2>5, BooksSpend, AsksSame
<1> QED
  BY <1>4, <1>5

(* What leaves both books alone spends nothing. *)
Spares == /\ UNCHANGED <<holder, usage, account, cut>> /\ over \subseteq over'
          /\ \A u \in Uploads : Asks(session'[u]) <= Asks(session[u])

LEMMA CallsSpare ==
  ASSUME Given, Sound, NEW p \in Procs,
         ReadHolder(p) \/ Put(p) \/ PutFails(p) \/ TransactionFails(p) \/ Count(p)
  PROVE  Spares
BY AsksSame DEF Spares, ReadHolder, Put, PutFails, TransactionFails, Count, books, ghosts

LEMMA UploadsSpare ==
  ASSUME Given, Sound, NEW p \in Procs, Publish(p) \/ Complete(p)
  PROVE  Spares
<1>1. UNCHANGED <<holder, usage, account, cut, over>>
  BY DEF Publish, Complete, books, ghosts
<1>2. \A u \in Uploads : Asks(session[u]) \in Nat
  BY DEF Asks, Sound, Shape, Session
<1>3. CASE Publish(p)
  BY <1>1, <1>3, AsksSame DEF Publish, Spares, Asks, Sound, Shape, Session
<1>4. CASE Complete(p)
  BY <1>1, <1>2, <1>4 DEF Complete, NoSession, Spares, Asks, Sound, Shape, Session
<1> QED
  BY <1>3, <1>4

LEMMA UploadEntriesSpare ==
  ASSUME Given, Sound, NEW p \in Procs, NEW u \in Uploads, Create(p, u) \/ Finalize(p, u)
  PROVE  Spares
<1>1. \A v \in Uploads : Asks(session[v]) \in Nat
  BY DEF Asks, Sound, Shape, Session
<1>2. CASE Create(p, u)
  <2>1. UNCHANGED <<holder, usage, account, cut, over>>
    BY <1>2 DEF Create, books, ghosts
  <2>2. Asks([NoSession EXCEPT !.there = TRUE, !.live = TRUE, !.part = TRUE]) = 0
    BY DEF Asks, NoSession
  <2> QED
    BY <1>1, <1>2, <2>1, <2>2 DEF Create, Spares, Asks, Sound, Shape, Session
<1>3. CASE Finalize(p, u)
  <2>1. ASSUME NEW x, NEW c, Begin(p, x, c) PROVE UNCHANGED <<holder, usage, account, cut, over>>
    BY <2>1 DEF Begin, books
  <2>2. UNCHANGED <<holder, usage, account, cut, over>>
    BY <1>3, <2>1 DEF Finalize
  <2> QED
    BY <1>1, <1>3, <2>2 DEF Finalize, Spares, Asks, Sound, Shape, Session
<1> QED
  BY <1>2, <1>3

LEMMA StoreEntriesSpare ==
  ASSUME Given, Sound, NEW p \in Procs, NEW w, NEW k, NEW n, Scan(p, w) \/ Remove(p, w, k) \/ Write(p, w, k, n)
  PROVE  Spares
<1>1. ASSUME NEW x, NEW c, Begin(p, x, c) PROVE UNCHANGED <<holder, usage, account, cut, over>>
  BY <1>1 DEF Begin, books
<1>2. UNCHANGED <<holder, usage, account, cut, over>>
  <2>1. CASE Scan(p, w)
    BY <2>1 DEF Scan, books, ghosts
  <2>2. CASE Remove(p, w, k)
    BY <1>1, <2>2 DEF Remove
  <2>3. CASE Write(p, w, k, n)
    BY <1>1, <2>3 DEF Write
  <2> QED
    BY <2>1, <2>2, <2>3
<1>3. session' = session
  BY DEF Scan, Remove, Write
<1> QED
  BY <1>2, <1>3, AsksSame DEF Spares

LEMMA SessionsSpare ==
  ASSUME Given, Sound, NEW u \in Uploads, RunOut(u) \/ PartLost(u) \/ Drop(u) \/ DeleteSession(u)
  PROVE  Spares
<1>1. \A v \in Uploads : Asks(session[v]) \in Nat
  BY DEF Asks, Sound, Shape, Session
<1>2. UNCHANGED <<holder, usage, account, cut, over>>
  BY DEF RunOut, PartLost, Drop, DeleteSession, books, ghosts
<1>3. CASE RunOut(u) \/ PartLost(u)
  BY <1>1, <1>2, <1>3 DEF RunOut, PartLost, Spares, Asks, Sound, Shape, Session
<1>4. CASE DeleteSession(u)
  BY <1>1, <1>2, <1>4 DEF DeleteSession, NoSession, Spares, Asks, Sound, Shape, Session
<1>5. CASE Drop(u)
  <2>1. PICK s \in Session : session' = [session EXCEPT ![u] = s] /\ ~s.live
    BY <1>5, DropTakes
  <2>2. \A v \in Uploads : Asks(session'[v]) <= Asks(session[v])
    BY <1>1, <2>1 DEF Asks, Sound, Shape
  <2> QED
    BY <1>2, <2>2 DEF Spares
<1> QED
  BY <1>3, <1>4, <1>5

(* An upload that had run out asks for its bytes again: its account is over. *)
LEMMA TouchSpends ==
  ASSUME Given, Sound, Sound', AccountsAdd, QuotaKept, ~raced, NEW u \in Uploads, Touch(u)
  PROVE  AccountsAdd' /\ QuotaKept'
<1>1. UNCHANGED <<holder, usage, account, cut>> /\ over \subseteq over'
  BY DEF Touch, books
<1>2. AccountsAdd'
  BY <1>1 DEF AccountsAdd, Held
<1>3. \A v \in Uploads : Asks(session[v]) \in Nat /\ Asks(session'[v]) \in Nat
  BY DEF Asks, Sound, Shape, Session
<1>4. /\ \A v \in Uploads \ {u} : Asks(session'[v]) = Asks(session[v])
      /\ Asks(session[u]) = 0 /\ Asks(session'[u]) = session[u].bytes /\ session[u].bytes \in Nat
  BY DEF Touch, Asks, Sound, Shape, Session
<1>5. ASSUME NEW b \in Accounts \ over' PROVE Within(b)
  <2>1. ASSUME NEW v \in Uploads PROVE AsksNoMore(v, b)
    <3>1. CASE v # u
      BY <1>1, <1>3, <1>4, <3>1 DEF AsksNoMore, Of
    <3>2. CASE v = u /\ session[u].bytes = 0
      BY <1>1, <1>4, <3>2 DEF AsksNoMore, Of
    <3>3. CASE v = u /\ session[u].bytes # 0
      <4>1. b # holder[Home[u]]
        BY <1>4, <3>3 DEF Touch, Given
      <4> QED
        BY <1>1, <3>3, <4>1 DEF AsksNoMore, Of
    <3> QED
      BY <3>1, <3>2, <3>3
  <2>2. account'[b].kept + account'[b].held <= account[b].kept + account[b].held
    BY <1>1 DEF Sound, Shape, Row
  <2> QED
    BY <2>1, <2>2, ChargeNoMore
<1> QED
  BY <1>1, <1>2, <1>5, QuotaHolds

LEMMA CrashSpares == ASSUME Given, Sound, Crash PROVE Spares
BY AsksSame DEF Crash, Spares, books

(* What a workspace uses is taken from one account and given to another, or to none. *)
LEMMA MovesAdd ==
  ASSUME Given, Sound, Sound', AccountsAdd, ~raced, NEW w \in Workspaces, NEW from, from = holder[w], NEW to,
         to # from, Moves(w, from, to), cut' = cut,
         \A x \in Workspaces \ {w} : usage'[x] = usage[x] /\ holder'[x] = holder[x],
         \A b \in Accounts : /\ Of(holder'[w], b, usage'[w].kept) = Of(to, b, usage[w].kept)
                             /\ Of(holder'[w], b, usage'[w].held) = Of(to, b, usage[w].held)
  PROVE  /\ AccountsAdd'
         /\ \A b \in Accounts \ {to} : account'[b].kept + account'[b].held <= account[b].kept + account[b].held
<1>1. PICK m, n : m = usage[w].kept /\ n = usage[w].held
  OBVIOUS
<1>2. m \in Nat /\ n \in Nat
  BY <1>1 DEF Sound, Shape, Row
<1>3. ASSUME NEW b \in Accounts
      PROVE  /\ account[b].kept \in Nat /\ account[b].held \in Nat /\ KeptIn(b) \in Nat /\ HeldIn(b) \in Nat
             /\ KeptIn(b)' = KeptIn(b) - Of(from, b, m) + Of(to, b, m)
             /\ HeldIn(b)' = HeldIn(b) - Of(from, b, n) + Of(to, b, n)
             /\ Of(from, b, m) <= KeptIn(b) /\ Of(from, b, n) <= HeldIn(b)
             /\ AddsUp(b)
  <2>1. /\ KeptIn(b)' = KeptIn(b) - Of(holder[w], b, usage[w].kept) + Of(holder'[w], b, usage'[w].kept)
        /\ HeldIn(b)' = HeldIn(b) - Of(holder[w], b, usage[w].held) + Of(holder'[w], b, usage'[w].held)
        /\ Of(holder[w], b, usage[w].kept) <= KeptIn(b) /\ Of(holder[w], b, usage[w].held) <= HeldIn(b)
        /\ KeptIn(b) \in Nat /\ HeldIn(b) \in Nat
    BY AccountChanges
  <2>2. account[b].kept \in Nat /\ account[b].held \in Nat /\ AddsUp(b)
    BY AccountsAddUps DEF Sound, Shape, Row
  <2> QED
    BY <1>1, <2>1, <2>2
<1>4. ASSUME NEW b \in Accounts, b = to
      PROVE  AddsUp(b)'
  <2>1. Of(from, b, m) = 0 /\ Of(to, b, m) = m /\ Of(from, b, n) = 0 /\ Of(to, b, n) = n
    BY <1>4 DEF Of
  <2>2. KeptIn(b)' = KeptIn(b) + m /\ HeldIn(b)' = HeldIn(b) + n
    BY <1>2, <1>3, <2>1
  <2>3. account'[b] = Adds(account[b], m, n)
    BY <1>1, <1>4 DEF Moves
  <2>4. account[b].kept + m \in Int /\ account[b].kept + m >= 0 /\ account[b].held + n \in Int /\ account[b].held + n >= 0
    BY <1>2, <1>3
  <2>5. account'[b].kept = account[b].kept + m /\ account'[b].held = account[b].held + n
    BY <2>3, <2>4, NotBelow0IsNat DEF Adds
  <2> QED
    BY <1>3, <2>2, <2>5 DEF AddsUp
<1>5. ASSUME NEW b \in Accounts, b # to, b = from
      PROVE  AddsUp(b)' /\ account'[b].kept + account'[b].held <= account[b].kept + account[b].held
  <2>1. Of(from, b, m) = m /\ Of(to, b, m) = 0 /\ Of(from, b, n) = n /\ Of(to, b, n) = 0
    BY <1>5 DEF Of
  <2>2. KeptIn(b)' = KeptIn(b) - m /\ HeldIn(b)' = HeldIn(b) - n /\ m <= KeptIn(b) /\ n <= HeldIn(b)
    BY <1>2, <1>3, <2>1
  <2>3. PICK dm, dn : dm = -m /\ dn = -n
    OBVIOUS
  <2>4. account'[b] = Adds(account[b], dm, dn)
    BY <1>1, <1>5, <2>3 DEF Moves
  <2>5. account[b].kept + dm \in Int /\ account[b].held + dn \in Int /\ account[b].held = HeldIn(b)
    BY <1>2, <1>3, <2>3 DEF AddsUp
  <2>6. account[b].held + dn >= 0
    BY <1>2, <1>3, <2>2, <2>3, <2>5
  <2>7. account'[b].kept = NotBelow0(account[b].kept + dm) /\ account'[b].held = account[b].held + dn
    BY <2>4, <2>5, <2>6, NotBelow0IsNat DEF Adds
  <2>8. ASSUME b \notin cut PROVE account'[b].kept = KeptIn(b)'
    <3>1. account[b].kept = KeptIn(b)
      BY <1>3, <2>8 DEF AddsUp
    <3>2. account[b].kept + dm >= 0
      BY <1>2, <1>3, <2>2, <2>3, <3>1
    <3>3. account'[b].kept = account[b].kept + dm
      BY <2>5, <2>7, <3>2, NotBelow0IsNat
    <3> QED
      BY <1>2, <1>3, <2>2, <2>3, <3>1, <3>3
  <2>9. account'[b].held = HeldIn(b)'
    BY <1>2, <1>3, <2>2, <2>3, <2>5, <2>7
  <2>10. account'[b].kept <= account[b].kept /\ account'[b].kept \in Nat
    <3>1. CASE account[b].kept + dm >= 0
      <4>1. account'[b].kept = account[b].kept + dm
        BY <2>5, <2>7, <3>1, NotBelow0IsNat
      <4> QED
        BY <1>2, <1>3, <2>3, <3>1, <4>1
    <3>2. CASE ~(account[b].kept + dm >= 0)
      <4>1. account'[b].kept = 0
        BY <2>5, <2>7, <3>2, NotBelow0IsNat
      <4> QED
        BY <1>3, <4>1
    <3> QED
      BY <3>1, <3>2
  <2>11. account'[b].held <= account[b].held /\ account'[b].held \in Nat
    BY <1>2, <1>3, <2>3, <2>6, <2>7
  <2>12. account'[b].kept + account'[b].held <= account[b].kept + account[b].held
    BY <1>3, <2>10, <2>11
  <2>13. AddsUp(b)'
    BY <2>8, <2>9 DEF AddsUp
  <2> QED
    BY <2>12, <2>13
<1>6. ASSUME NEW b \in Accounts, b # to, b # from
      PROVE  AddsUp(b)' /\ account'[b].kept + account'[b].held <= account[b].kept + account[b].held
  <2>1. Of(from, b, m) = 0 /\ Of(to, b, m) = 0 /\ Of(from, b, n) = 0 /\ Of(to, b, n) = 0
    BY <1>6 DEF Of
  <2>2. KeptIn(b)' = KeptIn(b) /\ HeldIn(b)' = HeldIn(b)
    BY <1>2, <1>3, <2>1
  <2>3. account'[b] = account[b]
    BY <1>6 DEF Moves
  <2> QED
    BY <1>3, <2>2, <2>3 DEF AddsUp
<1>7. AccountsAdd'
  BY <1>4, <1>5, <1>6, AccountsAddNext
<1> QED
  BY <1>5, <1>6, <1>7

LEMMA ReholdSpends ==
  ASSUME Given, Sound, Sound', AccountsAdd, QuotaKept, ~raced, NEW w \in Workspaces,
         NEW to \in Accounts \cup {None}, Rehold(w, to)
  PROVE  AccountsAdd' /\ QuotaKept'
<1>1. PICK from : from = holder[w]
  OBVIOUS
<1>2. /\ to # from /\ Moves(w, from, to) /\ UNCHANGED <<usage, cut, session>>
      /\ over' = IF to # None THEN over \cup {to} ELSE over
      /\ holder' = [holder EXCEPT ![w] = to]
  BY <1>1 DEF Rehold
<1>3. holder'[w] = to /\ \A x \in Workspaces \ {w} : holder'[x] = holder[x]
  BY <1>2 DEF Sound, Shape
<1>4. /\ AccountsAdd'
      /\ \A b \in Accounts \ {to} : account'[b].kept + account'[b].held <= account[b].kept + account[b].held
  BY <1>1, <1>2, <1>3, MovesAdd
<1>5. \A u \in Uploads : Asks(session[u]) \in Nat /\ Home[u] \in Workspaces
  BY DEF Asks, Sound, Shape, Session, Given
<1>6. ASSUME NEW b \in Accounts \ over' PROVE Within(b)
  <2>1. b # to
    BY <1>2 DEF Given
  <2>2. \A u \in Uploads : AsksNoMore(u, b)
    BY <1>2, <1>3, <1>5, <2>1 DEF AsksNoMore, Of
  <2> QED
    BY <1>4, <2>1, <2>2, ChargeNoMore
<1>7. over \subseteq over'
  BY <1>2
<1> QED
  BY <1>4, <1>6, <1>7, QuotaHolds

LEMMA RefundSpends ==
  ASSUME Given, Sound, Sound', AccountsAdd, QuotaKept, ~raced, NEW w \in Workspaces, Refund(w)
  PROVE  AccountsAdd' /\ QuotaKept'
<1>1. PICK from : from = holder[w]
  OBVIOUS
<1>2. /\ None # from /\ Moves(w, from, None) /\ UNCHANGED <<holder, cut, session, over>>
      /\ usage' = [usage EXCEPT ![w] = Zero]
  BY <1>1 DEF Refund
<1>3. usage'[w].kept = 0 /\ usage'[w].held = 0 /\ \A x \in Workspaces \ {w} : usage'[x] = usage[x]
  BY <1>2 DEF Zero, Sound, Shape
<1>4. \A b \in Accounts : /\ Of(holder'[w], b, usage'[w].kept) = Of(None, b, usage[w].kept)
                          /\ Of(holder'[w], b, usage'[w].held) = Of(None, b, usage[w].held)
  BY <1>3 DEF Of, Given
<1>5. /\ AccountsAdd'
      /\ \A b \in Accounts \ {None} : account'[b].kept + account'[b].held <= account[b].kept + account[b].held
  BY <1>1, <1>2, <1>3, <1>4, MovesAdd
<1>6. ASSUME NEW b \in Accounts \ over' PROVE Within(b)
  <2>1. \A u \in Uploads : AsksNoMore(u, b)
    BY <1>2, AsksSame, AsksOfHolder
  <2>2. b # None
    BY DEF Given
  <2> QED
    BY <1>5, <2>1, <2>2, ChargeNoMore
<1> QED
  BY <1>2, <1>5, <1>6, QuotaHolds

(* At first nothing is charged. *)
LEMMA SpentInit == ASSUME Given, Init, Sound PROVE AccountsAdd /\ QuotaKept
<1>1. /\ usage = [w \in Workspaces |-> Zero] /\ account = [a \in Accounts |-> Zero]
      /\ \A u \in Uploads : Asks(session[u]) = 0
  BY NoSessionIsOne DEF Init, Asks
<1>2. ASSUME NEW a \in Accounts PROVE AddsUp(a)
  <2>1. PICK f, g : f = KeptBy(holder, usage, a) /\ g = HeldBy(holder, usage, a)
    OBVIOUS
  <2>2. KeptIn(a) = SumFunctionOnSet(f, Workspaces) /\ HeldIn(a) = SumFunctionOnSet(g, Workspaces)
    BY <2>1, InIsBy DEF KeptIn, HeldIn, Held, Sound, Shape
  <2>3. \A w \in Workspaces : f[w] = 0 /\ g[w] = 0
    BY <1>1, <2>1 DEF KeptBy, HeldBy, Of, Zero
  <2>4. SumFunctionOnSet(f, Workspaces) = 0 /\ SumFunctionOnSet(g, Workspaces) = 0
    BY <2>3, SumOfZeros DEF Given
  <2> QED
    BY <1>1, <2>2, <2>4 DEF AddsUp, Zero
<1>3. ASSUME NEW a \in Accounts PROVE Charge(a) <= Quota
  <2>1. PICK f : f = AskedBy(holder, session, a)
    OBVIOUS
  <2>2. \A u \in Uploads : f[u] = 0
    BY <1>1, <2>1 DEF AskedBy, Of
  <2>3. SumFunctionOnSet(f, Uploads) = 0
    BY <2>2, SumOfZeros DEF Given
  <2>4. UploadBytes(a) = 0
    BY <2>1, <2>3, UploadBytesAre DEF Sound
  <2> QED
    BY <1>1, <2>4 DEF Charge, Zero, Given
<1> QED
  BY <1>2, <1>3, AccountsAddUps DEF QuotaKept

(* Every step leaves the accounts adding up, and within the quota. *)
LEMMA SpentStep ==
  ASSUME Given, Sound, Sound', Balanced, AccountsAdd, QuotaKept, [Next]_vars
  PROVE  AccountsAdd' /\ QuotaKept'
<1>1. CASE raced
  BY <1>1, RacedStays DEF AccountsAdd, QuotaKept
<1>2. CASE ~raced
  <2>1. ASSUME Spares PROVE AccountsAdd' /\ QuotaKept'
    BY <1>2, <2>1, NothingSpent DEF Spares
  <2>2. CASE UNCHANGED vars
    BY <2>1, <2>2, AsksSame DEF vars, Spares, books
  <2>3. CASE \E p \in Procs : \/ ReadHolder(p) \/ ReserveUpload(p) \/ Reserve(p) \/ Put(p) \/ PutFails(p)
                             \/ Finish(p) \/ Undo(p) \/ TransactionFails(p) \/ Count(p) \/ Reconcile(p)
                             \/ BeginFinalize(p) \/ Settle(p) \/ Publish(p) \/ Complete(p) \/ Abandon(p)
    <3>1. PICK p \in Procs : \/ ReadHolder(p) \/ ReserveUpload(p) \/ Reserve(p) \/ Put(p) \/ PutFails(p)
                            \/ Finish(p) \/ Undo(p) \/ TransactionFails(p) \/ Count(p) \/ Reconcile(p)
                            \/ BeginFinalize(p) \/ Settle(p) \/ Publish(p) \/ Complete(p) \/ Abandon(p)
      BY <2>3
    <3>2. ReadHolder(p) \/ Put(p) \/ PutFails(p) \/ TransactionFails(p) \/ Count(p) \/ Publish(p) \/ Complete(p)
          => Spares
      BY CallsSpare, UploadsSpare
    <3>3. ReserveUpload(p) \/ Reserve(p) \/ Finish(p) \/ Undo(p) \/ Reconcile(p) \/ BeginFinalize(p) \/ Settle(p)
          \/ Abandon(p) => AccountsAdd' /\ QuotaKept'
      BY <1>2, ReserveUploadSpends, ReserveSpends, FinishSpends, UndoSpends, ReconcileSpends, BeginFinalizeSpends,
         SettleSpends, AbandonSpends
    <3> QED
      BY <2>1, <3>1, <3>2, <3>3
  <2>4. CASE \E p \in Procs, u \in Uploads : Create(p, u) \/ Finalize(p, u)
    BY <2>1, <2>4, UploadEntriesSpare
  <2>5. CASE \E p \in Procs, w \in Workspaces :
               \/ Scan(p, w)
               \/ \E k \in Keys : Remove(p, w, k) \/ \E n \in WriteSizes : Write(p, w, k, n)
    BY <2>1, <2>5, StoreEntriesSpare
  <2>6. CASE \E u \in Uploads : RunOut(u) \/ Touch(u) \/ PartLost(u) \/ Drop(u) \/ DeleteSession(u)
    BY <1>2, <2>1, <2>6, SessionsSpare, TouchSpends
  <2>7. CASE \E w \in Workspaces : Refund(w) \/ \E a \in Accounts \cup {None} : Rehold(w, a)
    BY <1>2, <2>7, RefundSpends, ReholdSpends
  <2>8. CASE Crash
    BY <2>1, <2>8, CrashSpares
  <2> QED
    BY <2>2, <2>3, <2>4, <2>5, <2>6, <2>7, <2>8 DEF Next
<1> QED
  BY <1>1, <1>2

-----------------------------------------------------------------------------
(* The invariant, and what it says.                                        *)

LEMMA InvCharged == ASSUME Given, Inv PROVE Charged
<1>1. SUFFICES ASSUME ~raced, NEW w \in Workspaces, Active(w) = {}, w \notin torn
               PROVE  usage[w].kept = Inventory(w) /\ usage[w].held = Finalizing(w)
  BY DEF Charged
<1>2. \A q \in Procs : proc[q].w = w => proc[q].kind = "create" /\ proc[q].key \notin Keys
  <2>1. PICK S : S = {}
    OBVIOUS
  <2>2. Active(w) \subseteq S
    BY <1>1, <2>1
  <2>3. /\ \A q \in Procs : proc[q].w = w /\ q \notin S => proc[q].kind = "create" /\ proc[q].key = None
        /\ None \notin Keys
    BY <2>2, NoneActive DEF Inv
  <2> QED
    BY <2>1, <2>3
<1>3. usage[w].kept = KeptDue(w) /\ usage[w].held = HeldDue(w)
  BY <1>1, <1>2 DEF Inv, Balanced, RowFits
<1>4. KeptDue(w) = Inventory(w) /\ HoldSum(proc, w) = 0
  <2>1. stored \in Sized
    BY DEF Inv, Sound, Shape
  <2>2. DueSum(proc, stored, w) = SumFunctionOnSet(stored[w], Keys) /\ HoldSum(proc, w) = 0
    BY <1>2, <2>1, NoCallsDue
  <2> QED
    BY <2>2 DEF KeptDue, Inventory
<1>5. Finalizing(w) \in Nat
  BY CountsAreNat DEF Inv, Sound
<1> QED
  BY <1>3, <1>4, <1>5 DEF HeldDue

(* The invariant holds in every state. *)
THEOREM QuotaInvariant == ASSUME Given PROVE Spec => []Inv
<1>1. Init => Inv
  BY SoundInit, BalancedInit, SpentInit DEF Inv
<1>2. Inv /\ [Next]_vars => Inv'
  BY SoundStep, BalancedStep, SpentStep DEF Inv
<1> QED
  BY <1>1, <1>2, PTL DEF Spec

(* Rows and accounts never go below 0, an upload's bytes are its own size, and *)
(* a call is at one of the workspaces and has read one of the accounts.        *)
THEOREM QuotaTypes == ASSUME Given PROVE Spec => []TypeOK
<1>1. Inv => TypeOK
  BY DEF Inv, Sound, Shape, Row, Call, SessionFits, TypeOK
<1> QED
  BY <1>1, QuotaInvariant, PTL

(* However calls, failures, hand-overs, refunds and crashes interleave, an     *)
(* account is charged exactly what the rows of its workspaces say, but for the *)
(* bytes stored of a row that was off and stopped at 0 (cut).                  *)
THEOREM AccountsAddUp == ASSUME Given PROVE Spec => []AccountsAdd
<1>1. Inv => AccountsAdd
  BY DEF Inv
<1> QED
  BY <1>1, QuotaInvariant, PTL

(* Overlapping calls never take an account over its quota together: what is    *)
(* over it came with a workspace, was found when one was counted, or was asked *)
(* for by an upload that had run out.                                          *)
THEOREM QuotaIsKept == ASSUME Given PROVE Spec => []QuotaKept
<1>1. Inv => QuotaKept
  BY DEF Inv
<1> QED
  BY <1>1, QuotaInvariant, PTL

(* A row that is not off says what is in its store and what its uploads hold,  *)
(* whenever no call is under way there.                                        *)
THEOREM RowsCharged == ASSUME Given PROVE Spec => []Charged
<1>1. Inv => Charged
  BY InvCharged
<1> QED
  BY <1>1, QuotaInvariant, PTL

(* Bytes that an upload holds while it is finalized are given back: its        *)
(* operation is there to do so, or gave them up.                               *)
THEOREM UploadsReturned == ASSUME Given PROVE Spec => []Returned
<1>1. Inv => Returned
  BY DEF Inv, Sound, SessionFits, Shape, Session, Returned
<1> QED
  BY <1>1, QuotaInvariant, PTL
=============================================================================
