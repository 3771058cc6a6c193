--------------------------- MODULE MembershipProofs ---------------------------
(***************************************************************************)
(* What Membership promises, for every set of accounts, workspaces, invites *)
(* and calls: limits hold, single-use invites let one account in, and every  *)
(* workspace has an owner, whatever calls overlap.                          *)
(***************************************************************************)
EXTENDS Membership, FiniteSetTheorems, TLAPS

Roles == {"owner", "admin", "member"}
Row == [role : [Accounts -> Roles \cup {None}], personal : Accounts \cup {None}]
Link == [w : Workspaces, role : {"admin", "member"}, to : Accounts \cup {None}, used : BOOLEAN]
Steps == {"idle", "personal", "personal_again", "membership", "membership_again", "insert_personal",
          "lock", "count", "insert", "use", "create_user", "complete", "write_role", "is_personal",
          "successor", "purge_one", "find_owned", "set_personal", "plan_again", "purge", "delete_user"}
Call == [pc : Steps, a : Accounts \cup {None}, w : Workspaces \cup {None}, i : Invites \cup {None},
         role : {"admin", "member", None}, then : {"idle", "lock"}, purges : SUBSET Workspaces]

(* None is none of the things it stands in for; an account may own two workspaces. *)
Given ==
  /\ None \notin Accounts /\ None \notin Workspaces /\ None \notin Invites /\ None \notin Procs
  /\ None \notin Roles /\ None \notin Row /\ None \notin Link
  /\ Limit \in Nat /\ Limit >= 2

(* Rows, and calls that know what their step needs. *)
RowsTyped ==
  /\ users \subseteq Accounts
  /\ DOMAIN workspace = Workspaces /\ \A w \in Workspaces : workspace[w] = None \/ workspace[w] \in Row
  /\ DOMAIN invite = Invites /\ \A i \in Invites : invite[i] = None \/ invite[i] \in Link
CallKnows(c) ==
  /\ c.pc # "idle" => c.a \in Accounts
  /\ c.pc \in {"use", "write_role", "is_personal", "successor", "find_owned", "set_personal"} => c.w \in Workspaces
  /\ c.pc = "use" => c.i \in Invites /\ c.role # None
Shape ==
  /\ RowsTyped
  /\ locked \in [Accounts -> Procs \cup {None}]
  /\ proc \in [Procs -> Call] /\ \A p \in Procs : CallKnows(proc[p])
  /\ admitted \in [Invites -> SUBSET Accounts]

(* The foreign keys, and one owner to a workspace, who has its personal flag if anybody. *)
MembersThere ==
  /\ \A w \in Stored, a \in Accounts : Role(w, a) # None => a \in users
  /\ \A i \in Invites : invite[i] # None => invite[i].w \in Stored
OneOwner == \A w \in Stored, a, b \in Accounts : Role(w, a) = "owner" /\ Role(w, b) = "owner" => a = b

(* The row of an account is locked by the call that counts and inserts for it. *)
Locks == \A p \in Procs, a \in Accounts :
  /\ locked[a] = p => proc[p].a = a /\ proc[p].pc \in {"count", "insert"}
  /\ proc[p].a = a /\ proc[p].pc \in {"count", "insert"} /\ a \in users => locked[a] = p

(* What an account owns, and what it may own while a call inserts. *)
Few(a, n) == IsFiniteSet(Owned(a)) /\ Cardinality(Owned(a)) <= n
Limits == \A a \in Accounts \ overlapped :
  /\ Few(a, Limit)
  /\ \A p \in Procs : proc[p].pc = "insert" /\ proc[p].a = a /\ a \in users => Few(a, Limit - 1)

(* An invite that can be used has let nobody in, nor has one that a sign-up has claimed. *)
Claims(p, i) == proc[p].pc \in {"create_user", "complete"} /\ proc[p].i = i
Singles == \A i \in Invites :
  /\ \A p, q \in Procs : Claims(p, i) /\ Claims(q, i) => p = q
  /\ \A p \in Procs : Claims(p, i) => invite[i] = None \/ invite[i].used
  /\ i \notin overlapped =>
       /\ \A a, b \in admitted[i] : a = b
       /\ invite[i] # None /\ ~invite[i].used => admitted[i] = {}
       /\ \A p \in Procs : Claims(p, i) => admitted[i] = {}

(* Calls that write a role have seen that it is no owner's; one that moves the personal flag
   has seen that it is; one that deletes an account has its workspaces to purge. *)
SeenBy(c) ==
  /\ c.pc = "write_role" /\ c.w \in Stored => Role(c.w, c.a) # "owner"
  /\ c.pc = "set_personal" /\ c.w \in Stored /\ c.a \in users => Role(c.w, c.a) = "owner"
  /\ c.pc = "purge" => Owned(c.a) \subseteq c.purges \cup overlapped
  /\ c.pc = "delete_user" => Owned(c.a) \subseteq overlapped
Seen == \A p \in Procs : SeenBy(proc[p])

MemberInv == Shape /\ MembersThere /\ OneOwner /\ Locks /\ Limits /\ Singles /\ Seen /\ HaveOwners

(* The rows a system begins with. *)
BeginsInOrder == RowsTyped /\ MembersThere /\ OneOwner /\ HaveOwners /\ \A a \in Accounts : Few(a, Limit)

-----------------------------------------------------------------------------
(* A step of one call; what it may do to the owners, the accounts and the invites
   while no workspace is made and no invite is used.                         *)
Becomes(p, c) == p \in Procs /\ c \in Call /\ CallKnows(c) /\ proc' = [proc EXCEPT ![p] = c]
NoNewOwners ==
  /\ Stored' \subseteq Stored
  /\ \A w \in Stored', a \in Accounts :
       /\ Role(w, a)' = "owner" => Role(w, a) = "owner"
       /\ Role(w, a) = "owner" /\ a \in users' => Role(w, a)' = "owner"
Newcomers == \A a \in users' \ users, q \in Procs : proc[q].a = a => proc[q].pc \in {"idle", "create_user"}
Counting == {"count", "insert"}
Claiming == {"create_user", "complete"}

(* Only the call that steps changes. *)
LEMMA CallsKept ==
  ASSUME Shape, NEW p, NEW c, Becomes(p, c)
  PROVE  /\ proc' \in [Procs -> Call] /\ \A q \in Procs : CallKnows(proc'[q])
         /\ proc'[p] = c /\ \A q \in Procs \ {p} : proc'[q] = proc[q]
<1>1. proc \in [Procs -> Call] /\ \A q \in Procs : CallKnows(proc[q])
  BY DEF Shape
<1>2. p \in Procs /\ c \in Call /\ CallKnows(c) /\ proc' = [proc EXCEPT ![p] = c]
  BY DEF Becomes
<1>3. proc'[p] = c /\ \A q \in Procs \ {p} : proc'[q] = proc[q]
  BY <1>1, <1>2, Zenon
<1>4. proc' \in [Procs -> Call]
  BY <1>1, <1>2, Zenon
<1>5. \A q \in Procs : CallKnows(proc'[q])
  BY <1>1, <1>2, <1>3, Zenon
<1> QED
  BY <1>3, <1>4, <1>5

(* A row that is there is a row. *)
LEMMA RowThere ==
  ASSUME RowsTyped, NEW w \in Stored
  PROVE  w \in Workspaces /\ workspace[w] # None /\ workspace[w] \in Row
BY DEF RowsTyped, Stored

(* Locks stay with the calls that count and insert. *)
LEMMA LocksKept ==
  ASSUME Shape, Locks, NEW p, NEW c, Becomes(p, c), Newcomers, locked' = locked,
         proc[p].pc \notin Counting, c.pc \notin Counting
  PROVE  Locks'
<1>1. /\ proc'[p] = c /\ p \in Procs /\ \A q \in Procs \ {p} : proc'[q] = proc[q]
  BY CallsKept DEF Becomes
<1>2. SUFFICES ASSUME NEW q \in Procs, NEW a \in Accounts
               PROVE  /\ locked[a] = q => proc'[q].a = a /\ proc'[q].pc \in Counting
                      /\ proc'[q].a = a /\ proc'[q].pc \in Counting /\ a \in users' => locked[a] = q
  BY DEF Locks, Counting
<1>3. /\ locked[a] = q => proc[q].a = a /\ proc[q].pc \in Counting
      /\ proc[q].a = a /\ proc[q].pc \in Counting /\ a \in users => locked[a] = q
  BY DEF Locks, Counting
<1>4. CASE q = p
  BY <1>1, <1>3, <1>4
<1>5. CASE q # p
  <2>1. proc'[q] = proc[q]
    BY <1>1, <1>5
  <2>2. proc[q].a = a /\ proc[q].pc \in Counting /\ a \in users' => a \in users
    BY DEF Newcomers, Counting
  <2> QED
    BY <1>3, <2>1, <2>2
<1> QED
  BY <1>4, <1>5

(* Fewer workspaces and no new insertion keep the limits. *)
LEMMA LimitsKept ==
  ASSUME Given, Shape, Limits, NEW p, NEW c, Becomes(p, c), Newcomers, overlapped \subseteq overlapped',
         c.pc # "insert", \A a \in Accounts : Owned(a)' \subseteq Owned(a)
  PROVE  Limits'
<1>1. /\ proc'[p] = c /\ p \in Procs /\ \A q \in Procs \ {p} : proc'[q] = proc[q]
  BY CallsKept DEF Becomes
<1>2. ASSUME NEW a \in Accounts, NEW n \in Nat, Few(a, n)
      PROVE  Few(a, n)'
  <2>1. IsFiniteSet(Owned(a)) /\ Cardinality(Owned(a)) <= n /\ Owned(a)' \subseteq Owned(a)
    BY <1>2 DEF Few
  <2>2. IsFiniteSet(Owned(a)') /\ Cardinality(Owned(a)') <= Cardinality(Owned(a))
    BY <2>1, FS_Subset
  <2>3. Cardinality(Owned(a)') \in Nat /\ Cardinality(Owned(a)) \in Nat
    BY <2>1, <2>2, FS_CardinalityType
  <2> QED
    BY <2>1, <2>2, <2>3 DEF Few
<1>3. SUFFICES ASSUME NEW a \in Accounts, a \notin overlapped
               PROVE  /\ Few(a, Limit)'
                      /\ \A q \in Procs : proc'[q].pc = "insert" /\ proc'[q].a = a /\ a \in users' => Few(a, Limit - 1)'
  BY DEF Limits
<1>4. /\ Few(a, Limit) /\ Limit \in Nat /\ Limit - 1 \in Nat
      /\ \A q \in Procs : proc[q].pc = "insert" /\ proc[q].a = a /\ a \in users => Few(a, Limit - 1)
  BY <1>3 DEF Limits, Given
<1>5. Few(a, Limit)'
  BY <1>2, <1>4
<1>6. ASSUME NEW q \in Procs, proc'[q].pc = "insert", proc'[q].a = a, a \in users'
      PROVE  Few(a, Limit - 1)'
  <2>1. proc[q].pc = "insert" /\ proc[q].a = a
    BY <1>1, <1>6
  <2>2. a \in users
    BY <1>6, <2>1 DEF Newcomers
  <2> QED
    BY <1>2, <1>4, <2>1, <2>2
<1> QED
  BY <1>5, <1>6

(* Invites that go, and claims that stay where they are. *)
LEMMA SinglesKept ==
  ASSUME Given, Shape, Singles, NEW p, NEW c, Becomes(p, c), overlapped \subseteq overlapped', admitted' = admitted,
         \A i \in Invites : invite'[i] = None \/ invite'[i] = invite[i],
         c.pc \in Claiming => c.i = None \/ (proc[p].pc \in Claiming /\ c.i = proc[p].i)
  PROVE  Singles'
<1>1. /\ proc'[p] = c /\ p \in Procs /\ \A q \in Procs \ {p} : proc'[q] = proc[q]
  BY CallsKept DEF Becomes
<1>2. ASSUME NEW q \in Procs, NEW i \in Invites, Claims(q, i)'
      PROVE  Claims(q, i)
  BY <1>1, <1>2 DEF Claims, Claiming, Given
<1>3. SUFFICES ASSUME NEW i \in Invites
               PROVE  /\ \A q, r \in Procs : Claims(q, i)' /\ Claims(r, i)' => q = r
                      /\ \A q \in Procs : Claims(q, i)' => invite'[i] = None \/ invite'[i].used
                      /\ i \notin overlapped' =>
                           /\ \A a, b \in admitted[i] : a = b
                           /\ invite'[i] # None /\ ~invite'[i].used => admitted[i] = {}
                           /\ \A q \in Procs : Claims(q, i)' => admitted[i] = {}
  BY DEF Singles
<1>4. /\ \A q, r \in Procs : Claims(q, i) /\ Claims(r, i) => q = r
      /\ \A q \in Procs : Claims(q, i) => invite[i] = None \/ invite[i].used
      /\ i \notin overlapped =>
           /\ \A a, b \in admitted[i] : a = b
           /\ invite[i] # None /\ ~invite[i].used => admitted[i] = {}
           /\ \A q \in Procs : Claims(q, i) => admitted[i] = {}
  BY DEF Singles
<1>5. invite'[i] = None \/ invite'[i] = invite[i]
  OBVIOUS
<1>6. i \notin overlapped' => i \notin overlapped
  OBVIOUS
<1>7. \A q \in Procs : Claims(q, i)' => Claims(q, i)
  BY <1>2
<1> HIDE DEF Claims
<1> QED
  BY <1>4, <1>5, <1>6, <1>7

(* Calls have seen what still holds, where no account has become an owner. *)
LEMMA SeenKept ==
  ASSUME Shape, Seen, NEW p, NEW c, Becomes(p, c), NoNewOwners, Newcomers, overlapped \subseteq overlapped',
         SeenBy(c)'
  PROVE  Seen'
<1>1. /\ proc'[p] = c /\ p \in Procs /\ \A q \in Procs \ {p} : proc'[q] = proc[q]
  BY CallsKept DEF Becomes
<1>2. SUFFICES ASSUME NEW q \in Procs, NEW d, d = proc'[q]
               PROVE  SeenBy(d)'
  <2>1. \A q \in Procs : SeenBy(proc[q])'
    BY Zenon DEF SeenBy
  <2> QED
    BY <2>1 DEF Seen
<1>3. CASE q = p
  BY <1>1, <1>2, <1>3
<1>4. CASE q # p
  <2>1. d = proc[q]
    BY <1>1, <1>2, <1>4
  <2>2. SeenBy(d)
    BY <2>1 DEF Seen
  <2>3. d.pc = "write_role" /\ d.w \in Stored' => Role(d.w, d.a)' # "owner"
    <3>1. CallKnows(d)
      BY <2>1 DEF Shape
    <3>2. SUFFICES ASSUME d.pc = "write_role", d.w \in Stored' PROVE Role(d.w, d.a)' # "owner"
      OBVIOUS
    <3>3. d.a \in Accounts /\ d.w \in Stored /\ Role(d.w, d.a) # "owner"
      BY <2>2, <3>1, <3>2 DEF CallKnows, SeenBy, NoNewOwners
    <3> QED
      BY <3>2, <3>3 DEF NoNewOwners
  <2>4. d.pc = "set_personal" /\ d.w \in Stored' /\ d.a \in users' => Role(d.w, d.a)' = "owner"
    <3>1. CallKnows(d)
      BY <2>1 DEF Shape
    <3>2. SUFFICES ASSUME d.pc = "set_personal", d.w \in Stored', d.a \in users' PROVE Role(d.w, d.a)' = "owner"
      OBVIOUS
    <3>3. d.a \in Accounts /\ d.w \in Stored
      BY <3>1, <3>2 DEF CallKnows, NoNewOwners
    <3>4. d.a \in users
      BY <2>1, <3>2 DEF Newcomers
    <3>5. Role(d.w, d.a) = "owner"
      BY <2>2, <3>2, <3>3, <3>4 DEF SeenBy
    <3> QED
      BY <3>2, <3>3, <3>5 DEF NoNewOwners
  <2>5. d.pc \in {"purge", "delete_user"} => Owned(d.a)' \subseteq Owned(d.a)
    <3>1. CallKnows(d)
      BY <2>1 DEF Shape
    <3> QED
      BY <3>1 DEF CallKnows, Owned, NoNewOwners
  <2> QED
    BY <2>2, <2>3, <2>4, <2>5 DEF SeenBy
<1> QED
  BY <1>3, <1>4

(* One owner stays one owner, and nobody owns more. *)
LEMMA OwnersKept ==
  ASSUME OneOwner, NoNewOwners
  PROVE  OneOwner' /\ \A a \in Accounts : Owned(a)' \subseteq Owned(a)
BY DEF OneOwner, NoNewOwners, Owned

(* What a step leaves alone that makes no owner, uses no invite and counts nothing. *)
LEMMA OthersKept ==
  ASSUME Given, MemberInv, NEW p, NEW c, Becomes(p, c), NoNewOwners, Newcomers,
         locked' = locked, admitted' = admitted, overlapped \subseteq overlapped',
         \A i \in Invites : invite'[i] = None \/ invite'[i] = invite[i],
         proc[p].pc \notin Counting, c.pc \notin Counting,
         c.pc \in Claiming => c.i = None \/ (proc[p].pc \in Claiming /\ c.i = proc[p].i),
         SeenBy(c)', RowsTyped'
  PROVE  Shape' /\ OneOwner' /\ Locks' /\ Limits' /\ Singles' /\ Seen'
<1>1. Shape /\ OneOwner /\ Locks /\ Limits /\ Singles /\ Seen
  BY DEF MemberInv
<1>2. proc' \in [Procs -> Call] /\ \A q \in Procs : CallKnows(proc'[q])
  BY <1>1, CallsKept
<1>3. Shape'
  BY <1>1, <1>2 DEF Shape
<1>4. OneOwner' /\ \A a \in Accounts : Owned(a)' \subseteq Owned(a)
  BY <1>1, OwnersKept
<1>5. c.pc # "insert"
  BY DEF Counting
<1>6. Locks'
  BY <1>1, LocksKept
<1>7. Limits'
  BY <1>1, <1>4, <1>5, LimitsKept
<1>8. Singles'
  BY <1>1, SinglesKept
<1>9. Seen'
  BY <1>1, SeenKept
<1> QED
  BY <1>3, <1>4, <1>6, <1>7, <1>8, <1>9

(* A call that only moves on, over rows that stay. *)
LEMMA CallMoves ==
  ASSUME Given, MemberInv, NEW p, NEW c, Becomes(p, c), UNCHANGED rows,
         proc[p].pc \notin Counting, c.pc \notin Counting \cup Claiming, SeenBy(c)
  PROVE  MemberInv'
<1>1. /\ users' = users /\ workspace' = workspace /\ invite' = invite /\ locked' = locked
      /\ admitted' = admitted /\ overlapped' = overlapped
  BY DEF rows
<1>2. NoNewOwners /\ Newcomers
  BY <1>1 DEF NoNewOwners, Newcomers, Stored, Role
<1>3. SeenBy(c)'
  BY <1>1 DEF SeenBy, Stored, Role, Owned
<1>4. RowsTyped' /\ MembersThere' /\ HaveOwners'
  BY <1>1 DEF MemberInv, Shape, RowsTyped, MembersThere, HaveOwners, Stored, Role
<1>5. Shape' /\ OneOwner' /\ Locks' /\ Limits' /\ Singles' /\ Seen'
  <2>1. c.pc \notin Counting /\ c.pc \notin Claiming /\ overlapped \subseteq overlapped'
    BY <1>1
  <2>2. \A i \in Invites : invite'[i] = None \/ invite'[i] = invite[i]
    BY <1>1
  <2> QED
    BY <1>1, <1>2, <1>3, <1>4, <2>1, <2>2, OthersKept
<1> QED
  BY <1>4, <1>5 DEF MemberInv

(* A call that goes to another step knows what it knew; one that ends knows nothing. *)
LEMMA ToStep ==
  ASSUME Shape, NEW p \in Procs, NEW pc \in Steps, To(p, pc)
  PROVE  \E c \in Call : /\ proc' = [proc EXCEPT ![p] = c] /\ c.pc = pc
                         /\ c.a = proc[p].a /\ c.w = proc[p].w /\ c.i = proc[p].i /\ c.role = proc[p].role
                         /\ c.then = proc[p].then /\ c.purges = proc[p].purges
<1>1. proc[p] \in Call /\ proc \in [Procs -> Call]
  BY DEF Shape
<1>2. PICK c : c = [proc[p] EXCEPT !.pc = pc]
  OBVIOUS
<1>3. /\ c \in Call /\ c.pc = pc
      /\ c.a = proc[p].a /\ c.w = proc[p].w /\ c.i = proc[p].i /\ c.role = proc[p].role
      /\ c.then = proc[p].then /\ c.purges = proc[p].purges
  BY <1>1, <1>2 DEF Call
<1>4. proc' = [proc EXCEPT ![p] = c]
  BY <1>2, Zenon DEF To
<1> QED
  BY <1>3, <1>4

LEMMA IdleCall ==
  Idle \in Call /\ CallKnows(Idle) /\ Idle.pc = "idle" /\ Idle.a = None /\ Idle.i = None /\ SeenBy(Idle)
<1>1. Idle \in Call /\ Idle.pc = "idle" /\ Idle.a = None /\ Idle.i = None
  BY DEF Idle, Call, Steps
<1> QED
  BY <1>1 DEF CallKnows, SeenBy

(* createWorkspace keeps the invariant. *)
LEMMA CreateWorkspaceKeeps ==
  ASSUME Given, MemberInv, NEW p \in Procs, NEW a \in Accounts, CreateWorkspace(p, a)
  PROVE  MemberInv'
<1>1. PICK c : c = [Idle EXCEPT !.pc = "personal", !.a = a, !.then = "lock"]
  OBVIOUS
<1>2. c \in Call /\ c.pc = "personal" /\ c.a = a
  BY <1>1 DEF Idle, Call, Steps
<1>3. proc' = [proc EXCEPT ![p] = c] /\ proc[p].pc = "idle" /\ UNCHANGED rows
  BY <1>1, Zenon DEF CreateWorkspace, Begin, At
<1>4. Becomes(p, c) /\ SeenBy(c)
  BY <1>2, <1>3 DEF Becomes, CallKnows, SeenBy
<1> QED
  BY <1>2, <1>3, <1>4, CallMoves DEF Counting, Claiming

(* The first steps of ensurePersonalWorkspace keep the invariant. *)
LEMMA FindPersonalKeeps ==
  ASSUME Given, MemberInv, NEW p \in Procs, FindPersonal(p) \/ FindMembership(p)
  PROVE  MemberInv'
<1>1. proc[p] \in Call /\ CallKnows(proc[p]) /\ Shape
  BY DEF MemberInv, Shape
<1>2. PICK pc \in {proc[p].then, "membership", "membership_again", "personal_again", "insert_personal"} : To(p, pc)
  BY Zenon DEF FindPersonal, FindMembership
<1>3. /\ proc[p].pc \in {"personal", "personal_again", "membership", "membership_again"} /\ UNCHANGED rows
      /\ proc[p].then \in {"idle", "lock"}
  BY <1>1 DEF FindPersonal, FindMembership, At, Call
<1>4. PICK c \in Call : proc' = [proc EXCEPT ![p] = c] /\ c.pc = pc /\ c.a = proc[p].a
  BY <1>1, <1>2, <1>3, ToStep DEF Steps
<1>5. Becomes(p, c) /\ SeenBy(c)
  BY <1>1, <1>2, <1>3, <1>4 DEF Becomes, CallKnows, SeenBy
<1> QED
  BY <1>2, <1>3, <1>4, <1>5, CallMoves DEF Counting, Claiming

(* Finding an invite to accept keeps the invariant. *)
LEMMA AcceptInviteKeeps ==
  ASSUME Given, MemberInv, NEW p \in Procs, NEW a \in Accounts, NEW i \in Invites, AcceptInvite(p, a, i)
  PROVE  MemberInv'
<1>1. invite[i] \in Link
  BY DEF MemberInv, Shape, RowsTyped, AcceptInvite, Claimable
<1>2. PICK c : c = [Idle EXCEPT !.pc = "use", !.a = a, !.i = i, !.w = invite[i].w, !.role = invite[i].role]
  OBVIOUS
<1>3. c \in Call /\ c.pc = "use" /\ c.a = a /\ c.i = i /\ c.w \in Workspaces /\ c.role \in {"admin", "member"}
  BY <1>1, <1>2 DEF Idle, Call, Steps, Link
<1>4. proc' = [proc EXCEPT ![p] = c] /\ proc[p].pc = "idle" /\ UNCHANGED rows
  BY <1>2, Zenon DEF AcceptInvite, Begin, At
<1>5. c.role # None
  BY <1>3 DEF Given, Roles
<1>6. Becomes(p, c) /\ SeenBy(c)
  BY <1>3, <1>4, <1>5 DEF Becomes, CallKnows, SeenBy
<1> QED
  BY <1>3, <1>4, <1>6, CallMoves DEF Counting, Claiming

(* Reading a member's role keeps the invariant. *)
LEMMA ReadRoleKeeps ==
  ASSUME Given, MemberInv, NEW p \in Procs, NEW a \in Accounts, NEW b \in Accounts, NEW w \in Workspaces,
         NEW role \in {"admin", "member", None}, ReadRole(p, b, w, a, role)
  PROVE  MemberInv'
<1>1. PICK c : c = [Idle EXCEPT !.pc = "write_role", !.a = a, !.w = w, !.role = role]
  OBVIOUS
<1>2. c \in Call /\ c.pc = "write_role" /\ c.a = a /\ c.w = w
  BY <1>1 DEF Idle, Call, Steps
<1>3. proc' = [proc EXCEPT ![p] = c] /\ proc[p].pc = "idle" /\ UNCHANGED rows
  BY <1>1, Zenon DEF ReadRole, Begin, At
<1>4. Role(w, a) # "owner"
  BY DEF ReadRole
<1>5. Becomes(p, c) /\ SeenBy(c)
  BY <1>2, <1>3, <1>4 DEF Becomes, CallKnows, SeenBy
<1> QED
  BY <1>2, <1>3, <1>5, CallMoves DEF Counting, Claiming

(* The reads of deleteWorkspace keep the invariant. *)
LEMMA DeleteWorkspaceKeeps ==
  ASSUME Given, MemberInv, NEW p \in Procs, NEW a \in Accounts, NEW w \in Workspaces, DeleteWorkspace(p, a, w)
  PROVE  MemberInv'
<1>1. PICK c : c = [Idle EXCEPT !.pc = "is_personal", !.a = a, !.w = w]
  OBVIOUS
<1>2. c \in Call /\ c.pc = "is_personal" /\ c.a = a /\ c.w = w
  BY <1>1 DEF Idle, Call, Steps
<1>3. proc' = [proc EXCEPT ![p] = c] /\ proc[p].pc = "idle" /\ UNCHANGED rows
  BY <1>1, Zenon DEF DeleteWorkspace, Begin, At
<1>4. Becomes(p, c) /\ SeenBy(c)
  BY <1>2, <1>3 DEF Becomes, CallKnows, SeenBy
<1> QED
  BY <1>2, <1>3, <1>4, CallMoves DEF Counting, Claiming

LEMMA IsPersonalKeeps ==
  ASSUME Given, MemberInv, NEW p \in Procs, IsPersonal(p)
  PROVE  MemberInv'
<1>1. proc[p] \in Call /\ CallKnows(proc[p]) /\ Shape /\ proc[p].pc = "is_personal" /\ UNCHANGED rows
  BY DEF MemberInv, Shape, IsPersonal, At
<1>2. CASE To(p, "successor")
  <2>1. PICK c \in Call : proc' = [proc EXCEPT ![p] = c] /\ c.pc = "successor" /\ c.a = proc[p].a /\ c.w = proc[p].w
    BY <1>1, <1>2, ToStep DEF Steps
  <2>2. Becomes(p, c) /\ SeenBy(c)
    BY <1>1, <2>1 DEF Becomes, CallKnows, SeenBy
  <2> QED
    BY <1>1, <2>1, <2>2, CallMoves DEF Counting, Claiming
<1>3. CASE ~To(p, "successor")
  <2>1. PICK c : c = [proc[p] EXCEPT !.pc = "purge_one", !.purges = {proc[p].w}, !.w = None]
    OBVIOUS
  <2>2. proc[p].w \in Workspaces /\ proc[p].a \in Accounts
    BY <1>1 DEF CallKnows
  <2>3. c \in Call /\ c.pc = "purge_one" /\ c.a = proc[p].a
    BY <1>1, <2>1, <2>2 DEF Call, Steps
  <2>4. proc' = [proc EXCEPT ![p] = c]
    BY <1>3, <2>1, Zenon DEF IsPersonal
  <2>5. Becomes(p, c) /\ SeenBy(c)
    BY <2>2, <2>3, <2>4 DEF Becomes, CallKnows, SeenBy
  <2> QED
    BY <1>1, <2>3, <2>5, CallMoves DEF Counting, Claiming
<1> QED
  BY <1>2, <1>3

LEMMA SuccessorKeeps ==
  ASSUME Given, MemberInv, NEW p \in Procs, Successor(p)
  PROVE  MemberInv'
<1>1. proc[p] \in Call /\ CallKnows(proc[p]) /\ Shape /\ proc[p].pc = "successor" /\ UNCHANGED rows
  BY DEF MemberInv, Shape, Successor, At
<1>2. proc[p].w \in Workspaces /\ proc[p].a \in Accounts
  BY <1>1 DEF CallKnows
<1>3. PICK s \in Workspaces \cup {None} :
        proc' = [proc EXCEPT ![p] = [proc[p] EXCEPT !.pc = "purge_one", !.purges = {proc[p].w}, !.w = s]]
  BY DEF Successor, Owned, Stored
<1>4. PICK c : c = [proc[p] EXCEPT !.pc = "purge_one", !.purges = {proc[p].w}, !.w = s]
  OBVIOUS
<1>5. c \in Call /\ c.pc = "purge_one" /\ c.a = proc[p].a
  BY <1>1, <1>2, <1>4 DEF Call, Steps
<1>6. proc' = [proc EXCEPT ![p] = c]
  BY <1>3, <1>4, Zenon
<1>7. Becomes(p, c) /\ SeenBy(c)
  BY <1>2, <1>5, <1>6 DEF Becomes, CallKnows, SeenBy
<1> QED
  BY <1>1, <1>5, <1>7, CallMoves DEF Counting, Claiming

LEMMA FindOwnedKeeps ==
  ASSUME Given, MemberInv, NEW p \in Procs, FindOwned(p)
  PROVE  MemberInv'
<1>1. proc[p] \in Call /\ CallKnows(proc[p]) /\ Shape /\ proc[p].pc = "find_owned" /\ UNCHANGED rows
  BY DEF MemberInv, Shape, FindOwned, At
<1>2. CASE Role(proc[p].w, proc[p].a) = "owner"
  <2>1. To(p, "set_personal")
    BY <1>2 DEF FindOwned
  <2>2. PICK c \in Call : proc' = [proc EXCEPT ![p] = c] /\ c.pc = "set_personal" /\ c.a = proc[p].a /\ c.w = proc[p].w
    BY <1>1, <2>1, ToStep DEF Steps
  <2>3. Becomes(p, c) /\ SeenBy(c)
    BY <1>1, <1>2, <2>2 DEF Becomes, CallKnows, SeenBy
  <2> QED
    BY <1>1, <2>2, <2>3, CallMoves DEF Counting, Claiming
<1>3. CASE Role(proc[p].w, proc[p].a) # "owner"
  <2>1. PICK c : c = Idle
    OBVIOUS
  <2>2. Becomes(p, c) /\ SeenBy(c) /\ c.pc = "idle"
    BY <1>3, <2>1, IdleCall DEF Becomes, FindOwned, Ends
  <2> QED
    BY <1>1, <2>2, CallMoves DEF Counting, Claiming
<1> QED
  BY <1>2, <1>3

(* The plans of an account's deletion keep the invariant: as a workspace has one owner,
   what the account owns is what it alone owns. *)
LEMMA DeleteAccountKeeps ==
  ASSUME Given, MemberInv, NEW p \in Procs, NEW a \in Accounts, DeleteAccount(p, a)
  PROVE  MemberInv'
<1>1. PICK c : c = [Idle EXCEPT !.pc = "plan_again", !.a = a]
  OBVIOUS
<1>2. c \in Call /\ c.pc = "plan_again" /\ c.a = a
  BY <1>1 DEF Idle, Call, Steps
<1>3. proc' = [proc EXCEPT ![p] = c] /\ proc[p].pc = "idle" /\ UNCHANGED rows
  BY <1>1, Zenon DEF DeleteAccount, Begin, At
<1>4. Becomes(p, c) /\ SeenBy(c)
  BY <1>2, <1>3 DEF Becomes, CallKnows, SeenBy
<1> QED
  BY <1>2, <1>3, <1>4, CallMoves DEF Counting, Claiming

LEMMA SoleOwners ==
  ASSUME OneOwner, NEW a \in Accounts
  PROVE  SoleOwned(a) = Owned(a)
<1>1. SUFFICES ASSUME NEW w \in Owned(a) PROVE Cardinality({b \in Accounts : Role(w, b) = "owner"}) = 1
  BY DEF SoleOwned
<1>2. w \in Stored /\ Role(w, a) = "owner"
  BY DEF Owned
<1>3. {b \in Accounts : Role(w, b) = "owner"} = {a}
  BY <1>2 DEF OneOwner
<1> QED
  BY <1>3, FS_Singleton

LEMMA PlanAgainKeeps ==
  ASSUME Given, MemberInv, NEW p \in Procs, PlanAgain(p)
  PROVE  MemberInv'
<1>1. proc[p] \in Call /\ CallKnows(proc[p]) /\ Shape /\ proc[p].pc = "plan_again" /\ UNCHANGED rows
  BY DEF MemberInv, Shape, PlanAgain, At
<1>2. proc[p].a \in Accounts
  BY <1>1 DEF CallKnows
<1>3. CASE Blocked(proc[p].a)
  <2>1. PICK c : c = Idle
    OBVIOUS
  <2>2. Becomes(p, c) /\ SeenBy(c) /\ c.pc = "idle"
    BY <1>3, <2>1, IdleCall DEF Becomes, PlanAgain, Ends
  <2> QED
    BY <1>1, <2>2, CallMoves DEF Counting, Claiming
<1>4. CASE ~Blocked(proc[p].a)
  <2>1. PICK c : c = [proc[p] EXCEPT !.pc = IF SoleOwned(proc[p].a) = {} THEN "delete_user" ELSE "purge",
                                     !.purges = SoleOwned(proc[p].a)]
    OBVIOUS
  <2>2. SoleOwned(proc[p].a) = Owned(proc[p].a)
    BY <1>2, SoleOwners DEF MemberInv
  <2>3. SoleOwned(proc[p].a) \subseteq Workspaces
    BY <2>2 DEF Owned, Stored
  <2>4. /\ c \in Call /\ c.a = proc[p].a /\ c.purges = SoleOwned(proc[p].a)
        /\ c.pc = IF SoleOwned(proc[p].a) = {} THEN "delete_user" ELSE "purge"
    BY <1>1, <2>1, <2>3 DEF Call, Steps
  <2>5. proc' = [proc EXCEPT ![p] = c]
    BY <1>4, <2>1, Zenon DEF PlanAgain
  <2>6. c.pc \in {"delete_user", "purge"}
    BY <2>4
  <2>7. Becomes(p, c)
    BY <1>2, <2>4, <2>5, <2>6 DEF Becomes, CallKnows
  <2>8. SeenBy(c)
    BY <2>2, <2>4, <2>6 DEF SeenBy
  <2> QED
    BY <1>1, <2>6, <2>7, <2>8, CallMoves DEF Counting, Claiming
<1> QED
  BY <1>3, <1>4

-----------------------------------------------------------------------------
(* Counting and inserting.                                                  *)

(* A call that locks, counts or gives up leaves the rows as they are. *)
LEMMA CountingMoves ==
  ASSUME Given, MemberInv, NEW p, NEW c, Becomes(p, c), UNCHANGED <<users, workspace, invite, admitted, overlapped>>,
         c.pc \notin Claiming, SeenBy(c), locked' \in [Accounts -> Procs \cup {None}]
  PROVE  Shape' /\ MembersThere' /\ OneOwner' /\ Singles' /\ Seen' /\ HaveOwners'
<1>1. /\ users' = users /\ workspace' = workspace /\ invite' = invite
      /\ admitted' = admitted /\ overlapped' = overlapped
  OBVIOUS
<1>2. Shape /\ OneOwner /\ Singles /\ Seen /\ MembersThere /\ HaveOwners
  BY DEF MemberInv
<1>3. NoNewOwners /\ Newcomers
  BY <1>1 DEF NoNewOwners, Newcomers, Stored, Role
<1>4. SeenBy(c)'
  BY <1>1 DEF SeenBy, Stored, Role, Owned
<1>5. RowsTyped' /\ MembersThere' /\ HaveOwners'
  BY <1>1, <1>2 DEF Shape, RowsTyped, MembersThere, HaveOwners, Stored, Role
<1>6. Shape'
  BY <1>1, <1>2, <1>5, CallsKept DEF Shape
<1>7. OneOwner'
  BY <1>2, <1>3, OwnersKept
<1>8. Singles'
  <2>1. \A i \in Invites : invite'[i] = None \/ invite'[i] = invite[i]
    BY <1>1
  <2>2. overlapped \subseteq overlapped'
    BY <1>1
  <2> QED
    BY <1>1, <1>2, <2>1, <2>2, SinglesKept
<1>9. Seen'
  <2>1. overlapped \subseteq overlapped'
    BY <1>1
  <2> QED
    BY <1>2, <1>3, <1>4, <2>1, SeenKept
<1> QED
  BY <1>5, <1>6, <1>7, <1>8, <1>9

(* A call that ends its transaction gives its locks back. *)
LEMMA Unlocks ==
  ASSUME Given, Shape, Locks, NEW p, NEW c, Becomes(p, c), c.pc \notin Counting, Unlock(p), users' = users
  PROVE  Locks' /\ locked' \in [Accounts -> Procs \cup {None}]
<1>1. /\ proc'[p] = c /\ p \in Procs /\ \A q \in Procs \ {p} : proc'[q] = proc[q]
  BY CallsKept DEF Becomes
<1>2. \A a \in Accounts : locked'[a] = IF locked[a] = p THEN None ELSE locked[a]
  BY DEF Unlock
<1>3. locked' \in [Accounts -> Procs \cup {None}]
  BY DEF Unlock, Shape
<1>4. SUFFICES ASSUME NEW q \in Procs, NEW a \in Accounts
               PROVE  /\ locked'[a] = q => proc'[q].a = a /\ proc'[q].pc \in Counting
                      /\ proc'[q].a = a /\ proc'[q].pc \in Counting /\ a \in users => locked'[a] = q
  BY <1>3 DEF Locks, Counting
<1>5. /\ locked[a] = q => proc[q].a = a /\ proc[q].pc \in Counting
      /\ proc[q].a = a /\ proc[q].pc \in Counting /\ a \in users => locked[a] = q
  BY DEF Locks, Counting
<1>6. CASE q = p
  BY <1>1, <1>2, <1>6 DEF Given
<1>7. CASE q # p
  <2>1. proc'[q] = proc[q]
    BY <1>1, <1>7
  <2>2. locked'[a] = q <=> locked[a] = q
    BY <1>2, <1>7 DEF Given
  <2> QED
    BY <1>5, <2>1, <2>2
<1> QED
  BY <1>6, <1>7

(* lockUserRow keeps the invariant. *)
LEMMA LockUserRowKeeps ==
  ASSUME Given, MemberInv, NEW p \in Procs, LockUserRow(p)
  PROVE  MemberInv'
<1>1. /\ proc[p] \in Call /\ CallKnows(proc[p]) /\ Shape /\ Locks /\ Limits /\ proc[p].pc = "lock"
      /\ UNCHANGED <<users, workspace, invite, admitted, overlapped>>
  BY DEF MemberInv, Shape, LockUserRow, At
<1>2. To(p, "count") /\ locked[proc[p].a] = None
  BY DEF LockUserRow
<1>3. locked' = IF proc[p].a \in users THEN [locked EXCEPT ![proc[p].a] = p] ELSE locked
  BY DEF LockUserRow
<1>4. PICK c \in Call : proc' = [proc EXCEPT ![p] = c] /\ c.pc = "count" /\ c.a = proc[p].a
  BY <1>1, <1>2, ToStep DEF Steps
<1>5. c.a \in Accounts
  BY <1>1, <1>4 DEF CallKnows
<1>6. Becomes(p, c) /\ SeenBy(c)
  BY <1>4, <1>5 DEF Becomes, CallKnows, SeenBy
<1>7. locked' \in [Accounts -> Procs \cup {None}]
  BY <1>1, <1>3 DEF Shape
<1>8. Shape' /\ MembersThere' /\ OneOwner' /\ Singles' /\ Seen' /\ HaveOwners'
  BY <1>1, <1>4, <1>6, <1>7, CountingMoves DEF Claiming
<1>9. Limits'
  <2>1. Newcomers /\ \A a \in Accounts : Owned(a)' \subseteq Owned(a)
    BY <1>1 DEF Newcomers, Owned, Stored, Role
  <2>2. overlapped \subseteq overlapped'
    BY <1>1
  <2> QED
    BY <1>1, <1>4, <1>6, <2>1, <2>2, LimitsKept
<1>10. Locks'
  <2>1. /\ proc'[p] = c /\ \A q \in Procs \ {p} : proc'[q] = proc[q]
    BY <1>1, <1>6, CallsKept
  <2>2. SUFFICES ASSUME NEW q \in Procs, NEW a \in Accounts
                 PROVE  /\ locked'[a] = q => proc'[q].a = a /\ proc'[q].pc \in Counting
                        /\ proc'[q].a = a /\ proc'[q].pc \in Counting /\ a \in users => locked'[a] = q
    BY <1>1 DEF Locks, Counting
  <2>3. /\ locked[a] = q => proc[q].a = a /\ proc[q].pc \in Counting
        /\ proc[q].a = a /\ proc[q].pc \in Counting /\ a \in users => locked[a] = q
    BY <1>1 DEF Locks, Counting
  <2>4. locked'[a] = IF a = c.a /\ a \in users THEN p ELSE locked[a]
    BY <1>1, <1>3, <1>4, <1>5 DEF Shape
  <2>5. proc[p].pc \notin Counting /\ c.pc \in Counting
    BY <1>1, <1>4 DEF Counting
  <2>6. CASE q = p
    BY <2>1, <2>3, <2>4, <2>5, <2>6
  <2>7. CASE q # p
    <3>1. proc'[q] = proc[q]
      BY <2>1, <2>7
    <3>2. a = c.a => locked[a] # q
      BY <1>2, <1>4 DEF Given
    <3> QED
      BY <2>3, <2>4, <2>7, <3>1, <3>2
  <2> QED
    BY <2>6, <2>7
<1> QED
  BY <1>8, <1>9, <1>10 DEF MemberInv

(* The count keeps the invariant: a call that goes on to insert leaves room for what it inserts. *)
LEMMA CountOwnedKeeps ==
  ASSUME Given, MemberInv, NEW p \in Procs, CountOwned(p)
  PROVE  MemberInv'
<1>1. /\ proc[p] \in Call /\ CallKnows(proc[p]) /\ Shape /\ Locks /\ Limits /\ proc[p].pc = "count"
      /\ UNCHANGED <<users, workspace, invite, admitted, overlapped>>
  BY DEF MemberInv, Shape, CountOwned, At
<1>2. Newcomers /\ \A a \in Accounts : Owned(a)' = Owned(a)
  BY <1>1 DEF Newcomers, Owned, Stored, Role
<1>3. overlapped' = overlapped /\ users' = users
  BY <1>1
<1>4. CASE Cardinality(Owned(proc[p].a)) >= Limit
  <2>1. PICK c : c = Idle
    OBVIOUS
  <2>2. Becomes(p, c) /\ SeenBy(c) /\ c.pc = "idle" /\ Unlock(p)
    BY <1>4, <2>1, IdleCall DEF Becomes, CountOwned, Ends
  <2>3. Locks' /\ locked' \in [Accounts -> Procs \cup {None}]
    BY <1>1, <1>3, <2>2, Unlocks DEF Counting
  <2>4. Shape' /\ MembersThere' /\ OneOwner' /\ Singles' /\ Seen' /\ HaveOwners'
    BY <1>1, <2>2, <2>3, CountingMoves DEF Claiming
  <2>5. Limits'
    BY <1>1, <1>2, <1>3, <2>2, LimitsKept
  <2> QED
    BY <2>3, <2>4, <2>5 DEF MemberInv
<1>5. CASE ~(Cardinality(Owned(proc[p].a)) >= Limit)
  <2>1. To(p, "insert") /\ locked' = locked
    BY <1>5 DEF CountOwned
  <2>2. PICK c \in Call : proc' = [proc EXCEPT ![p] = c] /\ c.pc = "insert" /\ c.a = proc[p].a
    BY <1>1, <2>1, ToStep DEF Steps
  <2>3. Becomes(p, c) /\ SeenBy(c)
    BY <1>1, <2>2 DEF Becomes, CallKnows, SeenBy
  <2>4. locked' \in [Accounts -> Procs \cup {None}]
    BY <1>1, <2>1 DEF Shape
  <2>5. Shape' /\ MembersThere' /\ OneOwner' /\ Singles' /\ Seen' /\ HaveOwners'
    BY <1>1, <2>2, <2>3, <2>4, CountingMoves DEF Claiming
  <2>6. /\ proc'[p] = c /\ \A q \in Procs \ {p} : proc'[q] = proc[q]
    BY <1>1, <2>3, CallsKept
  <2>7. Locks'
    <3>1. \A q \in Procs : proc'[q].a = proc[q].a /\ (proc'[q].pc \in Counting <=> proc[q].pc \in Counting)
      BY <1>1, <2>2, <2>6 DEF Counting
    <3> QED
      BY <1>1, <1>3, <2>1, <3>1 DEF Locks, Counting
  <2>8. Limits'
    <3>1. SUFFICES ASSUME NEW a \in Accounts \ overlapped
                   PROVE  /\ Few(a, Limit)
                          /\ \A q \in Procs : proc'[q].pc = "insert" /\ proc'[q].a = a /\ a \in users => Few(a, Limit - 1)
      <4>1. \A a \in Accounts : (Few(a, Limit)' <=> Few(a, Limit)) /\ (Few(a, Limit - 1)' <=> Few(a, Limit - 1))
        BY <1>2 DEF Few
      <4> QED
        BY <1>3, <4>1 DEF Limits
    <3>2. /\ Few(a, Limit)
          /\ \A q \in Procs : proc[q].pc = "insert" /\ proc[q].a = a /\ a \in users => Few(a, Limit - 1)
      BY <1>1 DEF Limits
    <3>3. proc[p].a = a => Few(a, Limit - 1)
      <4>1. SUFFICES ASSUME proc[p].a = a PROVE Few(a, Limit - 1)
        OBVIOUS
      <4>2. IsFiniteSet(Owned(a)) /\ Cardinality(Owned(a)) \in Nat
        BY <3>2, FS_CardinalityType DEF Few
      <4> QED
        BY <1>5, <4>1, <4>2 DEF Few, Given
    <3>4. \A q \in Procs : proc'[q].pc = "insert" /\ proc'[q].a = a /\ a \in users => Few(a, Limit - 1)
      BY <2>2, <2>6, <3>2, <3>3
    <3> QED
      BY <3>2, <3>4
  <2> QED
    BY <2>5, <2>7, <2>8 DEF MemberInv
<1> QED
  BY <1>4, <1>5

(* What a made workspace changes: its owner owns one more, and nothing else owns it. *)
LEMMA MadeRow ==
  ASSUME Given, RowsTyped, NEW a \in Accounts, NEW w \in Fresh, NEW personal \in BOOLEAN, Insert(w, a, personal)
  PROVE  /\ w \in Workspaces /\ w \notin Stored /\ w \notin overlapped /\ Stored' = Stored \cup {w}
         /\ overlapped \subseteq overlapped' /\ DOMAIN workspace' = Workspaces
         /\ workspace'[w] \in Row /\ workspace'[w].personal = IF personal THEN a ELSE None
         /\ \A b \in Accounts : Role(w, b)' = IF b = a THEN "owner" ELSE None
         /\ \A v \in Stored : v # w /\ workspace'[v] = workspace[v] /\ \A b \in Accounts : Role(v, b)' = Role(v, b)
<1>1. w \in Workspaces /\ w \notin Stored /\ w \notin overlapped
  BY DEF Fresh
<1>2. PICK row : row = NewWorkspace(a, personal)
  OBVIOUS
<1>3. /\ row \in Row /\ row.personal = (IF personal THEN a ELSE None) /\ row # None
      /\ \A b \in Accounts : row.role[b] = IF b = a THEN "owner" ELSE None
  BY <1>2 DEF NewWorkspace, Row, Roles, Given
<1>4. workspace' = [workspace EXCEPT ![w] = row] /\ overlapped \subseteq overlapped'
  BY <1>2 DEF Insert
<1>5. DOMAIN workspace' = Workspaces /\ workspace'[w] = row /\ \A v \in Workspaces \ {w} : workspace'[v] = workspace[v]
  BY <1>1, <1>4 DEF RowsTyped
<1>6. Stored' = Stored \cup {w}
  BY <1>1, <1>3, <1>5 DEF Stored
<1>7. \A v \in Stored : v \in Workspaces /\ v # w
  BY <1>1 DEF Stored
<1> QED
  BY <1>1, <1>3, <1>4, <1>5, <1>6, <1>7 DEF Role

LEMMA MadeOwned ==
  ASSUME Given, RowsTyped, NEW a \in Accounts, NEW w \in Fresh, NEW personal \in BOOLEAN, Insert(w, a, personal)
  PROVE  /\ Owned(a)' = Owned(a) \cup {w} /\ w \notin Owned(a)
         /\ \A b \in Accounts \ {a} : Owned(b)' = Owned(b)
<1>1. /\ w \notin Stored /\ Stored' = Stored \cup {w}
      /\ \A b \in Accounts : Role(w, b)' = IF b = a THEN "owner" ELSE None
      /\ \A v \in Stored, b \in Accounts : Role(v, b)' = Role(v, b)
  BY MadeRow
<1>2. \A b \in Accounts \ {a} : Role(w, b)' # "owner"
  BY <1>1 DEF Given, Roles
<1>3. \A b \in Accounts : Owned(b)' = {v \in Stored' : Role(v, b)' = "owner"}
  BY DEF Owned
<1> QED
  BY <1>1, <1>2, <1>3 DEF Owned

(* A workspace is made of which no call or invite knows. *)
LEMMA MadeKeeps ==
  ASSUME Given, MemberInv, NEW p, NEW c, Becomes(p, c), c.pc \in {"idle", "lock"},
         NEW a \in users, NEW w \in Fresh, NEW personal \in BOOLEAN, Insert(w, a, personal),
         UNCHANGED <<users, invite, admitted>>, locked' \in [Accounts -> Procs \cup {None}]
  PROVE  Shape' /\ MembersThere' /\ OneOwner' /\ Singles' /\ Seen' /\ HaveOwners'
<1>1. /\ Shape /\ RowsTyped /\ MembersThere /\ OneOwner /\ Singles /\ Seen /\ HaveOwners
      /\ a \in Accounts /\ users' = users /\ invite' = invite /\ admitted' = admitted
  BY DEF MemberInv, Shape, RowsTyped
<1>2. /\ w \in Workspaces /\ w \notin Stored /\ w \notin overlapped /\ Stored' = Stored \cup {w}
      /\ overlapped \subseteq overlapped' /\ DOMAIN workspace' = Workspaces
      /\ workspace'[w] \in Row /\ workspace'[w].personal = IF personal THEN a ELSE None
      /\ \A b \in Accounts : Role(w, b)' = IF b = a THEN "owner" ELSE None
      /\ \A v \in Stored : v # w /\ workspace'[v] = workspace[v] /\ \A b \in Accounts : Role(v, b)' = Role(v, b)
  BY <1>1, MadeRow
<1>3. /\ proc'[p] = c /\ p \in Procs /\ \A q \in Procs \ {p} : proc'[q] = proc[q]
  BY <1>1, CallsKept DEF Becomes
<1>4. RowsTyped'
  <2>1. \A v \in Workspaces : workspace'[v] = None \/ workspace'[v] \in Row
    BY <1>1, <1>2 DEF RowsTyped, Stored
  <2> QED
    BY <1>1, <1>2, <2>1 DEF RowsTyped
<1>5. Shape'
  BY <1>1, <1>4, CallsKept DEF Shape
<1>6. MembersThere'
  BY <1>1, <1>2 DEF MembersThere
<1>7. OneOwner'
  <2>1. \A v \in Stored', b, d \in Accounts : Role(v, b)' = "owner" /\ Role(v, d)' = "owner" => b = d
    BY <1>1, <1>2 DEF OneOwner, Given, Roles
  <2> QED
    BY <2>1 DEF OneOwner
<1>8. Singles'
  <2>1. \A i \in Invites : invite'[i] = None \/ invite'[i] = invite[i]
    BY <1>1
  <2>2. c.pc \notin Claiming
    BY DEF Claiming
  <2> QED
    BY <1>1, <1>2, <2>1, <2>2, SinglesKept
<1>9. Seen'
  <2>1. SUFFICES ASSUME NEW q \in Procs, NEW d, d = proc'[q]
                 PROVE  SeenBy(d)'
    <3>1. \A q \in Procs : SeenBy(proc[q])'
      BY Zenon DEF SeenBy
    <3> QED
      BY <3>1 DEF Seen
  <2>2. CASE q = p
    BY <1>3, <2>1, <2>2 DEF SeenBy
  <2>3. CASE q # p
    <3>1. d = proc[q] /\ CallKnows(d) /\ SeenBy(d)
      BY <1>1, <1>3, <2>1, <2>3 DEF Shape, Seen
    <3>2. d.w # w
      BY <3>1 DEF Fresh
    <3>3. d.pc = "write_role" /\ d.w \in Stored' => Role(d.w, d.a)' # "owner"
      BY <1>2, <3>1, <3>2 DEF SeenBy, CallKnows
    <3>4. d.pc = "set_personal" /\ d.w \in Stored' /\ d.a \in users' => Role(d.w, d.a)' = "owner"
      BY <1>1, <1>2, <3>1, <3>2 DEF SeenBy, CallKnows
    <3>5. d.pc \in Planned => Owned(d.a)' \subseteq Owned(d.a) \cup overlapped'
      <4>1. SUFFICES ASSUME d.pc \in Planned PROVE Owned(d.a)' \subseteq Owned(d.a) \cup overlapped'
        OBVIOUS
      <4>2. d.a \in Accounts
        BY <3>1, <4>1 DEF CallKnows, Planned
      <4>3. CASE d.a = a
        <5>1. w \in overlapped'
          BY <3>1, <4>1, <4>3 DEF Insert, Leaving
        <5> QED
          BY <1>1, <4>3, <5>1, MadeOwned
      <4>4. CASE d.a # a
        BY <1>1, <4>2, <4>4, MadeOwned
      <4> QED
        BY <4>3, <4>4
    <3> QED
      BY <1>2, <3>1, <3>3, <3>4, <3>5 DEF SeenBy, Planned
  <2> QED
    BY <2>2, <2>3
<1>10. HaveOwners'
  <2>1. SUFFICES ASSUME NEW v \in Stored', v \notin overlapped'
                 PROVE  /\ workspace'[v].personal # None => Role(v, workspace[v].personal)' = "owner"
                        /\ \E b \in users : Role(v, b)' = "owner"
    BY <1>1 DEF HaveOwners
  <2>2. CASE v = w
    BY <1>1, <1>2, <2>2
  <2>3. CASE v # w
    <3>1. v \in Stored /\ v \notin overlapped
      BY <1>2, <2>1, <2>3
    <3>2. /\ workspace[v].personal # None => Role(v, workspace[v].personal) = "owner"
          /\ \E b \in users : Role(v, b) = "owner"
      BY <1>1, <3>1 DEF HaveOwners
    <3>3. workspace'[v] = workspace[v] /\ workspace[v].personal \in Accounts \cup {None}
      BY <1>1, <1>2, <3>1 DEF RowsTyped, Stored, Row
    <3>4. users \subseteq Accounts
      BY <1>1 DEF RowsTyped
    <3> QED
      BY <1>2, <3>1, <3>2, <3>3, <3>4
  <2> QED
    BY <2>2, <2>3
<1> QED
  BY <1>5, <1>6, <1>7, <1>8, <1>9, <1>10

(* A personal workspace is the first its account owns, or was made while the account came
   into another, which leaves the account out of the limit. *)
LEMMA InsertPersonalKeeps ==
  ASSUME Given, MemberInv, NEW p \in Procs, InsertPersonal(p)
  PROVE  MemberInv'
<1>1. /\ proc[p] \in Call /\ CallKnows(proc[p]) /\ Shape /\ Locks /\ Limits /\ proc[p].pc = "insert_personal"
      /\ UNCHANGED <<users, invite, locked, admitted>>
  BY DEF MemberInv, Shape, InsertPersonal, At
<1>2. proc[p].a \in Accounts /\ proc[p].then \in {"idle", "lock"}
  BY <1>1 DEF CallKnows, Call
<1>3. CASE Ends(p) /\ UNCHANGED <<workspace, overlapped>>
  <2>1. PICK c : c = Idle
    OBVIOUS
  <2>2. Becomes(p, c) /\ SeenBy(c) /\ c.pc = "idle"
    BY <1>3, <2>1, IdleCall DEF Becomes, Ends
  <2>3. UNCHANGED rows
    BY <1>1, <1>3 DEF rows
  <2> QED
    BY <1>1, <2>2, <2>3, CallMoves DEF Counting, Claiming
<1>4. CASE /\ Personal(proc[p].a) = {} /\ proc[p].a \in users
           /\ \E w \in Fresh : Insert(w, proc[p].a, TRUE)
           /\ To(p, proc[p].then)
  <2>1. PICK w \in Fresh, a \in users : a = proc[p].a /\ Insert(w, a, TRUE)
    BY <1>4
  <2>2. PICK c \in Call : proc' = [proc EXCEPT ![p] = c] /\ c.pc = proc[p].then /\ c.a = a
    BY <1>1, <1>2, <1>4, <2>1, ToStep DEF Steps
  <2>3. c.pc \in {"idle", "lock"} /\ Becomes(p, c)
    BY <1>2, <2>1, <2>2 DEF Becomes, CallKnows
  <2>4. locked' \in [Accounts -> Procs \cup {None}]
    BY <1>1 DEF Shape
  <2>5. Shape' /\ MembersThere' /\ OneOwner' /\ Singles' /\ Seen' /\ HaveOwners'
    BY <1>1, <2>1, <2>3, <2>4, MadeKeeps
  <2>6. Newcomers
    BY <1>1 DEF Newcomers
  <2>7. Locks'
    BY <1>1, <2>3, <2>6, LocksKept DEF Counting
  <2>8. Limits'
    <3>1. /\ Owned(a)' = Owned(a) \cup {w} /\ \A b \in Accounts \ {a} : Owned(b)' = Owned(b)
      BY <1>1, <1>2, <2>1, MadeOwned DEF Shape
    <3>2. /\ proc'[p] = c /\ \A q \in Procs \ {p} : proc'[q] = proc[q]
      BY <1>1, <2>3, CallsKept
    <3>3. overlapped \subseteq overlapped' /\ users' = users
      BY <1>1, <2>1 DEF Insert
    <3>4. SUFFICES ASSUME NEW b \in Accounts, b \notin overlapped'
                   PROVE  /\ Few(b, Limit)'
                          /\ \A q \in Procs : proc'[q].pc = "insert" /\ proc'[q].a = b /\ b \in users => Few(b, Limit - 1)'
      BY <3>3 DEF Limits
    <3>5. CASE b = a
      <4>1. Joined(a) = {}
        BY <2>1, <3>4, <3>5 DEF Insert
      <4>2. Owned(a) = {}
        BY <4>1, <1>2, <2>1 DEF Owned, Joined, Given, Roles
      <4>3. Owned(a)' = {w}
        BY <3>1, <4>2
      <4>4. IsFiniteSet(Owned(a)') /\ Cardinality(Owned(a)') = 1
        BY <4>3, FS_Singleton
      <4>5. Few(a, Limit)' /\ Few(a, Limit - 1)'
        BY <4>4 DEF Few, Given
      <4> QED
        BY <3>5, <4>5
    <3>6. CASE b # a
      <4>1. (Few(b, Limit)' <=> Few(b, Limit)) /\ (Few(b, Limit - 1)' <=> Few(b, Limit - 1))
        BY <3>1, <3>6 DEF Few
      <4>2. /\ Few(b, Limit)
            /\ \A q \in Procs : proc[q].pc = "insert" /\ proc[q].a = b /\ b \in users => Few(b, Limit - 1)
        BY <1>1, <3>3, <3>4 DEF Limits
      <4>3. \A q \in Procs : proc'[q].pc = "insert" => proc[q] = proc'[q]
        BY <2>3, <3>2
      <4> QED
        BY <4>1, <4>2, <4>3
    <3> QED
      BY <3>5, <3>6
  <2> QED
    BY <2>5, <2>7, <2>8 DEF MemberInv
<1> QED
  <2>1. \/ Ends(p) /\ UNCHANGED <<workspace, overlapped>>
        \/ /\ Personal(proc[p].a) = {} /\ proc[p].a \in users
           /\ \E w \in Fresh : Insert(w, proc[p].a, TRUE)
           /\ To(p, proc[p].then)
    BY DEF InsertPersonal
  <2> QED
    BY <1>3, <1>4, <2>1

(* The insertion a count has made room for keeps the limit: whoever else has counted for
   this account waits for its row. *)
LEMMA InsertOwnedKeeps ==
  ASSUME Given, MemberInv, NEW p \in Procs, InsertOwned(p)
  PROVE  MemberInv'
<1>1. /\ proc[p] \in Call /\ CallKnows(proc[p]) /\ Shape /\ Locks /\ Limits /\ proc[p].pc = "insert"
      /\ UNCHANGED <<users, invite, admitted>> /\ Ends(p) /\ Unlock(p)
  BY DEF MemberInv, Shape, InsertOwned, At
<1>2. proc[p].a \in Accounts
  BY <1>1 DEF CallKnows
<1>3. PICK c : c = Idle
  OBVIOUS
<1>4. Becomes(p, c) /\ SeenBy(c) /\ c.pc = "idle"
  BY <1>1, <1>3, IdleCall DEF Becomes, Ends
<1>5. Locks' /\ locked' \in [Accounts -> Procs \cup {None}]
  BY <1>1, <1>4, Unlocks DEF Counting
<1>6. /\ proc'[p] = c /\ \A q \in Procs \ {p} : proc'[q] = proc[q]
  BY <1>1, <1>4, CallsKept
<1>7. CASE UNCHANGED <<workspace, overlapped>>
  <2>1. Shape' /\ MembersThere' /\ OneOwner' /\ Singles' /\ Seen' /\ HaveOwners'
    BY <1>1, <1>4, <1>5, <1>7, CountingMoves DEF Claiming
  <2>2. Newcomers /\ \A a \in Accounts : Owned(a)' \subseteq Owned(a)
    BY <1>1, <1>7 DEF Newcomers, Owned, Stored, Role
  <2>3. overlapped \subseteq overlapped' /\ c.pc # "insert"
    BY <1>4, <1>7
  <2>4. Limits'
    BY <1>1, <1>4, <2>2, <2>3, LimitsKept
  <2> QED
    BY <1>5, <2>1, <2>4 DEF MemberInv
<1>8. CASE proc[p].a \in users /\ \E w \in Fresh : Insert(w, proc[p].a, FALSE)
  <2>1. PICK w \in Fresh, a \in users : a = proc[p].a /\ Insert(w, a, FALSE)
    BY <1>8
  <2>2. Shape' /\ MembersThere' /\ OneOwner' /\ Singles' /\ Seen' /\ HaveOwners'
    BY <1>1, <1>4, <1>5, <2>1, MadeKeeps
  <2>3. /\ Owned(a)' = Owned(a) \cup {w} /\ w \notin Owned(a) /\ \A b \in Accounts \ {a} : Owned(b)' = Owned(b)
    BY <1>1, <1>2, <2>1, MadeOwned DEF Shape
  <2>4. overlapped \subseteq overlapped' /\ users' = users
    BY <1>1, <2>1 DEF Insert
  <2>5. Limits'
    <3>1. SUFFICES ASSUME NEW b \in Accounts, b \notin overlapped'
                   PROVE  /\ Few(b, Limit)'
                          /\ \A q \in Procs : proc'[q].pc = "insert" /\ proc'[q].a = b /\ b \in users => Few(b, Limit - 1)'
      BY <2>4 DEF Limits
    <3>2. /\ Few(b, Limit)
          /\ \A q \in Procs : proc[q].pc = "insert" /\ proc[q].a = b /\ b \in users => Few(b, Limit - 1)
      BY <1>1, <2>4, <3>1 DEF Limits
    <3>3. CASE b = a
      <4>1. Few(a, Limit - 1)
        BY <1>1, <2>1, <3>2, <3>3
      <4>2. IsFiniteSet(Owned(a)') /\ Cardinality(Owned(a)') = Cardinality(Owned(a)) + 1
        BY <2>3, <4>1, FS_AddElement DEF Few
      <4>3. Few(a, Limit)'
        <5>1. Cardinality(Owned(a)) \in Nat /\ Cardinality(Owned(a)) <= Limit - 1 /\ Limit \in Nat
          BY <4>1, FS_CardinalityType DEF Few, Given
        <5> QED
          BY <4>2, <5>1 DEF Few
      <4>4. \A q \in Procs : proc'[q].pc = "insert" => proc'[q].a # a
        <5>1. SUFFICES ASSUME NEW q \in Procs, proc'[q].pc = "insert", proc'[q].a = a PROVE FALSE
          OBVIOUS
        <5>2. q # p /\ proc[q].pc = "insert" /\ proc[q].a = a
          BY <1>4, <1>6, <5>1
        <5>3. locked[a] = q /\ locked[a] = p
          BY <1>1, <1>2, <2>1, <5>2 DEF Locks
        <5> QED
          BY <5>2, <5>3
      <4> QED
        BY <3>3, <4>3, <4>4
    <3>4. CASE b # a
      <4>1. (Few(b, Limit)' <=> Few(b, Limit)) /\ (Few(b, Limit - 1)' <=> Few(b, Limit - 1))
        BY <2>3, <3>4 DEF Few
      <4>2. \A q \in Procs : proc'[q].pc = "insert" => proc[q] = proc'[q]
        BY <1>4, <1>6
      <4> QED
        BY <3>2, <4>1, <4>2
    <3> QED
      BY <3>3, <3>4
  <2> QED
    BY <1>5, <2>2, <2>5 DEF MemberInv
<1> QED
  <2>1. \/ proc[p].a \in users /\ \E w \in Fresh : Insert(w, proc[p].a, FALSE)
        \/ UNCHANGED <<workspace, overlapped>>
    BY DEF InsertOwned
  <2> QED
    BY <1>7, <1>8, <2>1

-----------------------------------------------------------------------------
(* Members' roles.                                                          *)

(* Writing a role that is an owner's only where it was one. *)
LEMMA RoleWritten ==
  ASSUME Given, Shape, MembersThere, HaveOwners, NEW w \in Stored, NEW a \in Accounts, NEW r \in Roles \cup {None},
         workspace' = [workspace EXCEPT ![w].role[a] = r], users' = users, overlapped \subseteq overlapped',
         r = "owner" <=> Role(w, a) = "owner", r # None => a \in users
  PROVE  /\ DOMAIN workspace' = Workspaces /\ \A v \in Workspaces : workspace'[v] = None \/ workspace'[v] \in Row
         /\ Stored' = Stored /\ NoNewOwners /\ Newcomers /\ HaveOwners'
         /\ \A v \in Stored, b \in Accounts : Role(v, b)' # None => b \in users
<1>1. RowsTyped /\ users \subseteq Accounts
  BY DEF Shape, RowsTyped
<1>2. w \in Workspaces /\ workspace[w] \in Row /\ workspace[w] # None
  BY <1>1, RowThere
<1>3. PICK row : row = [workspace[w] EXCEPT !.role[a] = r]
  OBVIOUS
<1>4. /\ row \in Row /\ row.personal = workspace[w].personal /\ row # None
      /\ \A b \in Accounts : row.role[b] = IF b = a THEN r ELSE workspace[w].role[b]
  BY <1>2, <1>3 DEF Row, Given
<1>5. workspace' = [workspace EXCEPT ![w] = row]
  BY <1>3, Zenon
<1>6. DOMAIN workspace' = Workspaces /\ workspace'[w] = row /\ \A v \in Workspaces \ {w} : workspace'[v] = workspace[v]
  BY <1>1, <1>2, <1>5 DEF RowsTyped
<1>7. \A v \in Workspaces : workspace'[v] = None \/ workspace'[v] \in Row
  BY <1>1, <1>4, <1>6 DEF RowsTyped
<1>8. Stored' = Stored
  BY <1>2, <1>4, <1>6 DEF Stored
<1>9. \A v \in Stored, b \in Accounts : Role(v, b)' = IF v = w /\ b = a THEN r ELSE Role(v, b)
  <2>1. ASSUME NEW v \in Stored, NEW b \in Accounts
        PROVE  Role(v, b) = workspace[v].role[b] /\ Role(v, b)' = workspace'[v].role[b]
    BY <1>8, <2>1 DEF Role, Stored
  <2>2. ASSUME NEW v \in Stored, v # w
        PROVE  workspace'[v] = workspace[v]
    BY <1>6, <2>2 DEF Stored
  <2>3. \A b \in Accounts : workspace'[w].role[b] = IF b = a THEN r ELSE workspace[w].role[b]
    BY <1>4, <1>6
  <2>4. ASSUME NEW v \in Stored, NEW b \in Accounts
        PROVE  Role(v, b)' = IF v = w /\ b = a THEN r ELSE Role(v, b)
    BY <2>1, <2>2, <2>3
  <2> QED
    BY <2>4
<1>10. NoNewOwners
  BY <1>8, <1>9 DEF NoNewOwners
<1>11. \A v \in Stored, b \in Accounts : Role(v, b)' # None => b \in users
  BY <1>9 DEF MembersThere
<1>12. HaveOwners'
  <2>1. SUFFICES ASSUME NEW v \in Stored, v \notin overlapped'
                 PROVE  /\ workspace'[v].personal # None => Role(v, workspace[v].personal)' = "owner"
                        /\ \E b \in users : Role(v, b)' = "owner"
    BY <1>8 DEF HaveOwners
  <2>2. /\ workspace[v].personal # None => Role(v, workspace[v].personal) = "owner"
        /\ \E b \in users : Role(v, b) = "owner"
    BY <2>1 DEF HaveOwners
  <2>3. v \in Workspaces /\ workspace[v].personal \in Accounts \cup {None}
    BY <1>1, RowThere DEF Row
  <2>4. workspace'[v].personal = workspace[v].personal
    BY <1>4, <1>6, <2>3
  <2>5. \A b \in Accounts : Role(v, b) = "owner" => Role(v, b)' = "owner"
    BY <1>9
  <2> QED
    BY <1>1, <2>2, <2>3, <2>4, <2>5
<1> QED
  BY <1>6, <1>7, <1>8, <1>10, <1>11, <1>12 DEF Newcomers

(* Writing a role keeps the invariant: who was no owner when the role was read is none now. *)
LEMMA WriteRoleKeeps ==
  ASSUME Given, MemberInv, NEW p \in Procs, WriteRole(p)
  PROVE  MemberInv'
<1>1. /\ proc[p] \in Call /\ CallKnows(proc[p]) /\ Shape /\ proc[p].pc = "write_role" /\ Ends(p)
      /\ UNCHANGED <<users, invite, locked, admitted, overlapped>> /\ SeenBy(proc[p])
      /\ MembersThere /\ HaveOwners
  BY DEF MemberInv, Shape, WriteRole, At, Seen
<1>2. proc[p].a \in Accounts /\ proc[p].w \in Workspaces /\ proc[p].role \in {"admin", "member", None}
  BY <1>1 DEF CallKnows, Call
<1>3. PICK c : c = Idle
  OBVIOUS
<1>4. Becomes(p, c) /\ SeenBy(c) /\ SeenBy(c)' /\ c.pc = "idle"
  BY <1>1, <1>3, IdleCall DEF Becomes, Ends, SeenBy
<1>5. CASE Role(proc[p].w, proc[p].a) = None
  <2>1. UNCHANGED rows
    BY <1>1, <1>5 DEF rows, WriteRole
  <2> QED
    BY <1>1, <1>4, <2>1, CallMoves DEF Counting, Claiming
<1>6. CASE Role(proc[p].w, proc[p].a) # None
  <2>1. PICK w \in Stored, a \in Accounts, r \in {"admin", "member", None} :
          w = proc[p].w /\ a = proc[p].a /\ r = proc[p].role
    BY <1>2, <1>6 DEF Stored, Role
  <2>2. workspace' = [workspace EXCEPT ![w].role[a] = r]
    BY <1>6, <2>1, Zenon DEF WriteRole
  <2>3. r # "owner" /\ r \in Roles \cup {None} /\ Role(w, a) # "owner" /\ a \in users
    BY <1>1, <1>6, <2>1 DEF Roles, Given, SeenBy, MembersThere
  <2>4. overlapped \subseteq overlapped' /\ users' = users /\ invite' = invite
    BY <1>1
  <2>5. /\ DOMAIN workspace' = Workspaces /\ \A v \in Workspaces : workspace'[v] = None \/ workspace'[v] \in Row
        /\ Stored' = Stored /\ NoNewOwners /\ Newcomers /\ HaveOwners'
        /\ \A v \in Stored, b \in Accounts : Role(v, b)' # None => b \in users
    BY <1>1, <2>2, <2>3, <2>4, RoleWritten
  <2>6. RowsTyped' /\ MembersThere'
    BY <1>1, <2>4, <2>5 DEF Shape, RowsTyped, MembersThere
  <2>7. \A i \in Invites : invite'[i] = None \/ invite'[i] = invite[i]
    BY <1>1
  <2>8. proc[p].pc \notin Counting /\ c.pc \notin Counting /\ c.pc \notin Claiming
    BY <1>1, <1>4 DEF Counting, Claiming
  <2>9. Shape' /\ OneOwner' /\ Locks' /\ Limits' /\ Singles' /\ Seen'
    BY <1>1, <1>4, <2>4, <2>5, <2>6, <2>7, <2>8, OthersKept
  <2> QED
    BY <2>5, <2>6, <2>9 DEF MemberInv
<1> QED
  BY <1>5, <1>6

(* What admitting an account does to the rows. *)
LEMMA Admitting ==
  ASSUME Given, Shape, MembersThere, HaveOwners, OneOwner, Locks, Limits, Seen,
         NEW w \in Stored, NEW a \in users, NEW r \in {"admin", "member"},
         NEW i \in Invites, Admit(i, a, w, r), UNCHANGED <<users, locked>>, overlapped \subseteq overlapped',
         NEW p, NEW c, Becomes(p, c), proc[p].pc \notin Counting, c.pc \in {"idle", "personal"}
  PROVE  /\ DOMAIN workspace' = Workspaces /\ \A v \in Workspaces : workspace'[v] = None \/ workspace'[v] \in Row
         /\ \A v \in Stored', b \in Accounts : Role(v, b)' # None => b \in users'
         /\ Stored' = Stored /\ HaveOwners' /\ OneOwner' /\ Locks' /\ Limits' /\ Seen'
         /\ admitted' \in [Invites -> SUBSET Accounts] /\ admitted'[i] = admitted[i] \cup {a}
         /\ \A j \in Invites \ {i} : admitted'[j] = admitted[j]
<1>1. RowsTyped /\ users \subseteq Accounts /\ admitted \in [Invites -> SUBSET Accounts]
  BY DEF Shape, RowsTyped
<1>2. workspace[w] \in Row /\ workspace[w] # None /\ w \in Workspaces /\ a \in Accounts
  BY <1>1, RowThere
<1>3. PICK s : s = IF Role(w, a) = None THEN r ELSE Role(w, a)
  OBVIOUS
<1>4. Role(w, a) = workspace[w].role[a] /\ Role(w, a) \in Roles \cup {None}
  BY <1>2 DEF Role, Row
<1>5. s \in Roles \cup {None} /\ (s = "owner" <=> Role(w, a) = "owner")
  BY <1>3, <1>4 DEF Roles, Given
<1>6. workspace' = [workspace EXCEPT ![w].role[a] = s]
  <2>1. workspace' = [workspace EXCEPT ![w].role[a] = IF workspace[w].role[a] = None THEN r ELSE workspace[w].role[a]]
    BY DEF Admit
  <2> QED
    BY <1>3, <1>4, <2>1, Zenon
<1>7. users' = users /\ locked' = locked
  OBVIOUS
<1>8. /\ DOMAIN workspace' = Workspaces /\ \A v \in Workspaces : workspace'[v] = None \/ workspace'[v] \in Row
      /\ Stored' = Stored /\ NoNewOwners /\ Newcomers /\ HaveOwners'
      /\ \A v \in Stored, b \in Accounts : Role(v, b)' # None => b \in users
  BY <1>2, <1>5, <1>6, <1>7, RoleWritten
<1>9. OneOwner' /\ \A b \in Accounts : Owned(b)' \subseteq Owned(b)
  BY <1>8, OwnersKept
<1>10. SeenBy(c)' /\ c.pc \notin Counting /\ c.pc # "insert"
  BY DEF SeenBy, Counting
<1>11. Locks'
  BY <1>7, <1>8, <1>10, LocksKept
<1>12. Limits'
  BY <1>8, <1>9, <1>10, LimitsKept
<1>13. Seen'
  BY <1>8, <1>10, SeenKept
<1>14. admitted' = [admitted EXCEPT ![i] = admitted[i] \cup {a}]
  BY DEF Admit
<1>15. /\ admitted' \in [Invites -> SUBSET Accounts] /\ admitted'[i] = admitted[i] \cup {a}
       /\ \A j \in Invites \ {i} : admitted'[j] = admitted[j]
  BY <1>1, <1>2, <1>14
<1> QED
  BY <1>7, <1>8, <1>9, <1>11, <1>12, <1>13, <1>15

(* acceptInviteForUser's write keeps the invariant: a use of an invite that could no longer
   be claimed is one that overlapped another. *)
LEMMA UseInviteKeeps ==
  ASSUME Given, MemberInv, NEW p \in Procs, UseInvite(p)
  PROVE  MemberInv'
<1>1. /\ proc[p] \in Call /\ CallKnows(proc[p]) /\ Shape /\ proc[p].pc = "use" /\ Ends(p)
      /\ UNCHANGED <<users, locked>> /\ RowsTyped /\ Singles
      /\ MembersThere /\ HaveOwners /\ OneOwner /\ Locks /\ Limits /\ Seen
  BY DEF MemberInv, Shape, UseInvite, At
<1>2. /\ proc[p].a \in Accounts /\ proc[p].w \in Workspaces /\ proc[p].i \in Invites
      /\ proc[p].role \in {"admin", "member"}
  BY <1>1 DEF CallKnows, Call
<1>3. PICK c : c = Idle
  OBVIOUS
<1>4. Becomes(p, c) /\ SeenBy(c) /\ c.pc = "idle"
  BY <1>1, <1>3, IdleCall DEF Becomes, Ends
<1>5. CASE ~(proc[p].w \in Stored /\ proc[p].a \in users)
  <2>1. UNCHANGED rows
    BY <1>1, <1>5 DEF rows, UseInvite
  <2> QED
    BY <1>1, <1>4, <2>1, CallMoves DEF Counting, Claiming
<1>6. CASE proc[p].w \in Stored /\ proc[p].a \in users
  <2>1. PICK w \in Stored, a \in users, i \in Invites, r \in {"admin", "member"} :
          w = proc[p].w /\ a = proc[p].a /\ i = proc[p].i /\ r = proc[p].role
    BY <1>2, <1>6
  <2>2. /\ Admit(i, a, w, r)
        /\ invite' = IF invite[i] = None THEN invite ELSE [invite EXCEPT ![i].used = TRUE]
        /\ overlapped' = IF Claimable(i, a) THEN overlapped ELSE overlapped \cup {i}
    BY <1>6, <2>1, Zenon DEF UseInvite
  <2>3. overlapped \subseteq overlapped' /\ proc[p].pc \notin Counting /\ c.pc \in {"idle", "personal"}
        /\ users' = users
    BY <1>1, <1>4, <2>2 DEF Counting
  <2>4. /\ DOMAIN workspace' = Workspaces /\ \A v \in Workspaces : workspace'[v] = None \/ workspace'[v] \in Row
        /\ \A v \in Stored', b \in Accounts : Role(v, b)' # None => b \in users'
        /\ Stored' = Stored /\ HaveOwners' /\ OneOwner' /\ Locks' /\ Limits' /\ Seen'
        /\ admitted' \in [Invites -> SUBSET Accounts] /\ admitted'[i] = admitted[i] \cup {a}
        /\ \A j \in Invites \ {i} : admitted'[j] = admitted[j]
    BY <1>1, <1>4, <2>1, <2>2, <2>3, Admitting
  <2>5. /\ DOMAIN invite' = Invites /\ \A j \in Invites \ {i} : invite'[j] = invite[j]
        /\ invite[i] = None => invite'[i] = None
        /\ invite[i] # None => invite'[i] \in Link /\ invite'[i] # None /\ invite'[i].w = invite[i].w /\ invite'[i].used
    <3>1. DOMAIN invite = Invites /\ (invite[i] = None \/ invite[i] \in Link)
      BY <1>1 DEF RowsTyped
    <3>2. CASE invite[i] = None
      BY <2>2, <3>1, <3>2
    <3>3. CASE invite[i] # None
      <4>1. PICK row : row = [invite[i] EXCEPT !.used = TRUE]
        OBVIOUS
      <4>2. row \in Link /\ row.w = invite[i].w /\ row.used
        BY <3>1, <3>3, <4>1 DEF Link
      <4>3. invite' = [invite EXCEPT ![i] = row]
        BY <2>2, <3>3, <4>1, Zenon
      <4> QED
        BY <3>1, <3>3, <4>2, <4>3 DEF Given
    <3> QED
      BY <3>2, <3>3
  <2>6. RowsTyped'
    BY <1>1, <2>3, <2>4, <2>5 DEF RowsTyped
  <2>7. Shape'
    <3>1. locked' = locked
      BY <1>1
    <3> QED
      BY <1>1, <1>4, <2>4, <2>6, <3>1, CallsKept DEF Shape
  <2>8. MembersThere'
    BY <1>1, <2>4, <2>5 DEF MembersThere
  <2>9. Singles'
    <3>1. /\ proc'[p] = c /\ \A q \in Procs \ {p} : proc'[q] = proc[q]
      BY <1>1, <1>4, CallsKept
    <3>2. ASSUME NEW q \in Procs, NEW j \in Invites, Claims(q, j)'
          PROVE  Claims(q, j)
      BY <1>4, <3>1, <3>2 DEF Claims
    <3>3. SUFFICES ASSUME NEW j \in Invites
                   PROVE  /\ \A q, t \in Procs : Claims(q, j)' /\ Claims(t, j)' => q = t
                          /\ \A q \in Procs : Claims(q, j)' => invite'[j] = None \/ invite'[j].used
                          /\ j \notin overlapped' =>
                               /\ \A b, d \in admitted'[j] : b = d
                               /\ invite'[j] # None /\ ~invite'[j].used => admitted'[j] = {}
                               /\ \A q \in Procs : Claims(q, j)' => admitted'[j] = {}
      BY DEF Singles
    <3>4. /\ \A q, t \in Procs : Claims(q, j) /\ Claims(t, j) => q = t
          /\ \A q \in Procs : Claims(q, j) => invite[j] = None \/ invite[j].used
          /\ j \notin overlapped =>
               /\ \A b, d \in admitted[j] : b = d
               /\ invite[j] # None /\ ~invite[j].used => admitted[j] = {}
               /\ \A q \in Procs : Claims(q, j) => admitted[j] = {}
      BY <1>1 DEF Singles
    <3>5. \A q \in Procs : Claims(q, j)' => Claims(q, j)
      BY <3>2
    <3>6. CASE j # i
      <4>1. invite'[j] = invite[j] /\ admitted'[j] = admitted[j]
        BY <2>4, <2>5, <3>6
      <4>2. j \notin overlapped' => j \notin overlapped
        BY <2>3
      <4> HIDE DEF Claims
      <4> QED
        BY <3>4, <3>5, <4>1, <4>2
    <3>7. CASE j = i
      <4>1. /\ \A q, t \in Procs : Claims(q, j)' /\ Claims(t, j)' => q = t
            /\ \A q \in Procs : Claims(q, j)' => invite'[j] = None \/ invite'[j].used
        BY <2>5, <3>4, <3>5, <3>7
      <4>2. SUFFICES ASSUME j \notin overlapped'
                     PROVE  /\ \A b, d \in admitted'[j] : b = d
                            /\ invite'[j] # None => invite'[j].used
                            /\ \A q \in Procs : ~Claims(q, j)'
        BY <4>1
      <4>3. Claimable(i, a) /\ j \notin overlapped
        BY <2>2, <3>7, <4>2
      <4>4. invite[i] # None /\ ~invite[i].used
        BY <4>3 DEF Claimable
      <4>5. admitted'[i] = {a} /\ a \in Accounts
        BY <1>1, <2>4, <3>4, <3>7, <4>3, <4>4 DEF RowsTyped
      <4>6. \A q \in Procs : ~Claims(q, j)
        BY <3>4, <3>7, <4>4
      <4> QED
        BY <2>5, <3>5, <3>7, <4>4, <4>5, <4>6
    <3> QED
      BY <3>6, <3>7
  <2> QED
    BY <2>4, <2>7, <2>8, <2>9 DEF MemberInv
<1> QED
  BY <1>5, <1>6

(* A sign-up that completes keeps the invariant: it alone has claimed its invite. *)
LEMMA CompleteInviteKeeps ==
  ASSUME Given, MemberInv, NEW p \in Procs, CompleteInvite(p)
  PROVE  MemberInv'
<1>1. /\ proc[p] \in Call /\ CallKnows(proc[p]) /\ Shape /\ proc[p].pc = "complete"
      /\ UNCHANGED <<users, invite, locked, overlapped>> /\ RowsTyped /\ Singles
      /\ MembersThere /\ HaveOwners /\ OneOwner /\ Locks /\ Limits /\ Seen
  BY DEF MemberInv, Shape, CompleteInvite, At
<1>2. proc[p].a \in Accounts /\ proc[p].i \in Invites \cup {None}
  BY <1>1 DEF CallKnows, Call
<1>3. PICK c : c = [Idle EXCEPT !.pc = "personal", !.a = proc[p].a]
  OBVIOUS
<1>4. c \in Call /\ c.pc = "personal" /\ c.a = proc[p].a /\ c.i = None
  BY <1>2, <1>3 DEF Idle, Call, Steps
<1>5. proc' = [proc EXCEPT ![p] = c]
  BY <1>3, Zenon DEF CompleteInvite
<1>6. Becomes(p, c) /\ SeenBy(c)
  BY <1>2, <1>4, <1>5 DEF Becomes, CallKnows, SeenBy
<1>7. CASE ~(proc[p].i # None /\ invite[proc[p].i] # None /\ proc[p].a \in users)
  <2>1. UNCHANGED rows
    BY <1>1, <1>7 DEF rows, CompleteInvite
  <2> QED
    BY <1>1, <1>4, <1>6, <2>1, CallMoves DEF Counting, Claiming
<1>8. CASE proc[p].i # None /\ invite[proc[p].i] # None /\ proc[p].a \in users
  <2>1. invite[proc[p].i] \in Link /\ invite[proc[p].i].w \in Stored
    BY <1>1, <1>2, <1>8 DEF RowsTyped, MembersThere
  <2>2. PICK w \in Stored, a \in users, i \in Invites, r \in {"admin", "member"} :
          w = invite[i].w /\ a = proc[p].a /\ i = proc[p].i /\ r = invite[i].role
    BY <1>2, <1>8, <2>1 DEF Link
  <2>3. Admit(i, a, w, r)
    BY <1>8, <2>2, Zenon DEF CompleteInvite
  <2>4. overlapped \subseteq overlapped' /\ proc[p].pc \notin Counting /\ c.pc \in {"idle", "personal"}
        /\ users' = users /\ locked' = locked /\ invite' = invite
    BY <1>1, <1>4 DEF Counting
  <2>5. /\ DOMAIN workspace' = Workspaces /\ \A v \in Workspaces : workspace'[v] = None \/ workspace'[v] \in Row
        /\ \A v \in Stored', b \in Accounts : Role(v, b)' # None => b \in users'
        /\ Stored' = Stored /\ HaveOwners' /\ OneOwner' /\ Locks' /\ Limits' /\ Seen'
        /\ admitted' \in [Invites -> SUBSET Accounts] /\ admitted'[i] = admitted[i] \cup {a}
        /\ \A j \in Invites \ {i} : admitted'[j] = admitted[j]
    BY <1>1, <1>6, <2>3, <2>4, Admitting
  <2>6. RowsTyped' /\ MembersThere'
    BY <1>1, <2>4, <2>5 DEF RowsTyped, MembersThere
  <2>7. Shape'
    BY <1>1, <1>6, <2>4, <2>5, <2>6, CallsKept DEF Shape
  <2>8. Singles'
    <3>1. /\ proc'[p] = c /\ \A q \in Procs \ {p} : proc'[q] = proc[q]
      BY <1>1, <1>6, CallsKept
    <3>2. ASSUME NEW q \in Procs, NEW j \in Invites, Claims(q, j)'
          PROVE  Claims(q, j) /\ q # p
      BY <1>4, <3>1, <3>2 DEF Claims
    <3>3. SUFFICES ASSUME NEW j \in Invites
                   PROVE  /\ \A q, t \in Procs : Claims(q, j)' /\ Claims(t, j)' => q = t
                          /\ \A q \in Procs : Claims(q, j)' => invite[j] = None \/ invite[j].used
                          /\ j \notin overlapped =>
                               /\ \A b, d \in admitted'[j] : b = d
                               /\ invite[j] # None /\ ~invite[j].used => admitted'[j] = {}
                               /\ \A q \in Procs : Claims(q, j)' => admitted'[j] = {}
      BY <1>1 DEF Singles
    <3>4. /\ \A q, t \in Procs : Claims(q, j) /\ Claims(t, j) => q = t
          /\ \A q \in Procs : Claims(q, j) => invite[j] = None \/ invite[j].used
          /\ j \notin overlapped =>
               /\ \A b, d \in admitted[j] : b = d
               /\ invite[j] # None /\ ~invite[j].used => admitted[j] = {}
               /\ \A q \in Procs : Claims(q, j) => admitted[j] = {}
      BY <1>1 DEF Singles
    <3>5. \A q \in Procs : Claims(q, j)' => Claims(q, j) /\ q # p
      BY <3>2
    <3>6. CASE j # i
      <4>1. admitted'[j] = admitted[j]
        BY <2>5, <3>6
      <4> HIDE DEF Claims
      <4> QED
        BY <3>4, <3>5, <4>1
    <3>7. CASE j = i
      <4>1. Claims(p, j)
        BY <1>1, <2>2, <3>7 DEF Claims
      <4>2. invite[j].used /\ (j \notin overlapped => admitted'[j] = {a})
        BY <1>8, <2>2, <2>5, <3>4, <3>7, <4>1
      <4>3. \A q \in Procs : ~Claims(q, j)'
        BY <3>4, <3>5, <4>1
      <4>4. a \in Accounts
        BY <1>1 DEF RowsTyped
      <4> QED
        BY <4>2, <4>3, <4>4
    <3> QED
      BY <3>6, <3>7
  <2> QED
    BY <2>5, <2>6, <2>7, <2>8 DEF MemberInv
<1> QED
  BY <1>7, <1>8

(* A sign-up's claim keeps the invariant: the statement that marks the invite finds it unused. *)
LEMMA ClaimInviteKeeps ==
  ASSUME Given, MemberInv, NEW p \in Procs, NEW a \in Accounts, NEW i \in Invites, ClaimInvite(p, a, i)
  PROVE  MemberInv'
<1>1. /\ Shape /\ RowsTyped /\ Singles /\ proc[p].pc = "idle" /\ UNCHANGED <<users, workspace, locked, admitted, overlapped>>
      /\ MembersThere /\ HaveOwners /\ OneOwner /\ Locks /\ Limits /\ Seen
  BY DEF MemberInv, Shape, ClaimInvite, Begin, At
<1>2. /\ users' = users /\ workspace' = workspace /\ locked' = locked
      /\ admitted' = admitted /\ overlapped' = overlapped
  BY <1>1
<1>3. NoNewOwners /\ Newcomers /\ HaveOwners'
  BY <1>1, <1>2 DEF NoNewOwners, Newcomers, HaveOwners, Stored, Role
<1>4. CASE Claimable(i, a)
  <2>1. PICK c : c = [Idle EXCEPT !.pc = "create_user", !.a = a, !.i = i]
    OBVIOUS
  <2>2. c \in Call /\ c.pc = "create_user" /\ c.a = a /\ c.i = i
    BY <2>1 DEF Idle, Call, Steps
  <2>3. proc' = [proc EXCEPT ![p] = c] /\ invite' = [invite EXCEPT ![i].used = TRUE]
    BY <1>4, <2>1, Zenon DEF ClaimInvite, Begin
  <2>4. Becomes(p, c) /\ SeenBy(c)'
    BY <2>2, <2>3 DEF Becomes, CallKnows, SeenBy
  <2>5. c.pc \notin Counting /\ proc[p].pc \notin Counting /\ c.pc # "insert"
    BY <1>1, <2>2 DEF Counting
  <2>6. OneOwner' /\ \A b \in Accounts : Owned(b)' \subseteq Owned(b)
    BY <1>1, <1>3, OwnersKept
  <2>7. overlapped \subseteq overlapped'
    BY <1>2
  <2>8. Locks' /\ Limits' /\ Seen'
    BY <1>1, <1>2, <1>3, <2>4, <2>5, <2>6, <2>7, LocksKept, LimitsKept, SeenKept
  <2>9. /\ invite[i] # None /\ ~invite[i].used /\ invite[i] \in Link /\ DOMAIN invite = Invites
    BY <1>1, <1>4 DEF Claimable, RowsTyped
  <2>10. PICK row : row = [invite[i] EXCEPT !.used = TRUE]
    OBVIOUS
  <2>11. row \in Link /\ row.w = invite[i].w /\ row.used
    BY <2>9, <2>10 DEF Link
  <2>12. invite' = [invite EXCEPT ![i] = row]
    BY <2>3, <2>10, Zenon
  <2>13. /\ DOMAIN invite' = Invites /\ invite'[i] = row /\ \A j \in Invites \ {i} : invite'[j] = invite[j]
    BY <2>9, <2>12
  <2>14. RowsTyped'
    <3>1. \A j \in Invites : invite'[j] = None \/ invite'[j] \in Link
      BY <1>1, <2>11, <2>13 DEF RowsTyped
    <3> QED
      BY <1>1, <1>2, <2>13, <3>1 DEF RowsTyped
  <2>15. MembersThere'
    <3>1. Stored' = Stored /\ \A w \in Stored, b \in Accounts : Role(w, b)' = Role(w, b)
      BY <1>2 DEF Stored, Role
    <3>2. \A j \in Invites : invite'[j] # None => invite'[j].w \in Stored
      BY <1>1, <2>9, <2>11, <2>13 DEF MembersThere
    <3> QED
      BY <1>1, <1>2, <3>1, <3>2 DEF MembersThere
  <2>16. Shape'
    BY <1>1, <1>2, <2>4, <2>14, CallsKept DEF Shape
  <2>17. Singles'
    <3>1. /\ proc'[p] = c /\ \A q \in Procs \ {p} : proc'[q] = proc[q]
      BY <1>1, <2>4, CallsKept
    <3>2. SUFFICES ASSUME NEW j \in Invites
                   PROVE  /\ \A q, t \in Procs : Claims(q, j)' /\ Claims(t, j)' => q = t
                          /\ \A q \in Procs : Claims(q, j)' => invite'[j] = None \/ invite'[j].used
                          /\ j \notin overlapped =>
                               /\ \A b, d \in admitted[j] : b = d
                               /\ invite'[j] # None /\ ~invite'[j].used => admitted[j] = {}
                               /\ \A q \in Procs : Claims(q, j)' => admitted[j] = {}
      BY <1>2 DEF Singles
    <3>3. /\ \A q, t \in Procs : Claims(q, j) /\ Claims(t, j) => q = t
          /\ \A q \in Procs : Claims(q, j) => invite[j] = None \/ invite[j].used
          /\ j \notin overlapped =>
               /\ \A b, d \in admitted[j] : b = d
               /\ invite[j] # None /\ ~invite[j].used => admitted[j] = {}
               /\ \A q \in Procs : Claims(q, j) => admitted[j] = {}
      BY <1>1 DEF Singles
    <3>4. CASE j # i
      <4>1. ASSUME NEW q \in Procs, Claims(q, j)' PROVE Claims(q, j)
        BY <2>2, <3>1, <3>4, <4>1 DEF Claims
      <4>2. invite'[j] = invite[j] /\ \A q \in Procs : Claims(q, j)' => Claims(q, j)
        BY <2>13, <3>4, <4>1
      <4> HIDE DEF Claims
      <4> QED
        BY <3>3, <4>2
    <3>5. CASE j = i
      <4>1. \A q \in Procs : ~Claims(q, j)
        BY <2>9, <3>3, <3>5
      <4>2. ASSUME NEW q \in Procs, Claims(q, j)' PROVE q = p
        BY <3>1, <4>1, <4>2 DEF Claims
      <4>3. invite'[j].used /\ (j \notin overlapped => admitted[j] = {})
        BY <2>9, <2>11, <2>13, <3>3, <3>5
      <4> HIDE DEF Claims
      <4> QED
        BY <3>3, <4>2, <4>3
    <3> QED
      BY <3>4, <3>5
  <2> QED
    BY <1>3, <2>6, <2>8, <2>15, <2>16, <2>17 DEF MemberInv
<1>5. CASE ~Claimable(i, a)
  <2>1. PICK c : c = [Idle EXCEPT !.pc = "create_user", !.a = a]
    OBVIOUS
  <2>2. c \in Call /\ c.pc = "create_user" /\ c.a = a /\ c.i = None
    BY <2>1 DEF Idle, Call, Steps
  <2>3. proc' = [proc EXCEPT ![p] = c] /\ invite' = invite
    BY <1>5, <2>1, Zenon DEF ClaimInvite, Begin
  <2>4. Becomes(p, c) /\ SeenBy(c)'
    BY <2>2, <2>3 DEF Becomes, CallKnows, SeenBy
  <2>5. c.pc \notin Counting /\ proc[p].pc \notin Counting
    BY <1>1, <2>2 DEF Counting
  <2>6. RowsTyped' /\ MembersThere'
    BY <1>1, <1>2, <2>3 DEF RowsTyped, MembersThere, Stored, Role
  <2>7. overlapped \subseteq overlapped' /\ \A j \in Invites : invite'[j] = None \/ invite'[j] = invite[j]
    BY <1>2, <2>3
  <2>8. Shape' /\ OneOwner' /\ Locks' /\ Limits' /\ Singles' /\ Seen'
    BY <1>2, <1>3, <2>2, <2>4, <2>5, <2>6, <2>7, OthersKept
  <2> QED
    BY <1>3, <2>6, <2>8 DEF MemberInv
<1> QED
  BY <1>4, <1>5

(* A new account keeps the invariant: no call of an earlier one knows it. *)
LEMMA CreateUserKeeps ==
  ASSUME Given, MemberInv, NEW p \in Procs, CreateUser(p)
  PROVE  MemberInv'
<1>1. /\ proc[p] \in Call /\ CallKnows(proc[p]) /\ Shape /\ proc[p].pc = "create_user" /\ RowsTyped
      /\ UNCHANGED <<workspace, invite, locked, admitted, overlapped>> /\ MembersThere /\ HaveOwners
  BY DEF MemberInv, Shape, CreateUser, At
<1>2. CASE Ends(p) /\ UNCHANGED users
  <2>1. PICK c : c = Idle
    OBVIOUS
  <2>2. Becomes(p, c) /\ SeenBy(c) /\ c.pc = "idle"
    BY <1>2, <2>1, IdleCall DEF Becomes, Ends
  <2>3. UNCHANGED rows
    BY <1>1, <1>2 DEF rows
  <2> QED
    BY <1>1, <2>2, <2>3, CallMoves DEF Counting, Claiming
<1>3. CASE /\ proc[p].a \notin users /\ \A q \in Procs : proc[q].a = proc[p].a => At(q, {"idle", "create_user"})
           /\ users' = users \cup {proc[p].a} /\ To(p, "complete")
  <2>1. PICK c \in Call : /\ proc' = [proc EXCEPT ![p] = c] /\ c.pc = "complete" /\ c.a = proc[p].a /\ c.i = proc[p].i
    BY <1>1, <1>3, ToStep DEF Steps
  <2>2. Becomes(p, c) /\ SeenBy(c)'
    BY <1>1, <2>1 DEF Becomes, CallKnows, SeenBy
  <2>3. /\ workspace' = workspace /\ invite' = invite /\ locked' = locked
        /\ admitted' = admitted /\ overlapped' = overlapped
    BY <1>1
  <2>4. NoNewOwners /\ Newcomers
    BY <1>3, <2>3 DEF NoNewOwners, Newcomers, Stored, Role, At
  <2>5. RowsTyped' /\ MembersThere' /\ HaveOwners'
    <3>1. proc[p].a \in Accounts
      BY <1>1 DEF CallKnows
    <3>2. Stored' = Stored /\ \A w \in Stored : \A b : Role(w, b)' = Role(w, b)
      BY <2>3 DEF Stored, Role
    <3>3. RowsTyped'
      BY <1>1, <1>3, <2>3, <3>1 DEF RowsTyped
    <3>4. MembersThere'
      BY <1>1, <1>3, <2>3, <3>2 DEF MembersThere
    <3>5. HaveOwners'
      BY <1>1, <1>3, <2>3, <3>2 DEF HaveOwners
    <3> QED
      BY <3>3, <3>4, <3>5
  <2>6. c.pc \notin Counting /\ proc[p].pc \notin Counting /\ proc[p].pc \in Claiming
    BY <1>1, <2>1 DEF Counting, Claiming
  <2>7. overlapped \subseteq overlapped' /\ \A j \in Invites : invite'[j] = None \/ invite'[j] = invite[j]
    BY <2>3
  <2>8. Shape' /\ OneOwner' /\ Locks' /\ Limits' /\ Singles' /\ Seen'
    BY <2>1, <2>2, <2>3, <2>4, <2>5, <2>6, <2>7, OthersKept
  <2> QED
    BY <2>5, <2>8 DEF MemberInv
<1> QED
  <2>1. \/ Ends(p) /\ UNCHANGED users
        \/ /\ proc[p].a \notin users /\ \A q \in Procs : proc[q].a = proc[p].a => At(q, {"idle", "create_user"})
           /\ users' = users \cup {proc[p].a} /\ To(p, "complete")
    BY Zenon DEF CreateUser
  <2> QED
    BY <1>2, <1>3, <2>1

(* Deleting an invite keeps the invariant. *)
LEMMA DeleteInviteKeeps ==
  ASSUME Given, MemberInv, NEW i \in Invites, DeleteInvite(i)
  PROVE  MemberInv'
<1>1. /\ users' = users /\ workspace' = workspace /\ locked' = locked /\ proc' = proc
      /\ admitted' = admitted /\ overlapped' = overlapped /\ invite' = [invite EXCEPT ![i] = None]
  BY DEF DeleteInvite
<1>2. Shape /\ MembersThere /\ OneOwner /\ Locks /\ Limits /\ Singles /\ Seen /\ HaveOwners
  BY DEF MemberInv
<1>3. DOMAIN invite' = Invites /\ \A j \in Invites : invite'[j] = IF j = i THEN None ELSE invite[j]
  BY <1>1, <1>2 DEF Shape, RowsTyped
<1>4. Shape'
  <2>1. RowsTyped'
    BY <1>1, <1>2, <1>3 DEF Shape, RowsTyped
  <2> QED
    BY <1>1, <1>2, <2>1 DEF Shape, CallKnows
<1>5. MembersThere'
  <2>1. Stored' = Stored /\ \A w \in Stored : \A b : Role(w, b)' = Role(w, b)
    BY <1>1 DEF Stored, Role
  <2> QED
    BY <1>1, <1>2, <1>3, <2>1 DEF MembersThere
<1>6. OneOwner' /\ Locks' /\ Limits' /\ Seen' /\ HaveOwners'
  BY <1>1, <1>2 DEF OneOwner, Locks, Limits, Few, Owned, Seen, SeenBy, HaveOwners, Stored, Role
<1>7. Singles'
  <2>1. \A q \in Procs, j \in Invites : Claims(q, j)' <=> Claims(q, j)
    BY <1>1 DEF Claims
  <2> HIDE DEF Claims
  <2> QED
    BY <1>1, <1>2, <1>3, <2>1 DEF Singles
<1> QED
  BY <1>4, <1>5, <1>6, <1>7 DEF MemberInv

-----------------------------------------------------------------------------
(* Deletions.                                                               *)

(* The foreign keys take what is deleted with them. *)
LEMMA RecordsDeleted ==
  ASSUME Given, RowsTyped, MembersThere, HaveOwners, NEW ws, DeleteRecord(ws), users' = users, overlapped' = overlapped
  PROVE  /\ RowsTyped' /\ MembersThere' /\ HaveOwners' /\ NoNewOwners /\ Newcomers /\ Stored' = Stored \ ws
         /\ \A i \in Invites : invite'[i] = None \/ invite'[i] = invite[i]
<1>1. /\ DOMAIN workspace' = Workspaces /\ DOMAIN invite' = Invites
      /\ \A w \in Workspaces : workspace'[w] = IF w \in ws THEN None ELSE workspace[w]
      /\ \A i \in Invites : invite'[i] = IF invite[i] # None /\ invite[i].w \in ws THEN None ELSE invite[i]
  BY Zenon DEF DeleteRecord
<1>2. Stored' = Stored \ ws
  BY <1>1 DEF Stored
<1>3. \A w \in Stored' : w \in Stored /\ workspace'[w] = workspace[w]
  BY <1>1, <1>2 DEF Stored
<1>4. \A w \in Stored' : \A a : Role(w, a)' = Role(w, a)
  BY <1>3 DEF Role
<1>5. \A i \in Invites : invite'[i] = None \/ (invite'[i] = invite[i] /\ (invite[i] = None \/ invite[i].w \notin ws))
  BY <1>1
<1>6. RowsTyped'
  BY <1>1 DEF RowsTyped
<1>7. MembersThere'
  <2>1. \A i \in Invites : invite'[i] # None => invite'[i].w \in Stored'
    BY <1>2, <1>5 DEF MembersThere
  <2>2. \A w \in Stored', a \in Accounts : Role(w, a)' # None => a \in users
    BY <1>3, <1>4 DEF MembersThere
  <2> QED
    BY <2>1, <2>2 DEF MembersThere
<1>8. HaveOwners'
  BY <1>3, <1>4 DEF HaveOwners
<1>9. NoNewOwners /\ Newcomers
  BY <1>2, <1>3, <1>4 DEF NoNewOwners, Newcomers
<1> QED
  BY <1>2, <1>5, <1>6, <1>7, <1>8, <1>9

(* deleteWorkspace's purge keeps the invariant. *)
LEMMA PurgeOneKeeps ==
  ASSUME Given, MemberInv, NEW p \in Procs, PurgeOne(p)
  PROVE  MemberInv'
<1>1. /\ proc[p] \in Call /\ CallKnows(proc[p]) /\ Shape /\ proc[p].pc = "purge_one" /\ RowsTyped
      /\ UNCHANGED <<users, locked, admitted, overlapped>> /\ MembersThere /\ HaveOwners
  BY DEF MemberInv, Shape, PurgeOne, At
<1>2. proc[p].a \in Accounts /\ proc[p].w \in Workspaces \cup {None}
  BY <1>1 DEF CallKnows, Call
<1>3. PICK ws : ws = proc[p].purges /\ DeleteRecord(ws)
  BY DEF PurgeOne
<1>4. /\ users' = users /\ overlapped' = overlapped /\ locked' = locked /\ admitted' = admitted
      /\ overlapped \subseteq overlapped'
  BY <1>1
<1>5. /\ RowsTyped' /\ MembersThere' /\ HaveOwners' /\ NoNewOwners /\ Newcomers
      /\ \A i \in Invites : invite'[i] = None \/ invite'[i] = invite[i]
  BY <1>1, <1>3, <1>4, RecordsDeleted
<1>6. PICK c : Becomes(p, c) /\ c.pc \in {"idle", "find_owned"}
  <2>1. CASE proc[p].w = None
    BY <2>1, IdleCall DEF Becomes, PurgeOne, Ends
  <2>2. CASE proc[p].w # None
    <3>1. PICK c \in Call : proc' = [proc EXCEPT ![p] = c] /\ c.pc = "find_owned" /\ c.a = proc[p].a /\ c.w = proc[p].w
      BY <1>1, <2>2, ToStep DEF Steps, PurgeOne
    <3> QED
      BY <1>2, <2>2, <3>1 DEF Becomes, CallKnows
  <2> QED
    BY <2>1, <2>2
<1>7. SeenBy(c)' /\ c.pc \notin Counting /\ c.pc \notin Claiming /\ proc[p].pc \notin Counting
  BY <1>1, <1>6 DEF SeenBy, Counting, Claiming
<1>8. Shape' /\ OneOwner' /\ Locks' /\ Limits' /\ Singles' /\ Seen'
  BY <1>4, <1>5, <1>6, <1>7, OthersKept
<1> QED
  BY <1>5, <1>8 DEF MemberInv

(* The purges of an account's deletion keep the invariant: what has been purged is owned no more. *)
LEMMA PurgeKeeps ==
  ASSUME Given, MemberInv, NEW p \in Procs, Purge(p)
  PROVE  MemberInv'
<1>1. /\ proc[p] \in Call /\ CallKnows(proc[p]) /\ Shape /\ proc[p].pc = "purge" /\ RowsTyped /\ SeenBy(proc[p])
      /\ UNCHANGED <<users, locked, admitted, overlapped>> /\ MembersThere /\ HaveOwners
  BY DEF MemberInv, Shape, Purge, At, Seen
<1>2. proc[p].a \in Accounts /\ proc[p].purges \in SUBSET Workspaces
  BY <1>1 DEF CallKnows, Call
<1>3. PICK w \in proc[p].purges :
        /\ DeleteRecord({w})
        /\ proc' = [proc EXCEPT ![p] = [proc[p] EXCEPT !.purges = proc[p].purges \ {w},
                                                        !.pc = IF proc[p].purges = {w} THEN "delete_user" ELSE "purge"]]
  BY Zenon DEF Purge
<1>4. PICK c : c = [proc[p] EXCEPT !.purges = proc[p].purges \ {w},
                                   !.pc = IF proc[p].purges = {w} THEN "delete_user" ELSE "purge"]
  OBVIOUS
<1>5. /\ c \in Call /\ c.a = proc[p].a /\ c.purges = proc[p].purges \ {w}
      /\ c.pc = IF proc[p].purges = {w} THEN "delete_user" ELSE "purge"
  BY <1>1, <1>2, <1>4 DEF Call, Steps
<1>6. proc' = [proc EXCEPT ![p] = c]
  BY <1>3, <1>4, Zenon
<1>7. Becomes(p, c) /\ c.pc \in Planned
  BY <1>2, <1>5, <1>6 DEF Becomes, CallKnows, Planned
<1>8. /\ users' = users /\ overlapped' = overlapped /\ locked' = locked /\ admitted' = admitted
      /\ overlapped \subseteq overlapped'
  BY <1>1
<1>9. /\ RowsTyped' /\ MembersThere' /\ HaveOwners' /\ NoNewOwners /\ Newcomers /\ Stored' = Stored \ {w}
      /\ \A i \in Invites : invite'[i] = None \/ invite'[i] = invite[i]
  BY <1>1, <1>3, <1>8, RecordsDeleted
<1>10. SeenBy(c)'
  <2>1. Owned(c.a) \subseteq proc[p].purges \cup overlapped
    BY <1>1, <1>5 DEF SeenBy
  <2>2. Owned(c.a)' \subseteq Owned(c.a) \ {w}
    BY <1>2, <1>5, <1>9 DEF Owned, NoNewOwners
  <2>3. Owned(c.a)' \subseteq c.purges \cup overlapped
    BY <1>5, <2>1, <2>2
  <2>4. c.pc = "delete_user" => c.purges = {}
    BY <1>5
  <2> QED
    BY <1>7, <1>8, <2>3, <2>4 DEF SeenBy, Planned
<1>11. c.pc \notin Counting /\ c.pc \notin Claiming /\ proc[p].pc \notin Counting
  BY <1>1, <1>7 DEF Planned, Counting, Claiming
<1>12. Shape' /\ OneOwner' /\ Locks' /\ Limits' /\ Singles' /\ Seen'
  BY <1>7, <1>8, <1>9, <1>10, <1>11, OthersKept
<1> QED
  BY <1>9, <1>12 DEF MemberInv

(* setPersonalWorkspace keeps the invariant: the workspace it flags has been seen to be its owner's. *)
LEMMA SetPersonalKeeps ==
  ASSUME Given, MemberInv, NEW p \in Procs, SetPersonal(p)
  PROVE  MemberInv'
<1>1. /\ proc[p] \in Call /\ CallKnows(proc[p]) /\ Shape /\ proc[p].pc = "set_personal" /\ RowsTyped /\ SeenBy(proc[p])
      /\ UNCHANGED <<users, invite, locked, admitted, overlapped>> /\ Ends(p) /\ MembersThere /\ HaveOwners
  BY DEF MemberInv, Shape, SetPersonal, At, Seen
<1>2. proc[p].a \in Accounts /\ proc[p].w \in Workspaces
  BY <1>1 DEF CallKnows
<1>3. PICK c : c = Idle
  OBVIOUS
<1>4. Becomes(p, c) /\ SeenBy(c)' /\ c.pc \notin Counting /\ c.pc \notin Claiming /\ proc[p].pc \notin Counting
  BY <1>1, <1>3, IdleCall DEF Becomes, Ends, SeenBy, Counting, Claiming
<1>5. /\ users' = users /\ invite' = invite /\ overlapped' = overlapped /\ locked' = locked /\ admitted' = admitted
      /\ overlapped \subseteq overlapped' /\ \A i \in Invites : invite'[i] = None \/ invite'[i] = invite[i]
  BY <1>1
<1>6. PICK a, v : a = proc[p].a /\ v = proc[p].w
  OBVIOUS
<1>7. /\ DOMAIN workspace' = Workspaces
      /\ \A w \in Workspaces : workspace'[w] =
           IF w \notin Stored \/ a \notin users THEN workspace[w]
           ELSE IF w = v THEN [workspace[w] EXCEPT !.personal = a]
           ELSE IF workspace[w].personal = a THEN [workspace[w] EXCEPT !.personal = None]
           ELSE workspace[w]
  BY <1>6, Zenon DEF SetPersonal
<1>8. ASSUME NEW w \in Stored
      PROVE  /\ workspace'[w] \in Row /\ workspace'[w].role = workspace[w].role
             /\ workspace'[w].personal \in {workspace[w].personal, None} \/ (w = v /\ a \in users /\ workspace'[w].personal = a)
  <2>1. w \in Workspaces /\ workspace[w] \in Row /\ a \in Accounts
    BY <1>1, <1>2, <1>6, RowThere
  <2>2. CASE a \notin users
    BY <1>7, <2>1, <2>2
  <2>3. CASE a \in users /\ w = v
    BY <1>7, <2>1, <2>3 DEF Row
  <2>4. CASE a \in users /\ w # v /\ workspace[w].personal = a
    BY <1>7, <2>1, <2>4 DEF Row
  <2>5. CASE a \in users /\ w # v /\ workspace[w].personal # a
    BY <1>7, <2>1, <2>5 DEF Row
  <2> QED
    BY <2>2, <2>3, <2>4, <2>5
<1>9. Stored' = Stored
  <2>1. \A w \in Stored : w \in Workspaces /\ workspace'[w] # None
    BY <1>8 DEF Given, Stored
  <2>2. \A w \in Workspaces \ Stored : workspace'[w] = None
    BY <1>7 DEF Stored
  <2> QED
    BY <2>1, <2>2 DEF Stored
<1>10. \A w \in Stored : \A b : Role(w, b)' = Role(w, b)
  <2>1. \A w \in Stored : w \in Stored' /\ workspace'[w].role = workspace[w].role
    BY <1>8, <1>9
  <2> QED
    BY <2>1 DEF Role, Stored
<1>11. RowsTyped'
  <2>1. \A w \in Workspaces : workspace'[w] = None \/ workspace'[w] \in Row
    BY <1>7, <1>8 DEF Stored
  <2> QED
    BY <1>1, <1>5, <1>7, <2>1 DEF RowsTyped
<1>12. MembersThere'
  BY <1>1, <1>5, <1>9, <1>10 DEF MembersThere
<1>13. NoNewOwners /\ Newcomers
  BY <1>5, <1>9, <1>10 DEF NoNewOwners, Newcomers
<1>14. HaveOwners'
  <2>1. SUFFICES ASSUME NEW w \in Stored, w \notin overlapped
                 PROVE  /\ workspace'[w].personal # None => Role(w, workspace'[w].personal) = "owner"
                        /\ \E b \in users : Role(w, b) = "owner"
    <3>1. \A w \in Stored : Role(w, workspace[w].personal)' = Role(w, workspace'[w].personal)
      BY <1>8, <1>9, <1>10 DEF Role, Stored
    <3> QED
      BY <1>5, <1>9, <1>10, <2>1, <3>1 DEF HaveOwners
  <2>2. /\ workspace[w].personal # None => Role(w, workspace[w].personal) = "owner"
        /\ \E b \in users : Role(w, b) = "owner"
    BY <1>1, <2>1 DEF HaveOwners
  <2>3. CASE w = v /\ a \in users /\ workspace'[w].personal = a
    <3>1. Role(w, a) = "owner"
      BY <1>1, <1>6, <2>3 DEF SeenBy
    <3> QED
      BY <2>2, <2>3, <3>1
  <2>4. CASE workspace'[w].personal \in {workspace[w].personal, None}
    BY <2>2, <2>4
  <2> QED
    BY <1>8, <2>3, <2>4
<1>15. Shape' /\ OneOwner' /\ Locks' /\ Limits' /\ Singles' /\ Seen'
  BY <1>4, <1>5, <1>11, <1>13, OthersKept
<1> QED
  BY <1>12, <1>14, <1>15 DEF MemberInv

(* The deletion of an account keeps the invariant: what it still owns was made while it went. *)
LEMMA DeleteUserKeeps ==
  ASSUME Given, MemberInv, NEW p \in Procs, DeleteUser(p)
  PROVE  MemberInv'
<1>1. /\ proc[p] \in Call /\ CallKnows(proc[p]) /\ Shape /\ proc[p].pc = "delete_user" /\ RowsTyped /\ SeenBy(proc[p])
      /\ UNCHANGED <<invite, locked, admitted, overlapped>> /\ Ends(p) /\ MembersThere /\ HaveOwners
  BY DEF MemberInv, Shape, DeleteUser, At, Seen
<1>2. PICK a : a = proc[p].a /\ a \in Accounts
  BY <1>1 DEF CallKnows
<1>3. PICK c : c = Idle
  OBVIOUS
<1>4. Becomes(p, c) /\ SeenBy(c)' /\ c.pc \notin Counting /\ c.pc \notin Claiming /\ proc[p].pc \notin Counting
  BY <1>1, <1>3, IdleCall DEF Becomes, Ends, SeenBy, Counting, Claiming
<1>5. /\ users' = users \ {a} /\ invite' = invite /\ overlapped' = overlapped /\ locked' = locked /\ admitted' = admitted
      /\ overlapped \subseteq overlapped' /\ \A i \in Invites : invite'[i] = None \/ invite'[i] = invite[i]
  BY <1>1, <1>2 DEF DeleteUser
<1>6. /\ DOMAIN workspace' = Workspaces
      /\ \A w \in Workspaces : workspace'[w] =
           IF w \notin Stored THEN None
           ELSE [role |-> [workspace[w].role EXCEPT ![a] = None],
                 personal |-> IF workspace[w].personal = a THEN None ELSE workspace[w].personal]
  BY <1>2, Zenon DEF DeleteUser
<1>7. ASSUME NEW w \in Stored
      PROVE  /\ workspace'[w] \in Row /\ workspace[w] \in Row /\ w \in Workspaces
             /\ workspace'[w].personal = IF workspace[w].personal = a THEN None ELSE workspace[w].personal
             /\ \A b \in Accounts : workspace'[w].role[b] = IF b = a THEN None ELSE workspace[w].role[b]
  <2>1. w \in Workspaces /\ workspace[w] \in Row
    BY <1>1, RowThere
  <2>2. workspace'[w] = [role |-> [workspace[w].role EXCEPT ![a] = None],
                         personal |-> IF workspace[w].personal = a THEN None ELSE workspace[w].personal]
    BY <1>6, <2>1
  <2> QED
    BY <1>2, <2>1, <2>2 DEF Row
<1>8. Stored' = Stored
  <2>1. \A w \in Stored : w \in Workspaces /\ workspace'[w] # None
    BY <1>7 DEF Given
  <2>2. \A w \in Workspaces \ Stored : workspace'[w] = None
    BY <1>6
  <2> QED
    BY <2>1, <2>2 DEF Stored
<1>9. \A w \in Stored, b \in Accounts : Role(w, b)' = IF b = a THEN None ELSE Role(w, b)
  <2>1. ASSUME NEW w \in Stored, NEW b \in Accounts
        PROVE  Role(w, b)' = workspace'[w].role[b] /\ Role(w, b) = workspace[w].role[b]
    BY <1>8, <2>1 DEF Role, Stored
  <2>2. ASSUME NEW w \in Stored, NEW b \in Accounts
        PROVE  Role(w, b)' = IF b = a THEN None ELSE Role(w, b)
    BY <1>7, <2>1
  <2> QED
    BY <2>2
<1>10. RowsTyped'
  <2>1. \A w \in Workspaces : workspace'[w] = None \/ workspace'[w] \in Row
    BY <1>6, <1>7
  <2> QED
    BY <1>1, <1>5, <1>6, <2>1 DEF RowsTyped
<1>11. MembersThere'
  BY <1>1, <1>5, <1>8, <1>9 DEF MembersThere
<1>12. NoNewOwners /\ Newcomers
  <2>1. None # "owner"
    BY DEF Given, Roles
  <2> QED
    BY <1>5, <1>8, <1>9, <2>1 DEF NoNewOwners, Newcomers
<1>13. HaveOwners'
  <2>1. SUFFICES ASSUME NEW w \in Stored, w \notin overlapped
                 PROVE  /\ workspace'[w].personal # None => Role(w, workspace[w].personal)' = "owner"
                        /\ \E b \in users' : Role(w, b)' = "owner"
    BY <1>5, <1>8 DEF HaveOwners
  <2>2. /\ workspace[w].personal # None => Role(w, workspace[w].personal) = "owner"
        /\ \E b \in users : Role(w, b) = "owner"
    BY <1>1, <2>1 DEF HaveOwners
  <2>3. Role(w, a) # "owner"
    BY <1>1, <1>2, <2>1 DEF SeenBy, Owned
  <2>4. PICK b \in users : Role(w, b) = "owner"
    BY <2>2
  <2>5. b \in users' /\ Role(w, b)' = "owner"
    BY <1>1, <1>5, <1>9, <2>3, <2>4 DEF RowsTyped
  <2>6. ASSUME workspace'[w].personal # None PROVE Role(w, workspace[w].personal)' = "owner"
    <3>1. workspace[w].personal # a /\ workspace'[w].personal = workspace[w].personal /\ workspace[w].personal \in Accounts
      BY <1>7, <2>6 DEF Row
    <3>2. PICK d \in Accounts : d = workspace[w].personal /\ d = workspace'[w].personal /\ d # a
      BY <3>1
    <3>3. Role(w, d)' = "owner"
      BY <1>9, <2>2, <2>6, <3>2
    <3> QED
      BY <3>2, <3>3
  <2> QED
    BY <2>5, <2>6
<1>14. Shape' /\ OneOwner' /\ Locks' /\ Limits' /\ Singles' /\ Seen'
  BY <1>4, <1>5, <1>10, <1>12, OthersKept
<1> QED
  BY <1>11, <1>13, <1>14 DEF MemberInv

-----------------------------------------------------------------------------
LEMMA NextKeeps ==
  ASSUME Given, MemberInv, Next
  PROVE  MemberInv'
<1>1. CASE \E p \in Procs :
             \/ FindPersonal(p) \/ FindMembership(p) \/ InsertPersonal(p) \/ LockUserRow(p)
             \/ CountOwned(p) \/ InsertOwned(p) \/ UseInvite(p) \/ CreateUser(p) \/ CompleteInvite(p)
             \/ WriteRole(p) \/ IsPersonal(p) \/ Successor(p) \/ PurgeOne(p) \/ FindOwned(p)
             \/ SetPersonal(p) \/ PlanAgain(p) \/ Purge(p) \/ DeleteUser(p)
  BY <1>1, FindPersonalKeeps, InsertPersonalKeeps, LockUserRowKeeps, CountOwnedKeeps, InsertOwnedKeeps,
     UseInviteKeeps, CreateUserKeeps, CompleteInviteKeeps, WriteRoleKeeps, IsPersonalKeeps, SuccessorKeeps,
     PurgeOneKeeps, FindOwnedKeeps, SetPersonalKeeps, PlanAgainKeeps, PurgeKeeps, DeleteUserKeeps
<1>2. CASE \E p \in Procs, a \in Accounts : CreateWorkspace(p, a) \/ DeleteAccount(p, a)
  BY <1>2, CreateWorkspaceKeeps, DeleteAccountKeeps
<1>3. CASE \E p \in Procs, a \in Accounts, i \in Invites : AcceptInvite(p, a, i) \/ ClaimInvite(p, a, i)
  BY <1>3, AcceptInviteKeeps, ClaimInviteKeeps
<1>4. CASE \E p \in Procs, a \in Accounts, w \in Workspaces :
             \/ DeleteWorkspace(p, a, w)
             \/ \E b \in Accounts, role \in {"admin", "member", None} : ReadRole(p, b, w, a, role)
  BY <1>4, DeleteWorkspaceKeeps, ReadRoleKeeps
<1>5. CASE \E i \in Invites : DeleteInvite(i)
  BY <1>5, DeleteInviteKeeps
<1> QED
  BY <1>1, <1>2, <1>3, <1>4, <1>5 DEF Next

(* From rows in order, every reachable state satisfies the invariant. *)
THEOREM MemberInvariant ==
  ASSUME Given
  PROVE  BeginsInOrder /\ Spec => []MemberInv
<1>1. BeginsInOrder /\ Init => MemberInv
  <2> SUFFICES ASSUME BeginsInOrder, Init PROVE MemberInv
    OBVIOUS
  <2>1. /\ proc \in [Procs -> Call] /\ \A p \in Procs : proc[p] = Idle
    BY IdleCall DEF Init
  <2>2. locked = [a \in Accounts |-> None] /\ admitted = [i \in Invites |-> {}] /\ overlapped = {}
    BY DEF Init
  <2>3. Shape
    BY <2>1, <2>2, IdleCall DEF Shape, BeginsInOrder
  <2>4. Locks
    BY <2>1, <2>2, IdleCall DEF Locks, Given
  <2>5. Limits
    BY <2>1, <2>2, IdleCall DEF Limits, BeginsInOrder
  <2>6. Seen
    BY <2>1, IdleCall DEF Seen
  <2>7. Singles
    <3>1. \A p \in Procs, i \in Invites : ~Claims(p, i)
      BY <2>1, IdleCall DEF Claims
    <3>2. \A i \in Invites : admitted[i] = {}
      BY <2>2
    <3> HIDE DEF Claims
    <3> QED
      BY <3>1, <3>2 DEF Singles
  <2> QED
    BY <2>3, <2>4, <2>5, <2>6, <2>7 DEF MemberInv, BeginsInOrder
<1>2. MemberInv /\ [Next]_vars => MemberInv'
  <2> SUFFICES ASSUME MemberInv, [Next]_vars PROVE MemberInv'
    OBVIOUS
  <2>1. CASE UNCHANGED vars
    <3>1. /\ users' = users /\ workspace' = workspace /\ invite' = invite /\ locked' = locked /\ proc' = proc
          /\ admitted' = admitted /\ overlapped' = overlapped
      BY <2>1 DEF vars
    <3>2. Shape' /\ MembersThere' /\ OneOwner' /\ Locks' /\ HaveOwners'
      BY <3>1 DEF MemberInv, Shape, RowsTyped, CallKnows, MembersThere, OneOwner, Locks, HaveOwners, Stored, Role
    <3>3. Limits' /\ Singles' /\ Seen'
      BY <3>1 DEF MemberInv, Limits, Few, Owned, Singles, Claims, Seen, SeenBy, Stored, Role
    <3> QED
      BY <3>2, <3>3 DEF MemberInv
  <2>2. CASE Next
    BY <2>2, NextKeeps
  <2> QED
    BY <2>1, <2>2
<1> QED
  BY <1>1, <1>2, PTL DEF Spec

(* Roles are roles, members are accounts, and locks are held by calls that count and insert. *)
THEOREM MemberTypes ==
  ASSUME Given
  PROVE  BeginsInOrder /\ Spec => []TypeOK
<1>1. MemberInv => TypeOK
  <2> SUFFICES ASSUME MemberInv PROVE TypeOK
    OBVIOUS
  <2>1. RowsTyped /\ MembersThere /\ Locks /\ locked \in [Accounts -> Procs \cup {None}]
    BY DEF MemberInv, Shape
  <2>2. ASSUME NEW w \in Stored, NEW a \in Accounts
        PROVE  Role(w, a) \in {None, "owner", "admin", "member"} /\ (Role(w, a) # None => a \in users)
    BY <2>1, RowThere DEF MembersThere, Role, Row, Roles
  <2>3. ASSUME NEW a \in Accounts, locked[a] # None
        PROVE  proc[locked[a]].a = a /\ At(locked[a], {"count", "insert"})
    BY <2>1, <2>3 DEF Locks, At
  <2> QED
    BY <2>1, <2>2, <2>3 DEF TypeOK, RowsTyped
<1> QED
  BY <1>1, MemberInvariant, PTL

(* No overlapping calls give an account more workspaces than hosting allows, let an invite
   admit two accounts, or leave a workspace to nobody. *)
THEOREM MembersStayInOrder ==
  ASSUME Given
  PROVE  BeginsInOrder /\ Spec => []MembersFit
<1>1. MemberInv => MembersFit
  <2> SUFFICES ASSUME MemberInv PROVE MembersFit
    OBVIOUS
  <2>1. WithinLimit
    BY DEF MemberInv, Limits, Few, WithinLimit
  <2>2. AdmitsOne
    <3>1. SUFFICES ASSUME NEW i \in Invites \ overlapped PROVE Cardinality(admitted[i]) <= 1
      BY DEF AdmitsOne
    <3>2. \A a, b \in admitted[i] : a = b
      BY DEF MemberInv, Singles
    <3>3. CASE admitted[i] = {}
      <4>1. Cardinality(admitted[i]) = 0
        BY <3>3, FS_EmptySet
      <4> QED
        BY <4>1
    <3>4. CASE admitted[i] # {}
      <4>1. PICK a : admitted[i] = {a}
        BY <3>2, <3>4
      <4>2. Cardinality(admitted[i]) = 1
        BY <4>1, FS_Singleton
      <4> QED
        BY <4>2
    <3> QED
      BY <3>3, <3>4
  <2> QED
    BY <2>1, <2>2 DEF MembersFit, MemberInv
<1> QED
  BY <1>1, MemberInvariant, PTL
=============================================================================
