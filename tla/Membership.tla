------------------------------ MODULE Membership ------------------------------
(***************************************************************************)
(* Accounts, the workspaces they are members of, and the invites that let   *)
(* them in, on PostgreSQL: a transaction does not see what others have not  *)
(* committed and holds what it has written, so what it has read may have    *)
(* changed when it writes.                                                  *)
(***************************************************************************)
EXTENDS Integers, FiniteSets

CONSTANTS Accounts, Workspaces, Invites, Procs, Limit, Situations, None

VARIABLES
  users,      \* the accounts there are
  workspace,  \* each row, or None: its members' roles and whose personal one it is
  invite,     \* each row, or None: its workspace and role, whom it is for, and whether it is used
  locked,     \* the call that has written an account's row in its transaction, or None
  proc,       \* what each call is doing, and what it has read
  admitted,   \* history: whom each invite let in
  overlapped, \* history: invites used or deleted under an acceptance that had read them,
              \* workspaces made for an account whose deletion had been planned, and accounts
              \* that came into a workspace while a personal one was made for them
  left        \* what may still happen

vars == <<users, workspace, invite, locked, proc, admitted, overlapped, left>>
rows == <<users, workspace, invite, locked, admitted, overlapped>>

Stored == {w \in Workspaces : workspace[w] # None}
Role(w, a) == IF workspace[w] = None THEN None ELSE workspace[w].role[a]
Joined(a) == {w \in Stored : Role(w, a) # None}
Owned(a) == {w \in Stored : Role(w, a) = "owner"}
Personal(a) == {w \in Stored : workspace[w].personal = a}
Members(w) == {a \in Accounts : Role(w, a) # None}
(* Ids are random: none is made that a row or a call knows. *)
Fresh == {w \in Workspaces \ (Stored \cup overlapped) : \A p \in Procs : w # proc[p].w /\ w \notin proc[p].purges}
NewWorkspace(a, personal) ==
  [role |-> [b \in Accounts |-> IF b = a THEN "owner" ELSE None], personal |-> IF personal THEN a ELSE None]

Idle == [pc |-> "idle", a |-> None, w |-> None, i |-> None, role |-> None, then |-> "idle", purges |-> {}]
Init ==
  /\ left \in Situations
  /\ users = left.users /\ workspace = left.workspaces /\ invite = left.invites
  /\ locked = [a \in Accounts |-> None] /\ proc = [p \in Procs |-> Idle]
  /\ admitted = [i \in Invites |-> {}] /\ overlapped = {}

Spend(what) == left[what] > 0 /\ left' = [left EXCEPT ![what] = @ - 1]
At(p, pcs) == proc[p].pc \in pcs
To(p, pc) == proc' = [proc EXCEPT ![p].pc = pc]
Ends(p) == proc' = [proc EXCEPT ![p] = Idle]
Planned == {"purge", "delete_user"}
Leaving(a) == \E p \in Procs : proc[p].a = a /\ proc[p].pc \in Planned
(* Better Auth deletes an account's sessions before the second plan. *)
SignedIn(a) == a \in users /\ ~\E p \in Procs : proc[p].a = a /\ proc[p].pc \in Planned \cup {"plan_again"}
Begin(p, new) == At(p, {"idle"}) /\ proc' = [proc EXCEPT ![p] = new]
(* The foreign keys cascade to the members and the invites. *)
DeleteRecord(ws) ==
  /\ workspace' = [w \in Workspaces |-> IF w \in ws THEN None ELSE workspace[w]]
  /\ invite' = [i \in Invites |-> IF invite[i] # None /\ invite[i].w \in ws THEN None ELSE invite[i]]

-----------------------------------------------------------------------------
(* createWorkspace: the request first makes sure of a personal workspace.   *)
CreateWorkspace(p, a) ==
  /\ SignedIn(a) /\ Spend("creates") /\ Begin(p, [Idle EXCEPT !.pc = "personal", !.a = a, !.then = "lock"])
  /\ UNCHANGED rows

(* ensurePersonalWorkspace, before its transaction and again in it. *)
FindPersonal(p) ==
  /\ At(p, {"personal", "personal_again"})
  /\ To(p, IF Personal(proc[p].a) \cap Joined(proc[p].a) # {} THEN proc[p].then
           ELSE IF At(p, {"personal"}) THEN "membership" ELSE "membership_again")
  /\ UNCHANGED <<rows, left>>

FindMembership(p) ==
  /\ At(p, {"membership", "membership_again"})
  /\ To(p, IF Joined(proc[p].a) # {} THEN proc[p].then
           ELSE IF At(p, {"membership"}) THEN "personal_again" ELSE "insert_personal")
  /\ UNCHANGED <<rows, left>>

Insert(w, a, personal) ==
  /\ workspace' = [workspace EXCEPT ![w] = NewWorkspace(a, personal)]
  /\ overlapped' = overlapped \cup (IF Leaving(a) THEN {w} ELSE {})
                               \cup (IF personal /\ Joined(a) # {} THEN {a} ELSE {})

(* An account has one personal workspace, by an index, and must be there. *)
InsertPersonal(p) ==
  LET a == proc[p].a IN
  /\ At(p, {"insert_personal"})
  /\ \/ /\ Personal(a) # {} \/ a \notin users
        /\ Ends(p) /\ UNCHANGED <<workspace, overlapped>>
     \/ /\ Personal(a) = {} /\ a \in users
        /\ \E w \in Fresh : Insert(w, a, TRUE)
        /\ To(p, proc[p].then)
  /\ UNCHANGED <<users, invite, locked, admitted, left>>

(* Mutant: the account's row is not written before its workspaces are counted. *)
LockNoRow(p) == At(p, {"lock"}) /\ To(p, "count") /\ UNCHANGED <<rows, left>>

(* lockUserRow waits for the transaction that has written the row. *)
LockUserRow(p) ==
  LET a == proc[p].a IN
  /\ At(p, {"lock"}) /\ locked[a] = None
  /\ locked' = IF a \in users THEN [locked EXCEPT ![a] = p] ELSE locked
  /\ To(p, "count")
  /\ UNCHANGED <<users, workspace, invite, admitted, overlapped, left>>

Unlock(p) == locked' = [a \in Accounts |-> IF locked[a] = p THEN None ELSE locked[a]]

CountOwned(p) ==
  /\ At(p, {"count"})
  /\ IF Cardinality(Owned(proc[p].a)) >= Limit THEN Ends(p) /\ Unlock(p)
     ELSE To(p, "insert") /\ UNCHANGED locked
  /\ UNCHANGED <<users, workspace, invite, admitted, overlapped, left>>

InsertOwned(p) ==
  LET a == proc[p].a IN
  /\ At(p, {"insert"}) /\ Ends(p) /\ Unlock(p)
  /\ \/ a \in users /\ \E w \in Fresh : Insert(w, a, FALSE)
     \/ a \notin users /\ UNCHANGED <<workspace, overlapped>>
  /\ UNCHANGED <<users, invite, admitted, left>>

-----------------------------------------------------------------------------
Claimable(i, a) == invite[i] # None /\ ~invite[i].used /\ invite[i].to \in {None, a}

(* addWorkspaceMemberWith: a member keeps the role that is there. *)
Admit(i, a, w, role) ==
  /\ workspace' = [workspace EXCEPT ![w].role[a] = IF @ = None THEN role ELSE @]
  /\ admitted' = [admitted EXCEPT ![i] = @ \cup {a}]

(* acceptInviteForUser selects the invite ... *)
AcceptInvite(p, a, i) ==
  /\ SignedIn(a) /\ Claimable(i, a) /\ Spend("accepts")
  /\ Begin(p, [Idle EXCEPT !.pc = "use", !.a = a, !.i = i, !.w = invite[i].w, !.role = invite[i].role])
  /\ UNCHANGED rows

(* ... and marks it by its id, whatever has happened to it since. *)
UseInvite(p) ==
  LET c == proc[p] IN
  /\ At(p, {"use"}) /\ Ends(p)
  /\ IF c.w \in Stored /\ c.a \in users
     THEN /\ Admit(c.i, c.a, c.w, c.role)
          /\ invite' = IF invite[c.i] = None THEN invite ELSE [invite EXCEPT ![c.i].used = TRUE]
          /\ overlapped' = IF Claimable(c.i, c.a) THEN overlapped ELSE overlapped \cup {c.i}
     ELSE UNCHANGED <<workspace, invite, admitted, overlapped>>
  /\ UNCHANGED <<users, locked, left>>

(* A sign-up claims the invite by one statement, before its account is made;
   where sign-ups are open it needs none. *)
ClaimInvite(p, a, i) ==
  /\ a \notin users /\ Spend("signups")
  /\ IF Claimable(i, a)
     THEN Begin(p, [Idle EXCEPT !.pc = "create_user", !.a = a, !.i = i]) /\ invite' = [invite EXCEPT ![i].used = TRUE]
     ELSE Begin(p, [Idle EXCEPT !.pc = "create_user", !.a = a]) /\ UNCHANGED invite
  /\ UNCHANGED <<users, workspace, locked, admitted, overlapped>>

(* The account is made, unless the sign-up fails or another has made it; its id is random,
   so no call of an earlier account knows it. *)
CreateUser(p) ==
  LET a == proc[p].a IN
  /\ At(p, {"create_user"})
  /\ \/ Ends(p) /\ UNCHANGED users
     \/ /\ a \notin users /\ \A q \in Procs : proc[q].a = a => At(q, {"idle", "create_user"})
        /\ users' = users \cup {a} /\ To(p, "complete")
  /\ UNCHANGED <<workspace, invite, locked, admitted, overlapped, left>>

CompleteInvite(p) ==
  LET c == proc[p] IN
  /\ At(p, {"complete"})
  /\ IF c.i # None /\ invite[c.i] # None /\ c.a \in users
     THEN Admit(c.i, c.a, invite[c.i].w, invite[c.i].role)
     ELSE UNCHANGED <<workspace, admitted>>
  /\ proc' = [proc EXCEPT ![p] = [Idle EXCEPT !.pc = "personal", !.a = c.a]]
  /\ UNCHANGED <<users, invite, locked, overlapped, left>>

DeleteInvite(i) ==
  /\ invite[i] # None /\ ~invite[i].used /\ Spend("withdrawals")
  /\ invite' = [invite EXCEPT ![i] = None]
  /\ UNCHANGED <<users, workspace, locked, proc, admitted, overlapped>>

-----------------------------------------------------------------------------
(* setWorkspaceMemberRole, or removeWorkspaceMember (None): an administrator
   changes a member who is no owner, by a read and a write. *)
ReadRole(p, b, w, a, role) ==
  /\ SignedIn(b) /\ Role(w, b) \in {"owner", "admin"} /\ (role = None => a # b)
  /\ Role(w, a) \in {"admin", "member"} /\ Spend("changes")
  /\ Begin(p, [Idle EXCEPT !.pc = "write_role", !.a = a, !.w = w, !.role = role])
  /\ UNCHANGED rows

WriteRole(p) ==
  LET c == proc[p] IN
  /\ At(p, {"write_role"}) /\ Ends(p)
  /\ workspace' = IF Role(c.w, c.a) = None THEN workspace ELSE [workspace EXCEPT ![c.w].role[c.a] = c.role]
  /\ UNCHANGED <<users, invite, locked, admitted, overlapped, left>>

(* deleteWorkspace, of an owner who is in another workspace too. *)
DeleteWorkspace(p, a, w) ==
  /\ SignedIn(a) /\ Role(w, a) = "owner" /\ Cardinality(Joined(a)) > 1 /\ Spend("deletes")
  /\ Begin(p, [Idle EXCEPT !.pc = "is_personal", !.a = a, !.w = w])
  /\ UNCHANGED rows

(* personalWorkspaceSuccessor: another workspace of the owner takes the flag. *)
IsPersonal(p) ==
  LET c == proc[p] IN
  /\ At(p, {"is_personal"})
  /\ IF c.w \in Personal(c.a) THEN To(p, "successor")
     ELSE proc' = [proc EXCEPT ![p] = [c EXCEPT !.pc = "purge_one", !.purges = {c.w}, !.w = None]]
  /\ UNCHANGED <<rows, left>>

Successor(p) ==
  LET c == proc[p]
      others == Owned(c.a) \ {c.w} IN
  /\ At(p, {"successor"})
  /\ \E s \in IF others = {} THEN {None} ELSE others :
       proc' = [proc EXCEPT ![p] = [c EXCEPT !.pc = "purge_one", !.purges = {c.w}, !.w = s]]
  /\ UNCHANGED <<rows, left>>

PurgeOne(p) ==
  /\ At(p, {"purge_one"}) /\ DeleteRecord(proc[p].purges)
  /\ IF proc[p].w = None THEN Ends(p) ELSE To(p, "find_owned")
  /\ UNCHANGED <<users, locked, admitted, overlapped, left>>

(* setPersonalWorkspace *)
FindOwned(p) ==
  /\ At(p, {"find_owned"})
  /\ IF Role(proc[p].w, proc[p].a) = "owner" THEN To(p, "set_personal") ELSE Ends(p)
  /\ UNCHANGED <<rows, left>>

SetPersonal(p) ==
  LET c == proc[p] IN
  /\ At(p, {"set_personal"}) /\ Ends(p)
  /\ workspace' = [w \in Workspaces |->
       IF w \notin Stored \/ c.a \notin users THEN workspace[w]
       ELSE IF w = c.w THEN [workspace[w] EXCEPT !.personal = c.a]
       ELSE IF workspace[w].personal = c.a THEN [workspace[w] EXCEPT !.personal = None]
       ELSE workspace[w]]
  /\ UNCHANGED <<users, invite, locked, admitted, overlapped, left>>

-----------------------------------------------------------------------------
(* accountDeletionWorkspaces: a workspace that only this account owns goes with
   it, and keeps it if it has other members. *)
SoleOwned(a) == {w \in Owned(a) : Cardinality({b \in Accounts : Role(w, b) = "owner"}) = 1}
Blocked(a) == \E w \in SoleOwned(a) : Cardinality(Members(w)) > 1

DeleteAccount(p, a) ==
  /\ SignedIn(a) /\ ~Blocked(a) /\ Spend("leaves") /\ Begin(p, [Idle EXCEPT !.pc = "plan_again", !.a = a])
  /\ UNCHANGED rows

(* onUserDeleting plans again ... *)
PlanAgain(p) ==
  LET a == proc[p].a IN
  /\ At(p, {"plan_again"})
  /\ IF Blocked(a) THEN Ends(p)
     ELSE proc' = [proc EXCEPT ![p] = [proc[p] EXCEPT !.pc = IF SoleOwned(a) = {} THEN "delete_user" ELSE "purge",
                                                      !.purges = SoleOwned(a)]]
  /\ UNCHANGED <<rows, left>>

(* ... and purges one workspace after the other. *)
Purge(p) ==
  /\ At(p, {"purge"})
  /\ \E w \in proc[p].purges :
       /\ DeleteRecord({w})
       /\ proc' = [proc EXCEPT ![p] = [proc[p] EXCEPT !.purges = proc[p].purges \ {w},
                               !.pc = IF proc[p].purges = {w} THEN "delete_user" ELSE "purge"]]
  /\ UNCHANGED <<users, locked, admitted, overlapped, left>>

(* The account goes, with its memberships, once nothing holds its row. *)
DeleteUser(p) ==
  LET a == proc[p].a IN
  /\ At(p, {"delete_user"}) /\ locked[a] = None /\ Ends(p)
  /\ users' = users \ {a}
  /\ workspace' = [w \in Workspaces |->
       IF w \notin Stored THEN None
       ELSE [role |-> [workspace[w].role EXCEPT ![a] = None],
             personal |-> IF workspace[w].personal = a THEN None ELSE workspace[w].personal]]
  /\ UNCHANGED <<invite, locked, admitted, overlapped, left>>

Next ==
  \/ \E p \in Procs : \/ FindPersonal(p) \/ FindMembership(p) \/ InsertPersonal(p) \/ LockUserRow(p)
                      \/ CountOwned(p) \/ InsertOwned(p) \/ UseInvite(p) \/ CreateUser(p) \/ CompleteInvite(p)
                      \/ WriteRole(p) \/ IsPersonal(p) \/ Successor(p) \/ PurgeOne(p) \/ FindOwned(p)
                      \/ SetPersonal(p) \/ PlanAgain(p) \/ Purge(p) \/ DeleteUser(p)
  \/ \E p \in Procs, a \in Accounts : CreateWorkspace(p, a) \/ DeleteAccount(p, a)
  \/ \E p \in Procs, a \in Accounts, i \in Invites : AcceptInvite(p, a, i) \/ ClaimInvite(p, a, i)
  \/ \E p \in Procs, a \in Accounts, w \in Workspaces :
       \/ DeleteWorkspace(p, a, w)
       \/ \E b \in Accounts, role \in {"admin", "member", None} : ReadRole(p, b, w, a, role)
  \/ \E i \in Invites : DeleteInvite(i)

Spec == Init /\ [][Next]_vars

-----------------------------------------------------------------------------
(* Members and calls name accounts, and calls are where calls can be. *)
TypeOK ==
  /\ users \subseteq Accounts
  /\ \A w \in Stored, a \in Accounts :
       Role(w, a) \in {None, "owner", "admin", "member"} /\ (Role(w, a) # None => a \in users)
  /\ \A a \in Accounts : locked[a] # None => proc[locked[a]].a = a /\ At(locked[a], {"count", "insert"})

(* createWorkspace: no overlapping calls give an account more workspaces than
   the limit of hosted accounts, unless a personal one was made for it by a request that
   had looked before the account came into another. *)
WithinLimit == \A a \in Accounts \ overlapped : Cardinality(Owned(a)) <= Limit

(* A "single-use link" lets one account in, whether accepted by an account or
   claimed by a sign-up, unless an acceptance overlapped with another use. *)
AdmitsOne == \A i \in Invites \ overlapped : Cardinality(admitted[i]) <= 1

(* Workspaces are not left to nobody by removals and deletions of accounts, and a
   personal one is its owner's, unless it was made while its account went. *)
HaveOwners ==
  \A w \in Stored \ overlapped :
    /\ workspace[w].personal # None => Role(w, workspace[w].personal) = "owner"
    /\ \E a \in users : Role(w, a) = "owner"

(* Members fit their workspaces, whatever calls overlap. *)
MembersFit == WithinLimit /\ AdmitsOne /\ HaveOwners
=============================================================================
