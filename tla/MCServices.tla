------------------------------ MODULE MCServices ------------------------------
(* What may happen to each of the services around the journal, for TLC. *)
EXTENDS Services, MCQueue

CONSTANTS w1, w2, w3, w4, a1, a2, a3, i1, k1, u1, u2, c1, c2, c3, t1, t2, t3, n1, n2

-----------------------------------------------------------------------------
(* Queue: AssetQueue's own situations, or no replica and no print. *)
QueueRest == [Calm EXCEPT !.replicas = {}, !.prints = {}]
ChosenQueue == Chosen \cup {QueueRest}

(* Quota: two workspaces of one account, and an upload to each.  Writes and uploads that
   overlap at the limit; failing writes, and one that has landed before a removal; hand-overs
   under writes and uploads; a deletion of a workspace that fails; lost parts and crashes;
   sessions that are dropped; a count of the store; a write in the room of an upload that
   has run out, and comes back. *)
QuotaRest == [holder |-> (w1 :> a1 @@ w2 :> a1), uploads |-> {}, attaching |-> {}, writes |-> 0, faults |-> 0,
              crashes |-> 0, moves |-> 0, scans |-> 0, late |-> 0, lost |-> 0, dropped |-> 0]
ChosenQuota == {
  QuotaRest,
  [QuotaRest EXCEPT !.writes = 2, !.uploads = {u1, u2}],
  [QuotaRest EXCEPT !.writes = 2, !.faults = 2],
  [QuotaRest EXCEPT !.writes = 3, !.faults = 1],
  [QuotaRest EXCEPT !.writes = 2, !.moves = 1],
  [QuotaRest EXCEPT !.writes = 1, !.faults = 1, !.moves = 2],
  [QuotaRest EXCEPT !.uploads = {u1}, !.writes = 1, !.faults = 1, !.moves = 1],
  [QuotaRest EXCEPT !.uploads = {u1}, !.lost = 1, !.faults = 1, !.crashes = 1],
  [QuotaRest EXCEPT !.uploads = {u1}, !.faults = 1, !.moves = 2, !.late = 1],
  [QuotaRest EXCEPT !.uploads = {u1, u2}, !.attaching = {u2}, !.lost = 1, !.faults = 1, !.dropped = 1],
  [QuotaRest EXCEPT !.uploads = {u1}, !.writes = 1, !.faults = 1, !.scans = 1],
  [QuotaRest EXCEPT !.uploads = {u1}, !.writes = 1, !.late = 1, !.dropped = 1]}

(* Registry: requests with a change of the storage, an invalidation, the shutdown, a failure. *)
RegistryRest == [gets |-> 0, invalidations |-> 0, closes |-> 0, faults |-> 0, changes |-> 0]
ChosenRegistry == {
  RegistryRest,
  [RegistryRest EXCEPT !.gets = 3, !.changes = 1],
  [RegistryRest EXCEPT !.gets = 3, !.invalidations = 1],
  [RegistryRest EXCEPT !.gets = 2, !.invalidations = 1, !.changes = 1],
  [RegistryRest EXCEPT !.gets = 2, !.closes = 1, !.changes = 1],
  [RegistryRest EXCEPT !.gets = 2, !.closes = 1, !.faults = 1]}

(* Sweeps: two saves with rounds, a stop, a failure and a lost lease, a crash. *)
SweepRest == [ticks |-> 0, saves |-> 0, faults |-> 0, stops |-> 0, crashes |-> 0, lost |-> 0]
ChosenSweep == {
  SweepRest,
  [SweepRest EXCEPT !.saves = 2, !.ticks = 2, !.stops = 1],
  [SweepRest EXCEPT !.saves = 2, !.ticks = 1, !.faults = 1, !.lost = 1],
  [SweepRest EXCEPT !.saves = 2, !.ticks = 1, !.crashes = 1]}

(* Tags: two roots and a child; moves and renames that overlap, and with a create and a deletion. *)
TagRow(name, parent) == [name |-> name, parent |-> parent]
TagRest == [tag |-> (t1 :> TagRow(n1, None) @@ t2 :> TagRow(n2, None) @@ t3 :> TagRow(n1, t1)),
            creates |-> 0, updates |-> 0, deletes |-> 0]
ChosenTags == {
  TagRest,
  [TagRest EXCEPT !.updates = 2],
  [TagRest EXCEPT !.tag[t3] = None, !.updates = 1, !.creates = 1, !.deletes = 1]}

(* Members: calls at the limit; an invite that is accepted, claimed and withdrawn; the
   deletion of an account under its other calls, and of workspaces. *)
Shop(personal) == [role |-> (a1 :> "owner" @@ a2 :> None @@ a3 :> None), personal |-> IF personal THEN a1 ELSE None]
MembersRest == [users |-> {a1, a2}, invites |-> (i1 :> None),
                workspaces |-> (w1 :> Shop(TRUE) @@ w2 :> None @@ w3 :> None @@ w4 :> None),
                creates |-> 0, accepts |-> 0, signups |-> 0, withdrawals |-> 0, changes |-> 0, deletes |-> 0,
                leaves |-> 0]
Invited == [MembersRest EXCEPT !.invites = (i1 :> [w |-> w1, role |-> "member", to |-> None, used |-> FALSE])]
ChosenMembers == {
  MembersRest,
  [MembersRest EXCEPT !.creates = 2],
  [MembersRest EXCEPT !.creates = 2, !.deletes = 1],
  [Invited EXCEPT !.accepts = 2, !.signups = 1, !.withdrawals = 1, !.changes = 1],
  [Invited EXCEPT !.accepts = 1, !.creates = 1, !.leaves = 1, !.changes = 1],
  [Invited EXCEPT !.workspaces[w2] = Shop(FALSE), !.creates = 1, !.deletes = 2, !.leaves = 1],
  [Invited EXCEPT !.workspaces[w2] = Shop(FALSE), !.accepts = 1, !.signups = 1, !.deletes = 1]}

AtRest == [queue |-> QueueRest, quota |-> QuotaRest, registry |-> RegistryRest, sweep |-> SweepRest,
           tags |-> TagRest, members |-> MembersRest]

UploadHome == u1 :> w1 @@ u2 :> w2
UploadPlace == u1 :> k1 @@ u2 :> k1
UploadSize == u1 :> 2 @@ u2 :> 2
=============================================================================
