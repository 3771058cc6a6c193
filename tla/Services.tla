------------------------------ MODULE Services ------------------------------
(***************************************************************************)
(* The services around the journal together: the queue, included storage,   *)
(* the registry of runtimes, the sweeps, the tags and the members.  They    *)
(* share no state.  Something happens to one of them in each behaviour, and *)
(* the others are at rest.                                                  *)
(*                                                                         *)
(* Instances are of the modules with the proofs, where these are modules of *)
(* their own, so that ServicesProofs can cite their theorems.               *)
(***************************************************************************)
EXTENDS AssetQueue

CONSTANTS
  Procs,              \* server calls
  Requesters,         \* calls that ask the registry for a runtime
  BilledWorkspaces, Holders, Keys, Uploads, Home, Place, Size, WriteSizes, Quota, MaxHeld, Unread,
  Tags, Names,
  Accounts, Workspaces, Invites, MaxOwned,
  QuotaSituations, RegistrySituations, SweepSituations, TagSituations, MemberSituations,
  Rest                \* the situation of each service in which nothing happens to it

VARIABLES
  service,  \* the one that something happens to
  holder, usage, account, stored, session, qproc, closed, torn, cut, over, stranded, raced, qleft,
  creates, entry, fresh, pending, generation, closedValues, shut, revision, rproc, overtaken, rleft,
  saved, applied, slease, round, stop, call, sleft,
  tag, row, tproc, tleft,
  users, workspace, invite, locked, mproc, admitted, overlapped, mleft

OnQuota == <<holder, usage, account, stored, session, qproc, closed, torn, cut, over, stranded, raced, qleft>>
OnRegistry == <<creates, entry, fresh, pending, generation, closedValues, shut, revision, rproc,
                overtaken, rleft>>
OnSweep == <<saved, applied, slease, round, stop, call, sleft>>
OnTags == <<tag, row, tproc, tleft>>
OnMembers == <<users, workspace, invite, locked, mproc, admitted, overlapped, mleft>>
everything == <<service, vars, OnQuota, OnRegistry, OnSweep, OnTags, OnMembers>>

Bytes == INSTANCE StorageQuotaProofs WITH
  Workspaces <- BilledWorkspaces, Accounts <- Holders, Limit <- MaxHeld, Situations <- QuotaSituations,
  proc <- qproc, left <- qleft
Runtimes == INSTANCE RuntimeRegistryProofs WITH
  Procs <- Requesters, Situations <- RegistrySituations, proc <- rproc, left <- rleft
Sweeps == INSTANCE LeasedSweep WITH Situations <- SweepSituations, lease <- slease, left <- sleft
Tree == INSTANCE TagTree WITH Situations <- TagSituations, proc <- tproc, left <- tleft
Team == INSTANCE MembershipProofs WITH
  Limit <- MaxOwned, Situations <- MemberSituations, proc <- mproc, left <- mleft

(* None, Unread and Tree!Kept stand for no workspace, account, call or row. *)
ASSUME ServicesAssumption ==
  /\ Bytes!Given /\ Team!Given
  /\ None \notin Tags \cup Names \cup [name : Names, parent : Tags \cup {None}] /\ None # Tree!Kept
  /\ Tree!Kept \notin Tags \cup Names

-----------------------------------------------------------------------------
ServicesInit ==
  /\ Init /\ Bytes!Init /\ Runtimes!Init /\ Sweeps!Init /\ Tree!Init /\ Team!Init
  /\ service \in {"queue", "quota", "registry", "sweep", "tags", "members"}
  /\ service = "queue" <=> left # Rest.queue
  /\ service = "quota" <=> qleft # Rest.quota
  /\ service = "registry" <=> rleft # Rest.registry
  /\ service = "sweep" <=> sleft # Rest.sweep
  /\ service = "tags" <=> tleft # Rest.tags
  /\ service = "members" <=> mleft # Rest.members

ServicesNext ==
  /\ UNCHANGED service
  /\ \/ service = "queue" /\ Next /\ UNCHANGED <<OnQuota, OnRegistry, OnSweep, OnTags, OnMembers>>
     \/ service = "quota" /\ Bytes!Next /\ UNCHANGED <<vars, OnRegistry, OnSweep, OnTags, OnMembers>>
     \/ service = "registry" /\ Runtimes!Next /\ UNCHANGED <<vars, OnQuota, OnSweep, OnTags, OnMembers>>
     \/ service = "sweep" /\ Sweeps!Next /\ UNCHANGED <<vars, OnQuota, OnRegistry, OnTags, OnMembers>>
     \/ service = "tags" /\ Tree!Next /\ UNCHANGED <<vars, OnQuota, OnRegistry, OnSweep, OnMembers>>
     \/ service = "members" /\ Team!Next /\ UNCHANGED <<vars, OnQuota, OnRegistry, OnSweep, OnTags>>

Services == ServicesInit /\ [][ServicesNext]_everything /\ Fairness

-----------------------------------------------------------------------------
\* The types of all of them.
ServicesTypeOK ==
  /\ service = "queue" => TypeOK
  /\ service = "quota" => Bytes!TypeOK
  /\ service = "registry" => Runtimes!TypeOK
  /\ service = "sweep" => Sweeps!TypeOK
  /\ service = "tags" => Tree!TypeOK
  /\ service = "members" => Team!TypeOK

\* Included storage: the accounts add up, within the quota, and reservations come back.
AccountsAdd == service = "quota" => Bytes!AccountsAdd
QuotaKept == service = "quota" => Bytes!QuotaKept
Charged == service = "quota" => Bytes!Charged
Returned == service = "quota" => Bytes!Returned

\* The registry: no runtime is lost, and none that was invalidated is handed out.
NoneLost == service = "registry" => Runtimes!NoneLost
ServedOpen == [][service = "registry" => \A p \in Requesters : Runtimes!ServesOpen(p)]_OnRegistry

\* Sweeps: a saved setting is read, and nothing is swept after stop.
SavedIsRead == service = "sweep" => Sweeps!SavedIsRead
QuietAfterStop == service = "sweep" => Sweeps!QuietAfterStop

\* Tags: no loops, and no two siblings of one name.
NoLoops == service = "tags" => Tree!NoLoops
SiblingsDiffer == service = "tags" => Tree!SiblingsDiffer

\* Members: limits, single-use invites and owners hold whatever calls overlap.
MembersFit == service = "members" => Team!MembersFit
=============================================================================
