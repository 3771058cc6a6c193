--------------------------- MODULE StorageMigration ---------------------------
(***************************************************************************)
(* A workspace moves its files to another store while replicas serve it.   *)
(* The migration's record, the active store, its revision and the cleanup  *)
(* marker are settings in the database; a run copies the files under a     *)
(* lease and then switches.  Administrators start, retry, cancel and       *)
(* acknowledge; uploads end at any time; a replica reads the settings in   *)
(* several steps when it builds its runtime, can be out of date, and can   *)
(* die; a lease can run out under its holder.  Each await is one step.     *)
(***************************************************************************)
EXTENDS Integers, FiniteSets

CONSTANTS
  Replicas,
  Admins,     \* each makes one call at a time
  Stores,
  Managed,    \* the store whose files count against the account
  Files,
  Uploads,    \* the files that are uploaded while the model runs
  Owners,     \* ownerId of a lease; also the id of the migration it started
  Bounds,     \* what may happen: each behaviour has one of these
  None

Phases == {"clearing", "copying"}
Migration == [id : Owners, owner : Owners, cancel : BOOLEAN, phase : Phases,
              state : {"running", "failed", "completed", "cancelled"},
              src : Stores, dst : Stores]
CallKinds == {"start", "clear", "retry", "abandon", "cancel", "acknowledge"}

ASSUME MigrationAssumption ==
  /\ Uploads \subseteq Files
  /\ None \notin Owners \cup Stores /\ None \notin Migration /\ Owners \subseteq Nat
  /\ Bounds \subseteq [first : Stores, replicas : SUBSET Replicas, admins : SUBSET Admins,
                       uploads : SUBSET Uploads, calls : SUBSET CallKinds, builds : Nat, starts : Nat,
                       faults : Nat, crashes : Nat, lost : Nat]

VARIABLES
  setting,     \* the migration's record, or None
  active, rev, \* the store in the settings and its revision
  cleanup,     \* the cleanup marker
  stored,      \* the files in each store
  rows,        \* the files the library's rows name
  sessions,    \* unfinished uploads
  ops,         \* uploads with a journal operation
  lease,       \* the owner that holds the migration's lease
  rt,          \* each replica's runtime, or how far its construction is
  adm, run, put, \* calls of administrators, runs by owner, uploads
  stale,       \* the calls that acted on a record or revision that had changed since
  skipped,     \* a resume or a launch gave up for good
  left         \* what may still happen

vars == <<setting, active, rev, cleanup, stored, rows, sessions, ops, lease,
          rt, adm, run, put, stale, skipped, left>>

records == <<setting, active, rev, cleanup>>
files == <<stored, rows, sessions, ops>>
actors == <<rt, adm, run, put>>
history == <<stale, skipped, left>>

OffRuntime == [pc |-> "off", born |-> 0, rev |-> 0, store |-> None,
               m |-> None, owner |-> None]
NoCall == [pc |-> "idle", ctx |-> None, m |-> None, clear |-> FALSE,
           owner |-> None, holds |-> FALSE]
NoRun == [pc |-> "none", ctx |-> None, m |-> None, mute |-> FALSE,
          seen |-> FALSE, then |-> "none", todo |-> {}]
NoPut == [pc |-> "idle", ctx |-> None]

Init ==
  /\ left \in Bounds
  /\ setting = None /\ active = left.first /\ rev = 0 /\ cleanup = None
  /\ stored = [s \in Stores |-> IF s = active THEN Files \ Uploads ELSE {}]
  /\ rows = Files \ Uploads /\ sessions = {} /\ ops = {} /\ lease = None
  /\ rt = [r \in Replicas |-> OffRuntime]
  /\ adm = [a \in Admins |-> NoCall] /\ run = [o \in Owners |-> NoRun]
  /\ put = [f \in Uploads |-> NoPut]
  /\ stale = {} /\ skipped = FALSE

StateOf(m) == IF m = None THEN "none" ELSE m.state
Running(c) == \E o \in Owners : run[o].pc # "none" /\ run[o].ctx = c
Locked(c) == \E a \in Admins : adm[a].holds /\ adm[a].ctx = c
Paused(c) == Locked(c) \/ StateOf(setting) = "running"
Idle == ops = {} /\ sessions = {}
Ours(m) == setting # None /\ setting.id = m.id /\ setting.owner = m.owner
Noticed(o) == lease # o   \* the signal may have aborted

(* Every ownerId is new: no record, copy of a record, lease or process holds it yet. *)
IdsOf(m) == IF m = None THEN {} ELSE {m.id, m.owner}
Taken ==
  {lease} \cup IdsOf(setting) \cup (IF cleanup = None THEN {} ELSE {cleanup.abandons})
  \cup {o \in Owners : run[o].pc # "none"}
  \cup (UNION {IdsOf(run[o].m) : o \in Owners})
  \cup (UNION {IdsOf(adm[a].m) \cup {adm[a].owner} : a \in Admins})
  \cup (UNION {IdsOf(rt[r].m) \cup {rt[r].owner} : r \in Replicas})
NewOwner == CHOOSE o \in Owners \ Taken : TRUE
CanAcquire == lease = None /\ Owners \ Taken # {}

Spend(what) == left[what] > 0 /\ left' = [left EXCEPT ![what] = @ - 1]
Release(o) == lease' = IF lease = o THEN None ELSE lease
Ready(r) == rt[r].pc = "ready"
CtxOf(r) == [at |-> r, born |-> rt[r].born, rev |-> rt[r].rev, store |-> rt[r].store]
Overwrites(m) == \/ setting = None
                 \/ <<setting.id, setting.owner, setting.state>> # <<m.id, m.owner, m.state>>

Note(late, who) == stale' = IF late THEN stale \cup {who} ELSE stale

(* A runtime is an object: it has a number that no call still holds. *)
Held(r) == {c.born : c \in {d \in {adm[a].ctx : a \in Admins} \cup {run[o].ctx : o \in Owners}
                                 \cup {put[f].ctx : f \in Uploads} : d # None /\ d.at = r}}
NewBorn(r) == CHOOSE n \in 0..Cardinality(Held(r)) :
  n \notin Held(r) /\ \A k \in 0..(n - 1) : k \in Held(r)

(* launch *)
Launch(c, m, mute) ==
  IF Running(c) THEN /\ Release(m.owner) /\ skipped' = TRUE /\ UNCHANGED run
  ELSE /\ run' = [run EXCEPT ![m.owner] =
            [NoRun EXCEPT !.pc = "drain", !.ctx = c, !.m = m, !.mute = mute]]
       /\ UNCHANGED <<lease, skipped>>
(* activate: the next request of this replica builds a new runtime. *)
Activate(r) == rt' = [rt EXCEPT ![r] = OffRuntime]
(* Mutant: the marker of a release is written without its kind. *)
BareMark == [purpose |-> "release"]
ReleaseMark == [abandons |-> None]
Clear(s) == stored' = [stored EXCEPT ![s] = {}]

(*------------------------ building a runtime ----------------------------*)
ReadRevision(r) ==
  /\ rt[r].pc = "off" /\ r \in left.replicas /\ Spend("builds")
  /\ rt' = [rt EXCEPT ![r] = [@ EXCEPT !.pc = "config", !.rev = rev, !.born = NewBorn(r)]]
  /\ UNCHANGED <<records, files, lease, adm, run, put, stale, skipped>>

ReadConfig(r) ==
  /\ rt[r].pc = "config"
  /\ rt' = [rt EXCEPT ![r] = [@ EXCEPT !.store = active,
       !.pc = IF active # Managed /\ cleanup # None THEN "tidy" ELSE "recover"]]
  /\ UNCHANGED <<records, files, lease, adm, run, put, history>>

(* completeManagedStorageCleanup: [abandons |-> None] is purpose 'release'. *)
FinishCleanup(s) ==
  LET abandoned == setting # None /\ setting.id = cleanup.abandons /\ setting.state = "failed" IN
  IF cleanup = None THEN UNCHANGED <<stored, cleanup, setting>>
  ELSE /\ Clear(s)
       /\ cleanup' = IF cleanup.abandons = None \/ abandoned THEN None ELSE cleanup
       /\ setting' = IF cleanup.abandons # None /\ abandoned
                     THEN [setting EXCEPT !.state = "cancelled"] ELSE setting

RetryCleanup(r) ==
  /\ rt[r].pc = "tidy"
  /\ FinishCleanup(Managed)
  /\ rt' = [rt EXCEPT ![r].pc = "recover"]
  /\ UNCHANGED <<active, rev, rows, sessions, ops, lease, adm, run, put, history>>

(* Mutant: a runtime that finds an interrupted migration does not resume it. *)
RecoverOnly(r) ==
  LET orphans == {f \in ops : put[f].pc = "left"} IN
  /\ rt[r].pc = "recover"
  /\ stored' = [stored EXCEPT ![rt[r].store] = @ \cup orphans]
  /\ rows' = rows \cup orphans
  /\ ops' = ops \ orphans /\ sessions' = sessions \ orphans
  /\ put' = [f \in Uploads |-> IF f \in orphans THEN [NoPut EXCEPT !.pc = "done"] ELSE put[f]]
  /\ rt' = [rt EXCEPT ![r].pc = "ready"]
  /\ Note(orphans # {} /\ rt[r].rev # rev, "recovery")
  /\ UNCHANGED <<records, lease, adm, run, skipped, left>>

(* recoverOperations finishes the uploads whose replica died; then resume
   reads the record. *)
Recover(r) ==
  LET orphans == {f \in ops : put[f].pc = "left"}
      next == IF StateOf(setting) = "running" THEN "lease" ELSE "ready"
  IN /\ rt[r].pc = "recover"
     /\ stored' = [stored EXCEPT ![rt[r].store] = @ \cup orphans]
     /\ rows' = rows \cup orphans
     /\ ops' = ops \ orphans /\ sessions' = sessions \ orphans
     /\ put' = [f \in Uploads |-> IF f \in orphans THEN [NoPut EXCEPT !.pc = "done"] ELSE put[f]]
     /\ rt' = [rt EXCEPT ![r] = [@ EXCEPT !.pc = next, !.m = IF next = "lease" THEN setting ELSE None]]
     /\ Note(orphans # {} /\ rt[r].rev # rev, "recovery")
     /\ UNCHANGED <<records, lease, adm, run, skipped, left>>

(* Somebody holds the lease: resume returns, and nobody calls it again. *)
SkipResume(r) ==
  /\ rt[r].pc = "lease" /\ lease # None
  /\ rt' = [rt EXCEPT ![r] = [@ EXCEPT !.pc = "ready", !.m = None]]
  /\ skipped' = (skipped \/ run[lease].pc = "none")
  /\ UNCHANGED <<records, files, lease, adm, run, put, stale, left>>

TakeOver(r) ==
  /\ rt[r].pc = "lease" /\ CanAcquire
  /\ lease' = NewOwner
  /\ rt' = [rt EXCEPT ![r] = [@ EXCEPT !.pc = "own", !.owner = NewOwner]]
  /\ UNCHANGED <<records, files, adm, run, put, history>>

Resume(r) ==
  /\ rt[r].pc = "own"
  /\ LET m == [rt[r].m EXCEPT !.owner = rt[r].owner] IN
     /\ setting' = m
     /\ Note(Overwrites(rt[r].m) \/ rt[r].store # m.src, "resume")
     /\ Launch(CtxOf(r), m, FALSE)
  /\ rt' = [rt EXCEPT ![r] = [@ EXCEPT !.pc = "ready", !.m = None, !.owner = None]]
  /\ UNCHANGED <<active, rev, cleanup, files, adm, put, left>>

(* The revision is compared when its five seconds are over, or on an event. *)
Refresh(r) ==
  /\ Ready(r) /\ rt[r].rev # rev
  /\ Activate(r)
  /\ UNCHANGED <<records, files, lease, adm, run, put, history>>

Build(r) == \/ ReadRevision(r) \/ ReadConfig(r) \/ RetryCleanup(r) \/ Recover(r)
            \/ SkipResume(r) \/ TakeOver(r) \/ Resume(r) \/ Refresh(r)

(*---------------------- the administrator's calls -----------------------*)
Step(a, pc) == adm' = [adm EXCEPT ![a].pc = pc]
Return(a) == adm' = [adm EXCEPT ![a] = NoCall]

(* start and retry take the lease without waiting; a taken one is a 409. *)
CallWithLease(a, r, op, m, clear) ==
  /\ a \in left.admins /\ adm[a].pc = "idle" /\ Ready(r) /\ CanAcquire
  /\ lease' = NewOwner
  /\ adm' = [adm EXCEPT ![a] = [NoCall EXCEPT !.pc = op, !.ctx = CtxOf(r), !.m = m,
                                 !.clear = clear, !.owner = NewOwner]]

CallStart(a, r) ==
  /\ "start" \in left.calls
  /\ \E dst \in Stores \ {rt[r].store}, clear \in {FALSE, "clear" \in left.calls} :
       CallWithLease(a, r, "lock_start",
         [id |-> NewOwner, owner |-> NewOwner, state |-> "running", cancel |-> FALSE,
          phase |-> IF clear THEN "clearing" ELSE "copying",
          src |-> rt[r].store, dst |-> dst], clear)
  /\ Spend("starts")
  /\ UNCHANGED <<records, files, rt, run, put, stale, skipped>>

CallRetry(a, r) ==
  /\ "retry" \in left.calls
  /\ StateOf(setting) = "failed"   \* else the call only takes and returns the lease
  /\ CallWithLease(a, r, "lock_retry", None, FALSE)
  /\ Spend("starts")
  /\ UNCHANGED <<records, files, rt, run, put, stale, skipped>>

(* cancel of a failed migration from a store of one's own to managed storage *)
CallAbandon(a, r) ==
  /\ "abandon" \in left.calls
  /\ StateOf(setting) = "failed" /\ setting.src # Managed /\ setting.dst = Managed
  /\ CallWithLease(a, r, "lock_abandon", setting, FALSE)
  /\ UNCHANGED <<records, files, rt, run, put, history>>

CallCancel(a, r) ==
  /\ "cancel" \in left.calls
  /\ a \in left.admins /\ adm[a].pc = "idle" /\ Ready(r)
  /\ StateOf(setting) = "running" /\ ~setting.cancel
  /\ adm' = [adm EXCEPT ![a] = [NoCall EXCEPT !.pc = "cancel", !.ctx = CtxOf(r), !.m = setting]]
  /\ UNCHANGED <<records, files, lease, rt, run, put, history>>

CallAcknowledge(a, r) ==
  /\ "acknowledge" \in left.calls
  /\ a \in left.admins /\ adm[a].pc = "idle" /\ Ready(r)
  /\ StateOf(setting) \in {"completed", "cancelled"}
  /\ adm' = [adm EXCEPT ![a] = [NoCall EXCEPT !.pc = "delete", !.ctx = CtxOf(r)]]
  /\ UNCHANGED <<records, files, lease, rt, run, put, history>>

GiveUp(a) ==
  /\ Return(a) /\ Release(adm[a].owner)
  /\ UNCHANGED <<records, files, rt, run, put, history>>

(* withAssetsLocked *)
Lock(a) ==
  /\ ~Paused(adm[a].ctx)
  /\ \E step \in {<<"lock_start", "ready">>, <<"lock_retry", "read">>, <<"lock_abandon", "recheck">>} :
       /\ adm[a].pc = step[1]
       /\ adm' = [adm EXCEPT ![a] = [@ EXCEPT !.pc = step[2], !.holds = TRUE]]
  /\ UNCHANGED <<records, files, lease, rt, run, put, history>>

LockRefused(a) ==
  /\ adm[a].pc \in {"lock_start", "lock_retry", "lock_abandon"} /\ Paused(adm[a].ctx)
  /\ GiveUp(a)

ReadFailed(a) ==
  /\ adm[a].pc = "read" /\ StateOf(setting) = "failed"
  /\ adm' = [adm EXCEPT ![a] = [@ EXCEPT !.pc = "ready", !.m = setting]]
  /\ UNCHANGED <<records, files, lease, rt, run, put, history>>

NotFailed(a) ==
  /\ adm[a].pc = "read" /\ StateOf(setting) # "failed"
  /\ GiveUp(a)

(* assertReadyToStart, then the marker of an earlier cleanup is dropped. *)
CheckReady(a) ==
  /\ adm[a].pc = "ready" /\ Idle
  /\ cleanup' = IF adm[a].m.dst = Managed THEN None ELSE cleanup
  /\ Step(a, "write")
  /\ UNCHANGED <<setting, active, rev, files, lease, rt, run, put, history>>

NotReady(a) == adm[a].pc = "ready" /\ ~Idle /\ GiveUp(a)

(* prepareDestination or buildStore throws. *)
NotPrepared(a) ==
  /\ adm[a].pc = "write" /\ Spend("faults")
  /\ Return(a) /\ Release(adm[a].owner)
  /\ UNCHANGED <<records, files, rt, run, put, stale, skipped>>

(* retry's update refuses when this runtime's own run no longer owns the record. *)
Refused(a) == \E o \in Owners :
  /\ run[o].pc # "none" /\ run[o].ctx = adm[a].ctx
  /\ setting = None \/ setting.id # adm[a].m.id \/ setting.owner # o

Begin(a) ==
  LET again == adm[a].m.state = "failed"
      m == [adm[a].m EXCEPT !.owner = adm[a].owner, !.state = "running", !.cancel = FALSE]
  IN /\ adm[a].pc = "write" /\ ~(again /\ Refused(a))
     /\ setting' = m
     /\ Launch(adm[a].ctx, m, again)
     /\ Return(a)
     /\ Note(adm[a].ctx.rev # rev \/ (m.dst = Managed /\ cleanup # None), "start")
     /\ UNCHANGED <<active, rev, cleanup, files, rt, put, left>>

RetryRefused(a) ==
  /\ adm[a].pc = "write" /\ adm[a].m.state = "failed" /\ Refused(a)
  /\ GiveUp(a)

Recheck(a) ==
  /\ adm[a].pc = "recheck"
  /\ StateOf(setting) = "failed" /\ setting.id = adm[a].m.id
  /\ cleanup' = [abandons |-> setting.id]
  /\ adm' = [adm EXCEPT ![a] = [@ EXCEPT !.pc = "abandon", !.m = setting]]
  /\ UNCHANGED <<setting, active, rev, files, lease, rt, run, put, history>>

FailedChanged(a) ==
  /\ adm[a].pc = "recheck" /\ ~(StateOf(setting) = "failed" /\ setting.id = adm[a].m.id)
  /\ GiveUp(a)

(* The marker and the record are read again before the destination is cleared. *)
Abandon(a) ==
  /\ adm[a].pc = "abandon"
  /\ FinishCleanup(Managed)
  /\ IF StateOf(setting') = "cancelled" THEN Activate(adm[a].ctx.at) ELSE UNCHANGED rt
  /\ Return(a) /\ Release(adm[a].owner)
  /\ UNCHANGED <<active, rev, rows, sessions, ops, run, put, history>>

(* update spreads the record that cancel read over the current one. *)
WriteCancel(a) ==
  /\ adm[a].pc = "cancel"
  /\ IF Refused(a) THEN UNCHANGED <<setting, stale>>
     ELSE /\ setting' = [adm[a].m EXCEPT !.cancel = TRUE]
          /\ Note(Overwrites(adm[a].m), "cancel")
  /\ Return(a)
  /\ UNCHANGED <<active, rev, cleanup, files, lease, rt, run, put, skipped, left>>

Delete(a) ==
  /\ adm[a].pc = "delete"
  /\ setting' = None
  /\ Return(a)
  /\ UNCHANGED <<active, rev, cleanup, files, lease, rt, run, put, history>>

CallOf(a, r) == \/ CallStart(a, r) \/ CallRetry(a, r) \/ CallAbandon(a, r)
                \/ CallCancel(a, r) \/ CallAcknowledge(a, r)
Work(a) == \/ Lock(a) \/ LockRefused(a) \/ ReadFailed(a) \/ NotFailed(a)
           \/ CheckReady(a) \/ NotReady(a) \/ NotPrepared(a) \/ Begin(a)
           \/ RetryRefused(a) \/ Recheck(a) \/ FailedChanged(a) \/ Abandon(a)
           \/ WriteCancel(a) \/ Delete(a)

(*------------------------------- a run ----------------------------------*)
Goto(o, pc) == run' = [run EXCEPT ![o].pc = pc]
OnlyRun == UNCHANGED <<records, files, lease, rt, adm, put, history>>
CancelRequested(o) ==
  StateOf(setting) = "running" /\ setting.id = run[o].m.id /\ setting.cancel
(* update reads the record, then writes its own fields over it.  The update
   before a file's copy follows the one after the last file's: they are one. *)
Update(o, m, todo, then) ==
  run' = [run EXCEPT ![o] = [@ EXCEPT !.pc = "read", !.m = m, !.todo = todo, !.then = then]]

(* Mutant: a run does not look for uploads once the pause is in effect. *)
DrainQueue(o) ==
  /\ run[o].pc = "drain"
  /\ Goto(o, IF run[o].m.phase = "clearing" THEN "clear" ELSE "init")
  /\ OnlyRun

Drain(o) ==
  /\ run[o].pc = "drain"
  /\ Goto(o, IF ~Idle THEN "failed" ELSE IF run[o].m.phase = "clearing" THEN "clear" ELSE "init")
  /\ OnlyRun

ClearDestination(o) ==
  /\ run[o].pc = "clear"
  /\ Clear(run[o].m.dst)
  /\ Update(o, [run[o].m EXCEPT !.phase = "copying"], {}, "init")
  /\ Note(~Ours(run[o].m), "run")
  /\ UNCHANGED <<records, rows, sessions, ops, lease, rt, adm, put, skipped, left>>

InitDestination(o) ==
  /\ run[o].pc = "init"
  /\ Goto(o, IF CancelRequested(o) THEN "finish" ELSE "list")
  /\ OnlyRun

List(o) ==
  /\ run[o].pc = "list"
  /\ IF rows \subseteq stored[run[o].ctx.store] THEN Update(o, run[o].m, rows, "check")
     ELSE Goto(o, "failed")
  /\ OnlyRun

Check(o) ==
  /\ run[o].pc = "check"
  /\ IF CancelRequested(o) THEN Goto(o, "finish")
     ELSE Goto(o, IF run[o].todo = {} THEN "own" ELSE "copy")
  /\ OnlyRun

Copy(o) ==
  LET f == CHOOSE g \in run[o].todo : TRUE
      dst == run[o].m.dst
  IN /\ run[o].pc = "copy"
     /\ IF f \in stored[dst] \cup stored[run[o].ctx.store]
        THEN /\ stored' = [stored EXCEPT ![dst] = @ \cup {f}]
             /\ Update(o, run[o].m, run[o].todo \ {f}, "check")
        ELSE Goto(o, "failed") /\ UNCHANGED stored
     /\ UNCHANGED <<records, rows, sessions, ops, lease, rt, adm, put, history>>

ReadRecord(o) ==
  /\ run[o].pc = "read"
  /\ run' = [run EXCEPT ![o] = IF Ours(@.m) THEN [@ EXCEPT !.pc = "write", !.seen = setting.cancel]
                               ELSE [@ EXCEPT !.pc = "failed"]]
  /\ OnlyRun

WriteRecord(o) ==
  LET m == [run[o].m EXCEPT !.cancel = ~run[o].mute /\ (@ \/ run[o].seen)] IN
  /\ run[o].pc = "write"
  /\ setting' = m
  /\ Note(~Ours(m), "run")
  /\ run' = [run EXCEPT ![o] = [@ EXCEPT !.pc = run[o].then, !.m = m, !.seen = FALSE, !.then = "none"]]
  /\ UNCHANGED <<active, rev, cleanup, files, lease, rt, adm, put, skipped, left>>

AssertOwnership(o) ==
  /\ run[o].pc = "own"
  /\ Goto(o, IF Ours(run[o].m) THEN "switch" ELSE "failed")
  /\ OnlyRun

(* Mutant: the switch keeps the source, as the legacy namespace's does. *)
SwitchToSource(o) ==
  LET m == run[o].m
      cleanupManaged == m.src = Managed /\ m.dst # Managed
  IN /\ run[o].pc = "switch"
     /\ setting' = [m EXCEPT !.state = "completed"]
     /\ active' = m.src /\ rev' = rev + 1
     /\ Note(~Ours(m), "run")
     /\ cleanup' = IF cleanupManaged THEN ReleaseMark ELSE cleanup
     /\ Goto(o, IF cleanupManaged THEN "tidy" ELSE "activate")
     /\ UNCHANGED <<files, lease, rt, adm, put, skipped, left>>

Switch(o) ==
  LET m == run[o].m
      cleanupManaged == m.src = Managed /\ m.dst # Managed
  IN /\ run[o].pc = "switch"
     /\ setting' = [m EXCEPT !.state = "completed"]
     /\ active' = m.dst /\ rev' = rev + 1
     /\ Note(~Ours(m), "run")
     /\ cleanup' = IF cleanupManaged THEN ReleaseMark ELSE cleanup
     /\ Goto(o, IF cleanupManaged THEN "tidy" ELSE "activate")
     /\ UNCHANGED <<files, lease, rt, adm, put, skipped, left>>

(* The source after a switch, the destination after a cancellation. *)
Tidy(o) ==
  /\ run[o].pc \in {"tidy", "drop"}
  /\ FinishCleanup(IF run[o].pc = "tidy" THEN run[o].ctx.store ELSE run[o].m.dst)
  /\ Goto(o, "activate")
  /\ UNCHANGED <<active, rev, rows, sessions, ops, lease, rt, adm, put, history>>

TidyFails(o) ==
  /\ run[o].pc \in {"tidy", "drop"} /\ Spend("faults")
  /\ Goto(o, "activate")
  /\ UNCHANGED <<records, files, lease, rt, adm, put, stale, skipped>>

(* finishCancelled: what the record says by now wins over the run's own. *)
ReadCancelled(o) ==
  /\ run[o].pc = "finish"
  /\ LET last == IF setting = None THEN run[o].m ELSE setting IN
     run' = [run EXCEPT ![o] = [@ EXCEPT !.pc = "cancel", !.m = [last EXCEPT !.state = "cancelled"]]]
  /\ OnlyRun

WriteCancelled(o) ==
  LET m == run[o].m
      toManaged == m.dst = Managed /\ m.src # Managed
  IN /\ run[o].pc = "cancel"
     /\ setting' = m /\ Note(~Ours(m) \/ m.owner # o, "run")
     /\ cleanup' = IF toManaged THEN ReleaseMark ELSE cleanup
     /\ Goto(o, IF toManaged THEN "drop" ELSE "activate")
     /\ UNCHANGED <<active, rev, files, lease, rt, adm, put, skipped, left>>

(* launch's catch *)
ReadFailure(o) ==
  /\ run[o].pc = "failed"
  /\ run' = [run EXCEPT ![o] =
       IF Ours(@.m) THEN [@ EXCEPT !.pc = "fail", !.m = [setting EXCEPT !.state = "failed"]]
       ELSE [@ EXCEPT !.pc = "end"]]
  /\ OnlyRun

WriteFailed(o) ==
  /\ run[o].pc = "fail"
  /\ setting' = run[o].m /\ Note(~Ours(run[o].m), "run")
  /\ Goto(o, "activate")
  /\ UNCHANGED <<active, rev, cleanup, files, lease, rt, adm, put, skipped, left>>

(* activate, then launch's finally *)
End(o) ==
  /\ run[o].pc \in {"activate", "end"}
  /\ IF run[o].pc = "activate" THEN Activate(run[o].ctx.at) ELSE UNCHANGED rt
  /\ run' = [run EXCEPT ![o] = NoRun]
  /\ Release(o)
  /\ UNCHANGED <<records, files, adm, put, history>>

(* A transient fault looks for a cancellation before it is tried again. *)
RetryCancelled(o) ==
  /\ run[o].pc \in {"clear", "init", "list", "copy"} /\ CancelRequested(o)
  /\ Goto(o, "finish")
  /\ OnlyRun

Fault(o) ==
  /\ run[o].pc \in {"clear", "init", "list", "copy"} /\ Spend("faults")
  /\ Goto(o, "failed")
  /\ UNCHANGED <<records, files, lease, rt, adm, put, stale, skipped>>

(* assertLease: the signal of a lost lease has aborted. *)
LeaseLost(o) ==
  /\ run[o].pc \in {"drain", "read", "own"} /\ lease # o
  /\ Goto(o, "failed")
  /\ OnlyRun

Go(o) == \/ Drain(o) \/ ClearDestination(o) \/ InitDestination(o) \/ List(o) \/ Check(o)
         \/ Copy(o) \/ ReadRecord(o) \/ WriteRecord(o) \/ AssertOwnership(o) \/ Switch(o)
         \/ Tidy(o) \/ ReadCancelled(o) \/ WriteCancelled(o) \/ ReadFailure(o)
         \/ WriteFailed(o) \/ End(o)
Trouble(o) == TidyFails(o) \/ RetryCancelled(o) \/ Fault(o) \/ LeaseLost(o)

(*------------------------------ uploads ---------------------------------*)
PutStep(f, pc) == put' = [put EXCEPT ![f].pc = pc]
OnlyPut == UNCHANGED <<records, files, lease, rt, adm, run, history>>

Enter(f, r) ==
  /\ f \in left.uploads /\ put[f].pc \in {"idle", "left"} /\ Ready(r) /\ ~Paused(CtxOf(r))
  /\ put' = [put EXCEPT ![f] = [pc |-> "create", ctx |-> CtxOf(r)]]
  /\ OnlyPut

CreateSession(f) ==
  /\ put[f].pc = "create"
  /\ sessions' = sessions \cup {f}
  /\ PutStep(f, "current")
  /\ UNCHANGED <<records, stored, rows, ops, lease, rt, adm, run, history>>

(* assertAssetsMutable: the revision, then the pause *)
AssertCurrent(f) ==
  /\ put[f].pc = "current"
  /\ put' = [put EXCEPT ![f] = IF @.ctx.rev = rev THEN [@ EXCEPT !.pc = "mutable"]
                               ELSE [pc |-> "left", ctx |-> None]]
  /\ OnlyPut

AssertMutable(f) ==
  /\ put[f].pc = "mutable"
  /\ put' = [put EXCEPT ![f] = IF ~Paused(@.ctx) THEN [@ EXCEPT !.pc = "begin"]
                               ELSE [pc |-> "left", ctx |-> None]]
  /\ Note(~Paused(put[f].ctx) /\ put[f].ctx.rev # rev, "upload")
  /\ UNCHANGED <<records, files, lease, rt, adm, run, skipped, left>>

BeginOperation(f) ==
  /\ put[f].pc = "begin"
  /\ ops' = ops \cup {f}
  /\ PutStep(f, "store")
  /\ UNCHANGED <<records, stored, rows, sessions, lease, rt, adm, run, history>>

WriteFile(f) ==
  /\ put[f].pc = "store"
  /\ stored' = [stored EXCEPT ![put[f].ctx.store] = @ \cup {f}]
  /\ PutStep(f, "commit")
  /\ UNCHANGED <<records, rows, sessions, ops, lease, rt, adm, run, history>>

Commit(f) ==
  /\ put[f].pc = "commit"
  /\ rows' = rows \cup {f} /\ ops' = ops \ {f} /\ sessions' = sessions \ {f}
  /\ put' = [put EXCEPT ![f] = [NoPut EXCEPT !.pc = "done"]]
  /\ UNCHANGED <<records, stored, lease, rt, adm, run, history>>

(* The user gives the upload up, or its session expires. *)
Abandoned(f) ==
  /\ put[f].pc = "left" /\ f \notin ops
  /\ sessions' = sessions \ {f}
  /\ put' = [put EXCEPT ![f] = [NoPut EXCEPT !.pc = "done"]]
  /\ UNCHANGED <<records, stored, rows, ops, lease, rt, adm, run, history>>

Upload(f) == \/ CreateSession(f) \/ AssertCurrent(f) \/ AssertMutable(f)
             \/ BeginOperation(f) \/ WriteFile(f) \/ Commit(f) \/ Abandoned(f)

(*------------------------------- faults ---------------------------------*)
Crash(r) ==
  /\ rt[r].pc # "off" /\ Spend("crashes")
  /\ Activate(r)
  /\ adm' = [a \in Admins |-> IF adm[a].ctx # None /\ adm[a].ctx.at = r THEN NoCall ELSE adm[a]]
  /\ run' = [o \in Owners |-> IF run[o].pc # "none" /\ run[o].ctx.at = r THEN NoRun ELSE run[o]]
  /\ put' = [f \in Uploads |->
       IF put[f].ctx = None \/ put[f].ctx.at # r THEN put[f]
       ELSE [NoPut EXCEPT !.pc = IF f \in sessions THEN "left" ELSE "idle"]]
  /\ UNCHANGED <<records, files, lease, stale, skipped>>

Alive(o) == \/ run[o].pc # "none"
            \/ \E a \in Admins : adm[a].owner = o
            \/ \E r \in Replicas : rt[r].owner = o

(* A dead holder's lease runs out; a live one's when it cannot extend it. *)
RunOut ==
  /\ lease # None /\ ~Alive(lease)
  /\ lease' = None
  /\ UNCHANGED <<records, files, actors, history>>

Lose ==
  /\ lease # None /\ Alive(lease) /\ Spend("lost")
  /\ lease' = None
  /\ UNCHANGED <<records, files, actors, stale, skipped>>

Next ==
  \/ \E r \in Replicas : Build(r) \/ Crash(r)
  \/ \E a \in Admins : Work(a) \/ \E r \in Replicas : CallOf(a, r)
  \/ \E o \in Owners : Go(o) \/ Trouble(o)
  \/ \E f \in Uploads : Upload(f) \/ \E r \in Replicas : Enter(f, r)
  \/ RunOut \/ Lose

Spec == Init /\ [][Next]_vars
(* Processes go on, requests keep coming to every replica, leases run out. *)
Fairness ==
  /\ \A r \in Replicas : WF_vars(Build(r))
  /\ \A a \in Admins : WF_vars(Work(a))
  /\ \A o \in Owners : WF_vars(Go(o))
  /\ \A f \in Uploads : WF_vars(Upload(f))
  /\ WF_vars(RunOut)
FairSpec == Spec /\ Fairness

(* Every setting, file, call and run is of its type: a cleanup marker says
   which failed migration it abandons, or none. *)
TypeOK ==
  /\ setting \in Migration \cup {None} /\ active \in Stores /\ rev \in Nat
  /\ cleanup \in [abandons : Owners \cup {None}] \cup {None}
  /\ stored \in [Stores -> SUBSET Files] /\ rows \subseteq Files
  /\ sessions \subseteq Uploads /\ ops \subseteq Uploads
  /\ lease \in Owners \cup {None}
  /\ \A r \in Replicas : rt[r].store \in Stores \cup {None} /\ rt[r].m \in Migration \cup {None}
  /\ \A a \in Admins : adm[a].m \in Migration \cup {None} /\ adm[a].owner \in Owners \cup {None}
  /\ \A o \in Owners : run[o].m \in Migration \cup {None} /\ run[o].todo \subseteq Files
  /\ stale \subseteq {"start", "cancel", "resume", "upload", "recovery", "run"} /\ skipped \in BOOLEAN

(* No model or preview that a row names is missing from the store that serves
   the workspace, whatever uploads, crashes and lost leases meet a migration
   (run, lines 346-481) - unless a write was decided on a revision or a record
   that had changed by the time it was made. *)
ModelsServed == stale = {} => rows \subseteq stored[active]

(* The same without the exception, as docs/storage.md promises it. *)
FilesCopied == rows \subseteq stored[active]

Overwritten == stale \cap {"start", "cancel", "resume", "run"} # {}

(* What the record says agrees with the store that serves: after a completed
   migration the destination, in every other state the source, so that a
   retry, a cancellation or an abandoned cleanup clears the right store. *)
RecordFits == ~Overwritten /\ setting # None =>
  active = IF setting.state = "completed" THEN setting.dst ELSE setting.src

(* A running migration, whose pause refuses every change of files, ends: its
   replica may die or lose the lease, for another runtime resumes it.  Not
   when a resume found the lease still held by a dead owner, or another run in
   its way (skipped), nor when no runtime is built any more. *)
MigrationEnds == StateOf(setting) = "running" ~>
  (StateOf(setting) # "running" \/ skipped \/ Overwritten \/ left.builds = 0)
=============================================================================
