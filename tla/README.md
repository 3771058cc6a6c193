# A model of STL Quest's core

STL Quest keeps a shared queue of 3D prints: members upload models, an administrator moves copies
over a board, and a server stores the files on a disk or in a cloud folder. This directory holds
TLA+ modules for the parts of the server where a test hardly reaches what can go wrong, TLC
configurations that check them on small instances, and TLAPS proofs. `PROJECT.json` lists the
components, the runs, what source lines each definition stands for, and the hazards the properties
are for.

## The system

| Part | State | Operations | What is hard about it |
|---|---|---|---|
| Request service and operation journal (`core/services.ts`, `db/repository.ts`) | rows of requests, operations and upload sessions | upload, attach or replace, repeat, delete, remove an owner's prints, recover | database and store change together only through a journal that is replayed after a crash, and by retries beside the first call |
| Local asset store and staging (`adapters/filesystem.ts`, `adapters/staging.ts`) | files, trash, staged parts | publish a part, move aside, copy, purge, sweep | calls and recovery overlap on the same files |
| Copy board (`db/repository.ts`, `core/services.ts`) | a count per stage, a count per tag and stage, a quantity | move copies, move a tag, delete copies, tag, untag, create and delete tags, edit, archive | two databases with different isolation |
| Board cards (`core/printGroups.ts`) | none: cards are dealt from counts | deal, take copies of a card | copies have no identity |
| Tag tree (`db/repository.ts`) | parents and names of tags | create, rename, move, delete | loops and equal names made by two calls |
| Members and invites (`db/repository.ts`) | invites with their uses, memberships, workspaces | sign up by an invite, accept, change roles, be removed, create and delete workspaces, delete an account | limits checked by one statement and relied on by another |
| Work gate (`server/workLock.ts`) | a mutex, a queue per key, a registry of running work | keyed work, exclusive work | waiting for each other, entries and leases that run out |
| Leased sweeps (`server/leasedSweep.ts`) | the sweep that runs | sweep on a timer, sweep now, stop | a sweep that read an old setting is joined |
| Runtime registry (`server/workspaceRuntimeRegistry.ts`) | runtimes, those being built, generations | get, invalidate, close | a runtime invalidated while it is built or checked |
| Managed storage (`server/managedStorage.ts`, `db/repository.ts`) | bytes used and reserved, per workspace and per account | reserve, settle, abandon, count again, hand over, refund | each reservation is given back once |
| Upload sessions (`server/uploads.ts`, `adapters/distributedUploads.ts`) | sessions, limits, upload locks | create, receive, finish, expire | a session that expires while its bytes arrive |
| Asset generation queue (`server/assets/queue.ts`) | jobs per stage, byte budget, timers | enqueue, claim, finish, retry, recover, stop | results for a model that has been replaced, jobs that nobody comes back to |
| Storage migration (`server/storageMigration.ts`) | a migration record, a cleanup marker | copy, switch, cancel, retry, abandon, resume | a restart in any phase, a record written over another |
| Account and workspace deletion (`server/app.ts`) | | remove owned prints, hand over or refund storage, purge workspaces | runs against uploads in flight |
| The rest: sign-in, notifications, billing, cloud adapters, geometry, prices, realtime events, the client | | | external services, pure I/O or pure arithmetic |

Calls reach the request service through remote procedures and through the tus upload server. The
service writes the database, the asset store and the journal, publishes an event, and hands new
models to the generation queue. Everything a workspace's calls share lives in a runtime that the
registry builds; building it recovers the journal under the lease `recovery:<workspace>`, resumes an
interrupted migration and fills the generation queue. A migration ends by invalidating the runtime.

What makes the parts correct: a print's row names a model that is stored; an upload becomes a print
exactly once; nothing is stored that no row and no operation names; a deleted print stays deleted;
recovery ends; copies are neither made nor lost; a tag is on no more copies than its stage holds; a
print is archived by itself only when all its copies are ready; what a print shows was made from its
model, and its jobs end; an account is charged the bytes its workspaces use, within its quota; a
migration loses no file and ends; a runtime that is not handed out is closed; tags form a tree;
an invite lets in one account; a workspace has an owner.

## Modules

| Module | What it is |
|---|---|
| `PrintLibrary` | what the journal promises: each print has at most one model, an upload lands once |
| `AssetJournal` | the journal, the store, the calls and recovery, one database or store call per step; refines `PrintLibrary` |
| `Cohorts` | the dealing of cards, as operators |
| `CopyBoard` | the copies of one print and the SQL statements of the calls on them; uses `Cohorts` |
| `WorkGate` | keyed and exclusive work on one subject, over Redis leases and a registry |
| `StorageMigration` | the migration of a workspace between two stores: records, runs, administrators' calls, runtimes and uploads |
| `AssetQueue` | generation jobs, the queue objects of the replicas and their passes |
| `StorageQuota` | included storage: reservations, uploads, entitlements and counts of the store |
| `RuntimeRegistry` | one workspace's entry in the registry of runtimes |
| `LeasedSweep` | a sweep on several replicas under one lease |
| `TagTree` | the tree of tags under the lock on the workspace's row |
| `Membership` | accounts, workspaces, members and invites on PostgreSQL |
| `Services` | `AssetQueue`, `StorageQuota`, `RuntimeRegistry`, `LeasedSweep`, `TagTree` and `Membership` together |
| `CopyBoardProofs`, `WorkGateProofs`, `RuntimeRegistryProofs`, `MembershipProofs`, `StorageMigrationProofs`, `StorageQuotaProofs` | theorems about the module of that name, `CopyBoardProofs` also about `Cohorts` |
| `ServicesProofs` | theorems about `AssetQueue`, `LeasedSweep`, `TagTree` and all of `Services` |
| `Sums` | lemmas about the library's sums over finite sets, for `CopyBoardProofs` and `StorageQuotaProofs` |
| `MCJournal`, `MCBoard`, `MCWorkGate`, `MCMigration`, `MCQueue`, `MCServices` | instances for TLC |
| `MCQuota`, `MCRegistry` | single-situation instances of `StorageQuota` and `RuntimeRegistry` |

The modules share a pattern. `proc` (or `work`, `run`, `call`) is what each call is doing: the await
it is at, and the values it read before. An `await` on the database, the store, Redis or another
promise ends a step, and what lies between two awaits is one step, because a server runs on one
thread. Where consecutive awaits are one step all the same, the section of the module says which. A
behaviour starts in one `situation`: which calls, files and replicas there are and how often each
kind of failure may still happen (`left`, spent by `Spend`). So one run covers several small
instances, each a state space of its own, and every bound is a field of a situation. History
variables (`crossed`, `missed`, `torn`, `cut`, `raced`, `over`, `stranded`, `stale`, `skipped`,
`overtaken`, `overlapped`, `lost`, `spoilt`) record that an exception of a property has happened; no
action reads them.

### AssetJournal

`files` and `trash` are the asset store, `part` the staged parts (all bytes of the upload, a copy of
them that was `Cut`, or `Missing`), `row` the keys a request's row names, `session` the upload
sessions and `journal`/`payload` the operations table. `proc` is the local state of every handler (a
server call) and of the server's recovery: the step it is at, the operation it carries out and the
state it listed that operation in, which the code never reads again. A content is the upload it came
from, so that two files compare equal exactly when their bytes do, or `Cut`. `resumeOperation` is
`FirstStep` and the actions under `Resume`. `Fault` makes the next call fail, with what the
surrounding `try`/`allSettled` then does. `Crash` ends a server's calls wherever they are; recovery
lists the journal, resumes each operation and sweeps the trash.

`adoptUpload` is `Adopt`, `BeginCopy` and `EndCopy`: the look at the part's size, then a copy that
empties the part and fills it. A crash or a second copy leaves it cut, and a cut part that is not empty
counts as there. `LocalAssetStore.finalizeUpload` is `Publish` (what is there), `Compare` (equal bytes?),
`Rename` (open, sync and rename) and, where staging and store are on different file systems
(`apart`), `Place` and `Drop` (the copy takes its name, then the part goes). Each of them may find that
another call for the same upload has taken the part meanwhile, which `resumeOperation` takes for a
replay (`Discard`, `Unlink`, `Restore`, `Abandon`). `Aside` and `Shift` are in the same way the look and
the rename of `ensureMoved`.

`spoilt` are the uploads of which a call found the part gone in the middle of `finalizeUpload`, copied
the upload again while its operation was journaled, placed its copy after another call had dropped the
part, or published a cut part. The properties except their prints: the table below says what happens to
them. Uploads are spoilt by a second call for the same upload that overlaps with the first or by a
crash or a failure in the middle of a copy, and by nothing else.

One step each: the two stats of `finalizeUpload`, and the checks of `nothingToMove` and `ensureMoved`
before the rename; open, sync and rename; the check and the rename of a batch deletion and of what puts
assets back; the read and the write of a repeat's copy; the tus upload, the part and the session that
`removeOwnedRequests` removes. A call that writes to a part which another has renamed goes on writing to
the published file in the code; here the upload is spoilt. The three loops of `removeOwnedRequests` are
three calls (`ResumeOwned`, `Remove`, `Forget`).

Left out: cloud stores, whose moves are copies, the legacy journal kind `move`, the derived
thumbnail and the cover (the preview stands for all derived assets), quota settlement (see
`StorageQuota`), and what a purge still does after another purge of the same `Promise.all` has
thrown. A repeat of a linked print is one insert.

### CopyBoard

`db` holds every count that the calls touch, one row per stage, per tag and stage, per tag (there,
not yet, or deleted) and the print's quantity. `pc`, `call`, `seen` and `write` are each call's next
statement, what it asks for, what its transaction has read and its uncommitted writes. A statement
reads what is committed at that moment and its own writes, and waits for rows that another
transaction has written: PostgreSQL at READ COMMITTED. On SQLite `BEGIN IMMEDIATE` lets one
transaction run at a time. A transaction may roll back at any statement, which covers deadlock
victims, failed statements and crashes. What a call checks before its transaction (`Ask...`) and
what it does inside are separate steps, because in the code they are separate awaits.

`Cohorts` is `printGroupCohorts`: it deals a stage's tag counts onto cards, one tag after the other,
each to the cards with the fewest tags first, and at most one card is parted by a tag. What it deals
is a recursive function of the number of tags dealt, so that it can be proved about.

Two pairs of statements are one step. `ReadGroup` reads a group's stage and its tags at once; what it
finds is read and checked again by the two statements of `moveCards`, which are two steps. `Assign` is a
removal's `DELETE` and `UPDATE`: if the count changes between them, either the update sees it, as the
step does, or the check `quantity > 0` rolls the call back, which a transaction may do at any step.

Left out: queue order, completion times, several prints in one call, the `print_groups` row that
`moveGroup` updates last (its stage and time, no count) and manual archiving. A card is named by the set
of its tags.

### WorkGate

`queue`, `claims` and `active` are the fields `mutex`, `keys` and `active` of each replica's gate: a
chain of promises is the sequence of the calls that hold or wait for it. `lease` and `entries` are
what Redis holds. `pc` is the await a call is at. A call of Redis can fail at any time, and a failed
acquisition or release can leave a lease that nobody has (`Gone`) until it runs out, as the leases
and entries of a dead replica do (`Crash`). `LoseLease` is a refresh that failed: the code passes
`onLost` a signal that `withWorkLease` never reads, so the work goes on. `lost` is a history
variable: the calls that have lost a lease, or an entry past `WORK_ENTRY_TTL`, that they still need.
A caller whose subject lease could not be released after it had claimed its key is `leaked`: the
call has thrown, its claim and its count stay, and the model makes no further calls for it.

Without a locker the gate is the same code without the calls of Redis: the model's behaviours in
which none of them fails, on one replica. `tryLock` is for leased sweeps and is in `LeasedSweep`,
`AssetQueue` and `StorageMigration`.

### StorageMigration

`setting`, `active`, `rev` and `cleanup` are the rows `storageMigration`, the storage settings with
their revision, and the cleanup marker. `rt` is each replica's runtime and how far its construction
is (`ReadRevision` to `Resume`: config, cleanup, recovery of the journal, resume of the migration).
`adm` is what each administrator's call is at, `run` the copying loop of each owner of the record,
`put` each upload. An owner id is new at each start, retry and resume, and the record, the lease and
the run are compared by it, as in the code. `update` and the other writes of the record are two
steps, since they read it first and write it afterwards without looking again. Two consecutive
updates of one file's copy are one, as are `activate` and the `finally` after it. `stale` names the
calls that wrote on what had changed since they read it: a start by a runtime of an earlier revision
or while a cleanup of its destination is due, a resume of a record that is no longer the one read or
whose source its runtime does not serve, a cancellation or a run's write or clearing when the record
is no longer its own, an upload or recovery decided on an earlier revision. Without Redis a lease is
always obtained, which is a behaviour of the model. One step each: the two reads of the drain and of
the check before it (uploads and operations), clearing a store with the record of its cleanup
(`FinishCleanup`), and taking a migration up again, from its context to its launch (`Resume`). Left
out: partial copies within a file (`ensureMoved` and the checksum decide), the two legacy purposes
(a namespace's migration and the canonical cloud root), a direct switch of settings without a
migration, recovery of unready runtimes on an interval, and the drain of the generation queue (see
`AssetQueue`).

### AssetQueue

`jobs` are the rows of `asset_generation_jobs` and `result` what a print's columns hold, both by
print and stage; a result is the version of the model it was made from. `queue` is each replica's
queue object (retry counts, timers, byte budget) and `work` its pass over each print: claim, budget,
reads, stages, and the branches of `retry`, `fail` and the storage failures. A replaced model's file
is gone, so that a read of it fails for good. A pass fails before it has read its source
(`PassFails`, and `NotClaimed` where the lock throws), at the source, in the pipeline before or
after the thumbnail, or at a write; a database call that fails later is left out, and so is a
thumbnail that is still being written when the worker reports an error. `missed` records that jobs
are left with nobody: `add` finds a pass that has read its jobs already; the lock or an early read
throws; the lease is held by another replica's pass that has, or by a dead one; a lease is lost
before a pass begins; `requeueInterrupted` resets what another replica is running. Such jobs wait
for the next start of a server.

### StorageQuota

`usage` and `account` are the rows of a workspace and of the account that holds its entitlement,
`session` the upload sessions with their reservation (`bytes`) and what is being finalized. A
transaction reads the holder (`ReadHolder`), locks the account and reads the holder again; it starts
over if that has changed; where there is no holder it goes on without one. `Write`, `Reserve`, `Put`,
`Finish` and `Undo` are `writeWithQuota`, `Finalize` to `Abandon` an upload's operation. `Create` and
`ReserveUpload` make a session, `RunOut` lets its time pass, `Drop` and `DeleteSession` delete it, and
`Touch` is what `createUploadSession` does to a session that is there, as every HEAD and PATCH has it do:
it becomes live again with its bytes, and nobody looks at the quota. `Scan`,
`Count` and `Reconcile` the count of the store, `Rehold` and `Refund` what happens to entitlements.
`closed` are the workspaces whose runtime is to be built: whatever comes next counts them first, after
a crash, when an entitlement is claimed, when a count has failed or the deletion of the workspace has.

What is recorded: `torn` are the workspaces whose row is off until the next count; `over` the
accounts that took over bytes without a look at the quota: with a workspace, from an upload that had
expired, with a reservation that had expired and came back, or found by a count; `stranded` the
uploads whose operation was given up without their bytes, of an attach or in a workspace without a
holder; `raced` says that bytes were counted while another call changed them. `cut` are the accounts
with a workspace whose row was off and stopped at 0 when a removal took more from it than it said
was there. Each of the two rows stops at 0 by itself (`finishManagedAssetReservation`), and an
account's row is only ever moved by the difference when a workspace is counted again
(`reconcileManagedStorageUsage`): the account then stays charged by that much more or less than its
workspaces' rows say, for good. No doc promises the opposite.

One step each: the row and the staged part that `expireUploads` deletes. A crash is one of all
replicas: whatever was under way is gone and every runtime is to be built.

Left out: two resumes of one upload at a time (in `AssetJournal`), a session that a HEAD creates
again, without bytes, after its row was dropped, the drain timeout of the exclusive gate, the limit
on the number of sessions, the limit of five attempts of a transaction.

### RuntimeRegistry, LeasedSweep and TagTree

`RuntimeRegistry` is `get`, `invalidate` and `close` of one workspace: workspaces share only the
flag `closed`. `creates` numbers every runtime that was asked for; the generation is compared by
number. `LeasedSweep` is `run`, `sweepNow` and `stop` of each replica, with the auto-archive's
setting as what a sweep reads. In the event loop no timer comes between the end of a round and the
callers that await it, so `Ends` lets them all go on. In the same way everything that waits for one
promise of a runtime has gone on before another promise settles, which is the guard of `Created`.
`Closing` is the awaits of `invalidate` after the first: `closeValue` remembers a runtime before it
waits for its end, and nothing is read after that.
`TagTree` is a transaction that locks the workspace's row, checks and writes; `deleteGroup` takes no
lock and the database deletes the branch. `Above(t)`, the tags that the walk of `requireTagParent`
meets, is the least set that holds `t` and the parent of each of its members.

### Membership

`workspace` holds the rows of `organization` with their members, `invite` those of `invites`,
`users` the accounts. Each statement that reads is a step, and the writes of a transaction are one
step at its commit, since nobody sees them before; `locked` is the row of `user` that `lockUserRow`
writes to make two creations wait for each other. Every signed-in request starts with
`ensurePersonalWorkspace`; it changes something only where an account is in no workspace, so it is
modelled where that can be: before a creation and after a sign-up. Its transaction neither locks the
account nor counts its workspaces, so an account that joined or created one after the check gets one
more than the limit (`overlapped`). Ids are random: a workspace's or an account's is not taken again
while a row or a call knows it (`Fresh`, `CreateUser`). On SQLite a transaction is one step, and
nothing here overlaps but the calls of several transactions. Left out: slugs (two creations of one
name at once may fail), the expiry of invites, and a super administrator's deletion of a workspace.

### Services

`Services` extends the queue and instantiates the other five, with `service` naming the one that
something happens to; the others are at rest, since they share no state with it. `StorageQuota`,
`RuntimeRegistry` and `Membership` are instantiated through the modules with their proofs, so that
their theorems can be cited for the instances.

## Runs

| Run | Checks | Question |
|---|---|---|
| `uploads` | `TypeOK`, `Tracked`, `ImplementsLibrary`, `UploadLands` | does each upload become one print with its own bytes over retries, a crash and deletes of prints and of their owner? |
| `changes` | `ModelReachable`, `TrackedUnbatched`, `ImplementsLibrary`, `PartConsumed`, `EventuallyReady`, `JournalDrains` | does a print keep its old model until it has the new one, is any byte dropped or forgotten, does a server that crashed get ready, does every operation end, does a refused batch deletion put its assets back? |
| `board_sqlite` | `TypeOK`, `Conserved`, `TagsFit`, `CardsDealt`, `CardStillThere` | do overlapping moves, deletes, tag and quantity edits on SQLite keep copies, tags and cards together? |
| `board_pg` | `Conserved`, `ArchivesReady` | do overlapping moves, deletes, creations and deletions of a tag and the automatic archive on PostgreSQL keep the copies, and archive only what is ready? |
| `work_gate` | `TypeOK`, `Alone`, `OneAtAKey`, `CallsEnd` | does exclusive work run alone, is work on a key serial, does every call end, whatever Redis does? |
| `migration` | `TypeOK`, `ModelsServed`, `RecordFits`, `MigrationEnds` | does a migration lose a model, does its record say which store serves, does it end? |
| `services` | `ServicesTypeOK`, and for the queue `ResultsFit`, `OnePass`, `JobsSettle`; for storage `AccountsAdd`, `QuotaKept`, `Charged`, `Returned`; for the registry `NoneLost`, `ServedOpen`; for sweeps `SavedIsRead`, `QuietAfterStop`; for tags `NoLoops`, `SiblingsDiffer`; for members `MembersFit` | the same questions of the parts around the journal |

**Journal runs.** One print with a model, at most one that is only a link, at most two uploads, two
handlers and two operations: one call, and one call, retry or recovery that overlaps with it. Two
crashes let recovery itself crash. The local asset store belongs to one server process:
`assertDistributedWorkspaceReadiness` lets several replicas run only over remote storage, so
`Replicas` has one member. `uploads` has four situations: a new print beside deletions and a crash;
two new prints and a crash; the removal of an owner who may still be uploading, across file systems,
and with a crash. `changes` has six: a replacement with two crashes; a first model with one, across
file systems; two replacements of one model with a failing call, each sent by one call at a time;
deletes with a crash and a failing call; deletes, repeats and moves with a crash; batch deletions
beside all that does not upload. Wherever there are uploads, but for the third, two calls may
finalize one of them at the same time. It has no symmetry, which would be unsound for liveness.

**Boards.** One print with two copies over two stages, one tag or two, and two calls, which are
enough for every disagreement between two transactions; an edit of the quantity, or the creation of
a tag, changes how many copies there are to be tagged. `board_sqlite` leaves out the creation and
deletion of tags and the archive, which SQLite runs one transaction at a time; `board_pg` has them,
and leaves out what fails there (below).

**`work_gate`** has two callers on one replica and one on another, and one key: two calls contend in
a process, the third over Redis. More keys only add calls that do not meet. It bounds nothing else,
neither faults nor crashes nor calls, and checks for deadlock. The other runs do not: clients may
stop calling, and a deleted print takes no more calls.

**`migration`** has two stores, two files (one of them an upload), up to two replicas and two
administrators, at most two starts, and one or two failures or a lost lease. `Owners` has three members:
ids are taken again only when nothing holds them any more. `builds` bounds how often a runtime is built.

**`services`** makes something happen to one service in each behaviour and leaves the others at
rest, since they share no state. Queue: two prints or two replicas, one retry, a budget below the
sum of two sizes. Storage: a quota of 3, uploads and writes of 1 or 2, two workspaces of one account
and another account. Registry: three calls. Sweeps: two replicas, two saves. Tags: three tags, two
names, two calls. Members: three accounts, four workspaces with a limit of two, one invite, two
calls.

**Fairness.** `CallsEnd` assumes weak fairness of each call's own steps: promises run on, operations
end, a lease is acquired or `acquireTimeout` passes, and `drain` stops at its deadline. Leases and
entries need not run out. `changes` assumes weak fairness of each call that has begun and of the
server's recovery: a promise chain runs on by itself, and `storageFailureRecovery` retries a storage
that is not ready on an interval. `JobsSettle` assumes that passes run on, that replicas are started
again (`Object`), that a migration ends (`Moved`) and that the lease of a dead holder runs out.
`MigrationEnds` assumes the steps of runs and calls, that dead leases run out, and that requests
keep coming to every replica (a runtime is built on request); where no more may be built by the
bound, it promises nothing. Clients are under no fairness anywhere.

### Runs that find a disagreement

Each of these checks one statement of a test, a comment or the documentation that the code does not
keep; `PROJECT.json` quotes it.

| Run | What happens |
|---|---|
| `replace_same_name_crash` | a same-name replacement that crashed after publishing can never be replayed: the storage stays not ready |
| `migration_late_upload` | an upload compares the revision and then looks for a pause; a switch falls between the two, and the upload goes into the store that was left |
| `stale_generation` | a pass that read the old model writes its thumbnail to the print after the replacement, and marks it ready |
| `finalize_again` | a server stops after a finalize was settled and before its operation was marked; the replay is refused for ever, because nothing is reserved any more |
| `runtime_replaced` | two requests find the runtime out of date; the slower one begins a second new runtime over the first, which is never closed |

### What the passing runs leave out

The constants of a run decide which calls overlap. These combinations are left out of the passing
runs because a property fails under them; each line gives the run to change and the change, so that
TLC shows the behaviour. `Situation(...)` lines replace the set `Changes` (for `uploads`, `Additions`) of
`MCJournal`: the uploads, the kinds of call, the prints deleted, crashes, failing calls, and whether
staging and store are on different file systems.

| Change | Fails | What happens |
|---|---|---|
| `changes`: `ModelReachable` without `spoilt` | `ModelReachable` | two calls finalize one upload: the second finds the part gone, takes that for a replay, removes the model that the first has published and puts the old one back, while the first commits a row that names the new |
| `uploads`: `UploadLands` without `spoilt` | `UploadLands` | a crash, or a second copy, in the middle of `copyFile` leaves a cut part; its size is not 0, so that it is published as the upload |
| `changes`: `TrackedUnbatched` without `spoilt` | `TrackedUnbatched` | the same two calls: the old model is put back and its operation abandoned, although the row names the new one |
| `changes`: `EventuallyReady`, or `JournalDrains`, without `spoilt` | both | a call copies the upload again after another has published the part, and the server stops: recovery finds a cut part beside a published file that differs, and throws every time |
| `changes`: `PartConsumed` without `spoilt` | `PartConsumed` | across file systems, a call publishes a part that another is still copying, and drops it when it is whole: a cut model is all there is |
| `changes`: `Sends <- SendAny` | `ModelReachable` | the retry of a same-name replacement listed it as prepared: it moves the new model, under the old key, into the trash, which is purged |
| `changes`: `Situation({u2}, {"upload", "remove"}, {l1}, 1, 0, FALSE)` | `TrackedUnbatched`, `EventuallyReady` | a deletion that read its print before it had a model leaves the model behind; an attach journaled after its print was deleted breaks a foreign key at every recovery |
| `uploads`: `Situation({u1}, {"upload", "remove"}, {1}, 0, 0, FALSE)` | `ImplementsLibrary` | deleting a print deletes its upload session, and the replay of the committed upload inserts the print again |
| `changes`: the sixth situation with a crash | `ModelReachable` | a batch deletion sets assets aside without an operation; after a crash they are swept while the rows remain |
| `changes`: check `Tracked` | `Tracked` | of two deletions of one print, the batch puts assets back after the other has deleted the print |
| `changes`: `JournalDrains` without `failing`, where batches are under way | `JournalDrains` | a batch moves an asset between the look and the rename of a deletion, which throws: its operation stays until the next recovery |
| `changes`: `Situation({}, {"remove", "repeat"}, {e1}, 1, 1, FALSE)` | `ModelReachable` | recovery resumes a repeat whose source is gone and removes the copy that the call has committed |
| `changes`: `Situation({u1}, {"upload", "move"}, {}, 0, 0, FALSE)` | `ModelReachable` | a move writes back the model key it read before a replacement committed, and the replacement has purged that model |
| `changes`: the first situation with a failing call | `ModelReachable` | the staged part expired, the restore of the old model fails, and the operation is dropped all the same |
| `work_gate`: `CallsEnd` without `Leaked` | `CallsEnd` | the release of the subject's lease fails after the key was claimed: later calls for the key and all exclusive calls of that replica wait for ever |
| `board_sqlite`: `Calls` with `create_group`, and `Fresh <- {b}` | `TagsFit` | the counts of a new tag are checked before its transaction and not in it |
| `board_pg`: check `TagsFit` | `TagsFit` | the stage and its tags are read by two statements (`stageTags`), and a tag ends up on more copies than its stage holds; a tag is clamped to a count that a concurrent move has changed |
| `board_pg`: `Calls` with `edit` | `Conserved` | an edit writes a backlog and a quantity computed from an unlocked read |
| `board_sqlite`: compare the cards before and after a deletion | | deleting one card can change the tags of another: the rest is dealt again from counts |
| `migration`: `ModelsServed` without `stale` | `ModelsServed` | besides the late upload: recovery by a runtime built before the switch finishes an upload into the old store; a start on such a runtime copies from the old store; with two replicas, two starts, clearing and one lost lease, one run switches and the other, whose record is gone, clears the destination that now serves |
| `migration`: `RecordFits` without `Overwritten` | `RecordFits` | a cancellation, resume, failure or switch writes the record it read over one that has changed: a cancelled record over a completed one makes the next clearing empty the serving store; a run that read another owner's record to cancel it writes that one back |
| `migration`: `MigrationEnds` without `skipped` | `MigrationEnds` | a server that is restarted before its old lease (30 s) has run out does not resume its migration, and nobody does later |
| `services`: `JobsSettle` without `missed` | `JobsSettle` | jobs that are left to nobody, listed under `AssetQueue` above |
| `services`: `OnePass` without `strayed` | `OnePass` | a pass that has lost its lease runs on to its next check beside the next holder's |
| `services`: `Returned` without `stranded` | `Returned` | an attach that is abandoned keeps its finalizing bytes, as an upload does not |
| `services`: `AccountsAdd` without `cut` | `AccountsAdd` | a write lands although its call failed, so that the row does not count it; the file's removal takes the workspace's row below 0, where it stops, and the account's by all of it: the account is charged too little for good |
| `services`: `QuotaKept` without `over` | `QuotaKept` | a workspace is handed over with its bytes, a session that has expired is finalized, and one comes back at the next HEAD beside what was reserved since (`createUploadSession`), without a look at the quota |
| `services`: `AdmitsOne` without `overlapped` | `MembersFit` | on PostgreSQL two acceptances that overlap both read the invite as unused: a single-use link (`core/i18n/en/settings.ts`) lets two accounts in; so does an acceptance under which a sign-up claims the invite, and one whose invite is deleted meanwhile |
| `services`: `HaveOwners` without `overlapped` | `MembersFit` | a request that began before an account's deletion creates a workspace after the plan, and the account goes: nobody owns it, though `core/workspaces.ts` says that a deletion must not leave a workspace without an owner |
| `services`: `WithinLimit` without `overlapped`, and three calls of one account | `MembersFit` | `ensurePersonalWorkspace` neither locks the account nor counts: under it two creations, or an acceptance and two creations, leave the account with one workspace more than the hosted limit |
| `services`: `NoneLost` without `overtaken` | `NoneLost` | see `runtime_replaced` |

## Proofs

Eight modules hold theorems, for every value of the constants of the components: any
calls, tags, replicas, workspaces, and any number of them. Each proof has the same plan. An inductive
invariant, a conjunction of named parts, holds initially, is kept by every action (one lemma per
action), and gives the properties. What the parts are for:

`CopyBoardProofs`, on both databases:

- `OnlyReadyArchived`: `Spec => ArchivesReady`. The inductive invariant `ArchiveInv` says that each
  variable has its shape, that no two open transactions have written the same counted row
  (`Exclusive`), and what an automatic archive holds at each of its statements (`Archiving`): after
  its two no-op writes it holds every stage and the print, and nobody can commit a change of them,
  so what it rechecks is still so when it commits. Without `Exclusive` another call's commit could
  change a count between the recheck and the archive's commit.
- `CopiesConserved`: `Spec => []Conserved`, under the condition that the database is SQLite or that
  no call edits the quantity; the table above shows why the condition is there. `BalanceInv` adds to
  `ArchiveInv` how far each transaction's writes have taken the stages ahead of the print (`Ahead`),
  statement by statement: a commit happens only at zero. `Solo` says that SQLite runs one
  transaction at a time, which is what an edit's unlocked read rests on.
- `CardsAreAsCounted`: `Spec => []CardsDealt`, for any order and number of tags: whatever a stage's
  counts are, its cards hold as many copies as the stage, each tag is on as many of them as its
  count says, or on all copies if the count is more, and copies go without a tag wherever the tags
  do not need them. The lemmas about `Cohorts` say that a tag goes to exactly as many copies as
  asked (`FewestFirst`), that it parts at most one card, and that the cards stay a deck, no two of
  which have the same tags (`Deck`); `Dealt` is what holds after the first k tags. Its last
  conjunct, that the copies without a tag are those that the counts so far leave over, is what makes
  the new, parted card unlike every other.
- `TypeCorrect`: `Spec => []TypeOK`. That counts are natural numbers (`NumberInv`) is not a matter
  of shape: a move subtracts from what it has read, so a call must be shown to take no more of a tag
  than its count, which follows from how the cards were dealt.

`CopyBoardProofs`, on SQLite; on PostgreSQL both fail or are not claimed (the table above):

- `TakenCardsThere`: `Spec => CardStillThere`. `StillInv`: the cards that a call has found stay as it
  read them until it commits, because nobody else is in a transaction.
- `TagsStayFitting`: `Spec => []TagsFit`, where no call creates a tag (`create_group`, whose counts
  are checked before its transaction). `FitInv` follows the counts through a transaction statement by
  statement (`Fitting`): a move takes of each tag at most the copies that it moves and leaves at most
  the rest (`Taking`), and while it puts them into the other stage, it owes that stage's tags no more
  than it has brought (`Owed`). `Knows` says that a call's copies are those of the cards it names.

`WorkGateProofs`:

- `GateInvariant`: `GateInv` is inductive. `Held`: a call inside the mutex or at work on a key is at
  the head of its queue, which is why two calls of one replica cannot both be. `Counted`: `active`
  is the number of calls that have claimed a key, so that exclusive work that saw 0 (`Drained`) has
  no keyed work beside it. `Leased` and `Entered`: a call that has lost nothing holds its lease and
  its entry. `Noticed`: exclusive work counted the entries of all work it could meet, because work
  registers only under the subject's lease.
- `GateTypes`, `ExclusiveIsAlone` and `KeysAreSerial`: `Spec => []TypeOK`, `[]Alone`, `[]OneAtAKey`.

`ServicesProofs`, of the queue:

- `ResultsAlwaysFit` and `OnePassAtATime`: `Spec => []ResultsFit` and `[]OnePass`, and `QueueTypes`.
  `QueueInv` says of every pass at every step which version of the model it has read, and that its
  print still has that version unless the model was replaced under it (`PassFits`): only then may a
  result be of another model, and `crossed` records it. A pass at `geometry` or later has measured the
  mesh of the same file. `NothingWithoutModel`: a print without a model has no ready job and no result.
  `Leased`: a pass that is at work holds its print's lease, or has strayed, so two cannot be.

`RuntimeRegistryProofs`:

- `NoRuntimeLost` (`[]NoneLost`): every runtime that is open is handed out, is being checked or
  closed by a call, or is the entry, or was overtaken. In `RegistryInv`, `RunsForSomebody` says that
  what is being built has a call that will enter or close it; `Generations`, that the entry and what
  is pending are of the current generation, a waiting call's is at most that, and what is closed is
  of an older one; `NothingOver`, that nothing is pending over an entry but one that was overtaken;
  and `Late`, what a call finds that wakes after another has settled the same promise.
  `OnlyOpenServed` is an action property from the same invariant: what a `get` returns was open when
  it was returned. `RegistryTypes` is its type invariant.

`ServicesProofs`, of the sweeps (`Sweeps!`):

- `SavedSettingIsRead` and `NothingAfterStop`: `[]SavedIsRead`, `[]QuietAfterStop`, and `SweepTypes`.
  `Awaited`: a caller that waits does so on a replica whose round runs. `ReadsAfter`: the round a
  `sweepNow` has joined waits for the lease instead of skipping, and if it has read the setting, then
  after that caller saved it; without it a caller could be told of a round that read an older setting.

`ServicesProofs`, of the tags (`Tree!`):

- `TagsStayTree` and `NamesStayUnique`: `[]NoLoops` and `[]SiblingsDiffer`, and `TagTypes`, under the
  condition that the behaviour starts from a tree (`BeginsAsTree`). `TreeInv` says that what a
  transaction read under the lock is still so when it writes, except that a deletion, which takes no
  lock, may have removed tags: it only shrinks the tree, so no loop and no equal names come of it. The
  lemmas about `Above` say that it is closed, is the least such set, and how it changes when one tag
  is given another parent: a loop after a move would need the moved tag among those above its new
  parent, which is what the walk looks for.

`ServicesProofs`, of all the services:

- `ServicesTypes` and eleven more: what the run `services` checks of storage, registry, sweeps, tags and
  members, for every value of the constants. Each follows from the component's theorem: a behaviour of
  `Services` is one of each component (`EachBehaves`), since a step of another service leaves its
  variables alone.

`StorageQuotaProofs`, whose `Inv` has three layers, each of which rests on the one before:

- `QuotaTypes` and `UploadsReturned` (`[]Returned`), from `Sound`: shapes, and who may be where. A
  call on a store is the only one on its path; a scan or a clearing is alone in its workspace; a
  call on an upload is the only one on it, and the upload has an operation.
- `RowsCharged` (`[]Charged`), from `Balanced`: a workspace's row is the sum over the paths of what
  is charged for the file there (`KeptDue`: its size, or until the books follow the size it had),
  and of what calls and uploads hold (`HeldDue`). A row that is off may say too little of what is
  held only between a refund and the next count (`Backed`): that is why a settlement never takes
  more from the held bytes than is there.
- `AccountsAddUp` and `QuotaIsKept` (`[]AccountsAdd`, `[]QuotaKept`), from these: every step that
  touches a row moves the account's by the same, but where `cut` or `raced` records that it does
  not, and what an account stores, holds and has promised to live sessions grows only under the lock
  and a look at the quota, or where `over` records it.
- Sums over a finite set are folds, whose recursion over the set is a recursive function, so what
  they add up to is proved by a smallest counterexample: the sum over a set with one element more,
  of a function changed at one place, of two functions, and that it is not below 0 (the module
  `Sums`). The cards of a stage are proved about in the same way, by the least number of tags for
  which they would not be right.

`MembershipProofs`:

- `MembersStayInOrder`: `[]MembersFit` (every workspace has an owner, a single-use invite admits one,
  an account owns no more than the hosted limit, with the exceptions of `overlapped`), and
  `MemberTypes`, under the condition that the behaviour starts in that order (`BeginsInOrder`) and
  that the limit is at least two. Besides shape and references (`MembersThere`), `MemberInv` says
  that a workspace has at most one owner (`OneOwner`); that the call between `lockUserRow` and its
  commit is the one that has locked its account (`Locks`); that such a call past its count has room
  for one more workspace (`Limits`, whose sets of workspaces have to be finite to be counted); that an
  unused single-use invite has let nobody in and one sign-up at most has claimed it (`Singles`); and
  that a call that is about to write a role, move the personal flag, purge or delete an account has
  read what is still so (`Seen`), which is where an owner could go missing. `HaveOwners` is the
  property itself.

`StorageMigrationProofs`:

- `ModelsAlwaysServed` and `RecordAlwaysFits`: `Spec => []ModelsServed` and `[]RecordFits`, and
  `MigrationTypes`, for any replicas, administrators, stores, files and uploads, and any number of
  starts, crashes and lost leases. A lost lease is why it is not enough to say that one run works at
  a time: several may, and what keeps the files is which of them the record names. `MigrationInv`
  says that a runtime or a context that has the current revision has the active store (`Knows`);
  that all copies of one migration's record agree on its two stores (`Coherent`); that a taken owner
  id belongs to one call or runtime that has not written yet (`Apart`, `Unwritten`); that a start
  or retry whose revision is current copies from the store that serves (`Calls`); that a run copies from
  its runtime's store and, while the record names it, the record is running (`Runs`); that nothing is
  served from or copied to managed storage while a cleanup of it is due (`CleanupFits`), which is
  what lets three different actors clear it; that an upload past its checks has the current revision
  (`Puts`); and that from the drain of the run that owns the record to its switch nothing is uploaded
  and each row's file is in the destination or still to be copied (`Copied`). The parts about the
  record hold while no write met a changed record (`Overwritten`), those about files while nothing
  is `stale`. The 58 actions come down to eight kinds of step, each with one lemma: of a call, a
  runtime, a run, an upload, an actor that winds down, a cleanup, a write by the record's owner, a launch.

The assumptions on the constants are `BoardAssumption`, `OrderAssumption` (the order of the tags names
each once), `GateAssumption`, `QueueAssumption`,
`MigrationAssumption` and `ServicesAssumption`, which the runs evaluate: the markers (`None` and the
like) differ from what they stand in for, and sizes and limits are numbers. In the modules that
`Services` instantiates they are a hypothesis of the theorem, `Given` in `StorageQuotaProofs`, which
also asks that there are finitely many workspaces, uploads and files: a sum over infinitely many is
no number.

Looking for these proofs changed the model where it was wrong or could not be reasoned about:

- `Created` (`RuntimeRegistry`) lacked its guard. With four calls, one promise could settle before the
  calls that wait for another had gone on, and a runtime was lost; a JavaScript server runs them first.
- `CreateUser` (`Membership`) could take the id of an account that a call still knew, which random ids
  do not do; and `WithinLimit` did not hold with three calls, which is a behaviour of the code (the
  table above).
- `Above` (`TagTree`) was a recursive operator and is now the least closed set.
- A new owner id (`NewOwner`, `StorageMigration`) could be one that a run's copy of a record or the
  cleanup marker still held, which random ids are not. And `stale` did not record three of the writes
  above: a run's clearing, a resume and a start. `ModelsServed` held in the run's instances and failed
  in a larger one, by a behaviour of the code (the table above).

- `Cohorts` dealt with folds and with a set of parted cards. It now deals with a recursive function and
  at most one parted card, as the loop of `printGroupCohorts` does.
- `StorageQuota`, where the proof got stuck or TLC found the counterexample: `Finish` moved the two
  rows by one amount although each stops at 0 by itself; a reservation without a holder went on; a
  crash, a failed count and a claim did not leave a runtime to be built; `over` forgot the bytes a
  count finds; and a call that has only created a session counted as one at work in its workspace.

Model-checked only: liveness and fairness (`JobsSettle`, `CallsEnd`, `MigrationEnds`, `EventuallyReady`
and the others that use `~>`), which the prover does not reach; and `AssetJournal`, whose properties
hold in the situations that its runs list and not in all (the table above), so that a theorem about
it would have to assume the situations and be no more than the runs.

## Not modelled

- Sign-in, sessions and cookies are Better Auth's. Billing is an adapter of an external service.
  Notifications, e-mail, realtime events, telemetry and logs are sent and forgotten.
- Cloud stores are clients of remote APIs whose own consistency would have to be guessed;
  `AssetJournal` is over the local store, whose moves are atomic.
- Geometry, rendering, prices and print estimates are arithmetic on floating-point numbers.
- The client: it shows what the server sends and sends calls, which here may come at any time.
- The migrations of old layouts run once, at the start of a server, before anything else.
- The files of a purged workspace, and the bytes and locks of a tus transfer.

## What could come next

1. The part of `AssetJournal` that holds in every situation as theorems: its types, and that `Conflict`
   keeps at most one uncommitted operation per request.
2. A variant of the store for cloud adapters, whose moves are a copy and a delete.
3. `AssetJournal` under `StorageMigration`: an upload is one file there, and a journal here.
