---------------------------- MODULE StorageQuota ----------------------------
(***************************************************************************)
(* Included storage: a workspace's bytes are charged to the account that   *)
(* holds its entitlement, and one account may hold several workspaces.     *)
(* QuotaAssetStore reserves bytes before it writes and settles afterwards; *)
(* uploads reserve when they begin.  A transaction reads who the holder    *)
(* is, locks that account and reads the holder again: here the first read  *)
(* is a step, and the rest of the transaction another.                     *)
(***************************************************************************)
EXTENDS Integers, FiniteSets, Functions

CONSTANTS
  Workspaces, Accounts, Keys, Uploads, Procs,
  Home, Place, Size,  \* of an upload: its workspace, its asset path, its bytes
  WriteSizes,         \* the sizes of what is written
  Quota, Limit,       \* of an account: bytes, and workspaces it may hold
  Situations,         \* what may happen: each behaviour has one of these
  None, Unread

VARIABLES
  holder,   \* the account that holds each workspace's entitlement, or None
  usage,    \* the bytes each workspace has stored and reserved
  account,  \* the bytes each account is charged
  stored,   \* the size of each file; 0 where there is none
  session,  \* the upload sessions
  proc,     \* what each server call is doing
  closed,   \* workspaces whose runtime is to be built: that counts them again
  torn,     \* workspaces whose usage is off until they are counted again
  cut,      \* accounts with a workspace whose row stopped at 0 while it was off
  over,     \* accounts that took over bytes, or got them back with a session, without a check of the quota
  stranded, \* uploads whose operation was given up without their bytes
  raced,    \* bytes were counted while another call was changing them
  left

vars == <<holder, usage, account, stored, session, proc, closed, torn, cut, over, stranded, raced, left>>
books == <<usage, account, cut>>
ghosts == <<torn, over, stranded, raced>>

Zero == [kept |-> 0, held |-> 0]
NoSession == [there |-> FALSE, live |-> FALSE, bytes |-> 0, finalizing |-> 0,
              part |-> FALSE, op |-> FALSE]
Idle == [pc |-> "idle", kind |-> "none", w |-> None, key |-> None, up |-> None,
         size |-> 0, was |-> 0, held |-> 0, count |-> 0, seen |-> Unread]

Init ==
  /\ left \in Situations
  /\ holder = left.holder
  /\ usage = [w \in Workspaces |-> Zero] /\ account = [a \in Accounts |-> Zero]
  /\ stored = [w \in Workspaces |-> [k \in Keys |-> 0]]
  /\ session = [u \in Uploads |-> NoSession]
  /\ proc = [p \in Procs |-> Idle]
  /\ closed = {} /\ torn = {} /\ cut = {} /\ over = {} /\ stranded = {} /\ raced = FALSE

Spend(what) == left[what] > 0 /\ left' = [left EXCEPT ![what] = @ - 1]
At(p, pc) == proc[p].pc = pc
To(p, pc) == proc' = [proc EXCEPT ![p] = [@ EXCEPT !.pc = pc, !.seen = Unread]]
End(p) == proc' = [proc EXCEPT ![p] = Idle]
Active(w) == {p \in Procs : proc[p].w = w /\ proc[p].kind # "create"}
Exclusive(p) == proc[p].kind \in {"scan", "clear"}
Held(a) == {w \in Workspaces : holder[w] = a}
NotBelow0(n) == IF n > 0 THEN n ELSE 0
Adds(books1, kept, held) == [kept |-> NotBelow0(books1.kept + kept), held |-> NotBelow0(books1.held + held)]

Inventory(w) == SumFunctionOnSet(stored[w], Keys)
Finalizing(w) == SumFunctionOnSet([u \in Uploads |-> session[u].finalizing], {u \in Uploads : Home[u] = w})
(* managedUploadBytes *)
UploadBytes(a) == SumFunctionOnSet([u \in Uploads |-> session[u].bytes],
  {u \in Uploads : holder[Home[u]] = a /\ session[u].live})
Charge(a) == account[a].kept + account[a].held + UploadBytes(a)

(* managedStorageTransaction and lockManagedStorageHolder: when the holder
   that was read is not the holder any more, the transaction starts again;
   it goes on without a holder where there was none. *)
Transactions == {"reserve_upload", "begin", "settle", "abandon", "reserve", "finish", "undo", "recount"}
ReadHolder(p) ==
  /\ proc[p].pc \in Transactions /\ proc[p].seen \notin {None, holder[proc[p].w]}
  /\ proc' = [proc EXCEPT ![p].seen = holder[proc[p].w]]
  /\ UNCHANGED <<holder, books, stored, session, closed, ghosts, left>>

(* Mutant: the holder is not read again under the lock. *)
LocksHolderSeen(p) == proc[p].seen # Unread
LocksHolder(p) == proc[p].seen \in {None, holder[proc[p].w]}

(* Both books: the workspace's own row and its holder's account.  A row that is
   off may stop at 0, and then the account's does not stop with it. *)
Books(p, kept, held) ==
  LET w == proc[p].w
      a == proc[p].seen
  IN /\ usage' = [usage EXCEPT ![w] = Adds(@, kept, held)]
     /\ account' = [account EXCEPT ![a] = Adds(@, kept, held)]
     /\ cut' = IF w \in torn /\ usage[w].kept + kept < 0 THEN cut \cup {a} ELSE cut

-----------------------------------------------------------------------------
(* Upload sessions.                                                        *)

(* createUploadSession; the reservation is a transaction of its own. *)
Create(p, u) ==
  /\ At(p, "idle") /\ u \in left.uploads /\ ~session[u].op
  /\ left' = [left EXCEPT !.uploads = @ \ {u}]
  /\ session' = [session EXCEPT ![u] = [NoSession EXCEPT !.there = TRUE, !.live = TRUE, !.part = TRUE]]
  /\ proc' = [proc EXCEPT ![p] = [Idle EXCEPT !.pc = "reserve_upload", !.kind = "create", !.w = Home[u], !.up = u]]
  /\ UNCHANGED <<holder, books, stored, closed, ghosts>>

(* Mutant: only the bytes of this workspace's account that are stored count. *)
ReserveUploadKept(p) ==
  LET u == proc[p].up IN
  /\ At(p, "reserve_upload") /\ LocksHolder(p)
  /\ session' = [session EXCEPT ![u] =
       IF ~@.there \/ proc[p].seen = None THEN @
       ELSE IF account[proc[p].seen].kept + Size[u] > Quota THEN (IF @.bytes = 0 THEN NoSession ELSE @)
       ELSE [@ EXCEPT !.bytes = Size[u], !.live = TRUE]]
  /\ End(p)
  /\ UNCHANGED <<holder, books, stored, closed, ghosts, left>>

ReserveUpload(p) ==
  LET u == proc[p].up IN
  /\ At(p, "reserve_upload") /\ LocksHolder(p)
  /\ session' = [session EXCEPT ![u] =
       IF ~@.there \/ proc[p].seen = None THEN @
       ELSE IF Charge(proc[p].seen) + Size[u] > Quota THEN (IF @.bytes = 0 THEN NoSession ELSE @)
       ELSE [@ EXCEPT !.bytes = Size[u], !.live = TRUE]]
  /\ End(p)
  /\ UNCHANGED <<holder, books, stored, closed, ghosts, left>>

RunOut(u) ==
  /\ session[u].live /\ session[u].bytes > 0 /\ Spend("late")
  /\ session' = [session EXCEPT ![u].live = FALSE]
  /\ UNCHANGED <<holder, books, stored, proc, closed, ghosts>>

(* createUploadSession of a session that there is, as every HEAD and PATCH
   calls it: what had run out is live again, and no quota is looked at. *)
Touch(u) ==
  /\ session[u].there /\ ~session[u].live
  /\ session' = [session EXCEPT ![u].live = TRUE]
  /\ over' = IF session[u].bytes > 0 /\ holder[Home[u]] # None THEN over \cup {holder[Home[u]]} ELSE over
  /\ UNCHANGED <<holder, books, stored, proc, closed, torn, stranded, raced, left>>

(* expireUploads, which takes the staged part too, and releaseUploadSession of
   a client that gives up.  Neither looks at the journal: an operation stays. *)
Drop(u) ==
  /\ session[u].there /\ session[u].finalizing = 0
  /\ \E expired \in BOOLEAN :
       /\ IF expired THEN ~session[u].live /\ UNCHANGED left ELSE Spend("dropped")
       /\ session' = [session EXCEPT ![u] = [NoSession EXCEPT !.op = session[u].op,
            !.part = ~expired /\ session[u].op /\ session[u].part]]
  /\ UNCHANGED <<holder, books, stored, proc, closed, ghosts>>

(* deleteUploadSessions, of a member who is removed: what is being finalized too. *)
DeleteSession(u) ==
  /\ session[u].there /\ Spend("dropped")
  /\ session' = [session EXCEPT ![u] = [NoSession EXCEPT !.op = session[u].op]]
  /\ torn' = IF session[u].finalizing > 0 THEN torn \cup {Home[u]} ELSE torn
  /\ UNCHANGED <<holder, books, stored, proc, closed, over, stranded, raced>>

-----------------------------------------------------------------------------
(* Calls on the store.  perKey lets in one call per path and none during   *)
(* an exclusive one, which waits for those that are under way.             *)

Enters(p, w) == At(p, "idle") /\ w \notin closed /\ \A q \in Active(w) : ~Exclusive(q)
Free(w, k) == \A q \in Active(w) : proc[q].key # k
Counting(w) == \E q \in Active(w) : proc[q].pc \in {"inventory", "recount"}

Begin(p, w, new) ==
  /\ proc' = [proc EXCEPT ![p] = [new EXCEPT !.w = w]]
  /\ raced' = (raced \/ Counting(w))
  /\ UNCHANGED <<holder, books, stored, closed, torn, over, stranded>>

(* writeWithQuota: the size there was, and what more there will be. *)
Write(p, w, k, n) ==
  /\ Enters(p, w) /\ Free(w, k) /\ Spend("writes")
  /\ Begin(p, w, [Idle EXCEPT !.kind = "write", !.key = k, !.size = n, !.was = stored[w][k],
       !.held = NotBelow0(n - stored[w][k]), !.pc = IF n > stored[w][k] THEN "reserve" ELSE "put"])
  /\ UNCHANGED session

(* reserveManagedAssetBytes: refused over the quota, and without a holder. *)
Reserve(p) ==
  /\ At(p, "reserve") /\ LocksHolder(p)
  /\ IF proc[p].seen # None /\ Charge(proc[p].seen) + proc[p].held <= Quota
     THEN Books(p, 0, proc[p].held) /\ To(p, "put")
     ELSE End(p) /\ UNCHANGED books
  /\ UNCHANGED <<holder, stored, session, closed, ghosts, left>>

Put(p) ==
  /\ At(p, "put") /\ proc[p].kind # "upload"
  /\ stored' = [stored EXCEPT ![proc[p].w][proc[p].key] = proc[p].size]
  /\ To(p, "finish")
  /\ UNCHANGED <<holder, books, session, closed, ghosts, left>>

(* The store's call fails, whether or not the bytes have landed. *)
PutFails(p) ==
  /\ At(p, "put") /\ Spend("faults")
  /\ \/ UNCHANGED <<stored, torn>>
     \/ /\ proc[p].kind = "upload" => session[proc[p].up].part
        /\ stored' = [stored EXCEPT ![proc[p].w][proc[p].key] = proc[p].size]
        /\ torn' = torn \cup {proc[p].w}
  /\ IF proc[p].kind = "write" THEN To(p, "undo") ELSE End(p)
  /\ UNCHANGED <<holder, books, session, closed, over, stranded, raced>>

Remove(p, w, k) ==
  /\ Enters(p, w) /\ Free(w, k) /\ Spend("writes") /\ stored[w][k] > 0
  /\ Begin(p, w, [Idle EXCEPT !.kind = "remove", !.key = k, !.was = stored[w][k], !.pc = "put"])
  /\ UNCHANGED session

(* finishManagedAssetReservation; each row stops at 0 by itself. *)
Finish(p) ==
  /\ At(p, "finish") /\ LocksHolder(p)
  /\ IF proc[p].seen = None THEN To(p, "inventory") /\ UNCHANGED books
     ELSE Books(p, proc[p].size - proc[p].was, -proc[p].held) /\ End(p)
  /\ UNCHANGED <<holder, stored, session, closed, ghosts, left>>

(* Mutant: a failed write keeps its reservation. *)
UndoNothing(p) ==
  /\ At(p, "undo") /\ End(p)
  /\ UNCHANGED <<holder, books, stored, session, closed, ghosts, left>>

(* The reservation of a failed write is given back; a failure is dropped. *)
Undo(p) ==
  /\ At(p, "undo") /\ LocksHolder(p)
  /\ IF proc[p].seen = None THEN torn' = torn \cup {proc[p].w} /\ UNCHANGED books
     ELSE Books(p, 0, -proc[p].held) /\ UNCHANGED torn
  /\ End(p)
  /\ UNCHANGED <<holder, stored, session, closed, over, stranded, raced, left>>

(* The transaction fails: after the bytes have changed they are counted. *)
TransactionFails(p) ==
  /\ proc[p].pc \in Transactions \ {"reserve_upload"} /\ Spend("faults")
  /\ IF proc[p].pc \in {"finish", "settle"} THEN To(p, "inventory") /\ UNCHANGED <<torn, closed>>
     ELSE /\ End(p)
          /\ torn' = IF proc[p].pc \in {"undo", "recount"} THEN torn \cup {proc[p].w} ELSE torn
          /\ closed' = IF Exclusive(p) THEN closed \cup {proc[p].w} ELSE closed
  /\ UNCHANGED <<holder, books, stored, session, over, stranded, raced>>

(* initialize and sweepTrash; clear empties the store first. *)
Scan(p, w) ==
  /\ At(p, "idle") /\ Active(w) = {} /\ holder[w] # None
  /\ IF w \in closed THEN UNCHANGED left ELSE Spend("scans")
  /\ \E kind \in {"scan", "clear"} :
       /\ kind = "clear" => w \notin closed
       /\ proc' = [proc EXCEPT ![p] = [Idle EXCEPT !.kind = kind, !.w = w, !.pc = "inventory"]]
       /\ stored' = IF kind = "clear" THEN [stored EXCEPT ![w] = [k \in Keys |-> 0]] ELSE stored
  /\ UNCHANGED <<holder, books, session, closed, ghosts>>

Count(p) ==
  /\ At(p, "inventory")
  /\ proc' = [proc EXCEPT ![p] = [@ EXCEPT !.pc = "recount", !.seen = Unread, !.count = Inventory(proc[p].w)]]
  /\ raced' = (raced \/ Active(proc[p].w) # {p})
  /\ UNCHANGED <<holder, books, stored, session, closed, torn, over, stranded, left>>

(* reconcileManagedStorageUsage: the workspace's row is set, its account moves by the difference. *)
Reconcile(p) ==
  LET w == proc[p].w
      kept == proc[p].count - usage[w].kept
      held == Finalizing(w) - usage[w].held
  IN /\ At(p, "recount") /\ LocksHolder(p)
     /\ End(p)
     /\ IF proc[p].seen = None THEN torn' = torn \cup {w} /\ UNCHANGED <<books, closed, over>>
        ELSE /\ Books(p, kept, held)
             /\ torn' = torn \ {w} /\ closed' = closed \ {w}
             /\ over' = IF kept + held > 0 THEN over \cup {proc[p].seen} ELSE over
     /\ raced' = (raced \/ Active(w) # {p})
     /\ UNCHANGED <<holder, stored, session, stranded, left>>

-----------------------------------------------------------------------------
(* Finalizing an upload, under its operation; a failed call is repeated    *)
(* from the journal, until it lands or the operation is abandoned.         *)

Finalize(p, u) ==
  LET w == Home[u] IN
  /\ Enters(p, w) /\ Free(w, Place[u]) /\ \A q \in Procs : proc[q].up # u
  /\ session[u].op \/ (session[u].there /\ session[u].bytes > 0 /\ session[u].live)
  /\ session' = [session EXCEPT ![u].op = TRUE]
  /\ Begin(p, w, [Idle EXCEPT !.kind = "upload", !.key = Place[u], !.up = u, !.size = Size[u], !.pc = "begin"])
  /\ UNCHANGED left

(* beginManagedUploadFinalize: the expiry is not looked at. *)
BeginFinalize(p) ==
  LET u == proc[p].up
      s == session[u]
  IN /\ At(p, "begin") /\ LocksHolder(p)
     /\ IF proc[p].seen = None \/ ~s.there \/ (s.finalizing = 0 /\ s.bytes = 0)
        THEN End(p) /\ UNCHANGED <<books, session, over>>
        ELSE /\ proc' = [proc EXCEPT ![p] = [@ EXCEPT !.pc = "put", !.seen = Unread,
                  !.was = stored[proc[p].w][proc[p].key]]]
             /\ IF s.finalizing > 0 THEN UNCHANGED <<books, session, over>>
                ELSE /\ session' = [session EXCEPT ![u] = [@ EXCEPT !.bytes = 0, !.finalizing = s.bytes]]
                     /\ Books(p, 0, s.bytes)
                     /\ over' = IF s.live THEN over ELSE over \cup {proc[p].seen}
     /\ UNCHANGED <<holder, stored, closed, torn, stranded, raced, left>>

(* Without its staged part an upload has been published, or is abandoned. *)
Publish(p) ==
  LET u == proc[p].up IN
  /\ At(p, "put") /\ proc[p].kind = "upload"
  /\ IF session[u].part \/ stored[proc[p].w][proc[p].key] > 0
     THEN /\ stored' = [stored EXCEPT ![proc[p].w][proc[p].key] = proc[p].size]
          /\ session' = [session EXCEPT ![u].part = FALSE]
          /\ To(p, "settle")
     ELSE To(p, "abandon") /\ UNCHANGED <<stored, session>>
  /\ UNCHANGED <<holder, books, closed, ghosts, left>>

PartLost(u) ==
  /\ session[u].part /\ Spend("lost")
  /\ session' = [session EXCEPT ![u].part = FALSE]
  /\ UNCHANGED <<holder, books, stored, proc, closed, ghosts>>

(* settleUploadFinalize: nothing for a session that is gone.  Here the
   operation completes in the same step. *)
Settled(p, kept) ==
  LET u == proc[p].up
      f == session[u].finalizing
  IN /\ IF f = 0 \/ proc[p].seen = None THEN UNCHANGED books
        ELSE Books(p, kept, -f)
     /\ session' = [session EXCEPT ![u] = IF proc[p].seen = None THEN @ ELSE [@ EXCEPT !.finalizing = 0]]

Settle(p) ==
  /\ At(p, "settle") /\ LocksHolder(p)
  /\ IF proc[p].seen = None THEN To(p, "inventory") /\ UNCHANGED <<books, session, torn>>
     ELSE /\ Settled(p, proc[p].size - proc[p].was)
          /\ torn' = IF session[proc[p].up].finalizing = 0 THEN torn \cup {proc[p].w} ELSE torn
          /\ To(p, "complete")
  /\ UNCHANGED <<holder, stored, closed, over, stranded, raced, left>>

Complete(p) ==
  /\ At(p, "complete")
  /\ session' = [session EXCEPT ![proc[p].up] = [NoSession EXCEPT !.finalizing = session[proc[p].up].finalizing]]
  /\ End(p)
  /\ UNCHANGED <<holder, books, stored, closed, ghosts, left>>

(* Mutant: nothing is given back. *)
AbandonOnly(p) ==
  /\ At(p, "abandon") /\ LocksHolder(p)
  /\ session' = [session EXCEPT ![proc[p].up].op = FALSE]
  /\ End(p)
  /\ UNCHANGED <<holder, books, stored, closed, ghosts, left>>

(* abandonOperation: an upload's reservation goes back, but not that of an
   attach, and not in a workspace without a holder. *)
Abandon(p) ==
  LET u == proc[p].up
      f == session[u].finalizing
      givesBack == u \notin left.attaching /\ proc[p].seen # None
  IN /\ At(p, "abandon") /\ LocksHolder(p)
     /\ IF givesBack /\ f > 0 THEN Books(p, 0, -f) ELSE UNCHANGED books
     /\ session' = [session EXCEPT ![u] = [@ EXCEPT !.op = FALSE, !.finalizing = IF givesBack THEN 0 ELSE f]]
     /\ stranded' = IF ~givesBack /\ f > 0 THEN stranded \cup {u} ELSE stranded
     /\ End(p)
     /\ UNCHANGED <<holder, stored, closed, torn, over, raced, left>>

-----------------------------------------------------------------------------
(* Entitlements.  Each holds the lock of the account that loses it.        *)

(* moveManagedStorageUsage *)
Moves(w, from, to) ==
  account' = [a \in Accounts |->
    IF a = to THEN Adds(account[a], usage[w].kept, usage[w].held)
    ELSE IF a = from THEN Adds(account[a], -usage[w].kept, -usage[w].held) ELSE account[a]]

(* claimManagedStorage, releaseManagedStorage and handOverManagedStorage of
   an account that is deleted; the successor's quota is not looked at.  What
   is claimed is counted before anything is written to it. *)
Rehold(w, to) ==
  /\ to # holder[w] /\ Spend("moves")
  /\ to # None => Cardinality(Held(to)) < Limit
  /\ holder' = [holder EXCEPT ![w] = to]
  /\ Moves(w, holder[w], to)
  /\ over' = IF to # None THEN over \cup {to} ELSE over
  /\ closed' = IF holder[w] = None THEN closed \cup {w} ELSE closed
  /\ UNCHANGED <<usage, cut, stored, session, proc, torn, stranded, raced>>

(* refundManagedStorageUsage, before the workspace is deleted: when that
   fails, the runtime that is built next counts its bytes again. *)
Refund(w) ==
  /\ holder[w] # None /\ w \notin closed /\ Spend("moves")
  /\ Moves(w, holder[w], None)
  /\ usage' = [usage EXCEPT ![w] = Zero]
  /\ torn' = torn \cup {w} /\ closed' = closed \cup {w}
  /\ raced' = (raced \/ Active(w) # {})
  /\ UNCHANGED <<holder, cut, stored, session, proc, over, stranded>>

(* The server stops; its runtimes are built again, and count again. *)
Crash ==
  /\ Spend("crashes")
  /\ proc' = [p \in Procs |-> Idle]
  /\ torn' = torn \cup {w \in Workspaces : Active(w) # {}}
  /\ closed' = Workspaces
  /\ UNCHANGED <<holder, books, stored, session, over, stranded, raced>>

Next ==
  \/ \E p \in Procs : \/ ReadHolder(p) \/ ReserveUpload(p) \/ Reserve(p) \/ Put(p) \/ PutFails(p)
                      \/ Finish(p) \/ Undo(p) \/ TransactionFails(p) \/ Count(p) \/ Reconcile(p)
                      \/ BeginFinalize(p) \/ Settle(p) \/ Publish(p) \/ Complete(p) \/ Abandon(p)
  \/ \E p \in Procs, u \in Uploads : Create(p, u) \/ Finalize(p, u)
  \/ \E p \in Procs, w \in Workspaces : \/ Scan(p, w)
                                        \/ \E k \in Keys : Remove(p, w, k) \/ \E n \in WriteSizes : Write(p, w, k, n)
  \/ \E u \in Uploads : RunOut(u) \/ Touch(u) \/ PartLost(u) \/ Drop(u) \/ DeleteSession(u)
  \/ \E w \in Workspaces : Refund(w) \/ \E a \in Accounts \cup {None} : Rehold(w, a)
  \/ Crash

Spec == Init /\ [][Next]_vars

-----------------------------------------------------------------------------
(* Sessions, calls and rows are of their types; no count is below 0.       *)
TypeOK ==
  /\ holder \in [Workspaces -> Accounts \cup {None}]
  /\ \A w \in Workspaces : usage[w].kept \in Nat /\ usage[w].held \in Nat
  /\ \A a \in Accounts : account[a].kept \in Nat /\ account[a].held \in Nat
  /\ \A u \in Uploads : session[u].bytes \in {0, Size[u]} /\ session[u].finalizing \in {0, Size[u]}
  /\ \A p \in Procs : proc[p].w \in Workspaces \cup {None} /\ proc[p].seen \in Accounts \cup {None, Unread}

(* An account is charged what its workspaces use, to whomever they are handed
   over while calls are under way: no byte stays with the old holder, and none
   is charged twice.  But where a row that was off has stopped at 0, the bytes
   stored are off for good: the account's row is never counted again. *)
AccountsAdd ==
  raced \/ \A a \in Accounts :
    /\ a \notin cut => account[a].kept = SumFunctionOnSet([w \in Workspaces |-> usage[w].kept], Held(a))
    /\ account[a].held = SumFunctionOnSet([w \in Workspaces |-> usage[w].held], Held(a))

(* Calls that overlap, in one workspace or in several of an account, never
   store and reserve more than the quota together - but for bytes that came
   with a workspace, were found when it was counted, or were asked for again
   by an upload that had run out. *)
QuotaKept == raced \/ \A a \in Accounts \ over : Charge(a) <= Quota

(* When nothing is under way in a workspace, its row says what is in its store
   and what its unfinished uploads hold. *)
Charged ==
  raced \/ \A w \in Workspaces : Active(w) = {} /\ w \notin torn =>
    usage[w].kept = Inventory(w) /\ usage[w].held = Finalizing(w)

(* A session holds finalizing bytes only while an operation can give them
   back, but for those that were given up without them. *)
Returned == \A u \in Uploads \ stranded :
  session[u].finalizing > 0 => session[u].op

(* A finalize that is interrupted can be repeated, wherever it was. *)
Replayable == \A u \in Uploads :
  session[u].op /\ session[u].there /\ (\A p \in Procs : proc[p].up # u) =>
    session[u].bytes > 0 \/ session[u].finalizing > 0
=============================================================================
