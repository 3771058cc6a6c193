---------------------------- MODULE AssetJournal ----------------------------
(***************************************************************************)
(* The operation journal of STLQuestService: every change that touches     *)
(* both the database and the asset store (upload, attach, repeat, delete)  *)
(* is written to the operations table first, then carried out by           *)
(* resumeOperation, which a handler runs at once and which recovery runs   *)
(* again, from the state it listed, after a crash.  A step of this module  *)
(* is a call to the database or to the asset store, so calls of several    *)
(* handlers, retries and replicas interleave between them.  finalizeUpload *)
(* and the moves of an operation's assets are several steps each, because  *)
(* what the store looked at may be gone when it acts on it.                *)
(*                                                                         *)
(* The asset store is LocalAssetStore.  A file's content is the upload it  *)
(* came from, the request it belongs to when it was stored before the      *)
(* behaviour starts, or Cut: a copy that has begun and not ended.          *)
(***************************************************************************)
EXTENDS Integers, FiniteSets

CONSTANTS
  Existing,    \* requests that have a stored model when the behaviour starts
  Linked,      \* requests that only have a link when it starts
  Uploads,     \* upload sessions whose bytes have all arrived
  Names,       \* file names
  FirstName,   \* the file name of the models stored at the start
  Target,      \* the request each upload is attached to, or NewRequest
  FileName,    \* the file name each upload carries
  Handlers,    \* server calls that run at the same time
  Replicas,    \* server processes; a local asset store has one
  Home,        \* the replica each handler runs on
  Sends,       \* the uploads the client of each handler sends
  MaxOps,      \* bound: operation ids
  Situations,  \* each behaviour has one: the uploads there are, the kinds of call clients make, the
               \* requests they delete, how many crashes and failed calls there may be, whether any call
               \* may fail or a batch deletion come before it, and whether staging and store are on
               \* different file systems
  NewRequest, Absent, Missing, NoKey, Open, Gone, Expired, Cut, Unsure

Ops == 1..MaxOps
\* crypto.randomUUID: a request that operation o creates is identified with o.
Requests == Existing \cup Linked \cup Ops
Keys == [req : Requests, name : Names, kind : {"model", "preview"}]
Contents == Uploads \cup Existing \cup {Cut}
Procs == Handlers \cup Replicas

ASSUME ConstantsAssumption ==
  /\ MaxOps \in Nat
  /\ Sends \in [Handlers -> SUBSET Uploads]
  /\ Situations \subseteq [uploads : SUBSET Uploads, calls : SUBSET STRING, removable : SUBSET Requests,
                            crashes : Nat, faults : Nat, failing : BOOLEAN, apart : BOOLEAN]
  /\ Existing \cap Linked = {} /\ (Existing \cup Linked) \cap Ops = {}
  /\ Missing \notin Contents /\ Cut \notin Uploads \cup Existing /\ NoKey \notin Keys
  /\ Handlers \cap Replicas = {} /\ Home \in [Handlers -> Replicas]
  /\ FirstName \in Names /\ FileName \in [Uploads -> Names]
  /\ NewRequest \notin Requests /\ {Open, Gone, Expired} \cap Requests = {}
  /\ Open \notin {Gone, Expired} /\ Gone # Expired
  /\ Target \in [Uploads -> Existing \cup Linked \cup {NewRequest}]

VARIABLES
  files,    \* the asset store outside trash/
  trash,    \* trash/<operation>__<key>
  part,     \* the staged part of each upload: all its bytes, Cut, or Missing
  row,      \* the asset keys a request's row names, or Absent
  session,  \* Open, the request that completed it, Gone with that request, or Expired
  journal,  \* the state of each row of the operations table; "finished" and "abandoned" rows are gone
  payload,  \* what the row says
  proc,     \* the local state of each call and of each replica's recovery
  serving,  \* replicas whose runtime is built: they answer calls
  left,     \* what the situation still allows
  spoilt    \* history: uploads that two calls finalized at once, so that one of them found the part gone
            \* or copied it again, and uploads of which a cut part was published

storeVars == <<files, trash, part>>
dbVars == <<row, session, journal, payload>>
vars == <<storeVars, dbVars, proc, serving, left, spoilt>>

ModelKey(r, n) == [req |-> r, name |-> n, kind |-> "model"]
PreviewKey(r, n) == [req |-> r, name |-> n, kind |-> "preview"]
Models(keys) == {k \in keys : k.kind = "model"}

Live(r) == row[r] # Absent
Uncommitted(o) == journal[o] \in {"prepared", "assets_moved"}
Journaled(o) == Uncommitted(o) \/ journal[o] = "committed"

NoPayload == [kind |-> "none", req |-> Absent, upload |-> Missing, dest |-> NoKey,
              source |-> NoKey, assets |-> {}, purgeFirst |-> FALSE]
Idle == [pc |-> "idle", op |-> 0, snap |-> "unused", todo |-> {}, ok |-> TRUE,
         want |-> NoPayload, queue |-> {}]

Init ==
  /\ left \in Situations
  /\ files = [k \in Keys |-> IF k.req \in Existing /\ k.name = FirstName THEN k.req ELSE Missing]
  /\ trash = [o \in Ops |-> [k \in Keys |-> Missing]]
  /\ part = [u \in Uploads |-> Missing]
  /\ row = [r \in Requests |->
              IF r \in Existing THEN {ModelKey(r, FirstName), PreviewKey(r, FirstName)}
              ELSE IF r \in Linked THEN {} ELSE Absent]
  /\ session = [u \in Uploads |-> IF u \in left.uploads THEN Open ELSE Expired]
  /\ journal = [o \in Ops |-> "unused"]
  /\ payload = [o \in Ops |-> NoPayload]
  /\ proc = [p \in Procs |-> IF p \in Replicas THEN [Idle EXCEPT !.pc = "ready"] ELSE Idle]
  /\ serving = Replicas
  /\ spoilt = {}

-----------------------------------------------------------------------------
(* Control flow of a call.                                                 *)

At(p, label) == proc[p].pc = label
Doing(p) == payload[proc[p].op]
Goto(p, label) == proc' = [proc EXCEPT ![p].pc = label]
GotoWith(p, label, keys) ==
  proc' = [proc EXCEPT ![p] = [@ EXCEPT !.pc = label, !.todo = keys, !.ok = TRUE]]

\* The call ends; recovery and removeOwnedRequests go on to the next operation they listed.
Return(p) ==
  LET listed == proc[p].queue IN
  proc' = [proc EXCEPT ![p] =
             IF p \in Replicas THEN [Idle EXCEPT !.pc = "next", !.queue = listed]
             ELSE IF listed # {} THEN [Idle EXCEPT !.pc = "next", !.op = proc[p].op, !.queue = listed]
             ELSE Idle]

\* The call throws; a recovery that throws leaves its replica serving with its storage not ready.
Throw(p) ==
  /\ proc' = [proc EXCEPT ![p] = IF p \in Replicas THEN [Idle EXCEPT !.pc = "not_ready"] ELSE Idle]
  /\ serving' = serving \cup (Replicas \cap {p})

(* Mutants of FirstStep: an upload whose file is taken as published, trash that is *)
(* taken as purged, and moved assets that are taken as a finished operation.       *)
SkipPublish(op, s) == IF s = "prepared" THEN "mark" ELSE "complete"
SkipPurge(op, s) ==
  IF s # "prepared" THEN IF s = "committed" THEN "finish" ELSE "complete"
  ELSE IF op.kind = "repeat" THEN "copy" ELSE IF op.kind = "upload" THEN "publish" ELSE "aside"
MovedIsDone(op, s) ==
  IF s # "prepared" THEN "finish"
  ELSE IF op.kind = "repeat" THEN "copy" ELSE IF op.assets # {} THEN "aside"
  ELSE IF op.kind \in {"upload", "attach"} THEN "publish" ELSE "mark"

\* The first step of resumeOperation for an operation listed in state s.
FirstStep(op, s) ==
  LET moves == op.kind \in {"attach", "delete"} /\ op.assets # {}
      purges == op.kind = "delete" /\ op.assets # {} /\ (s = "committed" \/ op.purgeFirst)
  IN
  IF s = "prepared"
  THEN IF moves THEN "aside"
       ELSE IF op.kind = "repeat" THEN "copy" ELSE IF op.kind = "delete" THEN "mark" ELSE "publish"
  ELSE IF purges THEN "purge" ELSE IF op.kind = "delete" /\ s = "committed" THEN "finish" ELSE "complete"

\* resumeOperation(o) as listed in state s: it never reads the state again.
Enter(p, o, s) ==
  proc' = [proc EXCEPT ![p] = [Idle EXCEPT !.pc = FirstStep(payload[o], s), !.op = o, !.snap = s,
                                           !.todo = payload[o].assets, !.queue = proc[p].queue]]

\* The oldest of the operations that were listed.
EnterNext(p) ==
  LET listed == proc[p].queue
      entry == CHOOSE e \in listed : \A other \in listed : e[1] <= other[1]
      o == entry[1]
  IN proc' = [proc EXCEPT ![p] =
                [Idle EXCEPT !.pc = FirstStep(payload[o], entry[2]), !.op = o, !.snap = entry[2],
                             !.todo = payload[o].assets, !.queue = listed \ {entry}]]

-----------------------------------------------------------------------------
(* Handlers up to the journal: what a call reads, and the row it inserts.  *)

Free(h, call) == At(h, "idle") /\ call \in left.calls /\ Home[h] \in serving

Unused == {o \in Ops : journal[o] = "unused"}
NextOp == CHOOSE o \in Unused : \A other \in Unused : o <= other

\* A PATCH or HEAD of a complete upload: onIncomingRequest and onUploadFinish both end in
\* finalizeUpload, and a client that lost the answer sends it again at any time.
Upload(h, u) ==
  /\ Free(h, "upload") /\ u \in left.uploads \cap Sends[h] /\ At(Home[h], "ready")
  /\ session[u] # Expired /\ session[u] \notin Requests
  /\ session' = [session EXCEPT ![u] = Open]
  /\ proc' = [proc EXCEPT ![h] =
                [Idle EXCEPT !.pc = "adopt",
                             !.want = [NoPayload EXCEPT !.kind = IF Target[u] = NewRequest THEN "upload" ELSE "attach",
                                                        !.upload = u]]]
  /\ UNCHANGED <<storeVars, row, journal, payload, serving, left, spoilt>>

\* The staged part is a copy of the tus upload, made when none of its bytes are there.
Adopt(h) ==
  LET u == proc[h].want.upload IN
  /\ At(h, "adopt")
  /\ \/ part[u] \in {Missing, Cut} /\ Goto(h, "copy_part")
     \/ part[u] # Missing /\ Goto(h, "plan")
  /\ UNCHANGED <<storeVars, dbVars, serving, left, spoilt>>

\* copyFile empties a part that is there; the tus upload of a session that has gone is gone too.
BeginCopy(h) ==
  LET u == proc[h].want.upload IN
  /\ At(h, "copy_part")
  /\ IF session[u] = Expired THEN Throw(h) /\ UNCHANGED part
     ELSE part' = [part EXCEPT ![u] = Cut] /\ Goto(h, "copying") /\ UNCHANGED serving
  /\ spoilt' = spoilt \cup (IF \E o \in Ops : Journaled(o) /\ payload[o].upload = u THEN {u} ELSE {})
  /\ UNCHANGED <<files, trash, dbVars, left>>

\* The bytes are all there, unless another call has emptied the part since; a part that has been
\* renamed or removed is missed when it is opened again.
EndCopy(h) ==
  LET u == proc[h].want.upload IN
  /\ At(h, "copying")
  /\ IF part[u] = Missing THEN Throw(h) /\ UNCHANGED part
     ELSE /\ part' = [part EXCEPT ![u] = IF \E other \in Handlers \ {h} :
                                             At(other, "copying") /\ proc[other].want.upload = u
                                          THEN @ ELSE u]
          /\ Goto(h, "plan") /\ UNCHANGED serving
  /\ UNCHANGED <<files, trash, dbVars, left, spoilt>>

\* createUploadedRequest and attachModel: the superseded assets are those of the row as read here.
Plan(h) ==
  /\ At(h, "plan")
  /\ LET u == proc[h].want.upload IN
     IF session[u] \in Requests \/ (Target[u] # NewRequest /\ ~Live(Target[u]))
     THEN Return(h)
     ELSE proc' = [proc EXCEPT ![h] =
                     [@ EXCEPT !.pc = "begin",
                               !.want.req = Target[u],
                               !.want.assets = IF Target[u] # NewRequest /\ Models(row[Target[u]]) # {}
                                               THEN row[Target[u]] ELSE {}]]
  /\ UNCHANGED <<storeVars, dbVars, serving, left, spoilt>>

\* repeatRequest of a request with a stored model.
Repeat(h, r) ==
  /\ Free(h, "repeat") /\ Live(r)
  /\ \E source \in Models(row[r]) :
       proc' = [proc EXCEPT ![h] = [Idle EXCEPT !.pc = "begin",
                  !.want = [NoPayload EXCEPT !.kind = "repeat", !.req = r, !.source = source]]]
  /\ UNCHANGED <<storeVars, dbVars, serving, left, spoilt>>

\* remove, and the request loop of removeOwnedRequests, which purges first.
Remove(h, r) ==
  /\ r \in left.removable /\ Live(r)
  /\ \E purgeFirst \in BOOLEAN :
       /\ Free(h, IF purgeFirst THEN "remove_owned" ELSE "remove")
       /\ proc' = [proc EXCEPT ![h] = [Idle EXCEPT !.pc = "begin",
                     !.want = [NoPayload EXCEPT !.kind = "delete", !.req = r, !.assets = row[r],
                                                !.purgeFirst = purgeFirst]]]
  /\ UNCHANGED <<storeVars, dbVars, serving, left, spoilt>>

\* removeOwnedRequests, of the one owner there is.  It carries out the operations that it lists, then
\* removes each request (Remove) and each upload (Forget): the three loops are calls of their own here.
Listed == {<<o, journal[o]>> : o \in {o \in Ops : Journaled(o)}}

ResumeOwned(h) ==
  /\ Free(h, "remove_owned") /\ Listed # {}
  /\ proc' = [proc EXCEPT ![h] = [Idle EXCEPT !.pc = "next", !.queue = Listed]]
  /\ UNCHANGED <<storeVars, dbVars, serving, left, spoilt>>

\* An operation that is still journaled after it was resumed ends the call.
OwnedNext(h) ==
  /\ At(h, "next")
  /\ IF proc[h].op \in Ops /\ Journaled(proc[h].op) THEN Throw(h) ELSE EnterNext(h) /\ UNCHANGED serving
  /\ UNCHANGED <<storeVars, dbVars, left, spoilt>>

\* The tus upload, the staged part and the session, one after the other in the code.
Forget(h, u) ==
  /\ Free(h, "remove_owned") /\ session[u] # Expired
  /\ part' = [part EXCEPT ![u] = Missing]
  /\ session' = [session EXCEPT ![u] = Expired]
  /\ UNCHANGED <<files, trash, row, journal, payload, proc, serving, left, spoilt>>

IsUpload(w) == w.kind \in {"upload", "attach"}

\* Mutant of Stamp: the file keeps the upload's id as its name.
StampUploadId(o, w) ==
  IF w.kind = "upload" THEN [w EXCEPT !.req = o, !.dest = ModelKey(o, w.upload)] ELSE w

\* The ids and the destination that the call draws for operation o.
Stamp(o, w) ==
  CASE w.kind = "upload" -> [w EXCEPT !.req = o, !.dest = ModelKey(o, FileName[w.upload])]
    [] w.kind = "attach" -> [w EXCEPT !.dest = ModelKey(w.req, FileName[w.upload])]
    [] w.kind = "repeat" -> [w EXCEPT !.dest = ModelKey(o, w.source.name)]
    [] OTHER -> w

\* Unique indexes operations_active_request and operations_upload.
Conflict(w) ==
  \/ \E o \in Ops : Uncommitted(o) /\ payload[o].req = w.req
  \/ IsUpload(w) /\ \E o \in Ops : Journaled(o) /\ payload[o].upload = w.upload

Insert(o, w) ==
  /\ journal' = [journal EXCEPT ![o] = "prepared"]
  /\ payload' = [payload EXCEPT ![o] = Stamp(o, w)]

BeginUpload(h) ==
  LET w == proc[h].want IN
  /\ At(h, "begin") /\ IsUpload(w)
  /\ IF session[w.upload] \in {Gone, Expired}
     THEN Return(h) /\ UNCHANGED <<journal, payload>>
     ELSE /\ Goto(h, "join")
          /\ IF session[w.upload] \in Requests \/ Conflict(w) \/ Unused = {}
             THEN UNCHANGED <<journal, payload>>
             ELSE Insert(NextOp, w)
  /\ UNCHANGED <<storeVars, row, session, serving, left, spoilt>>

BeginOperation(h) ==
  LET w == proc[h].want IN
  /\ At(h, "begin") /\ ~IsUpload(w)
  /\ IF Live(w.req) THEN Goto(h, "insert") ELSE Return(h)
  /\ UNCHANGED <<storeVars, dbVars, serving, left, spoilt>>

InsertOperation(h) ==
  LET w == proc[h].want IN
  /\ At(h, "insert")
  /\ IF Unused = {}
     THEN Return(h) /\ UNCHANGED <<journal, payload>>
     ELSE IF Conflict(w)
     THEN /\ IF w.kind = "delete" THEN Goto(h, "join") ELSE Return(h)
          /\ UNCHANGED <<journal, payload>>
     ELSE /\ Insert(NextOp, w)
          /\ proc' = [proc EXCEPT ![h] =
                        [Idle EXCEPT !.pc = FirstStep(w, "prepared"), !.op = NextOp,
                                     !.snap = "prepared", !.todo = w.assets]]
  /\ UNCHANGED <<storeVars, row, session, serving, left, spoilt>>

\* listOperations().find(...): the call may find the row of an earlier try, in any state.
Join(h) ==
  LET w == proc[h].want
      found == {o \in Ops : /\ Journaled(o) /\ payload[o].kind = w.kind
                            /\ IF IsUpload(w) THEN payload[o].upload = w.upload
                               ELSE payload[o].req = w.req}
  IN
  /\ At(h, "join")
  /\ IF found = {} THEN Return(h)
     ELSE LET o == CHOOSE o \in found : \A other \in found : o <= other
          IN Enter(h, o, journal[o])
  /\ UNCHANGED <<storeVars, dbVars, serving, left, spoilt>>

-----------------------------------------------------------------------------
(* resumeOperation, one call to the store or the database at a time.       *)

\* The loops over assets take the model first.
First(keys) == IF Models(keys) # {} THEN CHOOSE k \in keys : k.kind = "model" ELSE CHOOSE k \in keys : TRUE

\* The next asset to set aside, or what comes after the last.
NextAside(p, k) ==
  LET rest == proc[p].todo \ {k}
      after == IF Doing(p).kind = "attach" THEN "publish" ELSE "mark"
  IN IF rest # {} THEN GotoWith(p, "aside", rest) ELSE GotoWith(p, after, Doing(p).assets)

\* nothingToMove, and what ensureMoved(original, trash) looks at.
Aside(p) ==
  /\ At(p, "aside")
  /\ LET k == First(proc[p].todo)
         inTrash == trash[proc[p].op][k] # Missing
     IN IF files[k] = Missing THEN NextAside(p, k) /\ UNCHANGED serving
        ELSE IF inTrash THEN Throw(p) ELSE Goto(p, "shift") /\ UNCHANGED serving
  /\ UNCHANGED <<storeVars, dbVars, left, spoilt>>

\* The rename of ensureMoved, whatever another call has moved since.
Shift(p) ==
  /\ At(p, "shift")
  /\ LET k == First(proc[p].todo) IN
     IF files[k] = Missing THEN Throw(p) /\ UNCHANGED <<files, trash>>
     ELSE /\ trash' = [trash EXCEPT ![proc[p].op][k] = files[k]]
          /\ files' = [files EXCEPT ![k] = Missing]
          /\ NextAside(p, k) /\ UNCHANGED serving
  /\ UNCHANGED <<part, dbVars, left, spoilt>>

\* LocalAssetStore.finalizeUpload: the two stats.  The part and the file may change before it goes on.
Publish(p) ==
  LET staged == part[Doing(p).upload] # Missing
      there == files[Doing(p).dest] # Missing
  IN
  /\ At(p, "publish")
  /\ Goto(p, IF staged THEN IF there THEN "compare" ELSE "rename"
             ELSE IF there THEN "mark" ELSE "discard")
  /\ UNCHANGED <<storeVars, dbVars, serving, left, spoilt>>

\* The part is gone (ENOENT): another call for the upload has taken it since the stat.
Taken(p) == spoilt' = spoilt \cup {Doing(p).upload} /\ Goto(p, "discard")

\* open, sync and rename; across file systems a copy to a temporary file.
Rename(p) ==
  LET u == Doing(p).upload IN
  /\ At(p, "rename")
  /\ \/ part[u] = Missing /\ Taken(p) /\ UNCHANGED <<files, part>>
     \/ /\ part[u] # Missing /\ ~left.apart
        /\ files' = [files EXCEPT ![Doing(p).dest] = part[u]]
        /\ part' = [part EXCEPT ![u] = Missing]
        /\ spoilt' = spoilt \cup (IF part[u] = Cut THEN {u} ELSE {})
        /\ Goto(p, "mark")
     \/ /\ part[u] # Missing /\ left.apart
        /\ proc' = [proc EXCEPT ![p] = [@ EXCEPT !.pc = "place", !.ok = (part[u] = u)]]
        /\ UNCHANGED <<files, part, spoilt>>
  /\ UNCHANGED <<trash, dbVars, serving, left>>

\* The temporary file takes its name, although another call may have done the same and gone on.
Place(p) ==
  LET u == Doing(p).upload
      whole == proc[p].ok
  IN
  /\ At(p, "place")
  /\ files' = [files EXCEPT ![Doing(p).dest] = IF whole THEN u ELSE Cut]
  /\ spoilt' = spoilt \cup (IF whole /\ part[u] # Missing THEN {} ELSE {u})
  /\ proc' = [proc EXCEPT ![p] = [@ EXCEPT !.pc = "drop", !.ok = TRUE]]
  /\ UNCHANGED <<part, trash, dbVars, serving, left>>

\* Mutant of SameContents: a file that is there is taken for this upload's.
AnyContents(u, d) == files[d] # Missing

\* Two cut copies are as long as they happen to be.
SameContents(u, d) == files[d] = part[u]

\* A file that is there is this upload's only if its bytes are.
Compare(p) ==
  LET u == Doing(p).upload
      d == Doing(p).dest
  IN
  /\ At(p, "compare")
  /\ IF part[u] = Missing \/ files[d] = Missing THEN Taken(p) /\ UNCHANGED serving
     ELSE \/ SameContents(u, d) /\ Goto(p, "drop") /\ UNCHANGED <<serving, spoilt>>
          \/ (~SameContents(u, d) \/ part[u] = Cut) /\ Throw(p) /\ UNCHANGED spoilt
  /\ UNCHANGED <<storeVars, dbVars, left>>

Drop(p) ==
  /\ At(p, "drop")
  /\ part' = [part EXCEPT ![Doing(p).upload] = Missing]
  /\ Goto(p, "mark")
  /\ UNCHANGED <<files, trash, dbVars, serving, left, spoilt>>

\* Mutant of Discard: a missing part is always surfaced.
DiscardThrows(p) ==
  At(p, "discard") /\ Throw(p) /\ UNCHANGED <<storeVars, dbVars, left, spoilt>>

\* The part is missing (ENOENT): surface the error if bytes of it are there after all.
Discard(p) ==
  LET bytes == part[Doing(p).upload] IN
  /\ At(p, "discard")
  /\ \/ bytes # Missing /\ Throw(p)
     \/ bytes \in {Missing, Cut} /\ Goto(p, "unlink") /\ UNCHANGED serving
  /\ UNCHANGED <<storeVars, dbVars, left, spoilt>>

\* repeat: read the source and write the copy; a missing source abandons the operation.
Copy(p) ==
  /\ At(p, "copy")
  /\ IF files[Doing(p).source] = Missing
     THEN Goto(p, "unlink") /\ UNCHANGED files
     ELSE files' = [files EXCEPT ![Doing(p).dest] = files[Doing(p).source]] /\ Goto(p, "mark")
  /\ UNCHANGED <<trash, part, dbVars, serving, left, spoilt>>

Unlink(p) ==
  /\ At(p, "unlink")
  /\ files' = [files EXCEPT ![Doing(p).dest] = Missing]
  /\ GotoWith(p, IF Doing(p).assets = {} THEN "abandon" ELSE "restore", Doing(p).assets)
  /\ UNCHANGED <<trash, part, dbVars, serving, left, spoilt>>

\* ensureMoved(trash, original), its errors dropped.
Restore(p) ==
  /\ At(p, "restore")
  /\ LET o == proc[p].op
         k == First(proc[p].todo)
         rest == proc[p].todo \ {k}
     IN
     /\ IF trash[o][k] # Missing /\ files[k] = Missing
        THEN /\ files' = [files EXCEPT ![k] = trash[o][k]]
             /\ trash' = [trash EXCEPT ![o][k] = Missing]
        ELSE UNCHANGED <<files, trash>>
     /\ GotoWith(p, IF rest = {} THEN "abandon" ELSE "restore", rest)
  /\ UNCHANGED <<part, dbVars, serving, left, spoilt>>

\* abandonOperation deletes the row in whatever state it is; repeat rethrows.
Abandon(p) ==
  /\ At(p, "abandon")
  /\ journal' = [journal EXCEPT ![proc[p].op] = IF @ = "committed" THEN "finished"
                                                 ELSE IF Uncommitted(proc[p].op) THEN "abandoned" ELSE @]
  /\ IF Doing(p).kind = "repeat" THEN Throw(p) ELSE Return(p) /\ UNCHANGED serving
  /\ UNCHANGED <<storeVars, row, session, payload, left, spoilt>>

Mark(p) ==
  /\ At(p, "mark")
  /\ journal' = [journal EXCEPT ![proc[p].op] = IF @ = "prepared" THEN "assets_moved" ELSE @]
  /\ IF Doing(p).purgeFirst /\ Doing(p).assets # {}
     THEN GotoWith(p, "purge", Doing(p).assets) ELSE Goto(p, "complete")
  /\ UNCHANGED <<storeVars, row, session, payload, serving, left, spoilt>>

\* completeUploadOperation: the early return is for a completed session, not for a committed row.
CompleteUpload(p) ==
  LET o == proc[p].op
      u == Doing(p).upload
  IN
  /\ At(p, "complete") /\ Doing(p).kind = "upload"
  /\ \/ /\ ~Journaled(o) \/ (session[u] \notin Requests /\ Live(o))
        /\ Throw(p) /\ UNCHANGED <<row, session, journal>>
     \/ /\ Journaled(o) /\ session[u] \in Requests
        /\ Goto(p, "finish") /\ UNCHANGED <<row, session, journal, serving>>
     \/ /\ Journaled(o) /\ session[u] \notin Requests /\ ~Live(o)
        /\ row' = [row EXCEPT ![o] = {Doing(p).dest}]
        /\ session' = [session EXCEPT ![u] = IF @ = Open THEN o ELSE @]
        /\ journal' = [journal EXCEPT ![o] = "committed"]
        /\ Goto(p, "finish") /\ UNCHANGED serving
  /\ UNCHANGED <<storeVars, payload, left, spoilt>>

\* completeAttachOperation: a deleted request makes the session's foreign key fail.
CompleteAttach(p) ==
  LET o == proc[p].op
      u == Doing(p).upload
      r == Doing(p).req
      finish == GotoWith(p, IF Doing(p).assets = {} THEN "finish" ELSE "purge", Doing(p).assets)
  IN
  /\ At(p, "complete") /\ Doing(p).kind = "attach"
  /\ \/ /\ ~Journaled(o) \/ (session[u] = Open /\ ~Live(r))
        /\ Throw(p) /\ UNCHANGED <<row, session, journal>>
     \/ /\ Journaled(o) /\ session[u] \in Requests
        /\ finish /\ UNCHANGED <<row, session, journal, serving>>
     \/ /\ Journaled(o) /\ session[u] \notin Requests /\ (session[u] = Open => Live(r))
        /\ row' = [row EXCEPT ![r] = IF @ = Absent THEN Absent
                                     ELSE IF Doing(p).assets # {} THEN {Doing(p).dest}
                                     ELSE (@ \ Models(@)) \cup {Doing(p).dest}]
        /\ session' = [session EXCEPT ![u] = IF @ = Open THEN r ELSE @]
        /\ journal' = [journal EXCEPT ![o] = "committed"]
        /\ finish /\ UNCHANGED serving
  /\ UNCHANGED <<storeVars, payload, left, spoilt>>

\* completeRepeatOperation inserts the new request unless it is there.
CompleteRepeat(p) ==
  LET o == proc[p].op IN
  /\ At(p, "complete") /\ Doing(p).kind = "repeat"
  /\ IF ~Journaled(o) THEN Throw(p) /\ UNCHANGED <<row, journal>>
     ELSE /\ row' = [row EXCEPT ![o] = IF @ = Absent THEN {Doing(p).dest} ELSE @]
          /\ journal' = [journal EXCEPT ![o] = "committed"]
          /\ Goto(p, "finish") /\ UNCHANGED serving
  /\ UNCHANGED <<storeVars, session, payload, left, spoilt>>

\* Deleting a request cascades to the upload session it completed.
DeleteRequest(r) ==
  /\ row' = [row EXCEPT ![r] = Absent]
  /\ session' = [u \in Uploads |-> IF session[u] = r THEN Gone ELSE session[u]]

CompleteDelete(p) ==
  LET o == proc[p].op IN
  /\ At(p, "complete") /\ Doing(p).kind = "delete"
  /\ IF Uncommitted(o)
     THEN DeleteRequest(Doing(p).req) /\ journal' = [journal EXCEPT ![o] = "committed"]
     ELSE UNCHANGED <<row, session, journal>>
  /\ IF Doing(p).purgeFirst \/ Doing(p).assets = {} THEN Goto(p, "finish")
     ELSE GotoWith(p, "purge", Doing(p).assets)
  /\ UNCHANGED <<storeVars, payload, serving, left, spoilt>>

\* Mutant of AfterPurge: the row goes although a purge failed.
FinishAnyway(p, ok) ==
  IF Doing(p).purgeFirst /\ proc[p].snap # "committed" THEN Goto(p, "complete") ELSE Goto(p, "finish")

\* The step after the last purge: the row stays when a purge failed.
AfterPurge(p, ok) ==
  IF Doing(p).purgeFirst /\ proc[p].snap # "committed" THEN Goto(p, "complete")
  ELSE IF ok THEN Goto(p, "finish") ELSE Return(p)

\* purgeTrash of one asset; the assets are purged side by side.
PurgeOne(p, k, ok) ==
  IF proc[p].todo = {k} THEN AfterPurge(p, ok)
  ELSE proc' = [proc EXCEPT ![p] = [@ EXCEPT !.todo = proc[p].todo \ {k}, !.ok = ok]]

Purge(p) ==
  /\ At(p, "purge")
  /\ \E k \in proc[p].todo :
       /\ trash' = [trash EXCEPT ![proc[p].op][k] = Missing]
       /\ PurgeOne(p, k, proc[p].ok)
  /\ UNCHANGED <<files, part, dbVars, serving, left, spoilt>>

Finish(p) ==
  /\ At(p, "finish")
  /\ journal' = [journal EXCEPT ![proc[p].op] = IF @ = "committed" THEN "finished" ELSE @]
  /\ Return(p)
  /\ UNCHANGED <<storeVars, row, session, payload, serving, left, spoilt>>

Resume(p) ==
  \/ Aside(p) \/ Shift(p) \/ Publish(p) \/ Rename(p) \/ Place(p) \/ Compare(p) \/ Drop(p)
  \/ Discard(p) \/ Copy(p) \/ Unlink(p) \/ Restore(p)
  \/ Abandon(p) \/ Mark(p) \/ CompleteUpload(p) \/ CompleteAttach(p) \/ CompleteRepeat(p)
  \/ CompleteDelete(p) \/ Purge(p) \/ Finish(p)

-----------------------------------------------------------------------------
(* Calls that write the database or the store outside the journal.         *)

\* moveCopies, moveCopiesBatch and moveGroup carry the filePath of the request they read first.
ReadMove(h, r) ==
  /\ Live(r)
  /\ \E kind \in {"move", "move_batch"} :
       /\ Free(h, kind)
       /\ proc' = [proc EXCEPT ![h] = [Idle EXCEPT !.pc = "write_move",
                     !.want = [NoPayload EXCEPT !.kind = kind, !.req = r, !.assets = Models(row[r])]]]
  /\ UNCHANGED <<storeVars, dbVars, serving, left, spoilt>>

\* Only the batch refuses a request with an operation under way.
WriteMove(h) ==
  LET w == proc[h].want
      busy == \E o \in Ops : Uncommitted(o) /\ payload[o].req = w.req
  IN
  /\ At(h, "write_move")
  /\ row' = IF Live(w.req) /\ w.assets # {} /\ ~(w.kind = "move_batch" /\ busy)
            THEN [row EXCEPT ![w.req] = (@ \ Models(@)) \cup w.assets] ELSE row
  /\ Return(h)
  /\ UNCHANGED <<storeVars, session, journal, payload, serving, left, spoilt>>

\* removeCopiesBatch of every copy of r.  Its trash group is named by an id that is never journaled;
\* want.assets collects what the call has trashed.
BatchRemove(h, r) ==
  /\ Free(h, "remove_batch") /\ r \in left.removable /\ Live(r) /\ Unused # {}
  /\ journal' = [journal EXCEPT ![NextOp] = "abandoned"]
  /\ proc' = [proc EXCEPT ![h] = [Idle EXCEPT !.pc = IF row[r] = {} THEN "batch_commit" ELSE "batch_aside",
                !.op = NextOp, !.todo = row[r], !.want = [NoPayload EXCEPT !.req = r]]]
  /\ UNCHANGED <<storeVars, row, session, payload, serving, left, spoilt>>

BatchStep(h, k, ok, trashed) ==
  LET rest == proc[h].todo \ {k} IN
  IF rest = {} /\ ~ok /\ trashed = {} THEN Return(h)
  ELSE proc' = [proc EXCEPT ![h] =
                  [@ EXCEPT !.ok = ok, !.want.assets = trashed,
                            !.todo = IF rest = {} /\ ~ok THEN trashed ELSE rest,
                            !.pc = IF rest # {} THEN proc[h].pc ELSE IF ok THEN "batch_commit" ELSE "batch_restore"]]

\* The assets go aside side by side, and all of them settle before the call looks at the outcome.
BatchAside(h) ==
  /\ At(h, "batch_aside")
  /\ LET g == proc[h].op IN
     \E k \in proc[h].todo :
       IF files[k] = Missing
       THEN /\ BatchStep(h, k, proc[h].ok, proc[h].want.assets)
            /\ UNCHANGED <<files, trash>>
       ELSE /\ trash' = [trash EXCEPT ![g][k] = files[k]]
            /\ files' = [files EXCEPT ![k] = Missing]
            /\ BatchStep(h, k, proc[h].ok, proc[h].want.assets \cup {k})
  /\ UNCHANGED <<part, dbVars, serving, left, spoilt>>

\* Mutant of BatchGo: a refused deletion leaves the assets in the trash.
BatchForget(h, label) ==
  IF label = "batch_restore" THEN Return(h) ELSE GotoWith(h, label, proc[h].want.assets)

\* The call goes on with the assets it trashed, or ends when there are none.
BatchGo(h, label) ==
  IF proc[h].want.assets = {} THEN Return(h) ELSE GotoWith(h, label, proc[h].want.assets)

\* deleteCopiesBatch.
BatchCommit(h) ==
  LET r == proc[h].want.req IN
  /\ At(h, "batch_commit")
  /\ IF ~Live(r) \/ \E o \in Ops : Uncommitted(o) /\ payload[o].req = r
     THEN BatchGo(h, "batch_restore") /\ UNCHANGED <<row, session>>
     ELSE DeleteRequest(r) /\ BatchGo(h, "batch_purge")
  /\ UNCHANGED <<storeVars, journal, payload, serving, left, spoilt>>

BatchDone(h, k) ==
  IF proc[h].todo = {k} THEN Return(h) ELSE proc' = [proc EXCEPT ![h].todo = @ \ {k}]

BatchRestore(h) ==
  /\ At(h, "batch_restore")
  /\ LET g == proc[h].op IN
     \E k \in proc[h].todo :
       /\ IF trash[g][k] # Missing /\ files[k] = Missing
          THEN /\ files' = [files EXCEPT ![k] = trash[g][k]]
               /\ trash' = [trash EXCEPT ![g][k] = Missing]
          ELSE UNCHANGED <<files, trash>>
       /\ BatchDone(h, k)
  /\ UNCHANGED <<part, dbVars, serving, left, spoilt>>

BatchPurge(h) ==
  /\ At(h, "batch_purge")
  /\ \E k \in proc[h].todo :
       /\ trash' = [trash EXCEPT ![proc[h].op][k] = Missing]
       /\ BatchDone(h, k)
  /\ UNCHANGED <<files, part, dbVars, serving, left, spoilt>>

Call(h) ==
  \/ \E u \in Uploads : Upload(h, u) \/ Forget(h, u)
  \/ \E r \in Requests : Repeat(h, r) \/ Remove(h, r) \/ ReadMove(h, r) \/ BatchRemove(h, r)
  \/ ResumeOwned(h)

HandlerStep(h) ==
  \/ Adopt(h) \/ BeginCopy(h) \/ EndCopy(h) \/ Plan(h) \/ BeginUpload(h) \/ BeginOperation(h)
  \/ InsertOperation(h) \/ Join(h) \/ OwnedNext(h) \/ WriteMove(h)
  \/ BatchAside(h) \/ BatchCommit(h) \/ BatchRestore(h) \/ BatchPurge(h)

-----------------------------------------------------------------------------
(* Recovery of a replica's storage, crashes and failed calls.              *)

Recovering(rp) == proc[rp].pc \notin {"down", "ready", "not_ready"}

\* recoverStorage, under the lease recovery:<workspace>: list the operations, then resume each.
StartRecovery(rp) ==
  /\ At(rp, "down") \/ At(rp, "not_ready")
  /\ \A other \in Replicas : ~Recovering(other)
  /\ proc' = [proc EXCEPT ![rp] =
                [Idle EXCEPT !.pc = "next", !.queue = Listed]]
  /\ UNCHANGED <<storeVars, dbVars, serving, left, spoilt>>

RecoverNext(rp) ==
  /\ At(rp, "next") /\ proc[rp].queue # {}
  /\ EnterNext(rp)
  /\ UNCHANGED <<storeVars, dbVars, serving, left, spoilt>>

\* sweepTrash removes every file under trash/, then the storage is ready.
SweepTrash(rp) ==
  /\ At(rp, "next") /\ proc[rp].queue = {}
  /\ trash' = [o \in Ops |-> [k \in Keys |-> Missing]]
  /\ proc' = [proc EXCEPT ![rp] = [Idle EXCEPT !.pc = "ready"]]
  /\ serving' = serving \cup {rp}
  /\ UNCHANGED <<files, part, dbVars, left, spoilt>>

RecoveryStep(rp) == RecoverNext(rp) \/ SweepTrash(rp)

Crash(rp) ==
  /\ left.crashes > 0 /\ ~At(rp, "down")
  /\ left' = [left EXCEPT !.crashes = @ - 1]
  /\ proc' = [p \in Procs |-> IF p = rp THEN [Idle EXCEPT !.pc = "down"]
                               ELSE IF p \in Handlers /\ Home[p] = rp THEN Idle ELSE proc[p]]
  /\ serving' = serving \ {rp}
  /\ UNCHANGED <<storeVars, dbVars, spoilt>>

\* At start a server expires the sessions of unfinished uploads past their lifetime, with their parts.
ExpireUpload(u) ==
  /\ session[u] = Open /\ \E rp \in Replicas : At(rp, "down")
  /\ session' = [session EXCEPT ![u] = Expired]
  /\ part' = [part EXCEPT ![u] = Missing]
  /\ UNCHANGED <<files, trash, row, journal, payload, proc, serving, left, spoilt>>

\* The next call to the store or the database fails.  Most steps throw; the others say what they do.
Fault(p) ==
  /\ left.faults > 0
  /\ left' = [left EXCEPT !.faults = @ - 1]
  /\ \/ /\ \/ proc[p].pc \in {"adopt", "copy_part", "copying", "plan", "begin", "insert", "join", "write_move",
                            "next", "aside", "shift", "publish", "rename", "place", "compare", "drop",
                            "discard", "abandon", "complete", "finish"}
           \/ At(p, "mark") /\ Doing(p).kind # "repeat"
           \/ At(p, "purge") /\ Doing(p).purgeFirst /\ proc[p].snap # "committed"
        /\ Throw(p)
     \/ /\ At(p, "copy") \/ (At(p, "mark") /\ Doing(p).kind = "repeat")
        /\ Goto(p, "unlink") /\ UNCHANGED serving
     \/ /\ At(p, "unlink")
        /\ GotoWith(p, IF Doing(p).assets = {} THEN "abandon" ELSE "restore", Doing(p).assets)
        /\ UNCHANGED serving
     \/ /\ At(p, "restore")
        /\ LET rest == proc[p].todo \ {First(proc[p].todo)}
           IN GotoWith(p, IF rest = {} THEN "abandon" ELSE "restore", rest)
        /\ UNCHANGED serving
     \/ /\ At(p, "purge") /\ ~(Doing(p).purgeFirst /\ proc[p].snap # "committed")
        /\ \E k \in proc[p].todo : PurgeOne(p, k, FALSE)
        /\ UNCHANGED serving
     \/ /\ At(p, "batch_aside")
        /\ \E k \in proc[p].todo : BatchStep(p, k, FALSE, proc[p].want.assets)
        /\ UNCHANGED serving
     \/ At(p, "batch_commit") /\ BatchGo(p, "batch_restore") /\ UNCHANGED serving
     \/ /\ At(p, "batch_restore") \/ At(p, "batch_purge")
        /\ \E k \in proc[p].todo : BatchDone(p, k)
        /\ UNCHANGED serving
  /\ UNCHANGED <<storeVars, dbVars, spoilt>>

Next ==
  \/ \E h \in Handlers : Call(h) \/ HandlerStep(h)
  \/ \E rp \in Replicas : StartRecovery(rp) \/ RecoveryStep(rp) \/ Crash(rp)
  \/ \E p \in Procs : Resume(p) \/ Fault(p)
  \/ \E u \in Uploads : ExpireUpload(u)

Spec == Init /\ [][Next]_vars

\* A call that has begun runs on and a replica that is not ready retries; clients promise nothing.
Fairness ==
  /\ \A h \in Handlers : WF_vars(HandlerStep(h) \/ Resume(h))
  /\ \A rp \in Replicas : WF_vars(StartRecovery(rp)) /\ WF_vars(RecoveryStep(rp) \/ Resume(rp))

FairSpec == Spec /\ Fairness

-----------------------------------------------------------------------------
(* Properties.                                                             *)

Labels == {"idle", "adopt", "copy_part", "copying", "plan", "begin", "insert", "join", "write_move",
           "aside", "shift", "publish", "rename", "place", "compare", "drop", "discard",
           "copy", "unlink", "restore", "abandon", "mark", "complete", "purge", "finish",
           "batch_aside", "batch_commit", "batch_restore", "batch_purge",
           "next", "down", "ready", "not_ready"}
States == {"unused", "prepared", "assets_moved", "committed", "finished", "abandoned"}
Payloads == [kind : {"none", "upload", "attach", "repeat", "delete", "move", "move_batch"},
             req : Requests \cup {Absent, NewRequest}, upload : Uploads \cup {Missing},
             dest : Keys \cup {NoKey}, source : Keys \cup {NoKey}, assets : SUBSET Keys, purgeFirst : BOOLEAN]
ProcStates == [pc : Labels, op : Ops \cup {0}, snap : States, todo : SUBSET Keys, ok : BOOLEAN,
               want : Payloads, queue : SUBSET (Ops \X States)]

\* The tables, the store and the calls hold what the code's types say they hold.
TypeOK ==
  /\ files \in [Keys -> Contents \cup {Missing}]
  /\ trash \in [Ops -> [Keys -> Contents \cup {Missing}]]
  /\ part \in [Uploads -> Uploads \cup {Cut, Missing}]
  /\ row = [r \in Requests |-> row[r]] /\ \A r \in Requests : row[r] = Absent \/ row[r] \in SUBSET Keys
  /\ session \in [Uploads -> Requests \cup {Open, Gone, Expired}]
  /\ journal \in [Ops -> States]
  /\ payload \in [Ops -> Payloads]
  /\ proc \in [Procs -> ProcStates]
  /\ serving \in SUBSET Replicas
  /\ left \in [uploads : SUBSET Uploads, calls : SUBSET STRING, removable : SUBSET Requests,
               crashes : Nat, faults : Nat, failing : BOOLEAN, apart : BOOLEAN]
  /\ spoilt \in SUBSET Uploads

\* Trash that something will still bring back or destroy: an uncommitted operation's or a running batch's.
InBatch(h) == proc[h].pc \in {"batch_aside", "batch_commit", "batch_restore", "batch_purge"}
Held(o) == Uncommitted(o) \/ \E h \in Handlers : proc[h].op = o /\ InBatch(h)
SetAside(k) == {o \in Ops : Held(o) /\ trash[o][k] # Missing}

\* A journaled delete always goes through, so its request counts as deleted.
Doomed(r) == \E o \in Ops : Uncommitted(o) /\ payload[o].kind = "delete" /\ payload[o].req = r

\* Requests that a spoilt upload became, or was to be the model of.
Spoilt(r) == \E o \in Ops : payload[o].upload \in spoilt /\ payload[o].req = r

\* The model a request's row names is in the store, or in the trash of an unfinished operation on it,
\* unless its upload was spoilt.
ModelReachable ==
  \A r \in Requests : Live(r) /\ ~Doomed(r) /\ ~Spoilt(r) =>
    \A k \in Models(row[r]) : files[k] # Missing \/ SetAside(k) # {}

\* An upload that completes leaves the bytes of that upload, all of them, under the key the request's
\* row then names, unless it was spoilt.
UploadLands ==
  [][\A u \in Uploads \ spoilt : (session[u] = Open /\ session'[u] \in Requests) =>
       LET models == Models(row'[session'[u]]) IN models # {} /\ \A k \in models : files[k] = u]_vars

\* A staged part goes away only when its bytes are stored, whoever else finalizes or replaces meanwhile,
\* when its session does, or when it is spoilt.
PartConsumed ==
  [][\A u \in Uploads \ spoilt : (part[u] # Missing /\ part'[u] = Missing /\ session'[u] # Expired) =>
       \/ \E k \in Keys : files'[k] = part[u]
       \/ \E o \in Ops, k \in Keys : trash'[o][k] = part[u]]_vars

\* Whatever is stored, but for a spoilt upload, is named by a row or by a journaled operation: nothing is
\* left that recovery would not come back to.
NamedByJournal(k) ==
  \E o \in Ops : Journaled(o) /\ (k = payload[o].dest \/ k \in payload[o].assets)
Tracked ==
  /\ \A k \in Keys : files[k] # Missing =>
       (Live(k.req) /\ k \in row[k.req]) \/ NamedByJournal(k) \/ Spoilt(k.req)
  /\ \A o \in Ops : Held(o) \/ Journaled(o) \/ \A k \in Keys : trash[o][k] = Missing

\* A replica that went down gets its storage ready again, whatever the journal held, unless an upload
\* is spoilt.
EventuallyReady == \A rp \in Replicas : At(rp, "down") ~> (At(rp, "ready") \/ spoilt # {})

\* Where no call fails every operation reaches its end, done or abandoned, unless an upload is spoilt.
JournalDrains == \A o \in Ops : Journaled(o) ~> (~Journaled(o) \/ left.failing \/ spoilt # {})

-----------------------------------------------------------------------------
(* The library the journal keeps: a delete takes effect when it is         *)
(* journaled, any other operation when it commits.                         *)

NoModel == NoKey
ContentOf(k) == IF SetAside(k) # {} THEN trash[CHOOSE o \in SetAside(k) : TRUE][k] ELSE files[k]
ModelOf(r) == IF ~Live(r) \/ Doomed(r) THEN Absent
              ELSE IF Spoilt(r) THEN Unsure
              ELSE IF Models(row[r]) = {} THEN NoModel
              ELSE ContentOf(CHOOSE k \in row[r] : k.kind = "model")

Library == INSTANCE PrintLibrary WITH
  model <- [r \in Requests |-> ModelOf(r)],
  applied <- {u \in Uploads : \E o \in Ops : payload[o].upload = u /\ journal[o] \in {"committed", "finished"}},
  unsure <- spoilt

\* The journal implements the library.
ImplementsLibrary == Library!Spec
=============================================================================
