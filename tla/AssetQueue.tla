------------------------------ MODULE AssetQueue ------------------------------
(***************************************************************************)
(* The generation of thumbnails, dimensions and previews.  The jobs are     *)
(* rows in the database, one per stage of a print; every replica has its    *)
(* own queue object, and a lease per print keeps two replicas from one      *)
(* print.  Models are replaced, storage fails and moves, leases are lost    *)
(* and replicas stop while jobs are under way.  Each await is a step.       *)
(***************************************************************************)
EXTENDS Integers, FiniteSets, Sequences, FiniteSetsExt

CONSTANTS
  Replicas, Prints,
  Stages,      \* of "thumbnail", "geometry" and "preview"
  MaxRetries,
  Slots,       \* concurrency of the queue
  Budget,      \* of source bytes, on each replica
  Limit,       \* the size above which a source is refused
  Situations,  \* what may happen: each behaviour has one of these
  None

ASSUME QueueAssumption ==
  /\ Stages \subseteq {"thumbnail", "geometry", "preview"} /\ MaxRetries \in Nat
  /\ None \notin Nat /\ None \notin Replicas

VARIABLES
  model,     \* the version of each print's model, or None
  jobs,      \* the job of each stage of each print
  result,    \* the version each stage's result in the print's row was made from
  lease,     \* the replica that holds the print's lease
  moving,    \* a storage migration is running
  queue,     \* each replica's queue object
  work,      \* its pass over each print
  crossed,   \* prints whose model was replaced under a pass
  missed,    \* prints whose jobs were left to nobody
  strayed,   \* prints whose lease a pass has lost
  left       \* what may still happen

vars == <<model, jobs, result, lease, moving, queue, work, crossed, missed, strayed, left>>
rows == <<model, jobs, result>>
ghosts == <<crossed, missed, strayed, left>>

Order == <<"thumbnail", "geometry", "preview">>
NoWork == [pc |-> "none", file |-> None, wants |-> {}, todo |-> {}, kind |-> "none"]
NewQueue == [pc |-> "off", retries |-> [p \in Prints |-> 0], timers |-> {},
             stopping |-> FALSE, stale |-> FALSE, fed |-> {}, bytes |-> <<>>]

Init ==
  /\ left \in Situations
  /\ model = [p \in Prints |-> IF p \in left.prints \ left.linked THEN 0 ELSE None]
  /\ jobs = [p \in Prints |-> [s \in Stages |-> IF model[p] = None THEN "none" ELSE "pending"]]
  /\ result = [p \in Prints |-> [s \in Stages |-> None]]
  /\ lease = [p \in Prints |-> None] /\ moving = FALSE
  /\ queue = [r \in Replicas |-> NewQueue]
  /\ work = [r \in Replicas |-> [p \in Prints |-> NoWork]]
  /\ crossed = {} /\ missed = {} /\ strayed = {}

Spend(what) == left[what] > 0 /\ left' = [left EXCEPT ![what] = @ - 1]
CurrentStorage(r) == ~moving /\ ~queue[r].stale
With(p, stages, status) == [jobs EXCEPT ![p] =
  [s \in Stages |-> IF s \in stages THEN status ELSE @[s]]]
Where(p, statuses) == {s \in Stages : jobs[p][s] \in statuses}
Unfinished(p) == Where(p, {"pending", "running"}) # {}
Queued(r, p) == work[r][p].pc # "none"
(* The pass holds the lease; it has read which stages are pending. *)
Claimed(r, p) == work[r][p].pc \notin {"none", "waiting"}
Begun(r, p) == work[r][p].pc \notin {"none", "waiting", "check", "bytes", "read", "jobs"}
Aborted(r, p) == Claimed(r, p) /\ lease[p] # r
At(r, p, pc) == work[r][p].pc = pc
To(r, p, pc) == work' = [work EXCEPT ![r][p].pc = pc]
Fails(r, p, pc, kind) == work' = [work EXCEPT ![r][p] = [@ EXCEPT !.pc = pc, !.kind = kind]]

(* add: nothing when the print is queued - and when that pass has read its
   jobs already, what is pending now is left to nobody. *)
Added(r, ps) ==
  /\ work' = [work EXCEPT ![r] = [p \in Prints |->
       IF p \in ps /\ ~Queued(r, p) THEN [NoWork EXCEPT !.pc = "waiting"] ELSE @[p]]]
  /\ missed' = missed \cup {p \in ps : Begun(r, p)}

(*---------------- the rest of the program asks for assets ----------------*)
(* Mutant: a replacement keeps what was made from the old model. *)
KeepResults(r, p) ==
  /\ queue[r].pc = "on" /\ p \in left.prints /\ Spend("attaches")
  /\ model' = [model EXCEPT ![p] = IF @ = None THEN 0 ELSE @ + 1]
  /\ crossed' = IF model[p] # None /\ \E q \in Replicas : work[q][p].file # None THEN crossed \cup {p} ELSE crossed
  /\ queue' = [queue EXCEPT ![r].fed = @ \cup {p}]
  /\ UNCHANGED <<jobs, result, lease, moving, work, missed, strayed>>

(* completeAttachOperation: a replacement starts every stage again. *)
Attach(r, p) ==
  /\ queue[r].pc = "on" /\ p \in left.prints /\ Spend("attaches")
  /\ model' = [model EXCEPT ![p] = IF @ = None THEN 0 ELSE @ + 1]
  /\ IF model[p] = None THEN UNCHANGED <<jobs, result>>
     ELSE /\ jobs' = With(p, Where(p, {"pending", "running", "ready", "failed", "storage"}), "pending")
          /\ result' = [result EXCEPT ![p] = [s \in Stages |-> None]]
  /\ crossed' = IF model[p] # None /\ \E q \in Replicas : work[q][p].file # None THEN crossed \cup {p} ELSE crossed
  /\ queue' = [queue EXCEPT ![r].fed = @ \cup {p}]
  /\ UNCHANGED <<lease, moving, work, missed, strayed>>

(* enqueue: rows for the stages whose result is missing, if there are none. *)
Enqueue(r, p) ==
  /\ queue[r].pc = "on" /\ p \in queue[r].fed
  /\ queue' = [queue EXCEPT ![r].fed = @ \ {p}]
  /\ jobs' = With(p, {s \in Where(p, {"none"}) : result[p][s] = None}, "pending")
  /\ Added(r, {p})
  /\ UNCHANGED <<model, result, lease, moving, crossed, left, strayed>>

(*------------------------- the queue as an object ------------------------*)
(* The constructor puts every running job back, those of other replicas too. *)
Construct(r) ==
  /\ queue[r].pc = "off" /\ r \in left.replicas
  /\ jobs' = [p \in Prints |-> [s \in Stages |->
       IF jobs[p][s] = "running" THEN "pending" ELSE jobs[p][s]]]
  /\ queue' = [queue EXCEPT ![r] = [NewQueue EXCEPT !.pc = "new"]]
  /\ UNCHANGED <<model, result, lease, moving, work, ghosts>>

(* No backfill while a migration runs: its end builds a new runtime. *)
Backfill(r) ==
  LET again == {p \in Prints : Where(p, {"storage"}) # {}} IN
  /\ queue[r].pc = "new"
  /\ queue' = [queue EXCEPT ![r].pc = "on"]
  /\ IF moving THEN UNCHANGED <<jobs, work, missed>>
     ELSE /\ jobs' = [p \in Prints |-> [s \in Stages |->
               IF jobs[p][s] = "storage" THEN "pending" ELSE jobs[p][s]]]
          /\ Added(r, {p \in Prints : Unfinished(p)} \cup again)
  /\ UNCHANGED <<model, result, lease, moving, crossed, left, strayed>>

RecoverStorageFailures(r, p) ==
  /\ queue[r].pc = "on" /\ ~queue[r].stopping /\ CurrentStorage(r)
  /\ Where(p, {"storage"}) # {}
  /\ jobs' = With(p, Where(p, {"storage"}), "pending")
  /\ Added(r, {p})
  /\ UNCHANGED <<model, result, lease, moving, queue, crossed, left, strayed>>

(* retryLater's timer: while the print is queued it is set again. *)
Timer(r, p) ==
  /\ p \in queue[r].timers /\ ~Queued(r, p)
  /\ queue' = [queue EXCEPT ![r].timers = @ \ {p}]
  /\ Added(r, {p})
  /\ UNCHANGED <<rows, lease, moving, crossed, left, strayed>>

Shutdown(r) ==
  /\ queue[r].pc = "on" /\ ~queue[r].stopping
  /\ IF queue[r].stale THEN UNCHANGED left ELSE Spend("stops")
  /\ queue' = [queue EXCEPT ![r] = [@ EXCEPT !.stopping = TRUE, !.timers = {}]]
  /\ UNCHANGED <<rows, lease, moving, work, crossed, missed, strayed>>

(* Passes that hold a slot end first; the others are never run. *)
Closed(r) ==
  /\ queue[r].pc = "on" /\ queue[r].stopping /\ \A p \in Prints : ~Claimed(r, p)
  /\ queue' = [queue EXCEPT ![r] = NewQueue]
  /\ work' = [work EXCEPT ![r] = [p \in Prints |-> NoWork]]
  /\ UNCHANGED <<rows, lease, moving, ghosts>>

(*------------------------------ a pass -----------------------------------*)
(* Mutant: a pass goes ahead whoever holds the lease. *)
ClaimAnyway(r, p) ==
  /\ At(r, p, "waiting") /\ ~queue[r].stopping
  /\ Cardinality({q \in Prints : Claimed(r, q)}) < Slots
  /\ lease' = [lease EXCEPT ![p] = IF @ = None THEN r ELSE @]
  /\ To(r, p, "check")
  /\ UNCHANGED <<rows, moving, queue, ghosts>>

(* schedule: the lease is tried once. *)
Claim(r, p) ==
  /\ At(r, p, "waiting") /\ ~queue[r].stopping
  /\ Cardinality({q \in Prints : Claimed(r, q)}) < Slots
  /\ lease[p] = None
  /\ lease' = [lease EXCEPT ![p] = r]
  /\ To(r, p, "check")
  /\ UNCHANGED <<rows, moving, queue, ghosts>>

(* The print's lease is elsewhere, perhaps with a pass that has begun or with a
   replica that is dead; or the lock throws, which ends like a refusal. *)
NotClaimed(r, p) ==
  /\ At(r, p, "waiting") /\ ~queue[r].stopping
  /\ Cardinality({q \in Prints : Claimed(r, q)}) < Slots
  /\ \/ lease[p] # None /\ UNCHANGED left
     \/ Spend("faults")
  /\ work' = [work EXCEPT ![r][p] = NoWork]
  /\ missed' = IF lease[p] = None \/ Begun(lease[p], p) \/ ~Claimed(lease[p], p) THEN missed \cup {p} ELSE missed
  /\ UNCHANGED <<rows, lease, moving, queue, crossed, strayed>>

(* scheduleClaimed: then the pass queues up for its source's bytes. *)
Check(r, p) ==
  /\ At(r, p, "check")
  /\ IF ~CurrentStorage(r) \/ model[p] = None THEN To(r, p, "end") /\ UNCHANGED queue
     ELSE IF left.size[p] > Limit THEN To(r, p, "jobs") /\ UNCHANGED queue
     ELSE /\ To(r, p, "bytes")
          /\ queue' = [queue EXCEPT ![r].bytes = Append(@, p)]
  /\ UNCHANGED <<rows, lease, moving, ghosts>>

Used(r) == MapThenSumSet(LAMBDA p : left.size[p],
  {p \in Prints : Claimed(r, p) /\ work[r][p].pc \notin {"check", "bytes"} /\ left.size[p] <= Limit})

(* ByteBudget, in the order of arrival; then process reads the request. *)
Admit(r, p) ==
  /\ At(r, p, "bytes") /\ Head(queue[r].bytes) = p
  /\ Used(r) + left.size[p] <= Budget
  /\ queue' = [queue EXCEPT ![r].bytes = Tail(@)]
  /\ To(r, p, "read")
  /\ UNCHANGED <<rows, lease, moving, ghosts>>

ReadRequest(r, p) ==
  /\ At(r, p, "read")
  /\ work' = [work EXCEPT ![r][p] = [@ EXCEPT !.pc = "jobs", !.file = model[p]]]
  /\ UNCHANGED <<rows, lease, moving, queue, ghosts>>

ReadJobs(r, p) ==
  /\ At(r, p, "jobs")
  /\ work' = [work EXCEPT ![r][p] = [@ EXCEPT !.wants = Where(p, {"pending"}),
       !.pc = IF Where(p, {"pending"}) = {} \/ (left.size[p] <= Limit /\ ~CurrentStorage(r))
              THEN "end" ELSE "start"]]
  /\ UNCHANGED <<rows, lease, moving, queue, ghosts>>

(* startAssetGeneration; failOversizedGeneration goes on to fail the stages. *)
Start(r, p) ==
  LET w == work[r][p] IN
  /\ At(r, p, "start")
  /\ jobs' = With(p, w.wants \cap Where(p, {"pending"}), "running")
  /\ work' = [work EXCEPT ![r][p] = IF left.size[p] > Limit
       THEN [@ EXCEPT !.pc = "fail", !.todo = w.wants, !.kind = "failed"] ELSE [@ EXCEPT !.pc = "again"]]
  /\ UNCHANGED <<model, result, lease, moving, queue, ghosts>>

CheckAgain(r, p) ==
  /\ At(r, p, "again")
  /\ IF CurrentStorage(r) THEN To(r, p, "source") /\ UNCHANGED jobs
     ELSE To(r, p, "end") /\ jobs' = With(p, work[r][p].wants, "pending")
  /\ UNCHANGED <<model, result, lease, moving, queue, ghosts>>

(* A read or write of the pass throws before its source is read: the lease is
   given back, and its jobs stay as they are. *)
PassFails(r, p) ==
  /\ work[r][p].pc \in {"check", "read", "jobs", "start", "again"} /\ Spend("faults")
  /\ To(r, p, "end")
  /\ missed' = missed \cup {p}
  /\ UNCHANGED <<rows, lease, moving, queue, crossed, strayed>>

(* A replaced model's file is gone: a missing source fails for good. *)
ReadSource(r, p) ==
  LET w == work[r][p] IN
  /\ At(r, p, "source")
  /\ work' = [work EXCEPT ![r][p] = IF w.file = model[p]
       THEN [@ EXCEPT !.pc = "make", !.todo = w.wants]
       ELSE [@ EXCEPT !.pc = "fail", !.todo = w.wants, !.kind = "failed"]]
  /\ UNCHANGED <<rows, lease, moving, queue, ghosts>>

SourceFails(r, p) ==
  /\ At(r, p, "source") /\ Spend("faults")
  /\ \E kind \in {"transient", "fatal"} :
       work' = [work EXCEPT ![r][p] = [@ EXCEPT !.pc = "caught", !.todo = work[r][p].wants, !.kind = kind]]
  /\ UNCHANGED <<rows, lease, moving, queue, crossed, missed, strayed>>

NextStage(todo) ==
  IF todo = {} THEN "done" ELSE LET i == CHOOSE j \in 1..3 : /\ Order[j] \in todo
                                      /\ \A k \in 1..(j - 1) : Order[k] \notin todo IN Order[i]

(* The pipeline: a thumbnail is written while the mesh is still measured. *)
Make(r, p) ==
  LET w == work[r][p] IN
  /\ At(r, p, "make")
  /\ To(r, p, IF "thumbnail" \in w.todo THEN "thumbnail" ELSE "measure")
  /\ UNCHANGED <<rows, lease, moving, queue, ghosts>>

(* Before the thumbnail or after it: what is running then fails for good. *)
InvalidMesh(r, p) ==
  /\ work[r][p].pc \in {"make", "measure"} /\ Spend("faults")
  /\ Fails(r, p, "stages", "mesh")
  /\ UNCHANGED <<rows, lease, moving, queue, crossed, missed, strayed>>

SetModelDimensions(r, p) ==
  /\ At(r, p, "measure")
  /\ result' = IF "geometry" \in Stages THEN [result EXCEPT ![p]["geometry"] = work[r][p].file] ELSE result
  /\ To(r, p, NextStage(work[r][p].todo))
  /\ UNCHANGED <<model, jobs, lease, moving, queue, ghosts>>

(* Write the asset, then finishAssetGeneration: by print and stage alone. *)
Finish(r, p) ==
  LET w == work[r][p]
      s == w.pc
      rest == w.todo \ {s}
  IN /\ s \in Stages
     /\ jobs' = With(p, {s}, "ready")
     /\ result' = IF s = "geometry" THEN result ELSE [result EXCEPT ![p][s] = w.file]
     /\ work' = [work EXCEPT ![r][p] = [@ EXCEPT !.todo = rest,
          !.pc = IF s = "thumbnail" THEN "measure" ELSE NextStage(rest)]]
     /\ UNCHANGED <<model, lease, moving, queue, ghosts>>

WriteFails(r, p) ==
  /\ work[r][p].pc \in {"thumbnail", "preview"} /\ Spend("faults")
  /\ \E kind \in {"transient", "fatal"} : Fails(r, p, "stages", kind)
  /\ UNCHANGED <<rows, lease, moving, queue, crossed, missed, strayed>>

(* signal.throwIfAborted: before the pass has begun its jobs are left.  Where
   the preview is about to be written it counts as a write that failed. *)
LeaseLost(r, p) ==
  /\ Aborted(r, p)
  /\ IF work[r][p].pc = "check"
     THEN /\ To(r, p, "end")
          /\ missed' = missed \cup {p}
     ELSE /\ work[r][p].pc \in {"make", "thumbnail", "measure", "preview"}
          /\ \E kind \in IF At(r, p, "preview") THEN {"lost", "transient"} ELSE {"lost"} :
               Fails(r, p, "stages", kind)
          /\ UNCHANGED missed
  /\ UNCHANGED <<rows, lease, moving, queue, crossed, left, strayed>>

(* The catch of the pipeline reads which stages are running. *)
ReadRunning(r, p) ==
  /\ At(r, p, "stages")
  /\ work' = [work EXCEPT ![r][p] = [@ EXCEPT !.todo = Where(p, {"running"}),
       !.pc = IF work[r][p].kind = "mesh" THEN "fail" ELSE "caught",
       !.kind = IF work[r][p].kind = "mesh" THEN "failed" ELSE work[r][p].kind]]
  /\ UNCHANGED <<rows, lease, moving, queue, ghosts>>

(* One retry more, with a timer unless the queue stops. *)
Again(r, p) == [queue EXCEPT ![r].retries[p] = @ + 1, ![r].timers = IF queue[r].stopping THEN @ ELSE @ \cup {p}]

(* Mutants: a retry that forgets its timer, and one that is never refused. *)
RetryWithoutTimer(r, p) ==
  LET w == work[r][p]
      again == queue[r].retries[p] < MaxRetries /\ w.kind # "fatal"
  IN /\ At(r, p, "caught")
     /\ again \/ w.kind = "lost"
     /\ jobs' = With(p, w.todo, "pending")
     /\ queue' = IF ~again THEN queue ELSE [queue EXCEPT ![r].retries[p] = @ + 1]
     /\ missed' = IF again THEN missed ELSE missed \cup {p}
     /\ To(r, p, "end")
     /\ UNCHANGED <<model, result, lease, moving, crossed, left, strayed>>
RetryAlways(r, p) ==
  /\ At(r, p, "caught")
  /\ jobs' = With(p, work[r][p].todo, "pending")
  /\ queue' = Again(r, p)
  /\ To(r, p, "end")
  /\ UNCHANGED <<model, result, lease, moving, crossed, missed, left, strayed>>

(* retry, or requeueAssetGeneration when only the lease was lost. *)
Retry(r, p) ==
  LET w == work[r][p]
      again == queue[r].retries[p] < MaxRetries /\ w.kind # "fatal"
  IN /\ At(r, p, "caught")
     /\ again \/ w.kind = "lost"
     /\ jobs' = With(p, w.todo, "pending")
     /\ queue' = IF again THEN Again(r, p) ELSE queue
     /\ missed' = IF again THEN missed ELSE missed \cup {p}
     /\ To(r, p, "end")
     /\ UNCHANGED <<model, result, lease, moving, crossed, left, strayed>>

GiveUp(r, p) ==
  LET w == work[r][p] IN
  /\ At(r, p, "caught") /\ w.kind \in {"transient", "fatal"}
  /\ w.kind = "fatal" \/ queue[r].retries[p] >= MaxRetries
  /\ work' = [work EXCEPT ![r][p] = [@ EXCEPT !.pc = "fail", !.kind = "storage"]]
  /\ UNCHANGED <<rows, lease, moving, queue, ghosts>>

(* fail: one finishAssetGeneration after the other *)
FailStage(r, p) ==
  LET w == work[r][p] IN
  /\ At(r, p, "fail")
  /\ IF w.todo = {} THEN To(r, p, "done") /\ UNCHANGED jobs
     ELSE LET s == NextStage(w.todo) IN
          /\ jobs' = With(p, {s}, w.kind)
          /\ work' = [work EXCEPT ![r][p].todo = @ \ {s}]
  /\ UNCHANGED <<model, result, lease, moving, queue, ghosts>>

Done(r, p) ==
  /\ At(r, p, "done")
  /\ queue' = [queue EXCEPT ![r].retries[p] = 0]
  /\ To(r, p, "end")
  /\ UNCHANGED <<rows, lease, moving, ghosts>>

End(r, p) ==
  /\ At(r, p, "end")
  /\ lease' = [lease EXCEPT ![p] = IF @ = r THEN None ELSE @]
  /\ work' = [work EXCEPT ![r][p] = NoWork]
  /\ UNCHANGED <<rows, moving, queue, ghosts>>

Pass(r, p) ==
  \/ Claim(r, p) \/ NotClaimed(r, p) \/ Check(r, p) \/ Admit(r, p) \/ ReadRequest(r, p)
  \/ ReadJobs(r, p) \/ Start(r, p) \/ CheckAgain(r, p) \/ ReadSource(r, p) \/ Make(r, p)
  \/ SetModelDimensions(r, p) \/ Finish(r, p) \/ ReadRunning(r, p) \/ Retry(r, p)
  \/ GiveUp(r, p) \/ FailStage(r, p) \/ Done(r, p) \/ End(r, p)
Fault(r, p) == PassFails(r, p) \/ SourceFails(r, p) \/ InvalidMesh(r, p) \/ WriteFails(r, p) \/ LeaseLost(r, p)

(*------------------------------- around ----------------------------------*)
(* A migration moves the store; at its end every runtime is out of date. *)
Move ==
  /\ ~moving /\ Spend("moves")
  /\ moving' = TRUE
  /\ UNCHANGED <<rows, lease, queue, work, crossed, missed, strayed>>

Moved ==
  /\ moving
  /\ moving' = FALSE
  /\ queue' = [r \in Replicas |-> [queue[r] EXCEPT !.stale = queue[r].pc # "off"]]
  /\ UNCHANGED <<rows, lease, work, ghosts>>

Crash(r) ==
  /\ queue[r].pc # "off" /\ Spend("crashes")
  /\ queue' = [queue EXCEPT ![r] = NewQueue]
  /\ work' = [work EXCEPT ![r] = [p \in Prints |-> NoWork]]
  /\ UNCHANGED <<rows, lease, moving, crossed, missed, strayed>>

(* The lease of a dead holder runs out; a live one's when it is not extended. *)
RunOut(p) ==
  /\ lease[p] # None
  /\ IF Claimed(lease[p], p) THEN Spend("lost") /\ strayed' = strayed \cup {p} ELSE UNCHANGED <<strayed, left>>
  /\ lease' = [lease EXCEPT ![p] = None]
  /\ UNCHANGED <<rows, moving, queue, work, crossed, missed>>

Object(r) ==
  \/ Construct(r) \/ Backfill(r) \/ Closed(r)
  \/ queue[r].stale /\ Shutdown(r)
  \/ \E p \in Prints : Enqueue(r, p) \/ RecoverStorageFailures(r, p) \/ Timer(r, p)

Next ==
  \/ \E r \in Replicas : Object(r) \/ Shutdown(r) \/ Crash(r)
  \/ \E r \in Replicas, p \in Prints : Attach(r, p) \/ Pass(r, p) \/ Fault(r, p)
  \/ Move \/ Moved \/ \E p \in Prints : RunOut(p)

Spec == Init /\ [][Next]_vars

Statuses == {"none", "pending", "running", "ready", "failed", "storage"}

(* Every job has a status and every pass works on a version; retries stay
   within their bound. *)
TypeOK ==
  /\ model \in [Prints -> Nat \cup {None}] /\ jobs \in [Prints -> [Stages -> Statuses]]
  /\ result \in [Prints -> [Stages -> Nat \cup {None}]]
  /\ lease \in [Prints -> Replicas \cup {None}]
  /\ \A r \in Replicas, p \in Prints :
       /\ queue[r].retries[p] \in 0..MaxRetries /\ queue[r].timers \subseteq Prints
       /\ work[r][p].wants \subseteq Stages /\ work[r][p].todo \subseteq Stages

(* What a print shows was made from the model it has, and a stage is "ready"
   only with such a result; a model replaced under a pass is excepted, since
   finishAssetGeneration goes by print and stage alone. *)
ResultsFit == \A p \in Prints \ crossed : \A s \in Stages :
  /\ result[p][s] \in {None, model[p]}
  /\ jobs[p][s] = "ready" => result[p][s] = model[p]

(* ResultsFit without the exception, as the comment of completeAttachOperation
   has it: a replacement invalidates everything derived from the old mesh. *)
NothingStale == \A p \in Prints, s \in Stages : result[p][s] \in {None, model[p]}

(* One pass over a print at a time, on all replicas, whatever crashes, stops
   and restarts there were: but for a pass that lost its lease, which runs on
   to its next check. *)
OnePass == \A p \in Prints \ strayed : Cardinality({r \in Replicas : Claimed(r, p)}) <= 1

(* Replicas are restarted, the leases of dead ones run out, and passes go on;
   storage failures, replacements and stops come as they like. *)
Fairness ==
  /\ WF_vars(Moved)
  /\ \A r \in Replicas : WF_vars(Object(r)) /\ \A p \in Prints : WF_vars(Pass(r, p))
  /\ \A p \in Prints : WF_vars(RunOut(p) /\ UNCHANGED left)
FairSpec == Spec /\ Fairness

(* Every job comes to an end - ready, failed, or failed for good - however
   often storage fails, moves or a replica stops, unless it was left to nobody. *)
Settled(p) == Where(p, {"pending", "running", "storage"}) = {}
JobsSettle == \A p \in Prints : ~Settled(p) ~> (Settled(p) \/ p \in missed)
=============================================================================
