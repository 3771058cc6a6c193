--------------------------- MODULE ServicesProofs ---------------------------
(***************************************************************************)
(* What the services promise, for all constants: the queue, the sweeps and  *)
(* the tags have their proofs here, and what is proved of each service by   *)
(* itself holds of all of them together.                                    *)
(***************************************************************************)
EXTENDS Services, FiniteSetTheorems, TLAPS

-----------------------------------------------------------------------------
(* The asset queue, for every set of replicas and prints, whatever happens  *)
(* to them: one pass over a print at a time while leases hold, and results  *)
(* that were made from the model the print has.                             *)

Version == Nat \cup {None}
Steps == {"none", "waiting", "check", "bytes", "read", "jobs", "start", "again", "source", "make",
          "thumbnail", "measure", "geometry", "preview", "stages", "caught", "fail", "done", "end"}
Kinds == {"none", "transient", "fatal", "mesh", "lost", "failed", "storage"}
Work == [pc : Steps, file : Version, wants : SUBSET Stages, todo : SUBSET Stages, kind : Kinds]
QueueWith(b) == [pc : {"off", "new", "on"}, retries : [Prints -> 0..MaxRetries], timers : SUBSET Prints,
                 stopping : BOOLEAN, stale : BOOLEAN, fed : SUBSET Prints, bytes : {b}]

QueueShape == queue = [r \in Replicas |-> queue[r]] /\ \A r \in Replicas : queue[r] \in QueueWith(queue[r].bytes)
Shape ==
  /\ model \in [Prints -> Version] /\ jobs \in [Prints -> [Stages -> Statuses]]
  /\ result \in [Prints -> [Stages -> Version]]
  /\ lease \in [Prints -> Replicas \cup {None}]
  /\ QueueShape
  /\ work \in [Replicas -> [Prints -> Work]]

(* A pass that is at work holds the print's lease, unless it has lost it. *)
Leased == \A r \in Replicas, p \in Prints \ strayed : Claimed(r, p) => lease[p] = r

(* A pass that goes on to the pipeline has read its request from a print with a model, and
   its file is that model unless the model was replaced under it; it has measured the mesh
   before it comes to the later stages. *)
Making == {"make", "thumbnail", "measure", "geometry", "preview"}
PassFits(p, w) ==
  /\ w.pc \notin {"none", "waiting", "check", "end"} => model[p] # None
  /\ w.pc \in Making => w.file # None
  /\ w.pc = "fail" => w.kind \in {"failed", "storage"}
  /\ p \notin crossed =>
       /\ w.file \in {None, model[p]}
       /\ w.pc \in {"geometry", "preview"} /\ "geometry" \in Stages => result[p]["geometry"] = w.file
PassesFit == \A r \in Replicas, p \in Prints : PassFits(p, work[r][p])

(* A print without a model has nothing that is ready. *)
NothingWithoutModel == \A p \in Prints : model[p] = None =>
  p \notin crossed /\ \A s \in Stages : jobs[p][s] # "ready" /\ result[p][s] = None

QueueInv == Shape /\ Leased /\ PassesFit /\ NothingWithoutModel /\ ResultsFit

-----------------------------------------------------------------------------
(* A step of one pass leaves the others alone. *)
Others(r, p) == \A q \in Replicas, x \in Prints : q # r \/ x # p => work'[q][x] = work[q][x]

(* Where a pass is set. *)
LEMMA WorkSet ==
  ASSUME Shape, NEW r \in Replicas, NEW p \in Prints, NEW w \in Work, work' = [work EXCEPT ![r][p] = w]
  PROVE  work' \in [Replicas -> [Prints -> Work]] /\ work'[r][p] = w /\ Others(r, p)
  BY DEF Shape, Others

(* Where only its place is. *)
LEMMA ToSet ==
  ASSUME Shape, NEW r \in Replicas, NEW p \in Prints, NEW pc \in Steps, To(r, p, pc)
  PROVE  /\ work' \in [Replicas -> [Prints -> Work]] /\ Others(r, p)
         /\ work'[r][p].pc = pc /\ work'[r][p].file = work[r][p].file
         /\ work'[r][p].wants = work[r][p].wants /\ work'[r][p].todo = work[r][p].todo
         /\ work'[r][p].kind = work[r][p].kind
<1>1. PICK w : w = [work[r][p] EXCEPT !.pc = pc]
  OBVIOUS
<1>2. work[r][p] \in Work
  BY DEF Shape
<1>3. w \in Work /\ w.pc = pc /\ w.file = work[r][p].file /\ w.wants = work[r][p].wants
      /\ w.todo = work[r][p].todo /\ w.kind = work[r][p].kind
  BY <1>1, <1>2 DEF Work
<1>4. work' = [work EXCEPT ![r][p] = w]
  BY <1>1, Zenon DEF To
<1> QED
  BY <1>3, <1>4, WorkSet

(* Where it fails. *)
LEMMA FailsSet ==
  ASSUME Shape, NEW r \in Replicas, NEW p \in Prints, NEW pc \in Steps, NEW kind \in Kinds, Fails(r, p, pc, kind)
  PROVE  /\ work' \in [Replicas -> [Prints -> Work]] /\ Others(r, p)
         /\ work'[r][p].pc = pc /\ work'[r][p].file = work[r][p].file
         /\ work'[r][p].kind = kind
<1>1. PICK w : w = [work[r][p] EXCEPT !.pc = pc, !.kind = kind]
  OBVIOUS
<1>2. work[r][p] \in Work
  BY DEF Shape
<1>3. w \in Work /\ w.pc = pc /\ w.file = work[r][p].file /\ w.kind = kind
  BY <1>1, <1>2 DEF Work
<1>4. work' = [work EXCEPT ![r][p] = w]
  BY <1>1, Zenon DEF Fails
<1> QED
  BY <1>3, <1>4, WorkSet

(* Jobs that are given a status. *)
LEMMA JobsSet ==
  ASSUME Shape, NEW p \in Prints, NEW S, NEW status \in Statuses, jobs' = With(p, S, status)
  PROVE  /\ jobs' \in [Prints -> [Stages -> Statuses]]
         /\ \A x \in Prints, s \in Stages :
              jobs'[x][s] = IF x = p /\ s \in S THEN status ELSE jobs[x][s]
  BY DEF Shape, With

(* A queue object that keeps its shape. *)
LEMMA QueueSet ==
  ASSUME Shape, NEW r \in Replicas, NEW q, NEW b, q \in QueueWith(b), queue' = [queue EXCEPT ![r] = q]
  PROVE  QueueShape' /\ queue'[r] = q /\ \A x \in Replicas \ {r} : queue'[x] = queue[x]
<1>1. q \in QueueWith(q.bytes)
  BY DEF QueueWith
<1>2. queue'[r] = q /\ \A x \in Replicas \ {r} : queue'[x] = queue[x]
  BY DEF Shape, QueueShape
<1> QED
  BY <1>1, <1>2 DEF Shape, QueueShape

(* One whose waiting line changes. *)
LEMMA BytesSet ==
  ASSUME Shape, NEW r \in Replicas, NEW b, queue' = [queue EXCEPT ![r].bytes = b]
  PROVE  QueueShape'
<1>1. PICK q : q = [queue[r] EXCEPT !.bytes = b]
  OBVIOUS
<1>2. queue[r] \in QueueWith(queue[r].bytes)
  BY DEF Shape, QueueShape
<1>3. q \in QueueWith(b)
  BY <1>1, <1>2 DEF QueueWith
<1>4. queue' = [queue EXCEPT ![r] = q]
  BY <1>1, Zenon
<1> QED
  BY <1>3, <1>4, QueueSet

(* One that counts a retry. *)
LEMMA AgainSet ==
  ASSUME Shape, NEW r \in Replicas, NEW p \in Prints, queue' = Again(r, p), queue[r].retries[p] < MaxRetries
  PROVE  QueueShape'
<1> DEFINE T == IF queue[r].stopping THEN queue[r].timers ELSE queue[r].timers \cup {p}
           n == queue[r].retries[p] + 1
<1>1. queue[r] \in QueueWith(queue[r].bytes) /\ DOMAIN queue = Replicas
  BY DEF Shape, QueueShape
<1>2. T \in SUBSET Prints /\ n \in 0..MaxRetries /\ queue[r].retries \in [Prints -> 0..MaxRetries]
  BY <1>1, QueueAssumption DEF QueueWith
<1>3. PICK f : f = [queue[r].retries EXCEPT ![p] = n]
  OBVIOUS
<1>4. f \in [Prints -> 0..MaxRetries]
  BY <1>2, <1>3
<1>5. PICK q : q = [queue[r] EXCEPT !.retries = f, !.timers = T]
  OBVIOUS
<1>6. queue' = [queue EXCEPT ![r] = q]
  BY <1>1, <1>3, <1>5 DEF Again, QueueWith
<1> HIDE DEF T, n
<1>7. q \in QueueWith(queue[r].bytes)
  BY <1>1, <1>2, <1>4, <1>5 DEF QueueWith
<1> QED
  BY <1>6, <1>7, QueueSet

(* The first of the stages that are left, or "done". *)
LEMMA NextStageIsLeft ==
  ASSUME NEW todo \in SUBSET Stages
  PROVE  NextStage(todo) \in todo \cup {"done"}
<1>1. CASE todo = {}
  BY <1>1 DEF NextStage
<1>2. CASE todo # {}
  <2> DEFINE First(j) == Order[j] \in todo /\ \A i \in 1..(j - 1) : Order[i] \notin todo
  <2>1. Order[1] = "thumbnail" /\ Order[2] = "geometry" /\ Order[3] = "preview"
    BY DEF Order
  <2>2. \E j \in 1..3 : First(j)
    <3>1. CASE "thumbnail" \in todo
      BY <2>1, <3>1
    <3>2. CASE "thumbnail" \notin todo /\ "geometry" \in todo
      <4>1. First(2)
        BY <2>1, <3>2
      <4> QED
        BY <4>1
    <3>3. CASE "thumbnail" \notin todo /\ "geometry" \notin todo
      <4>1. "preview" \in todo
        BY <1>2, <3>3, QueueAssumption
      <4>2. First(3)
        BY <2>1, <3>3, <4>1
      <4> QED
        BY <4>2
    <3> QED
      BY <3>1, <3>2, <3>3
  <2>3. PICK i : i = CHOOSE j \in 1..3 : First(j)
    OBVIOUS
  <2>4. First(i)
    BY <2>2, <2>3
  <2>5. NextStage(todo) = Order[i]
    BY <1>2, <2>3 DEF NextStage
  <2> QED
    BY <2>4, <2>5
<1> QED
  BY <1>1, <1>2

(* No job is made ready. *)
JobsFall ==
  /\ jobs' \in [Prints -> [Stages -> Statuses]]
  /\ \A x \in Prints, s \in Stages : jobs'[x][s] = "ready" => jobs[x][s] = "ready"

(* None is when none changes. *)
LEMMA SameFall ==
  ASSUME Shape, UNCHANGED jobs
  PROVE  JobsFall
  BY DEF Shape, JobsFall

(* None is by another status. *)
LEMMA FallSet ==
  ASSUME Shape, NEW p \in Prints, NEW S, NEW status \in Statuses \ {"ready"}, jobs' = With(p, S, status)
  PROVE  JobsFall
  BY JobsSet DEF JobsFall

(* What keeps the invariant: a step of a pass that makes no job ready. *)
LEMMA PassKeeps ==
  ASSUME QueueInv, NEW r \in Replicas, NEW p \in Prints,
         QueueShape', JobsFall, UNCHANGED <<model, result, lease, crossed, strayed>>,
         work' \in [Replicas -> [Prints -> Work]], Others(r, p), Claimed(r, p)' => Claimed(r, p),
         PassFits(p, work'[r][p])
  PROVE  QueueInv'
<1>1. Shape'
  BY DEF QueueInv, Shape, JobsFall
<1>2. Leased'
  BY DEF QueueInv, Leased, Claimed, Others
<1>3. PassesFit'
  BY DEF QueueInv, PassesFit, PassFits, Others
<1>4. NothingWithoutModel' /\ ResultsFit'
  BY DEF QueueInv, NothingWithoutModel, ResultsFit, JobsFall
<1> QED
  BY <1>1, <1>2, <1>3, <1>4 DEF QueueInv

(* What a step of a pass begins with. *)
LEMMA PassNow ==
  ASSUME QueueInv, NEW r \in Replicas, NEW p \in Prints
  PROVE  /\ Shape /\ QueueShape /\ work[r][p] \in Work /\ PassFits(p, work[r][p])
         /\ model[p] \in Version /\ jobs \in [Prints -> [Stages -> Statuses]]
  BY DEF QueueInv, Shape, PassesFit

(* Steps that only move the pass on, to a place where nothing new is asked of it. *)
LEMMA PlainMoves ==
  ASSUME QueueInv, NEW r \in Replicas, NEW p \in Prints,
         \/ Check(r, p) \/ Admit(r, p) \/ Make(r, p)
  PROVE  QueueInv'
<1>0. Shape /\ QueueShape /\ work[r][p] \in Work /\ PassFits(p, work[r][p])
  BY PassNow
<1>1. PICK pc \in Steps :
        /\ To(r, p, pc) /\ work[r][p].pc \in {"check", "bytes", "make"}
        /\ pc \notin {"none", "waiting", "fail", "geometry", "preview"}
        /\ pc \notin {"check", "end"} => model[p] # None
        /\ pc \in Making => work[r][p].pc \in Making
  BY <1>0 DEF Check, Admit, Make, At, Steps, Making, PassFits
<1>2. /\ work' \in [Replicas -> [Prints -> Work]] /\ Others(r, p)
      /\ work'[r][p].pc = pc /\ work'[r][p].file = work[r][p].file
  BY <1>0, <1>1, ToSet
<1>3. Claimed(r, p)
  BY <1>1 DEF Claimed
<1>4. PassFits(p, work'[r][p])
  BY <1>0, <1>1, <1>2 DEF PassFits
<1>5. QueueShape'
  BY <1>0, BytesSet DEF Check, Admit, Make, QueueShape
<1>6. UNCHANGED <<jobs, model, result, lease, crossed, strayed>>
  BY DEF Check, Admit, Make, rows, ghosts
<1> QED
  BY <1>0, <1>2, <1>3, <1>4, <1>5, <1>6, PassKeeps DEF Shape, JobsFall

(* process: the request, and the stages that are pending. *)
LEMMA ReadingKeeps ==
  ASSUME QueueInv, NEW r \in Replicas, NEW p \in Prints,
         ReadRequest(r, p) \/ ReadJobs(r, p)
  PROVE  QueueInv'
<1>0. Shape /\ QueueShape /\ work[r][p] \in Work /\ PassFits(p, work[r][p]) /\ model[p] \in Version
  BY PassNow
<1>1. PICK w \in Work :
        /\ work' = [work EXCEPT ![r][p] = w] /\ w.pc \in {"jobs", "start", "end"}
        /\ w.file \in {work[r][p].file, model[p]}
  <2>1. CASE ReadRequest(r, p)
    <3>1. PICK w : w = [work[r][p] EXCEPT !.pc = "jobs", !.file = model[p]]
      OBVIOUS
    <3>2. w \in Work /\ w.pc = "jobs" /\ w.file = model[p]
      BY <1>0, <3>1 DEF Work, Steps
    <3>3. work' = [work EXCEPT ![r][p] = w]
      BY <2>1, <3>1, Zenon DEF ReadRequest
    <3> QED
      BY <3>2, <3>3
  <2>2. CASE ReadJobs(r, p)
    <3> DEFINE pc == IF Where(p, {"pending"}) = {} \/ (left.size[p] <= Limit /\ ~CurrentStorage(r))
                     THEN "end" ELSE "start"
               S == Where(p, {"pending"})
    <3>1. PICK w : w = [work[r][p] EXCEPT !.wants = S, !.pc = pc]
      OBVIOUS
    <3>2. pc \in {"end", "start"} /\ S \in SUBSET Stages
      BY DEF Where
    <3>3. work' = [work EXCEPT ![r][p] = w]
      BY <2>2, <3>1, Zenon DEF ReadJobs
    <3> HIDE DEF pc, S
    <3>4. w \in Work /\ w.pc = pc /\ w.file = work[r][p].file
      BY <1>0, <3>1, <3>2 DEF Work, Steps
    <3> QED
      BY <3>2, <3>3, <3>4
  <2> QED
    BY <2>1, <2>2
<1>2. /\ work' \in [Replicas -> [Prints -> Work]] /\ Others(r, p) /\ work'[r][p] = w
  BY <1>0, <1>1, WorkSet
<1>3. Claimed(r, p) /\ work[r][p].pc \in {"read", "jobs"}
  BY DEF Claimed, ReadRequest, ReadJobs, At
<1>4. PassFits(p, work'[r][p])
  BY <1>0, <1>1, <1>2, <1>3 DEF PassFits, Making
<1>5. UNCHANGED <<jobs, queue, model, result, lease, crossed, strayed>>
  BY DEF ReadRequest, ReadJobs, rows, ghosts
<1> QED
  BY <1>0, <1>2, <1>3, <1>4, <1>5, PassKeeps DEF Shape, QueueShape, JobsFall

(* startAssetGeneration, and the check after it. *)
LEMMA StartKeeps ==
  ASSUME QueueInv, NEW r \in Replicas, NEW p \in Prints,
         Start(r, p) \/ CheckAgain(r, p)
  PROVE  QueueInv'
<1>0. Shape /\ QueueShape /\ work[r][p] \in Work /\ PassFits(p, work[r][p])
  BY PassNow
<1>1. work[r][p].pc \in {"start", "again"} /\ Claimed(r, p) /\ model[p] # None
  BY <1>0 DEF Claimed, Start, CheckAgain, At, PassFits
<1>2. /\ work' \in [Replicas -> [Prints -> Work]] /\ Others(r, p)
      /\ work'[r][p].pc \in {"fail", "again", "source", "end"} /\ work'[r][p].file = work[r][p].file
      /\ work'[r][p].pc = "fail" => work'[r][p].kind = "failed"
  <2>1. CASE Start(r, p)
    <3> DEFINE S == work[r][p].wants
    <3>1. PICK w : w = IF left.size[p] > Limit
                       THEN [work[r][p] EXCEPT !.pc = "fail", !.todo = S, !.kind = "failed"]
                       ELSE [work[r][p] EXCEPT !.pc = "again"]
      OBVIOUS
    <3>2. work' = [work EXCEPT ![r][p] = w]
      BY <2>1, <3>1, Zenon DEF Start
    <3>3. S \in SUBSET Stages
      BY <1>0 DEF Work
    <3> HIDE DEF S
    <3>4. CASE left.size[p] > Limit
      <4>1. w = [work[r][p] EXCEPT !.pc = "fail", !.todo = S, !.kind = "failed"]
        BY <3>1, <3>4
      <4>2. w \in Work /\ w.pc = "fail" /\ w.file = work[r][p].file /\ w.kind = "failed"
        BY <1>0, <3>3, <4>1 DEF Work, Steps, Kinds
      <4> QED
        BY <1>0, <3>2, <4>2, WorkSet
    <3>5. CASE ~(left.size[p] > Limit)
      <4>1. w = [work[r][p] EXCEPT !.pc = "again"]
        BY <3>1, <3>5
      <4>2. w \in Work /\ w.pc = "again" /\ w.file = work[r][p].file
        BY <1>0, <4>1 DEF Work, Steps
      <4> QED
        BY <1>0, <3>2, <4>2, WorkSet
    <3> QED
      BY <3>4, <3>5
  <2>2. CASE CheckAgain(r, p)
    <3>1. PICK pc \in {"source", "end"} : To(r, p, pc)
      BY <2>2 DEF CheckAgain
    <3>2. pc \in Steps
      BY DEF Steps
    <3> QED
      BY <1>0, <3>1, <3>2, ToSet
  <2> QED
    BY <2>1, <2>2
<1>3. PassFits(p, work'[r][p])
  BY <1>0, <1>1, <1>2 DEF PassFits, Making
<1>4. UNCHANGED <<queue, model, result, lease, crossed, strayed>>
  BY DEF Start, CheckAgain, ghosts
<1>6. JobsFall
  BY <1>0, JobsSet, SameFall, FallSet DEF Start, CheckAgain, Statuses
<1> QED
  BY <1>0, <1>1, <1>2, <1>3, <1>4, <1>6, PassKeeps DEF QueueShape, JobsFall

(* The source is read from the store, or cannot be. *)
LEMMA SourceKeeps ==
  ASSUME QueueInv, NEW r \in Replicas, NEW p \in Prints,
         ReadSource(r, p) \/ SourceFails(r, p)
  PROVE  QueueInv'
<1>0. Shape /\ QueueShape /\ work[r][p] \in Work /\ PassFits(p, work[r][p])
  BY PassNow
<1>1. work[r][p].pc = "source" /\ Claimed(r, p) /\ model[p] # None
  BY <1>0 DEF Claimed, ReadSource, SourceFails, At, PassFits
<1>2. PICK pc \in {"make", "fail", "caught"}, kind \in Kinds, w \in Work :
        /\ w.pc = pc /\ w.file = work[r][p].file /\ w.kind = kind
        /\ work' = [work EXCEPT ![r][p] = w]
        /\ pc = "make" => w.file = model[p]
        /\ pc = "fail" => w.kind = "failed"
  <2> DEFINE S == work[r][p].wants
  <2>0. S \in SUBSET Stages
    BY <1>0 DEF Work
  <2>1. CASE ReadSource(r, p) /\ work[r][p].file = model[p]
    <3>1. PICK w : w = [work[r][p] EXCEPT !.pc = "make", !.todo = S]
      OBVIOUS
    <3>2. work' = [work EXCEPT ![r][p] = w]
      BY <2>1, <3>1 DEF ReadSource
    <3> HIDE DEF S
    <3>3. w \in Work /\ w.pc = "make" /\ w.file = work[r][p].file
      BY <1>0, <2>0, <3>1 DEF Work, Steps
    <3>4. w.kind \in Kinds
      BY <3>3 DEF Work
    <3> QED
      BY <2>1, <3>2, <3>3, <3>4
  <2>2. CASE ReadSource(r, p) /\ work[r][p].file # model[p]
    <3>1. PICK w : w = [work[r][p] EXCEPT !.pc = "fail", !.todo = S, !.kind = "failed"]
      OBVIOUS
    <3>2. work' = [work EXCEPT ![r][p] = w]
      BY <2>2, <3>1 DEF ReadSource
    <3> HIDE DEF S
    <3>3. w \in Work /\ w.pc = "fail" /\ w.file = work[r][p].file /\ w.kind = "failed" /\ "failed" \in Kinds
      BY <1>0, <2>0, <3>1 DEF Work, Steps, Kinds
    <3> QED
      BY <3>2, <3>3
  <2>3. CASE SourceFails(r, p)
    <3>1. PICK kind \in {"transient", "fatal"} :
            work' = [work EXCEPT ![r][p] = [@ EXCEPT !.pc = "caught", !.todo = S, !.kind = kind]]
      BY <2>3 DEF SourceFails
    <3>2. PICK w : w = [work[r][p] EXCEPT !.pc = "caught", !.todo = S, !.kind = kind]
      OBVIOUS
    <3>3. work' = [work EXCEPT ![r][p] = w]
      BY <3>1, <3>2, Zenon
    <3> HIDE DEF S
    <3>4. w \in Work /\ w.pc = "caught" /\ w.file = work[r][p].file /\ w.kind = kind /\ kind \in Kinds
      BY <1>0, <2>0, <3>2 DEF Work, Steps, Kinds
    <3> QED
      BY <3>3, <3>4
  <2> QED
    BY <2>1, <2>2, <2>3
<1>3. work' \in [Replicas -> [Prints -> Work]] /\ work'[r][p] = w /\ Others(r, p)
  BY <1>0, <1>2, WorkSet
<1>4. PassFits(p, work'[r][p])
  BY <1>0, <1>1, <1>2, <1>3 DEF PassFits, Making
<1>5. UNCHANGED <<jobs, queue, model, result, lease, crossed, strayed>>
  BY DEF ReadSource, SourceFails, rows, ghosts
<1> QED
  BY <1>0, <1>1, <1>3, <1>4, <1>5, PassKeeps DEF Shape, QueueShape, JobsFall

(* The pipeline fails, or its lease is found to be lost. *)
LEMMA FaultsKeep ==
  ASSUME QueueInv, NEW r \in Replicas, NEW p \in Prints,
         PassFails(r, p) \/ InvalidMesh(r, p) \/ WriteFails(r, p) \/ LeaseLost(r, p)
  PROVE  QueueInv'
<1>0. Shape /\ QueueShape /\ work[r][p] \in Work /\ PassFits(p, work[r][p])
  BY PassNow
<1>1. Claimed(r, p)
  BY DEF Claimed, PassFails, InvalidMesh, WriteFails, LeaseLost, Aborted, At
<1>2. CASE (PassFails(r, p) \/ LeaseLost(r, p)) /\ To(r, p, "end")
  <2>1. work' \in [Replicas -> [Prints -> Work]] /\ Others(r, p)
        /\ work'[r][p].pc = "end" /\ work'[r][p].file = work[r][p].file
    BY <1>0, <1>2, ToSet DEF Steps
  <2>2. PassFits(p, work'[r][p])
    BY <1>0, <2>1 DEF PassFits, Making
  <2>3. UNCHANGED <<jobs, queue, model, result, lease, crossed, strayed>>
    BY <1>2 DEF PassFails, LeaseLost, rows
  <2> QED
    BY <1>0, <1>1, <2>1, <2>2, <2>3, PassKeeps, SameFall DEF QueueShape
<1>3. ASSUME NEW kind \in Kinds, Fails(r, p, "stages", kind),
             UNCHANGED <<jobs, queue, model, result, lease, crossed, strayed>>,
             work[r][p].pc \in {"make", "thumbnail", "measure", "preview"}
      PROVE  QueueInv'
  <2>1. work' \in [Replicas -> [Prints -> Work]] /\ Others(r, p)
        /\ work'[r][p].pc = "stages" /\ work'[r][p].file = work[r][p].file
    BY <1>0, <1>3, FailsSet DEF Steps
  <2>2. PassFits(p, work'[r][p])
    BY <1>0, <1>3, <2>1 DEF PassFits, Making
  <2> QED
    BY <1>0, <1>1, <1>3, <2>1, <2>2, PassKeeps, SameFall DEF QueueShape
<1>4. CASE InvalidMesh(r, p)
  BY <1>3, <1>4 DEF InvalidMesh, Kinds, At, rows
<1>5. CASE WriteFails(r, p)
  BY <1>3, <1>5 DEF WriteFails, Kinds, rows
<1>6. CASE LeaseLost(r, p) /\ ~To(r, p, "end")
  BY <1>3, <1>6 DEF LeaseLost, Kinds, rows
<1> QED
  BY <1>2, <1>4, <1>5, <1>6 DEF PassFails

(* Its catch reads which stages are running. *)
LEMMA ReadRunningKeeps ==
  ASSUME QueueInv, NEW r \in Replicas, NEW p \in Prints, ReadRunning(r, p)
  PROVE  QueueInv'
<1>0. Shape /\ QueueShape /\ work[r][p] \in Work /\ PassFits(p, work[r][p])
  BY PassNow
<1>1. work[r][p].pc = "stages" /\ Claimed(r, p) /\ model[p] # None
  BY <1>0 DEF Claimed, ReadRunning, At, PassFits
<1> DEFINE S == Where(p, {"running"})
           pc == IF work[r][p].kind = "mesh" THEN "fail" ELSE "caught"
           kind == IF work[r][p].kind = "mesh" THEN "failed" ELSE work[r][p].kind
<1>2. PICK w : w = [work[r][p] EXCEPT !.todo = S, !.pc = pc, !.kind = kind]
  OBVIOUS
<1>3. work' = [work EXCEPT ![r][p] = w]
  BY <1>2, Zenon DEF ReadRunning
<1>4. S \in SUBSET Stages /\ pc \in {"fail", "caught"} /\ kind \in Kinds /\ (pc = "fail" => kind = "failed")
  BY <1>0 DEF Where, Work, Kinds
<1> HIDE DEF S, pc, kind
<1>5. w \in Work /\ w.pc = pc /\ w.file = work[r][p].file /\ w.kind = kind
  BY <1>0, <1>2, <1>4 DEF Work, Steps
<1>6. work' \in [Replicas -> [Prints -> Work]] /\ work'[r][p] = w /\ Others(r, p)
  BY <1>0, <1>3, <1>5, WorkSet
<1>7. PassFits(p, work'[r][p])
  BY <1>0, <1>1, <1>4, <1>5, <1>6 DEF PassFits, Making
<1>8. UNCHANGED <<jobs, queue, model, result, lease, crossed, strayed>>
  BY DEF ReadRunning, rows, ghosts
<1> QED
  BY <1>0, <1>1, <1>6, <1>7, <1>8, PassKeeps, SameFall DEF QueueShape

(* retry, within its bound, with a timer unless the queue stops. *)
LEMMA RetryKeeps ==
  ASSUME QueueInv, NEW r \in Replicas, NEW p \in Prints, Retry(r, p)
  PROVE  QueueInv'
<1>0. Shape /\ QueueShape /\ work[r][p] \in Work /\ PassFits(p, work[r][p])
      /\ queue[r] \in QueueWith(queue[r].bytes)
  BY PassNow DEF QueueShape
<1>1. work[r][p].pc = "caught" /\ Claimed(r, p) /\ To(r, p, "end")
  BY DEF Claimed, Retry, At
<1>2. work' \in [Replicas -> [Prints -> Work]] /\ Others(r, p)
      /\ work'[r][p].pc = "end" /\ work'[r][p].file = work[r][p].file
  BY <1>0, <1>1, ToSet DEF Steps
<1>3. PassFits(p, work'[r][p])
  BY <1>0, <1>2 DEF PassFits, Making
<1>4. JobsFall
  BY <1>0, FallSet DEF Retry, Statuses
<1>5. QueueShape'
  <2>1. CASE UNCHANGED queue
    BY <1>0, <2>1 DEF QueueShape
  <2>2. CASE ~UNCHANGED queue
    BY <1>0, <2>2, AgainSet DEF Retry
  <2> QED
    BY <2>1, <2>2
<1>6. UNCHANGED <<model, result, lease, crossed, strayed>>
  BY DEF Retry
<1> QED
  BY <1>0, <1>1, <1>2, <1>3, <1>4, <1>5, <1>6, PassKeeps

(* fail, one stage after the other; the retries are forgotten when a pass is done. *)
LEMMA EndingKeeps ==
  ASSUME QueueInv, NEW r \in Replicas, NEW p \in Prints,
         GiveUp(r, p) \/ FailStage(r, p) \/ Done(r, p)
  PROVE  QueueInv'
<1>0. Shape /\ QueueShape /\ work[r][p] \in Work /\ PassFits(p, work[r][p])
  BY PassNow
<1>1. Claimed(r, p) /\ work[r][p].pc \in {"caught", "fail", "done"} /\ model[p] # None
  BY <1>0 DEF Claimed, GiveUp, FailStage, Done, At, PassFits
<1>2. UNCHANGED <<model, result, lease, crossed, strayed>>
  BY DEF GiveUp, FailStage, Done, rows, ghosts
<1>3. CASE GiveUp(r, p)
  <2>1. PICK w : w = [work[r][p] EXCEPT !.pc = "fail", !.kind = "storage"]
    OBVIOUS
  <2>2. w \in Work /\ w.pc = "fail" /\ w.kind = "storage" /\ w.file = work[r][p].file
    BY <1>0, <2>1 DEF Work, Steps, Kinds
  <2>3. work' = [work EXCEPT ![r][p] = w]
    BY <1>3, <2>1 DEF GiveUp
  <2>4. work' \in [Replicas -> [Prints -> Work]] /\ work'[r][p] = w /\ Others(r, p)
    BY <1>0, <2>2, <2>3, WorkSet
  <2>5. PassFits(p, work'[r][p])
    BY <1>0, <1>1, <2>2, <2>4 DEF PassFits, Making
  <2> QED
    BY <1>0, <1>1, <1>2, <1>3, <2>4, <2>5, PassKeeps, SameFall DEF GiveUp, rows, QueueShape
<1>4. CASE FailStage(r, p) /\ work[r][p].todo = {}
  <2>1. To(r, p, "done") /\ UNCHANGED <<queue, jobs>>
    BY <1>4 DEF FailStage
  <2>2. work' \in [Replicas -> [Prints -> Work]] /\ Others(r, p)
        /\ work'[r][p].pc = "done" /\ work'[r][p].file = work[r][p].file
    BY <1>0, <2>1, ToSet DEF Steps
  <2>3. PassFits(p, work'[r][p])
    BY <1>0, <1>1, <2>2 DEF PassFits, Making
  <2> QED
    BY <1>0, <1>1, <1>2, <2>1, <2>2, <2>3, PassKeeps, SameFall DEF QueueShape
<1>5. CASE FailStage(r, p) /\ work[r][p].todo # {}
  <2> DEFINE S == work[r][p].todo \ {NextStage(work[r][p].todo)}
  <2>1. PICK w : w = [work[r][p] EXCEPT !.todo = S]
    OBVIOUS
  <2>2. work' = [work EXCEPT ![r][p] = w]
    BY <1>0, <1>5, <2>1 DEF FailStage, Shape
  <2>3. S \in SUBSET Stages
    BY <1>0 DEF Work
  <2> HIDE DEF S
  <2>4. w \in Work /\ w.pc = work[r][p].pc /\ w.file = work[r][p].file /\ w.kind = work[r][p].kind
    BY <1>0, <2>1, <2>3 DEF Work
  <2>5. work' \in [Replicas -> [Prints -> Work]] /\ work'[r][p] = w /\ Others(r, p)
    BY <1>0, <2>2, <2>4, WorkSet
  <2>6. PassFits(p, work'[r][p])
    BY <1>0, <2>4, <2>5 DEF PassFits
  <2>7. work[r][p].kind \in Statuses \ {"ready"} /\ UNCHANGED queue
        /\ jobs' = With(p, {NextStage(work[r][p].todo)}, work[r][p].kind)
    BY <1>0, <1>5 DEF FailStage, At, PassFits, Statuses
  <2>8. JobsFall
    BY <1>0, <2>7, FallSet
  <2> QED
    BY <1>0, <1>1, <1>2, <2>5, <2>6, <2>7, <2>8, PassKeeps DEF QueueShape
<1>6. CASE Done(r, p)
  <2>1. To(r, p, "end") /\ UNCHANGED jobs
    BY <1>6 DEF Done, rows
  <2>2. work' \in [Replicas -> [Prints -> Work]] /\ Others(r, p)
        /\ work'[r][p].pc = "end" /\ work'[r][p].file = work[r][p].file
    BY <1>0, <2>1, ToSet DEF Steps
  <2>3. PassFits(p, work'[r][p])
    BY <1>0, <2>2 DEF PassFits, Making
  <2>4. QueueShape'
    <3>1. queue[r] \in QueueWith(queue[r].bytes) /\ DOMAIN queue = Replicas
      BY <1>0 DEF QueueShape
    <3>2. PICK f : f = [queue[r].retries EXCEPT ![p] = 0]
      OBVIOUS
    <3>3. f \in [Prints -> 0..MaxRetries]
      BY <3>1, <3>2, QueueAssumption DEF QueueWith
    <3>4. PICK q : q = [queue[r] EXCEPT !.retries = f]
      OBVIOUS
    <3>5. queue' = [queue EXCEPT ![r] = q]
      BY <1>6, <3>1, <3>2, <3>4 DEF Done, QueueWith
    <3>6. q \in QueueWith(queue[r].bytes)
      BY <3>1, <3>3, <3>4 DEF QueueWith
    <3> QED
      BY <1>0, <3>5, <3>6, QueueSet
  <2> QED
    BY <1>0, <1>1, <1>2, <2>1, <2>2, <2>3, <2>4, PassKeeps, SameFall
<1> QED
  BY <1>3, <1>4, <1>5, <1>6

-----------------------------------------------------------------------------
(* What a result is written over: the pass writes it from the file it read. *)
LEMMA ResultKeeps ==
  ASSUME QueueInv, NEW r \in Replicas, NEW p \in Prints, NEW R \in SUBSET Stages,
         work[r][p].pc \in Making, NEW J \in SUBSET Stages, J \subseteq R \cup {"geometry"},
         "geometry" \in J => work[r][p].pc = "geometry",
         jobs' = With(p, J, "ready") \/ (J = {} /\ UNCHANGED jobs),
         result' \in [Prints -> [Stages -> Version]],
         \A x \in Prints, z \in Stages :
           result'[x][z] = IF x = p /\ z \in R THEN work[r][p].file ELSE result[x][z],
         UNCHANGED <<model, lease, queue, crossed, strayed>>,
         work' \in [Replicas -> [Prints -> Work]], Others(r, p),
         work'[r][p].pc \in (Making \cup {"done"}) \ {"make"}, work'[r][p].file = work[r][p].file,
         work'[r][p].pc \in {"geometry", "preview"} =>
           work[r][p].pc \in {"geometry", "preview"} \/ "geometry" \notin Stages \/ "geometry" \in R
  PROVE  QueueInv'
<1>0. Shape /\ QueueShape /\ work[r][p] \in Work /\ PassFits(p, work[r][p])
  BY PassNow
<1>1. model[p] # None /\ work[r][p].file # None /\ (p \notin crossed => work[r][p].file = model[p])
  BY <1>0 DEF PassFits, Making
<1>2. /\ jobs' \in [Prints -> [Stages -> Statuses]]
      /\ \A x \in Prints, z \in Stages : jobs'[x][z] = IF x = p /\ z \in J THEN "ready" ELSE jobs[x][z]
  BY <1>0, JobsSet DEF Statuses, Shape
<1>3. Shape'
  BY <1>0, <1>2 DEF Shape, QueueShape
<1>4. Leased'
  BY DEF QueueInv, Leased, Claimed, Others, Making
<1>5. PassesFit'
  <2> SUFFICES ASSUME NEW q \in Replicas, NEW x \in Prints
               PROVE  PassFits(x, work[q][x])'
    BY DEF PassesFit
  <2>1. PassFits(x, work[q][x]) /\ work[q][x] \in Work
    BY PassNow
  <2>2. CASE x # p
    <3>1. work'[q][x] = work[q][x] /\ ("geometry" \in Stages => result'[x]["geometry"] = result[x]["geometry"])
      BY <2>2 DEF Others
    <3> QED
      BY <2>1, <3>1 DEF PassFits
  <2>3. CASE x = p /\ q # r
    <3>1. work'[q][x] = work[q][x]
      BY <2>3 DEF Others
    <3>2. CASE work[q][x].pc \in {"geometry", "preview"} /\ x \notin crossed
      <4>1. work[q][x].file = work[r][p].file
        BY <1>1, <2>1, <2>3, <3>2 DEF PassFits, Making
      <4> QED
        BY <2>1, <2>3, <3>1, <3>2, <4>1 DEF PassFits
    <3>3. CASE ~(work[q][x].pc \in {"geometry", "preview"} /\ x \notin crossed)
      BY <2>1, <3>1, <3>3 DEF PassFits
    <3> QED
      BY <3>2, <3>3
  <2>4. CASE x = p /\ q = r
    BY <1>1, <2>1, <2>4 DEF PassFits, Making
  <2> QED
    BY <2>2, <2>3, <2>4
<1>6. NothingWithoutModel'
  <2>1. ASSUME NEW x \in Prints, model[x] = None
        PROVE  x \notin crossed /\ \A z \in Stages : jobs'[x][z] # "ready" /\ result'[x][z] = None
    <3>1. x # p /\ x \notin crossed /\ \A z \in Stages : jobs[x][z] # "ready" /\ result[x][z] = None
      BY <1>1, <2>1 DEF QueueInv, NothingWithoutModel
    <3>2. ASSUME NEW z \in Stages
          PROVE  jobs'[x][z] = jobs[x][z] /\ result'[x][z] = result[x][z]
      BY <1>2, <3>1
    <3> QED
      BY <3>1, <3>2
  <2> QED
    BY <2>1 DEF NothingWithoutModel
<1>7. ResultsFit'
  <2> SUFFICES ASSUME NEW x \in Prints \ crossed, NEW z \in Stages
               PROVE  result'[x][z] \in {None, model[x]} /\ (jobs'[x][z] = "ready" => result'[x][z] = model[x])
    BY DEF ResultsFit
  <2>1. result[x][z] \in {None, model[x]} /\ (jobs[x][z] = "ready" => result[x][z] = model[x])
    BY DEF QueueInv, ResultsFit
  <2>2. CASE x = p /\ z \in R
    BY <1>1, <2>2
  <2>3. CASE x = p /\ z \in J /\ z \notin R
    <3>1. z = "geometry" /\ work[r][p].pc = "geometry"
      BY <2>3
    <3>2. result[p]["geometry"] = work[r][p].file
      BY <1>0, <2>3, <3>1 DEF PassFits
    <3> QED
      BY <1>1, <2>3, <3>1, <3>2
  <2>4. CASE ~(x = p /\ z \in R \cup J)
    BY <1>2, <2>1, <2>4
  <2> QED
    BY <2>2, <2>3, <2>4
<1> QED
  BY <1>3, <1>4, <1>5, <1>6, <1>7 DEF QueueInv

(* The dimensions, and the other results with their job. *)
LEMMA MeasureKeeps ==
  ASSUME QueueInv, NEW r \in Replicas, NEW p \in Prints, SetModelDimensions(r, p)
  PROVE  QueueInv'
<1>0. Shape /\ work[r][p] \in Work
  BY PassNow
<1> DEFINE pc == NextStage(work[r][p].todo)
           R == {"geometry"} \cap Stages
<1>1. work[r][p].pc = "measure" /\ work[r][p].file \in Version /\ pc \in Stages \cup {"done"}
      /\ To(r, p, pc) /\ UNCHANGED <<model, jobs, lease, queue, crossed, strayed>>
  BY <1>0, NextStageIsLeft DEF SetModelDimensions, At, ghosts, Work
<1>2. pc \in (Making \cup {"done"}) \ {"make"} /\ pc \in Steps
  BY <1>1, QueueAssumption DEF Making, Steps
<1>3. pc = "geometry" => "geometry" \in Stages
  BY <1>1
<1> HIDE DEF pc
<1>4. work' \in [Replicas -> [Prints -> Work]] /\ Others(r, p) /\ work'[r][p].pc = pc
      /\ work'[r][p].file = work[r][p].file
  BY <1>0, <1>1, <1>2, ToSet
<1>5. /\ result' \in [Prints -> [Stages -> Version]]
      /\ \A x \in Prints, z \in Stages :
           result'[x][z] = IF x = p /\ z \in R THEN work[r][p].file ELSE result[x][z]
  BY <1>0, <1>1 DEF SetModelDimensions, Shape
<1>6. work[r][p].pc \in Making
  BY <1>1 DEF Making
<1>7. {} \in SUBSET Stages /\ R \in SUBSET Stages /\ ("geometry" \notin Stages \/ "geometry" \in R)
  OBVIOUS
<1>8. UNCHANGED <<model, lease, queue, crossed, strayed>> /\ UNCHANGED jobs
  BY <1>1
<1> HIDE DEF R
<1> QED
  BY <1>2, <1>4, <1>5, <1>6, <1>7, <1>8, ResultKeeps

(* finishAssetGeneration, for a pass that came this far. *)
LEMMA FinishKeeps ==
  ASSUME QueueInv, NEW r \in Replicas, NEW p \in Prints, Finish(r, p)
  PROVE  QueueInv'
<1>0. Shape /\ work[r][p] \in Work
  BY PassNow
<1> DEFINE s == work[r][p].pc
           rest == work[r][p].todo \ {s}
           pc == IF s = "thumbnail" THEN "measure" ELSE NextStage(rest)
           J == {s}
           R == {s} \ {"geometry"}
<1>1. s \in Stages /\ s \in Making /\ work[r][p].file \in Version /\ rest \in SUBSET Stages
  BY <1>0, QueueAssumption DEF Finish, Making, Work
<1>2. UNCHANGED <<model, lease, queue, crossed, strayed>> /\ jobs' = With(p, J, "ready")
  BY DEF Finish, ghosts
<1>3. pc \in Stages \cup {"measure", "done"}
  BY <1>1, NextStageIsLeft
<1>4. pc \in (Making \cup {"done"}) \ {"make"} /\ pc \in Steps
  BY <1>3, QueueAssumption DEF Making, Steps
<1>5. pc \in {"geometry", "preview"} => s \in {"geometry", "preview"}
  BY <1>1, QueueAssumption
<1>6. work' = [work EXCEPT ![r][p] = [work[r][p] EXCEPT !.todo = rest, !.pc = pc]]
  BY DEF Finish
<1>7. /\ result' \in [Prints -> [Stages -> Version]]
      /\ \A x \in Prints, z \in Stages :
           result'[x][z] = IF x = p /\ z \in R THEN work[r][p].file ELSE result[x][z]
  <2>1. CASE s = "geometry"
    BY <1>0, <2>1 DEF Finish, Shape
  <2>2. CASE s # "geometry"
    BY <1>0, <1>1, <2>2 DEF Finish, Shape
  <2> QED
    BY <2>1, <2>2
<1>8. J \in SUBSET Stages /\ R \in SUBSET Stages /\ J \subseteq R \cup {"geometry"}
      /\ ("geometry" \in J => s = "geometry")
  BY <1>1
<1> HIDE DEF rest, pc, J, R
<1>9. PICK w : w = [work[r][p] EXCEPT !.todo = rest, !.pc = pc]
  OBVIOUS
<1>10. w \in Work /\ w.pc = pc /\ w.file = work[r][p].file
  BY <1>0, <1>1, <1>4, <1>9 DEF Work
<1>11. work' \in [Replicas -> [Prints -> Work]] /\ Others(r, p) /\ work'[r][p] = w
  BY <1>0, <1>6, <1>9, <1>10, WorkSet
<1> HIDE DEF s
<1>12. work[r][p].pc = s
  BY DEF s
<1>13. /\ work[r][p].pc \in Making
       /\ work'[r][p].pc \in (Making \cup {"done"}) \ {"make"}
       /\ work'[r][p].file = work[r][p].file
       /\ ("geometry" \in J => work[r][p].pc = "geometry")
       /\ (work'[r][p].pc \in {"geometry", "preview"} => work[r][p].pc \in {"geometry", "preview"})
  BY <1>1, <1>4, <1>5, <1>8, <1>10, <1>11, <1>12
<1> QED
  BY <1>2, <1>7, <1>8, <1>11, <1>13, ResultKeeps

-----------------------------------------------------------------------------
(* A pass that does not run fits whatever print it is for. *)
LEMMA AtRestFits ==
  ASSUME NEW p \in Prints, NEW w, w.pc \in {"none", "waiting"}, w.file = None
  PROVE  PassFits(p, w) /\ PassFits(p, w)'
  BY DEF PassFits, Making

(* Passes that do not run. *)
LEMMA NoWorkRests ==
  /\ NoWork \in Work /\ NoWork.pc = "none" /\ NoWork.file = None
  /\ [NoWork EXCEPT !.pc = "waiting"] \in Work
  /\ [NoWork EXCEPT !.pc = "waiting"].pc = "waiting" /\ [NoWork EXCEPT !.pc = "waiting"].file = None
  BY DEF NoWork, Work, Steps, Kinds, Version

(* A pass begins with the lease, or does not begin, or ends. *)
LEMMA LeaseKeeps ==
  ASSUME QueueInv, NEW r \in Replicas, NEW p \in Prints,
         Claim(r, p) \/ NotClaimed(r, p) \/ End(r, p)
  PROVE  QueueInv'
<1>0. Shape /\ QueueShape /\ work[r][p] \in Work /\ PassFits(p, work[r][p])
  BY PassNow
<1>1. UNCHANGED <<jobs, model, result, queue, crossed, strayed>>
  BY DEF Claim, NotClaimed, End, rows, ghosts
<1>2. /\ work' \in [Replicas -> [Prints -> Work]] /\ Others(r, p)
      /\ PassFits(p, work'[r][p]) /\ (Claimed(r, p)' => Claim(r, p))
  <2>1. CASE Claim(r, p)
    <3>1. To(r, p, "check") /\ "check" \in Steps
      BY <2>1 DEF Claim, Steps
    <3>2. work' \in [Replicas -> [Prints -> Work]] /\ Others(r, p)
          /\ work'[r][p].pc = "check" /\ work'[r][p].file = work[r][p].file
      BY <1>0, <3>1, ToSet
    <3> QED
      BY <1>0, <2>1, <3>2 DEF PassFits, Making
  <2>2. CASE NotClaimed(r, p) \/ End(r, p)
    <3>1. work' = [work EXCEPT ![r][p] = NoWork]
      BY <2>2 DEF NotClaimed, End
    <3>2. work' \in [Replicas -> [Prints -> Work]] /\ Others(r, p) /\ work'[r][p] = NoWork
      BY <1>0, <3>1, NoWorkRests, WorkSet
    <3> QED
      BY <3>2, NoWorkRests, AtRestFits DEF Claimed
  <2> QED
    BY <2>1, <2>2
<1>3. /\ lease' \in [Prints -> Replicas \cup {None}]
      /\ \A x \in Prints : lease'[x] # lease[x] => x = p /\ (Claim(r, p) \/ lease[p] = r)
      /\ Claim(r, p) => lease[p] = None /\ lease'[p] = r
  BY <1>0 DEF Claim, NotClaimed, End, Shape
<1>4. Shape'
  BY <1>0, <1>1, <1>2, <1>3 DEF Shape, QueueShape
<1>5. Leased'
  <2> SUFFICES ASSUME NEW q \in Replicas, NEW x \in Prints \ strayed, Claimed(q, x)'
               PROVE  lease'[x] = q
    BY <1>1 DEF Leased
  <2>1. CASE q = r /\ x = p
    BY <1>2, <1>3, <2>1
  <2>2. CASE ~(q = r /\ x = p)
    <3>1. work'[q][x] = work[q][x]
      BY <1>2, <2>2 DEF Others
    <3>2. Claimed(q, x) /\ lease[x] = q
      BY <3>1 DEF QueueInv, Leased, Claimed
    <3>3. q # None
      BY QueueAssumption
    <3> QED
      BY <1>3, <2>2, <3>2, <3>3
  <2> QED
    BY <2>1, <2>2
<1>6. PassesFit'
  BY <1>1, <1>2 DEF QueueInv, PassesFit, PassFits, Others
<1>7. NothingWithoutModel' /\ ResultsFit'
  BY <1>1 DEF QueueInv, NothingWithoutModel, ResultsFit
<1> QED
  BY <1>4, <1>5, <1>6, <1>7 DEF QueueInv

-----------------------------------------------------------------------------
(* The queue objects start passes, or drop them all. *)
Rested == /\ work' \in [Replicas -> [Prints -> Work]]
          /\ \A q \in Replicas, x \in Prints :
               \/ work'[q][x] = work[q][x]
               \/ work'[q][x].pc \in {"none", "waiting"} /\ work'[q][x].file = None

(* That keeps the invariant. *)
LEMMA RestedKeeps ==
  ASSUME QueueInv, QueueShape', JobsFall, Rested, UNCHANGED <<model, result, lease, crossed, strayed>>
  PROVE  QueueInv'
<1>1. Shape'
  BY DEF QueueInv, Shape, JobsFall, Rested
<1>2. Leased'
  BY DEF QueueInv, Leased, Claimed, Rested
<1>3. PassesFit'
  BY AtRestFits DEF QueueInv, PassesFit, PassFits, Rested
<1>4. NothingWithoutModel' /\ ResultsFit'
  BY DEF QueueInv, NothingWithoutModel, ResultsFit, JobsFall
<1> QED
  BY <1>1, <1>2, <1>3, <1>4 DEF QueueInv

(* add. *)
LEMMA AddedRests ==
  ASSUME Shape, NEW r \in Replicas, NEW ps, Added(r, ps)
  PROVE  Rested
<1>1. PICK w : w = [NoWork EXCEPT !.pc = "waiting"]
  OBVIOUS
<1>2. work' = [work EXCEPT ![r] = [p \in Prints |-> IF p \in ps /\ ~Queued(r, p) THEN w ELSE work[r][p]]]
  BY <1>1, Zenon DEF Added
<1>3. w \in Work /\ w.pc = "waiting" /\ w.file = None
  BY <1>1, NoWorkRests
<1>4. work' \in [Replicas -> [Prints -> Work]]
  BY <1>2, <1>3 DEF Shape
<1>5. ASSUME NEW q \in Replicas, NEW x \in Prints
      PROVE  work'[q][x] = work[q][x] \/ work'[q][x] = w
  BY <1>2 DEF Shape
<1> QED
  BY <1>3, <1>4, <1>5 DEF Rested

(* A queue object that is dropped, and its passes with it. *)
LEMMA DroppedRests ==
  ASSUME Shape, NEW r \in Replicas, work' = [work EXCEPT ![r] = [p \in Prints |-> NoWork]]
  PROVE  Rested
<1>1. work' \in [Replicas -> [Prints -> Work]]
  BY NoWorkRests DEF Shape
<1>2. ASSUME NEW q \in Replicas, NEW x \in Prints
      PROVE  work'[q][x] = work[q][x] \/ work'[q][x] = NoWork
  BY DEF Shape
<1> QED
  BY <1>1, <1>2, NoWorkRests DEF Rested

(* Nothing starts. *)
LEMMA SameRests ==
  ASSUME Shape, UNCHANGED work
  PROVE  Rested
<1>1. work' \in [Replicas -> [Prints -> Work]]
  BY DEF Shape
<1> QED
  BY <1>1, Zenon DEF Rested

(* A new queue object, or none. *)
LEMMA NewQueueShape ==
  ASSUME Shape, NEW r \in Replicas,
         \/ queue' = [queue EXCEPT ![r] = NewQueue]
         \/ queue' = [queue EXCEPT ![r] = [NewQueue EXCEPT !.pc = "new"]]
  PROVE  QueueShape'
<1>1. NewQueue \in QueueWith(<<>>)
  BY QueueAssumption DEF NewQueue, QueueWith
<1>2. PICK q : q = [NewQueue EXCEPT !.pc = "new"]
  OBVIOUS
<1>3. q \in QueueWith(<<>>)
  BY <1>1, <1>2 DEF QueueWith
<1> QED
  BY <1>1, <1>2, <1>3, QueueSet

(* One that goes on, stops, or has other prints or timers to see to. *)
LEMMA ObjectShape ==
  ASSUME Shape, NEW r \in Replicas, NEW q,
         queue' = [queue EXCEPT ![r] = q],
         \/ q = [queue[r] EXCEPT !.pc = "on"]
         \/ \E F \in SUBSET Prints : q = [queue[r] EXCEPT !.fed = F]
         \/ \E T \in SUBSET Prints : q = [queue[r] EXCEPT !.timers = T]
         \/ q = [queue[r] EXCEPT !.stopping = TRUE, !.timers = {}]
  PROVE  QueueShape'
<1>1. queue[r] \in QueueWith(queue[r].bytes)
  BY DEF Shape, QueueShape
<1>2. q \in QueueWith(queue[r].bytes)
  <2>1. CASE q = [queue[r] EXCEPT !.pc = "on"]
    BY <1>1, <2>1 DEF QueueWith
  <2>2. ASSUME NEW F \in SUBSET Prints, q = [queue[r] EXCEPT !.fed = F]
        PROVE  q \in QueueWith(queue[r].bytes)
    BY <1>1, <2>2 DEF QueueWith
  <2>3. ASSUME NEW T \in SUBSET Prints, q = [queue[r] EXCEPT !.timers = T]
        PROVE  q \in QueueWith(queue[r].bytes)
    BY <1>1, <2>3 DEF QueueWith
  <2>4. CASE q = [queue[r] EXCEPT !.stopping = TRUE, !.timers = {}]
    BY <1>1, <2>4 DEF QueueWith
  <2> QED
    BY <2>1, <2>2, <2>3, <2>4
<1> QED
  BY <1>2, QueueSet

(* The constructor, the backfill and the end of a queue object. *)
LEMMA ObjectKeeps ==
  ASSUME QueueInv, NEW r \in Replicas,
         Construct(r) \/ Backfill(r) \/ Closed(r) \/ Shutdown(r) \/ Crash(r)
  PROVE  QueueInv'
<1>0. Shape /\ QueueShape
  BY DEF QueueInv, Shape
<1>1. UNCHANGED <<model, result, lease, crossed, strayed>>
  BY DEF Construct, Backfill, Closed, Shutdown, Crash, rows, ghosts
<1>2. JobsFall
  <2>1. CASE Construct(r)
    BY <1>0, <2>1 DEF Construct, JobsFall, Shape, Statuses
  <2>2. CASE Backfill(r)
    <3>1. CASE UNCHANGED jobs
      BY <1>0, <3>1, SameFall
    <3>2. CASE ~UNCHANGED jobs
      BY <1>0, <2>2, <3>2 DEF Backfill, JobsFall, Shape, Statuses
    <3> QED
      BY <3>1, <3>2
  <2>3. CASE Closed(r) \/ Shutdown(r) \/ Crash(r)
    BY <1>0, <2>3, SameFall DEF Closed, Shutdown, Crash, rows
  <2> QED
    BY <2>1, <2>2, <2>3
<1>3. Rested
  BY <1>0, AddedRests, DroppedRests, SameRests DEF Construct, Backfill, Closed, Shutdown, Crash
<1>4. QueueShape'
  <2>1. CASE Construct(r) \/ Closed(r) \/ Crash(r)
    BY <1>0, <2>1, NewQueueShape DEF Construct, Closed, Crash
  <2>2. CASE Backfill(r)
    <3>1. PICK q : q = [queue[r] EXCEPT !.pc = "on"]
      OBVIOUS
    <3>2. queue' = [queue EXCEPT ![r] = q]
      BY <1>0, <2>2, <3>1 DEF Backfill, QueueShape
    <3> QED
      BY <1>0, <3>1, <3>2, ObjectShape
  <2>3. CASE Shutdown(r)
    <3>1. PICK q : q = [queue[r] EXCEPT !.stopping = TRUE, !.timers = {}]
      OBVIOUS
    <3>2. queue' = [queue EXCEPT ![r] = q]
      BY <2>3, <3>1 DEF Shutdown
    <3> QED
      BY <1>0, <3>1, <3>2, ObjectShape
  <2> QED
    BY <2>1, <2>2, <2>3
<1> QED
  BY <1>1, <1>2, <1>3, <1>4, RestedKeeps

(* What asks for a pass. *)
LEMMA AskingKeeps ==
  ASSUME QueueInv, NEW r \in Replicas, NEW p \in Prints,
         Enqueue(r, p) \/ RecoverStorageFailures(r, p) \/ Timer(r, p)
  PROVE  QueueInv'
<1>0. Shape /\ QueueShape /\ queue[r] \in QueueWith(queue[r].bytes)
  BY DEF QueueInv, Shape, QueueShape
<1>1. UNCHANGED <<model, result, lease, crossed, strayed>>
  BY DEF Enqueue, RecoverStorageFailures, Timer, rows
<1>2. JobsFall
  BY <1>0, FallSet, SameFall DEF Enqueue, RecoverStorageFailures, Timer, rows, Statuses
<1>3. Rested
  BY <1>0, AddedRests DEF Enqueue, RecoverStorageFailures, Timer
<1>4. QueueShape'
  <2>1. CASE Enqueue(r, p)
    <3> DEFINE F == queue[r].fed \ {p}
    <3>1. PICK q : q = [queue[r] EXCEPT !.fed = F]
      OBVIOUS
    <3>2. queue' = [queue EXCEPT ![r] = q] /\ F \in SUBSET Prints
      BY <1>0, <2>1, <3>1 DEF Enqueue, QueueShape, QueueWith
    <3> HIDE DEF F
    <3> QED
      BY <1>0, <3>1, <3>2, ObjectShape
  <2>2. CASE RecoverStorageFailures(r, p)
    BY <1>0, <2>2 DEF RecoverStorageFailures, QueueShape
  <2>3. CASE Timer(r, p)
    <3> DEFINE T == queue[r].timers \ {p}
    <3>1. PICK q : q = [queue[r] EXCEPT !.timers = T]
      OBVIOUS
    <3>2. queue' = [queue EXCEPT ![r] = q] /\ T \in SUBSET Prints
      BY <1>0, <2>3, <3>1 DEF Timer, QueueShape, QueueWith
    <3> HIDE DEF T
    <3> QED
      BY <1>0, <3>1, <3>2, ObjectShape
  <2> QED
    BY <2>1, <2>2, <2>3
<1> QED
  BY <1>1, <1>2, <1>3, <1>4, RestedKeeps

(* A print is given its first model, or another: then nothing is ready, and a pass that has
   read its request has been crossed. *)
LEMMA AttachKeeps ==
  ASSUME QueueInv, NEW r \in Replicas, NEW p \in Prints, Attach(r, p)
  PROVE  QueueInv'
<1>0. Shape /\ QueueShape /\ queue[r] \in QueueWith(queue[r].bytes)
  BY DEF QueueInv, Shape, QueueShape
<1>1. UNCHANGED <<lease, work, strayed>>
  BY DEF Attach
<1>2. /\ model' \in [Prints -> Version] /\ model'[p] \in Nat
      /\ \A x \in Prints \ {p} : model'[x] = model[x]
  BY <1>0 DEF Attach, Shape, Version
<1>3. /\ crossed' \in {crossed, crossed \cup {p}}
      /\ model[p] # None /\ p \notin crossed' => \A q \in Replicas : work[q][p].file = None
  BY DEF Attach
<1>4. /\ jobs' \in [Prints -> [Stages -> Statuses]] /\ result' \in [Prints -> [Stages -> Version]]
      /\ \A x \in Prints, s \in Stages :
           IF x = p THEN jobs'[x][s] # "ready" /\ result'[x][s] = None
           ELSE jobs'[x][s] = jobs[x][s] /\ result'[x][s] = result[x][s]
  <2>1. CASE model[p] = None
    BY <1>0, <2>1 DEF Attach, QueueInv, NothingWithoutModel, Shape
  <2>2. CASE model[p] # None
    <3>1. /\ jobs' = With(p, Where(p, {"pending", "running", "ready", "failed", "storage"}), "pending")
          /\ result' = [result EXCEPT ![p] = [s \in Stages |-> None]]
      BY <2>2 DEF Attach
    <3>2. result' \in [Prints -> [Stages -> Version]] /\ \A x \in Prints, s \in Stages :
            result'[x][s] = IF x = p THEN None ELSE result[x][s]
      BY <1>0, <3>1 DEF Shape, Version
    <3>3. jobs' \in [Prints -> [Stages -> Statuses]] /\ \A x \in Prints, s \in Stages :
            IF x = p THEN jobs'[x][s] # "ready" ELSE jobs'[x][s] = jobs[x][s]
      BY <1>0, <3>1, JobsSet DEF Where, Statuses
    <3> QED
      BY <3>2, <3>3
  <2> QED
    BY <2>1, <2>2
<1>5. QueueShape'
  <2> DEFINE F == queue[r].fed \cup {p}
  <2>1. PICK q : q = [queue[r] EXCEPT !.fed = F]
    OBVIOUS
  <2>2. queue' = [queue EXCEPT ![r] = q] /\ F \in SUBSET Prints
    BY <1>0, <2>1 DEF Attach, QueueShape, QueueWith
  <2> HIDE DEF F
  <2> QED
    BY <1>0, <2>1, <2>2, ObjectShape
<1>6. Shape'
  BY <1>0, <1>1, <1>2, <1>4, <1>5 DEF Shape
<1>7. Leased'
  BY <1>1 DEF QueueInv, Leased, Claimed
<1>8. model'[p] # None
  BY <1>2, QueueAssumption
<1>9. PassesFit'
  <2> SUFFICES ASSUME NEW q \in Replicas, NEW x \in Prints
               PROVE  PassFits(x, work[q][x])'
    BY DEF PassesFit
  <2>1. PassFits(x, work[q][x]) /\ work'[q][x] = work[q][x] /\ work[q][x] \in Work
    BY <1>1, PassNow
  <2>2. CASE x # p
    <3>1. "geometry" \in Stages => result'[x]["geometry"] = result[x]["geometry"]
      BY <1>4, <2>2
    <3>2. (x \in crossed' <=> x \in crossed) /\ model'[x] = model[x]
      BY <1>2, <1>3, <2>2
    <3> QED
      BY <2>1, <3>1, <3>2 DEF PassFits
  <2>3. CASE x = p /\ x \in crossed'
    BY <1>8, <2>1, <2>3 DEF PassFits
  <2>4. CASE x = p /\ x \notin crossed'
    <3>1. work[q][x].file = None
      BY <1>3, <2>1, <2>4 DEF PassFits
    <3>2. work[q][x].pc \notin Making
      BY <2>1, <3>1 DEF PassFits
    <3>3. work[q][x].pc \notin {"geometry", "preview"}
      BY <3>2 DEF Making
    <3> QED
      BY <1>8, <2>1, <2>4, <3>1, <3>2, <3>3 DEF PassFits
  <2> QED
    BY <2>2, <2>3, <2>4
<1>10. NothingWithoutModel'
  <2>1. ASSUME NEW x \in Prints, model'[x] = None
        PROVE  x \notin crossed' /\ \A s \in Stages : jobs'[x][s] # "ready" /\ result'[x][s] = None
    <3>1. x # p /\ model[x] = None
      BY <1>2, <1>8, <2>1
    <3>2. x \notin crossed /\ \A s \in Stages : jobs[x][s] # "ready" /\ result[x][s] = None
      BY <3>1 DEF QueueInv, NothingWithoutModel
    <3>3. ASSUME NEW s \in Stages
          PROVE  jobs'[x][s] = jobs[x][s] /\ result'[x][s] = result[x][s]
      BY <1>4, <3>1
    <3> QED
      BY <1>3, <3>1, <3>2, <3>3
  <2> QED
    BY <2>1 DEF NothingWithoutModel
<1>11. ResultsFit'
  BY <1>2, <1>3, <1>4 DEF QueueInv, ResultsFit
<1> QED
  BY <1>6, <1>7, <1>9, <1>10, <1>11 DEF QueueInv

-----------------------------------------------------------------------------
(* Migrations of the storage, and leases that run out: then the pass that held it strayed. *)
LEMMA AroundKeeps ==
  ASSUME QueueInv, Move \/ Moved \/ \E p \in Prints : RunOut(p)
  PROVE  QueueInv'
<1>0. Shape /\ QueueShape
  BY DEF QueueInv, Shape
<1>1. UNCHANGED <<model, jobs, result, work, crossed>>
  BY DEF Move, Moved, RunOut, rows, ghosts
<1>2. QueueShape'
  <2>1. CASE UNCHANGED queue
    BY <1>0, <2>1 DEF QueueShape
  <2>2. CASE Moved
    <3>1. queue' = [x \in Replicas |-> queue'[x]]
      BY <2>2 DEF Moved
    <3>2. ASSUME NEW x \in Replicas
          PROVE  queue'[x] \in QueueWith(queue'[x].bytes)
      <4>1. PICK b \in BOOLEAN : b = (queue[x].pc # "off")
        OBVIOUS
      <4>2. queue'[x] = [queue[x] EXCEPT !.stale = b]
        BY <2>2, <4>1 DEF Moved
      <4>3. queue[x] \in QueueWith(queue[x].bytes)
        BY <1>0 DEF QueueShape
      <4>4. queue'[x] \in QueueWith(queue[x].bytes)
        BY <4>2, <4>3 DEF QueueWith
      <4> QED
        BY <4>4 DEF QueueWith
    <3> QED
      BY <3>1, <3>2 DEF QueueShape
  <2> QED
    BY <2>1, <2>2 DEF Move, RunOut
<1>3. /\ lease' \in [Prints -> Replicas \cup {None}]
      /\ \A p \in Prints : lease'[p] # lease[p] =>
           p \in strayed' \/ \A r \in Replicas : lease[p] = r => ~Claimed(r, p)
      /\ strayed \subseteq strayed'
  <2>1. CASE Move \/ Moved
    BY <1>0, <2>1 DEF Move, Moved, Shape, ghosts
  <2>2. ASSUME NEW p \in Prints, RunOut(p)
        PROVE  /\ lease' \in [Prints -> Replicas \cup {None}]
               /\ \A x \in Prints : lease'[x] # lease[x] =>
                    x \in strayed' \/ \A r \in Replicas : lease[x] = r => ~Claimed(r, x)
               /\ strayed \subseteq strayed'
    BY <1>0, <2>2 DEF RunOut, Shape
  <2> QED
    BY <2>1, <2>2
<1>4. Shape'
  BY <1>0, <1>1, <1>2, <1>3 DEF Shape
<1>5. Leased'
  BY <1>1, <1>3 DEF QueueInv, Leased, Claimed
<1>6. PassesFit' /\ NothingWithoutModel' /\ ResultsFit'
  BY <1>1 DEF QueueInv, PassesFit, PassFits, NothingWithoutModel, ResultsFit
<1> QED
  BY <1>4, <1>5, <1>6 DEF QueueInv

(* The invariant holds at the beginning and is kept by every step. *)
THEOREM QueueInvariant == Spec => []QueueInv
<1>1. Init => QueueInv
  <2> SUFFICES ASSUME Init PROVE QueueInv
    OBVIOUS
  <2>1. /\ model \in [Prints -> Version] /\ jobs \in [Prints -> [Stages -> Statuses]]
        /\ \A p \in Prints, s \in Stages : jobs[p][s] # "ready"
    BY DEF Init, Version, Statuses
  <2>2. result = [p \in Prints |-> [s \in Stages |-> None]] /\ lease = [p \in Prints |-> None]
        /\ crossed = {} /\ queue = [r \in Replicas |-> NewQueue]
        /\ work = [r \in Replicas |-> [p \in Prints |-> NoWork]]
    BY DEF Init
  <2>3. NewQueue \in QueueWith(<<>>) /\ NewQueue.bytes = <<>>
    BY QueueAssumption DEF NewQueue, QueueWith
  <2>4. QueueShape
    BY <2>2, <2>3 DEF QueueShape
  <2>5. work \in [Replicas -> [Prints -> Work]] /\ \A r \in Replicas, p \in Prints : work[r][p] = NoWork
    BY <2>2, NoWorkRests
  <2>6. Shape
    BY <2>1, <2>2, <2>4, <2>5 DEF Shape, Version
  <2>7. Leased
    BY <2>5, NoWorkRests DEF Leased, Claimed
  <2>8. PassesFit
    BY <2>5, NoWorkRests, AtRestFits DEF PassesFit
  <2>9. NothingWithoutModel /\ ResultsFit
    BY <2>1, <2>2 DEF NothingWithoutModel, ResultsFit
  <2> QED
    BY <2>6, <2>7, <2>8, <2>9 DEF QueueInv
<1>2. QueueInv /\ [Next]_vars => QueueInv'
  <2> SUFFICES ASSUME QueueInv, [Next]_vars PROVE QueueInv'
    OBVIOUS
  <2>1. CASE UNCHANGED vars
    <3>1. UNCHANGED <<model, jobs, result, lease, queue, work, crossed, strayed>>
      BY <2>1 DEF vars
    <3>2. Shape' /\ Leased' /\ PassesFit'
      BY <3>1 DEF QueueInv, Shape, QueueShape, Leased, Claimed, PassesFit, PassFits
    <3> QED
      BY <3>1, <3>2 DEF QueueInv, NothingWithoutModel, ResultsFit
  <2>2. ASSUME NEW r \in Replicas, Object(r) \/ Shutdown(r) \/ Crash(r)
        PROVE  QueueInv'
    BY <2>2, ObjectKeeps, AskingKeeps DEF Object
  <2>3. ASSUME NEW r \in Replicas, NEW p \in Prints, Attach(r, p) \/ Pass(r, p) \/ Fault(r, p)
        PROVE  QueueInv'
    BY <2>3, AttachKeeps, PlainMoves, ReadingKeeps, StartKeeps, SourceKeeps, FaultsKeep, ReadRunningKeeps,
       RetryKeeps, EndingKeeps, MeasureKeeps, FinishKeeps, LeaseKeeps DEF Pass, Fault
  <2> QED
    BY <2>1, <2>2, <2>3, AroundKeeps DEF Next
<1> QED
  BY <1>1, <1>2, PTL DEF Spec

(* The types that the run checks; retries stay within their bound. *)
THEOREM QueueTypes == Spec => []TypeOK
<1>1. QueueInv => TypeOK
  <2> SUFFICES ASSUME Shape PROVE TypeOK
    BY DEF QueueInv
  <2>1. ASSUME NEW r \in Replicas, NEW p \in Prints
        PROVE  /\ queue[r].retries[p] \in 0..MaxRetries /\ queue[r].timers \subseteq Prints
               /\ work[r][p].wants \subseteq Stages /\ work[r][p].todo \subseteq Stages
    <3>1. queue[r] \in QueueWith(queue[r].bytes) /\ work[r][p] \in Work
      BY DEF Shape, QueueShape
    <3> QED
      BY <3>1 DEF QueueWith, Work
  <2> QED
    BY <2>1 DEF Shape, TypeOK, Version
<1> QED
  BY <1>1, QueueInvariant, PTL

(* What a print shows was made from the model it has, unless the model was replaced under a
   pass over it: on any number of replicas, whatever fails, stops, moves or is lost. *)
THEOREM ResultsAlwaysFit == Spec => []ResultsFit
<1>1. QueueInv => ResultsFit
  BY DEF QueueInv
<1> QED
  BY <1>1, QueueInvariant, PTL

(* One pass over a print at a time, on any number of replicas, but for one that lost its
   lease. *)
THEOREM OnePassAtATime == Spec => []OnePass
<1>1. QueueInv => OnePass
  <2> SUFFICES ASSUME QueueInv, NEW p \in Prints \ strayed
               PROVE  Cardinality({r \in Replicas : Claimed(r, p)}) <= 1
    BY DEF OnePass
  <2>1. {r \in Replicas : Claimed(r, p)} \subseteq {lease[p]}
    BY DEF QueueInv, Leased
  <2>2. IsFiniteSet({lease[p]}) /\ Cardinality({lease[p]}) = 1
    BY FS_Singleton
  <2>3. Cardinality({r \in Replicas : Claimed(r, p)}) <= Cardinality({lease[p]})
    BY <2>1, <2>2, FS_Subset
  <2> QED
    BY <2>2, <2>3
<1> QED
  BY <1>1, QueueInvariant, PTL

-----------------------------------------------------------------------------
(* Sweeps, for all replicas, callers and situations.                       *)
-------------------------------------------------------------------------------
(* The inductive invariant, in parts. *)

SweepShape ==
  /\ saved \in Nat /\ applied \in 0..saved
  /\ slease \in Replicas \cup {None}
  /\ round \in [Replicas -> [pc : {"none", "lease", "read", "sweep"}, wait : BOOLEAN, read : 0..saved]]
  /\ stop \in [Replicas -> {"no", "asked", "returned"}]
  /\ call \in [Procs -> [pc : {"idle", "saved", "awaiting", "joined", "returned"},
                         at : Replicas \cup {None}, want : 0..saved, ok : BOOLEAN]]

(* A caller that waits, waits on a replica where a round is running. *)
Awaited == \A p \in Procs :
  /\ call[p].pc # "idle" => call[p].at \in Replicas
  /\ call[p].pc \in {"awaiting", "joined"} => ~Sweeps!In(call[p].at, "none")

(* The round that a caller has joined is not skipped, and it reads the setting *)
(* after that caller saved it.                                                 *)
ReadsAfter == \A p \in Procs : call[p].pc = "joined" =>
  LET own == round[call[p].at] IN own.wait /\ (own.pc = "sweep" => own.read >= call[p].want)

SweepInv == SweepShape /\ Awaited /\ ReadsAfter /\ Sweeps!SavedIsRead /\ Sweeps!QuietAfterStop

-------------------------------------------------------------------------------
(* The end of a round keeps the invariant, if what those who joined it are *)
(* told is so: a round that ends well has read what they saved.            *)
LEMMA RoundEnds ==
  ASSUME SweepInv, NEW r \in Replicas, NEW ok \in BOOLEAN, ~Sweeps!In(r, "none"), Sweeps!Ends(r, ok),
         UNCHANGED saved, applied' \in 0..saved, applied' >= applied,
         slease' \in Replicas \cup {None},
         \A p \in Procs : ok /\ Sweeps!Called(p, r, "joined") => applied' >= call[p].want
  PROVE  SweepInv'
<1> USE DEF SweepInv, SweepShape
<1> DEFINE goOn == stop[r] = "no"
           again == goOn /\ \E p \in Procs : Sweeps!Called(p, r, "awaiting")
<1>1. /\ round' = [round EXCEPT ![r] = IF again THEN [pc |-> "lease", wait |-> TRUE, read |-> 0] ELSE Sweeps!NoRound]
      /\ stop' = [stop EXCEPT ![r] = IF @ = "asked" THEN "returned" ELSE @]
  BY DEF Sweeps!Ends, Sweeps!Begins, Sweeps!NoRound
<1>2. \A p \in Procs :
        /\ Sweeps!Called(p, r, "joined") => call'[p] = [call[p] EXCEPT !.pc = "returned", !.ok = ok]
        /\ Sweeps!Called(p, r, "awaiting") =>
             call'[p] = [call[p] EXCEPT !.pc = IF goOn THEN "joined" ELSE "returned", !.ok = goOn]
        /\ ~Sweeps!Called(p, r, "joined") /\ ~Sweeps!Called(p, r, "awaiting") => call'[p] = call[p]
  BY DEF Sweeps!Ends, Sweeps!Called
<1>3. SweepShape'
  <2>1. DOMAIN call' = Procs /\ call' = [p \in Procs |-> call'[p]] BY DEF Sweeps!Ends
  <2>2. \A p \in Procs : call'[p] \in [pc : {"idle", "saved", "awaiting", "joined", "returned"},
                         at : Replicas \cup {None}, want : 0..saved, ok : BOOLEAN]
    <3> SUFFICES ASSUME NEW p \in Procs
                 PROVE  call'[p] \in [pc : {"idle", "saved", "awaiting", "joined", "returned"},
                         at : Replicas \cup {None}, want : 0..saved, ok : BOOLEAN]
      OBVIOUS
    <3>1. CASE Sweeps!Called(p, r, "joined")
      <4>1. call'[p] = [call[p] EXCEPT !.pc = "returned", !.ok = ok] BY <1>2, <3>1
      <4> QED BY <4>1
    <3>2. CASE Sweeps!Called(p, r, "awaiting")
      <4>1. call'[p] = [call[p] EXCEPT !.pc = IF goOn THEN "joined" ELSE "returned", !.ok = goOn] BY <1>2, <3>2
      <4>2. goOn \in BOOLEAN OBVIOUS
      <4> QED BY ZenonT(40), <4>1, <4>2
    <3>3. CASE ~Sweeps!Called(p, r, "joined") /\ ~Sweeps!Called(p, r, "awaiting") BY <1>2, <3>3
    <3> QED BY <3>1, <3>2, <3>3
  <2> QED BY <1>1, <2>1, <2>2 DEF Sweeps!NoRound
<1>4. Awaited'
  <2> SUFFICES ASSUME NEW p \in Procs
               PROVE  /\ call'[p].pc # "idle" => call'[p].at \in Replicas
                      /\ call'[p].pc \in {"awaiting", "joined"} => round'[call'[p].at].pc # "none"
    BY DEF Awaited, Sweeps!In
  <2>1. CASE Sweeps!Called(p, r, "joined") BY <1>2, <2>1 DEF Sweeps!Called
  <2>2. CASE Sweeps!Called(p, r, "awaiting") BY <1>1, <1>2, <2>2 DEF Sweeps!Called
  <2>3. CASE ~Sweeps!Called(p, r, "joined") /\ ~Sweeps!Called(p, r, "awaiting")
    BY ZenonT(40), <1>1, <1>2, <2>3 DEF Sweeps!Called, Awaited, Sweeps!In
  <2> QED BY <2>1, <2>2, <2>3
<1>5. ReadsAfter'
  <2> SUFFICES ASSUME NEW p \in Procs, call'[p].pc = "joined"
               PROVE  /\ round'[call'[p].at].wait
                      /\ round'[call'[p].at].pc = "sweep" => round'[call'[p].at].read >= call'[p].want
    BY DEF ReadsAfter
  <2>1. CASE Sweeps!Called(p, r, "joined") BY <1>2, <2>1 DEF Sweeps!Called
  <2>2. CASE Sweeps!Called(p, r, "awaiting") BY <1>1, <1>2, <2>2 DEF Sweeps!Called
  <2>3. CASE ~Sweeps!Called(p, r, "joined") /\ ~Sweeps!Called(p, r, "awaiting")
    <3>1. call'[p] = call[p] /\ call[p].at # r BY <1>2, <2>3 DEF Sweeps!Called
    <3>2. call[p].at \in Replicas BY <3>1 DEF Awaited
    <3>3. round'[call[p].at] = round[call[p].at] BY <1>1, <3>1, <3>2
    <3> QED BY <3>1, <3>3, Zenon DEF ReadsAfter
  <2> QED BY <2>1, <2>2, <2>3
<1>6. Sweeps!SavedIsRead'
  <2> SUFFICES ASSUME NEW p \in Procs, call'[p].pc = "returned", call'[p].ok
               PROVE  applied' >= call'[p].want
    BY DEF Sweeps!SavedIsRead
  <2>1. CASE Sweeps!Called(p, r, "joined")
    <3>1. call'[p] = [call[p] EXCEPT !.pc = "returned", !.ok = ok] BY <1>2, <2>1
    <3>2. call'[p].ok = ok /\ call'[p].want = call[p].want BY <3>1
    <3>3. ok BY <3>2
    <3> QED BY <2>1, <3>2, <3>3
  <2>2. CASE Sweeps!Called(p, r, "awaiting")
    <3>1. call'[p] = [call[p] EXCEPT !.pc = IF goOn THEN "joined" ELSE "returned", !.ok = goOn] BY <1>2, <2>2
    <3>2. call'[p].ok = goOn BY <3>1
    <3>3. goOn BY <3>2
    <3> QED BY <3>1, <3>3
  <2>3. CASE ~Sweeps!Called(p, r, "joined") /\ ~Sweeps!Called(p, r, "awaiting")
    <3>1. call'[p] = call[p] BY <1>2, <2>3
    <3>2. applied >= call[p].want BY <3>1 DEF Sweeps!SavedIsRead
    <3> QED BY <3>1, <3>2
  <2> QED BY <2>1, <2>2, <2>3
<1>7. Sweeps!QuietAfterStop' BY <1>1 DEF Sweeps!QuietAfterStop, Sweeps!In, Sweeps!NoRound
<1> QED BY <1>3, <1>4, <1>5, <1>6, <1>7

-------------------------------------------------------------------------------
(* The records that a round and a caller begin with. *)
LEMMA Beginnings ==
  ASSUME NEW wait \in BOOLEAN, NEW r, NEW v \in Nat
  PROVE  /\ [Sweeps!NoRound EXCEPT !.pc = "lease", !.wait = wait] = [pc |-> "lease", wait |-> wait, read |-> 0]
         /\ [Sweeps!NoCall EXCEPT !.pc = "saved", !.at = r, !.want = v]
              = [pc |-> "saved", at |-> r, want |-> v, ok |-> TRUE]
<1>1. ASSUME NEW rec, rec = [Sweeps!NoRound EXCEPT !.pc = "lease", !.wait = wait]
      PROVE  rec = [pc |-> "lease", wait |-> wait, read |-> 0]
  BY <1>1 DEF Sweeps!NoRound
<1>2. ASSUME NEW rec, rec = [Sweeps!NoCall EXCEPT !.pc = "saved", !.at = r, !.want = v]
      PROVE  rec = [pc |-> "saved", at |-> r, want |-> v, ok |-> TRUE]
  BY <1>2 DEF Sweeps!NoCall
<1> QED BY <1>1, <1>2, Zenon

(* What a caller does by itself keeps the invariant. *)
LEMMA CallersKeep ==
  ASSUME SweepInv, NEW p \in Procs,
         Sweeps!SweepNow(p) \/ Sweeps!Return(p) \/ \E r \in Replicas : Sweeps!Save(p, r)
  PROVE  SweepInv'
<1> USE DEF SweepInv, SweepShape
<1>1. ASSUME NEW r \in Replicas, Sweeps!Save(p, r) PROVE SweepInv'
  <2>1. /\ saved' = saved + 1 /\ UNCHANGED <<applied, slease, round, stop>>
        /\ call' = [call EXCEPT ![p] = [pc |-> "saved", at |-> r, want |-> saved + 1, ok |-> TRUE]]
    <3>1. saved + 1 \in Nat OBVIOUS
    <3>2. [Sweeps!NoCall EXCEPT !.pc = "saved", !.at = r, !.want = saved + 1]
            = [pc |-> "saved", at |-> r, want |-> saved + 1, ok |-> TRUE]
      BY <3>1, Beginnings, Zenon
    <3> QED BY <1>1, <3>2, Zenon DEF Sweeps!Save
  <2>2. SweepShape' BY <2>1
  <2>3. Awaited' BY <2>1 DEF Awaited, Sweeps!In
  <2>4. ReadsAfter' BY <2>1 DEF ReadsAfter
  <2>5. Sweeps!SavedIsRead' BY <2>1 DEF Sweeps!SavedIsRead
  <2>6. Sweeps!QuietAfterStop' BY <2>1 DEF Sweeps!QuietAfterStop, Sweeps!In
  <2> QED BY <2>2, <2>3, <2>4, <2>5, <2>6
<1>2. CASE Sweeps!Return(p)
  <2>1. /\ call' = [call EXCEPT ![p] = [pc |-> "idle", at |-> None, want |-> 0, ok |-> TRUE]]
        /\ UNCHANGED <<saved, applied, slease, round, stop>>
    BY <1>2 DEF Sweeps!Return, Sweeps!NoCall
  <2>2. SweepShape' BY <2>1
  <2>3. Awaited' BY <2>1 DEF Awaited, Sweeps!In
  <2>4. ReadsAfter' BY <2>1 DEF ReadsAfter
  <2>5. Sweeps!SavedIsRead' BY <2>1 DEF Sweeps!SavedIsRead
  <2>6. Sweeps!QuietAfterStop' BY <2>1 DEF Sweeps!QuietAfterStop, Sweeps!In
  <2> QED BY <2>2, <2>3, <2>4, <2>5, <2>6
<1>3. CASE Sweeps!SweepNow(p)
  <2> DEFINE r == call[p].at
  <2>1. call[p].pc = "saved" /\ r \in Replicas /\ UNCHANGED <<saved, applied, slease, stop>>
    BY <1>3 DEF Sweeps!SweepNow, Awaited
  <2>2. CASE ~Sweeps!In(r, "none") /\ call' = [call EXCEPT ![p].pc = "awaiting"] /\ UNCHANGED round
    <3>1. SweepShape' BY <2>1, <2>2
    <3>2. Awaited' BY <2>1, <2>2 DEF Awaited, Sweeps!In
    <3>3. ReadsAfter' BY <2>1, <2>2 DEF ReadsAfter
    <3>4. Sweeps!SavedIsRead' BY <2>1, <2>2 DEF Sweeps!SavedIsRead
    <3>5. Sweeps!QuietAfterStop' BY <2>1, <2>2 DEF Sweeps!QuietAfterStop, Sweeps!In
    <3> QED BY <3>1, <3>2, <3>3, <3>4, <3>5
  <2>3. CASE Sweeps!In(r, "none") /\ stop[r] = "no" /\ call' = [call EXCEPT ![p].pc = "joined"] /\ Sweeps!Begins(r, TRUE)
    <3>1. round' = [round EXCEPT ![r] = [pc |-> "lease", wait |-> TRUE, read |-> 0]]
      BY <2>3, Beginnings DEF Sweeps!Begins
    <3>2. SweepShape' BY <2>1, <2>3, <3>1
    <3>3. Awaited' BY <2>1, <2>3, <3>1 DEF Awaited, Sweeps!In
    <3>4. ReadsAfter'
      <4> SUFFICES ASSUME NEW q \in Procs, call'[q].pc = "joined"
                   PROVE  /\ round'[call'[q].at].wait
                          /\ round'[call'[q].at].pc = "sweep" => round'[call'[q].at].read >= call'[q].want
        BY DEF ReadsAfter
      <4>1. CASE call'[q].at = r BY <2>1, <3>1, <4>1
      <4>2. CASE call'[q].at # r
        <5>1. q # p BY <2>3, <4>2
        <5>2. call'[q] = call[q] BY <2>3, <5>1
        <5>3. call[q].at \in Replicas BY <5>2 DEF Awaited
        <5>4. round'[call[q].at] = round[call[q].at] BY <3>1, <4>2, <5>2, <5>3
        <5> QED BY <5>2, <5>4, Zenon DEF ReadsAfter
      <4> QED BY <4>1, <4>2
    <3>5. Sweeps!SavedIsRead' BY <2>1, <2>3 DEF Sweeps!SavedIsRead
    <3>6. Sweeps!QuietAfterStop' BY <2>1, <2>3, <3>1 DEF Sweeps!QuietAfterStop, Sweeps!In
    <3> QED BY <3>2, <3>3, <3>4, <3>5, <3>6
  <2>4. CASE /\ Sweeps!In(r, "none") /\ stop[r] # "no"
             /\ call' = [call EXCEPT ![p] = [@ EXCEPT !.pc = "returned", !.ok = FALSE]] /\ UNCHANGED round
    <3>1. SweepShape' BY ZenonT(40), <2>1, <2>4
    <3>2. Awaited' BY <2>1, <2>4 DEF Awaited, Sweeps!In
    <3>3. ReadsAfter' BY <2>1, <2>4 DEF ReadsAfter
    <3>4. Sweeps!SavedIsRead' BY <2>1, <2>4 DEF Sweeps!SavedIsRead
    <3>5. Sweeps!QuietAfterStop' BY <2>1, <2>4 DEF Sweeps!QuietAfterStop, Sweeps!In
    <3> QED BY <3>1, <3>2, <3>3, <3>4, <3>5
  <2> QED BY <1>3, <2>2, <2>3, <2>4 DEF Sweeps!SweepNow
<1> QED BY <1>1, <1>2, <1>3

(* A round's own steps, the end of one apart, keep the invariant. *)
LEMMA RoundsKeep ==
  ASSUME SweepInv, NEW r \in Replicas, Sweeps!Tick(r) \/ Sweeps!Acquire(r) \/ Sweeps!Read(r)
  PROVE  SweepInv'
<1> USE DEF SweepInv, SweepShape
<1> SUFFICES ASSUME NEW new \in [pc : {"lease", "read", "sweep"}, wait : BOOLEAN, read : 0..saved],
                    round' = [round EXCEPT ![r] = new],
                    Sweeps!In(r, "none") => stop[r] = "no",
                    ~Sweeps!In(r, "none") => new.wait = round[r].wait,
                    new.pc = "sweep" => new.read = saved,
                    slease' \in Replicas \cup {None}, UNCHANGED <<saved, applied, stop, call>>
             PROVE  SweepInv'
  <2>1. CASE Sweeps!Tick(r)
    <3> DEFINE new == [pc |-> "lease", wait |-> FALSE, read |-> 0]
    <3>1. /\ Sweeps!In(r, "none") /\ stop[r] = "no" /\ round' = [round EXCEPT ![r] = new]
          /\ UNCHANGED <<saved, applied, slease, stop, call>>
      BY <2>1, Beginnings DEF Sweeps!Tick, Sweeps!Begins
    <3>2. new \in [pc : {"lease", "read", "sweep"}, wait : BOOLEAN, read : 0..saved] OBVIOUS
    <3> HIDE DEF new
    <3>3. new.pc = "lease" BY DEF new
    <3> QED BY <3>1, <3>2, <3>3
  <2>2. CASE Sweeps!Acquire(r)
    <3> DEFINE new == [round[r] EXCEPT !.pc = "read"]
    <3>1. /\ ~Sweeps!In(r, "none") /\ round' = [round EXCEPT ![r] = new] /\ slease' = r
          /\ UNCHANGED <<saved, applied, stop, call>>
      BY <2>2 DEF Sweeps!Acquire, Sweeps!In
    <3>2. new.wait = round[r].wait /\ new.pc = "read" /\ new.read = round[r].read OBVIOUS
    <3>3. new \in [pc : {"lease", "read", "sweep"}, wait : BOOLEAN, read : 0..saved] OBVIOUS
    <3> QED BY <3>1, <3>2, <3>3
  <2>3. CASE Sweeps!Read(r)
    <3> PICK new : new = [round[r] EXCEPT !.pc = "sweep", !.read = saved] OBVIOUS
    <3>1. /\ ~Sweeps!In(r, "none") /\ round' = [round EXCEPT ![r] = new]
          /\ UNCHANGED <<saved, applied, slease, stop, call>>
      BY <2>3 DEF Sweeps!Read, Sweeps!In
    <3>2. new.wait = round[r].wait /\ new.pc = "sweep" /\ new.read = saved OBVIOUS
    <3>3. new \in [pc : {"lease", "read", "sweep"}, wait : BOOLEAN, read : 0..saved]
      <4>1. saved \in 0..saved /\ round[r] \in [pc : {"none", "lease", "read", "sweep"}, wait : BOOLEAN, read : 0..saved]
        OBVIOUS
      <4> HIDE DEF SweepInv, SweepShape
      <4> QED BY <4>1
    <3> QED BY <3>1, <3>2, <3>3
  <2> QED BY <2>1, <2>2, <2>3
<1>1. SweepShape' OBVIOUS
<1>2. Awaited' BY DEF Awaited, Sweeps!In
<1>3. ReadsAfter'
  <2> SUFFICES ASSUME NEW p \in Procs, call[p].pc = "joined"
               PROVE  /\ round'[call[p].at].wait
                      /\ round'[call[p].at].pc = "sweep" => round'[call[p].at].read >= call[p].want
    BY DEF ReadsAfter
  <2>1. call[p].at \in Replicas /\ ~Sweeps!In(call[p].at, "none") BY DEF Awaited
  <2>2. CASE call[p].at = r
    <3>1. round[r].wait BY <2>2, Zenon DEF ReadsAfter
    <3>2. round'[r] = new /\ new.wait BY <2>1, <2>2, <3>1
    <3> QED BY <2>2, <3>2
  <2>3. CASE call[p].at # r
    <3>1. round'[call[p].at] = round[call[p].at] BY <2>1, <2>3
    <3> QED BY <3>1, Zenon DEF ReadsAfter
  <2> QED BY <2>2, <2>3
<1>4. Sweeps!SavedIsRead' BY DEF Sweeps!SavedIsRead
<1>5. Sweeps!QuietAfterStop' BY DEF Sweeps!QuietAfterStop, Sweeps!In
<1> QED BY <1>1, <1>2, <1>3, <1>4, <1>5

(* Skipped, swept and failed rounds keep the invariant. *)
LEMMA EndsKeep ==
  ASSUME SweepInv, NEW r \in Replicas, Sweeps!Skip(r) \/ Sweeps!Swept(r) \/ Sweeps!Fails(r)
  PROVE  SweepInv'
<1> USE DEF SweepInv, SweepShape
<1>1. CASE Sweeps!Skip(r)
  <2>1. \A p \in Procs : ~Sweeps!Called(p, r, "joined") BY <1>1, Zenon DEF Sweeps!Skip, Sweeps!Called, ReadsAfter
  <2>2. Sweeps!Ends(r, TRUE) /\ ~Sweeps!In(r, "none") /\ UNCHANGED <<saved, applied, slease>> BY <1>1 DEF Sweeps!Skip, Sweeps!In
  <2>3. applied' \in 0..saved /\ applied' >= applied /\ slease' \in Replicas \cup {None} BY <2>2
  <2> HIDE DEF SweepInv, SweepShape
  <2> QED BY <2>1, <2>2, <2>3, RoundEnds
<1>2. CASE Sweeps!Swept(r)
  <2>1. \A p \in Procs : Sweeps!Called(p, r, "joined") => round[r].read >= call[p].want
    BY <1>2 DEF Sweeps!Swept, Sweeps!In, Sweeps!Called, ReadsAfter
  <2>2. /\ round[r].read \in 0..saved
        /\ applied' = IF round[r].read > applied THEN round[r].read ELSE applied
    BY <1>2 DEF Sweeps!Swept
  <2>3. applied' \in 0..saved /\ applied' >= applied /\ applied' >= round[r].read BY <2>2
  <2>4. /\ Sweeps!Ends(r, TRUE) /\ ~Sweeps!In(r, "none") /\ UNCHANGED saved /\ slease' \in Replicas \cup {None}
    BY <1>2 DEF Sweeps!Swept, Sweeps!In
  <2>5. \A p \in Procs : Sweeps!Called(p, r, "joined") => applied' >= call[p].want BY <2>1, <2>2, <2>3
  <2> HIDE DEF SweepInv, SweepShape
  <2> QED BY <2>3, <2>4, <2>5, RoundEnds
<1>3. CASE Sweeps!Fails(r)
  <2>1. /\ Sweeps!Ends(r, FALSE) /\ ~Sweeps!In(r, "none") /\ UNCHANGED <<saved, applied>>
        /\ slease' = IF slease = r THEN None ELSE slease
    BY <1>3 DEF Sweeps!Fails, Sweeps!In
  <2>2. applied' \in 0..saved /\ applied' >= applied /\ slease' \in Replicas \cup {None} BY <2>1
  <2> HIDE DEF SweepInv, SweepShape
  <2> QED BY <2>1, <2>2, RoundEnds
<1> QED BY <1>1, <1>2, <1>3

(* So do a stop, a crash and a lease that runs out. *)
LEMMA InterruptionsKeep ==
  ASSUME SweepInv, Sweeps!RunOut \/ \E r \in Replicas : Sweeps!Stop(r) \/ Sweeps!Crash(r)
  PROVE  SweepInv'
<1> USE DEF SweepInv, SweepShape
<1>1. CASE Sweeps!RunOut
  <2>1. slease' = None /\ UNCHANGED <<saved, applied, round, stop, call>> BY <1>1 DEF Sweeps!RunOut
  <2> QED BY <2>1 DEF Awaited, ReadsAfter, Sweeps!SavedIsRead, Sweeps!QuietAfterStop, Sweeps!In
<1>2. ASSUME NEW r \in Replicas, Sweeps!Stop(r) PROVE SweepInv'
  <2>1. /\ stop' = [stop EXCEPT ![r] = IF Sweeps!In(r, "none") THEN "returned" ELSE "asked"]
        /\ UNCHANGED <<saved, applied, slease, round, call>>
    BY <1>2 DEF Sweeps!Stop
  <2>2. SweepShape' /\ Sweeps!QuietAfterStop' BY <2>1 DEF Sweeps!QuietAfterStop, Sweeps!In
  <2> QED BY <2>1, <2>2 DEF Awaited, ReadsAfter, Sweeps!SavedIsRead, Sweeps!In
<1>3. ASSUME NEW r \in Replicas, Sweeps!Crash(r) PROVE SweepInv'
  <2>1. /\ round' = [round EXCEPT ![r] = Sweeps!NoRound] /\ stop' = [stop EXCEPT ![r] = "no"]
        /\ call' = [p \in Procs |-> IF call[p].at = r THEN Sweeps!NoCall ELSE call[p]]
        /\ UNCHANGED <<saved, applied, slease>>
    BY <1>3 DEF Sweeps!Crash
  <2>2. SweepShape' BY <2>1 DEF Sweeps!NoRound, Sweeps!NoCall
  <2>3. \A p \in Procs : call'[p].pc # "idle" =>
          /\ call'[p] = call[p] /\ call[p].at \in Replicas \ {r}
          /\ round'[call[p].at] = round[call[p].at]
    BY <2>1 DEF Sweeps!NoCall, Awaited
  <2>4. Awaited' BY <2>3 DEF Awaited, Sweeps!In
  <2>5. ReadsAfter' BY ZenonT(40), <2>3, Zenon DEF ReadsAfter
  <2>6. Sweeps!SavedIsRead' BY <2>1, <2>3 DEF Sweeps!SavedIsRead
  <2>7. Sweeps!QuietAfterStop' BY <2>1 DEF Sweeps!QuietAfterStop, Sweeps!In
  <2> QED BY <2>2, <2>4, <2>5, <2>6, <2>7
<1> QED BY <1>1, <1>2, <1>3

-------------------------------------------------------------------------------
(* The rounds of all replicas and those who wait for them fit together in every *)
(* state: nobody waits where nothing runs, and a joined round is not skipped    *)
(* and reads the setting after it was saved.                                    *)
THEOREM SweepInvariant == Sweeps!Spec => []SweepInv
<1>1. Sweeps!Init => SweepInv
  <2> SUFFICES ASSUME Sweeps!Init PROVE SweepInv OBVIOUS
  <2>1. SweepShape BY DEF Sweeps!Init, SweepShape, Sweeps!NoRound, Sweeps!NoCall
  <2>2. \A p \in Procs : call[p].pc = "idle" BY DEF Sweeps!Init, Sweeps!NoCall
  <2>3. Sweeps!QuietAfterStop BY DEF Sweeps!Init, Sweeps!QuietAfterStop
  <2> QED BY <2>1, <2>2, <2>3 DEF SweepInv, Awaited, ReadsAfter, Sweeps!SavedIsRead
<1>2. SweepInv /\ [Sweeps!Next]_Sweeps!vars => SweepInv'
  <2> SUFFICES ASSUME SweepInv, [Sweeps!Next]_Sweeps!vars PROVE SweepInv' OBVIOUS
  <2>1. CASE UNCHANGED Sweeps!vars
    BY <2>1 DEF SweepInv, SweepShape, Awaited, ReadsAfter, Sweeps!SavedIsRead, Sweeps!QuietAfterStop, Sweeps!In, Sweeps!vars
  <2>2. ASSUME NEW r \in Replicas, Sweeps!Tick(r) \/ Sweeps!Acquire(r) \/ Sweeps!Read(r) PROVE SweepInv' BY <2>2, RoundsKeep
  <2>3. ASSUME NEW r \in Replicas, Sweeps!Skip(r) \/ Sweeps!Swept(r) \/ Sweeps!Fails(r) PROVE SweepInv' BY <2>3, EndsKeep
  <2>4. ASSUME NEW r \in Replicas, Sweeps!Stop(r) \/ Sweeps!Crash(r) PROVE SweepInv' BY <2>4, InterruptionsKeep
  <2>5. ASSUME NEW p \in Procs, Sweeps!SweepNow(p) \/ Sweeps!Return(p) \/ \E r \in Replicas : Sweeps!Save(p, r) PROVE SweepInv'
    BY <2>5, CallersKeep
  <2>6. CASE Sweeps!RunOut BY <2>6, InterruptionsKeep
  <2> QED BY <2>1, <2>2, <2>3, <2>4, <2>5, <2>6 DEF Sweeps!Next
<1> QED BY <1>1, <1>2, PTL DEF Sweeps!Spec

(* Rounds and callers are in one of their states, and no sweep has read a *)
(* setting that was not saved.                                            *)
THEOREM SweepTypes == Sweeps!Spec => []Sweeps!TypeOK
<1>1. SweepInv => Sweeps!TypeOK BY DEF SweepInv, SweepShape, Sweeps!TypeOK
<1> QED BY <1>1, SweepInvariant, PTL

(* sweepNow of createLeasedSweep: whoever returns well from it finds the *)
(* setting that was saved before read by a finished sweep.               *)
THEOREM SavedSettingIsRead == Sweeps!Spec => []Sweeps!SavedIsRead
<1>1. SweepInv => Sweeps!SavedIsRead BY DEF SweepInv
<1> QED BY <1>1, SweepInvariant, PTL

(* stop of createLeasedSweep: when it has returned no round runs, and none *)
(* is begun by those who waited.                                           *)
THEOREM NothingAfterStop == Sweeps!Spec => []Sweeps!QuietAfterStop
<1>1. SweepInv => Sweeps!QuietAfterStop BY DEF SweepInv
<1> QED BY <1>1, SweepInvariant, PTL

-----------------------------------------------------------------------------
(* Tags, for every set of tags, names and calls: they stay a tree, and no   *)
(* two siblings share a name.  A tree is stated without a walk: every set   *)
(* of tags has one whose parent is not in the set.                          *)
TagRow == [name : Names, parent : Tags \cup {None}]

(* What stands for "no tag" and "not asked to change" is no tag, row, call or name. *)
Sentinels ==
  /\ None \notin Tags /\ None \notin Names /\ None \notin Procs /\ None \notin TagRow /\ None # Tree!Kept
  /\ Tree!Kept \notin Tags /\ Tree!Kept \notin Names

TagSteps == {"idle", "lock", "check", "write"}
TagCall == [pc : TagSteps, id : Tags \cup {None}, name : Names \cup {Tree!Kept, None},
         parent : Tags \cup {Tree!Kept, None}, new : BOOLEAN]

(* Rows and calls. *)
TagsTyped == \A t \in Tags : tag[t] = None \/ tag[t] \in TagRow
TreeShape ==
  /\ DOMAIN tag = Tags
  /\ TagsTyped
  /\ tproc \in [Procs -> TagCall]
  /\ \A p \in Procs : /\ tproc[p].pc # "idle" => tproc[p].id \in Tags /\ tproc[p].name # None
                      /\ tproc[p].new => /\ tproc[p].pc # "idle"
                                        /\ tproc[p].name # Tree!Kept /\ tproc[p].parent # Tree!Kept

(* The foreign key. *)
ParentsStored == \A t \in Tree!Stored : tag[t].parent \in Tree!Stored \cup {None}

(* No set of tags only has parents inside it. *)
Rooted == \A C \in SUBSET Tree!Stored : C # {} => \E t \in C : tag[t].parent \notin C

(* Only the holder of the row is between its check and its write. *)
RowIsHeld == \A p \in Procs : row = p <=> tproc[p].pc \in {"check", "write"}

(* A tag that is being created is not stored, and is one call's only. *)
NewIsFresh == \A p \in Procs : tproc[p].new =>
  /\ tproc[p].id \notin Tree!Stored
  /\ \A q \in Procs : q # p => tproc[q].id # tproc[p].id

(* What was checked still fits: deletions take no lock, but they only take tags away. *)
StillFits(c) ==
  /\ c.parent \in Tree!Stored => c.id \notin Tree!Above(c.parent)
  /\ c.new \/ c.id \in Tree!Stored => Tree!NameFits(c)
TagChecked == \A p \in Procs : tproc[p].pc = "write" => StillFits(tproc[p])

TreeFits == TreeShape /\ ParentsStored /\ Rooted /\ Tree!SiblingsDiffer
TreeInv == TreeFits /\ RowIsHeld /\ NewIsFresh /\ TagChecked

-----------------------------------------------------------------------------
(* A tag is above itself. *)
LEMMA AboveItself == \A t \in Tags : t \in Tree!Above(t)
  BY DEF Tree!Above

(* What is above a tag is closed under parents. *)
LEMMA AboveClosed ==
  ASSUME TreeShape, NEW t \in Tags
  PROVE  Tree!Closed(Tree!Above(t))
<1> SUFFICES ASSUME NEW u \in Tree!Above(t) \cap Tree!Stored, tag[u].parent # None
             PROVE  tag[u].parent \in Tree!Above(t)
  BY DEF Tree!Closed
<1>1. u \in Tags /\ tag[u].parent \in Tags
  BY DEF Tree!Stored, TreeShape, TagsTyped, TagRow
<1> SUFFICES ASSUME NEW U \in SUBSET Tags, t \in U, Tree!Closed(U)
             PROVE  tag[u].parent \in U
  BY <1>1, Zenon DEF Tree!Above
<1>2. u \in U
  BY DEF Tree!Above
<1> QED
  BY <1>2 DEF Tree!Closed

(* It is the least such set. *)
LEMMA AboveLeast ==
  ASSUME NEW t \in Tags, NEW U \in SUBSET Tags, t \in U, Tree!Closed(U)
  PROVE  Tree!Above(t) \subseteq U
  BY DEF Tree!Above

(* Above a stored tag there are only stored tags. *)
LEMMA AboveStored ==
  ASSUME TreeShape, ParentsStored, NEW t \in Tree!Stored
  PROVE  Tree!Above(t) \subseteq Tree!Stored
<1>1. Tree!Closed(Tree!Stored)
  BY DEF Tree!Closed, ParentsStored
<1> QED
  BY <1>1, AboveLeast DEF Tree!Stored

(* From any tag the parents lead to a root: no moves that overlap have made a loop. *)
LEMMA RootedHasNoLoops ==
  ASSUME Sentinels, TreeShape, ParentsStored, Rooted
  PROVE  Tree!NoLoops
<1> SUFFICES ASSUME NEW t \in Tree!Stored
             PROVE  \E s \in Tree!Above(t) : tag[s] # None /\ tag[s].parent = None /\ Tree!Above(t) \subseteq Tree!Stored
  BY DEF Tree!NoLoops
<1>1. t \in Tags /\ t \in Tree!Above(t) /\ Tree!Above(t) \subseteq Tree!Stored
  BY AboveItself, AboveStored DEF Tree!Stored
<1>2. PICK s \in Tree!Above(t) : tag[s].parent \notin Tree!Above(t)
  BY <1>1 DEF Rooted
<1>3. s \in Tree!Stored /\ tag[s].parent \in Tree!Above(t) \cup {None}
  BY <1>1, AboveClosed DEF Tree!Closed
<1> QED
  BY <1>1, <1>2, <1>3 DEF Tree!Stored

(* The types that the runs check are part of the invariant. *)
LEMMA TreeInvTyped ==
  ASSUME TreeInv
  PROVE  Tree!TypeOK
  BY DEF TreeInv, TreeFits, TreeShape, TagsTyped, TagRow, TagCall, Tree!TypeOK, Tree!Stored, RowIsHeld

-----------------------------------------------------------------------------
(* A deletion takes tags away and leaves the others as they are. *)
Fewer == Tree!Stored' \subseteq Tree!Stored /\ \A u \in Tree!Stored' : tag'[u] = tag[u]

(* Then no tag has anything new above it. *)
LEMMA FewerAbove ==
  ASSUME TreeShape, Fewer, NEW t \in Tags
  PROVE  Tree!Above(t)' \subseteq Tree!Above(t)
<1>1. Tree!Above(t) \in SUBSET Tags /\ t \in Tree!Above(t) /\ Tree!Closed(Tree!Above(t))
  BY AboveItself, AboveClosed DEF Tree!Above
<1>2. \A u \in Tree!Above(t) \cap Tree!Stored' : tag'[u].parent \in Tree!Above(t) \cup {None}
  BY <1>1 DEF Tree!Closed, Fewer
<1> QED
  BY <1>1, <1>2 DEF Tree!Above, Tree!Closed

(* So what fitted still does. *)
LEMMA FewerFits ==
  ASSUME TreeShape, Fewer, NEW c \in TagCall, StillFits(c), c.id \in Tags, Sentinels
  PROVE  StillFits(c)'
<1>1. ASSUME c.parent \in Tree!Stored'
      PROVE  c.id \notin Tree!Above(c.parent)'
  BY <1>1, FewerAbove DEF StillFits, Fewer, Tree!Stored
<1>2. \A name, parent, except : Tree!NameTaken(name, parent, except)' => Tree!NameTaken(name, parent, except)
  BY DEF Tree!NameTaken, Fewer
<1>3. CASE c.new
  BY <1>1, <1>2, <1>3 DEF StillFits, Tree!NameFits
<1>4. CASE ~c.new /\ c.id \in Tree!Stored'
  <2>1. tag'[c.id] = tag[c.id] /\ c.id \in Tree!Stored
    BY <1>4 DEF Fewer
  <2>2. Tree!NewName(c)' = Tree!NewName(c) /\ Tree!NewParent(c)' = Tree!NewParent(c)
    BY <2>1 DEF Tree!NewName, Tree!NewParent
  <2>3. Tree!NameFits(c)
    BY <2>1 DEF StillFits
  <2>4. Tree!NameFits(c)'
    BY <2>1, <2>2, <2>3, <1>2, <1>4, Zenon DEF Tree!NameFits
  <2> QED
    BY <2>4, <1>1 DEF StillFits
<1> QED
  BY <1>1, <1>3, <1>4 DEF StillFits

(* Deleting a tag with its branch leaves a tree. *)
LEMMA DeleteFewer ==
  ASSUME Sentinels, TreeFits, NEW t \in Tags, Tree!Delete(t)
  PROVE  Fewer /\ TreeFits'
<1> USE DEF TreeFits
<1>0. UNCHANGED tproc /\ tag' = [s \in Tags |-> IF tag[s] # None /\ t \in Tree!Above(s) THEN None ELSE tag[s]]
  BY DEF Tree!Delete
<1>1. \A s \in Tags : tag'[s] = IF tag[s] # None /\ t \in Tree!Above(s) THEN None ELSE tag[s]
  BY <1>0, Zenon
<1>2. Fewer /\ \A s \in Tree!Stored' : s \in Tree!Stored /\ t \notin Tree!Above(s)
  BY <1>1 DEF Fewer, Tree!Stored
<1>3. TreeShape'
  BY <1>0, <1>1 DEF TreeShape, TagsTyped
<1>4. ASSUME NEW s \in Tree!Stored', tag[s].parent # None
      PROVE  tag[s].parent \in Tree!Stored'
  <2>1. s \in Tree!Stored /\ tag[s].parent \in Tree!Stored /\ t \notin Tree!Above(s)
    BY <1>2, <1>4 DEF ParentsStored
  <2>2. tag[s].parent \in Tree!Above(s)
    BY <2>1, <1>4, AboveItself, AboveClosed DEF Tree!Closed, Tree!Stored
  <2>3. t \notin Tree!Above(tag[s].parent)
    BY <2>1, <2>2, AboveClosed, AboveLeast DEF Tree!Stored, Tree!Above
  <2> QED
    BY <2>1, <2>3, <1>1 DEF Tree!Stored
<1>5. ParentsStored'
  BY <1>2, <1>4 DEF ParentsStored, Fewer
<1>6. Rooted'
  BY <1>2 DEF Rooted, Fewer
<1>7. Tree!SiblingsDiffer'
  BY <1>2 DEF Tree!SiblingsDiffer, Fewer
<1> QED
  BY <1>2, <1>3, <1>5, <1>6, <1>7

-----------------------------------------------------------------------------
(* A write that is refused, or that is made, leaves a tree: the tag that moves is not
   above its new parent, and no sibling there has its name. *)
TagWritten(c) == [tag EXCEPT ![c.id] = [name |-> Tree!NewName(c), parent |-> Tree!NewParent(c)]]
TagAccepted(c) == (c.parent \in {Tree!Kept, None} \/ c.parent \in Tree!Stored) /\ (c.new \/ c.id \in Tree!Stored)

(* The row that is written. *)
LEMMA WrittenRow ==
  ASSUME Sentinels, TreeShape, NEW c \in TagCall, c.id \in Tags, c.name # None,
         c.new => c.name # Tree!Kept /\ c.parent # Tree!Kept, TagAccepted(c), tag' = TagWritten(c)
  PROVE  /\ Tree!NewName(c) \in Names /\ Tree!NewParent(c) \in Tags \cup {None}
         /\ DOMAIN tag' = Tags
         /\ tag'[c.id] # None /\ tag'[c.id].name = Tree!NewName(c) /\ tag'[c.id].parent = Tree!NewParent(c)
         /\ tag'[c.id] \in TagRow
         /\ \A s \in Tags \ {c.id} : tag'[s] = tag[s]
         /\ Tree!Stored' = Tree!Stored \cup {c.id}
<1>1. c.name \in Names \cup {Tree!Kept, None} /\ c.parent \in Tags \cup {Tree!Kept, None}
  BY DEF TagCall
<1>2. c.id \in Tree!Stored => tag[c.id].name \in Names /\ tag[c.id].parent \in Tags \cup {None}
  BY DEF Tree!Stored, TreeShape, TagsTyped, TagRow
<1>3. c.new \/ c.id \in Tree!Stored
  BY DEF TagAccepted
<1>4. Tree!NewName(c) \in Names
  BY <1>1, <1>2, <1>3 DEF Tree!NewName
<1>5. Tree!NewParent(c) \in Tags \cup {None}
  BY <1>1, <1>2, <1>3 DEF Tree!NewParent
<1>6. DOMAIN tag' = Tags /\ tag'[c.id] = [name |-> Tree!NewName(c), parent |-> Tree!NewParent(c)]
      /\ \A s \in Tags \ {c.id} : tag'[s] = tag[s]
  BY DEF TagWritten, TreeShape
<1>7. tag'[c.id] \in TagRow
  BY <1>4, <1>5, <1>6 DEF TagRow
<1>8. Tree!Stored' = Tree!Stored \cup {c.id}
  BY <1>6, <1>7 DEF Tree!Stored, Sentinels
<1> QED
  BY <1>4, <1>5, <1>6, <1>7, <1>8 DEF Sentinels

(* The new parent of a tag is never in the tag's branch. *)
LEMMA ParentOutside ==
  ASSUME Sentinels, TreeShape, ParentsStored, NEW c \in TagCall, c.id \in Tags, c.new => c.parent # Tree!Kept,
         TagAccepted(c), StillFits(c), c.new => c.id \notin Tree!Stored, c.parent # Tree!Kept, NEW C \in SUBSET (Tree!Stored \cup {c.id}),
         c.parent \in C, Rooted
  PROVE  \E t \in C \ {c.id} : tag[t].parent \notin C
<1>1. c.parent \in Tree!Stored
  BY DEF TagAccepted, Sentinels, Tree!Stored
<1>2. c.id \notin Tree!Above(c.parent) /\ c.parent \in Tags
  BY <1>1 DEF StillFits, Tree!Stored
<1> DEFINE D == C \cap Tree!Above(c.parent)
<1>3. D \in SUBSET Tree!Stored /\ D # {}
  BY <1>2, AboveItself
<1>4. PICK t \in D : tag[t].parent \notin D
  BY <1>3 DEF Rooted
<1>5. tag[t].parent \in Tree!Above(c.parent) \cup {None} /\ t \in C \ {c.id} /\ t \in Tree!Stored
  BY <1>2, <1>3, <1>4, AboveClosed DEF Tree!Closed
<1>6. None \notin C
  BY DEF Tree!Stored, Sentinels
<1> QED
  BY <1>4, <1>5, <1>6

(* It leaves a tree. *)
LEMMA WriteTree ==
  ASSUME Sentinels, ParentsStored, Rooted, Tree!SiblingsDiffer, TreeShape, NEW c \in TagCall, c.id \in Tags, c.name # None,
         c.new => c.name # Tree!Kept /\ c.parent # Tree!Kept, TagAccepted(c), StillFits(c), tag' = TagWritten(c),
         c.new => c.id \notin Tree!Stored
  PROVE  ParentsStored' /\ Rooted' /\ Tree!SiblingsDiffer'
<1>1. /\ tag'[c.id].name = Tree!NewName(c) /\ tag'[c.id].parent = Tree!NewParent(c)
      /\ \A s \in Tags \ {c.id} : tag'[s] = tag[s]
      /\ Tree!Stored' = Tree!Stored \cup {c.id}
  BY WrittenRow
<1>2. c.parent \in {Tree!Kept, None} \/ c.parent \in Tree!Stored
  BY DEF TagAccepted
<1>3. c.parent = Tree!Kept => c.id \in Tree!Stored /\ Tree!NewParent(c) = tag[c.id].parent
  BY DEF TagAccepted, Tree!NewParent
<1>4. c.parent # Tree!Kept => Tree!NewParent(c) = c.parent
  BY DEF Tree!NewParent
<1>5. Tree!NewParent(c) \in Tree!Stored \cup {None}
  BY <1>2, <1>3, <1>4 DEF ParentsStored
<1>6. ParentsStored'
  BY <1>1, <1>5 DEF ParentsStored, Tree!Stored
<1>7. ASSUME NEW C \in SUBSET Tree!Stored', C # {}
      PROVE  \E t \in C : tag'[t].parent \notin C
  <2>1. \A t \in C \ {c.id} : tag'[t] = tag[t] /\ t \in Tree!Stored
    BY <1>1 DEF Tree!Stored
  <2>2. CASE c.id \notin C \/ c.parent = Tree!Kept
    <3>1. C \in SUBSET Tree!Stored /\ \A t \in C : tag'[t].parent = tag[t].parent
      BY <2>1, <2>2, <1>1, <1>3, <1>7
    <3> QED
      BY <3>1, <1>7 DEF Rooted
  <2>3. CASE c.id \in C /\ c.parent # Tree!Kept /\ c.parent \notin C
    BY <2>3, <1>1, <1>4
  <2>4. CASE c.parent # Tree!Kept /\ c.parent \in C
    BY <2>4, <2>1, <1>1, <1>7, ParentOutside
  <2> QED
    BY <2>2, <2>3, <2>4
<1>8. Rooted'
  BY <1>7 DEF Rooted
<1>9. ASSUME NEW s \in Tree!Stored \ {c.id}, tag[s].parent = Tree!NewParent(c)
      PROVE  tag[s].name # Tree!NewName(c)
  <2>1. Tree!NameFits(c)
    BY DEF TagAccepted, StillFits
  <2>2. CASE c.new
    <3>1. Tree!NewName(c) = c.name /\ Tree!NewParent(c) = c.parent
      BY <2>2 DEF Tree!NewName, Tree!NewParent
    <3>2. s # None
      BY DEF Tree!Stored, Sentinels
    <3> QED
      BY <2>1, <2>2, <3>1, <3>2, <1>9 DEF Tree!NameFits, Tree!NameTaken
  <2>3. CASE ~c.new
    <3>1. c.id \in Tree!Stored /\ tag[c.id] # None
      BY <2>3 DEF TagAccepted, Tree!Stored
    <3>2. CASE Tree!NewName(c) # tag[c.id].name \/ Tree!NewParent(c) # tag[c.id].parent
      BY <2>1, <2>3, <3>1, <3>2, <1>9 DEF Tree!NameFits, Tree!NameTaken
    <3>3. CASE Tree!NewName(c) = tag[c.id].name /\ Tree!NewParent(c) = tag[c.id].parent
      BY <3>1, <3>3, <1>9 DEF Tree!SiblingsDiffer
    <3> QED
      BY <3>2, <3>3
  <2> QED
    BY <2>2, <2>3
<1>10. Tree!SiblingsDiffer'
  BY <1>1, <1>9 DEF Tree!SiblingsDiffer, Tree!Stored
<1> QED
  BY <1>6, <1>8, <1>10

-----------------------------------------------------------------------------
(* Creates, updates, the lock and the check write no row. *)
LEMMA CallsKeepTree ==
  ASSUME TreeFits, UNCHANGED tag, NEW p \in Procs, NEW new \in TagCall, Tree!Set(p, new),
         new.pc # "idle" => new.id \in Tags /\ new.name # None,
         new.new => new.pc # "idle" /\ new.name # Tree!Kept /\ new.parent # Tree!Kept
  PROVE  TreeFits' /\ Tree!Stored' = Tree!Stored /\ tproc'[p] = new /\ \A q \in Procs \ {p} : tproc'[q] = tproc[q]
<1>1. Tree!Stored' = Tree!Stored
  BY DEF Tree!Stored
<1>2. ParentsStored' /\ Rooted' /\ Tree!SiblingsDiffer'
  BY <1>1 DEF TreeFits, ParentsStored, Rooted, Tree!SiblingsDiffer
<1>3. tproc' \in [Procs -> TagCall] /\ tproc'[p] = new /\ \A q \in Procs \ {p} : tproc'[q] = tproc[q]
  BY DEF TreeFits, TreeShape, Tree!Set
<1>4. TreeShape'
  BY <1>3 DEF TreeFits, TreeShape, TagsTyped
<1> QED
  BY <1>1, <1>2, <1>3, <1>4 DEF TreeFits

(* What fitted still fits while no row is written. *)
LEMMA TagSameFits ==
  ASSUME UNCHANGED tag, NEW c, StillFits(c)
  PROVE  StillFits(c)'
  BY DEF StillFits, Tree!Stored, Tree!Above, Tree!Closed, Tree!NameFits, Tree!NameTaken, Tree!NewName, Tree!NewParent

(* The first step of a call. *)
LEMMA TagBeginKeeps ==
  ASSUME Sentinels, TreeInv, NEW p \in Procs, NEW t \in Tags, NEW parent \in Tags \cup {None, Tree!Kept},
         \/ \E name \in Names : parent # Tree!Kept /\ Tree!Create(p, t, name, parent)
         \/ \E name \in Names \cup {Tree!Kept} : Tree!Update(p, t, name, parent)
  PROVE  TreeInv'
<1>1. PICK name \in Names \cup {Tree!Kept}, new \in BOOLEAN :
        /\ Tree!Set(p, [pc |-> "lock", id |-> t, name |-> name, parent |-> parent, new |-> new])
        /\ Tree!At(p, "idle") /\ UNCHANGED <<tag, row>>
        /\ new => name # Tree!Kept /\ parent # Tree!Kept /\ t \notin Tree!Stored /\ \A q \in Procs : tproc[q].id # t
        /\ ~new => t \in Tree!Stored
  BY DEF Tree!Create, Tree!Update, Sentinels, Tree!Stored
<1> DEFINE c == [pc |-> "lock", id |-> t, name |-> name, parent |-> parent, new |-> new]
<1>2. c \in TagCall /\ c.pc = "lock" /\ c.id = t /\ c.name = name /\ c.parent = parent /\ c.new = new
  BY DEF TagCall, TagSteps
<1>3. name # None
  BY DEF Sentinels
<1> HIDE DEF c
<1>4. TreeFits' /\ Tree!Stored' = Tree!Stored /\ tproc'[p] = c /\ \A q \in Procs \ {p} : tproc'[q] = tproc[q]
  BY <1>1, <1>2, <1>3, CallsKeepTree DEF TreeInv, c
<1>5. RowIsHeld'
  BY <1>1, <1>2, <1>4 DEF RowIsHeld, TreeInv, Tree!At
<1>6. NewIsFresh'
  BY <1>1, <1>2, <1>4 DEF NewIsFresh, TreeInv
<1>7. TagChecked'
  BY <1>1, <1>2, <1>4, TagSameFits DEF TagChecked, TreeInv
<1> QED
  BY <1>4, <1>5, <1>6, <1>7 DEF TreeInv

(* The row of the workspace. *)
LEMMA TagLockKeeps ==
  ASSUME Sentinels, TreeInv, NEW p \in Procs, Tree!LockWorkspaceTags(p)
  PROVE  TreeInv'
<1>1. PICK c : c = [tproc[p] EXCEPT !.pc = "check"]
  OBVIOUS
<1>2. tproc[p] \in TagCall /\ tproc[p].pc = "lock" /\ row = None /\ row' = p /\ UNCHANGED tag /\ Tree!Set(p, c)
  BY <1>1 DEF Tree!LockWorkspaceTags, Tree!At, TreeInv, TreeFits, TreeShape
<1>3. c \in TagCall /\ c.pc = "check" /\ c.id = tproc[p].id /\ c.name = tproc[p].name
      /\ c.parent = tproc[p].parent /\ c.new = tproc[p].new
  BY <1>1, <1>2 DEF TagCall, TagSteps
<1>4. TreeFits' /\ Tree!Stored' = Tree!Stored /\ tproc'[p] = c /\ \A q \in Procs \ {p} : tproc'[q] = tproc[q]
  BY <1>2, <1>3, CallsKeepTree DEF TreeInv, TreeFits, TreeShape
<1>5. RowIsHeld'
  BY <1>2, <1>3, <1>4 DEF RowIsHeld, TreeInv, Sentinels
<1>6. NewIsFresh'
  BY <1>2, <1>3, <1>4 DEF NewIsFresh, TreeInv
<1>7. TagChecked'
  BY <1>2, <1>3, <1>4, TagSameFits DEF TagChecked, TreeInv
<1> QED
  BY <1>4, <1>5, <1>6, <1>7 DEF TreeInv

(* A call's end frees the row, if the call held it. *)
LEMMA TagEndKeeps ==
  ASSUME Sentinels, TreeInv, NEW p \in Procs, tproc[p].pc \in {"check", "write"}, Tree!Ends(p), UNCHANGED tag
  PROVE  TreeInv'
<1>1. Tree!Idle \in TagCall /\ Tree!Idle.pc = "idle" /\ Tree!Idle.id = None /\ Tree!Idle.new = FALSE
  BY DEF Tree!Idle, TagCall, TagSteps
<1>2. row = p /\ row' = None /\ Tree!Set(p, Tree!Idle)
  BY DEF Tree!Ends, TreeInv, RowIsHeld
<1>3. TreeFits' /\ Tree!Stored' = Tree!Stored /\ tproc'[p] = Tree!Idle /\ \A q \in Procs \ {p} : tproc'[q] = tproc[q]
  BY <1>1, <1>2, CallsKeepTree DEF TreeInv
<1>4. RowIsHeld'
  BY <1>1, <1>2, <1>3 DEF RowIsHeld, TreeInv, Sentinels
<1>5. NewIsFresh'
  <2>1. \A q \in Procs : tproc[q].new => tproc[q].id \in Tags
    BY DEF TreeInv, TreeFits, TreeShape, TagCall
  <2> QED
  BY <1>1, <1>3, <2>1 DEF NewIsFresh, TreeInv, Sentinels
<1>6. TagChecked'
  BY <1>1, <1>3, TagSameFits DEF TagChecked, TreeInv
<1> QED
  BY <1>3, <1>4, <1>5, <1>6 DEF TreeInv

(* What is checked fits: no tag is created or moved under its own branch. *)
LEMMA TagCheckKeeps ==
  ASSUME Sentinels, TreeInv, NEW p \in Procs, Tree!Check(p)
  PROVE  TreeInv'
<1>1. tproc[p] \in TagCall /\ tproc[p].pc = "check" /\ UNCHANGED tag
  BY DEF Tree!Check, Tree!At, TreeInv, TreeFits, TreeShape
<1>2. CASE Tree!ParentFits(tproc[p]) /\ Tree!NameFits(tproc[p])
  <2>1. PICK c : c = [tproc[p] EXCEPT !.pc = "write"]
    OBVIOUS
  <2>2. Tree!Set(p, c) /\ UNCHANGED row
    BY <1>2, <2>1 DEF Tree!Check
  <2>3. c \in TagCall /\ c.pc = "write" /\ c.id = tproc[p].id /\ c.name = tproc[p].name
        /\ c.parent = tproc[p].parent /\ c.new = tproc[p].new
    BY <1>1, <2>1 DEF TagCall, TagSteps
  <2>4. TreeFits' /\ Tree!Stored' = Tree!Stored /\ tproc'[p] = c /\ \A q \in Procs \ {p} : tproc'[q] = tproc[q]
    BY <1>1, <2>2, <2>3, CallsKeepTree DEF TreeInv, TreeFits, TreeShape
  <2>5. RowIsHeld'
    BY <1>1, <2>2, <2>3, <2>4 DEF RowIsHeld, TreeInv
  <2>6. NewIsFresh'
    BY <2>3, <2>4 DEF NewIsFresh, TreeInv
  <2>7. ASSUME c.parent \in Tree!Stored
        PROVE  c.id \notin Tree!Above(c.parent)
    <3>1. CASE c.new
      BY <1>1, <2>3, <2>7, <3>1, AboveStored DEF TreeInv, NewIsFresh, TreeFits
    <3>2. CASE ~c.new
      BY <1>2, <2>3, <2>7, <3>2 DEF Tree!ParentFits, Tree!Stored, Sentinels
    <3> QED
      BY <3>1, <3>2
  <2>8. Tree!NameFits(c)
    BY <1>2, <2>3 DEF Tree!NameFits, Tree!NameTaken, Tree!NewName, Tree!NewParent
  <2>9. StillFits(c)'
    BY <1>1, <2>7, <2>8, TagSameFits DEF StillFits
  <2>10. TagChecked'
    BY <1>1, <2>4, <2>9, TagSameFits DEF TagChecked, TreeInv
  <2> QED
    BY <2>4, <2>5, <2>6, <2>10 DEF TreeInv
<1>3. CASE ~(Tree!ParentFits(tproc[p]) /\ Tree!NameFits(tproc[p]))
  BY <1>1, <1>3, TagEndKeeps DEF Tree!Check
<1> QED
  BY <1>2, <1>3

(* The write. *)
LEMMA TagWriteKeeps ==
  ASSUME Sentinels, TreeInv, NEW p \in Procs, Tree!Write(p)
  PROVE  TreeInv'
<1>1. tproc[p] \in TagCall /\ tproc[p].pc = "write" /\ tproc[p].id \in Tags /\ tproc[p].name # None
      /\ (tproc[p].new => tproc[p].name # Tree!Kept /\ tproc[p].parent # Tree!Kept /\ tproc[p].id \notin Tree!Stored)
      /\ StillFits(tproc[p]) /\ Tree!Ends(p)
  BY DEF Tree!Write, Tree!At, TreeInv, TreeFits, TreeShape, NewIsFresh, TagChecked
<1>2. CASE ~TagAccepted(tproc[p])
  BY <1>1, <1>2, TagEndKeeps DEF Tree!Write, TagAccepted
<1>3. CASE TagAccepted(tproc[p])
  <2>1. tag' = TagWritten(tproc[p])
    BY <1>3 DEF Tree!Write, TagAccepted, TagWritten
  <2>2. ParentsStored' /\ Rooted' /\ Tree!SiblingsDiffer'
    BY <1>1, <1>3, <2>1, WriteTree DEF TreeInv, TreeFits
  <2>3. DOMAIN tag' = Tags /\ tag'[tproc[p].id] \in TagRow /\ (\A s \in Tags \ {tproc[p].id} : tag'[s] = tag[s])
        /\ Tree!Stored' = Tree!Stored \cup {tproc[p].id}
    BY <1>1, <1>3, <2>1, WrittenRow DEF TreeInv, TreeFits
  <2>4. row = p /\ row' = None /\ Tree!Set(p, Tree!Idle)
    BY <1>1 DEF Tree!Ends, TreeInv, RowIsHeld
  <2>5. Tree!Idle \in TagCall /\ Tree!Idle.pc = "idle" /\ Tree!Idle.id = None /\ Tree!Idle.new = FALSE
    BY DEF Tree!Idle, TagCall, TagSteps
  <2>6. tproc' \in [Procs -> TagCall] /\ tproc'[p] = Tree!Idle /\ \A q \in Procs \ {p} : tproc'[q] = tproc[q]
    BY <2>4, <2>5 DEF TreeInv, TreeFits, TreeShape, Tree!Set
  <2>7. TreeShape'
    BY <2>3, <2>5, <2>6 DEF TreeInv, TreeFits, TreeShape, TagsTyped
  <2>8. RowIsHeld'
    BY <2>4, <2>5, <2>6 DEF RowIsHeld, TreeInv, Sentinels
  <2>9. NewIsFresh'
    <3>1. \A q \in Procs : tproc[q].new => tproc[q].id \in Tags
      BY DEF TreeInv, TreeFits, TreeShape
    <3> QED
      BY <3>1, <2>3, <2>5, <2>6 DEF NewIsFresh, TreeInv, Sentinels
  <2>10. \A q \in Procs \ {p} : tproc[q].pc # "write"
    BY <2>4 DEF TreeInv, RowIsHeld
  <2>11. TagChecked'
    BY <2>5, <2>6, <2>10 DEF TagChecked
  <2> QED
    BY <2>2, <2>7, <2>8, <2>9, <2>11 DEF TreeInv, TreeFits
<1> QED
  BY <1>2, <1>3

(* A deletion. *)
LEMMA TagDeleteKeeps ==
  ASSUME Sentinels, TreeInv, NEW t \in Tags, Tree!Delete(t)
  PROVE  TreeInv'
<1>1. Fewer /\ TreeFits' /\ UNCHANGED <<row, tproc>>
  BY DeleteFewer DEF TreeInv, Tree!Delete
<1>2. RowIsHeld' /\ NewIsFresh'
  BY <1>1 DEF RowIsHeld, NewIsFresh, TreeInv, Fewer
<1>3. TagChecked'
  BY <1>1, FewerFits DEF TagChecked, TreeInv, TreeFits, TreeShape
<1> QED
  BY <1>1, <1>2, <1>3 DEF TreeInv

-----------------------------------------------------------------------------
(* The database the calls begin with: a tree of tags, an empty one for example. *)
BeginsAsTree == DOMAIN tag = Tags /\ TagsTyped /\ ParentsStored /\ Rooted /\ Tree!SiblingsDiffer

(* The invariant holds at the beginning and is kept by every step. *)
THEOREM TreeInvariant ==
  ASSUME Sentinels
  PROVE  BeginsAsTree /\ Tree!Spec => []TreeInv
<1>1. BeginsAsTree /\ Tree!Init => TreeInv
  <2> SUFFICES ASSUME BeginsAsTree, Tree!Init PROVE TreeInv
    OBVIOUS
  <2>1. Tree!Idle \in TagCall /\ Tree!Idle.pc = "idle" /\ Tree!Idle.id = None /\ Tree!Idle.new = FALSE
    BY DEF Tree!Idle, TagCall, TagSteps
  <2>2. tproc \in [Procs -> TagCall] /\ (\A p \in Procs : tproc[p] = Tree!Idle) /\ row = None
    BY <2>1 DEF Tree!Init
  <2> QED
    BY <2>1, <2>2 DEF TreeInv, TreeFits, BeginsAsTree, TreeShape, RowIsHeld, NewIsFresh, TagChecked, Sentinels
<1>2. TreeInv /\ [Tree!Next]_Tree!vars => TreeInv'
  <2> SUFFICES ASSUME TreeInv, [Tree!Next]_Tree!vars PROVE TreeInv'
    OBVIOUS
  <2>1. CASE UNCHANGED Tree!vars
    <3>1. UNCHANGED <<tag, row, tproc>> /\ Tree!Stored' = Tree!Stored
      BY <2>1 DEF Tree!vars, Tree!Stored
    <3>2. TreeFits'
      BY <3>1 DEF TreeInv, TreeFits, TreeShape, TagsTyped, ParentsStored, Rooted, Tree!SiblingsDiffer
    <3>3. RowIsHeld' /\ NewIsFresh'
      BY <3>1 DEF TreeInv, RowIsHeld, NewIsFresh
    <3>4. TagChecked'
      BY <3>1, TagSameFits DEF TreeInv, TagChecked
    <3> QED
      BY <3>2, <3>3, <3>4 DEF TreeInv
  <2>2. CASE Tree!Next
    BY <2>2, TagBeginKeeps, TagLockKeeps, TagCheckKeeps, TagWriteKeeps, TagDeleteKeeps DEF Tree!Next
  <2> QED
    BY <2>1, <2>2
<1> QED
  BY <1>1, <1>2, PTL DEF Tree!Spec

(* The types that the runs check. *)
THEOREM TagTypes ==
  ASSUME Sentinels
  PROVE  BeginsAsTree /\ Tree!Spec => []Tree!TypeOK
<1>1. TreeInv => Tree!TypeOK
  BY TreeInvTyped
<1> QED
  BY <1>1, TreeInvariant, PTL

(* Tags stay a tree: no moves that overlap put two tags into each other's branch, and
   no deletion leaves a tag without its parent. *)
THEOREM TagsStayTree ==
  ASSUME Sentinels
  PROVE  BeginsAsTree /\ Tree!Spec => []Tree!NoLoops
<1>1. TreeInv => Tree!NoLoops
  BY RootedHasNoLoops DEF TreeInv, TreeFits
<1> QED
  BY <1>1, TreeInvariant, PTL

(* Creates, renames and moves that overlap never give two siblings one name. *)
THEOREM NamesStayUnique ==
  ASSUME Sentinels
  PROVE  BeginsAsTree /\ Tree!Spec => []Tree!SiblingsDiffer
<1>1. TreeInv => Tree!SiblingsDiffer
  BY DEF TreeInv, TreeFits
<1> QED
  BY <1>1, TreeInvariant, PTL

-----------------------------------------------------------------------------
(* All of them together.                                                   *)

(* In a behaviour of all services each of them behaves as it is specified. *)
LEMMA EachBehaves ==
  Services => Spec /\ Bytes!Spec /\ Runtimes!Spec /\ Sweeps!Spec /\ Tree!Spec /\ Team!Spec
<1>1. ServicesInit => Init /\ Bytes!Init /\ Runtimes!Init /\ Sweeps!Init /\ Tree!Init /\ Team!Init
  BY DEF ServicesInit
<1>2. [ServicesNext]_everything => [Next]_vars
  BY DEF ServicesNext, everything
<1>3. [ServicesNext]_everything => [Bytes!Next]_(Bytes!vars)
  BY DEF ServicesNext, everything, OnQuota, Bytes!vars
<1>4. [ServicesNext]_everything => [Runtimes!Next]_(Runtimes!vars)
  BY DEF ServicesNext, everything, OnRegistry, Runtimes!vars, Runtimes!registry
<1>5. [ServicesNext]_everything => [Sweeps!Next]_(Sweeps!vars)
  BY DEF ServicesNext, everything, OnSweep, Sweeps!vars
<1>6. [ServicesNext]_everything => [Tree!Next]_(Tree!vars)
  BY DEF ServicesNext, everything, OnTags, Tree!vars
<1>7. [ServicesNext]_everything => [Team!Next]_(Team!vars)
  BY DEF ServicesNext, everything, OnMembers, Team!vars, Team!rows
<1> QED
  BY <1>1, <1>2, <1>3, <1>4, <1>5, <1>6, <1>7, PTL
  DEF Services, Spec, Bytes!Spec, Runtimes!Spec, Sweeps!Spec, Tree!Spec, Team!Spec

LEMMA Assumed == Bytes!Given /\ Team!Given /\ Sentinels /\ None \notin Nat
<1>1. None \notin Procs
  BY ServicesAssumption DEF Team!Given
<1> QED
  BY <1>1, ServicesAssumption, QueueAssumption DEF Sentinels, TagRow

(* Whatever happens to one of the services, all variables keep their types: when the tags
   begin as a tree, and the members in order. *)
THEOREM ServicesTypes == BeginsAsTree /\ Team!BeginsInOrder /\ Services => []ServicesTypeOK
<1>1. Bytes!Spec => []Bytes!TypeOK
  BY Assumed, Bytes!QuotaTypes
<1>2. Runtimes!Spec => []Runtimes!TypeOK
  BY Assumed, Runtimes!RegistryTypes
<1>3. Sweeps!Spec => []Sweeps!TypeOK
  BY SweepTypes
<1>4. BeginsAsTree /\ Tree!Spec => []Tree!TypeOK
  BY Assumed, TagTypes
<1>5. Team!BeginsInOrder /\ Team!Spec => []Team!TypeOK
  BY Assumed, Team!MemberTypes
<1>6. TypeOK /\ Bytes!TypeOK /\ Runtimes!TypeOK /\ Sweeps!TypeOK /\ Tree!TypeOK /\ Team!TypeOK => ServicesTypeOK
  BY DEF ServicesTypeOK
<1> QED
  BY <1>1, <1>2, <1>3, <1>4, <1>5, <1>6, QueueTypes, EachBehaves, PTL

(* Included storage, the four properties of StorageQuota: whatever calls overlap, fail,
   crash or are handed over, an account is charged what the rows of its workspaces say. *)
THEOREM ServicesAddUp == Services => []AccountsAdd
<1>1. Bytes!Spec => []Bytes!AccountsAdd
  BY Assumed, Bytes!AccountsAddUp
<1>2. Bytes!AccountsAdd => AccountsAdd
  BY DEF AccountsAdd
<1> QED
  BY <1>1, <1>2, EachBehaves, PTL

(* Overlapping calls, in several workspaces of an account, keep within its quota. *)
THEOREM ServicesKeepQuota == Services => []QuotaKept
<1>1. Bytes!Spec => []Bytes!QuotaKept
  BY Assumed, Bytes!QuotaIsKept
<1>2. Bytes!QuotaKept => QuotaKept
  BY DEF QuotaKept
<1> QED
  BY <1>1, <1>2, EachBehaves, PTL

(* Once nothing is under way, a row says what is stored and held in its workspace. *)
THEOREM ServicesCharge == Services => []Charged
<1>1. Bytes!Spec => []Bytes!Charged
  BY Assumed, Bytes!RowsCharged
<1>2. Bytes!Charged => Charged
  BY DEF Charged
<1> QED
  BY <1>1, <1>2, EachBehaves, PTL

(* An upload's reserved bytes come back: its operation is there to give them back. *)
THEOREM ServicesReturn == Services => []Returned
<1>1. Bytes!Spec => []Bytes!Returned
  BY Assumed, Bytes!UploadsReturned
<1>2. Bytes!Returned => Returned
  BY DEF Returned
<1> QED
  BY <1>1, <1>2, EachBehaves, PTL

(* The registry loses no runtime that it has created: it is reachable, or being closed. *)
THEOREM ServicesLoseNone == Services => []NoneLost
<1>1. Runtimes!Spec => []Runtimes!NoneLost
  BY Assumed, Runtimes!NoRuntimeLost
<1>2. Runtimes!NoneLost => NoneLost
  BY DEF NoneLost
<1> QED
  BY <1>1, <1>2, EachBehaves, PTL

(* No request is handed a runtime that was invalidated while it waited, unless it has just
   asked for that runtime's revision. *)
THEOREM ServicesServeOpen == Services => ServedOpen
<1>1. Runtimes!Spec => Runtimes!ServedOpen
  BY Assumed, Runtimes!OnlyOpenServed
<1>2. [\A p \in Requesters : Runtimes!ServesOpen(p)]_(Runtimes!vars)
        => [service = "registry" => \A p \in Requesters : Runtimes!ServesOpen(p)]_OnRegistry
  BY DEF Runtimes!vars, Runtimes!registry, OnRegistry
<1> QED
  BY <1>1, <1>2, EachBehaves, PTL DEF ServedOpen, Runtimes!ServedOpen

(* What was saved before a sweep was asked for has been read when the sweep returns well. *)
THEOREM ServicesReadSaved == Services => []SavedIsRead
<1>1. Sweeps!SavedIsRead => SavedIsRead
  BY DEF SavedIsRead
<1> QED
  BY <1>1, SavedSettingIsRead, EachBehaves, PTL

(* A stopped sweep stays stopped. *)
THEOREM ServicesQuiet == Services => []QuietAfterStop
<1>1. Sweeps!QuietAfterStop => QuietAfterStop
  BY DEF QuietAfterStop
<1> QED
  BY <1>1, NothingAfterStop, EachBehaves, PTL

(* Overlapping moves and deletions leave no loop of tags, if there was none. *)
THEOREM ServicesKeepTree == BeginsAsTree /\ Services => []NoLoops
<1>1. BeginsAsTree /\ Tree!Spec => []Tree!NoLoops
  BY Assumed, TagsStayTree
<1>2. Tree!NoLoops => NoLoops
  BY DEF NoLoops
<1> QED
  BY <1>1, <1>2, EachBehaves, PTL

(* Overlapping creates, renames and moves give no two siblings one name, if none had. *)
THEOREM ServicesKeepNames == BeginsAsTree /\ Services => []SiblingsDiffer
<1>1. BeginsAsTree /\ Tree!Spec => []Tree!SiblingsDiffer
  BY Assumed, NamesStayUnique
<1>2. Tree!SiblingsDiffer => SiblingsDiffer
  BY DEF SiblingsDiffer
<1> QED
  BY <1>1, <1>2, EachBehaves, PTL

(* Limits, invites for one, and one owner per workspace hold of members in order. *)
THEOREM ServicesKeepMembers == Team!BeginsInOrder /\ Services => []MembersFit
<1>1. Team!BeginsInOrder /\ Team!Spec => []Team!MembersFit
  BY Assumed, Team!MembersStayInOrder
<1>2. Team!MembersFit => MembersFit
  BY DEF MembersFit
<1> QED
  BY <1>1, <1>2, EachBehaves, PTL
=============================================================================
