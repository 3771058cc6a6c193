----------------------------- MODULE LeasedSweep -----------------------------
(***************************************************************************)
(* A sweep that every replica of a workspace runs on an interval, under one *)
(* lease; and at once when a setting it reads has been saved.  Rounds end   *)
(* and awaiting callers go on in one turn of the event loop: no timer comes *)
(* between them.                                                            *)
(***************************************************************************)
EXTENDS Integers

CONSTANTS Replicas, Procs, Situations, None

VARIABLES
  saved,    \* the version of the setting in the database
  applied,  \* the newest version that a finished sweep has read
  lease,    \* the replica that holds the lease, or None
  round,    \* what is running on each replica
  stop,     \* each replica: "no", "asked", or "returned"
  call,     \* what each caller is doing
  left      \* what may still happen

vars == <<saved, applied, lease, round, stop, call, left>>

NoRound == [pc |-> "none", wait |-> FALSE, read |-> 0]
NoCall == [pc |-> "idle", at |-> None, want |-> 0, ok |-> TRUE]

Init ==
  /\ left \in Situations
  /\ saved = 0 /\ applied = 0 /\ lease = None
  /\ round = [r \in Replicas |-> NoRound] /\ stop = [r \in Replicas |-> "no"]
  /\ call = [p \in Procs |-> NoCall]

Spend(what) == left[what] > 0 /\ left' = [left EXCEPT ![what] = @ - 1]
In(r, pc) == round[r].pc = pc
Begins(r, wait) == round' = [round EXCEPT ![r] = [NoRound EXCEPT !.pc = "lease", !.wait = wait]]
Called(p, r, pc) == call[p].pc = pc /\ call[p].at = r

(* run(false), by the timer: not while one is running, nor when stopped. *)
Tick(r) ==
  /\ In(r, "none") /\ stop[r] = "no" /\ Spend("ticks")
  /\ Begins(r, FALSE)
  /\ UNCHANGED <<saved, applied, lease, stop, call>>

(* saveBoard: the setting is written, and then sweepNow is awaited. *)
Save(p, r) ==
  /\ call[p].pc = "idle" /\ Spend("saves")
  /\ saved' = saved + 1
  /\ call' = [call EXCEPT ![p] = [NoCall EXCEPT !.pc = "saved", !.at = r, !.want = saved + 1]]
  /\ UNCHANGED <<applied, lease, round, stop>>

(* Mutant: the caller joins the round that is in flight. *)
SweepNowJoins(p) ==
  LET r == call[p].at IN
  /\ call[p].pc = "saved"
  /\ IF stop[r] # "no" THEN call' = [call EXCEPT ![p] = [@ EXCEPT !.pc = "returned", !.ok = FALSE]]
     ELSE call' = [call EXCEPT ![p].pc = "joined"]
  /\ IF In(r, "none") /\ stop[r] = "no" THEN Begins(r, TRUE) ELSE UNCHANGED round
  /\ UNCHANGED <<saved, applied, lease, stop, left>>

(* sweepNow: whatever is running is awaited first. *)
SweepNow(p) ==
  LET r == call[p].at IN
  /\ call[p].pc = "saved"
  /\ \/ /\ ~In(r, "none")
        /\ call' = [call EXCEPT ![p].pc = "awaiting"] /\ UNCHANGED round
     \/ /\ In(r, "none") /\ stop[r] = "no"
        /\ call' = [call EXCEPT ![p].pc = "joined"] /\ Begins(r, TRUE)
     \/ /\ In(r, "none") /\ stop[r] # "no"
        /\ call' = [call EXCEPT ![p] = [@ EXCEPT !.pc = "returned", !.ok = FALSE]] /\ UNCHANGED round
  /\ UNCHANGED <<saved, applied, lease, stop, left>>

(* Mutant: those who awaited it begin another, stopped or not. *)
EndsAndBegins(r, ok) ==
  /\ call' = [p \in Procs |->
       IF Called(p, r, "joined") THEN [call[p] EXCEPT !.pc = "returned", !.ok = ok]
       ELSE IF Called(p, r, "awaiting") THEN [call[p] EXCEPT !.pc = "joined"] ELSE call[p]]
  /\ IF \E p \in Procs : Called(p, r, "awaiting") THEN Begins(r, TRUE)
     ELSE round' = [round EXCEPT ![r] = NoRound]
  /\ stop' = [stop EXCEPT ![r] = IF @ = "asked" THEN "returned" ELSE @]

(* A round ends: those who joined it return, those who awaited it begin one
   together, unless the sweep is stopped; and stop returns. *)
Ends(r, ok) ==
  LET goOn == stop[r] = "no" IN
  /\ call' = [p \in Procs |->
       IF Called(p, r, "joined") THEN [call[p] EXCEPT !.pc = "returned", !.ok = ok]
       ELSE IF Called(p, r, "awaiting")
            THEN [call[p] EXCEPT !.pc = IF goOn THEN "joined" ELSE "returned", !.ok = goOn]
            ELSE call[p]]
  /\ IF goOn /\ \E p \in Procs : Called(p, r, "awaiting") THEN Begins(r, TRUE)
     ELSE round' = [round EXCEPT ![r] = NoRound]
  /\ stop' = [stop EXCEPT ![r] = IF @ = "asked" THEN "returned" ELSE @]

(* acquireWorkLease: a scheduled round is skipped, sweepNow's waits. *)
Acquire(r) ==
  /\ In(r, "lease") /\ lease = None
  /\ lease' = r
  /\ round' = [round EXCEPT ![r].pc = "read"]
  /\ UNCHANGED <<saved, applied, stop, call, left>>
Skip(r) ==
  /\ In(r, "lease") /\ lease # None /\ ~round[r].wait
  /\ Ends(r, TRUE)
  /\ UNCHANGED <<saved, applied, lease, left>>

(* autoArchiveReadyRequests reads the setting, and then archives. *)
Read(r) ==
  /\ In(r, "read")
  /\ round' = [round EXCEPT ![r] = [@ EXCEPT !.pc = "sweep", !.read = saved]]
  /\ UNCHANGED <<saved, applied, lease, stop, call, left>>

Swept(r) ==
  /\ In(r, "sweep")
  /\ applied' = IF round[r].read > applied THEN round[r].read ELSE applied
  /\ lease' = IF lease = r THEN None ELSE lease
  /\ Ends(r, TRUE)
  /\ UNCHANGED <<saved, left>>

(* onError: the lock is not obtained in time, or the sweep throws. *)
Fails(r) ==
  /\ round[r].pc \in {"lease", "read", "sweep"} /\ Spend("faults")
  /\ lease' = IF lease = r THEN None ELSE lease
  /\ Ends(r, FALSE)
  /\ UNCHANGED <<saved, applied>>

Stop(r) ==
  /\ stop[r] = "no" /\ Spend("stops")
  /\ stop' = [stop EXCEPT ![r] = IF In(r, "none") THEN "returned" ELSE "asked"]
  /\ UNCHANGED <<saved, applied, lease, round, call>>

Return(p) ==
  /\ call[p].pc = "returned"
  /\ call' = [call EXCEPT ![p] = NoCall]
  /\ UNCHANGED <<saved, applied, lease, round, stop, left>>

(* A replica dies, and is started again; its lease runs out, or a live one's. *)
Crash(r) ==
  /\ Spend("crashes")
  /\ round' = [round EXCEPT ![r] = NoRound] /\ stop' = [stop EXCEPT ![r] = "no"]
  /\ call' = [p \in Procs |-> IF call[p].at = r THEN NoCall ELSE call[p]]
  /\ UNCHANGED <<saved, applied, lease>>
RunOut ==
  /\ lease # None
  /\ IF round[lease].pc \in {"read", "sweep"} THEN Spend("lost") ELSE UNCHANGED left
  /\ lease' = None
  /\ UNCHANGED <<saved, applied, round, stop, call>>

Next ==
  \/ \E r \in Replicas : \/ Tick(r) \/ Acquire(r) \/ Skip(r) \/ Read(r) \/ Swept(r)
                         \/ Fails(r) \/ Stop(r) \/ Crash(r)
  \/ \E p \in Procs : \/ SweepNow(p) \/ Return(p)
                      \/ \E r \in Replicas : Save(p, r)
  \/ RunOut

Spec == Init /\ [][Next]_vars

-----------------------------------------------------------------------------
(* Rounds and callers are in one of their states. *)
TypeOK ==
  /\ lease \in Replicas \cup {None} /\ saved \in Nat /\ applied \in 0..saved
  /\ \A r \in Replicas : /\ round[r].pc \in {"none", "lease", "read", "sweep"}
                         /\ stop[r] \in {"no", "asked", "returned"}
  /\ \A p \in Procs : call[p].pc \in {"idle", "saved", "awaiting", "joined", "returned"}

(* When sweepNow returns, a sweep that has read the setting saved before it has
   finished - on whatever replica, and whatever rounds were skipped or joined -
   unless that sweep failed or the runtime was stopped. *)
SavedIsRead == \A p \in Procs :
  call[p].pc = "returned" /\ call[p].ok => applied >= call[p].want

(* When stop has returned no sweep is under way, nor is one begun by a caller
   who was waiting. *)
QuietAfterStop == \A r \in Replicas : stop[r] = "returned" => In(r, "none")
=============================================================================
