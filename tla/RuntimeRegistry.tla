--------------------------- MODULE RuntimeRegistry ---------------------------
(***************************************************************************)
(* One workspace's entry in the registry of runtimes.  Requests get the     *)
(* runtime; a change of storage, the end of a migration, the deletion of    *)
(* the workspace and the shutdown of the server invalidate it.  The code    *)
(* runs on one thread: what lies between two awaits is one step.            *)
(***************************************************************************)
EXTENDS Integers, Sequences

CONSTANTS Procs, Situations, None

VARIABLES
  creates,     \* every runtime that was asked for: its generation, state and storage revision
  entry,       \* the runtime in entries, or None
  fresh,       \* its checkedAt is within revisionTtlMs
  pending,     \* the runtime being created, or None
  generation,
  closedValues,
  shut,        \* close() was called
  revision,    \* of the workspace's storage
  proc,        \* what each caller is doing
  overtaken,   \* runtimes that were in the entries when another was begun
  left         \* what may still happen

registry == <<creates, entry, fresh, pending, generation, closedValues, shut>>
vars == <<registry, revision, proc, overtaken, left>>

Idle == [pc |-> "idle", of |-> None, gen |-> 0, values |-> {}, current |-> FALSE, get |-> FALSE]

Init ==
  /\ left \in Situations
  /\ creates = <<>> /\ entry = None /\ fresh = FALSE /\ pending = None
  /\ overtaken = {} /\ generation = 0 /\ closedValues = {} /\ shut = FALSE /\ revision = 0
  /\ proc = [p \in Procs |-> Idle]

Spend(what) == left[what] > 0 /\ left' = [left EXCEPT ![what] = @ - 1]
At(p, pc) == proc[p].pc = pc
Running(c) == creates[c].state = "running"
Forget(c) == pending' = IF pending = c THEN None ELSE pending
Serve(p, c) == proc' = [proc EXCEPT ![p] = [Idle EXCEPT !.pc = "served", !.of = c]]

(* The creation under way for this generation is joined, or one is begun. *)
Join(p) ==
  LET joins == pending # None /\ creates[pending].gen = generation
      c == IF joins THEN pending ELSE Len(creates) + 1
  IN /\ creates' = IF joins THEN creates
                   ELSE Append(creates, [gen |-> generation, state |-> "running", revision |-> revision])
     /\ pending' = c
     /\ proc' = [proc EXCEPT ![p] = [Idle EXCEPT !.pc = "waiting", !.of = c, !.gen = generation]]
     /\ UNCHANGED <<entry, fresh, generation, closedValues, shut>>

(* get: refused when closed; from the entry while that is fresh. *)
Get(p) ==
  /\ IF At(p, "idle") THEN Spend("gets") ELSE At(p, "again") /\ UNCHANGED left
  /\ IF ~shut /\ entry = None THEN Join(p)
     ELSE /\ IF shut THEN proc' = [proc EXCEPT ![p] = Idle]
             ELSE IF fresh THEN Serve(p, entry)
             ELSE proc' = [proc EXCEPT ![p] = [Idle EXCEPT !.pc = "asking", !.of = entry]]
          /\ UNCHANGED registry
  /\ UNCHANGED <<revision, overtaken>>

(* storageRuntimeIsCurrent *)
ReadRevision(p) ==
  /\ At(p, "asking")
  /\ proc' = [proc EXCEPT ![p] = [@ EXCEPT !.pc = "answered",
       !.current = (creates[proc[p].of].revision = revision)]]
  /\ UNCHANGED <<registry, revision, overtaken, left>>

(* invalidate, up to its first await; the runtimes are closed afterwards. *)
Invalidated(p, get) ==
  /\ generation' = generation + 1
  /\ pending' = None /\ entry' = None
  /\ proc' = [proc EXCEPT ![p] = [Idle EXCEPT !.pc = "closing", !.of = pending,
       !.values = {entry} \ {None}, !.get = get]]
  /\ UNCHANGED <<creates, fresh, closedValues>>

Answer(p) ==
  /\ At(p, "answered")
  /\ IF proc[p].current
     THEN /\ fresh' = (fresh \/ entry = proc[p].of)
          /\ Serve(p, proc[p].of)
          /\ UNCHANGED <<creates, entry, pending, generation, closedValues, shut>>
     ELSE Invalidated(p, TRUE) /\ UNCHANGED shut
  /\ UNCHANGED <<revision, overtaken, left>>

Invalidate(p) ==
  /\ At(p, "idle") /\ Spend("invalidations")
  /\ Invalidated(p, FALSE)
  /\ UNCHANGED <<shut, revision, overtaken>>

Closing(p) ==
  LET c == proc[p].of IN
  /\ At(p, "closing") /\ (c # None => ~Running(c))
  /\ closedValues' = closedValues \cup proc[p].values
       \cup (IF c # None /\ creates[c].state = "done" THEN {c} ELSE {})
  /\ proc' = [proc EXCEPT ![p] = IF proc[p].get THEN [Idle EXCEPT !.pc = "goes on"] ELSE Idle]
  /\ UNCHANGED <<creates, entry, fresh, pending, generation, shut, revision, overtaken, left>>

(* get goes on after its invalidate: the entries are not looked at again. *)
GoOn(p) ==
  /\ At(p, "goes on") /\ Join(p)
  /\ overtaken' = overtaken \cup ({entry} \ {None})
  /\ UNCHANGED <<revision, left>>

(* A creation settles.  Those who awaited one that has settled have gone on *)
(* before another does: the continuations of a promise run in one turn.     *)
Created(c) ==
  /\ Running(c) /\ \A p \in Procs : At(p, "waiting") => Running(proc[p].of)
  /\ \/ creates' = [creates EXCEPT ![c].state = "done"] /\ UNCHANGED left
     \/ creates' = [creates EXCEPT ![c].state = "failed"] /\ Spend("faults")
  /\ UNCHANGED <<entry, fresh, pending, generation, closedValues, shut, revision, overtaken, proc>>

(* Mutants: a runtime of an earlier generation is entered, or not closed. *)
EnterAnyway(p) ==
  LET c == proc[p].of IN
  /\ At(p, "waiting") /\ ~Running(c)
  /\ Forget(c)
  /\ IF creates[c].state = "failed" THEN proc' = [proc EXCEPT ![p] = Idle] /\ UNCHANGED <<entry, fresh>>
     ELSE entry' = c /\ fresh' = TRUE /\ Serve(p, c)
  /\ UNCHANGED <<creates, generation, closedValues, shut, revision, overtaken, left>>
DropValue(p) ==
  LET c == proc[p].of
      outdated == shut \/ generation # proc[p].gen
  IN /\ At(p, "waiting") /\ ~Running(c)
     /\ IF creates[c].state = "done" /\ outdated THEN UNCHANGED pending ELSE Forget(c)
     /\ IF creates[c].state = "done" /\ ~outdated THEN entry' = c /\ fresh' = TRUE /\ Serve(p, c)
        ELSE proc' = [proc EXCEPT ![p] = [Idle EXCEPT !.pc = IF creates[c].state = "done" THEN "again" ELSE "idle"]]
             /\ UNCHANGED <<entry, fresh>>
     /\ UNCHANGED <<creates, generation, closedValues, shut, revision, overtaken, left>>

(* The creation that was awaited has failed, is out of date, or is entered. *)
Arrive(p) ==
  LET c == proc[p].of
      outdated == shut \/ generation # proc[p].gen
  IN /\ At(p, "waiting") /\ ~Running(c)
     /\ \/ /\ creates[c].state = "failed"
           /\ Forget(c)
           /\ proc' = [proc EXCEPT ![p] = Idle]
           /\ UNCHANGED <<entry, fresh, closedValues>>
        \/ /\ creates[c].state = "done" /\ outdated
           /\ closedValues' = closedValues \cup {c}
           /\ proc' = [proc EXCEPT ![p] = [Idle EXCEPT !.pc = "again"]]
           /\ UNCHANGED <<entry, fresh, pending>>
        \/ /\ creates[c].state = "done" /\ ~outdated
           /\ Forget(c)
           /\ entry' = c /\ fresh' = TRUE
           /\ Serve(p, c)
           /\ UNCHANGED closedValues
     /\ UNCHANGED <<creates, generation, shut, revision, overtaken, left>>

Used(p) ==
  /\ At(p, "served")
  /\ proc' = [proc EXCEPT ![p] = Idle]
  /\ UNCHANGED <<registry, revision, overtaken, left>>

(* close: every workspace with an entry or a pending runtime is invalidated. *)
Close(p) ==
  /\ At(p, "idle") /\ ~shut /\ Spend("closes")
  /\ shut' = TRUE
  /\ IF entry = None /\ pending = None
     THEN UNCHANGED <<creates, entry, fresh, pending, generation, closedValues, proc>>
     ELSE Invalidated(p, FALSE)
  /\ UNCHANGED <<revision, overtaken>>

(* revisionTtlMs passes; somebody changes the storage. *)
Ages ==
  /\ fresh /\ fresh' = FALSE
  /\ UNCHANGED <<creates, entry, pending, generation, closedValues, shut, revision, proc, overtaken, left>>
Changes ==
  /\ Spend("changes") /\ revision' = revision + 1
  /\ UNCHANGED <<registry, proc, overtaken>>

Next ==
  \/ \E p \in Procs : \/ Get(p) \/ ReadRevision(p) \/ Answer(p) \/ Invalidate(p) \/ Closing(p)
                      \/ GoOn(p) \/ Arrive(p) \/ Used(p) \/ Close(p)
  \/ \E c \in DOMAIN creates : Created(c)
  \/ Ages \/ Changes

Spec == Init /\ [][Next]_vars

-----------------------------------------------------------------------------
Asked == DOMAIN creates
(* The registry names runtimes that were created, and callers wait for such. *)
TypeOK ==
  /\ entry \in Asked \cup {None} /\ pending \in Asked \cup {None}
  /\ closedValues \subseteq Asked
  /\ \A p \in Procs : proc[p].of \in Asked \cup {None} /\ proc[p].values \subseteq Asked

(* No runtime is lost: with its queue and its timers it is closed, is the one
   that is handed out, or somebody is about to close or to enter it; and a
   registry that is closed hands out none, even to a get that was under way.
   A get that had to invalidate begins another without looking at the entries:
   one that was entered while the old one was being closed is excepted. *)
NoneLost ==
  /\ shut => entry = None
  /\ \A c \in Asked \ overtaken : creates[c].state = "done" =>
       \/ c \in closedValues
       \/ c = entry
       \/ \E p \in Procs : \/ proc[p].pc \in {"waiting", "closing"} /\ proc[p].of = c
                           \/ proc[p].pc = "closing" /\ c \in proc[p].values

(* NoneLost without the exception, as the registry's test has it that a current
   runtime is reused: none is begun over a current one. *)
Reused == \A c \in overtaken : creates[c].revision < revision

(* A runtime that get has waited for, or found fresh, is not one that was
   invalidated meanwhile - neither closed nor about to be; one whose revision
   get asked for may be. *)
Doomed == closedValues \cup (UNION {proc[p].values : p \in Procs})
            \cup {proc[p].of : p \in {q \in Procs : At(q, "closing")}}
ServesOpen(p) == At(p, "served")' /\ ~At(p, "answered") /\ ~At(p, "served") => proc[p].of' \notin Doomed
ServedOpen == [][\A p \in Procs : ServesOpen(p)]_vars
=============================================================================
