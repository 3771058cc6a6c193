------------------------------- MODULE WorkGate -------------------------------
(***************************************************************************)
(* The shared/exclusive gate over one subject's work.  Work on a key runs  *)
(* beside work on other keys; exclusive work runs alone.  Each replica has *)
(* a mutex, a queue per key and a count of its keyed work; Redis holds a   *)
(* lease for the subject and for each key, and a registry with an entry    *)
(* for all keyed work.  Each await is one step.  Any call of Redis can     *)
(* fail, a lease can be lost while its holder works, an entry can run out  *)
(* before its work has ended, and a replica can die.                       *)
(***************************************************************************)
EXTENDS Integers, Sequences, FiniteSets

CONSTANTS
  Replicas,
  Callers,   \* each makes one call at a time
  On,        \* the replica a caller runs on
  Keys,
  Subject,   \* the subject's own lease, and what an exclusive call asks for
  None,      \* nobody holds the lease
  Gone       \* held by a call that is gone, until it runs out

ASSUME GateAssumption ==
  /\ IsFiniteSet(Callers) /\ On \in [Callers -> Replicas]
  /\ Subject \notin Keys
  /\ None \notin Callers /\ Gone \notin Callers /\ None # Gone

VARIABLES
  queue,     \* WorkGate.mutex: the calls that hold or wait for it, in order
  claims,    \* WorkGate.keys: the calls that hold or wait for a key, in order
  active,    \* WorkGate.active
  pc, asks,  \* the next step of each call, and its key or Subject
  lease,     \* who holds each lease in Redis
  entries,   \* the calls with an entry in the registry
  stale,     \* the registry has an entry of a call that is gone
  lost       \* calls whose lease or entry ended while they still needed it

vars == <<queue, claims, active, pc, asks, lease, entries, stale, lost>>

Leases == Keys \cup {Subject}
Here(c) == queue[On[c]]
SameKey(c) == claims[On[c]][asks[c]]
HasMutex(c) == Here(c) # <<>> /\ Head(Here(c)) = c
HasKey(c) == SameKey(c) # <<>> /\ Head(SameKey(c)) = c

Init ==
  /\ queue = [r \in Replicas |-> <<>>]
  /\ claims = [r \in Replicas |-> [k \in Keys |-> <<>>]]
  /\ active = [r \in Replicas |-> 0]
  /\ pc = [c \in Callers |-> "idle"]
  /\ asks = [c \in Callers |-> Subject]
  /\ lease = [l \in Leases |-> None]
  /\ entries = {} /\ stale = FALSE /\ lost = {}

Goto(c, step) == pc' = [pc EXCEPT ![c] = step]
End(c) == Goto(c, "idle") /\ asks' = [asks EXCEPT ![c] = Subject]
PassMutex(c) == queue' = [queue EXCEPT ![On[c]] = Tail(@)]
PassKey(c) == claims' = [claims EXCEPT ![On[c]][asks[c]] = Tail(@)]
Acquire(c, l) == lease[l] = None /\ lease' = [lease EXCEPT ![l] = c]
(* A failed release, as a failed acquisition, can leave the lease to run out. *)
Release(c, l) == \E left \in {None, Gone} :
  lease' = [lease EXCEPT ![l] = IF @ = c THEN left ELSE @]
(* Waiting ends after acquireTimeout; a call of Redis can fail at any time. *)
NotAcquired(l) == \E left \in {lease[l], Gone} :
  /\ lease[l] = None \/ left = lease[l]
  /\ lease' = [lease EXCEPT ![l] = left]

Call(c, l) ==
  /\ pc[c] = "idle"
  /\ asks' = [asks EXCEPT ![c] = l]
  /\ queue' = [queue EXCEPT ![On[c]] = Append(@, c)]
  /\ Goto(c, "queued")
  /\ UNCHANGED <<claims, active, lease, entries, stale, lost>>

Lock(c) ==
  /\ pc[c] = "queued" /\ HasMutex(c)
  /\ Acquire(c, Subject)
  /\ Goto(c, IF asks[c] = Subject THEN "drain" ELSE "register")
  /\ UNCHANGED <<queue, claims, active, asks, entries, stale, lost>>

LockFails(c) ==
  /\ pc[c] = "queued" /\ HasMutex(c)
  /\ NotAcquired(Subject)
  /\ PassMutex(c)
  /\ End(c)
  /\ UNCHANGED <<claims, active, entries, stale, lost>>

Register(c) ==
  /\ pc[c] = "register"
  /\ entries' = entries \cup {c}
  /\ active' = [active EXCEPT ![On[c]] = @ + 1]
  /\ claims' = [claims EXCEPT ![On[c]][asks[c]] = Append(@, c)]
  /\ Goto(c, "unlock")
  /\ UNCHANGED <<queue, asks, lease, stale, lost>>

RegisterFails(c) ==
  /\ pc[c] = "register"
  /\ stale' \in {stale, TRUE}
  /\ Goto(c, "leave")
  /\ UNCHANGED <<queue, claims, active, asks, lease, entries, lost>>

Unlock(c) ==
  /\ pc[c] = "unlock"
  /\ lease' = [lease EXCEPT ![Subject] = IF @ = c THEN None ELSE @]
  /\ PassMutex(c)
  /\ Goto(c, "wait_key")
  /\ UNCHANGED <<claims, active, asks, entries, stale, lost>>

(* perKey throws before its try: its claim of the key and its count stay. *)
UnlockFails(c) ==
  /\ pc[c] = "unlock"
  /\ Release(c, Subject)
  /\ PassMutex(c)
  /\ Goto(c, "leaked")
  /\ UNCHANGED <<claims, active, asks, entries, stale, lost>>

LockKeyAtOnce(c) ==
  /\ pc[c] = "wait_key"
  /\ Acquire(c, asks[c])
  /\ Goto(c, "work")
  /\ UNCHANGED <<queue, claims, active, asks, entries, stale, lost>>

LockKey(c) ==
  /\ pc[c] = "wait_key" /\ HasKey(c)
  /\ Acquire(c, asks[c])
  /\ Goto(c, "work")
  /\ UNCHANGED <<queue, claims, active, asks, entries, stale, lost>>

LockKeyFails(c) ==
  /\ pc[c] = "wait_key" /\ HasKey(c)
  /\ NotAcquired(asks[c])
  /\ PassKey(c)
  /\ Goto(c, "deregister")
  /\ UNCHANGED <<queue, active, asks, entries, stale, lost>>

(* The operation returns or throws. *)
Worked(c) ==
  /\ \/ pc[c] = "work" /\ Goto(c, "unlock_key")
     \/ pc[c] = "alone" /\ Goto(c, "leave")
  /\ UNCHANGED <<queue, claims, active, asks, lease, entries, stale, lost>>

UnlockKey(c) ==
  /\ pc[c] = "unlock_key"
  /\ Release(c, asks[c])
  /\ PassKey(c)
  /\ Goto(c, "deregister")
  /\ UNCHANGED <<queue, active, asks, entries, stale, lost>>

DeregisterThrows(c) ==
  /\ pc[c] = "deregister"
  /\ entries' = entries \ {c}
  /\ UNCHANGED stale
  /\ active' \in {active, [active EXCEPT ![On[c]] = @ - 1]}
  /\ lost' = lost \ {c}
  /\ End(c)
  /\ UNCHANGED <<queue, claims, lease>>

(* A failure to release the entry is caught: the entry runs out. *)
Deregister(c) ==
  /\ pc[c] = "deregister"
  /\ entries' = entries \ {c}
  /\ stale' \in {stale, stale \/ c \in entries}
  /\ active' = [active EXCEPT ![On[c]] = @ - 1]
  /\ lost' = lost \ {c}
  /\ End(c)
  /\ UNCHANGED <<queue, claims, lease>>

Drain(c) ==
  /\ pc[c] = "drain" /\ active[On[c]] = 0
  /\ Goto(c, "count")
  /\ UNCHANGED <<queue, claims, active, asks, lease, entries, stale, lost>>

CountHere(c) ==
  /\ pc[c] = "count"
  /\ Goto(c, "alone")
  /\ UNCHANGED <<queue, claims, active, asks, lease, entries, stale, lost>>

Count(c) ==
  /\ pc[c] = "count" /\ entries = {} /\ ~stale
  /\ Goto(c, "alone")
  /\ UNCHANGED <<queue, claims, active, asks, lease, entries, stale, lost>>

(* WorkDrainTimeout, or a call of Redis that failed. *)
DrainTimeout(c) ==
  /\ pc[c] = "count"
  /\ Goto(c, "leave")
  /\ UNCHANGED <<queue, claims, active, asks, lease, entries, stale, lost>>

Leave(c) ==
  /\ pc[c] = "leave"
  /\ Release(c, Subject)
  /\ PassMutex(c)
  /\ lost' = lost \ {c}
  /\ End(c)
  /\ UNCHANGED <<claims, active, entries, stale>>

(* onLost aborts a signal that withWorkLease does not look at.  A call that *)
(* was about to release the lease has lost nothing.                         *)
LoseLease(c) == \E l \in Leases :
  /\ lease[l] = c
  /\ lease' = [lease EXCEPT ![l] = None]
  /\ lost' = IF pc[c] \in {"unlock", "unlock_key", "leave"} THEN lost ELSE lost \cup {c}
  /\ UNCHANGED <<queue, claims, active, pc, asks, entries, stale>>

(* The work takes longer than WORK_ENTRY_TTL. *)
OutliveEntry(c) ==
  /\ c \in entries
  /\ entries' = entries \ {c}
  /\ lost' = lost \cup {c}
  /\ UNCHANGED <<queue, claims, active, pc, asks, lease, stale>>

RunOut ==
  /\ \/ stale /\ stale' = FALSE /\ UNCHANGED lease
     \/ /\ \E l \in Leases : lease[l] = Gone /\ lease' = [lease EXCEPT ![l] = None]
        /\ UNCHANGED stale
  /\ UNCHANGED <<queue, claims, active, pc, asks, entries, lost>>

Crash(r) ==
  LET Dead == {c \in Callers : On[c] = r}
  IN /\ pc' = [c \in Callers |-> IF c \in Dead THEN "idle" ELSE pc[c]]
     /\ asks' = [c \in Callers |-> IF c \in Dead THEN Subject ELSE asks[c]]
     /\ queue' = [queue EXCEPT ![r] = <<>>]
     /\ claims' = [claims EXCEPT ![r] = [k \in Keys |-> <<>>]]
     /\ active' = [active EXCEPT ![r] = 0]
     /\ lease' = [l \in Leases |-> IF lease[l] \in Dead THEN Gone ELSE lease[l]]
     /\ stale' = (stale \/ entries \cap Dead # {})
     /\ entries' = entries \ Dead
     /\ lost' = lost \ Dead

Step(c) ==
  \/ Lock(c) \/ LockFails(c) \/ Register(c) \/ RegisterFails(c) \/ Unlock(c) \/ UnlockFails(c)
  \/ LockKey(c) \/ LockKeyFails(c) \/ Worked(c) \/ UnlockKey(c) \/ Deregister(c)
  \/ Drain(c) \/ Count(c) \/ DrainTimeout(c) \/ Leave(c)

Next ==
  \/ \E c \in Callers : Step(c) \/ LoseLease(c) \/ OutliveEntry(c) \/ \E l \in Leases : Call(c, l)
  \/ RunOut
  \/ \E r \in Replicas : Crash(r)

Spec == Init /\ [][Next]_vars
FairSpec == Spec /\ \A c \in Callers : WF_vars(Step(c))

-------------------------------------------------------------------------------
(* Each variable has its shape, and a replica counts the keyed work it has. *)
Steps == {"idle", "queued", "register", "unlock", "wait_key", "work", "unlock_key", "deregister",
          "leaked", "drain", "count", "alone", "leave"}
Claimed(r) == {c \in Callers : On[c] = r
                 /\ pc[c] \in {"unlock", "wait_key", "work", "unlock_key", "deregister", "leaked"}}
TypeOK ==
  /\ queue \in [Replicas -> Seq(Callers)]
  /\ claims \in [Replicas -> [Keys -> Seq(Callers)]]
  /\ active \in [Replicas -> Nat] /\ \A r \in Replicas : active[r] = Cardinality(Claimed(r))
  /\ pc \in [Callers -> Steps] /\ asks \in [Callers -> Leases]
  /\ lease \in [Leases -> Callers \cup {None, Gone}]
  /\ entries \subseteq Callers /\ stale \in BOOLEAN /\ lost \subseteq Callers

(* Exclusive work runs beside nothing else of its replica, whatever Redis  *)
(* does, and beside nothing on another replica either unless one of the    *)
(* two has lost its lease or its entry (exclusive, drain).                 *)
Working(c) == pc[c] \in {"work", "alone"}
Apart(c, d) == On[c] # On[d] /\ (c \in lost \/ d \in lost)
Alone == \A c, d \in Callers : c # d /\ pc[c] = "alone" /\ Working(d) => Apart(c, d)

(* Work on one key never overlaps, under the same condition (claimKey and  *)
(* the key's lease).                                                       *)
OneAtAKey == \A c, d \in Callers :
  c # d /\ pc[c] = "work" /\ pc[d] = "work" /\ asks[c] = asks[d] => Apart(c, d)

(* Every call ends, with its work done or with an error, unless the        *)
(* release of the subject's lease has failed under a keyed call of the     *)
(* same replica: its claim then stays for ever (perKey).                   *)
Leaked(r) == \E c \in Callers : On[c] = r /\ pc[c] = "leaked"
CallsEnd == \A c \in Callers : pc[c] = "queued" ~> pc[c] \in {"idle", "leaked"} \/ Leaked(On[c])
===============================================================================
