---------------------------- MODULE WorkGateProofs ----------------------------
(***************************************************************************)
(* Theorems about WorkGate, for all replicas, callers and keys.            *)
(***************************************************************************)
EXTENDS WorkGate, TLAPS, FiniteSetTheorems, SequenceTheorems

-------------------------------------------------------------------------------
(* The inductive invariant, in parts. *)

Shape ==
  /\ queue \in [Replicas -> Seq(Callers)]
  /\ claims \in [Replicas -> [Keys -> Seq(Callers)]]
  /\ active \in [Replicas -> Nat]
  /\ pc \in [Callers -> Steps] /\ asks \in [Callers -> Leases]
  /\ lease \in [Leases -> Callers \cup {None, Gone}]
  /\ entries \subseteq Callers /\ stale \in BOOLEAN /\ lost \subseteq Callers

Counted == \A r \in Replicas : active[r] = Cardinality(Claimed(r))

(* A call is at the head of the queues it has waited in, and a keyed call *)
(* asks for a key.                                                         *)
Held == \A c \in Callers :
  /\ pc[c] \in {"register", "unlock", "drain", "count", "alone", "leave"} => HasMutex(c)
  /\ pc[c] \in {"work", "unlock_key"} => HasKey(c)
Asked == \A c \in Callers :
  pc[c] \in {"register", "unlock", "wait_key", "work", "unlock_key"} => asks[c] \in Keys

(* While exclusive work has the mutex no keyed work is counted. *)
Drained == \A c \in Callers : pc[c] \in {"count", "alone"} => active[On[c]] = 0

(* A call that has lost nothing holds the lease it works under, and its *)
(* entry.                                                               *)
Leased == \A c \in Callers \ lost :
  /\ pc[c] \in {"register", "drain", "count", "alone"} => lease[Subject] = c
  /\ pc[c] = "work" => lease[asks[c]] = c
Entered == \A c \in Callers \ lost : pc[c] \in {"unlock", "wait_key", "work"} => c \in entries

(* Exclusive work has counted the entries of all keyed work. *)
Noticed == \A c, d \in Callers :
  pc[c] = "alone" /\ pc[d] \in {"unlock", "wait_key", "work"} => c \in lost \/ d \in lost

GateInv == Shape /\ Counted /\ Held /\ Asked /\ Drained /\ Leased /\ Entered /\ Noticed

-------------------------------------------------------------------------------
(* Each variable keeps its shape. *)
LEMMA ShapeKept ==
  ASSUME Shape, Counted, Held, Asked, [Next]_vars
  PROVE  Shape'
<1> USE GateAssumption DEF Shape, Steps, Leases
<1>1. ASSUME NEW c \in Callers, Lock(c) \/ LockFails(c) PROVE Shape'
  <2>1. CASE Lock(c) BY <2>1 DEF Lock, Acquire, Goto
  <2>2. CASE LockFails(c) BY <2>2 DEF LockFails, NotAcquired, PassMutex, HasMutex, Here, Goto, End
  <2> QED BY <1>1, <2>1, <2>2
<1>2. ASSUME NEW c \in Callers, Register(c) \/ RegisterFails(c) PROVE Shape'
  <2>1. CASE Register(c)
    <3>1. asks[c] \in Keys BY <2>1 DEF Register, Asked
    <3> QED BY <2>1, <3>1 DEF Register, Goto
  <2>2. CASE RegisterFails(c) BY <2>2 DEF RegisterFails, Goto
  <2> QED BY <1>2, <2>1, <2>2
<1>3. ASSUME NEW c \in Callers, Unlock(c) \/ UnlockFails(c) \/ Leave(c) PROVE Shape'
  <2>1. HasMutex(c) BY <1>3 DEF Unlock, UnlockFails, Leave, Held
  <2>2. CASE Unlock(c) BY <2>1, <2>2 DEF Unlock, PassMutex, HasMutex, Here, Goto
  <2>3. CASE UnlockFails(c) BY <2>1, <2>3 DEF UnlockFails, Release, PassMutex, HasMutex, Here, Goto
  <2>4. CASE Leave(c) BY <2>1, <2>4 DEF Leave, Release, PassMutex, HasMutex, Here, Goto, End
  <2> QED BY <1>3, <2>2, <2>3, <2>4
<1>4. ASSUME NEW c \in Callers, LockKey(c) \/ LockKeyFails(c) \/ UnlockKey(c) PROVE Shape'
  <2>1. asks[c] \in Keys /\ HasKey(c) BY <1>4 DEF LockKey, LockKeyFails, UnlockKey, Held, Asked
  <2>2. CASE LockKey(c) BY <2>1, <2>2 DEF LockKey, Acquire, Goto
  <2>3. CASE LockKeyFails(c) BY SMTT(30), ZenonT(40), <2>1, <2>3 DEF LockKeyFails, NotAcquired, PassKey, HasKey, SameKey, Goto
  <2>4. CASE UnlockKey(c) BY <2>1, <2>4 DEF UnlockKey, Release, PassKey, HasKey, SameKey, Goto
  <2> QED BY <1>4, <2>2, <2>3, <2>4
<1>5. ASSUME NEW c \in Callers, Worked(c) \/ Drain(c) \/ Count(c) \/ DrainTimeout(c) PROVE Shape'
  BY <1>5 DEF Worked, Drain, Count, DrainTimeout, Goto
<1>6. ASSUME NEW c \in Callers, Deregister(c) PROVE Shape'
  <2>1. c \in Claimed(On[c]) BY <1>6 DEF Deregister, Claimed
  <2>2. IsFiniteSet(Claimed(On[c])) BY FS_Subset DEF Claimed
  <2>3. active[On[c]] # 0 BY <2>1, <2>2, FS_EmptySet DEF Counted
  <2>4. stale' \in BOOLEAN BY <1>6, Zenon DEF Deregister
  <2>5. active' \in [Replicas -> Nat] BY <1>6, <2>3 DEF Deregister
  <2>6. /\ pc' \in [Callers -> Steps] /\ asks' \in [Callers -> Leases]
        /\ entries' \subseteq Callers /\ lost' \subseteq Callers
        /\ UNCHANGED <<queue, claims, lease>>
    BY <1>6 DEF Deregister, Goto, End
  <2> QED BY <2>4, <2>5, <2>6
<1>7. ASSUME NEW c \in Callers, LoseLease(c) \/ OutliveEntry(c) \/ \E l \in Leases : Call(c, l) PROVE Shape'
  <2>1. CASE LoseLease(c) BY <2>1 DEF LoseLease
  <2>2. CASE OutliveEntry(c) BY <2>2 DEF OutliveEntry
  <2>3. ASSUME NEW l \in Leases, Call(c, l) PROVE Shape' BY <2>3 DEF Call, Goto
  <2> QED BY <1>7, <2>1, <2>2, <2>3
<1>8. CASE RunOut BY <1>8 DEF RunOut
<1>9. ASSUME NEW r \in Replicas, Crash(r) PROVE Shape'
  BY <1>9 DEF Crash
<1>10. CASE UNCHANGED vars BY <1>10 DEF vars
<1> QED BY <1>1, <1>2, <1>3, <1>4, <1>5, <1>6, <1>7, <1>8, <1>9, <1>10 DEF Next, Step

(* The count of a replica is that of the calls that have claimed a key. *)
LEMMA CountedKept ==
  ASSUME Shape, Counted, Asked, [Next]_vars
  PROVE  Counted'
<1> USE GateAssumption DEF Shape, Steps
<1>1. ASSUME NEW r \in Replicas PROVE IsFiniteSet(Claimed(r))
  BY FS_Subset DEF Claimed
<1>2. ASSUME active' = active, \A r \in Replicas : Claimed(r)' = Claimed(r) PROVE Counted'
  BY <1>2 DEF Counted
<1>3. ASSUME NEW c \in Callers, Lock(c) \/ LockFails(c) \/ RegisterFails(c) \/ Unlock(c) \/ UnlockFails(c)
                                  \/ LockKey(c) \/ LockKeyFails(c) \/ UnlockKey(c)
      PROVE  Counted'
  <2>1. active' = active
    BY <1>3 DEF Lock, LockFails, RegisterFails, Unlock, UnlockFails, LockKey, LockKeyFails, UnlockKey
  <2>2. \A r \in Replicas : Claimed(r)' = Claimed(r)
    BY <1>3 DEF Lock, LockFails, RegisterFails, Unlock, UnlockFails, LockKey, LockKeyFails, UnlockKey, Goto, End, Claimed
  <2> QED BY <1>2, <2>1, <2>2
<1>4. ASSUME NEW c \in Callers, Worked(c) \/ Drain(c) \/ Count(c) \/ DrainTimeout(c) \/ Leave(c)
      PROVE  Counted'
  <2>1. active' = active BY <1>4 DEF Worked, Drain, Count, DrainTimeout, Leave
  <2>2. \A r \in Replicas : Claimed(r)' = Claimed(r)
    BY <1>4 DEF Worked, Drain, Count, DrainTimeout, Leave, Goto, End, Claimed
  <2> QED BY <1>2, <2>1, <2>2
<1>5. ASSUME NEW c \in Callers, Register(c) PROVE Counted'
  <2>1. Claimed(On[c])' = Claimed(On[c]) \cup {c} /\ c \notin Claimed(On[c])
    BY <1>5 DEF Register, Goto, Claimed
  <2>2. \A r \in Replicas \ {On[c]} : Claimed(r)' = Claimed(r)
    BY <1>5 DEF Register, Goto, Claimed
  <2>3. Cardinality(Claimed(On[c])') = Cardinality(Claimed(On[c])) + 1
    BY ZenonT(40), <1>1, <2>1, FS_AddElement
  <2>4. active' = [active EXCEPT ![On[c]] = active[On[c]] + 1] BY <1>5 DEF Register
  <2> QED BY <2>2, <2>3, <2>4 DEF Counted
<1>6. ASSUME NEW c \in Callers, Deregister(c) PROVE Counted'
  <2>1. Claimed(On[c])' = Claimed(On[c]) \ {c} /\ c \in Claimed(On[c])
    BY <1>6 DEF Deregister, End, Goto, Claimed
  <2>2. \A r \in Replicas \ {On[c]} : Claimed(r)' = Claimed(r)
    BY <1>6 DEF Deregister, End, Goto, Claimed
  <2>3. Cardinality(Claimed(On[c]) \ {c}) = Cardinality(Claimed(On[c])) - 1
    <3>1. IsFiniteSet(Claimed(On[c])) BY <1>1
    <3> QED BY <2>1, <3>1, FS_RemoveElement
  <2>4. active' = [active EXCEPT ![On[c]] = active[On[c]] - 1] BY <1>6 DEF Deregister
  <2> QED BY <2>1, <2>2, <2>3, <2>4 DEF Counted
<1>7. ASSUME NEW c \in Callers, LoseLease(c) \/ OutliveEntry(c) \/ \E l \in Leases : Call(c, l)
      PROVE  Counted'
  <2>1. active' = active BY <1>7 DEF LoseLease, OutliveEntry, Call
  <2>2. \A r \in Replicas : Claimed(r)' = Claimed(r)
    BY <1>7 DEF LoseLease, OutliveEntry, Call, Goto, Claimed
  <2> QED BY <1>2, <2>1, <2>2
<1>8. CASE RunOut \/ UNCHANGED vars
  <2>1. active' = active /\ pc' = pc BY <1>8 DEF RunOut, vars
  <2> QED BY <1>2, <2>1 DEF Claimed
<1>9. ASSUME NEW r \in Replicas, Crash(r) PROVE Counted'
  <2>1. Claimed(r)' = {} BY <1>9 DEF Crash, Claimed
  <2>2. \A q \in Replicas \ {r} : Claimed(q)' = Claimed(q) BY <1>9 DEF Crash, Claimed
  <2>3. active' = [active EXCEPT ![r] = 0] BY <1>9 DEF Crash
  <2> QED BY <2>1, <2>2, <2>3, FS_EmptySet DEF Counted
<1> QED BY <1>3, <1>4, <1>5, <1>6, <1>7, <1>8, <1>9 DEF Next, Step

(* A call stays at the head of its queues until it leaves them. *)
LEMMA HeldKept ==
  ASSUME Shape, Held, Asked, [Next]_vars
  PROVE  Held'
<1> USE GateAssumption DEF Shape, Steps, Leases
<1>1. ASSUME NEW s \in Seq(Callers), s # <<>>, NEW c \in Callers
      PROVE  Append(s, c) # <<>> /\ Head(Append(s, c)) = Head(s)
  <2>1. Append(s, c) # <<>>
    <3>1. Len(Append(s, c)) = Len(s) + 1 /\ Len(s) \in Nat BY AppendProperties, LenProperties
    <3>2. Len(<<>>) = 0 BY EmptySeq
    <3>3. Len(Append(s, c)) # 0 BY <3>1
    <3> QED BY <3>2, <3>3, Zenon
  <2>2. Head(Append(s, c)) = Head(s) BY <1>1, HeadTailAppend
  <2> QED BY <2>1, <2>2
<1>2. ASSUME NEW c \in Callers, Lock(c) \/ RegisterFails(c) \/ Worked(c) \/ Drain(c) \/ Count(c)
                                  \/ DrainTimeout(c) \/ LockKey(c) \/ Deregister(c)
      PROVE  Held'
  <2>1. ASSUME NEW d \in Callers, d # c PROVE pc'[d] = pc[d] /\ asks'[d] = asks[d]
    BY ZenonT(40), <1>2, <2>1 DEF Lock, RegisterFails, Worked, Drain, Count, DrainTimeout, LockKey, Deregister, Goto, End
  <2>2. UNCHANGED <<queue, claims>>
    BY <1>2 DEF Lock, RegisterFails, Worked, Drain, Count, DrainTimeout, LockKey, Deregister
  <2>3. pc'[c] \in {"register", "unlock", "drain", "count", "alone", "leave"} => HasMutex(c)
    BY ZenonT(40), <1>2 DEF Lock, RegisterFails, Worked, Drain, Count, DrainTimeout, LockKey, Deregister, Goto, End, Held
  <2>4. pc'[c] \in {"work", "unlock_key"} => HasKey(c) /\ asks'[c] = asks[c]
    BY <1>2 DEF Lock, RegisterFails, Worked, Drain, Count, DrainTimeout, LockKey, Deregister, Goto, End, Held
  <2> QED BY <2>1, <2>2, <2>3, <2>4 DEF Held, HasMutex, HasKey, Here, SameKey
<1>3. ASSUME NEW c \in Callers, Register(c) PROVE Held'
  <2>1. asks[c] \in Keys BY <1>3 DEF Register, Asked
  <2>2. ASSUME NEW d \in Callers, pc'[d] \in {"register", "unlock", "drain", "count", "alone", "leave"}
        PROVE  HasMutex(d)'
    BY <1>3, <2>2 DEF Register, Goto, Held, HasMutex, Here
  <2>3. ASSUME NEW d \in Callers, pc'[d] \in {"work", "unlock_key"} PROVE HasKey(d)'
    <3>1. d # c /\ pc[d] \in {"work", "unlock_key"} /\ asks[d] \in Keys
      BY <1>3, <2>3 DEF Register, Goto, Asked
    <3>2. HasKey(d) BY <3>1 DEF Held
    <3>3. claims'[On[d]][asks[d]] \in {SameKey(d), Append(SameKey(d), c)}
      BY <1>3, <2>1, <3>1 DEF Register, SameKey
    <3>4. SameKey(d) \in Seq(Callers) BY <3>1 DEF SameKey
    <3>5. asks' = asks BY <1>3 DEF Register
    <3> QED BY <1>1, <3>2, <3>3, <3>4, <3>5 DEF HasKey, SameKey
  <2> QED BY <2>2, <2>3 DEF Held
<1>4. ASSUME NEW c \in Callers, LockFails(c) \/ Unlock(c) \/ UnlockFails(c) \/ Leave(c) PROVE Held'
  <2>1. HasMutex(c) /\ PassMutex(c) /\ UNCHANGED claims
    BY <1>4 DEF LockFails, Unlock, UnlockFails, Leave, Held
  <2>2. ASSUME NEW d \in Callers, pc'[d] \in {"register", "unlock", "drain", "count", "alone", "leave"}
        PROVE  HasMutex(d)'
    <3>1. d # c /\ pc[d] = pc'[d]
      BY <1>4, <2>2 DEF LockFails, Unlock, UnlockFails, Leave, Goto, End
    <3>2. HasMutex(d) BY <2>2, <3>1 DEF Held
    <3>3. On[d] # On[c] BY <2>1, <3>1, <3>2 DEF HasMutex, Here
    <3> QED BY <2>1, <3>2, <3>3 DEF PassMutex, HasMutex, Here
  <2>3. ASSUME NEW d \in Callers, pc'[d] \in {"work", "unlock_key"} PROVE HasKey(d)'
    <3>1. d # c /\ pc[d] = pc'[d] /\ asks'[d] = asks[d]
      BY <1>4, <2>3 DEF LockFails, Unlock, UnlockFails, Leave, Goto, End
    <3> QED BY <2>1, <2>3, <3>1 DEF Held, HasKey, SameKey
  <2> QED BY <2>2, <2>3 DEF Held
<1>5. ASSUME NEW c \in Callers, LockKeyFails(c) \/ UnlockKey(c) PROVE Held'
  <2>1. HasKey(c) /\ PassKey(c) /\ asks[c] \in Keys /\ UNCHANGED <<queue, asks>>
    BY <1>5 DEF LockKeyFails, UnlockKey, Held, Asked
  <2>2. ASSUME NEW d \in Callers, pc'[d] \in {"register", "unlock", "drain", "count", "alone", "leave"}
        PROVE  HasMutex(d)'
    BY <1>5, <2>1, <2>2 DEF LockKeyFails, UnlockKey, Goto, Held, HasMutex, Here
  <2>3. ASSUME NEW d \in Callers, pc'[d] \in {"work", "unlock_key"} PROVE HasKey(d)'
    <3>1. d # c /\ pc[d] = pc'[d] BY <1>5, <2>3 DEF LockKeyFails, UnlockKey, Goto
    <3>2. HasKey(d) /\ asks[d] \in Keys BY <2>3, <3>1 DEF Held, Asked
    <3>3. On[d] # On[c] \/ asks[d] # asks[c] BY <2>1, <3>1, <3>2 DEF HasKey, SameKey
    <3>4. claims'[On[d]][asks[d]] = claims[On[d]][asks[d]]
      BY <2>1, <3>2, <3>3 DEF PassKey
    <3> QED BY <2>1, <3>2, <3>4 DEF HasKey, SameKey
  <2> QED BY <2>2, <2>3 DEF Held
<1>6. ASSUME NEW c \in Callers, LoseLease(c) \/ OutliveEntry(c) PROVE Held'
  BY <1>6 DEF LoseLease, OutliveEntry, Held, HasMutex, HasKey, Here, SameKey
<1>7. ASSUME NEW c \in Callers, NEW l \in Leases, Call(c, l) PROVE Held'
  <2>1. ASSUME NEW d \in Callers, pc'[d] \in {"register", "unlock", "drain", "count", "alone", "leave"}
        PROVE  HasMutex(d)'
    <3>1. pc[d] = pc'[d] BY <1>7, <2>1 DEF Call, Goto
    <3>2. HasMutex(d) BY <2>1, <3>1 DEF Held
    <3>3. queue'[On[d]] \in {Here(d), Append(Here(d), c)} BY <1>7 DEF Call, Here
    <3> QED BY <1>1, <3>2, <3>3 DEF HasMutex, Here
  <2>2. ASSUME NEW d \in Callers, pc'[d] \in {"work", "unlock_key"} PROVE HasKey(d)'
    BY <1>7, <2>2 DEF Call, Goto, Held, HasKey, SameKey
  <2> QED BY <2>1, <2>2 DEF Held
<1>8. CASE RunOut \/ UNCHANGED vars
  BY <1>8 DEF RunOut, vars, Held, HasMutex, HasKey, Here, SameKey
<1>9. ASSUME NEW r \in Replicas, Crash(r) PROVE Held'
  <2>1. ASSUME NEW d \in Callers, pc'[d] # "idle"
        PROVE  /\ On[d] # r /\ pc'[d] = pc[d] /\ asks'[d] = asks[d]
               /\ queue'[On[d]] = queue[On[d]] /\ claims'[On[d]] = claims[On[d]]
    BY <1>9, <2>1 DEF Crash
  <2> QED BY <2>1 DEF Held, HasMutex, HasKey, Here, SameKey
<1> QED BY <1>2, <1>3, <1>4, <1>5, <1>6, <1>7, <1>8, <1>9 DEF Next, Step

(* A call keeps asking for its key. *)
LEMMA AskedKept ==
  ASSUME Shape, Asked, [Next]_vars
  PROVE  Asked'
<1> USE GateAssumption DEF Shape, Steps, Leases, Asked
<1>1. ASSUME NEW c \in Callers, Lock(c) \/ LockFails(c) \/ Register(c) \/ RegisterFails(c) \/ Unlock(c)
                                  \/ UnlockFails(c) \/ Leave(c)
      PROVE  Asked'
  <2>1. CASE Lock(c) BY <2>1 DEF Lock, Goto
  <2>2. CASE LockFails(c) \/ Leave(c) BY ZenonT(40), <2>2 DEF LockFails, Leave, Goto, End
  <2>3. CASE Register(c) \/ RegisterFails(c) BY <2>3 DEF Register, RegisterFails, Goto
  <2>4. CASE Unlock(c) \/ UnlockFails(c) BY <2>4 DEF Unlock, UnlockFails, Goto
  <2> QED BY <1>1, <2>1, <2>2, <2>3, <2>4
<1>2. ASSUME NEW c \in Callers, LockKey(c) \/ LockKeyFails(c) \/ UnlockKey(c) \/ Worked(c) \/ Deregister(c)
                                  \/ Drain(c) \/ Count(c) \/ DrainTimeout(c)
      PROVE  Asked'
  BY <1>2 DEF LockKey, LockKeyFails, UnlockKey, Worked, Deregister, Drain, Count, DrainTimeout, Goto, End
<1>3. ASSUME NEW c \in Callers, LoseLease(c) \/ OutliveEntry(c) \/ \E l \in Leases : Call(c, l) PROVE Asked'
  BY <1>3 DEF LoseLease, OutliveEntry, Call, Goto
<1>4. ASSUME NEW r \in Replicas, Crash(r) PROVE Asked'
  BY <1>4 DEF Crash
<1>5. CASE RunOut \/ UNCHANGED vars BY <1>5 DEF RunOut, vars
<1> QED BY <1>1, <1>2, <1>3, <1>4, <1>5 DEF Next, Step

(* A replica with a call that works on a key has counted it. *)
LEMMA ClaimedIsCounted ==
  ASSUME Shape, Counted, NEW c \in Callers, c \in Claimed(On[c])
  PROVE  active[On[c]] # 0
<1>1. IsFiniteSet(Claimed(On[c])) BY GateAssumption, FS_Subset DEF Claimed
<1> QED BY <1>1, GateAssumption, FS_EmptySet DEF Counted

(* Only the call that has the mutex counts itself, so exclusive work that *)
(* has seen a count of 0 keeps it.                                         *)
LEMMA DrainedKept ==
  ASSUME Shape, Counted, Held, Drained, [Next]_vars
  PROVE  Drained'
<1> USE GateAssumption DEF Shape, Steps
<1>1. ASSUME NEW c \in Callers, Step(c), active' = active PROVE Drained'
  <2>1. ASSUME NEW d \in Callers, pc'[d] \in {"count", "alone"}
        PROVE  pc[d] \in {"count", "alone"} \/ active[On[d]] = 0
    <3>1. CASE pc'[d] = pc[d] BY <2>1, <3>1
    <3>2. CASE pc'[d] # pc[d]
      BY ZenonT(40), <1>1, <2>1, <3>2 DEF Step, Lock, LockFails, Register, RegisterFails, Unlock, UnlockFails, LockKey,
            LockKeyFails, Worked, UnlockKey, Deregister, Drain, Count, DrainTimeout, Leave, Goto, End
    <3> QED BY <3>1, <3>2
  <2> QED BY <1>1, <2>1 DEF Drained
<1>2. ASSUME NEW c \in Callers, Register(c) PROVE Drained'
  <2>1. ASSUME NEW d \in Callers, pc'[d] \in {"count", "alone"} PROVE active'[On[d]] = 0
    <3>1. d # c /\ pc[d] = pc'[d] BY <1>2, <2>1 DEF Register, Goto
    <3>2. HasMutex(c) /\ HasMutex(d) BY <1>2, <2>1, <3>1 DEF Register, Held
    <3>3. On[c] # On[d] BY <3>1, <3>2 DEF HasMutex, Here
    <3>4. active[On[d]] = 0 BY <2>1, <3>1 DEF Drained
    <3> QED BY <1>2, <3>3, <3>4 DEF Register
  <2> QED BY <2>1 DEF Drained
<1>3. ASSUME NEW c \in Callers, Deregister(c) PROVE Drained'
  <2>1. active[On[c]] # 0 BY <1>3, ClaimedIsCounted DEF Deregister, Claimed
  <2>2. ASSUME NEW d \in Callers, pc'[d] \in {"count", "alone"} PROVE active'[On[d]] = 0
    <3>1. pc[d] = pc'[d] BY <1>3, <2>2 DEF Deregister, End, Goto
    <3>2. active[On[d]] = 0 BY <2>2, <3>1 DEF Drained
    <3> QED BY <1>3, <2>1, <3>2 DEF Deregister
  <2> QED BY <2>2 DEF Drained
<1>4. ASSUME NEW c \in Callers, Step(c) PROVE Register(c) \/ Deregister(c) \/ active' = active
  BY <1>4 DEF Step, Lock, LockFails, RegisterFails, Unlock, UnlockFails, LockKey, LockKeyFails, Worked,
              UnlockKey, Drain, Count, DrainTimeout, Leave
<1>5. ASSUME NEW c \in Callers, LoseLease(c) \/ OutliveEntry(c) \/ \E l \in Leases : Call(c, l) PROVE Drained'
  BY <1>5 DEF LoseLease, OutliveEntry, Call, Goto, Drained
<1>6. ASSUME NEW r \in Replicas, Crash(r) PROVE Drained'
  BY <1>6 DEF Crash, Drained
<1>7. CASE RunOut \/ UNCHANGED vars BY <1>7 DEF RunOut, vars, Drained
<1> QED BY <1>1, <1>2, <1>3, <1>4, <1>5, <1>6, <1>7 DEF Next

(* Nobody takes a lease that is held, and a holder that loses one while it *)
(* still needs it is in lost.                                              *)
LEMMA LeasedKept ==
  ASSUME Shape, Counted, Held, Asked, Leased, [Next]_vars
  PROVE  Leased'
<1> USE GateAssumption DEF Shape, Steps, Leases
<1> DEFINE Needs(d, l) == \/ pc[d] \in {"register", "drain", "count", "alone"} /\ l = Subject
                          \/ pc[d] = "work" /\ l = asks[d]
<1>1. Leased <=> \A d \in Callers \ lost : \A l \in Leases : Needs(d, l) => lease[l] = d
  BY DEF Leased
<1>2. SUFFICES ASSUME NEW d \in Callers, d \notin lost', NEW l \in Leases, Needs(d, l)'
               PROVE  lease'[l] = d
  <2>1. asks' \in [Callers -> Leases] BY ShapeKept
  <2> QED BY <2>1 DEF Leased
<1> HIDE DEF Needs
<1>3. CASE Needs(d, l) /\ d \notin lost /\ lease'[l] = lease[l]
  BY <1>1, <1>3
<1>4. ASSUME NEW c \in Callers, Lock(c) PROVE lease'[l] = d
  <2>1. CASE c = d BY <1>2, <1>4, <2>1 DEF Lock, Acquire, Goto, Needs
  <2>2. CASE c # d
    <3>1. Needs(d, l) /\ d \notin lost BY <1>2, <1>4, <2>2 DEF Lock, Goto, Needs
    <3>2. lease[l] = d BY <1>1, <3>1
    <3> QED BY <1>4, <3>2 DEF Lock, Acquire
  <2> QED BY <2>1, <2>2
<1>5. ASSUME NEW c \in Callers, LockKey(c) PROVE lease'[l] = d
  <2>1. CASE c = d BY <1>2, <1>5, <2>1 DEF LockKey, Acquire, Goto, Needs
  <2>2. CASE c # d
    <3>1. Needs(d, l) /\ d \notin lost BY <1>2, <1>5, <2>2 DEF LockKey, Goto, Needs
    <3>2. lease[l] = d BY <1>1, <3>1
    <3> QED BY <1>5, <3>2 DEF LockKey, Acquire
  <2> QED BY <2>1, <2>2
<1>6. ASSUME NEW c \in Callers, LockFails(c) \/ LockKeyFails(c) PROVE lease'[l] = d
  <2>1. d # c /\ Needs(d, l) /\ d \notin lost BY <1>2, <1>6 DEF LockFails, LockKeyFails, Goto, End, Needs
  <2>2. lease[l] = d BY <1>1, <2>1
  <2> QED BY <1>6, <2>2 DEF LockFails, LockKeyFails, NotAcquired
<1>7. ASSUME NEW c \in Callers, Unlock(c) \/ UnlockFails(c) \/ UnlockKey(c) \/ Leave(c) PROVE lease'[l] = d
  <2>1. d # c /\ Needs(d, l) /\ d \notin lost
    BY <1>2, <1>7 DEF Unlock, UnlockFails, UnlockKey, Leave, Goto, End, Needs
  <2>2. lease[l] = d BY <1>1, <2>1
  <2> QED BY <1>7, <2>1, <2>2 DEF Unlock, UnlockFails, UnlockKey, Leave, Release
<1>8. ASSUME NEW c \in Callers, Register(c) \/ RegisterFails(c) \/ Worked(c) \/ Deregister(c) \/ Drain(c)
                                  \/ Count(c) \/ DrainTimeout(c)
      PROVE  lease'[l] = d
  <2>1. lease' = lease BY <1>8 DEF Register, RegisterFails, Worked, Deregister, Drain, Count, DrainTimeout
  <2>2. CASE Register(c) \/ RegisterFails(c)
    BY <1>2, <1>3, <2>1, <2>2 DEF Register, RegisterFails, Goto, Needs
  <2>3. CASE Worked(c) \/ Deregister(c)
    BY <1>2, <1>3, <2>1, <2>3 DEF Worked, Deregister, Goto, End, Needs
  <2>4. CASE Drain(c) \/ Count(c) \/ DrainTimeout(c)
    BY <1>2, <1>3, <2>1, <2>4 DEF Drain, Count, DrainTimeout, Goto, Needs
  <2> QED BY <1>8, <2>2, <2>3, <2>4
<1>9. ASSUME NEW c \in Callers, LoseLease(c) PROVE lease'[l] = d
  <2>1. Needs(d, l) /\ d \notin lost BY <1>2, <1>9 DEF LoseLease, Needs
  <2>2. lease[l] = d BY <1>1, <2>1
  <2>3. PICK m \in Leases : /\ lease[m] = c /\ lease' = [lease EXCEPT ![m] = None]
                            /\ lost' = IF pc[c] \in {"unlock", "unlock_key", "leave"} THEN lost ELSE lost \cup {c}
    BY <1>9 DEF LoseLease
  <2>4. c # d BY <1>2, <2>1, <2>3 DEF Needs
  <2> QED BY <2>2, <2>3, <2>4
<1>10. ASSUME NEW c \in Callers, OutliveEntry(c) \/ \E m \in Leases : Call(c, m) PROVE lease'[l] = d
  <2>1. lease' = lease /\ Needs(d, l) /\ d \notin lost
    BY <1>2, <1>10 DEF OutliveEntry, Call, Goto, Needs
  <2> QED BY <1>3, <2>1
<1>11. CASE RunOut
  <2>1. Needs(d, l) /\ d \notin lost BY <1>2, <1>11 DEF RunOut, Needs
  <2>2. lease[l] = d BY <1>1, <2>1
  <2> QED BY <1>11, <2>2 DEF RunOut
<1>12. ASSUME NEW r \in Replicas, Crash(r) PROVE lease'[l] = d
  <2>1. On[d] # r /\ Needs(d, l) /\ d \notin lost BY <1>2, <1>12 DEF Crash, Needs
  <2>2. lease[l] = d BY <1>1, <2>1
  <2> QED BY <1>12, <2>1, <2>2 DEF Crash
<1>13. CASE UNCHANGED vars BY <1>1, <1>2, <1>13 DEF vars, Needs
<1> QED BY <1>4, <1>5, <1>6, <1>7, <1>8, <1>9, <1>10, <1>11, <1>12, <1>13 DEF Next, Step

(* A call has its entry from when it claims its key until its work ends. *)
LEMMA EnteredKept ==
  ASSUME Shape, Entered, [Next]_vars
  PROVE  Entered'
<1> USE GateAssumption DEF Shape, Steps, Entered
<1>1. ASSUME NEW c \in Callers, Lock(c) \/ LockFails(c) \/ RegisterFails(c) \/ LockKey(c) \/ LockKeyFails(c)
                                  \/ Unlock(c) \/ UnlockFails(c) \/ UnlockKey(c)
      PROVE  Entered'
  <2>1. UNCHANGED <<entries, lost>>
    BY <1>1 DEF Lock, LockFails, RegisterFails, LockKey, LockKeyFails, Unlock, UnlockFails, UnlockKey
  <2>2. \A d \in Callers : pc'[d] \in {"unlock", "wait_key", "work"} => pc[d] \in {"unlock", "wait_key", "work"}
    BY <1>1 DEF Lock, LockFails, RegisterFails, LockKey, LockKeyFails, Unlock, UnlockFails, UnlockKey, Goto, End
  <2> QED BY <2>1, <2>2
<1>2. ASSUME NEW c \in Callers, Register(c) PROVE Entered'
  BY <1>2 DEF Register, Goto
<1>3. ASSUME NEW c \in Callers, Worked(c) \/ Drain(c) \/ Count(c) \/ DrainTimeout(c) PROVE Entered'
  BY <1>3 DEF Worked, Drain, Count, DrainTimeout, Goto
<1>4. ASSUME NEW c \in Callers, Deregister(c) \/ Leave(c) PROVE Entered'
  BY <1>4 DEF Deregister, Leave, Goto, End
<1>5. ASSUME NEW c \in Callers, LoseLease(c) \/ OutliveEntry(c) \/ \E l \in Leases : Call(c, l) PROVE Entered'
  BY <1>5 DEF LoseLease, OutliveEntry, Call, Goto
<1>6. ASSUME NEW r \in Replicas, Crash(r) PROVE Entered'
  BY <1>6 DEF Crash
<1>7. CASE RunOut \/ UNCHANGED vars BY <1>7 DEF RunOut, vars
<1> QED BY <1>1, <1>2, <1>3, <1>4, <1>5, <1>6, <1>7 DEF Next, Step

(* Work enters the registry under the subject's lease, which exclusive     *)
(* work holds from before it counts.                                       *)
LEMMA NoticedKept ==
  ASSUME Shape, Leased, Entered, Noticed, [Next]_vars
  PROVE  Noticed'
<1> USE GateAssumption DEF Shape, Steps
<1>1. ASSUME lost \subseteq lost',
             \A d \in Callers : /\ pc'[d] = "alone" => pc[d] = "alone"
                                /\ pc'[d] \in {"unlock", "wait_key", "work"}
                                     => pc[d] \in {"unlock", "wait_key", "work"}
      PROVE  Noticed'
  BY <1>1 DEF Noticed
<1>2. ASSUME NEW c \in Callers, Lock(c) \/ LockFails(c) \/ RegisterFails(c) \/ Unlock(c) \/ UnlockFails(c)
                                  \/ LockKey(c) \/ LockKeyFails(c) \/ UnlockKey(c)
      PROVE  Noticed'
  <2>1. lost' = lost
    BY <1>2 DEF Lock, LockFails, RegisterFails, LockKey, LockKeyFails, Unlock, UnlockFails, UnlockKey
  <2>2. \A d \in Callers : /\ pc'[d] = "alone" => pc[d] = "alone"
                           /\ pc'[d] \in {"unlock", "wait_key", "work"} => pc[d] \in {"unlock", "wait_key", "work"}
    BY ZenonT(40), <1>2 DEF Lock, LockFails, RegisterFails, LockKey, LockKeyFails, Unlock, UnlockFails, UnlockKey, Goto, End
  <2> QED BY <1>1, <2>1, <2>2
<1>3. ASSUME NEW c \in Callers, Worked(c) \/ Drain(c) \/ DrainTimeout(c) PROVE Noticed'
  BY <1>1, <1>3 DEF Worked, Drain, DrainTimeout, Goto
<1>4. ASSUME NEW c \in Callers, Register(c) PROVE Noticed'
  <2>1. ASSUME NEW x \in Callers, pc[x] = "alone", x \notin lost PROVE c \in lost
    BY <1>4, <2>1 DEF Register, Leased
  <2> QED BY <1>4, <2>1 DEF Register, Goto, Noticed
<1>5. ASSUME NEW c \in Callers, Count(c) PROVE Noticed'
  <2>1. \A d \in Callers : pc[d] \in {"unlock", "wait_key", "work"} => d \in lost BY <1>5 DEF Count, Entered
  <2> QED BY <1>5, <2>1 DEF Count, Goto, Noticed
<1>6. ASSUME NEW c \in Callers, Deregister(c) \/ Leave(c) PROVE Noticed'
  BY ZenonT(40), <1>6 DEF Deregister, Leave, Goto, End, Noticed
<1>7. ASSUME NEW c \in Callers, LoseLease(c) \/ OutliveEntry(c) \/ \E l \in Leases : Call(c, l) PROVE Noticed'
  BY <1>1, <1>7 DEF LoseLease, OutliveEntry, Call, Goto
<1>8. ASSUME NEW r \in Replicas, Crash(r) PROVE Noticed'
  BY <1>8 DEF Crash, Noticed
<1>9. CASE RunOut \/ UNCHANGED vars BY <1>1, <1>9 DEF RunOut, vars
<1> QED BY <1>2, <1>3, <1>4, <1>5, <1>6, <1>7, <1>8, <1>9 DEF Next, Step

-------------------------------------------------------------------------------
(* The invariant holds in every state: each part is kept by every step. *)
THEOREM GateInvariant == Spec => []GateInv
<1>1. Init => GateInv
  <2> SUFFICES ASSUME Init PROVE GateInv OBVIOUS
  <2>1. Shape
    <3>1. <<>> \in Seq(Callers) BY EmptySeq
    <3>2. queue \in [Replicas -> Seq(Callers)] /\ claims \in [Replicas -> [Keys -> Seq(Callers)]]
      BY <3>1, Zenon DEF Init
    <3> QED BY <3>2 DEF Init, Shape, Steps, Leases
  <2>2. \A r \in Replicas : Claimed(r) = {} BY DEF Init, Claimed
  <2>3. Counted BY <2>2, FS_EmptySet DEF Init, Counted
  <2> QED BY <2>1, <2>3 DEF Init, GateInv, Held, Asked, Drained, Leased, Entered, Noticed
<1>2. GateInv /\ [Next]_vars => GateInv'
  BY ShapeKept, CountedKept, HeldKept, AskedKept, DrainedKept, LeasedKept, EnteredKept, NoticedKept DEF GateInv
<1> QED BY <1>1, <1>2, PTL DEF Spec

(* Every variable keeps its type, and a replica counts exactly the keyed *)
(* calls that are in it or that an unlock failed under.                  *)
THEOREM GateTypes == Spec => []TypeOK
<1>1. GateInv => TypeOK BY DEF GateInv, Shape, Counted, TypeOK
<1> QED BY <1>1, GateInvariant, PTL

(* Exclusive work never overlaps other work of its replica, and overlaps    *)
(* work of another replica only if one of the two has lost a lease or entry. *)
THEOREM ExclusiveIsAlone == Spec => []Alone
<1>1. GateInv => Alone
  <2> SUFFICES ASSUME GateInv, NEW c \in Callers, NEW d \in Callers, c # d, pc[c] = "alone", Working(d)
               PROVE  Apart(c, d)
    BY DEF Alone
  <2> USE GateAssumption DEF GateInv
  <2>1. CASE pc[d] = "alone"
    <3>1. HasMutex(c) /\ HasMutex(d) BY <2>1 DEF Held
    <3>2. On[c] # On[d] BY <3>1 DEF HasMutex, Here
    <3>3. c \in lost \/ d \in lost BY <2>1 DEF Leased
    <3> QED BY <3>2, <3>3 DEF Apart
  <2>2. CASE pc[d] = "work"
    <3>1. active[On[d]] # 0 BY <2>2, ClaimedIsCounted DEF Claimed
    <3>2. active[On[c]] = 0 BY DEF Drained
    <3>3. c \in lost \/ d \in lost BY <2>2 DEF Noticed
    <3> QED BY <3>1, <3>2, <3>3 DEF Apart
  <2> QED BY <2>1, <2>2 DEF Working
<1> QED BY <1>1, GateInvariant, PTL

(* Work on one key never overlaps in a replica, and overlaps work of another *)
(* replica only if one of the two has lost a lease or entry.                 *)
THEOREM KeysAreSerial == Spec => []OneAtAKey
<1>1. GateInv => OneAtAKey
  <2> SUFFICES ASSUME GateInv, NEW c \in Callers, NEW d \in Callers, c # d,
                      pc[c] = "work", pc[d] = "work", asks[c] = asks[d]
               PROVE  Apart(c, d)
    BY DEF OneAtAKey
  <2>1. HasKey(c) /\ HasKey(d) BY DEF GateInv, Held
  <2>2. On[c] # On[d] BY <2>1 DEF HasKey, SameKey
  <2>3. c \in lost \/ d \in lost BY DEF GateInv, Leased
  <2> QED BY <2>2, <2>3 DEF Apart
<1> QED BY <1>1, GateInvariant, PTL
===============================================================================
