------------------------ MODULE StorageMigrationProofs ------------------------
(***************************************************************************)
(* What StorageMigration promises, for every set of replicas, stores, files *)
(* and calls: what the record says agrees with the store that serves, and   *)
(* no file that a row names is missing from that store.                     *)
(***************************************************************************)
EXTENDS StorageMigration, TLAPS

-------------------------------------------------------------------------------
(* Types of the actors.  A runtime's number is compared and nothing else. *)
NoneOr(S) == S \cup {None}

RtWith(b) == [pc : {"off", "config", "tidy", "recover", "lease", "own", "ready"}, born : {b}, rev : Nat,
              store : NoneOr(Stores), m : NoneOr(Migration), owner : NoneOr(Owners)]
RtShape(x) ==
  /\ x \in RtWith(x.born)
  /\ x.pc \notin {"off", "config"} => x.store \in Stores
  /\ x.pc \in {"lease", "own"} => x.m # None /\ x.m.state = "running"
  /\ x.pc = "own" <=> x.owner # None

OfContext(c) == c.rev \in Nat /\ c.store \in Stores

Taking == {"lock_start", "lock_retry", "lock_abandon", "read", "ready", "write", "recheck", "abandon"}
CallWith(c) == [pc : Taking \cup {"idle", "cancel", "delete"}, ctx : {c}, m : NoneOr(Migration),
                clear : BOOLEAN, owner : NoneOr(Owners), holds : BOOLEAN]
CallShape(x) ==
  /\ x \in CallWith(x.ctx)
  /\ x.pc # "idle" => OfContext(x.ctx)
  /\ x.pc \in (Taking \ {"lock_retry", "read"}) \cup {"cancel"} => x.m # None
  /\ x.pc \in Taking <=> x.owner # None

PastDrain == {"clear", "init", "list", "check", "copy", "read", "write", "own", "switch"}
Working == PastDrain \cup {"drain", "finish", "cancel", "failed", "fail"}
RunWith(c) == [pc : Working \cup {"none", "tidy", "drop", "activate", "end"}, ctx : {c},
               m : NoneOr(Migration), mute : BOOLEAN, seen : BOOLEAN,
               then : {"none", "init", "check"}, todo : SUBSET Files]
RunShape(x) ==
  /\ x \in RunWith(x.ctx)
  /\ x.pc # "none" => OfContext(x.ctx) /\ x.m # None
  /\ x.pc \in {"read", "write"} => x.then # "none"
  /\ x.pc = "cancel" => x.m.state = "cancelled"
  /\ x.pc = "fail" => x.m.state = "failed"

Storing == {"begin", "store", "commit"}
Putting == Storing \cup {"create", "current", "mutable"}
PutWith(c) == [pc : Putting \cup {"idle", "left", "done"}, ctx : {c}]
PutShape(x) == x \in PutWith(x.ctx) /\ (x.pc \in Putting => OfContext(x.ctx))

Settings ==
  /\ setting \in NoneOr(Migration) /\ active \in Stores /\ rev \in Nat
  /\ cleanup \in NoneOr([abandons : NoneOr(Owners)])
  /\ stored \in [Stores -> SUBSET Files] /\ rows \subseteq Files
  /\ sessions \subseteq Uploads /\ ops \subseteq Uploads
  /\ lease \in NoneOr(Owners)
  /\ stale \subseteq {"start", "cancel", "resume", "upload", "recovery", "run"} /\ skipped \in BOOLEAN

Actors ==
  /\ rt = [r \in Replicas |-> rt[r]] /\ \A r \in Replicas : RtShape(rt[r])
  /\ adm = [a \in Admins |-> adm[a]] /\ \A a \in Admins : CallShape(adm[a])
  /\ run = [o \in Owners |-> run[o]] /\ \A o \in Owners : RunShape(run[o])
  /\ put = [f \in Uploads |-> put[f]] /\ \A f \in Uploads : PutShape(put[f])

Shape == Settings /\ Actors

(* A runtime or a context that has the current revision has the active store. *)
Knows(c) == c.rev <= rev /\ (c.rev = rev => c.store = active)
Contexts ==
  /\ \A r \in Replicas : /\ rt[r].pc = "config" => rt[r].rev <= rev
                         /\ rt[r].pc \notin {"off", "config"} => Knows(rt[r])
  /\ \A a \in Admins : adm[a].pc # "idle" => Knows(adm[a].ctx)
  /\ \A f \in Uploads : put[f].pc \in Putting => Knows(put[f].ctx)

(* The record and what was read of it: copies of one migration agree on its stores. *)
Copies == ({setting} \cup {adm[a].m : a \in Admins} \cup {rt[r].m : r \in Replicas}
           \cup {run[o].m : o \in Owners}) \ {None}
Coherent == \A c, d \in Copies : /\ c.src # c.dst
                                 /\ c.id = d.id => c.src = d.src /\ c.dst = d.dst

(* An owner that has been taken is one process's, and has not written yet. *)
InRecord(o) == setting # None /\ setting.owner = o
Apart ==
  /\ \A a \in Admins : adm[a].owner # None =>
       /\ run[adm[a].owner].pc = "none"
       /\ \A b \in Admins : adm[b].owner = adm[a].owner => b = a
       /\ \A r \in Replicas : rt[r].owner # adm[a].owner
  /\ \A r \in Replicas : rt[r].owner # None =>
       /\ run[rt[r].owner].pc = "none"
       /\ \A b \in Replicas : rt[b].owner = rt[r].owner => b = r
Unwritten ==
  /\ \A a \in Admins : adm[a].owner # None => ~InRecord(adm[a].owner)
  /\ \A r \in Replicas : rt[r].owner # None => ~InRecord(rt[r].owner)

(* What a call has read still agrees with the store that serves, while nothing has switched. *)
CallFits(c) ==
  /\ c.pc \in {"lock_start", "ready", "write"} => (c.ctx.rev = rev => c.m.src = active)
  /\ c.pc \in {"lock_abandon", "recheck"} => c.m.src # Managed
Calls == \A a \in Admins : CallFits(adm[a])

(* A run copies from the store of its runtime, and the record it owns is running
   until the run itself ends it. *)
RunFits(o, x) ==
  /\ x.pc \in Working \ {"cancel"} => x.m.owner = o /\ x.m.src = x.ctx.store
  /\ x.pc \in Working \ {"cancel", "fail"} => x.m.state = "running"
  /\ x.pc \in Working /\ InRecord(o) => setting.state = "running"
  /\ x.pc = "tidy" => x.ctx.store = Managed
  /\ x.pc = "drop" => x.m.dst = Managed
Runs == \A o \in Owners : RunFits(o, run[o])

(* While a cleanup of managed storage is due, nothing is served from or copied to it. *)
CleanupFits == cleanup # None => active # Managed /\ (setting # None /\ setting.state = "running" => setting.dst # Managed)

RecordInv == ~Overwritten => Unwritten /\ Calls /\ Runs /\ CleanupFits /\ RecordFits

(* An upload that has passed its checks goes to the store that serves. *)
PutFits(f, x) ==
  /\ x.pc \in Storing \cup {"current", "mutable"} => f \in sessions
  /\ x.pc \in Storing => x.ctx.rev = rev
  /\ x.pc = "commit" => f \in stored[active]
Puts == \A f \in Uploads : PutFits(f, put[f])

(* Nothing is uploaded while a run that owns the record is past its drain, and all it has
   gone through is in the destination. *)
Quiet == ops = {} /\ \A f \in Uploads : put[f].pc \notin Storing
Copied(x) ==
  /\ Quiet
  /\ x.pc \in {"check", "copy"} \/ (x.pc \in {"read", "write"} /\ x.then = "check") =>
       rows \subseteq stored[x.m.dst] \cup x.todo
  /\ x.pc \in {"own", "switch"} => rows \subseteq stored[x.m.dst]
FilesInv == stale = {} =>
  /\ Puts
  /\ \A o \in Owners : run[o].pc \in PastDrain /\ Ours(run[o].m) => Copied(run[o])
  /\ rows \subseteq stored[active]

MigrationInv == Shape /\ Contexts /\ Coherent /\ Apart /\ RecordInv /\ FilesInv

-------------------------------------------------------------------------------
(* Copies of records. *)
SameAs(c, d) == c.id = d.id /\ c.src = d.src /\ c.dst = d.dst
Agrees(n) == /\ n.src # n.dst
             /\ \A d \in Copies : n.id = d.id => n.src = d.src /\ n.dst = d.dst

(* Copies stay coherent when each is of a migration that was copied before, or *)
(* of one that agrees with those.                                              *)
LEMMA CopiesAgree ==
  ASSUME Coherent, NEW n, Agrees(n),
         \A c \in Copies' : SameAs(c, n) \/ \E d \in Copies : SameAs(c, d)
  PROVE  Coherent'
<1>1. \A d \in Copies : Agrees(d)
  BY DEF Coherent, Agrees
<1>2. ASSUME NEW c \in Copies', NEW d \in Copies'
      PROVE  c.src # c.dst /\ (c.id = d.id => c.src = d.src /\ c.dst = d.dst)
  <2>1. PICK x : SameAs(c, x) /\ (x = n \/ x \in Copies)
    BY <1>2
  <2>2. PICK y : SameAs(d, y) /\ (y = n \/ y \in Copies)
    BY <1>2
  <2>3. Agrees(x) /\ Agrees(y)
    BY <1>1, <2>1, <2>2
  <2>4. x.id = y.id => x.src = y.src /\ x.dst = y.dst
    BY <2>1, <2>2, <2>3 DEF Agrees
  <2> QED
    BY <2>1, <2>2, <2>3, <2>4 DEF SameAs, Agrees
<1> QED
  BY <1>2 DEF Coherent

(* The same when nothing is copied but what had been. *)
LEMMA OldCopiesAgree ==
  ASSUME Coherent, \A c \in Copies' : \E d \in Copies : SameAs(c, d)
  PROVE  Coherent'
<1>1. CASE Copies' = {}
  BY <1>1 DEF Coherent
<1>2. CASE Copies' # {}
  <2>1. PICK n : n \in Copies
    BY <1>2
  <2>2. Agrees(n)
    BY <2>1 DEF Coherent, Agrees
  <2> QED
    BY <2>2, CopiesAgree
<1> QED
  BY <1>1, <1>2

-------------------------------------------------------------------------------
(* A step of one administrator's call. *)
Elsewhere == UNCHANGED <<setting, active, rev, stored, rows, sessions, ops, rt, run, put, stale>>
LEMMA CallStep ==
  ASSUME MigrationInv, NEW a \in Admins, NEW c, adm' = [adm EXCEPT ![a] = c], Elsewhere,
         cleanup' \in NoneOr([abandons : NoneOr(Owners)]), lease' \in NoneOr(Owners), skipped' \in BOOLEAN,
         ~Overwritten => CleanupFits',
         CallShape(c), c.pc # "idle" => Knows(c.ctx), ~Overwritten => CallFits(c),
         c.m = None \/ Agrees(c.m),
         c.owner = None \/ c.owner = adm[a].owner \/ c.owner \notin Taken
  PROVE  MigrationInv'
<1> USE DEF Elsewhere
<1>1. \A b \in Admins : adm'[b] = IF b = a THEN c ELSE adm[b]
  BY DEF MigrationInv, Shape, Actors
<1>2. Shape'
  <2>1. Settings'
    BY DEF MigrationInv, Shape, Settings
  <2>2. adm' = [b \in Admins |-> adm'[b]]
    BY DEF MigrationInv, Shape, Actors
  <2>3. ASSUME NEW b \in Admins PROVE CallShape(adm[b])'
    BY <1>1 DEF MigrationInv, Shape, Actors, CallShape, OfContext
  <2> QED
    BY <2>1, <2>2, <2>3 DEF MigrationInv, Shape, Actors
<1>3. Contexts'
  BY <1>1 DEF MigrationInv, Contexts, Knows
<1>4. Coherent'
  <2>1. \A d \in Copies' : d \in Copies \/ d = c.m
    BY <1>1 DEF Copies
  <2>2. CASE c.m = None
    <3>1. \A d \in Copies' : d \in Copies
      BY <2>1, <2>2 DEF Copies
    <3> QED
      BY <3>1, OldCopiesAgree DEF MigrationInv, SameAs
  <2>3. CASE Agrees(c.m)
    BY <2>1, <2>3, CopiesAgree DEF MigrationInv, SameAs
  <2> QED
    BY <2>2, <2>3
<1>5. c.owner # None => /\ run[c.owner].pc = "none" /\ c.owner \in Owners
                        /\ \A b \in Admins \ {a} : adm[b].owner # c.owner
                        /\ \A r \in Replicas : rt[r].owner # c.owner
                        /\ ~Overwritten => ~InRecord(c.owner)
  <2>0. c.owner \in NoneOr(Owners)
    BY DEF CallShape, CallWith
  <2>1. CASE c.owner = adm[a].owner
    <3>1. Apart /\ (~Overwritten => Unwritten)
      BY DEF MigrationInv, RecordInv
    <3> QED
      BY <2>0, <2>1, <3>1 DEF Apart, Unwritten, NoneOr
  <2>2. CASE c.owner \notin Taken /\ c.owner # None
    BY <2>0, <2>2 DEF Taken, InRecord, IdsOf, NoneOr
  <2> QED
    BY <2>1, <2>2
<1>6. Apart'
  BY <1>1, <1>5 DEF MigrationInv, Apart
<1>7. RecordInv'
  <2>0. SUFFICES ASSUME ~Overwritten PROVE (Unwritten /\ Calls /\ Runs /\ CleanupFits /\ RecordFits)'
    BY DEF RecordInv, Overwritten
  <2>1. Unwritten /\ Calls /\ Runs /\ RecordFits
    BY <2>0 DEF MigrationInv, RecordInv
  <2>2. Unwritten'
    BY <1>1, <1>5, <2>0, <2>1 DEF Unwritten, InRecord
  <2>3. Calls'
    BY <1>1, <2>0, <2>1 DEF Calls, CallFits
  <2>4. Runs' /\ RecordFits'
    BY <2>1 DEF Runs, RunFits, InRecord, RecordFits, Overwritten
  <2> QED
    BY <2>0, <2>2, <2>3, <2>4
<1>8. FilesInv'
  BY DEF MigrationInv, FilesInv, Puts, PutFits, Copied, Quiet, Ours
<1> QED
  BY <1>2, <1>3, <1>4, <1>6, <1>7, <1>8 DEF MigrationInv

(* A step of one replica's runtime. *)
LEMMA RtStep ==
  ASSUME MigrationInv, NEW r \in Replicas, NEW x, rt' = [rt EXCEPT ![r] = x],
         UNCHANGED <<records, files, adm, run, put, stale>>,
         lease' \in NoneOr(Owners), skipped' \in BOOLEAN,
         RtShape(x), x.pc = "config" => x.rev <= rev, x.pc \notin {"off", "config"} => Knows(x),
         x.m = None \/ Agrees(x.m),
         x.owner = None \/ x.owner = rt[r].owner \/ x.owner \notin Taken
  PROVE  MigrationInv'
<1> USE DEF records, files
<1>1. \A b \in Replicas : rt'[b] = IF b = r THEN x ELSE rt[b]
  BY DEF MigrationInv, Shape, Actors
<1>2. Shape'
  <2>1. Settings'
    BY DEF MigrationInv, Shape, Settings
  <2>2. rt' = [b \in Replicas |-> rt'[b]]
    BY DEF MigrationInv, Shape, Actors
  <2>3. ASSUME NEW b \in Replicas PROVE RtShape(rt[b])'
    BY <1>1 DEF MigrationInv, Shape, Actors, RtShape
  <2> QED
    BY <2>1, <2>2, <2>3 DEF MigrationInv, Shape, Actors
<1>3. Contexts'
  BY <1>1 DEF MigrationInv, Contexts, Knows
<1>4. Coherent'
  <2>1. \A d \in Copies' : d \in Copies \/ d = x.m
    BY <1>1 DEF Copies
  <2>2. CASE x.m = None
    <3>1. \A d \in Copies' : d \in Copies
      BY <2>1, <2>2 DEF Copies
    <3> QED
      BY <3>1, OldCopiesAgree DEF MigrationInv, SameAs
  <2>3. CASE Agrees(x.m)
    BY <2>1, <2>3, CopiesAgree DEF MigrationInv, SameAs
  <2> QED
    BY <2>2, <2>3
<1>5. x.owner # None => /\ run[x.owner].pc = "none" /\ x.owner \in Owners
                        /\ \A b \in Replicas \ {r} : rt[b].owner # x.owner
                        /\ \A a \in Admins : adm[a].owner # x.owner
                        /\ ~Overwritten => ~InRecord(x.owner)
  <2>0. x.owner \in NoneOr(Owners)
    BY DEF RtShape, RtWith
  <2>1. CASE x.owner = rt[r].owner
    BY <2>0, <2>1 DEF MigrationInv, Apart, RecordInv, Unwritten, NoneOr
  <2>2. CASE x.owner \notin Taken /\ x.owner # None
    BY <2>0, <2>2 DEF Taken, InRecord, IdsOf, NoneOr
  <2> QED
    BY <2>1, <2>2
<1>6. Apart'
  BY <1>1, <1>5 DEF MigrationInv, Apart
<1>7. RecordInv'
  <2>0. SUFFICES ASSUME ~Overwritten PROVE (Unwritten /\ Calls /\ Runs /\ CleanupFits /\ RecordFits)'
    BY DEF RecordInv, Overwritten
  <2>1. Unwritten /\ Calls /\ Runs /\ CleanupFits /\ RecordFits
    BY <2>0 DEF MigrationInv, RecordInv
  <2>2. Unwritten'
    BY <1>1, <1>5, <2>0, <2>1 DEF Unwritten, InRecord
  <2>3. Calls'
    BY <2>1 DEF Calls, CallFits
  <2>4. Runs' /\ RecordFits' /\ CleanupFits'
    BY <2>1 DEF Runs, RunFits, InRecord, RecordFits, Overwritten, CleanupFits
  <2> QED
    BY <2>0, <2>2, <2>3, <2>4
<1>8. FilesInv'
  BY DEF MigrationInv, FilesInv, Puts, PutFits, Copied, Quiet, Ours
<1> QED
  BY <1>2, <1>3, <1>4, <1>6, <1>7, <1>8 DEF MigrationInv

(* A step of one run that leaves the record alone and removes no file. *)
LEMMA RunStep ==
  ASSUME MigrationInv, NEW o \in Owners, NEW x, run' = [run EXCEPT ![o] = x],
         UNCHANGED <<records, rows, sessions, ops, rt, adm, put, stale>>,
         stored' \in [Stores -> SUBSET Files], \A s \in Stores : stored[s] \subseteq stored'[s],
         lease' \in NoneOr(Owners), skipped' \in BOOLEAN,
         RunShape(x), run[o].pc # "none",
         x.m = None \/ \E d \in Copies : SameAs(x.m, d),
         ~Overwritten => RunFits(o, x),
         stale = {} /\ x.pc \in PastDrain /\ Ours(x.m) => Copied(x)'
  PROVE  MigrationInv'
<1> USE DEF records
<1>1. \A b \in Owners : run'[b] = IF b = o THEN x ELSE run[b]
  BY DEF MigrationInv, Shape, Actors
<1>2. Shape'
  <2>1. Settings'
    BY DEF MigrationInv, Shape, Settings
  <2>2. run' = [b \in Owners |-> run'[b]]
    BY DEF MigrationInv, Shape, Actors
  <2>3. ASSUME NEW b \in Owners PROVE RunShape(run[b])'
    BY <1>1 DEF MigrationInv, Shape, Actors, RunShape, OfContext
  <2> QED
    BY <2>1, <2>2, <2>3 DEF MigrationInv, Shape, Actors
<1>3. Contexts'
  BY DEF MigrationInv, Contexts, Knows
<1>4. Coherent'
  <2>1. \A d \in Copies' : d \in Copies \/ d = x.m
    BY <1>1 DEF Copies
  <2>2. \A d \in Copies' : \E c \in Copies : SameAs(d, c)
    BY <2>1 DEF SameAs, Copies
  <2> QED
    BY <2>2, OldCopiesAgree DEF MigrationInv
<1>6. Apart'
  BY <1>1 DEF MigrationInv, Apart
<1>7. RecordInv'
  <2>0. SUFFICES ASSUME ~Overwritten PROVE (Unwritten /\ Calls /\ Runs /\ CleanupFits /\ RecordFits)'
    BY DEF RecordInv, Overwritten
  <2>1. Unwritten /\ Calls /\ Runs /\ CleanupFits /\ RecordFits
    BY <2>0 DEF MigrationInv, RecordInv
  <2>2. Unwritten' /\ Calls'
    BY <2>0, <2>1 DEF Unwritten, InRecord, Calls, CallFits
  <2>3. Runs'
    BY <1>1, <2>0, <2>1 DEF Runs, RunFits, InRecord
  <2>4. RecordFits' /\ CleanupFits'
    BY <2>1 DEF RecordFits, Overwritten, CleanupFits
  <2> QED
    BY <2>0, <2>2, <2>3, <2>4
<1>8. FilesInv'
  <2>0. SUFFICES ASSUME stale = {}
                 PROVE  Puts' /\ (rows \subseteq stored[active])'
                        /\ \A b \in Owners : (run[b].pc \in PastDrain /\ Ours(run[b].m) => Copied(run[b]))'
    BY DEF FilesInv
  <2>1. active \in Stores /\ stored \in [Stores -> SUBSET Files]
    BY DEF MigrationInv, Shape, Settings
  <2>2. Puts' /\ (rows \subseteq stored[active])'
    BY <2>0, <2>1 DEF MigrationInv, FilesInv, Puts, PutFits
  <2>3. ASSUME NEW b \in Owners \ {o}, run[b].pc \in PastDrain, Ours(run[b].m), Copied(run[b])
        PROVE  Copied(run[b])'
    <3>1. run'[b] = run[b] /\ run[b].m.dst \in Stores
      BY <1>1, <2>3 DEF MigrationInv, Shape, Actors, RunShape, RunWith, NoneOr, PastDrain, Migration
    <3> QED
      BY <2>3, <3>1 DEF Copied, Quiet
  <2>4. \A b \in Owners : (run[b].pc \in PastDrain /\ Ours(run[b].m) => Copied(run[b]))'
    <3>1. ASSUME NEW b \in Owners \ {o} PROVE (run[b].pc \in PastDrain /\ Ours(run[b].m) => Copied(run[b]))'
      BY <1>1, <2>0, <2>3 DEF MigrationInv, FilesInv, Ours
    <3>2. (run[o].pc \in PastDrain /\ Ours(run[o].m) => Copied(run[o]))'
      BY <1>1, <2>0 DEF Ours, Copied, Quiet
    <3> QED
      BY <3>1, <3>2
  <2> QED
    BY <2>2, <2>4
<1> QED
  BY <1>2, <1>3, <1>4, <1>6, <1>7, <1>8 DEF MigrationInv

(* A step of one upload. *)
LEMMA UploadStep ==
  ASSUME MigrationInv, NEW f \in Uploads, NEW x, put' = [put EXCEPT ![f] = x],
         UNCHANGED <<records, rt, adm, run>>,
         Settings', stale \subseteq stale', rows \subseteq rows', \A s \in Stores : stored[s] \subseteq stored'[s],
         \A g \in sessions \ {f} : g \in sessions',
         PutShape(x), x.pc \in Putting => Knows(x.ctx),
         stale' = {} =>
           /\ PutFits(f, x)'
           /\ rows' \subseteq rows \cup stored'[active]
           /\ Quiet /\ setting # None /\ setting.state = "running" => rows' = rows /\ ops' = {} /\ x.pc \notin Storing
  PROVE  MigrationInv'
<1> USE DEF records
<1>1. \A g \in Uploads : put'[g] = IF g = f THEN x ELSE put[g]
  BY DEF MigrationInv, Shape, Actors
<1>2. Shape'
  <2>1. put' = [g \in Uploads |-> put'[g]]
    BY DEF MigrationInv, Shape, Actors
  <2>2. ASSUME NEW g \in Uploads PROVE PutShape(put[g])'
    BY <1>1 DEF MigrationInv, Shape, Actors, PutShape, OfContext
  <2> QED
    BY <2>1, <2>2 DEF MigrationInv, Shape, Actors
<1>3. Contexts'
  BY <1>1 DEF MigrationInv, Contexts, Knows
<1>4. Coherent' /\ Apart'
  <2>1. Copies' = Copies
    BY DEF Copies
  <2> QED
    BY <2>1 DEF MigrationInv, Coherent, Apart
<1>7. RecordInv'
  <2>0. SUFFICES ASSUME ~Overwritten PROVE (Unwritten /\ Calls /\ Runs /\ CleanupFits /\ RecordFits)'
    BY DEF RecordInv, Overwritten
  <2>1. Unwritten /\ Calls /\ Runs /\ CleanupFits /\ RecordFits
    BY <2>0 DEF MigrationInv, RecordInv
  <2>2. Unwritten' /\ Calls' /\ CleanupFits' /\ Runs'
    BY <2>1 DEF Unwritten, InRecord, Calls, CallFits, CleanupFits, Runs, RunFits
  <2>3. RecordFits'
    BY <2>0, <2>1 DEF RecordFits
  <2> QED
    BY <2>0, <2>2, <2>3
<1>8. FilesInv'
  <2>0. SUFFICES ASSUME stale' = {}
                 PROVE  Puts' /\ (rows \subseteq stored[active])'
                        /\ \A b \in Owners : (run[b].pc \in PastDrain /\ Ours(run[b].m) => Copied(run[b]))'
    BY DEF FilesInv
  <2>1. stale = {} /\ ~Overwritten /\ active \in Stores
    BY <2>0 DEF MigrationInv, Shape, Settings, Overwritten
  <2>2. ASSUME NEW g \in Uploads PROVE PutFits(g, put[g])'
    BY <1>1, <2>0, <2>1 DEF MigrationInv, FilesInv, Puts, PutFits
  <2>3. (rows \subseteq stored[active])'
    BY <2>0, <2>1 DEF MigrationInv, FilesInv
  <2>4. ASSUME NEW b \in Owners, run[b].pc \in PastDrain, Ours(run[b].m)
        PROVE  Copied(run[b])'
    <3>1. Copied(run[b])
      BY <2>1, <2>4 DEF MigrationInv, FilesInv
    <3>2. setting # None /\ setting.state = "running"
      BY <2>1, <2>4 DEF MigrationInv, RecordInv, Runs, RunFits, Ours, InRecord, Working, PastDrain
    <3>3. rows' = rows /\ ops' = {} /\ x.pc \notin Storing
      BY <2>0, <3>1, <3>2 DEF Copied
    <3>4. run'[b] = run[b] /\ run[b].m.dst \in Stores
      BY <2>4 DEF MigrationInv, Shape, Actors, RunShape, RunWith, NoneOr, PastDrain, Migration
    <3> QED
      BY <1>1, <3>1, <3>3, <3>4 DEF Copied, Quiet
  <2> QED
    BY <2>2, <2>3, <2>4 DEF Puts, Ours
<1> QED
  BY <1>2, <1>3, <1>4, <1>7, <1>8 DEF MigrationInv

-------------------------------------------------------------------------------
(* Steps that write the record or the marker, or lose a replica, while every *)
(* actor stays as it is or winds down.                                       *)
RtDown(r) == \/ rt'[r] = rt[r] \/ rt'[r] = OffRuntime
             \/ rt[r].pc = "tidy" /\ rt'[r] = [rt[r] EXCEPT !.pc = "recover"]
Closing == {"tidy", "drop", "activate"}
RunDown(o) == \/ run'[o] = run[o] \/ run'[o] = NoRun
              \/ run[o].pc # "none" /\ \E pc \in Closing : run'[o] = [run[o] EXCEPT !.pc = pc]
PutDown(f) == put'[f] = put[f] \/ \E pc \in {"idle", "left"} : put'[f] = [NoPut EXCEPT !.pc = pc]
WindDown ==
  /\ rt' = [r \in Replicas |-> rt'[r]] /\ \A r \in Replicas : RtDown(r)
  /\ adm' = [a \in Admins |-> adm'[a]] /\ \A a \in Admins : adm'[a] \in {adm[a], NoCall}
  /\ run' = [o \in Owners |-> run'[o]] /\ \A o \in Owners : RunDown(o)
  /\ put' = [f \in Uploads |-> put'[f]] /\ \A f \in Uploads : PutDown(f)

LEMMA WoundDown ==
  ASSUME Shape, WindDown
  PROVE  /\ Actors'
         /\ \A r \in Replicas : /\ rt'[r].m \in {None, rt[r].m} /\ rt'[r].owner \in {None, rt[r].owner}
                                /\ rt'[r].pc = "off" \/ (rt'[r].rev = rt[r].rev /\ rt'[r].store = rt[r].store)
                                /\ rt'[r].pc \in {"off", rt[r].pc} \/ (rt[r].pc = "tidy" /\ rt'[r].pc = "recover")
         /\ \A o \in Owners : \/ run'[o] = run[o]
                              \/ (run'[o].m \in {None, run[o].m} /\ run'[o].pc \notin Working)
         /\ \A o \in Owners : run'[o].pc = "none" \/ (run'[o].m = run[o].m /\ run'[o].ctx = run[o].ctx /\ run[o].pc # "none")
         /\ \A f \in Uploads : put'[f] = put[f] \/ put'[f].pc \in {"idle", "left"}
<1>1. ASSUME NEW r \in Replicas
      PROVE  /\ RtShape(rt'[r])
             /\ rt'[r].m \in {None, rt[r].m} /\ rt'[r].owner \in {None, rt[r].owner}
             /\ rt'[r].pc = "off" \/ (rt'[r].rev = rt[r].rev /\ rt'[r].store = rt[r].store)
             /\ rt'[r].pc \in {"off", rt[r].pc} \/ (rt[r].pc = "tidy" /\ rt'[r].pc = "recover")
  <2>0. RtShape(rt[r])
    BY DEF Shape, Actors
  <2>1. CASE rt'[r] = rt[r]
    BY <2>0, <2>1 DEF RtShape
  <2>2. CASE rt'[r] = OffRuntime
    BY <2>2 DEF OffRuntime, RtShape, RtWith, NoneOr
  <2>3. CASE rt[r].pc = "tidy" /\ rt'[r] = [rt[r] EXCEPT !.pc = "recover"]
    BY <2>0, <2>3 DEF RtShape, RtWith
  <2> QED
    BY <2>1, <2>2, <2>3 DEF WindDown, RtDown
<1>2. ASSUME NEW a \in Admins PROVE CallShape(adm'[a])
  <2>1. CallShape(adm[a]) /\ adm'[a] \in {adm[a], NoCall}
    BY DEF Shape, Actors, WindDown
  <2>2. CASE adm'[a] = NoCall
    BY <2>2 DEF CallShape, CallWith, NoCall, NoneOr, Taking
  <2>3. CASE adm'[a] = adm[a]
    BY <2>1, <2>3 DEF CallShape
  <2> QED
    BY <2>1, <2>2, <2>3
<1>3. ASSUME NEW o \in Owners
      PROVE  /\ RunShape(run'[o])
             /\ run'[o] = run[o] \/ (run'[o].m \in {None, run[o].m} /\ run'[o].pc \notin Working)
             /\ run'[o].pc = "none" \/ (run'[o].m = run[o].m /\ run'[o].ctx = run[o].ctx /\ run[o].pc # "none")
  <2>0. RunShape(run[o])
    BY DEF Shape, Actors
  <2>1. CASE run'[o] = run[o]
    BY <2>0, <2>1 DEF RunShape
  <2>2. CASE run'[o] = NoRun
    BY <2>2 DEF NoRun, RunShape, RunWith, NoneOr, Working, PastDrain
  <2>3. ASSUME NEW pc \in Closing, run[o].pc # "none", run'[o] = [run[o] EXCEPT !.pc = pc]
        PROVE  /\ RunShape(run'[o]) /\ run'[o].m = run[o].m /\ run'[o].pc \notin Working /\ run'[o].ctx = run[o].ctx
    BY <2>0, <2>3 DEF RunShape, RunWith, Closing, Working, PastDrain
  <2> QED
    BY <2>1, <2>2, <2>3 DEF WindDown, RunDown
<1>4. ASSUME NEW f \in Uploads PROVE PutShape(put'[f]) /\ (put'[f] = put[f] \/ put'[f].pc \in {"idle", "left"})
  BY DEF Shape, Actors, WindDown, PutDown, PutShape, PutWith, NoPut, Putting, Storing
<1>5. Actors'
  <2>1. (\A r \in Replicas : RtShape(rt[r]))'
    BY <1>1 DEF RtShape
  <2>2. (\A a \in Admins : CallShape(adm[a]))'
    BY <1>2 DEF CallShape, OfContext
  <2>3. (\A o \in Owners : RunShape(run[o]))'
    BY <1>3 DEF RunShape, OfContext
  <2>4. (\A f \in Uploads : PutShape(put[f]))'
    BY <1>4 DEF PutShape, OfContext
  <2> QED
    BY <2>1, <2>2, <2>3, <2>4 DEF WindDown, Actors
<1> QED
  BY <1>1, <1>3, <1>4, <1>5

(* The record that is written is of a migration that was copied before, and *)
(* its owner is the one it had.                                             *)
LEMMA WindStep ==
  ASSUME MigrationInv, WindDown, Settings', UNCHANGED <<rows, sessions, ops>>, stale \subseteq stale',
         \/ rev' = rev /\ active' = active
         \/ rev' > rev,
         setting' = None \/ \E d \in Copies : SameAs(setting', d),
         ~Overwritten' =>
           /\ RecordFits' /\ CleanupFits'
           /\ \A o \in Owners : InRecord(o)' => InRecord(o)
           /\ \A o \in Owners : run[o].pc \in Working /\ run'[o] = run[o] /\ InRecord(o)' => setting'.state = "running"
           /\ \A o \in Owners : /\ run'[o].pc = "tidy" => run[o].ctx.store = Managed
                                /\ run'[o].pc = "drop" => run[o].m.dst = Managed,
         stale' = {} =>
           /\ rows \subseteq stored'[active']
           /\ rev' = rev \/ Quiet
           /\ \A f \in Uploads : put[f].pc = "commit" /\ rev' = rev => f \in stored'[active']
           /\ \A o \in Owners : run'[o] = run[o] /\ run[o].pc \in PastDrain /\ Ours(run[o].m)' =>
                Ours(run[o].m) /\ stored[run[o].m.dst] \subseteq stored'[run[o].m.dst]
  PROVE  MigrationInv'
<1>0. Shape /\ Coherent /\ Contexts /\ Apart
  BY DEF MigrationInv
<1>1. Shape'
  BY <1>0, WoundDown DEF Shape
<1>2. \A a \in Admins : adm'[a] \in {adm[a], NoCall}
  BY DEF WindDown
<1>3. Contexts'
  <2>1. \A c : Knows(c) /\ c.rev \in Nat => Knows(c)'
    BY <1>0, <1>1 DEF Knows, Shape, Settings
  <2>2. ASSUME NEW r \in Replicas
        PROVE  (/\ rt[r].pc = "config" => rt[r].rev <= rev
                /\ rt[r].pc \notin {"off", "config"} => Knows(rt[r]))'
    <3>1. RtShape(rt[r]) /\ RtShape(rt'[r]) /\ rev \in Nat /\ rev' \in Nat /\ rev' >= rev
      BY <1>0, <1>1 DEF Shape, Settings, Actors, RtShape
    <3>2. rt[r].rev \in Nat /\ rt'[r].rev \in Nat
      BY <3>1 DEF RtShape, RtWith
    <3> QED
      BY <1>0, <3>1, <3>2, WoundDown DEF Contexts, Knows
  <2>3. ASSUME NEW a \in Admins PROVE (adm[a].pc # "idle" => Knows(adm[a].ctx))'
    <3>1. adm[a].pc # "idle" => adm[a].ctx.rev \in Nat
      BY <1>0 DEF Shape, Actors, CallShape, OfContext
    <3> QED
      BY <1>0, <1>1, <1>2, <3>1 DEF Contexts, Knows, NoCall, Shape, Settings
  <2>4. ASSUME NEW f \in Uploads PROVE (put[f].pc \in Putting => Knows(put[f].ctx))'
    <3>1. put[f].pc \in Putting => put[f].ctx.rev \in Nat
      BY <1>0 DEF Shape, Actors, PutShape, OfContext
    <3> QED
      BY <1>0, <1>1, <3>1, WoundDown DEF Contexts, Knows, Shape, Settings, Putting, Storing
  <2> QED
    BY <2>2, <2>3, <2>4 DEF Contexts
<1>4. Coherent'
  <2>1. ASSUME NEW c \in Copies' PROVE c = setting' \/ c \in Copies
    <3>1. \A a \in Admins : adm'[a].m \in {None, adm[a].m}
      BY <1>2 DEF NoCall
    <3>2. \A r \in Replicas : rt'[r].m \in {None, rt[r].m}
      BY <1>0, WoundDown
    <3>3. \A o \in Owners : run'[o].m \in {None, run[o].m}
      BY <1>0, WoundDown
    <3> QED
      BY <3>1, <3>2, <3>3 DEF Copies
  <2>2. \A c \in Copies' : \E d \in Copies : SameAs(c, d)
    BY <2>1 DEF SameAs, Copies
  <2> QED
    BY <1>0, <2>2, OldCopiesAgree
<1>5. Apart'
  <2>1. \A a \in Admins : adm'[a].owner \in {None, adm[a].owner}
    BY <1>2 DEF NoCall
  <2>2. \A r \in Replicas : rt'[r].owner \in {None, rt[r].owner}
    BY <1>0, WoundDown
  <2>3. \A o \in Owners : run[o].pc = "none" => run'[o].pc = "none"
    BY <1>0, WoundDown
  <2>4. (\A a \in Admins : adm'[a].owner \in NoneOr(Owners)) /\ (\A r \in Replicas : rt'[r].owner \in NoneOr(Owners))
    BY <1>1 DEF Shape, Actors, CallShape, CallWith, RtShape, RtWith
  <2> QED
    BY <1>0, <2>1, <2>2, <2>3, <2>4 DEF Apart, NoneOr
<1>6. RecordInv'
  <2>0. SUFFICES ASSUME ~Overwritten' PROVE (Unwritten /\ Calls /\ Runs /\ CleanupFits /\ RecordFits)'
    BY DEF RecordInv
  <2>1. ~Overwritten /\ Unwritten /\ Calls /\ Runs
    BY <2>0 DEF MigrationInv, RecordInv, Overwritten
  <2>2. Unwritten'
    <3>1. \A a \in Admins : adm'[a].owner \in {None, adm[a].owner} \cap NoneOr(Owners)
      BY <1>1, <1>2 DEF NoCall, Shape, Actors, CallShape, CallWith
    <3>2. \A r \in Replicas : rt'[r].owner \in {None, rt[r].owner} \cap NoneOr(Owners)
      BY <1>0, <1>1, WoundDown DEF Shape, Actors, RtShape, RtWith
    <3> QED
      BY <2>0, <2>1, <3>1, <3>2 DEF Unwritten, NoneOr
  <2>3. Calls'
    <3>1. ASSUME NEW a \in Admins PROVE CallFits(adm[a])'
      <4>1. CallFits(adm[a]) /\ (adm[a].pc # "idle" => Knows(adm[a].ctx) /\ adm[a].ctx.rev \in Nat)
        BY <1>0, <2>1 DEF Calls, Contexts, Shape, Actors, CallShape, OfContext
      <4> QED
        BY <1>0, <1>1, <1>2, <4>1 DEF CallFits, NoCall, Knows, Shape, Settings
    <3> QED
      BY <3>1 DEF Calls
  <2>4. ASSUME NEW o \in Owners PROVE RunFits(o, run[o])'
    <3>1. RunFits(o, run[o])
      BY <2>1 DEF Runs
    <3>2. CASE run'[o] = run[o]
      BY <2>0, <3>1, <3>2 DEF RunFits
    <3>3. CASE run'[o] # run[o]
      <4>1. run'[o].pc \notin Working /\ (run'[o].pc = "none" \/ (run'[o].m = run[o].m /\ run'[o].ctx = run[o].ctx))
        BY <1>0, <3>3, WoundDown
      <4> QED
        BY <2>0, <4>1 DEF RunFits
    <3> QED
      BY <3>2, <3>3
  <2> QED
    BY <2>0, <2>2, <2>3, <2>4 DEF Runs
<1>7. FilesInv'
  <2>0. SUFFICES ASSUME stale' = {}
                 PROVE  Puts' /\ (rows \subseteq stored[active])'
                        /\ \A b \in Owners : (run[b].pc \in PastDrain /\ Ours(run[b].m) => Copied(run[b]))'
    BY DEF FilesInv
  <2>1. stale = {} /\ Puts
    BY <2>0 DEF MigrationInv, FilesInv
  <2>2. ASSUME NEW f \in Uploads PROVE PutFits(f, put[f])'
    <3>1. PutFits(f, put[f]) /\ (put'[f] = put[f] \/ put'[f].pc \in {"idle", "left"})
      BY <1>0, <2>1, WoundDown DEF Puts
    <3> QED
      BY <2>0, <3>1 DEF PutFits, Quiet, Storing
  <2>3. Quiet => Quiet'
    BY <1>0, WoundDown DEF Quiet, Storing
  <2>4. ASSUME NEW b \in Owners, run'[b].pc \in PastDrain, Ours(run[b].m)'
        PROVE  Copied(run[b])'
    <3>1. run'[b] = run[b]
      BY <1>0, <2>4, WoundDown DEF Working
    <3>2. Ours(run[b].m)' /\ run[b].pc \in PastDrain /\ (Ours(run[b].m)' => Ours(run[b].m) /\ stored[run[b].m.dst] \subseteq stored'[run[b].m.dst])
      BY <2>0, <2>4, <3>1
    <3>3. Copied(run[b])
      BY <2>1, <3>2 DEF MigrationInv, FilesInv
    <3> QED
      BY <2>3, <3>1, <3>2, <3>3 DEF Copied
  <2> QED
    BY <2>0, <2>2, <2>4 DEF Puts
<1> QED
  BY <1>1, <1>3, <1>4, <1>5, <1>6, <1>7 DEF MigrationInv

-------------------------------------------------------------------------------
(* Calls of administrators. *)
LEMMA OwnerIsNew ==
  ASSUME CanAcquire
  PROVE  NewOwner \in Owners /\ NewOwner \notin Taken /\ NewOwner # None
BY MigrationAssumption DEF CanAcquire, NewOwner

(* The context of a runtime that is ready. *)
LEMMA ReadyKnows ==
  ASSUME MigrationInv, NEW r \in Replicas, Ready(r)
  PROVE  OfContext(CtxOf(r)) /\ Knows(CtxOf(r)) /\ CtxOf(r).store = rt[r].store
BY DEF MigrationInv, Shape, Actors, RtShape, RtWith, Ready, CtxOf, OfContext, Contexts, Knows

(* A copy that has been read agrees with the others, whatever its other fields. *)
LEMMA CopyAgrees ==
  ASSUME MigrationInv, NEW m, m # None, m \in Copies
  PROVE  Agrees(m)
BY DEF MigrationInv, Coherent, Agrees

(* A record of a new migration agrees with all there are. *)
LEMMA NewAgrees ==
  ASSUME NEW m, m.src # m.dst, m.id \notin Taken
  PROVE  Agrees(m)
<1>1. \A d \in Copies : d.id \in Taken
  BY DEF Copies, Taken, IdsOf
<1> QED
  BY <1>1 DEF Agrees

(* A call that begins. *)
LEMMA CallBegins ==
  ASSUME MigrationInv, NEW a \in Admins, NEW r \in Replicas, CallOf(a, r)
  PROVE  MigrationInv'
<1>0. setting \in NoneOr(Migration) /\ active \in Stores /\ NoneOr(Migration) \cap {None} = {None}
      /\ lease \in NoneOr(Owners) /\ cleanup \in NoneOr([abandons : NoneOr(Owners)]) /\ skipped \in BOOLEAN
      /\ (~Overwritten => CleanupFits)
  BY DEF MigrationInv, Shape, Settings, RecordInv, NoneOr
<1>1. Ready(r) => OfContext(CtxOf(r)) /\ Knows(CtxOf(r)) /\ CtxOf(r).store = rt[r].store
  BY ReadyKnows
<1>2. setting # None => Agrees(setting) /\ setting \in Migration
  BY <1>0, CopyAgrees DEF Copies, NoneOr
<1>3. ASSUME NEW op \in Taking, NEW m \in NoneOr(Migration), NEW clear \in BOOLEAN,
             CallWithLease(a, r, op, m, clear), UNCHANGED <<records, files, rt, run, put, stale, skipped>>,
             m = None \/ Agrees(m), m = None => op \in {"lock_retry", "read"},
             op \in {"lock_start", "ready", "write"} => m.src = rt[r].store,
             op \in {"lock_abandon", "recheck"} => m.src # Managed
      PROVE  MigrationInv'
  <2>1. NewOwner \in Owners /\ NewOwner \notin Taken /\ NewOwner # None /\ Ready(r)
    BY <1>3, OwnerIsNew DEF CallWithLease
  <2>2. PICK c : c = [NoCall EXCEPT !.pc = op, !.ctx = CtxOf(r), !.m = m, !.clear = clear, !.owner = NewOwner]
    OBVIOUS
  <2>3. c = [pc |-> op, ctx |-> CtxOf(r), m |-> m, clear |-> clear, owner |-> NewOwner, holds |-> FALSE]
    BY <2>2 DEF NoCall
  <2> HIDE DEF CtxOf, NewOwner
  <2>4. c.pc = op /\ c.ctx = CtxOf(r) /\ c.m = m /\ c.owner = NewOwner /\ c \in CallWith(c.ctx)
    BY <1>3, <2>1, <2>3 DEF CallWith, NoneOr
  <2>5. CallShape(c)
    BY <1>1, <1>3, <2>1, <2>4 DEF CallShape, Taking
  <2>6. Knows(c.ctx) /\ CallFits(c)
    BY <1>1, <1>3, <2>1, <2>4 DEF CallFits, Knows
  <2>7. adm' = [adm EXCEPT ![a] = c] /\ lease' = NewOwner
    BY <1>3, <2>2 DEF CallWithLease
  <2>8. Elsewhere /\ cleanup' = cleanup /\ skipped' = skipped /\ lease' \in NoneOr(Owners)
    BY <1>3, <2>1, <2>7 DEF Elsewhere, records, files, NoneOr
  <2>9. ~Overwritten => CleanupFits'
    BY <1>0, <2>8 DEF CleanupFits, Elsewhere
  <2> QED
    BY <1>0, <1>3, <2>1, <2>4, <2>5, <2>6, <2>7, <2>8, <2>9, CallStep
<1>4. CASE CallStart(a, r)
  <2>1. PICK dst \in Stores \ {rt[r].store}, clear \in {FALSE, "clear" \in left.calls} :
          CallWithLease(a, r, "lock_start",
            [id |-> NewOwner, owner |-> NewOwner, state |-> "running", cancel |-> FALSE,
             phase |-> IF clear THEN "clearing" ELSE "copying", src |-> rt[r].store, dst |-> dst], clear)
    BY <1>4 DEF CallStart
  <2> DEFINE m == [id |-> NewOwner, owner |-> NewOwner, state |-> "running", cancel |-> FALSE,
                   phase |-> IF clear THEN "clearing" ELSE "copying", src |-> rt[r].store, dst |-> dst]
  <2>0. clear \in BOOLEAN
    <3>1. ("clear" \in left.calls) \in BOOLEAN
      OBVIOUS
    <3> QED
      BY <3>1, Zenon
  <2>2. NewOwner \in Owners /\ NewOwner \notin Taken /\ Ready(r) /\ clear \in BOOLEAN
    BY <2>0, <2>1, OwnerIsNew DEF CallWithLease
  <2>3. rt[r].store \in Stores
    BY <1>1, <2>2 DEF OfContext
  <2>4. m \in Migration /\ m.id = NewOwner /\ m.src = rt[r].store /\ m.dst = dst
    BY <2>2, <2>3 DEF Migration, Phases
  <2> HIDE DEF m
  <2>5. Agrees(m) /\ m # None
    BY <2>2, <2>4, NewAgrees, MigrationAssumption
  <2>6. UNCHANGED <<records, files, rt, run, put, stale, skipped>>
    BY <1>4 DEF CallStart
  <2>7. CallWithLease(a, r, "lock_start", m, clear)
    BY <2>1 DEF m
  <2> QED
    BY <1>3, <2>2, <2>4, <2>5, <2>6, <2>7 DEF Taking, NoneOr
<1>5. CASE CallRetry(a, r)
  BY <1>3, <1>5 DEF CallRetry, Taking, NoneOr
<1>6. CASE CallAbandon(a, r)
  <2>1. setting # None
    BY <1>6 DEF CallAbandon, StateOf
  <2> QED
    BY <1>2, <1>3, <1>6, <2>1 DEF CallAbandon, Taking, NoneOr, history
<1>7. ASSUME NEW op \in {"cancel", "delete"}, NEW m \in NoneOr(Migration), NEW c,
             c = [pc |-> op, ctx |-> CtxOf(r), m |-> m, clear |-> FALSE, owner |-> None, holds |-> FALSE],
             adm' = [adm EXCEPT ![a] = c], m = None \/ Agrees(m), op = "cancel" => m # None,
             Ready(r), UNCHANGED <<records, files, lease, rt, run, put, history>>
      PROVE  MigrationInv'
  <2> HIDE DEF CtxOf
  <2>1. c.pc = op /\ c.ctx = CtxOf(r) /\ c.m = m /\ c.owner = None /\ c \in CallWith(c.ctx)
    BY <1>7 DEF CallWith, NoneOr
  <2>2. CallShape(c) /\ CallFits(c) /\ Knows(c.ctx)
    BY <1>1, <1>7, <2>1 DEF CallShape, Taking, CallFits
  <2>3. Elsewhere /\ cleanup' = cleanup /\ skipped' = skipped /\ lease' = lease
    BY <1>7 DEF Elsewhere, records, files, history
  <2>4. ~Overwritten => CleanupFits'
    BY <1>0, <2>3 DEF CleanupFits, Elsewhere
  <2> QED
    BY <1>0, <1>7, <2>1, <2>2, <2>3, <2>4, CallStep
<1>8. CASE CallCancel(a, r)
  <2>1. PICK c : c = [NoCall EXCEPT !.pc = "cancel", !.ctx = CtxOf(r), !.m = setting]
    OBVIOUS
  <2>2. c = [pc |-> "cancel", ctx |-> CtxOf(r), m |-> setting, clear |-> FALSE, owner |-> None, holds |-> FALSE]
    BY <2>1 DEF NoCall
  <2>3. adm' = [adm EXCEPT ![a] = c]
    BY <1>8, <2>1 DEF CallCancel
  <2>4. setting # None /\ Ready(r) /\ UNCHANGED <<records, files, lease, rt, run, put, history>>
    BY <1>8 DEF CallCancel, StateOf
  <2> HIDE DEF CtxOf
  <2> QED
    BY <1>0, <1>2, <1>7, <2>2, <2>3, <2>4
<1>9. CASE CallAcknowledge(a, r)
  <2>1. PICK c : c = [NoCall EXCEPT !.pc = "delete", !.ctx = CtxOf(r)]
    OBVIOUS
  <2>2. c = [pc |-> "delete", ctx |-> CtxOf(r), m |-> None, clear |-> FALSE, owner |-> None, holds |-> FALSE]
    BY <2>1 DEF NoCall
  <2>3. adm' = [adm EXCEPT ![a] = c]
    BY <1>9, <2>1 DEF CallAcknowledge
  <2>4. Ready(r) /\ UNCHANGED <<records, files, lease, rt, run, put, history>>
    BY <1>9 DEF CallAcknowledge
  <2> HIDE DEF CtxOf
  <2> QED
    BY <1>7, <2>2, <2>3, <2>4 DEF NoneOr
<1> QED
  BY <1>4, <1>5, <1>6, <1>8, <1>9 DEF CallOf

(* A call that ends without having written anything. *)
LEMMA CallEnds ==
  ASSUME MigrationInv, NEW a \in Admins, Return(a), Release(adm[a].owner), Elsewhere,
         UNCHANGED <<cleanup, skipped>>
  PROVE  MigrationInv'
<1>1. lease' \in NoneOr(Owners) /\ skipped' \in BOOLEAN /\ cleanup' \in NoneOr([abandons : NoneOr(Owners)])
  BY DEF MigrationInv, Shape, Settings, Release, NoneOr
<1>2. ~Overwritten => CleanupFits'
  BY DEF MigrationInv, RecordInv, CleanupFits, Elsewhere
<1>3. PICK c : c = NoCall
  OBVIOUS
<1>4. c.pc = "idle" /\ c.m = None /\ c.owner = None /\ CallShape(c) /\ CallFits(c)
  BY <1>3 DEF NoCall, CallShape, CallWith, CallFits, NoneOr, Taking
<1>5. adm' = [adm EXCEPT ![a] = c]
  BY <1>3 DEF Return
<1> QED
  BY <1>1, <1>2, <1>4, <1>5, CallStep

(* A call that takes its next step. *)
LEMMA CallWorks ==
  ASSUME MigrationInv, NEW a \in Admins, Work(a), ~Begin(a), ~Abandon(a), ~WriteCancel(a), ~Delete(a)
  PROVE  MigrationInv'
<1>0. /\ CallShape(adm[a]) /\ (adm[a].pc # "idle" => Knows(adm[a].ctx))
      /\ (~Overwritten => CallFits(adm[a]) /\ CleanupFits /\ RecordFits)
      /\ (adm[a].m = None \/ Agrees(adm[a].m))
  BY CopyAgrees DEF MigrationInv, Shape, Actors, Contexts, RecordInv, Calls, Copies
<1>1. /\ setting \in NoneOr(Migration) /\ lease \in NoneOr(Owners) /\ skipped \in BOOLEAN
      /\ cleanup \in NoneOr([abandons : NoneOr(Owners)])
      /\ (setting # None => Agrees(setting) /\ setting \in Migration)
  BY CopyAgrees DEF MigrationInv, Shape, Settings, Copies, NoneOr
<1>2. ASSUME NEW pc \in Taking, NEW m \in NoneOr(Migration), NEW holds \in BOOLEAN, NEW c, adm[a].pc # "idle",
             c = [adm[a] EXCEPT !.pc = pc, !.m = m, !.holds = holds], adm' = [adm EXCEPT ![a] = c],
             adm[a].pc \in Taking, pc \notin {"lock_retry", "read"} => m # None, m = None \/ Agrees(m),
             ~Overwritten /\ pc \in {"lock_start", "ready", "write"} => (adm[a].ctx.rev = rev => m.src = active),
             ~Overwritten /\ pc \in {"lock_abandon", "recheck"} => m.src # Managed,
             Elsewhere, UNCHANGED <<lease, skipped>>,
             cleanup' \in NoneOr([abandons : NoneOr(Owners)]), ~Overwritten => CleanupFits'
      PROVE  MigrationInv'
  <2>1. c.pc = pc /\ c.m = m /\ c.owner = adm[a].owner /\ c.ctx = adm[a].ctx /\ c \in CallWith(c.ctx)
    BY <1>0, <1>2 DEF CallShape, CallWith
  <2>2. CallShape(c) /\ Knows(c.ctx)
    BY <1>0, <1>2, <2>1 DEF CallShape, Taking
  <2>3. ~Overwritten => CallFits(c)
    BY <1>2, <2>1 DEF CallFits
  <2> QED
    BY <1>1, <1>2, <2>1, <2>2, <2>3, CallStep
<1>3. cleanup' = cleanup /\ Elsewhere => (~Overwritten => CleanupFits')
  BY <1>0 DEF CleanupFits, Elsewhere
<1>4. ASSUME GiveUp(a) PROVE MigrationInv'
  BY <1>4, CallEnds DEF GiveUp, Elsewhere, records, files, history
<1>5. CASE Lock(a)
  <2>1. PICK step \in {<<"lock_start", "ready">>, <<"lock_retry", "read">>, <<"lock_abandon", "recheck">>} :
          adm[a].pc = step[1] /\ adm' = [adm EXCEPT ![a] = [@ EXCEPT !.pc = step[2], !.holds = TRUE]]
    BY <1>5 DEF Lock
  <2>2. PICK c : c = [adm[a] EXCEPT !.pc = step[2], !.m = adm[a].m, !.holds = TRUE]
    OBVIOUS
  <2>3. c = [adm[a] EXCEPT !.pc = step[2], !.holds = TRUE]
    BY <1>0, <2>2 DEF CallShape, CallWith
  <2>4. adm' = [adm EXCEPT ![a] = c]
    BY <2>1, <2>3
  <2>5. Elsewhere /\ UNCHANGED <<cleanup, lease, skipped>>
    BY <1>5 DEF Lock, Elsewhere, records, files, history
  <2>6. adm[a].m \in NoneOr(Migration) /\ adm[a].pc \in Taking /\ adm[a].pc # "idle" /\ step[2] \in Taking
    BY <1>0, <2>1 DEF CallShape, CallWith, Taking
  <2>7. /\ step[2] \notin {"lock_retry", "read"} => adm[a].m # None
        /\ ~Overwritten /\ step[2] \in {"lock_start", "ready", "write"} => (adm[a].ctx.rev = rev => adm[a].m.src = active)
        /\ ~Overwritten /\ step[2] \in {"lock_abandon", "recheck"} => adm[a].m.src # Managed
    BY <1>0, <2>1 DEF CallShape, CallFits, Taking
  <2> QED
    BY <1>0, <1>1, <1>2, <1>3, <2>2, <2>4, <2>5, <2>6, <2>7
<1>6. CASE ReadFailed(a)
  <2>1. PICK c : c = [adm[a] EXCEPT !.pc = "ready", !.m = setting, !.holds = adm[a].holds]
    OBVIOUS
  <2>2. c = [adm[a] EXCEPT !.pc = "ready", !.m = setting]
    BY <1>0, <2>1 DEF CallShape, CallWith
  <2>3. adm' = [adm EXCEPT ![a] = c] /\ adm[a].pc = "read" /\ setting # None /\ setting.state = "failed"
    BY <1>6, <2>2 DEF ReadFailed, StateOf
  <2>4. Elsewhere /\ UNCHANGED <<cleanup, lease, skipped>>
    BY <1>6 DEF ReadFailed, Elsewhere, records, files, history
  <2>5. ~Overwritten => setting.src = active
    BY <1>0, <2>3 DEF RecordFits
  <2>6. adm[a].holds \in BOOLEAN
    BY <1>0 DEF CallShape, CallWith
  <2> QED
    BY <1>1, <1>2, <1>3, <2>1, <2>3, <2>4, <2>5, <2>6 DEF Taking
<1>7. CASE CheckReady(a)
  <2>1. PICK c : c = [adm[a] EXCEPT !.pc = "write", !.m = adm[a].m, !.holds = adm[a].holds]
    OBVIOUS
  <2>2. c = [adm[a] EXCEPT !.pc = "write"]
    BY <1>0, <2>1 DEF CallShape, CallWith
  <2>3. adm' = [adm EXCEPT ![a] = c] /\ adm[a].pc = "ready" /\ cleanup' \in {cleanup, None}
    BY <1>7, <2>2 DEF CheckReady, Step
  <2>4. Elsewhere /\ UNCHANGED <<lease, skipped>>
    BY <1>7 DEF CheckReady, Elsewhere, records, files, history
  <2>5. (~Overwritten => CleanupFits') /\ cleanup' \in NoneOr([abandons : NoneOr(Owners)])
    BY <1>0, <1>1, <2>3, <2>4 DEF CleanupFits, Elsewhere, NoneOr
  <2>6. adm[a].holds \in BOOLEAN /\ adm[a].m \in NoneOr(Migration) /\ adm[a].m # None
        /\ (~Overwritten => (adm[a].ctx.rev = rev => adm[a].m.src = active))
    BY <1>0, <2>3 DEF CallShape, CallWith, Taking, CallFits
  <2> QED
    BY <1>0, <1>2, <2>1, <2>3, <2>4, <2>5, <2>6 DEF Taking
<1>8. CASE Recheck(a)
  <2>1. PICK c : c = [adm[a] EXCEPT !.pc = "abandon", !.m = setting, !.holds = adm[a].holds]
    OBVIOUS
  <2>2. c = [adm[a] EXCEPT !.pc = "abandon", !.m = setting]
    BY <1>0, <2>1 DEF CallShape, CallWith
  <2>3. /\ adm' = [adm EXCEPT ![a] = c] /\ adm[a].pc = "recheck" /\ setting # None /\ setting.state = "failed"
        /\ setting.id = adm[a].m.id /\ cleanup' = [abandons |-> setting.id]
    BY <1>8, <2>2 DEF Recheck, StateOf
  <2>4. Elsewhere /\ UNCHANGED <<lease, skipped>>
    BY <1>8 DEF Recheck, Elsewhere, records, files, history
  <2>5. adm[a].m # None /\ adm[a].holds \in BOOLEAN
    BY <1>0, <2>3 DEF CallShape, CallWith, Taking
  <2>6. setting.src = adm[a].m.src
    BY <2>3, <2>5 DEF MigrationInv, Coherent, Copies
  <2>7. ~Overwritten => CleanupFits'
    BY <1>0, <2>3, <2>4, <2>6 DEF CallFits, RecordFits, CleanupFits, Elsewhere
  <2>8. cleanup' \in NoneOr([abandons : NoneOr(Owners)])
    BY <1>1, <2>3 DEF Migration, NoneOr
  <2> QED
    BY <1>1, <1>2, <2>1, <2>3, <2>4, <2>5, <2>7, <2>8 DEF Taking
<1>9. CASE NotPrepared(a)
  BY <1>9, CallEnds DEF NotPrepared, Elsewhere, records, files
<1> QED
  BY <1>4, <1>5, <1>6, <1>7, <1>8, <1>9 DEF Work, LockRefused, NotFailed, NotReady, RetryRefused, FailedChanged

-------------------------------------------------------------------------------
(* Building a runtime. *)
LEMMA RuntimeBuilds ==
  ASSUME MigrationInv, NEW r \in Replicas,
         ReadRevision(r) \/ ReadConfig(r) \/ SkipResume(r) \/ TakeOver(r) \/ Refresh(r)
  PROVE  MigrationInv'
<1>0. /\ RtShape(rt[r]) /\ (rt[r].pc = "config" => rt[r].rev <= rev)
      /\ (rt[r].pc \notin {"off", "config"} => Knows(rt[r]))
      /\ (rt[r].m = None \/ Agrees(rt[r].m))
  BY CopyAgrees DEF MigrationInv, Shape, Actors, Contexts, Copies
<1>1. lease \in NoneOr(Owners) /\ skipped \in BOOLEAN /\ rev \in Nat /\ active \in Stores
  BY DEF MigrationInv, Shape, Settings
<1>2. CASE ReadRevision(r)
  <2>1. PICK born : born = NewBorn(r)
    OBVIOUS
  <2>2. PICK x : x = [rt[r] EXCEPT !.pc = "config", !.rev = rev, !.born = born]
    OBVIOUS
  <2>3. rt' = [rt EXCEPT ![r] = x] /\ rt[r].pc = "off"
    BY <1>2, <2>1, <2>2 DEF ReadRevision
  <2>4. /\ x.pc = "config" /\ x.rev = rev /\ x.born = born /\ x.m = rt[r].m /\ x.owner = rt[r].owner
        /\ x \in RtWith(born)
    BY <1>0, <1>1, <2>2 DEF RtShape, RtWith
  <2>5. RtShape(x) /\ x.rev <= rev
    BY <1>0, <1>1, <2>3, <2>4 DEF RtShape
  <2>6. UNCHANGED <<records, files, adm, run, put, stale, lease, skipped>>
    BY <1>2 DEF ReadRevision
  <2> QED
    BY <1>0, <1>1, <2>3, <2>4, <2>5, <2>6, RtStep
<1>3. CASE ReadConfig(r)
  <2>1. PICK pc : pc = IF active # Managed /\ cleanup # None THEN "tidy" ELSE "recover"
    OBVIOUS
  <2>2. PICK x : x = [rt[r] EXCEPT !.store = active, !.pc = pc]
    OBVIOUS
  <2>3. rt' = [rt EXCEPT ![r] = x] /\ rt[r].pc = "config" /\ pc \in {"tidy", "recover"}
    BY <1>3, <2>1, <2>2 DEF ReadConfig
  <2>4. /\ x.pc = pc /\ x.rev = rt[r].rev /\ x.born = rt[r].born /\ x.m = rt[r].m /\ x.owner = rt[r].owner
        /\ x.store = active /\ x \in RtWith(x.born)
    BY <1>0, <1>1, <2>2, <2>3 DEF RtShape, RtWith, NoneOr
  <2>5. RtShape(x) /\ Knows(x)
    BY <1>0, <1>1, <2>3, <2>4 DEF RtShape, Knows
  <2>6. UNCHANGED <<records, files, adm, run, put, stale, lease, skipped>>
    BY <1>3 DEF ReadConfig, history
  <2> QED
    BY <1>0, <1>1, <2>3, <2>4, <2>5, <2>6, RtStep
<1>4. CASE SkipResume(r)
  <2>1. PICK x : x = [rt[r] EXCEPT !.pc = "ready", !.m = None]
    OBVIOUS
  <2>2. rt' = [rt EXCEPT ![r] = x] /\ rt[r].pc = "lease" /\ skipped' \in BOOLEAN
    BY <1>1, <1>4, <2>1 DEF SkipResume
  <2>3. /\ x.pc = "ready" /\ x.rev = rt[r].rev /\ x.born = rt[r].born /\ x.m = None /\ x.owner = rt[r].owner
        /\ x.store = rt[r].store /\ x \in RtWith(x.born)
    BY <1>0, <1>1, <2>1 DEF RtShape, RtWith, NoneOr
  <2>4. RtShape(x) /\ Knows(x)
    BY <1>0, <1>1, <2>2, <2>3 DEF RtShape, Knows
  <2>5. UNCHANGED <<records, files, adm, run, put, stale, lease>>
    BY <1>4 DEF SkipResume
  <2> QED
    BY <1>0, <1>1, <2>2, <2>3, <2>4, <2>5, RtStep
<1>5. CASE TakeOver(r)
  <2>1. PICK o : o = NewOwner
    OBVIOUS
  <2>2. o \in Owners /\ o \notin Taken /\ o # None /\ lease' = o
    BY <1>5, <2>1, OwnerIsNew DEF TakeOver
  <2>3. PICK x : x = [rt[r] EXCEPT !.pc = "own", !.owner = o]
    OBVIOUS
  <2>4. rt' = [rt EXCEPT ![r] = x] /\ rt[r].pc = "lease"
    BY <1>5, <2>1, <2>3 DEF TakeOver
  <2>5. /\ x.pc = "own" /\ x.rev = rt[r].rev /\ x.born = rt[r].born /\ x.m = rt[r].m /\ x.owner = o
        /\ x.store = rt[r].store /\ x \in RtWith(x.born)
    BY <1>0, <1>1, <2>2, <2>3 DEF RtShape, RtWith, NoneOr
  <2>6. RtShape(x) /\ Knows(x)
    BY <1>0, <1>1, <2>2, <2>4, <2>5 DEF RtShape, Knows
  <2>7. UNCHANGED <<records, files, adm, run, put, stale, skipped>> /\ lease' \in NoneOr(Owners)
    BY <1>5, <2>2 DEF TakeOver, history, NoneOr
  <2> QED
    BY <1>0, <1>1, <2>2, <2>4, <2>5, <2>6, <2>7, RtStep
<1>6. CASE Refresh(r)
  <2>1. RtShape(OffRuntime) /\ OffRuntime.pc = "off" /\ OffRuntime.m = None /\ OffRuntime.owner = None
    BY DEF OffRuntime, RtShape, RtWith, NoneOr
  <2>2. UNCHANGED <<records, files, adm, run, put, stale, lease, skipped>> /\ rt' = [rt EXCEPT ![r] = OffRuntime]
    BY <1>6 DEF Refresh, history, Activate
  <2> QED
    BY <1>1, <2>1, <2>2, RtStep
<1> QED
  BY <1>2, <1>3, <1>4, <1>5, <1>6

(* Finishing the uploads whose replica died: unless this runtime is of an earlier *)
(* revision, they are put in the store that serves.                               *)
LEMMA RuntimeRecovers ==
  ASSUME MigrationInv, NEW r \in Replicas, Recover(r)
  PROVE  MigrationInv'
<1> DEFINE orphans == {f \in ops : put[f].pc = "left"}
           next == IF StateOf(setting) = "running" THEN "lease" ELSE "ready"
<1>0. /\ RtShape(rt[r]) /\ rt[r].pc = "recover" /\ Knows(rt[r]) /\ rt[r].store \in Stores
      /\ Settings /\ orphans \subseteq Files /\ orphans \subseteq Uploads
  BY MigrationAssumption DEF Recover, MigrationInv, Shape, Settings, Actors, Contexts, RtShape
<1>1. /\ stored' = [stored EXCEPT ![rt[r].store] = @ \cup orphans] /\ rows' = rows \cup orphans
      /\ ops' = ops \ orphans /\ sessions' = sessions \ orphans
      /\ put' = [f \in Uploads |-> IF f \in orphans THEN [NoPut EXCEPT !.pc = "done"] ELSE put[f]]
      /\ UNCHANGED <<setting, active, rev, cleanup, lease, adm, run, skipped>>
      /\ stale' = IF orphans # {} /\ rt[r].rev # rev THEN stale \cup {"recovery"} ELSE stale
  BY DEF Recover, records, Note
<1>2. PICK m : m = IF next = "lease" THEN setting ELSE None
  OBVIOUS
<1>3. PICK x : x = [rt[r] EXCEPT !.pc = next, !.m = m]
  OBVIOUS
<1>4. rt' = [rt EXCEPT ![r] = x]
  BY <1>2, <1>3 DEF Recover
<1>5. next \in {"lease", "ready"} /\ m \in {None, setting} /\ (next = "lease" => m # None /\ m.state = "running")
  BY <1>2 DEF StateOf
<1> HIDE DEF next
<1>6. /\ x.pc = next /\ x.m = m /\ x.rev = rt[r].rev /\ x.store = rt[r].store /\ x.owner = rt[r].owner
      /\ x.born = rt[r].born /\ x \in RtWith(x.born)
  BY <1>0, <1>3, <1>5 DEF RtShape, RtWith, Settings, NoneOr
<1>7. RtShape(x)
  BY <1>0, <1>5, <1>6 DEF RtShape
<1>8. \A b \in Replicas : rt'[b] = IF b = r THEN x ELSE rt[b]
  BY <1>4 DEF MigrationInv, Shape, Actors
<1>9. PICK done : done = [NoPut EXCEPT !.pc = "done"]
  OBVIOUS
<1>10. done.pc = "done" /\ PutShape(done)
  BY <1>9 DEF NoPut, PutShape, PutWith, Putting, Storing
<1>11. \A f \in Uploads : put'[f] = IF f \in orphans THEN done ELSE put[f]
  BY <1>1, <1>9
<1> HIDE DEF orphans
<1>12. Shape'
  <2>1. Settings'
    BY <1>0, <1>1 DEF Settings
  <2>2. rt' = [b \in Replicas |-> rt'[b]] /\ put' = [f \in Uploads |-> put'[f]]
    BY <1>1, <1>4 DEF MigrationInv, Shape, Actors
  <2>3. (\A b \in Replicas : RtShape(rt[b]))'
    BY <1>7, <1>8 DEF MigrationInv, Shape, Actors, RtShape
  <2>4. (\A f \in Uploads : PutShape(put[f]))'
    BY <1>10, <1>11 DEF MigrationInv, Shape, Actors, PutShape, OfContext
  <2>5. (adm = [a \in Admins |-> adm[a]] /\ \A a \in Admins : CallShape(adm[a]))'
    BY <1>1 DEF MigrationInv, Shape, Actors, CallShape, OfContext
  <2>6. (run = [o \in Owners |-> run[o]] /\ \A o \in Owners : RunShape(run[o]))'
    BY <1>1 DEF MigrationInv, Shape, Actors, RunShape, OfContext
  <2> QED
    BY <2>1, <2>2, <2>3, <2>4, <2>5, <2>6 DEF Shape, Actors
<1>13. Contexts'
  BY <1>0, <1>1, <1>5, <1>6, <1>8, <1>10, <1>11 DEF MigrationInv, Contexts, Knows, Putting, Storing
<1>14. Coherent'
  <2>1. \A d \in Copies' : d \in Copies
    BY <1>1, <1>5, <1>6, <1>8 DEF Copies
  <2> QED
    BY <2>1, OldCopiesAgree DEF MigrationInv, SameAs
<1>15. \A b \in Replicas : rt'[b].owner = rt[b].owner
  BY <1>6, <1>8
<1>16. Apart'
  BY <1>1, <1>15 DEF MigrationInv, Apart
<1>17. RecordInv'
  <2>0. SUFFICES ASSUME ~Overwritten' PROVE (Unwritten /\ Calls /\ Runs /\ CleanupFits /\ RecordFits)'
    BY DEF RecordInv
  <2>1. ~Overwritten /\ Unwritten /\ Calls /\ Runs /\ CleanupFits /\ RecordFits
    BY <1>1, <2>0 DEF MigrationInv, RecordInv, Overwritten
  <2> QED
    BY <1>1, <1>15, <2>1 DEF Unwritten, Calls, CallFits, Runs, RunFits, InRecord, CleanupFits, RecordFits
<1>18. FilesInv'
  <2>0. SUFFICES ASSUME stale' = {}
                 PROVE  Puts' /\ (rows \subseteq stored[active])'
                        /\ \A b \in Owners : (run[b].pc \in PastDrain /\ Ours(run[b].m) => Copied(run[b]))'
    BY DEF FilesInv
  <2>1. stale = {} /\ (orphans = {} \/ rt[r].store = active)
    BY <1>0, <1>1, <2>0 DEF Knows
  <2>2. Puts /\ rows \subseteq stored[active]
    BY <2>1 DEF MigrationInv, FilesInv
  <2>3. (rows \subseteq stored[active])' /\ stored[active] \subseteq stored'[active]
    BY <1>0, <1>1, <2>1, <2>2 DEF Settings
  <2>4. ASSUME NEW f \in Uploads PROVE PutFits(f, put[f])'
    BY <1>1, <1>10, <1>11, <2>2, <2>3 DEF Puts, PutFits, Storing
  <2>5. ASSUME NEW b \in Owners, run[b].pc \in PastDrain, Ours(run[b].m)
        PROVE  Copied(run[b])'
    <3>1. Copied(run[b])
      BY <2>1, <2>5 DEF MigrationInv, FilesInv
    <3>2. orphans = {}
      BY <3>1 DEF Copied, Quiet, orphans
    <3> QED
      BY <1>0, <1>1, <1>11, <3>1, <3>2 DEF Copied, Quiet, Settings
  <2> QED
    BY <1>1, <2>3, <2>4, <2>5 DEF Puts, Ours
<1> QED
  BY <1>12, <1>13, <1>14, <1>16, <1>17, <1>18 DEF MigrationInv

-------------------------------------------------------------------------------
(* Cleaning up managed storage harms nothing: it neither serves nor is copied to. *)
LEMMA Cleaned ==
  ASSUME MigrationInv, NEW s, FinishCleanup(s), ~Overwritten => s = Managed,
         UNCHANGED <<active, rev, rows, sessions, ops, stale, skipped>>, lease' \in NoneOr(Owners)
  PROVE  /\ Settings'
         /\ setting' = None \/ \E d \in Copies : SameAs(setting', d)
         /\ ~Overwritten =>
              /\ RecordFits' /\ CleanupFits'
              /\ \A o \in Owners : InRecord(o)' => InRecord(o)
              /\ \A o \in Owners : run[o].pc \in Working /\ InRecord(o)' => setting'.state = "running"
         /\ stale = {} =>
              /\ rows \subseteq stored'[active]
              /\ \A f \in Uploads : put[f].pc = "commit" => f \in stored'[active]
              /\ \A o \in Owners : run'[o] = run[o] /\ run[o].pc \in PastDrain /\ Ours(run[o].m)' =>
                   Ours(run[o].m) /\ stored[run[o].m.dst] \subseteq stored'[run[o].m.dst]
<1>0. Settings /\ Coherent
  BY DEF MigrationInv, Shape
<1>1. stored' = [stored EXCEPT ![s] = {}] \/ UNCHANGED <<stored, cleanup, setting>>
  BY DEF FinishCleanup, Clear
<1>2. cleanup' \in {None, cleanup} /\ (cleanup = None => UNCHANGED <<stored, setting>>)
  BY DEF FinishCleanup
<1>3. \/ setting' = setting
      \/ setting # None /\ setting.state = "failed" /\ setting' = [setting EXCEPT !.state = "cancelled"]
  BY DEF FinishCleanup
<1>4. \/ setting' = setting
      \/ /\ setting # None /\ setting.state = "failed" /\ setting' \in Migration /\ setting' # None
         /\ setting'.state = "cancelled" /\ setting'.id = setting.id /\ setting'.owner = setting.owner
         /\ setting'.src = setting.src /\ setting'.dst = setting.dst
  BY <1>0, <1>3, MigrationAssumption DEF Settings, NoneOr, Migration
<1>5. Settings'
  <2>1. stored' \in [Stores -> SUBSET Files]
    BY <1>0, <1>1 DEF Settings
  <2>2. setting' \in NoneOr(Migration) /\ cleanup' \in NoneOr([abandons : NoneOr(Owners)])
    BY <1>0, <1>2, <1>4 DEF Settings, NoneOr
  <2> QED
    BY <1>0, <2>1, <2>2 DEF Settings
<1>6. setting' = None \/ \E d \in Copies : SameAs(setting', d)
  BY <1>4 DEF SameAs, Copies
<1>7. ASSUME ~Overwritten
      PROVE  /\ RecordFits' /\ CleanupFits'
             /\ \A o \in Owners : InRecord(o)' => InRecord(o)
             /\ \A o \in Owners : run[o].pc \in Working /\ InRecord(o)' => setting'.state = "running"
  <2>1. RecordFits /\ CleanupFits /\ Runs
    BY <1>7 DEF MigrationInv, RecordInv
  <2>2. RecordFits'
    BY <1>4, <1>7, <2>1 DEF RecordFits
  <2>3. CleanupFits'
    BY <1>2, <1>4, <2>1 DEF CleanupFits
  <2>4. \A o \in Owners : InRecord(o)' => InRecord(o)
    BY <1>4 DEF InRecord
  <2>5. ASSUME NEW o \in Owners, run[o].pc \in Working, InRecord(o)' PROVE setting'.state = "running"
    <3>1. InRecord(o) /\ setting.state = "running"
      BY <2>1, <2>4, <2>5 DEF Runs, RunFits
    <3> QED
      BY <1>4, <3>1
  <2> QED
    BY <2>2, <2>3, <2>4, <2>5
<1>8. ASSUME stale = {}
      PROVE  /\ rows \subseteq stored'[active]
             /\ \A f \in Uploads : put[f].pc = "commit" => f \in stored'[active]
             /\ \A o \in Owners : run'[o] = run[o] /\ run[o].pc \in PastDrain /\ Ours(run[o].m)' =>
                  Ours(run[o].m) /\ stored[run[o].m.dst] \subseteq stored'[run[o].m.dst]
  <2>1. ~Overwritten /\ CleanupFits /\ Runs /\ Puts /\ rows \subseteq stored[active] /\ s = Managed
    BY <1>8 DEF MigrationInv, RecordInv, FilesInv, Overwritten
  <2>2. \A t \in Stores : t # Managed \/ cleanup = None => stored'[t] = stored[t]
    BY <1>0, <1>1, <1>2, <2>1 DEF Settings
  <2>3. stored'[active] = stored[active]
    BY <1>0, <2>1, <2>2 DEF CleanupFits, Settings
  <2>4. \A f \in Uploads : put[f].pc = "commit" => f \in stored'[active]
    BY <2>1, <2>3 DEF Puts, PutFits
  <2>5. ASSUME NEW o \in Owners, run'[o] = run[o], run[o].pc \in PastDrain, Ours(run[o].m)'
        PROVE  Ours(run[o].m) /\ stored[run[o].m.dst] \subseteq stored'[run[o].m.dst]
    <3>1. Ours(run[o].m)
      BY <1>4, <2>5 DEF Ours
    <3>2. run[o].m.owner = o /\ InRecord(o)
      BY <2>1, <2>5, <3>1 DEF Runs, RunFits, Working, PastDrain, Ours, InRecord
    <3>3. setting.state = "running"
      BY <2>1, <2>5, <3>2 DEF Runs, RunFits, Working
    <3>4. run[o].m # None /\ run[o].m.dst \in Stores
      BY <2>5 DEF MigrationInv, Shape, Actors, RunShape, RunWith, NoneOr, PastDrain, Migration
    <3>5. run[o].m.dst = setting.dst
      BY <1>0, <3>1, <3>4 DEF Coherent, Copies, Ours
    <3> QED
      BY <2>1, <2>2, <3>1, <3>3, <3>4, <3>5 DEF CleanupFits, Ours
  <2> QED
    BY <2>1, <2>3, <2>4, <2>5
<1> QED
  BY <1>5, <1>6, <1>7, <1>8

(* The actors that a step leaves alone wind down trivially. *)
LEMMA Still ==
  ASSUME MigrationInv
  PROVE  /\ UNCHANGED rt => rt' = [r \in Replicas |-> rt'[r]] /\ \A r \in Replicas : RtDown(r)
         /\ UNCHANGED adm => adm' = [a \in Admins |-> adm'[a]] /\ \A a \in Admins : adm'[a] \in {adm[a], NoCall}
         /\ UNCHANGED run => run' = [o \in Owners |-> run'[o]] /\ \A o \in Owners : RunDown(o)
         /\ UNCHANGED put => put' = [f \in Uploads |-> put'[f]] /\ \A f \in Uploads : PutDown(f)
         /\ \A a \in Admins : Return(a) => adm' = [b \in Admins |-> adm'[b]] /\ \A b \in Admins : adm'[b] \in {adm[b], NoCall}
         /\ \A r : Activate(r) => rt' = [b \in Replicas |-> rt'[b]] /\ \A b \in Replicas : RtDown(b)
         /\ \A o \in Owners, pc \in Closing : Goto(o, pc) /\ run[o].pc # "none" =>
              run' = [b \in Owners |-> run'[b]] /\ \A b \in Owners : RunDown(b)
<1>1. /\ rt = [r \in Replicas |-> rt[r]] /\ adm = [a \in Admins |-> adm[a]]
      /\ run = [o \in Owners |-> run[o]] /\ put = [f \in Uploads |-> put[f]]
  BY DEF MigrationInv, Shape, Actors
<1> HIDE DEF OffRuntime, NoCall, NoRun, NoPut
<1>2. /\ UNCHANGED rt => rt' = [r \in Replicas |-> rt'[r]] /\ \A r \in Replicas : RtDown(r)
      /\ UNCHANGED adm => adm' = [a \in Admins |-> adm'[a]] /\ \A a \in Admins : adm'[a] \in {adm[a], NoCall}
  BY <1>1 DEF RtDown
<1>3. /\ UNCHANGED run => run' = [o \in Owners |-> run'[o]] /\ \A o \in Owners : RunDown(o)
      /\ UNCHANGED put => put' = [f \in Uploads |-> put'[f]] /\ \A f \in Uploads : PutDown(f)
  BY <1>1 DEF RunDown, PutDown
<1>4. \A a \in Admins : Return(a) => adm' = [b \in Admins |-> adm'[b]] /\ \A b \in Admins : adm'[b] \in {adm[b], NoCall}
  BY <1>1 DEF Return
<1>5. \A r : Activate(r) => rt' = [b \in Replicas |-> rt'[b]] /\ \A b \in Replicas : RtDown(b)
  BY <1>1 DEF Activate, RtDown
<1>6. ASSUME NEW o \in Owners, NEW pc \in Closing, Goto(o, pc), run[o].pc # "none"
      PROVE  run' = [b \in Owners |-> run'[b]] /\ \A b \in Owners : RunDown(b)
  <2>1. \A b \in Owners : run'[b] = IF b = o THEN [run[o] EXCEPT !.pc = pc] ELSE run[b]
    BY <1>1, <1>6 DEF Goto
  <2> QED
    BY <1>1, <1>6, <2>1 DEF Goto, RunDown
<1> QED
  BY <1>2, <1>3, <1>4, <1>5, <1>6

(* A run that is left alone or ends is cleaning up what it was. *)
LEMMA TidiesManaged ==
  ASSUME MigrationInv, ~Overwritten, \A o \in Owners : run'[o] = run[o] \/ run'[o].pc \in {"none", "activate"}
  PROVE  \A o \in Owners : /\ run'[o].pc = "tidy" => run[o].ctx.store = Managed
                           /\ run'[o].pc = "drop" => run[o].m.dst = Managed
BY DEF MigrationInv, RecordInv, Runs, RunFits

(* Cleanups: of a new runtime, of a run and of a call that abandons. *)
LEMMA CleanupKeeps ==
  ASSUME MigrationInv, NEW s, FinishCleanup(s), ~Overwritten => s = Managed, WindDown,
         UNCHANGED <<active, rev, rows, sessions, ops, stale, skipped>>, lease' \in NoneOr(Owners),
         \A o \in Owners : run'[o] = run[o] \/ run'[o].pc \in {"none", "activate"}
  PROVE  MigrationInv'
<1>1. Overwritten' <=> Overwritten
  BY DEF Overwritten
<1>2. Settings' /\ (setting' = None \/ \E d \in Copies : SameAs(setting', d))
  BY Cleaned
<1>3. ASSUME ~Overwritten'
      PROVE  /\ RecordFits' /\ CleanupFits'
             /\ \A o \in Owners : InRecord(o)' => InRecord(o)
             /\ \A o \in Owners : run[o].pc \in Working /\ run'[o] = run[o] /\ InRecord(o)' => setting'.state = "running"
             /\ \A o \in Owners : /\ run'[o].pc = "tidy" => run[o].ctx.store = Managed
                                  /\ run'[o].pc = "drop" => run[o].m.dst = Managed
  BY <1>1, <1>3, Cleaned, TidiesManaged
<1>4. ASSUME stale' = {}
      PROVE  /\ rows \subseteq stored'[active']
             /\ \A f \in Uploads : put[f].pc = "commit" /\ rev' = rev => f \in stored'[active']
             /\ \A o \in Owners : run'[o] = run[o] /\ run[o].pc \in PastDrain /\ Ours(run[o].m)' =>
                  Ours(run[o].m) /\ stored[run[o].m.dst] \subseteq stored'[run[o].m.dst]
  BY <1>4, Cleaned
<1> QED
  BY <1>2, <1>3, <1>4, WindStep

LEMMA CleanupSteps ==
  ASSUME MigrationInv, (\E r \in Replicas : RetryCleanup(r)) \/ (\E o \in Owners : Tidy(o)) \/ (\E a \in Admins : Abandon(a))
  PROVE  MigrationInv'
<1>0. lease \in NoneOr(Owners)
  BY DEF MigrationInv, Shape, Settings
<1>1. ASSUME NEW r \in Replicas, RetryCleanup(r) PROVE MigrationInv'
  <2>1. rt' = [b \in Replicas |-> rt'[b]] /\ \A b \in Replicas : RtDown(b)
    <3>1. rt = [b \in Replicas |-> rt[b]]
      BY DEF MigrationInv, Shape, Actors
    <3>2. rt' = [rt EXCEPT ![r].pc = "recover"] /\ rt[r].pc = "tidy"
      BY <1>1 DEF RetryCleanup
    <3>3. rt' = [b \in Replicas |-> rt'[b]] /\ \A b \in Replicas : rt'[b] = IF b = r THEN [rt[r] EXCEPT !.pc = "recover"] ELSE rt[b]
      BY <3>1, <3>2
    <3> QED
      BY <3>2, <3>3 DEF RtDown
  <2>2. WindDown /\ run' = run
    BY <1>1, <2>1, Still DEF RetryCleanup, WindDown
  <2>3. FinishCleanup(Managed) /\ UNCHANGED <<active, rev, rows, sessions, ops, stale, skipped, lease>>
    BY <1>1 DEF RetryCleanup, history
  <2> QED
    BY <1>0, <2>2, <2>3, CleanupKeeps
<1>2. ASSUME NEW o \in Owners, Tidy(o) PROVE MigrationInv'
  <2>1. PICK s : s = IF run[o].pc = "tidy" THEN run[o].ctx.store ELSE run[o].m.dst
    OBVIOUS
  <2>2. ~Overwritten => s = Managed
    BY <1>2, <2>1 DEF Tidy, MigrationInv, RecordInv, Runs, RunFits
  <2>3. run[o].pc # "none" /\ Goto(o, "activate") /\ "activate" \in Closing
    BY <1>2 DEF Tidy, Closing
  <2>4. WindDown
    BY <1>2, <2>3, Still DEF Tidy, WindDown
  <2>5. \A b \in Owners : run'[b] = run[b] \/ run'[b].pc \in {"none", "activate"}
    BY <2>3 DEF Goto, MigrationInv, Shape, Actors, RunShape, RunWith
  <2>6. FinishCleanup(s) /\ UNCHANGED <<active, rev, rows, sessions, ops, stale, skipped, lease>>
    BY <1>2, <2>1 DEF Tidy, history
  <2> QED
    BY <1>0, <2>2, <2>4, <2>5, <2>6, CleanupKeeps
<1>3. ASSUME NEW a \in Admins, Abandon(a) PROVE MigrationInv'
  <2>1. rt' = [r \in Replicas |-> rt'[r]] /\ \A r \in Replicas : RtDown(r)
    BY <1>3, Still DEF Abandon
  <2>2. WindDown /\ run' = run
    BY <1>3, <2>1, Still DEF Abandon, WindDown
  <2>3. FinishCleanup(Managed) /\ UNCHANGED <<active, rev, rows, sessions, ops, stale, skipped>>
    BY <1>3 DEF Abandon, history
  <2>4. lease' \in NoneOr(Owners)
    BY <1>0, <1>3 DEF Abandon, Release, NoneOr
  <2> QED
    BY <2>2, <2>3, <2>4, CleanupKeeps
<1> QED
  BY <1>1, <1>2, <1>3

(* An actor ends, or dies with its replica. *)
LEMMA ActorEnds ==
  ASSUME MigrationInv, WindDown, UNCHANGED <<records, files, stale>>, lease' \in NoneOr(Owners), skipped' \in BOOLEAN,
         \A o \in Owners : run'[o] = run[o] \/ run'[o].pc \in {"none", "activate"}
  PROVE  MigrationInv'
<1> USE DEF records, files
<1>1. Settings' /\ (setting' = None \/ \E d \in Copies : SameAs(setting', d))
  BY DEF MigrationInv, Shape, Settings, Copies, SameAs
<1>2. ASSUME ~Overwritten'
      PROVE  /\ RecordFits' /\ CleanupFits'
             /\ \A o \in Owners : InRecord(o)' => InRecord(o)
             /\ \A o \in Owners : run[o].pc \in Working /\ run'[o] = run[o] /\ InRecord(o)' => setting'.state = "running"
             /\ \A o \in Owners : /\ run'[o].pc = "tidy" => run[o].ctx.store = Managed
                                  /\ run'[o].pc = "drop" => run[o].m.dst = Managed
  <2>1. ~Overwritten /\ RecordFits /\ CleanupFits /\ Runs
    BY <1>2 DEF Overwritten, MigrationInv, RecordInv
  <2>2. \A o \in Owners : InRecord(o)' <=> InRecord(o)
    BY DEF InRecord
  <2> QED
    BY <2>1, <2>2, TidiesManaged DEF Overwritten, RecordFits, CleanupFits, Runs, RunFits
<1>3. ASSUME stale' = {}
      PROVE  /\ rows \subseteq stored'[active']
             /\ \A f \in Uploads : put[f].pc = "commit" /\ rev' = rev => f \in stored'[active']
             /\ \A o \in Owners : run'[o] = run[o] /\ run[o].pc \in PastDrain /\ Ours(run[o].m)' =>
                  Ours(run[o].m) /\ stored[run[o].m.dst] \subseteq stored'[run[o].m.dst]
  BY <1>3 DEF MigrationInv, FilesInv, Puts, PutFits, Ours
<1> QED
  BY <1>1, <1>2, <1>3, WindStep

(* A run ends, or gives its cleanup up; a replica dies. *)
LEMMA EndSteps ==
  ASSUME MigrationInv,
         \/ \E o \in Owners : End(o) \/ TidyFails(o)
         \/ \E r \in Replicas : Crash(r)
  PROVE  MigrationInv'
<1>0. /\ lease \in NoneOr(Owners) /\ skipped \in BOOLEAN
      /\ rt = [r \in Replicas |-> rt[r]] /\ adm = [a \in Admins |-> adm[a]]
      /\ run = [o \in Owners |-> run[o]] /\ put = [f \in Uploads |-> put[f]]
      /\ \A o \in Owners : RunShape(run[o])
  BY DEF MigrationInv, Shape, Settings, Actors
<1>1. ASSUME NEW o \in Owners, End(o) PROVE MigrationInv'
  <2>1. rt' = [r \in Replicas |-> rt'[r]] /\ \A r \in Replicas : RtDown(r)
    BY <1>1, Still DEF End
  <2>2. PICK n : n = NoRun
    OBVIOUS
  <2>3. run' = [b \in Owners |-> run'[b]] /\ \A b \in Owners : run'[b] = IF b = o THEN n ELSE run[b]
    BY <1>0, <1>1, <2>2 DEF End
  <2>4. n.pc = "none"
    BY <2>2 DEF NoRun
  <2>5. \A b \in Owners : RunDown(b)
    BY <2>2, <2>3 DEF RunDown
  <2>6. WindDown
    BY <1>1, <2>1, <2>3, <2>5, Still DEF End, WindDown
  <2>7. UNCHANGED <<records, files, stale, skipped>> /\ lease' \in NoneOr(Owners)
    BY <1>0, <1>1 DEF End, history, Release, NoneOr
  <2> QED
    BY <1>0, <2>3, <2>4, <2>6, <2>7, ActorEnds
<1>2. ASSUME NEW o \in Owners, TidyFails(o) PROVE MigrationInv'
  <2>1. run[o].pc # "none" /\ Goto(o, "activate") /\ "activate" \in Closing
    BY <1>2 DEF TidyFails, Closing
  <2>2. WindDown
    BY <1>2, <2>1, Still DEF TidyFails, WindDown
  <2>3. \A b \in Owners : run'[b] = run[b] \/ run'[b].pc \in {"none", "activate"}
    BY <1>0, <2>1 DEF Goto, RunShape, RunWith
  <2>4. UNCHANGED <<records, files, stale, skipped, lease>>
    BY <1>2 DEF TidyFails
  <2> QED
    BY <1>0, <2>2, <2>3, <2>4, ActorEnds
<1>3. ASSUME NEW r \in Replicas, Crash(r) PROVE MigrationInv'
  <2>1. rt' = [b \in Replicas |-> rt'[b]] /\ \A b \in Replicas : RtDown(b)
    BY <1>3, Still DEF Crash
  <2>2. adm' = [a \in Admins |-> adm'[a]] /\ \A a \in Admins : adm'[a] \in {adm[a], NoCall}
    <3> HIDE DEF NoCall
    <3> QED
      BY <1>3 DEF Crash
  <2>3. run' = [o \in Owners |-> run'[o]] /\ \A o \in Owners : run'[o] \in {run[o], NoRun}
    <3> HIDE DEF NoRun
    <3> QED
      BY <1>3 DEF Crash
  <2>4. put' = [f \in Uploads |-> put'[f]] /\ \A f \in Uploads : PutDown(f)
    <3>1. put' = [f \in Uploads |-> IF put[f].ctx = None \/ put[f].ctx.at # r THEN put[f]
                                    ELSE [NoPut EXCEPT !.pc = IF f \in sessions THEN "left" ELSE "idle"]]
      BY <1>3 DEF Crash
    <3> HIDE DEF NoPut
    <3> QED
      BY <3>1 DEF PutDown
  <2>5. WindDown
    BY <2>1, <2>2, <2>3, <2>4 DEF WindDown, RunDown
  <2>6. NoRun.pc = "none"
    BY DEF NoRun
  <2>7. UNCHANGED <<records, files, stale, skipped, lease>>
    BY <1>3 DEF Crash
  <2> QED
    BY <1>0, <2>3, <2>5, <2>6, <2>7, ActorEnds
<1> QED
  BY <1>1, <1>2, <1>3

-------------------------------------------------------------------------------
(* The record of a run that owns it. *)
LEMMA OwnRecord ==
  ASSUME MigrationInv, ~Overwritten, NEW o \in Owners, run[o].pc \in Working, Ours(run[o].m), run[o].m.owner = o
  PROVE  /\ setting # None /\ setting.id = run[o].m.id /\ setting.owner = o /\ setting.state = "running"
         /\ setting.src = run[o].m.src /\ setting.dst = run[o].m.dst
         /\ active = run[o].m.src /\ run[o].m.src # run[o].m.dst
<1>1. setting # None /\ setting.id = run[o].m.id /\ setting.owner = o
  BY DEF Ours
<1>2. setting.state = "running" /\ RecordFits
  BY <1>1 DEF MigrationInv, RecordInv, Runs, RunFits, InRecord
<1>3. run[o].m # None
  BY DEF MigrationInv, Shape, Actors, RunShape, Working, PastDrain
<1>4. setting.src = run[o].m.src /\ setting.dst = run[o].m.dst /\ run[o].m.src # run[o].m.dst
  BY <1>1, <1>3 DEF MigrationInv, Coherent, Copies
<1> QED
  BY <1>1, <1>2, <1>4 DEF RecordFits

(* A call writes the record: the one that it read, while it is the current one, or none. *)
LEMMA CallWrites ==
  ASSUME MigrationInv, NEW a \in Admins, WriteCancel(a) \/ Delete(a)
  PROVE  MigrationInv'
<1>0. /\ Settings /\ CallShape(adm[a]) /\ Coherent /\ (adm[a].m # None => adm[a].m \in Copies /\ adm[a].m \in Migration)
      /\ (setting # None => setting \in Copies)
  BY DEF MigrationInv, Shape, Actors, Copies, CallShape, CallWith, NoneOr
<1>1. /\ UNCHANGED <<active, rev, cleanup, files, lease, rt, run, put, skipped>> /\ Return(a)
      /\ stale' \in {stale, stale \cup {"cancel"}}
  BY DEF WriteCancel, Delete, Note, history
<1>2. WindDown
  BY <1>1, Still DEF WindDown
<1>3. \/ setting' = setting
      \/ setting' = None
      \/ /\ setting' \in Migration /\ setting' # None /\ SameAs(setting', adm[a].m) /\ adm[a].m \in Copies
         /\ ~Overwritten' => /\ setting # None /\ setting'.id = setting.id /\ setting'.owner = setting.owner
                             /\ setting'.state = setting.state
                             /\ setting'.src = setting.src /\ setting'.dst = setting.dst
  <2>1. CASE Delete(a)
    BY <2>1 DEF Delete
  <2>2. CASE WriteCancel(a) /\ ~Refused(a)
    <3>1. adm[a].m # None /\ setting' = [adm[a].m EXCEPT !.cancel = TRUE] /\ Note(Overwrites(adm[a].m), "cancel")
      BY <1>0, <2>2 DEF WriteCancel, CallShape
    <3>2. /\ setting' \in Migration /\ setting'.id = adm[a].m.id /\ setting'.owner = adm[a].m.owner
          /\ setting'.state = adm[a].m.state /\ setting'.src = adm[a].m.src /\ setting'.dst = adm[a].m.dst
      BY <1>0, <3>1 DEF Migration
    <3>3. ~Overwritten' => ~Overwrites(adm[a].m)
      BY <3>1 DEF Note, Overwritten
    <3>4. ~Overwritten' => /\ setting # None /\ setting.id = adm[a].m.id /\ setting.owner = adm[a].m.owner
                           /\ setting.state = adm[a].m.state
      BY <3>3 DEF Overwrites
    <3>5. ~Overwritten' => setting.src = adm[a].m.src /\ setting.dst = adm[a].m.dst
      BY <1>0, <3>1, <3>4 DEF Coherent
    <3> QED
      BY <1>0, <3>1, <3>2, <3>4, <3>5, MigrationAssumption DEF SameAs
  <2>3. CASE WriteCancel(a) /\ Refused(a)
    BY <2>3 DEF WriteCancel
  <2> QED
    BY <2>1, <2>2, <2>3
<1>4. Settings'
  BY <1>0, <1>1, <1>3 DEF Settings, files, NoneOr
<1>5. setting' = None \/ \E d \in Copies : SameAs(setting', d)
  BY <1>0, <1>3 DEF SameAs, Copies
<1>6. ASSUME ~Overwritten'
      PROVE  /\ RecordFits' /\ CleanupFits'
             /\ \A o \in Owners : InRecord(o)' => InRecord(o)
             /\ \A o \in Owners : run[o].pc \in Working /\ run'[o] = run[o] /\ InRecord(o)' => setting'.state = "running"
             /\ \A o \in Owners : /\ run'[o].pc = "tidy" => run[o].ctx.store = Managed
                                  /\ run'[o].pc = "drop" => run[o].m.dst = Managed
  <2>1. ~Overwritten /\ RecordFits /\ CleanupFits /\ Runs
    BY <1>1, <1>6 DEF Overwritten, MigrationInv, RecordInv
  <2>2. RecordFits' /\ CleanupFits'
    BY <1>1, <1>3, <1>6, <2>1 DEF RecordFits, CleanupFits
  <2>3. \A o \in Owners : InRecord(o)' => InRecord(o) /\ setting'.state = setting.state
    BY <1>3, <1>6 DEF InRecord
  <2> QED
    BY <1>1, <2>1, <2>2, <2>3, TidiesManaged DEF Runs, RunFits
<1>7. ASSUME stale' = {}
      PROVE  /\ rows \subseteq stored'[active']
             /\ \A f \in Uploads : put[f].pc = "commit" /\ rev' = rev => f \in stored'[active']
             /\ \A o \in Owners : run'[o] = run[o] /\ run[o].pc \in PastDrain /\ Ours(run[o].m)' =>
                  Ours(run[o].m) /\ stored[run[o].m.dst] \subseteq stored'[run[o].m.dst]
  <2>1. stale = {} /\ ~Overwritten'
    BY <1>1, <1>7 DEF Overwritten
  <2> QED
    BY <1>1, <1>3, <2>1 DEF MigrationInv, FilesInv, Puts, PutFits, Ours, files
<1> QED
  BY <1>1, <1>2, <1>4, <1>5, <1>6, <1>7, WindStep DEF files

(* A run ends its migration: it has completed, been cancelled or failed. *)
LEMMA RunConcludes ==
  ASSUME MigrationInv, NEW o \in Owners, Switch(o) \/ WriteCancelled(o) \/ WriteFailed(o)
  PROVE  MigrationInv'
<1> DEFINE m == run[o].m
<1>0. /\ Settings /\ RunShape(run[o]) /\ run[o].pc \in {"switch", "cancel", "fail"} /\ m # None /\ m \in Migration
      /\ m \in Copies /\ run[o].pc \in Working /\ rev \in Nat /\ run = [b \in Owners |-> run[b]]
  BY DEF MigrationInv, Shape, Actors, Settings, RunShape, RunWith, Switch, WriteCancelled, WriteFailed, Working,
         PastDrain, NoneOr, Copies
<1>1. PICK pc \in Closing : Goto(o, pc)
  BY DEF Switch, WriteCancelled, WriteFailed, Closing
<1>2. run' = [b \in Owners |-> run'[b]] /\ \A b \in Owners : run'[b] = IF b = o THEN [run[o] EXCEPT !.pc = pc] ELSE run[b]
  BY <1>0, <1>1 DEF Goto
<1>3. run'[o].pc = pc /\ run'[o] # run[o]
  BY <1>0, <1>2 DEF RunShape, RunWith, Closing
<1>4. /\ UNCHANGED <<files, lease, rt, adm, put, skipped>>
      /\ stale' \in {stale, stale \cup {"run"}}
      /\ (~Overwritten' => ~Overwritten /\ Ours(m) /\ (run[o].pc = "cancel" => m.owner = o))
  BY <1>0 DEF Switch, WriteCancelled, WriteFailed, Note, Overwritten
<1>5. WindDown
  <2>1. run[o].pc # "none"
    BY <1>0
  <2> QED
    BY <1>1, <1>4, <2>1, Still DEF WindDown
<1>6. \/ /\ run[o].pc = "switch" /\ setting' = [m EXCEPT !.state = "completed"] /\ active' = m.dst /\ rev' = rev + 1
         /\ cleanup' = (IF m.src = Managed /\ m.dst # Managed THEN ReleaseMark ELSE cleanup)
         /\ pc = (IF m.src = Managed /\ m.dst # Managed THEN "tidy" ELSE "activate")
      \/ /\ run[o].pc = "cancel" /\ setting' = m /\ active' = active /\ rev' = rev
         /\ cleanup' = (IF m.dst = Managed /\ m.src # Managed THEN ReleaseMark ELSE cleanup)
         /\ pc = (IF m.dst = Managed /\ m.src # Managed THEN "drop" ELSE "activate")
      \/ /\ run[o].pc = "fail" /\ setting' = m /\ active' = active /\ rev' = rev /\ cleanup' = cleanup /\ pc = "activate"
  <2>1. \A x \in Closing : Goto(o, x) => x = pc
    <3> SUFFICES ASSUME NEW x \in Closing, Goto(o, x) PROVE x = pc
      OBVIOUS
    <3>1. run'[o] = [run[o] EXCEPT !.pc = x]
      BY <1>0 DEF Goto
    <3> QED
      BY <1>0, <1>2, <3>1 DEF RunShape, RunWith
  <2>2. CASE Switch(o)
    BY <2>1, <2>2 DEF Switch, Closing
  <2>3. CASE WriteCancelled(o)
    BY <2>1, <2>3 DEF WriteCancelled, Closing
  <2>4. CASE WriteFailed(o)
    BY <2>1, <2>4 DEF WriteFailed, Closing
  <2> QED
    BY <2>2, <2>3, <2>4
<1>7. /\ setting' \in Migration /\ setting' # None /\ SameAs(setting', m) /\ setting'.owner = m.owner
      /\ setting'.src = m.src /\ setting'.dst = m.dst /\ setting'.id = m.id
      /\ setting'.state = IF run[o].pc = "switch" THEN "completed" ELSE m.state
      /\ run[o].pc = "cancel" => m.state = "cancelled"
      /\ run[o].pc = "fail" => m.state = "failed"
  <2>1. PICK done : done = [m EXCEPT !.state = "completed"]
    OBVIOUS
  <2>2. /\ done \in Migration /\ done.id = m.id /\ done.owner = m.owner /\ done.src = m.src /\ done.dst = m.dst
        /\ done.state = "completed"
    BY <1>0, <2>1 DEF Migration
  <2> HIDE DEF m
  <2>3. setting' = IF run[o].pc = "switch" THEN done ELSE m
    BY <1>6, <2>1
  <2>4. setting' \in Migration
    BY <1>0, <2>2, <2>3
  <2>5. /\ setting'.owner = m.owner /\ setting'.src = m.src /\ setting'.dst = m.dst /\ setting'.id = m.id
        /\ setting'.state = IF run[o].pc = "switch" THEN "completed" ELSE m.state
    BY <2>2, <2>3
  <2> QED
    BY <1>0, <2>4, <2>5, MigrationAssumption DEF SameAs, RunShape, m
<1>9. Settings'
  <2>1. ReleaseMark \in [abandons : NoneOr(Owners)]
    BY DEF ReleaseMark, NoneOr
  <2>2. cleanup' \in NoneOr([abandons : NoneOr(Owners)]) /\ active' \in Stores /\ rev' \in Nat
    BY <1>0, <1>6, <2>1 DEF Settings, Migration, NoneOr
  <2> QED
    BY <1>0, <1>4, <1>7, <2>2 DEF Settings, files, NoneOr
<1>10. ASSUME ~Overwritten'
       PROVE  /\ RecordFits /\ CleanupFits /\ Runs /\ ~Overwritten
              /\ setting # None /\ setting.id = m.id /\ setting.owner = o /\ m.owner = o /\ setting.state = "running"
              /\ setting.src = m.src /\ setting.dst = m.dst /\ active = m.src /\ m.src # m.dst
              /\ (run[o].pc = "switch" => m.src = run[o].ctx.store)
  <2>1. ~Overwritten /\ Ours(m) /\ (run[o].pc = "cancel" => m.owner = o)
    BY <1>4, <1>10
  <2>2. RecordFits /\ CleanupFits /\ Runs
    BY <2>1 DEF MigrationInv, RecordInv
  <2>3. m.owner = o /\ (run[o].pc = "switch" => m.src = run[o].ctx.store)
    BY <1>0, <2>1, <2>2 DEF Runs, RunFits
  <2> QED
    BY <1>0, <2>1, <2>2, <2>3, OwnRecord
<1>11. ASSUME ~Overwritten'
       PROVE  /\ RecordFits' /\ CleanupFits'
              /\ \A b \in Owners : InRecord(b)' => InRecord(b)
              /\ \A b \in Owners : run[b].pc \in Working /\ run'[b] = run[b] /\ InRecord(b)' => setting'.state = "running"
              /\ \A b \in Owners : /\ run'[b].pc = "tidy" => run[b].ctx.store = Managed
                                   /\ run'[b].pc = "drop" => run[b].m.dst = Managed
  <2>1. RecordFits'
    BY <1>6, <1>7, <1>10, <1>11 DEF RecordFits
  <2>2. CleanupFits'
    BY <1>6, <1>7, <1>10, <1>11 DEF CleanupFits
  <2>3. \A b \in Owners : InRecord(b)' => b = o /\ InRecord(b)
    BY <1>7, <1>10, <1>11 DEF InRecord
  <2>4. ASSUME NEW b \in Owners
        PROVE  /\ run'[b].pc = "tidy" => run[b].ctx.store = Managed
               /\ run'[b].pc = "drop" => run[b].m.dst = Managed
    <3>1. CASE b = o
      BY <1>3, <1>6, <1>10, <1>11, <3>1
    <3>2. CASE b # o
      BY <1>2, <1>10, <1>11, <3>2 DEF Runs, RunFits
    <3> QED
      BY <3>1, <3>2
  <2> QED
    BY <1>3, <2>1, <2>2, <2>3, <2>4
<1>12. ASSUME stale' = {}
       PROVE  /\ rows \subseteq stored'[active']
              /\ rev' = rev \/ Quiet
              /\ \A f \in Uploads : put[f].pc = "commit" /\ rev' = rev => f \in stored'[active']
              /\ \A b \in Owners : run'[b] = run[b] /\ run[b].pc \in PastDrain /\ Ours(run[b].m)' =>
                   Ours(run[b].m) /\ stored[run[b].m.dst] \subseteq stored'[run[b].m.dst]
  <2>1. stale = {} /\ ~Overwritten'
    BY <1>4, <1>12 DEF Overwritten
  <2>2. FilesInv /\ stored' = stored /\ rows' = rows
    BY <1>4 DEF MigrationInv, files
  <2>3. run[o].pc = "switch" => Copied(run[o])
    BY <1>0, <1>10, <2>1, <2>2 DEF FilesInv, PastDrain, Ours
  <2>4. rows \subseteq stored'[active'] /\ (rev' = rev \/ Quiet)
    BY <1>6, <2>1, <2>2, <2>3 DEF FilesInv, Copied
  <2>5. \A f \in Uploads : put[f].pc = "commit" /\ rev' = rev => f \in stored'[active']
    BY <1>0, <1>6, <2>1, <2>2 DEF FilesInv, Puts, PutFits
  <2>6. ASSUME NEW b \in Owners, run'[b] = run[b], run[b].pc \in PastDrain, Ours(run[b].m)' PROVE FALSE
    <3>1. run[b].m.owner = b
      BY <1>10, <2>1, <2>6 DEF Runs, RunFits, Working, PastDrain
    <3>2. setting'.owner = run[b].m.owner
      BY <2>6 DEF Ours
    <3> QED
      BY <1>3, <1>7, <1>10, <2>1, <2>6, <3>1, <3>2
  <2> QED
    BY <2>4, <2>5, <2>6
<1> QED
  <2>1. setting' = None \/ \E d \in Copies : SameAs(setting', d)
    BY <1>0, <1>7
  <2>2. UNCHANGED <<rows, sessions, ops>> /\ stale \subseteq stale' /\ (\/ rev' = rev /\ active' = active
                                                                       \/ rev' > rev)
    BY <1>0, <1>4, <1>6 DEF files
  <2> QED
    BY <1>5, <1>9, <1>11, <1>12, <2>1, <2>2, WindStep

-------------------------------------------------------------------------------
(* A run that goes on with its migration. *)
GoingOn == Working \ {"cancel", "fail"}
LEMMA RunGoes ==
  ASSUME MigrationInv, NEW o \in Owners, NEW x, run' = [run EXCEPT ![o] = x],
         UNCHANGED <<records, rows, sessions, ops, rt, adm, put, stale>>,
         stored' \in [Stores -> SUBSET Files], \A s \in Stores : stored[s] \subseteq stored'[s],
         lease' \in NoneOr(Owners), skipped' \in BOOLEAN,
         RunShape(x), run[o].pc \in GoingOn, x.pc \in GoingOn \cup {"end"}, x.ctx = run[o].ctx,
         SameAs(x.m, run[o].m), x.m.owner = run[o].m.owner, x.m.state = run[o].m.state,
         stale = {} /\ x.pc \in PastDrain /\ Ours(x.m) => Copied(x)'
  PROVE  MigrationInv'
<1>1. run[o].pc # "none" /\ run[o].pc \in Working
  BY DEF GoingOn, Working, PastDrain
<1>2. run[o].m \in Copies
  BY <1>1 DEF MigrationInv, Shape, Actors, RunShape, Copies
<1>3. ~Overwritten => RunFits(o, run[o])
  BY DEF MigrationInv, RecordInv, Runs
<1>4. x.pc \notin {"tidy", "drop"} /\ (x.pc \in Working => run[o].pc \in Working \ {"cancel", "fail"})
  BY DEF GoingOn, Working, PastDrain
<1>5. ~Overwritten => RunFits(o, x)
  BY <1>3, <1>4 DEF RunFits, SameAs
<1> QED
  BY <1>1, <1>2, <1>5, RunStep

(* The next step of a run, with its record as it is. *)
LEMMA RunGoto ==
  ASSUME MigrationInv, NEW o \in Owners, NEW pc \in GoingOn \cup {"end"}, pc \notin {"read", "write"}, Goto(o, pc),
         run[o].pc \in GoingOn, UNCHANGED <<records, files, lease, rt, adm, put, stale, skipped>>,
         stale = {} /\ pc \in PastDrain /\ Ours(run[o].m) =>
           /\ Quiet
           /\ pc \in {"check", "copy"} => rows \subseteq stored[run[o].m.dst] \cup run[o].todo
           /\ pc \in {"own", "switch"} => rows \subseteq stored[run[o].m.dst]
  PROVE  MigrationInv'
<1>1. RunShape(run[o]) /\ Settings /\ run[o].pc # "none"
  BY DEF MigrationInv, Shape, Actors, GoingOn, Working, PastDrain
<1>2. PICK x : x = [run[o] EXCEPT !.pc = pc]
  OBVIOUS
<1>3. run' = [run EXCEPT ![o] = x]
  BY <1>2 DEF Goto
<1>4. /\ x.pc = pc /\ x.m = run[o].m /\ x.ctx = run[o].ctx /\ x.todo = run[o].todo
      /\ x \in RunWith(x.ctx)
  BY <1>1, <1>2 DEF RunShape, RunWith, GoingOn
<1>5. RunShape(x)
  BY <1>1, <1>4 DEF RunShape, GoingOn
<1>6. stale = {} /\ x.pc \in PastDrain /\ Ours(x.m) => Copied(x)'
  BY <1>4 DEF Copied, Quiet, files
<1> QED
  BY <1>1, <1>3, <1>4, <1>5, <1>6, RunGoes DEF Settings, files, SameAs

(* What a run has copied, as long as it owns the record. *)
LEMMA RunHasCopied ==
  ASSUME MigrationInv, NEW o \in Owners, run[o].pc \in PastDrain, stale = {}, Ours(run[o].m)
  PROVE  Copied(run[o])
BY DEF MigrationInv, FilesInv

LEMMA RunSteps ==
  ASSUME MigrationInv, NEW o \in Owners,
         \/ Drain(o) \/ InitDestination(o) \/ Check(o) \/ AssertOwnership(o)
         \/ RetryCancelled(o) \/ Fault(o) \/ LeaseLost(o)
  PROVE  MigrationInv'
<1>0. UNCHANGED <<records, files, lease, rt, adm, put, stale, skipped>>
  BY DEF Drain, InitDestination, Check, AssertOwnership, RetryCancelled, Fault, LeaseLost, OnlyRun, history
<1>1. CASE Drain(o)
  <2>1. PICK pc \in {"failed", "clear", "init"} : Goto(o, pc) /\ (pc = "failed" \/ Idle)
    BY <1>1 DEF Drain
  <2>2. stale = {} /\ Idle => Quiet
    BY DEF Idle, Quiet, MigrationInv, FilesInv, Puts, PutFits
  <2> QED
    BY <1>0, <1>1, <2>1, <2>2, RunGoto DEF Drain, GoingOn, Working, PastDrain
<1>2. CASE InitDestination(o)
  <2>1. PICK pc \in {"finish", "list"} : Goto(o, pc)
    BY <1>2 DEF InitDestination
  <2>2. run[o].pc = "init"
    BY <1>2 DEF InitDestination
  <2>3. stale = {} /\ Ours(run[o].m) => Quiet
    BY <2>2, RunHasCopied DEF PastDrain, Copied
  <2> QED
    BY <1>0, <2>1, <2>2, <2>3, RunGoto DEF GoingOn, Working, PastDrain
<1>3. CASE Check(o)
  <2>1. PICK pc \in {"finish", "own", "copy"} : Goto(o, pc) /\ (pc = "own" => run[o].todo = {})
    BY <1>3 DEF Check
  <2>2. run[o].pc = "check"
    BY <1>3 DEF Check
  <2>3. stale = {} /\ Ours(run[o].m) => Copied(run[o])
    BY <2>2, RunHasCopied DEF PastDrain
  <2>4. stale = {} /\ Ours(run[o].m) => Quiet /\ rows \subseteq stored[run[o].m.dst] \cup run[o].todo
    BY <2>2, <2>3 DEF Copied
  <2>5. /\ pc \in GoingOn /\ pc \notin {"read", "write"} /\ run[o].pc \in GoingOn
        /\ (pc \in {"own", "switch"} => run[o].todo = {})
    BY <2>1, <2>2 DEF GoingOn, Working, PastDrain
  <2> QED
    BY <1>0, <2>1, <2>4, <2>5, RunGoto
<1>4. CASE AssertOwnership(o)
  <2>1. PICK pc \in {"switch", "failed"} : Goto(o, pc)
    BY <1>4 DEF AssertOwnership
  <2>2. run[o].pc = "own"
    BY <1>4 DEF AssertOwnership
  <2>3. stale = {} /\ Ours(run[o].m) => Copied(run[o])
    BY <2>2, RunHasCopied DEF PastDrain
  <2>4. stale = {} /\ Ours(run[o].m) => Quiet /\ rows \subseteq stored[run[o].m.dst]
    BY <2>2, <2>3 DEF Copied
  <2>5. pc \in GoingOn /\ pc \notin {"read", "write", "check", "copy"} /\ run[o].pc \in GoingOn
    BY <2>1, <2>2 DEF GoingOn, Working, PastDrain
  <2> QED
    BY <1>0, <2>1, <2>4, <2>5, RunGoto
<1>5. CASE RetryCancelled(o) \/ Fault(o) \/ LeaseLost(o)
  <2>1. PICK pc \in {"finish", "failed"} : Goto(o, pc)
    BY <1>5 DEF RetryCancelled, Fault, LeaseLost
  <2>2. run[o].pc \in GoingOn
    BY <1>5 DEF RetryCancelled, Fault, LeaseLost, GoingOn, Working, PastDrain
  <2> QED
    BY <1>0, <2>1, <2>2, RunGoto DEF GoingOn, Working, PastDrain
<1> QED
  BY <1>1, <1>2, <1>3, <1>4, <1>5

(* The steps of a run that read or change its copy of the record, or copy a file. *)
LEMMA RunCopies ==
  ASSUME MigrationInv, NEW o \in Owners, List(o) \/ Copy(o) \/ ReadRecord(o)
  PROVE  MigrationInv'
<1>0. /\ RunShape(run[o]) /\ Settings /\ run[o].pc \in {"list", "copy", "read"} /\ run[o].pc \in GoingOn
      /\ run[o].m # None /\ run[o].m.dst \in Stores /\ run[o].ctx.store \in Stores /\ run[o].todo \subseteq Files
  <2>1. RunShape(run[o]) /\ Settings /\ run[o].pc \in {"list", "copy", "read"}
    BY DEF MigrationInv, Shape, Actors, List, Copy, ReadRecord
  <2> QED
    BY <2>1 DEF RunShape, RunWith, OfContext, GoingOn, Working, PastDrain, NoneOr, Migration
<1>1. stale = {} /\ Ours(run[o].m) => Copied(run[o])
  BY <1>0, RunHasCopied DEF PastDrain
<1>2. UNCHANGED <<records, rows, sessions, ops, lease, rt, adm, put, stale, skipped>>
  BY DEF List, Copy, ReadRecord, OnlyRun, files, history
<1>3. ASSUME NEW todo \in SUBSET Files, Update(o, run[o].m, todo, "check"),
             stored' \in [Stores -> SUBSET Files], \A s \in Stores : stored[s] \subseteq stored'[s],
             stale = {} /\ Ours(run[o].m) => Quiet /\ rows \subseteq stored'[run[o].m.dst] \cup todo
      PROVE  MigrationInv'
  <2>1. PICK x : x = [run[o] EXCEPT !.pc = "read", !.m = run[o].m, !.todo = todo, !.then = "check"]
    OBVIOUS
  <2>2. /\ x.pc = "read" /\ x.m = run[o].m /\ x.todo = todo /\ x.then = "check" /\ x.ctx = run[o].ctx
        /\ x \in RunWith(x.ctx)
    BY <1>0, <1>3, <2>1 DEF RunShape, RunWith, Working, PastDrain
  <2>3. RunShape(x)
    BY <1>0, <2>2 DEF RunShape
  <2>4. stale = {} /\ Ours(x.m) => Copied(x)'
    BY <1>2, <1>3, <2>2 DEF Copied, Quiet
  <2>5. run' = [run EXCEPT ![o] = x]
    BY <1>3, <2>1 DEF Update
  <2>6. lease' \in NoneOr(Owners) /\ skipped' \in BOOLEAN /\ x.pc \in GoingOn
    BY <1>0, <1>2, <2>2 DEF Settings, GoingOn, Working, PastDrain
  <2> QED
    BY <1>0, <1>2, <1>3, <2>2, <2>3, <2>4, <2>5, <2>6, RunGoes DEF SameAs
<1>4. ASSUME Goto(o, "failed"), UNCHANGED stored PROVE MigrationInv'
  BY <1>0, <1>2, <1>4, RunGoto DEF GoingOn, Working, PastDrain, files
<1>5. CASE List(o)
  <2>1. CASE Goto(o, "failed")
    BY <1>4, <1>5, <2>1 DEF List, OnlyRun, files
  <2>2. CASE Update(o, run[o].m, rows, "check")
    <3>1. stored' = stored /\ run[o].pc = "list" /\ rows \in SUBSET Files /\ stored \in [Stores -> SUBSET Files]
      BY <1>0, <1>5 DEF List, OnlyRun, files, Settings
    <3> QED
      BY <1>1, <1>3, <2>2, <3>1 DEF Copied
  <2> QED
    BY <1>5, <2>1, <2>2 DEF List
<1>6. CASE Copy(o)
  <2>1. PICK f : f = CHOOSE g \in run[o].todo : TRUE
    OBVIOUS
  <2>2. run[o].pc = "copy" /\ \/ /\ f \in stored[run[o].m.dst] \cup stored[run[o].ctx.store]
                                 /\ stored' = [stored EXCEPT ![run[o].m.dst] = @ \cup {f}]
                                 /\ Update(o, run[o].m, run[o].todo \ {f}, "check")
                              \/ Goto(o, "failed") /\ UNCHANGED stored
    BY <1>6, <2>1 DEF Copy
  <2>3. CASE f \in stored[run[o].m.dst] \cup stored[run[o].ctx.store] /\ ~(Goto(o, "failed") /\ UNCHANGED stored)
    <3>1. f \in Files
      BY <1>0, <2>3 DEF Settings
    <3>2. stored' = [stored EXCEPT ![run[o].m.dst] = @ \cup {f}] /\ Update(o, run[o].m, run[o].todo \ {f}, "check")
      BY <2>2, <2>3
    <3>3. /\ stored' \in [Stores -> SUBSET Files] /\ (\A s \in Stores : stored[s] \subseteq stored'[s])
          /\ stored'[run[o].m.dst] = stored[run[o].m.dst] \cup {f}
      BY <1>0, <3>1, <3>2 DEF Settings
    <3>4. stale = {} /\ Ours(run[o].m) => Quiet /\ rows \subseteq stored[run[o].m.dst] \cup run[o].todo
      BY <1>1, <2>2 DEF Copied
    <3>5. stale = {} /\ Ours(run[o].m) => Quiet /\ rows \subseteq stored'[run[o].m.dst] \cup (run[o].todo \ {f})
      BY <3>3, <3>4
    <3> QED
      BY <1>0, <1>3, <3>2, <3>3, <3>5
  <2> QED
    BY <1>4, <2>2, <2>3
<1>7. CASE ReadRecord(o)
  <2>1. CASE Ours(run[o].m)
    <3>1. PICK x : x = [run[o] EXCEPT !.pc = "write", !.seen = setting.cancel]
      OBVIOUS
    <3>2. setting \in Migration /\ run[o].pc = "read"
      BY <1>0, <1>7, <2>1 DEF Ours, Settings, NoneOr, ReadRecord
    <3>3. /\ x.pc = "write" /\ x.m = run[o].m /\ x.todo = run[o].todo /\ x.then = run[o].then /\ x.ctx = run[o].ctx
          /\ x \in RunWith(x.ctx)
      BY <1>0, <3>1, <3>2 DEF RunShape, RunWith, Migration, Working, PastDrain
    <3>4. RunShape(x)
      BY <1>0, <3>2, <3>3 DEF RunShape
    <3>5. stored' = stored /\ run' = [run EXCEPT ![o] = x]
      BY <1>7, <2>1, <3>1 DEF ReadRecord, OnlyRun, files
    <3>6. stale = {} /\ Ours(x.m) => Copied(x)'
      BY <1>1, <1>2, <3>2, <3>3, <3>5 DEF Copied, Quiet
    <3>7. lease' \in NoneOr(Owners) /\ skipped' \in BOOLEAN /\ x.pc \in GoingOn /\ stored' \in [Stores -> SUBSET Files]
      BY <1>0, <1>2, <3>3, <3>5 DEF Settings, GoingOn, Working, PastDrain
    <3> QED
      BY <1>0, <1>2, <3>3, <3>4, <3>5, <3>6, <3>7, RunGoes DEF SameAs
  <2>2. CASE ~Ours(run[o].m)
    <3>1. run' = [run EXCEPT ![o] = [run[o] EXCEPT !.pc = "failed"]] /\ stored' = stored
      BY <1>7, <2>2 DEF ReadRecord, OnlyRun, files
    <3>2. Goto(o, "failed")
      BY <3>1 DEF Goto
    <3> QED
      BY <1>4, <3>1, <3>2
  <2> QED
    BY <2>1, <2>2
<1> QED
  BY <1>5, <1>6, <1>7

(* A run reads the record to end the migration: it was cancelled, or has failed. *)
LEMMA RunReadsEnd ==
  ASSUME MigrationInv, NEW o \in Owners, ReadCancelled(o) \/ ReadFailure(o)
  PROVE  MigrationInv'
<1>0. /\ RunShape(run[o]) /\ Settings /\ run[o].pc \in {"finish", "failed"} /\ run[o].pc \in GoingOn
      /\ run[o].m # None /\ run[o].m \in Migration /\ run[o].m \in Copies
      /\ (setting # None => setting \in Migration /\ setting \in Copies)
  <2>1. RunShape(run[o]) /\ Settings /\ run[o].pc \in {"finish", "failed"}
    BY DEF MigrationInv, Shape, Actors, ReadCancelled, ReadFailure
  <2>2. run[o].m # None /\ run[o].m \in Migration /\ run[o].pc \in GoingOn
    BY <2>1 DEF RunShape, RunWith, GoingOn, Working, PastDrain, NoneOr
  <2> QED
    BY <2>1, <2>2 DEF Settings, Copies, NoneOr
<1>1. UNCHANGED <<records, files, lease, rt, adm, put, stale, skipped>>
  BY DEF ReadCancelled, ReadFailure, OnlyRun, history
<1>2. ASSUME NEW pc \in {"cancel", "fail"}, NEW last, last \in Migration, last \in Copies, NEW m, NEW x,
             m = [last EXCEPT !.state = IF pc = "cancel" THEN "cancelled" ELSE "failed"],
             x = [run[o] EXCEPT !.pc = pc, !.m = m], run' = [run EXCEPT ![o] = x],
             ~Overwritten /\ pc = "fail" => last.owner = o /\ last.src = run[o].ctx.store
      PROVE  MigrationInv'
  <2>1. /\ m \in Migration /\ m.id = last.id /\ m.owner = last.owner /\ m.src = last.src /\ m.dst = last.dst
        /\ m.state = IF pc = "cancel" THEN "cancelled" ELSE "failed"
    BY <1>2 DEF Migration
  <2>2. m # None
    BY <2>1, MigrationAssumption
  <2>3. x.pc = pc /\ x.m = m /\ x.ctx = run[o].ctx /\ x \in RunWith(x.ctx)
    BY <1>0, <1>2, <2>1 DEF RunShape, RunWith, Working, NoneOr
  <2>4. RunShape(x)
    BY <1>0, <2>1, <2>2, <2>3 DEF RunShape
  <2>5. ~Overwritten => RunFits(o, run[o])
    BY DEF MigrationInv, RecordInv, Runs
  <2>6. ~Overwritten => RunFits(o, x)
    BY <1>0, <1>2, <2>1, <2>3, <2>5 DEF RunFits, GoingOn
  <2>7. x.pc \notin PastDrain /\ run[o].pc # "none"
    BY <1>0, <2>3 DEF PastDrain
  <2>8. \E d \in Copies : SameAs(x.m, d)
    BY <1>2, <2>1, <2>3 DEF SameAs
  <2>9. UNCHANGED <<rows, sessions, ops>> /\ stored' = stored /\ stored' \in [Stores -> SUBSET Files]
        /\ lease' \in NoneOr(Owners) /\ skipped' \in BOOLEAN
    BY <1>0, <1>1 DEF files, Settings
  <2> QED
    BY <1>1, <1>2, <2>4, <2>6, <2>7, <2>8, <2>9, RunStep
<1>3. CASE ReadCancelled(o)
  <2>1. PICK last : last = IF setting = None THEN run[o].m ELSE setting
    OBVIOUS
  <2>2. PICK m : m = [last EXCEPT !.state = "cancelled"]
    OBVIOUS
  <2>3. PICK x : x = [run[o] EXCEPT !.pc = "cancel", !.m = m]
    OBVIOUS
  <2>4. run' = [run EXCEPT ![o] = x]
    BY <1>3, <2>1, <2>2, <2>3 DEF ReadCancelled
  <2> QED
    BY <1>0, <1>2, <2>1, <2>2, <2>3, <2>4
<1>4. CASE ReadFailure(o) /\ Ours(run[o].m)
  <2>1. PICK m : m = [setting EXCEPT !.state = "failed"]
    OBVIOUS
  <2>2. PICK x : x = [run[o] EXCEPT !.pc = "fail", !.m = m]
    OBVIOUS
  <2>3. run' = [run EXCEPT ![o] = x] /\ run[o].pc = "failed" /\ setting # None
    BY <1>4, <2>1, <2>2 DEF ReadFailure, Ours
  <2>4. ~Overwritten => setting.owner = o /\ setting.src = run[o].ctx.store
    <3>1. ~Overwritten => run[o].m.owner = o /\ run[o].m.src = run[o].ctx.store
      BY <2>3 DEF MigrationInv, RecordInv, Runs, RunFits, Working
    <3>2. setting.id = run[o].m.id /\ setting.owner = run[o].m.owner
      BY <1>4 DEF Ours
    <3>3. setting.src = run[o].m.src
      BY <1>0, <2>3, <3>2 DEF MigrationInv, Coherent
    <3> QED
      BY <3>1, <3>2, <3>3
  <2> QED
    BY <1>0, <1>2, <2>1, <2>2, <2>3, <2>4
<1>5. CASE ReadFailure(o) /\ ~Ours(run[o].m)
  <2>1. run' = [run EXCEPT ![o] = [run[o] EXCEPT !.pc = "end"]]
    BY <1>5 DEF ReadFailure
  <2>2. Goto(o, "end")
    BY <2>1 DEF Goto
  <2>3. "end" \in GoingOn \cup {"end"} /\ "end" \notin {"read", "write"} /\ "end" \notin PastDrain
    BY DEF PastDrain
  <2> QED
    BY <1>0, <1>1, <2>2, <2>3, RunGoto
<1> QED
  BY <1>3, <1>4, <1>5

(* A run writes its record, or clears its destination, and goes on. *)
LEMMA RunWrites ==
  ASSUME MigrationInv, NEW o \in Owners, NEW x, run' = [run EXCEPT ![o] = x],
         UNCHANGED <<active, rev, cleanup, rows, sessions, ops, lease, rt, adm, put, skipped>>,
         run[o].pc \in PastDrain, RunShape(x), x.pc \in PastDrain, x.ctx = run[o].ctx,
         SameAs(x.m, run[o].m), x.m.owner = run[o].m.owner, x.m.state = run[o].m.state,
         setting' = setting \/ setting' = x.m,
         stored' \in [Stores -> SUBSET Files], \A s \in Stores : s = run[o].m.dst \/ stored'[s] = stored[s],
         stale' = (IF Ours(run[o].m) THEN stale ELSE stale \cup {"run"}),
         stale' = {} => Copied(x)'
  PROVE  MigrationInv'
<1>0. /\ Settings /\ Actors /\ RunShape(run[o]) /\ run[o].pc \in Working /\ run[o].pc \notin {"cancel", "fail", "none"}
      /\ x.pc \in Working /\ x.pc \notin {"cancel", "fail", "none", "tidy", "drop"}
  BY DEF MigrationInv, Shape, Actors, Working, PastDrain
<1>1. run[o].m \in Copies /\ x.m # None /\ x.m \in Migration
  BY <1>0 DEF RunShape, RunWith, NoneOr, Copies
<1>2. \A b \in Owners : run'[b] = IF b = o THEN x ELSE run[b]
  BY <1>0 DEF Actors
<1>3. Shape'
  <2>1. Settings'
    BY <1>0, <1>1 DEF Settings, NoneOr
  <2>2. run' = [b \in Owners |-> run'[b]]
    BY <1>0 DEF Actors
  <2>3. ASSUME NEW b \in Owners PROVE RunShape(run[b])'
    BY <1>0, <1>2 DEF Actors, RunShape, OfContext
  <2> QED
    BY <1>0, <2>1, <2>2, <2>3 DEF Shape, Actors
<1>4. Contexts'
  BY DEF MigrationInv, Contexts, Knows
<1>5. Coherent'
  <2>1. \A d \in Copies' : d \in Copies \/ d = x.m
    BY <1>2 DEF Copies
  <2>2. \A d \in Copies' : \E c \in Copies : SameAs(d, c)
    BY <1>1, <2>1 DEF SameAs
  <2> QED
    BY <2>2, OldCopiesAgree DEF MigrationInv
<1>6. Apart'
  BY <1>0, <1>2 DEF MigrationInv, Apart
<1>7. ASSUME ~Overwritten'
      PROVE  /\ ~Overwritten /\ Ours(run[o].m) /\ Unwritten /\ Calls /\ Runs /\ CleanupFits /\ RecordFits
             /\ run[o].m.owner = o /\ run[o].m.state = "running" /\ run[o].m.src = run[o].ctx.store
             /\ setting # None /\ setting.owner = o /\ setting.state = "running"
             /\ setting.src = run[o].m.src /\ setting.dst = run[o].m.dst
             /\ active = run[o].m.src /\ run[o].m.src # run[o].m.dst
             /\ setting' # None /\ setting'.owner = o /\ setting'.state = "running"
             /\ setting'.src = setting.src /\ setting'.dst = setting.dst
  <2>1. ~Overwritten /\ Ours(run[o].m)
    BY <1>7 DEF Overwritten
  <2>2. Unwritten /\ Calls /\ Runs /\ CleanupFits /\ RecordFits
    BY <2>1 DEF MigrationInv, RecordInv
  <2>3. run[o].m.owner = o /\ run[o].m.state = "running" /\ run[o].m.src = run[o].ctx.store
    BY <1>0, <2>2 DEF Runs, RunFits
  <2>4. /\ setting # None /\ setting.owner = o /\ setting.state = "running"
        /\ setting.src = run[o].m.src /\ setting.dst = run[o].m.dst
        /\ active = run[o].m.src /\ run[o].m.src # run[o].m.dst
    BY <1>0, <2>1, <2>3, OwnRecord
  <2> QED
    BY <1>1, <2>1, <2>2, <2>3, <2>4 DEF SameAs
<1>8. ASSUME ~Overwritten' PROVE \A b \in Owners : (InRecord(b) <=> b = o) /\ (InRecord(b)' <=> b = o)
  BY <1>7, <1>8 DEF InRecord
<1>9. RecordInv'
  <2>0. SUFFICES ASSUME ~Overwritten' PROVE (Unwritten /\ Calls /\ Runs /\ CleanupFits /\ RecordFits)'
    BY DEF RecordInv
  <2>1. Unwritten'
    <3>1. (\A a \in Admins : adm[a].owner \in NoneOr(Owners)) /\ (\A r \in Replicas : rt[r].owner \in NoneOr(Owners))
      BY <1>0 DEF Actors, CallShape, CallWith, RtShape, RtWith
    <3> QED
      BY <1>7, <1>8, <2>0, <3>1 DEF Unwritten, NoneOr
  <2>2. Calls'
    BY <1>7, <2>0 DEF Calls, CallFits
  <2>3. ASSUME NEW b \in Owners PROVE RunFits(b, run[b])'
    <3>1. CASE b = o
      BY <1>0, <1>2, <1>7, <2>0, <3>1 DEF RunFits, SameAs
    <3>2. CASE b # o
      BY <1>2, <1>7, <1>8, <2>0, <3>2 DEF RunFits, Runs
    <3> QED
      BY <3>1, <3>2
  <2>4. CleanupFits' /\ RecordFits'
    BY <1>7, <2>0 DEF CleanupFits, RecordFits
  <2> QED
    BY <2>1, <2>2, <2>3, <2>4 DEF Runs
<1>10. FilesInv'
  <2>0. SUFFICES ASSUME stale' = {}
                 PROVE  Puts' /\ (rows \subseteq stored[active])'
                        /\ \A b \in Owners : (run[b].pc \in PastDrain /\ Ours(run[b].m) => Copied(run[b]))'
    BY DEF FilesInv
  <2>1. stale = {} /\ ~Overwritten'
    BY <2>0 DEF Overwritten
  <2>2. Puts /\ rows \subseteq stored[active] /\ stored'[active] = stored[active]
    BY <1>0, <1>7, <2>1 DEF MigrationInv, FilesInv, Settings
  <2>3. Puts'
    BY <2>2 DEF Puts, PutFits
  <2>4. ASSUME NEW b \in Owners \ {o}, run[b].pc \in PastDrain, Ours(run[b].m)' PROVE FALSE
    <3>1. run[b].m.owner = b /\ run'[b] = run[b]
      BY <1>2, <1>7, <2>1, <2>4 DEF Runs, RunFits, Working, PastDrain
    <3> QED
      BY <1>7, <2>1, <2>4, <3>1 DEF Ours
  <2> QED
    BY <1>2, <2>0, <2>2, <2>3, <2>4
<1> QED
  BY <1>3, <1>4, <1>5, <1>6, <1>9, <1>10 DEF MigrationInv

LEMMA RunWriteSteps ==
  ASSUME MigrationInv, NEW o \in Owners, ClearDestination(o) \/ WriteRecord(o)
  PROVE  MigrationInv'
<1>0. /\ RunShape(run[o]) /\ Settings /\ run[o].pc \in {"clear", "write"} /\ run[o].pc \in PastDrain
      /\ run[o].m # None /\ run[o].m \in Migration
  <2>1. RunShape(run[o]) /\ Settings /\ run[o].pc \in {"clear", "write"}
    BY DEF MigrationInv, Shape, Actors, ClearDestination, WriteRecord
  <2> QED
    BY <2>1 DEF RunShape, RunWith, PastDrain, NoneOr
<1>1. ~Ours(run[o].m) => stale' = stale \cup {"run"}
  BY DEF ClearDestination, WriteRecord, Note, Ours
<1>2. Ours(run[o].m) => stale' = stale
  BY <1>0 DEF ClearDestination, WriteRecord, Note, Ours, Migration
<1>3. stale' = {} => Copied(run[o])
  BY <1>0, <1>1, <1>2, RunHasCopied
<1>4. CASE ClearDestination(o)
  <2>1. PICK m : m = [run[o].m EXCEPT !.phase = "copying"]
    OBVIOUS
  <2>2. PICK x : x = [run[o] EXCEPT !.pc = "read", !.m = m, !.todo = {}, !.then = "init"]
    OBVIOUS
  <2>3. /\ m \in Migration /\ m.id = run[o].m.id /\ m.owner = run[o].m.owner /\ m.src = run[o].m.src
        /\ m.dst = run[o].m.dst /\ m.state = run[o].m.state
    BY <1>0, <2>1 DEF Migration, Phases
  <2>4. x.pc = "read" /\ x.m = m /\ x.ctx = run[o].ctx /\ x.then = "init" /\ x \in RunWith(x.ctx)
    BY <1>0, <2>2, <2>3 DEF RunShape, RunWith, Working, PastDrain, NoneOr
  <2>5. RunShape(x) /\ x.pc \in PastDrain
    BY <1>0, <2>3, <2>4, MigrationAssumption DEF RunShape, PastDrain
  <2>6. run' = [run EXCEPT ![o] = x] /\ stored' = [stored EXCEPT ![run[o].m.dst] = {}] /\ setting' = setting
    BY <1>4, <2>1, <2>2 DEF ClearDestination, Update, Clear, records
  <2>7. stored' \in [Stores -> SUBSET Files] /\ \A s \in Stores : s = run[o].m.dst \/ stored'[s] = stored[s]
    BY <1>0, <2>6 DEF Settings
  <2>8. UNCHANGED <<active, rev, cleanup, rows, sessions, ops, lease, rt, adm, put, skipped>>
    BY <1>4 DEF ClearDestination, records
  <2>9. stale' = {} => Copied(x)'
    BY <1>3, <2>4, <2>8 DEF Copied, Quiet
  <2> QED
    BY <1>0, <1>1, <1>2, <2>3, <2>4, <2>5, <2>6, <2>7, <2>8, <2>9, RunWrites DEF SameAs
<1>5. CASE WriteRecord(o)
  <2>1. PICK m : m = [run[o].m EXCEPT !.cancel = ~run[o].mute /\ (@ \/ run[o].seen)]
    OBVIOUS
  <2>2. PICK x : x = [run[o] EXCEPT !.pc = run[o].then, !.m = m, !.seen = FALSE, !.then = "none"]
    OBVIOUS
  <2>3. /\ m \in Migration /\ m.id = run[o].m.id /\ m.owner = run[o].m.owner /\ m.src = run[o].m.src
        /\ m.dst = run[o].m.dst /\ m.state = run[o].m.state
    <3>1. PICK cancel \in BOOLEAN : m = [run[o].m EXCEPT !.cancel = cancel]
      BY <2>1
    <3> QED
      BY <1>0, <3>1 DEF Migration
  <2>4. run[o].pc = "write" /\ run[o].then \in {"init", "check"}
    BY <1>0, <1>5 DEF WriteRecord, RunShape, RunWith
  <2>5. x.pc = run[o].then /\ x.m = m /\ x.ctx = run[o].ctx /\ x.todo = run[o].todo /\ x \in RunWith(x.ctx)
    BY <1>0, <2>2, <2>3, <2>4 DEF RunShape, RunWith, Working, PastDrain, NoneOr
  <2>6. RunShape(x) /\ x.pc \in PastDrain
    BY <1>0, <2>3, <2>4, <2>5, MigrationAssumption DEF RunShape, PastDrain
  <2>7. run' = [run EXCEPT ![o] = x] /\ setting' = x.m
    BY <1>5, <2>1, <2>2, <2>5 DEF WriteRecord
  <2>8. UNCHANGED <<active, rev, cleanup, rows, sessions, ops, lease, rt, adm, put, skipped, stored>>
    BY <1>5 DEF WriteRecord, files
  <2>9. stale' = {} => Copied(x)'
    BY <1>3, <2>3, <2>4, <2>5, <2>8 DEF Copied, Quiet
  <2> QED
    BY <1>0, <1>1, <1>2, <2>3, <2>5, <2>6, <2>7, <2>8, <2>9, RunWrites DEF SameAs, Settings
<1> QED
  BY <1>4, <1>5

-------------------------------------------------------------------------------
(* A new owner writes its record and, unless its runtime runs another, starts a run. *)
LEMMA Launched ==
  ASSUME MigrationInv, NEW o \in Owners, run[o].pc = "none", NEW m \in Migration, m # None, m.owner = o, m.state = "running",
         \E d \in Copies : SameAs(m, d), NEW c, OfContext(c), NEW mute \in BOOLEAN, setting' = m, Launch(c, m, mute),
         UNCHANGED <<active, rev, cleanup, files, put>>, stale \subseteq stale',
         stale' \subseteq {"start", "cancel", "resume", "upload", "recovery", "run"},
         adm' = [a \in Admins |-> adm'[a]],
         \A a \in Admins : adm'[a] \in {adm[a], NoCall} /\ adm'[a].owner # o,
         rt' = [r \in Replicas |-> rt'[r]],
         \A r \in Replicas : /\ RtShape(rt'[r]) /\ rt'[r].owner # o
                             /\ \/ rt'[r] = rt[r]
                                \/ /\ rt'[r].m = None /\ rt'[r].owner = None /\ rt'[r].rev = rt[r].rev
                                   /\ rt'[r].store = rt[r].store /\ rt'[r].pc = "ready" /\ rt[r].pc = "own",
         ~Overwritten' => active = m.src /\ c.store = m.src /\ (cleanup # None => m.dst # Managed)
  PROVE  MigrationInv'
<1>0. Settings /\ Actors
  BY DEF MigrationInv, Shape
<1>1. PICK n : n = [NoRun EXCEPT !.pc = "drain", !.ctx = c, !.m = m, !.mute = mute]
  OBVIOUS
<1>2. n = [pc |-> "drain", ctx |-> c, m |-> m, mute |-> mute, seen |-> FALSE, then |-> "none", todo |-> {}]
  BY <1>1 DEF NoRun
<1>3. n.pc = "drain" /\ n.ctx = c /\ n.m = m /\ RunShape(n)
  <2>1. n.pc = "drain" /\ n.ctx = c /\ n.m = m /\ n \in RunWith(n.ctx)
    BY <1>2 DEF RunWith, Working, NoneOr
  <2> QED
    BY <2>1 DEF RunShape
<1>4. /\ run' = run \/ run' = [run EXCEPT ![o] = n]
      /\ lease' \in {lease, None} /\ skipped' \in {skipped, TRUE}
  BY <1>1 DEF Launch, Release
<1>5. /\ run' = [b \in Owners |-> run'[b]]
      /\ \A b \in Owners \ {o} : run'[b] = run[b]
      /\ run'[o] \in {run[o], n} /\ run'[o].pc \in {"none", "drain"}
  BY <1>0, <1>3, <1>4 DEF Actors
<1>6. Shape'
  <2>1. Settings'
    BY <1>0, <1>4 DEF Settings, files, NoneOr
  <2>2. ASSUME NEW b \in Owners PROVE RunShape(run[b])'
    BY <1>0, <1>3, <1>5 DEF Actors, RunShape, OfContext
  <2>3. ASSUME NEW a \in Admins PROVE CallShape(adm[a])'
    <3>1. CallShape(NoCall)
      BY DEF NoCall, CallShape, CallWith, NoneOr, Taking
    <3> QED
      BY <1>0, <3>1 DEF Actors, CallShape, OfContext
  <2>4. ASSUME NEW r \in Replicas PROVE RtShape(rt[r])'
    BY DEF RtShape
  <2>5. (put = [f \in Uploads |-> put[f]] /\ \A f \in Uploads : PutShape(put[f]))'
    BY <1>0 DEF Actors, PutShape, OfContext
  <2> QED
    BY <1>5, <2>1, <2>2, <2>3, <2>4, <2>5 DEF Shape, Actors
<1>7. Contexts'
  <2>1. NoCall.pc = "idle"
    BY DEF NoCall
  <2> QED
    BY <2>1 DEF MigrationInv, Contexts, Knows
<1>8. NoCall.m = None /\ NoCall.owner = None
  BY DEF NoCall
<1>9. Coherent'
  <2>1. \A d \in Copies' : d \in Copies \/ d = m
    BY <1>3, <1>5, <1>8 DEF Copies
  <2>2. \A d \in Copies' : \E e \in Copies : SameAs(d, e)
    BY <2>1 DEF SameAs
  <2> QED
    BY <2>2, OldCopiesAgree DEF MigrationInv
<1>10. /\ \A a \in Admins : adm'[a].owner \in {None, adm[a].owner}
       /\ \A r \in Replicas : rt'[r].owner \in {None, rt[r].owner}
       /\ \A a \in Admins : adm'[a].owner \in NoneOr(Owners)
       /\ \A r \in Replicas : rt'[r].owner \in NoneOr(Owners)
  BY <1>6, <1>8 DEF Shape, Actors, CallShape, CallWith, RtShape, RtWith
<1>11. Apart'
  BY <1>5, <1>10 DEF MigrationInv, Apart, NoneOr
<1>12. \A b \in Owners : InRecord(b)' <=> b = o
  BY DEF InRecord
<1>13. RecordInv'
  <2>0. SUFFICES ASSUME ~Overwritten' PROVE (Unwritten /\ Calls /\ Runs /\ CleanupFits /\ RecordFits)'
    BY DEF RecordInv
  <2>1. ~Overwritten /\ Calls /\ Runs /\ CleanupFits
    BY <2>0 DEF MigrationInv, RecordInv, Overwritten
  <2>2. Unwritten'
    BY <1>10, <1>12 DEF Unwritten, NoneOr
  <2>3. Calls'
    BY <2>1 DEF Calls, CallFits, NoCall
  <2>4. ASSUME NEW b \in Owners PROVE RunFits(b, run[b])'
    <3>1. CASE b = o /\ run'[o] = n
      BY <1>3, <2>0, <3>1 DEF RunFits
    <3>2. CASE b = o /\ run'[o].pc = "none"
      BY <3>2 DEF RunFits, Working, PastDrain
    <3>3. CASE b # o
      BY <1>5, <1>12, <2>1, <3>3 DEF RunFits, Runs
    <3> QED
      BY <1>5, <3>1, <3>2, <3>3
  <2>5. CleanupFits' /\ RecordFits'
    BY <2>0, <2>1 DEF CleanupFits, RecordFits
  <2> QED
    BY <2>2, <2>3, <2>4, <2>5 DEF Runs
<1>14. FilesInv'
  <2>0. SUFFICES ASSUME stale' = {}
                 PROVE  Puts' /\ (rows \subseteq stored[active])'
                        /\ \A b \in Owners : (run[b].pc \in PastDrain /\ Ours(run[b].m) => Copied(run[b]))'
    BY DEF FilesInv
  <2>1. stale = {} /\ ~Overwritten
    BY <2>0 DEF Overwritten
  <2>2. Puts' /\ (rows \subseteq stored[active])'
    BY <2>1 DEF MigrationInv, FilesInv, Puts, PutFits, files
  <2>3. ASSUME NEW b \in Owners, run'[b].pc \in PastDrain, Ours(run[b].m)' PROVE FALSE
    <3>1. b # o /\ run'[b] = run[b]
      BY <1>5, <2>3 DEF PastDrain
    <3>2. run[b].m.owner = b
      BY <2>1, <2>3, <3>1 DEF MigrationInv, RecordInv, Runs, RunFits, Working, PastDrain
    <3> QED
      BY <2>3, <3>1, <3>2 DEF Ours
  <2> QED
    BY <2>2, <2>3
<1> QED
  BY <1>6, <1>7, <1>9, <1>11, <1>13, <1>14 DEF MigrationInv

LEMMA BeginKeeps ==
  ASSUME MigrationInv, NEW a \in Admins, Begin(a)
  PROVE  MigrationInv'
<1> DEFINE o == adm[a].owner
<1>0. /\ Settings /\ CallShape(adm[a]) /\ adm[a].pc = "write" /\ OfContext(adm[a].ctx) /\ Knows(adm[a].ctx)
      /\ adm[a].m # None /\ adm[a].m \in Migration /\ adm[a].m \in Copies /\ o \in Owners /\ o # None
      /\ Actors
  <2>1. Settings /\ Actors /\ CallShape(adm[a]) /\ adm[a].pc = "write"
    BY DEF MigrationInv, Shape, Actors, Begin
  <2>2. OfContext(adm[a].ctx) /\ adm[a].m # None /\ adm[a].m \in Migration /\ o \in Owners /\ o # None
    BY <2>1 DEF CallShape, CallWith, Taking, NoneOr
  <2>3. Knows(adm[a].ctx)
    BY <2>1 DEF MigrationInv, Contexts
  <2> QED
    BY <2>1, <2>2, <2>3 DEF Copies
<1>1. /\ run[o].pc = "none"
      /\ \A b \in Admins : adm[b].owner = o => b = a
      /\ \A r \in Replicas : rt[r].owner # o
  BY <1>0 DEF MigrationInv, Apart
<1> HIDE DEF o
<1>2. PICK again \in BOOLEAN : again = (adm[a].m.state = "failed")
  OBVIOUS
<1>3. PICK m : m = [adm[a].m EXCEPT !.owner = o, !.state = "running", !.cancel = FALSE]
  OBVIOUS
<1>4. /\ m \in Migration /\ m.id = adm[a].m.id /\ m.owner = o /\ m.state = "running"
      /\ m.src = adm[a].m.src /\ m.dst = adm[a].m.dst
  BY <1>0, <1>3 DEF Migration
<1>5. m # None /\ \E d \in Copies : SameAs(m, d)
  BY <1>0, <1>4, MigrationAssumption DEF SameAs
<1>6. /\ setting' = m /\ Launch(adm[a].ctx, m, again) /\ Return(a)
      /\ Note(adm[a].ctx.rev # rev \/ (m.dst = Managed /\ cleanup # None), "start")
      /\ UNCHANGED <<active, rev, cleanup, files, rt, put>>
  BY <1>2, <1>3 DEF Begin, o
<1>7. /\ stale \subseteq stale' /\ stale' \subseteq {"start", "cancel", "resume", "upload", "recovery", "run"}
      /\ (~Overwritten' => ~Overwritten /\ adm[a].ctx.rev = rev /\ (cleanup # None => m.dst # Managed))
  BY <1>0, <1>6 DEF Note, Overwritten, Settings
<1>8. ~Overwritten' => active = m.src /\ adm[a].ctx.store = m.src /\ (cleanup # None => m.dst # Managed)
  BY <1>0, <1>4, <1>7 DEF MigrationInv, RecordInv, Calls, CallFits, Knows
<1>9. PICK none : none = NoCall
  OBVIOUS
<1>10. none.owner = None
  BY <1>9 DEF NoCall
<1>11. /\ adm' = [b \in Admins |-> adm'[b]]
       /\ \A b \in Admins : adm'[b] \in {adm[b], NoCall} /\ adm'[b].owner # o
  <2>1. adm' = [adm EXCEPT ![a] = none]
    BY <1>6, <1>9 DEF Return
  <2> QED
    BY <1>0, <1>1, <1>9, <1>10, <2>1 DEF Actors
<1>12. /\ rt' = [r \in Replicas |-> rt'[r]]
       /\ \A r \in Replicas : RtShape(rt'[r]) /\ rt'[r].owner # o /\ rt'[r] = rt[r]
  BY <1>0, <1>1, <1>6 DEF Actors
<1> QED
  BY <1>0, <1>1, <1>4, <1>5, <1>6, <1>7, <1>8, <1>11, <1>12, Launched

LEMMA ResumeKeeps ==
  ASSUME MigrationInv, NEW r \in Replicas, Resume(r)
  PROVE  MigrationInv'
<1> DEFINE o == rt[r].owner
<1>0. /\ Settings /\ Actors /\ RtShape(rt[r]) /\ rt[r].pc = "own" /\ OfContext(CtxOf(r)) /\ CtxOf(r).store = rt[r].store
      /\ rt[r].m # None /\ rt[r].m \in Migration /\ rt[r].m \in Copies /\ rt[r].m.state = "running"
      /\ o \in Owners /\ o # None
  <2>1. Settings /\ Actors /\ RtShape(rt[r]) /\ rt[r].pc = "own"
    BY DEF MigrationInv, Shape, Actors, Resume
  <2>2. /\ rt[r].m # None /\ rt[r].m \in Migration /\ rt[r].m.state = "running" /\ o \in Owners /\ o # None
        /\ rt[r].rev \in Nat /\ rt[r].store \in Stores
    BY <2>1 DEF RtShape, RtWith, NoneOr
  <2> QED
    BY <2>1, <2>2 DEF Copies, CtxOf, OfContext
<1>1. /\ run[o].pc = "none"
      /\ \A b \in Replicas : rt[b].owner = o => b = r
      /\ \A a \in Admins : adm[a].owner # o
  BY <1>0 DEF MigrationInv, Apart
<1> HIDE DEF o, CtxOf
<1>2. PICK m : m = [rt[r].m EXCEPT !.owner = o]
  OBVIOUS
<1>3. /\ m \in Migration /\ m.id = rt[r].m.id /\ m.owner = o /\ m.state = "running"
      /\ m.src = rt[r].m.src /\ m.dst = rt[r].m.dst
  BY <1>0, <1>2 DEF Migration
<1>4. m # None /\ \E d \in Copies : SameAs(m, d)
  BY <1>0, <1>3, MigrationAssumption DEF SameAs
<1>5. PICK x : x = [rt[r] EXCEPT !.pc = "ready", !.m = None, !.owner = None]
  OBVIOUS
<1>6. /\ setting' = m /\ Launch(CtxOf(r), m, FALSE)
      /\ Note(Overwrites(rt[r].m) \/ rt[r].store # m.src, "resume") /\ rt' = [rt EXCEPT ![r] = x]
      /\ UNCHANGED <<active, rev, cleanup, files, adm, put>>
  BY <1>2, <1>5 DEF Resume, o
<1>7. /\ x.pc = "ready" /\ x.m = None /\ x.owner = None /\ x.rev = rt[r].rev /\ x.store = rt[r].store
      /\ x.born = rt[r].born /\ x \in RtWith(x.born)
  BY <1>0, <1>5 DEF RtShape, RtWith, NoneOr
<1>8. RtShape(x)
  BY <1>0, <1>7 DEF RtShape
<1>9. /\ stale \subseteq stale' /\ stale' \subseteq {"start", "cancel", "resume", "upload", "recovery", "run"}
      /\ (~Overwritten' => ~Overwritten /\ ~Overwrites(rt[r].m) /\ rt[r].store = m.src)
  BY <1>0, <1>6 DEF Note, Overwritten, Settings
<1>10. ~Overwritten' => active = m.src /\ CtxOf(r).store = m.src /\ (cleanup # None => m.dst # Managed)
  <2> SUFFICES ASSUME ~Overwritten' PROVE active = m.src /\ CtxOf(r).store = m.src /\ (cleanup # None => m.dst # Managed)
    OBVIOUS
  <2>1. setting # None /\ setting.id = m.id /\ setting.state = "running"
    BY <1>0, <1>3, <1>9 DEF Overwrites
  <2>2. setting.src = m.src /\ setting.dst = m.dst
    BY <1>0, <1>3, <2>1 DEF MigrationInv, Coherent, Copies
  <2>3. RecordFits /\ CleanupFits /\ ~Overwritten
    BY <1>9 DEF MigrationInv, RecordInv
  <2> QED
    BY <1>0, <1>9, <2>1, <2>2, <2>3 DEF RecordFits, CleanupFits
<1>11. /\ rt' = [b \in Replicas |-> rt'[b]]
       /\ \A b \in Replicas : rt'[b] = IF b = r THEN x ELSE rt[b]
  BY <1>0, <1>6 DEF Actors
<1>12. \A b \in Replicas : /\ RtShape(rt'[b]) /\ rt'[b].owner # o
                           /\ \/ rt'[b] = rt[b]
                              \/ /\ rt'[b].m = None /\ rt'[b].owner = None /\ rt'[b].rev = rt[b].rev
                                 /\ rt'[b].store = rt[b].store /\ rt'[b].pc = "ready" /\ rt[b].pc = "own"
  BY <1>0, <1>1, <1>7, <1>8, <1>11 DEF Actors
<1>13. /\ adm' = [a \in Admins |-> adm'[a]]
       /\ \A a \in Admins : adm'[a] \in {adm[a], NoCall} /\ adm'[a].owner # o
  BY <1>0, <1>1, <1>6 DEF Actors
<1> QED
  BY <1>0, <1>1, <1>3, <1>4, <1>6, <1>9, <1>10, <1>11, <1>12, <1>13, Launched

-------------------------------------------------------------------------------
(* Uploads. *)
LEMMA UploadKeeps ==
  ASSUME MigrationInv, NEW f \in Uploads, Upload(f) \/ \E r \in Replicas : Enter(f, r)
  PROVE  MigrationInv'
<1>0. /\ Settings /\ PutShape(put[f]) /\ f \in Files
      /\ (put[f].pc \in Putting => OfContext(put[f].ctx) /\ Knows(put[f].ctx))
      /\ (stale = {} => PutFits(f, put[f]))
  BY MigrationAssumption DEF MigrationInv, Shape, Actors, PutShape, Contexts, FilesInv, Puts
<1>1. ASSUME NEW pc \in Putting \cup {"left", "done"}, NEW x, put' = [put EXCEPT ![f] = x],
             x.pc = pc, PutShape(x), pc \in Putting => Knows(x.ctx),
             UNCHANGED <<records, lease, rt, adm, run, skipped>>,
             stored' \in [Stores -> SUBSET Files], \A s \in Stores : stored[s] \subseteq stored'[s],
             rows \subseteq rows', rows' \subseteq Files, ops' \subseteq Uploads, sessions' \subseteq Uploads,
             \A g \in sessions \ {f} : g \in sessions', stale' \in {stale, stale \cup {"upload"}},
             stale' = {} => /\ PutFits(f, x)'
                            /\ rows' \subseteq rows \cup stored'[active]
                            /\ Quiet /\ setting # None /\ setting.state = "running" =>
                                 rows' = rows /\ ops' = {} /\ x.pc \notin Storing
      PROVE  MigrationInv'
  <2>1. Settings'
    BY <1>0, <1>1 DEF Settings, records
  <2> QED
    BY <1>0, <1>1, <2>1, UploadStep
<1>2. stored \in [Stores -> SUBSET Files] /\ rows \subseteq Files /\ ops \subseteq Uploads /\ sessions \subseteq Uploads
      /\ active \in Stores
  BY <1>0 DEF Settings
<1>3. CASE \E r \in Replicas : Enter(f, r)
  <2>1. PICK r \in Replicas : Enter(f, r)
    BY <1>3
  <2>2. OfContext(CtxOf(r)) /\ Knows(CtxOf(r))
    BY <2>1, ReadyKnows DEF Enter
  <2>3. PICK x : x = [pc |-> "create", ctx |-> CtxOf(r)]
    OBVIOUS
  <2>4. put' = [put EXCEPT ![f] = x] /\ UNCHANGED <<records, files, lease, rt, adm, run, stale, skipped>>
    BY <2>1, <2>3 DEF Enter, OnlyPut, history
  <2> HIDE DEF CtxOf
  <2>5. x.pc = "create" /\ PutShape(x) /\ Knows(x.ctx)
    BY <2>2, <2>3 DEF PutShape, PutWith, Putting
  <2>6. PutFits(f, x)' /\ x.pc \notin Storing
    BY <2>5 DEF PutFits, Storing
  <2>7. stored' = stored /\ rows' = rows /\ ops' = ops /\ sessions' = sessions
    BY <2>4 DEF files
  <2> QED
    BY <1>1, <1>2, <2>4, <2>5, <2>6, <2>7 DEF Putting, Quiet
<1>4. CASE CreateSession(f)
  <2>1. PICK x : x = [put[f] EXCEPT !.pc = "current"]
    OBVIOUS
  <2>2. put' = [put EXCEPT ![f] = x] /\ put[f].pc = "create" /\ sessions' = sessions \cup {f}
        /\ UNCHANGED <<records, stored, rows, ops, lease, rt, adm, run, stale, skipped>>
    BY <1>4, <2>1 DEF CreateSession, PutStep, history
  <2>3. x.pc = "current" /\ x.ctx = put[f].ctx /\ PutShape(x) /\ Knows(x.ctx)
    BY <1>0, <2>1, <2>2 DEF PutShape, PutWith, Putting
  <2>4. PutFits(f, x)' /\ x.pc \notin Storing
    BY <2>2, <2>3 DEF PutFits, Storing
  <2> QED
    BY <1>1, <1>2, <2>2, <2>3, <2>4 DEF Putting, Quiet
<1>5. CASE AssertCurrent(f)
  <2>1. PICK x : x = IF put[f].ctx.rev = rev THEN [put[f] EXCEPT !.pc = "mutable"] ELSE [pc |-> "left", ctx |-> None]
    OBVIOUS
  <2>2. put' = [put EXCEPT ![f] = x] /\ put[f].pc = "current"
        /\ UNCHANGED <<records, files, lease, rt, adm, run, stale, skipped>>
    BY <1>5, <2>1 DEF AssertCurrent, OnlyPut, history
  <2>3. x.pc \in {"mutable", "left"} /\ (x.pc = "mutable" => x.ctx = put[f].ctx) /\ PutShape(x)
    BY <1>0, <2>1, <2>2 DEF PutShape, PutWith, Putting, Storing
  <2>4. x.pc \in Putting => Knows(x.ctx)
    BY <1>0, <2>2, <2>3 DEF Putting, Storing
  <2>5. (stale' = {} => PutFits(f, x)') /\ x.pc \notin Storing
    BY <1>0, <2>2, <2>3 DEF PutFits, Storing, files
  <2>6. stored' = stored /\ rows' = rows /\ ops' = ops /\ sessions' = sessions
    BY <2>2 DEF files
  <2> QED
    BY <1>1, <1>2, <2>2, <2>3, <2>4, <2>5, <2>6 DEF Putting, Quiet
<1>6. CASE AssertMutable(f)
  <2>1. PICK x : x = IF ~Paused(put[f].ctx) THEN [put[f] EXCEPT !.pc = "begin"] ELSE [pc |-> "left", ctx |-> None]
    OBVIOUS
  <2>2. put' = [put EXCEPT ![f] = x] /\ put[f].pc = "mutable"
        /\ UNCHANGED <<records, files, lease, rt, adm, run, skipped>>
        /\ Note(~Paused(put[f].ctx) /\ put[f].ctx.rev # rev, "upload")
    BY <1>6, <2>1 DEF AssertMutable
  <2>3. x.pc \in {"begin", "left"} /\ (x.pc = "begin" => x.ctx = put[f].ctx /\ ~Paused(put[f].ctx)) /\ PutShape(x)
    BY <1>0, <2>1, <2>2 DEF PutShape, PutWith, Putting, Storing
  <2>4. x.pc \in Putting => Knows(x.ctx)
    BY <1>0, <2>2, <2>3 DEF Putting, Storing
  <2>5. stale' \in {stale, stale \cup {"upload"}} /\ (stale' = {} /\ x.pc = "begin" => put[f].ctx.rev = rev)
    BY <2>2, <2>3 DEF Note
  <2>6. stale' = {} => PutFits(f, x)'
    BY <1>0, <2>2, <2>3, <2>5 DEF PutFits, Storing, files, records
  <2>7. setting # None /\ setting.state = "running" => x.pc \notin Storing
    BY <2>3 DEF Paused, StateOf, Storing
  <2>8. stored' = stored /\ rows' = rows /\ ops' = ops /\ sessions' = sessions
    BY <2>2 DEF files
  <2> QED
    BY <1>1, <1>2, <2>2, <2>3, <2>4, <2>5, <2>6, <2>7, <2>8 DEF Putting, Storing, Quiet
<1>7. CASE BeginOperation(f)
  <2>1. PICK x : x = [put[f] EXCEPT !.pc = "store"]
    OBVIOUS
  <2>2. put' = [put EXCEPT ![f] = x] /\ put[f].pc = "begin" /\ ops' = ops \cup {f}
        /\ UNCHANGED <<records, stored, rows, sessions, lease, rt, adm, run, stale, skipped>>
    BY <1>7, <2>1 DEF BeginOperation, PutStep, history
  <2>3. x.pc = "store" /\ x.ctx = put[f].ctx /\ PutShape(x) /\ Knows(x.ctx)
    BY <1>0, <2>1, <2>2 DEF PutShape, PutWith, Putting, Storing
  <2>4. (stale' = {} => PutFits(f, x)') /\ ~Quiet
    BY <1>0, <2>2, <2>3 DEF PutFits, Storing, Quiet, records
  <2> QED
    BY <1>1, <1>2, <2>2, <2>3, <2>4 DEF Putting, Storing
<1>8. CASE WriteFile(f)
  <2>1. PICK x : x = [put[f] EXCEPT !.pc = "commit"]
    OBVIOUS
  <2>2. put' = [put EXCEPT ![f] = x] /\ put[f].pc = "store"
        /\ stored' = [stored EXCEPT ![put[f].ctx.store] = @ \cup {f}]
        /\ UNCHANGED <<records, rows, sessions, ops, lease, rt, adm, run, stale, skipped>>
    BY <1>8, <2>1 DEF WriteFile, PutStep, history
  <2>3. x.pc = "commit" /\ x.ctx = put[f].ctx /\ PutShape(x) /\ Knows(x.ctx)
    BY <1>0, <2>1, <2>2 DEF PutShape, PutWith, Putting, Storing
  <2>4. /\ put[f].ctx.store \in Stores /\ (stale' = {} => put[f].ctx.rev = rev /\ put[f].ctx.store = active)
    BY <1>0, <2>2 DEF Putting, Storing, OfContext, Knows, PutFits
  <2>5. /\ stored' \in [Stores -> SUBSET Files] /\ (\A s \in Stores : stored[s] \subseteq stored'[s])
        /\ f \in stored'[put[f].ctx.store]
    BY <1>0, <1>2, <2>2, <2>4
  <2>6. (stale' = {} => PutFits(f, x)') /\ ~Quiet
    BY <1>0, <2>2, <2>3, <2>4, <2>5 DEF PutFits, Storing, Quiet, records
  <2> QED
    BY <1>1, <1>2, <2>2, <2>3, <2>5, <2>6 DEF Putting, Storing
<1>9. CASE Commit(f) \/ Abandoned(f)
  <2>1. PICK x : x = [NoPut EXCEPT !.pc = "done"]
    OBVIOUS
  <2>2. put' = [put EXCEPT ![f] = x] /\ sessions' = sessions \ {f}
        /\ UNCHANGED <<records, stored, lease, rt, adm, run, stale, skipped>>
        /\ \/ put[f].pc = "commit" /\ rows' = rows \cup {f} /\ ops' = ops \ {f}
           \/ rows' = rows /\ ops' = ops
    BY <1>9, <2>1 DEF Commit, Abandoned, history
  <2>3. x.pc = "done" /\ PutShape(x)
    BY <2>1 DEF NoPut, PutShape, PutWith, Putting, Storing
  <2>4. PutFits(f, x)' /\ x.pc \notin Storing
    BY <2>3 DEF PutFits, Storing
  <2>5. stale' = {} => rows' \subseteq rows \cup stored'[active]
    BY <1>0, <2>2 DEF PutFits
  <2>6. Quiet => rows' = rows /\ ops' = {}
    BY <2>2 DEF Quiet, Storing
  <2>7. rows' \subseteq Files /\ ops' \subseteq Uploads /\ sessions' \subseteq Uploads /\ rows \subseteq rows'
    BY <1>0, <1>2, <2>2
  <2> QED
    BY <1>1, <1>2, <2>2, <2>3, <2>4, <2>5, <2>6, <2>7 DEF Putting, Storing
<1> QED
  BY <1>3, <1>4, <1>5, <1>6, <1>7, <1>8, <1>9 DEF Upload

-------------------------------------------------------------------------------
(* The invariant holds in every state. *)
LEMMA StillInv ==
  ASSUME MigrationInv, UNCHANGED <<records, files, actors, stale>>, lease' \in NoneOr(Owners), skipped' \in BOOLEAN
  PROVE  MigrationInv'
<1>1. WindDown /\ run' = run
  BY Still DEF actors, WindDown
<1> QED
  BY <1>1, ActorEnds

LEMMA MigrationStarts == Init => MigrationInv
<1> SUFFICES ASSUME Init PROVE MigrationInv
  OBVIOUS
<1>1. /\ setting = None /\ active \in Stores /\ rev = 0 /\ cleanup = None /\ rows \subseteq stored[active]
      /\ stored \in [Stores -> SUBSET Files] /\ rows \subseteq Files /\ sessions = {} /\ ops = {} /\ lease = None
      /\ stale = {} /\ skipped = FALSE
  BY MigrationAssumption DEF Init
<1>2. /\ rt = [r \in Replicas |-> OffRuntime] /\ adm = [a \in Admins |-> NoCall]
      /\ run = [o \in Owners |-> NoRun] /\ put = [f \in Uploads |-> NoPut]
  BY DEF Init
<1>3. RtShape(OffRuntime) /\ OffRuntime.pc = "off" /\ OffRuntime.m = None /\ OffRuntime.owner = None
  BY DEF OffRuntime, RtShape, RtWith, NoneOr
<1>4. CallShape(NoCall) /\ NoCall.pc = "idle" /\ NoCall.m = None /\ NoCall.owner = None
  BY DEF NoCall, CallShape, CallWith, NoneOr, Taking
<1>5. RunShape(NoRun) /\ NoRun.pc = "none" /\ NoRun.m = None
  BY DEF NoRun, RunShape, RunWith, NoneOr, Working, PastDrain
<1>6. PutShape(NoPut) /\ NoPut.pc = "idle"
  BY DEF NoPut, PutShape, PutWith, Putting, Storing
<1> HIDE DEF OffRuntime, NoCall, NoRun, NoPut
<1>7. Shape
  <2>1. Settings
    BY <1>1 DEF Settings, NoneOr
  <2>2. Actors
    BY <1>2, <1>3, <1>4, <1>5, <1>6 DEF Actors
  <2> QED
    BY <2>1, <2>2 DEF Shape
<1>8. Contexts
  BY <1>2, <1>3, <1>4, <1>6 DEF Contexts, Putting, Storing
<1>9. Coherent
  <2>1. Copies = {}
    BY <1>1, <1>2, <1>3, <1>4, <1>5 DEF Copies
  <2> QED
    BY <2>1 DEF Coherent
<1>10. Apart
  BY <1>2, <1>3, <1>4 DEF Apart
<1>11. RecordInv
  BY <1>1, <1>2, <1>3, <1>4, <1>5 DEF RecordInv, Unwritten, Calls, CallFits, Runs, RunFits, CleanupFits, RecordFits,
                                      Working, PastDrain
<1>12. FilesInv
  BY <1>1, <1>2, <1>5, <1>6 DEF FilesInv, Puts, PutFits, Storing, PastDrain
<1> QED
  BY <1>7, <1>8, <1>9, <1>10, <1>11, <1>12 DEF MigrationInv

LEMMA MigrationStep == MigrationInv /\ [Next]_vars => MigrationInv'
<1> SUFFICES ASSUME MigrationInv, [Next]_vars PROVE MigrationInv'
  OBVIOUS
<1>0. lease \in NoneOr(Owners) /\ skipped \in BOOLEAN
  BY DEF MigrationInv, Shape, Settings
<1>1. ASSUME NEW r \in Replicas, Build(r) PROVE MigrationInv'
  BY <1>1, RuntimeBuilds, RuntimeRecovers, CleanupSteps, ResumeKeeps DEF Build
<1>2. ASSUME NEW a \in Admins, Work(a) PROVE MigrationInv'
  BY <1>2, CallWorks, BeginKeeps, CleanupSteps, CallWrites
<1>3. ASSUME NEW a \in Admins, NEW r \in Replicas, CallOf(a, r) PROVE MigrationInv'
  BY <1>3, CallBegins
<1>4. ASSUME NEW o \in Owners, Go(o) PROVE MigrationInv'
  BY <1>4, RunSteps, RunWriteSteps, RunCopies, RunReadsEnd, RunConcludes, CleanupSteps, EndSteps DEF Go
<1>5. ASSUME NEW o \in Owners, Trouble(o) PROVE MigrationInv'
  BY <1>5, RunSteps, EndSteps DEF Trouble
<1>6. ASSUME NEW f \in Uploads, Upload(f) \/ \E r \in Replicas : Enter(f, r) PROVE MigrationInv'
  BY <1>6, UploadKeeps
<1>7. CASE RunOut \/ Lose \/ UNCHANGED vars
  <2>1. UNCHANGED <<records, files, actors, stale, skipped>> /\ lease' \in {lease, None}
    BY <1>7 DEF RunOut, Lose, vars, records, files, actors, history
  <2> QED
    BY <1>0, <2>1, StillInv DEF NoneOr
<1>8. ASSUME NEW r \in Replicas, Crash(r) PROVE MigrationInv'
  BY <1>8, EndSteps
<1> QED
  BY <1>1, <1>2, <1>3, <1>4, <1>5, <1>6, <1>7, <1>8 DEF Next

(* The record, the settings, the files and the actors fit together in every state. *)
THEOREM MigrationInvariant == Spec => []MigrationInv
<1> QED
  BY MigrationStarts, MigrationStep, PTL DEF Spec

(* Every setting, file, call and run has its type (TypeOK), in every state. *)
THEOREM MigrationTypes == Spec => []TypeOK
<1>1. MigrationInv => TypeOK
  <2> SUFFICES ASSUME MigrationInv PROVE TypeOK
    OBVIOUS
  <2>1. Settings /\ Actors
    BY DEF MigrationInv, Shape
  <2>2. \A r \in Replicas : rt[r].store \in Stores \cup {None} /\ rt[r].m \in Migration \cup {None}
    BY <2>1 DEF Actors, RtShape, RtWith, NoneOr
  <2>3. \A a \in Admins : adm[a].m \in Migration \cup {None} /\ adm[a].owner \in Owners \cup {None}
    BY <2>1 DEF Actors, CallShape, CallWith, NoneOr
  <2>4. \A o \in Owners : run[o].m \in Migration \cup {None} /\ run[o].todo \subseteq Files
    BY <2>1 DEF Actors, RunShape, RunWith, NoneOr
  <2> QED
    BY <2>1, <2>2, <2>3, <2>4 DEF Settings, TypeOK, NoneOr
<1> QED
  BY <1>1, MigrationInvariant, PTL

(* Unless a write met a record or a revision that had changed, the record names the store *)
(* that serves: its destination once it has completed, its source until then (RecordFits). *)
THEOREM RecordAlwaysFits == Spec => []RecordFits
<1>1. MigrationInv => RecordFits
  BY DEF MigrationInv, RecordInv, RecordFits
<1> QED
  BY <1>1, MigrationInvariant, PTL

(* No file that a row names is ever missing from the store that serves, whatever uploads, *)
(* crashes and lost leases meet a migration, unless a write was decided on a record or a    *)
(* revision that had changed by the time it was made (ModelsServed).                        *)
THEOREM ModelsAlwaysServed == Spec => []ModelsServed
<1>1. MigrationInv => ModelsServed
  BY DEF MigrationInv, FilesInv, ModelsServed
<1> QED
  BY <1>1, MigrationInvariant, PTL
===============================================================================
