------------------------ MODULE RuntimeRegistryProofs ------------------------
(***************************************************************************)
(* Theorems about RuntimeRegistry, for all callers and situations.         *)
(***************************************************************************)
EXTENDS RuntimeRegistry, TLAPS, SequenceTheorems

-----------------------------------------------------------------------------
(* The inductive invariant, in parts. *)

Steps == {"idle", "asking", "answered", "waiting", "closing", "goes on", "again", "served"}

Creations == [gen : Nat, state : {"running", "done", "failed"}, revision : Nat]

Shape ==
  /\ creates \in Seq(Creations)
  /\ entry \in Asked \cup {None} /\ pending \in Asked \cup {None}
  /\ generation \in Nat /\ revision \in Nat
  /\ closedValues \subseteq Asked /\ overtaken \subseteq Asked
  /\ fresh \in BOOLEAN /\ shut \in BOOLEAN
  /\ proc \in [Procs -> [pc : Steps, of : Asked \cup {None}, gen : Nat, values : SUBSET Asked,
                         current : BOOLEAN, get : BOOLEAN]]

(* A creation that runs has somebody who will close or enter what it creates. *)
RunsForSomebody == \A c \in Asked : Running(c) =>
  \E p \in Procs : proc[p].pc \in {"waiting", "closing"} /\ proc[p].of = c

(* The generation of what is handed out, awaited or about to be closed. *)
Generations ==
  /\ entry # None => creates[entry].gen = generation
  /\ pending # None => creates[pending].gen = generation
  /\ \A p \in Procs : At(p, "waiting") =>
       proc[p].of \in Asked /\ proc[p].gen = creates[proc[p].of].gen /\ proc[p].gen <= generation
  /\ ~shut => /\ \A c \in closedValues : creates[c].gen < generation
              /\ \A p \in Procs : \A c \in proc[p].values : creates[c].gen < generation
              /\ \A p \in Procs : At(p, "closing") /\ proc[p].of # None => creates[proc[p].of].gen < generation

(* Nothing is pending over an entry that no get has overtaken. *)
NothingOver == pending # None => entry \in overtaken \cup {None}

(* A caller who still awaits a creation that is pending no more: it has    *)
(* settled and was entered or has failed, and what is pending has not.     *)
Late == \A p \in Procs :
  At(p, "waiting") /\ proc[p].gen = generation /\ pending # proc[p].of =>
    /\ ~Running(proc[p].of)
    /\ creates[proc[p].of].state = "done" => entry = proc[p].of
    /\ pending # None => Running(pending)

RegistryInv == Shape /\ RunsForSomebody /\ Generations /\ NothingOver /\ Late /\ NoneLost
-----------------------------------------------------------------------------
(* What was asked for is a creation. *)
LEMMA CreationsShape ==
  ASSUME Shape PROVE \A c \in Asked : creates[c] \in Creations
<1>1. creates \in Seq(Creations) BY DEF Shape
<1>2. creates \in [1..Len(creates) -> Creations] /\ Asked = 1..Len(creates) BY <1>1, LenProperties DEF Asked
<1> QED BY <1>2

LEMMA GenerationsAreNumbers ==
  ASSUME Shape PROVE \A c \in Asked : creates[c].gen \in Nat
BY CreationsShape DEF Creations

(* The records that a caller goes on with. *)
LEMMA WaitingRecord ==
  ASSUME NEW of, NEW gen
  PROVE  [Idle EXCEPT !.pc = "waiting", !.of = of, !.gen = gen]
           = [pc |-> "waiting", of |-> of, gen |-> gen, values |-> {}, current |-> FALSE, get |-> FALSE]
<1>1. ASSUME NEW rec, rec = [Idle EXCEPT !.pc = "waiting", !.of = of, !.gen = gen]
      PROVE  rec = [pc |-> "waiting", of |-> of, gen |-> gen, values |-> {}, current |-> FALSE, get |-> FALSE]
  BY <1>1 DEF Idle
<1> QED BY <1>1, Zenon

LEMMA HeldRecord ==
  ASSUME NEW pc, NEW of
  PROVE  [Idle EXCEPT !.pc = pc, !.of = of]
           = [pc |-> pc, of |-> of, gen |-> 0, values |-> {}, current |-> FALSE, get |-> FALSE]
<1>1. ASSUME NEW rec, rec = [Idle EXCEPT !.pc = pc, !.of = of]
      PROVE  rec = [pc |-> pc, of |-> of, gen |-> 0, values |-> {}, current |-> FALSE, get |-> FALSE]
  BY <1>1 DEF Idle
<1> QED BY <1>1, Zenon

LEMMA PlainRecord ==
  ASSUME NEW pc
  PROVE  [Idle EXCEPT !.pc = pc]
           = [pc |-> pc, of |-> None, gen |-> 0, values |-> {}, current |-> FALSE, get |-> FALSE]
<1>1. ASSUME NEW rec, rec = [Idle EXCEPT !.pc = pc]
      PROVE  rec = [pc |-> pc, of |-> None, gen |-> 0, values |-> {}, current |-> FALSE, get |-> FALSE]
  BY <1>1 DEF Idle
<1> QED BY <1>1, Zenon

LEMMA ClosingRecord ==
  ASSUME NEW of, NEW values, NEW get \in BOOLEAN
  PROVE  [Idle EXCEPT !.pc = "closing", !.of = of, !.values = values, !.get = get]
           = [pc |-> "closing", of |-> of, gen |-> 0, values |-> values, current |-> FALSE, get |-> get]
<1>1. ASSUME NEW rec, rec = [Idle EXCEPT !.pc = "closing", !.of = of, !.values = values, !.get = get]
      PROVE  rec = [pc |-> "closing", of |-> of, gen |-> 0, values |-> values, current |-> FALSE, get |-> get]
  BY <1>1 DEF Idle
<1> QED BY <1>1, Zenon

(* A caller joins the creation under way, or begins one. *)
LEMMA JoinKeeps ==
  ASSUME None \notin Nat, RegistryInv, NEW p \in Procs, proc[p].pc \notin {"waiting", "closing"}, Join(p),
         overtaken' = overtaken \cup ({entry} \ {None}), UNCHANGED revision
  PROVE  RegistryInv'
<1> USE DEF RegistryInv, Shape
<1> DEFINE c == IF pending # None THEN pending ELSE Len(creates) + 1
           new == [gen |-> generation, state |-> "running", revision |-> revision]
           mine == [pc |-> "waiting", of |-> c, gen |-> generation, values |-> {}, current |-> FALSE, get |-> FALSE]
<1>1. (pending # None /\ creates[pending].gen = generation) <=> pending # None BY DEF Generations
<1>2. /\ creates' = IF pending # None THEN creates ELSE Append(creates, new)
      /\ pending' = c /\ UNCHANGED <<entry, fresh, generation, closedValues, shut>>
  BY <1>1 DEF Join
<1>3. proc' = [proc EXCEPT ![p] = mine]
  <2>1. proc' = [proc EXCEPT ![p] = [Idle EXCEPT !.pc = "waiting", !.of = c, !.gen = generation]] BY <1>1, Zenon DEF Join
  <2>2. [Idle EXCEPT !.pc = "waiting", !.of = c, !.gen = generation] = mine BY WaitingRecord, Zenon
  <2> QED BY <2>1, <2>2, Zenon
<1>4. /\ creates' \in Seq(Creations)
      /\ Asked' = Asked \cup {c} /\ \A d \in Asked : creates'[d] = creates[d]
      /\ creates'[c].gen = generation /\ (pending = None => c \notin Asked /\ creates'[c] = new)
  <2>1. CASE pending # None BY <1>2, <2>1 DEF Asked, Generations
  <2>2. CASE pending = None
    <3>1. new \in Creations BY DEF Creations
    <3> HIDE DEF new
    <3>2. /\ creates' \in Seq(Creations)
          /\ Len(creates') = Len(creates) + 1
          /\ \A d \in 1..Len(creates) : creates'[d] = creates[d]
          /\ creates'[Len(creates) + 1] = new
      BY <1>2, <2>2, <3>1, AppendProperties
    <3>3. c = Len(creates) + 1 /\ Asked = 1..Len(creates) /\ Asked' = 1..Len(creates')
      BY <2>2, <3>2 DEF Asked
    <3>4. new.gen = generation BY DEF new
    <3> QED BY <3>2, <3>3, <3>4
  <2> QED BY <2>1, <2>2
<1> DEFINE old(q) == proc'[q] = proc[q]
<1>5. (\A q \in Procs \ {p} : old(q)) /\ proc'[p] = mine BY <1>3
<1>6. Shape'
  <2>1. mine \in [pc : Steps, of : Asked' \cup {None}, gen : Nat, values : SUBSET Asked',
                  current : BOOLEAN, get : BOOLEAN]
    BY <1>4 DEF Steps
  <2> HIDE DEF mine
  <2>2. proc' \in [Procs -> [pc : Steps, of : Asked' \cup {None}, gen : Nat, values : SUBSET Asked',
                             current : BOOLEAN, get : BOOLEAN]]
    BY <1>3, <1>4, <2>1
  <2> QED BY <1>2, <1>4, <2>2
<1>7. /\ mine.pc = "waiting" /\ mine.of = c /\ mine.gen = generation /\ mine.values = {}
      /\ new.state = "running"
  OBVIOUS
<1>8. /\ pending # None => c = pending
      /\ c \in Nat /\ Asked \subseteq Nat
  BY DEF Asked
<1> HIDE DEF c, mine, new
<1>9. RunsForSomebody'
  <2> SUFFICES ASSUME NEW d \in Asked', creates'[d].state = "running"
               PROVE  \E q \in Procs : proc'[q].pc \in {"waiting", "closing"} /\ proc'[q].of = d
    BY DEF RunsForSomebody, Running
  <2>1. CASE d = c BY <1>5, <1>7, <2>1
  <2>2. CASE d # c
    <3>1. d \in Asked /\ creates[d].state = "running" BY <1>4, <2>2
    <3>2. PICK q \in Procs : proc[q].pc \in {"waiting", "closing"} /\ proc[q].of = d
      BY <3>1 DEF RunsForSomebody, Running
    <3> QED BY <1>5, <3>2
  <2> QED BY <2>1, <2>2
<1>10. Generations'
  <2>1. entry' # None => creates'[entry'].gen = generation' BY <1>2, <1>4 DEF Generations
  <2>2. pending' # None => creates'[pending'].gen = generation' BY <1>2, <1>4
  <2>3. \A q \in Procs : proc'[q].pc = "waiting" =>
          proc'[q].of \in Asked' /\ proc'[q].gen = creates'[proc'[q].of].gen /\ proc'[q].gen <= generation'
    <3> SUFFICES ASSUME NEW q \in Procs, proc'[q].pc = "waiting"
                 PROVE  proc'[q].of \in Asked' /\ proc'[q].gen = creates'[proc'[q].of].gen /\ proc'[q].gen <= generation'
      OBVIOUS
    <3>1. CASE q = p
      <4>1. generation <= generation' BY <1>2
      <4> QED BY <1>4, <1>5, <1>7, <3>1, <4>1
    <3>2. CASE q # p
      <4>1. proc'[q] = proc[q] BY <1>5, <3>2
      <4>2. proc[q].of \in Asked /\ proc[q].gen = creates[proc[q].of].gen /\ proc[q].gen <= generation
        BY <4>1 DEF Generations, At
      <4> QED BY <1>2, <1>4, <4>1, <4>2
    <3> QED BY <3>1, <3>2
  <2>4. ASSUME ~shut' PROVE
          /\ \A d \in closedValues' : creates'[d].gen < generation'
          /\ \A q \in Procs : \A d \in proc'[q].values : creates'[d].gen < generation'
          /\ \A q \in Procs : proc'[q].pc = "closing" /\ proc'[q].of # None => creates'[proc'[q].of].gen < generation'
    <3>1. \A d \in closedValues' : creates'[d].gen < generation' BY <1>2, <1>4, <2>4 DEF Generations
    <3>2. ASSUME NEW q \in Procs, NEW d \in proc'[q].values PROVE creates'[d].gen < generation'
      <4>1. q # p /\ d \in proc[q].values BY <1>5, <1>7, <3>2
      <4> QED BY <1>2, <1>4, <2>4, <4>1 DEF Generations
    <3>3. ASSUME NEW q \in Procs, proc'[q].pc = "closing", proc'[q].of # None
          PROVE  creates'[proc'[q].of].gen < generation'
      <4>1. q # p /\ proc'[q] = proc[q] BY <1>5, <1>7, <3>3
      <4>2. proc[q].of \in Asked /\ creates[proc[q].of].gen < generation
        BY <1>2, <2>4, <3>3, <4>1, Zenon DEF Generations, At, TypeOK
      <4> QED BY <1>2, <1>4, <4>1, <4>2
    <3> QED BY <3>1, <3>2, <3>3
  <2> QED BY <2>1, <2>2, <2>3, <2>4 DEF Generations, At
<1>11. NothingOver' BY <1>2 DEF NothingOver
<1>12. Late'
  <2> SUFFICES ASSUME NEW q \in Procs, proc'[q].pc = "waiting", proc'[q].gen = generation', pending' # proc'[q].of
               PROVE  /\ creates'[proc'[q].of].state # "running"
                      /\ creates'[proc'[q].of].state = "done" => entry' = proc'[q].of
                      /\ pending' # None => creates'[pending'].state = "running"
    BY DEF Late, At, Running
  <2>1. q # p /\ proc'[q] = proc[q] BY <1>2, <1>5, <1>7
  <2>2. proc[q].of \in Asked /\ pending # proc[q].of BY <1>2, <1>8, <2>1 DEF Generations, At
  <2>3. /\ creates[proc[q].of].state # "running"
        /\ creates[proc[q].of].state = "done" => entry = proc[q].of
        /\ pending # None => creates[pending].state = "running"
    BY <1>2, <2>1, <2>2 DEF Late, At, Running
  <2>4. creates'[pending'].state = "running"
    <3>1. CASE pending = None BY <1>2, <1>4, <1>7, <3>1
    <3>2. CASE pending # None
      <4>1. pending' = pending /\ pending \in Asked BY <1>2, <1>8, <3>2
      <4> QED BY <1>4, <2>3, <3>2, <4>1
    <3> QED BY <3>1, <3>2
  <2> QED BY <1>2, <1>4, <2>1, <2>2, <2>3, <2>4
<1>13. NoneLost'
  <2>1. shut' => entry' = None BY <1>2 DEF NoneLost
  <2>2. ASSUME NEW d \in Asked' \ overtaken', creates'[d].state = "done"
        PROVE  \/ d \in closedValues' \/ d = entry'
               \/ \E q \in Procs : \/ proc'[q].pc \in {"waiting", "closing"} /\ proc'[q].of = d
                                   \/ proc'[q].pc = "closing" /\ d \in proc'[q].values
    <3>1. CASE d = c BY <1>5, <1>7, <3>1
    <3>2. CASE d # c
      <4>1. d \in Asked \ overtaken /\ creates[d].state = "done" BY <1>4, <2>2, <3>2
      <4>2. \A q \in Procs \ {p} : proc'[q] = proc[q] BY <1>5
      <4> QED BY <1>2, <4>1, <4>2, Zenon DEF NoneLost
    <3> QED BY <3>1, <3>2
  <2> QED BY <2>1, <2>2 DEF NoneLost
<1> QED BY <1>6, <1>9, <1>10, <1>11, <1>12, <1>13

(* A caller who awaits no runtime goes on, and the registry stays as it is. *)
LEMMA MoveKeeps ==
  ASSUME RegistryInv, NEW p \in Procs, NEW rec, proc' = [proc EXCEPT ![p] = rec],
         rec \in [pc : Steps, of : Asked \cup {None}, gen : Nat, values : SUBSET Asked,
                  current : BOOLEAN, get : BOOLEAN],
         proc[p].pc \notin {"waiting", "closing"}, rec.pc \notin {"waiting", "closing"},
         rec.values \subseteq proc[p].values, fresh' \in BOOLEAN,
         UNCHANGED <<creates, entry, pending, generation, closedValues, shut, revision, overtaken>>
  PROVE  RegistryInv'
<1> USE DEF RegistryInv, Shape
<1>1. Asked' = Asked /\ (\A q \in Procs \ {p} : proc'[q] = proc[q]) /\ proc'[p] = rec BY DEF Asked
<1>2. Shape' BY <1>1
<1>3. RunsForSomebody'
  <2> SUFFICES ASSUME NEW d \in Asked, creates[d].state = "running"
               PROVE  \E q \in Procs : proc'[q].pc \in {"waiting", "closing"} /\ proc'[q].of = d
    BY <1>1 DEF RunsForSomebody, Running
  <2>1. PICK q \in Procs : proc[q].pc \in {"waiting", "closing"} /\ proc[q].of = d
    BY DEF RunsForSomebody, Running
  <2> QED BY <1>1, <2>1
<1>4. Generations'
  <2>1. ASSUME NEW q \in Procs, proc'[q].pc \in {"waiting", "closing"} PROVE proc'[q] = proc[q] BY <1>1, <2>1
  <2>2. ASSUME NEW q \in Procs PROVE proc'[q].values \subseteq proc[q].values BY <1>1, <2>2
  <2> QED BY <1>1, <2>1, <2>2, Zenon DEF Generations, At
<1>5. NothingOver' BY DEF NothingOver
<1>6. Late'
  <2>1. ASSUME NEW q \in Procs, proc'[q].pc = "waiting" PROVE proc'[q] = proc[q] BY <1>1, <2>1
  <2> QED BY <2>1, Zenon DEF Late, At, Running
<1>7. NoneLost'
  <2>1. \A q \in Procs : proc[q].pc \in {"waiting", "closing"} => proc'[q] = proc[q] BY <1>1
  <2>2. \A q \in Procs : proc[q].pc = "closing" => proc'[q] = proc[q] BY <1>1
  <2> QED BY <1>1, <2>1, <2>2, Zenon DEF NoneLost
<1> QED BY <1>2, <1>3, <1>4, <1>5, <1>6, <1>7

(* invalidate, up to its first await, keeps the invariant. *)
LEMMA InvalidatedKeeps ==
  ASSUME None \notin Nat, RegistryInv, NEW p \in Procs, proc[p].pc \notin {"waiting", "closing"},
         NEW get \in BOOLEAN, Invalidated(p, get), shut' \in BOOLEAN, shut => shut',
         UNCHANGED <<revision, overtaken>>
  PROVE  RegistryInv'
<1> USE DEF RegistryInv, Shape
<1> DEFINE mine == [pc |-> "closing", of |-> pending, gen |-> 0, values |-> {entry} \ {None},
                    current |-> FALSE, get |-> get]
<1>1. /\ generation' = generation + 1 /\ pending' = None /\ entry' = None
      /\ UNCHANGED <<creates, fresh, closedValues>>
  BY DEF Invalidated
<1>2. proc' = [proc EXCEPT ![p] = mine]
  <2>1. proc' = [proc EXCEPT ![p] = [Idle EXCEPT !.pc = "closing", !.of = pending,
       !.values = {entry} \ {None}, !.get = get]]
    BY Zenon DEF Invalidated
  <2>2. [Idle EXCEPT !.pc = "closing", !.of = pending, !.values = {entry} \ {None}, !.get = get] = mine
    BY ClosingRecord, Zenon
  <2> QED BY <2>1, <2>2, Zenon
<1>3. /\ mine.pc = "closing" /\ mine.of = pending /\ mine.values = {entry} \ {None}
      /\ mine \in [pc : Steps, of : Asked \cup {None}, gen : Nat, values : SUBSET Asked,
                   current : BOOLEAN, get : BOOLEAN]
  BY DEF Steps
<1> HIDE DEF mine
<1>4. Asked' = Asked /\ (\A q \in Procs \ {p} : proc'[q] = proc[q]) /\ proc'[p] = mine BY <1>1, <1>2 DEF Asked
<1>5. Shape' BY <1>1, <1>2, <1>3, <1>4
<1>6. RunsForSomebody'
  <2> SUFFICES ASSUME NEW d \in Asked, creates[d].state = "running"
               PROVE  \E q \in Procs : proc'[q].pc \in {"waiting", "closing"} /\ proc'[q].of = d
    BY <1>1, <1>4 DEF RunsForSomebody, Running
  <2>1. PICK q \in Procs : proc[q].pc \in {"waiting", "closing"} /\ proc[q].of = d
    BY DEF RunsForSomebody, Running
  <2> QED BY <1>4, <2>1
<1>7. \A q \in Procs : proc[q].pc \in {"waiting", "closing"} => proc'[q] = proc[q] BY <1>4
<1>8. ASSUME NEW q \in Procs, proc'[q].pc = "waiting" PROVE q # p /\ proc'[q] = proc[q] BY <1>3, <1>4, <1>8
<1>9. Generations'
  <2>1. \A q \in Procs : proc'[q].pc = "waiting" =>
          proc'[q].of \in Asked' /\ proc'[q].gen = creates'[proc'[q].of].gen /\ proc'[q].gen <= generation'
    <3> SUFFICES ASSUME NEW q \in Procs, proc'[q].pc = "waiting"
                 PROVE  proc'[q].of \in Asked' /\ proc'[q].gen = creates'[proc'[q].of].gen /\ proc'[q].gen <= generation'
      OBVIOUS
    <3>1. /\ proc'[q] = proc[q] /\ proc[q].of \in Asked /\ proc[q].gen = creates[proc[q].of].gen
          /\ proc[q].gen <= generation
      BY <1>8, Zenon DEF Generations, At
    <3> QED BY <1>1, <1>4, <3>1
  <2>2. ASSUME ~shut' PROVE
          /\ \A d \in closedValues' : creates'[d].gen < generation'
          /\ \A q \in Procs : \A d \in proc'[q].values : creates'[d].gen < generation'
          /\ \A q \in Procs : proc'[q].pc = "closing" /\ proc'[q].of # None => creates'[proc'[q].of].gen < generation'
    <3>1. \A d \in Asked : creates[d].gen \in Nat BY GenerationsAreNumbers
    <3>2. \A d \in Asked : creates[d].gen < generation => creates'[d].gen < generation' BY <1>1, <3>1
    <3>3. \A d \in closedValues' : creates'[d].gen < generation' BY <1>1, <2>2, <3>2 DEF Generations
    <3>4. ASSUME NEW q \in Procs, NEW d \in proc'[q].values PROVE creates'[d].gen < generation'
      <4>1. CASE q = p
        <5>1. d = entry /\ entry # None BY <1>3, <1>4, <3>4, <4>1
        <5> QED BY <1>1, <5>1 DEF Generations
      <4>2. CASE q # p
        <5>1. d \in proc[q].values /\ d \in Asked BY <1>4, <3>4, <4>2
        <5> QED BY <2>2, <3>2, <5>1 DEF Generations
      <4> QED BY <4>1, <4>2
    <3>5. ASSUME NEW q \in Procs, proc'[q].pc = "closing", proc'[q].of # None
          PROVE  creates'[proc'[q].of].gen < generation'
      <4>1. CASE q = p
        <5>1. proc'[q].of = pending /\ pending # None BY <1>3, <1>4, <3>5, <4>1
        <5> QED BY <1>1, <5>1 DEF Generations
      <4>2. CASE q # p
        <5>1. proc'[q] = proc[q] /\ proc[q].of \in Asked BY <1>4, <3>5, <4>2
        <5>2. creates[proc[q].of].gen < generation BY <2>2, <3>5, <5>1, Zenon DEF Generations, At
        <5> QED BY <3>2, <5>1, <5>2
      <4> QED BY <4>1, <4>2
    <3> QED BY <3>3, <3>4, <3>5
  <2> QED BY <1>1, <2>1, <2>2 DEF Generations, At
<1>10. NothingOver' BY <1>1 DEF NothingOver
<1>11. Late'
  <2> SUFFICES ASSUME NEW q \in Procs, proc'[q].pc = "waiting", proc'[q].gen = generation' PROVE FALSE
    BY DEF Late, At
  <2>1. proc'[q] = proc[q] /\ proc[q].gen <= generation BY <1>8, Zenon DEF Generations, At
  <2>2. proc[q].gen \in Nat OBVIOUS
  <2> QED BY <1>1, <2>1, <2>2
<1>12. NoneLost'
  <2>1. ASSUME NEW d \in Asked \ overtaken, creates[d].state = "done"
        PROVE  \/ d \in closedValues'
               \/ \E q \in Procs : \/ proc'[q].pc \in {"waiting", "closing"} /\ proc'[q].of = d
                                   \/ proc'[q].pc = "closing" /\ d \in proc'[q].values
    <3>1. CASE d = entry
      <4>1. entry # None BY <3>1 DEF Asked
      <4>2. proc'[p].pc = "closing" /\ d \in proc'[p].values BY <1>3, <1>4, <3>1, <4>1
      <4> QED BY <4>2
    <3>2. CASE d # entry
      <4>1. \A q \in Procs : proc[q].pc = "closing" => proc'[q] = proc[q] BY <1>7
      <4> QED BY <1>1, <1>7, <2>1, <3>2, <4>1, Zenon DEF NoneLost
    <3> QED BY <3>1, <3>2
  <2> QED BY <1>1, <1>4, <2>1, Zenon DEF NoneLost
<1> QED BY <1>5, <1>6, <1>9, <1>10, <1>11, <1>12

(* The rest of invalidate, which closes what it took, keeps the invariant. *)
LEMMA ClosingKeeps ==
  ASSUME None \notin Nat, RegistryInv, NEW p \in Procs, Closing(p)
  PROVE  RegistryInv'
<1> USE DEF RegistryInv, Shape
<1> DEFINE c == proc[p].of
           mine == [pc |-> IF proc[p].get THEN "goes on" ELSE "idle", of |-> None, gen |-> 0, values |-> {},
                    current |-> FALSE, get |-> FALSE]
<1>1. /\ At(p, "closing") /\ (c # None => ~Running(c))
      /\ closedValues' = closedValues \cup proc[p].values
           \cup (IF c # None /\ creates[c].state = "done" THEN {c} ELSE {})
      /\ UNCHANGED <<creates, entry, fresh, pending, generation, shut, revision, overtaken>>
  BY DEF Closing
<1>2. proc' = [proc EXCEPT ![p] = mine]
  <2>1. Idle = [pc |-> "idle", of |-> None, gen |-> 0, values |-> {}, current |-> FALSE, get |-> FALSE] BY DEF Idle
  <2>2. [Idle EXCEPT !.pc = "goes on"]
          = [pc |-> "goes on", of |-> None, gen |-> 0, values |-> {}, current |-> FALSE, get |-> FALSE]
    BY PlainRecord, Zenon
  <2> QED BY <2>1, <2>2 DEF Closing
<1>3. mine.pc \in {"goes on", "idle"} /\ mine.of = None /\ mine.values = {}
      /\ mine \in [pc : Steps, of : Asked \cup {None}, gen : Nat, values : SUBSET Asked,
                   current : BOOLEAN, get : BOOLEAN]
  BY DEF Steps
<1> HIDE DEF mine
<1>4. Asked' = Asked /\ (\A q \in Procs \ {p} : proc'[q] = proc[q]) /\ proc'[p] = mine BY <1>1, <1>2 DEF Asked
<1>5. Shape' BY <1>1, <1>2, <1>3, <1>4
<1>6. \A q \in Procs : proc'[q].pc \in {"waiting", "closing"} => q # p /\ proc'[q] = proc[q] BY <1>3, <1>4
<1>7. RunsForSomebody'
  <2> SUFFICES ASSUME NEW d \in Asked, creates[d].state = "running"
               PROVE  \E q \in Procs : proc'[q].pc \in {"waiting", "closing"} /\ proc'[q].of = d
    BY <1>1, <1>4 DEF RunsForSomebody, Running
  <2>1. PICK q \in Procs : proc[q].pc \in {"waiting", "closing"} /\ proc[q].of = d
    BY DEF RunsForSomebody, Running
  <2>2. d # None BY DEF Asked
  <2>3. q # p BY <1>1, <2>1, <2>2 DEF Running
  <2> QED BY <1>4, <2>1, <2>3
<1>8. Generations'
  <2>1. \A q \in Procs : proc'[q].pc = "waiting" =>
          proc'[q].of \in Asked' /\ proc'[q].gen = creates'[proc'[q].of].gen /\ proc'[q].gen <= generation'
    BY <1>1, <1>4, <1>6, Zenon DEF Generations, At
  <2>2. ASSUME ~shut' PROVE
          /\ \A d \in closedValues' : creates'[d].gen < generation'
          /\ \A q \in Procs : \A d \in proc'[q].values : creates'[d].gen < generation'
          /\ \A q \in Procs : proc'[q].pc = "closing" /\ proc'[q].of # None => creates'[proc'[q].of].gen < generation'
    <3>1. ~shut BY <1>1, <2>2
    <3>2. \A d \in proc[p].values : creates[d].gen < generation BY <3>1, Zenon DEF Generations
    <3>3. c # None => creates[c].gen < generation BY <1>1, <3>1, Zenon DEF Generations
    <3>4. \A d \in closedValues : creates[d].gen < generation BY <3>1, Zenon DEF Generations
    <3>5. \A d \in closedValues' : d \in closedValues \/ d \in proc[p].values \/ (d = c /\ c # None) BY <1>1
    <3>6. \A d \in closedValues' : creates'[d].gen < generation' BY <1>1, <3>2, <3>3, <3>4, <3>5, Zenon
    <3>7. \A q \in Procs : \A d \in proc'[q].values : d \in proc[q].values BY <1>3, <1>4
    <3>8. \A q \in Procs : \A d \in proc'[q].values : creates'[d].gen < generation'
      BY <1>1, <3>1, <3>7, Zenon DEF Generations
    <3>9. \A q \in Procs : proc'[q].pc = "closing" /\ proc'[q].of # None => creates'[proc'[q].of].gen < generation'
      BY <1>1, <1>6, <3>1, Zenon DEF Generations, At
    <3> QED BY <3>6, <3>8, <3>9
  <2> QED BY <1>1, <2>1, <2>2 DEF Generations, At
<1>9. NothingOver' BY <1>1 DEF NothingOver
<1>10. Late' BY <1>1, <1>6, Zenon DEF Late, At, Running
<1>11. NoneLost'
  <2>1. ASSUME NEW d \in Asked \ overtaken, creates[d].state = "done"
        PROVE  \/ d \in closedValues' \/ d = entry
               \/ \E q \in Procs : \/ proc'[q].pc \in {"waiting", "closing"} /\ proc'[q].of = d
                                   \/ proc'[q].pc = "closing" /\ d \in proc'[q].values
    <3>1. CASE d \in closedValues \/ d = entry BY <1>1, <3>1
    <3>2. ASSUME NEW q \in Procs, \/ proc[q].pc \in {"waiting", "closing"} /\ proc[q].of = d
                                  \/ proc[q].pc = "closing" /\ d \in proc[q].values
          PROVE  \/ d \in closedValues'
                 \/ \E r \in Procs : \/ proc'[r].pc \in {"waiting", "closing"} /\ proc'[r].of = d
                                     \/ proc'[r].pc = "closing" /\ d \in proc'[r].values
      <4>1. CASE q = p
        <5>1. d # None BY DEF Asked
        <5> QED BY <1>1, <2>1, <3>2, <4>1, <5>1
      <4>2. CASE q # p
        <5>1. proc'[q] = proc[q] BY <1>4, <4>2
        <5> QED BY <3>2, <5>1, Zenon
      <4> QED BY <4>1, <4>2
    <3> QED BY <2>1, <3>1, <3>2, Zenon DEF NoneLost
  <2> QED BY <1>1, <1>4, <2>1, Zenon DEF NoneLost
<1> QED BY <1>5, <1>7, <1>8, <1>9, <1>10, <1>11

(* A creation that settles keeps the invariant. *)
LEMMA CreatedKeeps ==
  ASSUME None \notin Nat, RegistryInv, NEW c \in Asked, Created(c)
  PROVE  RegistryInv'
<1> USE DEF RegistryInv, Shape
<1>1. /\ creates[c].state = "running"
      /\ \A p \in Procs : proc[p].pc = "waiting" => creates[proc[p].of].state = "running"
      /\ UNCHANGED <<entry, fresh, pending, generation, closedValues, shut, revision, overtaken, proc>>
  BY DEF Created, Running, At
<1>2. PICK new \in {"done", "failed"} : creates' = [creates EXCEPT ![c].state = new] BY DEF Created
<1>3. /\ creates' \in Seq(Creations) /\ Asked' = Asked
      /\ \A d \in Asked : creates'[d] = IF d = c THEN [creates[c] EXCEPT !.state = new] ELSE creates[d]
  <2>1. c \in 1..Len(creates) /\ Asked = 1..Len(creates) BY DEF Asked
  <2>2. creates[c] \in Creations BY CreationsShape
  <2>3. [creates[c] EXCEPT !.state = new] \in Creations BY <2>2 DEF Creations
  <2> QED BY <1>2, <2>1, <2>3, ExceptSeq DEF Asked
<1>4. \A d \in Asked : creates'[d].gen = creates[d].gen
  <2> SUFFICES ASSUME NEW d \in Asked PROVE creates'[d].gen = creates[d].gen OBVIOUS
  <2>1. creates[d] \in Creations BY CreationsShape
  <2> QED BY <1>3, <2>1 DEF Creations
<1>5. creates'[c].state = new /\ \A d \in Asked \ {c} : creates'[d] = creates[d]
  <2>1. creates[c] \in Creations BY CreationsShape
  <2> QED BY <1>3, <2>1 DEF Creations
<1>6. Shape' BY <1>1, <1>3
<1>7. RunsForSomebody' BY <1>1, <1>3, <1>5 DEF RunsForSomebody, Running
<1>8. Generations'
  <2>1. entry' # None => creates'[entry'].gen = generation' BY <1>1, <1>4 DEF Generations
  <2>2. pending' # None => creates'[pending'].gen = generation' BY <1>1, <1>4 DEF Generations
  <2>3. \A q \in Procs : proc'[q].pc = "waiting" =>
          proc'[q].of \in Asked' /\ proc'[q].gen = creates'[proc'[q].of].gen /\ proc'[q].gen <= generation'
    BY <1>1, <1>3, <1>4, Zenon DEF Generations, At
  <2>4. ASSUME ~shut' PROVE
          /\ \A d \in closedValues' : creates'[d].gen < generation'
          /\ \A q \in Procs : \A d \in proc'[q].values : creates'[d].gen < generation'
          /\ \A q \in Procs : proc'[q].pc = "closing" /\ proc'[q].of # None => creates'[proc'[q].of].gen < generation'
    <3>1. ~shut BY <1>1, <2>4
    <3>2. \A d \in closedValues' : creates'[d].gen < generation' BY <1>1, <1>4, <3>1 DEF Generations
    <3>3. \A q \in Procs : \A d \in proc'[q].values : creates'[d].gen < generation'
      <4>1. \A q \in Procs : \A d \in proc[q].values : d \in Asked OBVIOUS
      <4> QED BY <1>1, <1>4, <3>1, <4>1, Zenon DEF Generations
    <3>4. \A q \in Procs : proc'[q].pc = "closing" /\ proc'[q].of # None => creates'[proc'[q].of].gen < generation'
      <4>1. \A q \in Procs : proc[q].of # None => proc[q].of \in Asked OBVIOUS
      <4> QED BY <1>1, <1>4, <3>1, <4>1, Zenon DEF Generations, At
    <3> QED BY <3>2, <3>3, <3>4
  <2> QED BY <2>1, <2>2, <2>3, <2>4 DEF Generations, At
<1>9. NothingOver' BY <1>1 DEF NothingOver
<1>10. Late' BY <1>1, Zenon DEF Late, At, Running
<1>11. NoneLost'
  <2>1. PICK p \in Procs : proc[p].pc \in {"waiting", "closing"} /\ proc[p].of = c
    BY <1>1, Zenon DEF RunsForSomebody, Running
  <2>2. \A d \in Asked' \ overtaken' : creates'[d].state = "done" => d = c \/ creates[d].state = "done"
    BY <1>3, <1>5
  <2> QED BY <1>1, <1>3, <2>1, <2>2, Zenon DEF NoneLost
<1> QED BY <1>6, <1>7, <1>8, <1>9, <1>10, <1>11

(* What arrives is entered in the place of no runtime that must not be lost. *)
LEMMA EnteredOver ==
  ASSUME None \notin Nat, RegistryInv, NEW p \in Procs, At(p, "waiting"), ~Running(proc[p].of),
         proc[p].gen = generation
  PROVE  \/ pending = proc[p].of /\ entry \in overtaken \cup {None}
         \/ pending # proc[p].of /\ (creates[proc[p].of].state = "done" => entry = proc[p].of)
<1>1. CASE pending = proc[p].of
  <2>1. proc[p].of \in Asked BY Zenon DEF RegistryInv, Generations
  <2>2. pending # None BY <1>1, <2>1 DEF RegistryInv, Shape, Asked
  <2> QED BY <1>1, <2>2 DEF RegistryInv, NothingOver
<1>2. CASE pending # proc[p].of BY <1>2, Zenon DEF RegistryInv, Late
<1> QED BY <1>1, <1>2

(* A caller goes on after its await: what it awaited has failed, is closed *)
(* as out of date, or is entered.                                          *)
LEMMA ArriveKeeps ==
  ASSUME None \notin Nat, RegistryInv, NEW p \in Procs, Arrive(p)
  PROVE  RegistryInv'
<1> USE DEF RegistryInv, Shape
<1> DEFINE c == proc[p].of
           outdated == shut \/ generation # proc[p].gen
           entered == creates[c].state = "done" /\ ~outdated
<1>1. /\ proc[p].pc = "waiting" /\ creates[c].state # "running"
      /\ UNCHANGED <<creates, generation, shut, revision, overtaken>>
  BY DEF Arrive, At, Running
<1>2. c \in Asked /\ c # None /\ proc[p].gen = creates[c].gen /\ proc[p].gen <= generation /\ proc[p].gen \in Nat
  <2>1. c \in Asked /\ proc[p].gen = creates[c].gen /\ proc[p].gen <= generation BY <1>1, Zenon DEF Generations, At
  <2> QED BY <2>1 DEF Asked
<1>3. PICK mine : /\ proc' = [proc EXCEPT ![p] = mine]
                  /\ mine.pc \notin {"waiting", "closing"} /\ mine.values = {}
                  /\ mine \in [pc : Steps, of : Asked \cup {None}, gen : Nat, values : SUBSET Asked,
                               current : BOOLEAN, get : BOOLEAN]
  <2> DEFINE Fits(rec) == /\ rec.pc \notin {"waiting", "closing"} /\ rec.values = {}
                          /\ rec \in [pc : Steps, of : Asked \cup {None}, gen : Nat, values : SUBSET Asked,
                                      current : BOOLEAN, get : BOOLEAN]
  <2>1. Fits(Idle) BY DEF Idle, Steps
  <2>2. Fits([pc |-> "again", of |-> None, gen |-> 0, values |-> {}, current |-> FALSE, get |-> FALSE]) BY DEF Steps
  <2>3. Fits([pc |-> "served", of |-> c, gen |-> 0, values |-> {}, current |-> FALSE, get |-> FALSE])
    BY <1>2 DEF Steps
  <2>4. Fits([Idle EXCEPT !.pc = "again"]) BY <2>2, PlainRecord
  <2>5. Fits([Idle EXCEPT !.pc = "served", !.of = c]) BY <2>3, HeldRecord
  <2> HIDE DEF Fits
  <2>6. \E rec : proc' = [proc EXCEPT ![p] = rec] /\ Fits(rec)
    BY <2>1, <2>4, <2>5, Zenon DEF Arrive, Serve
  <2> QED BY <2>6 DEF Fits
<1>4. /\ closedValues' = IF creates[c].state = "done" /\ outdated THEN closedValues \cup {c} ELSE closedValues
      /\ entry' = IF entered THEN c ELSE entry
      /\ fresh' \in BOOLEAN
      /\ pending' = IF pending = c /\ ~(creates[c].state = "done" /\ outdated) THEN None ELSE pending
  <2>1. CASE creates[c].state = "failed" BY <2>1 DEF Arrive, Forget
  <2>2. CASE creates[c].state = "done" /\ outdated BY <2>2 DEF Arrive
  <2>3. CASE creates[c].state = "done" /\ ~outdated BY <2>3 DEF Arrive, Forget
  <2> QED BY <2>1, <2>2, <2>3 DEF Arrive
<1>5. Asked' = Asked /\ (\A q \in Procs \ {p} : proc'[q] = proc[q]) /\ proc'[p] = mine BY <1>1, <1>3 DEF Asked
<1>6. ~outdated => proc[p].gen = generation OBVIOUS
<1>7. entered => \/ pending = c /\ entry \in overtaken \cup {None}
                 \/ pending # c /\ entry = c
  BY <1>1, EnteredOver DEF At, Running
<1>8. Shape' BY <1>1, <1>2, <1>3, <1>4, <1>5
<1> HIDE DEF c, outdated
<1>9. \A q \in Procs : proc'[q].pc \in {"waiting", "closing"} => q # p /\ proc'[q] = proc[q] BY <1>3, <1>5
<1>10. RunsForSomebody'
  <2> SUFFICES ASSUME NEW d \in Asked, creates[d].state = "running"
               PROVE  \E q \in Procs : proc'[q].pc \in {"waiting", "closing"} /\ proc'[q].of = d
    BY <1>1, <1>5 DEF RunsForSomebody, Running
  <2>1. PICK q \in Procs : proc[q].pc \in {"waiting", "closing"} /\ proc[q].of = d
    BY DEF RunsForSomebody, Running
  <2>2. q # p BY <1>1, <2>1 DEF c
  <2> QED BY <1>5, <2>1, <2>2
<1>11. Generations'
  <2>1. entry' # None => creates'[entry'].gen = generation'
    BY <1>1, <1>2, <1>4, <1>6 DEF Generations
  <2>2. pending' # None => creates'[pending'].gen = generation' BY <1>1, <1>4 DEF Generations
  <2>3. \A q \in Procs : proc'[q].pc = "waiting" =>
          proc'[q].of \in Asked' /\ proc'[q].gen = creates'[proc'[q].of].gen /\ proc'[q].gen <= generation'
    BY <1>1, <1>5, <1>9, Zenon DEF Generations, At
  <2>4. ASSUME ~shut' PROVE
          /\ \A d \in closedValues' : creates'[d].gen < generation'
          /\ \A q \in Procs : \A d \in proc'[q].values : creates'[d].gen < generation'
          /\ \A q \in Procs : proc'[q].pc = "closing" /\ proc'[q].of # None => creates'[proc'[q].of].gen < generation'
    <3>1. ~shut BY <1>1, <2>4
    <3>2. outdated => creates[c].gen < generation BY <1>2, <3>1 DEF outdated
    <3>3. \A d \in closedValues' : d \in closedValues \/ (d = c /\ outdated) BY <1>4
    <3>4. \A d \in closedValues' : creates'[d].gen < generation' BY <1>1, <3>1, <3>2, <3>3, Zenon DEF Generations
    <3>5. \A q \in Procs : \A d \in proc'[q].values : d \in proc[q].values BY <1>3, <1>5
    <3>6. \A q \in Procs : \A d \in proc'[q].values : creates'[d].gen < generation'
      BY <1>1, <3>1, <3>5, Zenon DEF Generations
    <3>7. \A q \in Procs : proc'[q].pc = "closing" /\ proc'[q].of # None => creates'[proc'[q].of].gen < generation'
      BY <1>1, <1>9, <3>1, Zenon DEF Generations, At
    <3> QED BY <3>4, <3>6, <3>7
  <2> QED BY <2>1, <2>2, <2>3, <2>4 DEF Generations, At
<1>12. NothingOver'
  <2>1. CASE entered
    <3>1. CASE pending = c BY <1>4, <2>1, <3>1 DEF NothingOver
    <3>2. CASE pending # c BY <1>1, <1>4, <1>7, <2>1, <3>2 DEF NothingOver
    <3> QED BY <3>1, <3>2
  <2>2. CASE ~entered BY <1>1, <1>4, <2>2 DEF NothingOver
  <2> QED BY <2>1, <2>2
<1>13. Late'
  <2> SUFFICES ASSUME NEW q \in Procs, proc'[q].pc = "waiting", proc'[q].gen = generation', pending' # proc'[q].of
               PROVE  /\ creates[proc[q].of].state # "running"
                      /\ creates[proc[q].of].state = "done" => entry' = proc[q].of
                      /\ pending' # None => creates[pending'].state = "running"
    BY <1>1, <1>9 DEF Late, At, Running
  <2>1. proc'[q] = proc[q] /\ proc[q].pc = "waiting" /\ proc[q].gen = generation BY <1>1, <1>9
  <2>2. CASE pending = proc[q].of
    <3>1. pending = c /\ pending' = None /\ proc[q].of = c BY <1>4, <2>1, <2>2
    <3>2. ~(creates[c].state = "done" /\ outdated) BY <1>2, <1>4, <3>1
    <3> QED BY <1>1, <1>4, <3>1, <3>2
  <2>3. CASE pending # proc[q].of
    <3>1. /\ creates[proc[q].of].state # "running"
          /\ creates[proc[q].of].state = "done" => entry = proc[q].of
          /\ pending # None => creates[pending].state = "running"
      BY <2>1, <2>3, Zenon DEF Late, At, Running
    <3>2. pending # c BY <1>1, <1>2, <3>1
    <3>3. entry' = entry /\ pending' = pending BY <1>4, <1>7, <3>2
    <3> QED BY <3>1, <3>3
  <2> QED BY <2>2, <2>3
<1>14. NoneLost'
  <2>1. shut' => entry' = None BY <1>1, <1>4 DEF NoneLost, outdated
  <2>2. ASSUME NEW d \in Asked \ overtaken, creates[d].state = "done"
        PROVE  \/ d \in closedValues' \/ d = entry'
               \/ \E q \in Procs : \/ proc'[q].pc \in {"waiting", "closing"} /\ proc'[q].of = d
                                   \/ proc'[q].pc = "closing" /\ d \in proc'[q].values
    <3>1. CASE d \in closedValues BY <1>4, <3>1
    <3>2. CASE d = entry
      <4>1. d # None BY DEF Asked
      <4> QED BY <1>4, <1>7, <3>2, <4>1
    <3>3. ASSUME NEW q \in Procs, \/ proc[q].pc \in {"waiting", "closing"} /\ proc[q].of = d
                                  \/ proc[q].pc = "closing" /\ d \in proc[q].values
          PROVE  \/ d \in closedValues' \/ d = entry'
                 \/ \E r \in Procs : \/ proc'[r].pc \in {"waiting", "closing"} /\ proc'[r].of = d
                                     \/ proc'[r].pc = "closing" /\ d \in proc'[r].values
      <4>1. CASE q = p
        <5>1. d = c BY <1>1, <3>3, <4>1 DEF c
        <5> QED BY <1>4, <2>2, <5>1
      <4>2. CASE q # p
        <5>1. proc'[q] = proc[q] BY <1>5, <4>2
        <5> QED BY <3>3, <5>1, Zenon
      <4> QED BY <4>1, <4>2
    <3> QED BY <2>2, <3>1, <3>2, <3>3, Zenon DEF NoneLost
  <2> QED BY <1>1, <1>5, <2>1, <2>2, Zenon DEF NoneLost
<1> QED BY <1>8, <1>10, <1>11, <1>12, <1>13, <1>14

(* What asks for a runtime, what reads its revision and what uses it keep *)
(* the invariant.                                                         *)
LEMMA RequestsKeep ==
  ASSUME None \notin Nat, RegistryInv, NEW p \in Procs,
         Get(p) \/ ReadRevision(p) \/ Answer(p) \/ GoOn(p) \/ Used(p)
  PROVE  RegistryInv'
<1> DEFINE Fits(rec) == /\ rec.pc \notin {"waiting", "closing"} /\ rec.values \subseteq proc[p].values
                        /\ rec \in [pc : Steps, of : Asked \cup {None}, gen : Nat, values : SUBSET Asked,
                                    current : BOOLEAN, get : BOOLEAN]
           Moves == /\ \E rec : proc' = [proc EXCEPT ![p] = rec] /\ Fits(rec)
                    /\ proc[p].pc \notin {"waiting", "closing"} /\ fresh' \in BOOLEAN
                    /\ UNCHANGED <<creates, entry, pending, generation, closedValues, shut, revision, overtaken>>
<1>1. Moves => RegistryInv' BY MoveKeeps
<1>2. Fits(Idle) BY DEF Idle, Steps
<1>3. ASSUME NEW pc \in {"served", "asking"}, NEW c \in Asked PROVE Fits([Idle EXCEPT !.pc = pc, !.of = c])
  <2>1. Fits([pc |-> pc, of |-> c, gen |-> 0, values |-> {}, current |-> FALSE, get |-> FALSE]) BY DEF Steps
  <2> HIDE DEF Fits
  <2> QED BY <2>1, HeldRecord
<1>4. fresh \in BOOLEAN BY DEF RegistryInv, Shape
<1>5. entry \in Asked \cup {None} BY DEF RegistryInv, Shape
<1>6. CASE Get(p)
  <2>1. At(p, "idle") \/ At(p, "again") BY <1>6 DEF Get
  <2>2. proc[p].pc \notin {"waiting", "closing"} BY <2>1 DEF At
  <2>3. CASE ~shut /\ entry = None
    <3>1. Join(p) /\ UNCHANGED <<revision, overtaken>> BY <1>6, <2>3, Zenon DEF Get
    <3>2. overtaken' = overtaken \cup ({entry} \ {None}) BY <2>3, <3>1
    <3> QED BY <2>2, <3>1, <3>2, JoinKeeps
  <2>4. CASE shut \/ entry # None
    <3>1. /\ UNCHANGED registry /\ UNCHANGED <<revision, overtaken>>
          /\ \/ shut /\ proc' = [proc EXCEPT ![p] = Idle]
             \/ ~shut /\ Serve(p, entry)
             \/ ~shut /\ proc' = [proc EXCEPT ![p] = [Idle EXCEPT !.pc = "asking", !.of = entry]]
      BY <1>6, <2>4, Zenon DEF Get
    <3>2. ~shut => entry \in Asked BY <1>5, <2>4
    <3>3. ~shut => Fits([Idle EXCEPT !.pc = "served", !.of = entry]) /\ Fits([Idle EXCEPT !.pc = "asking", !.of = entry])
      BY <1>3, <3>2
    <3> HIDE DEF Fits
    <3>4. \E rec : proc' = [proc EXCEPT ![p] = rec] /\ Fits(rec) BY <1>2, <3>1, <3>3, Zenon DEF Serve
    <3> QED BY <1>1, <1>4, <2>2, <3>1, <3>4 DEF registry
  <2> QED BY <2>3, <2>4
<1>7. CASE ReadRevision(p)
  <2>1. PICK current \in BOOLEAN : proc' = [proc EXCEPT ![p] = [@ EXCEPT !.pc = "answered", !.current = current]]
    BY <1>7, Zenon DEF ReadRevision
  <2>2. PICK rec : rec = [proc[p] EXCEPT !.pc = "answered", !.current = current] OBVIOUS
  <2>3. proc[p] \in [pc : Steps, of : Asked \cup {None}, gen : Nat, values : SUBSET Asked,
                     current : BOOLEAN, get : BOOLEAN]
    BY DEF RegistryInv, Shape
  <2>4. Fits(rec) BY <2>2, <2>3 DEF Steps
  <2>5. proc' = [proc EXCEPT ![p] = rec] BY <2>1, <2>2, Zenon
  <2>6. proc[p].pc \notin {"waiting", "closing"} BY <1>7 DEF ReadRevision, At
  <2> HIDE DEF Fits
  <2> QED BY <1>1, <1>4, <1>7, <2>4, <2>5, <2>6 DEF ReadRevision, registry
<1>8. CASE Answer(p)
  <2>1. proc[p].pc \notin {"waiting", "closing"} BY <1>8 DEF Answer, At
  <2>2. CASE proc[p].current
    <3>1. fresh' = (fresh \/ entry = proc[p].of) BY <1>8, <2>2, Zenon DEF Answer
    <3>2. fresh' \in BOOLEAN BY <3>1, Zenon
    <3>3. /\ Serve(p, proc[p].of)
          /\ UNCHANGED <<creates, entry, pending, generation, closedValues, shut, revision, overtaken>>
      BY <1>8, <2>2, Zenon DEF Answer
    <3>4. Fits([pc |-> "served", of |-> proc[p].of, gen |-> 0, values |-> {}, current |-> FALSE, get |-> FALSE])
      BY DEF Steps, RegistryInv, Shape
    <3> HIDE DEF Fits
    <3>5. Fits([Idle EXCEPT !.pc = "served", !.of = proc[p].of]) BY <3>4, HeldRecord
    <3>6. \E rec : proc' = [proc EXCEPT ![p] = rec] /\ Fits(rec) BY <3>3, <3>5, Zenon DEF Serve
    <3> QED BY <1>1, <2>1, <3>2, <3>3, <3>6
  <2>3. CASE ~proc[p].current
    <3>1. Invalidated(p, TRUE) /\ UNCHANGED <<shut, revision, overtaken>> BY <1>8, <2>3, Zenon DEF Answer
    <3>2. shut' \in BOOLEAN /\ (shut => shut') BY <3>1 DEF RegistryInv, Shape
    <3> QED BY <2>1, <3>1, <3>2, InvalidatedKeeps
  <2> QED BY <2>2, <2>3
<1>9. CASE GoOn(p)
  <2>1. proc[p].pc \notin {"waiting", "closing"} BY <1>9 DEF GoOn, At
  <2> QED BY <1>9, <2>1, JoinKeeps DEF GoOn
<1>10. CASE Used(p)
  <2>1. proc[p].pc \notin {"waiting", "closing"} BY <1>10 DEF Used, At
  <2> HIDE DEF Fits
  <2> QED BY <1>1, <1>2, <1>4, <1>10, <2>1 DEF Used, registry
<1> QED BY <1>6, <1>7, <1>8, <1>9, <1>10

(* So do an invalidation, the shutdown, time and a change of the storage. *)
LEMMA OthersKeep ==
  ASSUME None \notin Nat, RegistryInv, Ages \/ Changes \/ \E p \in Procs : Invalidate(p) \/ Close(p)
  PROVE  RegistryInv'
<1>1. ASSUME NEW p \in Procs, Invalidate(p) PROVE RegistryInv'
  <2>1. proc[p].pc \notin {"waiting", "closing"} BY <1>1 DEF Invalidate, At
  <2>2. Invalidated(p, FALSE) /\ UNCHANGED <<shut, revision, overtaken>> BY <1>1 DEF Invalidate
  <2>3. shut' \in BOOLEAN /\ (shut => shut') BY <2>2 DEF RegistryInv, Shape
  <2> QED BY <2>1, <2>2, <2>3, InvalidatedKeeps
<1>2. ASSUME NEW p \in Procs, Close(p) PROVE RegistryInv'
  <2>1. /\ proc[p].pc \notin {"waiting", "closing"} /\ shut' = TRUE /\ UNCHANGED <<revision, overtaken>>
    BY <1>2 DEF Close, At
  <2>2. CASE ~(entry = None /\ pending = None)
    <3>1. Invalidated(p, FALSE) BY <1>2, <2>2, Zenon DEF Close
    <3> QED BY <2>1, <3>1, InvalidatedKeeps
  <2>3. CASE entry = None /\ pending = None
    <3>1. UNCHANGED <<creates, entry, fresh, pending, generation, closedValues, proc>> BY <1>2, <2>3, Zenon DEF Close
    <3>2. Asked' = Asked BY <3>1 DEF Asked
    <3>3. Shape' BY <2>1, <3>1, <3>2 DEF RegistryInv, Shape
    <3>4. RunsForSomebody' BY <3>1, <3>2, Zenon DEF RegistryInv, RunsForSomebody, Running
    <3>5. Generations' BY <2>1, <3>1, <3>2, Zenon DEF RegistryInv, Generations, At
    <3>6. NothingOver' BY <2>1, <3>1 DEF RegistryInv, NothingOver
    <3>7. Late' BY <3>1, Zenon DEF RegistryInv, Late, At, Running
    <3>8. NoneLost' BY <2>1, <2>3, <3>1, <3>2, Zenon DEF RegistryInv, NoneLost
    <3> QED BY <3>3, <3>4, <3>5, <3>6, <3>7, <3>8 DEF RegistryInv
  <2> QED BY <2>2, <2>3
<1>3. CASE Ages \/ Changes
  <2>1. /\ UNCHANGED <<creates, entry, pending, generation, closedValues, shut, proc, overtaken>>
        /\ fresh' \in BOOLEAN /\ revision' \in Nat
    <3>1. CASE Ages BY <3>1 DEF Ages, RegistryInv, Shape
    <3>2. CASE Changes BY <3>2 DEF Changes, registry, RegistryInv, Shape
    <3> QED BY <1>3, <3>1, <3>2
  <2>2. Asked' = Asked BY <2>1 DEF Asked
  <2>3. Shape' BY <2>1, <2>2 DEF RegistryInv, Shape
  <2>4. RunsForSomebody' BY <2>1, <2>2, Zenon DEF RegistryInv, RunsForSomebody, Running
  <2>5. Generations' BY <2>1, <2>2, Zenon DEF RegistryInv, Generations, At
  <2>6. NothingOver' /\ Late' BY <2>1, Zenon DEF RegistryInv, NothingOver, Late, At, Running
  <2>7. NoneLost' BY <2>1, <2>2, Zenon DEF RegistryInv, NoneLost
  <2> QED BY <2>3, <2>4, <2>5, <2>6, <2>7 DEF RegistryInv
<1> QED BY <1>1, <1>2, <1>3

-----------------------------------------------------------------------------
(* A runtime of the present generation is not closed, nor about to be. *)
LEMMA PresentIsOpen ==
  ASSUME RegistryInv, NEW c \in Asked, c # None, creates[c].gen = generation, ~shut
  PROVE  c \notin Doomed
<1>1. generation \in Nat BY DEF RegistryInv, Shape
<1>2. ~(creates[c].gen < generation) BY <1>1
<1>3. c \notin closedValues BY <1>2 DEF RegistryInv, Generations
<1>4. \A p \in Procs : c \notin proc[p].values BY <1>2 DEF RegistryInv, Generations
<1>5. \A p \in Procs : At(p, "closing") => proc[p].of # c BY <1>2, Zenon DEF RegistryInv, Generations
<1> DEFINE Held == UNION {proc[p].values : p \in Procs}
           Awaited == {proc[p].of : p \in {q \in Procs : At(q, "closing")}}
<1>6. c \notin Held BY <1>4
<1>7. c \notin Awaited BY <1>5
<1>8. Doomed = closedValues \cup Held \cup Awaited BY DEF Doomed
<1> HIDE DEF Held, Awaited
<1> QED BY <1>3, <1>6, <1>7, <1>8

(* Who is handed a runtime without asking for its revision gets one of the *)
(* present generation.                                                     *)
LEMMA PresentIsServed ==
  ASSUME None \notin Nat, RegistryInv, Next, NEW p \in Procs,
         proc'[p].pc = "served", proc[p].pc \notin {"answered", "served"}
  PROVE  LET c == proc'[p].of IN c \in Asked /\ c # None /\ creates[c].gen = generation /\ ~shut
<1> USE DEF RegistryInv, Shape
<1>1. ASSUME NEW q \in Procs, NEW rec, proc' = [proc EXCEPT ![q] = rec], rec.pc # "served" PROVE FALSE
  BY <1>1
<1>2. Idle.pc # "served" /\ Idle = [pc |-> "idle", of |-> None, gen |-> 0, values |-> {}, current |-> FALSE, get |-> FALSE]
  BY DEF Idle
<1>3. ASSUME NEW q \in Procs, Join(q) PROVE FALSE
  <2>1. PICK of, gen : proc' = [proc EXCEPT ![q] = [Idle EXCEPT !.pc = "waiting", !.of = of, !.gen = gen]]
    BY <1>3, Zenon DEF Join
  <2>2. proc' = [proc EXCEPT ![q] = [pc |-> "waiting", of |-> of, gen |-> gen, values |-> {}, current |-> FALSE, get |-> FALSE]]
    BY <2>1, WaitingRecord, Zenon
  <2> QED BY <1>1, <2>2
<1>4. ASSUME NEW q \in Procs, NEW get \in BOOLEAN, Invalidated(q, get) PROVE FALSE
  <2>1. proc' = [proc EXCEPT ![q] = [Idle EXCEPT !.pc = "closing", !.of = pending,
       !.values = {entry} \ {None}, !.get = get]]
    BY <1>4, Zenon DEF Invalidated
  <2>2. proc' = [proc EXCEPT ![q] = [pc |-> "closing", of |-> pending, gen |-> 0, values |-> {entry} \ {None},
                                     current |-> FALSE, get |-> get]]
    BY <2>1, ClosingRecord, Zenon
  <2> QED BY <1>1, <2>2
<1>5. ASSUME NEW q \in Procs, NEW c, Serve(q, c) PROVE q = p /\ proc'[p].of = c
  <2>1. proc' = [proc EXCEPT ![q] = [pc |-> "served", of |-> c, gen |-> 0, values |-> {}, current |-> FALSE, get |-> FALSE]]
    BY <1>5, HeldRecord, Zenon DEF Serve
  <2> QED BY <2>1
<1>6. ASSUME NEW q \in Procs, Get(q)
      PROVE  LET c == proc'[p].of IN c \in Asked /\ c # None /\ creates[c].gen = generation /\ ~shut
  <2>1. CASE ~shut /\ entry = None BY <1>3, <1>6, <2>1, Zenon DEF Get
  <2>2. CASE shut \/ entry # None
    <3>1. \/ shut /\ proc' = [proc EXCEPT ![q] = Idle]
          \/ ~shut /\ Serve(q, entry)
          \/ ~shut /\ proc' = [proc EXCEPT ![q] = [Idle EXCEPT !.pc = "asking", !.of = entry]]
      BY <1>6, <2>2, Zenon DEF Get
    <3>2. proc' # [proc EXCEPT ![q] = Idle] BY <1>1, <1>2
    <3>3. proc' # [proc EXCEPT ![q] = [Idle EXCEPT !.pc = "asking", !.of = entry]]
      <4>1. proc' # [proc EXCEPT ![q] = [pc |-> "asking", of |-> entry, gen |-> 0, values |-> {}, current |-> FALSE, get |-> FALSE]]
        BY <1>1
      <4> QED BY <4>1, HeldRecord, Zenon
    <3>4. ~shut /\ proc'[p].of = entry BY <1>5, <3>1, <3>2, <3>3, Zenon
    <3> QED BY <2>2, <3>4 DEF Generations
  <2> QED BY <2>1, <2>2
<1>7. ASSUME NEW q \in Procs, Arrive(q)
      PROVE  LET c == proc'[p].of IN c \in Asked /\ c # None /\ creates[c].gen = generation /\ ~shut
  <2>1. proc' # [proc EXCEPT ![q] = Idle] BY <1>1, <1>2
  <2>2. proc' # [proc EXCEPT ![q] = [Idle EXCEPT !.pc = "again"]]
    <3>1. proc' # [proc EXCEPT ![q] = [pc |-> "again", of |-> None, gen |-> 0, values |-> {}, current |-> FALSE, get |-> FALSE]]
      BY <1>1
    <3> QED BY <3>1, PlainRecord, Zenon
  <2>3. At(q, "waiting") /\ ~shut /\ generation = proc[q].gen /\ Serve(q, proc[q].of)
    BY <1>7, <2>1, <2>2, Zenon DEF Arrive
  <2>4. proc'[p].of = proc[q].of BY <1>5, <2>3
  <2>5. proc[q].of \in Asked /\ proc[q].gen = creates[proc[q].of].gen BY <2>3, Zenon DEF Generations
  <2>6. proc[q].of # None BY <2>5 DEF Asked
  <2> QED BY <2>3, <2>4, <2>5, <2>6
<1>8. ASSUME NEW q \in Procs, Answer(q) PROVE FALSE
  <2>1. proc[q].pc = "answered" BY <1>8 DEF Answer, At
  <2>2. ~Serve(q, proc[q].of) BY <1>5, <2>1
  <2>3. Invalidated(q, TRUE) BY <1>8, <2>2, Zenon DEF Answer
  <2> QED BY <1>4, <2>3
<1>9. ASSUME NEW q \in Procs, ReadRevision(q) PROVE FALSE
  <2>1. PICK current : proc' = [proc EXCEPT ![q] = [@ EXCEPT !.pc = "answered", !.current = current]]
    BY <1>9, Zenon DEF ReadRevision
  <2>2. PICK rec : rec = [proc[q] EXCEPT !.pc = "answered", !.current = current] OBVIOUS
  <2>3. proc' = [proc EXCEPT ![q] = rec] BY <2>1, <2>2, Zenon
  <2>4. rec.pc = "answered" BY <2>2
  <2> QED BY <1>1, <2>3, <2>4
<1>10. ASSUME NEW q \in Procs, Closing(q) PROVE FALSE
  <2>1. \/ proc' = [proc EXCEPT ![q] = [Idle EXCEPT !.pc = "goes on"]]
        \/ proc' = [proc EXCEPT ![q] = Idle]
    BY <1>10, Zenon DEF Closing
  <2>2. proc' # [proc EXCEPT ![q] = [pc |-> "goes on", of |-> None, gen |-> 0, values |-> {}, current |-> FALSE, get |-> FALSE]]
    BY SMTT(30), ZenonT(40), <1>1
  <2> QED BY <1>1, <1>2, <2>1, <2>2, PlainRecord, Zenon
<1>11. ASSUME NEW q \in Procs, Used(q) PROVE FALSE BY <1>1, <1>2, <1>11 DEF Used
<1>12. ASSUME NEW q \in Procs, Close(q) PROVE FALSE
  <2>1. UNCHANGED proc \/ Invalidated(q, FALSE) BY <1>12, Zenon DEF Close
  <2> QED BY <1>4, <2>1
<1>13. ASSUME Ages \/ Changes \/ \E c \in DOMAIN creates : Created(c) PROVE FALSE
  BY <1>13 DEF Ages, Changes, Created
<1> QED BY <1>3, <1>4, <1>6, <1>7, <1>8, <1>9, <1>10, <1>11, <1>12, <1>13 DEF Next, Invalidate, GoOn

-----------------------------------------------------------------------------
(* Whoever creates, enters or closes a runtime of the registry, in every state *)
(* each runtime has somebody to close it, and generations tell those that were *)
(* invalidated from those that are handed out.                                 *)
THEOREM RegistryInvariant ==
  ASSUME None \notin Nat PROVE Spec => []RegistryInv
<1>1. Init => RegistryInv
  <2> SUFFICES ASSUME Init PROVE RegistryInv OBVIOUS
  <2>1. Asked = {} /\ \A p \in Procs : proc[p] = Idle BY DEF Init, Asked
  <2>2. \A p \in Procs : proc[p].pc = "idle" /\ proc[p].values = {}
    <3>1. Idle.pc = "idle" /\ Idle.values = {} BY DEF Idle
    <3> QED BY <2>1, <3>1, Zenon
  <2>3. Idle \in [pc : Steps, of : Asked \cup {None}, gen : Nat, values : SUBSET Asked, current : BOOLEAN, get : BOOLEAN]
    BY DEF Idle, Steps
  <2>4. Shape
    <3>1. creates \in Seq(Creations) BY DEF Init
    <3>2. proc \in [Procs -> [pc : Steps, of : Asked \cup {None}, gen : Nat, values : SUBSET Asked,
                              current : BOOLEAN, get : BOOLEAN]]
      BY <2>3, Zenon DEF Init
    <3>3. fresh \in BOOLEAN /\ shut \in BOOLEAN BY Zenon DEF Init
    <3> QED BY <3>1, <3>2, <3>3 DEF Shape, Init
  <2>5. RunsForSomebody /\ NothingOver BY <2>1 DEF Init, RunsForSomebody, NothingOver
  <2>6. Generations BY <2>2 DEF Init, Generations, At
  <2>7. Late /\ NoneLost BY <2>1, <2>2 DEF Init, Late, NoneLost, At
  <2> QED BY <2>4, <2>5, <2>6, <2>7 DEF RegistryInv
<1>2. RegistryInv /\ [Next]_vars => RegistryInv'
  <2> SUFFICES ASSUME RegistryInv, [Next]_vars PROVE RegistryInv' OBVIOUS
  <2>1. CASE UNCHANGED vars
    <3>1. UNCHANGED <<creates, entry, fresh, pending, generation, closedValues, shut, revision, proc, overtaken>>
      BY <2>1 DEF vars, registry
    <3>2. Asked' = Asked BY <3>1 DEF Asked
    <3>3. Shape' BY <3>1, <3>2, Zenon DEF RegistryInv, Shape
    <3>4. RunsForSomebody' /\ NothingOver' /\ NoneLost'
      BY <3>1, <3>2, Zenon DEF RegistryInv, RunsForSomebody, NothingOver, NoneLost, Running
    <3>5. Generations' /\ Late' BY <3>1, <3>2, Zenon DEF RegistryInv, Generations, Late, At, Running
    <3> QED BY <3>3, <3>4, <3>5 DEF RegistryInv
  <2>2. ASSUME NEW p \in Procs, Get(p) \/ ReadRevision(p) \/ Answer(p) \/ GoOn(p) \/ Used(p) PROVE RegistryInv'
    BY <2>2, RequestsKeep
  <2>3. ASSUME NEW p \in Procs, Closing(p) PROVE RegistryInv' BY <2>3, ClosingKeeps
  <2>4. ASSUME NEW p \in Procs, Arrive(p) PROVE RegistryInv' BY <2>4, ArriveKeeps
  <2>5. ASSUME NEW p \in Procs, Invalidate(p) \/ Close(p) PROVE RegistryInv' BY <2>5, OthersKeep
  <2>6. CASE Ages \/ Changes BY <2>6, OthersKeep
  <2>7. ASSUME NEW c \in DOMAIN creates, Created(c) PROVE RegistryInv' BY <2>7, CreatedKeeps DEF Asked
  <2> QED BY <2>1, <2>2, <2>3, <2>4, <2>5, <2>6, <2>7 DEF Next
<1> QED BY <1>1, <1>2, PTL DEF Spec

(* The registry names runtimes that were created, and callers wait for such. *)
THEOREM RegistryTypes ==
  ASSUME None \notin Nat PROVE Spec => []TypeOK
<1>1. RegistryInv => TypeOK BY DEF RegistryInv, Shape, TypeOK
<1> QED BY <1>1, RegistryInvariant, PTL

(* WorkspaceRuntimeRegistry loses no runtime, whatever requests, invalidations, *)
(* failures and shutdowns overlap, and hands out none once it is closed.        *)
THEOREM NoRuntimeLost ==
  ASSUME None \notin Nat PROVE Spec => []NoneLost
<1>1. RegistryInv => NoneLost BY DEF RegistryInv
<1> QED BY <1>1, RegistryInvariant, PTL

(* get hands out no runtime that was invalidated while it waited, unless it *)
(* has just asked for that runtime's revision.                              *)
THEOREM OnlyOpenServed ==
  ASSUME None \notin Nat PROVE Spec => ServedOpen
<1>1. RegistryInv /\ [Next]_vars => [\A p \in Procs : ServesOpen(p)]_vars
  <2> SUFFICES ASSUME RegistryInv, Next, NEW p \in Procs PROVE ServesOpen(p) OBVIOUS
  <2> SUFFICES ASSUME proc'[p].pc = "served", proc[p].pc \notin {"answered", "served"}
               PROVE  proc'[p].of \notin Doomed
    BY DEF ServesOpen, At
  <2> QED BY PresentIsServed, PresentIsOpen
<1> QED BY <1>1, RegistryInvariant, PTL DEF Spec, ServedOpen
=============================================================================
