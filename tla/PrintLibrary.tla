---------------------------- MODULE PrintLibrary ----------------------------
(***************************************************************************)
(* What the journal promises its users: each print has at most one model,  *)
(* an upload becomes the model of its target exactly once, a repeat copies *)
(* a model a print has at that moment, and everything happens at once.     *)
(* Nothing is promised of the model of a print whose upload turns unsure.  *)
(***************************************************************************)
CONSTANTS Requests, Existing, Linked, Uploads, Contents, Target, NewRequest, Absent, NoModel, Unsure

VARIABLES
  model,    \* the model of each print
  applied,  \* the uploads that have landed
  unsure    \* the uploads of which nothing is promised

Init ==
  /\ model = [r \in Requests |-> IF r \in Existing THEN r ELSE IF r \in Linked THEN NoModel ELSE Absent]
  /\ applied = {}
  /\ unsure = {}

Fresh(r) == r \notin Existing \cup Linked /\ model[r] = Absent

Land(r, u) ==
  /\ u \notin applied
  /\ model' = [model EXCEPT ![r] = IF u \in unsure \/ @ = Unsure THEN Unsure ELSE u]
  /\ applied' = applied \cup {u}
  /\ UNCHANGED unsure

CreateFromUpload(r, u) == Target[u] = NewRequest /\ Fresh(r) /\ Land(r, u)

Attach(u) == Target[u] # NewRequest /\ model[Target[u]] # Absent /\ Land(Target[u], u)

RepeatModel(r, source) ==
  /\ Fresh(r) /\ model[source] \notin {Absent, NoModel}
  /\ \E content \in IF model[source] = Unsure THEN Contents ELSE {model[source]} :
       model' = [model EXCEPT ![r] = content]
  /\ UNCHANGED <<applied, unsure>>

Delete(r) ==
  /\ model[r] # Absent
  /\ model' = [model EXCEPT ![r] = Absent]
  /\ UNCHANGED <<applied, unsure>>

\* From now on the print that u has become, or is for, may have any model or a missing one.
Doubt(u) ==
  /\ unsure' = unsure \cup {u}
  /\ \E doubted \in SUBSET {r \in Requests : model[r] # Absent /\ (Target[u] = r \/ model[r] = u)} :
       model' = [r \in Requests |-> IF r \in doubted THEN Unsure ELSE model[r]]
  /\ UNCHANGED applied

Next ==
  \/ \E r \in Requests, u \in Uploads : CreateFromUpload(r, u)
  \/ \E u \in Uploads : Attach(u) \/ Doubt(u)
  \/ \E r, source \in Requests : RepeatModel(r, source)
  \/ \E r \in Requests : Delete(r)

Spec == Init /\ [][Next]_<<model, applied, unsure>>
=============================================================================
