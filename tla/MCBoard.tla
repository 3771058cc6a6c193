------------------------------- MODULE MCBoard -------------------------------
(* Instances of CopyBoard for TLC. *)
EXTENDS CopyBoard, TLC

CONSTANTS p1, p2, a, b

OneTag == <<a>>
TwoTags == <<a, b>>
Untagged == [t \in Tags |-> 0]
FirstOnce == [t \in Tags |-> IF t = a THEN 1 ELSE 0]
ProcSymmetry == Permutations(Procs)
=============================================================================
