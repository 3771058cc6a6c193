------------------------------- MODULE MCQueue -------------------------------
(* Instances of AssetQueue for TLC. *)
EXTENDS AssetQueue, TLC

CONSTANTS A, B, p1, p2

Calm == [replicas |-> {A}, prints |-> {p1}, linked |-> {}, size |-> (p1 :> 1 @@ p2 :> 1),
         attaches |-> 0, faults |-> 0, stops |-> 0, moves |-> 0, crashes |-> 0, lost |-> 0]

(* Faults and a crash; a stop, a move and a lost lease; two prints that share
   the budget; two replicas with a crash, a lost lease, a stop and a move; a
   print without a model, and a model that is too large. *)
Chosen == {
  [Calm EXCEPT !.attaches = 1, !.faults = 2, !.crashes = 1],
  [Calm EXCEPT !.faults = 1, !.stops = 1, !.moves = 1, !.lost = 1],
  [Calm EXCEPT !.prints = {p1, p2}, !.size[p1] = 2, !.faults = 1],
  [Calm EXCEPT !.replicas = {A, B}, !.attaches = 1, !.crashes = 1],
  [Calm EXCEPT !.replicas = {A, B}, !.faults = 1],
  [Calm EXCEPT !.replicas = {A, B}, !.lost = 1],
  [Calm EXCEPT !.replicas = {A, B}, !.stops = 1, !.moves = 1],
  [Calm EXCEPT !.linked = {p1}, !.size[p1] = 3, !.attaches = 2, !.crashes = 1]}

OneReplaced == {[Calm EXCEPT !.attaches = 1]}
=============================================================================
