------------------------------ MODULE MCMigration ------------------------------
(* Instances of StorageMigration for TLC. *)
EXTENDS StorageMigration

CONSTANTS A, B, x, y, disk, managed, f1, f2

Situations == {
  [replicas |-> {A}, first |-> disk, admins |-> {x}, uploads |-> {f2},
   calls |-> {"start", "cancel", "acknowledge"},
   builds |-> 5, starts |-> 1, faults |-> 1, crashes |-> 1, lost |-> 0],
  [replicas |-> {A}, first |-> disk, admins |-> {x}, uploads |-> {}, calls |-> CallKinds,
   builds |-> 5, starts |-> 2, faults |-> 2, crashes |-> 0, lost |-> 0],
  [replicas |-> {A, B}, first |-> disk, admins |-> {x}, uploads |-> {}, calls |-> {"start", "cancel"},
   builds |-> 4, starts |-> 1, faults |-> 0, crashes |-> 1, lost |-> 0],
  [replicas |-> {A, B}, first |-> disk, admins |-> {x}, uploads |-> {}, calls |-> {"start"},
   builds |-> 4, starts |-> 1, faults |-> 0, crashes |-> 0, lost |-> 1],
  [replicas |-> {A, B}, first |-> disk, admins |-> {x}, uploads |-> {f2}, calls |-> {"start"},
   builds |-> 4, starts |-> 1, faults |-> 0, crashes |-> 0, lost |-> 0],
  [replicas |-> {A}, first |-> managed, admins |-> {x}, uploads |-> {}, calls |-> CallKinds \ {"clear"},
   builds |-> 5, starts |-> 2, faults |-> 1, crashes |-> 1, lost |-> 0],
  [replicas |-> {A}, first |-> managed, admins |-> {x, y}, uploads |-> {}, calls |-> {"start", "acknowledge", "retry"},
   builds |-> 4, starts |-> 2, faults |-> 1, crashes |-> 0, lost |-> 0],
  [replicas |-> {A, B}, first |-> managed, admins |-> {x}, uploads |-> {}, calls |-> {"start"},
   builds |-> 4, starts |-> 2, faults |-> 1, crashes |-> 0, lost |-> 0],
  [replicas |-> {A}, first |-> disk, admins |-> {x, y}, uploads |-> {}, calls |-> {"start", "cancel", "abandon"},
   builds |-> 2, starts |-> 1, faults |-> 1, crashes |-> 0, lost |-> 0],
  [replicas |-> {A, B}, first |-> managed, admins |-> {x}, uploads |-> {}, calls |-> {"start", "retry"},
   builds |-> 2, starts |-> 2, faults |-> 1, crashes |-> 0, lost |-> 1]}

(* An upload on one replica while the other migrates. *)
TwoReplicas == {
  [replicas |-> {A, B}, first |-> disk, admins |-> {x}, uploads |-> {f2}, calls |-> {"start"},
   builds |-> 2, starts |-> 1, faults |-> 0, crashes |-> 0, lost |-> 0]}
=============================================================================
