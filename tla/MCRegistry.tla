------------------------------ MODULE MCRegistry ------------------------------
(* Three requests and one change of the storage, in RuntimeRegistry alone. *)
EXTENDS RuntimeRegistry

CONSTANTS h1, h2, h3

StorageChanges ==
  {[gets |-> 3, invalidations |-> 0, closes |-> 0, faults |-> 0, changes |-> 1]}
=============================================================================
