------------------------------- MODULE MCQuota -------------------------------
(* One upload and the crash of its server, in StorageQuota alone. *)
EXTENDS StorageQuota, TLC

CONSTANTS w1, w2, a1, a2, u1, k, h1, h2

HomeOf == u1 :> w1
PlaceOf == u1 :> k
SizeOf == u1 :> 2
UploadAndCrash == {
  [holder |-> (w1 :> a1 @@ w2 :> a1), uploads |-> {u1}, attaching |-> {}, writes |-> 0, faults |-> 0,
   crashes |-> 1, moves |-> 0, scans |-> 0, late |-> 0, lost |-> 0, dropped |-> 0]}
=============================================================================
