------------------------------ MODULE MCWorkGate ------------------------------
(* Two calls on one replica and one on another. *)
EXTENDS WorkGate, TLC

CONSTANTS r1, r2, c1, c2, c3, k1
TwoAndOne == (c1 :> r1 @@ c2 :> r1 @@ c3 :> r2)
===============================================================================
