---------------------------- MODULE MCDelegation ----------------------------
EXTENDS Delegation, TLC

(* The first delegation goes to one Worker, the others to the second one.   *)
Spread == [d \in Ids |-> IF d = 1 THEN "w1" ELSE "w2"]
(* Every delegation goes to the same Worker.                                *)
Shared == [d \in Ids |-> "w1"]
=============================================================================
