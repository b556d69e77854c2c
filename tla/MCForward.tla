----------------------------- MODULE MCForward -----------------------------
(* An instance of Forward for TLC.                                         *)
EXTENDS Forward

Lengths == [e \in End |-> IF e = "host" THEN {48, 16000} ELSE {16000}]
Sends == [e \in End |-> IF e = "host" THEN 3 ELSE 1]
Chunks == [e \in End |-> 1]
=============================================================================
