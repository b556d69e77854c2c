----------------------------- MODULE MCSession ------------------------------
(***************************************************************************)
(* Small instances of Session.                                             *)
(***************************************************************************)
EXTENDS Session, TLC

OneKey == [c \in Conn |-> CHOOSE k \in Key : TRUE]
Symmetry == Permutations(Conn)
=============================================================================
