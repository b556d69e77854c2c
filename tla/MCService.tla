----------------------------- MODULE MCService -----------------------------
(* Instances of Service for TLC; the .cfg files choose which connections   *)
(* and services there are.                                                 *)
EXTENDS Service, TLC

Symmetry == Permutations(Conn)
=============================================================================
