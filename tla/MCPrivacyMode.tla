--------------------------- MODULE MCPrivacyMode ---------------------------
(* Instances of PrivacyMode: two connections, a window implementation and  *)
(* one with a virtual display.                                             *)
EXTENDS PrivacyMode, TLC

Symmetry == Permutations(Conn)
=============================================================================
