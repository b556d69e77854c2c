----------------------------- MODULE MCRendezvous -----------------------------
(***************************************************************************)
(* Instance of Rendezvous for TLC: two servers, one fault or change of the *)
(* options; with the first server a retry may cross a late answer.         *)
(***************************************************************************)
EXTENDS Rendezvous

CONSTANTS h1, h2

TwoHosts == {h1, h2}
OneCrossing == [h \in {h1, h2} |-> IF h = h1 THEN 2 ELSE 1]

=============================================================================
