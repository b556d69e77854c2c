------------------------------ MODULE MCConnect ------------------------------
(* Two _start_inner in a race.  One makes two attempts in each loop, so    *)
(* that an answer can come an attempt late, the other one.                 *)
EXTENDS Connect

CONSTANTS tcp, udp

Attempts == [n \in {tcp, udp} |-> IF n = tcp THEN 2 ELSE 1]
=============================================================================
