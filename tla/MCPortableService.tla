-------------------------- MODULE MCPortableService --------------------------
(***************************************************************************)
(* Small instances of PortableService: two helpers that come and go, input *)
(* on a quick support host, and one helper whose frames are taken while    *)
(* the display changes and its capturer fails.                             *)
(***************************************************************************)
EXTENDS PortableService

CONSTANTS p1, p2, g1, g2

Helpers == {p1, p2}
Sizes == {g1, g2}

ComeAndGo ==
  [procs |-> {p1, p2}, quick |-> FALSE, stays |-> FALSE, frames |-> FALSE, primary |-> 0,
   inputs |-> 0, faults |-> 1]
QuickSupport ==
  [procs |-> {p1}, quick |-> TRUE, stays |-> FALSE, frames |-> FALSE, primary |-> 0,
   inputs |-> 2, faults |-> 1]
Typing ==
  [procs |-> {p1, p2}, quick |-> FALSE, stays |-> TRUE, frames |-> FALSE, primary |-> 0,
   inputs |-> 1, faults |-> 0]
Pictures ==
  [procs |-> {p1}, quick |-> FALSE, stays |-> TRUE, frames |-> TRUE, primary |-> 0,
   inputs |-> 0, faults |-> 2]
SecondDisplay == [Pictures EXCEPT !.primary = 1, !.faults = 1]

AllUses == {ComeAndGo, QuickSupport, Typing, Pictures, SecondDisplay}
=============================================================================
