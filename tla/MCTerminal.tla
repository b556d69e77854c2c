----------------------------- MODULE MCTerminal -----------------------------
(***************************************************************************)
(* Two connections that use one terminal service, the second one as the    *)
(* reconnection of the first or at the same time, and one terminal, which  *)
(* both may open, use and close; or one connection that does more.  One    *)
(* message fills the input channel, so that a send, and the final newline  *)
(* of stop(), have to wait.                                                *)
(***************************************************************************)
EXTENDS Terminal

=============================================================================
