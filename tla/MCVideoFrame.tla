---------------------------- MODULE MCVideoFrame ----------------------------
(* An instance of VideoFrame with one display.                             *)
EXTENDS VideoFrame, TLC

OneDisplay == [s \in Svc |-> 0]
=============================================================================
