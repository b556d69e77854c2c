--------------------------- MODULE MCFileTransfer ---------------------------
(***************************************************************************)
(* Model values for FileTransfer: three files of two blocks, two jobs.     *)
(***************************************************************************)
EXTENDS FileTransfer
=============================================================================
