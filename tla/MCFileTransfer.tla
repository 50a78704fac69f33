--------------------------- MODULE MCFileTransfer ---------------------------
(* Values for model checking FileTransfer.                                 *)
EXTENDS FileTransfer
=============================================================================
