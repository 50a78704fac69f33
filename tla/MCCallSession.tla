----------------------------- MODULE MCCallSession -----------------------------
(* Values for model checking CallSession.                                  *)
EXTENDS CallSession
=============================================================================
