---------------------------- MODULE MCGroupSender ----------------------------
(* Values for model checking GroupSender.                                  *)
EXTENDS GroupSender
=============================================================================
