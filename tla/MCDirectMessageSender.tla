------------------------ MODULE MCDirectMessageSender ------------------------
(* Values for model checking DirectMessageSender.                          *)
EXTENDS DirectMessageSender
=============================================================================
