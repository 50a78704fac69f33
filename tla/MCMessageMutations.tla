-------------------------- MODULE MCMessageMutations --------------------------
(* Values for model checking MessageMutations.                             *)
EXTENDS MessageMutations
=============================================================================
