---------------------------- MODULE MCGroupService ----------------------------
(* Values for model checking GroupService.                                 *)
EXTENDS GroupService

CONSTANTS o, a, b

All == {{o, a}, {o, b}, {a, b}}
=============================================================================
