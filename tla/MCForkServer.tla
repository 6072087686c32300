---------------------------- MODULE MCForkServer ----------------------------
(* The instance of ForkServer that TLC checks. *)
EXTENDS ForkServer

CONSTANTS c1, c2, c3

ClientDef == {c1, c2, c3}
=============================================================================
