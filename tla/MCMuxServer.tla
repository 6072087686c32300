---------------------------- MODULE MCMuxServer -----------------------------
(* The instance of MuxServer that TLC checks. *)
EXTENDS MuxServer

CONSTANTS c1, c2, c3

ClientDef == {c1, c2, c3}
=============================================================================
