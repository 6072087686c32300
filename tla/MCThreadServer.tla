--------------------------- MODULE MCThreadServer ---------------------------
(* The instance of ThreadServer that TLC checks. *)
EXTENDS ThreadServer

CONSTANTS c1, c2, c3

ClientDef == {c1, c2, c3}
=============================================================================
