----------------------------- MODULE MCEchoPair -----------------------------
(* The instance of EchoPair that TLC checks. *)
EXTENDS EchoPair

CONSTANTS c1, c2, c3

ClientDef == {c1, c2, c3}
=============================================================================
