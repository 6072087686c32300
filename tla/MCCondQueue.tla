---------------------------- MODULE MCCondQueue -----------------------------
(* The instance of CondQueue that TLC checks. *)
EXTENDS CondQueue

CONSTANTS p1, p2, c1, c2, c3, n1, n2, n3

ProducerDef == {p1, p2}
ConsumerDef == {c1, c2, c3}
NodeDef == {n1, n2, n3}
=============================================================================
