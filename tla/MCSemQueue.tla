----------------------------- MODULE MCSemQueue -----------------------------
(* The instance of SemQueue that TLC checks. *)
EXTENDS SemQueue

CONSTANTS p1, p2, c1, c2, n1, n2, n3

ProducerDef == {p1, p2}
ConsumerDef == {c1, c2}
NodeDef == {n1, n2, n3}
=============================================================================
