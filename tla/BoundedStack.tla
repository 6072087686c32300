---------------------------- MODULE BoundedStack ----------------------------
(***************************************************************************)
(* What the linked list shared by the producer and customer threads of     *)
(* note 16 promises, whatever primitive protects it: a stack of distinct   *)
(* nodes, changed only by pushing a node that is not on it or by popping   *)
(* its top, and never longer than Capacity.                                *)
(***************************************************************************)
EXTENDS Naturals, Sequences

CONSTANTS Node,      \* addresses malloc can return
          Capacity   \* initial value of psem

VARIABLE stack

Init == stack = <<>>

OnStack(n) == \E i \in 1..Len(stack) : stack[i] = n

Push(n) == /\ Len(stack) < Capacity
           /\ ~ OnStack(n)
           /\ stack' = <<n>> \o stack

Pop == /\ stack # <<>>
       /\ stack' = Tail(stack)

Next == \/ \E n \in Node : Push(n)
        \/ Pop

Spec == Init /\ [][Next]_stack
=============================================================================
