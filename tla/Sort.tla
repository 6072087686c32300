-------------------------------- MODULE Sort --------------------------------
(***************************************************************************)
(* bubbleSort and selectSort of lesson08.  A step is one iteration of the  *)
(* inner loop, or the end of the inner loop and the next iteration of the  *)
(* outer one.  Only comparisons and moves touch the values.                *)
(***************************************************************************)
EXTENDS Integers

CONSTANTS MaxLen, \* bounds the length of the arrays
          Value   \* the integers that occur

ASSUME SortAssumption == MaxLen \in Nat /\ Value \subseteq Int

VARIABLES algorithm, \* which of the two functions runs
          len,       \* the arguments
          input,     \* what the array held when the function was called
          array,     \* what it holds now
          outer,     \* i of bubbleSort, j of selectSort
          inner      \* j of bubbleSort, i of selectSort

vars == <<algorithm, len, input, array, outer, inner>>

Index == 0..(len - 1)

Init == /\ algorithm \in {"bubble", "select"}
        /\ len \in 0..MaxLen
        /\ input \in [Index -> Value]
        /\ array = input
        /\ outer = 0
        /\ inner = IF algorithm = "bubble" THEN 0 ELSE 1

OrderOverwrite(x, y) ==
    array' = IF array[x] > array[y] THEN [array EXCEPT ![x] = array[y]] ELSE array

OrderDescending(x, y) ==
    array' = IF array[x] < array[y]
             THEN [array EXCEPT ![x] = array[y], ![y] = array[x]]
             ELSE array

\* if (array[x] > array[y]) exchange the two
Order(x, y) ==
    array' = IF array[x] > array[y]
             THEN [array EXCEPT ![x] = array[y], ![y] = array[x]]
             ELSE array

bubbleSort ==
    /\ algorithm = "bubble" /\ outer < len - 1
    /\ \/ /\ inner < len - 1 - outer
          /\ Order(inner, inner + 1)
          /\ inner' = inner + 1
          /\ UNCHANGED outer
       \/ /\ inner >= len - 1 - outer
          /\ outer' = outer + 1
          /\ inner' = 0
          /\ UNCHANGED array
    /\ UNCHANGED <<algorithm, len, input>>

SelectStuck ==
    /\ algorithm = "select" /\ outer < len - 1
    /\ \/ /\ inner < len
          /\ Order(outer, inner)
          /\ inner' = inner + 1
          /\ UNCHANGED outer
       \/ /\ inner >= len
          /\ inner' = outer + 1
          /\ UNCHANGED <<array, outer>>
    /\ UNCHANGED <<algorithm, len, input>>

selectSort ==
    /\ algorithm = "select" /\ outer < len - 1
    /\ \/ /\ inner < len
          /\ Order(outer, inner)
          /\ inner' = inner + 1
          /\ UNCHANGED outer
       \/ /\ inner >= len
          /\ outer' = outer + 1
          /\ inner' = outer + 2
          /\ UNCHANGED array
    /\ UNCHANGED <<algorithm, len, input>>

Next == bubbleSort \/ selectSort

Spec == Init /\ [][Next]_vars

\* The function runs on its own.
FairSpec == Spec /\ WF_vars(Next)

-----------------------------------------------------------------------------
(* Properties *)

\* Every variable has its type: in particular the indices of both loops stay
\* such that array[j + 1] and array[i] are elements of the array, also for
\* the lengths 0 and 1.
TypeOK == /\ algorithm \in {"bubble", "select"}
          /\ len \in 0..MaxLen
          /\ input \in [Index -> Value]
          /\ array \in [Index -> Value]
          /\ outer \in 0..len
          /\ algorithm = "bubble" => inner \in 0..len /\ (outer < len - 1 => inner <= len - 1 - outer)
          /\ algorithm = "select" => inner \in (outer + 1)..(len + 1) /\ (outer < len - 1 => inner <= len)

Returned == outer >= len - 1

\* When bubbleSort or selectSort returns, the array is in ascending order.
Sorted == Returned => \A x, y \in Index : x < y => array[x] <= array[y]

\* At every moment the array is a rearrangement of the input: an exchange
\* neither loses nor repeats an element.
Permuted == \E p \in [Index -> Index] :
                /\ \A x, y \in Index : p[x] = p[y] => x = y
                /\ \A x \in Index : array[x] = input[p[x]]

\* Both functions return.
Returns == <>Returned

=============================================================================
