---------------------------- MODULE Sort_proofs -----------------------------
(***************************************************************************)
(* Proofs about Sort, for arrays of any length and any integers.           *)
(***************************************************************************)
EXTENDS Sort, TLAPS

\* bubbleSort: the last `outer' elements are in their final places, and the
\* inner loop carries the largest element met so far.
BubbleInv ==
    algorithm = "bubble" =>
        /\ \A x, y \in Index : x < y /\ y >= len - outer => array[x] <= array[y]
        /\ ~ Returned => \A x \in Index : x < inner => array[x] <= array[inner]

\* selectSort: the first `outer' elements are in their final places, and
\* array[outer] is the smallest element met so far.
SelectInv ==
    algorithm = "select" =>
        /\ \A x, y \in Index : x < y /\ x < outer => array[x] <= array[y]
        /\ ~ Returned => \A y \in Index : outer < y /\ y < inner => array[outer] <= array[y]

IInv == TypeOK /\ BubbleInv /\ SelectInv /\ Permuted

LEMMA InitInv == Init => IInv
<1> SUFFICES ASSUME Init PROVE IInv
  OBVIOUS
<1>1. TypeOK
  BY SortAssumption DEF Init, TypeOK, Index
<1>2. BubbleInv /\ SelectInv
  BY SortAssumption DEF Init, BubbleInv, SelectInv, Index, Returned
<1>3. Permuted
  <2> DEFINE p == [x \in Index |-> x]
  <2>1. p \in [Index -> Index] /\ \A x \in Index : p[x] = x
    OBVIOUS
  <2> HIDE DEF p
  <2> QED BY <2>1 DEF Permuted, Init
<1> QED BY <1>1, <1>2, <1>3 DEF IInv

\* What the conditional exchange does to the elements.
LEMMA OrderElements ==
    ASSUME array \in [Index -> Value],
           NEW x \in Index, NEW y \in Index, x # y, Order(x, y)
    PROVE  /\ array' \in [Index -> Value]
           /\ array'[x] <= array'[y]
           /\ \/ array'[x] = array[x] /\ array'[y] = array[y]
              \/ array'[x] = array[y] /\ array'[y] = array[x]
           /\ \A z \in Index : z # x /\ z # y => array'[z] = array[z]
<1>0. array[x] \in Int /\ array[y] \in Int
  BY SortAssumption
<1>1. CASE array[x] > array[y]
  BY <1>0, <1>1 DEF Order
<1>2. CASE ~(array[x] > array[y])
  BY <1>0, <1>2 DEF Order
<1> QED BY <1>1, <1>2

\* The conditional exchange keeps a rearrangement a rearrangement.
LEMMA OrderPermutes ==
    ASSUME array \in [Index -> Value], Permuted, UNCHANGED <<len, input>>,
           NEW x \in Index, NEW y \in Index, x # y, Order(x, y)
    PROVE  Permuted'
<1>1. PICK p \in [Index -> Index] :
          /\ \A u, v \in Index : p[u] = p[v] => u = v
          /\ \A u \in Index : array[u] = input[p[u]]
  BY DEF Permuted
<1>2. Index' = Index
  BY DEF Index
<1>3. CASE array[x] > array[y]
  <2> DEFINE q == [u \in Index |-> IF u = x THEN p[y] ELSE IF u = y THEN p[x] ELSE p[u]]
  <2>1. q \in [Index -> Index]
    OBVIOUS
  <2>2. \A u, v \in Index : q[u] = q[v] => u = v
    BY <1>1
  <2>3. \A u \in Index : array'[u] = input'[q[u]]
    BY <1>1, <1>3 DEF Order
  <2> HIDE DEF q
  <2> QED BY <1>2, <2>1, <2>2, <2>3 DEF Permuted
<1>4. CASE ~(array[x] > array[y])
  BY <1>1, <1>2, <1>4 DEF Permuted, Order
<1> QED BY <1>3, <1>4

LEMMA BubbleStep == IInv /\ bubbleSort => IInv'
<1> SUFFICES ASSUME IInv, bubbleSort PROVE IInv'
  OBVIOUS
<1> USE DEF IInv
<1>0. /\ len \in Nat /\ outer \in Nat /\ inner \in Nat /\ inner <= len - 1 - outer
      /\ outer < len - 1 /\ array \in [Index -> Value] /\ algorithm = "bubble"
      /\ algorithm' = algorithm /\ len' = len /\ input' = input /\ Index' = Index
  BY SortAssumption DEF TypeOK, bubbleSort, Index
<1>1. SelectInv'
  BY <1>0 DEF SelectInv
<1>2. CASE inner < len - 1 - outer /\ Order(inner, inner + 1) /\ inner' = inner + 1 /\ outer' = outer
  <2>1. inner \in Index /\ inner + 1 \in Index
    BY <1>0, <1>2 DEF Index
  <2>2. /\ array' \in [Index -> Value]
        /\ array'[inner] <= array'[inner + 1]
        /\ \/ array'[inner] = array[inner] /\ array'[inner + 1] = array[inner + 1]
           \/ array'[inner] = array[inner + 1] /\ array'[inner + 1] = array[inner]
        /\ \A z \in Index : z # inner /\ z # inner + 1 => array'[z] = array[z]
    BY <1>0, <1>2, <2>1, OrderElements
  <2>3. TypeOK'
    BY <1>0, <1>2, <2>2 DEF TypeOK
  <2>4. \A z \in Index : array[z] \in Int /\ array'[z] \in Int
    BY <1>0, <2>2, SortAssumption
  <2>5. ASSUME NEW x \in Index, NEW y \in Index, x < y, y >= len - outer
        PROVE  array'[x] <= array'[y]
    <3>1. array'[y] = array[y] /\ inner < y /\ inner + 1 < y
      BY <1>0, <1>2, <2>1, <2>2, <2>5 DEF Index
    <3>2. \A z \in Index : z < y => array[z] <= array[y]
      BY <1>0, <2>5 DEF BubbleInv
    <3> QED BY <2>1, <2>2, <2>5, <3>1, <3>2
  <2>6. ASSUME NEW x \in Index, x < inner + 1 PROVE array'[x] <= array'[inner + 1]
    <3>1. CASE x = inner
      BY <2>2, <3>1
    <3>2. CASE x # inner
      <4>1. x < inner /\ x # inner + 1
        BY <1>0, <2>6, <3>2 DEF Index
      <4>2. array[x] <= array[inner] /\ array'[x] = array[x]
        BY <1>0, <2>1, <2>2, <3>2, <4>1 DEF BubbleInv, Returned
      <4> QED BY <2>1, <2>2, <2>4, <4>2
    <3> QED BY <3>1, <3>2
  <2>7. BubbleInv'
    BY <1>0, <1>2, <2>5, <2>6 DEF BubbleInv
  <2>8. Permuted'
    BY <1>0, <1>2, <2>1, OrderPermutes
  <2> QED BY <1>1, <2>3, <2>7, <2>8
<1>3. CASE inner >= len - 1 - outer /\ outer' = outer + 1 /\ inner' = 0 /\ array' = array
  <2>1. inner = len - 1 - outer /\ ~ Returned
    BY <1>0, <1>3 DEF Returned
  <2>2. TypeOK'
    BY <1>0, <1>3 DEF TypeOK
  <2>3. ASSUME NEW x \in Index, NEW y \in Index, x < y, y >= len - (outer + 1)
        PROVE  array[x] <= array[y]
    <3>1. y = inner \/ y >= len - outer
      BY <1>0, <2>1, <2>3 DEF Index
    <3> QED BY <1>0, <2>1, <2>3, <3>1 DEF BubbleInv
  <2>4. \A x \in Index : ~(x < 0)
    BY <1>0 DEF Index
  <2>5. BubbleInv'
    BY <1>0, <1>3, <2>3, <2>4 DEF BubbleInv
  <2>6. Permuted'
    BY <1>0, <1>3 DEF Permuted
  <2> QED BY <1>1, <2>2, <2>5, <2>6
<1> QED BY <1>2, <1>3 DEF bubbleSort

LEMMA SelectStep == IInv /\ selectSort => IInv'
<1> SUFFICES ASSUME IInv, selectSort PROVE IInv'
  OBVIOUS
<1> USE DEF IInv
<1>0. /\ len \in Nat /\ outer \in Nat /\ inner \in Nat /\ outer < inner /\ inner <= len
      /\ outer < len - 1 /\ array \in [Index -> Value] /\ algorithm = "select"
      /\ algorithm' = algorithm /\ len' = len /\ input' = input /\ Index' = Index
  BY SortAssumption DEF TypeOK, selectSort, Index
<1>1. BubbleInv'
  BY <1>0 DEF BubbleInv
<1>2. CASE inner < len /\ Order(outer, inner) /\ inner' = inner + 1 /\ outer' = outer
  <2>1. inner \in Index /\ outer \in Index
    BY <1>0, <1>2 DEF Index
  <2>2. /\ array' \in [Index -> Value]
        /\ array'[outer] <= array'[inner]
        /\ \/ array'[outer] = array[outer] /\ array'[inner] = array[inner]
           \/ array'[outer] = array[inner] /\ array'[inner] = array[outer]
        /\ \A z \in Index : z # outer /\ z # inner => array'[z] = array[z]
    BY <1>0, <1>2, <2>1, OrderElements
  <2>3. TypeOK'
    BY <1>0, <1>2, <2>2 DEF TypeOK
  <2>4. \A z \in Index : array[z] \in Int /\ array'[z] \in Int
    BY <1>0, <2>2, SortAssumption
  <2>5. ASSUME NEW x \in Index, NEW y \in Index, x < y, x < outer
        PROVE  array'[x] <= array'[y]
    <3>1. array'[x] = array[x] /\ x < inner
      BY <1>0, <1>2, <2>1, <2>2, <2>5 DEF Index
    <3>2. \A z \in Index : x < z => array[x] <= array[z]
      BY <1>0, <2>5 DEF SelectInv
    <3> QED BY <2>1, <2>2, <2>5, <3>1, <3>2
  <2>6. array'[outer] <= array[outer]
    <3>1. CASE array'[outer] = array[outer]
      BY <2>1, <2>4, <3>1
    <3>2. CASE array'[outer] = array[inner] /\ array'[inner] = array[outer]
      BY <2>2, <3>2
    <3> QED BY <2>2, <3>1, <3>2
  <2>7. ASSUME NEW y \in Index, outer < y, y < inner + 1 PROVE array'[outer] <= array'[y]
    <3>1. CASE y = inner
      BY <2>2, <3>1
    <3>2. CASE y # inner
      <4>1. y < inner /\ y # outer
        BY <1>0, <2>7, <3>2 DEF Index
      <4>2. array[outer] <= array[y] /\ array'[y] = array[y]
        BY <1>0, <2>2, <2>7, <3>2, <4>1 DEF SelectInv, Returned
      <4> QED BY <2>1, <2>4, <2>6, <4>2
    <3> QED BY <3>1, <3>2
  <2>8. SelectInv'
    BY <1>0, <1>2, <2>5, <2>7 DEF SelectInv
  <2>9. Permuted'
    BY <1>0, <1>2, <2>1, OrderPermutes
  <2> QED BY <1>1, <2>3, <2>8, <2>9
<1>3. CASE inner >= len /\ outer' = outer + 1 /\ inner' = outer + 2 /\ array' = array
  <2>1. inner = len /\ ~ Returned
    BY <1>0, <1>3 DEF Returned
  <2>2. TypeOK'
    BY <1>0, <1>3 DEF TypeOK
  <2>3. ASSUME NEW x \in Index, NEW y \in Index, x < y, x < outer + 1
        PROVE  array[x] <= array[y]
    <3>1. (x = outer /\ y < inner) \/ x < outer
      BY <1>0, <2>1, <2>3 DEF Index
    <3> QED BY <1>0, <2>1, <2>3, <3>1 DEF SelectInv
  <2>4. \A y \in Index : ~(outer + 1 < y /\ y < outer + 2)
    BY <1>0 DEF Index
  <2>5. SelectInv'
    BY <1>0, <1>3, <2>3, <2>4 DEF SelectInv
  <2>6. Permuted'
    BY <1>0, <1>3 DEF Permuted
  <2> QED BY <1>1, <2>2, <2>5, <2>6
<1> QED BY <1>2, <1>3 DEF selectSort

\* The inductive invariant holds in every behaviour.
THEOREM Invariance == Spec => []IInv
<1>1. IInv /\ UNCHANGED vars => IInv'
  <2> SUFFICES ASSUME IInv, UNCHANGED vars PROVE IInv'
    OBVIOUS
  <2>1. Index' = Index
    BY DEF Index, vars
  <2>2. TypeOK' /\ Permuted'
    BY <2>1 DEF IInv, TypeOK, Permuted, vars
  <2>3. BubbleInv' /\ SelectInv'
    BY <2>1 DEF IInv, BubbleInv, SelectInv, Returned, vars
  <2> QED BY <2>2, <2>3 DEF IInv
<1>2. IInv /\ [Next]_vars => IInv'
  BY <1>1, BubbleStep, SelectStep DEF Next
<1> QED BY InitInv, <1>2, PTL DEF Spec

\* For every length, the indices of both functions stay inside the array.
THEOREM TypeCorrect == Spec => []TypeOK
<1>1. IInv => TypeOK
  BY DEF IInv
<1> QED BY <1>1, Invariance, PTL

\* Whatever the array holds and however long it is, it is in ascending order
\* when bubbleSort or selectSort returns.
THEOREM Sorting == Spec => []Sorted
<1>1. IInv => Sorted
  <2> SUFFICES ASSUME IInv, Returned, NEW x \in Index, NEW y \in Index, x < y
               PROVE  array[x] <= array[y]
    BY DEF Sorted
  <2>1. len \in Nat /\ outer \in Nat /\ algorithm \in {"bubble", "select"}
    BY SortAssumption DEF IInv, TypeOK
  <2>2. y >= len - outer /\ x < outer
    BY <2>1 DEF Returned, Index
  <2> QED BY <2>1, <2>2 DEF IInv, BubbleInv, SelectInv
<1> QED BY <1>1, Invariance, PTL

\* Whatever the array holds and however long it is, both functions only
\* rearrange it.
THEOREM Permutation == Spec => []Permuted
<1>1. IInv => Permuted
  BY DEF IInv
<1> QED BY <1>1, Invariance, PTL

=============================================================================
