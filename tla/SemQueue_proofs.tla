-------------------------- MODULE SemQueue_proofs --------------------------
(***************************************************************************)
(* Proofs about SemQueue for any number of threads and any capacity.  The  *)
(* heart is a count of tokens: every unit psem starts with is at any       *)
(* moment in psem, with a producer, in csem, or with a customer, and where *)
(* it is says whether its node is allocated and whether it is on the list. *)
(***************************************************************************)
EXTENDS SemQueue, FiniteSetTheorems, SequenceTheorems, TLAPS

\* How many threads of T are about to make one of the calls S.
Count(T, S) == Cardinality({t \in T : pc[t] \in S})

\* The length of the list and the number of live nodes.
Length == Len(head)
Live == Cardinality(heap)

\* 1 when the call a is one of S.
In(a, S) == IF a \in S THEN 1 ELSE 0

PToken == {"lock", "alloc", "link", "unlock", "post"}
CToken == {"lock", "take", "pop", "free", "unlock", "post"}
PListed == {"unlock", "post"}
CListed == {"lock", "take", "pop"}
PLive == {"link", "unlock", "post"}
CLive == {"lock", "take", "pop", "free"}
Critical == {"alloc", "link", "take", "pop", "free", "unlock"}

\* Each unit of Capacity is in one place; the nodes on the list, and the live
\* nodes, are those of the units that have passed PLink, PAlloc and not yet
\* CPop, CFree.
Tokens ==
    /\ psem + Count(Producer, PToken) + csem + Count(Consumer, CToken) = Capacity
    /\ Length = Count(Producer, PListed) + csem + Count(Consumer, CListed)
    /\ Live = Count(Producer, PLive) + csem + Count(Consumer, CLive)

\* A thread inside a critical section holds the mutex, and producers and
\* customers keep to their own calls.
Exclusive ==
    /\ \A t \in Thread : pc[t] \in Critical => mutex = t
    /\ \A p \in Producer : pc[p] \notin {"take", "pop", "free"}
    /\ \A c \in Consumer : pc[c] \notin {"alloc", "link"}

Fresh(n) == n \in heap /\ \A i \in 1..Len(head) : head[i] # n

\* What the local pointers are while the mutex is held.
Locals ==
    /\ \A p \in Producer : pc[p] = "link" =>
          \E n \in Node : Fresh(n) /\ ptr[p] = <<n>> \o head
    /\ \A c \in Consumer : pc[c] = "pop" => ptr[c] = head
    /\ \A c \in Consumer : pc[c] = "free" => ptr[c] # <<>> /\ Fresh(Head(ptr[c]))

\* The list holds live nodes, each once.
ListOK == /\ \A i \in 1..Len(head) : head[i] \in heap
          /\ \A i, j \in 1..Len(head) : head[i] = head[j] => i = j

IInv == TypeOK /\ Tokens /\ Exclusive /\ Locals /\ ListOK

-----------------------------------------------------------------------------
(* Counting *)

\* The sizes of two finite sets that differ at most in the member x.
LEMMA OneMember ==
    ASSUME NEW A, IsFiniteSet(A), NEW B, IsFiniteSet(B), NEW x,
           A \ {x} = B \ {x}
    PROVE  /\ Cardinality(A) \in Nat /\ Cardinality(B) \in Nat
           /\ (x \in A <=> x \in B) => Cardinality(B) = Cardinality(A)
           /\ x \in A /\ x \notin B => Cardinality(B) = Cardinality(A) - 1
           /\ x \notin A /\ x \in B => Cardinality(B) = Cardinality(A) + 1
           /\ x \in A => Cardinality(A) > 0
<1>1. Cardinality(A) \in Nat /\ Cardinality(B) \in Nat
  BY FS_CardinalityType
<1>2. ASSUME x \in A PROVE Cardinality(A) > 0
  <2>1. Cardinality(A) # 0
    BY <1>2, FS_EmptySet
  <2> QED BY <2>1, <1>1
<1>3. ASSUME x \in A <=> x \in B PROVE Cardinality(B) = Cardinality(A)
  <2>1. A = B
    BY <1>3
  <2> QED BY <2>1
<1>4. ASSUME x \in A, x \notin B PROVE Cardinality(B) = Cardinality(A) - 1
  <2>1. B = A \ {x}
    BY <1>4
  <2> QED BY <2>1, <1>4, FS_RemoveElement, Zenon
<1>5. ASSUME x \notin A, x \in B PROVE Cardinality(B) = Cardinality(A) + 1
  <2>1. B = A \cup {x}
    BY <1>5
  <2> QED BY <2>1, <1>5, FS_AddElement, Zenon
<1> QED BY <1>1, <1>2, <1>3, <1>4, <1>5

\* The effect of a call of a producer on every count.
LEMMA ProducerMoves ==
    ASSUME TypeOK, NEW p \in Producer, NEW a, NEW b, Goto(p, a, b), NEW S
    PROVE  /\ Count(Producer, S) \in Nat /\ Count(Producer, S)' \in Nat
           /\ Count(Producer, S)' = Count(Producer, S) + (In(b, S) - In(a, S))
           /\ a \in S => Count(Producer, S) > 0
           /\ Count(Consumer, S) \in Nat
           /\ Count(Consumer, S)' = Count(Consumer, S)
<1>1. pc[p] = a /\ pc'[p] = b /\ \A t \in Producer : t # p => pc'[t] = pc[t]
  BY DEF TypeOK, Thread, Goto
<1>2. \A c \in Consumer : pc'[c] = pc[c]
  BY SemQueueAssumption DEF TypeOK, Thread, Goto
<1>3. {c \in Consumer : pc'[c] \in S} = {c \in Consumer : pc[c] \in S}
  BY <1>2
<1>4. IsFiniteSet({c \in Consumer : pc[c] \in S})
  BY SemQueueAssumption, FS_Subset
<1>5. Count(Consumer, S) \in Nat /\ Count(Consumer, S)' = Count(Consumer, S)
  BY <1>3, <1>4, FS_CardinalityType DEF Count
<1> DEFINE A == {t \in Producer : pc[t] \in S}
           B == {t \in Producer : pc'[t] \in S}
<1>6. /\ IsFiniteSet(A) /\ IsFiniteSet(B)
      /\ A \ {p} = B \ {p}
      /\ (p \in A <=> a \in S) /\ (p \in B <=> b \in S)
  BY <1>1, SemQueueAssumption, FS_Subset
<1>7. Count(Producer, S) = Cardinality(A) /\ Count(Producer, S)' = Cardinality(B)
  BY DEF Count
<1>8. /\ Cardinality(A) \in Nat /\ Cardinality(B) \in Nat
      /\ Cardinality(B) = Cardinality(A) + (In(b, S) - In(a, S))
      /\ a \in S => Cardinality(A) > 0
  <2> HIDE DEF A, B
  <2>1. /\ Cardinality(A) \in Nat /\ Cardinality(B) \in Nat
        /\ (p \in A <=> p \in B) => Cardinality(B) = Cardinality(A)
        /\ p \in A /\ p \notin B => Cardinality(B) = Cardinality(A) - 1
        /\ p \notin A /\ p \in B => Cardinality(B) = Cardinality(A) + 1
        /\ p \in A => Cardinality(A) > 0
    BY <1>6, OneMember
  <2> QED BY <2>1, <1>6 DEF In
<1> QED BY <1>5, <1>7, <1>8

\* The effect of a call of a customer on every count.
LEMMA ConsumerMoves ==
    ASSUME TypeOK, NEW c \in Consumer, NEW a, NEW b, Goto(c, a, b), NEW S
    PROVE  /\ Count(Consumer, S) \in Nat /\ Count(Consumer, S)' \in Nat
           /\ Count(Consumer, S)' = Count(Consumer, S) + (In(b, S) - In(a, S))
           /\ a \in S => Count(Consumer, S) > 0
           /\ Count(Producer, S) \in Nat
           /\ Count(Producer, S)' = Count(Producer, S)
<1>1. pc[c] = a /\ pc'[c] = b /\ \A t \in Consumer : t # c => pc'[t] = pc[t]
  BY DEF TypeOK, Thread, Goto
<1>2. \A p \in Producer : pc'[p] = pc[p]
  BY SemQueueAssumption DEF TypeOK, Thread, Goto
<1>3. {p \in Producer : pc'[p] \in S} = {p \in Producer : pc[p] \in S}
  BY <1>2
<1>4. IsFiniteSet({p \in Producer : pc[p] \in S})
  BY SemQueueAssumption, FS_Subset
<1>5. Count(Producer, S) \in Nat /\ Count(Producer, S)' = Count(Producer, S)
  BY <1>3, <1>4, FS_CardinalityType DEF Count
<1> DEFINE A == {t \in Consumer : pc[t] \in S}
           B == {t \in Consumer : pc'[t] \in S}
<1>6. /\ IsFiniteSet(A) /\ IsFiniteSet(B)
      /\ A \ {c} = B \ {c}
      /\ (c \in A <=> a \in S) /\ (c \in B <=> b \in S)
  BY <1>1, SemQueueAssumption, FS_Subset
<1>7. Count(Consumer, S) = Cardinality(A) /\ Count(Consumer, S)' = Cardinality(B)
  BY DEF Count
<1>8. /\ Cardinality(A) \in Nat /\ Cardinality(B) \in Nat
      /\ Cardinality(B) = Cardinality(A) + (In(b, S) - In(a, S))
      /\ a \in S => Cardinality(A) > 0
  <2> HIDE DEF A, B
  <2>1. /\ Cardinality(A) \in Nat /\ Cardinality(B) \in Nat
        /\ (c \in A <=> c \in B) => Cardinality(B) = Cardinality(A)
        /\ c \in A /\ c \notin B => Cardinality(B) = Cardinality(A) - 1
        /\ c \notin A /\ c \in B => Cardinality(B) = Cardinality(A) + 1
        /\ c \in A => Cardinality(A) > 0
    BY <1>6, OneMember
  <2> QED BY <2>1, <1>6 DEF In
<1> QED BY <1>5, <1>7, <1>8

-----------------------------------------------------------------------------
(* Lists *)

\* Linking a node in front of a list.
LEMMA Cons ==
    ASSUME NEW S, NEW s \in Seq(S), NEW n \in S
    PROVE  /\ <<n>> \o s \in Seq(S)
           /\ Len(<<n>> \o s) = Len(s) + 1
           /\ (<<n>> \o s)[1] = n
           /\ \A i \in 2..(Len(s) + 1) : (<<n>> \o s)[i] = s[i - 1]
           /\ Head(<<n>> \o s) = n
           /\ <<n>> \o s # <<>>
  OBVIOUS

\* Dropping the first node of a list.
LEMMA Drop ==
    ASSUME NEW S, NEW s \in Seq(S), s # <<>>
    PROVE  /\ Tail(s) \in Seq(S)
           /\ Len(s) \in Nat /\ Len(s) > 0
           /\ Len(Tail(s)) = Len(s) - 1
           /\ Head(s) = s[1] /\ Head(s) \in S
           /\ \A i \in 1..(Len(s) - 1) : Tail(s)[i] = s[i + 1]
  OBVIOUS

-----------------------------------------------------------------------------
(* The inductive invariant *)

LEMMA InitInv == Init => IInv
<1> SUFFICES ASSUME Init PROVE IInv
  OBVIOUS
<1>1. TypeOK
  BY SemQueueAssumption DEF Init, TypeOK
<1>2. ASSUME NEW T \in SUBSET Thread, NEW S, "wait" \notin S
      PROVE  Count(T, S) = 0
  <2>1. {t \in T : pc[t] \in S} = {}
    BY <1>2 DEF Init
  <2> QED BY <2>1, FS_EmptySet DEF Count
<1>3. Tokens
  <2>1. /\ Count(Producer, PToken) = 0 /\ Count(Consumer, CToken) = 0
        /\ Count(Producer, PListed) = 0 /\ Count(Consumer, CListed) = 0
        /\ Count(Producer, PLive) = 0 /\ Count(Consumer, CLive) = 0
    BY <1>2 DEF Thread, PToken, CToken, PListed, CListed, PLive, CLive
  <2>2. Cardinality(heap) = 0
    BY FS_EmptySet DEF Init
  <2> QED BY <2>1, <2>2, SemQueueAssumption DEF Tokens, Init, Length, Live
<1>4. Exclusive /\ Locals /\ ListOK
  BY DEF Init, Exclusive, Locals, ListOK, Critical, Thread
<1> QED BY <1>1, <1>3, <1>4 DEF IInv

\* The live nodes and the list are finite, with a size that is a number.
LEMMA Sizes ==
    ASSUME IInv
    PROVE  /\ psem \in Nat /\ csem \in Nat /\ Length \in Nat
           /\ Live \in Nat
<1>1. heap \subseteq Node
  BY DEF IInv, TypeOK
<1>2. IsFiniteSet(heap)
  BY <1>1, SemQueueAssumption, FS_Subset
<1> QED BY <1>2, FS_CardinalityType DEF IInv, TypeOK, Length, Live

\* A call that takes a producer (a customer) from a to b moves exactly the
\* units, list places and live nodes that the move accounts for.
ProducerBalanced(a, b) ==
    /\ psem' + csem' = (psem + csem) + (In(a, PToken) - In(b, PToken))
    /\ Length' = Length + (csem' - csem) + (In(b, PListed) - In(a, PListed))
    /\ Live' = Live + (csem' - csem) + (In(b, PLive) - In(a, PLive))

ConsumerBalanced(a, b) ==
    /\ psem' + csem' = (psem + csem) + (In(a, CToken) - In(b, CToken))
    /\ Length' = Length + (csem' - csem) + (In(b, CListed) - In(a, CListed))
    /\ Live' = Live + (csem' - csem) + (In(b, CLive) - In(a, CLive))

\* A balanced call of a producer keeps the token count.
LEMMA ProducerTokens ==
    ASSUME IInv, TypeOK', NEW p \in Producer, NEW a, NEW b, Goto(p, a, b),
           ProducerBalanced(a, b)
    PROVE  Tokens'
<1>0. psem \in Nat /\ csem \in Nat /\ Length \in Nat /\ Live \in Nat
  BY Sizes
<1>1. psem' \in Nat /\ csem' \in Nat
  BY DEF TypeOK
<1>2. \A S : /\ Count(Producer, S) \in Nat /\ Count(Producer, S)' \in Nat
             /\ Count(Producer, S)' = Count(Producer, S) + (In(b, S) - In(a, S))
             /\ Count(Consumer, S) \in Nat /\ Count(Consumer, S)' = Count(Consumer, S)
             /\ In(a, S) \in Nat /\ In(b, S) \in Nat
  BY ProducerMoves DEF IInv, In
<1>3. (psem + Count(Producer, PToken) + csem + Count(Consumer, CToken) = Capacity)'
  <2>1. psem + Count(Producer, PToken) + csem + Count(Consumer, CToken) = Capacity
    BY DEF IInv, Tokens
  <2>2. psem' + csem' = (psem + csem) + (In(a, PToken) - In(b, PToken))
    BY DEF ProducerBalanced
  <2>3. /\ Count(Producer, PToken) \in Nat /\ Count(Producer, PToken)' \in Nat
        /\ Count(Producer, PToken)' = Count(Producer, PToken) + (In(b, PToken) - In(a, PToken))
        /\ Count(Consumer, CToken) \in Nat /\ Count(Consumer, CToken)' = Count(Consumer, CToken)
        /\ In(a, PToken) \in Nat /\ In(b, PToken) \in Nat
    BY <1>2
  <2>4. psem' + Count(Producer, PToken)' + csem' = psem + Count(Producer, PToken) + csem
    BY <1>0, <1>1, <2>2, <2>3
  <2> QED BY <1>0, <1>1, <2>1, <2>3, <2>4
<1>4. (Length = Count(Producer, PListed) + csem + Count(Consumer, CListed))'
  <2>1. Length = Count(Producer, PListed) + csem + Count(Consumer, CListed)
    BY DEF IInv, Tokens
  <2>2. Length' = Length + (csem' - csem) + (In(b, PListed) - In(a, PListed))
    BY DEF ProducerBalanced
  <2>3. /\ Count(Producer, PListed) \in Nat /\ Count(Producer, PListed)' \in Nat
        /\ Count(Producer, PListed)' = Count(Producer, PListed) + (In(b, PListed) - In(a, PListed))
        /\ Count(Consumer, CListed) \in Nat /\ Count(Consumer, CListed)' = Count(Consumer, CListed)
        /\ In(a, PListed) \in Nat /\ In(b, PListed) \in Nat
    BY <1>2
  <2> QED BY <1>0, <1>1, <2>1, <2>2, <2>3
<1>5. (Live = Count(Producer, PLive) + csem + Count(Consumer, CLive))'
  <2>1. Live = Count(Producer, PLive) + csem + Count(Consumer, CLive)
    BY DEF IInv, Tokens
  <2>2. Live'
          = Live + (csem' - csem) + (In(b, PLive) - In(a, PLive))
    BY DEF ProducerBalanced
  <2>3. /\ Count(Producer, PLive) \in Nat /\ Count(Producer, PLive)' \in Nat
        /\ Count(Producer, PLive)' = Count(Producer, PLive) + (In(b, PLive) - In(a, PLive))
        /\ Count(Consumer, CLive) \in Nat /\ Count(Consumer, CLive)' = Count(Consumer, CLive)
        /\ In(a, PLive) \in Nat /\ In(b, PLive) \in Nat
    BY <1>2
  <2> QED BY <1>0, <1>1, <2>1, <2>2, <2>3
<1> QED BY <1>3, <1>4, <1>5 DEF Tokens

\* A balanced call of a customer keeps the token count.
LEMMA ConsumerTokens ==
    ASSUME IInv, TypeOK', NEW c \in Consumer, NEW a, NEW b, Goto(c, a, b),
           ConsumerBalanced(a, b)
    PROVE  Tokens'
<1>0. psem \in Nat /\ csem \in Nat /\ Length \in Nat /\ Live \in Nat
  BY Sizes
<1>1. psem' \in Nat /\ csem' \in Nat
  BY DEF TypeOK
<1>2. \A S : /\ Count(Consumer, S) \in Nat /\ Count(Consumer, S)' \in Nat
             /\ Count(Consumer, S)' = Count(Consumer, S) + (In(b, S) - In(a, S))
             /\ Count(Producer, S) \in Nat /\ Count(Producer, S)' = Count(Producer, S)
             /\ In(a, S) \in Nat /\ In(b, S) \in Nat
  BY ConsumerMoves DEF IInv, In
<1>3. (psem + Count(Producer, PToken) + csem + Count(Consumer, CToken) = Capacity)'
  <2>1. psem + Count(Producer, PToken) + csem + Count(Consumer, CToken) = Capacity
    BY DEF IInv, Tokens
  <2>2. psem' + csem' = (psem + csem) + (In(a, CToken) - In(b, CToken))
    BY DEF ConsumerBalanced
  <2>3. /\ Count(Consumer, CToken) \in Nat /\ Count(Consumer, CToken)' \in Nat
        /\ Count(Consumer, CToken)' = Count(Consumer, CToken) + (In(b, CToken) - In(a, CToken))
        /\ Count(Producer, PToken) \in Nat /\ Count(Producer, PToken)' = Count(Producer, PToken)
        /\ In(a, CToken) \in Nat /\ In(b, CToken) \in Nat
    BY <1>2
  <2>4. psem' + Count(Consumer, CToken)' + csem' = psem + Count(Consumer, CToken) + csem
    BY <1>0, <1>1, <2>2, <2>3
  <2> QED BY <1>0, <1>1, <2>1, <2>3, <2>4
<1>4. (Length = Count(Producer, PListed) + csem + Count(Consumer, CListed))'
  <2>1. Length = Count(Producer, PListed) + csem + Count(Consumer, CListed)
    BY DEF IInv, Tokens
  <2>2. Length' = Length + (csem' - csem) + (In(b, CListed) - In(a, CListed))
    BY DEF ConsumerBalanced
  <2>3. /\ Count(Consumer, CListed) \in Nat /\ Count(Consumer, CListed)' \in Nat
        /\ Count(Consumer, CListed)' = Count(Consumer, CListed) + (In(b, CListed) - In(a, CListed))
        /\ Count(Producer, PListed) \in Nat /\ Count(Producer, PListed)' = Count(Producer, PListed)
        /\ In(a, CListed) \in Nat /\ In(b, CListed) \in Nat
    BY <1>2
  <2> QED BY <1>0, <1>1, <2>1, <2>2, <2>3
<1>5. (Live = Count(Producer, PLive) + csem + Count(Consumer, CLive))'
  <2>1. Live = Count(Producer, PLive) + csem + Count(Consumer, CLive)
    BY DEF IInv, Tokens
  <2>2. Live'
          = Live + (csem' - csem) + (In(b, CLive) - In(a, CLive))
    BY DEF ConsumerBalanced
  <2>3. /\ Count(Consumer, CLive) \in Nat /\ Count(Consumer, CLive)' \in Nat
        /\ Count(Consumer, CLive)' = Count(Consumer, CLive) + (In(b, CLive) - In(a, CLive))
        /\ Count(Producer, PLive) \in Nat /\ Count(Producer, PLive)' = Count(Producer, PLive)
        /\ In(a, CLive) \in Nat /\ In(b, CLive) \in Nat
    BY <1>2
  <2> QED BY <1>0, <1>1, <2>1, <2>2, <2>3
<1> QED BY <1>3, <1>4, <1>5 DEF Tokens

\* The mutex is taken only when free and given back only by its holder.
LEMMA LockStep ==
    ASSUME IInv, NEW t \in Thread, NEW to,
           \/ t \in Producer /\ to = "alloc"
           \/ t \in Consumer /\ to = "take",
           Lock(t, to)
    PROVE  IInv'
<1>1. TypeOK'
  BY DEF IInv, TypeOK, Lock, Goto
<1>2. Tokens'
  <2>0. psem' = psem /\ csem' = csem /\ Length' = Length /\ Live' = Live
    BY DEF Lock, Length, Live
  <2>1. ProducerBalanced("lock", "alloc") /\ ConsumerBalanced("lock", "take")
    BY <2>0, Sizes DEF ProducerBalanced, ConsumerBalanced, In, PToken, PListed, PLive,
                 CToken, CListed, CLive
  <2> QED BY <1>1, <2>1, ProducerTokens, ConsumerTokens DEF Lock
<1>3. Exclusive'
  BY SemQueueAssumption DEF IInv, TypeOK, Exclusive, Critical, Lock, Goto, Thread
<1>4. Locals'
  BY SemQueueAssumption DEF IInv, TypeOK, Locals, Fresh, Lock, Goto, Thread
<1>5. ListOK'
  BY DEF IInv, ListOK, Lock
<1> QED BY <1>1, <1>2, <1>3, <1>4, <1>5 DEF IInv

\* A customer at `head = head->next' finds a node: its unit came from csem, so
\* at least one node is on the list.
LEMMA PopFindsNode ==
    ASSUME IInv, NEW c \in Consumer, pc[c] = "pop"
    PROVE  head # <<>>
<1> DEFINE A == {t \in Consumer : pc[t] \in CListed}
<1>1. IsFiniteSet(A) /\ c \in A
  BY SemQueueAssumption, FS_Subset DEF CListed
<1>2. Cardinality(A) \in Nat /\ Cardinality(A) # 0
  BY <1>1, FS_EmptySet, FS_CardinalityType
<1>3. IsFiniteSet({t \in Producer : pc[t] \in PListed})
  BY SemQueueAssumption, FS_Subset
<1>4. Count(Consumer, CListed) = Cardinality(A) /\ Count(Producer, PListed) \in Nat
  BY <1>3, FS_CardinalityType DEF Count
<1>5. Length > 0
  BY <1>2, <1>4 DEF IInv, TypeOK, Tokens
<1> QED BY <1>5 DEF Length

\* sem_wait(&psem) moves a unit from psem to the producer.
LEMMA PWaitStep ==
    ASSUME IInv, NEW p \in Producer, PWait(p)
    PROVE  IInv'
<1> p \in Thread
  BY DEF Thread
<1>1. TypeOK'
  BY DEF IInv, TypeOK, PWait, Goto
<1>2. Tokens'
  <2>1. /\ psem \in Nat /\ csem \in Nat
        /\ psem' = psem - 1 /\ csem' = csem
        /\ Length' = Length /\ Live' = Live
    BY DEF IInv, TypeOK, PWait, Length, Live
  <2>2. ProducerBalanced("wait", "lock")
    BY <2>1, Sizes DEF ProducerBalanced, In, PToken, PListed, PLive
  <2> QED BY <1>1, <2>2, ProducerTokens DEF PWait
<1>3. Exclusive'
  BY SemQueueAssumption DEF IInv, TypeOK, Exclusive, Critical, PWait, Goto, Thread
<1>4. Locals'
  BY SemQueueAssumption DEF IInv, TypeOK, Locals, Fresh, PWait, Goto, Thread
<1>5. ListOK'
  BY DEF IInv, ListOK, PWait
<1> QED BY <1>1, <1>2, <1>3, <1>4, <1>5 DEF IInv

\* sem_post(&csem) moves the producer's unit to csem.
LEMMA PPostStep ==
    ASSUME IInv, NEW p \in Producer, PPost(p)
    PROVE  IInv'
<1> p \in Thread
  BY DEF Thread
<1>1. TypeOK'
  BY DEF IInv, TypeOK, PPost, Goto
<1>2. Tokens'
  <2>1. /\ psem \in Nat /\ csem \in Nat
        /\ psem' = psem /\ csem' = csem + 1
        /\ Length' = Length /\ Live' = Live
    BY DEF IInv, TypeOK, PPost, Length, Live
  <2>2. ProducerBalanced("post", "wait")
    BY <2>1, Sizes DEF ProducerBalanced, In, PToken, PListed, PLive
  <2> QED BY <1>1, <2>2, ProducerTokens DEF PPost
<1>3. Exclusive'
  BY SemQueueAssumption DEF IInv, TypeOK, Exclusive, Critical, PPost, Goto, Thread
<1>4. Locals'
  BY SemQueueAssumption DEF IInv, TypeOK, Locals, Fresh, PPost, Goto, Thread
<1>5. ListOK'
  BY DEF IInv, ListOK, PPost
<1> QED BY <1>1, <1>2, <1>3, <1>4, <1>5 DEF IInv

\* sem_wait(&csem) moves a unit from csem to the customer.
LEMMA CWaitStep ==
    ASSUME IInv, NEW c \in Consumer, CWait(c)
    PROVE  IInv'
<1> c \in Thread
  BY DEF Thread
<1>1. TypeOK'
  BY DEF IInv, TypeOK, CWait, Goto
<1>2. Tokens'
  <2>1. /\ psem \in Nat /\ csem \in Nat
        /\ psem' = psem /\ csem' = csem - 1
        /\ Length' = Length /\ Live' = Live
    BY DEF IInv, TypeOK, CWait, Length, Live
  <2>2. ConsumerBalanced("wait", "lock")
    BY <2>1, Sizes DEF ConsumerBalanced, In, CToken, CListed, CLive
  <2> QED BY <1>1, <2>2, ConsumerTokens DEF CWait
<1>3. Exclusive'
  BY SemQueueAssumption DEF IInv, TypeOK, Exclusive, Critical, CWait, Goto, Thread
<1>4. Locals'
  BY SemQueueAssumption DEF IInv, TypeOK, Locals, Fresh, CWait, Goto, Thread
<1>5. ListOK'
  BY DEF IInv, ListOK, CWait
<1> QED BY <1>1, <1>2, <1>3, <1>4, <1>5 DEF IInv

\* sem_post(&psem) moves the customer's unit back to psem.
LEMMA CPostStep ==
    ASSUME IInv, NEW c \in Consumer, CPost(c)
    PROVE  IInv'
<1> c \in Thread
  BY DEF Thread
<1>1. TypeOK'
  BY DEF IInv, TypeOK, CPost, Goto
<1>2. Tokens'
  <2>1. /\ psem \in Nat /\ csem \in Nat
        /\ psem' = psem + 1 /\ csem' = csem
        /\ Length' = Length /\ Live' = Live
    BY DEF IInv, TypeOK, CPost, Length, Live
  <2>2. ConsumerBalanced("post", "wait")
    BY <2>1, Sizes DEF ConsumerBalanced, In, CToken, CListed, CLive
  <2> QED BY <1>1, <2>2, ConsumerTokens DEF CPost
<1>3. Exclusive'
  BY SemQueueAssumption DEF IInv, TypeOK, Exclusive, Critical, CPost, Goto, Thread
<1>4. Locals'
  BY SemQueueAssumption DEF IInv, TypeOK, Locals, Fresh, CPost, Goto, Thread
<1>5. ListOK'
  BY DEF IInv, ListOK, CPost
<1> QED BY <1>1, <1>2, <1>3, <1>4, <1>5 DEF IInv

\* tmp = head changes only the customer's own pointer.
LEMMA CTakeStep ==
    ASSUME IInv, NEW c \in Consumer, CTake(c)
    PROVE  IInv'
<1> c \in Thread
  BY DEF Thread
<1>1. TypeOK'
  BY DEF IInv, TypeOK, CTake, Goto
<1>2. Tokens'
  <2>1. /\ psem \in Nat /\ csem \in Nat
        /\ psem' = psem /\ csem' = csem
        /\ Length' = Length /\ Live' = Live
    BY DEF IInv, TypeOK, CTake, Length, Live
  <2>2. ConsumerBalanced("take", "pop")
    BY <2>1, Sizes DEF ConsumerBalanced, In, CToken, CListed, CLive
  <2> QED BY <1>1, <2>2, ConsumerTokens DEF CTake
<1>3. Exclusive'
  BY SemQueueAssumption DEF IInv, TypeOK, Exclusive, Critical, CTake, Goto, Thread
<1>4. Locals'
  BY SemQueueAssumption DEF IInv, TypeOK, Locals, Fresh, CTake, Goto, Thread
<1>5. ListOK'
  BY DEF IInv, ListOK, CTake
<1> QED BY <1>1, <1>2, <1>3, <1>4, <1>5 DEF IInv

\* malloc returns a node that is not live; the producer holds it alone.
LEMMA PAllocStep ==
    ASSUME IInv, NEW p \in Producer, PAlloc(p)
    PROVE  IInv'
<1> p \in Thread
  BY DEF Thread
<1> PICK n \in Node \ heap : /\ heap' = heap \cup {n}
                              /\ ptr' = [ptr EXCEPT ![p] = <<n>> \o head]
  BY DEF PAlloc
<1>a. /\ head \in Seq(Node) /\ head' = head /\ Len(head) \in Nat
      /\ <<n>> \o head \in Seq(Node)
  BY Cons DEF IInv, TypeOK, PAlloc
<1>b. /\ IsFiniteSet(heap) /\ Cardinality(heap) \in Nat
      /\ Cardinality(heap') = Cardinality(heap) + 1
  BY SemQueueAssumption, FS_Subset, FS_CardinalityType, FS_AddElement DEF IInv, TypeOK
<1>c. \A i \in 1..Len(head) : head[i] # n
  BY DEF IInv, ListOK
<1>1. TypeOK'
  BY <1>a DEF IInv, TypeOK, PAlloc, Goto
<1>2. Tokens'
  <2>1. /\ psem \in Nat /\ csem \in Nat
        /\ psem' = psem /\ csem' = csem
        /\ Length' = Length /\ Live' = Live + 1
    BY <1>a, <1>b DEF IInv, TypeOK, PAlloc, Length, Live
  <2>2. ProducerBalanced("alloc", "link")
    BY <2>1, Sizes DEF ProducerBalanced, In, PToken, PListed, PLive
  <2> QED BY <1>1, <2>2, ProducerTokens DEF PAlloc
<1>3. Exclusive'
  BY SemQueueAssumption DEF IInv, TypeOK, Exclusive, Critical, PAlloc, Goto, Thread
<1>4. Locals'
  <2>1. \A q \in Producer : pc'[q] = "link" => q = p
    BY DEF IInv, TypeOK, Exclusive, Critical, PAlloc, Goto, Thread
  <2>2. \A c \in Consumer : pc'[c] \notin {"pop", "free"}
    BY SemQueueAssumption DEF IInv, TypeOK, Exclusive, Critical, PAlloc, Goto, Thread
  <2>3. n \in Node /\ Fresh(n)' /\ ptr'[p] = <<n>> \o head'
    BY <1>a, <1>c DEF Fresh, IInv, TypeOK
  <2> QED BY <2>1, <2>2, <2>3 DEF Locals
<1>5. ListOK'
  BY <1>a DEF IInv, ListOK
<1> QED BY <1>1, <1>2, <1>3, <1>4, <1>5 DEF IInv

\* head = newNode pushes the fresh node: nobody moved head in between.
LEMMA PLinkStep ==
    ASSUME IInv, NEW p \in Producer, PLink(p)
    PROVE  IInv'
<1> p \in Thread
  BY DEF Thread
<1> PICK n \in Node : Fresh(n) /\ ptr[p] = <<n>> \o head
  BY DEF IInv, Locals, PLink, Goto
<1>a. /\ head \in Seq(Node) /\ head' = <<n>> \o head /\ heap' = heap
      /\ Len(head) \in Nat
  BY DEF IInv, TypeOK, PLink
<1>b. /\ head' \in Seq(Node) /\ Len(head') = Len(head) + 1
      /\ head'[1] = n
      /\ \A i \in 2..(Len(head) + 1) : head'[i] = head[i - 1]
  BY <1>a, Cons
<1>1. TypeOK'
  BY <1>b DEF IInv, TypeOK, PLink, Goto
<1>2. Tokens'
  <2>1. /\ psem \in Nat /\ csem \in Nat
        /\ psem' = psem /\ csem' = csem
        /\ Length' = Length + 1 /\ Live' = Live
    BY <1>b DEF IInv, TypeOK, PLink, Length, Live
  <2>2. ProducerBalanced("link", "unlock")
    BY <2>1, Sizes DEF ProducerBalanced, In, PToken, PListed, PLive
  <2> QED BY <1>1, <2>2, ProducerTokens DEF PLink
<1>3. Exclusive'
  BY SemQueueAssumption DEF IInv, TypeOK, Exclusive, Critical, PLink, Goto, Thread
<1>4. Locals'
  <2>1. \A q \in Producer : pc'[q] # "link"
    BY DEF IInv, TypeOK, Exclusive, Critical, PLink, Goto, Thread
  <2>2. \A c \in Consumer : pc'[c] \notin {"pop", "free"}
    BY SemQueueAssumption DEF IInv, TypeOK, Exclusive, Critical, PLink, Goto, Thread
  <2> QED BY <2>1, <2>2 DEF Locals
<1>5. ListOK'
  <2>1. \A i \in 1..Len(head') : i = 1 \/ (i - 1 \in 1..Len(head) /\ head'[i] = head[i - 1])
    BY <1>a, <1>b
  <2>2. \A i \in 1..Len(head) : head[i] \in heap /\ head[i] # n
    BY DEF IInv, ListOK, Fresh
  <2>3. \A i, j \in 1..Len(head) : head[i] = head[j] => i = j
    BY DEF IInv, ListOK
  <2>4. \A i \in 1..Len(head') : head'[i] \in heap'
    BY <1>a, <1>b, <2>1, <2>2 DEF Fresh
  <2>5. ASSUME NEW i \in 1..Len(head'), NEW j \in 1..Len(head'), head'[i] = head'[j]
        PROVE  i = j
    BY <2>5, <1>a, <1>b, <2>1, <2>2, <2>3
  <2> QED BY <2>4, <2>5 DEF ListOK
<1> QED BY <1>1, <1>2, <1>3, <1>4, <1>5 DEF IInv

\* head = head->next pops the node tmp points to: csem guarantees there is one.
LEMMA CPopStep ==
    ASSUME IInv, NEW c \in Consumer, CPop(c)
    PROVE  IInv'
<1> c \in Thread
  BY DEF Thread
<1>a. head \in Seq(Node) /\ head # <<>> /\ ptr[c] = head
  BY PopFindsNode DEF IInv, TypeOK, Locals, CPop, Goto
<1>b. /\ head' = Tail(head) /\ heap' = heap
      /\ head' \in Seq(Node) /\ Len(head) \in Nat /\ Len(head) > 0
      /\ Len(head') = Len(head) - 1
      /\ Head(head) = head[1]
      /\ \A i \in 1..(Len(head) - 1) : head'[i] = head[i + 1]
  BY <1>a, Drop DEF CPop
<1>1. TypeOK'
  BY <1>b DEF IInv, TypeOK, CPop, Goto
<1>2. Tokens'
  <2>1. /\ psem \in Nat /\ csem \in Nat
        /\ psem' = psem /\ csem' = csem
        /\ Length' = Length - 1 /\ Live' = Live
    BY <1>b DEF IInv, TypeOK, CPop, Length, Live
  <2>2. ConsumerBalanced("pop", "free")
    BY <2>1, Sizes DEF ConsumerBalanced, In, CToken, CListed, CLive
  <2> QED BY <1>1, <2>2, ConsumerTokens DEF CPop
<1>3. Exclusive'
  BY SemQueueAssumption DEF IInv, TypeOK, Exclusive, Critical, CPop, Goto, Thread
<1>4. Locals'
  <2>1. \A p \in Producer : pc'[p] # "link"
    BY SemQueueAssumption DEF IInv, TypeOK, Exclusive, Critical, CPop, Goto, Thread
  <2>2. \A d \in Consumer : pc'[d] # "pop" /\ (pc'[d] = "free" => d = c)
    BY DEF IInv, TypeOK, Exclusive, Critical, CPop, Goto, Thread
  <2>3. ptr'[c] = head
    BY <1>a DEF CPop
  <2>4. head[1] \in heap /\ \A i \in 2..Len(head) : head[i] # head[1]
    BY <1>b DEF IInv, ListOK
  <2>5. Fresh(Head(ptr[c]))'
    BY <1>a, <1>b, <2>3, <2>4 DEF Fresh
  <2> QED BY <1>a, <2>1, <2>2, <2>3, <2>5 DEF Locals
<1>5. ListOK'
  <2>1. \A i \in 1..Len(head') : i + 1 \in 1..Len(head) /\ head'[i] = head[i + 1]
    BY <1>b
  <2>2. \A i \in 1..Len(head') : head'[i] \in heap'
    BY <1>b, <2>1 DEF IInv, ListOK
  <2>3. ASSUME NEW i \in 1..Len(head'), NEW j \in 1..Len(head'), head'[i] = head'[j]
        PROVE  i = j
    <3>1. i + 1 = j + 1
      BY <2>1, <2>3 DEF IInv, ListOK
    <3> QED BY <3>1, <1>b
  <2> QED BY <2>2, <2>3 DEF ListOK
<1> QED BY <1>1, <1>2, <1>3, <1>4, <1>5 DEF IInv

\* free(tmp) releases a live node that is off the list.
LEMMA CFreeStep ==
    ASSUME IInv, NEW c \in Consumer, CFree(c)
    PROVE  IInv'
<1> c \in Thread
  BY DEF Thread
<1> DEFINE n == Head(ptr[c])
<1>a. /\ Fresh(n) /\ heap' = heap \ {n} /\ head' = head
      /\ head \in Seq(Node) /\ Len(head) \in Nat
  BY DEF IInv, TypeOK, Locals, CFree, Goto
<1> HIDE DEF n
<1>b. /\ IsFiniteSet(heap) /\ Cardinality(heap) \in Nat
      /\ Cardinality(heap') = Cardinality(heap) - 1
  <2>1. IsFiniteSet(heap) /\ n \in heap /\ IsFiniteSet(heap \ {n})
    BY <1>a, SemQueueAssumption, FS_Subset DEF IInv, TypeOK, Fresh
  <2> QED BY <1>a, <2>1, FS_CardinalityType, FS_RemoveElement
<1>1. TypeOK'
  BY <1>a DEF IInv, TypeOK, CFree, Goto
<1>2. Tokens'
  <2>1. /\ psem \in Nat /\ csem \in Nat
        /\ psem' = psem /\ csem' = csem
        /\ Length' = Length /\ Live' = Live - 1
    BY <1>a, <1>b DEF IInv, TypeOK, CFree, Length, Live
  <2>2. ConsumerBalanced("free", "unlock")
    BY <2>1, Sizes DEF ConsumerBalanced, In, CToken, CListed, CLive
  <2> QED BY <1>1, <2>2, ConsumerTokens DEF CFree
<1>3. Exclusive'
  BY SemQueueAssumption DEF IInv, TypeOK, Exclusive, Critical, CFree, Goto, Thread
<1>4. Locals'
  <2>1. \A p \in Producer : pc'[p] # "link"
    BY SemQueueAssumption DEF IInv, TypeOK, Exclusive, Critical, CFree, Goto, Thread
  <2>2. \A d \in Consumer : pc'[d] \notin {"pop", "free"}
    BY DEF IInv, TypeOK, Exclusive, Critical, CFree, Goto, Thread
  <2> QED BY <2>1, <2>2 DEF Locals
<1>5. ListOK'
  BY <1>a DEF IInv, ListOK, Fresh
<1> QED BY <1>1, <1>2, <1>3, <1>4, <1>5 DEF IInv

\* Unlock gives the mutex back and leaves everything else alone.
LEMMA UnlockStep ==
    ASSUME IInv, NEW t \in Thread, Unlock(t)
    PROVE  IInv'
<1>1. TypeOK'
  BY DEF IInv, TypeOK, Unlock, Goto
<1>2. Tokens'
  <2>0. psem' = psem /\ csem' = csem /\ Length' = Length /\ Live' = Live
    BY DEF Unlock, Length, Live
  <2>1. ProducerBalanced("unlock", "post") /\ ConsumerBalanced("unlock", "post")
    BY <2>0, Sizes DEF ProducerBalanced, ConsumerBalanced, In, PToken, PListed, PLive,
                 CToken, CListed, CLive
  <2> QED BY <1>1, <2>1, ProducerTokens, ConsumerTokens DEF Unlock, Thread
<1>3. Exclusive'
  <2>1. \A u \in Thread : pc'[u] \in Critical => pc[u] \in Critical /\ u # t
    BY DEF IInv, TypeOK, Critical, Unlock, Goto
  <2>2. mutex = t
    BY DEF IInv, Exclusive, Critical, Unlock, Goto
  <2>3. \A u \in Thread : pc'[u] \notin Critical
    BY <2>1, <2>2 DEF IInv, Exclusive
  <2> QED BY <2>3 DEF Exclusive, Critical, Thread
<1>4. Locals'
  BY DEF IInv, TypeOK, Locals, Fresh, Unlock, Goto, Thread
<1>5. ListOK'
  BY DEF IInv, ListOK, Unlock
<1> QED BY <1>1, <1>2, <1>3, <1>4, <1>5 DEF IInv

\* Every step of every thread preserves the invariant.
LEMMA NextInv == IInv /\ [Next]_vars => IInv'
<1> SUFFICES ASSUME IInv, [Next]_vars PROVE IInv'
  OBVIOUS
<1>1. ASSUME NEW p \in Producer, producer(p) PROVE IInv'
  <2>1. p \in Thread
    BY DEF Thread
  <2> QED BY <1>1, <2>1, PWaitStep, LockStep, PAllocStep, PLinkStep, UnlockStep,
             PPostStep DEF producer
<1>2. ASSUME NEW c \in Consumer, customer(c) PROVE IInv'
  <2>1. c \in Thread
    BY DEF Thread
  <2> QED BY <1>2, <2>1, CWaitStep, LockStep, CTakeStep, CPopStep, CFreeStep,
             UnlockStep, CPostStep DEF customer
<1>3. CASE UNCHANGED vars
  BY <1>3 DEF vars, IInv, TypeOK, Tokens, Length, Live, Count, Exclusive, Locals, Fresh, ListOK
<1> QED BY <1>1, <1>2, <1>3 DEF Next

\* The invariant holds in every reachable state of the semaphore program.
THEOREM Invariance == Spec => []IInv
  BY InitInv, NextInv, PTL DEF Spec

\* The variables keep their types.
THEOREM TypeCorrect == Spec => []TypeOK
<1>1. IInv => TypeOK
  BY DEF IInv
<1> QED BY <1>1, Invariance, PTL

\* A customer never follows a NULL or a freed pointer, and never frees a node
\* twice or while it is on the list, for any number of threads.
THEOREM MemorySafety == Spec => []MemorySafe
<1>1. ASSUME IInv PROVE MemorySafe
  <2>1. ASSUME NEW c \in Consumer, pc[c] = "pop"
        PROVE  head # <<>> /\ Head(head) \in heap
    <3>1. head # <<>>
      BY <1>1, <2>1, PopFindsNode
    <3>2. Head(head) = head[1] /\ 1 \in 1..Len(head)
      BY <1>1, <3>1, Drop DEF IInv, TypeOK
    <3> QED BY <1>1, <3>1, <3>2 DEF IInv, ListOK
  <2>2. ASSUME NEW c \in Consumer, pc[c] = "free"
        PROVE  /\ ptr[c] # <<>> /\ Head(ptr[c]) \in heap
               /\ ~ \E i \in 1..Len(head) : head[i] = Head(ptr[c])
    BY <1>1, <2>2 DEF IInv, Locals, Fresh
  <2> QED BY <2>1, <2>2 DEF MemorySafe
<1> QED BY <1>1, Invariance, PTL

\* The counts bound the list and the heap by Capacity.
LEMMA Bounds ==
    ASSUME IInv
    PROVE  Length <= Capacity /\ Live <= Capacity
<1>1. ASSUME NEW T, IsFiniteSet(T), NEW S, NEW R, S \subseteq R
      PROVE  /\ Count(T, S) \in Nat /\ Count(T, R) \in Nat
             /\ Count(T, S) <= Count(T, R)
  <2>1. IsFiniteSet({t \in T : pc[t] \in R})
    BY <1>1, FS_Subset
  <2>2. {t \in T : pc[t] \in S} \subseteq {t \in T : pc[t] \in R}
    BY <1>1
  <2> QED BY <2>1, <2>2, FS_Subset, FS_CardinalityType DEF Count
<1>2. /\ Count(Producer, PLive) \in Nat /\ Count(Producer, PToken) \in Nat
      /\ Count(Producer, PLive) <= Count(Producer, PToken)
  BY <1>1, SemQueueAssumption DEF PLive, PToken
<1>3. /\ Count(Consumer, CLive) \in Nat /\ Count(Consumer, CToken) \in Nat
      /\ Count(Consumer, CLive) <= Count(Consumer, CToken)
  BY <1>1, SemQueueAssumption DEF CLive, CToken
<1>4. /\ Count(Producer, PListed) \in Nat /\ Count(Consumer, CListed) \in Nat
      /\ Count(Producer, PListed) <= Count(Producer, PLive)
  BY <1>1, SemQueueAssumption DEF PListed, PLive
<1>5. Count(Consumer, CListed) <= Count(Consumer, CLive)
  BY <1>1, SemQueueAssumption DEF CListed, CLive
<1>6. /\ psem + Count(Producer, PToken) + csem + Count(Consumer, CToken) = Capacity
      /\ Length = Count(Producer, PListed) + csem + Count(Consumer, CListed)
      /\ Live = Count(Producer, PLive) + csem + Count(Consumer, CLive)
      /\ psem \in Nat /\ csem \in Nat
  BY DEF IInv, TypeOK, Tokens
<1>7. Live <= Capacity
  BY <1>2, <1>3, <1>6, SemQueueAssumption
<1>8. Length <= Live /\ Live \in Nat /\ Length \in Nat
  BY <1>2, <1>3, <1>4, <1>5, <1>6
<1> QED BY <1>7, <1>8, SemQueueAssumption

\* psem bounds the live nodes for every capacity: a node is live only while
\* its unit is away from psem.
THEOREM HeapBound == Spec => []BoundedHeap
<1>1. IInv => BoundedHeap
  BY Bounds DEF BoundedHeap, Live
<1> QED BY <1>1, Invariance, PTL

\* No node is leaked: the live nodes are those on the list or in the hands of
\* the thread inside the critical section.
THEOREM NoLeaks == Spec => []NoLeak
<1> DEFINE Held(n) == \/ \E i \in 1..Len(head) : head[i] = n
                      \/ \E t \in Thread : pc[t] \in {"link", "free"} /\ Head(ptr[t]) = n
           Kept == \A n \in heap : Held(n)
<1>1. Init => Kept
  BY DEF Init
<1>2. ASSUME IInv, Kept, [Next]_vars PROVE Kept'
  <2> SUFFICES ASSUME NEW n \in heap' PROVE Held(n)'
    OBVIOUS
  <2>1. ASSUME NEW p \in Producer, PAlloc(p) PROVE Held(n)'
    <3>1. PICK m \in Node \ heap : /\ heap' = heap \cup {m}
                                   /\ ptr' = [ptr EXCEPT ![p] = <<m>> \o head]
      BY <2>1 DEF PAlloc
    <3>2. pc'[p] = "link" /\ Head(ptr'[p]) = m
      BY <1>2, <2>1, <3>1, Cons DEF IInv, TypeOK, Thread, PAlloc, Goto
    <3>3. CASE n = m
      BY <3>2, <3>3 DEF Thread
    <3>4. CASE n \in heap
      <4>1. \A t \in Thread : pc[t] \notin {"link", "free"}
        BY <1>2, <2>1 DEF IInv, Exclusive, Critical, PAlloc, Goto, Thread
      <4> QED BY <1>2, <2>1, <3>4, <4>1 DEF PAlloc
    <3> QED BY <3>1, <3>3, <3>4
  <2>2. ASSUME NEW p \in Producer, PLink(p) PROVE Held(n)'
    <3>1. PICK m \in Node : Fresh(m) /\ ptr[p] = <<m>> \o head
      BY <1>2, <2>2 DEF IInv, Locals, PLink, Goto
    <3>2. /\ head' = <<m>> \o head /\ n \in heap /\ Head(ptr[p]) = m
          /\ Len(head) \in Nat /\ Len(head') = Len(head) + 1 /\ head'[1] = m
          /\ \A i \in 2..(Len(head) + 1) : head'[i] = head[i - 1]
      BY <1>2, <2>2, <3>1, Cons DEF IInv, TypeOK, PLink
    <3>3. \A t \in Thread : pc[t] \in {"link", "free"} => t = p
      BY <1>2, <2>2 DEF IInv, Exclusive, Critical, PLink, Goto, Thread
    <3>4. CASE \E i \in 1..Len(head) : head[i] = n
      <4>1. PICK i \in 1..Len(head) : head[i] = n
        BY <3>4
      <4>2. i + 1 \in 1..Len(head') /\ head'[i + 1] = n
        BY <3>2, <4>1
      <4> QED BY <4>2
    <3>5. CASE n = m
      BY <3>2, <3>5
    <3> QED BY <1>2, <3>2, <3>3, <3>4, <3>5
  <2>3. ASSUME NEW c \in Consumer, CPop(c) PROVE Held(n)'
    <3>1. head # <<>> /\ ptr[c] = head /\ head \in Seq(Node)
      BY <1>2, <2>3, PopFindsNode DEF IInv, TypeOK, Locals, CPop, Goto
    <3>2. /\ n \in heap /\ pc'[c] = "free" /\ c \in Thread /\ ptr'[c] = head
          /\ Len(head) \in Nat /\ Len(head') = Len(head) - 1 /\ Head(head) = head[1]
          /\ \A i \in 1..(Len(head) - 1) : head'[i] = head[i + 1]
      BY <1>2, <2>3, <3>1, Drop DEF IInv, TypeOK, Thread, CPop, Goto
    <3>3. \A t \in Thread : pc[t] \notin {"link", "free"}
      BY <1>2, <2>3 DEF IInv, Exclusive, Critical, CPop, Goto, Thread
    <3>4. PICK i \in 1..Len(head) : head[i] = n
      BY <1>2, <3>2, <3>3
    <3>5. CASE i = 1
      BY <3>2, <3>4, <3>5
    <3>6. CASE i # 1
      <4>1. i - 1 \in 1..Len(head') /\ head'[i - 1] = n
        BY <3>2, <3>4, <3>6
      <4> QED BY <4>1
    <3> QED BY <3>5, <3>6
  <2>4. ASSUME NEW c \in Consumer, CFree(c) PROVE Held(n)'
    <3>1. \A t \in Thread : pc[t] \in {"link", "free"} => t = c
      BY <1>2, <2>4 DEF IInv, Exclusive, Critical, CFree, Goto, Thread
    <3>2. n \in heap /\ n # Head(ptr[c]) /\ head' = head
      BY <2>4 DEF CFree
    <3>3. \E i \in 1..Len(head) : head[i] = n
      BY <1>2, <3>1, <3>2
    <3> QED BY <3>2, <3>3
  <2>5. ASSUME heap' = heap, head' = head,
               \A t \in Thread : pc[t] \in {"link", "free"} =>
                   pc'[t] = pc[t] /\ ptr'[t] = ptr[t]
        PROVE  Held(n)'
    BY <1>2, <2>5
  <2>6. ASSUME NEW t \in Thread, \E to : Lock(t, to) \/ Unlock(t) PROVE Held(n)'
    BY <1>2, <2>5, <2>6 DEF IInv, TypeOK, Lock, Unlock, Goto
  <2>7. ASSUME NEW p \in Producer, PWait(p) \/ PPost(p) PROVE Held(n)'
    BY <1>2, <2>5, <2>7 DEF IInv, TypeOK, PWait, PPost, Goto
  <2>8. ASSUME NEW c \in Consumer, CWait(c) \/ CTake(c) \/ CPost(c) PROVE Held(n)'
    BY <1>2, <2>5, <2>8 DEF IInv, TypeOK, CWait, CTake, CPost, Goto
  <2>9. CASE UNCHANGED vars
    BY <1>2, <2>9, <2>5 DEF vars
  <2> QED BY <1>2, <2>1, <2>2, <2>3, <2>4, <2>6, <2>7, <2>8, <2>9
          DEF Next, producer, customer, Thread
<1>3. ASSUME IInv, Kept PROVE NoLeak
  <2>1. \A n \in Listed : n \in heap
    BY <1>3 DEF Listed, IInv, ListOK
  <2>2. \A t \in Thread : pc[t] \in {"link", "free"} => Head(ptr[t]) \in heap
    <3>1. ASSUME NEW p \in Producer, pc[p] = "link" PROVE Head(ptr[p]) \in heap
      <4>1. PICK n \in Node : Fresh(n) /\ ptr[p] = <<n>> \o head
        BY <1>3, <3>1 DEF IInv, Locals
      <4> QED BY <1>3, <4>1, Cons DEF IInv, TypeOK, Fresh
    <3>2. ASSUME NEW c \in Consumer, pc[c] = "free" PROVE Head(ptr[c]) \in heap
      BY <1>3, <3>2 DEF IInv, Locals, Fresh
    <3> QED BY <1>3, <3>1, <3>2 DEF IInv, Exclusive, Thread
  <2> QED BY <1>3, <2>1, <2>2 DEF NoLeak, Listed, InHand
<1> HIDE DEF Kept
<1> QED BY <1>1, <1>2, <1>3, Invariance, PTL DEF Spec

\* The program implements the bounded stack: each PLink is a push, each CPop a
\* pop, and no other step changes the list.
THEOREM Refinement == Spec => IsBoundedStack
<1>1. Init => Stack!Init
  BY DEF Init, Stack!Init
<1>a. IInv => Len(head) <= Capacity
  BY Bounds DEF Length
<1>b. IInv' => (Len(head) <= Capacity)'
  BY <1>a, PTL
<1>2. ASSUME IInv, IInv', [Next]_vars PROVE [Stack!Next]_head
  <2>1. ASSUME NEW p \in Producer, PLink(p) PROVE Stack!Next
    <3>1. PICK n \in Node : Fresh(n) /\ ptr[p] = <<n>> \o head
      BY <1>2, <2>1 DEF IInv, Locals, PLink, Goto
    <3>2. head' = <<n>> \o head
      BY <2>1, <3>1 DEF PLink
    <3>3. Len(head) \in Nat /\ Len(head') = Len(head) + 1
      BY <1>2, <3>2, Cons DEF IInv, TypeOK
    <3>4. Len(head') <= Capacity
      BY <1>2, <1>b
    <3>5. Stack!Push(n)
      BY <3>1, <3>2, <3>3, <3>4, SemQueueAssumption DEF Stack!Push, Stack!OnStack, Fresh
    <3> QED BY <3>5 DEF Stack!Next
  <2>2. ASSUME NEW c \in Consumer, CPop(c) PROVE Stack!Next
    <3>1. head # <<>>
      BY <1>2, <2>2, PopFindsNode DEF CPop, Goto
    <3> QED BY <2>2, <3>1 DEF CPop, Stack!Pop, Stack!Next
  <2>3. ASSUME NEW t \in Thread, \E to : Lock(t, to) \/ Unlock(t) PROVE head' = head
    BY <2>3 DEF Lock, Unlock
  <2>4. ASSUME NEW p \in Producer, PWait(p) \/ PAlloc(p) \/ PPost(p)
        PROVE  head' = head
    BY <2>4 DEF PWait, PAlloc, PPost
  <2>5. ASSUME NEW c \in Consumer, CWait(c) \/ CTake(c) \/ CFree(c) \/ CPost(c)
        PROVE  head' = head
    BY <2>5 DEF CWait, CTake, CFree, CPost
  <2>6. CASE UNCHANGED vars
    BY <2>6 DEF vars
  <2> QED BY <1>2, <2>1, <2>2, <2>3, <2>4, <2>5, <2>6
          DEF Next, producer, customer, Thread
<1> QED BY <1>1, <1>2, Invariance, PTL DEF Spec, IsBoundedStack, Stack!Spec

=============================================================================
