------------------------------ MODULE SemQueue ------------------------------
(***************************************************************************)
(* The third producer/consumer program of note 16: a linked list guarded   *)
(* by a mutex, with one semaphore counting free places (psem) and one      *)
(* counting nodes (csem).                                                  *)
(*                                                                         *)
(* A pointer into the list is the sequence of nodes reachable from it      *)
(* (NULL is <<>>): `next' is written once, before the node is published,   *)
(* so what a pointer reaches does not change while its nodes are live.     *)
(* `num' is printed and never tested, so it is left out.                   *)
(***************************************************************************)
EXTENDS Integers, Sequences, FiniteSets

CONSTANTS Producer, Consumer, \* the threads main creates
          Node,               \* addresses malloc can return
          Capacity,           \* initial value of psem (8 in the code)
          NoThread            \* the value of an unlocked mutex

Thread == Producer \cup Consumer

ASSUME SemQueueAssumption ==
    /\ IsFiniteSet(Producer) /\ IsFiniteSet(Consumer) /\ IsFiniteSet(Node)
    /\ Producer \cap Consumer = {}
    /\ NoThread \notin Thread
    /\ Capacity \in Nat /\ Capacity <= Cardinality(Node)

VARIABLES mutex, \* the thread that holds the mutex, or NoThread
          psem,  \* places left
          csem,  \* nodes ready
          head,  \* the list
          heap,  \* nodes malloc'ed and not yet freed
          ptr,   \* per thread: newNode of a producer, tmp of a customer
          pc     \* per thread: the call it is about to make

vars == <<mutex, psem, csem, head, heap, ptr, pc>>

InitSwapped == /\ mutex = NoThread
               /\ psem = 0
               /\ csem = Capacity
               /\ head = <<>>
               /\ heap = {}
               /\ ptr = [t \in Thread |-> <<>>]
               /\ pc = [t \in Thread |-> "wait"]

Init == /\ mutex = NoThread
        /\ psem = Capacity
        /\ csem = 0
        /\ head = <<>>
        /\ heap = {}
        /\ ptr = [t \in Thread |-> <<>>]
        /\ pc = [t \in Thread |-> "wait"]

Goto(t, from, to) == pc[t] = from /\ pc' = [pc EXCEPT ![t] = to]

LockNotTaken(t, to) == /\ Goto(t, "lock", to)
                       /\ UNCHANGED <<mutex, psem, csem, head, heap, ptr>>

\* pthread_mutex_lock; `to' is the first statement of the critical section.
Lock(t, to) == /\ Goto(t, "lock", to)
               /\ mutex = NoThread
               /\ mutex' = t
               /\ UNCHANGED <<psem, csem, head, heap, ptr>>

Unlock(t) == /\ Goto(t, "unlock", "post")
             /\ mutex' = NoThread
             /\ UNCHANGED <<psem, csem, head, heap, ptr>>

-----------------------------------------------------------------------------
(* producer *)

PWaitSkipped(p) == /\ Goto(p, "wait", "lock")
                   /\ UNCHANGED <<mutex, psem, csem, head, heap, ptr>>

\* sem_wait(&psem)
PWait(p) == /\ Goto(p, "wait", "lock")
            /\ psem > 0
            /\ psem' = psem - 1
            /\ UNCHANGED <<mutex, csem, head, heap, ptr>>

PAllocNextUnset(p) == /\ Goto(p, "alloc", "link")
                      /\ \E n \in Node \ heap :
                            /\ heap' = heap \cup {n}
                            /\ ptr' = [ptr EXCEPT ![p] = <<n>>]
                      /\ UNCHANGED <<mutex, psem, csem, head>>

\* malloc and newNode->next = head
PAlloc(p) == /\ Goto(p, "alloc", "link")
             /\ \E n \in Node \ heap :
                   /\ heap' = heap \cup {n}
                   /\ ptr' = [ptr EXCEPT ![p] = <<n>> \o head]
             /\ UNCHANGED <<mutex, psem, csem, head>>

\* head = newNode
PLink(p) == /\ Goto(p, "link", "unlock")
            /\ head' = ptr[p]
            /\ UNCHANGED <<mutex, psem, csem, heap, ptr>>

\* sem_post(&csem); newNode goes out of scope
PPost(p) == /\ Goto(p, "post", "wait")
            /\ csem' = csem + 1
            /\ ptr' = [ptr EXCEPT ![p] = <<>>]
            /\ UNCHANGED <<mutex, psem, head, heap>>

producer(p) == \/ PWait(p) \/ Lock(p, "alloc") \/ PAlloc(p) \/ PLink(p)
               \/ Unlock(p) \/ PPost(p)

-----------------------------------------------------------------------------
(* customer *)

\* sem_wait(&csem)
CWait(c) == /\ Goto(c, "wait", "lock")
            /\ csem > 0
            /\ csem' = csem - 1
            /\ UNCHANGED <<mutex, psem, head, heap, ptr>>

\* tmp = head
CTake(c) == /\ Goto(c, "take", "pop")
            /\ ptr' = [ptr EXCEPT ![c] = head]
            /\ UNCHANGED <<mutex, psem, csem, head, heap>>

\* head = head->next, without a test for NULL
CPop(c) == /\ Goto(c, "pop", "free")
           /\ head' = Tail(head)
           /\ UNCHANGED <<mutex, psem, csem, heap, ptr>>

\* printing tmp->num and free(tmp)
CFree(c) == /\ Goto(c, "free", "unlock")
            /\ heap' = heap \ {Head(ptr[c])}
            /\ UNCHANGED <<mutex, psem, csem, head, ptr>>

\* sem_post(&psem); tmp goes out of scope
CPost(c) == /\ Goto(c, "post", "wait")
            /\ psem' = psem + 1
            /\ ptr' = [ptr EXCEPT ![c] = <<>>]
            /\ UNCHANGED <<mutex, csem, head, heap>>

CustomerLocksFirst(c) ==
    \/ /\ Goto(c, "wait", "lock") /\ mutex = NoThread /\ mutex' = c
       /\ UNCHANGED <<psem, csem, head, heap, ptr>>
    \/ pc[c] = "lock" /\ csem = 0 /\ UNCHANGED vars
    \/ /\ Goto(c, "lock", "take") /\ csem > 0 /\ csem' = csem - 1
       /\ UNCHANGED <<mutex, psem, head, heap, ptr>>
    \/ CTake(c) \/ CPop(c) \/ CFree(c) \/ Unlock(c) \/ CPost(c)

customer(c) == \/ CWait(c) \/ Lock(c, "take") \/ CTake(c) \/ CPop(c)
               \/ CFree(c) \/ Unlock(c) \/ CPost(c)

-----------------------------------------------------------------------------
Next == \/ \E p \in Producer : producer(p)
        \/ \E c \in Consumer : customer(c)

\* main creates both kinds of threads, detaches them and sleeps for ever: a
\* thread that can run is eventually scheduled.
Fairness == /\ \A p \in Producer : WF_vars(producer(p))
            /\ \A c \in Consumer : WF_vars(customer(c))

Spec == Init /\ [][Next]_vars

FairSpec == Spec /\ Fairness

-----------------------------------------------------------------------------
(* Properties *)

\* Every variable has its type.
TypeOK == /\ mutex \in Thread \cup {NoThread}
          /\ psem \in Nat /\ csem \in Nat
          /\ head \in Seq(Node)
          /\ heap \in SUBSET Node
          /\ ptr \in [Thread -> Seq(Node)]
          /\ pc \in [Thread -> {"wait", "lock", "alloc", "link", "take", "pop",
                               "free", "unlock", "post"}]

\* What the customer dereferences exists: `head = head->next' never meets
\* NULL, although the customer does not test for it, nor a freed node, and
\* free(tmp) is given a live node that is off the list.
MemorySafe ==
    \A c \in Consumer :
        /\ pc[c] = "pop" => head # <<>> /\ Head(head) \in heap
        /\ pc[c] = "free" => /\ ptr[c] # <<>> /\ Head(ptr[c]) \in heap
                            /\ ~ \E i \in 1..Len(head) : head[i] = Head(ptr[c])

\* Nodes of the list, or in the hands of the thread that is linking or
\* freeing one.
Listed == {head[i] : i \in 1..Len(head)}
InHand == {Head(ptr[t]) : t \in {u \in Thread : pc[u] \in {"link", "free"}}}

\* No node is lost and none is freed twice: the live nodes are exactly those
\* on the list and those in the hands of a thread (a lost update of `head'
\* would leak one).
NoLeak == heap = Listed \cup InHand

\* psem bounds the memory in use: nodes being linked or freed included, there
\* are never more than Capacity live nodes.
BoundedHeap == Cardinality(heap) <= Capacity

\* The list behaves as a stack of at most Capacity distinct nodes, pushed and
\* popped in one step.
Stack == INSTANCE BoundedStack WITH stack <- head
IsBoundedStack == Stack!Spec

\* The threads never all wait for each other: for ever again a customer takes
\* a node, and for ever again a producer links one.
Progress == /\ []<>(\E c \in Consumer : pc[c] = "free")
            /\ []<>(\E p \in Producer : pc[p] = "link")

=============================================================================
