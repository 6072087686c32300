------------------------------ MODULE CondQueue ------------------------------
(***************************************************************************)
(* The first two producer/consumer programs of note 16: the linked list    *)
(* guarded by a mutex only (~ blocking: a customer that finds no node      *)
(* tries again), and the one in which it waits on a condition variable     *)
(* (blocking).  Pointers are modelled as in SemQueue.                      *)
(*                                                                         *)
(* usleep only delays a thread, which every interleaving already does.     *)
(***************************************************************************)
EXTENDS Integers, Sequences, FiniteSets

CONSTANTS Producer, Consumer, \* the threads main creates
          Node,               \* addresses malloc can return: bounds the list
          NoThread            \* the value of an unlocked mutex

Thread == Producer \cup Consumer

ASSUME CondQueueAssumption ==
    /\ IsFiniteSet(Producer) /\ IsFiniteSet(Consumer) /\ IsFiniteSet(Node)
    /\ Producer \cap Consumer = {}
    /\ Consumer # {}
    /\ NoThread \notin Thread

VARIABLES mutex, \* the thread that holds the mutex, or NoThread
          head,  \* the list
          heap,  \* nodes malloc'ed and not yet freed
          ptr,   \* per thread: newNode of a producer, tmp of a customer
          pc,    \* per thread: the call it is about to make or is blocked in
          blocking \* which of the two programs runs

vars == <<mutex, head, heap, ptr, pc, blocking>>

Init == /\ mutex = NoThread
        /\ head = <<>>
        /\ heap = {}
        /\ ptr = [t \in Thread |-> <<>>]
        /\ pc = [t \in Thread |-> "lock"]
        /\ blocking \in BOOLEAN

Goto(t, from, to) == /\ pc[t] = from
                     /\ pc' = [pc EXCEPT ![t] = to]
                     /\ UNCHANGED blocking

\* pthread_mutex_lock
Lock(t, to) == /\ Goto(t, "lock", to)
               /\ mutex = NoThread
               /\ mutex' = t
               /\ UNCHANGED <<head, heap, ptr>>

\* pthread_mutex_unlock; the local pointer goes out of scope
Unlock(t) == /\ Goto(t, "unlock", "lock")
             /\ mutex' = NoThread
             /\ ptr' = [ptr EXCEPT ![t] = <<>>]
             /\ UNCHANGED <<head, heap>>

-----------------------------------------------------------------------------
(* producer *)

\* The list of the code has no bound: a producer that has no address left for
\* a node is taken to be slow, before it asks for the mutex.
PLock(p) == heap # Node /\ Lock(p, "alloc")

PAllocNextUnset(p) == /\ Goto(p, "alloc", "link")
                      /\ \E n \in Node \ heap :
                            /\ heap' = heap \cup {n}
                            /\ ptr' = [ptr EXCEPT ![p] = <<n>>]
                      /\ UNCHANGED <<mutex, head>>

\* malloc and newNode->next = head
PAlloc(p) == /\ Goto(p, "alloc", "link")
             /\ \E n \in Node \ heap :
                   /\ heap' = heap \cup {n}
                   /\ ptr' = [ptr EXCEPT ![p] = <<n>> \o head]
             /\ UNCHANGED <<mutex, head>>

\* head = newNode
PLink(p) == /\ Goto(p, "link", IF blocking THEN "signal" ELSE "unlock")
            /\ head' = ptr[p]
            /\ UNCHANGED <<mutex, heap, ptr>>

PSignalOffByOne(p) ==
    /\ pc[p] = "signal"
    /\ \E W \in SUBSET {c \in Consumer : pc[c] = "waiting"} :
          /\ W = {} => Len(head) = 1 \/ \A c \in Consumer : pc[c] # "waiting"
          /\ pc' = [t \in Thread |-> IF t = p THEN "unlock"
                                     ELSE IF t \in W THEN "relock" ELSE pc[t]]
    /\ UNCHANGED <<mutex, head, heap, ptr, blocking>>

\* pthread_cond_signal: wakes one or more of the waiting customers, if any.
PSignal(p) ==
    /\ pc[p] = "signal"
    /\ \E W \in SUBSET {c \in Consumer : pc[c] = "waiting"} :
          /\ W = {} => \A c \in Consumer : pc[c] # "waiting"
          /\ pc' = [t \in Thread |-> IF t = p THEN "unlock"
                                     ELSE IF t \in W THEN "relock" ELSE pc[t]]
    /\ UNCHANGED <<mutex, head, heap, ptr, blocking>>

producer(p) == PLock(p) \/ PAlloc(p) \/ PLink(p) \/ PSignal(p) \/ Unlock(p)

-----------------------------------------------------------------------------
(* customer *)

\* tmp = head and the test of head
CTake(c) == /\ Goto(c, "take", IF head # <<>> THEN "pop"
                               ELSE IF blocking THEN "wait" ELSE "unlock")
            /\ ptr' = [ptr EXCEPT ![c] = head]
            /\ UNCHANGED <<mutex, head, heap>>

\* head = head->next
CPop(c) == /\ Goto(c, "pop", "free")
           /\ head' = Tail(head)
           /\ UNCHANGED <<mutex, heap, ptr>>

\* printing tmp->num and free(tmp)
CFree(c) == /\ Goto(c, "free", "unlock")
            /\ heap' = heap \ {Head(ptr[c])}
            /\ UNCHANGED <<mutex, head, ptr>>

\* pthread_cond_wait: in one step gives the mutex back and starts to wait
CWait(c) == /\ Goto(c, "wait", "waiting")
            /\ mutex' = NoThread
            /\ UNCHANGED <<head, heap, ptr>>

\* pthread_cond_wait may also return without a signal.
CSpurious(c) == /\ Goto(c, "waiting", "relock")
                /\ UNCHANGED <<mutex, head, heap, ptr>>

CRelockUntested(c) == /\ Goto(c, "relock", "pop")
                      /\ mutex = NoThread
                      /\ mutex' = c
                      /\ ptr' = [ptr EXCEPT ![c] = head]
                      /\ UNCHANGED <<head, heap>>

CRelockWaits(c) == /\ Goto(c, "relock", "wait")
                   /\ mutex = NoThread
                   /\ mutex' = c
                   /\ UNCHANGED <<head, heap, ptr>>

\* pthread_cond_wait takes the mutex again before it returns; the code then
\* unlocks and starts over, so the list is tested again.
CRelock(c) == /\ Goto(c, "relock", "unlock")
              /\ mutex = NoThread
              /\ mutex' = c
              /\ UNCHANGED <<head, heap, ptr>>

customer(c) == \/ Lock(c, "take") \/ CTake(c) \/ CPop(c) \/ CFree(c)
               \/ CWait(c) \/ CRelock(c) \/ Unlock(c)

-----------------------------------------------------------------------------
Next == \/ \E p \in Producer : producer(p)
        \/ \E c \in Consumer : customer(c) \/ CSpurious(c)

\* A thread that can run is scheduled.  Nothing is said of who gets a mutex that
\* several threads ask for: a customer that finds no node does not sleep before
\* it locks again, so it may keep the others out for any time.  That producers
\* cannot do so while there is a node is the bound of PLock, which stands for
\* their usleep(100).
Fairness == /\ \A p \in Producer : WF_vars(producer(p))
            /\ \A c \in Consumer : WF_vars(customer(c))

Spec == Init /\ [][Next]_vars

FairSpec == Spec /\ Fairness

-----------------------------------------------------------------------------
(* Properties *)

\* A thread in one of these places is between its lock and its unlock.
Critical == {"alloc", "link", "signal", "take", "pop", "free", "wait", "unlock"}

\* Every variable has its type, and the mutex is held exactly by the thread
\* that is inside a critical section, across pthread_cond_wait as well.
TypeOK == /\ mutex \in Thread \cup {NoThread}
          /\ head \in Seq(Node)
          /\ heap \in SUBSET Node
          /\ ptr \in [Thread -> Seq(Node)]
          /\ pc \in [Thread -> {"lock", "alloc", "link", "signal", "take", "pop",
                               "free", "wait", "waiting", "relock", "unlock"}]
          /\ blocking \in BOOLEAN
          /\ \A t \in Thread : pc[t] \in Critical <=> mutex = t

\* The customer dereferences only live nodes: the test of `head' still holds
\* when `head = head->next' runs, and free(tmp) is given a live node that is
\* off the list.
MemorySafe ==
    \A c \in Consumer :
        /\ pc[c] = "pop" => head # <<>> /\ Head(head) \in heap
        /\ pc[c] = "free" => /\ ptr[c] # <<>> /\ Head(ptr[c]) \in heap
                            /\ ~ \E i \in 1..Len(head) : head[i] = Head(ptr[c])

\* No wakeup is lost: while there is a node, some customer is awake (and will
\* look at the list again) or a producer is about to signal.
NoLostWakeup ==
    head # <<>> => \/ \E c \in Consumer : pc[c] # "waiting"
                   \/ \E p \in Producer : pc[p] = "signal"

\* The list is a stack of distinct nodes, pushed and popped in one step.
Stack == INSTANCE BoundedStack WITH stack <- head, Capacity <- Cardinality(Node)
IsStack == Stack!Spec

\* A node on the list is not left there by sleeping customers: some customer
\* takes a node.
Consumed == (head # <<>>) ~> (\E c \in Consumer : pc[c] = "free")

=============================================================================
