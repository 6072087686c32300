-------------------------- MODULE CondQueue_proofs --------------------------
(***************************************************************************)
(* Proofs about CondQueue, for any number of threads and nodes and for     *)
(* both versions of the program.                                           *)
(***************************************************************************)
EXTENDS CondQueue, SequenceTheorems, TLAPS

\* What a customer found when it tested `head' still holds when it acts on
\* it, and without a condition variable nobody waits.
Tested ==
    \A c \in Consumer :
        /\ pc[c] = "wait" => head = <<>>
        /\ pc[c] = "pop" => head # <<>>
        /\ ~ blocking => pc[c] \notin {"wait", "waiting", "relock"}

IInv == TypeOK /\ Tested /\ NoLostWakeup

LEMMA InitInv == Init => IInv
<1> SUFFICES ASSUME Init PROVE IInv
  OBVIOUS
<1>1. TypeOK
  BY CondQueueAssumption DEF Init, TypeOK, Critical, Thread
<1>2. Tested
  BY DEF Init, Tested, Thread
<1> QED BY <1>1, <1>2 DEF Init, IInv, NoLostWakeup

\* A step that puts nobody to sleep, withdraws no signal and adds no node
\* loses no wakeup.
LEMMA AwakeStep ==
    ASSUME NoLostWakeup,
           head' # <<>> => head # <<>>,
           \A c \in Consumer : pc'[c] = "waiting" => pc[c] = "waiting",
           \A p \in Producer : pc[p] = "signal" => pc'[p] = "signal"
    PROVE  NoLostWakeup'
BY DEF NoLostWakeup

\* Taking and giving back the mutex.
LEMMA LockStep ==
    ASSUME IInv, NEW t \in Thread, NEW to \in {"alloc", "take"}, Lock(t, to)
    PROVE  IInv'
<1> USE DEF IInv
<1>1. TypeOK'
  BY CondQueueAssumption DEF TypeOK, Critical, Lock, Goto
<1>2. Tested'
  BY DEF Tested, TypeOK, Lock, Goto, Thread
<1>3. NoLostWakeup'
  BY AwakeStep DEF TypeOK, Lock, Goto, Thread
<1> QED BY <1>1, <1>2, <1>3

LEMMA UnlockStep == ASSUME IInv, NEW t \in Thread, Unlock(t) PROVE IInv'
<1> USE DEF IInv
<1>1. mutex = t
  BY DEF TypeOK, Critical, Unlock, Goto
<1>2. TypeOK'
  BY <1>1, CondQueueAssumption DEF TypeOK, Critical, Unlock, Goto
<1>3. Tested'
  BY DEF Tested, TypeOK, Unlock, Goto, Thread
<1>4. NoLostWakeup'
  BY AwakeStep DEF TypeOK, Unlock, Goto, Thread
<1> QED BY <1>2, <1>3, <1>4

\* The critical section of the producer.
LEMMA PAllocStep == ASSUME IInv, NEW p \in Producer, PAlloc(p) PROVE IInv'
<1> USE DEF IInv
<1>1. PICK n \in Node \ heap : /\ heap' = heap \cup {n}
                               /\ ptr' = [ptr EXCEPT ![p] = <<n>> \o head]
  BY DEF PAlloc
<1>2. <<n>> \o head \in Seq(Node)
  BY ConcatProperties DEF TypeOK
<1>3. TypeOK'
  BY <1>1, <1>2 DEF TypeOK, Critical, PAlloc, Goto, Thread
<1>4. Tested'
  BY DEF Tested, TypeOK, PAlloc, Goto, Thread
<1>5. NoLostWakeup'
  BY AwakeStep DEF TypeOK, PAlloc, Goto, Thread
<1> QED BY <1>3, <1>4, <1>5

LEMMA PLinkStep == ASSUME IInv, NEW p \in Producer, PLink(p) PROVE IInv'
<1> USE DEF IInv
<1>1. TypeOK'
  BY DEF TypeOK, Critical, PLink, Goto, Thread
<1>2. p \in Thread /\ mutex = p
  BY DEF TypeOK, Critical, PLink, Goto, Thread
<1>3. \A c \in Consumer : pc[c] \notin Critical /\ pc'[c] = pc[c]
  BY <1>2, CondQueueAssumption DEF TypeOK, Critical, PLink, Goto, Thread
<1>4. Tested'
  BY <1>3 DEF Tested, Critical, PLink, Goto
<1>5. NoLostWakeup'
  <2>1. CASE blocking
    BY <2>1, <1>2 DEF NoLostWakeup, PLink, Goto, TypeOK
  <2>2. CASE ~ blocking
    BY <2>2, <1>3, CondQueueAssumption DEF NoLostWakeup, Tested
  <2> QED BY <2>1, <2>2
<1> QED BY <1>1, <1>4, <1>5

\* pthread_cond_signal: somebody is awake after it.
LEMMA PSignalStep == ASSUME IInv, NEW p \in Producer, PSignal(p) PROVE IInv'
<1> USE DEF IInv
<1>1. PICK W \in SUBSET {c \in Consumer : pc[c] = "waiting"} :
          /\ W = {} => \A c \in Consumer : pc[c] # "waiting"
          /\ pc' = [t \in Thread |-> IF t = p THEN "unlock"
                                     ELSE IF t \in W THEN "relock" ELSE pc[t]]
  BY DEF PSignal
<1>2. p \in Thread /\ pc[p] = "signal" /\ UNCHANGED <<mutex, head, heap, ptr, blocking>>
  BY DEF PSignal, Thread
<1>3. TypeOK'
  BY <1>1, <1>2 DEF TypeOK, Critical, Thread
<1>4. \A c \in Consumer : pc'[c] = IF c \in W THEN "relock" ELSE pc[c]
  BY <1>1, CondQueueAssumption DEF Thread
<1>5. Tested'
  BY <1>2, <1>4 DEF Tested
<1>6. \E c \in Consumer : pc'[c] # "waiting"
  BY <1>1, <1>4, CondQueueAssumption
<1> QED BY <1>3, <1>5, <1>6 DEF NoLostWakeup

\* The critical section of the customer.
LEMMA CTakeStep == ASSUME IInv, NEW c \in Consumer, CTake(c) PROVE IInv'
<1> USE DEF IInv
<1>1. TypeOK'
  BY CondQueueAssumption DEF TypeOK, Critical, CTake, Goto, Thread
<1>2. Tested'
  BY CondQueueAssumption DEF Tested, TypeOK, CTake, Goto, Thread
<1>3. NoLostWakeup'
  BY AwakeStep, CondQueueAssumption DEF TypeOK, CTake, Goto, Thread
<1> QED BY <1>1, <1>2, <1>3

LEMMA CPopStep == ASSUME IInv, NEW c \in Consumer, CPop(c) PROVE IInv'
<1> USE DEF IInv
<1>1. head # <<>> /\ Tail(head) \in Seq(Node)
  BY DEF Tested, TypeOK, CPop, Goto
<1>2. TypeOK'
  BY <1>1 DEF TypeOK, Critical, CPop, Goto, Thread
<1>3. \A d \in Consumer : d # c => pc[d] \notin Critical
  BY DEF TypeOK, Critical, CPop, Goto, Thread
<1>4. Tested'
  BY <1>3 DEF Tested, TypeOK, Critical, CPop, Goto, Thread
<1>5. NoLostWakeup'
  BY <1>1, AwakeStep, CondQueueAssumption DEF TypeOK, CPop, Goto, Thread
<1> QED BY <1>2, <1>4, <1>5

LEMMA CFreeStep == ASSUME IInv, NEW c \in Consumer, CFree(c) PROVE IInv'
<1> USE DEF IInv
<1>1. TypeOK'
  BY DEF TypeOK, Critical, CFree, Goto, Thread
<1>2. Tested'
  BY DEF Tested, TypeOK, CFree, Goto, Thread
<1>3. NoLostWakeup'
  BY AwakeStep, CondQueueAssumption DEF TypeOK, CFree, Goto, Thread
<1> QED BY <1>1, <1>2, <1>3

\* pthread_cond_wait: the customer goes to sleep over an empty list.
LEMMA CWaitStep == ASSUME IInv, NEW c \in Consumer, CWait(c) PROVE IInv'
<1> USE DEF IInv
<1>1. mutex = c /\ c \in Thread
  BY DEF TypeOK, Critical, CWait, Goto, Thread
<1>2. TypeOK'
  BY <1>1, CondQueueAssumption DEF TypeOK, Critical, CWait, Goto
<1>3. Tested'
  BY <1>1 DEF Tested, TypeOK, CWait, Goto, Thread
<1>4. head' = <<>>
  BY DEF Tested, CWait, Goto
<1> QED BY <1>2, <1>3, <1>4 DEF NoLostWakeup

\* pthread_cond_wait returns.
LEMMA CSpuriousStep == ASSUME IInv, NEW c \in Consumer, CSpurious(c) PROVE IInv'
<1> USE DEF IInv
<1>1. TypeOK'
  BY DEF TypeOK, Critical, CSpurious, Goto, Thread
<1>2. Tested'
  BY DEF Tested, TypeOK, CSpurious, Goto, Thread
<1>3. NoLostWakeup'
  BY AwakeStep, CondQueueAssumption DEF TypeOK, CSpurious, Goto, Thread
<1> QED BY <1>1, <1>2, <1>3

LEMMA CRelockStep == ASSUME IInv, NEW c \in Consumer, CRelock(c) PROVE IInv'
<1> USE DEF IInv
<1>1. TypeOK'
  BY CondQueueAssumption DEF TypeOK, Critical, CRelock, Goto, Thread
<1>2. Tested'
  BY DEF Tested, TypeOK, CRelock, Goto, Thread
<1>3. NoLostWakeup'
  BY AwakeStep, CondQueueAssumption DEF TypeOK, CRelock, Goto, Thread
<1> QED BY <1>1, <1>2, <1>3

\* Every step of every thread preserves the invariant.
LEMMA NextInv == IInv /\ [Next]_vars => IInv'
<1> SUFFICES ASSUME IInv, [Next]_vars PROVE IInv'
  OBVIOUS
<1>1. ASSUME NEW p \in Producer, producer(p) PROVE IInv'
  <2>1. p \in Thread
    BY DEF Thread
  <2> QED BY <1>1, <2>1, LockStep, UnlockStep, PAllocStep, PLinkStep, PSignalStep
             DEF producer, PLock
<1>2. ASSUME NEW c \in Consumer, customer(c) \/ CSpurious(c) PROVE IInv'
  <2>1. c \in Thread
    BY DEF Thread
  <2> QED BY <1>2, <2>1, LockStep, UnlockStep, CTakeStep, CPopStep, CFreeStep,
             CWaitStep, CRelockStep, CSpuriousStep DEF customer
<1>3. CASE UNCHANGED vars
  BY <1>3 DEF vars, IInv, TypeOK, Tested, NoLostWakeup
<1> QED BY <1>1, <1>2, <1>3 DEF Next

\* The inductive invariant holds in every behaviour of both programs.
THEOREM Invariance == Spec => []IInv
BY InitInv, NextInv, PTL DEF Spec

\* For any number of threads and nodes, every variable keeps its type and the
\* mutex is held by exactly the thread that is in a critical section.
THEOREM TypeCorrect == Spec => []TypeOK
<1>1. IInv => TypeOK
  BY DEF IInv
<1> QED BY <1>1, Invariance, PTL

\* For any number of threads and nodes, signalling under the mutex after the
\* node is linked loses no wakeup: customers never all sleep beside a node.
THEOREM WakeupSafety == Spec => []NoLostWakeup
<1>1. IInv => NoLostWakeup
  BY DEF IInv
<1> QED BY <1>1, Invariance, PTL

=============================================================================
