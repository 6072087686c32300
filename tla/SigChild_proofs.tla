--------------------------- MODULE SigChild_proofs ---------------------------
(***************************************************************************)
(* Proofs about SigChild, for every number of children.                    *)
(***************************************************************************)
EXTENDS SigChild, TLAPS

\* SIGCHLD is blocked from before the first fork until the handler is
\* registered, and from then on it is caught: at no time between is a signal
\* discarded.
Masked ==
    /\ blocked <=> pc \in {"fork", "sigaction", "unblock", "exited"}
    /\ registered <=> pc \in {"unblock", "print", "sleep"}
    /\ pc = "block" => i = 1
    /\ pc = "fork" => i \in Child
    /\ pc = "exited" => Zombies = {}

IInv == TypeOK /\ Masked /\ ZombieNoticed /\ HandlerOnlyInLoop

LEMMA InitInv == Init => IInv
<1> SUFFICES ASSUME Init PROVE IInv
  OBVIOUS
<1>1. Zombies = {}
  BY DEF Init, Zombies
<1>2. TypeOK
  <2>1. 1 \in 1..(N + 1) /\ \A c \in Child : c >= 1
    BY NAssumption DEF Child
  <2>2. \A c \in Child : child[c] = "none"
    BY DEF Init
  <2>3. child \in [Child -> {"none", "failed", "running", "zombie", "reaped"}]
    BY DEF Init
  <2> QED BY <2>1, <2>2, <2>3 DEF Init, TypeOK
<1>3. Masked
  BY <1>1 DEF Init, Masked
<1> QED BY <1>1, <1>2, <1>3 DEF Init, IInv, ZombieNoticed, HandlerOnlyInLoop

\* A turn of the loop of main: the child of this turn starts, and when main
\* returns init takes the zombies over.
LEMMA ForkStep == ASSUME IInv, Fork PROVE IInv'
<1> USE NAssumption DEF IInv, Main
<1>1. TypeOK /\ i \in Child /\ pc = "fork" /\ handler = "idle"
  BY DEF Fork, Masked
<1>2. PICK ok \in BOOLEAN :
          /\ pc' = IF i < N THEN "fork" ELSE IF ok THEN "sigaction" ELSE "exited"
          /\ child' = [c \in Child |->
                          IF c = i THEN IF ok THEN "running" ELSE "failed"
                          ELSE IF pc' = "exited" /\ c \in Zombies THEN "reaped"
                          ELSE child[c]]
  BY DEF Fork
<1>3. i' = i + 1 /\ UNCHANGED <<blocked, registered, pending, handler>>
  BY DEF Fork
<1>4. TypeOK'
  BY <1>1, <1>2, <1>3 DEF TypeOK, Child, Zombies
<1>5. Zombies' \subseteq Zombies /\ (pc' = "exited" => Zombies' = {})
  BY <1>1, <1>2 DEF Zombies, TypeOK
<1>6. Masked'
  BY <1>1, <1>2, <1>3, <1>5 DEF Masked, TypeOK, Child
<1> QED BY <1>1, <1>3, <1>4, <1>5, <1>6 DEF ZombieNoticed, HandlerOnlyInLoop

\* The other steps of main leave the children alone.
LEMMA MainStep ==
    ASSUME IInv, Block \/ Sigaction \/ Unblock \/ Loop
    PROVE  IInv'
<1> USE DEF IInv, Main
<1>1. UNCHANGED <<i, child, pending, handler>> /\ handler = "idle"
  BY DEF Block, Sigaction, Unblock, Loop
<1>2. Zombies' = Zombies
  BY <1>1 DEF Zombies
<1>3. TypeOK'
  BY <1>1 DEF TypeOK, Block, Sigaction, Unblock, Loop
<1>4. Masked'
  BY <1>1, <1>2, NAssumption DEF Masked, TypeOK, Child, Block, Sigaction, Unblock, Loop
<1> QED BY <1>1, <1>2, <1>3, <1>4 DEF ZombieNoticed, HandlerOnlyInLoop

\* The death of a child: its SIGCHLD is kept, because at every point where a
\* child can be running the signal is blocked or caught.
LEMMA ExitStep == ASSUME IInv, NEW c \in Child, Exit(c) PROVE IInv'
<1> USE DEF IInv
<1>1. TypeOK'
  BY DEF TypeOK, Exit, Running
<1>2. pc # "block"
  BY NAssumption DEF Exit, Running, Masked, TypeOK, Child
<1>3. blocked \/ registered
  BY <1>2 DEF Masked, TypeOK
<1>4. pc = "exited" => Zombies' = {}
  BY DEF Exit, Masked, Zombies, TypeOK
<1>5. pc # "exited" => pending'
  BY <1>3 DEF Exit, TypeOK
<1>6. Masked'
  BY <1>4 DEF Exit, Masked
<1> QED BY <1>1, <1>4, <1>5, <1>6 DEF Exit, ZombieNoticed, HandlerOnlyInLoop

\* The handler starts, reaps a child or finds none, and returns.
LEMMA HandlerStep ==
    ASSUME IInv, Deliver \/ Waitpid \/ Return
    PROVE  IInv'
<1> USE DEF IInv
<1>1. CASE Deliver
  <2>1. Zombies' = Zombies
    BY <1>1 DEF Deliver, Zombies
  <2> QED BY <1>1, <2>1 DEF Deliver, TypeOK, Masked, ZombieNoticed, HandlerOnlyInLoop
<1>2. CASE Waitpid
  <2>1. TypeOK'
    BY <1>2 DEF Waitpid, TypeOK, Zombies
  <2>2. Zombies' \subseteq Zombies
    BY <1>2 DEF Waitpid, Zombies, TypeOK
  <2>3. ZombieNoticed'
    <3>1. CASE handler' = "waitpid"
      BY <3>1 DEF ZombieNoticed
    <3>2. CASE Zombies = {}
      BY <3>2, <2>2 DEF ZombieNoticed
    <3> QED BY <1>2, <3>1, <3>2 DEF Waitpid
  <2> QED BY <1>2, <2>1, <2>2, <2>3 DEF Waitpid, Masked, HandlerOnlyInLoop
<1>3. CASE Return
  <2>1. Zombies' = Zombies
    BY <1>3 DEF Return, Zombies
  <2> QED BY <1>3, <2>1 DEF Return, TypeOK, Masked, ZombieNoticed, HandlerOnlyInLoop
<1> QED BY <1>1, <1>2, <1>3

LEMMA NextInv == IInv /\ [Next]_vars => IInv'
<1> SUFFICES ASSUME IInv, [Next]_vars PROVE IInv'
  OBVIOUS
<1>1. CASE main
  BY <1>1, ForkStep, MainStep DEF main
<1>2. CASE \E c \in Child : Exit(c)
  BY <1>2, ExitStep
<1>3. CASE Deliver \/ Waitpid \/ Return
  BY <1>3, HandlerStep
<1>4. CASE UNCHANGED vars
  BY <1>4 DEF vars, IInv, TypeOK, Masked, ZombieNoticed, HandlerOnlyInLoop, Zombies
<1> QED BY <1>1, <1>2, <1>3, <1>4 DEF Next

\* The inductive invariant holds in every behaviour of the program.
THEOREM Invariance == Spec => []IInv
BY InitInv, NextInv, PTL DEF Spec

\* For any number of children, every variable of the program keeps its type
\* and no child is touched before the turn of the loop that forks it.
THEOREM TypeCorrect == Spec => []TypeOK
<1>1. IInv => TypeOK
  BY DEF IInv
<1> QED BY <1>1, Invariance, PTL

\* For any number of children, a dead child always has a pending SIGCHLD or a
\* running waitpid loop to reap it: blocking the signal before the forks and
\* looping in myFun together leave no window.
THEOREM NoUnnoticedZombie == Spec => []ZombieNoticed
<1>1. IInv => ZombieNoticed
  BY DEF IInv
<1> QED BY <1>1, Invariance, PTL

\* For any number of children, the handler interrupts only the final loop.
THEOREM HandlerInLoop == Spec => []HandlerOnlyInLoop
<1>1. IInv => HandlerOnlyInLoop
  BY DEF IInv
<1> QED BY <1>1, Invariance, PTL

=============================================================================
