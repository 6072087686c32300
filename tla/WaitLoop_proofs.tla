-------------------------- MODULE WaitLoop_proofs ---------------------------
(***************************************************************************)
(* Proofs about WaitLoop, for any number of children.                      *)
(***************************************************************************)
EXTENDS WaitLoop, TLAPS

\* Nothing has been reaped while main still forks, and the reaping loop is
\* entered only after the last fork succeeded.
Phases == /\ pc = "fork" => i <= N /\ reported = {} /\ Reaped = {}
          /\ pc \in {"wait", "report", "sleep"} => i = N + 1 /\ child[N] # "failed"

\* Every reaped child has been printed, or is the one about to be.
Printed == child[N] # "failed" =>
               /\ pc # "report" => reported = Reaped
               /\ pc = "report" => reported \cup {ret} = Reaped

IInv == TypeOK /\ Phases /\ Printed /\ ExitsLast

LEMMA InitInv == Init => IInv
<1> SUFFICES ASSUME Init PROVE IInv
  OBVIOUS
<1> USE NAssumption
<1>1. TypeOK
  BY DEF Init, TypeOK, Child
<1>2. Reaped = {} /\ reported = {} /\ pc = "fork" /\ i = 1
  BY DEF Init, Reaped
<1> QED BY <1>1, <1>2 DEF IInv, Phases, Printed, ExitsLast

LEMMA ForkStep == IInv /\ Fork => IInv'
<1> SUFFICES ASSUME IInv, Fork PROVE IInv'
  OBVIOUS
<1> USE NAssumption DEF IInv
<1>1. PICK ok \in BOOLEAN :
          /\ pc' = IF i < N THEN "fork"
                   ELSE IF ~ ok THEN "exited"
                   ELSE IF program = "wait" THEN "wait" ELSE "sleep"
          /\ child' = [c \in Child |->
                          IF c = i THEN IF ok THEN "running" ELSE "failed"
                          ELSE IF pc' = "exited" /\ c \in Zombies THEN "reaped"
                          ELSE child[c]]
  BY DEF Fork
<1>2. /\ pc = "fork" /\ i \in Child /\ i' = i + 1
      /\ program' = program /\ ret' = ret /\ reported' = reported
      /\ reported = {} /\ Reaped = {} /\ N \in Child
  BY DEF Fork, TypeOK, Phases, Child
<1>3. TypeOK'
  BY <1>1, <1>2 DEF TypeOK, Child, Zombies
<1>4. CASE pc' = "exited"
  <2>1. child'[N] = "failed"
    BY <1>1, <1>2, <1>4 DEF TypeOK, Child
  <2> QED BY <1>3, <1>4, <2>1 DEF Phases, Printed, ExitsLast
<1>5. CASE pc' # "exited"
  <2>1. \A c \in Child : child'[c] = "reaped" => child[c] = "reaped"
    BY <1>1, <1>5
  <2>2. Reaped' = {}
    BY <1>2, <2>1 DEF Reaped
  <2>3. Phases'
    BY <1>1, <1>2, <1>5, <2>2 DEF Phases, TypeOK, Child
  <2>4. pc' # "report"
    BY <1>1
  <2> QED BY <1>2, <1>3, <1>5, <2>2, <2>3, <2>4 DEF Printed, ExitsLast
<1> QED BY <1>4, <1>5

LEMMA ReapStep == ASSUME IInv, pc = "wait", NEW c \in Child, Reap(c) PROVE IInv'
<1> USE NAssumption DEF IInv
<1>1. TypeOK'
  BY DEF TypeOK, Reap, Zombies
<1>2. Reaped' = Reaped \cup {c}
  BY DEF Reaped, Reap, TypeOK
<1>3. N \in Child /\ child'[N] # "failed" /\ child[N] # "failed"
  BY DEF Reap, Phases, TypeOK, Child
<1>4. Phases'
  BY <1>3 DEF Phases, Reap
<1>5. Printed'
  BY <1>2, <1>3 DEF Printed, Reap
<1> QED BY <1>1, <1>4, <1>5 DEF ExitsLast, Reap

\* The loop ends, or goes round once more without a child.
LEMMA NothingStep ==
    ASSUME IInv, pc = "wait", Zombies = {}, pc' \in {"exited", "sleep"},
           pc' = "exited" => NoChild,
           UNCHANGED <<program, i, child, ret, reported>>
    PROVE  IInv'
<1> USE NAssumption DEF IInv
<1>1. TypeOK'
  BY DEF TypeOK
<1>2. Reaped' = Reaped
  BY DEF Reaped
<1>3. Phases' /\ Printed'
  BY <1>2 DEF Phases, Printed
<1>4. ExitsLast'
  <2> SUFFICES ASSUME pc' = "exited"
               PROVE  /\ \A c \in Child : child[c] \in {"failed", "reaped"}
                      /\ reported = Reaped
    BY <1>2 DEF ExitsLast
  <2>1. \A c \in Child : child[c] \notin {"none", "running", "zombie"}
    BY DEF NoChild, Running, Zombies, TypeOK, Phases, Child
  <2>2. reported = Reaped
    BY DEF Printed, Phases
  <2> QED BY <2>1, <2>2 DEF TypeOK
<1> QED BY <1>1, <1>3, <1>4

LEMMA ReportStep == IInv /\ (Report \/ Sleep) => IInv'
<1> SUFFICES ASSUME IInv, Report \/ Sleep PROVE IInv'
  OBVIOUS
<1> USE NAssumption DEF IInv
<1>1. Reaped' = Reaped
  BY DEF Reaped, Report, Sleep
<1>2. Reaped \subseteq Child
  BY DEF Reaped
<1>3. CASE Report
  <2>1. reported' = Reaped /\ child' = child /\ pc' = "sleep" /\ i' = i
    BY <1>3 DEF Report, Printed, Phases
  <2>2. TypeOK'
    BY <1>2, <1>3, <2>1 DEF Report, TypeOK
  <2> QED BY <1>1, <1>3, <2>1, <2>2 DEF Phases, Printed, ExitsLast, Report
<1>4. CASE Sleep
  <2>1. TypeOK'
    BY <1>4 DEF Sleep, TypeOK
  <2> QED BY <1>1, <1>4, <2>1 DEF Phases, Printed, ExitsLast, Sleep
<1> QED BY <1>3, <1>4

LEMMA KillStep == ASSUME IInv, NEW c \in Child, Kill(c) PROVE IInv'
<1> USE NAssumption DEF IInv
<1>1. TypeOK'
  BY DEF TypeOK, Kill, Running
<1>2. N \in Child /\ (child'[N] = "failed" <=> child[N] = "failed")
  BY DEF Kill, Running, TypeOK, Child
<1>3. CASE pc = "exited"
  <2>1. child[N] = "failed"
    BY <1>3 DEF ExitsLast, Kill, Running
  <2> QED BY <1>1, <1>2, <1>3, <2>1 DEF Kill, Phases, Printed, ExitsLast
<1>4. CASE pc # "exited"
  <2>1. Reaped' = Reaped
    BY <1>4 DEF Reaped, Kill, Running, TypeOK
  <2> QED BY <1>1, <1>2, <1>4, <2>1 DEF Kill, Phases, Printed, ExitsLast
<1> QED BY <1>3, <1>4

\* The inductive invariant holds in every behaviour of both programs.
THEOREM Invariance == Spec => []IInv
<1>1. IInv /\ [Next]_vars => IInv'
  <2> SUFFICES ASSUME IInv, [Next]_vars PROVE IInv'
    OBVIOUS
  <2>1. CASE Wait
    <3>1. ASSUME NEW c \in Child, Reap(c) PROVE IInv'
      BY <2>1, <3>1, ReapStep DEF Wait
    <3>2. CASE NoChild /\ pc' = "exited" /\ UNCHANGED <<program, i, child, ret, reported>>
      BY <2>1, <3>2, NothingStep DEF Wait, NoChild
    <3> QED BY <2>1, <3>1, <3>2 DEF Wait
  <2>2. CASE Waitpid
    <3>1. ASSUME NEW c \in Child, Reap(c) PROVE IInv'
      BY <2>2, <3>1, ReapStep DEF Waitpid
    <3>2. CASE /\ Zombies = {}
               /\ pc' = IF NoChild THEN "exited" ELSE "sleep"
               /\ UNCHANGED <<program, i, child, ret, reported>>
      BY <2>2, <3>2, NothingStep DEF Waitpid
    <3> QED BY <2>2, <3>1, <3>2 DEF Waitpid
  <2>3. CASE UNCHANGED vars
    BY <2>3 DEF vars, IInv, TypeOK, Phases, Printed, ExitsLast, Reaped
  <2> QED BY <2>1, <2>2, <2>3, ForkStep, ReportStep, KillStep DEF Next, main
<1> QED BY <1>1, InitInv, PTL DEF Spec

\* Type correctness for any number of children.
THEOREM TypeCorrect == Spec => []TypeOK
<1>1. IInv => TypeOK
  BY DEF IInv
<1> QED BY <1>1, Invariance, PTL

\* For any number of children, a parent that entered its loop returns only
\* after it has reaped and printed every one of them.
THEOREM ParentLast == Spec => []ExitsLast
<1>1. IInv => ExitsLast
  BY DEF IInv
<1> QED BY <1>1, Invariance, PTL

=============================================================================
