------------------------------ MODULE WaitLoop ------------------------------
(***************************************************************************)
(* The two programs of lesson21: a parent forks children and reaps them in *)
(* a loop, with wait (which blocks) or with waitpid(-1, &st, WNOHANG).     *)
(* The children loop for ever and end only when the user kills them.       *)
(***************************************************************************)
EXTENDS Naturals

CONSTANT N \* children the loop of main forks (5 in the code)

ASSUME NAssumption == N \in Nat \ {0}

Child == 1..N

VARIABLES program,  \* which of the two programs runs: "wait" or "waitpid"
          pc,       \* where main is in the parent
          i,        \* the loop variable: the child to fork next
          child,    \* the state of each child
          ret,      \* the child the last wait returned, 0 for none
          reported  \* the children for which `child die' was printed

vars == <<program, pc, i, child, ret, reported>>

Init == /\ program \in {"wait", "waitpid"}
        /\ pc = "fork"
        /\ i = 1
        /\ child = [c \in Child |-> "none"]
        /\ ret = 0
        /\ reported = {}

Zombies == {c \in Child : child[c] = "zombie"}
Running == {c \in Child : child[c] = "running"}

\* One turn of the loop.  `pid' is what the last fork returned: when that one
\* failed, main is in neither branch and returns; init reaps the children.
Fork == /\ pc = "fork"
        /\ i' = i + 1
        /\ \E ok \in BOOLEAN :
              /\ pc' = IF i < N THEN "fork"
                       ELSE IF ~ ok THEN "exited"
                       ELSE IF program = "wait" THEN "wait" ELSE "sleep"
              /\ child' = [c \in Child |->
                              IF c = i THEN IF ok THEN "running" ELSE "failed"
                              ELSE IF pc' = "exited" /\ c \in Zombies THEN "reaped"
                              ELSE child[c]]
        /\ UNCHANGED <<program, ret, reported>>

\* The wait call returns a child that has ended.
Reap(c) == /\ c \in Zombies
           /\ child' = [child EXCEPT ![c] = "reaped"]
           /\ ret' = c
           /\ pc' = "report"
           /\ UNCHANGED <<program, i, reported>>

\* The wait call returns -1: there is no child left.
NoChild == Zombies = {} /\ Running = {}

WaitIgnoresError ==
    /\ program = "wait" /\ pc = "wait"
    /\ \/ \E c \in Child : Reap(c)
       \/ NoChild /\ pc' = "sleep" /\ UNCHANGED <<program, i, child, ret, reported>>

\* wait(&st) blocks while children run and none has ended.
Wait == /\ program = "wait" /\ pc = "wait"
        /\ \/ \E c \in Child : Reap(c)
           \/ NoChild /\ pc' = "exited" /\ UNCHANGED <<program, i, child, ret, reported>>

WaitpidBreaks ==
    /\ program = "waitpid" /\ pc = "wait"
    /\ \/ \E c \in Child : Reap(c)
       \/ Zombies = {} /\ pc' = "exited" /\ UNCHANGED <<program, i, child, ret, reported>>

WaitpidFirst ==
    /\ program = "waitpid" /\ pc = "wait"
    /\ \/ Reap(1)
       \/ /\ child[1] # "zombie"
          /\ pc' = IF child[1] = "running" THEN "sleep" ELSE "exited"
          /\ UNCHANGED <<program, i, child, ret, reported>>

\* waitpid(-1, &st, WNOHANG) returns 0 when all the children left still run.
Waitpid == /\ program = "waitpid" /\ pc = "wait"
           /\ \/ \E c \in Child : Reap(c)
              \/ /\ Zombies = {}
                 /\ pc' = IF NoChild THEN "exited" ELSE "sleep"
                 /\ UNCHANGED <<program, i, child, ret, reported>>

\* printf("child die, pid = %d\n", ret)
Report == /\ pc = "report"
          /\ reported' = reported \cup {ret}
          /\ pc' = "sleep"
          /\ UNCHANGED <<program, i, child, ret>>

\* sleep(1)
Sleep == /\ pc = "sleep"
         /\ pc' = "wait"
         /\ UNCHANGED <<program, i, child, ret, reported>>

main == Fork \/ Wait \/ Waitpid \/ Report \/ Sleep

\* The user kills a child.
Kill(c) == /\ c \in Running
           /\ child' = [child EXCEPT ![c] = IF pc = "exited" THEN "reaped" ELSE "zombie"]
           /\ UNCHANGED <<program, pc, i, ret, reported>>

Next == main \/ \E c \in Child : Kill(c)

Spec == Init /\ [][Next]_vars

\* The parent is scheduled; nobody has to kill a child.
FairSpec == Spec /\ WF_vars(main)

-----------------------------------------------------------------------------
(* Properties *)

\* Every variable has its type, and children exist exactly below the loop
\* variable.
TypeOK == /\ program \in {"wait", "waitpid"}
          /\ pc \in {"fork", "wait", "report", "sleep", "exited"}
          /\ i \in 1..(N + 1)
          /\ child \in [Child -> {"none", "failed", "running", "zombie", "reaped"}]
          /\ ret \in Child \cup {0}
          /\ reported \in SUBSET Child
          /\ \A c \in Child : child[c] = "none" <=> c >= i

Reaped == {c \in Child : child[c] = "reaped"}

\* The parent leaves its loop last: when it has returned, every child it could
\* fork has been reaped and its death has been printed, unless the last fork
\* failed and the loop was never entered.
ExitsLast == pc = "exited" /\ child[N] # "failed" =>
                 /\ \A c \in Child : child[c] \in {"failed", "reaped"}
                 /\ reported = Reaped

\* A child that is killed is reaped, while others go on running and however
\* many die during one sleep of the parent.
EveryChildReaped == \A c \in Child : child[c] = "zombie" ~> child[c] = "reaped"

\* Once no child runs any more the parent returns: the -1 of wait and of
\* waitpid ends the loop.
ParentEnds == (i = N + 1 /\ Running = {}) ~> pc = "exited"

=============================================================================
