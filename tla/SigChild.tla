------------------------------ MODULE SigChild ------------------------------
(***************************************************************************)
(* The SIGCHLD program of note 12: a parent forks children, registers a    *)
(* handler (myFun) that reaps them, and sleeps for ever.                   *)
(*                                                                         *)
(* SIGCHLD does not queue: a second one that becomes pending before the    *)
(* first is delivered is merged with it.  While SIGCHLD has its default    *)
(* disposition and is not blocked, it is discarded.                        *)
(***************************************************************************)
EXTENDS Naturals

CONSTANT N \* children the loop of main forks (20 in the code)

ASSUME NAssumption == N \in Nat \ {0}

Child == 1..N

VARIABLES pc,         \* where main is in the parent
          i,          \* the loop variable: the child to fork next
          child,      \* the state of each child
          blocked,    \* is SIGCHLD in the parent's signal mask?
          registered, \* is myFun the disposition of SIGCHLD?
          pending,    \* is a SIGCHLD pending for the parent?
          handler     \* where myFun is, "idle" when it does not run

vars == <<pc, i, child, blocked, registered, pending, handler>>

Init == /\ pc = "block"
        /\ i = 1
        /\ child = [c \in Child |-> "none"]
        /\ blocked = FALSE /\ registered = FALSE /\ pending = FALSE
        /\ handler = "idle"

Zombies == {c \in Child : child[c] = "zombie"}
Running == {c \in Child : child[c] = "running"}

\* main runs only while the handler does not.
Main(from) == pc = from /\ handler = "idle"

BlockSkipped == /\ Main("block")
                /\ pc' = "fork"
                /\ UNCHANGED <<i, child, blocked, registered, pending, handler>>

\* sigprocmask(SIG_BLOCK, &set, NULL)
Block == /\ Main("block")
         /\ pc' = "fork"
         /\ blocked' = TRUE
         /\ UNCHANGED <<i, child, registered, pending, handler>>

\* One turn of the loop.  `pid' is what the last fork returned: when that one
\* failed, main is in neither branch and returns, and the children it leaves
\* behind are reaped by init.
Fork == /\ Main("fork")
        /\ i' = i + 1
        /\ \E ok \in BOOLEAN :
              /\ pc' = IF i < N THEN "fork" ELSE IF ok THEN "sigaction" ELSE "exited"
              /\ child' = [c \in Child |->
                              IF c = i THEN IF ok THEN "running" ELSE "failed"
                              ELSE IF pc' = "exited" /\ c \in Zombies THEN "reaped"
                              ELSE child[c]]
        /\ UNCHANGED <<blocked, registered, pending, handler>>

\* sigaction(SIGCHLD, &act, NULL)
Sigaction == /\ Main("sigaction")
             /\ pc' = "unblock"
             /\ registered' = TRUE
             /\ UNCHANGED <<i, child, blocked, pending, handler>>

UnblockSkipped == /\ Main("unblock")
                  /\ pc' = "print"
                  /\ UNCHANGED <<i, child, blocked, registered, pending, handler>>

\* sigprocmask(SIG_UNBLOCK, &set, NULL)
Unblock == /\ Main("unblock")
           /\ pc' = "print"
           /\ blocked' = FALSE
           /\ UNCHANGED <<i, child, registered, pending, handler>>

\* while(1) { printf; sleep(2); }
Loop == /\ Main("print") \/ Main("sleep")
        /\ pc' = IF pc = "print" THEN "sleep" ELSE "print"
        /\ UNCHANGED <<i, child, blocked, registered, pending, handler>>

main == Block \/ Fork \/ Sigaction \/ Unblock \/ Loop

-----------------------------------------------------------------------------
(* Children and the kernel *)

\* A child prints its pid and returns from main.
Exit(c) == /\ c \in Running
           /\ child' = [child EXCEPT ![c] = IF pc = "exited" THEN "reaped"
                                            ELSE "zombie"]
           /\ pending' = (pending \/ (pc # "exited" /\ (blocked \/ registered)))
           /\ UNCHANGED <<pc, i, blocked, registered, handler>>

\* The handler starts, with SIGCHLD blocked while it runs.
Deliver == /\ pending /\ registered /\ ~ blocked
           /\ handler = "idle"
           /\ pending' = FALSE
           /\ handler' = "waitpid"
           /\ UNCHANGED <<pc, i, child, blocked, registered>>

-----------------------------------------------------------------------------
(* myFun *)

WaitpidOnce == /\ handler = "waitpid"
               /\ \/ \E c \in Zombies : child' = [child EXCEPT ![c] = "reaped"]
                  \/ Zombies = {} /\ child' = child
               /\ handler' = "return"
               /\ UNCHANGED <<pc, i, blocked, registered, pending>>

WaitpidIgnoresError ==
    /\ handler = "waitpid"
    /\ \/ \E c \in Zombies : /\ child' = [child EXCEPT ![c] = "reaped"]
                             /\ handler' = "waitpid"
       \/ Zombies = {} /\ Running # {} /\ child' = child /\ handler' = "return"
    /\ UNCHANGED <<pc, i, blocked, registered, pending>>

\* waitpid(-1, NULL, WNOHANG): reaps one child and tries again (> 0), or
\* leaves the loop because the others still run (0) or there are none (-1).
Waitpid ==
    /\ handler = "waitpid"
    /\ \/ \E c \in Zombies : /\ child' = [child EXCEPT ![c] = "reaped"]
                             /\ handler' = "waitpid"
       \/ Zombies = {} /\ child' = child /\ handler' = "return"
    /\ UNCHANGED <<pc, i, blocked, registered, pending>>

Return == /\ handler = "return"
          /\ handler' = "idle"
          /\ UNCHANGED <<pc, i, child, blocked, registered, pending>>

-----------------------------------------------------------------------------
Next == \/ main
        \/ \E c \in Child : Exit(c)
        \/ Deliver
        \/ Waitpid \/ Return

\* The parent and the children are scheduled, and a signal that can be
\* delivered is delivered when the parent next runs.
Fairness == /\ WF_vars(main)
            /\ \A c \in Child : WF_vars(Exit(c))
            /\ WF_vars(Deliver)
            /\ WF_vars(Waitpid \/ Return)

Spec == Init /\ [][Next]_vars

FairSpec == Spec /\ Fairness

-----------------------------------------------------------------------------
(* Properties *)

\* Every variable has its type, and children exist exactly below the loop
\* variable: no pid is used before its fork.
TypeOK == /\ pc \in {"block", "fork", "sigaction", "unblock", "print", "sleep",
                     "exited"}
          /\ i \in 1..(N + 1)
          /\ child \in [Child -> {"none", "failed", "running", "zombie", "reaped"}]
          /\ blocked \in BOOLEAN /\ registered \in BOOLEAN /\ pending \in BOOLEAN
          /\ handler \in {"idle", "waitpid", "return"}
          /\ \A c \in Child : child[c] = "none" <=> c >= i

\* No dead child goes unnoticed: while there is a zombie, a SIGCHLD is pending
\* or the handler is about to call waitpid, however early the child died and
\* however many signals were merged into one.
ZombieNoticed == Zombies # {} => pending \/ handler = "waitpid"

\* The handler interrupts main only where main expects it: after the handler
\* is registered and the loop is entered, so no fork or sigaction is cut short.
HandlerOnlyInLoop == handler # "idle" => pc \in {"print", "sleep"}

\* Every child that dies is reaped, by the handler or, when the last fork
\* failed and main returned, by init.
EveryChildReaped == \A c \in Child : child[c] = "zombie" ~> child[c] = "reaped"

\* The waitpid loop of the handler ends, so main is resumed.
HandlerReturns == handler # "idle" ~> handler = "idle"

=============================================================================
