----------------------------- MODULE ForkServer -----------------------------
(***************************************************************************)
(* The multi-process TCP server of note 19, with the clients of            *)
(* EchoClient.                                                             *)
(*                                                                         *)
(* The process forked to serve the connection of client c is called c; the *)
(* process that runs main first is called Main.  Every process runs the    *)
(* same accept loop: a child that has closed its connection falls back     *)
(* into it.  A process that ends has no children (NoOrphan), so none is    *)
(* left to init.                                                           *)
(*                                                                         *)
(* errno is kept only between accept, which sets it when it fails, and the *)
(* test of it: what waitpid writes to it elsewhere is overwritten before   *)
(* it is read.                                                             *)
(***************************************************************************)
EXTENDS EchoClient, FiniteSets

CONSTANTS Main, \* the first process
          None  \* no connection, no process

Proc == Client \cup {Main}

ASSUME ForkServerAssumption == /\ IsFiniteSet(Client)
                               /\ Main \notin Client
                               /\ None \notin Proc

VARIABLES proc,    \* where each process is
          connfd,  \* the connection it has just accepted
          parent,  \* who accepted a connection and forked the process for it
          errno,   \* errno of each process that is about to test it
          pending, \* the processes with a pending SIGCHLD
          handler  \* where recycleChild is in each process

serverVars == <<proc, connfd, parent, errno, pending, handler>>
vars == <<clientVars, serverVars>>

\* After listen: the handler is registered before the socket is created.
Init == /\ ClientInit
        /\ proc = [p \in Proc |-> IF p = Main THEN "accept" ELSE "none"]
        /\ connfd = [p \in Proc |-> None]
        /\ parent = [p \in Proc |-> None]
        /\ errno = [p \in Proc |-> "none"]
        /\ pending = {}
        /\ handler = [p \in Proc |-> "idle"]

Goto(p, from, to) == /\ proc[p] = from /\ handler[p] = "idle"
                     /\ proc' = [proc EXCEPT ![p] = to]

Ended == {"none", "zombie", "reaped"}

\* The children of p that waitpid knows of, and the dead ones among them
Children(p) == {q \in Client : parent[q] = p /\ proc[q] \notin {"none", "reaped"}}
Zombies(p) == {q \in Children(p) : proc[q] = "zombie"}

-----------------------------------------------------------------------------
(* main *)

\* accept returns a connection
Accept(p) == /\ Goto(p, "accept", "fork")
             /\ TakeConnection
             /\ connfd' = [connfd EXCEPT ![p] = Head(backlog)]
             /\ parent' = [parent EXCEPT ![Head(backlog)] = p]
             /\ UNCHANGED <<errno, pending, handler>>

TestUnchecked(p) == /\ Goto(p, "test", "exit")
                    /\ errno' = [errno EXCEPT ![p] = "none"]
                    /\ UNCHANGED <<clientVars, connfd, parent, pending, handler>>

\* accept has returned -1: continue if errno is EINTR, else perror and exit
Test(p) == /\ Goto(p, "test", IF errno[p] = "EINTR" THEN "accept" ELSE "exit")
           /\ errno' = [errno EXCEPT ![p] = "none"]
           /\ UNCHANGED <<clientVars, connfd, parent, pending, handler>>

ForkSwapped(p) ==
    /\ proc[p] = "fork" /\ handler[p] = "idle"
    /\ proc' = [proc EXCEPT ![connfd[p]] = "accept", ![p] = "read"]
    /\ connfd' = [connfd EXCEPT ![p] = None]
    /\ UNCHANGED <<clientVars, parent, errno, pending, handler>>

\* fork: the child goes to its read loop and the parent, which keeps connfd
\* open, back to accept.  When fork fails the parent goes back as well.
Fork(p) == /\ proc[p] = "fork" /\ handler[p] = "idle"
           /\ \/ proc' = [proc EXCEPT ![connfd[p]] = "read", ![p] = "accept"]
              \/ proc' = [proc EXCEPT ![p] = "accept"]
           /\ connfd' = [connfd EXCEPT ![p] = None]
           /\ UNCHANGED <<clientVars, parent, errno, pending, handler>>

ReadKeepsData(p) == /\ Goto(p, "read", "write")
                    /\ inbox[p] > 0
                    /\ UNCHANGED <<clientVars, connfd, parent, errno, pending, handler>>

\* read > 0
Read(p) == /\ Goto(p, "read", "write")
           /\ Receive(p)
           /\ UNCHANGED <<connfd, parent, errno, pending, handler>>

WriteNothing(p) == /\ Goto(p, "write", "read")
                   /\ UNCHANGED <<clientVars, connfd, parent, errno, pending, handler>>

\* write, and back to read
Write(p) == /\ Goto(p, "write", "read")
            /\ Answer(p)
            /\ UNCHANGED <<connfd, parent, errno, pending, handler>>

\* read = 0: leave the read loop
ReadEof(p) == /\ Goto(p, "read", "close")
              /\ AtEof(p)
              /\ UNCHANGED <<clientVars, connfd, parent, errno, pending, handler>>

\* read = -1: perror and exit
ReadError(p) == /\ Goto(p, "read", "exit")
                /\ AtReset(p)
                /\ UNCHANGED <<clientVars, connfd, parent, errno, pending, handler>>

\* close(connfd): the end of the child's branch, and of the turn of the
\* accept loop it was forked in
Close(p) == /\ Goto(p, "close", "accept")
            /\ UNCHANGED <<clientVars, connfd, parent, errno, pending, handler>>

\* The kernel closes the connections nobody but p holds: those it accepted
\* itself.  What it inherited its parent holds as well.
CloseAccepted(p) ==
    LET own(c) == parent[c] = p /\ link[c] = "open"
    IN /\ link' = [c \in Client |-> IF ~ own(c) THEN link[c]
                                   ELSE IF inbox[c] > 0 THEN "reset" ELSE "shut"]
       /\ inbox' = [c \in Client |-> IF own(c) THEN 0 ELSE inbox[c]]
       /\ UNCHANGED <<client, outbox, backlog>>

ExitUnsignalled(p) == /\ Goto(p, "exit", IF p = Main THEN "reaped" ELSE "zombie")
                      /\ IF p = Main THEN CloseAll ELSE CloseAccepted(p)
                      /\ UNCHANGED <<connfd, parent, errno, pending, handler>>

\* exit(-1): the parent gets SIGCHLD.  With Main, which the shell reaps, the
\* last process of the server ends, and the listening socket is closed.
Exit(p) == /\ Goto(p, "exit", IF p = Main THEN "reaped" ELSE "zombie")
           /\ pending' = (pending \cup {parent[p]}) \ {p, None}
           /\ IF p = Main THEN CloseAll ELSE CloseAccepted(p)
           /\ UNCHANGED <<connfd, parent, errno, handler>>

main(p) == \/ Accept(p) \/ Test(p) \/ Fork(p) \/ Exit(p)
           \/ p \in Client /\ (Read(p) \/ Write(p) \/ ReadEof(p) \/ ReadError(p)
                               \/ Close(p))

-----------------------------------------------------------------------------
(* recycleChild *)

Deliver(p) == /\ p \in pending /\ handler[p] = "idle"
              /\ pending' = pending \ {p}
              /\ handler' = [handler EXCEPT ![p] = "waitpid"]
              /\ UNCHANGED <<clientVars, proc, connfd, parent, errno>>

\* What a waitpid that reaps nothing leaves in errno: ECHILD when it returns
\* -1, because there is no child, and what it was when it returns 0.
KeepErrno(p) == errno' = IF proc[p] = "test" /\ Children(p) = {}
                         THEN [errno EXCEPT ![p] = "ECHILD"] ELSE errno

WaitpidOnce(p) ==
    /\ handler[p] = "waitpid"
    /\ \/ \E q \in Zombies(p) : proc' = [proc EXCEPT ![q] = "reaped"] /\ UNCHANGED errno
       \/ Zombies(p) = {} /\ KeepErrno(p) /\ UNCHANGED proc
    /\ handler' = [handler EXCEPT ![p] = "return"]
    /\ UNCHANGED <<clientVars, connfd, parent, pending>>

\* waitpid(-1, NULL, WNOHANG)
Waitpid(p) ==
    /\ handler[p] = "waitpid"
    /\ \/ \E q \in Zombies(p) : /\ proc' = [proc EXCEPT ![q] = "reaped"]
                                /\ UNCHANGED <<errno, handler>>
       \/ /\ Zombies(p) = {}
          /\ KeepErrno(p)
          /\ handler' = [handler EXCEPT ![p] = "return"]
          /\ UNCHANGED proc
    /\ UNCHANGED <<clientVars, connfd, parent, pending>>

\* The handler returns, between two calls or in one.  SA_RESTART is not set,
\* so an accept or a read it has interrupted fails with EINTR.  main then tests
\* errno after accept, in a step of its own; after read it exits.
Return(p) ==
    /\ handler[p] = "return"
    /\ handler' = [handler EXCEPT ![p] = "idle"]
    /\ \/ UNCHANGED <<proc, errno>>
       \/ /\ proc[p] \in {"accept", "read"}
          /\ proc' = [proc EXCEPT ![p] = IF @ = "accept" THEN "test" ELSE "exit"]
          /\ errno' = [errno EXCEPT ![p] = IF proc[p] = "accept" THEN "EINTR" ELSE @]
    /\ UNCHANGED <<clientVars, connfd, parent, pending>>

recycleChild(p) == Deliver(p) \/ Waitpid(p) \/ Return(p)

-----------------------------------------------------------------------------
\* The clients' program; connect fails once the server is gone.
clients(c) == client_main(c) \/ client_closed(c)
connects(c) == IF proc[Main] \in Ended THEN Refused(c) ELSE Connect(c)

Next == \/ \E p \in Proc : main(p) \/ recycleChild(p)
        \/ \E c \in Client : connects(c) /\ UNCHANGED serverVars
        \/ \E c \in Client : clients(c) /\ UNCHANGED serverVars
        \/ \E c \in Client : Kill(c) /\ UNCHANGED serverVars

\* Processes are scheduled, and signals are delivered; nobody has to connect
\* or to stop a client.
Fairness == /\ \A p \in Proc : WF_vars(main(p)) /\ WF_vars(recycleChild(p))
            /\ \A c \in Client : WF_vars(clients(c) /\ UNCHANGED serverVars)

Spec == Init /\ [][Next]_vars

FairSpec == Spec /\ Fairness

-----------------------------------------------------------------------------
(* Properties *)

\* Every variable has its type; SIGCHLD is pending only for a process that has
\* accepted a connection.
TypeOK == /\ ClientTypeOK
          /\ proc \in [Proc -> {"none", "accept", "test", "fork", "read", "write",
                               "close", "exit", "zombie", "reaped"}]
          /\ connfd \in [Proc -> Client \cup {None}]
          /\ parent \in [Proc -> Proc \cup {None}]
          /\ errno \in [Proc -> {"none", "EINTR", "ECHILD"}]
          /\ pending \subseteq {parent[c] : c \in Client} \ {None}
          /\ handler \in [Proc -> {"idle", "waitpid", "return"}]

\* read, whose EINTR the code does not handle, is never interrupted: only a
\* process that has accepted nothing reads, so it has no children and no
\* SIGCHLD reaches it.
ReadUninterrupted ==
    \A p \in Proc : proc[p] = "read" =>
        /\ p \notin pending /\ handler[p] = "idle"
        /\ \A q \in Client : parent[q] # p

\* A dead child has a SIGCHLD pending at its parent, or its parent is about to
\* call waitpid: merged signals leave no zombie behind.
ZombieNoticed ==
    \A q \in Client : proc[q] = "zombie" =>
        parent[q] \in pending \/ handler[parent[q]] = "waitpid"

\* No child is left behind: a process that still runs, or that is dead and not
\* yet reaped, has a parent that runs.  An interrupted accept may end a process
\* (see EndsOnlyOnReset), but only one that has no child any more; so nothing
\* holds the port when Main has ended.
NoOrphan == \A q \in Client : proc[q] \notin {"none", "reaped"}
                                 => proc[parent[q]] \notin Ended

\* Nobody is serving c although it was accepted, because fork failed.
Abandoned(c) == /\ link[c] # "none" /\ proc[c] = "none"
                /\ \A i \in 1..Len(backlog) : backlog[i] # c
                /\ \A p \in Proc : connfd[p] # c

\* A client that waits for an answer gets one, learns that the server has ended,
\* or is stopped, unless the fork for its connection failed.
Answered == \A c \in Client : client[c] = "read" ~> client[c] # "read" \/ Abandoned(c)

\* Dead children are reaped.
ZombiesReaped == \A c \in Client : proc[c] = "zombie" ~> proc[c] = "reaped"

-----------------------------------------------------------------------------
(* What the note says, and the code does not do *)

\* "After the connection is closed, how does the server reclaim the child?
\* With the signal handler": once its client is gone a child is reaped.
ChildReclaimed ==
    \A c \in Client : proc[c] # "none" /\ client[c] = "gone" ~> proc[c] = "reaped"

\* "Handles accept: Interrupted system call, caused by catching a signal": a
\* process ends only when its own client reset the connection, never because
\* accept was interrupted.  It does not hold: a second SIGCHLD between the
\* return of accept and the test of errno runs recycleChild, whose last waitpid
\* sets errno to ECHILD.
EndsOnlyOnReset ==
    [][\A p \in Proc : proc[p] # "exit" /\ proc'[p] = "exit"
            => p \in Client /\ AtReset(p)]_vars

=============================================================================
