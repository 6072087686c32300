---------------------------- MODULE ThreadServer ----------------------------
(***************************************************************************)
(* The multi-threaded TCP server of note 19, with the clients of           *)
(* EchoClient.                                                             *)
(*                                                                         *)
(* The thread created for the connection of client c is called c.  A       *)
(* thread reads its descriptor from its element of the shared array        *)
(* sockinfos (pinfo->fd) each time it uses it.  Creating a thread is taken *)
(* to succeed.                                                             *)
(***************************************************************************)
EXTENDS EchoClient, FiniteSets

CONSTANTS MaxLen, \* sockinfo_maxLen (128 in the code)
          None    \* the value -1 of fd and of tid

ASSUME ThreadServerAssumption == /\ MaxLen \in Nat \ {0}
                                 /\ IsFiniteSet(Client)
                                 /\ None \notin Client

Slot == 1..MaxLen

VARIABLES pc,        \* where the main thread is
          connfd,    \* the connection it has just accepted
          sockinfos, \* per element: the connection (fd) and the thread (tid)
          pinfo,     \* per thread: its element of sockinfos
          thread     \* where each thread is

serverVars == <<pc, connfd, sockinfos, pinfo, thread>>
vars == <<clientVars, serverVars>>

\* After the initialisation of sockinfos and listen.
Init == /\ ClientInit
        /\ pc = "accept"
        /\ connfd = None
        /\ sockinfos = [s \in Slot |-> [fd |-> None, tid |-> None]]
        /\ pinfo = [c \in Client |-> 1]
        /\ thread = [c \in Client |-> "none"]

-----------------------------------------------------------------------------
(* main *)

Accept == /\ pc = "accept"
          /\ TakeConnection
          /\ connfd' = Head(backlog)
          /\ pc' = "search"
          /\ UNCHANGED <<sockinfos, pinfo, thread>>

Free == {s \in Slot : sockinfos[s].tid = None}

\* The first element whose tid is -1 is filled in; while there is none, the
\* loop sleeps and starts again.
Search ==
    /\ pc = "search"
    /\ \/ \E s \in Free :
             /\ \A x \in Free : s <= x
             /\ sockinfos' = [sockinfos EXCEPT ![s].fd = connfd]
             /\ pinfo' = [pinfo EXCEPT ![connfd] = s]
             /\ pc' = "create"
       \/ Free = {} /\ pc' = "sleep" /\ UNCHANGED <<sockinfos, pinfo>>
    /\ UNCHANGED <<clientVars, connfd, thread>>

\* sleep(1); i = -1
SearchAgain == /\ pc = "sleep"
               /\ pc' = "search"
               /\ UNCHANGED <<clientVars, connfd, sockinfos, pinfo, thread>>

\* pthread_create and pthread_detach
Create == /\ pc = "create"
          /\ sockinfos' = [sockinfos EXCEPT ![pinfo[connfd]].tid = connfd]
          /\ thread' = [thread EXCEPT ![connfd] = "read"]
          /\ connfd' = None
          /\ pc' = "accept"
          /\ UNCHANGED <<clientVars, pinfo>>

main == Accept \/ Search \/ SearchAgain \/ Create

-----------------------------------------------------------------------------
(* working *)

\* pinfo->fd
Fd(t) == sockinfos[pinfo[t]].fd

Goto(t, from, to) == thread[t] = from /\ thread' = [thread EXCEPT ![t] = to]

ReadKeepsData(t) == /\ Goto(t, "read", "write")
                    /\ inbox[Fd(t)] > 0
                    /\ UNCHANGED <<clientVars, pc, connfd, sockinfos, pinfo>>

\* read > 0
Read(t) == /\ Goto(t, "read", "write")
           /\ Receive(Fd(t))
           /\ UNCHANGED <<pc, connfd, sockinfos, pinfo>>

WriteNothing(t) == /\ Goto(t, "write", "read")
                   /\ UNCHANGED <<clientVars, pc, connfd, sockinfos, pinfo>>

\* write
Write(t) == /\ Goto(t, "write", "read")
            /\ Answer(Fd(t))
            /\ UNCHANGED <<pc, connfd, sockinfos, pinfo>>

ReadEofFreesSlot(t) == /\ Goto(t, "read", "close")
                       /\ AtEof(Fd(t))
                       /\ sockinfos' = [sockinfos EXCEPT ![pinfo[t]].tid = None]
                       /\ UNCHANGED <<clientVars, pc, connfd, pinfo>>

\* read = 0: leave the loop
ReadEof(t) == /\ Goto(t, "read", "close")
              /\ AtEof(Fd(t))
              /\ UNCHANGED <<clientVars, pc, connfd, sockinfos, pinfo>>

ReadErrorEndsThread(t) == /\ Goto(t, "read", "ended")
                          /\ AtReset(Fd(t))
                          /\ UNCHANGED <<clientVars, pc, connfd, sockinfos, pinfo>>

\* read = -1: exit(-1) ends the whole process
ReadError(t) == /\ thread[t] = "read"
                /\ AtReset(Fd(t))
                /\ pc' = "exited"
                /\ thread' = [u \in Client |-> "ended"]
                /\ CloseAll
                /\ UNCHANGED <<connfd, sockinfos, pinfo>>

\* close(pinfo->fd), and the thread returns; its element is not given back
Close(t) == /\ Goto(t, "close", "ended")
            /\ UNCHANGED <<clientVars, pc, connfd, sockinfos, pinfo>>

working(t) == Read(t) \/ Write(t) \/ ReadEof(t) \/ ReadError(t) \/ Close(t)

-----------------------------------------------------------------------------
clients(c) == client_main(c) \/ client_closed(c)

Next == \/ main
        \/ \E t \in Client : working(t)
        \/ \E c \in Client : /\ IF pc = "exited" THEN Refused(c) ELSE Connect(c)
                             /\ UNCHANGED serverVars
        \/ \E c \in Client : clients(c) /\ UNCHANGED serverVars
        \/ \E c \in Client : Kill(c) /\ UNCHANGED serverVars

\* Threads are scheduled; nobody has to connect or to stop a client.
Fairness == /\ WF_vars(main)
            /\ \A t \in Client : WF_vars(working(t))
            /\ \A c \in Client : WF_vars(clients(c) /\ UNCHANGED serverVars)

Spec == Init /\ [][Next]_vars

FairSpec == Spec /\ Fairness

-----------------------------------------------------------------------------
(* Properties *)

\* Every variable has its type.
TypeOK == /\ ClientTypeOK
          /\ pc \in {"accept", "search", "sleep", "create", "exited"}
          /\ connfd \in Client \cup {None}
          /\ sockinfos \in [Slot -> [fd : Client \cup {None}, tid : Client \cup {None}]]
          /\ pinfo \in [Client -> Slot]
          /\ thread \in [Client -> {"none", "read", "write", "close", "ended"}]

\* The element of a working thread is its own: each time it reads pinfo->fd it
\* finds the connection it was created for, although main keeps filling in
\* other elements of the same array.
OwnsElement ==
    \A t \in Client : thread[t] \in {"read", "write", "close"} => Fd(t) = t

\* Is the main thread looking for an element that it will never find?
Stuck == pc \in {"search", "sleep"} /\ Free = {}

\* A client that waits for an answer gets one, sees the server close or is
\* stopped, unless main is stuck before it has a thread.
Answered == \A c \in Client :
                client[c] = "read" ~> client[c] # "read" \/ (Stuck /\ thread[c] = "none")

\* A client whose server has exited does not hang: it ends by itself.
ClientsEnd == \A c \in Client : link[c] \in Closed ~> client[c] = "gone"

-----------------------------------------------------------------------------
(* What the code says, and does not do *)

\* "When the end is reached without finding one, sleep for a second and start
\* from the beginning": main waits for an element of a thread that has ended,
\* so with one such element the search succeeds (or the server exits).
ElementReused ==
    Stuck /\ (\E t \in Client : thread[t] = "ended") ~> pc \notin {"search", "sleep"}

=============================================================================
