------------------------------ MODULE EchoPair ------------------------------
(***************************************************************************)
(* The server and the client of lesson32.  The server accepts one          *)
(* connection, serves it and returns; other clients may have connected in  *)
(* the meantime and wait in the backlog of listen.  The client sleeps      *)
(* between its write and its read, and stops when the server has closed.   *)
(* The user may stop any of the programs.                                  *)
(*                                                                         *)
(* The connections are those of EchoClient, the client program is not.     *)
(***************************************************************************)
EXTENDS EchoClient

CONSTANT None \* no connection

ASSUME EchoPairAssumption == None \notin Client

VARIABLES server, \* where the main of the server is
          cfd     \* the connection it has accepted

vars == <<clientVars, server, cfd>>

Init == ClientInit /\ server = "accept" /\ cfd = None

-----------------------------------------------------------------------------
(* The server *)

Goto(from, to) == server = from /\ server' = to

\* accept(lfd, ...)
Accept == /\ Goto("accept", "read")
          /\ TakeConnection
          /\ cfd' = Head(backlog)

\* read(cfd, ...) > 0
Read == /\ Goto("read", "write")
        /\ Receive(cfd)
        /\ UNCHANGED cfd

\* write(cfd, data, strlen(data))
Write == /\ Goto("write", "read")
         /\ Answer(cfd)
         /\ UNCHANGED cfd

FinishContinues == /\ Goto("read", "read")
                   /\ AtEof(cfd) \/ AtReset(cfd)
                   /\ UNCHANGED <<clientVars, cfd>>

\* read(cfd, ...) is 0 (break, both descriptors are closed) or -1 (exit)
Finish == /\ Goto("read", "exited")
          /\ AtEof(cfd) \/ AtReset(cfd)
          /\ CloseAll
          /\ UNCHANGED cfd

server_main == Accept \/ Read \/ Write \/ Finish

\* The user stops the server.
Stop == /\ server # "exited" /\ server' = "exited"
        /\ CloseAll
        /\ UNCHANGED cfd

-----------------------------------------------------------------------------
(* The client *)

\* write(fd, data, strlen(data)) on an open connection
Send(c) == /\ Step(c, "write", "sleep")
           /\ link[c] = "open"
           /\ inbox' = [inbox EXCEPT ![c] = @ + 1]
           /\ UNCHANGED <<link, outbox, backlog>>

\* The same after the server has closed (see WriteToClosed).
SendToClosed(c) == /\ link[c] \in Closed
                   /\ Step(c, "write", IF link[c] = "dead" THEN "gone" ELSE "sleep")
                   /\ link' = [link EXCEPT ![c] = "dead"]
                   /\ UNCHANGED <<inbox, outbox, backlog>>

\* sleep(1)
Pause(c) == /\ Step(c, "sleep", "read")
            /\ UNCHANGED <<link, inbox, outbox, backlog>>

GetUnblocked(c) == /\ Step(c, "read", "write")
                   /\ link[c] = "open"
                   /\ outbox' = [outbox EXCEPT ![c] = 0]
                   /\ UNCHANGED <<link, inbox, backlog>>

\* read(fd, ...) > 0
Get(c) == /\ Step(c, "read", "write")
          /\ outbox[c] > 0
          /\ outbox' = [outbox EXCEPT ![c] = 0]
          /\ UNCHANGED <<link, inbox, backlog>>

GetClosedContinues(c) == /\ Step(c, "read", "write")
                         /\ outbox[c] = 0 /\ link[c] \in Closed
                         /\ UNCHANGED <<link, inbox, outbox, backlog>>

GetClosedRetries(c) == /\ Step(c, "read", "sleep")
                       /\ outbox[c] = 0 /\ link[c] \in Closed
                       /\ UNCHANGED <<link, inbox, outbox, backlog>>

\* read(fd, ...) is 0 (break) or -1 (exit)
GetClosed(c) == /\ Step(c, "read", "gone")
                /\ outbox[c] = 0 /\ link[c] \in Closed
                /\ UNCHANGED <<link, inbox, outbox, backlog>>

pair_client(c) == Send(c) \/ SendToClosed(c) \/ Pause(c) \/ Get(c) \/ GetClosed(c)

-----------------------------------------------------------------------------
Next ==
    \/ server_main \/ Stop
    \/ \E c \in Client : /\ \/ server # "exited" /\ Connect(c)
                            \/ server = "exited" /\ Refused(c)
                            \/ pair_client(c)
                            \/ Kill(c)
                         /\ UNCHANGED <<server, cfd>>

\* Programs that can run are scheduled; nobody has to connect or to be stopped.
Fairness == /\ WF_vars(server_main)
            /\ \A c \in Client : WF_vars(pair_client(c) /\ UNCHANGED <<server, cfd>>)

Spec == Init /\ [][Next]_vars

FairSpec == Spec /\ Fairness

-----------------------------------------------------------------------------
(* Properties *)

\* Every variable has its type; the server reads and writes only after accept.
TypeOK == /\ ClientTypeOK
          /\ server \in {"accept", "read", "write", "exited"}
          /\ cfd \in Client \cup {None}
          /\ server \in {"read", "write"} => cfd \in Client

\* On an open connection there is exactly one request, answer or turn of the
\* server on the way while the client sleeps or reads, and none otherwise: the
\* two loops never lose step, wherever the client sleeps.
OneInFlight ==
    \A c \in Client : link[c] = "open" =>
        inbox[c] + outbox[c] + (IF server = "write" /\ cfd = c THEN 1 ELSE 0)
            = IF client[c] \in {"sleep", "read"} THEN 1 ELSE 0

\* A client is never killed by SIGPIPE: before it could write a second time to
\* a connection that the server has closed, its read has ended the loop.
NoSigpipe == \A c \in Client : client[c] = "write" => link[c] # "dead"

\* When the client that was accepted ends, by a FIN or by a RST, so does the
\* server.
ServerEnds == \A c \in Client : cfd = c /\ client[c] = "gone" ~> server = "exited"

\* When the server ends, every client that had connected ends as well, also
\* those that were never accepted.
ClientsEnd == \A c \in Client : server = "exited" /\ client[c] # "connect" ~> client[c] = "gone"

=============================================================================
