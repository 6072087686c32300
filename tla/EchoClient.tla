----------------------------- MODULE EchoClient -----------------------------
(***************************************************************************)
(* The client program of notes 19 and 20 (connect, then for ever: write a  *)
(* message, read the answer, sleep) and its TCP connection to the server,  *)
(* as the server modules use it.                                           *)
(*                                                                         *)
(* A client has at most one message on the way: what a buffer holds is a   *)
(* number of messages.  The client program never ends by itself; the user  *)
(* stops it at any moment (Kill), and the kernel closes its socket: with a *)
(* FIN, or with a RST when an answer was still unread.                     *)
(***************************************************************************)
EXTENDS Naturals, Sequences

CONSTANT Client

VARIABLES client,  \* where the main of each client is
          link,    \* the state of its connection
          inbox,   \* messages the server has not read yet
          outbox,  \* answers the client has not read yet
          backlog  \* connections the server has not accepted yet

clientVars == <<client, link, inbox, outbox, backlog>>

ClientInit == /\ client = [c \in Client |-> "connect"]
              /\ link = [c \in Client |-> "none"]
              /\ inbox = [c \in Client |-> 0]
              /\ outbox = [c \in Client |-> 0]
              /\ backlog = <<>>

ClientTypeOK ==
    /\ client \in [Client -> {"connect", "write", "read", "sleep", "gone"}]
    /\ link \in [Client -> {"none", "open", "fin", "rst", "shut", "reset", "dead"}]
    /\ inbox \in [Client -> 0..1]
    /\ outbox \in [Client -> 0..1]
    /\ backlog \in Seq(Client)

Step(c, from, to) == client[c] = from /\ client' = [client EXCEPT ![c] = to]

\* connect: the kernel of the server completes it before accept is called
Connect(c) == /\ Step(c, "connect", "write")
              /\ link' = [link EXCEPT ![c] = "open"]
              /\ backlog' = Append(backlog, c)
              /\ UNCHANGED <<inbox, outbox>>

\* connect fails once the server is gone: exit(-1)
Refused(c) == /\ Step(c, "connect", "gone")
              /\ UNCHANGED <<link, inbox, outbox, backlog>>

\* write(connfd, send_buf, strlen(send_buf))
WriteRequest(c) == /\ Step(c, "write", "read")
                   /\ link[c] = "open"
                   /\ inbox' = [inbox EXCEPT ![c] = @ + 1]
                   /\ UNCHANGED <<link, outbox, backlog>>

\* The server has closed: with a FIN ("shut") or a RST ("reset"); after the
\* client's next write nothing more can be sent ("dead").
Closed == {"shut", "reset", "dead"}

WriteUndetected(c) == /\ link[c] \in Closed
                      /\ Step(c, "write", "read")
                      /\ UNCHANGED <<link, inbox, outbox, backlog>>

\* The same write when the server has closed: the first one goes unnoticed
\* (its result is not tested), the second one ends the client with SIGPIPE.
WriteToClosed(c) ==
    /\ link[c] \in Closed
    /\ Step(c, "write", IF link[c] = "dead" THEN "gone" ELSE "read")
    /\ link' = [link EXCEPT ![c] = "dead"]
    /\ UNCHANGED <<inbox, outbox, backlog>>

\* read(connfd, recv_buf, sizeof(recv_buf)) > 0
ReadAnswer(c) == /\ Step(c, "read", "sleep")
                 /\ outbox[c] > 0
                 /\ outbox' = [outbox EXCEPT ![c] = 0]
                 /\ UNCHANGED <<link, inbox, backlog>>

\* The read returns -1 after a RST (exit(-1)), else 0 (the loop goes on all
\* the same).
ReadClosed(c) == /\ outbox[c] = 0 /\ link[c] \in Closed
                 /\ Step(c, "read", IF link[c] = "reset" THEN "gone" ELSE "sleep")
                 /\ UNCHANGED <<link, inbox, outbox, backlog>>

\* sleep(1)
Sleep(c) == /\ Step(c, "sleep", "write")
            /\ UNCHANGED <<link, inbox, outbox, backlog>>

client_main(c) == WriteRequest(c) \/ ReadAnswer(c) \/ Sleep(c)

\* The part of the program that only a server that closes first makes run.
client_closed(c) == WriteToClosed(c) \/ ReadClosed(c)

\* The user stops the client.
Kill(c) == /\ client[c] \in {"write", "read", "sleep"}
           /\ client' = [client EXCEPT ![c] = "gone"]
           /\ link' = [link EXCEPT ![c] = IF @ # "open" THEN @
                                         ELSE IF outbox[c] > 0 THEN "rst" ELSE "fin"]
           /\ outbox' = [outbox EXCEPT ![c] = 0]
           /\ UNCHANGED <<inbox, backlog>>

-----------------------------------------------------------------------------
(* What a server does with the connection of c *)

Readable(c) == inbox[c] > 0 \/ link[c] \in {"fin", "rst"}

\* read > 0
Receive(c) == /\ inbox[c] > 0
              /\ inbox' = [inbox EXCEPT ![c] = 0]
              /\ UNCHANGED <<client, link, outbox, backlog>>

\* read = 0
AtEof(c) == inbox[c] = 0 /\ link[c] = "fin"

\* read = -1, ECONNRESET
AtReset(c) == inbox[c] = 0 /\ link[c] = "rst"

\* write: lost when the client is gone
Answer(c) == /\ outbox' = [outbox EXCEPT ![c] = IF link[c] = "open" THEN @ + 1 ELSE @]
             /\ UNCHANGED <<client, link, inbox, backlog>>

\* accept
TakeConnection == /\ backlog # <<>>
                  /\ backlog' = Tail(backlog)
                  /\ UNCHANGED <<client, link, inbox, outbox>>

\* The server process ends: its kernel closes every connection, with a RST
\* when a message was still unread or the connection not yet accepted.
CloseAll == /\ link' = [c \in Client |->
                           IF link[c] # "open" THEN link[c]
                           ELSE IF inbox[c] > 0 \/ (\E i \in 1..Len(backlog) : backlog[i] = c)
                           THEN "reset" ELSE "shut"]
            /\ backlog' = <<>>
            /\ inbox' = [c \in Client |-> 0]
            /\ UNCHANGED <<client, outbox>>

=============================================================================
