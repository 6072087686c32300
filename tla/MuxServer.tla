------------------------------ MODULE MuxServer ------------------------------
(***************************************************************************)
(* The level-triggered servers of note 20 (select, poll, epoll LT), with   *)
(* the clients of EchoClient, which are those of the note.                 *)
(*                                                                         *)
(* One process waits until something is ready, keeps the answer (tmpSet,   *)
(* revents, events) and works it off.  A descriptor stands for the client  *)
(* at its other end.  The order in which ready connections are served is   *)
(* left open: the loops of select and poll follow descriptor numbers, the  *)
(* one of epoll the order the kernel reports.                              *)
(***************************************************************************)
EXTENDS EchoClient

CONSTANTS Listen, \* listenfd
          None    \* no connection

ASSUME MuxServerAssumption == Listen \notin Client /\ None \notin Client

VARIABLES api,     \* which of the three programs runs
          server,  \* where main is
          watched, \* connections in rSet, fds or the epoll instance
          ready,   \* reported by the last wait and not yet worked off
          unset,   \* connections whose revents poll has not written yet
          cur      \* the connection whose message was just read

serverVars == <<api, server, watched, ready, unset, cur>>
vars == <<clientVars, serverVars>>

Init == /\ ClientInit
        /\ api \in {"select", "poll", "epoll"}
        /\ server = "wait"
        /\ watched = {} /\ ready = {} /\ unset = {}
        /\ cur = None

-----------------------------------------------------------------------------
(* main *)

Pending == {c \in watched : Readable(c)} \cup (IF backlog # <<>> THEN {Listen} ELSE {})

WaitStale == /\ server = "wait" /\ Pending # {}
             /\ server' = "serve"
             /\ ready' = watched \cup Pending
             /\ unset' = {}
             /\ UNCHANGED <<clientVars, api, watched, cur>>

\* select, poll or epoll_wait returns
Wait == /\ server = "wait" /\ Pending # {}
        /\ server' = "serve"
        /\ ready' = Pending
        /\ unset' = {}
        /\ UNCHANGED <<clientVars, api, watched, cur>>

\* The rest of the round: when nothing is left, wait again.
Continue(rest) == ready' = rest /\ server' = IF rest = {} THEN "wait" ELSE "serve"

AcceptForgets ==
    /\ server = "serve" /\ Listen \in ready
    /\ TakeConnection
    /\ Continue(ready \ {Listen})
    /\ UNCHANGED <<api, watched, unset, cur>>

\* accept, and the connection is added to what is watched.  poll tests revents
\* of the new element in the same round: poll has set it to 0 before, because
\* nfds covers the element, except for the first connection of all, for which
\* it is uninitialised.
Accept ==
    /\ server = "serve" /\ Listen \in ready
    /\ TakeConnection
    /\ LET c == Head(backlog)
           first == api = "poll" /\ \A d \in Client : d # c /\ link[d] # "none" =>
                        \E k \in 2..Len(backlog) : backlog[k] = d
       IN /\ watched' = watched \cup {c}
          /\ \/ Continue(ready \ {Listen}) /\ UNCHANGED unset
             \/ first /\ Continue((ready \ {Listen}) \cup {c}) /\ unset' = {c}
    /\ UNCHANGED <<api, cur>>

\* select and poll look at listenfd first.
Turn(c) == /\ server = "serve" /\ c \in ready
           /\ api = "epoll" \/ Listen \notin ready

\* read > 0
Read(c) == /\ Turn(c)
           /\ Receive(c)
           /\ server' = "write"
           /\ cur' = c
           /\ UNCHANGED <<api, watched, ready, unset>>

\* write, and on to the next one that is ready
Write == /\ server = "write"
         /\ Answer(cur)
         /\ Continue(ready \ {cur})
         /\ cur' = None
         /\ UNCHANGED <<api, watched, unset>>

ReadEofKeeps(c) == /\ Turn(c) /\ AtEof(c)
                   /\ Continue({})
                   /\ UNCHANGED <<clientVars, api, watched, unset, cur>>

\* read = 0: close, stop watching, and break: the others that were ready are
\* reported again by the next wait
ReadEof(c) == /\ Turn(c) /\ AtEof(c)
              /\ watched' = watched \ {c}
              /\ Continue({})
              /\ UNCHANGED <<clientVars, api, unset, cur>>

\* read = -1: exit(-1)
ReadError(c) == /\ Turn(c) /\ AtReset(c)
                /\ server' = "exited"
                /\ CloseAll
                /\ UNCHANGED <<api, watched, ready, unset, cur>>

main == \/ Wait \/ Accept \/ Write
        \/ \E c \in Client : Read(c) \/ ReadEof(c) \/ ReadError(c)

-----------------------------------------------------------------------------
Next == \/ main
        \/ \E c \in Client : /\ \/ server # "exited" /\ Connect(c)
                                \/ server = "exited" /\ Refused(c)
                                \/ client_main(c) \/ client_closed(c)
                                \/ Kill(c)
                             /\ UNCHANGED serverVars

\* The server and the clients are scheduled; nobody has to connect or to be
\* stopped.
Fairness ==
    /\ WF_vars(main)
    /\ \A c \in Client :
          WF_vars((client_main(c) \/ client_closed(c)) /\ UNCHANGED serverVars)

Spec == Init /\ [][Next]_vars

FairSpec == Spec /\ Fairness

-----------------------------------------------------------------------------
(* Properties *)

\* Every variable has its type, and the server holds a message exactly while
\* it is about to write.
TypeOK == /\ ClientTypeOK
          /\ api \in {"select", "poll", "epoll"}
          /\ server \in {"wait", "serve", "write", "exited"}
          /\ watched \subseteq Client
          /\ ready \subseteq Client \cup {Listen}
          /\ unset \subseteq Client
          /\ cur \in Client \cup {None}
          /\ server = "write" <=> cur # None

\* The only process never blocks in accept or read: what the last wait reported
\* is still true when it is used, however many connections were served,
\* accepted or closed in between.  The one exception is the element of fds
\* whose revents poll has not written yet.
NeverBlocks ==
    server = "serve" =>
        /\ Listen \in ready => backlog # <<>>
        /\ \A c \in (ready \ {Listen}) \ unset : c \in watched /\ Readable(c)

\* A connection carries one message at a time.
OneInFlight ==
    \A c \in Client : link[c] = "open" =>
        inbox[c] + outbox[c] + (IF cur = c THEN 1 ELSE 0)
            = IF client[c] = "read" THEN 1 ELSE 0

\* A client that waits for an answer gets one or learns that the server has
\* ended, although a round stops at the first connection that was closed.
Answered == \A c \in Client : client[c] = "read" ~> client[c] # "read"

\* The connection of a client that has ended is closed and no longer watched,
\* or the server has ended.
Released == \A c \in Client :
                c \in watched /\ client[c] = "gone" ~> c \notin watched \/ server = "exited"

=============================================================================
