-------------------------- MODULE MuxServer_proofs --------------------------
(***************************************************************************)
(* Proofs about MuxServer, for any set of clients and all three programs.  *)
(***************************************************************************)
EXTENDS MuxServer, TLAPS

\* c waits to be accepted
Queued(c) == \E k \in 1..Len(backlog) : backlog[k] = c

\* Nothing is known of a client before it connects.
Fresh == \A c \in Client : client[c] = "connect" =>
             /\ link[c] = "none" /\ inbox[c] = 0 /\ outbox[c] = 0
             /\ cur # c /\ ~ Queued(c)

\* What was reported and is not yet worked off stays true, also while the
\* server answers another connection.
StillReady ==
    server \in {"serve", "write"} =>
        /\ Listen \in ready => backlog # <<>> /\ unset = {}
        /\ \A c \in Client : c \in ready /\ c \notin unset /\ c # cur =>
               c \in watched /\ Readable(c)

IInv == TypeOK /\ OneInFlight /\ Fresh /\ StillReady

LEMMA InitInv == Init => IInv
<1> SUFFICES ASSUME Init PROVE IInv
  OBVIOUS
<1>1. backlog = <<>> /\ \A c \in Client : ~ Queued(c)
  BY DEF Init, ClientInit, Queued
<1>2. TypeOK
  BY <1>1 DEF Init, ClientInit, TypeOK, ClientTypeOK
<1>3. OneInFlight
  BY MuxServerAssumption DEF Init, ClientInit, OneInFlight
<1>4. Fresh
  BY <1>1, MuxServerAssumption DEF Init, ClientInit, Fresh
<1>5. StillReady
  BY DEF Init, StillReady
<1> QED BY <1>2, <1>3, <1>4, <1>5 DEF IInv

LEMMA WaitStep == IInv /\ Wait => IInv'
<1> SUFFICES ASSUME IInv, Wait PROVE IInv'
  OBVIOUS
<1> USE MuxServerAssumption DEF IInv
<1>1. UNCHANGED <<client, link, inbox, outbox, backlog, api, watched, cur>>
  BY DEF Wait, clientVars
<1>2. TypeOK'
  BY <1>1 DEF Wait, Pending, TypeOK, ClientTypeOK
<1>3. OneInFlight' /\ Fresh'
  BY <1>1 DEF OneInFlight, Fresh, Queued
<1>4. StillReady'
  <2>1. unset' = {} /\ (Listen \in ready' => backlog # <<>>)
    BY DEF Wait, Pending, TypeOK
  <2>2. \A c \in Client : c \in ready' => c \in watched /\ Readable(c)
    BY DEF Wait, Pending
  <2>3. \A c \in Client : Readable(c)' <=> Readable(c)
    BY <1>1 DEF Readable
  <2> QED BY <1>1, <2>1, <2>2, <2>3 DEF StillReady
<1> QED BY <1>2, <1>3, <1>4

LEMMA AcceptStep == IInv /\ Accept => IInv'
<1> SUFFICES ASSUME IInv, Accept PROVE IInv'
  OBVIOUS
<1> USE MuxServerAssumption DEF IInv
<1>1. /\ backlog \in Seq(Client) /\ backlog # <<>> /\ backlog' = Tail(backlog)
      /\ UNCHANGED <<client, link, inbox, outbox, api, cur>>
      /\ server = "serve" /\ cur = None
  BY DEF Accept, TakeConnection, TypeOK, ClientTypeOK
<1>2. PICK c \in Client :
          /\ watched' = watched \cup {c}
          /\ \/ Continue(ready \ {Listen}) /\ UNCHANGED unset
             \/ Continue((ready \ {Listen}) \cup {c}) /\ unset' = {c}
  <2>1. Head(backlog) \in Client
    BY <1>1
  <2> QED BY <2>1 DEF Accept
<1>3. backlog' \in Seq(Client) /\ \A d \in Client : Queued(d)' => Queued(d)
  BY <1>1 DEF Queued
<1>4. TypeOK'
  BY <1>1, <1>2, <1>3 DEF Continue, TypeOK, ClientTypeOK
<1>5. OneInFlight' /\ Fresh'
  BY <1>1, <1>3 DEF OneInFlight, Fresh
<1>6. StillReady'
  <2>1. Listen \notin ready'
    BY <1>2 DEF Continue
  <2>2. ASSUME NEW d \in Client, d \in ready', d \notin unset', d # cur'
        PROVE  d \in watched' /\ Readable(d)'
    <3>1. CASE UNCHANGED unset /\ Continue(ready \ {Listen})
      BY <1>1, <1>2, <2>2, <3>1 DEF StillReady, Continue, Readable
    <3>2. CASE Continue((ready \ {Listen}) \cup {c}) /\ unset' = {c}
      <4>1. d \in ready /\ d # c
        BY <2>2, <3>2 DEF Continue
      <4>2. unset = {}
        BY <1>1 DEF Accept, StillReady
      <4> QED BY <1>1, <1>2, <2>2, <4>1, <4>2 DEF StillReady, Readable
    <3> QED BY <1>2, <3>1, <3>2
  <2> QED BY <2>1, <2>2 DEF StillReady
<1> QED BY <1>4, <1>5, <1>6

LEMMA ReadStep == ASSUME IInv, NEW c \in Client, Read(c) PROVE IInv'
<1> USE MuxServerAssumption DEF IInv
<1>1. /\ inbox[c] = 1 /\ inbox' = [inbox EXCEPT ![c] = 0] /\ cur' = c
      /\ UNCHANGED <<client, link, outbox, backlog, api, watched, ready, unset>>
      /\ server = "serve" /\ server' = "write" /\ cur = None
  BY DEF Read, Turn, Receive, TypeOK, ClientTypeOK
<1>2. TypeOK'
  BY <1>1 DEF TypeOK, ClientTypeOK
<1>3. OneInFlight'
  BY <1>1 DEF OneInFlight, TypeOK, ClientTypeOK
<1>4. Fresh'
  BY <1>1 DEF Fresh, Queued, TypeOK, ClientTypeOK
<1>5. StillReady'
  BY <1>1 DEF StillReady, Readable, TypeOK, ClientTypeOK
<1> QED BY <1>2, <1>3, <1>4, <1>5

LEMMA WriteStep == IInv /\ Write => IInv'
<1> SUFFICES ASSUME IInv, Write PROVE IInv'
  OBVIOUS
<1> USE MuxServerAssumption DEF IInv
<1>1. /\ cur \in Client /\ server = "write" /\ cur' = None
      /\ outbox' = [outbox EXCEPT ![cur] = IF link[cur] = "open" THEN @ + 1 ELSE @]
      /\ ready' = ready \ {cur} /\ server' \in {"wait", "serve"}
      /\ UNCHANGED <<client, link, inbox, backlog, api, watched, unset>>
  BY DEF Write, Answer, Continue, TypeOK
<1>2. link[cur] = "open" => outbox[cur] = 0 /\ client[cur] = "read"
  BY <1>1 DEF OneInFlight, TypeOK, ClientTypeOK
<1>3. TypeOK'
  BY <1>1, <1>2 DEF TypeOK, ClientTypeOK
<1>4. OneInFlight'
  BY <1>1, <1>2 DEF OneInFlight, TypeOK, ClientTypeOK
<1>5. Fresh'
  BY <1>1 DEF Fresh, Queued, TypeOK, ClientTypeOK
<1>6. StillReady'
  BY <1>1 DEF StillReady, Readable
<1> QED BY <1>3, <1>4, <1>5, <1>6

LEMMA ReadEofStep == ASSUME IInv, NEW c \in Client, ReadEof(c) PROVE IInv'
<1> USE MuxServerAssumption DEF IInv
<1>1. /\ UNCHANGED <<client, link, inbox, outbox, backlog, api, unset, cur>>
      /\ server = "serve" /\ server' = "wait" /\ ready' = {} /\ watched' = watched \ {c}
  BY DEF ReadEof, Turn, Continue, clientVars
<1>2. TypeOK'
  BY <1>1 DEF TypeOK, ClientTypeOK
<1>3. OneInFlight' /\ Fresh' /\ StillReady'
  BY <1>1 DEF OneInFlight, Fresh, Queued, StillReady
<1> QED BY <1>2, <1>3

LEMMA ReadErrorStep == ASSUME IInv, NEW c \in Client, ReadError(c) PROVE IInv'
<1> USE MuxServerAssumption DEF IInv
<1>1. /\ backlog' = <<>> /\ \A d \in Client : ~ Queued(d)'
      /\ inbox' = [d \in Client |-> 0]
      /\ UNCHANGED <<client, outbox, api, watched, ready, unset, cur>>
      /\ server = "serve" /\ server' = "exited"
  BY DEF ReadError, Turn, CloseAll, Queued
<1>2. /\ link' \in [Client -> {"none", "open", "fin", "rst", "shut", "reset", "dead"}]
      /\ \A d \in Client : link'[d] # "open" /\ (link[d] = "none" => link'[d] = "none")
  BY DEF ReadError, CloseAll, TypeOK, ClientTypeOK
<1>3. TypeOK'
  BY <1>1, <1>2 DEF TypeOK, ClientTypeOK
<1>4. OneInFlight' /\ Fresh' /\ StillReady'
  BY <1>1, <1>2 DEF OneInFlight, Fresh, StillReady
<1> QED BY <1>3, <1>4

LEMMA ConnectStep ==
    ASSUME IInv, NEW c \in Client, Connect(c), UNCHANGED serverVars
    PROVE  IInv'
<1> USE MuxServerAssumption DEF IInv
<1>1. /\ backlog \in Seq(Client) /\ backlog' = Append(backlog, c)
      /\ client' = [client EXCEPT ![c] = "write"] /\ client[c] = "connect"
      /\ link' = [link EXCEPT ![c] = "open"] /\ link[c] = "none"
      /\ inbox[c] = 0 /\ outbox[c] = 0 /\ cur # c
      /\ UNCHANGED <<inbox, outbox, api, server, watched, ready, unset, cur>>
  BY DEF Connect, Step, serverVars, TypeOK, ClientTypeOK, Fresh
<1>2. \A d \in Client : d # c /\ Queued(d)' => Queued(d)
  BY <1>1 DEF Queued
<1>3. backlog' \in Seq(Client) /\ backlog' # <<>>
  BY <1>1
<1>4. TypeOK'
  BY <1>1, <1>3 DEF TypeOK, ClientTypeOK
<1>5. OneInFlight'
  BY <1>1 DEF OneInFlight, TypeOK, ClientTypeOK
<1>6. Fresh'
  BY <1>1, <1>2 DEF Fresh, TypeOK, ClientTypeOK
<1>7. \A d \in Client : Readable(d) => Readable(d)'
  BY <1>1 DEF Readable, TypeOK, ClientTypeOK
<1>8. StillReady'
  BY <1>1, <1>3, <1>7 DEF StillReady
<1> QED BY <1>4, <1>5, <1>6, <1>8

\* A step of a client takes nothing away that the server was told of.
LEMMA ClientStep ==
    ASSUME IInv, NEW c \in Client,
           Refused(c) \/ client_main(c) \/ client_closed(c) \/ Kill(c),
           UNCHANGED serverVars
    PROVE  IInv'
<1> USE MuxServerAssumption DEF IInv, Step
<1>1. UNCHANGED <<backlog, api, server, watched, ready, unset, cur>>
  BY DEF serverVars, Refused, client_main, client_closed, Kill, WriteRequest,
         WriteToClosed, ReadAnswer, ReadClosed, Sleep
<1>2. \A d \in Client : Queued(d)' <=> Queued(d)
  BY <1>1 DEF Queued
<1>3. CASE Refused(c)
  <2>1. TypeOK' /\ OneInFlight'
    BY <1>1, <1>3 DEF Refused, TypeOK, ClientTypeOK, OneInFlight, Fresh
  <2>2. Fresh' /\ StillReady'
    BY <1>1, <1>2, <1>3 DEF Refused, Fresh, StillReady, Readable, TypeOK, ClientTypeOK
  <2> QED BY <2>1, <2>2
<1>4. CASE WriteRequest(c)
  <2>1. inbox[c] = 0
    BY <1>4 DEF WriteRequest, OneInFlight, TypeOK, ClientTypeOK
  <2>2. TypeOK'
    BY <1>1, <1>4, <2>1 DEF WriteRequest, TypeOK, ClientTypeOK
  <2>3. OneInFlight'
    BY <1>1, <1>4, <2>1 DEF WriteRequest, OneInFlight, TypeOK, ClientTypeOK
  <2>4. Fresh' /\ StillReady'
    BY <1>1, <1>2, <1>4, <2>1 DEF WriteRequest, Fresh, StillReady, Readable, TypeOK, ClientTypeOK
  <2> QED BY <2>2, <2>3, <2>4
<1>5. CASE WriteToClosed(c)
  <2>1. TypeOK'
    BY <1>1, <1>5 DEF WriteToClosed, TypeOK, ClientTypeOK
  <2>2. OneInFlight'
    BY <1>1, <1>5 DEF WriteToClosed, OneInFlight, TypeOK, ClientTypeOK
  <2>3. Fresh' /\ StillReady'
    BY <1>1, <1>2, <1>5 DEF WriteToClosed, Closed, Fresh, StillReady, Readable, TypeOK, ClientTypeOK
  <2> QED BY <2>1, <2>2, <2>3
<1>6. CASE ReadAnswer(c)
  <2>1. TypeOK'
    BY <1>1, <1>6 DEF ReadAnswer, TypeOK, ClientTypeOK
  <2>2. OneInFlight'
    BY <1>1, <1>6 DEF ReadAnswer, OneInFlight, TypeOK, ClientTypeOK
  <2>3. Fresh' /\ StillReady'
    BY <1>1, <1>2, <1>6 DEF ReadAnswer, Fresh, StillReady, Readable, TypeOK, ClientTypeOK
  <2> QED BY <2>1, <2>2, <2>3
<1>7. CASE ReadClosed(c)
  <2>1. TypeOK'
    BY <1>1, <1>7 DEF ReadClosed, TypeOK, ClientTypeOK
  <2>2. OneInFlight'
    BY <1>1, <1>7 DEF ReadClosed, Closed, OneInFlight, TypeOK, ClientTypeOK
  <2>3. Fresh' /\ StillReady'
    BY <1>1, <1>2, <1>7 DEF ReadClosed, Fresh, StillReady, Readable, TypeOK, ClientTypeOK
  <2> QED BY <2>1, <2>2, <2>3
<1>8. CASE Sleep(c)
  <2>1. TypeOK' /\ OneInFlight'
    BY <1>1, <1>8 DEF Sleep, TypeOK, ClientTypeOK, OneInFlight
  <2>2. Fresh' /\ StillReady'
    BY <1>1, <1>2, <1>8 DEF Sleep, Fresh, StillReady, Readable, TypeOK, ClientTypeOK
  <2> QED BY <2>1, <2>2
<1>9. CASE Kill(c)
  <2>1. TypeOK'
    BY <1>1, <1>9 DEF Kill, TypeOK, ClientTypeOK
  <2>2. OneInFlight'
    BY <1>1, <1>9 DEF Kill, OneInFlight, TypeOK, ClientTypeOK
  <2>3. Fresh' /\ StillReady'
    BY <1>1, <1>2, <1>9 DEF Kill, Fresh, StillReady, Readable, TypeOK, ClientTypeOK
  <2> QED BY <2>1, <2>2, <2>3
<1> QED BY <1>3, <1>4, <1>5, <1>6, <1>7, <1>8, <1>9 DEF client_main, client_closed

\* The inductive invariant holds in every behaviour of the three programs.
THEOREM Invariance == Spec => []IInv
<1>1. IInv /\ [Next]_vars => IInv'
  <2> SUFFICES ASSUME IInv, [Next]_vars PROVE IInv'
    OBVIOUS
  <2>1. CASE main
    BY <2>1, WaitStep, AcceptStep, WriteStep, ReadStep, ReadEofStep, ReadErrorStep DEF main
  <2>2. CASE \E c \in Client : /\ \/ server # "exited" /\ Connect(c)
                                  \/ server = "exited" /\ Refused(c)
                                  \/ client_main(c) \/ client_closed(c)
                                  \/ Kill(c)
                               /\ UNCHANGED serverVars
    BY <2>2, ConnectStep, ClientStep
  <2>3. CASE UNCHANGED vars
    BY <2>3 DEF vars, clientVars, serverVars, IInv, TypeOK, ClientTypeOK, OneInFlight,
                Fresh, Queued, StillReady, Readable
  <2> QED BY <2>1, <2>2, <2>3 DEF Next
<1> QED BY <1>1, InitInv, PTL DEF Spec

\* Type correctness for any set of clients.
THEOREM TypeCorrect == Spec => []TypeOK
<1>1. IInv => TypeOK
  BY DEF IInv
<1> QED BY <1>1, Invariance, PTL

\* For any set of clients, a report of select, poll or epoll_wait is still
\* true when the server acts on it: accept and read do not block.
THEOREM NonBlocking == Spec => []NeverBlocks
<1>1. IInv => NeverBlocks
  BY MuxServerAssumption DEF IInv, TypeOK, StillReady, NeverBlocks
<1> QED BY <1>1, Invariance, PTL

\* For any set of clients, requests and answers keep step on every open
\* connection.
THEOREM InStep == Spec => []OneInFlight
<1>1. IInv => OneInFlight
  BY DEF IInv
<1> QED BY <1>1, Invariance, PTL

=============================================================================
