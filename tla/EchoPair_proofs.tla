-------------------------- MODULE EchoPair_proofs ---------------------------
(***************************************************************************)
(* Proofs about EchoPair, for any set of clients.                          *)
(***************************************************************************)
EXTENDS EchoPair, TLAPS

\* c waits to be accepted
Queued(c) == \E k \in 1..Len(backlog) : backlog[k] = c

\* Nothing is known of a client before it connects.
Fresh == \A c \in Client : client[c] = "connect" =>
             /\ link[c] = "none" /\ inbox[c] = 0 /\ outbox[c] = 0
             /\ cfd # c /\ ~ Queued(c)

\* An answer waits only for a client that will read it, and none is left when
\* the connection is dead.
Expected == \A c \in Client :
                /\ outbox[c] > 0 => client[c] \in {"sleep", "read"}
                /\ link[c] = "dead" => outbox[c] = 0 /\ client[c] # "write"

IInv == TypeOK /\ OneInFlight /\ Fresh /\ Expected

LEMMA InitInv == Init => IInv
<1> SUFFICES ASSUME Init PROVE IInv
  OBVIOUS
<1>1. backlog = <<>> /\ \A c \in Client : ~ Queued(c)
  BY DEF Init, ClientInit, Queued
<1>2. TypeOK
  BY <1>1 DEF Init, ClientInit, TypeOK, ClientTypeOK
<1>3. OneInFlight /\ Expected
  BY DEF Init, ClientInit, OneInFlight, Expected
<1>4. Fresh
  BY <1>1, EchoPairAssumption DEF Init, ClientInit, Fresh
<1> QED BY <1>2, <1>3, <1>4 DEF IInv

\* accept takes a client that is in the queue and leaves the others there.
LEMMA AcceptStep == IInv /\ Accept => IInv'
<1> SUFFICES ASSUME IInv, Accept PROVE IInv'
  OBVIOUS
<1> USE DEF IInv
<1>1. backlog \in Seq(Client) /\ backlog # <<>> /\ backlog' = Tail(backlog)
      /\ cfd' = Head(backlog)
  BY DEF Accept, TakeConnection, TypeOK, ClientTypeOK
<1>2. Head(backlog) \in Client /\ Tail(backlog) \in Seq(Client) /\ Queued(Head(backlog))
  BY <1>1 DEF Queued
<1>3. \A c \in Client : Queued(c)' => Queued(c)
  BY <1>1 DEF Queued
<1>4. TypeOK'
  BY <1>1, <1>2 DEF Accept, Goto, TakeConnection, TypeOK, ClientTypeOK
<1>5. OneInFlight'
  BY DEF Accept, Goto, TakeConnection, OneInFlight
<1>6. Fresh'
  BY <1>1, <1>2, <1>3 DEF Accept, TakeConnection, Fresh
<1>7. Expected'
  BY DEF Accept, TakeConnection, Expected
<1> QED BY <1>4, <1>5, <1>6, <1>7

LEMMA ReadStep == IInv /\ Read => IInv'
<1> SUFFICES ASSUME IInv, Read PROVE IInv'
  OBVIOUS
<1> USE DEF IInv
<1>1. cfd \in Client /\ inbox[cfd] = 1
  BY DEF Read, Goto, Receive, TypeOK, ClientTypeOK
<1>2. TypeOK'
  BY <1>1 DEF Read, Goto, Receive, TypeOK, ClientTypeOK
<1>3. OneInFlight'
  BY <1>1 DEF Read, Goto, Receive, OneInFlight, TypeOK, ClientTypeOK
<1>4. Fresh' /\ Expected'
  BY <1>1 DEF Read, Receive, Fresh, Expected, Queued, TypeOK, ClientTypeOK
<1> QED BY <1>2, <1>3, <1>4

LEMMA WriteStep == IInv /\ Write => IInv'
<1> SUFFICES ASSUME IInv, Write PROVE IInv'
  OBVIOUS
<1> USE DEF IInv
<1>1. cfd \in Client /\ server = "write" /\ client[cfd] # "connect"
  BY DEF Write, Goto, TypeOK, Fresh
<1>2. link[cfd] = "open" => outbox[cfd] = 0 /\ client[cfd] \in {"sleep", "read"}
  BY <1>1 DEF OneInFlight, TypeOK, ClientTypeOK
<1>3. TypeOK'
  BY <1>1, <1>2 DEF Write, Goto, Answer, TypeOK, ClientTypeOK
<1>4. OneInFlight'
  BY <1>1, <1>2 DEF Write, Goto, Answer, OneInFlight, TypeOK, ClientTypeOK
<1>5. Fresh'
  BY <1>1 DEF Write, Answer, Fresh, Queued, TypeOK, ClientTypeOK
<1>6. Expected'
  BY <1>1, <1>2 DEF Write, Answer, Expected, TypeOK, ClientTypeOK
<1> QED BY <1>3, <1>4, <1>5, <1>6

\* The server returns or is stopped.
LEMMA CloseStep ==
    ASSUME IInv, CloseAll, server' = "exited", UNCHANGED cfd
    PROVE  IInv'
<1> USE DEF IInv
<1>1. backlog' = <<>> /\ \A c \in Client : ~ Queued(c)'
  BY DEF CloseAll, Queued
<1>2. \A c \in Client : /\ link'[c] # "open"
                        /\ link[c] # "open" => link'[c] = link[c]
                        /\ link[c] = "open" => link'[c] \in {"shut", "reset"}
  BY DEF CloseAll
<1>3. link' \in [Client -> {"none", "open", "fin", "rst", "shut", "reset", "dead"}]
  BY DEF CloseAll, TypeOK, ClientTypeOK
<1>4. TypeOK'
  BY <1>1, <1>3 DEF CloseAll, TypeOK, ClientTypeOK
<1>5. OneInFlight'
  BY <1>2 DEF OneInFlight
<1>6. Fresh'
  BY <1>1, <1>2 DEF CloseAll, Fresh
<1>7. Expected'
  BY <1>2 DEF CloseAll, Expected
<1> QED BY <1>4, <1>5, <1>6, <1>7

LEMMA ConnectStep ==
    ASSUME IInv, NEW c \in Client, Connect(c), UNCHANGED <<server, cfd>>
    PROVE  IInv'
<1> USE DEF IInv
<1>1. /\ backlog \in Seq(Client) /\ backlog' = Append(backlog, c)
      /\ client' = [client EXCEPT ![c] = "write"] /\ client[c] = "connect"
      /\ link' = [link EXCEPT ![c] = "open"] /\ inbox' = inbox /\ outbox' = outbox
  BY DEF Connect, Step, TypeOK, ClientTypeOK
<1>2. \A d \in Client : d # c /\ Queued(d)' => Queued(d)
  BY <1>1 DEF Queued
<1>3. backlog' \in Seq(Client)
  BY <1>1
<1>4. TypeOK'
  BY <1>1, <1>3 DEF TypeOK, ClientTypeOK
<1>5. OneInFlight'
  BY <1>1 DEF OneInFlight, Fresh, TypeOK, ClientTypeOK
<1>6. Fresh'
  BY <1>1, <1>2 DEF Fresh, TypeOK, ClientTypeOK
<1>7. Expected'
  BY <1>1 DEF Expected, Fresh, TypeOK, ClientTypeOK
<1> QED BY <1>4, <1>5, <1>6, <1>7

\* The steps of a client that leave the queue of the server alone.
LEMMA ClientStep ==
    ASSUME IInv, NEW c \in Client, Refused(c) \/ pair_client(c) \/ Kill(c),
           UNCHANGED <<server, cfd>>
    PROVE  IInv'
<1> USE DEF IInv, Step
<1>1. backlog' = backlog /\ \A d \in Client : Queued(d)' <=> Queued(d)
  BY DEF Queued, Refused, pair_client, Kill, Send, SendToClosed, Pause, Get, GetClosed
<1>2. CASE Refused(c)
  <2>1. TypeOK' /\ Expected'
    BY <1>2 DEF Refused, TypeOK, ClientTypeOK, Expected, Fresh
  <2>2. OneInFlight'
    BY <1>2 DEF Refused, OneInFlight, TypeOK, ClientTypeOK, Fresh
  <2>3. Fresh'
    BY <1>1, <1>2 DEF Refused, Fresh, TypeOK, ClientTypeOK
  <2> QED BY <2>1, <2>2, <2>3
<1>3. CASE Send(c)
  <2>1. inbox[c] = 0 /\ outbox[c] = 0
    BY <1>3 DEF Send, OneInFlight, TypeOK, ClientTypeOK
  <2>2. TypeOK' /\ Expected'
    BY <1>3, <2>1 DEF Send, TypeOK, ClientTypeOK, Expected
  <2>3. OneInFlight'
    BY <1>3, <2>1 DEF Send, OneInFlight, TypeOK, ClientTypeOK
  <2>4. Fresh'
    BY <1>1, <1>3 DEF Send, Fresh, TypeOK, ClientTypeOK
  <2> QED BY <2>2, <2>3, <2>4
<1>4. CASE SendToClosed(c)
  <2>1. outbox[c] = 0
    BY <1>4 DEF SendToClosed, Expected, TypeOK, ClientTypeOK
  <2>2. TypeOK'
    BY <1>4 DEF SendToClosed, TypeOK, ClientTypeOK
  <2>3. Expected'
    BY <1>4, <2>1 DEF SendToClosed, Expected, TypeOK, ClientTypeOK
  <2>4. OneInFlight'
    BY <1>4 DEF SendToClosed, OneInFlight, TypeOK, ClientTypeOK
  <2>5. Fresh'
    BY <1>1, <1>4 DEF SendToClosed, Fresh, TypeOK, ClientTypeOK
  <2> QED BY <2>2, <2>3, <2>4, <2>5
<1>5. CASE Pause(c)
  <2>1. TypeOK' /\ Expected'
    BY <1>5 DEF Pause, TypeOK, ClientTypeOK, Expected
  <2>2. OneInFlight'
    BY <1>5 DEF Pause, OneInFlight, TypeOK, ClientTypeOK
  <2>3. Fresh'
    BY <1>1, <1>5 DEF Pause, Fresh, TypeOK, ClientTypeOK
  <2> QED BY <2>1, <2>2, <2>3
<1>6. CASE Get(c)
  <2>1. outbox[c] = 1 /\ link[c] # "dead"
    BY <1>6 DEF Get, Expected, TypeOK, ClientTypeOK
  <2>2. TypeOK' /\ Expected'
    BY <1>6, <2>1 DEF Get, TypeOK, ClientTypeOK, Expected
  <2>3. OneInFlight'
    BY <1>6, <2>1 DEF Get, OneInFlight, TypeOK, ClientTypeOK
  <2>4. Fresh'
    BY <1>1, <1>6 DEF Get, Fresh, TypeOK, ClientTypeOK
  <2> QED BY <2>2, <2>3, <2>4
<1>7. CASE GetClosed(c)
  <2>1. TypeOK' /\ Expected'
    BY <1>7 DEF GetClosed, TypeOK, ClientTypeOK, Expected
  <2>2. OneInFlight'
    BY <1>7 DEF GetClosed, Closed, OneInFlight, TypeOK, ClientTypeOK
  <2>3. Fresh'
    BY <1>1, <1>7 DEF GetClosed, Fresh, TypeOK, ClientTypeOK
  <2> QED BY <2>1, <2>2, <2>3
<1>8. CASE Kill(c)
  <2>1. TypeOK' /\ Expected'
    BY <1>8 DEF Kill, TypeOK, ClientTypeOK, Expected
  <2>2. OneInFlight'
    BY <1>8 DEF Kill, OneInFlight, TypeOK, ClientTypeOK
  <2>3. Fresh'
    BY <1>1, <1>8 DEF Kill, Fresh, TypeOK, ClientTypeOK
  <2> QED BY <2>1, <2>2, <2>3
<1> QED BY <1>2, <1>3, <1>4, <1>5, <1>6, <1>7, <1>8 DEF pair_client

\* The inductive invariant holds in every behaviour.
THEOREM Invariance == Spec => []IInv
<1>1. IInv /\ [Next]_vars => IInv'
  <2> SUFFICES ASSUME IInv, [Next]_vars PROVE IInv'
    OBVIOUS
  <2>1. CASE server_main \/ Stop
    BY <2>1, AcceptStep, ReadStep, WriteStep, CloseStep
       DEF server_main, Finish, Goto, Stop
  <2>2. CASE \E c \in Client : /\ \/ server # "exited" /\ Connect(c)
                                  \/ server = "exited" /\ Refused(c)
                                  \/ pair_client(c)
                                  \/ Kill(c)
                               /\ UNCHANGED <<server, cfd>>
    BY <2>2, ConnectStep, ClientStep
  <2>3. CASE UNCHANGED vars
    BY <2>3 DEF vars, clientVars, IInv, TypeOK, ClientTypeOK, OneInFlight, Fresh,
                Queued, Expected
  <2> QED BY <2>1, <2>2, <2>3 DEF Next
<1> QED BY <1>1, InitInv, PTL DEF Spec

\* Type correctness for any set of clients.
THEOREM TypeCorrect == Spec => []TypeOK
<1>1. IInv => TypeOK
  BY DEF IInv
<1> QED BY <1>1, Invariance, PTL

\* For any set of clients, requests and answers keep step on every open
\* connection.
THEOREM InStep == Spec => []OneInFlight
<1>1. IInv => OneInFlight
  BY DEF IInv
<1> QED BY <1>1, Invariance, PTL

\* For any set of clients, none writes a second time to a connection that the
\* server has closed.
THEOREM SigpipeFree == Spec => []NoSigpipe
<1>1. IInv => NoSigpipe
  BY DEF IInv, Expected, NoSigpipe
<1> QED BY <1>1, Invariance, PTL

=============================================================================
