------------------------- MODULE WaylandSocketProofs -------------------------
(* Proofs about WaylandSocket.tla for any clients, servers and bound.        *)
EXTENDS WaylandSocket, SequenceTheorems, TLAPS

\* A loop is elsewhere than in poll only while its server runs.
OnlyRunningWork == \A s \in Server : busy[s] # Polling => phase[s] = "running"

\* The identifiers a server gave are behind its counter.
IdsAreBehind ==
  \A c \in Client, s \in Server : server[c] = s => id[c] < next_client_id[s]

\* Whose end was told has closed, and the embedder has everything it sent.
EndedIsOver == \A c \in ended : c \in closed /\ unread[c] = 0

IInv ==
  /\ TypeOK
  /\ OnlyRunningWork
  /\ RunningIsReachable
  /\ IdsAreBehind
  /\ IdsAreUnique
  /\ EndedIsOver

LEMMA InitIInv == Init => IInv
  BY SocketAssumption
  DEF Init, IInv, TypeOK, OnlyRunningWork, RunningIsReachable, IdsAreBehind, IdsAreUnique,
      EndedIsOver, FirstId, Polling

-----------------------------------------------------------------------------
(* Servers begin and end *)

LEMMA BindIInv == ASSUME IInv, NEW s \in Server, Bind(s) PROVE IInv'
<1> USE DEF IInv, Bind, streamVars
<1>1. TypeOK'
  BY DEF TypeOK
<1>2. OnlyRunningWork' /\ RunningIsReachable'
  BY DEF TypeOK, OnlyRunningWork, RunningIsReachable
<1>3. IdsAreBehind' /\ IdsAreUnique' /\ EndedIsOver'
  BY DEF IdsAreBehind, IdsAreUnique, EndedIsOver
<1> QED
  BY <1>1, <1>2, <1>3

\* What an end leaves: the loop is out of its handlers, the counters do not go back.
LEMMA EndIInv ==
  ASSUME IInv, NEW s \in Server, phase[s] = "running",
         file' \in {Nobody, file},
         phase' = [phase EXCEPT ![s] = "gone"],
         registered' = {c \in registered : server[c] # s},
         backlog' = [backlog EXCEPT ![s] = <<>>],
         busy' = [busy EXCEPT ![s] = Polling],
         next_client_id' \in {next_client_id, [next_client_id EXCEPT ![s] = @ + 1]},
         UNCHANGED <<server, id, streamVars>>
  PROVE  IInv'
<1> USE DEF IInv, streamVars
<1>1. TypeOK'
  BY DEF TypeOK
<1>2. OnlyRunningWork' /\ RunningIsReachable'
  BY DEF TypeOK, OnlyRunningWork, RunningIsReachable
<1>3. IdsAreBehind'
  <2>1. ASSUME NEW t \in Server
        PROVE  /\ next_client_id[t] \in Nat /\ next_client_id'[t] \in Nat
               /\ next_client_id[t] <= next_client_id'[t]
    <3>1. CASE next_client_id' = next_client_id
      BY <3>1 DEF TypeOK
    <3>2. CASE next_client_id' = [next_client_id EXCEPT ![s] = @ + 1]
      BY <3>2 DEF TypeOK
    <3> QED
      BY <3>1, <3>2
  <2>2. \A c \in Client : id[c] \in Nat
    BY DEF TypeOK
  <2> QED
    BY <2>1, <2>2 DEF IdsAreBehind
<1>4. IdsAreUnique' /\ EndedIsOver'
  BY DEF IdsAreUnique, EndedIsOver
<1> QED
  BY <1>1, <1>2, <1>3, <1>4

LEMMA EndsIInv == ASSUME IInv, NEW s \in Server, Ends(s) PROVE IInv'
<1>1. CASE Drop(s)
  BY <1>1, EndIInv DEF Drop, Dropped
<1>2. CASE Crash(s)
  BY <1>2, EndIInv DEF Crash
<1>3. CASE AcceptFails(s)
  <2>1. phase[s] = "running"
    BY <1>3 DEF IInv, AcceptFails, OnlyRunningWork, Listening, Polling
  <2> QED
    BY <1>3, <2>1, EndIInv DEF AcceptFails, Dropped
<1>4. ASSUME NEW c \in Client, ReadFails(s, c) PROVE IInv'
  <2>1. phase[s] = "running"
    BY <1>4, SocketAssumption DEF IInv, ReadFails, OnlyRunningWork
  <2> QED
    BY <1>4, <2>1, EndIInv DEF ReadFails, Dropped
<1> QED
  BY <1>1, <1>2, <1>3, <1>4 DEF Ends

-----------------------------------------------------------------------------
(* The loop *)

LEMMA AcceptIInv == ASSUME IInv, NEW s \in Server, Accept(s) PROVE IInv'
<1> DEFINE h == Head(backlog[s])
<1> USE DEF IInv, Accept, streamVars
<1>1. h \in Client /\ Tail(backlog[s]) \in Seq(Client)
  BY HeadTailProperties DEF TypeOK
<1>2. TypeOK'
  BY <1>1 DEF TypeOK
<1>3. OnlyRunningWork' /\ RunningIsReachable'
  BY DEF OnlyRunningWork, RunningIsReachable
<1>4. server' = [server EXCEPT ![h] = s] /\ id' = [id EXCEPT ![h] = next_client_id[s]]
  OBVIOUS
<1> HIDE DEF h, Accept
<1>5. next_client_id' = [next_client_id EXCEPT ![s] = @ + 1]
  BY DEF Accept
<1>6. ASSUME NEW c \in Client, NEW t \in Server, server'[c] = t
      PROVE  /\ id'[c] \in Nat
             /\ id'[c] < next_client_id'[t]
             /\ c # h /\ t = s => id'[c] < next_client_id[s]
  <2>1. next_client_id[t] \in Nat /\ next_client_id[s] \in Nat /\ id[c] \in Nat
    BY DEF TypeOK
  <2>2. CASE c = h
    <3>1. server'[c] = s /\ id'[c] = next_client_id[s]
      BY <1>4, <2>2 DEF TypeOK
    <3>2. next_client_id'[s] = next_client_id[s] + 1
      BY <1>5 DEF TypeOK
    <3> QED
      BY <1>6, <2>1, <2>2, <3>1, <3>2
  <2>3. CASE c # h
    <3>1. server[c] = t /\ id'[c] = id[c]
      BY <1>4, <1>6, <2>3 DEF TypeOK
    <3>2. id[c] < next_client_id[t]
      BY <3>1 DEF IdsAreBehind
    <3>3. next_client_id'[t] \in {next_client_id[t], next_client_id[t] + 1}
      BY <1>5 DEF TypeOK
    <3> QED
      BY <2>1, <3>1, <3>2, <3>3
  <2> QED
    BY <2>2, <2>3
<1>7. IdsAreBehind'
  BY <1>6 DEF IdsAreBehind
<1>8. IdsAreUnique'
  <2> SUFFICES ASSUME NEW c \in Client, NEW d \in Client, NEW t \in Server,
                      c # d, server'[c] = t, server'[d] = t
               PROVE  id'[c] # id'[d]
    BY DEF IdsAreUnique
  <2>1. CASE c # h /\ d # h
    BY <1>4, <2>1 DEF TypeOK, IdsAreUnique
  <2>2. server'[h] = s /\ id'[h] = next_client_id[s] /\ next_client_id[s] \in Nat
    BY <1>1, <1>4 DEF TypeOK
  <2>3. ASSUME NEW e \in Client, e # h, server'[e] = s PROVE id'[e] # id'[h]
    <3>1. id'[e] \in Nat /\ id'[e] < next_client_id[s]
      BY <1>6, <2>3
    <3> QED
      BY <2>2, <3>1
  <2> QED
    BY <2>1, <2>2, <2>3
<1>9. EndedIsOver'
  BY DEF EndedIsOver, Accept
<1> QED
  BY <1>2, <1>3, <1>7, <1>8, <1>9

LEMMA LoopIInv == ASSUME IInv, NEW s \in Server, Loop(s) PROVE IInv'
<1> USE DEF IInv, streamVars, loopVars
<1>1. CASE Accept(s)
  BY <1>1, AcceptIInv
<1>2. CASE HandleNewClients(s)
  <2>1. TypeOK'
    BY <1>2 DEF TypeOK, HandleNewClients
  <2>2. OnlyRunningWork' /\ RunningIsReachable'
    BY <1>2 DEF TypeOK, HandleNewClients, OnlyRunningWork, RunningIsReachable
  <2> QED
    BY <1>2, <2>1, <2>2 DEF HandleNewClients, IdsAreBehind, IdsAreUnique, EndedIsOver
<1>3. CASE NoMoreClients(s)
  <2>1. TypeOK'
    BY <1>3 DEF TypeOK, NoMoreClients
  <2>2. OnlyRunningWork' /\ RunningIsReachable'
    BY <1>3 DEF TypeOK, NoMoreClients, OnlyRunningWork, RunningIsReachable
  <2> QED
    BY <1>3, <2>1, <2>2 DEF NoMoreClients, IdsAreBehind, IdsAreUnique, EndedIsOver
<1>4. ASSUME NEW c \in Client, ReadData(s, c) PROVE IInv'
  <2>1. TypeOK'
    BY <1>4 DEF TypeOK, ReadData
  <2>2. OnlyRunningWork' /\ RunningIsReachable'
    BY <1>4 DEF TypeOK, ReadData, OnlyRunningWork, RunningIsReachable
  <2> QED
    BY <1>4, <2>1, <2>2 DEF ReadData, IdsAreBehind, IdsAreUnique, EndedIsOver
<1>5. ASSUME NEW c \in Client, MessageReceived(s, c) PROVE IInv'
  <2>1. TypeOK'
    BY <1>5, SocketAssumption DEF TypeOK, MessageReceived
  <2>2. EndedIsOver'
    BY <1>5 DEF TypeOK, MessageReceived, EndedIsOver
  <2> QED
    BY <1>5, <2>1, <2>2
    DEF MessageReceived, OnlyRunningWork, RunningIsReachable, IdsAreBehind, IdsAreUnique
<1>6. ASSUME NEW c \in Client, Disconnected(s, c) \/ NoMoreData(s, c) PROVE IInv'
  <2>1. TypeOK'
    BY <1>6 DEF TypeOK, Disconnected, NoMoreData
  <2>2. OnlyRunningWork' /\ RunningIsReachable'
    BY <1>6 DEF TypeOK, Disconnected, NoMoreData, OnlyRunningWork, RunningIsReachable
  <2>3. EndedIsOver'
    BY <1>6 DEF Disconnected, NoMoreData, EndedIsOver
  <2> QED
    BY <1>6, <2>1, <2>2, <2>3 DEF Disconnected, NoMoreData, IdsAreBehind, IdsAreUnique
<1> QED
  BY <1>1, <1>2, <1>3, <1>4, <1>5, <1>6 DEF Loop

-----------------------------------------------------------------------------
(* The clients and the embedder *)

LEMMA ClientIInv ==
  ASSUME IInv, NEW c \in Client, Connect(c) \/ Send(c) \/ Close(c) \/ Forget(c)
  PROVE  IInv'
<1> USE DEF IInv, streamVars, loopVars
<1>1. CASE Connect(c)
  <2>1. TypeOK'
    <3>1. file \in Server
      BY <1>1 DEF TypeOK, Connect
    <3>2. Append(backlog[file], c) \in Seq(Client)
      BY <3>1, AppendProperties DEF TypeOK
    <3> QED
      BY <1>1, <3>1, <3>2 DEF TypeOK, Connect
  <2> QED
    BY <1>1, <2>1
    DEF Connect, OnlyRunningWork, RunningIsReachable, IdsAreBehind, IdsAreUnique, EndedIsOver
<1>2. CASE Send(c)
  <2>1. TypeOK'
    BY <1>2, SocketAssumption DEF TypeOK, Send
  <2>2. EndedIsOver'
    BY <1>2 DEF TypeOK, Send, EndedIsOver
  <2> QED
    BY <1>2, <2>1, <2>2
    DEF Send, OnlyRunningWork, RunningIsReachable, IdsAreBehind, IdsAreUnique
<1>3. CASE Close(c)
  BY <1>3
  DEF Close, TypeOK, OnlyRunningWork, RunningIsReachable, IdsAreBehind, IdsAreUnique, EndedIsOver
<1>4. CASE Forget(c)
  BY <1>4
  DEF Forget, TypeOK, OnlyRunningWork, RunningIsReachable, IdsAreBehind, IdsAreUnique, EndedIsOver
<1> QED
  BY <1>1, <1>2, <1>3, <1>4

LEMMA NextIInv == IInv /\ [Next]_vars => IInv'
<1> SUFFICES ASSUME IInv, [Next]_vars PROVE IInv'
  OBVIOUS
<1>1. CASE UNCHANGED vars
  BY <1>1
  DEF vars, loopVars, streamVars, IInv, TypeOK, OnlyRunningWork, RunningIsReachable, IdsAreBehind,
      IdsAreUnique, EndedIsOver
<1>2. CASE Next
  BY <1>2, BindIInv, LoopIInv, EndsIInv, ClientIInv DEF Next
<1> QED
  BY <1>1, <1>2

\* The inductive invariant: types, and what binds files, counters and ends to the loops.
THEOREM Invariance == Spec => []IInv
  BY InitIInv, NextIInv, PTL DEF Spec

-----------------------------------------------------------------------------
(* What is checked on small instances holds for every one *)

\* Every variable keeps its type, whatever clients send and servers do.
THEOREM TypeCorrect == Spec => []TypeOK
  BY Invariance, PTL DEF IInv

\* No two clients of a server ever share an identifier.
THEOREM UniqueIds == Spec => []IdsAreUnique
  BY Invariance, PTL DEF IInv

\* A server that runs is the one the socket file leads to.
THEOREM Reachable == Spec => []RunningIsReachable
  BY Invariance, PTL DEF IInv

-----------------------------------------------------------------------------
\* A step of a server or a client is one of the abstract streams, or leaves them alone.
LEMMA StepImplements == IInv /\ [Next]_vars => [Streams!Next]_(Streams!vars)
<1> SUFFICES ASSUME IInv, [Next]_vars PROVE [Streams!Next]_(Streams!vars)
  OBVIOUS
<1> USE DEF streamVars, loopVars
<1>1. ASSUME NEW c \in Client, Send(c) PROVE Streams!Send(c)
  BY <1>1 DEF Send, Streams!Send
<1>2. ASSUME NEW c \in Client, Close(c) PROVE Streams!Close(c)
  BY <1>2 DEF Close, Streams!Close
<1>3. ASSUME NEW s \in Server, NEW c \in Client, MessageReceived(s, c) PROVE Streams!Tell(c)
  <2>1. c \notin ended
    BY <1>3 DEF IInv, TypeOK, EndedIsOver, MessageReceived
  <2> QED
    BY <1>3, <2>1 DEF MessageReceived, Streams!Tell
<1>4. ASSUME NEW s \in Server, NEW c \in Client, Disconnected(s, c) PROVE Streams!End(c)
  BY <1>4 DEF Disconnected, Streams!End
<1>5. ASSUME NEW s \in Server,
             Bind(s) \/ Ends(s) \/ HandleNewClients(s) \/ Accept(s) \/ NoMoreClients(s)
      PROVE  UNCHANGED Streams!vars
  BY <1>5
  DEF Bind, Ends, Drop, Crash, AcceptFails, ReadFails, HandleNewClients, Accept, NoMoreClients,
      Streams!vars
<1>6. ASSUME NEW c \in Client,
             Connect(c) \/ Forget(c) \/ \E s \in Server : ReadData(s, c) \/ NoMoreData(s, c)
      PROVE  UNCHANGED Streams!vars
  BY <1>6 DEF Connect, Forget, ReadData, NoMoreData, Streams!vars
<1>7. CASE UNCHANGED vars
  BY <1>7 DEF vars, Streams!vars
<1>8. ASSUME NEW s \in Server, Bind(s) \/ Loop(s) \/ Ends(s)
      PROVE  [Streams!Next]_(Streams!vars)
  BY <1>3, <1>4, <1>5, <1>6, <1>8 DEF Loop, Streams!Next
<1>9. ASSUME NEW c \in Client, Connect(c) \/ Send(c) \/ Close(c) \/ Forget(c)
      PROVE  [Streams!Next]_(Streams!vars)
  BY <1>1, <1>2, <1>6, <1>9 DEF Streams!Next
<1> QED
  BY <1>7, <1>8, <1>9 DEF Next

\* Every client's bytes and end reach the embedder in order, the end once all is told.
THEOREM StreamsImplemented == Spec => StreamsArePromised
<1>1. Init => Streams!Init
  BY DEF Init, Streams!Init
<1> QED
  BY <1>1, StepImplements, Invariance, PTL DEF Spec, StreamsArePromised, Streams!Spec
=============================================================================
