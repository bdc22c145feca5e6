---------------------------- MODULE WaylandSocket ----------------------------
(***************************************************************************)
(* The crate wayland-protocol (src/crates/wayland-protocol/src): the event *)
(* source Wayland, which owns the socket file and accepts clients, and one *)
(* event source ClientConnection for each of them.  The event loop that    *)
(* runs them is level-triggered; a handler goes on until the socket would  *)
(* block, while clients go on as well, and its error ends the loop.        *)
(*                                                                         *)
(* Servers are processes that use the same path one after the other.  The  *)
(* embedder puts a connection into the loop as soon as it is told of it,   *)
(* and takes it out some time after it was told of the end.                *)
(***************************************************************************)
EXTENDS Naturals, Sequences

CONSTANTS
  Client,
  Server,
  Nobody,   \* no server, no client
  MaxUnread \* what a socket holds that is not read yet, in units

\* Where a loop is when it is with no client.
Listening == "listening"
Polling == "polling"

ASSUME SocketAssumption ==
  /\ Nobody \notin Client \cup Server
  /\ {Listening, Polling} \cap Client = {}
  /\ MaxUnread \in Nat

VARIABLES
  file,     \* whom the socket file leads to
  phase,    \* what became of a server
  backlog,  \* clients its listener has not accepted
  next_client_id,
  busy,     \* where its loop is: in poll, in a listener, or with a client
  server,   \* the server that accepted a client
  id,       \* the client's ClientId, 0 before it has one
  registered,  \* clients whose connection is in a loop
  unread,   \* how much of what a client sent the embedder was not told of yet
  closed,   \* clients that have closed their end
  ended     \* those whose end the embedder was told of

loopVars == <<file, phase, next_client_id>>
streamVars == <<unread, closed, ended>>
vars == <<loopVars, backlog, busy, server, id, registered, streamVars>>

TypeOK ==
  /\ file \in Server \cup {Nobody}
  /\ phase \in [Server -> {"new", "running", "gone"}]
  /\ backlog \in [Server -> Seq(Client)]
  /\ next_client_id \in [Server -> Nat \ {0}]
  /\ busy \in [Server -> Client \cup {Listening, Polling}]
  /\ server \in [Client -> Server \cup {Nobody}]
  /\ id \in [Client -> Nat]
  /\ registered \subseteq Client
  /\ unread \in [Client -> 0 .. MaxUnread]
  /\ closed \subseteq Client
  /\ ended \subseteq Client

\* Wayland::new
FirstId == 1

Init ==
  /\ file = Nobody
  /\ phase = [s \in Server |-> "new"]
  /\ backlog = [s \in Server |-> <<>>]
  /\ next_client_id = [s \in Server |-> FirstId]
  /\ busy = [s \in Server |-> Polling]
  /\ server = [c \in Client |-> Nobody]
  /\ id = [c \in Client |-> 0]
  /\ registered = {}
  /\ unread = [c \in Client |-> 0]
  /\ closed = {}
  /\ ended = {}

-----------------------------------------------------------------------------
(* A server begins and ends *)

\* Mutant: a file that is there already stays, and with it whom it leads to.
BindBeside(s) ==
  /\ phase[s] = "new"
  /\ \A t \in Server : phase[t] # "running"
  /\ file' = IF file = Nobody THEN s ELSE file
  /\ phase' = [phase EXCEPT ![s] = "running"]
  /\ UNCHANGED <<next_client_id, backlog, busy, server, id, registered, streamVars>>

\* Wayland::bind removes the file, whoever made it, and makes its own.
Bind(s) ==
  /\ phase[s] = "new"
  /\ \A t \in Server : phase[t] # "running"
  /\ file' = s
  /\ phase' = [phase EXCEPT ![s] = "running"]
  /\ UNCHANGED <<next_client_id, backlog, busy, server, id, registered, streamVars>>

\* The loop and its sources are dropped: the file goes, the clients are cut off.
Dropped(s) ==
  /\ file' = Nobody
  /\ phase' = [phase EXCEPT ![s] = "gone"]
  /\ registered' = {c \in registered : server[c] # s}
  /\ backlog' = [backlog EXCEPT ![s] = <<>>]
  /\ busy' = [busy EXCEPT ![s] = Polling]

\* The embedder ends its loop between two dispatches.
Drop(s) ==
  /\ phase[s] = "running"
  /\ busy[s] = Polling
  /\ Dropped(s)
  /\ UNCHANGED <<next_client_id, server, id, streamVars>>

\* The process is killed: nobody removes the file.
Crash(s) ==
  /\ phase[s] = "running"
  /\ phase' = [phase EXCEPT ![s] = "gone"]
  /\ registered' = {c \in registered : server[c] # s}
  /\ backlog' = [backlog EXCEPT ![s] = <<>>]
  /\ busy' = [busy EXCEPT ![s] = Polling]
  /\ UNCHANGED <<file, next_client_id, server, id, streamVars>>

-----------------------------------------------------------------------------
(* Clients *)

Waiting(c) == \E s \in Server : \E i \in 1 .. Len(backlog[s]) : backlog[s][i] = c

Connected(c) == Waiting(c) \/ c \in registered

\* A client connects through the file, and no second time.
Connect(c) ==
  /\ file # Nobody
  /\ phase[file] = "running"
  /\ ~Waiting(c)
  /\ id[c] = 0
  /\ c \notin closed
  /\ backlog' = [backlog EXCEPT ![file] = Append(@, c)]
  /\ UNCHANGED <<loopVars, busy, server, id, registered, streamVars>>

\* It need not be accepted to send, and may go on for ever, also while it is read.
Send(c) ==
  /\ Connected(c)
  /\ c \notin closed
  /\ unread[c] < MaxUnread
  /\ unread' = [unread EXCEPT ![c] = @ + 1]
  /\ UNCHANGED <<loopVars, backlog, busy, server, id, registered, closed, ended>>

Close(c) ==
  /\ Connected(c)
  /\ closed' = closed \cup {c}
  /\ UNCHANGED <<loopVars, backlog, busy, server, id, registered, unread, ended>>

-----------------------------------------------------------------------------
(* The listener: Wayland::process_events and handle_new_clients *)

HandleNewClients(s) ==
  /\ phase[s] = "running"
  /\ busy[s] = Polling
  /\ backlog[s] # <<>>
  /\ busy' = [busy EXCEPT ![s] = Listening]
  /\ UNCHANGED <<loopVars, backlog, server, id, registered, streamVars>>

\* accept and ClientConnection::new succeed: ClientConnected.
Accept(s) ==
  /\ busy[s] = Listening
  /\ backlog[s] # <<>>
  /\ backlog' = [backlog EXCEPT ![s] = Tail(@)]
  /\ server' = [server EXCEPT ![Head(backlog[s])] = s]
  /\ registered' = registered \cup {Head(backlog[s])}
  /\ id' = [id EXCEPT ![Head(backlog[s])] = next_client_id[s]]
  /\ next_client_id' = [next_client_id EXCEPT ![s] = @ + 1]
  /\ UNCHANGED <<file, phase, busy, streamVars>>

\* One of them fails: the error leaves process_events and the loop.
AcceptFails(s) ==
  /\ busy[s] = Listening
  /\ backlog[s] # <<>>
  /\ Dropped(s)
  /\ next_client_id' \in {next_client_id, [next_client_id EXCEPT ![s] = @ + 1]}
  /\ UNCHANGED <<server, id, streamVars>>

\* WouldBlock
NoMoreClients(s) ==
  /\ busy[s] = Listening
  /\ backlog[s] = <<>>
  /\ busy' = [busy EXCEPT ![s] = Polling]
  /\ UNCHANGED <<loopVars, backlog, server, id, registered, streamVars>>

-----------------------------------------------------------------------------
(* A connection: ClientConnection::process_events and read_data *)

\* Mutant: only data makes a connection ready.
HasData(c) == unread[c] > 0

Readable(c) == unread[c] > 0 \/ c \in closed

ReadData(s, c) ==
  /\ phase[s] = "running"
  /\ busy[s] = Polling
  /\ c \in registered
  /\ server[c] = s
  /\ Readable(c)
  /\ busy' = [busy EXCEPT ![s] = c]
  /\ UNCHANGED <<loopVars, backlog, server, id, registered, streamVars>>

\* read: a piece of what was sent, no longer than the buffer: MessageReceived.
MessageReceived(s, c) ==
  /\ busy[s] = c
  /\ \E n \in 0 .. unread[c] - 1 : unread' = [unread EXCEPT ![c] = n]
  /\ UNCHANGED <<loopVars, backlog, busy, server, id, registered, closed, ended>>

\* Mutant: nothing to read counts as the end.
DisconnectedWhenEmpty(s, c) ==
  /\ busy[s] = c
  /\ unread[c] = 0
  /\ ended' = ended \cup {c}
  /\ busy' = [busy EXCEPT ![s] = Polling]
  /\ UNCHANGED <<loopVars, backlog, server, id, registered, unread, closed>>

\* Ok(0): Disconnected, every time the loop comes by until the connection is out.
Disconnected(s, c) ==
  /\ busy[s] = c
  /\ unread[c] = 0
  /\ c \in closed
  /\ ended' = ended \cup {c}
  /\ busy' = [busy EXCEPT ![s] = Polling]
  /\ UNCHANGED <<loopVars, backlog, server, id, registered, unread, closed>>

\* WouldBlock
NoMoreData(s, c) ==
  /\ busy[s] = c
  /\ unread[c] = 0
  /\ c \notin closed
  /\ busy' = [busy EXCEPT ![s] = Polling]
  /\ UNCHANGED <<loopVars, backlog, server, id, registered, streamVars>>

\* The client has reset the connection: the error ends the loop, for everyone.
ReadFails(s, c) ==
  /\ busy[s] = c
  /\ c \in closed
  /\ Dropped(s)
  /\ UNCHANGED <<next_client_id, server, id, streamVars>>

\* The embedder takes the connection out of its loop.
Forget(c) ==
  /\ c \in ended
  /\ c \in registered
  /\ busy[server[c]] # c
  /\ registered' = registered \ {c}
  /\ UNCHANGED <<loopVars, backlog, busy, server, id, streamVars>>

-----------------------------------------------------------------------------
Loop(s) ==
  \/ HandleNewClients(s)
  \/ Accept(s)
  \/ NoMoreClients(s)
  \/ \E c \in Client :
       \/ ReadData(s, c)
       \/ MessageReceived(s, c)
       \/ Disconnected(s, c)
       \/ NoMoreData(s, c)

Ends(s) ==
  \/ Drop(s)
  \/ Crash(s)
  \/ AcceptFails(s)
  \/ \E c \in Client : ReadFails(s, c)

Next ==
  \/ \E s \in Server : Bind(s) \/ Loop(s) \/ Ends(s)
  \/ \E c \in Client : Connect(c) \/ Send(c) \/ Close(c) \/ Forget(c)

Spec == Init /\ [][Next]_vars

\* The loop runs; a dispatch serves every source that is ready, so a connection
\* that reports its end again and again starves nobody.  Nothing is assumed of
\* clients and of the embedder: one that keeps sending may hold the loop for ever.
Fairness ==
  \A s \in Server :
    /\ WF_vars(Loop(s))
    /\ SF_vars(HandleNewClients(s))
    /\ \A c \in Client : SF_vars(ReadData(s, c))

FairSpec == Spec /\ Fairness

-----------------------------------------------------------------------------
(* Properties *)

\* No two clients a server accepted ever had the same identifier, whoever has left
\* and whatever failed between them (next_client_id counts up).
IdsAreUnique ==
  \A c, d \in Client, s \in Server :
    c # d /\ server[c] = s /\ server[d] = s => id[c] # id[d]

\* As long as servers follow each other, a running one is found through the file,
\* although the one before may have left its own behind.
RunningIsReachable == \A s \in Server : phase[s] = "running" => file = s

\* The embedder sees each client as ClientStreams promises.
Streams == INSTANCE ClientStreams

StreamsArePromised == Streams!Spec

\* read_data goes on until the socket would block, so a client that keeps sending
\* holds the loop.  Nobody is held for ever when each client, from some time on, stops
\* to send while it is read.
LoopIsReleased ==
  <>[][\A c \in Client : Send(c) => \A s \in Server : busy[s] # c]_vars

\* Then whoever connects and closes is heard out and its end is told, before or after
\* it was accepted, while the server runs, however often others send and end between.
EveryEndIsTold ==
  LoopIsReleased =>
    \A c \in Client :
      Connected(c) /\ c \in closed
        ~> c \in ended \/ ~Connected(c)
=============================================================================
