---------------------------- MODULE DisplaySocket ----------------------------
(***************************************************************************)
(* The display thread of this build (scape-display/src/lib.rs and          *)
(* wayland/mod.rs): one event loop serves the channel of DisplayMessage    *)
(* and a Unix socket.  The socket's callback accepts a client, reads from  *)
(* it once and drops it; both calls block.                                 *)
(***************************************************************************)
EXTENDS Naturals, Sequences, SequencesExt

CONSTANTS
  Client,
  Nobody   \* no client

VARIABLES
  bound,           \* start_display succeeded; nobody looks whether it did
  at,              \* where the thread is: see Place
  due,             \* the sources that this dispatch has not served yet
  reading,         \* the client it reads from
  backlog,         \* clients that wait at the socket
  spoken,          \* clients that have sent something or have closed their end
  next_client_id,  \* of WaylandServer,
  clients,         \* and its clients: nobody removes one
  messages,        \* the channel holds messages other than Shutdown
  shutdown,        \* it holds Shutdown
  shutting_down

clientVars == <<backlog, spoken>>
channelVars == <<messages, shutdown, shutting_down>>
vars == <<bound, at, due, reading, clientVars, next_client_id, clients, channelVars>>

Place == {"poll", "dispatch", "read", "stopped"}

Init ==
  /\ bound \in BOOLEAN
  /\ at = "poll"
  /\ due = {}
  /\ reading = Nobody
  /\ backlog = <<>>
  /\ spoken = {}
  /\ next_client_id = 1
  /\ clients = {}
  /\ messages = FALSE
  /\ shutdown = FALSE
  /\ shutting_down = FALSE

-----------------------------------------------------------------------------
(* Clients and the other threads *)

Connect(c) ==
  /\ bound
  /\ c \notin ToSet(backlog) \cup spoken \cup {reading}
  /\ backlog' = Append(backlog, c)
  /\ UNCHANGED <<bound, at, due, reading, spoken, next_client_id, clients, channelVars>>

Speak(c) ==
  /\ c \in ToSet(backlog) \cup {reading}
  /\ spoken' = spoken \cup {c}
  /\ UNCHANGED <<bound, at, due, reading, backlog, next_client_id, clients, channelVars>>

SendMessage ==
  /\ at # "stopped"
  /\ messages' = TRUE
  /\ UNCHANGED <<bound, at, due, reading, clientVars, next_client_id, clients, shutdown, shutting_down>>

SendShutdown ==
  /\ at # "stopped"
  /\ shutdown' = TRUE
  /\ UNCHANGED <<bound, at, due, reading, clientVars, next_client_id, clients, messages, shutting_down>>

-----------------------------------------------------------------------------
(* The thread *)

Ready == {source \in {"channel", "socket"} :
            IF source = "channel" THEN messages \/ shutdown ELSE backlog # <<>>}

\* A dispatch waits for a source and serves all that are ready, in any order.
Poll ==
  /\ at = "poll"
  /\ Ready # {}
  /\ at' = "dispatch"
  /\ due' = Ready
  /\ UNCHANGED <<bound, reading, clientVars, next_client_id, clients, channelVars>>

Serves(source) ==
  /\ at = "dispatch"
  /\ source \in due
  /\ due' = due \ {source}

\* handle_message: every message but Shutdown is dropped.
HandleMessages ==
  /\ Serves("channel")
  /\ messages' = FALSE
  /\ shutdown' = FALSE
  /\ shutting_down' = (shutting_down \/ shutdown)
  /\ UNCHANGED <<bound, at, reading, clientVars, next_client_id, clients>>

\* The callback of the socket: accept, new_client; an error is only logged.
Accept ==
  /\ Serves("socket")
  /\ backlog' = Tail(backlog)
  /\ \/ /\ at' = "read"
        /\ reading' = Head(backlog)
        /\ clients' = clients \cup {next_client_id}
        /\ next_client_id' = next_client_id + 1
     \/ UNCHANGED <<at, reading, next_client_id, clients>>
  /\ UNCHANGED <<bound, spoken, channelVars>>

\* read returns bytes, the end or an error, and the stream is dropped.
Read ==
  /\ at = "read"
  /\ reading \in spoken
  /\ at' = "dispatch"
  /\ reading' = Nobody
  /\ UNCHANGED <<bound, due, clientVars, next_client_id, clients, channelVars>>

\* on_dispatch_wait
OnDispatchWait ==
  /\ at = "dispatch"
  /\ due = {}
  /\ at' = IF shutting_down THEN "stopped" ELSE "poll"
  /\ UNCHANGED <<bound, due, reading, clientVars, next_client_id, clients, channelVars>>

Thread == Poll \/ HandleMessages \/ Accept \/ Read \/ OnDispatchWait

Next ==
  \/ \E c \in Client : Connect(c) \/ Speak(c)
  \/ SendMessage
  \/ SendShutdown
  \/ Thread

\* The thread runs.
FairSpec == Init /\ [][Next]_vars /\ WF_vars(Thread)

-----------------------------------------------------------------------------
\* "Requests the display thread to shut down" (display_message.rs): the thread that
\* has the message stops.  A client that connects and says nothing holds it in read,
\* before the message is handled or after it, on the way to on_dispatch_wait.
ShutdownStops == shutdown ~> at = "stopped"
=============================================================================
