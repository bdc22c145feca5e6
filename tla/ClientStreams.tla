---------------------------- MODULE ClientStreams ----------------------------
(***************************************************************************)
(* What whoever embeds the Wayland socket may rely on for each client:     *)
(* what it sends is told once, in pieces of any length, and the end is     *)
(* told after the last of it and nothing after the end.                    *)
(***************************************************************************)
EXTENDS Naturals

CONSTANT Client

VARIABLES
  unread,  \* how much of what a client sent was not told yet
  closed,  \* the client has closed its end
  ended    \* the embedder was told of the end

vars == <<unread, closed, ended>>

Init ==
  /\ unread = [c \in Client |-> 0]
  /\ closed = {}
  /\ ended = {}

Send(c) ==
  /\ c \notin closed
  /\ unread' = [unread EXCEPT ![c] = @ + 1]
  /\ UNCHANGED <<closed, ended>>

Close(c) ==
  /\ closed' = closed \cup {c}
  /\ UNCHANGED <<unread, ended>>

Tell(c) ==
  /\ c \notin ended
  /\ \E n \in 0 .. unread[c] - 1 : unread' = [unread EXCEPT ![c] = n]
  /\ UNCHANGED <<closed, ended>>

End(c) ==
  /\ c \in closed
  /\ unread[c] = 0
  /\ ended' = ended \cup {c}
  /\ UNCHANGED <<unread, closed>>

Next == \E c \in Client : Send(c) \/ Close(c) \/ Tell(c) \/ End(c)

Spec == Init /\ [][Next]_vars
=============================================================================
