------------------------------ MODULE Keymaps -------------------------------
(***************************************************************************)
(* Lua callbacks and key maps: the config thread registers a callback for  *)
(* every scape.map_key, on_startup and on_connector_change of the user's   *)
(* configuration, the input thread holds the table from keys to callbacks, *)
(* and the two keep each other up to date over two FIFO channels.          *)
(*                                                                         *)
(* A Lua function only defers: each API call inserts an idle into the      *)
(* loop of the config thread, which runs its idles after it has handled an *)
(* event.  What the user's Lua code does is its sequence of API calls, any *)
(* member of Scripts.                                                      *)
(***************************************************************************)
EXTENDS Naturals, Sequences

CONSTANTS
  Slot,          \* the (modifiers, keysym) pairs, after keymap() normalised them
  NoSlot,        \* a key map whose key name is empty
  DefaultSlots,  \* the key maps of set_default_keymaps, in order
  Scripts,       \* the sequences of API calls a Lua chunk or function can make
  MaxCallback,   \* bound: callbacks registered in a run
  MaxQueue       \* bound: events accepted while the config channel holds this many

\* What a callback is registered for, which is also the API call that does it.
Purpose == Slot \cup {NoSlot, "on_startup", "on_connector_change"}

ASSUME KeymapsAssumption ==
  /\ NoSlot \notin Slot
  /\ {"on_startup", "on_connector_change"} \cap (Slot \cup {NoSlot}) = {}
  /\ DefaultSlots \in Seq(Slot)
  /\ Scripts \subseteq Seq(Purpose)
  /\ MaxCallback \in Nat /\ MaxQueue \in Nat

VARIABLES
  callbacks,            \* CallbackState.callbacks: pairs <<reference, purpose>>
  callback_counter,     \* the next reference
  on_startup,           \* the references in ConfigState, 0 for None
  on_connector_change,
  idles,                \* the API calls waiting in the config loop
  loop,                 \* "wait": no event handled yet, "events" or "idles"
  to_config,            \* the channels
  to_input,
  keymaps,              \* InputState.keymaps, 0 for no entry
  started               \* has the display sent Startup?

configVars == <<callbacks, callback_counter, on_startup, on_connector_change, idles, loop>>
vars == <<configVars, to_config, to_input, keymaps, started>>

ConfigMessage ==
  [kind : {"RunCallback", "ForgetCallback", "Startup", "ConnectorChange"}, callback : Nat]
InputMessage == [key : Slot \cup {NoSlot}, callback : Nat]

TypeOK ==
  /\ callbacks \subseteq Nat \X Purpose
  /\ callback_counter \in Nat \ {0}
  /\ on_startup \in Nat
  /\ on_connector_change \in Nat
  /\ idles \in Seq(Purpose)
  /\ loop \in {"wait", "events", "idles"}
  /\ to_config \in Seq(ConfigMessage)
  /\ to_input \in Seq(InputMessage)
  /\ keymaps \in [Slot -> Nat]
  /\ started \in BOOLEAN

Registered(ref) == \E p \in Purpose : <<ref, p>> \in callbacks

\* ConfigState::new has registered and sent the default key maps and run the
\* user's configuration, whose API calls all wait as idles.
Init ==
  /\ callbacks = {<<i, DefaultSlots[i]>> : i \in DOMAIN DefaultSlots}
  /\ callback_counter = Len(DefaultSlots) + 1
  /\ on_startup = 0
  /\ on_connector_change = 0
  /\ idles \in Scripts
  /\ loop = "wait"
  /\ to_config = <<>>
  /\ to_input = [i \in DOMAIN DefaultSlots |-> [key |-> DefaultSlots[i], callback |-> i]]
  /\ keymaps = [s \in Slot |-> 0]
  /\ started = FALSE

-----------------------------------------------------------------------------
(* The config thread: events *)

\* Lua code runs: its API calls are appended to the idles.
Execute(script) ==
  /\ callback_counter + Len(idles) + Len(script) <= MaxCallback + 1
  /\ idles' = idles \o script

\* CallbackState::run_callback; an unknown reference is an error that is logged.
Run(ref) ==
  IF Registered(ref) THEN \E script \in Scripts : Execute(script) ELSE UNCHANGED idles

\* handle_message takes the next message of a kind from the channel.
Receive(kind) ==
  /\ loop \in {"wait", "events"}
  /\ to_config # <<>>
  /\ Head(to_config).kind = kind
  /\ to_config' = Tail(to_config)
  /\ loop' = "events"
  /\ UNCHANGED <<callback_counter, on_startup, on_connector_change, to_input, keymaps, started>>

HandleRunCallback ==
  /\ Receive("RunCallback")
  /\ Run(Head(to_config).callback)
  /\ UNCHANGED callbacks

\* Mutant: the message is taken and nothing is removed.
ForgetNothing == Receive("ForgetCallback") /\ UNCHANGED <<callbacks, idles>>

HandleForgetCallback ==
  /\ Receive("ForgetCallback")
  /\ callbacks' = {c \in callbacks : c[1] # Head(to_config).callback}
  /\ UNCHANGED idles

HandleStartup ==
  /\ Receive("Startup")
  /\ IF on_startup # 0 THEN Run(on_startup) ELSE UNCHANGED idles
  /\ UNCHANGED callbacks

HandleConnectorChange ==
  /\ Receive("ConnectorChange")
  /\ IF on_connector_change # 0 THEN Run(on_connector_change) ELSE UNCHANGED idles
  /\ UNCHANGED callbacks

\* The file watcher: a changed configuration file is run again.
ReloadConfig ==
  /\ loop \in {"wait", "events"}
  /\ Len(to_config) < MaxQueue
  /\ \E script \in Scripts : Execute(script)
  /\ loop' = "events"
  /\ UNCHANGED <<callbacks, callback_counter, on_startup, on_connector_change,
                 to_config, to_input, keymaps, started>>

-----------------------------------------------------------------------------
(* The config thread: idles, run after the events of a dispatch *)

\* CallbackState::register_callback for the API call at the head of the idles.
Register(p) ==
  /\ loop \in {"events", "idles"}
  /\ idles # <<>>
  /\ Head(idles) = p
  /\ idles' = Tail(idles)
  /\ loop' = "idles"
  /\ callback_counter' = callback_counter + 1
  /\ UNCHANGED <<to_config, keymaps, started>>

MapKey ==
  \E p \in Slot \cup {NoSlot} :
    /\ Register(p)
    /\ callbacks' = callbacks \cup {<<callback_counter, p>>}
    /\ to_input' = Append(to_input, [key |-> p, callback |-> callback_counter])
    /\ UNCHANGED <<on_startup, on_connector_change>>

\* The previous startup callback is forgotten first.
OnStartup ==
  /\ Register("on_startup")
  /\ callbacks' = {c \in callbacks : c[1] # on_startup} \cup {<<callback_counter, "on_startup">>}
  /\ on_startup' = callback_counter
  /\ UNCHANGED <<on_connector_change, to_input>>

OnConnectorChange ==
  /\ Register("on_connector_change")
  /\ callbacks' = callbacks \cup {<<callback_counter, "on_connector_change">>}
  /\ on_connector_change' = callback_counter
  /\ UNCHANGED <<on_startup, to_input>>

\* No idle is left: the loop waits for the next event.
EndDispatch ==
  /\ loop \in {"events", "idles"}
  /\ idles = <<>>
  /\ loop' = "wait"
  /\ UNCHANGED <<callbacks, callback_counter, on_startup, on_connector_change, idles,
                 to_config, to_input, keymaps, started>>

-----------------------------------------------------------------------------
(* The input thread *)

Forget(ref) == [kind |-> "ForgetCallback", callback |-> ref]

\* Mutants: the new callback is forgotten instead of the old one, the old one
\* stays in force, the first map_key wins, the old callback is not forgotten.
ReplaceKeymap(forget(_, _), keep) ==
  /\ to_input # <<>>
  /\ to_input' = Tail(to_input)
  /\ LET m == Head(to_input)  old == keymaps[m.key] IN
       IF m.key = NoSlot
         THEN UNCHANGED <<keymaps, to_config>>
         ELSE /\ keymaps' = [keymaps EXCEPT ![m.key] = IF old # 0 /\ keep THEN old ELSE m.callback]
              /\ to_config' = IF old = 0 THEN to_config ELSE to_config \o forget(old, m.callback)
  /\ UNCHANGED <<configVars, started>>

KeymapForgetsNew == ReplaceKeymap(LAMBDA old, new : <<Forget(new)>>, FALSE)
KeymapFirstWins == ReplaceKeymap(LAMBDA old, new : <<Forget(new)>>, TRUE)
KeymapForgetsNothing == ReplaceKeymap(LAMBDA old, new : <<>>, FALSE)

\* InputState::keymap: the callback it replaces is to be forgotten; a key map
\* without a key is dropped with a warning.
Keymap ==
  /\ to_input # <<>>
  /\ to_input' = Tail(to_input)
  /\ LET m == Head(to_input) IN
       IF m.key = NoSlot
         THEN UNCHANGED <<keymaps, to_config>>
         ELSE /\ keymaps' = [keymaps EXCEPT ![m.key] = m.callback]
              /\ to_config' = IF keymaps[m.key] = 0 THEN to_config
                              ELSE Append(to_config, Forget(keymaps[m.key]))
  /\ UNCHANGED <<configVars, started>>

\* handle_keyboard_event for a key event that keyboard_shortcut finds in the table.
Shortcut(s) ==
  /\ keymaps[s] # 0
  /\ Len(to_config) < MaxQueue
  /\ to_config' = Append(to_config, [kind |-> "RunCallback", callback |-> keymaps[s]])
  /\ UNCHANGED <<configVars, to_input, keymaps, started>>

-----------------------------------------------------------------------------
(* The display thread, as far as the config thread hears of it *)

\* State::check_readyness, once.
SendStartup ==
  /\ ~started
  /\ started' = TRUE
  /\ to_config' = Append(to_config, [kind |-> "Startup", callback |-> 0])
  /\ UNCHANGED <<configVars, to_input, keymaps>>

\* The message the config thread handles and the display is to send on a hotplug
\* (udev.rs and winit.rs hold the sends as a TODO).
SendConnectorChange ==
  /\ Len(to_config) < MaxQueue
  /\ to_config' = Append(to_config, [kind |-> "ConnectorChange", callback |-> 0])
  /\ UNCHANGED <<configVars, to_input, keymaps, started>>

-----------------------------------------------------------------------------
HandleMessage ==
  \/ HandleRunCallback
  \/ HandleForgetCallback
  \/ HandleStartup
  \/ HandleConnectorChange

RunIdles == MapKey \/ OnStartup \/ OnConnectorChange \/ EndDispatch

Next ==
  \/ HandleMessage
  \/ ReloadConfig
  \/ RunIdles
  \/ Keymap
  \/ \E s \in Slot : Shortcut(s)
  \/ SendStartup
  \/ SendConnectorChange

Spec == Init /\ [][Next]_vars

\* Both threads keep serving their channels, and a loop that woke up runs its
\* idles; keys, reloads and the display promise nothing.
Fairness == WF_vars(HandleMessage) /\ WF_vars(RunIdles) /\ WF_vars(Keymap)

FairSpec == Spec /\ Fairness

-----------------------------------------------------------------------------
(* Properties *)

Forgotten(ref, n) ==
  \E i \in 1 .. n : to_config[i] = Forget(ref)

InFlight(ref, s) == \E i \in DOMAIN to_input : to_input[i] = [key |-> s, callback |-> ref]

\* A key that was pressed never runs a callback that does not exist: although
\* table and registry live in two threads, the reference is still registered
\* and nothing ahead of it in the channel forgets it.
NoDanglingRun ==
  \A i \in DOMAIN to_config :
    to_config[i].kind = "RunCallback" =>
      /\ Registered(to_config[i].callback)
      /\ ~Forgotten(to_config[i].callback, i - 1)

\* The table of the input thread names only live callbacks, each the one that
\* was registered for just this key, and none that is about to be forgotten.
BindingsAreLive ==
  \A s \in Slot : keymaps[s] # 0 =>
    /\ <<keymaps[s], s>> \in callbacks
    /\ ~Forgotten(keymaps[s], Len(to_config))

\* The last map_key of a key wins, whatever reloads and key presses are under
\* way: the youngest callback of a key is in force or on its way.
LastMapKeyWins ==
  \A s \in Slot, c \in callbacks :
    c[2] = s /\ (\A d \in callbacks : d[2] = s => d[1] <= c[1]) =>
      InFlight(c[1], s) \/ keymaps[s] = c[1]

\* Remapping a key leaks nothing: a key's callback is in force, on its way, or
\* on its way out.
NoKeymapLeak ==
  \A s \in Slot, c \in callbacks :
    c[2] = s => keymaps[s] = c[1] \/ InFlight(c[1], s) \/ Forgotten(c[1], Len(to_config))

\* At most one startup callback is kept, the one that would be run.
OneStartupCallback ==
  \A c \in callbacks : c[2] = "on_startup" <=> c[1] = on_startup

\* A remapped key's old callback is gone in the end.
OldBindingsVanish ==
  \A s \in Slot, ref \in 1 .. MaxCallback :
    (<<ref, s>> \in callbacks /\ \E c \in callbacks : c[2] = s /\ c[1] > ref)
      ~> <<ref, s>> \notin callbacks
=============================================================================
