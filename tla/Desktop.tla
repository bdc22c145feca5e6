------------------------------ MODULE Desktop -------------------------------
(***************************************************************************)
(* How a Lua configuration governs the desktop: scape-config runs the file *)
(* of the user, again whenever the file watcher reports a change, and the  *)
(* callbacks of keys.  Each function of the Lua module inserts an idle     *)
(* into the loop of the config thread; run after the events of a dispatch, *)
(* the idle sends a message to the display, which changes the windows,     *)
(* zones and rules of Windows.tla and asks back for a program to be        *)
(* started when focus_or_spawn finds no window.                            *)
(*                                                                         *)
(* Calls that change nothing here (close_current_window, toggle_debug_ui,  *)
(* start_video_stream, quit) are left out.  At this commit nothing sends   *)
(* ConnectorChange: a layout reaches the display with its spaces but       *)
(* without outputs, and nothing sends ExtraEnv.                            *)
(***************************************************************************)
EXTENDS Windows

CONSTANTS
  Callback,      \* the functions given to map_key
  Body,          \* the calls that each of them makes
  Chunks,        \* what the configuration file may hold
  Gone,          \* the file is not there
  ChannelSize,   \* the paths that the watcher's channel holds: 64
  MaxActs,       \* bound: changes of the file and key presses
  MaxIdles       \* bound: calls waiting when more are made

-----------------------------------------------------------------------------
(* The calls, one set for each file that adds functions to the Lua module *)

ZoneCalls ==
  [call : {"set_zones"}, zones : SUBSET Zone, default : Zone \cup {NoZone}]
    \cup [call : {"move_current_window_to_zone"}, zone : Zone]

WindowCalls == [call : {"add_window_rule"}, app : App, zone : Zone]

\* A command is known by the application whose windows it opens.
SpawnCalls == [call : {"spawn", "focus_or_spawn"}, app : App]

LayoutCalls == [call : {"set_layout"}, spaces : SUBSET Space]

KeymapCalls == [call : {"map_key"}, callback : Callback]

DisplayMessage ==
  ZoneCalls \cup WindowCalls \cup LayoutCalls \cup [call : {"focus_or_spawn"}, app : App]
Call == DisplayMessage \cup SpawnCalls \cup KeymapCalls

ConfigMessage ==
  [kind : {"RunCallback"}, callback : Callback] \cup [kind : {"Spawn"}, app : App]

\* A chunk makes its calls and then may end with an error.
ASSUME DesktopAssumption ==
  /\ Body \in [Callback -> Seq(Call)]
  /\ Chunks \subseteq [calls : Seq(Call), fails : BOOLEAN]
  /\ Gone \notin Chunks
  /\ ChannelSize \in Nat \ {0}
  /\ MaxActs \in Nat /\ MaxIdles \in Nat

VARIABLES
  file,         \* the configuration file
  ran,          \* the contents of the file that were run last
  watched,      \* "off", "on", or "heard" once a change was seen
  pending,      \* events on their way to the thread of the watcher
  channel,      \* how often the channel of the watcher holds the path
  idles,        \* the calls that wait in the config loop
  loop,         \* "start", "wait": no event handled yet, "events" or "idles"
  bound,        \* callbacks that were mapped to a key
  dead,         \* the config thread has panicked
  turn,         \* history: changes whenever Lua code runs
  to_display,
  to_config,
  acts          \* what the user has done, for the bound

fileVars == <<file, ran, watched, pending, channel>>
configVars == <<idles, loop, bound, dead, turn>>
desktopVars == <<vars, fileVars, configVars, to_display, to_config, acts>>

\* Every variable has its type, and the channel of the watcher keeps its bound.
DesktopTypeOK ==
  /\ TypeOK
  /\ file \in Chunks \cup {Gone}
  /\ ran \in Chunks
  /\ watched \in {"off", "on", "heard"}
  /\ pending \in Seq({"Access", "Change"})
  /\ channel \in 0 .. ChannelSize
  /\ idles \in Seq(Call)
  /\ loop \in {"start", "wait", "events", "idles"}
  /\ bound \subseteq Callback
  /\ dead \in BOOLEAN /\ turn \in BOOLEAN
  /\ to_display \in Seq(DisplayMessage)
  /\ to_config \in Seq(ConfigMessage)
  /\ acts \in 0 .. MaxActs

\* ConfigState::new has run the file once, to its end or to its error.
DesktopInit ==
  /\ Init
  /\ file \in Chunks
  /\ ran = file
  /\ watched = "off"
  /\ pending = <<>>
  /\ channel = 0
  /\ idles = file.calls
  /\ loop = "start"
  /\ bound = {}
  /\ dead = FALSE
  /\ turn = FALSE
  /\ to_display = <<>>
  /\ to_config = <<>>
  /\ acts = 0

-----------------------------------------------------------------------------
(* The file and its watcher *)

\* The end of ConfigState::new: without an error the file is watched from here,
\* unless it was named on the command line.
EnterLoop ==
  /\ loop = "start"
  /\ loop' = "wait"
  /\ watched' \in IF ran.fails THEN {"off"} ELSE {"off", "on"}
  /\ UNCHANGED <<vars, file, ran, pending, channel, idles, bound, dead, turn, to_display, to_config, acts>>

\* The user writes or removes the file.
ChangeFile(contents) ==
  /\ acts < MaxActs /\ contents # file
  /\ acts' = acts + 1
  /\ file' = contents
  /\ IF watched = "off"
       THEN UNCHANGED <<watched, pending>>
       ELSE watched' = "heard" /\ pending' = Append(pending, "Change")
  /\ UNCHANGED <<vars, ran, channel, configVars, to_display, to_config>>

\* Mutant: reads of the file count as changes.
WatchAll ==
  /\ pending # <<>> /\ channel < ChannelSize
  /\ pending' = Tail(pending)
  /\ channel' = channel + 1
  /\ UNCHANGED <<vars, file, ran, watched, configVars, to_display, to_config, acts>>

\* The closure of ConfigWatcher::new: an access is no change of the contents;
\* send waits while the channel is full.
Watch ==
  /\ pending # <<>>
  /\ pending' = Tail(pending)
  /\ IF Head(pending) = "Access"
       THEN UNCHANGED channel
       ELSE channel < ChannelSize /\ channel' = channel + 1
  /\ UNCHANGED <<vars, file, ran, watched, configVars, to_display, to_config, acts>>

-----------------------------------------------------------------------------
(* The config thread: events *)

Event == ~dead /\ loop \in {"wait", "events"} /\ loop' = "events"

Execute(calls) ==
  /\ Len(idles) + Len(calls) <= MaxIdles
  /\ idles' = idles \o calls
  /\ turn' = ~turn

\* Mutant: nothing is run while calls of the last run still wait.
ReloadIfIdle ==
  /\ Event
  /\ channel > 0
  /\ channel' = channel - 1
  /\ IF file = Gone
       THEN dead' = TRUE /\ UNCHANGED <<pending, ran, idles, turn>>
     ELSE IF idles # <<>>
       THEN UNCHANGED <<pending, ran, idles, turn, dead>>
       ELSE /\ pending' = Append(pending, "Access")
            /\ ran' = file
            /\ Execute(file.calls)
            /\ dead' = file.fails
  /\ UNCHANGED <<vars, file, watched, bound, to_display, to_config, acts>>

\* A path from the watcher: the file is read, which is an access, and run; a
\* file that is gone or ends with an error is a panic.
Reload ==
  /\ Event
  /\ channel > 0
  /\ channel' = channel - 1
  /\ IF file = Gone
       THEN dead' = TRUE /\ UNCHANGED <<pending, ran, idles, turn>>
       ELSE /\ pending' = Append(pending, "Access")
            /\ ran' = file
            /\ Execute(file.calls)
            /\ dead' = file.fails
  /\ UNCHANGED <<vars, file, watched, bound, to_display, to_config, acts>>

Receive(kind) ==
  /\ Event
  /\ to_config # <<>> /\ Head(to_config).kind = kind
  /\ to_config' = Tail(to_config)
  /\ UNCHANGED <<vars, fileVars, bound, dead, to_display, acts>>

HandleRunCallback == Receive("RunCallback") /\ Execute(Body[Head(to_config).callback])

\* The program is started, or an error is logged.
HandleSpawn == Receive("Spawn") /\ UNCHANGED <<idles, turn>>

-----------------------------------------------------------------------------
(* The config thread: idles *)

NextIdle(names) ==
  /\ ~dead /\ loop \in {"events", "idles"}
  /\ idles # <<>> /\ Head(idles).call \in names
  /\ loop' = "idles"
  /\ idles' = Tail(idles)
  /\ UNCHANGED <<vars, fileVars, dead, turn, to_config, acts>>

Forwarded ==
  {"set_zones", "move_current_window_to_zone", "add_window_rule", "focus_or_spawn", "set_layout"}

\* Mutant: a message overtakes those that wait.
ForwardUrgent ==
  /\ NextIdle(Forwarded)
  /\ to_display' = <<Head(idles)>> \o to_display
  /\ UNCHANGED bound

\* comms.display with the message that the call stands for.
Forward ==
  /\ NextIdle(Forwarded)
  /\ to_display' = Append(to_display, Head(idles))
  /\ UNCHANGED bound

\* ConfigState::spawn
Spawn == NextIdle({"spawn"}) /\ UNCHANGED <<bound, to_display>>

\* map_key, whose way to the input thread and back is in Keymaps.tla.
MapKey ==
  /\ NextIdle({"map_key"})
  /\ bound' = bound \cup {Head(idles).callback}
  /\ UNCHANGED to_display

EndDispatch ==
  /\ ~dead /\ loop \in {"events", "idles"} /\ idles = <<>>
  /\ loop' = "wait"
  /\ UNCHANGED <<vars, fileVars, idles, bound, dead, turn, to_display, to_config, acts>>

\* A key whose callback was registered is pressed.
KeyPressed(c) ==
  /\ acts < MaxActs
  /\ acts' = acts + 1
  /\ c \in bound
  /\ to_config' = Append(to_config, [kind |-> "RunCallback", callback |-> c])
  /\ UNCHANGED <<vars, fileVars, configVars, to_display>>

-----------------------------------------------------------------------------
(* The display thread *)

Message(name) ==
  /\ ~panicked
  /\ to_display # <<>> /\ Head(to_display).call = name
  /\ to_display' = Tail(to_display)
  /\ UNCHANGED <<fileVars, configVars, acts>>

HandleSetZones ==
  /\ Message("set_zones")
  /\ SetZones(Head(to_display).zones, Head(to_display).default)
  /\ UNCHANGED to_config

HandleAddWindowRule ==
  /\ Message("add_window_rule")
  /\ AddWindowRule(Head(to_display).app, Head(to_display).zone)
  /\ UNCHANGED to_config

HandleMoveCurrentWindow ==
  /\ Message("move_current_window_to_zone")
  /\ IF focus = NoWindow THEN UNCHANGED vars ELSE MoveCurrentWindowToZone(Head(to_display).zone)
  /\ UNCHANGED to_config

\* A layout without outputs: spaces that are new are added.
HandleSetLayout ==
  /\ Message("set_layout")
  /\ IF Head(to_display).spaces \subseteq spaces
       THEN UNCHANGED vars
       ELSE AddSpaces(Head(to_display).spaces)
  /\ UNCHANGED to_config

\* Mutant: the program is started in any case.
FocusAndSpawn ==
  /\ Message("focus_or_spawn")
  /\ LET a == Head(to_display).app IN
     /\ IF WindowsOf(stack[first], a) # {} THEN FocusWindowByAppId(a) ELSE UNCHANGED vars
     /\ to_config' = to_config \o <<[kind |-> "Spawn", app |-> a], [kind |-> "Spawn", app |-> a]>>

HandleFocusOrSpawn ==
  /\ Message("focus_or_spawn")
  /\ LET a == Head(to_display).app IN
     IF WindowsOf(stack[first], a) # {}
       THEN FocusWindowByAppId(a) /\ UNCHANGED to_config
       ELSE to_config' = Append(to_config, [kind |-> "Spawn", app |-> a]) /\ UNCHANGED vars

-----------------------------------------------------------------------------
ConfigThread ==
  Reload \/ HandleRunCallback \/ HandleSpawn \/ Forward \/ Spawn \/ MapKey \/ EndDispatch

DisplayThread ==
  \/ HandleSetZones \/ HandleAddWindowRule \/ HandleMoveCurrentWindow
  \/ HandleSetLayout \/ HandleFocusOrSpawn

Outside ==
  \/ \E contents \in Chunks \cup {Gone} : ChangeFile(contents)
  \/ \E c \in Callback : KeyPressed(c)

\* Clients and the pointer, while the display thread lives.
Clients ==
  /\ ~panicked
  /\ \/ Client
     \/ \E s \in spaces, w \in Window : FocusWindow(s, w)
     \/ Refresh
  /\ UNCHANGED <<fileVars, configVars, to_display, to_config, acts>>

DesktopNext ==
  EnterLoop \/ Watch \/ ConfigThread \/ DisplayThread \/ Outside \/ Clients

\* The loops of both threads and the thread of the watcher go on.
Fairness == WF_desktopVars(Watch) /\ WF_desktopVars(ConfigThread) /\ WF_desktopVars(DisplayThread)

DesktopSpec == DesktopInit /\ [][DesktopNext]_desktopVars /\ Fairness

-----------------------------------------------------------------------------
(* Properties *)

Effects == INSTANCE CallEffects

Outstanding == to_display \o idles

\* The settings that will be in force when all outstanding calls are handled.
Settings == Effects!After([zones |-> zones, default |-> defaultZone, rules |-> rules], Outstanding)

\* The requests for programs that were not answered yet.
Owed ==
  [a \in App |-> Effects!Requests(Outstanding)[a]
                 + Cardinality({i \in 1 .. Len(to_config) : to_config[i] = [kind |-> "Spawn", app |-> a]})]

Promise == INSTANCE Calls WITH
  Starts <- {c.calls : c \in Chunks},
  Scripts <- {c.calls : c \in Chunks} \cup {Body[c] : c \in Callback},
  settings <- Settings, owed <- Owed

(***************************************************************************)
(* On their way through two loops and two channels no call is lost, made   *)
(* twice or overtaken by a later one: what the outstanding calls will have *)
(* made of the zones and rules changes only when Lua code runs, and every  *)
(* spawn and focus_or_spawn is answered once (Calls).                      *)
(***************************************************************************)
CallsKeepOrder == Promise!Spec

ZonesOf(c) ==
  CASE c.call \in {"add_window_rule", "move_current_window_to_zone"} -> {c.zone}
    [] c.call = "set_zones" -> {c.default} \ {NoZone}
    [] OTHER -> {}

Scripts == {c.calls : c \in Chunks} \cup {Body[c] : c \in Callback}

Named == UNION {UNION {ZonesOf(s[i]) : i \in DOMAIN s} : s \in Scripts}

\* Every set_zones sets all zones that are named anywhere, and the file sets
\* zones before it names one or maps a key.
ScriptsAgree ==
  /\ \A s \in Scripts : \A i \in DOMAIN s : s[i].call = "set_zones" => Named \subseteq s[i].zones
  /\ \A c \in Chunks : \A i \in DOMAIN c.calls :
       (c.calls[i].call = "map_key" \/ ZonesOf(c.calls[i]) # {})
         => \E j \in 1 .. i : c.calls[j].call = "set_zones"

(***************************************************************************)
(* place_window indexes State.zones with the zone of a rule, of a request  *)
(* or of the default, which the display never checks.  A configuration     *)
(* whose scripts agree on the zones never makes it panic, with any         *)
(* interleaving of reloads, callbacks, messages and windows.               *)
(***************************************************************************)
ConfigNeverPanicsDisplay == ScriptsAgree => ~panicked

(***************************************************************************)
(* The watcher reports paths while the file is read whenever its turn      *)
(* comes: once a change was seen and all reports are handled, the contents *)
(* that were run last are those of the file, although reports and changes  *)
(* interleave in any way and the channel is bounded.                       *)
(***************************************************************************)
LastContentsWin ==
  watched = "heard" /\ ~dead /\ channel = 0 /\ (\A i \in DOMAIN pending : pending[i] = "Access")
    => ran = file

\* What holds of every state: types, the bound of the channel, and the contents.
DesktopIsSound == DesktopTypeOK /\ LastContentsWin

(***************************************************************************)
(* Reloading reads the file, which the watcher sees: reloads, calls and    *)
(* messages nevertheless come to an end when the user does nothing more,   *)
(* unless a thread panicked.  The calls of the first run may wait for the  *)
(* first event.                                                            *)
(***************************************************************************)
ThingsSettle ==
  <>[](\/ dead \/ panicked \/ loop = "start"
       \/ /\ pending = <<>> /\ channel = 0
          /\ to_config = <<>> /\ to_display = <<>>
          /\ loop = "wait")
=============================================================================
