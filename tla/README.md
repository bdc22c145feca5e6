# A formal model of scape

scape is a Wayland compositor in Rust, configured in Lua. This directory holds TLA+
modules of its parts, TLC configurations that check them on small instances, and proofs
for every instance. `PROJECT.json` says which lines of the source each definition stands
for.

The program is in the middle of a refactoring: it is being cut into four threads, and
`scape-display/src/lib.rs` compiles only `wayland` of the display; most modules of the
old, single-threaded display (`udev`, `state`, `shell`, `composition`, `input_handler`,
...) are commented out. Their source is complete and is what the threads are to contain, so it
is modelled from its code as it stands; what is and is not built at this commit is said
below.

## The system

| Part | State | Operations | Talks to |
|---|---|---|---|
| main loop (`src/main.rs`) | shutdown flags, force timer, join handles | spawn, broadcast, wait, give up | all threads, by channels (`Comms`) |
| config thread (`scape-config`) | Lua, callback registry, callbacks for startup and connector changes | run or forget a callback, reload, API calls deferred to idles | input, display, main |
| config watcher (`config_watcher.rs`) | a bounded channel of paths | filter events of the file system, report paths | config thread |
| input thread (`scape-input`) | xkb state, key map table, suppressed symbols, keyboards, LEDs, seat session | key events, devices, `keymap`, pause and activation, open a file for the renderer | config, display, renderer |
| renderer thread (`scape-renderer`) | known GPUs | find GPUs, ask for their files, a Vulkan test | input, main |
| display thread (`scape-display`) | this build: a socket; the old code: all of the rest | this build: accepts and reads, drops its messages | config, main |
| Wayland socket (`wayland-protocol`) | socket file, listener, client connections | accept, read, tell data and ends | an embedder that does not exist yet |
| udev backend (`udev.rs`) | devices, surfaces with their scheduling flags, leases | hotplug, render requests, vblanks, repaint timers, session switches | display state, DRM |
| spaces (`composition.rs`, `shell.rs`) | spaces with outputs and windows, zones, rules | set_layout, set_zones, place and focus windows | udev backend, seat |
| readiness (`state.rs`, `xwayland.rs`) | three flags, started outputs | backend ready, XWayland ready, start outputs | config |
| session lock (`ext_session_lock.rs`, `action.rs`) | the lock and its surfaces | lock, unlock, new surface; refuses actions | focus |
| windows (`xdg_shell.rs`, `xwayland_shell.rs`, `grabs.rs`) | resize state of a surface, grabs, old geometry | move, resize, maximize, configure, ack, commit | clients, X server |
| seat (`input_handler.rs`, `focus.rs`, constraints, layers) | place and focus of the pointer, keyboard focus, constraints | motion, buttons, touch, tablet tools | clients |
| screen copy (`wlr_screencopy.rs`) | one list of pending frames | capture, copy, answer at a render | udev backend |

The rest (video streams, windows and decorations, drawing, egui, winit, small protocols,
code generation, C bindings) is listed in `PROJECT.json` with the reason it is not modelled.

What is hard in it:

* Threads may end at any moment (error, panic, order) and main sleeps without a timeout.
  Correct is: no death is overlooked, a clean end leaves nobody without an order, and the
  process ends even when a worker hangs.
* A key's callback lives in one thread and the table that names it in another; both
  change while messages are in two channels. Correct is: no message names a dead
  callback, the last `map_key` wins, nothing leaks.
* The configuration file changes while its watcher reports, its calls wait in idles and a
  channel, and the display indexes zones by names it never checks. Correct is: the last
  contents are those that were run, calls keep their order, scripts that agree on their
  zones never make the display panic, and a reload does not cause the next one.
* The modifiers may change between the press and the release of a key, and keyboards
  go with keys down. Correct is: the display sees balanced events, and what the input
  thread believes of its devices is true once the events are handled.
* Render idles and repaint timers outlive the surface they were made for, connectors
  come and go, and the session is paused. Correct is: every requested render is tried,
  no surface is stuck pending, a client that copies the screen is answered.
* udev events tell the past while a scan sees the present; a lease holds a crtc that
  a scan gives to another connector. Correct is: a crtc has one user, and what is
  plugged in is in use in the end.
* An output belongs to a space twice, as user data and in the space's map. Correct is:
  the code finds every space it looks up, and what it unwraps there as long as layouts
  list it.
* Clients ask late, twice or not at all: a grab whose buttons are up, a resize whose
  acknowledgement never comes, a lock whose holder died. Correct is: no grab without a
  button, an edge that stays, a lock that one client holds.
* The pointer's focus, what it rests on and what constrains it are found by three pieces
  of code. Correct is: they agree whenever the pointer rests.

## The modules

| Module | Models | Shape |
|---|---|---|
| `AppLifecycle` | what the process promises about its life | abstract |
| `Threads` | main.rs and comms.rs: spawn, notify, die, force timer | implements `AppLifecycle` |
| `Keymaps` | callback registry, idles, key map table, both channels | two threads and the display as environment |
| `CallEffects`, `Calls` | what the calls of a script come to, and that they keep their order | operators; abstract |
| `Desktop` | file, watcher, config thread, its messages, and the display that handles them | composes `Windows`; implements `Calls` |
| `Keyboard` | handle_keyboard_event over any xkb keymap | one thread and the display's view |
| `SeatSession` | libinput's queue, keyboards, LEDs, the seat session, the renderer's GPUs | composes `Keyboard` |
| `RenderScheduler` | schedule_render, render idles, frame_finish, timers, hotplug | one loop and its sources |
| `Captures` | screen copies and the list that any render empties | composes `RenderScheduler` and implements its safety |
| `Devices` | device_added, scans, connectors, crtcs, leases | one loop; the hardware and clients are its environment |
| `Outputs` | connectors, `set_layout`, `ActiveSpace`, `start_outputs`, the two flags behind `Startup` | one loop; the configuration and the connectors are its environment |
| `Windows` | `place_window`, toplevels, focus, activation, zones and rules, the "first space" | one loop; clients, user and configuration are its environment |
| `LockHolder` | what a session lock promises | abstract |
| `SessionLock` | lock, lock surfaces, unlock, dying clients, refused actions | composes `Windows`; implements `LockHolder` |
| `Grabs` | moves and resizes by pointer and touch, maximizing, fullscreen of X11 windows | one loop; user, client and X server are its environment |
| `Seat` | pointer, keyboard focus, constraints, layers, touch, tablet tools | one loop; user and clients are its environment |
| `ClientStreams` | what the socket promises about each client | abstract |
| `WaylandSocket` | listener, connections, servers that follow each other | implements `ClientStreams` |
| `DisplaySocket` | the display's loop of this build with its blocking socket | one thread |
| `MC...` | model values, small inputs | for TLC |
| `...Proofs` | theorems | for TLAPS |

Definitions carry the names of the functions they model. One action is one handler from
its guard to its last assignment, since each thread runs a single event loop. The
exceptions are where what others do in between matters: in `Threads` the broadcast of the
shutdown is one action per message, as a worker may close its channel between two of them,
and in `WaylandSocket` and `DisplaySocket` a handler is one action per system call.

How state corresponds to code:

* **Threads.** `main` is the program counter of `run_app`. The main channel carries only
  `Shutdown` and is drained in one dispatch, so `requested` is a Boolean. A worker's
  `phase` follows `run_thread`: it is spawned, runs `R::new`, runs its loop, has dropped
  its receiver (`closed`), has sent its last message (`sent`), and is finished for
  `is_finished()`. A send to a closed channel turns into a `Shutdown` for main, as in
  `Comms`.
* **Keymaps.** `callbacks` is the registry as pairs of a reference and what it was
  registered for, which the code does not keep and the properties need. A Lua chunk is
  the sequence of API calls it makes; each call is an entry of `idles`, as
  `insert_idle` makes it. `loop` keeps calloop's order: events of a dispatch, then
  idles. Idles inserted before the first dispatch wait for the first event. A slot is a
  pair of modifiers and symbol after the normalisation in `keymap()`; `NoSlot` is a name
  that denotes nothing. The display sends `Startup` once. `ConnectorChange` is handled by
  the config thread and its sends are a TODO in `udev.rs` and `winit.rs`; the model lets
  the display send it.
* **Desktop.** `file` is what the file holds, `ran` what was run last. A read is an
  `Access` event to the watcher, a change another kind; `pending` are those on their way
  to its thread and `channel` counts the paths it has reported. The model
  has one file. The watcher reports every path of the directory, and the config thread
  runs whatever file is reported, or panics when it is gone; other files are left out.
  `bound` are the callbacks that a key can run. A callback's calls are `Body`, a file's
  are a chunk of `Chunks`, which may end with an error after its calls. `turn` and the
  two sequences that `Outstanding` joins carry the refinement to `Calls`; `turn` alone
  is history.
* **Keyboard.** `Sym` is the xkb keymap. A modifier is in effect while its key is held;
  locked and latched modifiers are left out. `down` is what the display was told.
* **SeatSession.** `events` is libinput's queue; a device that is closed releases its keys
  first and is reported as removed, one that is opened is reported as added. `lamps` are
  the LEDs of the hardware, `led` what the input thread believes; a lock key may change
  them or not, as locked modifiers are left out. `toInput` and `toRenderer` are the
  messages between the two threads. `session` is `deaf` when libinput did not resume.
  An error of a handler is logged and the thread goes on (`main.rs:309`); only a panic
  takes a thread out of `threads`. `tested` and `refused` are history: how the last
  request to open a GPU ended.
* **RenderScheduler.** A crtc names a surface and its output. Idles and timers are
  counted per crtc: which of several runs first makes no difference to the state.
  `owed` is a history variable. `CardOnly` are the crtcs of devices without a
  render node, where the two nodes the code confuses are the same.
* **Captures.** `Queue` is `State.screencopy_frames`. `image` says whose output a copy shows,
  which need not be `source`. Clients copy a frame once.
* **Devices.** `backends`, `gpus` and `outputs` are the maps of `UdevData` and `State`.
  `present` and `plugged` are the hardware, which changes at any moment; `events` is the
  queue of udev, so a handler sees newer hardware than its event. `starting` and `ready`
  stand for the timer of `init_udev_device_list`. `dark` and `missed` are history: what a
  failed set-up or scan left out.
* **Outputs.** An `Output` object is a name and a number, since a connector that returns
  has a new object without user data while the old one stays where it was mapped. A
  layout is a function from space names to the names it lists; `Layouts` is the set of
  layouts that reach the display, after the configuration thread dropped the outputs it
  does not know; they need not agree with each other. `listed` is history: what the
  last layout of each space listed there. The order of a `HashMap` shows twice: in which space becomes the
  `ActiveSpace` of an output that several list, and in which outputs `start_outputs`
  starts before it meets one that was started. `RenderScheduler` has the same two steps
  seen from a surface (`active`, `started`).
* **Windows.** `stack` is a smithay `Space`: `map_element` and `raise_element` put a window
  on top, `refresh` drops those that are gone. `first` is what `spaces.keys().next()`
  yields; it may change when a space is added. A failed index of `place_window` sets
  `panicked`, after which the display thread does nothing. A closed window may still
  have the keyboard, as no handler takes it away when no window is left. An activation
  names the space that was first when the surface was made; the model lets it name any.
* **SessionLock.** `holder` is the client of `State.session_lock`, `alive` what its check
  for a live client sees. `focus` of `Windows` is `NoWindow` while a lock surface has the
  keyboard, and `lockFocus` says whose.
* **Grabs.** One axis stands for two, which are alike and independent. `grab` and `touch`
  hold smithay's `GrabStartData` and the fields of the scape grab that replaced its click
  grab. `sent`, `acked` and `current` are the windows whose last configure, last
  acknowledged configure and last commit say Maximized. `resize` is `ResizeState` with the
  right edge, which is all that the commits read of its geometry. `notify` is a
  ConfigureNotify under way from the X server. `press` and `undo` are history.
* **Seat.** `location`, `focus` and `keyboard` are those of smithay's handles; `Raw` and
  `Absolute` are where motion would lead. A constraint belongs to a window and is active
  or not. Coordinates are whole numbers, outputs stand side by side with their tops at 0.
* **WaylandSocket.** `busy` says which source a server's loop is in; it goes on until the
  socket would block, while clients connect, send and close. `unread` counts, in units,
  the bytes a client sent that the embedder was not told of; a client may send for ever.
  `file` is whose listener the path leads to. `DisplaySocket` has the same of the
  socket in `scape-display/src/wayland/mod.rs`, with `at` as program counter; a dispatch
  serves all sources that were ready (`due`), in any order, before `on_dispatch_wait`.

## The runs

| Run | Module | Shows | Bounds |
|---|---|---|---|
| `threads` | `MCThreads` | deaths are noticed, nobody is forgotten, main never sleeps without a timer; `Threads` implements `AppLifecycle` with its liveness | the four workers in the orders of main.rs |
| `keymaps` | `MCKeymaps` | table and registry agree; old callbacks vanish | two keys, one default; up to 4 callbacks: a key can be mapped by default and remapped twice while the other key is mapped; `MaxQueue` = 2 leaves a press and a forget in the channel together |
| `keyboard` | `MCSeatSession` | keys no shortcut concerns are faithful, across keyboards that come and go and a pause; beliefs about devices and LEDs come true; a request to open a GPU ends in a test, in a logged error or with a thread | two keyboards, a modifier, a lock key and a key with two symbols; two keys held, never one key on two keyboards; one queued event when the user moves a key, but closing a keyboard queues as many as it needs; one pause, one GPU, one message on its way when the GPU appears |
| `render` | `MCCaptures` | no update is lost, pending ends, copies are answered | two outputs, one of each kind of device; one frame, used again. A timer of an earlier surface may be left when a connector returns, but one timer and one idle of a crtc leave no room for it beside those of the new surface: that is left to the proofs |
| `devices` | `MCDevices` | a crtc has one user, outputs and surfaces agree, what is plugged in is in use once its events are handled | two cards, two displays, a headset and a display of the second card; two crtcs, so that a third connector finds none; two events not yet handled, one failure |
| `outputs` | `MCOutputs` | the renderer finds the space of every output, and its geometry there unless the last layout of that space left it out; an output is in two spaces only when both list it; `Startup` is sent | two outputs with two objects each, two spaces, four layouts that contradict each other: one output for each space, one of them moved while the other is off, a part, and both in the other space |
| `windows` | `MCSessionLock` | no window is lost or twice in a space; the focus key goes round; the keyboard returns after the lock; the lock implements `LockHolder` | three windows, one application and windows without one, two spaces, one zone that may be missing; two clients that lock, one output |
| `grabs` | `MCGrabs` | no grab without a button, the right edge stays, a moved window stays under the pointer, maximizing is undone | one window of either kind, three places, two sizes, two places of the pointer, two buttons, two requests during a press |
| `seat` | `MCSeat` | the pointer rests on its focus, active constraints hold, a press focuses what is under it, the keyboard is on no closed window | two outputs of unequal height, a window and an X11 menu, a bar and a background; one button, one finger, one tool; four places of relative motion, one outside all outputs |
| `desktop` | `MCDesktop` | calls keep their order, the last contents win, agreeing scripts are safe, things settle | three changes or presses, one callback, one window; a channel of one path instead of 64, so that it is full |
| `sockets` | `MCWaylandSocket` | the running server is found, streams are as promised, every end is told unless a client keeps sending while it is read | two clients with up to two units unread each, which may send for ever; two servers that follow each other |
| `display_shutdown` | `MCDisplaySocket` | **violation:** Shutdown is not handled while a client is silent | two clients |

`MaxObject` bounds how often a connector comes; two suffice for an old and a new object
of one name. `MaxCallback` bounds the callbacks of a run, `MaxQueue` the config channel
when an event that is not caused by the channel itself is accepted, `MaxTimers` the repaint
timers of a crtc, `MaxIdles` the idles (of a crtc when a connector returns; of the config
loop when more calls are made), `MaxUnread` what the buffer of a socket holds. The code has no such bounds; the proofs hold for every
value of them. In `Devices` a device whose first timer has not fired is not pulled out.

A property called `...Sound` joins the type invariant with named parts that hold in
every state: `CrtcHasOneUser` and `RendererIsThere` (`Devices`), `LastContentsWin`
(`Desktop`), `GrabNeedsButtons` (`Grabs`), `KeyboardIsOpen` (`Seat`), `NoDuplicates`
and the lock's surfaces (`SessionLock`), `NoGpuIsForgotten` (`SeatSession`).

Deadlock is not checked where the system may really stop: the process ends (`threads`), a
thread may have panicked or ended (`keyboard`, `windows`, `grabs`, `desktop`, `devices`),
servers may be gone (`sockets`, `display_shutdown`).

The violation is a disagreement between the code and its documentation, which the finding
in `PROJECT.json` quotes: `DisplayMessage::Shutdown` "requests the display thread to shut
down", but the callback of the socket reads from each client it accepts, and blocks the
loop until that client sends or closes. `Shutdown` then waits in the channel, or was
handled before in the same dispatch, whose end is never reached. Main's force timer ends
the process.

### What the models show besides

Behaviours that a reader of the code may want to know, which the modules have and no run
is about.

Configuration and input:

* `on_startup` in the file registers in an idle, which runs after the events of the first
  dispatch; if `Startup` is one of them it is dropped (`scape-config/src/lib.rs:305`).
  The idles of the first run wait for the first event at all.
* A replaced `on_connector_change` callback, and that of a key map without a key, are
  kept for ever. Rules are never cleared by a reload.
* A file that is broken or removed when it is reloaded panics the config thread
  (`lib.rs:155`), while one that is broken at the start is reported and never watched; a change
  between the first read and the start of the watcher is missed.
* A release reaches the display without its press when a modifier changed in between
  (`keyboard.rs:48`), and runs its shortcut again while the modifiers are held.
* A GPU whose file cannot be opened, whose node is not understood, or whose events
  cannot be listened to, is one error in the log (`main.rs:310`): the renderer keeps it as
  known and never asks again.
* When libinput does not resume after a switch the thread stays deaf. `todo!()` ends the
  input thread at the first pointer event.
* `sample_init.lua` calls `move_to_zone`, which no file adds to the Lua module. Nothing
  sends `ConnectorChange`, so a `set_layout` of this build lists no outputs.

Rendering and devices:

* The retry of an initial render captures the render node, and devices are kept by their
  card node (`udev.rs:1516`): only cards without a render node are retried.
* The next render of any output fills all waiting copies with its own picture
  (`udev.rs:1651`); a copy that fails there is told so a second time when it is dropped.
* `ActiveSpace` is written once, while a later layout may unmap the output there
  (`composition.rs:129`), and the renderer unwraps its geometry (`udev.rs:1558`). By
  `RenderFindsOutput` the unwrap fails exactly when the last layout of that space leaves
  out an output that it had first. `sample_init.lua` lists `outputs[1]` only, in the order
  of a hash map, so two of its layouts may name different outputs. An unplugged output stays mapped.
* Two cards may share one entry of the `GpuManager`; a failed set-up leaves its
  globals behind; `lease_destroyed` unwraps a device that may be gone (`udev.rs:551`).
* No `Startup` is sent when XWayland fails.

Windows and the seat:

* `set_zones` keeps a default zone that it removes, on which `place_window` panics: this
  is why `ConfigNeverPanicsDisplay` is about scripts that agree.
* `MoveCurrentWindowToZone` maps the window into the first space even when another space
  has it. `CloseCurrentWindow` takes the top window for the focused one
  (`wayland_old.rs:138`).
* `resize_request` of an X11 window unwraps a grab that may have ended
  (`xwayland_shell.rs:233`); a second maximize overwrites the old geometry; a resize by
  the left edge has no anchor for X11 windows. A move maps a window that is closed
  until the next refresh. A second request of one press restarts from the moved window
  and the old press. A resize whose button is released keeps the state `Resizing` when no
  configure follows (`grabs.rs:468`), and `clamp` panics when a client's minimum is above
  its maximum (`grabs.rs:439`).
* The pointer leaves the outputs at their right edge (`input_handler.rs:1208`), where
  absolute motion unwraps an output when there is none. Coordinates handed to
  `layer_under` are global. A press of a key never looks at exclusive layers in
  `wayland_old.rs:78`. A constraint is activated before its surface has the pointer.

Sockets:

* `read_data` reads until the socket would block (`client.rs:59`), so a client that keeps
  sending holds the loop from the listener and from all other clients.
* An error of one client's read ends the loop for all. An end is reported again and again
  until the source is removed (`client.rs:64`). Two servers at once would take the path
  from each other. `start_display`'s error is ignored, and `WaylandServer.clients` never
  forgets a client.

## Fairness

* `Threads`: main's steps are weakly fair, the force timer strongly (calloop serves every
  ready source in a dispatch, so other messages cannot starve it), and a thread whose
  closure has closed its loop comes to its end. Nothing is assumed of a worker's own
  code: it may block in Lua or in a read. `SpawnFails` and `MainLoopFails` are not fair.
* `Keymaps`: the config thread serves its channel and its idles, the input thread its
  channel. Keys, reloads and the display promise nothing.
* `Captures`: idles and timers of each crtc run. Vblanks, commits, hotplug and
  session switches promise nothing, so liveness does not rest on clients or hardware.
* `Desktop`: the watcher's thread and the loops of the two threads go on; the user, the
  clients and the file promise nothing.
* `Outputs`: the idle of `start_outputs` runs. Layouts, connectors and XWayland promise
  nothing.
* `WaylandSocket`: each running loop goes on, and serves a source that is ready again and
  again, as a level-triggered poll does. Clients promise nothing, so `EveryEndIsTold` has
  a premise: from some time on, no client sends while it is read (`LoopIsReleased`).
  Each client connects once, so the loop that accepts comes to its end.
* `DisplaySocket`: the thread goes on. That a dispatch serves the channel as well as the
  socket is not assumed but in the model (`due`). It is the read that never returns, not an unfair loop, that violates
  `ShutdownStops`.
* `Keyboard`, `SeatSession`, `Windows`, `SessionLock`, `Grabs`, `Seat` and `Devices` have
  safety properties only and assume no fairness. Where something must happen "in the end",
  they state it of the states with no event left (`InputFollowsDevices`,
  `OutputsAreDriven`, `DisplaysAreKnown`).

## The proofs

All theorems hold for every value of the constants under the named assumptions of the
modules (`RankAssumption`, `KeymapsAssumption`, `KeyboardAssumption`,
`SeatSessionAssumption`, `SchedulerAssumption`, `CapturesAssumption`, `DevicesAssumption`,
`OutputsAssumption`,
`SeatAssumption`, `WindowsAssumption`, `SessionLockAssumption`, `DesktopAssumption`,
`GrabsAssumption`, `SocketAssumption`), which only give the constants their types, keep
values apart that the code keeps apart, and say that there are finitely many windows,
outputs, devices and connectors. Each proof has the same plan: an inductive invariant,
which TLC checked first, holds initially and is kept by each action, and implies the
properties.

* `ThreadsProofs`: `IInv` adds to the properties where in the shutdown main is (`Progress`)
  and who was already reached by the broadcast. `LifecycleSafety` is the refinement: each
  step is a step of `AppLifecycle` or a stutter.
* `KeymapsProofs`: the properties are not inductive alone. `InputIsFresh` says that what is
  under way to the input thread is registered, will not be forgotten, is younger than
  what the table holds and is in the order of registration; with it the callback that
  `Keymap` replaces differs from all that are under way, so forgetting it hurts nobody.
  `RunsAreBound` strengthens `NoDanglingRun` to callbacks of keys, which `OnStartup` does
  not remove, and `StartupIsKept` keeps forget messages away from the startup callback.
  `NoDanglingRun`, `BindingsAreLive`, `LastMapKeyWins`, `NoKeymapLeak` and
  `OneStartupCallback` follow.
* `SeatSessionProofs`: `PlainKeysAreFaithful` needs that a suppressed symbol is always one of
  a key map (`SuppressedIsMapped`), and holds of the session too, since each of its steps
  is a step of `Keyboard` (`SessionRunsKeyboard`). `InputFollows` and `SessionSound` rest
  on what libinput's queue leads to: the last event about a keyboard or a key says whether
  it is there or down in the end, and without one the input thread is right already
  (`Leads`, of keyboards in `BoardsFollow` and of keys in `KeysFollow`). No key is down
  on two keyboards (`HeldOnce`), so that the last words of one that closes take nothing
  from another, and the LEDs of a keyboard that is not to be added any more are right
  (`LampsFollow`). A queue is never run to its end: every event that is enqueued or
  handled keeps `Leads`.
* `UdevProofs`, of the renders: the invariant ties the flags of a surface to the idles and
  timers that are still to run, also those of earlier surfaces; the lost-update and the
  pending property are parts of it. Copies take only steps of
  the scheduler (`CapturesImplementScheduler`), so that its properties carry over.
* `UdevProofs`, of `Devices`: what holds of one device, whatever the others do, is
  `DeviceOK`: its surfaces and connectors for leases are those the last scan gave their
  crtcs (`ScanIsKept`), they are all the scan found but for what is dark (`UsesAll`), and
  its outputs are those of its surfaces (`Drives`). `RescanSound` shows that the events of a
  scan keep this, of the device and of all others, for any displays that come, go and change
  places at once; every handler then touches one device (`Handled`). What the queue of
  udev tells is a possible past of what is there: `Past(h)` has the devices that were
  there after each of its events, from those the program knows to those that are plugged
  in now, and handling an event moves the start of that history on. With it, and with
  `ScansAreFresh` for the connectors, `DisplaysKnown` and `OutputsDriven` follow.
  `DevicesSound` assumes that no two devices render with one node (`RendersAlone`):
  `device_removed` takes the renderer away from both (`udev.rs:1160`). Types and
  crtcs need no such assumption (`DevicesTyped`).
* `DisplayProofs`, of `Outputs`: what is mapped in a space was listed by its last layout
  (`MappedAreListed`), and an object that does not exist yet has no space
  (`ObjectsAreCounted`). `RenderFinds` and `NotInTwoSpaces` follow, for layouts that agree
  or do not.
* `DisplayProofs`, of `Seat`: the code finds the surface under the pointer before and
  after a motion, and the invariant `SeatInv` says where the two agree. While a button is
  down the pointer's focus may lag behind what the pointer was last reported to, and what it
  was reported to is what is under it once it rests (`PointerFollows`); what is active is a
  constraint (`Kinds`). `ConstraintsHold`, `RestHasFocus`,
  `ClickGivesKeyboard` and `SeatSound` follow. `BoundStays` is inductive as it is. That the outputs have a width, a sum by
  recursion over them, is proved by induction over their number.
* `DesktopProofs`, of `Windows` and `SessionLock`: no window is twice in a stack
  (`StacksOnce`), each that is open is in one, and the space `Main` stays (`WindowsInv`). On
  top of it the properties of the lock are inductive, as a step of the windows takes the
  keyboard from a lock surface only by giving it to a window (`KeyboardFollows`).
  `WindowsStay`, `LockSound`, `UnlockKeyboard` and `LockImplemented` follow. `FocusRound`:
  the focus key raises one window of the application after another, and those it has not
  raised yet are under those it has (`NextOfRound`), so that after as many presses as there
  are windows each was on top (`GoesRound`).
* `DesktopProofs`, of `Desktop`: what a file holds, or a report or path under way that will
  lead to it, is what runs last (`DesktopSound`). `ConfigIsSafe`: the zones that any script
  names are there, or a `set_zones` that sets them all is ahead of every call that needs
  them, in the channel (`DisplayPrepared`), in the idles (`IdlesPrepared`) and before any
  key can run a callback (`KeysPrepared`).
* `DesktopProofs`, the refinement `CallsImplemented`: the calls that are outstanding are the
  messages to the display followed by the idles. A call that goes from the idles into a
  channel, or from a channel to the display, leaves what all of them come to as it is
  (`CallGoes`, `MessageGoes`), one that is run adds its own to the end (`RunEffect`), and a
  spawned program leaves one request fewer (`OneFewer`). The effects are folds over sequences;
  `AfterConcat` and `CountConcat` say what they make of two sequences in a row, by
  induction over the length of the second.
* `GrabsProofs`: every grab that moves or resizes has a window (`GrabsHaveWindows`); the
  resize state on which commits are anchored is that of the grab, until something else
  places the window (`ResizeIsAnchored`); and what nothing places stays, until the first
  request, where the press saw it, which is where the grab of that request starts from
  (`HoldIsKept`). `GrabsSound`, `RightEdgeIsKept`, `MaximizingIsUndone` and
  `MovesFollowPointer` follow.
* `WaylandSocketProofs`: identifiers in use are behind the counter (`IdsAreBehind`), a loop
  that is with a client runs (`OnlyRunningWork`), and nothing is left of a client that
  has ended (`EndedIsOver`), from which `UniqueIds`, `Reachable` and the refinement
  `StreamsImplemented` follow.

`TypeCorrect` of several modules, `OrdersAreUnique`, `TableIsLive`, `StartupIsUnique`,
`StartupIsOnce` and `UniqueIds` are proved and have no run of their own. Where a proof
needs induction over a number, it takes the least counterexample (`Least`, `Induction`).

Only model-checked: liveness (the liveness half of `Lifecycle`, `OldBindingsVanish`,
`CopiesAreAnswered`, `StartupFollows`, `ThingsSettle`, `EveryEndIsTold`), which needs
fairness and ENABLED and so is out of TLAPS's reach; and the violation.

## Not modelled

Pointer, touch and tablet events of the input thread are `todo!()`. Vulkan, drawing, egui,
decorations (the header bar of `ssd.rs` is never shown), D-Bus serialisation, code
generation and the C bindings have no protocol state of their own. The video streams
follow callbacks of PipeWire for sessions that the portal code never fills in.

The winit backend is not built, and its first `run_tick`, which is due in the same dispatch
as the timer that inserts its output (`winit.rs:197-219`), unwraps an `ActiveSpace` (326)
that only a later `set_layout` could set: there is no behaviour after it.

In the parts that are modelled: popups with their grabs and input methods; fullscreen of
xdg toplevels, which sets a state and a size and never a location; the debug window;
`close_current_window`, `toggle_debug_ui`, `start_video_stream`, `quit` and `ExtraEnv` in
`Desktop`; presentation feedback, damage, buffers and the choice of a mode. Locked
modifiers and the order of hash maps beyond "any order" are not distinguished.
At this commit nothing calls `process_input_event` of `input_handler.rs` (winit has its windowed
variant); the keys of udev come as `DisplayMessage::KeyboardInput`.

## Plan

1. Every safety property that a run checks is a theorem. What can still be proved is
   about the modules together: that the steps of `RenderScheduler` on surfaces are
   those of `Devices` on crtcs, and that the `Startup` of `Outputs` is the one of `Keymaps`.
2. Popups and their grabs in `Seat`, with the keyboard grab of an input method.
3. The embedder of `wayland-protocol` once the display has one, with `DisplaySocket`
   replaced by it; the seat's events once the input thread sends more than keys.
