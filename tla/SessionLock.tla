---------------------------- MODULE SessionLock -----------------------------
(***************************************************************************)
(* The session lock of scape-display (protocols/ext_session_lock.rs) over  *)
(* the windows of Windows.tla: clients that ask for the lock, show their   *)
(* surface on each output, unlock or die, while windows come and go and    *)
(* keys and messages run actions.  The keyboard is with a window or with a *)
(* lock surface; "focus" is NoWindow while a lock surface has it.          *)
(*                                                                         *)
(* A client that is refused destroys its lock; smithay hands over the      *)
(* requests of the lock that was granted only.                             *)
(***************************************************************************)
EXTENDS Windows

CONSTANTS
  Locker,    \* clients that may lock the session
  NoLocker,
  Output

ASSUME SessionLockAssumption == NoLocker \notin Locker

VARIABLES
  holder,    \* the client of State.session_lock
  surfaces,  \* session_lock.surfaces: the outputs and whose surface they have
  lockFocus, \* the client whose lock surface has the keyboard
  alive      \* the clients that are connected

lockVars == <<holder, surfaces, lockFocus, alive>>
allVars == <<vars, lockVars>>

LockInit ==
  /\ Init
  /\ holder = NoLocker
  /\ surfaces = [o \in Output |-> NoLocker]
  /\ lockFocus = NoLocker
  /\ alive = Locker

\* SessionLockHandler::lock: refused while the holder is connected.
MayLockAlways == TRUE
MayLock == holder = NoLocker \/ holder \notin alive

\* A lock that keeps the surfaces of the client before.
LockKeeps(c) ==
  /\ c \in alive
  /\ MayLock
  /\ holder' = c
  /\ UNCHANGED <<vars, surfaces, lockFocus, alive>>

Lock(c) ==
  /\ c \in alive
  /\ MayLock
  /\ holder' = c
  /\ surfaces' = [o \in Output |-> NoLocker]
  /\ UNCHANGED <<vars, lockFocus, alive>>

\* new_surface: the keyboard goes to every new surface.
NewSurface(o) ==
  /\ holder \in alive
  /\ surfaces' = [surfaces EXCEPT ![o] = holder]
  /\ focus' = NoWindow
  /\ lockFocus' = holder
  /\ UNCHANGED <<spaces, first, stack, life, appId, zoneVars, panicked, holder, alive>>

\* unlock: the keyboard goes to the top window of the first space, if any.
UnlockOnly ==
  /\ holder \in alive
  /\ holder' = NoLocker
  /\ surfaces' = [o \in Output |-> NoLocker]
  /\ UNCHANGED <<vars, lockFocus, alive>>

Unlock ==
  /\ holder \in alive
  /\ holder' = NoLocker
  /\ surfaces' = [o \in Output |-> NoLocker]
  /\ IF stack[first] = <<>>
       THEN UNCHANGED <<focus, lockFocus>>
       ELSE focus' = Top(stack[first]) /\ lockFocus' = NoLocker
  /\ UNCHANGED <<spaces, first, stack, life, appId, zoneVars, panicked, alive>>

LockerDies(c) ==
  /\ c \in alive
  /\ alive' = alive \ {c}
  /\ UNCHANGED <<vars, holder, surfaces, lockFocus>>

\* A step of the windows takes the keyboard from a lock surface if it gives
\* it to a window.
KeyboardFollows ==
  /\ lockFocus' = IF focus' = NoWindow THEN lockFocus ELSE NoLocker
  /\ UNCHANGED <<holder, surfaces, alive>>

\* Action::Tab: the window at this place from the top.
Tab(index) ==
  /\ index < Len(stack[first])
  /\ FocusWindow(first, stack[first][Len(stack[first]) - index])

\* execute: no action runs in a locked session.
ExecuteAction ==
  /\ holder = NoLocker
  /\ \/ \E z \in Zone : MoveCurrentWindowToZone(z)
     \/ \E a \in App : FocusWindowByAppId(a)
     \/ \E index \in 0 .. Cardinality(Window) : Tab(index)

LockNext ==
  /\ ~panicked
  /\ \/ (Client \/ User \/ Config \/ Refresh \/ ExecuteAction) /\ KeyboardFollows
     \/ \E c \in Locker : Lock(c) \/ LockerDies(c)
     \/ \E o \in Output : NewSurface(o)
     \/ Unlock

LockSpec == LockInit /\ [][LockNext]_allVars
-----------------------------------------------------------------------------
\* What holds of every state, locked or not: types; a space has a window once; lock
\* surfaces are the holder's, and one with the keyboard leaves none to a window.
LockIsSound ==
  /\ TypeOK
  /\ NoDuplicates
  /\ holder \in Locker \cup {NoLocker} /\ lockFocus \in Locker \cup {NoLocker} /\ alive \subseteq Locker
  /\ \A o \in Output : surfaces[o] \in {holder, NoLocker}
  /\ lockFocus # NoLocker => focus = NoWindow

\* The lock keeps its promise (LockHolder), whatever windows and actions do.
Holder == INSTANCE LockHolder WITH Client <- Locker, NoClient <- NoLocker
LockPromise == Holder!Spec

(***************************************************************************)
(* An unlocked session is one that can be used: when there are windows, no *)
(* surface of a lock that has ended keeps the keyboard, in whatever order  *)
(* windows came and went while it was locked, and whoever took the lock    *)
(* over from a client that died.  With several spaces the code looks in    *)
(* one of them only ("TODO: Handle multiple spaces").                      *)
(***************************************************************************)
UnlockGivesKeyboard ==
  holder = NoLocker /\ spaces = {Main} /\ stack[Main] # <<>> => lockFocus = NoLocker
=============================================================================
