-------------------------------- MODULE Seat --------------------------------
(***************************************************************************)
(* Pointer, keyboard, focus and key repeat (proxy/seat.c, the focus part   *)
(* and qwswl_destroy_window() of proxy/window.c) while windows come and    *)
(* go.  The compositor's events are under way in `wire'; the proxy         *)
(* dispatches them one at a time in its main loop and inside the roundtrip *)
(* of qwswl_destroy_window(), when the window is half destroyed.           *)
(*                                                                         *)
(* A window is the memory qwswl_window_t lies in: once freed it may be     *)
(* allocated anew.  libwayland passes NULL for a surface that has been     *)
(* destroyed when the event that names it is dispatched, and drops events  *)
(* to an object that has been destroyed.  All windows are toplevels and    *)
(* all keys repeat: children only get fewer events, and other keys do not  *)
(* touch the timer.                                                        *)
(***************************************************************************)
EXTENDS Naturals, Sequences

CONSTANTS Window, Client, Key,
          NoWindow, NoKey,
          Owner,            \* the client of each window
          Server,           \* the compositors the proxy may run under
          MaxWire           \* bound on the events under way

ASSUME SeatAssumption ==
  /\ NoWindow \notin Window
  /\ NoKey \notin Key
  /\ Owner \in [Window -> Client]
  /\ Server \subseteq [qtShell : BOOLEAN, leaves : BOOLEAN]
  /\ MaxWire \in Nat

VARIABLES
  server,     \* the compositor: whether it offers zqt_shell_v1, so that
              \* toplevels are not xdg_toplevels, and whether it sends leave
              \* events for a focused surface that is destroyed
  surface,    \* windows that have a wl_surface
  pointer,    \* pointer_state.win
  kbd,        \* kbd_state.win
  repeat,     \* kbd_state.repeat_key, whose timer runs; NoKey: disarmed
  focused,    \* focused_window
  belief,     \* the window each client takes to be focused
  doomed,     \* the window qwswl_destroy_window() is in the roundtrip for
  fault,      \* why the process died, if it did: an enter event or input
              \* that found no window
  wire,       \* events from the compositor, oldest first
  shown,      \* compositor: the surfaces it knows
  pfocus,     \* compositor: the surface with the pointer
  kfocus,     \* compositor: the surface with the keyboard
  active,     \* compositor: the activated xdg_toplevel
  held,       \* the keys the user holds down
  pressedIn,  \* ghost: the window that got the press of `repeat'
  astray,     \* ghost: a window got a repeat of a key it got no press of
  reused      \* ghost: a window was freed with focused_window naming it

proxy == <<server, surface, pointer, kbd, repeat, focused, belief, doomed,
           fault, pressedIn, astray, reused>>
compositor == <<shown, pfocus, kfocus, active, held>>
vars == <<proxy, wire, compositor>>

\* The events: a surface gets or loses the pointer or the keyboard, a toplevel
\* is activated or not, a key goes down or up; pointer events of the surface
\* that was entered last, and the answer that ends a roundtrip.
Device == {"pointer", "keyboard"}
Event ==
  [type : {"enter", "leave"}, device : Device, win : Window]
    \cup [type : {"configure"}, win : Window, on : BOOLEAN]
    \cup [type : {"key"}, key : Key, on : BOOLEAN]
    \cup [type : {"motion", "press", "done"}]

NamesWindow(e) == e.type \in {"enter", "leave", "configure"}

Enter(d, w) == [type |-> "enter", device |-> d, win |-> w]
Leave(d, w) == [type |-> "leave", device |-> d, win |-> w]
Configure(w, on) == [type |-> "configure", win |-> w, on |-> on]
KeyEvent(k, on) == [type |-> "key", key |-> k, on |-> on]
Plain(type) == [type |-> type]

Init ==
  /\ server \in Server
  /\ surface = {} /\ shown = {}
  /\ pointer = NoWindow /\ kbd = NoWindow
  /\ repeat = NoKey
  /\ focused = NoWindow
  /\ belief = [c \in Client |-> NoWindow]
  /\ doomed = NoWindow
  /\ fault = "none"
  /\ wire = <<>>
  /\ pfocus = NoWindow /\ kfocus = NoWindow /\ active = NoWindow
  /\ held = {}
  /\ pressedIn = NoWindow /\ astray = FALSE /\ reused = FALSE

Running == fault = "none"

----------------------------------------------------------------------------
(* Focus. *)

\* A focus event reaches the client that owns the window; a client ignores
\* events for a window it has destroyed.  Gaining the focus in one window is
\* losing it in the client's others.
Told(w, gain) ==
  IF w = doomed THEN belief
  ELSE [belief EXCEPT ![Owner[w]] = IF gain THEN w
                                    ELSE IF @ = w THEN NoWindow ELSE @]

\* Mutant of SetFocus: the new window is stored before it is compared.
SetFocusStoredFirst(w, gain, fromSeat) ==
  /\ focused' = IF gain THEN w ELSE IF focused = w THEN NoWindow ELSE focused
  /\ UNCHANGED belief

\* qwswl_window_set_focus(): nothing happens when it says what is so already,
\* nor when the keyboard leaves an xdg_toplevel, whose configure event tells.
SetFocus(w, gain, fromSeat) ==
  \/ /\ \/ fromSeat /\ ~gain /\ ~server.qtShell
        \/ gain = (focused = w)
     /\ UNCHANGED <<focused, belief>>
  \/ /\ ~(fromSeat /\ ~gain /\ ~server.qtShell)
     /\ gain # (focused = w)
     /\ focused' = IF gain THEN w ELSE NoWindow
     /\ belief' = Told(w, gain)

----------------------------------------------------------------------------
(* Dispatching the compositor's events. *)

Receive(type) ==
  /\ Running
  /\ wire # <<>> /\ Head(wire).type = type
  /\ wire' = Tail(wire)
  /\ UNCHANGED <<server, surface, doomed, compositor, reused>>

Dies(how) ==
  /\ fault' = how
  /\ UNCHANGED <<pointer, kbd, repeat, focused, belief, pressedIn, astray>>

\* The window of the surface an event names; NULL if that was destroyed.
Named == IF Head(wire).win \in surface THEN Head(wire).win ELSE NoWindow

PointerEnter ==
  /\ Receive("enter") /\ Head(wire).device = "pointer"
  /\ \/ Named = NoWindow /\ Dies("enter")
     \/ /\ Named # NoWindow
        /\ pointer' = Named
        /\ UNCHANGED <<kbd, repeat, focused, belief, fault, pressedIn, astray>>

PointerLeave ==
  /\ Receive("leave") /\ Head(wire).device = "pointer"
  /\ pointer' = NoWindow
  /\ UNCHANGED <<kbd, repeat, focused, belief, fault, pressedIn, astray>>

\* pointer_motion(), pointer_axis(), and pointer_button() for a release: each
\* sends the window's client an event.
PointerMotion ==
  /\ Receive("motion")
  /\ \/ pointer = NoWindow /\ Dies("input")
     \/ /\ pointer # NoWindow
        /\ UNCHANGED <<pointer, kbd, repeat, focused, belief, fault, pressedIn,
                       astray>>

\* pointer_button() for a press: a click focuses the window.
PointerPress ==
  /\ Receive("press")
  /\ \/ pointer = NoWindow /\ Dies("input")
     \/ /\ pointer # NoWindow
        /\ SetFocus(pointer, TRUE, TRUE)
        /\ UNCHANGED <<pointer, kbd, repeat, fault, pressedIn, astray>>

KeyboardEnter ==
  /\ Receive("enter") /\ Head(wire).device = "keyboard"
  /\ \/ Named = NoWindow /\ Dies("enter")
     \/ /\ Named # NoWindow
        /\ kbd' = Named
        /\ SetFocus(Named, TRUE, TRUE)
        /\ UNCHANGED <<pointer, repeat, fault, pressedIn, astray>>

\* Mutant of KeyboardLeave: the timer is left running.
KeyboardLeaveArmed ==
  /\ Receive("leave") /\ Head(wire).device = "keyboard"
  /\ kbd' = NoWindow
  /\ \/ Named = NoWindow /\ UNCHANGED <<focused, belief>>
     \/ Named # NoWindow /\ SetFocus(Named, FALSE, TRUE)
  /\ UNCHANGED <<pointer, repeat, fault, pressedIn, astray>>

KeyboardLeave ==
  /\ Receive("leave") /\ Head(wire).device = "keyboard"
  /\ kbd' = NoWindow
  /\ repeat' = NoKey
  /\ pressedIn' = NoWindow
  /\ \/ Named = NoWindow /\ UNCHANGED <<focused, belief>>
     \/ Named # NoWindow /\ SetFocus(Named, FALSE, TRUE)
  /\ UNCHANGED <<pointer, fault, astray>>

\* Mutant of KeyboardKey: any release is taken for that of another key.
KeyboardKeyPressOnly ==
  /\ Receive("key")
  /\ \/ kbd = NoWindow /\ Dies("input")
     \/ /\ kbd # NoWindow
        /\ repeat' = IF Head(wire).on THEN Head(wire).key ELSE repeat
        /\ pressedIn' = IF Head(wire).on THEN kbd ELSE pressedIn
        /\ UNCHANGED <<pointer, kbd, focused, belief, fault, astray>>

\* A press arms the timer anew; only the release of the repeating key stops it.
KeyboardKey ==
  /\ Receive("key")
  /\ \/ kbd = NoWindow /\ Dies("input")
     \/ /\ kbd # NoWindow
        /\ \/ /\ Head(wire).on
              /\ repeat' = Head(wire).key
              /\ pressedIn' = kbd
           \/ /\ ~Head(wire).on /\ Head(wire).key = repeat
              /\ repeat' = NoKey
              /\ pressedIn' = NoWindow
           \/ /\ ~Head(wire).on /\ Head(wire).key # repeat
              /\ UNCHANGED <<repeat, pressedIn>>
        /\ UNCHANGED <<pointer, kbd, focused, belief, fault, astray>>

\* xdg_toplevel_configure(); the event is dropped if the toplevel is gone.
ToplevelConfigure ==
  /\ Receive("configure")
  /\ \/ Named = NoWindow /\ UNCHANGED <<focused, belief>>
     \/ Named # NoWindow /\ SetFocus(Named, Head(wire).on, FALSE)
  /\ UNCHANGED <<pointer, kbd, repeat, fault, pressedIn, astray>>

Dispatch ==
  \/ PointerEnter \/ PointerLeave \/ PointerMotion \/ PointerPress
  \/ KeyboardEnter \/ KeyboardLeave \/ KeyboardKey \/ ToplevelConfigure

----------------------------------------------------------------------------
(* The main loop: one thing at a time, and not inside a roundtrip. *)

InLoop == Running /\ doomed = NoWindow

\* qwswl_keyboard_repeat_tick()
RepeatTick ==
  /\ InLoop
  /\ repeat # NoKey /\ kbd # NoWindow
  /\ astray' = (astray \/ kbd # pressedIn)
  /\ UNCHANGED <<server, surface, pointer, kbd, repeat, focused, belief, doomed,
                 fault, pressedIn, reused, wire, compositor>>

\* A client's first repaint of a window: qwswl_create_window(), which returns
\* when the compositor knows the surface.  A new xdg_toplevel is configured.
CreateWindow(w) ==
  /\ InLoop
  /\ w \notin surface
  /\ Len(wire) < MaxWire
  /\ surface' = surface \cup {w}
  /\ shown' = shown \cup {w}
  /\ wire' = IF server.qtShell THEN wire ELSE Append(wire, Configure(w, FALSE))
  /\ UNCHANGED <<server, pointer, kbd, repeat, focused, belief, doomed, fault,
                 pressedIn, astray, reused, pfocus, kfocus, active, held>>

\* qwswl_destroy_window() up to its roundtrip.
BeginDestroy(w) ==
  /\ InLoop
  /\ w \in surface
  /\ doomed' = w
  /\ surface' = surface \ {w}
  /\ focused' = IF focused = w THEN NoWindow ELSE focused
  /\ belief' = [belief EXCEPT ![Owner[w]] = IF @ = w THEN NoWindow ELSE @]
  /\ UNCHANGED <<server, pointer, kbd, repeat, fault, pressedIn, astray, reused,
                 wire, compositor>>

\* The rest of it, whatever is under way.
Free(w) ==
  /\ doomed' = NoWindow
  /\ pointer' = IF pointer = w THEN NoWindow ELSE pointer
  /\ kbd' = IF kbd = w THEN NoWindow ELSE kbd
  /\ reused' = (reused \/ focused = w)
  /\ UNCHANGED <<server, surface, repeat, focused, belief, fault, pressedIn,
                 astray, compositor>>

\* Mutants of EndDestroy: the compositor is not waited for; the keyboard's
\* window is not reset.
EndDestroyAtOnce ==
  /\ Running /\ doomed # NoWindow
  /\ Free(doomed)
  /\ UNCHANGED wire

EndDestroyKeepingKbd ==
  /\ Running /\ doomed # NoWindow
  /\ wire # <<>> /\ Head(wire).type = "done"
  /\ wire' = Tail(wire)
  /\ doomed' = NoWindow
  /\ pointer' = IF pointer = doomed THEN NoWindow ELSE pointer
  /\ reused' = (reused \/ focused = doomed)
  /\ UNCHANGED <<server, surface, kbd, repeat, focused, belief, fault,
                 pressedIn, astray, compositor>>

EndDestroy ==
  /\ Running /\ doomed # NoWindow
  /\ wire # <<>> /\ Head(wire).type = "done"
  /\ wire' = Tail(wire)
  /\ Free(doomed)

----------------------------------------------------------------------------
(* The compositor, which knows nothing of the proxy's state but its        *)
(* requests, and the user.                                                 *)

Sends(events) ==
  /\ Running
  /\ Len(wire) + Len(events) <= MaxWire
  /\ wire' = wire \o events
  /\ UNCHANGED proxy

\* The events that tell of a focus that goes from one surface to another.
FocusEvents(device, from, to) ==
  (IF from = NoWindow THEN <<>> ELSE <<Leave(device, from)>>)
    \o (IF to = NoWindow THEN <<>> ELSE <<Enter(device, to)>>)

MovePointer(w) ==
  /\ w \in shown \cup {NoWindow} /\ w # pfocus
  /\ Sends(FocusEvents("pointer", pfocus, w))
  /\ pfocus' = w
  /\ UNCHANGED <<shown, kfocus, active, held>>

UsePointer ==
  /\ pfocus # NoWindow
  /\ \E type \in {"motion", "press"} : Sends(<<Plain(type)>>)
  /\ UNCHANGED compositor

MoveKeyboard(w) ==
  /\ w \in shown \cup {NoWindow} /\ w # kfocus
  /\ Sends(FocusEvents("keyboard", kfocus, w))
  /\ kfocus' = w
  /\ UNCHANGED <<shown, pfocus, active, held>>

UseKey(k) ==
  /\ held' = IF k \in held THEN held \ {k} ELSE held \cup {k}
  /\ Sends(IF kfocus = NoWindow THEN <<>> ELSE <<KeyEvent(k, k \notin held)>>)
  /\ UNCHANGED <<shown, pfocus, kfocus, active>>

Activate(w) ==
  /\ ~server.qtShell
  /\ w \in shown \cup {NoWindow} /\ w # active
  /\ Sends((IF active = NoWindow THEN <<>> ELSE <<Configure(active, FALSE)>>)
             \o (IF w = NoWindow THEN <<>> ELSE <<Configure(w, TRUE)>>))
  /\ active' = w
  /\ UNCHANGED <<shown, pfocus, kfocus, held>>

\* The surface is destroyed, and the roundtrip's callback answered.
SurfaceDestroyed ==
  LET leave(device, focus) ==
        IF server.leaves /\ focus = doomed
        THEN FocusEvents(device, focus, NoWindow) ELSE <<>>
      without(focus) == IF focus = doomed THEN NoWindow ELSE focus
  IN
  /\ Running
  /\ doomed \in shown
  /\ shown' = shown \ {doomed}
  /\ wire' = wire \o leave("pointer", pfocus) \o leave("keyboard", kfocus)
               \o <<Plain("done")>>
  /\ pfocus' = without(pfocus)
  /\ kfocus' = without(kfocus)
  /\ active' = without(active)
  /\ UNCHANGED <<held, proxy>>

----------------------------------------------------------------------------
Next ==
  \/ Dispatch
  \/ RepeatTick
  \/ \E w \in Window : CreateWindow(w) \/ BeginDestroy(w)
  \/ EndDestroy
  \/ \E w \in Window \cup {NoWindow} :
       MovePointer(w) \/ MoveKeyboard(w) \/ Activate(w)
  \/ UsePointer
  \/ \E k \in Key : UseKey(k)
  \/ SurfaceDestroyed

Spec == Init /\ [][Next]_vars

\* The proxy's loop dispatches what has arrived before it blocks, and the
\* compositor answers a roundtrip.
Fairness ==
  WF_vars(Dispatch) /\ WF_vars(EndDestroy) /\ WF_vars(SurfaceDestroyed)

FairSpec == Spec /\ Fairness

----------------------------------------------------------------------------
(* Properties. *)

\* The type invariant; its first conjunct says that the seat never names a
\* window that has been freed (window.c:886-890).
TypeOK ==
  /\ server \in Server
  /\ {pointer, kbd} \subseteq surface \cup {doomed, NoWindow}
  /\ surface \subseteq Window
  /\ shown \subseteq Window
  /\ repeat \in Key \cup {NoKey}
  /\ {focused, doomed, pfocus, kfocus, active, pressedIn}
       \subseteq Window \cup {NoWindow}
  /\ belief \in [Client -> Window \cup {NoWindow}]
  /\ fault \in {"none", "enter", "input"}
  /\ held \subseteq Key
  /\ astray \in BOOLEAN /\ reused \in BOOLEAN
  /\ wire \in Seq(Event)

\* Once a window is destroyed nothing that names it is under way: "make sure
\* that the compositor processes all events regarding this window, so that we
\* won't receive any stray events anymore" (window.c:866).
NoStrayEvents ==
  \A i \in DOMAIN wire :
    NamesWindow(wire[i]) => wire[i].win \in surface \cup {doomed}

\* Motion, button and key events find a window to go to (seat.c:39, 134, 413),
\* and a key's repeats go to the window that got its press and to no other, if
\* the compositor sends leave events for surfaces that are destroyed: nothing
\* else stops the timer then (seat.c:482).
InputStaysHome == fault # "input" /\ (server.leaves => ~astray)

\* The window the proxy takes to be focused is one its client was told has
\* the focus (window.c:1003-1016), unless it is one that took the memory of
\* a freed window with the focus.
FocusIsTold ==
  (focused # NoWindow /\ focused # doomed /\ ~reused) =>
    belief[Owner[focused]] = focused

\* A key the user has let go of stops repeating, if it is not pressed again
\* and the compositor sends those leave events.
RepeatStops ==
  \A k \in Key :
    (server.leaves /\ repeat = k /\ k \notin held)
      ~> (repeat # k \/ k \in held \/ ~Running)

\* The assertions in pointer_enter() and keyboard_enter() (seat.c:93, 466):
\* "assert(win)", a surface that is entered has a window.
EntersFindWindow == fault # "enter"
=============================================================================
