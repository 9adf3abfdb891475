------------------------------- MODULE Globals -------------------------------
(***************************************************************************)
(* From the start of the proxy to its end, as far as the compositor's      *)
(* globals are concerned: qwswl_init(), registry_global(), seat_teardown() *)
(* and qwswl_shutdown() of proxy/lifecycle.c, seat_capabilities() of       *)
(* proxy/seat.c, and the objects of proxy/cursor.c.  The compositor        *)
(* announces its globals in any order; a seat comes and goes while the     *)
(* proxy runs, and so do its pointer and keyboard.                         *)
(*                                                                         *)
(* An object of the compositor is "inert" when what it stood for is gone:  *)
(* requests on it have no effect any more and no event comes from it.      *)
(* There is one seat at a time.                                            *)
(***************************************************************************)
EXTENDS Naturals, Sequences

CONSTANTS
    Offer,          \* the sets of globals a compositor may have
    Capability,     \* the sets of devices a seat may announce
    MaxChanges      \* bound on the changes of the seat and its devices

\* The globals that matter: "shell" is xdg_wm_base or zqt_shell_v1, "data" is
\* wl_data_device_manager, "shape" is wp_cursor_shape_manager_v1.
Global == {"compositor", "shm", "output", "shell", "seat", "data", "shape"}
Required == {"compositor", "shm", "output", "shell"}
Device == {"pointer", "keyboard"}

ASSUME GlobalsAssumption ==
  /\ Offer \subseteq SUBSET Global
  /\ Capability \subseteq SUBSET Device
  /\ MaxChanges \in Nat

\* What qwswl_init() makes after the globals are bound, in this order.  The
\* last is the epoll descriptors.
Steps == <<"cursor", "dir", "socket", "shm", "lock", "loop">>

VARIABLES
  phase,      \* where qwswl_init() is; "running": in qwswl_run()
  offer,      \* the globals the compositor has
  bound,      \* the globals the proxy has bound
  step,       \* how far qwswl_init() is in Steps
  seat,       \* state->wl_seat
  caps,       \* compositor: the devices of the seat
  announced,  \* the seat's capabilities have been announced
  pointer,    \* state->wl_pointer
  keyboard,   \* state->wl_keyboard
  xkb,        \* kbd_state.xkb_state
  repeating,  \* kbd_state.win is set and the repeat timer runs
  manager,    \* clipboard.manager
  device,     \* clipboard.device
  shape,      \* cursor.shape_device
  changes,    \* how often the seat or its devices have changed
  rude,       \* ghost: a keyboard was taken away during a repeat, without a leave
  crashed     \* what killed the process

startup == <<phase, offer, bound, step>>
input == <<seat, caps, announced, pointer, keyboard, xkb, repeating, changes, rude>>
data == <<manager, device>>
globals == <<startup, input, data, shape, crashed>>

InitGlobals ==
  /\ phase = "registry"
  /\ offer \in Offer
  /\ bound = {}
  /\ step = 1
  /\ seat = FALSE /\ caps = {} /\ announced = FALSE
  /\ pointer = "none" /\ keyboard = "none"
  /\ xkb = FALSE /\ repeating = FALSE
  /\ manager = FALSE /\ device = FALSE
  /\ shape = "none"
  /\ changes = 0 /\ rude = FALSE
  /\ crashed = "no"

Running == phase = "running" /\ crashed = "no"

----------------------------------------------------------------------------
(* The registry. *)

\* Mutant of ClipboardInit: the data device is made when the seat is bound.
ClipboardInitWithSeat(isSeat) ==
  device' = (device \/ (isSeat /\ manager' /\ seat'))

\* qwswl_clipboard_init(), when the seat or the manager has been bound.
ClipboardInit(isSeat) == device' = (device \/ (manager' /\ seat'))

\* registry_global(): the seat and the clipboard's manager.
BindSeat ==
  /\ seat' = TRUE
  /\ caps' = {} /\ announced' = FALSE
  /\ UNCHANGED manager
  /\ ClipboardInit(TRUE)

BindManager ==
  /\ manager' = TRUE
  /\ UNCHANGED <<seat, caps, announced>>
  /\ ClipboardInit(FALSE)

\* registry_global(), in the first roundtrip of qwswl_init().
Bind(g) ==
  /\ phase = "registry"
  /\ g \in offer \ bound
  /\ bound' = bound \cup {g}
  /\ CASE g = "seat" -> BindSeat
       [] g = "data" -> BindManager
       [] OTHER      -> UNCHANGED <<seat, caps, announced, data>>
  /\ UNCHANGED <<phase, offer, step, pointer, keyboard, xkb, repeating,
                 changes, rude, shape, crashed>>

\* The first roundtrip is over: what cannot be missed is looked for.
FirstRoundtrip ==
  /\ phase = "registry"
  /\ bound = offer
  /\ phase' = IF Required \subseteq bound THEN "listeners" ELSE "failed"
  /\ UNCHANGED <<offer, bound, step, input, data, shape, crashed>>

\* wl_output_mode() only counts when neither width nor height was given, so that
\* one without the other leaves a size unknown.
SizeKnown(width, height, mode) == (width /\ height) \/ (mode /\ ~width /\ ~height)

\* The second roundtrip brings the mode of the output and the capabilities of
\* the seat; then size and depth are checked.
SecondRoundtrip(width, height, mode, depth) ==
  /\ phase = "listeners"
  /\ seat => announced
  /\ phase' = IF SizeKnown(width, height, mode) /\ depth THEN "setup" ELSE "failed"
  /\ UNCHANGED <<offer, bound, step, input, data, shape, crashed>>

\* Mutant of ShapeDevice: the pointer is not looked for.
ShapeDeviceAnyway == shape' = IF "shape" \in bound THEN "live" ELSE "none"

\* qwswl_cursor_init(): the shape device is made here and nowhere else.
ShapeDevice ==
  shape' = IF "shape" \in bound /\ pointer # "none" THEN pointer ELSE "none"

\* qwswl_init() goes on: the cursor's surface, the display's directory and
\* fonts, its socket, its segment, its lock, and at last the epoll descriptors.
SetUp ==
  /\ phase = "setup"
  /\ step' = step + 1
  /\ phase' = IF Steps[step] = "loop" THEN "running" ELSE "setup"
  /\ IF Steps[step] = "cursor" THEN ShapeDevice ELSE UNCHANGED shape
  /\ UNCHANGED <<offer, bound, input, data, crashed>>

\* A step fails: qwswl_init() returns -1, and main() at once.
SetUpFails ==
  /\ phase = "setup"
  /\ phase' = "failed"
  /\ UNCHANGED <<offer, bound, step, input, data, shape, crashed>>

----------------------------------------------------------------------------
(* The seat. *)

\* What becomes of the object for a device when the seat's capabilities are C:
\* it is made when there is none; one whose device went away is kept, and also
\* when the device comes back.
Told(object, d, C) ==
  CASE d \in C /\ object = "none"    -> "live"
    [] d \notin C /\ object = "live" -> "inert"
    [] OTHER -> object

\* Mutant of Leave: the timer goes on.
LeaveArmed(C, leaves) == repeating' = repeating

\* What a compositor that takes the keyboard away, if it is not in C, does first:
\* keyboard_leave() stops the timer, but it need not let the keyboard leave.
Leave(C, leaves) == repeating' = (repeating /\ ~("keyboard" \notin C /\ leaves))

Taken(C, leaves) == rude' = (rude \/ (repeating /\ "keyboard" \notin C /\ ~leaves))

\* keyboard_keymap(): a new keyboard announces its keymap, and xkb_state is made.
Keymap == xkb' = (xkb \/ keyboard' = "live")

\* seat_capabilities().
Capabilities(C, leaves) ==
  /\ phase = "listeners" \/ Running
  /\ seat
  /\ announced => C # caps /\ changes < MaxChanges
  /\ caps' = C
  /\ announced' = TRUE
  /\ changes' = IF announced THEN changes + 1 ELSE changes
  /\ pointer' = Told(pointer, "pointer", C)
  /\ keyboard' = Told(keyboard, "keyboard", C)
  /\ Keymap
  /\ Leave(C, leaves) /\ Taken(C, leaves)
  /\ shape' = IF "pointer" \notin C /\ shape = "live" THEN "inert" ELSE shape
  /\ UNCHANGED <<startup, seat, data, crashed>>

\* seat_teardown(): what the seat's objects held is freed, but kbd_state.win and
\* the timer stay.  The clipboard's manager is destroyed as well.
Teardown ==
  /\ seat' = FALSE
  /\ caps' = {} /\ announced' = FALSE
  /\ pointer' = "none" /\ keyboard' = "none"
  /\ xkb' = FALSE
  /\ manager' = FALSE /\ device' = FALSE

\* registry_global_remove() for the seat.
Unplug(leaves) ==
  /\ Running
  /\ seat
  /\ changes < MaxChanges
  /\ Teardown
  /\ Leave({}, leaves) /\ Taken({}, leaves)
  /\ shape' = IF shape = "live" THEN "inert" ELSE shape
  /\ changes' = changes + 1
  /\ UNCHANGED <<startup, crashed>>

\* registry_global() for a seat that appears later.
Plug ==
  /\ Running
  /\ ~seat
  /\ BindSeat
  /\ UNCHANGED <<startup, pointer, keyboard, xkb, repeating, changes, rude,
                 shape, crashed>>

\* A key that repeats goes down in a window, or up again.
Key(down) ==
  /\ Running
  /\ keyboard = "live" /\ announced
  /\ repeating # down
  /\ repeating' = down
  /\ UNCHANGED <<startup, seat, caps, announced, pointer, keyboard, xkb, changes,
                 rude, data, shape, crashed>>

\* qwswl_keyboard_repeat_tick() asks xkb_state for the modifiers, there or not.
Tick ==
  /\ Running
  /\ repeating
  /\ ~xkb
  /\ crashed' = "tick"
  /\ UNCHANGED <<startup, input, data, shape>>

----------------------------------------------------------------------------
(* Cursors. *)

\* Where qwswl_cursor_select() sends a cursor, if there is a pointer: a blank
\* cursor and a bitmap go to the pointer, a named shape to the shape device if
\* there is one.
CursorObject(kind) ==
  IF kind = "named" /\ shape # "none" THEN shape ELSE pointer

----------------------------------------------------------------------------
(* The end. *)

\* qwswl_run() returns when loop_epoll_fd is closed or the compositor gone, and
\* qwswl_shutdown() runs.
ShutDown ==
  /\ Running
  /\ phase' = "down"
  /\ Teardown
  /\ shape' = "none"
  /\ UNCHANGED <<offer, bound, step, repeating, changes, rude, crashed>>

----------------------------------------------------------------------------
\* All of this but Unplug and ShutDown, which take the clipboard with them.
NextGlobals ==
  \/ \E g \in Global : Bind(g)
  \/ FirstRoundtrip
  \/ \E width, height, mode, depth \in BOOLEAN :
       SecondRoundtrip(width, height, mode, depth)
  \/ SetUp \/ SetUpFails
  \/ \E C \in Capability, leaves \in BOOLEAN : Capabilities(C, leaves)
  \/ Plug
  \/ \E down \in BOOLEAN : Key(down)
  \/ Tick

----------------------------------------------------------------------------
GlobalsTypeOK ==
  /\ phase \in {"registry", "listeners", "setup", "running", "failed", "down"}
  /\ offer \in Offer /\ bound \subseteq offer
  /\ step \in 1 .. Len(Steps) + 1
  /\ seat \in BOOLEAN /\ caps \in Capability \cup {{}} /\ announced \in BOOLEAN
  /\ {pointer, keyboard, shape} \subseteq {"none", "live", "inert"}
  /\ {xkb, repeating, manager, device, rude} \subseteq BOOLEAN
  /\ changes \in 0 .. MaxChanges
  /\ crashed \in {"no", "tick", "set"}

\* Whatever the order in which the compositor announces them, a seat and a
\* clipboard manager have got a data device, and the first seat has one if the
\* compositor has both (the comment in registry_global() has its doubts).
ClipboardReady ==
  /\ manager /\ seat => device
  /\ phase = "running" /\ changes = 0 /\ {"seat", "data"} \subseteq offer => device

\* Until the seat changes, every cursor goes to an object that the compositor
\* heeds; and the shape device is never that of an older pointer.
CursorReaches ==
  /\ Running /\ pointer # "none" /\ changes = 0 =>
       \A kind \in {"blank", "named", "bitmap"} : CursorObject(kind) = "live"
  /\ shape = "live" => pointer = "live"

\* A key repeats only while its keyboard is there and can be asked for the
\* modifiers, unless a compositor took the keyboard without letting it leave.
NoGhostRepeats ==
  (Running /\ repeating) \/ crashed = "tick" =>
    (keyboard = "live" /\ xkb) \/ rude

=============================================================================
