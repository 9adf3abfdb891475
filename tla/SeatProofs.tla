----------------------------- MODULE SeatProofs -----------------------------
(***************************************************************************)
(* Theorems about Seat: the seat refers to windows that exist, the         *)
(* roundtrip in qwswl_destroy_window() leaves no event of the window under *)
(* way, clients are told of the focus, and input finds the window it is    *)
(* for: what is under way leads each device from where the proxy has it to *)
(* where the compositor has it.                                            *)
(***************************************************************************)
EXTENDS Seat, SequenceTheorems, TLAPS

USE SeatAssumption

IsDone(e) == e.type = "done"

\* The compositor knows no surface but the proxy's and the doomed one, and has
\* its focuses among those it knows.
KnownSurfaces ==
  /\ shown \subseteq surface \cup {doomed}
  /\ {pfocus, kfocus, active} \subseteq shown \cup {NoWindow}

\* The answer of a roundtrip: there is one at most, it is sent when the
\* compositor has forgotten the doomed surface, and nothing behind it names it.
AnswerIsLast ==
  /\ \A i, j \in DOMAIN wire : IsDone(wire[i]) /\ IsDone(wire[j]) => i = j
  /\ \A i \in DOMAIN wire :
       IsDone(wire[i]) =>
         /\ doomed # NoWindow /\ doomed \notin shown
         /\ \A j \in DOMAIN wire :
              (i < j /\ NamesWindow(wire[j])) => wire[j].win # doomed

IInv == TypeOK /\ KnownSurfaces /\ NoStrayEvents /\ AnswerIsLast

----------------------------------------------------------------------------
(* Events and sequences of them. *)

LEMMA EventTypes ==
  /\ \A d \in Device, w \in Window :
       /\ Enter(d, w) \in Event /\ Leave(d, w) \in Event
       /\ ~IsDone(Enter(d, w)) /\ ~IsDone(Leave(d, w))
       /\ Enter(d, w).win = w /\ Leave(d, w).win = w
  /\ \A w \in Window, on \in BOOLEAN :
       /\ Configure(w, on) \in Event
       /\ ~IsDone(Configure(w, on)) /\ Configure(w, on).win = w
  /\ \A k \in Key, on \in BOOLEAN :
       /\ KeyEvent(k, on) \in Event
       /\ ~IsDone(KeyEvent(k, on)) /\ ~NamesWindow(KeyEvent(k, on))
  /\ \A type \in {"motion", "press", "done"} :
       /\ Plain(type) \in Event /\ ~NamesWindow(Plain(type))
       /\ IsDone(Plain(type)) <=> type = "done"
BY DEF Event, Device, Enter, Leave, Configure, KeyEvent, Plain, IsDone,
       NamesWindow

\* What an event carries.
LEMMA EventFields ==
  ASSUME NEW e \in Event
  PROVE  /\ NamesWindow(e) => e.win \in Window
         /\ e.type = "configure" => e.on \in BOOLEAN
         /\ e.type = "key" => e.key \in Key /\ e.on \in BOOLEAN
BY DEF Event, NamesWindow

\* Events a compositor sends unasked: of surfaces in S, and no answers.
Unasked(events, S) ==
  /\ events \in Seq(Event)
  /\ \A i \in DOMAIN events :
       /\ ~IsDone(events[i])
       /\ NamesWindow(events[i]) => events[i].win \in S

LEMMA UnaskedJoin ==
  ASSUME NEW S, NEW s, NEW t, Unasked(s, S), Unasked(t, S)
  PROVE  Unasked(s \o t, S)
BY DEF Unasked

LEMMA UnaskedOne ==
  ASSUME NEW S, NEW e \in Event, ~IsDone(e), NamesWindow(e) => e.win \in S
  PROVE  Unasked(<<e>>, S)
BY DEF Unasked

LEMMA UnaskedNone ==
  ASSUME NEW S
  PROVE  Unasked(<<>>, S)
BY DEF Unasked

LEMMA FocusEventsUnasked ==
  ASSUME NEW S \in SUBSET Window, NEW d \in Device,
         NEW from \in S \cup {NoWindow}, NEW to \in S \cup {NoWindow}
  PROVE  Unasked(FocusEvents(d, from, to), S)
<1>1. Unasked(IF from = NoWindow THEN <<>> ELSE <<Leave(d, from)>>, S)
  BY UnaskedNone, UnaskedOne, EventTypes
<1>2. Unasked(IF to = NoWindow THEN <<>> ELSE <<Enter(d, to)>>, S)
  BY UnaskedNone, UnaskedOne, EventTypes
<1> QED  BY <1>1, <1>2, UnaskedJoin DEF FocusEvents

----------------------------------------------------------------------------
(* What is under way, step by step. *)

\* Events that are sent unasked go behind what is under way.
LEMMA SendingStep ==
  ASSUME IInv, NEW events, Unasked(events, shown'), wire' = wire \o events,
         KnownSurfaces', surface \subseteq surface', doomed' = doomed,
         doomed = NoWindow \/ shown' = shown
  PROVE  wire' \in Seq(Event) /\ NoStrayEvents' /\ AnswerIsLast'
<1> DEFINE n == Len(wire)
<1>1. /\ wire \in Seq(Event) /\ events \in Seq(Event)
      /\ n \in Nat /\ DOMAIN wire = 1 .. n
  BY DEF IInv, TypeOK, Unasked
<1>2. /\ wire' \in Seq(Event)
      /\ \A i \in DOMAIN wire' :
           \/ i \in DOMAIN wire /\ wire'[i] = wire[i]
           \/ i > n /\ i - n \in DOMAIN events /\ wire'[i] = events[i - n]
  BY <1>1
<1>3. \A i \in DOMAIN wire' :
        \/ i \in DOMAIN wire /\ wire'[i] = wire[i]
        \/ /\ i > n /\ ~IsDone(wire'[i])
           /\ NamesWindow(wire'[i]) => wire'[i].win \in shown'
  BY <1>2 DEF Unasked
<1>4. NoStrayEvents'
  BY <1>3 DEF IInv, NoStrayEvents, KnownSurfaces
<1>5. AnswerIsLast'
  <2>1. \A i, j \in DOMAIN wire' :
          IsDone(wire'[i]) /\ IsDone(wire'[j]) => i = j
    BY <1>3 DEF IInv, AnswerIsLast
  <2>2. ASSUME NEW i \in DOMAIN wire', IsDone(wire'[i])
        PROVE  /\ doomed # NoWindow /\ doomed \notin shown'
               /\ \A j \in DOMAIN wire' :
                    (i < j /\ NamesWindow(wire'[j])) => wire'[j].win # doomed
    <3>1. i \in DOMAIN wire /\ IsDone(wire[i])
      BY <1>3, <2>2
    <3>2. doomed # NoWindow /\ doomed \notin shown'
      BY <3>1 DEF IInv, AnswerIsLast
    <3> QED  BY <1>3, <3>1, <3>2 DEF IInv, AnswerIsLast
  <2> QED  BY <2>1, <2>2 DEF AnswerIsLast
<1> QED  BY <1>2, <1>4, <1>5

\* An event is taken off.
LEMMA ReceivingStep ==
  ASSUME IInv, wire # <<>>, wire' = Tail(wire),
         UNCHANGED <<surface, doomed, shown>>
  PROVE  wire' \in Seq(Event) /\ NoStrayEvents' /\ AnswerIsLast'
<1>1. wire \in Seq(Event)
  BY DEF IInv, TypeOK
<1>2. /\ wire' \in Seq(Event)
      /\ \A i \in DOMAIN wire' :
           i \in Nat /\ i + 1 \in DOMAIN wire /\ wire'[i] = wire[i + 1]
  BY <1>1
<1>3. NoStrayEvents'
  BY <1>2 DEF IInv, NoStrayEvents
<1>4. AnswerIsLast'
  <2>1. \A i, j \in DOMAIN wire' :
          IsDone(wire'[i]) /\ IsDone(wire'[j]) => i = j
    BY <1>2 DEF IInv, AnswerIsLast
  <2>2. ASSUME NEW i \in DOMAIN wire', IsDone(wire'[i])
        PROVE  /\ doomed # NoWindow /\ doomed \notin shown
               /\ \A j \in DOMAIN wire' :
                    (i < j /\ NamesWindow(wire'[j])) => wire'[j].win # doomed
    <3>1. i + 1 \in DOMAIN wire /\ IsDone(wire[i + 1])
      BY <1>2, <2>2
    <3>2. /\ doomed # NoWindow /\ doomed \notin shown
          /\ \A j \in DOMAIN wire :
               (i + 1 < j /\ NamesWindow(wire[j])) => wire[j].win # doomed
      BY <3>1 DEF IInv, AnswerIsLast
    <3>3. \A j \in DOMAIN wire' : i < j => i + 1 < j + 1
      BY <1>2
    <3> QED  BY <1>2, <3>2, <3>3
  <2> QED  BY <2>1, <2>2 DEF AnswerIsLast
<1> QED  BY <1>2, <1>3, <1>4

\* The answer is received: nothing under way names the doomed window.
LEMMA AnsweringStep ==
  ASSUME IInv, wire # <<>>, Head(wire).type = "done"
  PROVE  /\ doomed \notin shown
         /\ \A i \in DOMAIN Tail(wire) :
              /\ ~IsDone(Tail(wire)[i])
              /\ NamesWindow(Tail(wire)[i]) => Tail(wire)[i].win \in surface
<1>1. wire \in Seq(Event)
  BY DEF IInv, TypeOK
<1>2. 1 \in DOMAIN wire /\ IsDone(wire[1])
  BY <1>1 DEF IsDone
<1>3. \A i \in DOMAIN Tail(wire) :
        /\ i + 1 \in DOMAIN wire /\ i + 1 > 1
        /\ Tail(wire)[i] = wire[i + 1]
  BY <1>1
<1>4. \A j \in DOMAIN wire :
        j > 1 => /\ ~IsDone(wire[j])
                 /\ NamesWindow(wire[j]) => wire[j].win \in surface
  BY <1>1, <1>2 DEF IInv, AnswerIsLast, NoStrayEvents
<1>5. doomed \notin shown
  BY <1>2 DEF IInv, AnswerIsLast
<1> QED  BY <1>3, <1>4, <1>5

----------------------------------------------------------------------------
(* The actions. *)

LEMMA SetFocusTypes ==
  ASSUME TypeOK, NEW w \in Window, NEW gain \in BOOLEAN, NEW fromSeat,
         SetFocus(w, gain, fromSeat)
  PROVE  /\ focused' \in Window \cup {NoWindow}
         /\ belief' \in [Client -> Window \cup {NoWindow}]
<1>1. /\ focused \in Window \cup {NoWindow}
      /\ belief \in [Client -> Window \cup {NoWindow}]
  BY DEF TypeOK
<1>2. Told(w, gain) \in [Client -> Window \cup {NoWindow}]
  BY <1>1 DEF Told
<1> QED  BY <1>1, <1>2 DEF SetFocus

LEMMA ReceiveStep ==
  ASSUME IInv, NEW type, Receive(type)
  PROVE  /\ wire' \in Seq(Event) /\ NoStrayEvents' /\ AnswerIsLast'
         /\ KnownSurfaces'
         /\ Head(wire) \in Event /\ Head(wire).type = type
<1>1. /\ wire # <<>> /\ wire' = Tail(wire) /\ Head(wire).type = type
      /\ UNCHANGED <<surface, doomed, compositor>>
  BY DEF Receive
<1>2. Head(wire) \in Event
  BY <1>1 DEF IInv, TypeOK
<1>3. KnownSurfaces'
  BY <1>1 DEF IInv, KnownSurfaces, compositor
<1> QED  BY <1>1, <1>2, <1>3, ReceivingStep DEF compositor

LEMMA DispatchStep ==
  ASSUME IInv, Dispatch
  PROVE  IInv'
<1> DEFINE Rest == /\ wire' \in Seq(Event) /\ NoStrayEvents' /\ AnswerIsLast'
                   /\ KnownSurfaces'
<1> USE DEF Dies
<1>1. CASE PointerEnter
  <2>1. Rest
    BY <1>1, ReceiveStep DEF PointerEnter
  <2>2. TypeOK'
    BY <1>1, <2>1 DEF PointerEnter, Receive, Named, IInv, TypeOK, compositor
  <2> QED  BY <2>1, <2>2 DEF IInv
<1>2. CASE PointerLeave
  <2>1. Rest
    BY <1>2, ReceiveStep DEF PointerLeave
  <2>2. TypeOK'
    BY <1>2, <2>1 DEF PointerLeave, Receive, IInv, TypeOK, compositor
  <2> QED  BY <2>1, <2>2 DEF IInv
<1>3. CASE PointerMotion
  <2>1. Rest
    BY <1>3, ReceiveStep DEF PointerMotion
  <2>2. TypeOK'
    BY <1>3, <2>1 DEF PointerMotion, Receive, IInv, TypeOK, compositor
  <2> QED  BY <2>1, <2>2 DEF IInv
<1>4. CASE PointerPress
  <2>1. Rest
    BY <1>4, ReceiveStep DEF PointerPress
  <2>2. /\ focused' \in Window \cup {NoWindow}
        /\ belief' \in [Client -> Window \cup {NoWindow}]
    BY <1>4, SetFocusTypes DEF PointerPress, IInv, TypeOK
  <2>3. TypeOK'
    BY <1>4, <2>1, <2>2 DEF PointerPress, Receive, IInv, TypeOK, compositor
  <2> QED  BY <2>1, <2>3 DEF IInv
<1>5. CASE KeyboardEnter
  <2>1. Rest
    BY <1>5, ReceiveStep DEF KeyboardEnter
  <2>2. /\ focused' \in Window \cup {NoWindow}
        /\ belief' \in [Client -> Window \cup {NoWindow}]
    BY <1>5, SetFocusTypes DEF KeyboardEnter, Named, IInv, TypeOK
  <2>3. TypeOK'
    BY <1>5, <2>1, <2>2
    DEF KeyboardEnter, Receive, Named, IInv, TypeOK, compositor
  <2> QED  BY <2>1, <2>3 DEF IInv
<1>6. CASE KeyboardLeave
  <2>1. Rest
    BY <1>6, ReceiveStep DEF KeyboardLeave
  <2>2. /\ focused' \in Window \cup {NoWindow}
        /\ belief' \in [Client -> Window \cup {NoWindow}]
    BY <1>6, SetFocusTypes DEF KeyboardLeave, Named, IInv, TypeOK
  <2>3. TypeOK'
    BY <1>6, <2>1, <2>2 DEF KeyboardLeave, Receive, IInv, TypeOK, compositor
  <2> QED  BY <2>1, <2>3 DEF IInv
<1>7. CASE KeyboardKey
  <2>1. Rest /\ Head(wire).key \in Key
    BY <1>7, ReceiveStep, EventFields DEF KeyboardKey
  <2>2. TypeOK'
    BY <1>7, <2>1 DEF KeyboardKey, Receive, IInv, TypeOK, compositor
  <2> QED  BY <2>1, <2>2 DEF IInv
<1>8. CASE ToplevelConfigure
  <2>1. Rest /\ Head(wire).on \in BOOLEAN
    BY <1>8, ReceiveStep, EventFields DEF ToplevelConfigure
  <2>2. /\ focused' \in Window \cup {NoWindow}
        /\ belief' \in [Client -> Window \cup {NoWindow}]
    BY <1>8, <2>1, SetFocusTypes DEF ToplevelConfigure, Named, IInv, TypeOK
  <2>3. TypeOK'
    BY <1>8, <2>1, <2>2 DEF ToplevelConfigure, Receive, IInv, TypeOK, compositor
  <2> QED  BY <2>1, <2>3 DEF IInv
<1> QED  BY <1>1, <1>2, <1>3, <1>4, <1>5, <1>6, <1>7, <1>8 DEF Dispatch

LEMMA CreateWindowStep ==
  ASSUME IInv, NEW w \in Window, CreateWindow(w)
  PROVE  IInv'
<1>1. /\ doomed = NoWindow /\ doomed' = doomed
      /\ surface' = surface \cup {w} /\ shown' = shown \cup {w}
      /\ UNCHANGED <<pfocus, kfocus, active>>
  BY DEF CreateWindow, InLoop
<1>2. KnownSurfaces'
  BY <1>1 DEF IInv, KnownSurfaces
<1>3. \E events : Unasked(events, shown') /\ wire' = wire \o events
  <2>1. CASE server.qtShell
    <3>1. wire' = wire \o <<>>
      BY <2>1 DEF CreateWindow, IInv, TypeOK
    <3> QED  BY <3>1, UnaskedNone
  <2>2. CASE ~server.qtShell
    <3>1. wire' = wire \o <<Configure(w, FALSE)>>
      <4>1. wire \in Seq(Event) /\ Configure(w, FALSE) \in Event
        BY EventTypes DEF IInv, TypeOK
      <4>2. wire' = Append(wire, Configure(w, FALSE))
        BY <2>2 DEF CreateWindow
      <4> QED  BY <4>1, <4>2, AppendIsConcat
    <3>2. Unasked(<<Configure(w, FALSE)>>, shown')
      BY <1>1, UnaskedOne, EventTypes
    <3> QED  BY <3>1, <3>2
  <2> QED  BY <2>1, <2>2
<1>4. wire' \in Seq(Event) /\ NoStrayEvents' /\ AnswerIsLast'
  BY <1>1, <1>2, <1>3, SendingStep
<1>5. TypeOK'
  BY <1>1, <1>4 DEF CreateWindow, IInv, TypeOK
<1> QED  BY <1>2, <1>4, <1>5 DEF IInv

LEMMA BeginDestroyStep ==
  ASSUME IInv, NEW w \in Window, BeginDestroy(w)
  PROVE  IInv'
<1>1. /\ doomed = NoWindow /\ doomed' = w /\ w \in surface
      /\ surface' = surface \ {w}
      /\ UNCHANGED <<wire, shown, pfocus, kfocus, active>>
  BY DEF BeginDestroy, InLoop, compositor
<1>2. KnownSurfaces'
  BY <1>1 DEF IInv, KnownSurfaces, TypeOK
<1>3. NoStrayEvents'
  BY <1>1, EventFields DEF IInv, NoStrayEvents, TypeOK
<1>4. AnswerIsLast'
  BY <1>1 DEF IInv, AnswerIsLast
<1>5. TypeOK'
  BY <1>1 DEF BeginDestroy, IInv, TypeOK, compositor
<1> QED  BY <1>2, <1>3, <1>4, <1>5 DEF IInv

LEMMA EndDestroyStep ==
  ASSUME IInv, EndDestroy
  PROVE  IInv'
<1>1. /\ wire # <<>> /\ Head(wire).type = "done" /\ wire' = Tail(wire)
      /\ doomed # NoWindow /\ doomed' = NoWindow
      /\ UNCHANGED <<surface, compositor>>
  BY DEF EndDestroy, Free
<1>2. doomed \notin shown
  BY <1>1, AnsweringStep
<1>3. KnownSurfaces'
  BY <1>1, <1>2 DEF IInv, KnownSurfaces, compositor
<1>4. NoStrayEvents'
  BY <1>1, AnsweringStep DEF NoStrayEvents
<1>5. AnswerIsLast'
  BY <1>1, AnsweringStep DEF AnswerIsLast
<1>6. wire' \in Seq(Event)
  BY <1>1 DEF IInv, TypeOK
<1>7. TypeOK'
  BY <1>1, <1>6 DEF EndDestroy, Free, IInv, TypeOK, compositor
<1> QED  BY <1>3, <1>4, <1>5, <1>7 DEF IInv

LEMMA SendsStep ==
  ASSUME IInv, NEW events, Unasked(events, shown), Sends(events),
         shown' = shown, KnownSurfaces', held' \subseteq Key
  PROVE  IInv'
<1>1. /\ wire' = wire \o events
      /\ UNCHANGED proxy
  BY DEF Sends
<1>2. wire' \in Seq(Event) /\ NoStrayEvents' /\ AnswerIsLast'
  BY <1>1, SendingStep DEF proxy
<1>3. TypeOK'
  BY <1>1, <1>2 DEF IInv, TypeOK, proxy, KnownSurfaces
<1> QED  BY <1>2, <1>3 DEF IInv

LEMMA SurfaceDestroyedStep ==
  ASSUME IInv, SurfaceDestroyed
  PROVE  IInv'
<1> DEFINE leave(device, focus) ==
             IF server.leaves /\ focus = doomed
             THEN FocusEvents(device, focus, NoWindow) ELSE <<>>
           leaves == leave("pointer", pfocus) \o leave("keyboard", kfocus)
           n == Len(wire)
<1>1. /\ doomed \in shown /\ shown' = shown \ {doomed}
      /\ UNCHANGED proxy
      /\ doomed \in Window /\ doomed # NoWindow
      /\ wire \in Seq(Event)
  BY DEF SurfaceDestroyed, IInv, TypeOK
<1>2. /\ Unasked(leave("pointer", pfocus), {doomed})
      /\ Unasked(leave("keyboard", kfocus), {doomed})
  <2>1. ASSUME NEW d \in Device, NEW focus
        PROVE  Unasked(leave(d, focus), {doomed})
    BY <1>1, FocusEventsUnasked, UnaskedNone
  <2> QED  BY <2>1 DEF Device
<1>3. Plain("done") \in Event /\ ~NamesWindow(Plain("done"))
  BY EventTypes
<1>4. Unasked(leaves, {doomed})
  BY <1>2, UnaskedJoin
<1>5. wire' = (wire \o leaves) \o <<Plain("done")>>
  <2> HIDE DEF leave
  <2>1. /\ leave("pointer", pfocus) \in Seq(Event)
        /\ leave("keyboard", kfocus) \in Seq(Event)
    BY <1>2 DEF Unasked
  <2>2. wire' = ((wire \o leave("pointer", pfocus))
                   \o leave("keyboard", kfocus)) \o <<Plain("done")>>
    BY DEF SurfaceDestroyed, leave
  <2> QED  BY <1>1, <2>1, <2>2, ConcatAssociative
<1>6. /\ wire' \in Seq(Event)
      /\ \A i \in DOMAIN wire' :
           \/ i \in DOMAIN wire /\ wire'[i] = wire[i]
           \/ /\ ~IsDone(wire'[i])
              /\ NamesWindow(wire'[i]) => wire'[i].win = doomed
           \/ i = Len(wire') /\ wire'[i] = Plain("done")
      /\ DOMAIN wire' = 1 .. Len(wire') /\ Len(wire') \in Nat
  <2> HIDE DEF leaves
  <2>1. leaves \in Seq(Event)
    BY <1>4 DEF Unasked
  <2> DEFINE most == wire \o leaves
  <2>2. /\ most \in Seq(Event)
        /\ \A i \in DOMAIN most :
             \/ i \in DOMAIN wire /\ most[i] = wire[i]
             \/ i - n \in DOMAIN leaves /\ most[i] = leaves[i - n]
    BY <1>1, <2>1
  <2>3. \A i \in DOMAIN most :
          \/ i \in DOMAIN wire /\ most[i] = wire[i]
          \/ /\ ~IsDone(most[i])
             /\ NamesWindow(most[i]) => most[i].win = doomed
    BY <1>4, <2>2 DEF Unasked
  <2> HIDE DEF most
  <2>4. wire' = most \o <<Plain("done")>>
    BY <1>5 DEF most
  <2>5. /\ wire' \in Seq(Event)
        /\ \A i \in DOMAIN wire' :
             \/ i \in DOMAIN most /\ wire'[i] = most[i]
             \/ i = Len(wire') /\ wire'[i] = Plain("done")
        /\ DOMAIN wire' = 1 .. Len(wire') /\ Len(wire') \in Nat
    BY <1>3, <2>2, <2>4
  <2> QED  BY <2>3, <2>5
<1>7. \A i \in DOMAIN wire : ~IsDone(wire[i])
  BY <1>1 DEF IInv, AnswerIsLast
<1>8. NoStrayEvents'
  BY <1>1, <1>3, <1>6 DEF IInv, NoStrayEvents, proxy
<1>9. AnswerIsLast'
  <2>1. \A i \in DOMAIN wire' : IsDone(wire'[i]) => i = Len(wire')
    BY <1>6, <1>7
  <2> QED  BY <1>1, <1>6, <2>1 DEF AnswerIsLast, proxy
<1>10. KnownSurfaces'
  BY <1>1 DEF SurfaceDestroyed, IInv, KnownSurfaces, proxy
<1>11. TypeOK'
  BY <1>1, <1>6, <1>10 DEF SurfaceDestroyed, IInv, TypeOK, proxy, KnownSurfaces
<1> QED  BY <1>8, <1>9, <1>10, <1>11 DEF IInv

LEMMA CompositorStep ==
  ASSUME IInv, NEW w \in Window \cup {NoWindow},
         MovePointer(w) \/ MoveKeyboard(w) \/ Activate(w)
  PROVE  IInv'
<1>1. /\ shown \subseteq Window
      /\ {pfocus, kfocus, active} \subseteq shown \cup {NoWindow}
      /\ held \subseteq Key
  BY DEF IInv, TypeOK, KnownSurfaces
<1>2. CASE MovePointer(w)
  <2>1. Unasked(FocusEvents("pointer", pfocus, w), shown)
    BY <1>1, <1>2, FocusEventsUnasked DEF MovePointer, Device
  <2>2. KnownSurfaces' /\ shown' = shown /\ held' \subseteq Key
    BY <1>1, <1>2 DEF MovePointer, Sends, proxy, IInv, KnownSurfaces
  <2> QED  BY <1>2, <2>1, <2>2, SendsStep DEF MovePointer
<1>3. CASE MoveKeyboard(w)
  <2>1. Unasked(FocusEvents("keyboard", kfocus, w), shown)
    BY <1>1, <1>3, FocusEventsUnasked DEF MoveKeyboard, Device
  <2>2. KnownSurfaces' /\ shown' = shown /\ held' \subseteq Key
    BY <1>1, <1>3 DEF MoveKeyboard, Sends, proxy, IInv, KnownSurfaces
  <2> QED  BY <1>3, <2>1, <2>2, SendsStep DEF MoveKeyboard
<1>4. CASE Activate(w)
  <2> DEFINE off == IF active = NoWindow THEN <<>>
                    ELSE <<Configure(active, FALSE)>>
             on == IF w = NoWindow THEN <<>> ELSE <<Configure(w, TRUE)>>
  <2>1. Unasked(off, shown)
    BY <1>1, UnaskedOne, UnaskedNone, EventTypes
  <2>2. Unasked(on, shown)
    BY <1>1, <1>4, UnaskedOne, UnaskedNone, EventTypes DEF Activate
  <2>3. Unasked(off \o on, shown)
    BY <2>1, <2>2, UnaskedJoin
  <2>4. KnownSurfaces' /\ shown' = shown /\ held' \subseteq Key
    BY <1>1, <1>4 DEF Activate, Sends, proxy, IInv, KnownSurfaces
  <2> QED  BY <1>4, <2>3, <2>4, SendsStep DEF Activate
<1> QED  BY <1>2, <1>3, <1>4

LEMMA UserStep ==
  ASSUME IInv, UsePointer \/ \E k \in Key : UseKey(k)
  PROVE  IInv'
<1>1. held \subseteq Key
  BY DEF IInv, TypeOK
<1>2. CASE UsePointer
  <2>1. PICK type \in {"motion", "press"} : Sends(<<Plain(type)>>)
    BY <1>2 DEF UsePointer
  <2>2. Unasked(<<Plain(type)>>, shown)
    BY UnaskedOne, EventTypes
  <2>3. KnownSurfaces' /\ shown' = shown /\ held' \subseteq Key
    BY <1>1, <1>2, <2>1
    DEF UsePointer, Sends, proxy, compositor, IInv, KnownSurfaces
  <2> QED  BY <2>1, <2>2, <2>3, SendsStep
<1>3. ASSUME NEW k \in Key, UseKey(k)
      PROVE  IInv'
  <2> DEFINE events == IF kfocus = NoWindow THEN <<>>
                       ELSE <<KeyEvent(k, k \notin held)>>
  <2>1. (k \notin held) \in BOOLEAN
    OBVIOUS
  <2>2. Unasked(events, shown)
    BY <2>1, UnaskedOne, UnaskedNone, EventTypes
  <2>3. KnownSurfaces' /\ shown' = shown /\ held' \subseteq Key
    BY <1>1, <1>3 DEF UseKey, Sends, proxy, IInv, KnownSurfaces
  <2> QED  BY <1>3, <2>2, <2>3, SendsStep DEF UseKey
<1> QED  BY <1>2, <1>3

LEMMA RepeatTickStep ==
  ASSUME IInv, RepeatTick
  PROVE  IInv'
BY DEF RepeatTick, IInv, TypeOK, KnownSurfaces, NoStrayEvents, AnswerIsLast,
       compositor

----------------------------------------------------------------------------
LEMMA Invariance == Spec => []IInv
<1>1. Init => IInv
  <2> SUFFICES ASSUME Init
               PROVE  IInv
    OBVIOUS
  <2>1. TypeOK
    <3>1. belief \in [Client -> Window \cup {NoWindow}]
      BY DEF Init
    <3>2. wire \in Seq(Event)
      BY DEF Init
    <3>3. astray \in BOOLEAN /\ reused \in BOOLEAN
      BY Zenon DEF Init
    <3> QED  BY <3>1, <3>2, <3>3 DEF Init, TypeOK
  <2>2. DOMAIN wire = {}
    BY DEF Init
  <2>3. NoStrayEvents /\ AnswerIsLast
    BY <2>2 DEF NoStrayEvents, AnswerIsLast
  <2>4. KnownSurfaces
    BY DEF Init, KnownSurfaces
  <2> QED  BY <2>1, <2>3, <2>4 DEF IInv
<1>2. IInv /\ [Next]_vars => IInv'
  <2> SUFFICES ASSUME IInv, [Next]_vars
               PROVE  IInv'
    OBVIOUS
  <2>1. CASE Next
    BY <2>1, DispatchStep, RepeatTickStep, CreateWindowStep, BeginDestroyStep,
       EndDestroyStep, CompositorStep, UserStep, SurfaceDestroyedStep
    DEF Next
  <2>2. CASE UNCHANGED vars
    BY <2>2 DEF vars, proxy, compositor, IInv, TypeOK, KnownSurfaces,
       NoStrayEvents, AnswerIsLast
  <2> QED  BY <2>1, <2>2
<1> QED  BY <1>1, <1>2, PTL DEF Spec

\* The pointer and the keyboard are never in a window that has been freed.
THEOREM SeatRefersToWindows == Spec => []TypeOK
<1>1. IInv => TypeOK
  BY DEF IInv
<1> QED  BY <1>1, Invariance, PTL

\* When qwswl_destroy_window() returns, nothing that names the window is under
\* way: that is what its roundtrip is for.
THEOREM DestructionIsClean == Spec => []NoStrayEvents
<1>1. IInv => NoStrayEvents
  BY DEF IInv
<1> QED  BY <1>1, Invariance, PTL

----------------------------------------------------------------------------
(* Focus: what the client was told follows what the proxy stores. *)

LEMMA SetFocusTells ==
  ASSUME TypeOK, FocusIsTold, NEW w \in Window, NEW gain \in BOOLEAN,
         NEW fromSeat, SetFocus(w, gain, fromSeat),
         doomed' = doomed, reused' = reused
  PROVE  FocusIsTold'
<1>1. belief \in [Client -> Window \cup {NoWindow}] /\ Owner[w] \in Client
  BY DEF TypeOK
<1>2. CASE focused' = focused /\ belief' = belief
  BY <1>2 DEF FocusIsTold
<1>3. CASE focused' = NoWindow
  BY <1>3 DEF FocusIsTold
<1>4. CASE focused' = w /\ belief' = Told(w, TRUE)
  BY <1>1, <1>4 DEF FocusIsTold, Told
<1> QED  BY <1>2, <1>3, <1>4 DEF SetFocus

LEMMA DispatchTells ==
  ASSUME IInv, FocusIsTold, Dispatch
  PROVE  FocusIsTold'
<1>1. ASSUME UNCHANGED <<focused, belief, doomed, reused>>
      PROVE  FocusIsTold'
  BY <1>1 DEF FocusIsTold
<1>2. CASE PointerEnter \/ PointerLeave \/ PointerMotion \/ KeyboardKey
  BY <1>1, <1>2
  DEF PointerEnter, PointerLeave, PointerMotion, KeyboardKey, Receive, Dies
<1>3. CASE PointerPress
  BY <1>1, <1>3, SetFocusTells DEF PointerPress, Receive, Dies, IInv, TypeOK
<1>4. CASE KeyboardEnter
  BY <1>1, <1>4, SetFocusTells
  DEF KeyboardEnter, Receive, Dies, Named, IInv, TypeOK
<1>5. CASE KeyboardLeave
  BY <1>1, <1>5, SetFocusTells DEF KeyboardLeave, Receive, Named, IInv, TypeOK
<1>6. CASE ToplevelConfigure
  <2>1. Head(wire).on \in BOOLEAN /\ UNCHANGED <<doomed, reused>>
    BY <1>6, ReceiveStep, EventFields DEF ToplevelConfigure, Receive
  <2>2. CASE Named = NoWindow
    BY <1>1, <1>6, <2>1, <2>2 DEF ToplevelConfigure, IInv, TypeOK, Named
  <2>3. CASE Named # NoWindow
    BY <1>6, <2>1, <2>3, SetFocusTells
    DEF ToplevelConfigure, IInv, TypeOK, Named
  <2> QED  BY <2>2, <2>3
<1> QED  BY <1>2, <1>3, <1>4, <1>5, <1>6 DEF Dispatch

LEMMA BeginDestroyTells ==
  ASSUME IInv, FocusIsTold, NEW w \in Window, BeginDestroy(w)
  PROVE  FocusIsTold'
<1>1. /\ belief \in [Client -> Window \cup {NoWindow}]
      /\ focused \in Window \cup {NoWindow} /\ doomed = NoWindow
      /\ UNCHANGED reused
  BY DEF BeginDestroy, InLoop, IInv, TypeOK
<1>2. /\ focused' = IF focused = w THEN NoWindow ELSE focused
      /\ belief' = [belief EXCEPT ![Owner[w]] = IF @ = w THEN NoWindow ELSE @]
  BY DEF BeginDestroy
<1>3. SUFFICES ASSUME focused \in Window, focused # w, ~reused
               PROVE  belief'[Owner[focused]] = focused
  BY <1>1, <1>2 DEF FocusIsTold
<1>4. belief[Owner[focused]] = focused /\ Owner[focused] \in Client
  BY <1>1, <1>3 DEF FocusIsTold
<1> QED  BY <1>1, <1>2, <1>3, <1>4

LEMMA EndDestroyTells ==
  ASSUME FocusIsTold, EndDestroy
  PROVE  FocusIsTold'
BY DEF FocusIsTold, EndDestroy, Free

\* The window the proxy takes to be focused was told so, unless it lies where a
\* focused window was freed (window.c:839).
THEOREM FocusAgreed == Spec => []FocusIsTold
<1>1. Init => FocusIsTold
  BY DEF Init, FocusIsTold
<1>2. IInv /\ FocusIsTold /\ [Next]_vars => FocusIsTold'
  <2> SUFFICES ASSUME IInv, FocusIsTold, [Next]_vars
               PROVE  FocusIsTold'
    OBVIOUS
  <2>1. ASSUME UNCHANGED <<focused, belief, doomed, reused>>
        PROVE  FocusIsTold'
    BY <2>1 DEF FocusIsTold
  <2>2. CASE Dispatch
    BY <2>2, DispatchTells
  <2>3. ASSUME NEW w \in Window, BeginDestroy(w)
        PROVE  FocusIsTold'
    BY <2>3, BeginDestroyTells
  <2>4. CASE EndDestroy
    BY <2>4, EndDestroyTells
  <2>5. CASE RepeatTick \/ SurfaceDestroyed \/ UsePointer
    BY <2>1, <2>5 DEF RepeatTick, SurfaceDestroyed, UsePointer, Sends, proxy
  <2>6. ASSUME NEW w \in Window, CreateWindow(w)
        PROVE  FocusIsTold'
    BY <2>1, <2>6 DEF CreateWindow
  <2>7. ASSUME NEW w \in Window \cup {NoWindow},
               MovePointer(w) \/ MoveKeyboard(w) \/ Activate(w)
        PROVE  FocusIsTold'
    BY <2>1, <2>7 DEF MovePointer, MoveKeyboard, Activate, Sends, proxy
  <2>8. ASSUME NEW k \in Key, UseKey(k)
        PROVE  FocusIsTold'
    BY <2>1, <2>8 DEF UseKey, Sends, proxy
  <2>9. CASE UNCHANGED vars
    BY <2>1, <2>9 DEF vars, proxy
  <2> QED  BY <2>2, <2>3, <2>4, <2>5, <2>6, <2>7, <2>8, <2>9 DEF Next
<1> QED  BY <1>1, <1>2, Invariance, PTL DEF Spec

----------------------------------------------------------------------------
(* Input: where a device's events find it when they are dispatched. *)

Place == Window \cup {NoWindow}

\* The events of a device that need a window.
InputOf(d) == IF d = "pointer" THEN {"motion", "press"} ELSE {"key"}

\* What dispatching an event makes of the window a device is in, when `gone' is
\* the doomed window and `leaves' whether its leave events are sent.
Passes(d, gone, leaves, e, old, new) ==
  /\ e.type \in InputOf(d) => old # NoWindow
  /\ IF e.type = "enter" /\ e.device = d THEN old = NoWindow /\ new = e.win
     ELSE IF e.type = "leave" /\ e.device = d THEN new = NoWindow
     ELSE IF e.type = "done" THEN /\ leaves => old # gone
                                  /\ new = IF old = gone THEN NoWindow ELSE old
     ELSE new = old

\* A device that is in window `from' is in window `to' when the events have been
\* dispatched, and each finds it where it needs it.
Leads(d, gone, leaves, events, from, to) ==
  \E at \in [0 .. Len(events) -> Place] :
    /\ at[0] = from /\ at[Len(events)] = to
    /\ \A i \in 1 .. Len(events) :
         Passes(d, gone, leaves, events[i], at[i - 1], at[i])

\* Where the proxy has each device, and what is under way, leads to where the
\* compositor has it; a key repeats in the window that got its press.
InputInv ==
  /\ InputStaysHome
  /\ Running =>
       /\ Leads("pointer", doomed, server.leaves, wire, pointer, pfocus)
       /\ Leads("keyboard", doomed, server.leaves, wire, kbd, kfocus)
       /\ server.leaves /\ repeat # NoKey => kbd # NoWindow /\ pressedIn = kbd

LEMMA LeadsTail ==
  ASSUME NEW d, NEW gone, NEW leaves, NEW s \in Seq(Event), s # <<>>, NEW from, NEW to,
         Leads(d, gone, leaves, s, from, to)
  PROVE  \E mid \in Place : /\ Passes(d, gone, leaves, Head(s), from, mid)
                            /\ Leads(d, gone, leaves, Tail(s), mid, to)
<1> DEFINE n == Len(s)
           t == Tail(s)
<1>1. PICK at \in [0 .. n -> Place] :
        /\ at[0] = from /\ at[n] = to
        /\ \A i \in 1 .. n : Passes(d, gone, leaves, s[i], at[i - 1], at[i])
  BY DEF Leads
<1>2. /\ n \in Nat \ {0} /\ Len(t) = n - 1 /\ Head(s) = s[1]
      /\ \A i \in 1 .. n - 1 : t[i] = s[i + 1]
  OBVIOUS
<1> HIDE DEF n, t
<1> DEFINE next == [i \in 0 .. n - 1 |-> at[i + 1]]
<1>3. \A i \in 0 .. n - 1 : i + 1 \in 0 .. n
  BY <1>2
<1>4. /\ next \in [0 .. n - 1 -> Place] /\ next[0] = at[1] /\ next[n - 1] = to
  <2>1. 0 \in 0 .. n - 1 /\ n - 1 \in 0 .. n - 1 /\ (n - 1) + 1 = n /\ 0 + 1 = 1
    BY <1>2
  <2> QED  BY <1>1, <1>3, <2>1
<1>5. ASSUME NEW i \in 1 .. n - 1
      PROVE  Passes(d, gone, leaves, t[i], next[i - 1], next[i])
  <2>1. /\ i + 1 \in 1 .. n /\ (i + 1) - 1 = i /\ i \in 0 .. n - 1 /\ i - 1 \in 0 .. n - 1
        /\ (i - 1) + 1 = i
    BY <1>2
  <2>2. next[i - 1] = at[i] /\ next[i] = at[i + 1]
    BY <2>1
  <2>3. Passes(d, gone, leaves, s[i + 1], at[i], at[i + 1])
    BY <1>1, <2>1
  <2> QED  BY <1>2, <2>2, <2>3
<1>6. Passes(d, gone, leaves, s[1], from, at[1]) /\ at[1] \in Place
  <2>1. 1 \in 1 .. n /\ 1 - 1 = 0 /\ 1 \in 0 .. n
    BY <1>2
  <2>2. Passes(d, gone, leaves, s[1], at[1 - 1], at[1])
    BY <1>1, <2>1
  <2> QED  BY <1>1, <2>1, <2>2
<1> HIDE DEF next
<1>7. Leads(d, gone, leaves, t, at[1], to)
  BY <1>2, <1>4, <1>5 DEF Leads
<1> QED  BY <1>2, <1>6, <1>7 DEF t

LEMMA LeadsJoin ==
  ASSUME NEW d, NEW gone, NEW leaves, NEW s \in Seq(Event), NEW t \in Seq(Event),
         NEW from, NEW mid, NEW to,
         Leads(d, gone, leaves, s, from, mid), Leads(d, gone, leaves, t, mid, to)
  PROVE  Leads(d, gone, leaves, s \o t, from, to)
<1> DEFINE m == Len(s)
           n == Len(t)
           all == s \o t
<1>1. PICK f \in [0 .. m -> Place] :
        /\ f[0] = from /\ f[m] = mid
        /\ \A i \in 1 .. m : Passes(d, gone, leaves, s[i], f[i - 1], f[i])
  BY DEF Leads
<1>2. PICK g \in [0 .. n -> Place] :
        /\ g[0] = mid /\ g[n] = to
        /\ \A i \in 1 .. n : Passes(d, gone, leaves, t[i], g[i - 1], g[i])
  BY DEF Leads
<1>3. /\ m \in Nat /\ n \in Nat /\ Len(all) = m + n
      /\ \A i \in 1 .. m + n : all[i] = IF i <= m THEN s[i] ELSE t[i - m]
  OBVIOUS
<1> HIDE DEF m, n, all
<1> DEFINE at == [i \in 0 .. m + n |-> IF i <= m THEN f[i] ELSE g[i - m]]
<1>4. at \in [0 .. m + n -> Place]
  <2>1. \A i \in 0 .. m + n : IF i <= m THEN i \in 0 .. m ELSE i - m \in 0 .. n
    BY <1>3
  <2> QED  BY <1>1, <1>2, <2>1
<1>5. at[0] = from /\ at[m + n] = to
  <2>1. 0 \in 0 .. m + n /\ m + n \in 0 .. m + n /\ 0 <= m
        /\ (m + n <= m => n = 0) /\ (m + n) - m = n /\ (n = 0 => m + n = m)
    BY <1>3
  <2> QED  BY <1>1, <1>2, <2>1
<1>6. ASSUME NEW i \in 1 .. m + n
      PROVE  Passes(d, gone, leaves, all[i], at[i - 1], at[i])
  <2>0. i \in 0 .. m + n /\ i - 1 \in 0 .. m + n
    BY <1>3
  <2>1. CASE i <= m
    <3>1. i \in 1 .. m /\ i - 1 <= m
      BY <1>3, <2>1
    <3>2. at[i] = f[i] /\ at[i - 1] = f[i - 1] /\ all[i] = s[i]
      BY <1>3, <2>0, <2>1, <3>1
    <3> QED  BY <1>1, <3>1, <3>2
  <2>2. CASE ~(i <= m)
    <3> DEFINE j == i - m
    <3>1. j \in 1 .. n /\ (i - 1) - m = j - 1 /\ (i - 1 <= m => i - 1 = m /\ j - 1 = 0)
      BY <1>3, <2>2
    <3>2. at[i] = g[j] /\ all[i] = t[j]
      BY <1>3, <2>0, <2>2
    <3> HIDE DEF j
    <3>3. at[i - 1] = g[j - 1]
      BY <1>1, <1>2, <2>0, <3>1
    <3>4. Passes(d, gone, leaves, t[j], g[j - 1], g[j])
      BY <1>2, <3>1
    <3> QED  BY <3>2, <3>3, <3>4
  <2> QED  BY <2>1, <2>2
<1> HIDE DEF at
<1> QED  BY <1>3, <1>4, <1>5, <1>6 DEF Leads, all

LEMMA LeadsNone ==
  ASSUME NEW d, NEW gone, NEW leaves, NEW from \in Place
  PROVE  Leads(d, gone, leaves, <<>>, from, from)
<1> DEFINE at == [i \in 0 .. 0 |-> from]
<1>1. at \in [0 .. 0 -> Place] /\ at[0] = from
  OBVIOUS
<1> HIDE DEF at
<1>2. Len(<<>>) = 0 /\ 1 .. 0 = {}
  OBVIOUS
<1> QED  BY <1>1, <1>2 DEF Leads

LEMMA LeadsOne ==
  ASSUME NEW d, NEW gone, NEW leaves, NEW e, NEW from \in Place, NEW to \in Place,
         Passes(d, gone, leaves, e, from, to)
  PROVE  Leads(d, gone, leaves, <<e>>, from, to)
<1> DEFINE at == [i \in 0 .. 1 |-> IF i = 0 THEN from ELSE to]
<1>1. at \in [0 .. 1 -> Place] /\ at[0] = from /\ at[1] = to
  OBVIOUS
<1> HIDE DEF at
<1>2. Len(<<e>>) = 1 /\ <<e>>[1] = e /\ \A i \in 1 .. 1 : i = 1 /\ i - 1 = 0
  OBVIOUS
<1> QED  BY <1>1, <1>2 DEF Leads

\* The doomed window only matters when it is gone.
LEMMA LeadsOn ==
  ASSUME NEW d, NEW gone, NEW other, NEW leaves, NEW s, NEW from, NEW to,
         Leads(d, gone, leaves, s, from, to), \A i \in 1 .. Len(s) : ~IsDone(s[i])
  PROVE  Leads(d, other, leaves, s, from, to)
BY DEF Leads, Passes, IsDone

\* A focus that goes from one surface to another takes its device along, and
\* leaves the other where it is.
LEMMA FocusLeads ==
  ASSUME NEW d \in Device, NEW gone, NEW leaves, NEW from \in Place, NEW to \in Place
  PROVE  /\ FocusEvents(d, from, to) \in Seq(Event)
         /\ Leads(d, gone, leaves, FocusEvents(d, from, to), from, to)
         /\ \A other \in Device : \A x \in Place :
              other # d => Leads(other, gone, leaves, FocusEvents(d, from, to), x, x)
<1> DEFINE away == IF from = NoWindow THEN <<>> ELSE <<Leave(d, from)>>
           onto == IF to = NoWindow THEN <<>> ELSE <<Enter(d, to)>>
<1>0. NoWindow \in Place
  BY DEF Place
<1>1. away \in Seq(Event) /\ onto \in Seq(Event)
  BY EventTypes DEF Place
<1>2. Leads(d, gone, leaves, away, from, NoWindow)
  <2>1. Passes(d, gone, leaves, Leave(d, from), from, NoWindow)
    BY DEF Passes, Leave, InputOf
  <2> QED  BY <1>0, <2>1, LeadsNone, LeadsOne
<1>3. Leads(d, gone, leaves, onto, NoWindow, to)
  <2>1. Passes(d, gone, leaves, Enter(d, to), NoWindow, to)
    BY DEF Passes, Enter, InputOf
  <2> QED  BY <1>0, <2>1, LeadsNone, LeadsOne
<1>4. ASSUME NEW other \in Device, NEW x \in Place, other # d
      PROVE  /\ Leads(other, gone, leaves, away, x, x)
             /\ Leads(other, gone, leaves, onto, x, x)
  <2>1. /\ Passes(other, gone, leaves, Leave(d, from), x, x)
        /\ Passes(other, gone, leaves, Enter(d, to), x, x)
    BY <1>4 DEF Passes, Leave, Enter, InputOf
  <2> QED  BY <2>1, LeadsNone, LeadsOne
<1>5. FocusEvents(d, from, to) = away \o onto
  BY DEF FocusEvents
<1> HIDE DEF away, onto
<1>6. ASSUME NEW other \in Device, NEW x \in Place, other # d
      PROVE  Leads(other, gone, leaves, away \o onto, x, x)
  BY <1>1, <1>4, <1>6, LeadsJoin
<1> QED  BY <1>1, <1>2, <1>3, <1>5, <1>6, LeadsJoin

LEMMA InputTypes ==
  ASSUME IInv
  PROVE  /\ {pointer, kbd, pfocus, kfocus} \subseteq Place
         /\ wire \in Seq(Event)
BY DEF IInv, TypeOK, Place

\* An event is dispatched with each device where it needs it.
LEMMA InputReceived ==
  ASSUME IInv, InputInv, Running, wire # <<>>
  PROVE  \E p, k \in Place :
           /\ Passes("pointer", doomed, server.leaves, Head(wire), pointer, p)
           /\ Leads("pointer", doomed, server.leaves, Tail(wire), p, pfocus)
           /\ Passes("keyboard", doomed, server.leaves, Head(wire), kbd, k)
           /\ Leads("keyboard", doomed, server.leaves, Tail(wire), k, kfocus)
<1>1. \E p \in Place :
        /\ Passes("pointer", doomed, server.leaves, Head(wire), pointer, p)
        /\ Leads("pointer", doomed, server.leaves, Tail(wire), p, pfocus)
  BY InputTypes, LeadsTail DEF InputInv
<1>2. \E k \in Place :
        /\ Passes("keyboard", doomed, server.leaves, Head(wire), kbd, k)
        /\ Leads("keyboard", doomed, server.leaves, Tail(wire), k, kfocus)
  BY InputTypes, LeadsTail DEF InputInv
<1> QED  BY <1>1, <1>2

LEMMA InputDispatched ==
  ASSUME IInv, InputInv, Dispatch
  PROVE  InputInv'
<1>1. /\ Running /\ wire # <<>> /\ wire' = Tail(wire)
      /\ UNCHANGED <<server, doomed, surface, pfocus, kfocus>>
  BY DEF Dispatch, PointerEnter, PointerLeave, PointerMotion, PointerPress, KeyboardEnter,
         KeyboardLeave, KeyboardKey, ToplevelConfigure, Receive, compositor
<1>2. PICK p \in Place, k \in Place :
        /\ Passes("pointer", doomed, server.leaves, Head(wire), pointer, p)
        /\ Leads("pointer", doomed, server.leaves, Tail(wire), p, pfocus)
        /\ Passes("keyboard", doomed, server.leaves, Head(wire), kbd, k)
        /\ Leads("keyboard", doomed, server.leaves, Tail(wire), k, kfocus)
  BY <1>1, InputReceived
<1>3. /\ fault = "none" /\ fault # "input" /\ (server.leaves => ~astray)
      /\ server.leaves /\ repeat # NoKey => kbd # NoWindow /\ pressedIn = kbd
  BY <1>1 DEF InputInv, InputStaysHome, Running
<1>4. ASSUME UNCHANGED astray, fault' \in {"none", "enter"},
             fault' = "none" =>
               /\ pointer' = p /\ kbd' = k
               /\ server.leaves /\ repeat' # NoKey => kbd' # NoWindow /\ pressedIn' = kbd'
      PROVE  InputInv'
  BY <1>1, <1>2, <1>3, <1>4 DEF InputInv, InputStaysHome, Running
<1> USE DEF Passes, InputOf, Receive, Dies
<1>5. CASE PointerEnter
  BY <1>2, <1>3, <1>4, <1>5 DEF PointerEnter, Named
<1>6. CASE PointerLeave
  BY <1>2, <1>3, <1>4, <1>6 DEF PointerLeave
<1>7. CASE PointerMotion
  BY <1>2, <1>3, <1>4, <1>7 DEF PointerMotion
<1>8. CASE PointerPress
  BY <1>2, <1>3, <1>4, <1>8 DEF PointerPress
<1>9. CASE KeyboardEnter
  BY <1>2, <1>3, <1>4, <1>9 DEF KeyboardEnter, Named
<1>10. CASE KeyboardLeave
  BY <1>2, <1>3, <1>4, <1>10 DEF KeyboardLeave
<1>11. CASE KeyboardKey
  BY <1>2, <1>3, <1>4, <1>11 DEF KeyboardKey
<1>12. CASE ToplevelConfigure
  BY <1>2, <1>3, <1>4, <1>12 DEF ToplevelConfigure
<1> QED  BY <1>5, <1>6, <1>7, <1>8, <1>9, <1>10, <1>11, <1>12 DEF Dispatch

\* The compositor's answer finds each device out of the doomed window, or takes
\* it out.
LEMMA InputAnswered ==
  ASSUME IInv, InputInv, EndDestroy
  PROVE  InputInv'
<1>1. /\ Running /\ wire # <<>> /\ wire' = Tail(wire) /\ Head(wire).type = "done"
      /\ doomed' = NoWindow
      /\ pointer' = IF pointer = doomed THEN NoWindow ELSE pointer
      /\ kbd' = IF kbd = doomed THEN NoWindow ELSE kbd
      /\ UNCHANGED <<server, fault, repeat, pressedIn, astray, pfocus, kfocus>>
  BY DEF EndDestroy, Free, compositor
<1>2. PICK p \in Place, k \in Place :
        /\ Passes("pointer", doomed, server.leaves, Head(wire), pointer, p)
        /\ Leads("pointer", doomed, server.leaves, Tail(wire), p, pfocus)
        /\ Passes("keyboard", doomed, server.leaves, Head(wire), kbd, k)
        /\ Leads("keyboard", doomed, server.leaves, Tail(wire), k, kfocus)
  BY <1>1, InputReceived
<1>3. pointer' = p /\ kbd' = k /\ (server.leaves => kbd' = kbd)
  BY <1>1, <1>2 DEF Passes
<1>4. \A i \in 1 .. Len(Tail(wire)) : ~IsDone(Tail(wire)[i])
  <2>1. DOMAIN Tail(wire) = 1 .. Len(Tail(wire))
    BY <1>1, InputTypes
  <2> QED  BY <1>1, <2>1, AnsweringStep
<1>5. /\ Leads("pointer", NoWindow, server.leaves, Tail(wire), p, pfocus)
      /\ Leads("keyboard", NoWindow, server.leaves, Tail(wire), k, kfocus)
  BY <1>2, <1>4, LeadsOn
<1> QED  BY <1>1, <1>3, <1>5 DEF InputInv, InputStaysHome, Running

LEMMA InputDoomed ==
  ASSUME IInv, InputInv, NEW w \in Window, BeginDestroy(w)
  PROVE  InputInv'
<1>1. /\ doomed = NoWindow /\ Running
      /\ UNCHANGED <<server, pointer, kbd, repeat, fault, pressedIn, astray, wire, pfocus,
                     kfocus>>
  BY DEF BeginDestroy, InLoop, compositor
<1>2. \A i \in 1 .. Len(wire) : ~IsDone(wire[i])
  <2>1. DOMAIN wire = 1 .. Len(wire)
    BY InputTypes
  <2> QED  BY <1>1, <2>1 DEF IInv, AnswerIsLast
<1>3. /\ Leads("pointer", doomed', server.leaves, wire, pointer, pfocus)
      /\ Leads("keyboard", doomed', server.leaves, wire, kbd, kfocus)
  BY <1>1, <1>2, LeadsOn DEF InputInv
<1> QED  BY <1>1, <1>3 DEF InputInv, InputStaysHome, Running

\* What the compositor sends goes behind what is under way.
LEMMA InputSent ==
  ASSUME IInv, InputInv, Running, NEW events \in Seq(Event), wire' = wire \o events,
         UNCHANGED <<server, pointer, kbd, repeat, fault, pressedIn, astray, doomed>>,
         Leads("pointer", doomed, server.leaves, events, pfocus, pfocus'),
         Leads("keyboard", doomed, server.leaves, events, kfocus, kfocus')
  PROVE  InputInv'
<1>1. /\ Leads("pointer", doomed, server.leaves, wire, pointer, pfocus)
      /\ Leads("keyboard", doomed, server.leaves, wire, kbd, kfocus)
  BY DEF InputInv
<1>2. /\ Leads("pointer", doomed, server.leaves, wire', pointer, pfocus')
      /\ Leads("keyboard", doomed, server.leaves, wire', kbd, kfocus')
  BY <1>1, InputTypes, LeadsJoin
<1> QED  BY <1>2 DEF InputInv, InputStaysHome, Running

\* Events that concern neither device.
LEMMA LeadsNowhere ==
  ASSUME NEW d \in Device, NEW gone, NEW leaves, NEW e \in Event, NEW x \in Place,
         e.type \in {"configure", "key", "motion", "press"},
         e.type \in InputOf(d) => x # NoWindow
  PROVE  Leads(d, gone, leaves, <<e>>, x, x)
<1>1. Passes(d, gone, leaves, e, x, x)
  BY DEF Passes
<1> QED  BY <1>1, LeadsOne

LEMMA InputCreated ==
  ASSUME IInv, InputInv, NEW w \in Window, CreateWindow(w)
  PROVE  InputInv'
<1>1. /\ Running
      /\ UNCHANGED <<server, pointer, kbd, repeat, fault, pressedIn, astray, doomed, pfocus,
                     kfocus>>
      /\ wire' = IF server.qtShell THEN wire ELSE Append(wire, Configure(w, FALSE))
  BY DEF CreateWindow, InLoop
<1>2. CASE server.qtShell
  BY <1>1, <1>2 DEF InputInv, InputStaysHome, Running
<1>3. CASE ~server.qtShell
  <2> DEFINE e == Configure(w, FALSE)
  <2>1. e \in Event /\ e.type = "configure"
    BY EventTypes DEF Configure
  <2> HIDE DEF e
  <2>2. <<e>> \in Seq(Event) /\ wire' = wire \o <<e>>
    <3>1. wire' = Append(wire, e)
      BY <1>1, <1>3 DEF e
    <3> QED  BY <2>1, <3>1, InputTypes, AppendIsConcat
  <2>3. /\ Leads("pointer", doomed, server.leaves, <<e>>, pfocus, pfocus)
        /\ Leads("keyboard", doomed, server.leaves, <<e>>, kfocus, kfocus)
    BY <2>1, InputTypes, LeadsNowhere DEF Device, InputOf
  <2> QED  BY <1>1, <2>2, <2>3, InputSent
<1> QED  BY <1>2, <1>3

LEMMA InputMoved ==
  ASSUME IInv, InputInv, NEW w \in Window \cup {NoWindow},
         MovePointer(w) \/ MoveKeyboard(w) \/ Activate(w)
  PROVE  InputInv'
<1>0. {pfocus, kfocus, w} \subseteq Place
  BY InputTypes DEF Place
<1>1. CASE MovePointer(w)
  <2> DEFINE events == FocusEvents("pointer", pfocus, w)
  <2>1. /\ Running /\ wire' = wire \o events /\ pfocus' = w /\ kfocus' = kfocus
        /\ UNCHANGED proxy
    BY <1>1 DEF MovePointer, Sends
  <2>2. /\ events \in Seq(Event)
        /\ Leads("pointer", doomed, server.leaves, events, pfocus, w)
        /\ Leads("keyboard", doomed, server.leaves, events, kfocus, kfocus)
    BY <1>0, FocusLeads DEF Device
  <2> HIDE DEF events
  <2> QED  BY <2>1, <2>2, InputSent DEF proxy
<1>2. CASE MoveKeyboard(w)
  <2> DEFINE events == FocusEvents("keyboard", kfocus, w)
  <2>1. /\ Running /\ wire' = wire \o events /\ kfocus' = w /\ pfocus' = pfocus
        /\ UNCHANGED proxy
    BY <1>2 DEF MoveKeyboard, Sends
  <2>2. /\ events \in Seq(Event)
        /\ Leads("keyboard", doomed, server.leaves, events, kfocus, w)
        /\ Leads("pointer", doomed, server.leaves, events, pfocus, pfocus)
    BY <1>0, FocusLeads DEF Device
  <2> HIDE DEF events
  <2> QED  BY <2>1, <2>2, InputSent DEF proxy
<1>3. CASE Activate(w)
  <2> DEFINE off == IF active = NoWindow THEN <<>> ELSE <<Configure(active, FALSE)>>
             on == IF w = NoWindow THEN <<>> ELSE <<Configure(w, TRUE)>>
  <2>1. /\ Running /\ wire' = wire \o (off \o on) /\ UNCHANGED <<pfocus, kfocus>>
        /\ UNCHANGED proxy
    BY <1>3 DEF Activate, Sends
  <2>2. ASSUME NEW v \in Window, NEW b \in BOOLEAN
        PROVE  /\ <<Configure(v, b)>> \in Seq(Event)
               /\ \A d \in Device : \A x \in Place :
                    Leads(d, doomed, server.leaves, <<Configure(v, b)>>, x, x)
    <3>1. Configure(v, b) \in Event /\ Configure(v, b).type = "configure"
      BY EventTypes DEF Configure
    <3> QED  BY <3>1, LeadsNowhere DEF InputOf, Device
  <2>3. active \in Window \cup {NoWindow}
    BY DEF IInv, TypeOK
  <2>0. /\ <<>> \in Seq(Event)
        /\ \A d \in Device : \A x \in Place : Leads(d, doomed, server.leaves, <<>>, x, x)
    BY LeadsNone
  <2>4. /\ off \in Seq(Event)
        /\ \A d \in Device : \A x \in Place : Leads(d, doomed, server.leaves, off, x, x)
    <3>1. CASE active = NoWindow
      BY <2>0, <3>1
    <3>2. CASE active # NoWindow
      <4>1. active \in Window /\ FALSE \in BOOLEAN /\ off = <<Configure(active, FALSE)>>
        BY <2>3, <3>2
      <4> HIDE DEF off
      <4> QED  BY <2>2, <4>1
    <3> QED  BY <3>1, <3>2
  <2>5. /\ on \in Seq(Event)
        /\ \A d \in Device : \A x \in Place : Leads(d, doomed, server.leaves, on, x, x)
    <3>1. CASE w = NoWindow
      BY <2>0, <3>1
    <3>2. CASE w # NoWindow
      <4>1. w \in Window /\ TRUE \in BOOLEAN /\ on = <<Configure(w, TRUE)>>
        BY <3>2
      <4> HIDE DEF on
      <4> QED  BY <2>2, <4>1
    <3> QED  BY <3>1, <3>2
  <2> HIDE DEF off, on
  <2>6. /\ off \o on \in Seq(Event)
        /\ \A d \in Device : \A x \in Place : Leads(d, doomed, server.leaves, off \o on, x, x)
    BY <2>4, <2>5, LeadsJoin
  <2> QED  BY <1>0, <2>1, <2>6, InputSent DEF proxy, Device
<1> QED  BY <1>1, <1>2, <1>3

LEMMA InputUsed ==
  ASSUME IInv, InputInv, UsePointer \/ \E k \in Key : UseKey(k)
  PROVE  InputInv'
<1>1. ASSUME NEW type \in {"motion", "press"}, Sends(<<Plain(type)>>), pfocus # NoWindow,
             UNCHANGED compositor
      PROVE  InputInv'
  <2>1. Plain(type) \in Event /\ Plain(type).type = type
    BY EventTypes DEF Plain
  <2>2. /\ <<Plain(type)>> \in Seq(Event)
        /\ Leads("pointer", doomed, server.leaves, <<Plain(type)>>, pfocus, pfocus)
        /\ Leads("keyboard", doomed, server.leaves, <<Plain(type)>>, kfocus, kfocus)
    BY <1>1, <2>1, InputTypes, LeadsNowhere DEF InputOf, Device
  <2> QED  BY <1>1, <2>2, InputSent DEF Sends, proxy, compositor
<1>2. ASSUME NEW k \in Key, UseKey(k)
      PROVE  InputInv'
  <2> DEFINE on == k \notin held
             events == IF kfocus = NoWindow THEN <<>> ELSE <<KeyEvent(k, on)>>
  <2>1. on \in BOOLEAN
    OBVIOUS
  <2> HIDE DEF on
  <2>2. KeyEvent(k, on) \in Event /\ KeyEvent(k, on).type = "key"
    BY <2>1, EventTypes DEF KeyEvent
  <2>3. /\ events \in Seq(Event)
        /\ Leads("pointer", doomed, server.leaves, events, pfocus, pfocus)
        /\ Leads("keyboard", doomed, server.leaves, events, kfocus, kfocus)
    BY <2>2, InputTypes, LeadsNowhere, LeadsNone DEF InputOf, Device
  <2>4. Running /\ wire' = wire \o events /\ UNCHANGED <<pfocus, kfocus>> /\ UNCHANGED proxy
    BY <1>2 DEF UseKey, Sends, on
  <2> HIDE DEF events
  <2> QED  BY <2>3, <2>4, InputSent DEF proxy
<1> QED  BY <1>1, <1>2 DEF UsePointer

\* The answer to a roundtrip goes behind the leave events, if there are any.
LEMMA InputForgotten ==
  ASSUME IInv, InputInv, SurfaceDestroyed
  PROVE  InputInv'
<1> DEFINE leave(device, focus) ==
             IF server.leaves /\ focus = doomed
             THEN FocusEvents(device, focus, NoWindow) ELSE <<>>
           without(focus) == IF focus = doomed THEN NoWindow ELSE focus
           left(focus) == IF server.leaves /\ focus = doomed THEN NoWindow ELSE focus
           a == leave("pointer", pfocus)
           b == leave("keyboard", kfocus)
           c == <<Plain("done")>>
<1>1. /\ Running /\ wire' = wire \o a \o b \o c
      /\ pfocus' = without(pfocus) /\ kfocus' = without(kfocus)
      /\ UNCHANGED proxy
  BY DEF SurfaceDestroyed
<1>2. {pfocus, kfocus, NoWindow, left(pfocus), left(kfocus)} \subseteq Place
  BY InputTypes DEF Place
<1>3. ASSUME NEW d \in Device, NEW focus \in Place
      PROVE  /\ leave(d, focus) \in Seq(Event)
             /\ Leads(d, doomed, server.leaves, leave(d, focus), focus, left(focus))
             /\ \A other \in Device : \A x \in Place :
                  other # d => Leads(other, doomed, server.leaves, leave(d, focus), x, x)
  <2>1. CASE server.leaves /\ focus = doomed
    BY <1>2, <2>1, FocusLeads
  <2>2. CASE ~(server.leaves /\ focus = doomed)
    <3>1. leave(d, focus) = <<>> /\ left(focus) = focus /\ <<>> \in Seq(Event)
      BY <2>2
    <3> HIDE DEF leave, left
    <3> QED  BY <3>1, LeadsNone
  <2> QED  BY <2>1, <2>2
<1>4. ASSUME NEW d \in Device, NEW focus \in Place
      PROVE  Leads(d, doomed, server.leaves, c, left(focus), without(focus))
  <2>1. Plain("done").type = "done"
    BY DEF Plain
  <2>2. left(focus) \in Place /\ without(focus) \in Place
    BY DEF Place
  <2>3. doomed # NoWindow
    BY DEF SurfaceDestroyed, IInv, TypeOK
  <2>4. Passes(d, doomed, server.leaves, Plain("done"), left(focus), without(focus))
    BY <2>1, <2>3 DEF Passes, InputOf
  <2> QED  BY <2>2, <2>4, LeadsOne
<1>5. /\ a \in Seq(Event) /\ b \in Seq(Event)
      /\ Leads("pointer", doomed, server.leaves, a, pfocus, left(pfocus))
      /\ Leads("keyboard", doomed, server.leaves, a, kfocus, kfocus)
      /\ Leads("pointer", doomed, server.leaves, b, left(pfocus), left(pfocus))
      /\ Leads("keyboard", doomed, server.leaves, b, kfocus, left(kfocus))
  <2> HIDE DEF leave, left
  <2> QED  BY <1>2, <1>3 DEF Device
<1>6. /\ Leads("pointer", doomed, server.leaves, c, left(pfocus), pfocus')
      /\ Leads("keyboard", doomed, server.leaves, c, left(kfocus), kfocus')
  <2> HIDE DEF left, c
  <2>1. "pointer" \in Device /\ "keyboard" \in Device
    BY DEF Device
  <2> QED  BY <1>1, <1>2, <1>4, <2>1
<1>7. c \in Seq(Event)
  BY EventTypes
<1> HIDE DEF a, b, c, left, leave, without
<1> DEFINE events == a \o (b \o c)
<1>8. events \in Seq(Event) /\ wire' = wire \o events
  <2>1. ((wire \o a) \o b) \o c = wire \o (a \o (b \o c))
    <3> DEFINE bc == b \o c
               wa == wire \o a
    <3>0. /\ wire \in Seq(Event) /\ a \in Seq(Event) /\ b \in Seq(Event)
          /\ c \in Seq(Event)
      BY <1>5, <1>7, InputTypes
    <3>1. wa \in Seq(Event) /\ bc \in Seq(Event)
      BY <3>0, ConcatProperties
    <3>2. (wa \o b) \o c = wa \o bc
      <4> HIDE DEF wa
      <4> QED  BY <3>0, <3>1, ConcatAssociative
    <3>3. wa \o bc = wire \o (a \o bc)
      <4> HIDE DEF bc
      <4> QED  BY <3>0, <3>1, ConcatAssociative
    <3> QED  BY <3>2, <3>3
  <2>2. b \o c \in Seq(Event)
    BY <1>5, <1>7, ConcatProperties
  <2>3. events \in Seq(Event)
    BY <1>5, <2>2, ConcatProperties
  <2>4. wire' = wire \o events
    BY <1>1, <2>1
  <2> QED  BY <2>3, <2>4
<1>9. /\ Leads("pointer", doomed, server.leaves, events, pfocus, pfocus')
      /\ Leads("keyboard", doomed, server.leaves, events, kfocus, kfocus')
  <2>1. /\ b \o c \in Seq(Event)
        /\ Leads("pointer", doomed, server.leaves, b \o c, left(pfocus), pfocus')
        /\ Leads("keyboard", doomed, server.leaves, b \o c, kfocus, kfocus')
    BY <1>5, <1>6, <1>7, LeadsJoin
  <2> QED  BY <1>5, <2>1, LeadsJoin
<1> HIDE DEF events
<1> QED  BY <1>1, <1>8, <1>9, InputSent DEF proxy

\* Motion, button and key events find a window to go to, and a key repeats in
\* the window that got its press if the compositor sends leave events for a
\* surface that is destroyed (pointer_motion(), keyboard_key(),
\* qwswl_keyboard_repeat_tick()).
THEOREM InputFindsItsWindow == Spec => []InputStaysHome
<1>1. Init => InputInv
  <2> SUFFICES ASSUME Init
               PROVE  InputInv
    OBVIOUS
  <2>1. NoWindow \in Place
    BY DEF Place
  <2>2. /\ Leads("pointer", doomed, server.leaves, wire, pointer, pfocus)
        /\ Leads("keyboard", doomed, server.leaves, wire, kbd, kfocus)
    BY <2>1, LeadsNone DEF Init
  <2>3. InputStaysHome /\ repeat = NoKey
    BY DEF Init, InputStaysHome
  <2> QED  BY <2>2, <2>3 DEF InputInv
<1>2. IInv /\ InputInv /\ [Next]_vars => InputInv'
  <2> SUFFICES ASSUME IInv, InputInv, [Next]_vars
               PROVE  InputInv'
    OBVIOUS
  <2>1. CASE RepeatTick
    BY <2>1 DEF RepeatTick, InLoop, InputInv, InputStaysHome, Running, compositor
  <2>2. CASE UNCHANGED vars
    BY <2>2 DEF vars, proxy, compositor, InputInv, InputStaysHome, Running
  <2> QED  BY <2>1, <2>2, InputDispatched, InputAnswered, InputDoomed, InputCreated,
              InputMoved, InputUsed, InputForgotten DEF Next
<1>3. InputInv => InputStaysHome
  BY DEF InputInv
<1> QED  BY <1>1, <1>2, <1>3, Invariance, PTL DEF Spec
=============================================================================
