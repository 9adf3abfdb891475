-------------------------- MODULE ClipboardProofs --------------------------
(***************************************************************************)
(* Theorems about Clipboard and, under it, Globals: what a client gets is  *)
(* what was copied last, what others get from the proxy is what a client   *)
(* copied last, subscribers are told of what changes; a seat has a data    *)
(* device, a cursor an object that the compositor heeds, and a key that    *)
(* repeats a keyboard.                                                     *)
(***************************************************************************)
EXTENDS Clipboard, SequenceLemmas

Event == Text \cup {Empty, Absent, Cancelled}
Has(s, e) == \E i \in DOMAIN s : s[i] = e

----------------------------------------------------------------------------
(* The globals. *)

\* What was bound is there until the seat changes.
GlobalsBound ==
  /\ phase \in {"registry", "listeners", "setup", "running", "failed", "down"}
  /\ changes \in Nat
  /\ changes = 0 /\ phase # "down" =>
       /\ "seat" \in bound => seat
       /\ "data" \in bound => manager
  /\ phase \in {"listeners", "setup", "running"} => bound = offer
  /\ manager /\ seat => device

\* The devices of the seat have their objects when they have been announced,
\* and none before.
ObjectsFollow ==
  /\ {pointer, keyboard, shape} \subseteq {"none", "live", "inert"}
  /\ phase = "registry" => ~announced
  /\ announced => seat
  /\ ~announced => pointer = "none" /\ keyboard = "none"
  /\ shape = "live" => pointer = "live"
  /\ changes = 0 => pointer # "inert" /\ shape # "inert"
  /\ keyboard = "live" => xkb

\* Nothing happens after a crash, and a key repeats on a keyboard.
RepeatsOnKeyboard ==
  /\ crashed \in {"no", "tick", "set"}
  /\ crashed # "no" => phase = "running"
  /\ crashed = "tick" => rude
  /\ repeating /\ phase # "down" => (keyboard = "live" /\ xkb) \/ rude

GInv == GlobalsBound /\ ObjectsFollow /\ RepeatsOnKeyboard

LEMMA GInvInit == InitGlobals => GInv
BY DEF InitGlobals, GInv, GlobalsBound, ObjectsFollow, RepeatsOnKeyboard

\* The globals, step by step.
LEMMA BindStep ==
  ASSUME GInv, NEW g \in Global, Bind(g)
  PROVE  GInv'
<1> USE DEF GInv, GlobalsBound, ObjectsFollow, RepeatsOnKeyboard, Bind, data
<1>1. CASE g = "seat"
  <2>1. BindSeat
    BY <1>1
  <2> QED  BY <1>1, <2>1 DEF BindSeat, ClipboardInit
<1>2. CASE g = "data"
  <2>1. BindManager
    BY <1>2
  <2> QED  BY <1>2, <2>1 DEF BindManager, ClipboardInit
<1>3. CASE g \notin {"seat", "data"}
  <2>1. UNCHANGED <<seat, caps, announced, data>>
    BY <1>3
  <2> QED  BY <1>3, <2>1
<1> QED  BY <1>1, <1>2, <1>3

LEMMA CapabilitiesStep ==
  ASSUME GInv, NEW C \in Capability, NEW leaves \in BOOLEAN,
         Capabilities(C, leaves)
  PROVE  GInv'
<1> USE DEF GInv, Capabilities, startup, data
<1>1. GlobalsBound'
  BY DEF GlobalsBound
<1>2. ObjectsFollow'
  <2> USE DEF ObjectsFollow
  <2>1. /\ pointer' \in {"none", "live", "inert"}
        /\ keyboard' \in {"none", "live", "inert"}
        /\ shape' \in {"none", "live", "inert"}
    BY DEF Told
  <2>2. shape' = "live" => pointer' = "live"
    BY DEF Told
  <2>3. changes' = 0 => pointer' # "inert" /\ shape' # "inert"
    BY DEF Told, GlobalsBound
  <2> QED  BY <2>1, <2>2, <2>3 DEF Keymap, GlobalsBound, Running
<1>3. RepeatsOnKeyboard'
  <2> USE DEF RepeatsOnKeyboard
  <2>1. repeating' => (keyboard' = "live" /\ xkb') \/ rude'
    BY DEF Leave, Taken, Keymap, Told, Running
  <2> QED  BY <2>1 DEF Running, Taken
<1> QED  BY <1>1, <1>2, <1>3

LEMMA UnplugStep ==
  ASSUME GInv, NEW leaves \in BOOLEAN, Unplug(leaves)
  PROVE  GInv'
<1> USE DEF GInv, Unplug, Teardown, startup
<1>1. GlobalsBound'
  BY DEF GlobalsBound
<1>2. ObjectsFollow'
  BY DEF ObjectsFollow, GlobalsBound, Running
<1>3. RepeatsOnKeyboard'
  BY DEF RepeatsOnKeyboard, Leave, Taken, Running
<1> QED  BY <1>1, <1>2, <1>3

LEMMA ShutDownStep ==
  ASSUME GInv, ShutDown
  PROVE  GInv'
BY DEF GInv, GlobalsBound, ObjectsFollow, RepeatsOnKeyboard, ShutDown, Teardown,
       Running

LEMMA NextGlobalsStep ==
  ASSUME GInv, NextGlobals
  PROVE  /\ GInv'
         /\ device => device'
         /\ phase' = "down" <=> phase = "down"
<1> USE DEF GInv, startup, input, data
<1>1. ASSUME NEW g \in Global, Bind(g)
      PROVE  /\ device => device'
             /\ phase' = "down" <=> phase = "down"
  <2>1. phase' = phase
    BY <1>1 DEF Bind
  <2>2. CASE g = "seat"
    <3>1. BindSeat
      BY <1>1, <2>2 DEF Bind
    <3> QED  BY <2>1, <3>1 DEF BindSeat, ClipboardInit
  <2>3. CASE g = "data"
    <3>1. BindManager
      BY <1>1, <2>3 DEF Bind
    <3> QED  BY <2>1, <3>1 DEF BindManager, ClipboardInit
  <2>4. CASE g \notin {"seat", "data"}
    <3>1. UNCHANGED data
      BY <1>1, <2>4 DEF Bind
    <3> QED  BY <2>1, <3>1
  <2> QED  BY <2>2, <2>3, <2>4
<1>2. CASE \E g \in Global : Bind(g)
  BY <1>1, <1>2, BindStep
<1>3. CASE FirstRoundtrip
  BY <1>3 DEF FirstRoundtrip, GlobalsBound, ObjectsFollow, RepeatsOnKeyboard
<1>4. CASE \E width, height, mode, depth \in BOOLEAN :
             SecondRoundtrip(width, height, mode, depth)
  <2>1. /\ phase = "listeners" /\ phase' \in {"setup", "failed"}
        /\ UNCHANGED <<offer, bound, step, input, data, shape, crashed>>
    BY <1>4 DEF SecondRoundtrip
  <2> QED  BY <2>1 DEF GlobalsBound, ObjectsFollow, RepeatsOnKeyboard
<1>5. CASE SetUp
  <2>1. /\ phase = "setup" /\ phase' \in {"setup", "running"}
        /\ shape' = shape \/ shape' = pointer \/ shape' = "none"
        /\ UNCHANGED <<offer, bound, input, data, crashed>>
    BY <1>5 DEF SetUp, ShapeDevice
  <2> QED  BY <2>1 DEF GlobalsBound, ObjectsFollow, RepeatsOnKeyboard
<1>6. CASE SetUpFails
  BY <1>6 DEF SetUpFails, GlobalsBound, ObjectsFollow, RepeatsOnKeyboard
<1>7. CASE \E C \in Capability, leaves \in BOOLEAN : Capabilities(C, leaves)
  BY <1>7, CapabilitiesStep DEF Capabilities
<1>8. CASE Plug
  <2>1. device => device'
    BY <1>8 DEF Plug, BindSeat, ClipboardInit
  <2>2. GInv'
    BY <1>8 DEF Plug, BindSeat, ClipboardInit, GlobalsBound, ObjectsFollow,
                RepeatsOnKeyboard, Running
  <2> QED  BY <1>8, <2>1, <2>2 DEF Plug
<1>9. CASE \E down \in BOOLEAN : Key(down)
  BY <1>9 DEF Key, GlobalsBound, ObjectsFollow, RepeatsOnKeyboard, Running
<1>10. CASE Tick
  BY <1>10 DEF Tick, GlobalsBound, ObjectsFollow, RepeatsOnKeyboard, Running
<1> QED  BY <1>2, <1>3, <1>4, <1>5, <1>6, <1>7, <1>8, <1>9, <1>10 DEF NextGlobals

\* SET_PROPERTY without a data device is the only step of the clipboard that
\* touches the globals.
LEMMA GInvStep ==
  ASSUME GInv, [Next]_vars
  PROVE  GInv'
<1>1. CASE UNCHANGED globals
  BY <1>1 DEF GInv, GlobalsBound, ObjectsFollow, RepeatsOnKeyboard, globals,
              startup, input, data
<1>2. CASE NextGlobals
  BY <1>2, NextGlobalsStep
<1>3. CASE \E leaves \in BOOLEAN : Unplug(leaves)
  BY <1>3, UnplugStep
<1>4. CASE ShutDown
  BY <1>4, ShutDownStep
<1>5. CASE /\ Running /\ crashed' \in {"no", "set"}
           /\ UNCHANGED <<startup, input, data, shape>>
  BY <1>5 DEF GInv, GlobalsBound, ObjectsFollow, RepeatsOnKeyboard, startup,
              input, data, Running
<1>6. ASSUME NEW c \in Client, NEW text \in Text, NEW accepted \in BOOLEAN,
             SetClipboard(c, text, accepted)
      PROVE  /\ Running /\ crashed' \in {"no", "set"}
             /\ UNCHANGED <<startup, input, data, shape>>
  BY <1>6 DEF SetClipboard, Running
<1>7. CASE UNCHANGED vars
  BY <1>1, <1>7 DEF vars
<1>8. CASE Next
  <2>1. ASSUME NEW c \in Client, NEW p \in Property,
               \/ AddProperty(c, p) \/ RemoveProperty(c, p)
               \/ \E mode \in Mode, text \in Text \ Broken :
                    SetProperty(c, p, mode, text)
        PROVE  UNCHANGED globals
    BY <2>1 DEF AddProperty, RemoveProperty, SetProperty
  <2>2. GetClipboard => UNCHANGED globals
    BY DEF GetClipboard
  <2>3. (\E c \in Client : ClientLeaves(c)) => UNCHANGED globals
    BY DEF ClientLeaves
  <2>4. (\E text \in Text \cup {Empty, Absent} : Copy(text)) => UNCHANGED globals
    BY DEF Copy
  <2>5. Refocus \/ SourceCancelled \/ Selection => UNCHANGED globals
    BY DEF Refocus, SourceCancelled, Selection
  <2>6. Other => NextGlobals
    BY DEF Other
  <2>7. (\E leaves \in BOOLEAN : UnplugSeat(leaves))
          => \E leaves \in BOOLEAN : Unplug(leaves)
    BY DEF UnplugSeat
  <2>8. EndAll => ShutDown
    BY DEF EndAll
  <2> QED  BY <1>1, <1>2, <1>3, <1>4, <1>5, <1>6, <1>8, <2>1, <2>2, <2>3, <2>4,
              <2>5, <2>6, <2>7, <2>8 DEF Next
<1> QED  BY <1>7, <1>8

LEMMA GInvIsInvariant == Spec => []GInv
<1>1. Init => GInv
  BY GInvInit DEF Init
<1> QED  BY <1>1, GInvStep, PTL DEF Spec

\* A seat and a clipboard manager have got a data device, in whatever order the
\* compositor announces them (registry_global(), qwswl_clipboard_init()).
THEOREM ClipboardIsReady == Spec => []ClipboardReady
<1>1. GInv => ClipboardReady
  BY DEF GInv, GlobalsBound, ClipboardReady
<1> QED  BY <1>1, GInvIsInvariant, PTL

\* Until the seat changes a cursor goes to an object that the compositor heeds
\* (qwswl_cursor_select(), qwswl_cursor_init()).
THEOREM CursorsReach == Spec => []CursorReaches
<1>1. GInv => CursorReaches
  BY DEF GInv, ObjectsFollow, CursorReaches, CursorObject
<1> QED  BY <1>1, GInvIsInvariant, PTL

\* A key repeats on a keyboard that is there, unless the compositor took it
\* without a leave (keyboard_leave(), seat_teardown()).
THEOREM RepeatsHaveKeyboard == Spec => []NoGhostRepeats
<1>1. GInv => NoGhostRepeats
  BY DEF GInv, RepeatsOnKeyboard, NoGhostRepeats, Running
<1> QED  BY <1>1, GInvIsInvariant, PTL

----------------------------------------------------------------------------
(* The clipboard. *)

Typed ==
  /\ store \in [Property -> {Absent} \cup Seq(Text)]
  /\ memfd \in Text \cup {Absent}
  /\ source \in {"none", "selected", "refused"}
  /\ owner \in {"proxy", "other"}
  /\ wire \in Seq(Event)
  /\ selection \in Event \ {Cancelled}
  /\ latest \in Event \ {Cancelled}

\* One data source of ours at most has been cancelled and not been told of it,
\* and only if another has got the selection.
OneCancelled ==
  /\ \A i, j \in DOMAIN wire : wire[i] = Cancelled /\ wire[j] = Cancelled => i = j
  /\ Has(wire, Cancelled) => owner = "other"
  /\ source = "selected" /\ owner = "other" => Has(wire, Cancelled)

\* What hangs on the data device, the text in the memfd included, goes with it.
WithDevice == wire # <<>> \/ owner = "proxy" \/ memfd # Absent => device

\* The proxy has the selection: it is what was offered last.
Offered ==
  owner = "proxy" =>
    /\ source = "selected" /\ utf8 \in Text /\ utf8 = selection
    /\ latest \notin Broken => utf8 = latest

\* What was copied last is in the property store, or else in the memfd.
Kept ==
  phase # "down" /\ hidden = "no" /\ latest \notin Broken =>
    IF store[TextClipboard] # Absent
      THEN store[TextClipboard] = IF latest \in Text THEN <<latest>> ELSE <<>>
      ELSE IF latest \in Text THEN memfd = latest /\ device
                              ELSE memfd = Absent

CInv == GInv /\ Typed /\ OneCancelled /\ WithDevice /\ Offered /\ Kept

LEMMA TheTexts ==
  /\ Broken \subseteq Text
  /\ TextClipboard \in Property
  /\ Absent # Empty /\ Absent # Cancelled /\ Empty # Cancelled
  /\ Absent \notin Text /\ Empty \notin Text /\ Cancelled \notin Text
  /\ \A text \in Text : Absent # <<text>>
<1>1. \A text \in Text : <<text>> \in Seq(Text)
  OBVIOUS
<1> QED  BY <1>1, ClipboardAssumption

\* Removing the only occurrence of an event leaves none.
LEMMA RemoveOnly ==
  ASSUME NEW S, NEW s \in Seq(S), NEW e,
         \A i, j \in DOMAIN s : s[i] = e /\ s[j] = e => i = j
  PROVE  RemoveFirst(s, e) \in Seq(S \ {e})
<1> DEFINE T == S \ {e}
<1>1. Len(s) \in Nat /\ DOMAIN s = 1 .. Len(s) /\ \A i \in 1 .. Len(s) : s[i] \in S
  OBVIOUS
<1>2. CASE \E i \in 1 .. Len(s) : s[i] = e
  <2> DEFINE I == {i \in 1 .. Len(s) : s[i] = e}
             k == Min(I)
             a == SubSeq(s, 1, k - 1)
             b == SubSeq(s, k + 1, Len(s))
  <2>1. k \in I
    <3>1. I \in SUBSET Nat /\ I # {}
      BY <1>1, <1>2
    <3> HIDE DEF I
    <3> QED  BY <3>1, MinInSet
  <2>2. RemoveFirst(s, e) = a \o b
    BY <1>2 DEF RemoveFirst, SelectInSeq, RemoveAt
  <2> HIDE DEF k
  <2>3. \A i \in 1 .. Len(s) : i # k => s[i] \in T
    BY <1>1, <2>1
  <2>4. a \in Seq(T)
    <3>1. \A i \in 1 .. k - 1 : s[i] \in T
      BY <1>1, <2>1, <2>3
    <3> QED  BY <1>1, <2>1, <3>1, SubSeqProperties
  <2>5. b \in Seq(T)
    <3>1. \A i \in k + 1 .. Len(s) : s[i] \in T
      BY <1>1, <2>1, <2>3
    <3> QED  BY <1>1, <2>1, <3>1, SubSeqProperties
  <2> HIDE DEF a, b, T
  <2>6. a \o b \in Seq(T)
    BY <2>4, <2>5, ConcatProperties
  <2> QED  BY <2>2, <2>6 DEF T
<1>3. CASE ~ \E i \in 1 .. Len(s) : s[i] = e
  <2>1. RemoveFirst(s, e) = s
    BY <1>3 DEF RemoveFirst
  <2> QED  BY <1>1, <1>3, <2>1
<1> QED  BY <1>2, <1>3

\* Events that are sent, and the event that is received.
LEMMA Sent ==
  ASSUME NEW s \in Seq(Event), NEW t \in Seq(Event)
  PROVE  /\ s \o t \in Seq(Event)
         /\ \A e : Has(s \o t, e) <=> Has(s, e) \/ Has(t, e)
         /\ \A e : /\ \A i, j \in DOMAIN s : s[i] = e /\ s[j] = e => i = j
                   /\ ~Has(t, e)
                   => \A i, j \in DOMAIN (s \o t) :
                        (s \o t)[i] = e /\ (s \o t)[j] = e => i = j
<1> DEFINE u == s \o t
           m == Len(s)
<1>1. /\ u \in Seq(Event) /\ DOMAIN u = 1 .. m + Len(t)
      /\ m \in Nat /\ Len(t) \in Nat /\ DOMAIN s = 1 .. m /\ DOMAIN t = 1 .. Len(t)
      /\ \A i \in 1 .. m + Len(t) : u[i] = IF i <= m THEN s[i] ELSE t[i - m]
  BY ConcatProperties
<1>2. \A i \in DOMAIN u : \/ i \in DOMAIN s /\ u[i] = s[i]
                          \/ i > m /\ i - m \in DOMAIN t /\ u[i] = t[i - m]
  BY <1>1
<1>3. \A i \in DOMAIN s : i \in DOMAIN u /\ u[i] = s[i]
  BY <1>1
<1>4. \A i \in DOMAIN t : m + i \in DOMAIN u /\ u[m + i] = t[i]
  BY <1>1
<1> HIDE DEF u, m
<1>5. ASSUME NEW e
      PROVE  Has(u, e) <=> Has(s, e) \/ Has(t, e)
  BY <1>2, <1>3, <1>4 DEF Has
<1>6. ASSUME NEW e, ~Has(t, e),
             \A i, j \in DOMAIN s : s[i] = e /\ s[j] = e => i = j
      PROVE  \A i, j \in DOMAIN u : u[i] = e /\ u[j] = e => i = j
  BY <1>2, <1>6 DEF Has
<1> QED  BY <1>1, <1>5, <1>6 DEF u

LEMMA Received ==
  ASSUME NEW s \in Seq(Event), s # <<>>
  PROVE  /\ Tail(s) \in Seq(Event) /\ Head(s) \in Event
         /\ \A e : Has(s, e) <=> Head(s) = e \/ Has(Tail(s), e)
         /\ \A e : (\A i, j \in DOMAIN s : s[i] = e /\ s[j] = e => i = j)
                   => /\ \A i, j \in DOMAIN Tail(s) :
                           Tail(s)[i] = e /\ Tail(s)[j] = e => i = j
                      /\ Head(s) = e => ~Has(Tail(s), e)
<1> DEFINE t == Tail(s)
           m == Len(s)
<1>1. /\ t \in Seq(Event) /\ Head(s) \in Event /\ Head(s) = s[1]
      /\ m \in Nat /\ m > 0 /\ DOMAIN s = 1 .. m /\ DOMAIN t = 1 .. m - 1
      /\ \A i \in 1 .. m - 1 : t[i] = s[i + 1]
  BY HeadTailProperties
<1>2. \A i \in DOMAIN t : i \in Nat /\ i > 0 /\ i + 1 \in DOMAIN s /\ t[i] = s[i + 1]
  BY <1>1
<1>3. 1 \in DOMAIN s /\ \A i \in DOMAIN s : i = 1 \/ (i - 1 \in DOMAIN t /\ s[i] = t[i - 1])
  BY <1>1
<1> HIDE DEF t, m
<1>4. ASSUME NEW e
      PROVE  Has(s, e) <=> Head(s) = e \/ Has(t, e)
  BY <1>1, <1>2, <1>3, <1>4 DEF Has
<1>5. ASSUME NEW e, \A i, j \in DOMAIN s : s[i] = e /\ s[j] = e => i = j
      PROVE  /\ \A i, j \in DOMAIN t : t[i] = e /\ t[j] = e => i = j
             /\ Head(s) = e => ~Has(t, e)
  <2>1. ASSUME NEW i \in DOMAIN t, NEW j \in DOMAIN t, t[i] = e, t[j] = e
        PROVE  i = j
    <3>1. i + 1 = j + 1
      BY <1>2, <1>5, <2>1
    <3> QED  BY <1>2, <3>1
  <2>2. ASSUME Head(s) = e, Has(t, e)
        PROVE  FALSE
    <3>1. PICK i \in DOMAIN t : t[i] = e
      BY <2>2 DEF Has
    <3>2. i + 1 = 1
      BY <1>1, <1>2, <1>3, <1>5, <2>2, <3>1
    <3> QED  BY <1>2, <3>2
  <2> QED  BY <2>1, <2>2
<1> QED  BY <1>1, <1>4, <1>5 DEF t
----------------------------------------------------------------------------
(* The clipboard, step by step. *)

LEMMA CInvInit == Init => CInv
BY GInvInit, TheTexts
   DEF Init, CInv, InitGlobals, Typed, OneCancelled, WithDevice, Offered, Kept,
       Has, Event

LEMMA CInvStutter ==
  ASSUME CInv, GInv', UNCHANGED <<store, bridge, compositor, latest, hidden>>,
         device => device', phase' = "down" <=> phase = "down"
  PROVE  CInv'
BY DEF CInv, Typed, OneCancelled, WithDevice, Offered, Kept, Has, bridge, compositor

\* The commands on the property store.
LEMMA PropertyStep ==
  ASSUME CInv, GInv', NEW c \in Client, NEW p \in Property,
         \/ AddProperty(c, p) \/ RemoveProperty(c, p)
         \/ \E mode \in Mode, text \in Text \ Broken : SetProperty(c, p, mode, text)
  PROVE  CInv'
<1> USE DEF globals, startup, input, data, bridge, compositor
<1>1. Typed /\ TextClipboard \in Property
  BY TheTexts DEF CInv
<1>2. /\ UNCHANGED <<phase, device, memfd, utf8, source, wire, owner, selection, latest>>
      /\ hidden' = hidden \/ hidden' # "no"
      /\ store' \in [Property -> {Absent} \cup Seq(Text)]
      /\ store'[TextClipboard] # store[TextClipboard] =>
           \/ hidden' # "no"
           \/ store[TextClipboard] = Absent /\ store'[TextClipboard] = <<>> /\ Answer = Absent
  <2>1. CASE AddProperty(c, p)
    BY <1>1, <2>1 DEF AddProperty, Add, Typed
  <2>2. CASE RemoveProperty(c, p)
    BY <1>1, <2>2 DEF RemoveProperty, Removed, Typed
  <2>3. ASSUME NEW mode \in Mode, NEW text \in Text, SetProperty(c, p, mode, text)
        PROVE  /\ UNCHANGED <<phase, device, memfd, utf8, source, wire, owner,
                              selection, latest, hidden>>
               /\ store' \in [Property -> {Absent} \cup Seq(Text)]
               /\ store'[TextClipboard] = store[TextClipboard]
    <3>1. ASSUME NEW old \in Seq(Text)
          PROVE  Joined(mode, old, <<text>>) \in Seq(Text)
      <4>1. <<text>> \in Seq(Text) /\ mode \in {"replace", "prepend", "append"}
        BY DEF Mode
      <4>2. <<text>> \o old \in Seq(Text) /\ old \o <<text>> \in Seq(Text)
        BY <4>1, ConcatProperties
      <4> QED  BY <4>1, <4>2 DEF Joined
    <3>2. store' = Set(p, mode, <<text>>) /\ p # TextClipboard
      BY <2>3 DEF SetProperty
    <3>3. IF store[p] = Absent THEN TRUE ELSE store[p] \in Seq(Text)
      BY <1>1 DEF Typed
    <3>4. store' \in [Property -> {Absent} \cup Seq(Text)]
          /\ store'[TextClipboard] = store[TextClipboard]
      BY <1>1, <3>1, <3>2, <3>3 DEF Set, Typed
    <3> QED  BY <2>3, <3>4 DEF SetProperty
  <2> QED  BY <2>1, <2>2, <2>3
<1>3. Kept'
  <2>1. Answer = Absent /\ latest \in Text \ Broken =>
          ~(store[TextClipboard] = Absent /\ memfd = latest /\ device)
    BY TheTexts DEF Answer
  <2> QED  BY <1>1, <1>2, <2>1 DEF CInv, Kept
<1> QED  BY <1>2, <1>3 DEF CInv, Typed, OneCancelled, WithDevice, Offered, Has

LEMMA SetClipboardStep ==
  ASSUME CInv, GInv', NEW c \in Client, NEW text \in Text, NEW accepted \in BOOLEAN,
         SetClipboard(c, text, accepted)
  PROVE  CInv'
<1> USE DEF startup, input, data, compositor
<1>1. Typed /\ TextClipboard \in Property /\ <<text>> \in Seq(Text)
  BY TheTexts DEF CInv
<1>2. /\ store' \in [Property -> {Absent} \cup Seq(Text)]
      /\ store'[TextClipboard] = <<text>>
      /\ latest' = text
      /\ UNCHANGED <<phase, device, memfd>>
  BY <1>1 DEF SetClipboard, Add, Joined, Typed
<1>3. Kept'
  BY <1>2, TheTexts DEF Kept
<1>4. CASE text \in Broken \/ ~device
  <2>1. UNCHANGED <<source, wire, owner, selection>>
    BY <1>4 DEF SetClipboard
  <2>2. (text \in Broken /\ utf8' = utf8) \/ ~device
    BY <1>4 DEF SetClipboard
  <2>3. Typed'
    BY <1>1, <1>2, <2>1, TheTexts DEF Typed, Event
  <2>4. OneCancelled' /\ WithDevice'
    BY <1>2, <2>1 DEF CInv, OneCancelled, WithDevice, Has
  <2>5. Offered'
    BY <1>1, <1>2, <2>1, <2>2 DEF CInv, WithDevice, Offered, Typed
  <2> QED  BY <1>3, <2>3, <2>4, <2>5 DEF CInv
<1>5. CASE text \notin Broken /\ device
  <2>1. utf8' = text /\ NewSource(text, accepted)
    BY <1>5 DEF SetClipboard
  <2>2. wire' \in Seq(Event \ {Cancelled})
    BY <1>1, <2>1, RemoveOnly DEF NewSource, CInv, OneCancelled, Typed
  <2>3. ~Has(wire', Cancelled) /\ wire' \in Seq(Event)
    BY <2>2 DEF Has
  <2>4. /\ source' = IF accepted THEN "selected" ELSE "refused"
        /\ owner' = "proxy" \/ owner' = "other"
        /\ owner' = "proxy" => accepted
        /\ accepted => owner' = "proxy"
        /\ accepted => selection' = text
        /\ selection' \in Event \ {Cancelled}
    BY <1>1, <2>1, TheTexts DEF NewSource, Typed, Event
  <2>5. Typed'
    BY <1>1, <1>2, <2>3, <2>4, TheTexts DEF Typed, Event
  <2>6. OneCancelled'
    BY <2>3, <2>4 DEF OneCancelled, Has
  <2> QED  BY <1>2, <1>3, <1>5, <2>1, <2>4, <2>5, <2>6 DEF CInv, WithDevice, Offered
<1> QED  BY <1>4, <1>5

LEMMA GetClipboardStep ==
  ASSUME CInv, GInv', GetClipboard
  PROVE  CInv'
<1> USE DEF globals, startup, input, data, compositor
<1>1. Typed /\ TextClipboard \in Property
  BY TheTexts DEF CInv
<1>2. Answer = <<memfd>> /\ memfd \in Text /\ <<memfd>> \in Seq(Text)
  BY <1>1, TheTexts DEF GetClipboard, Answer, Typed
<1>3. /\ store' \in [Property -> {Absent} \cup Seq(Text)]
      /\ store'[TextClipboard] = <<memfd>>
      /\ memfd' = Absent
      /\ UNCHANGED <<phase, device, utf8, source, wire, owner, selection, latest, hidden>>
  BY <1>1, <1>2 DEF GetClipboard, Add, Typed
<1>4. Kept'
  BY <1>2, <1>3, TheTexts DEF CInv, Kept, GetClipboard
<1> QED  BY <1>3, <1>4 DEF CInv, Typed, OneCancelled, WithDevice, Offered, Has

LEMMA CopyStep ==
  ASSUME CInv, GInv', NEW text \in Text \cup {Empty, Absent}, Copy(text)
  PROVE  CInv'
<1> USE DEF globals, startup, input, data, bridge
<1> DEFINE events == (IF owner = "proxy" THEN <<Cancelled>> ELSE <<>>) \o <<text>>
<1>1. Typed /\ text \in Event /\ text # Cancelled
  BY TheTexts DEF CInv, Event
<1>2. /\ owner = "proxy" => events = <<Cancelled, text>>
      /\ owner # "proxy" => events = <<text>>
  <2>1. <<Cancelled>> \o <<text>> = <<Cancelled, text>>
    <3> DEFINE s == <<Cancelled>>
               t == <<text>>
               u == <<Cancelled, text>>
    <3>1. s \in Seq(Event) /\ t \in Seq(Event) /\ u \in Seq(Event)
      BY <1>1 DEF Event
    <3>2. Len(s) = 1 /\ s[1] = Cancelled /\ Len(t) = 1 /\ t[1] = text
      OBVIOUS
    <3>3. Len(u) = 2 /\ u[1] = Cancelled /\ u[2] = text
      OBVIOUS
    <3> HIDE DEF s, t, u
    <3>4. /\ s \o t \in Seq(Event) /\ Len(s \o t) = 2
          /\ (s \o t)[1] = Cancelled /\ (s \o t)[2] = text
      <4>1. /\ s \o t \in Seq(Event) /\ Len(s \o t) = Len(s) + Len(t)
            /\ \A i \in 1 .. Len(s) + Len(t) :
                 (s \o t)[i] = IF i <= Len(s) THEN s[i] ELSE t[i - Len(s)]
        BY <3>1, ConcatProperties
      <4>2. Len(s) + Len(t) = 2 /\ 2 - Len(s) = 1
        BY <3>2
      <4>3. (s \o t)[1] = s[1]
        BY <3>2, <4>1, <4>2
      <4>4. (s \o t)[2] = t[2 - Len(s)]
        BY <3>2, <4>1, <4>2
      <4> QED  BY <3>2, <4>1, <4>2, <4>3, <4>4
    <3>5. \A i \in 1 .. Len(u) : (s \o t)[i] = u[i]
      BY <3>3, <3>4
    <3>6. s \o t = u
      BY <3>1, <3>3, <3>4, <3>5, SeqEqual
    <3> QED  BY <3>6 DEF s, t, u
  <2>2. <<>> \o <<text>> = <<text>>
    <3>1. <<text>> \in Seq(Event)
      BY <1>1
    <3> QED  BY <3>1, ConcatEmptySeq
  <2>3. CASE owner = "proxy"
    BY <2>1, <2>3
  <2>4. CASE owner # "proxy"
    BY <2>2, <2>4
  <2> QED  BY <2>3, <2>4
<1>3. /\ events \in Seq(Event)
      /\ Has(events, Cancelled) <=> owner = "proxy"
  <2>1. /\ <<text>> \in Seq(Event) /\ DOMAIN <<text>> = {1} /\ <<text>>[1] = text
        /\ Cancelled \in Event
    BY <1>1 DEF Event
  <2>2. /\ <<Cancelled, text>> \in Seq(Event)
        /\ 1 \in DOMAIN <<Cancelled, text>> /\ <<Cancelled, text>>[1] = Cancelled
    BY <1>1, <2>1
  <2> HIDE DEF events
  <2>3. CASE owner = "proxy"
    BY <1>2, <2>2, <2>3 DEF Has
  <2>4. CASE owner # "proxy"
    BY <1>1, <1>2, <2>1, <2>4 DEF Has
  <2> QED  BY <2>3, <2>4
<1> HIDE DEF events
<1>4. /\ wire' = wire \o events /\ device
      /\ owner' = "other" /\ selection' = text
      /\ UNCHANGED <<phase, device, store, memfd, utf8, source, latest, hidden>>
  BY DEF Copy, Post, events
<1>5. /\ wire' \in Seq(Event)
      /\ Has(wire', Cancelled) <=> Has(wire, Cancelled) \/ Has(events, Cancelled)
  BY <1>1, <1>3, <1>4, Sent DEF Typed
<1>6. \A i, j \in DOMAIN wire' : wire'[i] = Cancelled /\ wire'[j] = Cancelled => i = j
  <2>1. CASE owner # "proxy"
    BY <1>1, <1>3, <1>4, <2>1, Sent DEF Typed, CInv, OneCancelled
  <2>2. CASE owner = "proxy"
    <3>1. events = <<Cancelled, text>> /\ ~Has(wire, Cancelled)
      BY <1>2, <2>2 DEF CInv, OneCancelled
    <3>2. /\ wire \in Seq(Event) /\ Len(wire) \in Nat
          /\ \A i \in DOMAIN wire' :
               wire'[i] = Cancelled => i = Len(wire) + 1
      BY <1>1, <1>3, <1>4, <3>1 DEF Has, Typed
    <3> QED  BY <3>2
  <2> QED  BY <2>1, <2>2
<1>7. OneCancelled'
  <2>1. source' = "selected" => Has(wire', Cancelled)
    BY <1>1, <1>3, <1>4, <1>5 DEF CInv, OneCancelled, Typed
  <2> QED  BY <1>4, <1>6, <2>1 DEF OneCancelled, Has
<1> QED  BY <1>1, <1>4, <1>5, <1>7 DEF CInv, Typed, WithDevice, Offered, Kept
LEMMA RefocusStep ==
  ASSUME CInv, GInv', Refocus
  PROVE  CInv'
<1> USE DEF globals, startup, input, data, bridge
<1> DEFINE events == <<selection>>
<1>1. Typed /\ selection \in Event /\ selection # Cancelled
  BY DEF CInv, Typed
<1>2. events \in Seq(Event) /\ ~Has(events, Cancelled)
  BY <1>1 DEF Has
<1>3. /\ wire' = wire \o events /\ device
      /\ UNCHANGED <<phase, device, store, memfd, utf8, source, owner, selection,
                     latest, hidden>>
  BY DEF Refocus, Post
<1> HIDE DEF events
<1>4. /\ wire' \in Seq(Event)
      /\ Has(wire', Cancelled) <=> Has(wire, Cancelled)
      /\ \A i, j \in DOMAIN wire' : wire'[i] = Cancelled /\ wire'[j] = Cancelled => i = j
  BY <1>1, <1>2, <1>3, Sent DEF Typed, CInv, OneCancelled
<1>5. OneCancelled'
  BY <1>3, <1>4 DEF CInv, OneCancelled, Has
<1> QED  BY <1>3, <1>4, <1>5 DEF CInv, Typed, WithDevice, Offered, Kept

LEMMA SourceCancelledStep ==
  ASSUME CInv, GInv', SourceCancelled
  PROVE  CInv'
<1> USE DEF globals, startup, input, data
<1>1. Typed /\ wire \in Seq(Event) /\ wire # <<>>
  BY DEF CInv, Typed, SourceCancelled
<1>2. /\ Head(wire) = Cancelled /\ wire' = Tail(wire) /\ source' = "none"
      /\ UNCHANGED <<phase, device, store, memfd, utf8, owner, selection, latest, hidden>>
  BY DEF SourceCancelled, SourceGone
<1>3. /\ wire' \in Seq(Event)
      /\ Has(wire, Cancelled) /\ ~Has(wire', Cancelled)
  BY <1>1, <1>2, Received DEF CInv, OneCancelled
<1>4. owner = "other"
  BY <1>3 DEF CInv, OneCancelled
<1>5. OneCancelled'
  BY <1>2, <1>3 DEF OneCancelled, Has
<1> QED  BY <1>1, <1>2, <1>3, <1>4, <1>5 DEF CInv, Typed, WithDevice, Offered, Kept

LEMMA SelectionStep ==
  ASSUME CInv, GInv', Selection
  PROVE  CInv'
<1> USE DEF globals, startup, input, data
<1> DEFINE text == Head(wire)
<1>1. /\ Typed /\ wire \in Seq(Event) /\ wire # <<>>
      /\ TextClipboard \in Property
  BY TheTexts DEF CInv, Typed, Selection
<1>2. /\ text # Cancelled /\ wire' = Tail(wire)
      /\ UNCHANGED <<phase, device, utf8, source, owner, selection>>
  BY DEF Selection
<1>3. /\ wire' \in Seq(Event) /\ text \in Text \cup {Empty, Absent}
      /\ Has(wire', Cancelled) <=> Has(wire, Cancelled)
      /\ \A i, j \in DOMAIN wire' : wire'[i] = Cancelled /\ wire'[j] = Cancelled => i = j
  BY <1>1, <1>2, Received DEF CInv, OneCancelled, Event
<1>4. OneCancelled' /\ WithDevice'
  BY <1>1, <1>2, <1>3 DEF CInv, OneCancelled, WithDevice, Has
<1>5. \/ /\ UNCHANGED <<store, memfd, latest, hidden>>
      \/ /\ UNCHANGED <<store, memfd>>
         /\ latest' = text /\ hidden' = "refused" /\ source = "refused"
      \/ /\ store' = [store EXCEPT ![TextClipboard] = Absent]
         /\ memfd' = IF text = Empty THEN Absent ELSE text
         /\ latest' = text /\ source = "none" /\ text # Absent
  BY DEF Selection, Uncached, Removed, Mapped
<1>6. Typed'
  BY <1>1, <1>2, <1>3, <1>5, TheTexts DEF Typed, Event
<1>7. Offered'
  BY <1>2, <1>5 DEF CInv, Offered
<1>8. Kept'
  <2>1. device
    BY <1>1 DEF CInv, WithDevice
  <2> QED  BY <1>1, <1>2, <1>3, <1>5, <2>1, TheTexts DEF CInv, Kept, Typed
<1> QED  BY <1>4, <1>6, <1>7, <1>8 DEF CInv

\* With the seat goes the data device, and at the end all.
LEMMA EndStep ==
  ASSUME CInv, GInv',
         EndAll \/ \E leaves \in BOOLEAN : UnplugSeat(leaves)
  PROVE  CInv'
<1>1. Typed
  BY DEF CInv
<1>2. /\ memfd' = Absent /\ source' = "none" /\ wire' = <<>>
      /\ owner' # "proxy"
      /\ owner' \in {"proxy", "other"} /\ selection' \in Event \ {Cancelled}
      /\ latest' = latest
  BY <1>1, TheTexts
     DEF EndAll, UnplugSeat, DestroyBridge, Typed, Event
<1>3. store' \in [Property -> {Absent} \cup Seq(Text)]
  BY <1>1 DEF EndAll, UnplugSeat, Typed
<1>4. Kept'
  <2>1. CASE EndAll
    BY <2>1 DEF EndAll, ShutDown, Kept
  <2>2. ASSUME NEW leaves \in BOOLEAN, UnplugSeat(leaves)
        PROVE  Kept'
    <3>1. /\ phase' = phase /\ store' = store
          /\ hidden' = IF store[TextClipboard] = Absent THEN "unplugged" ELSE hidden
      BY <2>2 DEF UnplugSeat, Unplug, startup
    <3> QED  BY <1>2, <3>1 DEF CInv, Kept
  <2> QED  BY <2>1, <2>2
<1>5. OneCancelled' /\ WithDevice' /\ Offered'
  BY <1>2 DEF OneCancelled, WithDevice, Offered, Has
<1>6. Typed'
  BY <1>1, <1>2, <1>3 DEF Typed
<1> QED  BY <1>4, <1>5, <1>6 DEF CInv

LEMMA CInvStep ==
  ASSUME CInv, [Next]_vars
  PROVE  CInv'
<1>1. GInv'
  BY GInvStep DEF CInv
<1>2. CASE UNCHANGED vars
  BY <1>1, <1>2, CInvStutter DEF vars, globals, startup, data, ghosts
<1>3. CASE Other
  BY <1>1, <1>3, CInvStutter, NextGlobalsStep DEF Other, CInv
<1>4. CASE EndAll \/ \E leaves \in BOOLEAN : UnplugSeat(leaves)
  BY <1>1, <1>4, EndStep
<1>5. ASSUME NEW c \in Client, NEW p \in Property,
             \/ AddProperty(c, p) \/ RemoveProperty(c, p)
             \/ \E mode \in Mode, text \in Text \ Broken :
                  SetProperty(c, p, mode, text)
      PROVE  CInv'
  BY <1>1, <1>5, PropertyStep
<1>6. ASSUME NEW c \in Client, NEW text \in Text, NEW accepted \in BOOLEAN,
             SetClipboard(c, text, accepted)
      PROVE  CInv'
  BY <1>1, <1>6, SetClipboardStep
<1>7. CASE GetClipboard
  BY <1>1, <1>7, GetClipboardStep
<1>8. CASE \E c \in Client : ClientLeaves(c)
  BY <1>1, <1>8, CInvStutter DEF ClientLeaves, globals, startup, data
<1>9. CASE \E text \in Text \cup {Empty, Absent} : Copy(text)
  BY <1>1, <1>9, CopyStep
<1>10. CASE Refocus
  BY <1>1, <1>10, RefocusStep
<1>11. CASE SourceCancelled
  BY <1>1, <1>11, SourceCancelledStep
<1>12. CASE Selection
  BY <1>1, <1>12, SelectionStep
<1> QED  BY <1>2, <1>3, <1>4, <1>5, <1>6, <1>7, <1>8, <1>9, <1>10, <1>11, <1>12
         DEF Next

LEMMA CInvIsInvariant == Spec => []CInv
BY CInvInit, CInvStep, PTL DEF Spec

\* What a client gets from the clipboard is what was copied last
\* (qwswl_clipboard_get(), qwswl_clipboard_set(), data_device_selection()).
THEOREM ClientsGetLatest == Spec => []GetIsLatest
<1>1. CInv => GetIsLatest
  <2>1. ASSUME CInv, Running, hidden = "no", latest \notin Broken
        PROVE  IF latest \in Text THEN Answer = <<latest>> ELSE Answer \in {Absent, <<>>}
    <3>1. CASE store[TextClipboard] # Absent
      BY <2>1, <3>1 DEF CInv, Kept, Answer, Running
    <3>2. CASE store[TextClipboard] = Absent /\ latest \in Text
      BY <2>1, <3>2, TheTexts DEF CInv, Kept, Answer, Running
    <3>3. CASE store[TextClipboard] = Absent /\ latest \notin Text
      BY <2>1, <3>3 DEF CInv, Kept, Answer, Running
    <3> QED  BY <3>1, <3>2, <3>3
  <2> QED  BY <2>1 DEF GetIsLatest
<1> QED  BY <1>1, CInvIsInvariant, PTL

\* What others get from the proxy is what a client copied last
\* (qwswl_clipboard_set(), source_cancelled()).
THEOREM OthersPasteLatest == Spec => []PasteIsLatest
<1>1. CInv => PasteIsLatest
  BY TheTexts DEF CInv, Offered, PasteIsLatest, Pasted
<1> QED  BY <1>1, CInvIsInvariant, PTL

\* A proxy that ignores the selections of others either learns soon that its own
\* is gone, or had it refused (data_device_selection(), source_cancelled()).
THEOREM DeafOnlyAfterRefusal == Spec => []DeafOnlyIfRefused
<1>1. CInv => DeafOnlyIfRefused
  <2>1. ASSUME CInv, source = "selected", owner = "other"
        PROVE  \E i \in 1 .. Len(wire) : wire[i] = Cancelled
    BY <2>1 DEF CInv, Typed, OneCancelled, Has
  <2> QED  BY <2>1 DEF DeafOnlyIfRefused
<1> QED  BY <1>1, CInvIsInvariant, PTL

----------------------------------------------------------------------------
(* Notifications. *)

Subscribed == subs \in [Client -> SUBSET Property]

LEMMA SubscribedStep ==
  ASSUME Subscribed, [Next]_vars
  PROVE  Subscribed'
<1> USE DEF Subscribed
<1>1. CASE UNCHANGED subs
  BY <1>1
<1>2. UNCHANGED vars \/ Other => UNCHANGED subs
  BY DEF vars, Other
<1>3. (\E leaves \in BOOLEAN : UnplugSeat(leaves)) => UNCHANGED subs
  BY DEF UnplugSeat
<1>4. CASE EndAll
  BY <1>4 DEF EndAll
<1>5. ASSUME NEW c \in Client, NEW p \in Property,
             \/ AddProperty(c, p) \/ RemoveProperty(c, p)
             \/ \E mode \in Mode, text \in Text \ Broken :
                  SetProperty(c, p, mode, text)
      PROVE  Subscribed'
  BY <1>5 DEF AddProperty, RemoveProperty, SetProperty
<1>6. ASSUME NEW c \in Client, NEW text \in Text, NEW accepted \in BOOLEAN,
             SetClipboard(c, text, accepted)
      PROVE  UNCHANGED subs
  BY <1>6 DEF SetClipboard
<1>7. CASE \E c \in Client : ClientLeaves(c)
  BY <1>7 DEF ClientLeaves
<1>8. (\E text \in Text \cup {Empty, Absent} : Copy(text)) => UNCHANGED subs
  BY DEF Copy
<1>9. GetClipboard \/ Refocus \/ SourceCancelled \/ Selection => UNCHANGED subs
  BY DEF GetClipboard, Refocus, SourceCancelled, Selection
<1> QED  BY <1>1, <1>2, <1>3, <1>4, <1>5, <1>6, <1>7, <1>8, <1>9 DEF Next

LEMMA SubscribedIsInvariant == Spec => []Subscribed
<1>1. Init => Subscribed
  BY DEF Init, Subscribed
<1> QED  BY <1>1, SubscribedStep, PTL DEF Spec

\* What ToldOfChanges says of one client and one property, and of a step.
IsTold(c, p) ==
  /\ p \in subs[c] \cap subs'[c]
  /\ Content(p)' # Content(p)
  => \/ <<c, p>> \in told'
     \/ empties' \/ hidden' \in {"added", "unplugged"} \/ phase' = "down"

AllTold == \A c \in Client, p \in Property : IsTold(c, p)

\* What nobody has touched is as it was, and so is the clipboard when only the
\* data device has come.
LEMMA ContentStays ==
  ASSUME CInv, CInv', UNCHANGED <<store, memfd>>
  PROVE  AllTold
<1>1. memfd # Absent => device /\ device'
  BY DEF CInv, WithDevice
<1>2. Answer' = Answer
  BY <1>1, TheTexts DEF Answer
<1> QED  BY <1>2 DEF AllTold, IsTold, Content

\* A change of one property is seen in no other.
LEMMA ContentElsewhere ==
  ASSUME CInv, NEW p \in Property, NEW q \in Property, p # q,
         store' = [store EXCEPT ![p] = store'[p]],
         UNCHANGED <<memfd, device>>
  PROVE  Content(q)' = Content(q)
<1>1. store'[q] = store[q] /\ (p # TextClipboard => store'[TextClipboard] = store[TextClipboard])
  BY TheTexts DEF CInv, Typed
<1>2. q = TextClipboard => Answer' = Answer
  BY <1>1 DEF Answer
<1> QED  BY <1>1, <1>2 DEF Content

LEMMA AddTold ==
  ASSUME CInv, NEW c \in Client, NEW p \in Property, AddProperty(c, p)
  PROVE  AllTold
<1>1. /\ store' = [store EXCEPT ![p] = store'[p]]
      /\ store[p] # Absent => store'[p] = store[p]
      /\ store[p] = Absent => store'[p] = <<>>
      /\ store[p] = Absent /\ p = TextClipboard /\ Answer # Absent => hidden' = "added"
      /\ UNCHANGED <<memfd, device>>
  BY DEF AddProperty, Add, CInv, Typed, globals, data, bridge
<1>2. <<>> # Absent
  <2>1. <<>> \in Seq(Text)
    OBVIOUS
  <2> QED  BY <2>1, ClipboardAssumption
<1>3. ASSUME hidden' # "added"
      PROVE  Content(p)' = Content(p)
  BY <1>1, <1>2, <1>3 DEF Content, Answer
<1> QED  BY <1>1, <1>3, ContentElsewhere DEF AllTold, IsTold

LEMMA RemoveTold ==
  ASSUME CInv, Subscribed, NEW c \in Client, NEW p \in Property, RemoveProperty(c, p)
  PROVE  AllTold
<1>1. /\ store' = [store EXCEPT ![p] = store'[p]]
      /\ store'[p] = Absent
      /\ UNCHANGED <<memfd, device>>
      /\ subs' = [subs EXCEPT ![c] = @ \ {p}]
      /\ told' = IF store[p] = Absent THEN {} ELSE Subscribers(p, c) \ {<<c, p>>}
  BY DEF RemoveProperty, Removed, CInv, Typed, globals, data, bridge
<1>2. ASSUME NEW d \in Client, p \in subs[d] \cap subs'[d], store[p] # Absent
      PROVE  <<d, p>> \in told'
  <2>1. d # c
    BY <1>1, <1>2 DEF Subscribed
  <2> QED  BY <1>1, <1>2, <2>1 DEF Subscribers
<1>3. ASSUME store[p] = Absent
      PROVE  Content(p)' = Content(p)
  BY <1>1, <1>3 DEF Content, Answer
<1> QED  BY <1>1, <1>2, <1>3, ContentElsewhere DEF AllTold, IsTold

LEMMA SetTold ==
  ASSUME CInv, NEW c \in Client, NEW p \in Property, NEW mode \in Mode,
         NEW text \in Text, SetProperty(c, p, mode, text)
  PROVE  AllTold
<1>1. /\ store' = [store EXCEPT ![p] = store'[p]]
      /\ UNCHANGED <<memfd, device, subs>>
      /\ told' = Subscribers(p, c)
  BY DEF SetProperty, Set, CInv, Typed, globals, data, bridge
<1>2. ASSUME NEW d \in Client, p \in subs[d]
      PROVE  <<d, p>> \in told'
  BY <1>1, <1>2 DEF Subscribers
<1> QED  BY <1>1, <1>2, ContentElsewhere DEF AllTold, IsTold

LEMMA SetClipboardTold ==
  ASSUME CInv, NEW c \in Client, NEW text \in Text, NEW accepted \in BOOLEAN,
         SetClipboard(c, text, accepted)
  PROVE  AllTold
<1>1. /\ store' = [store EXCEPT ![TextClipboard] = store'[TextClipboard]]
      /\ UNCHANGED <<memfd, device, subs>>
      /\ told' = Subscribers(TextClipboard, c)
  BY TheTexts DEF SetClipboard, Add, CInv, Typed, data
<1>2. ASSUME NEW d \in Client, TextClipboard \in subs[d]
      PROVE  <<d, TextClipboard>> \in told'
  BY <1>1, <1>2 DEF Subscribers
<1> QED  BY <1>1, <1>2, TheTexts, ContentElsewhere DEF AllTold, IsTold

\* Fetching the clipboard moves it from the memfd to the store.
LEMMA GetTold ==
  ASSUME CInv, GetClipboard
  PROVE  AllTold
<1>1. /\ store' = [store EXCEPT ![TextClipboard] = Answer]
      /\ TextClipboard \in Property /\ Answer # Absent
      /\ store[TextClipboard] = Absent
  BY TheTexts DEF GetClipboard, Add, CInv, Typed
<1>2. Content(TextClipboard)' = Content(TextClipboard)
  <2>1. store'[TextClipboard] = Answer
    BY <1>1 DEF CInv, Typed
  <2> QED  BY <1>1, <2>1 DEF Content, Answer
<1>3. \A q \in Property \ {TextClipboard} : Content(q)' = Content(q)
  BY <1>1 DEF CInv, Typed, Content
<1> QED  BY <1>2, <1>3 DEF AllTold, IsTold

LEMMA SelectionTold ==
  ASSUME CInv, CInv', Selection
  PROVE  AllTold
<1>1. \/ UNCHANGED <<store, memfd>>
      \/ /\ store' = [store EXCEPT ![TextClipboard] = Absent]
         /\ empties' \/ told' = Subscribers(TextClipboard, NoClient)
  BY DEF Selection, Uncached, Removed
<1>2. CASE UNCHANGED <<store, memfd>>
  BY <1>2, ContentStays
<1>3. CASE /\ store' = [store EXCEPT ![TextClipboard] = Absent]
           /\ empties' \/ told' = Subscribers(TextClipboard, NoClient)
  <2>1. \A q \in Property \ {TextClipboard} : Content(q)' = Content(q)
    BY <1>3, TheTexts DEF CInv, Typed, Content
  <2>2. ASSUME NEW d \in Client, TextClipboard \in subs[d]
        PROVE  empties' \/ <<d, TextClipboard>> \in told'
    BY <1>3, <2>2 DEF Subscribers
  <2> QED  BY <2>1, <2>2 DEF AllTold, IsTold
<1> QED  BY <1>1, <1>2, <1>3

\* The memfd goes with the seat: who was not told of that had fetched the text.
LEMMA UnplugTold ==
  ASSUME CInv, NEW leaves \in BOOLEAN, UnplugSeat(leaves)
  PROVE  AllTold
<1>1. /\ store' = store
      /\ store[TextClipboard] = Absent => hidden' = "unplugged"
  BY DEF UnplugSeat
<1>2. store[TextClipboard] # Absent => Answer' = Answer
  BY <1>1 DEF Answer
<1> QED  BY <1>1, <1>2 DEF AllTold, IsTold, Content

LEMMA TellStep ==
  ASSUME CInv, CInv', Subscribed, [Next]_vars
  PROVE  AllTold
<1>1. CASE UNCHANGED <<store, memfd>>
  BY <1>1, ContentStays
<1>2. UNCHANGED vars => UNCHANGED <<store, memfd>>
  BY DEF vars, bridge
<1>3. Other => UNCHANGED <<store, memfd>>
  BY DEF Other, bridge
<1>4. ASSUME NEW leaves \in BOOLEAN, UnplugSeat(leaves)
      PROVE  AllTold
  BY <1>4, UnplugTold
<1>5. EndAll => AllTold
  BY DEF EndAll, ShutDown, AllTold, IsTold
<1>6. ASSUME NEW c \in Client, NEW p \in Property,
             \/ AddProperty(c, p) \/ RemoveProperty(c, p)
             \/ \E mode \in Mode, text \in Text \ Broken :
                  SetProperty(c, p, mode, text)
      PROVE  AllTold
  BY <1>6, AddTold, RemoveTold, SetTold
<1>7. ASSUME NEW c \in Client, NEW text \in Text, NEW accepted \in BOOLEAN,
             SetClipboard(c, text, accepted)
      PROVE  AllTold
  BY <1>7, SetClipboardTold
<1>8. (\E c \in Client : ClientLeaves(c)) => UNCHANGED <<store, memfd>>
  BY DEF ClientLeaves, bridge
<1>9. (\E text \in Text \cup {Empty, Absent} : Copy(text)) => UNCHANGED <<store, memfd>>
  BY DEF Copy, bridge
<1>10. Refocus \/ SourceCancelled => UNCHANGED <<store, memfd>>
  BY DEF Refocus, SourceCancelled, bridge
<1> QED  BY <1>1, <1>2, <1>3, <1>4, <1>5, <1>6, <1>7, <1>8, <1>9, <1>10, GetTold,
            SelectionTold DEF Next

\* Subscribers are told of what changes under them
\* (qwswl_broadcast_property_notify()).
THEOREM SubscribersAreTold == Spec => ToldOfChanges
<1>1. CInv /\ CInv' /\ Subscribed /\ [Next]_vars => AllTold
  BY TellStep
<1>2. AllTold <=>
        \A c \in Client, p \in Property :
          /\ p \in subs[c] \cap subs'[c]
          /\ Content(p)' # Content(p)
          => \/ <<c, p>> \in told'
             \/ empties' \/ hidden' \in {"added", "unplugged"} \/ phase' = "down"
  BY DEF AllTold, IsTold
<1> QED  BY <1>1, <1>2, CInvIsInvariant, SubscribedIsInvariant, PTL DEF Spec, ToldOfChanges
=============================================================================
