------------------------------ MODULE Clipboard ------------------------------
(***************************************************************************)
(* Properties and the clipboard: the property store                        *)
(* (proxy/property_store.c), subscriptions and notifications               *)
(* (proxy/client.c, proxy/proxy.c), and the bridge between the property    *)
(* _QT_SELECTION of window 0 and the selection of the compositor           *)
(* (proxy/clipboard.c).  What a Wayland application copies is kept as      *)
(* UTF-8 in a memfd until a client asks for it, and then moves into the    *)
(* property store; what a client copies is kept in the store and, as       *)
(* UTF-8, with a wl_data_source.                                           *)
(*                                                                         *)
(* The other end of the pipe a selection is read from is taken to finish.  *)
(* Memory is taken not to run out.                                         *)
(***************************************************************************)
EXTENDS Globals, SequencesExt

CONSTANTS
    Client,
    Text,           \* what is copied
    Broken,         \* the texts that cannot be converted
    Property,       \* the properties of the store
    TextClipboard,  \* (0, QWS_PROPERTY_TEXTCLIPBOARD)
    Absent,         \* no entry in the store, nothing in the memfd, no selection
    Empty,          \* a selection of no length
    Cancelled,      \* the event that cancels our data source
    NoClient,
    MaxLen,         \* bound on the length of other properties
    MaxWire         \* bound on the events under way

ASSUME ClipboardAssumption ==
  /\ Broken \subseteq Text
  /\ TextClipboard \in Property
  /\ Absent # Empty /\ Absent # Cancelled /\ Empty # Cancelled
  /\ {Absent, Empty, Cancelled} \cap Text = {}
  /\ Absent \notin Seq(Text)
  /\ MaxLen \in Nat /\ MaxWire \in Nat

VARIABLES
  store,      \* state->prop_store: the pieces of text of each property
  subs,       \* cl->subscriptions
  memfd,      \* clipboard.memfd_map: the text received last
  utf8,       \* clipboard.utf8: the text offered last
  source,     \* clipboard.source: none, the selection's, or one that the
              \* compositor did not make the selection
  wire,       \* events of the data device under way
  owner,      \* compositor: who has the selection, "proxy" or "other"
  selection,  \* compositor: the text of the selection, Absent if there is none
  told,       \* the notifications sent by the last step
  latest,     \* ghost: what was copied last, as far as the proxy was told
  hidden,     \* ghost: what made the proxy lose sight of it
  empties     \* ghost: the last step was an empty selection

bridge == <<memfd, utf8, source>>
compositor == <<wire, owner, selection>>
ghosts == <<latest, hidden, empties>>
vars == <<globals, store, subs, bridge, compositor, told, ghosts>>

Init ==
  /\ InitGlobals
  /\ store = [p \in Property |-> Absent]
  /\ subs = [c \in Client |-> {}]
  /\ memfd = Absent /\ utf8 = Absent /\ source = "none"
  /\ wire = <<>> /\ owner = "other" /\ selection = Absent
  /\ told = {}
  /\ latest = Absent /\ hidden = "no" /\ empties = FALSE

----------------------------------------------------------------------------
(* The property store. *)

\* qwsprop_add(): an empty entry, unless there is one.
Add(p) == [store EXCEPT ![p] = IF @ = Absent THEN <<>> ELSE @]

\* The modes of qwsprop_set().
Joined(mode, old, new) ==
  CASE mode = "replace" -> new
    [] mode = "prepend" -> new \o old
    [] mode = "append"  -> old \o new

\* qwsprop_set(): nothing happens to a property that was not added.
Set(p, mode, text) ==
  [store EXCEPT ![p] = IF @ = Absent THEN Absent ELSE Joined(mode, @, text)]

Removed(p) == [store EXCEPT ![p] = Absent]

\* Mutant of Subscribers: the client that changed the property is not told.
SubscribersBut(p, c) == {<<d, p>> : d \in {e \in Client \ {c} : p \in subs[e]}}

\* qwswl_broadcast_property_notify(): all subscribers, the caller included.
Subscribers(p, c) == {<<d, p>> : d \in {e \in Client : p \in subs[e]}}

\* What a GET_PROPERTY for the clipboard is answered: the entry of the store if
\* there is one, or else what is in the memfd, if it can be converted.
Answer ==
  CASE store[TextClipboard] # Absent -> store[TextClipboard]
    [] store[TextClipboard] = Absent /\ device /\ memfd \notin Broken \cup {Absent}
         -> <<memfd>>
    [] OTHER -> Absent

----------------------------------------------------------------------------
(* The commands. *)

\* ADD_PROPERTY.
AddProperty(c, p) ==
  /\ Running
  /\ store' = Add(p)
  /\ subs' = [subs EXCEPT ![c] = @ \cup {p}]
  /\ told' = {}
  /\ hidden' = IF p = TextClipboard /\ store[p] = Absent /\ Answer # Absent
                 THEN "added" ELSE hidden
  /\ empties' = FALSE
  /\ UNCHANGED <<globals, bridge, compositor, latest>>

\* REMOVE_PROPERTY: the client is unsubscribed before the others are told.
RemoveProperty(c, p) ==
  /\ Running
  /\ store' = Removed(p)
  /\ subs' = [subs EXCEPT ![c] = @ \ {p}]
  /\ told' = IF store[p] = Absent THEN {} ELSE Subscribers(p, c) \ {<<c, p>>}
  /\ hidden' = IF p = TextClipboard /\ store[p] # Absent THEN "removed" ELSE hidden
  /\ empties' = FALSE
  /\ UNCHANGED <<globals, bridge, compositor, latest>>

\* SET_PROPERTY, of any property but the clipboard.
SetProperty(c, p, mode, text) ==
  /\ Running
  /\ p # TextClipboard
  /\ store[p] # Absent /\ mode # "replace" => Len(store[p]) < MaxLen
  /\ store' = Set(p, mode, <<text>>)
  /\ told' = Subscribers(p, c)
  /\ empties' = FALSE
  /\ UNCHANGED <<globals, subs, bridge, compositor, latest, hidden>>

\* Mutant of NewSource: the source before is not destroyed.
NewSourceLate(text, accepted) ==
  /\ source' = IF accepted THEN "selected" ELSE "refused"
  /\ owner' = IF accepted THEN "proxy" ELSE owner
  /\ selection' = IF accepted THEN text ELSE selection
  /\ UNCHANGED wire

\* The data source of a text: what happens to the one before, and whether the
\* compositor makes the new one the selection or, finding the serial of the last
\* input too old, ignores the request without a word.  If the old source has been
\* cancelled and the event is under way, it is dropped.
NewSource(text, accepted) ==
  /\ source' = IF accepted THEN "selected" ELSE "refused"
  /\ wire' = RemoveFirst(wire, Cancelled)
  /\ CASE accepted -> owner' = "proxy" /\ selection' = text
       [] ~accepted /\ owner = "proxy" -> owner' = "other" /\ selection' = Absent
       [] OTHER -> UNCHANGED <<owner, selection>>

\* qwswl_clipboard_set(): the property and the notification first, then the
\* selection.  Without a data device, libwayland is called with NULL.
SetClipboard(c, text, accepted) ==
  /\ Running
  /\ store' = [Add(TextClipboard) EXCEPT ![TextClipboard] =
                 Joined("replace", @, <<text>>)]
  /\ told' = Subscribers(TextClipboard, c)
  /\ latest' = text /\ hidden' = "no" /\ empties' = FALSE
  /\ UNCHANGED <<startup, input, data, shape, subs, memfd>>
  /\ \/ /\ text \in Broken
        /\ UNCHANGED <<crashed, utf8, source, compositor>>
     \/ /\ text \notin Broken
        /\ ~device
        /\ utf8' = text
        /\ crashed' = "set"
        /\ UNCHANGED <<source, compositor>>
     \/ /\ text \notin Broken
        /\ device
        /\ utf8' = text
        /\ NewSource(text, accepted)
        /\ UNCHANGED crashed

\* qwswl_clipboard_get(): the text of the memfd moves into the property store.
\* Otherwise a GET_PROPERTY changes nothing.
GetClipboard ==
  /\ Running
  /\ store[TextClipboard] = Absent
  /\ Answer # Absent
  /\ store' = [Add(TextClipboard) EXCEPT ![TextClipboard] = Answer]
  /\ memfd' = Absent
  /\ told' = {} /\ empties' = FALSE
  /\ UNCHANGED <<globals, subs, utf8, source, compositor, latest, hidden>>

\* source_send(): what an application gets that pastes while the proxy has the
\* selection.  Without a text, or with one of no length, the pipe is closed
\* before anything is written.
Pasted == IF utf8 = Absent THEN Empty ELSE utf8

\* A client leaves.
ClientLeaves(c) ==
  /\ Running
  /\ subs[c] # {}
  /\ subs' = [subs EXCEPT ![c] = {}]
  /\ told' = {} /\ empties' = FALSE
  /\ UNCHANGED <<globals, store, bridge, compositor, latest, hidden>>

----------------------------------------------------------------------------
(* The selection. *)

Post(events) ==
  /\ device
  /\ Len(wire) + Len(events) <= MaxWire
  /\ wire' = wire \o events

\* A Wayland application copies text, nothing, or something that is no text; or
\* it ends, which takes the selection away.  Our source is cancelled first.
Copy(text) ==
  /\ Running
  /\ Post((IF owner = "proxy" THEN <<Cancelled>> ELSE <<>>) \o <<text>>)
  /\ owner' = "other" /\ selection' = text
  /\ told' = {} /\ empties' = FALSE
  /\ UNCHANGED <<globals, store, subs, bridge, latest, hidden>>

\* The proxy gets the keyboard, and with it the present selection again.
Refocus ==
  /\ Running
  /\ selection # Absent
  /\ Post(<<selection>>)
  /\ told' = {} /\ empties' = FALSE
  /\ UNCHANGED <<globals, store, subs, bridge, owner, selection, latest, hidden>>

\* Mutant of SourceGone: the source is destroyed and still remembered.
SourceGoneNot == UNCHANGED source

\* The source that was cancelled is forgotten.
SourceGone == source' = "none"

\* source_cancelled().
SourceCancelled ==
  /\ Running
  /\ wire # <<>> /\ Head(wire) = Cancelled
  /\ wire' = Tail(wire)
  /\ SourceGone
  /\ told' = {} /\ empties' = FALSE
  /\ UNCHANGED <<globals, store, subs, memfd, utf8, owner, selection, latest,
                 hidden>>

\* Mutant of Uncached: the property that was fetched before stays.
UncachedNot == store

\* data_device_selection() removes the property: the memfd is what counts.
Uncached == Removed(TextClipboard)

\* What is left in the memfd: an empty one is not mapped.
Mapped(text) == IF text = Empty THEN Absent ELSE text

\* data_device_selection(): ignored while we have a source, or if there is no
\* text in it; otherwise the text is read into the memfd, and clients are told
\* unless it is empty.
Selection ==
  /\ Running
  /\ wire # <<>> /\ Head(wire) # Cancelled
  /\ wire' = Tail(wire)
  /\ LET text == Head(wire)
     IN  \/ /\ source # "none" \/ text = Absent
            /\ told' = {} /\ empties' = FALSE
            /\ IF source = "refused" /\ text # Absent
                 THEN latest' = text /\ hidden' = "refused"
                 ELSE UNCHANGED <<latest, hidden>>
            /\ UNCHANGED <<store, memfd>>
         \/ /\ source = "none" /\ text # Absent
            /\ store' = Uncached
            /\ memfd' = Mapped(text)
            /\ told' = IF text = Empty THEN {}
                       ELSE Subscribers(TextClipboard, NoClient)
            /\ latest' = text /\ hidden' = "no"
            /\ empties' = (text = Empty)
  /\ UNCHANGED <<globals, subs, utf8, source, owner, selection>>

----------------------------------------------------------------------------
(* The seat and the end. *)

\* qwswl_clipboard_destroy(), with the seat or at the end: the selection goes
\* with our source, and events for the data device are dropped.
DestroyBridge ==
  /\ memfd' = Absent /\ utf8' = Absent /\ source' = "none"
  /\ wire' = <<>>
  /\ IF owner = "proxy" THEN owner' = "other" /\ selection' = Absent
                        ELSE UNCHANGED <<owner, selection>>

UnplugSeat(leaves) ==
  /\ Unplug(leaves)
  /\ DestroyBridge
  /\ hidden' = IF store[TextClipboard] = Absent THEN "unplugged" ELSE hidden
  /\ told' = {} /\ empties' = FALSE
  /\ UNCHANGED <<store, subs, latest>>

\* qwswl_shutdown() begins with the clipboard and the property store.
EndAll ==
  /\ ShutDown
  /\ DestroyBridge
  /\ store' = [p \in Property |-> Absent]
  /\ subs' = [c \in Client |-> {}]
  /\ told' = {} /\ empties' = FALSE
  /\ UNCHANGED <<latest, hidden>>

\* The steps that do not touch the clipboard.
Other ==
  /\ NextGlobals
  /\ told' = {} /\ empties' = FALSE
  /\ UNCHANGED <<store, subs, bridge, compositor, latest, hidden>>

Mode == {"replace", "prepend", "append"}

Next ==
  \/ Other
  \/ \E leaves \in BOOLEAN : UnplugSeat(leaves)
  \/ EndAll
  \/ \E c \in Client, p \in Property :
       \/ AddProperty(c, p) \/ RemoveProperty(c, p)
       \/ \E mode \in Mode, text \in Text \ Broken : SetProperty(c, p, mode, text)
  \/ \E c \in Client, text \in Text, accepted \in BOOLEAN :
       SetClipboard(c, text, accepted)
  \/ GetClipboard
  \/ \E c \in Client : ClientLeaves(c)
  \/ \E text \in Text \cup {Empty, Absent} : Copy(text)
  \/ Refocus \/ SourceCancelled \/ Selection

Spec == Init /\ [][Next]_vars

----------------------------------------------------------------------------
TypeOK ==
  /\ GlobalsTypeOK
  /\ store \in [Property -> {Absent} \cup Seq(Text)]
  /\ subs \in [Client -> SUBSET Property]
  /\ memfd \in Text \cup {Absent} /\ utf8 \in Text \cup {Absent}
  /\ source \in {"none", "selected", "refused"}
  /\ wire \in Seq(Text \cup {Empty, Absent, Cancelled}) /\ Len(wire) <= MaxWire
  /\ owner \in {"proxy", "other"}
  /\ selection \in Text \cup {Empty, Absent}
  /\ told \subseteq Client \X Property
  /\ latest \in Text \cup {Empty, Absent}
  /\ hidden \in {"no", "added", "removed", "refused", "unplugged"}
  /\ empties \in BOOLEAN

\* What a client gets from the clipboard is what was copied last, by whomever,
\* whether it is still in the memfd or has been fetched before; unless an entry
\* of the store was added before it or removed, the compositor refused an
\* earlier selection of ours, the seat went, or it cannot be converted.
GetIsLatest ==
  Running /\ hidden = "no" /\ latest \notin Broken =>
    IF latest \in Text THEN Answer = <<latest>> ELSE Answer \in {Absent, <<>>}

\* What others get from the proxy is what a client copied last.
PasteIsLatest ==
  owner = "proxy" /\ latest \notin Broken =>
    source = "selected" /\ Pasted = latest /\ selection = latest

\* The proxy stays deaf to selections of others only if one of its own was
\* refused: otherwise its source is about to be cancelled.
DeafOnlyIfRefused ==
  source = "selected" /\ owner = "other" => \E i \in 1 .. Len(wire) : wire[i] = Cancelled

Content(p) ==
  LET entry == IF p = TextClipboard THEN Answer ELSE store[p]
  IN  IF entry = Absent THEN <<>> ELSE entry

\* Subscribers are told of every change they could see, but for a selection that
\* is empty, an entry that hides the memfd, and the end of seat or proxy.
ToldOfChanges ==
  [][\A c \in Client, p \in Property :
       /\ p \in subs[c] \cap subs'[c]
       /\ Content(p)' # Content(p)
       => \/ <<c, p>> \in told'
          \/ empties' \/ hidden' \in {"added", "unplugged"} \/ phase' = "down"]_vars

=============================================================================
