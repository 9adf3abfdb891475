----------------------------- MODULE QwsWindows -----------------------------
(***************************************************************************)
(* The windows of one QWS client as the proxy keeps them: window map,      *)
(* window stack, visible regions, Wayland roles and shared-memory state    *)
(* (proxy/client.c, proxy/window.c) under the window commands that         *)
(* qwswl_dispatch_command() executes (proxy/proxy.c).  Clients share none  *)
(* of this state, and the proxy runs one command to its end before it      *)
(* reads the next, so a command is one step.  The proxy's assert()s stay   *)
(* active in every build (meson.build), so a failed one ends the process.  *)
(*                                                                         *)
(* A window is named by its qws_id.  The fields of a window that is not in *)
(* the map have the values calloc() and qwswl_allocate_window_with_id()    *)
(* give a new one.                                                         *)
(***************************************************************************)
EXTENDS Rects

CONSTANTS Window,          \* the window ids the client uses
          NoWindow,        \* a NULL qwswl_window_t pointer
          Freed,           \* a pointer to a window that has been freed
          Placement,       \* the regions (lists of Rect) a client asks for
          Step,            \* the distances a client moves a window by
          Format,          \* pixel formats of the client's shm segments
          ScreenWidth,
          QtShell,         \* the compositor offers zqt_shell_v1
          AlphaModifier    \* the compositor offers wp_alpha_modifier_v1

ASSUME WindowAssumption ==
  /\ NoWindow \notin Window
  /\ Freed \notin Window
  /\ NoWindow # Freed

ASSUME EnvironmentAssumption ==
  /\ Format \subseteq {"rgb", "premultiplied"}
  /\ \A rs \in Placement : rs # <<>>
  /\ ScreenWidth \in Nat \ {0}
  /\ QtShell \in BOOLEAN
  /\ AlphaModifier \in BOOLEAN

ASSUME PlacementAssumption == Placement \subseteq Seq([x1 : Int, x2 : Int])

Role == {"none", "toplevel", "subsurface"}
Altitude == {"lower", "raise", "stays_on_top"}
Fault == {"none", "assert", "null_dereference", "use_after_free"}

VARIABLES
  windows,    \* window_map: the ids that have a window
  stack,      \* window_stack, topmost first
  onTop,      \* on_top
  role,       \* which Wayland objects the window's wl_surface has
  parent,     \* parent
  geometry,   \* geometry.rects
  visible,    \* visible_rects
  opaque,     \* opacity = 255
  modifier,   \* alpha_modifier_surface exists
  shm,        \* client_shm: "never" attached, "detached", or its format
  buffer,     \* server_shm.pixels is mapped
  mapped,     \* compositor: surfaces that have a buffer attached
  siblings,   \* compositor: order last asked for among the subsurfaces of
              \* each window, topmost first
  toplevels,  \* compositor: this client's toplevels, topmost first
  told,       \* client: the clip region of each window as last told
  fault,      \* how the process died, if it did
  stale,      \* ghost: an opacity changed since the last region update
  polite      \* ghost: the client has kept to the rules each command states

vars == <<windows, stack, onTop, role, parent, geometry, visible, opaque,
          modifier, shm, buffer, mapped, siblings, toplevels, told, fault,
          stale, polite>>

----------------------------------------------------------------------------
(* The stack: [ on_top windows | normal windows ], front first. *)

\* Mutant of Boundary: without a normal window it is the front.
BoundaryFront(stk, top) ==
  LET i == SelectInSeq(stk, LAMBDA w : ~top[w])
  IN  IF i = 0 THEN 1 ELSE i

\* Index of the first window that is not on_top: the boundary of the zones.
Boundary(stk, top) ==
  LET i == SelectInSeq(stk, LAMBDA w : ~top[w])
  IN  IF i = 0 THEN Len(stk) + 1 ELSE i

PushToStack(stk, top, w) == InsertAt(stk, Boundary(stk, top), w)

\* Mutant of RaiseWindow: the erase loop is gone.
RaiseWindowWithoutErase(stk, top, w) ==
  IF top[w] THEN <<w>> \o stk ELSE PushToStack(stk, top, w)

RaiseWindow(stk, top, w) ==
  LET rest == RemoveFirst(stk, w)
  IN  IF top[w] THEN <<w>> \o rest ELSE PushToStack(rest, top, w)

LowerWindow(stk, w) == Append(RemoveFirst(stk, w), w)

\* Every window command names a window that is allocated if it is unknown.
FoundStack(w) == IF w \in windows THEN stack ELSE PushToStack(stack, onTop, w)

FindOrAllocate(w) == /\ windows' = windows \cup {w}
                     /\ stack' = FoundStack(w)

\* Mutant of FirstToplevelBelow: takes any window below that has a surface.
FirstSurfaceBelow(stk, w) ==
  LET at == SelectInSeq(stk, LAMBDA x : x = w)
      i  == SelectInSubSeq(stk, at + 1, Len(stk), LAMBDA x : role[x] # "none")
  IN  IF i = 0 THEN NoWindow ELSE stk[i]

FirstToplevelBelow(stk, w) ==
  LET at == SelectInSeq(stk, LAMBDA x : x = w)
      i  == SelectInSubSeq(stk, at + 1, Len(stk),
                           LAMBDA x : role[x] = "toplevel")
  IN  IF i = 0 THEN NoWindow ELSE stk[i]

\* The windows of S, in the order of the stack.
Collect(stk, S) ==
  FoldLeft(LAMBDA found, w : IF w \in S THEN Append(found, w) ELSE found,
           <<>>, stk)

\* Mutant of ReorderSubsurfaces: the chain is built from the top down.
ReorderSubsurfacesTopDown(stk, p) ==
  [siblings EXCEPT ![p] = Reverse(Collect(stk, {x \in Window : parent[x] = p}))]

\* The compositor's order after place_above() / raise() from the bottom up.
ReorderSubsurfaces(stk, p) ==
  [siblings EXCEPT ![p] = Collect(stk, {x \in Window : parent[x] = p})]

ReorderToplevels(stk) ==
  IF QtShell THEN Collect(stk, {x \in Window : role[x] = "toplevel"})
             ELSE toplevels

----------------------------------------------------------------------------
(* Visible regions: what is left of each window's rectangles once those of *)
(* the opaque windows above it are taken away.                             *)

SubtractEach(rs, blocking) ==
  FlattenSeq([i \in DOMAIN rs |-> Subtract(<<rs[i]>>, blocking)])

\* One round of the loop: what w gets, which blocks the windows below it if w
\* is opaque.
Allocate(geo, opq, acc, w) ==
  LET new == ClipRects(SubtractEach(geo[w], acc.blocking), ScreenWidth - 1)
  IN  [blocking |-> IF opq[w] THEN acc.blocking \o new ELSE acc.blocking,
       alloc    |-> [acc.alloc EXCEPT ![w] = new]]

Allocations(stk, geo, opq) ==
  FoldLeft(LAMBDA acc, w : Allocate(geo, opq, acc, w),
           [blocking |-> <<>>, alloc |-> [w \in Window |-> <<>>]], stk).alloc

\* Mutants of UpdateRegions: the window the client waits for gets no event of
\* its own; only that window's region is computed anew.
UpdateRegionsUnforced(forced, asked) ==
  /\ visible' = Allocations(stack', geometry', opaque')
  /\ told' = [w \in Window |-> IF visible'[w] # visible[w]
                               THEN visible'[w] ELSE asked[w]]
  /\ stale' = FALSE

UpdateRegionsOfRequester(forced, asked) ==
  /\ visible' = [w \in Window |->
                   IF w \in forced
                   THEN Allocations(stack', geometry', opaque')[w]
                   ELSE visible[w]]
  /\ told' = [w \in Window |-> IF w \in forced THEN visible'[w] ELSE asked[w]]
  /\ stale' = FALSE

\* Recomputes every region and sends an event for each that changed, and for
\* the windows in forced whatever happened.  asked is what the client goes by
\* while it waits: it empties the clip region of a window it asks about.
UpdateRegions(forced, asked) ==
  /\ visible' = Allocations(stack', geometry', opaque')
  /\ told' = [w \in Window |->
                IF w \in forced \/ visible'[w] # visible[w]
                THEN visible'[w] ELSE asked[w]]
  /\ stale' = FALSE

Emptied(w) == [told EXCEPT ![w] = <<>>]

----------------------------------------------------------------------------
(* What the code relies on without checking it, and what then happens. *)

\* Mutant of PositionFaults: win->parent is not tested for NULL.
PositionFaultsUnguarded(w) == parent[w] \in {NoWindow, Freed}

\* position_window_relative_to_parent() reads win->parent.
PositionFaults(w) == parent[w] = Freed

\* Mutant of Attached: detaching leaves the segment's address behind.
AttachedOnce(w) == shm[w] # "never"

\* update_surface() draws only what is attached, and asserts that a
\* premultiplied window has no alpha modifier.
Attached(w) == shm[w] \in Format
BlitFaults(w, format) == format = "premultiplied" /\ modifier[w]
Shown(w, blits) == IF blits THEN mapped \cup {w} ELSE mapped

\* Once a buffer exists, resizing it asks for the size of the client's
\* segment: IPC_STAT of id -1 fails, of the attached segment it succeeds, and
\* of id 0 (never attached) it depends on which segments the host has.
ResizeMayFail(w) == buffer[w] /\ shm[w] \in {"detached", "never"}
ResizeMayWork(w) == ~(buffer[w] /\ shm[w] = "detached")

\* qwswl_update_geometry(): take over the rectangles and, as its last step,
\* make the buffer fit them, which leaves a buffer where there was none.  Its
\* faults (positioning a subsurface, resizing) are PositionFaults and
\* ResizeMayFail, which the commands below test first.
UpdateGeometry(w, rs) ==
  /\ geometry' = [geometry EXCEPT ![w] = rs]
  /\ buffer' = [buffer EXCEPT ![w] = TRUE]

Running == fault = "none"

compositor == <<mapped, siblings, toplevels>>

\* The run ends here: the process has aborted, or what it does from here on
\* is undefined.
Dies(how) ==
  /\ fault' = how
  /\ UNCHANGED <<windows, stack, onTop, role, parent, geometry, visible,
                 opaque, modifier, shm, buffer, compositor, told, stale>>

DiesIf(frees, aborts) ==
  \/ frees /\ Dies("use_after_free")
  \/ ~frees /\ aborts /\ Dies("assert")

----------------------------------------------------------------------------
Init ==
  /\ windows = {}
  /\ stack = <<>>
  /\ onTop = [w \in Window |-> FALSE]
  /\ role = [w \in Window |-> "none"]
  /\ parent = [w \in Window |-> NoWindow]
  /\ geometry = [w \in Window |-> <<>>]
  /\ visible = [w \in Window |-> <<>>]
  /\ opaque = [w \in Window |-> TRUE]
  /\ modifier = [w \in Window |-> FALSE]
  /\ shm = [w \in Window |-> "never"]
  /\ buffer = [w \in Window |-> FALSE]
  /\ mapped = {}
  /\ siblings = [w \in Window |-> <<>>]
  /\ toplevels = <<>>
  /\ told = [w \in Window |-> <<>>]
  /\ fault = "none"
  /\ stale = FALSE
  /\ polite = TRUE

----------------------------------------------------------------------------
(* The commands.  Each allocates the window it names if that is unknown.   *)
(* polite' says what a client has to keep to for the proxy to survive it.  *)

\* QWS_CMD_REGION with rectangles, for an "shm" surface: attach the segment
\* (keep it if it is the attached one), take over the geometry, make the
\* buffer fit, and draw if there is a surface to draw on.
RegionShm(w, rs, format) ==
  LET blits  == role[w] # "none"
      aborts == blits /\ BlitFaults(w, format)
  IN
  /\ Running
  /\ polite' = (polite /\ ~BlitFaults(w, format))
  /\ \/ DiesIf(PositionFaults(w), aborts)
     \/ /\ ~PositionFaults(w) /\ ~aborts
        /\ FindOrAllocate(w)
        /\ shm' = [shm EXCEPT ![w] = format]
        /\ UpdateGeometry(w, rs)
        /\ mapped' = Shown(w, blits)
        /\ UNCHANGED <<onTop, role, parent, opaque, modifier, siblings,
                       toplevels, fault>>
        /\ UpdateRegions({w}, Emptied(w))

\* The same for another kind of surface, and for the segment with id 0 when
\* none was attached before: nothing is attached, and what is drawn is the
\* segment of an earlier request, if there is one and if it is large enough.
RegionOther(w, rs) ==
  LET blits  == role[w] # "none" /\ Attached(w)
      aborts == blits /\ BlitFaults(w, shm[w])
  IN
  /\ Running
  /\ polite' = FALSE
  /\ \/ DiesIf(PositionFaults(w), ResizeMayFail(w) \/ blits)
     \/ /\ ~PositionFaults(w) /\ ResizeMayWork(w) /\ ~aborts
        /\ FindOrAllocate(w)
        /\ UpdateGeometry(w, rs)
        /\ mapped' = Shown(w, blits)
        /\ UNCHANGED <<onTop, role, parent, opaque, modifier, shm, siblings,
                       toplevels, fault>>
        /\ UpdateRegions({w}, Emptied(w))

\* QWS_CMD_REGION without rectangles.  detach_client_shm() asserts that the
\* segment has not been detached before; one never attached passes.
HideWindow(w) ==
  /\ Running
  /\ polite' = (polite /\ shm[w] # "detached")
  /\ \/ DiesIf(FALSE, shm[w] = "detached")
     \/ /\ shm[w] # "detached"
        /\ FindOrAllocate(w)
        /\ shm' = [shm EXCEPT ![w] = "detached"]
        /\ geometry' = [geometry EXCEPT ![w] = <<>>]
        /\ mapped' = mapped \ {w}
        /\ UNCHANGED <<onTop, role, parent, opaque, modifier, buffer, siblings,
                       toplevels, fault>>
        /\ UpdateRegions({w}, Emptied(w))

\* qwswl_create_window(): a toplevel gets a shell surface, any other window
\* becomes a subsurface of p, above the subsurfaces p already has.
CreateSurface(w, isToplevel, p) ==
  \/ /\ isToplevel
     /\ role' = [role EXCEPT ![w] = "toplevel"]
     /\ toplevels' = <<w>> \o toplevels
     /\ UNCHANGED <<parent, siblings>>
  \/ /\ ~isToplevel
     /\ role' = [role EXCEPT ![w] = "subsurface"]
     /\ parent' = [parent EXCEPT ![w] = p]
     /\ siblings' = [siblings EXCEPT ![p] = <<w>> \o @]
     /\ UNCHANGED toplevels

\* QWS_CMD_REPAINT_REGION: only the first repaint tells what kind of window
\* this is, so it makes the surface; the parent of a window that is not a
\* toplevel is the first toplevel below it, which there may not be.  Nothing
\* is drawn if the request has no rectangles.
RepaintRegion(w, isToplevel, hasRects) ==
  LET creates == role[w] = "none"
      p       == FirstToplevelBelow(FoundStack(w), w)
      orphan  == creates /\ ~isToplevel /\ p = NoWindow
      blits   == hasRects /\ Attached(w)
      frees   == blits /\ PositionFaults(w)
      aborts  == blits /\ BlitFaults(w, shm[w])
  IN
  /\ Running
  /\ polite' = (polite /\ ~orphan)
  /\ \/ orphan /\ Dies("null_dereference")
     \/ ~orphan /\ DiesIf(frees /\ ~aborts, aborts)
     \/ /\ ~orphan /\ ~frees /\ ~aborts
        /\ FindOrAllocate(w)
        /\ \/ creates /\ CreateSurface(w, isToplevel, p)
           \/ ~creates /\ UNCHANGED <<role, parent, siblings, toplevels>>
        /\ mapped' = Shown(w, blits)
        /\ UNCHANGED <<onTop, geometry, opaque, modifier, shm, buffer, fault>>
        /\ UpdateRegions({}, told)

\* What a command leaves when it does nothing but look the window up.
OnlyFound(w) ==
  /\ FindOrAllocate(w)
  /\ UNCHANGED <<onTop, role, parent, geometry, visible, opaque, modifier, shm,
                 buffer, compositor, told, fault, stale>>

\* QWS_CMD_REGION_MOVE: ignored as long as the window has no region.  The
\* moves considered are those between two placements.
RegionMove(w, dx) ==
  LET rs     == Translate(geometry[w], dx)
      blits  == role[w] # "none" /\ Attached(w)
      aborts == blits /\ BlitFaults(w, shm[w])
  IN
  /\ Running
  /\ UNCHANGED polite
  /\ \/ geometry[w] = <<>> /\ OnlyFound(w)
     \/ /\ geometry[w] # <<>>
        /\ DiesIf(PositionFaults(w), ResizeMayFail(w) \/ aborts)
     \/ /\ geometry[w] # <<>> /\ rs \in Placement
        /\ ~PositionFaults(w) /\ ResizeMayWork(w) /\ ~aborts
        /\ FindOrAllocate(w)
        /\ UpdateGeometry(w, rs)
        /\ mapped' = Shown(w, blits)
        /\ UNCHANGED <<onTop, role, parent, opaque, modifier, shm, siblings,
                       toplevels, fault>>
        /\ UpdateRegions({}, told)

\* QWS_CMD_REGION_DESTROY: every field of the window goes, the pointers its
\* children hold to it do not.
RegionDestroy(w) ==
  LET remove(s) == RemoveFirst(s, w) IN
  /\ Running
  /\ polite' = (polite /\ \A child \in Window : parent[child] # w)
  /\ windows' = windows \ {w}
  /\ stack' = remove(FoundStack(w))
  /\ onTop' = [onTop EXCEPT ![w] = FALSE]
  /\ role' = [role EXCEPT ![w] = "none"]
  /\ parent' = [x \in Window |-> IF x = w THEN NoWindow
                                 ELSE IF parent[x] = w THEN Freed
                                 ELSE parent[x]]
  /\ geometry' = [geometry EXCEPT ![w] = <<>>]
  /\ opaque' = [opaque EXCEPT ![w] = TRUE]
  /\ modifier' = [modifier EXCEPT ![w] = FALSE]
  /\ shm' = [shm EXCEPT ![w] = "never"]
  /\ buffer' = [buffer EXCEPT ![w] = FALSE]
  /\ mapped' = mapped \ {w}
  /\ siblings' = [x \in Window |-> IF x = w THEN <<>> ELSE remove(siblings[x])]
  /\ toplevels' = remove(toplevels)
  /\ UNCHANGED fault
  /\ UpdateRegions({}, Emptied(w))

\* QWS_CMD_CHANGE_ALTITUDE: "stays_on_top" with is_fixed set makes the window
\* on_top for good; without it the command is a raise.
ChangeAltitude(w, altitude, fixed) ==
  LET top == [onTop EXCEPT ![w] = @ \/ (fixed /\ altitude = "stays_on_top")]
      p   == parent[w]
  IN
  /\ Running
  /\ UNCHANGED polite
  /\ \/ DiesIf(PositionFaults(w), FALSE)
     \/ /\ ~PositionFaults(w)
        /\ windows' = windows \cup {w}
        /\ onTop' = top
        /\ stack' = IF altitude = "lower"
                    THEN LowerWindow(FoundStack(w), w)
                    ELSE RaiseWindow(FoundStack(w), top, w)
        /\ toplevels' = ReorderToplevels(stack')
        /\ siblings' = IF p = NoWindow THEN siblings
                       ELSE ReorderSubsurfaces(stack', p)
        /\ UNCHANGED <<role, parent, geometry, opaque, modifier, shm, buffer,
                       mapped, fault>>
        /\ UpdateRegions({w}, Emptied(w))

\* QWS_CMD_SET_OPACITY: the regions below the window are left as they are.
\* The alpha modifier is made for win->wl_surface, whether or not there is one.
SetOpacity(w, isOpaque) ==
  LET changes == isOpaque # opaque[w] IN
  /\ Running
  /\ polite' = (polite /\ (changes => role[w] # "none"
                                       /\ shm[w] # "premultiplied"))
  /\ \/ /\ changes /\ AlphaModifier /\ role[w] = "none"
        /\ Dies("null_dereference")
     \/ /\ changes => ~AlphaModifier \/ role[w] # "none"
        /\ FindOrAllocate(w)
        /\ opaque' = [opaque EXCEPT ![w] = isOpaque]
        /\ modifier' = [modifier EXCEPT ![w] = @ \/ (changes /\ AlphaModifier)]
        /\ stale' = (stale \/ changes)
        /\ UNCHANGED <<onTop, role, parent, geometry, visible, shm, buffer,
                       compositor, told, fault>>

\* QWS_CMD_REGION_NAME, a REGION whose surface key is not UTF-16 and an
\* altitude out of range: the window is looked up and the rest is refused or
\* concerns the title.  QWS_CMD_REQUEST_FOCUS asks the compositor to activate.
LookUpOnly(w) ==
  /\ Running
  /\ OnlyFound(w)
  /\ UNCHANGED polite

Next == \E w \in Window :
  \/ \E rs \in Placement, format \in Format : RegionShm(w, rs, format)
  \/ \E rs \in Placement : RegionOther(w, rs)
  \/ HideWindow(w)
  \/ \E isToplevel, hasRects \in BOOLEAN :
       RepaintRegion(w, isToplevel, hasRects)
  \/ \E dx \in Step : RegionMove(w, dx)
  \/ RegionDestroy(w)
  \/ \E altitude \in Altitude, fixed \in BOOLEAN :
       ChangeAltitude(w, altitude, fixed)
  \/ \E isOpaque \in BOOLEAN : SetOpacity(w, isOpaque)
  \/ LookUpOnly(w)

Spec == Init /\ [][Next]_vars

----------------------------------------------------------------------------
(* Properties. *)

\* The type invariant.  Its last conjunct says something of the code: no
\* region event ever names a column that is not on the screen (client.c:318).
TypeOK ==
  /\ windows \subseteq Window
  /\ stack \in Seq(Window)
  /\ onTop \in [Window -> BOOLEAN]
  /\ role \in [Window -> Role]
  /\ parent \in [Window -> Window \cup {NoWindow, Freed}]
  /\ geometry \in [Window -> Placement \cup {<<>>}]
  /\ opaque \in [Window -> BOOLEAN]
  /\ modifier \in [Window -> BOOLEAN]
  /\ shm \in [Window -> Format \cup {"never", "detached"}]
  /\ buffer \in [Window -> BOOLEAN]
  /\ mapped \subseteq Window
  /\ siblings \in [Window -> Seq(Window)]
  /\ toplevels \in Seq(Window)
  /\ fault \in Fault
  /\ stale \in BOOLEAN
  /\ polite \in BOOLEAN
  /\ DOMAIN visible = Window /\ DOMAIN told = Window
  /\ \A w \in Window : ColumnsOf(visible[w]) \subseteq 0 .. ScreenWidth - 1

\* The window stack and the window map hold the same windows, each once: the
\* stack's iteration (regions, reordering) misses no window and meets none
\* that has been freed.  Raise, lower, lazy allocation and destroy each edit
\* the stack in a way of their own (client.c:116-218).
StackIsMap ==
  /\ \A i, j \in DOMAIN stack : stack[i] = stack[j] => i = j
  /\ windows = {stack[i] : i \in DOMAIN stack}

\* What the client was last told of a window is what the proxy takes its
\* visible region to be.  A client that asks about a window has emptied its
\* clip region and draws nothing until it is answered, so this fails if the
\* answer is left out when nothing changed (client.c:321-335).
ToldIsVisible == \A w \in Window : told[w] = visible[w]

\* Between commands every visible region is the one that follows from the
\* current stack, geometries and opacities; only an opacity change may leave
\* it behind (proxy.c:459-466 does not call qwswl_update_regions).
FreshUnlessOpacity == stale \/ visible = Allocations(stack, geometry, opaque)

\* No cell belongs both to an opaque window and to a window below it
\* (client.c:344-355).
OpaqueOccludesCells ==
  \A i, j \in DOMAIN stack :
    (i < j /\ opaque[stack[i]] /\ ~stale) =>
      CellsOf(visible[stack[i]]) \cap CellsOf(visible[stack[j]]) = {}

\* A window that has been hidden, or has not been given a region, is not on
\* the screen, whatever repaints and moves come in for it (window.c:614-616,
\* 898-922).
HiddenStaysHidden ==
  \A w \in mapped : /\ role[w] # "none" /\ geometry[w] # <<>>
                   /\ shm[w] \in Format /\ buffer[w]

\* As long as the client keeps to the rules the commands state, no child is
\* left without the toplevel it was created under: win->parent is read
\* without a check in every geometry update (window.c:519).
ChildrenHaveToplevel ==
  polite => \A w \in Window :
              /\ (role[w] = "subsurface") <=> (parent[w] # NoWindow)
              /\ parent[w] # NoWindow => /\ parent[w] \in windows
                                        /\ role[parent[w]] = "toplevel"

\* As long as the client keeps to those rules, no sequence of commands makes
\* the proxy abort or follow a bad pointer.
PoliteNeverFaults == polite => fault = "none"

Above(s, a, b) == \E i, j \in DOMAIN s : i < j /\ s[i] = a /\ s[j] = b

\* A command that puts b over a in the stack, where a was over b, leaves the
\* compositor with b over a: among the children of one parent always, among
\* toplevels if it has Qt's shell (client.c:220-272).
RestackReachesCompositor ==
  [][\A a, b \in Window :
       (Above(stack, a, b) /\ Above(stack', b, a)) =>
         /\ (parent[a] \in Window /\ parent[a] = parent[b]) =>
               Above(siblings'[parent[a]], b, a)
         /\ (QtShell /\ role[a] = "toplevel" /\ role[b] = "toplevel") =>
               Above(toplevels', b, a)]_vars

\* "on_top windows always live in the front zone; normal windows behind them"
\* (client.c:114).
ZoneOrder ==
  \A i, j \in DOMAIN stack : i < j => (onTop[stack[j]] => onTop[stack[i]])

\* Nothing but lowering an on-top window, which puts it behind all others, breaks
\* that order: creating, raising, destroying windows and putting them on top
\* keep it.
ZonesKept ==
  [][ZoneOrder =>
       \/ ZoneOrder'
       \/ \E w \in windows : onTop[w] /\ stack' = LowerWindow(stack, w)]_vars

\* "Opaque windows occlude everything below them" (client.c:344): the visible
\* columns of a window are not visible columns of an opaque one above it.
OpaqueOccludesColumns ==
  \A i, j \in DOMAIN stack :
    (i < j /\ opaque[stack[i]] /\ ~stale) =>
      ColumnsOf(visible[stack[i]]) \cap ColumnsOf(visible[stack[j]]) = {}
=============================================================================
