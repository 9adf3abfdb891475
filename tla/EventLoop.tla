------------------------------ MODULE EventLoop ------------------------------
(***************************************************************************)
(* The main loop of the proxy, qwswl_run() of proxy/lifecycle.c, and the   *)
(* life of its clients: connections are accepted, the bytes of a client    *)
(* are read, cut into packets and dispatched, synchronous commands are     *)
(* answered over the client's QWSLock, and clients leave while the events  *)
(* of others are being handled.  Wayland events are read between           *)
(* wl_display_prepare_read() and a read or a cancel, and no roundtrip may  *)
(* happen in between.                                                      *)
(*                                                                         *)
(* Commands are told apart by what the loop does with them: whether they   *)
(* are synchronous, which clients are sent an event, whether the surface   *)
(* is painted from the client's memory under its BackingStore semaphore.   *)
(* Clients are Qt: they wait for the answer to IDENTIFY, then send, paint, *)
(* read events and, after a synchronous command, wait for the              *)
(* Communication semaphore.  One is rude when it goes on sending after a   *)
(* command that ends its connection.                                       *)
(***************************************************************************)
EXTENDS Integers, Sequences, FiniteSets

CONSTANTS Client, NoClient,
          Repertoire,   \* the commands each client sends
          Mortal,       \* the clients that may die
          Listening,    \* the clients that get input events
          Room,         \* the events that fit in a client's socket
          MaxSent,      \* bound on the packets each client sends
          HeaderSize, SimpleLen(_), RawLen(_)       \* see StreamReader

Kind == {"identify", "nolock", "create", "region", "repaint", "opacity",
         "set", "shutdown"}

INSTANCE StreamReader

ASSUME LoopAssumption ==
  /\ NoClient \notin Client
  /\ IsFiniteSet(Client)
  /\ Repertoire \in [Client -> SUBSET Kind]
  /\ Mortal \subseteq Client /\ Listening \subseteq Client
  /\ Room \in Nat \ {0}
  /\ MaxSent \in [Client -> Nat]

ASSUME PacketAssumption ==
  /\ HeaderSize \in Nat \ {0}
  /\ \A k \in Kind : SimpleLen(k) \in Nat /\ RawLen(k) \in Nat

VARIABLES
  pc,         \* where qwswl_run() is
  prepared,   \* reader_count of the wl_display
  pending,    \* the default queue of the wl_display holds events
  wl,         \* whether the wl_display works
  loop,       \* loop_epoll_fd is open
  batch,      \* the clients of qws_events that are still to be handled
  hups,       \* those of them with EPOLLHUP
  cur,        \* the client qwswl_handle_client_data() runs for
  buf,        \* what is left of the bytes it read
  packet,     \* the packet being dispatched
  out,        \* the clients that are still to be sent the present event
  conn,       \* the state of each connection
  reader,     \* cl->reader
  up,         \* bytes under way from each client
  down,       \* events under way to each client
  comm,       \* the Communication semaphore of each client
  client,     \* what each client is doing
  sent,       \* the commands each client has sent
  done,       \* how many of them the reader has completed
  fault       \* the proxy touches a client it has freed

wayland == <<prepared, pending, wl>>
handling == <<cur, buf, packet, out, reader, done>>
connection == <<conn, up, down, comm>>
vars == <<pc, wayland, loop, batch, hups, handling, connection, client, sent,
          fault>>

\* A command after which the proxy closes the connection: IDENTIFY with a lock
\* that cannot be opened, and SHUTDOWN.
Parting(k) == k \in {"nolock", "shutdown"}

\* The first packet of a connection.
First == {"identify", "nolock"}

\* qws_is_synchronous_command().
Sync(k) == k \in {"region", "repaint"}

\* Commands that have the proxy copy pixels out of the client's memory.
Blits(k) == k \in {"repaint", "opacity"}

Live == {c \in Client : conn[c] = "live"}

\* Those among them that have a lock: only they have windows or subscriptions.
Identified == {c \in Live : done[c] > 0 /\ sent[c][1] = "identify"}

\* The clients that are sent an event when a command of c is handled.
Targets(k, c) ==
  CASE k \in {"identify", "create", "region"} -> {c}
    [] k = "set" -> Identified
    [] OTHER -> {}

Init ==
  /\ pc = "top"
  /\ prepared = 0 /\ pending = FALSE /\ wl = "up"
  /\ loop = TRUE
  /\ batch = {} /\ hups = {}
  /\ cur = NoClient /\ buf = <<>> /\ packet = <<>> /\ out = {}
  /\ conn = [c \in Client |-> "out"]
  /\ reader = [c \in Client |-> Fresh]
  /\ up = [c \in Client |-> <<>>]
  /\ down = [c \in Client |-> <<>>]
  /\ comm = [c \in Client |-> 1]
  /\ client = [c \in Client |-> "new"]
  /\ sent = [c \in Client |-> <<>>]
  /\ done = [c \in Client |-> 0]
  /\ fault = FALSE

----------------------------------------------------------------------------
(* Wayland events and the first epoll_wait(). *)

\* wl_display_dispatch_pending(): the handlers may send an event to a client.
\* It does nothing any more once the wl_display has failed, and the loop around
\* it then never ends.
DispatchPending ==
  /\ pc = "top"
  /\ pending /\ wl = "up"
  /\ pending' = FALSE
  /\ out' \in {{c} : c \in Identified \cap Listening} \cup {{}}
  /\ packet' = <<>>
  /\ cur' = NoClient
  /\ pc' = "write"
  /\ UNCHANGED <<prepared, wl, loop, batch, hups, buf, reader, done,
                 connection, client, sent, fault>>

\* wl_display_prepare_read() succeeds when the queue is empty.
Prepare ==
  /\ pc = "top"
  /\ ~pending
  /\ prepared' = prepared + 1
  /\ pc' = "wait"
  /\ UNCHANGED <<pending, wl, loop, batch, hups, handling, connection, client,
                 sent, fault>>

\* Mutant of LoopClosed: every error of epoll_wait() is taken for EINTR.
LoopClosedRetries ==
  /\ pc = "wait"
  /\ ~loop
  /\ prepared' = prepared - 1
  /\ pc' = "top"
  /\ UNCHANGED <<pending, wl, loop, batch, hups, handling, connection, client,
                 sent, fault>>

\* loop_epoll_fd was closed by the signal handler: epoll_wait() fails, and
\* qwswl_run() returns with the read still prepared.
LoopClosed ==
  /\ pc = "wait"
  /\ ~loop
  /\ pc' = "shutdown"
  /\ UNCHANGED <<wayland, loop, batch, hups, handling, connection, client,
                 sent, fault>>

\* The compositor closes the connection: EPOLLHUP on its descriptor.
HangUp ==
  /\ pc = "wait"
  /\ loop
  /\ wl' = "broken"
  /\ pc' = "shutdown"
  /\ UNCHANGED <<prepared, pending, loop, batch, hups, handling, connection,
                 client, sent, fault>>

\* A client has sent bytes that were not read, or is gone.
Ready(c) == conn[c] = "live" /\ (up[c] # <<>> \/ client[c] = "gone")

\* qwswl_accept_client(), once per turn of the loop.
Accept(a) ==
  conn' = [c \in Client |-> IF c \in a THEN "live" ELSE conn[c]]

\* Mutant of Finished: the read is only cancelled when there is something to do
\* for the clients.
FinishedIfQws(qws) == prepared' = IF qws THEN prepared - 1 ELSE prepared

\* qws_epoll_fd is reported when a client's descriptor is ready.
HadQws(a, ready) == ready # {}

\* wl_display_read_events() or wl_display_cancel_read().
Finished(qws) == prepared' = prepared - 1

\* One turn of the loop's first half.  Of the four descriptors, three at most
\* are reported, so that a new connection or the clients may be left out when
\* all others are ready.  Reading may bring events, an error event from the
\* compositor with or without them, or fail.
Poll(a, read, qws) ==
  LET backlog == {c \in Client : conn[c] = "backlog"}
      ready   == {c \in Client : Ready(c)}
  IN  /\ pc = "wait"
      /\ loop /\ wl = "up"
      /\ a \subseteq backlog /\ Cardinality(a) <= 1
      /\ a = {} => backlog = {} \/ (read # "none" /\ qws)
      /\ qws => HadQws(a, ready)
      /\ ~qws => ready = {} \/ (read # "none" /\ a # {})
      /\ Accept(a)
      /\ Finished(qws)
      /\ wl' = IF read \in {"error", "fails"} THEN "broken" ELSE "up"
      /\ pending' \in CASE read = "events" -> {TRUE}
                        [] read = "error"  -> BOOLEAN
                        [] OTHER           -> {FALSE}
      /\ pc' = IF read = "fails" THEN "shutdown"
               ELSE IF qws THEN "qws" ELSE "top"
      /\ UNCHANGED <<loop, batch, hups, handling, up, down, comm, client,
                     sent, fault>>

----------------------------------------------------------------------------
(* The clients' events. *)

\* The second epoll_wait().
Gather ==
  /\ pc = "qws"
  /\ batch' = {c \in Client : Ready(c)}
  /\ hups' = {c \in batch' : client[c] = "gone"}
  /\ pc' = "batch"
  /\ UNCHANGED <<wayland, loop, handling, connection, client, sent, fault>>

\* qwswl_disconnect_client(): the socket is closed, with what was not read from
\* it, and the client freed, which removes its semaphores.
Disconnect(c) ==
  /\ conn' = [conn EXCEPT ![c] = "freed"]
  /\ up' = [up EXCEPT ![c] = <<>>]

\* Where the loop goes on when a client has been handled, b being the others.
AfterClient(b) == IF b = {} THEN "top" ELSE "batch"

DisconnectGone(c) ==
  /\ pc = "batch"
  /\ c \in hups
  /\ Disconnect(c)
  /\ batch' = batch \ {c}
  /\ hups' = hups \ {c}
  /\ pc' = AfterClient(batch')
  /\ UNCHANGED <<wayland, loop, handling, down, comm, client, sent, fault>>

\* read() in qwswl_handle_client_data(): what has arrived so far.
ReadBytes(c, n) ==
  /\ pc = "batch"
  /\ c \in batch \ hups
  /\ n \in 1 .. Len(up[c])
  /\ cur' = c
  /\ buf' = SubSeq(up[c], 1, n)
  /\ up' = [up EXCEPT ![c] = SubSeq(@, n + 1, Len(@))]
  /\ batch' = batch \ {c}
  /\ pc' = "feed"
  /\ UNCHANGED <<wayland, loop, hups, packet, out, reader, done, conn, down,
                 comm, client, sent, fault>>

\* Where it goes on when a packet has been handled, b being the bytes left.
AfterPacket(b) == IF b = <<>> THEN AfterClient(batch) ELSE "feed"

\* The kind of the command being handled.
Command == packet[1].kind

\* The loop of qwswl_handle_client_data(): qws_reader_feed(), and if a packet
\* comes out, qwswl_dispatch_command().  Commands that end the connection are
\* handled at once, the others begin with the events they send.
FeedReader ==
  /\ pc = "feed"
  /\ conn[cur] = "live"
  /\ \E f \in {Feed(reader[cur], buf)} :
         /\ reader' = [reader EXCEPT ![cur] = f.reader]
         /\ buf' = f.rest
         /\ \/ /\ f.packet = <<>>
               /\ pc' = AfterPacket(f.rest)
               /\ UNCHANGED <<packet, done, out, conn, up>>
            \/ /\ f.packet # <<>>
               /\ done' = [done EXCEPT ![cur] = @ + 1]
               /\ \/ /\ Parting(f.packet[1].kind)
                     /\ Disconnect(cur)
                     /\ pc' = AfterPacket(f.rest)
                     /\ UNCHANGED <<packet, out>>
                  \/ /\ ~Parting(f.packet[1].kind)
                     /\ packet' = f.packet
                     /\ out' = Targets(f.packet[1].kind, cur)
                     /\ pc' = "write"
                     /\ UNCHANGED <<conn, up>>
         /\ cur' = IF pc' \in {"feed", "write"} THEN cur ELSE NoClient
  /\ UNCHANGED <<wayland, loop, batch, hups, down, comm, client, sent, fault>>

\* The command that was dispatched freed the client, and there are more bytes.
UseFreed ==
  /\ pc = "feed"
  /\ conn[cur] = "freed"
  /\ fault' = TRUE
  /\ pc' = "down"
  /\ UNCHANGED <<wayland, loop, batch, hups, handling, connection, client,
                 sent>>

\* The event client c is sent, numbered by the command it answers.  Those that
\* nobody waits for are not told apart.
EventFor(c) ==
  IF c = cur /\ Command \in {"identify", "region"}
    THEN [type |-> Command, n |-> done[c]]
    ELSE [type |-> "other", n |-> 0]

\* Mutant of WriteFailed: a client that cannot be written to is freed on the
\* spot.
WriteFailedFrees(c) == conn' = [conn EXCEPT ![c] = "freed"]

\* shutdown() of the socket: epoll reports EPOLLHUP later on, as it does anyhow
\* for a client that is gone.
WriteFailed(c) == UNCHANGED conn

\* qws_write_packet(): blocks while the client's socket is full.
Write(c) ==
  /\ pc = "write"
  /\ c \in out
  /\ out' = out \ {c}
  /\ \/ /\ client[c] = "gone"
        /\ WriteFailed(c)
        /\ UNCHANGED down
     \/ /\ client[c] # "gone"
        /\ Len(down[c]) < Room
        /\ down' = [down EXCEPT ![c] = Append(@, EventFor(c))]
        /\ UNCHANGED conn
  /\ UNCHANGED <<pc, wayland, loop, batch, hups, cur, buf, packet, reader,
                 done, up, comm, client, sent, fault>>

\* Wayland events have been dispatched.
Dispatched ==
  /\ pc = "write"
  /\ out = {}
  /\ packet = <<>>
  /\ pc' = "top"
  /\ UNCHANGED <<wayland, loop, batch, hups, handling, connection, client,
                 sent, fault>>

\* Mutant of Told: the semaphore is posted before the event is written.
ToldOrNot == TRUE

\* The events of the command have been written.
Told == out = {}

\* Mutant of Answered: every command posts the Communication semaphore.
AnsweredAlways(k) == comm' = [comm EXCEPT ![cur] = @ + 1]

\* Mutant of Answered: region requests are forgotten.
AnsweredRepaint(k) ==
  comm' = [comm EXCEPT ![cur] = IF k = "repaint" THEN @ + 1 ELSE @]

\* The end of qwswl_dispatch_command(): a synchronous command is answered.
Answered(k) ==
  comm' = [comm EXCEPT ![cur] = IF Sync(k) THEN @ + 1 ELSE @]

\* The proxy waits for the BackingStore semaphore of c, or could have it.
Wants(c) == pc = "write" /\ Told /\ packet # <<>> /\ cur = c /\ Blits(Command)

\* qwswl_update_surface() takes the client's BackingStore semaphore, copies and
\* gives it back: nothing of that is seen by others but that it waits while the
\* client paints.  The copy, and then the answer, end the command.
Finish ==
  /\ pc = "write"
  /\ packet # <<>>
  /\ Told
  /\ Wants(cur) => client[cur] # "painting"
  /\ Answered(Command)
  /\ out' = {}
  /\ packet' = <<>>
  /\ pc' = AfterPacket(buf)
  /\ cur' = IF buf = <<>> THEN NoClient ELSE cur
  /\ UNCHANGED <<wayland, loop, batch, hups, buf, reader, done, conn, up,
                 down, client, sent, fault>>

----------------------------------------------------------------------------
(* The end. *)

\* signal_handler() closes loop_epoll_fd, at any time.
Signal ==
  /\ loop
  /\ pc \notin {"shutdown", "down"}
  /\ loop' = FALSE
  /\ UNCHANGED <<pc, wayland, batch, hups, handling, connection, client, sent,
                 fault>>

\* qwswl_shutdown(): a read is cancelled, prepared or not; clients are
\* disconnected, and those that wait to be accepted refused.  A roundtrip waits
\* for ever if reader_count is then not 0, unless the wl_display has failed.
Shutdown ==
  /\ pc = "shutdown"
  /\ prepared' = prepared - 1
  /\ prepared' = 0 \/ wl = "broken"
  /\ conn' = [c \in Client |->
                IF conn[c] \in {"live", "backlog"} THEN "freed" ELSE conn[c]]
  /\ up' = [c \in Client |-> <<>>]
  /\ loop' = FALSE
  /\ pc' = "down"
  /\ UNCHANGED <<pending, wl, batch, hups, handling, down, comm, client, sent,
                 fault>>

----------------------------------------------------------------------------
(* Clients: Qt. *)

Sends(c, k) ==
  /\ sent' = [sent EXCEPT ![c] = Append(@, k)]
  /\ up' = [up EXCEPT ![c] = @ \o Wire(k, Len(sent[c]) + 1)]

Connect(c) ==
  /\ client[c] = "new"
  /\ pc # "down"
  /\ conn' = [conn EXCEPT ![c] = "backlog"]
  /\ client' = [client EXCEPT ![c] = "connected"]
  /\ UNCHANGED <<pc, wayland, loop, batch, hups, handling, up, down, comm, sent,
                 fault>>

\* A client identifies itself, with its lock or, if it could make none, without.
Identify(c, k) ==
  /\ client[c] = "connected"
  /\ conn[c] # "freed"
  /\ k \in Repertoire[c] \cap First
  /\ client' = [client EXCEPT ![c] = "hello"]
  /\ Sends(c, k)
  /\ UNCHANGED <<pc, wayland, loop, batch, hups, handling, conn, down, comm,
                 fault>>

\* A client sends a command.  For a synchronous one it takes the Communication
\* semaphore and then waits for it again.
Send(c, k) ==
  /\ \/ client[c] = "idle"
     \/ client[c] = "hello" /\ ~Sync(k) /\ Parting(sent[c][1])
  /\ conn[c] \in {"backlog", "live"}
  /\ Len(sent[c]) < MaxSent[c]
  /\ k \in Repertoire[c] \ First
  /\ Sync(k) => comm[c] = 1
  /\ client' = IF Sync(k) THEN [client EXCEPT ![c] = "waiting"] ELSE client
  /\ comm' = IF Sync(k) THEN [comm EXCEPT ![c] = @ - 1] ELSE comm
  /\ Sends(c, k)
  /\ UNCHANGED <<pc, wayland, loop, batch, hups, handling, conn, down, fault>>

\* The semaphore has been posted, or removed with the client that the proxy
\* has freed; the client takes it and gives it back.
Resume(c) ==
  /\ client[c] = "waiting"
  /\ comm[c] > 0 \/ conn[c] = "freed"
  /\ client' = [client EXCEPT ![c] = "idle"]
  /\ UNCHANGED <<pc, wayland, loop, batch, hups, handling, connection, sent,
                 fault>>

\* A client of this kind paints into its backing store, under its semaphore,
\* when it has handled its events.  The kernel hands a semaphore that is given
\* back to who waits for it, so that it cannot overtake the proxy.
BeginPaint(c) ==
  /\ client[c] = "idle"
  /\ \E k \in Repertoire[c] : Blits(k)
  /\ down[c] = <<>>
  /\ ~Wants(c)
  /\ client' = [client EXCEPT ![c] = "painting"]
  /\ UNCHANGED <<pc, wayland, loop, batch, hups, handling, connection, sent,
                 fault>>

EndPaint(c) ==
  /\ client[c] = "painting"
  /\ client' = [client EXCEPT ![c] = "idle"]
  /\ UNCHANGED <<pc, wayland, loop, batch, hups, handling, connection, sent,
                 fault>>

\* The client reads an event; the first one ends its wait for the connection.
ReadEvent(c) ==
  /\ client[c] \in {"hello", "idle"}
  /\ down[c] # <<>>
  /\ down' = [down EXCEPT ![c] = Tail(@)]
  /\ client' = [client EXCEPT ![c] =
                  IF Head(down[c]).type = "identify" THEN "idle" ELSE @]
  /\ UNCHANGED <<pc, wayland, loop, batch, hups, handling, conn, up, comm,
                 sent, fault>>

\* The client dies; the kernel closes its socket and undoes what it holds of
\* the BackingStore semaphore (SEM_UNDO).
Die(c) ==
  /\ c \in Mortal
  /\ client[c] \notin {"new", "gone"}
  /\ client' = [client EXCEPT ![c] = "gone"]
  /\ down' = [down EXCEPT ![c] = <<>>]
  /\ UNCHANGED <<pc, wayland, loop, batch, hups, handling, conn, up, comm, sent,
                 fault>>

\* The client finds its connection closed, and ends.
Notice(c) ==
  /\ client[c] \in {"connected", "hello", "idle"}
  /\ conn[c] = "freed"
  /\ client' = [client EXCEPT ![c] = "gone"]
  /\ down' = [down EXCEPT ![c] = <<>>]
  /\ UNCHANGED <<pc, wayland, loop, batch, hups, handling, conn, up, comm, sent,
                 fault>>

----------------------------------------------------------------------------
Reads == {"none", "events", "error", "fails"}

Proxy ==
  \/ DispatchPending \/ Prepare \/ LoopClosed
  \/ \E a \in SUBSET Client, read \in Reads, qws \in BOOLEAN : Poll(a, read, qws)
  \/ Gather \/ FeedReader \/ UseFreed
  \/ \E c \in Client : \/ DisconnectGone(c) \/ Write(c)
                       \/ \E n \in 1 .. Len(up[c]) : ReadBytes(c, n)
  \/ Dispatched \/ Finish \/ Shutdown

ClientStep(c) ==
  \/ Connect(c)
  \/ \E k \in Kind : Identify(c, k) \/ Send(c, k)
  \/ Resume(c) \/ BeginPaint(c) \/ EndPaint(c)
  \/ ReadEvent(c) \/ Die(c) \/ Notice(c)

Next == Proxy \/ HangUp \/ Signal \/ \E c \in Client : ClientStep(c)

\* The proxy goes on when it can, and notices that the compositor hung up; a
\* client goes on after an answer, stops painting, and reads its events.
Fairness ==
  /\ WF_vars(Proxy)
  /\ WF_vars(HangUp /\ wl = "broken")
  /\ \A c \in Client : WF_vars(Resume(c)) /\ WF_vars(EndPaint(c))
                          /\ WF_vars(ReadEvent(c))

Spec == Init /\ [][Next]_vars /\ Fairness

----------------------------------------------------------------------------
Place == {"top", "wait", "qws", "batch", "feed", "write", "shutdown", "down"}

TypeOK ==
  /\ pc \in Place
  /\ prepared \in {-1, 0, 1}
  /\ pending \in BOOLEAN /\ wl \in {"up", "broken"} /\ loop \in BOOLEAN
  /\ batch \subseteq Client /\ hups \subseteq batch /\ out \subseteq Client
  /\ cur \in Client \cup {NoClient}
  /\ (pc = "feed" \/ packet # <<>>) => cur \in Client
  /\ conn \in [Client -> {"out", "backlog", "live", "freed"}]
  /\ comm \in [Client -> Nat]
  /\ client \in [Client -> 
                           {"new", "connected", "hello", "idle", "waiting",
                            "painting", "gone"}]
  /\ sent \in [Client -> Seq(Kind)]
  /\ done \in [Client -> Nat]
  /\ \A c \in Client : Len(sent[c]) <= MaxSent[c] + 1 /\ Len(down[c]) <= Room
  /\ fault \in BOOLEAN

\* However the bytes of a client arrive in pieces, a packet that is dispatched
\* is the one the client sent next (qws_reader_feed() and its caller).
PacketsWhole ==
  packet # <<>> => packet = Wire(sent[cur][done[cur]], done[cur])

\* A client that has sent more after a command that ends its connection.
RudeClient(c) == \E i \in 1 .. Len(sent[c]) - 1 : Parting(sent[c][i])

\* The clients whose events are still to be handled have not been freed by the
\* handling of others: the pointers in qws_events are good.  Nor has the one whose
\* bytes are being handled, unless it sent on after a command that ends its
\* connection.
BatchLives ==
  /\ \A c \in batch : conn[c] = "live"
  /\ pc \in {"feed", "write"} /\ cur # NoClient =>
       conn[cur] = "live" \/ RudeClient(cur)

\* The commands of a client that have been handled to the end.
Handled(c) == done[c] - (IF cur = c /\ packet # <<>> THEN 1 ELSE 0)

\* The Communication semaphore is down exactly while a synchronous command is
\* unanswered, so that each gets one answer, and its own.
AnsweredOnce ==
  \A c \in Client :
    conn[c] # "freed" =>
      comm[c] = IF \E i \in Handled(c) + 1 .. Len(sent[c]) : Sync(sent[c][i])
                  THEN 0 ELSE 1

\* A client that is told its region request is done finds the region event in
\* its socket.
EventBeforeAnswer ==
  \A c \in Client :
    LET n == Len(sent[c])
    IN  /\ client[c] = "waiting" /\ comm[c] = 1 /\ conn[c] = "live"
        /\ sent[c][n] = "region"
        => \E i \in 1 .. Len(down[c]) : down[c][i] = [type |-> "region", n |-> n]

\* No read is prepared while clients' commands are handled, which may do
\* roundtrips, and the one qwswl_shutdown() cancels is prepared, unless the
\* wl_display has failed.
RoundtripsAreSafe ==
  /\ pc \in {"top", "qws", "batch", "feed", "write"} => prepared = 0
  /\ pc = "shutdown" /\ wl = "up" => prepared = 1

\* The proxy is blocked in a write to a client that waits for its answer.
Jammed ==
  pc = "write" /\ \E c \in out : client[c] = "waiting" /\ Len(down[c]) = Room

\* The loop around wl_display_prepare_read() does not end.
Spinning == pc = "top" /\ pending /\ wl = "broken"

\* A client that waits for an answer goes on: it is answered, or its semaphore
\* is removed when the proxy frees it, whatever the other clients do.
Served ==
  \A c \in {d \in Client : \E k \in Repertoire[d] : Sync(k)} :
    client[c] = "waiting" ~> \/ client[c] # "waiting"
                             \/ Jammed \/ Spinning \/ fault \/ RudeClient(c)

\* After a signal, or when the compositor is lost, the proxy ends.
ShutdownEnds == (~loop \/ wl = "broken") ~> (pc = "down" \/ Jammed \/ Spinning)

=============================================================================
