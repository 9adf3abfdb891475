----------------------------- MODULE TraceProxy -----------------------------
(***************************************************************************)
(* The trace proxy (trace_proxy/trace_proxy.c, the signal handler of       *)
(* trace_proxy/main.c): it sits between a QWS client and its server,       *)
(* forwards what each sends and queues it for a thread that prints it.     *)
(* There is one session at a time; each has a thread per direction, and    *)
(* the first to notice its end closes both descriptors.  A new client ends *)
(* the session before.                                                     *)
(*                                                                         *)
(* Descriptors are numbers that are used again, the lowest first.          *)
(* accept() takes its number when it begins to wait, and a read() that     *)
(* waits keeps its socket: close() neither wakes it nor lets the peer know *)
(* (Linux).  Packets count as units, StreamReader has how they are put     *)
(* together, and peers always read what they are sent.                     *)
(***************************************************************************)
EXTENDS Naturals, Sequences, FiniteSets

CONSTANTS
    MaxClients,     \* bound on the clients that connect, one after another
    Speakers,       \* bound: the connections whose peers send anything
    MaxSent,        \* bound on the packets that each peer sends
    MaxTotal,       \* bound on the packets that all of them send
    Dropped,        \* the packets whose type is in drop_mask, by their number
    Free,           \* a descriptor that is not in use
    Reserved        \* a descriptor that accept() has taken

ASSUME TraceProxyAssumption ==
  /\ MaxClients \in Nat /\ MaxSent \in Nat /\ MaxTotal \in Nat
  /\ Dropped \subseteq 1 .. MaxSent

Side == {"client", "server"}
Other(d) == IF d = "client" THEN "server" ELSE "client"

\* A session, a new client and its server need four numbers at most.
Number == 1 .. 4
NoFd == 0

\* The proxy's end of the connection to a peer of session k.
Socket == Side \X (1 .. MaxClients)
NoSocket == <<"none", 0>>

ASSUME DescriptorAssumption ==
  Free # Reserved /\ {Free, Reserved} \cap (Socket \cup {NoSocket}) = {}

Packet == [from : Socket, n : 1 .. MaxSent]
Sentinel == [from |-> NoSocket, n |-> 0]

Closer == {"main", "client", "server"}

VARIABLES
  pc,           \* where main() and the two threads are
  listen,       \* listen_fd: "none" yet, "open", or "closed" by the handler
  new,          \* the descriptor of the client that is accepted
  count,        \* st->client_id
  session,      \* st->session, 0 if NULL
  fds,          \* sess->client_fd and sess->server_fd
  dead,         \* sess->dead
  mutex,        \* who holds sess->close_mutex
  local,        \* of each thread: the descriptor it reads, the socket on which
                \* it waits, what it has read, where it writes, if that failed
  table,        \* the descriptors of the process
  sent,         \* how many packets each peer has sent
  taken,        \* and how many were read
  closed,       \* the peers that have closed
  arrived,      \* what each peer has received
  log,          \* everything ever put in the queue of the tracer thread
  traced,       \* how much of it the tracer has taken
  numbers,      \* ghost: the descriptors that the session had
  reused        \* ghost: the clients that got one of those

sess == <<session, fds, dead, mutex>>
threads == <<local, numbers>>
peers == <<sent, closed>>
queue == <<log, traced>>
vars == <<pc, listen, new, count, sess, threads, table, peers,
          taken, arrived, queue, reused>>

Idle == [fd |-> NoFd, socket |-> NoSocket, buf |-> <<>>, dst |-> NoFd,
         failed |-> FALSE]

Init ==
  /\ pc = [p \in Closer |-> IF p = "main" THEN "probe" ELSE "done"]
  /\ listen = "none"
  /\ new = NoFd /\ count = 0
  /\ session = 0
  /\ fds = [d \in Side |-> NoFd]
  /\ dead = FALSE /\ mutex = "none"
  /\ local = [d \in Side |-> Idle]
  /\ table = [f \in Number |-> Free]
  /\ sent = [s \in Socket |-> 0]
  /\ taken = [s \in Socket |-> 0]
  /\ closed = {}
  /\ arrived = [s \in Socket |-> <<>>]
  /\ log = <<>> /\ traced = 0
  /\ numbers = {} /\ reused = {}

Goto(p, label) == pc' = [pc EXCEPT ![p] = label]

Lowest == CHOOSE f \in Number :
            /\ table[f] = Free
            /\ \A g \in 1 .. f - 1 : table[g] # Free

\* A socket is there as long as a descriptor or a waiting read() refers to it.
Held(s) == (\E f \in Number : table[f] = s) \/ (\E d \in Side : local[d].socket = s)

----------------------------------------------------------------------------
(* main(): init, accept and connect. *)

\* wait_until_server_ready() has found the server.  A signal that came before it
\* did so, but after it last did not, is lost.
ProbeSucceeds ==
  /\ pc["main"] = "probe"
  /\ Goto("main", "listen")
  /\ UNCHANGED <<listen, new, count, sess, threads, table, peers, taken, arrived,
                 queue, reused>>

\* The rest of qwstrace_init().
Listen(fails) ==
  /\ pc["main"] = "listen"
  /\ listen' = IF fails THEN "none" ELSE "open"
  /\ Goto("main", IF fails THEN "exited" ELSE "loop")
  /\ UNCHANGED <<new, count, sess, threads, table, peers, taken,
                 arrived, queue, reused>>

\* Mutant of AfterLoop: the session is stopped by qwstrace_shutdown().
AfterLoopSentinel == "sentinel"

\* Where qwstrace_run() goes from its loop.
AfterLoop == IF session # 0 THEN "closing" ELSE "sentinel"

AcceptBegins ==
  /\ pc["main"] = "loop"
  /\ listen = "open"
  /\ new' = Lowest
  /\ table' = [table EXCEPT ![Lowest] = Reserved]
  /\ reused' = IF session # 0 /\ Lowest \in numbers THEN reused \cup {count + 1}
                                                   ELSE reused
  /\ Goto("main", "accept")
  /\ UNCHANGED <<listen, count, sess, threads, peers, taken, arrived,
                 queue>>

\* A client connects.  The session before is stopped first.
Accepts ==
  /\ pc["main"] = "accept"
  /\ listen = "open"
  /\ count < MaxClients
  /\ count' = count + 1
  /\ table' = [table EXCEPT ![new] = <<"client", count + 1>>]
  /\ Goto("main", IF session # 0 THEN "closing" ELSE "connect")
  /\ UNCHANGED <<listen, new, sess, threads, peers, taken, arrived,
                 queue, reused>>

\* accept() fails with EBADF: when it begins, or when it is restarted after the
\* signal.
AcceptFails ==
  /\ pc["main"] \in {"loop", "accept"}
  /\ listen = "closed"
  /\ table' = IF new = NoFd THEN table ELSE [table EXCEPT ![new] = Free]
  /\ new' = NoFd
  /\ Goto("main", AfterLoop)
  /\ UNCHANGED <<listen, count, sess, threads, peers, taken, arrived,
                 queue, reused>>

\* The upstream is connected.
Connects ==
  /\ pc["main"] = "connect"
  /\ table' = [table EXCEPT ![Lowest] = <<"server", count>>]
  /\ numbers' = {new, Lowest}
  /\ Goto("main", "create")
  /\ UNCHANGED <<listen, new, count, sess, local, peers, taken, arrived, queue,
                 reused>>

\* session_create() and session_start_threads().
Create ==
  /\ pc["main"] = "create"
  /\ session' = count
  /\ fds' = [client |-> new, server |-> CHOOSE f \in numbers : f # new]
  /\ dead' = FALSE
  /\ new' = NoFd
  /\ local' = [d \in Side |-> Idle]
  /\ pc' = [p \in Closer |-> IF p = "main" THEN "loop" ELSE "check"]
  /\ UNCHANGED <<listen, count, mutex, numbers, table, peers, taken, arrived, queue,
                 reused>>

ConnectFails ==
  /\ pc["main"] = "connect"
  /\ table' = [table EXCEPT ![new] = Free]
  /\ new' = NoFd
  /\ Goto("main", "loop")
  /\ UNCHANGED <<listen, count, sess, threads, peers, taken, arrived,
                 queue, reused>>

----------------------------------------------------------------------------
(* session_close_fds(), by either thread or by main(). *)

AfterClosing(p) == IF p = "main" THEN "join" ELSE "done"

Closed(d) ==
  /\ table' = [table EXCEPT ![fds[d]] = Free]
  /\ fds' = [fds EXCEPT ![d] = NoFd]

\* The first one to exchange dead takes the mutex, which is free, as the others
\* only hold it to copy a descriptor; it closes the client's side ...
CloseClient(p) ==
  /\ pc[p] = "closing"
  /\ ~dead /\ mutex = "none"
  /\ dead' = TRUE
  /\ mutex' = p
  /\ Closed("client")
  /\ Goto(p, "closing2")
  /\ UNCHANGED <<listen, new, count, session, threads, peers, taken, arrived, queue,
                 reused>>

\* ... and the others do nothing.
IsClosed(p) ==
  /\ pc[p] = "closing"
  /\ dead
  /\ Goto(p, AfterClosing(p))
  /\ UNCHANGED <<listen, new, count, sess, threads, table, peers, taken, arrived,
                 queue, reused>>

\* Mutant of Unlock: the mutex is kept.
UnlockNot == UNCHANGED mutex

Unlock == mutex' = "none"

CloseServer(p) ==
  /\ pc[p] = "closing2"
  /\ Closed("server")
  /\ Unlock
  /\ Goto(p, AfterClosing(p))
  /\ UNCHANGED <<listen, new, count, session, dead, threads, peers,
                 taken, arrived, queue, reused>>

----------------------------------------------------------------------------
(* client_dir_thread_fn() and server_dir_thread_fn(). *)

\* The descriptor to read is looked up without the mutex.
Check(d) ==
  /\ pc[d] = "check"
  /\ Goto(d, IF dead THEN "done" ELSE "enter")
  /\ local' = [local EXCEPT ![d].fd = IF dead THEN NoFd ELSE fds[d]]
  /\ UNCHANGED <<listen, new, count, sess, numbers, table, peers,
                 taken, arrived, queue, reused>>

\* read() finds the socket of the descriptor, if it has one.
Enter(d) ==
  /\ pc[d] = "enter"
  /\ IF local[d].fd # NoFd /\ table[local[d].fd] \notin {Free, Reserved}
       THEN /\ local' = [local EXCEPT ![d] = [Idle EXCEPT !.socket = table[local[d].fd]]]
            /\ Goto(d, "read")
       ELSE /\ local' = [local EXCEPT ![d] = Idle]
            /\ Goto(d, "closing")
  /\ UNCHANGED <<listen, new, count, sess, numbers, table, peers,
                 taken, arrived, queue, reused>>

\* The next n packets from a socket.
Batch(s, n) == [i \in 1 .. n |-> [from |-> s, n |-> taken[s] + i]]

\* It returns with what has come, if it is not more than fits.
Read(d, n) ==
  LET s == local[d].socket
  IN  /\ pc[d] = "read"
      /\ taken[s] + n <= sent[s]
      /\ taken' = [taken EXCEPT ![s] = @ + n]
      /\ local' = [local EXCEPT ![d] = [Idle EXCEPT !.buf = Batch(s, n)]]
      /\ Goto(d, "copy")
      /\ UNCHANGED <<listen, new, count, sess, numbers, table, peers,
                     arrived, queue, reused>>

\* Or with 0 when the peer has closed.
ReadEnd(d) ==
  LET s == local[d].socket
  IN  /\ pc[d] = "read"
      /\ taken[s] = sent[s] /\ s \in closed
      /\ local' = [local EXCEPT ![d] = Idle]
      /\ Goto(d, "closing")
      /\ UNCHANGED <<listen, new, count, sess, numbers, table, peers,
                     taken, arrived, queue, reused>>

\* The other descriptor is looked up under the mutex, and used after it.
Copy(d) ==
  /\ pc[d] = "copy"
  /\ mutex = "none"
  /\ IF fds[Other(d)] # NoFd
       THEN /\ local' = [local EXCEPT ![d].dst = fds[Other(d)]]
            /\ Goto(d, "write")
       ELSE /\ local' = [local EXCEPT ![d] = Idle]
            /\ Goto(d, "check")
  /\ UNCHANGED <<listen, new, count, sess, numbers, table, peers,
                 taken, arrived, queue, reused>>

\* The drop mask.
Kept(packet) == packet.n \notin Dropped

\* feed_and_enqueue(): the next packet is forwarded, to whatever the descriptor
\* is now, unless it is dropped.  A failure is remembered.
Write(d) ==
  LET packet == Head(local[d].buf)
      s == table[local[d].dst]
  IN  /\ pc[d] = "write"
      /\ Goto(d, "enqueue")
      /\ \/ /\ ~Kept(packet)
            /\ UNCHANGED <<arrived, local>>
         \/ /\ Kept(packet) /\ s \in Socket \ closed
            /\ arrived' = [arrived EXCEPT ![s] = Append(@, packet)]
            /\ UNCHANGED local
         \/ /\ Kept(packet) /\ s \notin Socket \ closed
            /\ local' = [local EXCEPT ![d].failed = TRUE]
            /\ UNCHANGED arrived
      /\ UNCHANGED <<listen, new, count, sess, numbers, table, peers,
                     taken, queue, reused>>

\* Mutant of Enqueued: what is dropped is not traced.
EnqueuedIfKept(packet) == IF Kept(packet) THEN Append(log, packet) ELSE log

\* trace_enqueue().
Enqueued(packet) == Append(log, packet)

\* Whether it was dropped or not, forwarded or not, it is traced.
Enqueue(d) ==
  LET rest == Tail(local[d].buf)
  IN  /\ pc[d] = "enqueue"
      /\ log' = Enqueued(Head(local[d].buf))
      /\ local' = [local EXCEPT ![d] =
           IF rest = <<>> THEN Idle ELSE [@ EXCEPT !.buf = rest]]
      /\ Goto(d, CASE rest # <<>>                      -> "write"
                   [] rest = <<>> /\ local[d].failed   -> "closing"
                   [] rest = <<>> /\ ~local[d].failed  -> "check")
      /\ UNCHANGED <<listen, new, count, sess, numbers, table, peers,
                     taken, arrived, traced, reused>>

----------------------------------------------------------------------------
(* The end of a session, and of the proxy. *)

\* Mutant of Joined: only the client's thread is waited for.
JoinedOne == pc["client"] = "done"

Joined == \A d \in Side : pc[d] = "done"

\* session_stop_and_free(): the session is freed when its threads have ended.
\* Then a new client is connected, or the queue gets its sentinel.
Join ==
  /\ pc["main"] = "join"
  /\ Joined
  /\ session' = 0
  /\ Goto("main", IF new # NoFd THEN "connect" ELSE "sentinel")
  /\ UNCHANGED <<listen, new, count, fds, dead, mutex, threads,
                 table, peers, taken, arrived, queue, reused>>

\* The sentinel tells the tracer to end.
EnqueueSentinel ==
  /\ pc["main"] = "sentinel"
  /\ log' = Append(log, Sentinel)
  /\ Goto("main", "joinTracer")
  /\ UNCHANGED <<listen, new, count, sess, threads, table, peers,
                 taken, arrived, traced, reused>>

TracerEnded == traced > 0 /\ log[traced] = Sentinel

\* tracer_thread_fn().
Tracer ==
  /\ traced < Len(log) /\ ~TracerEnded
  /\ traced' = traced + 1
  /\ UNCHANGED <<pc, listen, new, count, sess, threads, table, peers,
                 taken, arrived, log, reused>>

\* The tracer has ended; qwstrace_shutdown() has nothing to stop.
JoinTracer ==
  /\ pc["main"] = "joinTracer"
  /\ TracerEnded
  /\ Goto("main", "down")
  /\ UNCHANGED <<listen, new, count, sess, threads, table, peers,
                 taken, arrived, queue, reused>>

\* signal_handler(): closes listen_fd if there is one.
Signal ==
  /\ listen = "open"
  /\ listen' = "closed"
  /\ UNCHANGED <<pc, new, count, sess, threads, table, peers, taken, arrived, queue,
                 reused>>

\* wait_until_server_ready(): after a signal, the next failure ends the process.
ProbeFails ==
  /\ pc["main"] = "probe"
  /\ Goto("main", "exited")
  /\ UNCHANGED <<listen, new, count, sess, threads, table, peers, taken, arrived,
                 queue, reused>>

----------------------------------------------------------------------------
(* The peers. *)

PeerSends(s) ==
  /\ Held(s) /\ s \notin closed
  /\ s \in Speakers
  /\ sent[s] < MaxSent
  /\ Cardinality({m \in Socket \X (1 .. MaxSent) : m[2] <= sent[m[1]]}) < MaxTotal
  /\ sent' = [sent EXCEPT ![s] = @ + 1]
  /\ UNCHANGED <<pc, listen, new, count, sess, threads, table, closed,
                 taken, arrived, queue, reused>>

PeerCloses(s) ==
  /\ Held(s) /\ s \notin closed
  /\ closed' = closed \cup {s}
  /\ UNCHANGED <<pc, listen, new, count, sess, threads, table, sent,
                 taken, arrived, queue, reused>>

----------------------------------------------------------------------------
Thread(d) ==
  \/ Check(d) \/ Enter(d) \/ (\E n \in 1 .. MaxSent : Read(d, n)) \/ ReadEnd(d)
  \/ Copy(d) \/ Write(d) \/ Enqueue(d)
  \/ IsClosed(d) \/ CloseClient(d) \/ CloseServer(d)

Main ==
  \/ AcceptBegins \/ AcceptFails \/ Connects \/ Create \/ ConnectFails
  \/ IsClosed("main") \/ CloseClient("main") \/ CloseServer("main")
  \/ Join \/ EnqueueSentinel \/ JoinTracer

Next ==
  \/ ProbeFails \/ ProbeSucceeds
  \/ \E fails \in BOOLEAN : Listen(fails)
  \/ Accepts
  \/ Main
  \/ \E d \in Side : Thread(d)
  \/ Tracer
  \/ Signal
  \/ \E s \in Socket : PeerSends(s) \/ PeerCloses(s)

\* The threads of the proxy go on when they can.
Fairness == WF_vars(Main) /\ WF_vars(Tracer) /\ \A d \in Side : WF_vars(Thread(d))

\* Nobody has to connect, to speak or to leave.
SpecAlone == Init /\ [][Next]_vars /\ Fairness

\* Every client and server leaves some day.
Spec == SpecAlone /\ \A s \in Socket : WF_vars(PeerCloses(s))

----------------------------------------------------------------------------
TypeOK ==
  /\ pc["main"] \in {"probe", "listen", "loop", "accept", "connect", "create",
                     "closing", "closing2", "join", "sentinel", "joinTracer", "down",
                     "exited"}
  /\ \A d \in Side : pc[d] \in {"check", "enter", "read", "copy", "write",
                               "enqueue", "closing", "closing2", "done"}
  /\ listen \in {"none", "open", "closed"}
  /\ new \in Number \cup {NoFd}
  /\ count \in 0 .. MaxClients /\ session \in 0 .. count
  /\ fds \in [Side -> Number \cup {NoFd}]
  /\ dead \in BOOLEAN /\ mutex \in Closer \cup {"none"}
  /\ local \in [Side -> [fd : Number \cup {NoFd}, socket : Socket \cup {NoSocket},
                        buf : Seq(Packet), dst : Number \cup {NoFd},
                        failed : BOOLEAN]]
  /\ table \in [Number -> Socket \cup {Free, Reserved}]
  /\ sent \in [Socket -> 0 .. MaxSent] /\ taken \in [Socket -> 0 .. MaxSent]
  /\ closed \subseteq Socket
  /\ arrived \in [Socket -> Seq(Packet)]
  /\ log \in Seq(Packet \cup {Sentinel}) /\ traced \in 0 .. Len(log)
  /\ numbers \subseteq Number /\ reused \subseteq 1 .. MaxClients + 1

\* A session is there as long as its threads, and they are gone before the next
\* client is connected or the queue gets its sentinel.
SessionOutlivesThreads ==
  (\E d \in Side : pc[d] # "done") =>
    /\ session # 0
    /\ pc["main"] \notin {"connect", "create", "sentinel", "joinTracer", "down"}

\* What a peer receives comes from the other peer of its session.  But a client
\* may get what a peer of the session before meant for the other one: if that
\* session ended before accept() took a number, it may be one that a thread of the
\* session still writes to.
OwnPeersOnly ==
  \A s \in Socket : \A i \in 1 .. Len(arrived[s]) :
    LET peer == arrived[s][i].from
    IN  \/ peer = <<Other(s[1]), s[2]>>
        \/ s[1] = "client" /\ s[2] \in reused /\ peer[2] = s[2] - 1

\* The packets from s in a sequence, by their numbers ...
Of(q, s) == {q[i].n : i \in {j \in DOMAIN q : q[j].from = s}}

\* ... and that they are in order, none of them twice.
Ascends(q, s) ==
  \A i, j \in DOMAIN q :
    i < j /\ q[i].from = s /\ q[j].from = s => q[i].n < q[j].n

\* The trace of a session: what a peer sends is in it whole and in order, whether
\* dropped or not, and was received by the other peer before, in order and without
\* a gap, if it was not dropped, the other had not closed and the session had not
\* ended; and nothing is read before what was read before it is in the trace.
\* Unless the first packets of the client were read by a thread of the session
\* before.
TraceIsFaithful ==
  \A s \in Socket : s \in Side \X reused \/
    LET peer == <<Other(s[1]), s[2]>>
        trace == Of(log, s)
        received == Of(arrived[peer], s)
        underway == session = s[2]
        inHand == IF underway /\ pc[s[1]] = "enqueue" THEN {Head(local[s[1]].buf).n}
                                                    ELSE {}
    IN  /\ Ascends(log, s) /\ Ascends(arrived[peer], s)
        /\ \E m \in 0 .. taken[s] : trace = 1 .. m
        /\ received \subseteq (trace \cup inHand) \ Dropped
        /\ \A n \in received : (1 .. n) \ Dropped \subseteq received
        /\ underway /\ ~dead /\ peer \notin closed => trace \ Dropped \subseteq received
        /\ underway /\ ~dead /\ pc[s[1]] = "read" => trace = 1 .. taken[s]

\* The sentinel is the last thing in the queue, and when the proxy is down all of
\* it has been traced.
SentinelIsLast ==
  /\ \A i \in 1 .. Len(log) : log[i] = Sentinel => i = Len(log)
  /\ pc["main"] = "down" => TracerEnded /\ traced = Len(log)

\* A signal that finds a socket to close ends the proxy, if the peers of the last
\* session leave some day.
SignalEnds == (listen = "closed") ~> (pc["main"] = "down")

\* "Close fds to unblock blocking read() calls in both threads" (the comment in
\* session_stop_and_free()): the threads end without the help of the peers.
StopUnblocks == (pc["main"] = "join") ~> (pc["main"] # "join")

=============================================================================
