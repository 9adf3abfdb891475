-------------------------- MODULE TraceProxyProofs --------------------------
(***************************************************************************)
(* Theorems about TraceProxy, for any number of clients and packets: a     *)
(* session outlives its threads, there is always a descriptor to be had,   *)
(* the sentinel is the last thing in the queue, peers get packets only     *)
(* from each other, and the trace of a session is what its peers have      *)
(* sent, but for the two cases the properties name.                        *)
(*                                                                         *)
(* The last two follow what a descriptor number stands for, from the step  *)
(* that looks it up to the step that uses it (Peers).                      *)
(***************************************************************************)
EXTENDS TraceProxy, SequenceTheorems, TLAPS

USE TraceProxyAssumption

MainLabel == {"probe", "listen", "loop", "accept", "connect", "create", "closing",
              "closing2", "join", "sentinel", "joinTracer", "down", "exited"}
ThreadLabel == {"check", "enter", "read", "copy", "write", "enqueue", "closing",
                "closing2", "done"}

\* Where main() and the threads are.  There are threads only with a session.
Control ==
  /\ pc \in [Closer -> MainLabel \cup ThreadLabel]
  /\ pc["main"] \in MainLabel
  /\ \A d \in Side : pc[d] \in ThreadLabel
  /\ count \in 0 .. MaxClients /\ session \in 0 .. count
  /\ pc["main"] \in {"connect", "create"} => count > 0
  /\ pc["main"] \in {"probe", "listen", "exited", "connect", "create", "sentinel",
                     "joinTracer", "down"} => session = 0
  /\ pc["main"] \in {"closing", "closing2", "join"} => session # 0
  /\ session = 0 => \A d \in Side : pc[d] = "done"

\* The closing of a session: whoever set dead closes both descriptors.
Closing ==
  /\ dead \in BOOLEAN
  /\ \A p \in Closer : pc[p] = "closing2" => dead
  /\ dead => /\ fds["client"] = NoFd
             /\ fds["server"] = NoFd \/ \E p \in Closer : pc[p] = "closing2"
  /\ pc["main"] = "join" => dead
  /\ session = 0 => fds["client"] = NoFd /\ fds["server"] = NoFd

\* The descriptors in use are those of the session, of the client that is being
\* accepted and of its server; and these are not the same.
Descriptors ==
  /\ fds \in [Side -> Number \cup {NoFd}]
  /\ new \in Number \cup {NoFd}
  /\ table \in [Number -> Socket \cup {Free, Reserved}]
  /\ \A f \in Number : table[f] # Free =>
       \/ f \in {fds["client"], fds["server"], new}
       \/ pc["main"] = "create" /\ f \in numbers
  /\ \A d \in Side : fds[d] # NoFd => fds[d] # new /\ table[fds[d]] # Free
  /\ fds["client"] = fds["server"] => fds["client"] = NoFd
  /\ new # NoFd => table[new] # Free
  /\ pc["main"] \in {"probe", "listen", "loop"} => new = NoFd
  /\ pc["main"] \in {"accept", "connect", "create"} => new # NoFd
  /\ pc["main"] = "create" =>
       \E f \in Number \ {new} : numbers = {new, f} /\ table[f] # Free

\* What the threads have read.
Buffers ==
  /\ local \in [Side -> [fd : Number \cup {NoFd}, socket : Socket \cup {NoSocket},
                        buf : Seq(Packet), dst : Number \cup {NoFd},
                        failed : BOOLEAN]]
  /\ \A d \in Side : /\ pc[d] = "read" => local[d].socket \in Socket
                     /\ pc[d] \in {"copy", "write", "enqueue"} => local[d].buf # <<>>
  /\ sent \in [Socket -> 0 .. MaxSent] /\ taken \in [Socket -> 0 .. MaxSent]

\* The queue.
Queue ==
  /\ log \in Seq(Packet \cup {Sentinel}) /\ traced \in 0 .. Len(log)
  /\ \A i \in DOMAIN log : log[i] = Sentinel =>
       i = Len(log) /\ pc["main"] \in {"joinTracer", "down"}
  /\ pc["main"] = "down" => TracerEnded

IInv == Control /\ Closing /\ Descriptors /\ Buffers /\ Queue

----------------------------------------------------------------------------
LEMMA Labels ==
  ASSUME Control, NEW p \in Closer, NEW l \in MainLabel \cup ThreadLabel, Goto(p, l)
  PROVE  /\ pc' \in [Closer -> MainLabel \cup ThreadLabel]
         /\ pc'[p] = l
         /\ \A q \in Closer \ {p} : pc'[q] = pc[q]
BY DEF Control, Goto

LEMMA Sides ==
  /\ Side \subseteq Closer /\ "main" \in Closer /\ "main" \notin Side
  /\ \A d \in Side : Other(d) \in Side
BY DEF Side, Closer, Other

LEMMA IInvInit == Init => IInv
<1> SUFFICES ASSUME Init PROVE IInv
  OBVIOUS
<1>1. /\ pc = [p \in Closer |-> IF p = "main" THEN "probe" ELSE "done"]
      /\ "main" \in Closer /\ "client" \in Closer /\ "server" \in Closer
  BY DEF Init, Closer
<1>2. /\ pc["main"] = "probe" /\ \A d \in Side : pc[d] = "done"
      /\ \A p \in Closer : pc[p] \in {"probe", "done"}
  BY <1>1 DEF Side
<1>3. /\ fds["client"] = NoFd /\ fds["server"] = NoFd
      /\ fds \in [Side -> Number \cup {NoFd}]
      /\ session = 0 /\ count = 0 /\ dead = FALSE /\ new = NoFd
  BY DEF Init, Side
<1>4. Control
  <2>1. pc \in [Closer -> MainLabel \cup ThreadLabel]
    BY <1>1 DEF MainLabel, ThreadLabel
  <2> QED  BY <1>2, <1>3, <2>1 DEF Control, MainLabel, ThreadLabel
<1>5. Closing
  BY <1>2, <1>3 DEF Closing
<1>6. Descriptors
  BY <1>2, <1>3 DEF Init, Descriptors
<1>7. Buffers
  <2>1. Idle \in [fd : Number \cup {NoFd}, socket : Socket \cup {NoSocket},
                  buf : Seq(Packet), dst : Number \cup {NoFd}, failed : BOOLEAN]
    BY DEF Idle
  <2> QED  BY <1>2, <2>1 DEF Init, Buffers
<1>8. Queue
  BY <1>2 DEF Init, Queue
<1> QED  BY <1>4, <1>5, <1>6, <1>7, <1>8 DEF IInv

\* A session, the next client and its server: there is a free number.
LEMMA LowestIsFree ==
  ASSUME Descriptors, pc["main"] # "create",
         pc["main"] = "connect" \/ new = NoFd
  PROVE  Lowest \in Number /\ table[Lowest] = Free
<1> DEFINE P(f) == f \in Number /\ table[f] = Free /\ \A g \in 1 .. f - 1 : table[g] # Free
<1>1. \E f \in Number : table[f] = Free
  <2>1. \A f \in Number : table[f] # Free => f \in {fds["client"], fds["server"], new}
    BY DEF Descriptors
  <2>2. {1, 2, 3, 4} \subseteq Number
    BY DEF Number
  <2>3. ~ ({1, 2, 3, 4} \subseteq {fds["client"], fds["server"], new})
    OBVIOUS
  <2> QED  BY <2>1, <2>2, <2>3
<1>2. \E f \in Number : P(f)
  <2>1. CASE table[1] = Free
    BY <2>1 DEF Number
  <2>2. CASE table[1] # Free /\ table[2] = Free
    <3>1. \A g \in 1 .. 2 - 1 : g = 1
      OBVIOUS
    <3> QED  BY <2>2, <3>1 DEF Number
  <2>3. CASE table[1] # Free /\ table[2] # Free /\ table[3] = Free
    <3>1. \A g \in 1 .. 3 - 1 : g = 1 \/ g = 2
      OBVIOUS
    <3> QED  BY <2>3, <3>1 DEF Number
  <2>4. CASE table[1] # Free /\ table[2] # Free /\ table[3] # Free /\ table[4] = Free
    <3>1. \A g \in 1 .. 4 - 1 : g = 1 \/ g = 2 \/ g = 3
      OBVIOUS
    <3> QED  BY <2>4, <3>1 DEF Number
  <2>5. \A f \in Number : f = 1 \/ f = 2 \/ f = 3 \/ f = 4
    BY DEF Number
  <2> QED  BY <1>1, <2>1, <2>2, <2>3, <2>4, <2>5
<1> QED  BY <1>2 DEF Lowest
----------------------------------------------------------------------------
(* Where main() and the threads are, step by step. *)

LEMMA ThreadGoes ==
  ASSUME NEW d \in Side, Thread(d)
  PROVE  /\ pc[d] # "done" /\ UNCHANGED <<count, session>>
         /\ \E l \in ThreadLabel : Goto(d, l)
<1> USE DEF sess
<1>1. CASE Check(d)
  BY <1>1 DEF Check, ThreadLabel
<1>2. CASE Enter(d)
  BY <1>2 DEF Enter, ThreadLabel
<1>3. CASE \E n \in 1 .. MaxSent : Read(d, n)
  BY <1>3 DEF Read, ThreadLabel
<1>4. CASE ReadEnd(d)
  BY <1>4 DEF ReadEnd, ThreadLabel
<1>5. CASE Copy(d)
  BY <1>5 DEF Copy, ThreadLabel
<1>6. CASE Write(d)
  BY <1>6 DEF Write, ThreadLabel
<1>7. CASE Enqueue(d)
  <2>1. /\ pc[d] = "enqueue" /\ UNCHANGED <<count, session>>
        /\ Goto(d, CASE Tail(local[d].buf) # <<>> -> "write"
               [] Tail(local[d].buf) = <<>> /\ local[d].failed   -> "closing"
               [] Tail(local[d].buf) = <<>> /\ ~local[d].failed  -> "check")
    BY <1>7 DEF Enqueue
  <2>2. (CASE Tail(local[d].buf) # <<>> -> "write"
          [] Tail(local[d].buf) = <<>> /\ local[d].failed   -> "closing"
          [] Tail(local[d].buf) = <<>> /\ ~local[d].failed  -> "check")
        \in ThreadLabel
    BY DEF ThreadLabel
  <2> QED  BY <2>1, <2>2
<1>8. CASE IsClosed(d)
  BY <1>8, Sides DEF IsClosed, AfterClosing, ThreadLabel
<1>9. CASE CloseClient(d)
  BY <1>9 DEF CloseClient, ThreadLabel
<1>10. CASE CloseServer(d)
  BY <1>10, Sides DEF CloseServer, AfterClosing, ThreadLabel
<1> QED  BY <1>1, <1>2, <1>3, <1>4, <1>5, <1>6, <1>7, <1>8, <1>9, <1>10
         DEF Thread

LEMMA ControlStep ==
  ASSUME Control, [Next]_vars
  PROVE  Control'
<1> USE DEF sess
<1>1. ASSUME NEW p \in Closer, NEW l \in MainLabel \cup ThreadLabel, Goto(p, l),
             p = "main" => l \in MainLabel \ {"connect", "create"},
             p # "main" => l \in ThreadLabel /\ session # 0,
             UNCHANGED <<count, session>>,
             p = "main" /\ l \in {"probe", "listen", "exited", "sentinel",
                                  "joinTracer", "down"} => session = 0,
             p = "main" /\ l \in {"closing", "closing2", "join"} => session # 0
      PROVE  Control'
  BY <1>1, Labels, Sides DEF Control, Closer, Side
<1>2. "main" \in Closer /\ Side \subseteq Closer
  BY Sides
<1>3. ASSUME NEW d \in Side, pc[d] # "done"
      PROVE  session # 0
  BY <1>3 DEF Control
<1> DEFINE L == MainLabel \cup ThreadLabel
<1>4. ASSUME NEW d \in Side, Thread(d)
      PROVE  Control'
  <2>1. /\ pc[d] # "done" /\ UNCHANGED <<count, session>>
        /\ \E l \in ThreadLabel : Goto(d, l)
    BY <1>4, ThreadGoes
  <2> QED  BY <1>1, <1>2, <1>3, <2>1, Sides
<1>5. CASE UNCHANGED <<pc, count, session>>
  BY <1>5 DEF Control
<1>6. CASE UNCHANGED vars \/ Tracer \/ Signal \/ \E s \in Socket : PeerSends(s) \/ PeerCloses(s)
  BY <1>5, <1>6 DEF vars, Tracer, Signal, PeerSends, PeerCloses
<1>7. CASE ProbeFails \/ ProbeSucceeds \/ \E fails \in BOOLEAN : Listen(fails)
  <2>1. /\ pc["main"] \in {"probe", "listen"} /\ UNCHANGED <<count, session>>
        /\ Goto("main", "exited") \/ Goto("main", "listen") \/ Goto("main", "loop")
    BY <1>7 DEF ProbeFails, ProbeSucceeds, Listen
  <2>2. session = 0
    BY <2>1 DEF Control
  <2> QED  BY <1>1, <1>2, <2>1, <2>2 DEF MainLabel
<1>8. CASE AcceptBegins
  BY <1>1, <1>2, <1>8 DEF AcceptBegins, MainLabel
<1>9. CASE Accepts
  <2>1. /\ count' = count + 1 /\ session' = session /\ count < MaxClients
        /\ Goto("main", IF session # 0 THEN "closing" ELSE "connect")
    BY <1>9 DEF Accepts
  <2>2. Goto("main", "closing") \/ Goto("main", "connect")
    BY <2>1
  <2> QED  BY <1>2, <2>1, <2>2, Labels, Sides DEF Control, MainLabel, Closer, Side
<1>10. CASE AcceptFails \/ EnqueueSentinel \/ JoinTracer \/ ConnectFails
  <2>1. /\ UNCHANGED <<count, session>>
        /\ \/ session # 0 /\ Goto("main", "closing")
           \/ Goto("main", "loop")
           \/ session = 0 /\ (Goto("main", "sentinel") \/ Goto("main", "joinTracer")
                                \/ Goto("main", "down"))
    BY <1>10 DEF AcceptFails, AfterLoop, EnqueueSentinel, JoinTracer, ConnectFails, Control
  <2> QED  BY <1>1, <1>2, <2>1 DEF MainLabel
<1>11. CASE Connects
  BY <1>2, <1>11, Labels, Sides DEF Connects, Control, MainLabel, Closer, Side
<1>12. CASE Create
  <2>1. /\ pc' = [p \in Closer |-> IF p = "main" THEN "loop" ELSE "check"]
        /\ session' = count /\ count' = count /\ pc["main"] = "create"
    BY <1>12 DEF Create
  <2>2. /\ pc' \in [Closer -> MainLabel \cup ThreadLabel]
        /\ pc'["main"] = "loop" /\ \A d \in Side : pc'[d] = "check"
    BY <1>2, <2>1, Sides DEF MainLabel, ThreadLabel
  <2> QED  BY <2>1, <2>2 DEF Control, MainLabel, ThreadLabel
<1>13. CASE IsClosed("main") \/ CloseClient("main") \/ CloseServer("main")
  <2>1. /\ UNCHANGED <<count, session>>
        /\ Goto("main", "join") \/ Goto("main", "closing2")
        /\ session # 0
    BY <1>13 DEF IsClosed, CloseClient, CloseServer, AfterClosing, Control
  <2> QED  BY <1>1, <1>2, <2>1 DEF MainLabel
<1>14. CASE Join
  <2>1. /\ pc["main"] = "join" /\ session' = 0 /\ count' = count
        /\ \A d \in Side : pc[d] = "done"
        /\ Goto("main", IF new # NoFd THEN "connect" ELSE "sentinel")
    BY <1>14 DEF Join, Joined
  <2>2. Goto("main", "connect") \/ Goto("main", "sentinel")
    BY <2>1
  <2>3. count > 0
    BY <2>1 DEF Control
  <2> QED  BY <1>2, <2>1, <2>2, <2>3, Labels, Sides DEF Control, MainLabel, Closer, Side
<1> QED  BY <1>4, <1>6, <1>7, <1>8, <1>9, <1>10, <1>11, <1>12, <1>13, <1>14
         DEF Next, Main
LEMMA ClosingStep ==
  ASSUME Control, Closing, Descriptors, [Next]_vars
  PROVE  Closing'
<1> USE DEF sess
<1>1. ASSUME NEW p \in Closer, NEW l \in MainLabel \cup ThreadLabel, Goto(p, l),
             l # "join", l # "closing2", pc[p] # "closing2",
             UNCHANGED <<dead, fds, session>>
      PROVE  Closing'
  <2>1. \A q \in Closer : pc'[q] = "closing2" <=> pc[q] = "closing2"
    BY <1>1, Labels
  <2>2. pc'["main"] = "join" => pc["main"] = "join"
    BY <1>1, Labels, Sides
  <2> QED  BY <1>1, <2>1, <2>2 DEF Closing
<1>2. "main" \in Closer /\ Side \subseteq Closer
  BY Sides
<1>3. ASSUME NEW p \in Closer, IsClosed(p)
      PROVE  Closing'
  <2>1. /\ pc[p] = "closing" /\ dead /\ UNCHANGED <<dead, fds, session>>
        /\ Goto(p, "join") \/ Goto(p, "done")
    BY <1>3 DEF IsClosed, AfterClosing
  <2>2. \A q \in Closer : pc'[q] = "closing2" <=> pc[q] = "closing2"
    BY <2>1, Labels DEF MainLabel, ThreadLabel
  <2> QED  BY <2>1, <2>2 DEF Closing
<1>4. ASSUME NEW p \in Closer, CloseClient(p)
      PROVE  Closing'
  <2>1. /\ pc[p] = "closing" /\ dead' = TRUE /\ session' = session
        /\ fds' = [fds EXCEPT !["client"] = NoFd]
        /\ Goto(p, "closing2")
    BY <1>4 DEF CloseClient, Closed
  <2>2. pc'[p] = "closing2"
    BY <2>1, Labels DEF MainLabel, ThreadLabel
  <2>3. fds'["client"] = NoFd /\ fds'["server"] = fds["server"]
    BY <2>1 DEF Descriptors, Side
  <2> QED  BY <2>1, <2>2, <2>3, Sides DEF Closing
<1>5. ASSUME NEW p \in Closer, CloseServer(p)
      PROVE  Closing'
  <2>1. /\ pc[p] = "closing2" /\ dead' = dead /\ session' = session
        /\ fds' = [fds EXCEPT !["server"] = NoFd]
    BY <1>5 DEF CloseServer, Closed
  <2>2. fds'["server"] = NoFd /\ fds'["client"] = fds["client"]
    BY <2>1 DEF Descriptors, Side
  <2>3. dead /\ fds["client"] = NoFd
    BY <2>1 DEF Closing
  <2> QED  BY <2>1, <2>2, <2>3 DEF Closing
<1>6. ASSUME NEW d \in Side, Thread(d)
      PROVE  Closing'
  <2>1. CASE IsClosed(d) \/ CloseClient(d) \/ CloseServer(d)
    BY <1>2, <1>3, <1>4, <1>5, <2>1
  <2>2. CASE ~(IsClosed(d) \/ CloseClient(d) \/ CloseServer(d))
    <3>1. /\ pc[d] # "closing2" /\ UNCHANGED <<dead, fds, session>>
          /\ \E l \in {"done", "enter", "read", "closing", "copy", "check", "write",
                       "enqueue"} : Goto(d, l)
      BY <1>6, <2>2
         DEF Thread, Check, Enter, Read, ReadEnd, Copy, Write, Enqueue
    <3> QED  BY <1>1, <1>2, <3>1 DEF ThreadLabel
  <2> QED  BY <2>1, <2>2
<1>7. CASE UNCHANGED <<pc, dead, fds, session>>
  BY <1>7 DEF Closing
<1>8. CASE UNCHANGED vars \/ Tracer \/ Signal \/ \E s \in Socket : PeerSends(s) \/ PeerCloses(s)
  BY <1>7, <1>8 DEF vars, Tracer, Signal, PeerSends, PeerCloses
<1>9. CASE \/ ProbeFails \/ ProbeSucceeds \/ \E fails \in BOOLEAN : Listen(fails)
           \/ AcceptBegins \/ Accepts \/ AcceptFails \/ Connects \/ ConnectFails
           \/ EnqueueSentinel \/ JoinTracer
  <2>1. /\ pc["main"] # "closing2" /\ UNCHANGED <<dead, fds, session>>
        /\ \E l \in MainLabel \ {"join", "closing2"} : Goto("main", l)
    BY <1>9 DEF ProbeFails, ProbeSucceeds, Listen, AcceptBegins, Accepts, AcceptFails,
                Connects, ConnectFails, EnqueueSentinel, JoinTracer, AfterLoop, MainLabel
  <2> QED  BY <1>1, <1>2, <2>1
<1>10. CASE Create
  <2>1. /\ dead' = FALSE /\ session' = count /\ count > 0
        /\ pc' = [p \in Closer |-> IF p = "main" THEN "loop" ELSE "check"]
    BY <1>10 DEF Create, Control
  <2>2. pc'["main"] # "join" /\ \A p \in Closer : pc'[p] # "closing2"
    BY <1>2, <2>1
  <2>3. session' # 0
    BY <2>1 DEF Control
  <2>4. ~dead' /\ dead' \in BOOLEAN
    BY <2>1
  <2> QED  BY <2>2, <2>3, <2>4 DEF Closing
<1>11. CASE Join
  <2>1. /\ pc["main"] = "join" /\ \A d \in Side : pc[d] = "done"
        /\ UNCHANGED <<dead, fds>>
        /\ Goto("main", "connect") \/ Goto("main", "sentinel")
    BY <1>11 DEF Join, Joined
  <2>2. \A p \in Closer : pc[p] # "closing2"
    BY <2>1 DEF Closer, Side
  <2>3. fds["client"] = NoFd /\ fds["server"] = NoFd
    BY <2>1, <2>2 DEF Closing
  <2>4. pc'["main"] # "join" /\ \A p \in Closer : pc'[p] # "closing2"
    BY <1>2, <2>1, <2>2, Labels DEF MainLabel
  <2> QED  BY <2>1, <2>3, <2>4 DEF Closing
<1> QED  BY <1>2, <1>3, <1>4, <1>5, <1>6, <1>8, <1>9, <1>10, <1>11 DEF Next, Main

----------------------------------------------------------------------------
(* The descriptors, step by step. *)

LEMMA DescriptorsStep ==
  ASSUME Control, Closing, Descriptors, [Next]_vars
  PROVE  Descriptors'
<1> USE DEF sess, threads
<1>1. ASSUME UNCHANGED <<fds, new, table, numbers>>,
             \/ pc'["main"] = pc["main"]
             \/ /\ pc["main"] # "create"
                /\ pc'["main"] \notin {"accept", "create"}
                /\ pc'["main"] = "connect" => new # NoFd
                /\ pc'["main"] \in {"probe", "listen", "loop"} => new = NoFd
      PROVE  Descriptors'
  BY <1>1 DEF Descriptors
<1>2. "main" \in Closer /\ Side \subseteq Closer /\ "main" \notin Side
  BY Sides
<1>3. ASSUME NEW l \in MainLabel, Goto("main", l)
      PROVE  pc'["main"] = l
  BY <1>2, <1>3, Labels
<1>4. ASSUME NEW p \in Closer, NEW d \in Side, pc[p] \in {"closing", "closing2"},
             Closed(d), Goto(p, "closing2") \/ Goto(p, AfterClosing(p)),
             UNCHANGED <<new, numbers>>
      PROVE  Descriptors'
  <2>1. pc["main"] \notin {"probe", "listen", "connect", "create"}
    BY <1>4 DEF Control, Closer, Side
  <2>2. \/ p # "main" /\ pc'["main"] = pc["main"]
        \/ p = "main" /\ pc'["main"] \in {"closing2", "join"}
    BY <1>2, <1>4, Labels DEF AfterClosing, MainLabel, ThreadLabel
  <2>3. /\ table' = [table EXCEPT ![fds[d]] = Free] /\ new' = new
        /\ fds' = [fds EXCEPT ![d] = NoFd]
    BY <1>4 DEF Closed
  <2>4. /\ fds' \in [Side -> Number \cup {NoFd}]
        /\ table' \in [Number -> Socket \cup {Free, Reserved}]
        /\ fds'[d] = NoFd /\ \A e \in Side : e # d => fds'[e] = fds[e]
        /\ \A f \in Number : table'[f] = IF f = fds[d] THEN Free ELSE table[f]
    BY <2>3 DEF Descriptors
  <2>5. /\ Side = {"client", "server"} /\ NoFd \notin Number
        /\ fds["client"] \in Number \cup {NoFd} /\ fds["server"] \in Number \cup {NoFd}
    BY DEF Side, Number, NoFd, Descriptors
  <2> QED  BY <2>1, <2>2, <2>3, <2>4, <2>5 DEF Descriptors
<1>5. ASSUME NEW d \in Side, Thread(d)
      PROVE  Descriptors'
  <2>1. CASE CloseClient(d) \/ CloseServer(d)
    BY <1>2, <1>4, <2>1 DEF CloseClient, CloseServer, Side
  <2>2. CASE ~(CloseClient(d) \/ CloseServer(d))
    <3>1. /\ UNCHANGED <<fds, new, table, numbers>>
          /\ \E l \in {"done", "enter", "read", "closing", "copy", "check", "write",
                       "enqueue"} : Goto(d, l)
      BY <1>2, <1>5, <2>2
         DEF Thread, Check, Enter, Read, ReadEnd, Copy, Write, Enqueue, IsClosed,
             AfterClosing
    <3>2. pc'["main"] = pc["main"]
      BY <1>2, <3>1, Labels DEF ThreadLabel
    <3> QED  BY <1>1, <3>1, <3>2
  <2> QED  BY <2>1, <2>2
<1>6. CASE UNCHANGED vars \/ Tracer \/ Signal \/ \E s \in Socket : PeerSends(s) \/ PeerCloses(s)
  BY <1>1, <1>6 DEF vars, Tracer, Signal, PeerSends, PeerCloses
<1>7. CASE \/ ProbeFails \/ ProbeSucceeds \/ \E fails \in BOOLEAN : Listen(fails)
           \/ EnqueueSentinel \/ JoinTracer \/ IsClosed("main")
  <2>1. /\ pc["main"] # "create" /\ UNCHANGED <<fds, new, table, numbers>>
        /\ \E l \in MainLabel \ {"accept", "create", "connect"} :
             /\ Goto("main", l)
             /\ l \in {"probe", "listen", "loop"} => pc["main"] \in {"probe", "listen"}
    BY <1>7 DEF ProbeFails, ProbeSucceeds, Listen, EnqueueSentinel, JoinTracer, IsClosed,
                AfterClosing, MainLabel
  <2> QED  BY <1>1, <1>3, <2>1 DEF Descriptors
<1>8. CASE CloseClient("main") \/ CloseServer("main")
  BY <1>2, <1>4, <1>8 DEF CloseClient, CloseServer, Side
<1>9. CASE Join
  <2>1. /\ pc["main"] = "join" /\ UNCHANGED <<fds, new, table, numbers>>
        /\ Goto("main", IF new # NoFd THEN "connect" ELSE "sentinel")
    BY <1>9 DEF Join
  <2>2. pc'["main"] = IF new # NoFd THEN "connect" ELSE "sentinel"
    BY <1>3, <2>1 DEF MainLabel
  <2> QED  BY <1>1, <2>1, <2>2
<1>10. Side = {"client", "server"} /\ NoFd \notin Number
  BY DEF Side, Number, NoFd
<1>11. CASE AcceptBegins
  <2>1. pc["main"] = "loop" /\ new = NoFd
    BY <1>11 DEF AcceptBegins, Descriptors
  <2>2. Lowest \in Number /\ table[Lowest] = Free
    BY <2>1, LowestIsFree
  <2>3. /\ new' = Lowest /\ table' = [table EXCEPT ![Lowest] = Reserved]
        /\ fds' = fds /\ pc'["main"] = "accept"
    BY <1>3, <1>11 DEF AcceptBegins, MainLabel
  <2>4. /\ table' \in [Number -> Socket \cup {Free, Reserved}]
        /\ table'[new'] # Free
        /\ \A f \in Number : f # new' => table'[f] = table[f]
    BY <2>2, <2>3, DescriptorAssumption DEF Descriptors
  <2> QED  BY <1>10, <2>1, <2>2, <2>3, <2>4 DEF Descriptors
<1>12. ASSUME NEW k, k \in Socket \/ k = Free, pc["main"] \notin {"create"},
              new # NoFd, table' = [table EXCEPT ![new] = k], UNCHANGED fds,
              \/ k # Free /\ new' = new
                 /\ pc'["main"] \notin {"probe", "listen", "loop", "create"}
              \/ k = Free /\ new' = NoFd /\ pc'["main"] \notin {"accept", "connect", "create"}
       PROVE  Descriptors'
  <2>1. /\ table' \in [Number -> Socket \cup {Free, Reserved}]
        /\ table'[new] = k /\ new \in Number
        /\ \A f \in Number : f # new => table'[f] = table[f]
    BY <1>12 DEF Descriptors
  <2> QED  BY <1>10, <1>12, <2>1 DEF Descriptors
<1>13. CASE Accepts
  <2>1. /\ pc["main"] = "accept" /\ fds' = fds /\ new' = new
        /\ table' = [table EXCEPT ![new] = <<"client", count + 1>>]
        /\ Goto("main", "closing") \/ Goto("main", "connect")
    BY <1>13 DEF Accepts
  <2>2. <<"client", count + 1>> \in Socket
    BY <1>10, <1>13 DEF Accepts, Socket, Control
  <2>3. pc'["main"] \in {"closing", "connect"} /\ new # NoFd
    BY <1>3, <2>1 DEF MainLabel, Descriptors
  <2> QED  BY <1>12, <2>1, <2>2, <2>3, DescriptorAssumption
<1>14. CASE AcceptFails \/ ConnectFails
  <2>1. /\ pc["main"] \in {"loop", "accept", "connect"} /\ fds' = fds
        /\ UNCHANGED numbers
        /\ new' = NoFd
        /\ table' = IF new = NoFd THEN table ELSE [table EXCEPT ![new] = Free]
        /\ Goto("main", "closing") \/ Goto("main", "sentinel") \/ Goto("main", "loop")
    BY <1>14 DEF AcceptFails, ConnectFails, AfterLoop, Descriptors
  <2>2. pc'["main"] \in {"closing", "sentinel", "loop"}
    BY <1>3, <2>1 DEF MainLabel
  <2>3. CASE new = NoFd
    BY <1>1, <2>1, <2>2, <2>3
  <2>4. CASE new # NoFd
    BY <1>12, <2>1, <2>2, <2>4
  <2> QED  BY <2>3, <2>4
<1>15. CASE Connects
  <2>1. pc["main"] = "connect" /\ new \in Number /\ table[new] # Free
    BY <1>15 DEF Connects, Descriptors
  <2>2. Lowest \in Number /\ table[Lowest] = Free
    BY <2>1, LowestIsFree
  <2>3. /\ new' = new /\ table' = [table EXCEPT ![Lowest] = <<"server", count>>]
        /\ numbers' = {new, Lowest} /\ fds' = fds /\ pc'["main"] = "create"
    BY <1>3, <1>15 DEF Connects, MainLabel
  <2>4. <<"server", count>> \in Socket
    BY <1>10, <2>1 DEF Socket, Control
  <2>5. /\ table' \in [Number -> Socket \cup {Free, Reserved}]
        /\ table'[Lowest] # Free
        /\ \A f \in Number : f # Lowest => table'[f] = table[f]
    BY <2>2, <2>3, <2>4, DescriptorAssumption DEF Descriptors
  <2>6. Lowest \in Number \ {new} /\ fds["client"] = NoFd /\ fds["server"] = NoFd
    BY <2>1, <2>2 DEF Control, Closing
  <2> QED  BY <1>10, <2>1, <2>2, <2>3, <2>5, <2>6 DEF Descriptors
<1>16. CASE Create
  <2>1. /\ pc["main"] = "create" /\ pc'["main"] = "loop" /\ table' = table /\ new' = NoFd
        /\ fds' = [client |-> new, server |-> CHOOSE f \in numbers : f # new]
    BY <1>2, <1>16 DEF Create
  <2>2. fds["client"] = NoFd /\ fds["server"] = NoFd
    BY <2>1 DEF Control, Closing
  <2>3. PICK g \in Number \ {new} : numbers = {new, g} /\ table[g] # Free
    BY <2>1 DEF Descriptors
  <2>4. (CHOOSE f \in numbers : f # new) = g
    BY <2>3
  <2>5. /\ fds' \in [Side -> Number \cup {NoFd}]
        /\ fds'["client"] = new /\ fds'["server"] = g /\ new \in Number
    BY <1>10, <2>1, <2>3, <2>4 DEF Descriptors
  <2> QED  BY <1>10, <2>1, <2>2, <2>3, <2>5 DEF Descriptors
<1> QED  BY <1>5, <1>6, <1>7, <1>8, <1>9, <1>11, <1>13, <1>14, <1>15, <1>16
         DEF Next, Main

----------------------------------------------------------------------------
(* What the threads have read, step by step. *)

Record == [fd : Number \cup {NoFd}, socket : Socket \cup {NoSocket},
           buf : Seq(Packet), dst : Number \cup {NoFd}, failed : BOOLEAN]

LEMMA IdleIsRecord == Idle \in Record /\ Idle.socket = NoSocket /\ Idle.buf = <<>>
BY DEF Idle, Record

\* A batch holds the packets after those that were read.
LEMMA BatchIsPackets ==
  ASSUME NEW s \in Socket, NEW n \in 1 .. MaxSent, taken \in [Socket -> 0 .. MaxSent],
         taken[s] + n <= MaxSent
  PROVE  Batch(s, n) \in Seq(Packet) /\ Batch(s, n) # <<>>
<1>1. \A i \in 1 .. n : [from |-> s, n |-> taken[s] + i] \in Packet
  BY DEF Packet
<1>2. Batch(s, n) \in [1 .. n -> Packet]
  BY <1>1 DEF Batch
<1>3. n \in Nat /\ n > 0
  OBVIOUS
<1>4. Batch(s, n) \in Seq(Packet)
  BY <1>2, <1>3
<1>5. Len(Batch(s, n)) = n
  BY <1>3 DEF Batch
<1>6. Batch(s, n) # <<>>
  BY <1>3, <1>4, <1>5
<1> QED  BY <1>4, <1>6

LEMMA BuffersStep ==
  ASSUME Control, Descriptors, Buffers, [Next]_vars
  PROVE  Buffers'
<1> USE DEF sess, threads, peers
<1>1. "main" \in Closer /\ Side \subseteq Closer /\ "main" \notin Side
  BY Sides
<1>2. ASSUME NEW p \in Closer, NEW l \in MainLabel \cup ThreadLabel, Goto(p, l),
             l \notin {"read", "copy", "write", "enqueue"},
             UNCHANGED <<local, sent, taken>>
      PROVE  Buffers'
  BY <1>1, <1>2, Labels DEF Buffers
<1>3. ASSUME NEW d \in Side, NEW l \in ThreadLabel, Goto(d, l),
             NEW r \in Record, local' = [local EXCEPT ![d] = r],
             l = "read" => r.socket \in Socket,
             l \in {"copy", "write", "enqueue"} => r.buf # <<>>,
             sent' = sent, taken' \in [Socket -> 0 .. MaxSent]
      PROVE  Buffers'
  <2>1. /\ local \in [Side -> Record] /\ sent \in [Socket -> 0 .. MaxSent]
        /\ \A e \in Side : /\ pc[e] = "read" => local[e].socket \in Socket
                           /\ pc[e] \in {"copy", "write", "enqueue"} => local[e].buf # <<>>
    BY DEF Buffers, Record
  <2>2. pc'[d] = l /\ \A e \in Side : e # d => pc'[e] = pc[e]
    BY <1>1, <1>3, Labels
  <2>3. /\ local' \in [Side -> Record]
        /\ local'[d] = r /\ \A e \in Side : e # d => local'[e] = local[e]
    BY <1>3, <2>1
  <2> QED  BY <1>3, <2>1, <2>2, <2>3 DEF Buffers, Record
<1>4. ASSUME NEW d \in Side, Thread(d)
      PROVE  Buffers'
  <2>0. /\ local \in [Side -> Record] /\ local[d] \in Record
        /\ sent \in [Socket -> 0 .. MaxSent] /\ taken \in [Socket -> 0 .. MaxSent]
        /\ pc[d] = "read" => local[d].socket \in Socket
        /\ pc[d] \in {"copy", "write", "enqueue"} => local[d].buf # <<>>
    BY DEF Buffers, Record
  <2>1. CASE Check(d)
    <3> DEFINE r == [local[d] EXCEPT !.fd = IF dead THEN NoFd ELSE fds[d]]
    <3>1. r \in Record
      BY <2>0 DEF Record, Descriptors
    <3>2. local' = [local EXCEPT ![d] = r]
      BY <2>0, <2>1 DEF Check
    <3>3. /\ UNCHANGED <<sent, taken>>
          /\ \E l \in {"done", "enter"} : Goto(d, l)
      BY <2>1 DEF Check
    <3> HIDE DEF r
    <3> QED  BY <1>3, <2>0, <3>1, <3>2, <3>3 DEF ThreadLabel
  <2>2. CASE Enter(d)
    <3>1. CASE local[d].fd # NoFd /\ table[local[d].fd] \notin {Free, Reserved}
      <4> DEFINE r == [Idle EXCEPT !.socket = table[local[d].fd]]
      <4>1. table[local[d].fd] \in Socket
        BY <2>0, <3>1 DEF Record, Descriptors
      <4>2. r \in Record /\ r.socket \in Socket
        <5>1. ASSUME NEW s \in Socket
              PROVE  /\ [Idle EXCEPT !.socket = s] \in Record
                     /\ [Idle EXCEPT !.socket = s].socket = s
          BY IdleIsRecord DEF Record
        <5> QED  BY <4>1, <5>1
      <4>3. /\ local' = [local EXCEPT ![d] = r] /\ Goto(d, "read")
            /\ UNCHANGED <<sent, taken>>
        BY <2>2, <3>1 DEF Enter
      <4> HIDE DEF r
      <4> QED  BY <1>3, <2>0, <4>2, <4>3 DEF ThreadLabel
    <3>2. CASE ~(local[d].fd # NoFd /\ table[local[d].fd] \notin {Free, Reserved})
      <4>1. /\ local' = [local EXCEPT ![d] = Idle] /\ Goto(d, "closing")
            /\ UNCHANGED <<sent, taken>>
        BY <2>2, <3>2 DEF Enter
      <4> QED  BY <1>3, <2>0, <4>1, IdleIsRecord DEF ThreadLabel
    <3> QED  BY <3>1, <3>2
  <2>3. ASSUME NEW n \in 1 .. MaxSent, Read(d, n)
        PROVE  Buffers'
    <3> DEFINE s == local[d].socket
               r == [Idle EXCEPT !.buf = Batch(s, n)]
    <3>1. /\ s \in Socket /\ taken[s] + n <= sent[s]
          /\ taken' = [taken EXCEPT ![s] = @ + n]
          /\ local' = [local EXCEPT ![d] = r] /\ Goto(d, "copy") /\ sent' = sent
      BY <2>0, <2>3 DEF Read
    <3>2. taken[s] + n \in 0 .. MaxSent
      BY <2>0, <3>1
    <3>3. Batch(s, n) \in Seq(Packet) /\ Batch(s, n) # <<>>
      BY <2>0, <3>1, <3>2, BatchIsPackets
    <3>4. r \in Record /\ r.buf # <<>>
      BY <3>3 DEF Idle, Record
    <3>5. taken' \in [Socket -> 0 .. MaxSent]
      BY <2>0, <3>1, <3>2
    <3> HIDE DEF r, s
    <3> QED  BY <1>3, <3>1, <3>4, <3>5 DEF ThreadLabel
  <2>4. CASE ReadEnd(d)
    <3>1. /\ local' = [local EXCEPT ![d] = Idle] /\ Goto(d, "closing")
          /\ UNCHANGED <<sent, taken>>
      BY <2>4 DEF ReadEnd
    <3> QED  BY <1>3, <2>0, <3>1, IdleIsRecord DEF ThreadLabel
  <2>5. CASE Copy(d)
    <3>1. CASE fds[Other(d)] # NoFd
      <4> DEFINE r == [local[d] EXCEPT !.dst = fds[Other(d)]]
      <4>1. r \in Record /\ r.buf = local[d].buf
        BY <2>0, Sides DEF Record, Descriptors
      <4>2. /\ local' = [local EXCEPT ![d] = r] /\ Goto(d, "write") /\ pc[d] = "copy"
            /\ UNCHANGED <<sent, taken>>
        BY <2>0, <2>5, <3>1 DEF Copy
      <4> HIDE DEF r
      <4> QED  BY <1>3, <2>0, <4>1, <4>2 DEF ThreadLabel
    <3>2. CASE fds[Other(d)] = NoFd
      <4>1. /\ local' = [local EXCEPT ![d] = Idle] /\ Goto(d, "check")
            /\ UNCHANGED <<sent, taken>>
        BY <2>5, <3>2 DEF Copy
      <4> QED  BY <1>3, <2>0, <4>1, IdleIsRecord DEF ThreadLabel
    <3> QED  BY <3>1, <3>2
  <2>6. CASE Write(d)
    <3> DEFINE r(failed) == [local[d] EXCEPT !.failed = failed]
    <3>1. \A failed \in BOOLEAN : r(failed) \in Record /\ r(failed).buf = local[d].buf
      BY <2>0 DEF Record
    <3>2. local[d].failed \in BOOLEAN /\ r(local[d].failed) = local[d]
      BY <2>0 DEF Record
    <3>3. local' = local \/ local' = [local EXCEPT ![d] = r(TRUE)]
      BY <2>0, <2>6 DEF Write
    <3>4. local = [local EXCEPT ![d] = local[d]]
      BY <2>0
    <3>5. \E failed \in BOOLEAN : local' = [local EXCEPT ![d] = r(failed)]
      BY <3>2, <3>3, <3>4
    <3>6. Goto(d, "enqueue") /\ pc[d] = "write" /\ UNCHANGED <<sent, taken>>
      BY <2>6 DEF Write
    <3> HIDE DEF r
    <3> QED  BY <1>3, <2>0, <3>1, <3>5, <3>6 DEF ThreadLabel
  <2>7. CASE Enqueue(d)
    <3> DEFINE rest == Tail(local[d].buf)
               r == IF rest = <<>> THEN Idle ELSE [local[d] EXCEPT !.buf = rest]
    <3>1. rest \in Seq(Packet)
      BY <2>0, <2>7 DEF Enqueue, Record
    <3>2. r \in Record /\ (rest # <<>> => r.buf = rest)
      BY <2>0, <3>1, IdleIsRecord DEF Record
    <3>3. local' = [local EXCEPT ![d] = r] /\ UNCHANGED <<sent, taken>>
      BY <2>0, <2>7 DEF Enqueue
    <3>4. \/ rest # <<>> /\ Goto(d, "write")
          \/ Goto(d, "closing") \/ Goto(d, "check")
      <4>1. Goto(d, CASE rest # <<>> -> "write"
                      [] rest = <<>> /\ local[d].failed   -> "closing"
                      [] rest = <<>> /\ ~local[d].failed  -> "check")
        BY <2>7 DEF Enqueue
      <4> HIDE DEF rest
      <4> QED  BY <4>1
    <3> HIDE DEF r, rest
    <3> QED  BY <1>3, <2>0, <3>2, <3>3, <3>4 DEF ThreadLabel
  <2>8. CASE IsClosed(d) \/ CloseClient(d) \/ CloseServer(d)
    <3>1. /\ UNCHANGED <<local, sent, taken>>
          /\ Goto(d, "done") \/ Goto(d, "closing2")
      BY <1>1, <2>8 DEF IsClosed, CloseClient, CloseServer, AfterClosing
    <3> QED  BY <1>1, <1>2, <3>1 DEF ThreadLabel
  <2> QED  BY <1>4, <2>1, <2>2, <2>3, <2>4, <2>5, <2>6, <2>7, <2>8 DEF Thread
<1>5. CASE UNCHANGED vars \/ Tracer \/ Signal \/ \E s \in Socket : PeerCloses(s)
  BY <1>5 DEF vars, Tracer, Signal, PeerCloses, Buffers
<1>6. ASSUME NEW s \in Socket, PeerSends(s)
      PROVE  Buffers'
  <2>1. /\ UNCHANGED <<pc, local, taken>> /\ sent[s] < MaxSent
        /\ sent' = [sent EXCEPT ![s] = @ + 1]
    BY <1>6 DEF PeerSends
  <2>2. sent' \in [Socket -> 0 .. MaxSent]
    BY <2>1 DEF Buffers
  <2> QED  BY <2>1, <2>2 DEF Buffers
<1>7. CASE \/ ProbeFails \/ ProbeSucceeds \/ \E fails \in BOOLEAN : Listen(fails)
           \/ AcceptBegins \/ Accepts \/ AcceptFails \/ Connects \/ ConnectFails
           \/ EnqueueSentinel \/ JoinTracer \/ Join
           \/ IsClosed("main") \/ CloseClient("main") \/ CloseServer("main")
  <2>1. /\ UNCHANGED <<local, sent, taken>>
        /\ \E l \in MainLabel : Goto("main", l)
    BY <1>7 DEF ProbeFails, ProbeSucceeds, Listen, AcceptBegins, Accepts, AcceptFails,
                Connects, ConnectFails, EnqueueSentinel, JoinTracer, Join, AfterLoop,
                IsClosed, CloseClient, CloseServer, AfterClosing, MainLabel
  <2> QED  BY <1>1, <1>2, <2>1 DEF MainLabel
<1>8. CASE Create
  <2>1. /\ local' = [d \in Side |-> Idle] /\ UNCHANGED <<sent, taken>>
        /\ \A d \in Side : pc'[d] = "check"
    BY <1>1, <1>8 DEF Create
  <2> QED  BY <2>1, IdleIsRecord DEF Buffers, Record
<1> QED  BY <1>4, <1>5, <1>6, <1>7, <1>8 DEF Next, Main

----------------------------------------------------------------------------
(* The queue, step by step. *)

LEMMA SentinelIsNoPacket == Sentinel \notin Packet
BY DEF Sentinel, Packet, NoSocket, Socket, Side

LEMMA QueueStep ==
  ASSUME Control, Buffers, Queue, [Next]_vars
  PROVE  Queue'
<1> USE DEF sess, queue
<1>1. "main" \in Closer /\ Side \subseteq Closer /\ "main" \notin Side
  BY Sides
<1>2. ASSUME UNCHANGED queue,
             \/ pc'["main"] = pc["main"]
             \/ pc["main"] \notin {"joinTracer", "down"} /\ pc'["main"] # "down"
      PROVE  Queue'
  BY <1>2 DEF Queue, TracerEnded
<1>3. ASSUME NEW l \in MainLabel, Goto("main", l)
      PROVE  pc'["main"] = l
  BY <1>1, <1>3, Labels
<1>4. ASSUME NEW e \in Packet \cup {Sentinel}, log' = Append(log, e), traced' = traced,
             pc["main"] \notin {"joinTracer", "down"}, pc'["main"] # "down",
             e = Sentinel => pc'["main"] = "joinTracer"
      PROVE  Queue'
  <2>1. /\ log \in Seq(Packet \cup {Sentinel}) /\ traced \in 0 .. Len(log)
        /\ \A i \in DOMAIN log : log[i] # Sentinel
    BY <1>4 DEF Queue
  <2>2. /\ log' \in Seq(Packet \cup {Sentinel}) /\ Len(log') = Len(log) + 1
        /\ Len(log) \in Nat /\ DOMAIN log' = 1 .. Len(log) + 1
        /\ \A i \in DOMAIN log' :
             IF i = Len(log) + 1 THEN log'[i] = e ELSE i \in DOMAIN log /\ log'[i] = log[i]
    BY <1>4, <2>1
  <2> QED  BY <1>4, <2>1, <2>2 DEF Queue
<1>5. ASSUME NEW d \in Side, Thread(d)
      PROVE  Queue'
  <2>1. pc[d] # "done" /\ pc'["main"] = pc["main"]
    <3>1. pc[d] # "done" /\ \E l \in ThreadLabel : Goto(d, l)
      BY <1>1, <1>5, ThreadGoes
    <3> QED  BY <1>1, <3>1, Labels
  <2>2. pc["main"] \notin {"joinTracer", "down"}
    BY <2>1 DEF Control
  <2>3. CASE Enqueue(d)
    <3>1. /\ log' = Append(log, Head(local[d].buf)) /\ traced' = traced
          /\ pc[d] = "enqueue"
      BY <2>3 DEF Enqueue, Enqueued
    <3>2. local[d].buf \in Seq(Packet) /\ local[d].buf # <<>>
      BY <3>1 DEF Buffers
    <3>3. Head(local[d].buf) \in Packet
      BY <3>2
    <3> QED  BY <1>4, <2>1, <2>2, <3>1, <3>3, SentinelIsNoPacket
  <2>4. CASE ~Enqueue(d)
    <3>1. UNCHANGED queue
      BY <1>5, <2>4 DEF Thread, Check, Enter, Read, ReadEnd, Copy, Write, IsClosed,
                        CloseClient, CloseServer
    <3> QED  BY <1>2, <2>1, <3>1
  <2> QED  BY <2>3, <2>4
<1>6. CASE UNCHANGED vars \/ Signal \/ \E s \in Socket : PeerSends(s) \/ PeerCloses(s)
  BY <1>2, <1>6 DEF vars, Signal, PeerSends, PeerCloses
<1>7. CASE Tracer
  <2>1. /\ log' = log /\ pc' = pc /\ traced < Len(log) /\ traced' = traced + 1
        /\ pc["main"] # "down"
    BY <1>7 DEF Tracer, Queue
  <2> QED  BY <2>1 DEF Queue
<1>8. CASE \/ ProbeFails \/ ProbeSucceeds \/ \E fails \in BOOLEAN : Listen(fails)
           \/ AcceptBegins \/ Accepts \/ AcceptFails \/ Connects \/ ConnectFails \/ Join
           \/ IsClosed("main") \/ CloseClient("main") \/ CloseServer("main")
  <2>1. /\ UNCHANGED queue /\ pc["main"] \notin {"joinTracer", "down"}
        /\ \E l \in MainLabel \ {"down"} : Goto("main", l)
    BY <1>8 DEF ProbeFails, ProbeSucceeds, Listen, AcceptBegins, Accepts, AcceptFails,
                Connects, ConnectFails, Join, AfterLoop, IsClosed, CloseClient,
                CloseServer, AfterClosing, MainLabel
  <2> QED  BY <1>2, <1>3, <2>1
<1>9. CASE Create
  <2>1. UNCHANGED queue /\ pc["main"] = "create" /\ pc'["main"] = "loop"
    BY <1>1, <1>9 DEF Create
  <2> QED  BY <1>2, <2>1
<1>10. CASE EnqueueSentinel
  <2>1. /\ log' = Append(log, Sentinel) /\ traced' = traced
        /\ pc["main"] = "sentinel" /\ pc'["main"] = "joinTracer"
    BY <1>3, <1>10 DEF EnqueueSentinel, MainLabel
  <2> QED  BY <1>4, <2>1
<1>11. CASE JoinTracer
  <2>1. UNCHANGED queue /\ TracerEnded /\ pc'["main"] = "down"
    BY <1>3, <1>11 DEF JoinTracer, MainLabel
  <2> QED  BY <2>1 DEF Queue, TracerEnded
<1> QED  BY <1>5, <1>6, <1>7, <1>8, <1>9, <1>10, <1>11 DEF Next, Main

----------------------------------------------------------------------------
(* What is behind the descriptors. *)

\* Who is between the two close() holds the mutex.
Holding == \A p \in Closer : pc[p] = "closing2" => mutex = p

Leaving == pc["main"] \in {"closing", "closing2", "join"}

\* The client that is being accepted is the one after the session's; the
\* descriptors of a session are two of its numbers and stand for its peers, until
\* it is dead.  If a number of the session is that of the new client, reused knows.
Connections ==
  /\ numbers \subseteq Number
  /\ session # 0 => count = IF Leaving /\ new # NoFd THEN session + 1 ELSE session
  /\ pc["main"] = "accept" => table[new] = Reserved
  /\ pc["main"] \in {"connect", "create"} => table[new] = <<"client", count>>
  /\ Leaving /\ new # NoFd => table[new] = <<"client", count>>
  /\ pc["main"] = "create" => \A f \in numbers \ {new} : table[f] = <<"server", count>>
  /\ session # 0 => \A d \in Side :
       fds[d] # NoFd => fds[d] \in numbers /\ table[fds[d]] = <<d, session>>
  /\ session # 0 /\ ~dead => \A d \in Side : fds[d] # NoFd
  /\ session # 0 /\ new \in numbers => session + 1 \in reused

LEMMA HoldingStep ==
  ASSUME Control, Closing, Holding, [Next]_vars
  PROVE  Holding'
<1> USE DEF sess
<1>1. "main" \in Closer /\ Side \subseteq Closer /\ "none" \notin Closer
  BY Sides DEF Closer
<1>2. ASSUME NEW p \in Closer, NEW l \in MainLabel \cup ThreadLabel, Goto(p, l),
             l # "closing2", UNCHANGED mutex
      PROVE  Holding'
  BY <1>2, Labels DEF Holding
<1>3. ASSUME NEW p \in Closer, IsClosed(p) \/ CloseClient(p) \/ CloseServer(p)
      PROVE  Holding'
  <2>0. {"join", "done", "closing2"} \subseteq MainLabel \cup ThreadLabel
    BY DEF MainLabel, ThreadLabel
  <2>1. CASE IsClosed(p)
    BY <1>2, <2>0, <2>1 DEF IsClosed, AfterClosing
  <2>2. CASE CloseClient(p)
    <3>1. mutex = "none" /\ mutex' = p /\ Goto(p, "closing2")
      BY <2>2 DEF CloseClient
    <3>2. \A q \in Closer \ {p} : pc'[q] # "closing2"
      BY <1>1, <2>0, <3>1, Labels DEF Holding
    <3> QED  BY <3>1, <3>2 DEF Holding
  <2>3. CASE CloseServer(p)
    <3>1. mutex = p /\ (Goto(p, "join") \/ Goto(p, "done"))
      BY <2>3 DEF CloseServer, AfterClosing, Holding
    <3>2. \A q \in Closer : pc'[q] # "closing2"
      BY <2>0, <3>1, Labels DEF Holding
    <3> QED  BY <3>2 DEF Holding
  <2> QED  BY <1>3, <2>1, <2>2, <2>3
<1>4. ASSUME NEW d \in Side, Thread(d)
      PROVE  Holding'
  <2>1. CASE IsClosed(d) \/ CloseClient(d) \/ CloseServer(d)
    BY <1>1, <1>3, <2>1
  <2>2. CASE ~(IsClosed(d) \/ CloseClient(d) \/ CloseServer(d))
    <3>1. /\ UNCHANGED mutex
          /\ \E l \in {"done", "enter", "read", "closing", "copy", "check", "write",
                       "enqueue"} : Goto(d, l)
      BY <1>4, <2>2 DEF Thread, Check, Enter, Read, ReadEnd, Copy, Write, Enqueue
    <3> QED  BY <1>1, <1>2, <3>1 DEF ThreadLabel
  <2> QED  BY <2>1, <2>2
<1>5. CASE UNCHANGED vars \/ Tracer \/ Signal \/ \E s \in Socket : PeerSends(s) \/ PeerCloses(s)
  BY <1>5 DEF vars, Tracer, Signal, PeerSends, PeerCloses, Holding
<1>6. CASE \/ ProbeFails \/ ProbeSucceeds \/ \E fails \in BOOLEAN : Listen(fails)
           \/ AcceptBegins \/ Accepts \/ AcceptFails \/ Connects \/ ConnectFails
           \/ EnqueueSentinel \/ JoinTracer \/ Join
  <2>1. UNCHANGED mutex /\ \E l \in MainLabel \ {"closing2"} : Goto("main", l)
    BY <1>6 DEF ProbeFails, ProbeSucceeds, Listen, AcceptBegins, Accepts, AcceptFails,
                Connects, ConnectFails, EnqueueSentinel, JoinTracer, Join, AfterLoop,
                MainLabel
  <2> QED  BY <1>1, <1>2, <2>1
<1>7. CASE Create
  <2>1. pc' = [p \in Closer |-> IF p = "main" THEN "loop" ELSE "check"]
    BY <1>7 DEF Create
  <2> QED  BY <2>1 DEF Holding
<1> QED  BY <1>1, <1>3, <1>4, <1>5, <1>6, <1>7 DEF Next, Main

LEMMA ConnectionsStep ==
  ASSUME Control, Closing, Descriptors, Connections, [Next]_vars
  PROVE  Connections'
<1> USE DEF sess, threads
<1>1. "main" \in Closer /\ Side \subseteq Closer /\ "main" \notin Side
  BY Sides
<1>2. ASSUME NEW l \in MainLabel, Goto("main", l)
      PROVE  pc'["main"] = l
  BY <1>1, <1>2, Labels
<1>3. Side = {"client", "server"} /\ NoFd \notin Number
  BY DEF Side, Number, NoFd
<1>4. ASSUME UNCHANGED <<count, session, fds, dead, new, table, numbers, reused>>,
             \/ pc'["main"] = pc["main"]
             \/ pc'["main"] \notin {"accept", "connect", "create"} /\ (Leaving' <=> Leaving)
             \/ session = 0 /\ session' = 0
                /\ pc'["main"] \notin {"accept", "connect", "create"} /\ ~Leaving'
      PROVE  Connections'
  BY <1>4 DEF Connections, Leaving
<1>5. ASSUME NEW p \in Closer, NEW d \in Side, pc[p] \in {"closing", "closing2"},
             Closed(d), Goto(p, "closing2") \/ Goto(p, AfterClosing(p)),
             UNCHANGED <<count, session, new, numbers, reused>>, dead' = TRUE
      PROVE  Connections'
  <2>1. session # 0
    BY <1>5 DEF Control, Closer, Side
  <2>2. /\ pc'["main"] \notin {"accept", "connect", "create"} \/ pc'["main"] = pc["main"]
        /\ Leaving' <=> Leaving
    BY <1>1, <1>5, Labels DEF AfterClosing, MainLabel, ThreadLabel, Leaving
  <2>3. /\ fds'[d] = NoFd /\ \A e \in Side : e # d => fds'[e] = fds[e]
        /\ \A f \in Number : f # fds[d] => table'[f] = table[f]
    BY <1>5 DEF Closed, Descriptors
  <2>4. /\ \A e \in Side : fds[e] \in Number \cup {NoFd}
        /\ new \in Number \cup {NoFd}
        /\ new # NoFd => new # fds[d]
        /\ \A e \in Side : e # d /\ fds[e] # NoFd => fds[e] # fds[d]
    BY <1>3 DEF Descriptors
  <2>5. pc["main"] # "create"
    BY <2>1 DEF Control
  <2>6. new # NoFd => table'[new] = table[new]
    BY <2>3, <2>4
  <2>7. pc'["main"] # "create" /\ pc'["main"] # "connect"
    BY <2>1, <2>2 DEF Control
  <2>8. ASSUME NEW e \in Side, fds'[e] # NoFd
        PROVE  fds'[e] \in numbers /\ table'[fds'[e]] = <<e, session>>
    <3>1. e # d /\ fds'[e] = fds[e] /\ fds[e] \in Number /\ fds[e] # fds[d]
      BY <2>3, <2>4, <2>8
    <3> QED  BY <2>1, <2>3, <2>8, <3>1 DEF Connections
  <2>9. pc'["main"] = "accept" => pc["main"] = "accept" /\ new # NoFd
    BY <2>2 DEF Descriptors
  <2> QED  BY <1>5, <2>1, <2>2, <2>6, <2>7, <2>8, <2>9 DEF Connections
<1>6. ASSUME NEW p \in Closer, CloseClient(p) \/ CloseServer(p)
      PROVE  Connections'
  <2>1. CASE CloseClient(p)
    BY <1>3, <1>5, <2>1 DEF CloseClient
  <2>2. CASE CloseServer(p)
    <3>1. dead' = TRUE
      BY <2>2 DEF CloseServer, Closing
    <3> QED  BY <1>3, <1>5, <2>2, <3>1 DEF CloseServer
  <2> QED  BY <1>6, <2>1, <2>2
<1>7. ASSUME NEW d \in Side, Thread(d)
      PROVE  Connections'
  <2>1. CASE CloseClient(d) \/ CloseServer(d)
    BY <1>1, <1>6, <2>1
  <2>2. CASE ~(CloseClient(d) \/ CloseServer(d))
    <3>1. /\ UNCHANGED <<count, session, fds, dead, new, table, numbers, reused>>
          /\ \E l \in {"done", "enter", "read", "closing", "copy", "check", "write",
                       "enqueue"} : Goto(d, l)
      BY <1>1, <1>7, <2>2
         DEF Thread, Check, Enter, Read, ReadEnd, Copy, Write, Enqueue, IsClosed,
             AfterClosing
    <3>2. pc'["main"] = pc["main"]
      BY <1>1, <3>1, Labels DEF ThreadLabel
    <3> QED  BY <1>4, <3>1, <3>2
  <2> QED  BY <2>1, <2>2
<1>8. CASE UNCHANGED vars \/ Tracer \/ Signal \/ \E s \in Socket : PeerSends(s) \/ PeerCloses(s)
  BY <1>4, <1>8 DEF vars, Tracer, Signal, PeerSends, PeerCloses
<1>9. CASE \/ ProbeFails \/ ProbeSucceeds \/ \E fails \in BOOLEAN : Listen(fails)
           \/ EnqueueSentinel \/ JoinTracer
  <2>1. /\ UNCHANGED <<count, session, fds, dead, new, table, numbers, reused>>
        /\ pc["main"] \in {"probe", "listen", "sentinel", "joinTracer"}
        /\ \E l \in {"listen", "loop", "exited", "joinTracer", "down"} : Goto("main", l)
    BY <1>9 DEF ProbeFails, ProbeSucceeds, Listen, EnqueueSentinel, JoinTracer
  <2>2. pc'["main"] \in {"listen", "loop", "exited", "joinTracer", "down"}
    BY <1>2, <2>1 DEF MainLabel
  <2> QED  BY <1>4, <2>1, <2>2 DEF Leaving
<1>10. CASE IsClosed("main")
  <2>1. /\ UNCHANGED <<count, session, fds, dead, new, table, numbers, reused>>
        /\ pc["main"] = "closing" /\ Goto("main", "join")
    BY <1>10 DEF IsClosed, AfterClosing
  <2>2. pc'["main"] = "join"
    BY <1>2, <2>1 DEF MainLabel
  <2> QED  BY <1>4, <2>1, <2>2 DEF Leaving
<1>11. CASE Join
  <2>1. /\ pc["main"] = "join" /\ session' = 0
        /\ UNCHANGED <<count, new, table, numbers>>
        /\ Goto("main", IF new # NoFd THEN "connect" ELSE "sentinel")
    BY <1>11 DEF Join
  <2>2. pc'["main"] = IF new # NoFd THEN "connect" ELSE "sentinel"
    BY <1>2, <2>1 DEF MainLabel
  <2>3. Leaving /\ ~Leaving'
    BY <2>1, <2>2 DEF Leaving
  <2> QED  BY <2>1, <2>2, <2>3 DEF Connections
<1>12. CASE AcceptBegins
  <2>1. pc["main"] = "loop" /\ new = NoFd
    BY <1>12 DEF AcceptBegins, Descriptors
  <2>2. Lowest \in Number /\ table[Lowest] = Free
    BY <2>1, LowestIsFree
  <2>3. /\ new' = Lowest /\ table' = [table EXCEPT ![Lowest] = Reserved]
        /\ UNCHANGED <<fds, count, session, dead, numbers>> /\ pc'["main"] = "accept"
        /\ session # 0 /\ Lowest \in numbers => reused' = reused \cup {count + 1}
    BY <1>2, <1>12 DEF AcceptBegins, MainLabel
  <2>4. /\ table'[new'] = Reserved
        /\ \A f \in Number : f # new' => table'[f] = table[f]
    BY <2>2, <2>3 DEF Descriptors
  <2>5. session # 0 => count = session
    BY <2>1 DEF Connections
  <2>6. ~Leaving /\ ~Leaving'
    BY <2>1, <2>3 DEF Leaving
  <2>7. \A d \in Side : fds[d] # NoFd => fds[d] \in Number /\ fds[d] # Lowest
    BY <2>2 DEF Descriptors
  <2> QED  BY <2>3, <2>4, <2>5, <2>6, <2>7 DEF Connections
<1>13. CASE Accepts
  <2>1. /\ pc["main"] = "accept" /\ UNCHANGED <<fds, session, dead, numbers, reused, new>>
        /\ table' = [table EXCEPT ![new] = <<"client", count + 1>>]
        /\ count' = count + 1
        /\ pc'["main"] = IF session # 0 THEN "closing" ELSE "connect"
    BY <1>2, <1>13 DEF Accepts, MainLabel
  <2>2. new \in Number /\ ~Leaving
    BY <1>3, <2>1 DEF Descriptors, Leaving
  <2>3. /\ table'[new] = <<"client", count'>>
        /\ \A f \in Number : f # new => table'[f] = table[f]
    BY <2>1, <2>2 DEF Descriptors
  <2>4. session # 0 => count = session
    BY <2>2 DEF Connections
  <2>5. \A d \in Side : fds[d] # NoFd => fds[d] \in Number /\ fds[d] # new
    BY DEF Descriptors
  <2>6. session # 0 <=> Leaving'
    BY <2>1 DEF Leaving
  <2>7. new # NoFd
    BY <1>3, <2>2
  <2> QED  BY <2>1, <2>3, <2>4, <2>5, <2>6, <2>7 DEF Connections
<1>14. CASE AcceptFails \/ ConnectFails
  <2>1. /\ pc["main"] \in {"loop", "accept", "connect"}
        /\ UNCHANGED <<count, session, dead, fds, numbers, reused>>
        /\ new' = NoFd
        /\ table' = IF new = NoFd THEN table ELSE [table EXCEPT ![new] = Free]
        /\ Goto("main", "closing") \/ Goto("main", "sentinel") \/ Goto("main", "loop")
    BY <1>14 DEF AcceptFails, ConnectFails, AfterLoop, Descriptors
  <2>2. pc'["main"] \in {"closing", "sentinel", "loop"} /\ ~Leaving
    BY <1>2, <2>1 DEF MainLabel, Leaving
  <2>3. \A f \in Number : f # new => table'[f] = table[f]
    BY <2>1 DEF Descriptors
  <2>4. \A d \in Side : fds[d] # NoFd => fds[d] \in Number /\ fds[d] # new
    BY DEF Descriptors
  <2>5. NoFd \notin numbers
    BY <1>3 DEF Connections
  <2> QED  BY <2>1, <2>2, <2>3, <2>4, <2>5 DEF Connections
<1>15. CASE Connects
  <2>1. /\ pc["main"] = "connect" /\ new \in Number /\ table[new] # Free
        /\ table[new] = <<"client", count>> /\ session = 0
    BY <1>15 DEF Connects, Descriptors, Connections, Control
  <2>2. Lowest \in Number /\ table[Lowest] = Free
    BY <2>1, LowestIsFree
  <2>3. /\ new' = new /\ table' = [table EXCEPT ![Lowest] = <<"server", count>>]
        /\ numbers' = {new, Lowest} /\ UNCHANGED <<count, session>>
        /\ pc'["main"] = "create"
    BY <1>2, <1>15 DEF Connects, MainLabel
  <2>4. /\ table'[Lowest] = <<"server", count>> /\ table'[new] = table[new]
        /\ Lowest # new
    BY <2>1, <2>2, <2>3 DEF Descriptors
  <2>5. ~Leaving'
    BY <2>3 DEF Leaving
  <2> QED  BY <2>1, <2>2, <2>3, <2>4, <2>5 DEF Connections
<1>16. CASE Create
  <2>1. /\ pc["main"] = "create" /\ pc'["main"] = "loop" /\ UNCHANGED <<table, count, numbers>>
        /\ new' = NoFd /\ session' = count
        /\ fds' = [client |-> new, server |-> CHOOSE f \in numbers : f # new]
    BY <1>1, <1>16 DEF Create
  <2>2. PICK g \in Number \ {new} : numbers = {new, g} /\ table[g] # Free
    BY <2>1 DEF Descriptors
  <2>3. (CHOOSE f \in numbers : f # new) = g
    BY <2>2
  <2>4. /\ fds'["client"] = new /\ fds'["server"] = g /\ new \in Number
    BY <1>3, <2>1, <2>2, <2>3 DEF Descriptors
  <2>5. table[new] = <<"client", count>> /\ table[g] = <<"server", count>>
    BY <2>1, <2>2 DEF Connections
  <2>6. ~Leaving' /\ NoFd \notin numbers
    BY <1>3, <2>1, <2>2, <2>4 DEF Leaving
  <2> QED  BY <1>3, <2>1, <2>2, <2>4, <2>5, <2>6 DEF Connections
<1> QED  BY <1>1, <1>6, <1>7, <1>8, <1>9, <1>10, <1>11, <1>12, <1>13, <1>14, <1>15, <1>16
         DEF Next, Main

----------------------------------------------------------------------------
(* What the threads read and where they write. *)

\* A thread has looked up the number f as that of the peer on side d, in this
\* session: it is still that, or nothing of the session any more.
Reach(f, d) == f \in numbers /\ fds[d] \in {NoFd, f} /\ fds[Other(d)] # f

NextClient == <<"client", session + 1>>

\* All that a thread has read comes from its peer.
FromPeer(d) == \A i \in DOMAIN local[d].buf : local[d].buf[i].from = <<d, session>>

\* What thread d is at.
At(d) ==
  /\ pc[d] = "enter" /\ local[d].fd # NoFd => Reach(local[d].fd, d)
  /\ pc[d] = "read" => \/ local[d].socket = <<d, session>>
                       \/ dead /\ local[d].socket = NextClient /\ session + 1 \in reused
  /\ pc[d] = "copy" => dead \/ FromPeer(d)
  /\ pc[d] \in {"write", "enqueue"} => FromPeer(d) /\ Reach(local[d].dst, Other(d))

Reading == \A d \in Side : At(d)

LEMMA Others ==
  ASSUME NEW d \in Side
  PROVE  Other(d) \in Side /\ Other(Other(d)) = d /\ Other(d) # d /\ Side = {d, Other(d)}
BY DEF Side, Other

\* What is behind a number that was looked up: the peer, or the next client.
LEMMA ReachedSocket ==
  ASSUME Control, Closing, Descriptors, Connections, session # 0,
         NEW d \in Side, NEW f, Reach(f, d), table[f] \in Socket
  PROVE  \/ fds[d] = f /\ table[f] = <<d, session>>
         \/ /\ dead /\ fds[d] = NoFd
            /\ table[f] = NextClient /\ session + 1 \in reused
<1>1. f \in Number /\ NoFd \notin Number /\ f \in numbers
  <2>1. f \in numbers /\ numbers \subseteq Number
    BY DEF Connections, Reach
  <2>2. NoFd \notin Number
    BY DEF Number, NoFd
  <2> QED  BY <2>1, <2>2
<1>2. CASE fds[d] = f
  BY <1>1, <1>2 DEF Connections
<1>3. CASE fds[d] # f
  <2>1. fds[d] = NoFd /\ fds[Other(d)] # f
    BY <1>3 DEF Reach
  <2>2. dead
    BY <2>1 DEF Connections, Closing
  <2>3. table[f] # Free /\ table[f] # Reserved
    BY DescriptorAssumption
  <2>4. f # fds["client"] /\ f # fds["server"]
    BY <1>3, <2>1, Others DEF Side
  <2>5. f = new
    BY <1>1, <2>3, <2>4 DEF Descriptors, Control
  <2>6. session + 1 \in reused
    BY <1>1, <2>5 DEF Connections
  <2>7. new # NoFd /\ Leaving
    <3>1. new # NoFd
      BY <1>1, <2>5
    <3>2. pc["main"] \notin {"probe", "listen", "loop"}
      BY <3>1 DEF Descriptors
    <3>3. pc["main"] \notin {"exited", "connect", "create", "sentinel", "joinTracer", "down"}
      BY DEF Control
    <3>4. pc["main"] # "accept"
      BY <2>3, <2>5 DEF Connections
    <3>5. pc["main"] \in MainLabel
      BY DEF Control
    <3> QED  BY <3>1, <3>2, <3>3, <3>4, <3>5 DEF MainLabel, Leaving
  <2>8. table[new] = <<"client", session + 1>>
    BY <2>7 DEF Connections
  <2> QED  BY <2>1, <2>2, <2>5, <2>6, <2>8 DEF NextClient
<1> QED  BY <1>2, <1>3

\* A session goes on: nothing comes to it.
LEMMA GoesOn ==
  ASSUME Control, Descriptors, Connections, [Next]_vars, session # 0, session' # 0
  PROVE  /\ session' = session /\ numbers' = numbers
         /\ \A d \in Side : fds'[d] \in {NoFd, fds[d]}
         /\ dead => dead'
         /\ reused \subseteq reused'
<1> USE DEF sess, threads
<1>1. ASSUME NEW p \in Closer, CloseClient(p) \/ CloseServer(p)
      PROVE  /\ session' = session /\ numbers' = numbers /\ reused' = reused
             /\ dead => dead'
             /\ \A d \in Side : fds'[d] \in {NoFd, fds[d]}
  BY <1>1 DEF CloseClient, CloseServer, Closed, Descriptors, Side
<1>2. ASSUME NEW d \in Side, Thread(d)
      PROVE  \/ CloseClient(d) \/ CloseServer(d)
             \/ UNCHANGED <<session, numbers, fds, dead, reused>>
  BY <1>2 DEF Thread, Check, Enter, Read, ReadEnd, Copy, Write, Enqueue, IsClosed
<1>3. CASE \/ UNCHANGED vars \/ Tracer \/ Signal
           \/ \E s \in Socket : PeerSends(s) \/ PeerCloses(s)
  <2>1. UNCHANGED <<session, numbers, fds, dead, reused>>
    BY <1>3 DEF vars, Tracer, Signal, PeerSends, PeerCloses
  <2> QED  BY <2>1
<1>4. CASE \/ ProbeFails \/ ProbeSucceeds \/ \E fails \in BOOLEAN : Listen(fails)
           \/ AcceptBegins \/ Accepts \/ AcceptFails \/ ConnectFails
           \/ EnqueueSentinel \/ JoinTracer \/ IsClosed("main")
  BY <1>4 DEF ProbeFails, ProbeSucceeds, Listen, AcceptBegins, Accepts, AcceptFails,
              ConnectFails, EnqueueSentinel, JoinTracer, IsClosed
<1>5. ~Connects /\ ~Create /\ ~Join
  BY DEF Connects, Create, Join, Control
<1>6. "main" \in Closer /\ Side \subseteq Closer
  BY Sides
<1> QED  BY <1>1, <1>2, <1>3, <1>4, <1>5, <1>6 DEF Next, Main

\* A thread moves by itself, or is started.
LEMMA Moves ==
  ASSUME Control, Buffers, [Next]_vars, NEW d \in Side
  PROVE  \/ Thread(d)
         \/ pc'[d] = pc[d] /\ local'[d] = local[d]
         \/ Create /\ pc'[d] = "check"
<1> USE DEF sess, threads
<1>1. "main" \in Closer /\ Side \subseteq Closer /\ "main" \notin Side
  BY Sides
<1>2. ASSUME NEW l \in MainLabel, Goto("main", l)
      PROVE  pc'[d] = pc[d]
  BY <1>1, <1>2, Labels
<1>3. ASSUME NEW e \in Side, e # d, Thread(e)
      PROVE  pc'[d] = pc[d] /\ local'[d] = local[d]
  <2>1. pc'[d] = pc[d]
    BY <1>1, <1>3, ThreadGoes, Labels
  <2>2. local'[d] = local[d]
    <3>1. local \in [Side -> Record]
      BY DEF Buffers, Record
    <3>2. local' = local \/ \E r : local' = [local EXCEPT ![e] = r]
      BY <1>3 DEF Thread, Check, Enter, Read, ReadEnd, Copy, Write, Enqueue, IsClosed,
                  CloseClient, CloseServer
    <3> QED  BY <1>3, <3>1, <3>2
  <2> QED  BY <2>1, <2>2
<1>4. CASE \/ UNCHANGED vars \/ Tracer \/ Signal
           \/ \E s \in Socket : PeerSends(s) \/ PeerCloses(s)
  BY <1>4 DEF vars, Tracer, Signal, PeerSends, PeerCloses
<1>5. CASE \/ ProbeFails \/ ProbeSucceeds \/ \E fails \in BOOLEAN : Listen(fails)
           \/ AcceptBegins \/ Accepts \/ AcceptFails \/ Connects \/ ConnectFails
           \/ EnqueueSentinel \/ JoinTracer \/ Join
           \/ IsClosed("main") \/ CloseClient("main") \/ CloseServer("main")
  <2>1. local' = local /\ \E l \in MainLabel : Goto("main", l)
    BY <1>5 DEF ProbeFails, ProbeSucceeds, Listen, AcceptBegins, Accepts, AcceptFails,
                Connects, ConnectFails, EnqueueSentinel, JoinTracer, Join, AfterLoop,
                IsClosed, CloseClient, CloseServer, AfterClosing, MainLabel
  <2> QED  BY <1>2, <2>1
<1>6. CASE Create
  BY <1>1, <1>6 DEF Create
<1> QED  BY <1>3, <1>4, <1>5, <1>6 DEF Next, Main

\* Of the packets in the queue of a thread there is one less.
LEMMA TailElements ==
  ASSUME NEW S, NEW q \in Seq(S), q # <<>>
  PROVE  /\ Tail(q) \in Seq(S) /\ Len(Tail(q)) = Len(q) - 1 /\ Len(q) \in Nat \ {0}
         /\ Head(q) = q[1] /\ Head(q) \in S
         /\ \A i \in DOMAIN Tail(q) : i + 1 \in DOMAIN q /\ Tail(q)[i] = q[i + 1]
OBVIOUS

\* Copy() finds a descriptor only before the session is dead.
LEMMA CopiesAlive ==
  ASSUME Closing, Holding, mutex = "none", NEW d \in Side, fds[d] # NoFd
  PROVE  ~dead
<1>1. \A p \in Closer : pc[p] # "closing2"
  BY DEF Holding, Closer
<1> QED  BY <1>1 DEF Closing, Side

LEMMA ReadingStep ==
  ASSUME Control, Control', Closing, Descriptors, Buffers, Holding, Connections, Reading,
         [Next]_vars
  PROVE  Reading'
<1> USE DEF sess, threads
<1> SUFFICES ASSUME NEW d \in Side
             PROVE  At(d)'
  BY DEF Reading
<1>1. At(d) /\ Other(d) \in Side /\ Other(Other(d)) = d /\ Other(d) # d
  BY Others DEF Reading
<1>2. "main" \in Closer /\ Side \subseteq Closer /\ "main" \notin Side
  BY Sides
<1>3. ASSUME pc'[d] \notin {"enter", "read", "copy", "write", "enqueue"}
      PROVE  At(d)'
  BY <1>3 DEF At
<1>4. CASE session = 0 \/ session' = 0
  <2>1. session' = 0 => pc'[d] = "done"
    BY DEF Control
  <2>2. session = 0 => pc[d] = "done" /\ ~Thread(d)
    BY ThreadGoes DEF Control
  <2>3. session = 0 => pc'[d] \in {"done", "check"}
    BY <2>2, Moves
  <2> QED  BY <1>3, <1>4, <2>1, <2>3
<1>5. CASE session # 0 /\ session' # 0
  <2>1. /\ session' = session /\ numbers' = numbers
        /\ \A e \in Side : fds'[e] \in {NoFd, fds[e]}
        /\ dead => dead'
        /\ reused \subseteq reused'
    BY <1>5, GoesOn
  <2>2. NoFd \notin numbers
    BY DEF Connections, Number, NoFd
  <2>3. ASSUME NEW f, NEW e \in Side, Reach(f, e)
        PROVE  Reach(f, e)'
    <3>1. Other(e) \in Side
      BY Others
    <3>2. f \in numbers /\ fds[e] \in {NoFd, f} /\ fds[Other(e)] # f /\ f # NoFd
      BY <2>2, <2>3 DEF Reach
    <3>3. f \in numbers' /\ fds'[e] \in {NoFd, f} /\ fds'[Other(e)] # f
      BY <2>1, <3>1, <3>2
    <3> QED  BY <3>3 DEF Reach
  <2>4. CASE pc'[d] = pc[d] /\ local'[d] = local[d]
    <3>1. pc[d] = "enter" /\ local[d].fd # NoFd => Reach(local[d].fd, d)'
      <4>1. local'[d].fd = local[d].fd
        BY <2>4
      <4>2. ASSUME pc[d] = "enter", local[d].fd # NoFd
            PROVE  Reach(local[d].fd, d)'
        <5>1. Reach(local[d].fd, d)
          BY <1>1, <4>2 DEF At
        <5> QED  BY <4>1, <5>1, <2>1, <2>2, <1>1 DEF Reach
      <4> QED  BY <4>2
    <3>2. pc[d] \in {"write", "enqueue"} => Reach(local[d].dst, Other(d))'
      <4>1. local'[d].dst = local[d].dst
        BY <2>4
      <4>2. ASSUME pc[d] \in {"write", "enqueue"}
            PROVE  Reach(local[d].dst, Other(d))'
        <5>1. Reach(local[d].dst, Other(d))
          BY <1>1, <4>2 DEF At
        <5> QED  BY <4>1, <5>1, <2>1, <2>2, <1>1 DEF Reach
      <4> QED  BY <4>2
    <3>3. FromPeer(d) => FromPeer(d)'
      BY <2>1, <2>4 DEF FromPeer
    <3>4. NextClient' = NextClient
      BY <2>1 DEF NextClient
    <3> QED  BY <1>1, <2>1, <2>4, <3>1, <3>2, <3>3, <3>4 DEF At
  <2>5. CASE Thread(d)
    <3>0. /\ local \in [Side -> Record] /\ local[d] \in Record
          /\ pc[d] = "read" => local[d].socket \in Socket
          /\ pc[d] \in {"copy", "write", "enqueue"} => local[d].buf # <<>>
          /\ ThreadLabel \subseteq MainLabel \cup ThreadLabel
      BY DEF Buffers, Record
    <3>1. CASE Check(d)
      <4>1. Goto(d, "done") \/ Goto(d, "enter")
        BY <3>1 DEF Check
      <4>2. pc'[d] \in {"done", "enter"}
        BY <1>2, <4>1, Labels DEF ThreadLabel
      <4>3. CASE dead
        <5>1. pc'[d] = "done"
          BY <1>2, <3>1, <4>3, Labels DEF Check, ThreadLabel
        <5> QED  BY <1>3, <5>1
      <4>4. CASE ~dead
        <5>1. local'[d].fd = fds[d] /\ fds' = fds
          BY <3>0, <3>1, <4>4 DEF Check, Record
        <5>2. fds[d] # NoFd /\ fds[d] \in numbers /\ fds[Other(d)] # fds[d]
          BY <1>1, <1>5, <4>4 DEF Connections, Descriptors, Side
        <5>3. Reach(local[d].fd, d)'
          BY <2>1, <5>1, <5>2 DEF Reach
        <5> QED  BY <4>2, <5>3 DEF At
      <4> QED  BY <4>3, <4>4
    <3>2. CASE Enter(d)
      <4>1. CASE local[d].fd # NoFd /\ table[local[d].fd] \notin {Free, Reserved}
        <5>1. /\ local'[d].socket = table[local[d].fd] /\ UNCHANGED <<dead, reused>>
              /\ Goto(d, "read") /\ pc[d] = "enter"
          BY <3>0, <3>2, <4>1, IdleIsRecord DEF Enter, Record
        <5>2. pc'[d] = "read"
          BY <1>2, <5>1, Labels DEF ThreadLabel
        <5>3. table[local[d].fd] \in Socket
          BY <3>0, <4>1 DEF Record, Descriptors
        <5>4. Reach(local[d].fd, d)
          BY <1>1, <4>1, <5>1 DEF At
        <5> DEFINE f == local[d].fd
        <5>5. \/ table[f] = <<d, session>>
              \/ dead /\ table[f] = NextClient /\ session + 1 \in reused
          <6>1. Reach(f, d) /\ table[f] \in Socket
            BY <5>3, <5>4
          <6> HIDE DEF f
          <6> QED  BY <1>5, <6>1, ReachedSocket
        <5> QED  BY <2>1, <5>1, <5>2, <5>5 DEF At, NextClient
      <4>2. CASE ~(local[d].fd # NoFd /\ table[local[d].fd] \notin {Free, Reserved})
        <5>1. pc'[d] = "closing"
          BY <1>2, <3>2, <4>2, Labels DEF Enter, ThreadLabel
        <5> QED  BY <1>3, <5>1
      <4> QED  BY <4>1, <4>2
    <3>3. ASSUME NEW n \in 1 .. MaxSent, Read(d, n)
          PROVE  At(d)'
      <4> DEFINE s == local[d].socket
      <4>1. /\ local'[d].buf = Batch(s, n) /\ dead' = dead /\ pc[d] = "read"
            /\ Goto(d, "copy")
        BY <3>0, <3>3 DEF Read, Idle
      <4>2. pc'[d] = "copy"
        BY <1>2, <4>1, Labels DEF ThreadLabel
      <4>3. dead \/ s = <<d, session>>
        BY <1>1, <4>1 DEF At
      <4>4. \A i \in DOMAIN Batch(s, n) : Batch(s, n)[i].from = s
        BY DEF Batch
      <4>5. dead' \/ FromPeer(d)'
        BY <2>1, <4>1, <4>3, <4>4 DEF FromPeer
      <4> QED  BY <4>2, <4>5 DEF At
    <3>4. CASE ReadEnd(d)
      <4>1. pc'[d] = "closing"
        BY <1>2, <3>4, Labels DEF ReadEnd, ThreadLabel
      <4> QED  BY <1>3, <4>1
    <3>5. CASE Copy(d)
      <4>1. CASE fds[Other(d)] # NoFd
        <5>1. /\ local'[d].dst = fds[Other(d)] /\ local'[d].buf = local[d].buf
              /\ Goto(d, "write") /\ fds' = fds /\ pc[d] = "copy" /\ mutex = "none"
          BY <3>0, <3>5, <4>1 DEF Copy, Record
        <5>2. pc'[d] = "write"
          BY <1>2, <5>1, Labels DEF ThreadLabel
        <5>3. ~dead
          BY <1>1, <4>1, <5>1, CopiesAlive
        <5>4. FromPeer(d)'
          BY <1>1, <2>1, <5>1, <5>3 DEF At, FromPeer
        <5>5. fds[Other(d)] \in numbers /\ fds[d] # fds[Other(d)]
          BY <1>1, <1>5, <4>1 DEF Connections, Descriptors, Side
        <5>6. Reach(local[d].dst, Other(d))'
          BY <1>1, <2>1, <5>1, <5>5 DEF Reach
        <5> QED  BY <5>2, <5>4, <5>6 DEF At
      <4>2. CASE fds[Other(d)] = NoFd
        <5>1. pc'[d] = "check"
          BY <1>2, <3>5, <4>2, Labels DEF Copy, ThreadLabel
        <5> QED  BY <1>3, <5>1
      <4> QED  BY <4>1, <4>2
    <3>6. CASE Write(d)
      <4>1. /\ local'[d].buf = local[d].buf /\ local'[d].dst = local[d].dst
            /\ pc[d] = "write" /\ Goto(d, "enqueue") /\ fds' = fds
        BY <3>0, <3>6 DEF Write, Record
      <4>2. pc'[d] = "enqueue"
        BY <1>2, <4>1, Labels DEF ThreadLabel
      <4>3. FromPeer(d)' /\ Reach(local[d].dst, Other(d))'
        BY <1>1, <2>1, <4>1 DEF At, FromPeer, Reach
      <4> QED  BY <4>2, <4>3 DEF At
    <3>7. CASE Enqueue(d)
      <4> DEFINE rest == Tail(local[d].buf)
      <4>1. /\ local' = [local EXCEPT ![d] =
                 IF rest = <<>> THEN Idle ELSE [@ EXCEPT !.buf = rest]]
            /\ pc[d] = "enqueue" /\ fds' = fds
            /\ Goto(d, CASE rest # <<>> -> "write"
                         [] rest = <<>> /\ local[d].failed   -> "closing"
                         [] rest = <<>> /\ ~local[d].failed  -> "check")
        BY <3>7 DEF Enqueue
      <4>2. local[d].buf \in Seq(Packet) /\ local[d].buf # <<>>
        BY <3>0, <4>1 DEF Record
      <4>3. \A i \in DOMAIN rest : i + 1 \in DOMAIN local[d].buf /\ rest[i] = local[d].buf[i + 1]
        BY <4>2, TailElements
      <4> HIDE DEF rest
      <4>4. CASE rest # <<>>
        <5>1. /\ local'[d].buf = rest /\ local'[d].dst = local[d].dst /\ Goto(d, "write")
          BY <3>0, <4>1, <4>4 DEF Record
        <5>2. pc'[d] = "write"
          BY <1>2, <5>1, Labels DEF ThreadLabel
        <5>3. FromPeer(d) /\ Reach(local[d].dst, Other(d))
          BY <1>1, <4>1 DEF At
        <5>4. FromPeer(d)'
          BY <2>1, <4>3, <5>1, <5>3 DEF FromPeer
        <5>5. Reach(local[d].dst, Other(d))'
          BY <2>1, <4>1, <5>1, <5>3 DEF Reach
        <5> QED  BY <5>2, <5>4, <5>5 DEF At
      <4>5. CASE rest = <<>>
        <5>1. Goto(d, "closing") \/ Goto(d, "check")
          BY <3>0, <4>1, <4>5 DEF Record
        <5>2. pc'[d] \in {"closing", "check"}
          BY <1>2, <5>1, Labels DEF ThreadLabel
        <5> QED  BY <1>3, <5>2
      <4> QED  BY <4>4, <4>5
    <3>8. CASE IsClosed(d) \/ CloseClient(d) \/ CloseServer(d)
      <4>1. Goto(d, "done") \/ Goto(d, "closing2")
        BY <1>2, <3>8 DEF IsClosed, CloseClient, CloseServer, AfterClosing
      <4>2. pc'[d] \in {"done", "closing2"}
        BY <1>2, <4>1, Labels DEF ThreadLabel
      <4> QED  BY <1>3, <4>2
    <3> QED  BY <2>5, <3>1, <3>2, <3>3, <3>4, <3>5, <3>6, <3>7, <3>8 DEF Thread
  <2>6. ~Create
    BY <1>5 DEF Create, Control
  <2> QED  BY <2>4, <2>5, <2>6, Moves
<1> QED  BY <1>4, <1>5

----------------------------------------------------------------------------
(* What is received, read and traced: only the threads of a session touch  *)
(* what is of its peers.                                                   *)

Own == arrived \in [Socket -> Seq(Packet)] /\ OwnPeersOnly

LEMMA ReusedGrows ==
  ASSUME [Next]_vars
  PROVE  reused \subseteq reused'
<1>1. ASSUME NEW d \in Side, Thread(d)
      PROVE  reused' = reused
  BY <1>1 DEF Thread, Check, Enter, Read, ReadEnd, Copy, Write, Enqueue, IsClosed,
              CloseClient, CloseServer
<1>2. CASE \/ UNCHANGED vars \/ Tracer \/ Signal
           \/ \E s \in Socket : PeerSends(s) \/ PeerCloses(s)
  BY <1>2 DEF vars, Tracer, Signal, PeerSends, PeerCloses
<1>3. CASE \/ ProbeFails \/ ProbeSucceeds \/ \E fails \in BOOLEAN : Listen(fails)
           \/ AcceptBegins \/ Accepts
  BY <1>3 DEF ProbeFails, ProbeSucceeds, Listen, AcceptBegins, Accepts
<1>4. CASE Main
  BY <1>4 DEF Main, AcceptBegins, AcceptFails, Connects, Create, ConnectFails, IsClosed,
              CloseClient, CloseServer, Join, EnqueueSentinel, JoinTracer
<1> QED  BY <1>1, <1>2, <1>3, <1>4 DEF Next

\* To whom a thread delivers a packet: to the other peer, whose descriptor is there,
\* or to the next client.
Delivery(d, s) ==
  LET packet == Head(local[d].buf)
  IN  /\ session # 0
      /\ Kept(packet) /\ packet \in Packet /\ packet.from = <<d, session>>
      /\ s \notin closed
      /\ arrived' = [arrived EXCEPT ![s] = Append(@, packet)]
      /\ \/ s = <<Other(d), session>>
         \/ s = NextClient /\ session + 1 \in reused
      /\ s = <<Other(d), session>> => fds[Other(d)] # NoFd
      /\ s # <<Other(d), session>> => fds[Other(d)] = NoFd

LEMMA Delivers ==
  ASSUME Control, Closing, Descriptors, Buffers, Connections, Reading, arrived' # arrived,
         NEW d \in Side, Write(d)
  PROVE  \E s \in Socket : Delivery(d, s)
<1> DEFINE packet == Head(local[d].buf)
           s == table[local[d].dst]
<1>1. /\ pc[d] = "write" /\ Kept(packet) /\ s \in Socket \ closed
      /\ arrived' = [arrived EXCEPT ![s] = Append(@, packet)]
  BY DEF Write
<1>2. session # 0 /\ session \in Nat
  BY <1>1 DEF Control
<1>3. FromPeer(d) /\ Reach(local[d].dst, Other(d))
  BY <1>1 DEF Reading, At
<1>4. local[d].buf \in Seq(Packet) /\ local[d].buf # <<>>
  BY <1>1 DEF Buffers
<1>5. packet \in Packet /\ packet.from = <<d, session>>
  <2>1. packet \in Packet /\ packet = local[d].buf[1] /\ 1 \in DOMAIN local[d].buf
    BY <1>4
  <2> QED  BY <1>3, <2>1 DEF FromPeer
<1>6. \/ s = <<Other(d), session>> /\ fds[Other(d)] # NoFd
      \/ s = NextClient /\ session + 1 \in reused /\ fds[Other(d)] = NoFd
  <2>1. Other(d) \in Side
    BY Others
  <2> DEFINE f == local[d].dst
             e == Other(d)
  <2>2. Reach(f, e) /\ table[f] \in Socket /\ e \in Side
    BY <1>1, <1>3, <2>1
  <2> HIDE DEF f, e
  <2>3. \/ fds[e] = f /\ table[f] = <<e, session>>
        \/ /\ dead /\ fds[e] = NoFd
           /\ table[f] = NextClient /\ session + 1 \in reused
    BY <1>2, <2>2, ReachedSocket
  <2>4. f \in Number
    BY <2>2 DEF Reach, Connections
  <2>5. f # NoFd
    BY <2>4 DEF Number, NoFd
  <2> QED  BY <2>3, <2>5 DEF f, e
<1>7. NextClient # <<Other(d), session>>
  BY <1>2 DEF NextClient
<1> HIDE DEF packet, s
<1>8. s \in Socket /\ s \notin closed
  BY <1>1
<1>9. Delivery(d, s)
  BY <1>1, <1>2, <1>5, <1>6, <1>7, <1>8 DEF Delivery, packet
<1> QED  BY <1>8, <1>9

LEMMA Delivered ==
  ASSUME Control, Closing, Descriptors, Buffers, Connections, Reading, [Next]_vars,
         arrived' # arrived
  PROVE  \E d \in Side : \E s \in Socket : Write(d) /\ Delivery(d, s)
<1>1. ASSUME NEW d \in Side, Thread(d), ~Write(d)
      PROVE  arrived' = arrived
  BY <1>1 DEF Thread, Check, Enter, Read, ReadEnd, Copy, Write, Enqueue, IsClosed,
              CloseClient, CloseServer
<1>2. CASE \/ UNCHANGED vars \/ Tracer \/ Signal
           \/ \E s \in Socket : PeerSends(s) \/ PeerCloses(s)
  BY <1>2 DEF vars, Tracer, Signal, PeerSends, PeerCloses
<1>3. CASE \/ ProbeFails \/ ProbeSucceeds \/ \E fails \in BOOLEAN : Listen(fails)
           \/ AcceptBegins \/ Accepts
  BY <1>3 DEF ProbeFails, ProbeSucceeds, Listen, AcceptBegins, Accepts
<1>4. CASE Main
  BY <1>4 DEF Main, AcceptBegins, AcceptFails, Connects, Create, ConnectFails,
              IsClosed, CloseClient, CloseServer, Join, EnqueueSentinel, JoinTracer
<1>5. PICK d \in Side : Write(d)
  BY <1>1, <1>2, <1>3, <1>4 DEF Next
<1> QED  BY <1>5, Delivers

LEMMA OwnStep ==
  ASSUME Control, Closing, Descriptors, Buffers, Connections, Reading, Own, [Next]_vars
  PROVE  Own'
<1>1. reused \subseteq reused'
  BY ReusedGrows
<1>2. CASE arrived' = arrived
  BY <1>1, <1>2 DEF Own, OwnPeersOnly
<1>3. CASE arrived' # arrived
  <2>1. PICK d \in Side, t \in Socket : Delivery(d, t)
    BY <1>3, Delivered
  <2> DEFINE packet == Head(local[d].buf)
  <2>2. /\ session \in Nat /\ packet \in Packet /\ packet.from = <<d, session>>
        /\ arrived' = [arrived EXCEPT ![t] = Append(@, packet)]
        /\ \/ t = <<Other(d), session>>
           \/ t = NextClient /\ session + 1 \in reused
    BY <2>1 DEF Control, Delivery
  <2> HIDE DEF packet
  <2>3. /\ arrived \in [Socket -> Seq(Packet)]
        /\ arrived' \in [Socket -> Seq(Packet)]
        /\ \A s \in Socket \ {t} : arrived'[s] = arrived[s]
        /\ arrived'[t] = Append(arrived[t], packet)
    BY <2>2 DEF Own
  <2>4. \/ packet.from = <<Other(t[1]), t[2]>>
        \/ t[1] = "client" /\ t[2] \in reused /\ packet.from[2] = t[2] - 1
    BY <2>2, Others DEF NextClient
  <2>5. ASSUME NEW s \in Socket, NEW i \in 1 .. Len(arrived'[s])
        PROVE  LET peer == arrived'[s][i].from
               IN  \/ peer = <<Other(s[1]), s[2]>>
                   \/ s[1] = "client" /\ s[2] \in reused /\ peer[2] = s[2] - 1
    <3>1. CASE s # t \/ i # Len(arrived[t]) + 1
      <4>1. i \in 1 .. Len(arrived[s]) /\ arrived'[s][i] = arrived[s][i]
        BY <2>3, <2>5, <3>1
      <4> QED  BY <4>1 DEF Own, OwnPeersOnly
    <3>2. CASE s = t /\ i = Len(arrived[t]) + 1
      <4>1. arrived'[s][i] = packet
        BY <2>3, <3>2
      <4> QED  BY <2>4, <3>2, <4>1
    <3> QED  BY <3>1, <3>2
  <2> QED  BY <1>1, <2>3, <2>5 DEF Own, OwnPeersOnly
<1> QED  BY <1>2, <1>3

\* What a new element does to the packets from s.
LEMMA OfAppend ==
  ASSUME NEW T, NEW q \in Seq(T), NEW e, NEW s
  PROVE  /\ Of(Append(q, e), s) = IF e.from = s THEN Of(q, s) \cup {e.n} ELSE Of(q, s)
         /\ Ascends(q, s) /\ (e.from = s => \A n \in Of(q, s) : n < e.n)
              => Ascends(Append(q, e), s)
<1> DEFINE r == Append(q, e)
<1>1. /\ DOMAIN r = DOMAIN q \cup {Len(q) + 1} /\ Len(q) \in Nat /\ DOMAIN q = 1 .. Len(q)
      /\ r[Len(q) + 1] = e /\ \A i \in DOMAIN q : r[i] = q[i]
  OBVIOUS
<1> HIDE DEF r
<1>2. Of(r, s) = IF e.from = s THEN Of(q, s) \cup {e.n} ELSE Of(q, s)
  BY <1>1 DEF Of
<1>3. ASSUME Ascends(q, s), e.from = s => \A n \in Of(q, s) : n < e.n
      PROVE  Ascends(r, s)
  <2> SUFFICES ASSUME NEW i \in DOMAIN r, NEW j \in DOMAIN r, i < j,
                      r[i].from = s, r[j].from = s
               PROVE  r[i].n < r[j].n
    BY DEF Ascends
  <2>1. i \in DOMAIN q /\ r[i] = q[i]
    BY <1>1
  <2>2. CASE j \in DOMAIN q
    BY <1>1, <1>3, <2>1, <2>2 DEF Ascends
  <2>3. CASE j = Len(q) + 1
    <3>1. q[i].n \in Of(q, s)
      BY <2>1 DEF Of
    <3> QED  BY <1>1, <1>3, <2>1, <2>3, <3>1
  <2> QED  BY <1>1, <2>2, <2>3
<1> QED  BY <1>2, <1>3 DEF r

\* What is of a peer changes with the steps of the thread of its session that reads
\* from it.
LEMMA Untouched ==
  ASSUME Control, Closing, Descriptors, Buffers, Queue, Connections, Reading, Own,
         [Next]_vars, NEW s \in Socket, s \notin Side \X reused
  PROVE  /\ \/ session = s[2] /\ Enqueue(s[1])
            \/ /\ Of(log, s)' = Of(log, s)
               /\ Ascends(log, s) => Ascends(log, s)'
         /\ \/ session = s[2] /\ Write(s[1])
            \/ arrived'[<<Other(s[1]), s[2]>>] = arrived[<<Other(s[1]), s[2]>>]
         /\ \/ session = s[2] /\ \E n \in 1 .. MaxSent : Read(s[1], n)
            \/ taken'[s] = taken[s]
<1>0. /\ s[1] \in Side /\ s[2] \in Nat \ {0} /\ s = <<s[1], s[2]>> /\ s[2] \notin reused
      /\ s # NoSocket
  BY DEF Socket, NoSocket, Side
<1>1. \/ session = s[2] /\ Enqueue(s[1])
      \/ Of(log, s)' = Of(log, s) /\ (Ascends(log, s) => Ascends(log, s)')
  <2>1. ASSUME NEW e, log' = Append(log, e), e.from # s
        PROVE  Of(log, s)' = Of(log, s) /\ (Ascends(log, s) => Ascends(log, s)')
    <3>1. log \in Seq(Packet \cup {Sentinel})
      BY DEF Queue
    <3>2. /\ Of(Append(log, e), s) = Of(log, s)
          /\ Ascends(log, s) => Ascends(Append(log, e), s)
      BY <2>1, <3>1, OfAppend
    <3>3. Of(log, s)' = Of(log', s) /\ (Ascends(log, s)' <=> Ascends(log', s))
      BY DEF Of, Ascends
    <3> QED  BY <2>1, <3>2, <3>3
  <2>2. CASE log' = log
    BY <2>2 DEF Of, Ascends
  <2>3. ASSUME NEW d \in Side, Enqueue(d)
        PROVE  \/ session = s[2] /\ Enqueue(s[1])
               \/ Of(log, s)' = Of(log, s) /\ (Ascends(log, s) => Ascends(log, s)')
    <3>1. log' = Append(log, Head(local[d].buf)) /\ pc[d] = "enqueue"
      BY <2>3 DEF Enqueue, Enqueued
    <3>2. local[d].buf \in Seq(Packet) /\ local[d].buf # <<>>
      BY <3>1 DEF Buffers
    <3>3. Head(local[d].buf) = local[d].buf[1] /\ 1 \in DOMAIN local[d].buf
      BY <3>2
    <3>4. Head(local[d].buf).from = <<d, session>>
      BY <3>1, <3>3 DEF Reading, At, FromPeer
    <3>5. CASE s = <<d, session>>
      BY <2>3, <3>5
    <3>6. CASE s # <<d, session>>
      BY <2>1, <3>1, <3>4, <3>6
    <3> QED  BY <3>5, <3>6
  <2>4. CASE EnqueueSentinel
    <3>1. log' = Append(log, Sentinel) /\ Sentinel.from # s
      BY <1>0, <2>4 DEF EnqueueSentinel, Sentinel
    <3> QED  BY <2>1, <3>1
  <2>5. ASSUME NEW d \in Side, Thread(d), ~Enqueue(d)
        PROVE  log' = log
    BY <2>5 DEF Thread, Check, Enter, Read, ReadEnd, Copy, Write, IsClosed, CloseClient,
                CloseServer, queue
  <2>6. CASE \/ UNCHANGED vars \/ Tracer \/ Signal
             \/ \E x \in Socket : PeerSends(x) \/ PeerCloses(x)
    BY <2>2, <2>6 DEF vars, Tracer, Signal, PeerSends, PeerCloses, queue
  <2>7. CASE \/ ProbeFails \/ ProbeSucceeds \/ \E fails \in BOOLEAN : Listen(fails)
             \/ AcceptBegins \/ Accepts
    BY <2>2, <2>7 DEF ProbeFails, ProbeSucceeds, Listen, AcceptBegins, Accepts, queue
  <2>8. CASE Main /\ ~EnqueueSentinel
    <3>1. log' = log
      BY <2>8 DEF Main, AcceptBegins, AcceptFails, Connects, Create, ConnectFails,
                  IsClosed, CloseClient, CloseServer, Join, JoinTracer, queue
    <3> QED  BY <2>2, <3>1
  <2> QED  BY <2>2, <2>3, <2>4, <2>5, <2>6, <2>7, <2>8 DEF Next
<1>2. \/ session = s[2] /\ Write(s[1])
      \/ arrived'[<<Other(s[1]), s[2]>>] = arrived[<<Other(s[1]), s[2]>>]
  <2>1. CASE arrived' = arrived
    BY <2>1
  <2>2. CASE arrived' # arrived
    <3>0. PICK d \in Side, t \in Socket : Write(d) /\ Delivery(d, t)
      BY <2>2, Delivered
    <3>1. /\ Write(d)
          /\ arrived' = [arrived EXCEPT ![t] = Append(@, Head(local[d].buf))]
          /\ \/ t = <<Other(d), session>>
             \/ t = NextClient /\ session + 1 \in reused
      BY <3>0 DEF Delivery
    <3> DEFINE peer == <<Other(s[1]), s[2]>>
    <3>2. CASE peer # t
      <4>1. peer \in Socket
        BY <1>0, Others DEF Socket
      <4>2. arrived'[peer] = arrived[peer]
        <5>1. arrived \in [Socket -> Seq(Packet)]
          BY DEF Own
        <5> HIDE DEF peer
        <5> QED  BY <3>1, <3>2, <4>1, <5>1
      <4> QED  BY <4>2
    <3>3. CASE peer = t
      <4>1. t = <<Other(d), session>>
        BY <1>0, <3>1, <3>3 DEF NextClient
      <4>2. s[2] = session /\ Other(s[1]) = Other(d)
        BY <3>3, <4>1
      <4>3. s[1] = d
        BY <1>0, <4>2, Others
      <4> QED  BY <3>1, <4>2, <4>3
    <3> QED  BY <3>2, <3>3
  <2> QED  BY <2>1, <2>2
<1>3. \/ session = s[2] /\ \E n \in 1 .. MaxSent : Read(s[1], n)
      \/ taken'[s] = taken[s]
  <2>1. ASSUME NEW d \in Side, NEW n \in 1 .. MaxSent, Read(d, n)
        PROVE  \/ session = s[2] /\ \E m \in 1 .. MaxSent : Read(s[1], m)
               \/ taken'[s] = taken[s]
    <3>1. /\ pc[d] = "read" /\ taken \in [Socket -> 0 .. MaxSent]
          /\ taken' = [taken EXCEPT ![local[d].socket] = @ + n]
      BY <2>1 DEF Read, Buffers
    <3>2. \/ local[d].socket = <<d, session>>
          \/ local[d].socket = NextClient /\ session + 1 \in reused
      BY <3>1 DEF Reading, At
    <3>3. CASE s = <<d, session>>
      BY <2>1, <3>3
    <3>4. CASE s # <<d, session>>
      <4>1. s # local[d].socket
        BY <1>0, <3>2, <3>4 DEF NextClient
      <4> QED  BY <3>1, <4>1
    <3> QED  BY <3>3, <3>4
  <2>2. ASSUME NEW d \in Side, Thread(d), \A n \in 1 .. MaxSent : ~Read(d, n)
        PROVE  taken' = taken
    BY <2>2 DEF Thread, Check, Enter, ReadEnd, Copy, Write, Enqueue, IsClosed,
                CloseClient, CloseServer
  <2>3. CASE \/ UNCHANGED vars \/ Tracer \/ Signal
             \/ \E x \in Socket : PeerSends(x) \/ PeerCloses(x)
    BY <2>3 DEF vars, Tracer, Signal, PeerSends, PeerCloses
  <2>4. CASE \/ ProbeFails \/ ProbeSucceeds \/ \E fails \in BOOLEAN : Listen(fails)
             \/ AcceptBegins \/ Accepts
    BY <2>4 DEF ProbeFails, ProbeSucceeds, Listen, AcceptBegins, Accepts
  <2>5. CASE Main
    BY <2>5 DEF Main, AcceptBegins, AcceptFails, Connects, Create, ConnectFails,
                IsClosed, CloseClient, CloseServer, Join, EnqueueSentinel, JoinTracer
  <2> QED  BY <2>1, <2>2, <2>3, <2>4, <2>5 DEF Next
<1> QED  BY <1>1, <1>2, <1>3

----------------------------------------------------------------------------
(* The trace. *)

\* The last session that there was.
Last == IF session # 0 THEN session
        ELSE IF pc["main"] \in {"connect", "create"} THEN count - 1 ELSE count

\* Nothing came yet from the peers of a session that there was not.
Fresh ==
  \A s \in Socket : s \in Side \X reused \/
    (s[2] > Last => /\ taken[s] = 0 /\ Of(log, s) = {}
                    /\ arrived[<<Other(s[1]), s[2]>>] = <<>>)

\* The thread that reads from s has in its buffer what comes after the first m
\* packets, all that was taken; or nothing, and m is what was taken.  But what is
\* read when the session is dead may never be traced.
Pending(s, m) ==
  LET d == s[1]
      buf == local[d].buf
  IN  /\ pc[d] \in {"enter", "read"} => m = taken[s]
      /\ pc[d] = "check" => dead \/ m = taken[s]
      /\ pc[d] \in {"copy", "write", "enqueue"} =>
           \/ dead /\ pc[d] = "copy"
           \/ /\ m + Len(buf) = taken[s]
              /\ \A i \in DOMAIN buf : buf[i].n = m + i

\* What the peer had to receive of the first m packets, and of the one that is
\* written, but not traced yet.
Due(s, m) ==
  IF session = s[2] /\ pc[s[1]] = "enqueue" THEN (1 .. m + 1) \ Dropped
                                            ELSE (1 .. m) \ Dropped

\* It received them up to some packet, and as long as it is there all of them.
Received(s, m) ==
  LET peer == <<Other(s[1]), s[2]>>
      received == Of(arrived[peer], s)
  IN  /\ Ascends(arrived[peer], s)
      /\ received \subseteq Due(s, m)
      /\ \A n \in received : (1 .. n) \ Dropped \subseteq received
      /\ session = s[2] /\ peer \notin closed /\ fds[Other(s[1])] # NoFd
           => Due(s, m) \subseteq received

\* The first m packets from s are traced.
TracedTo(s, m) ==
  /\ Ascends(log, s) /\ Of(log, s) = 1 .. m
  /\ session = s[2] => Pending(s, m)
  /\ Received(s, m)

Tracing ==
  \A s \in Socket : s \in Side \X reused \/ \E m \in 0 .. taken[s] : TracedTo(s, m)

LEMMA LastGrows ==
  ASSUME Control, Control', Descriptors, Connections, [Next]_vars
  PROVE  /\ Last \in Int /\ Last' \in Int /\ Last <= Last'
         /\ session # 0 => Last = session
<1> USE DEF sess, threads
<1>0. /\ count \in Nat /\ session \in Nat /\ count' \in Nat /\ session' \in Nat
      /\ MainLabel \subseteq MainLabel \cup ThreadLabel
  BY DEF Control
<1>1. "main" \in Closer /\ Side \subseteq Closer /\ "main" \notin Side
  BY Sides
<1>2. ASSUME NEW l \in MainLabel, Goto("main", l)
      PROVE  pc'["main"] = l
  BY <1>1, <1>2, Labels
<1>3. Last \in Int /\ Last' \in Int /\ (session # 0 => Last = session)
  BY <1>0 DEF Last
<1>4. CASE session # 0 /\ session' # 0
  BY <1>0, <1>4, GoesOn DEF Last
<1>5. CASE UNCHANGED <<count, session>>
           /\ \/ pc'["main"] = pc["main"] \/ pc'["main"] \notin {"connect", "create"}
              \/ pc["main"] = "connect"
  BY <1>0, <1>5 DEF Last
<1>6. CASE Join
  <2>1. /\ pc["main"] = "join" /\ session' = 0
        /\ UNCHANGED <<count, new>>
        /\ Goto("main", IF new # NoFd THEN "connect" ELSE "sentinel")
    BY <1>6 DEF Join
  <2>2. pc'["main"] = IF new # NoFd THEN "connect" ELSE "sentinel"
    BY <1>2, <2>1 DEF MainLabel
  <2>3. session # 0 /\ count = IF new # NoFd THEN session + 1 ELSE session
    BY <2>1 DEF Connections, Control, Leaving
  <2>4. CASE new # NoFd
    <3>1. Last = session /\ Last' = session
      BY <1>0, <2>1, <2>2, <2>3, <2>4 DEF Last
    <3> QED  BY <1>0, <1>3, <3>1
  <2>5. CASE new = NoFd
    <3>1. Last = session /\ Last' = session
      BY <1>0, <2>1, <2>2, <2>3, <2>5 DEF Last
    <3> QED  BY <1>0, <1>3, <3>1
  <2> QED  BY <2>4, <2>5
<1>7. CASE Create
  <2>1. pc["main"] = "create" /\ session = 0 /\ session' = count /\ count > 0
    BY <1>7 DEF Create, Control
  <2>2. Last = count - 1
    BY <2>1 DEF Last
  <2>3. session' # 0
    BY <1>0, <2>1
  <2>4. Last' = session'
    BY <2>3 DEF Last
  <2> QED  BY <1>0, <1>3, <2>1, <2>2, <2>4
<1>8. CASE Accepts /\ session = 0
  <2>1. /\ pc["main"] = "accept" /\ count' = count + 1 /\ session' = 0
        /\ pc'["main"] = "connect"
    BY <1>2, <1>8 DEF Accepts, MainLabel
  <2>2. Last = count /\ Last' = count
    BY <1>0, <1>8, <2>1 DEF Last
  <2> QED  BY <1>0, <1>3, <1>8, <2>2
<1>9. ASSUME NEW d \in Side, Thread(d)
      PROVE  UNCHANGED <<count, session>> /\ pc'["main"] = pc["main"]
  <2>1. UNCHANGED <<count, session>> /\ \E l \in ThreadLabel : Goto(d, l)
    BY <1>9, ThreadGoes
  <2> QED  BY <1>1, <2>1, Labels
<1>10. CASE UNCHANGED vars \/ Tracer \/ Signal \/ \E s \in Socket : PeerSends(s) \/ PeerCloses(s)
  BY <1>3, <1>5, <1>10 DEF vars, Tracer, Signal, PeerSends, PeerCloses
<1>11. CASE \/ ProbeFails \/ ProbeSucceeds \/ \E fails \in BOOLEAN : Listen(fails)
            \/ AcceptBegins \/ AcceptFails \/ Connects \/ ConnectFails
            \/ EnqueueSentinel \/ JoinTracer
            \/ IsClosed("main") \/ CloseClient("main") \/ CloseServer("main")
  <2>1. /\ UNCHANGED <<count, session>>
        /\ \/ \E l \in MainLabel \ {"connect", "create"} : Goto("main", l)
           \/ pc["main"] = "connect"
    BY <1>11 DEF ProbeFails, ProbeSucceeds, Listen, AcceptBegins, AcceptFails, Connects,
                 ConnectFails, EnqueueSentinel, JoinTracer, AfterLoop, IsClosed,
                 CloseClient, CloseServer, AfterClosing, MainLabel
  <2> QED  BY <1>2, <1>3, <1>5, <2>1
<1>12. CASE Accepts /\ session # 0
  BY <1>3, <1>4, <1>12 DEF Accepts
<1> QED  BY <1>3, <1>5, <1>6, <1>7, <1>8, <1>9, <1>10, <1>11, <1>12 DEF Next, Main

LEMMA FreshStep ==
  ASSUME Control, Control', Closing, Descriptors, Buffers, Queue, Connections, Reading,
         Own, Fresh, [Next]_vars
  PROVE  Fresh'
<1> SUFFICES ASSUME NEW s \in Socket, s \notin Side \X reused', s[2] > Last'
             PROVE  /\ taken'[s] = 0 /\ Of(log, s)' = {}
                    /\ arrived'[<<Other(s[1]), s[2]>>] = <<>>
  BY DEF Fresh
<1>1. s \notin Side \X reused /\ s[2] \in Nat
  BY ReusedGrows DEF Socket
<1>2. s[2] > Last /\ session # s[2]
  <2>1. /\ Last \in Int /\ Last' \in Int /\ Last <= Last'
        /\ session # 0 => Last = session
    BY LastGrows
  <2>2. s[2] > Last
    BY <1>1, <2>1
  <2> QED  BY <1>1, <2>1, <2>2 DEF Socket
<1>3. taken[s] = 0 /\ Of(log, s) = {} /\ arrived[<<Other(s[1]), s[2]>>] = <<>>
  BY <1>1, <1>2 DEF Fresh
<1> QED  BY <1>1, <1>2, <1>3, Untouched

LEMMA ClosedGrows ==
  ASSUME [Next]_vars
  PROVE  closed \subseteq closed'
<1> USE DEF peers
<1>1. ASSUME NEW d \in Side, Thread(d)
      PROVE  closed' = closed
  BY <1>1 DEF Thread, Check, Enter, Read, ReadEnd, Copy, Write, Enqueue, IsClosed,
              CloseClient, CloseServer
<1>2. CASE UNCHANGED vars \/ Tracer \/ Signal
  BY <1>2 DEF vars, Tracer, Signal
<1>3. CASE \E s \in Socket : PeerSends(s) \/ PeerCloses(s)
  BY <1>3 DEF PeerSends, PeerCloses
<1>4. CASE \/ ProbeFails \/ ProbeSucceeds \/ \E fails \in BOOLEAN : Listen(fails)
           \/ AcceptBegins \/ Accepts
  BY <1>4 DEF ProbeFails, ProbeSucceeds, Listen, AcceptBegins, Accepts
<1>5. CASE Main
  BY <1>5 DEF Main, AcceptBegins, AcceptFails, Connects, Create, ConnectFails, IsClosed,
              CloseClient, CloseServer, Join, EnqueueSentinel, JoinTracer
<1> QED  BY <1>1, <1>2, <1>3, <1>4, <1>5 DEF Next

\* A session begins: nothing came yet from its peers.
LEMMA TracingBegins ==
  ASSUME Control, Control', Fresh, NEW s \in Socket, s \notin Side \X reused, Create,
         session' = s[2]
  PROVE  taken' = taken /\ taken[s] = 0 /\ TracedTo(s, 0)'
<1> DEFINE peer == <<Other(s[1]), s[2]>>
<1>1. /\ pc["main"] = "create" /\ session = 0 /\ session' = count /\ s[1] \in Side
      /\ UNCHANGED <<taken, log, arrived>> /\ count \in Nat
  BY DEF Create, Control, Socket, queue
<1>2. Last = count - 1
  BY <1>1 DEF Last
<1>3. s[2] > Last
  BY <1>1, <1>2
<1>4. taken[s] = 0 /\ Of(log, s) = {} /\ arrived[peer] = <<>>
  BY <1>3 DEF Fresh
<1>5. pc'[s[1]] = "check"
  BY <1>1, Sides DEF Create
<1>6. Ascends(log, s)
  BY <1>4 DEF Of, Ascends
<1>7. Ascends(log, s)' /\ Of(log, s)' = 1 .. 0
  BY <1>1, <1>4, <1>6 DEF Of, Ascends
<1>8. Pending(s, 0)'
  BY <1>1, <1>4, <1>5 DEF Pending
<1>9. Received(s, 0)'
  <2>1. arrived'[peer] = <<>>
    BY <1>1, <1>4
  <2>2. Of(arrived[peer], s)' = {} /\ Ascends(arrived[peer], s)'
    BY <2>1 DEF Of, Ascends
  <2>3. Due(s, 0)' = {}
    BY <1>5 DEF Due
  <2> HIDE DEF Of, Due, Ascends
  <2> QED  BY <2>2, <2>3 DEF Received
<1> QED  BY <1>1, <1>4, <1>7, <1>8, <1>9 DEF TracedTo

\* What is received stays what it is as long as the thread does not write or enqueue.
LEMMA ReceivedStays ==
  ASSUME NEW s \in Socket, NEW m, Received(s, m), Due(s, m)' = Due(s, m),
         arrived'[<<Other(s[1]), s[2]>>] = arrived[<<Other(s[1]), s[2]>>],
         closed \subseteq closed',
         session' = s[2] => session = s[2] /\ fds'[Other(s[1])] \in {NoFd, fds[Other(s[1])]}
  PROVE  Received(s, m)'
<1> DEFINE peer == <<Other(s[1]), s[2]>>
<1>1. Of(arrived[peer], s)' = Of(arrived[peer], s)
  BY DEF Of
<1>2. Ascends(arrived[peer], s)' <=> Ascends(arrived[peer], s)
  BY DEF Ascends
<1> HIDE DEF Of, Due, Ascends
<1> QED  BY <1>1, <1>2 DEF Received

\* The steps of all but the thread.
LEMMA TracingStays ==
  ASSUME Control, Control', Closing, Descriptors, Buffers, Queue, Connections, Reading,
         Own, [Next]_vars, NEW s \in Socket, s \notin Side \X reused, ~Thread(s[1]),
         ~(Create /\ session' = s[2]), NEW m, TracedTo(s, m)
  PROVE  taken'[s] = taken[s] /\ TracedTo(s, m)'
<1> DEFINE d == s[1]
           peer == <<Other(s[1]), s[2]>>
<1>0. d \in Side /\ s[2] \in Nat \ {0} /\ s = <<d, s[2]>> /\ Other(d) \in Side
  BY Others DEF Socket
<1>1. /\ Of(log, s)' = Of(log, s) /\ (Ascends(log, s) => Ascends(log, s)')
      /\ arrived'[peer] = arrived[peer] /\ taken'[s] = taken[s]
  BY <1>0, Untouched DEF Thread
<1>2. \/ pc'[d] = pc[d] /\ local'[d] = local[d]
      \/ Create /\ session' # s[2]
  BY <1>0, Moves
<1>3. session' = s[2] => session = s[2]
  <2>1. CASE session # 0
    BY <1>0, <2>1, GoesOn
  <2>2. CASE session = 0
    <3>1. session' = 0 \/ Create
      <4>1. ASSUME NEW e \in Side, Thread(e)
            PROVE  session' = session
        BY <4>1, ThreadGoes
      <4>2. CASE \/ UNCHANGED vars \/ Tracer \/ Signal
                 \/ \E x \in Socket : PeerSends(x) \/ PeerCloses(x)
        <5>1. session' = session
          BY <4>2 DEF vars, Tracer, Signal, PeerSends, PeerCloses, sess
        <5> QED  BY <2>2, <5>1
      <4>3. CASE \/ ProbeFails \/ ProbeSucceeds \/ \E fails \in BOOLEAN : Listen(fails)
                 \/ AcceptBegins \/ Accepts
        <5>1. session' = session
          BY <4>3 DEF ProbeFails, ProbeSucceeds, Listen, AcceptBegins, Accepts, sess
        <5> QED  BY <2>2, <5>1
      <4>4. CASE Main /\ ~Create
        <5>1. session' = session \/ session' = 0
          BY <4>4 DEF Main, AcceptBegins, AcceptFails, Connects, ConnectFails, IsClosed,
                      CloseClient, CloseServer, Join, EnqueueSentinel, JoinTracer, sess
        <5>2. session' = 0
          BY <2>2, <5>1
        <5> QED  BY <5>2
      <4>5. session' = session => session' = 0
        BY <2>2
      <4> QED  BY <4>1, <4>2, <4>3, <4>4, <4>5 DEF Next
    <3> QED  BY <1>0, <3>1
  <2> QED  BY <2>1, <2>2
<1>4. session' = s[2] => /\ fds'[Other(d)] \in {NoFd, fds[Other(d)]}
                         /\ dead => dead'
                         /\ pc'[d] = pc[d] /\ local'[d] = local[d]
  BY <1>0, <1>2, <1>3, GoesOn
<1>5. session = s[2] /\ session' # s[2] => pc[d] = "done"
  <2>1. ASSUME session = s[2], session' # s[2]
        PROVE  pc[d] = "done"
    <3>1. session' = 0
      BY <1>0, <2>1, GoesOn
    <3>2. pc'[d] = "done"
      BY <1>0, <3>1 DEF Control
    <3>3. ~Create
      BY <1>0, <2>1 DEF Create, Control
    <3> QED  BY <1>2, <3>2, <3>3
  <2> QED  BY <2>1
<1>6. Due(s, m)' = Due(s, m)
  BY <1>3, <1>4, <1>5 DEF Due
<1>7. Received(s, m)'
  BY <1>1, <1>3, <1>4, <1>6, ClosedGrows, ReceivedStays DEF TracedTo
<1>8. session' = s[2] => Pending(s, m)'
  <2>1. ASSUME session' = s[2]
        PROVE  Pending(s, m)'
    <3>1. /\ Pending(s, m) /\ pc'[d] = pc[d] /\ local'[d] = local[d] /\ (dead => dead')
      BY <1>3, <1>4, <2>1 DEF TracedTo
    <3> QED  BY <1>1, <3>1 DEF Pending
  <2> QED  BY <2>1
<1> QED  BY <1>1, <1>7, <1>8 DEF TracedTo

\* The thread neither writes nor enqueues.
LEMMA TracingQuiet ==
  ASSUME Control, Closing, Descriptors, Buffers, Queue, Holding, Connections, Reading,
         Own, [Next]_vars, NEW s \in Socket, s \notin Side \X reused, Thread(s[1]),
         session = s[2], session' = s[2], ~Write(s[1]), ~Enqueue(s[1]),
         NEW m \in 0 .. taken[s], TracedTo(s, m)
  PROVE  taken[s] <= taken'[s] /\ taken'[s] \in Nat /\ TracedTo(s, m)'
<1> DEFINE d == s[1]
           peer == <<Other(s[1]), s[2]>>
<1>0. /\ d \in Side /\ s[2] \in Nat \ {0} /\ s = <<d, s[2]>> /\ Other(d) \in Side
      /\ Side \subseteq Closer /\ ThreadLabel \subseteq MainLabel \cup ThreadLabel
      /\ local \in [Side -> Record] /\ taken \in [Socket -> 0 .. MaxSent]
      /\ taken[s] \in Nat /\ m \in Nat
  BY Others, Sides DEF Socket, Buffers, Record
<1>1. /\ Of(log, s)' = Of(log, s) /\ (Ascends(log, s) => Ascends(log, s)')
      /\ arrived'[peer] = arrived[peer]
  BY <1>0, Untouched
<1>2. pc[d] # "enqueue" /\ pc'[d] # "enqueue"
  <2>1. /\ pc[d] # "enqueue"
        /\ \E l \in {"done", "enter", "read", "closing", "copy", "write", "check",
                     "closing2"} : Goto(d, l)
    BY <1>0, Sides DEF Thread, Check, Enter, Read, ReadEnd, Copy, IsClosed, CloseClient,
                       CloseServer, AfterClosing
  <2>2. pc'[d] \in {"done", "enter", "read", "closing", "copy", "write", "check",
                     "closing2"}
    BY <1>0, <2>1, Labels DEF ThreadLabel
  <2> QED  BY <2>1, <2>2
<1>3. /\ \A e \in Side : fds'[e] \in {NoFd, fds[e]}
      /\ dead => dead'
  BY <1>0, GoesOn
<1>4. Due(s, m)' = Due(s, m)
  BY <1>2 DEF Due
<1>5. Received(s, m)'
  BY <1>0, <1>1, <1>3, <1>4, ClosedGrows, ReceivedStays DEF TracedTo
<1>6. Pending(s, m)
  BY DEF TracedTo
<1>7. ASSUME UNCHANGED taken, Pending(s, m)'
      PROVE  taken[s] <= taken'[s] /\ taken'[s] \in Nat /\ TracedTo(s, m)'
  BY <1>0, <1>1, <1>5, <1>7 DEF TracedTo
<1>8. ASSUME pc'[d] \in {"closing", "closing2", "done"}
      PROVE  Pending(s, m)'
  BY <1>8 DEF Pending
<1>9. CASE Check(d)
  <2>1. /\ UNCHANGED <<taken, dead>> /\ pc[d] = "check"
        /\ Goto(d, IF dead THEN "done" ELSE "enter")
    BY <1>9 DEF Check, sess
  <2>2. pc'[d] = IF dead THEN "done" ELSE "enter"
    BY <1>0, <2>1, Labels DEF ThreadLabel
  <2>3. Pending(s, m)'
    BY <1>6, <2>1, <2>2 DEF Pending
  <2> QED  BY <1>7, <2>1, <2>3
<1>10. CASE Enter(d)
  <2>1. UNCHANGED taken /\ pc[d] = "enter" /\ (Goto(d, "read") \/ Goto(d, "closing"))
    BY <1>10 DEF Enter
  <2>2. pc'[d] = "read" \/ pc'[d] = "closing"
    BY <1>0, <2>1, Labels DEF ThreadLabel
  <2>3. Pending(s, m)'
    BY <1>6, <2>1, <2>2 DEF Pending
  <2> QED  BY <1>7, <2>1, <2>3
<1>11. ASSUME NEW n \in 1 .. MaxSent, Read(d, n)
       PROVE  taken[s] <= taken'[s] /\ taken'[s] \in Nat /\ TracedTo(s, m)'
  <2> DEFINE t == local[d].socket
  <2>1. /\ pc[d] = "read" /\ taken' = [taken EXCEPT ![t] = @ + n] /\ Goto(d, "copy")
        /\ local'[d].buf = Batch(t, n) /\ n \in Nat
    BY <1>0, <1>11 DEF Read, Idle
  <2>2. pc'[d] = "copy" /\ m = taken[s]
    BY <1>0, <1>6, <2>1, Labels DEF ThreadLabel, Pending
  <2>3. t = s \/ (dead /\ t # s)
    BY <1>0, <2>1 DEF Reading, At
  <2>4. CASE t = s
    <3>1. taken'[s] = taken[s] + n
      BY <1>0, <2>1, <2>4
    <3>2. Len(Batch(s, n)) = n /\ \A i \in DOMAIN Batch(s, n) : Batch(s, n)[i].n = taken[s] + i
      BY <2>1 DEF Batch
    <3>3. local'[d].buf = Batch(s, n)
      BY <2>1, <2>4
    <3>4. Pending(s, m)'
      BY <2>2, <3>1, <3>2, <3>3 DEF Pending
    <3>5. taken[s] <= taken'[s] /\ taken'[s] \in Nat
      BY <1>0, <2>1, <3>1
    <3> QED  BY <1>1, <1>5, <3>4, <3>5 DEF TracedTo
  <2>5. CASE dead /\ t # s
    <3>1. taken'[s] = taken[s]
      BY <1>0, <2>1, <2>5
    <3>2. Pending(s, m)'
      BY <1>3, <2>2, <2>5 DEF Pending
    <3> QED  BY <1>0, <1>1, <1>5, <3>1, <3>2 DEF TracedTo
  <2> QED  BY <2>3, <2>4, <2>5
<1>12. CASE Copy(d)
  <2>1. UNCHANGED <<taken, dead>> /\ pc[d] = "copy" /\ mutex = "none"
    BY <1>12 DEF Copy, sess
  <2>2. CASE fds[Other(d)] # NoFd
    <3>1. local'[d].buf = local[d].buf /\ Goto(d, "write")
      BY <1>0, <1>12, <2>2 DEF Copy, Record
    <3>2. pc'[d] = "write"
      BY <1>0, <3>1, Labels DEF ThreadLabel
    <3>3. ~dead
      BY <1>0, <2>1, <2>2, CopiesAlive
    <3>4. Pending(s, m)'
      BY <1>6, <2>1, <3>1, <3>2, <3>3 DEF Pending
    <3> QED  BY <1>7, <2>1, <3>4
  <2>3. CASE fds[Other(d)] = NoFd
    <3>1. Goto(d, "check")
      BY <1>12, <2>3 DEF Copy
    <3>2. pc'[d] = "check"
      BY <1>0, <3>1, Labels DEF ThreadLabel
    <3>3. dead
      BY <1>0, <2>3 DEF Connections, Closing
    <3>4. Pending(s, m)'
      BY <2>1, <3>2, <3>3 DEF Pending
    <3> QED  BY <1>7, <2>1, <3>4
  <2> QED  BY <2>2, <2>3
<1>13. CASE ReadEnd(d) \/ IsClosed(d) \/ CloseClient(d) \/ CloseServer(d)
  <2>1. /\ UNCHANGED taken
        /\ \E l \in {"closing", "closing2", "done"} : Goto(d, l)
    BY <1>0, <1>13, Sides DEF ReadEnd, IsClosed, CloseClient, CloseServer, AfterClosing
  <2>2. pc'[d] \in {"closing", "closing2", "done"}
    BY <1>0, <2>1, Labels DEF ThreadLabel
  <2> QED  BY <1>7, <1>8, <2>1, <2>2
<1> QED  BY <1>9, <1>10, <1>11, <1>12, <1>13 DEF Thread

\* The first packet that a thread has in its buffer is the next one.
LEMMA NextPacket ==
  ASSUME Buffers, Control, Reading, NEW s \in Socket, session = s[2],
         pc[s[1]] \in {"write", "enqueue"}, NEW m \in Nat, Pending(s, m)
  PROVE  LET buf == local[s[1]].buf
         IN  /\ buf \in Seq(Packet) /\ buf # <<>>
             /\ Head(buf) \in Packet /\ Head(buf).from = s /\ Head(buf).n = m + 1
             /\ m + Len(buf) = taken[s] /\ \A i \in DOMAIN buf : buf[i].n = m + i
<1> DEFINE d == s[1]
           buf == local[d].buf
<1>1. d \in Side /\ s = <<d, session>>
  BY DEF Socket
<1>2. buf \in Seq(Packet) /\ buf # <<>> /\ FromPeer(d)
  BY <1>1 DEF Buffers, Reading, At
<1>3. m + Len(buf) = taken[s] /\ \A i \in DOMAIN buf : buf[i].n = m + i
  BY DEF Pending
<1>4. Head(buf) = buf[1] /\ 1 \in DOMAIN buf /\ Head(buf) \in Packet
  BY <1>2
<1> QED  BY <1>1, <1>2, <1>3, <1>4 DEF FromPeer

LEMMA TracingWrites ==
  ASSUME Control, Closing, Descriptors, Buffers, Queue, Connections, Reading,
         Own, [Next]_vars, NEW s \in Socket, s \notin Side \X reused, Write(s[1]),
         session = s[2], session' = s[2], NEW m \in Nat, TracedTo(s, m)
  PROVE  taken'[s] = taken[s] /\ TracedTo(s, m)'
<1> DEFINE d == s[1]
           peer == <<Other(s[1]), s[2]>>
           packet == Head(local[s[1]].buf)
           R == Of(arrived[peer], s)
<1>0. /\ d \in Side /\ s[2] \in Nat \ {0} /\ s = <<d, s[2]>> /\ Other(d) \in Side
      /\ Side \subseteq Closer /\ ThreadLabel \subseteq MainLabel \cup ThreadLabel
      /\ local \in [Side -> Record] /\ peer \in Socket
  BY Others, Sides DEF Socket, Buffers, Record
<1>1. /\ pc[d] = "write" /\ Goto(d, "enqueue") /\ UNCHANGED <<log, taken, closed, fds>>
      /\ local'[d].buf = local[d].buf
  BY <1>0 DEF Write, queue, peers, sess, Record
<1>2. pc'[d] = "enqueue"
  BY <1>0, <1>1, Labels DEF ThreadLabel
<1>3. Pending(s, m) /\ Received(s, m) /\ Ascends(log, s) /\ Of(log, s) = 1 .. m
  BY DEF TracedTo
<1>4. packet \in Packet /\ packet.from = s /\ packet.n = m + 1
  BY <1>1, <1>3, NextPacket
<1>5. Pending(s, m)'
  BY <1>1, <1>2, <1>3 DEF Pending
<1>6. Due(s, m) = (1 .. m) \ Dropped /\ Due(s, m)' = (1 .. m + 1) \ Dropped
  BY <1>1, <1>2 DEF Due
<1>7. /\ Ascends(arrived[peer], s) /\ R \subseteq (1 .. m) \ Dropped
      /\ \A n \in R : (1 .. n) \ Dropped \subseteq R
      /\ peer \notin closed /\ fds[Other(d)] # NoFd => (1 .. m) \ Dropped \subseteq R
  BY <1>3, <1>6 DEF Received
<1>8. Received(s, m)'
  <2>1. ASSUME arrived'[peer] = arrived[peer],
               peer \notin closed /\ fds[Other(d)] # NoFd => m + 1 \in Dropped
        PROVE  Received(s, m)'
    <3>1. Of(arrived[peer], s)' = R /\ Ascends(arrived[peer], s)'
      BY <1>7, <2>1 DEF Of, Ascends
    <3>2. \A n \in (1 .. m + 1) : n \in 1 .. m \/ n = m + 1
      OBVIOUS
    <3>3. R \subseteq Due(s, m)'
      BY <1>6, <1>7
    <3>4. peer \notin closed' /\ fds'[Other(d)] # NoFd => Due(s, m)' \subseteq R
      BY <1>1, <1>6, <1>7, <2>1, <3>2
    <3> HIDE DEF Due, Of, Ascends, R
    <3> QED  BY <1>7, <3>1, <3>3, <3>4 DEF Received
  <2>2. CASE arrived' = arrived
    <3>1. ASSUME peer \notin closed, fds[Other(d)] # NoFd
          PROVE  m + 1 \in Dropped
      <4>1. Reach(local[d].dst, Other(d))
        BY <1>0, <1>1 DEF Reading, At
      <4>2. fds[Other(d)] = local[d].dst
        BY <3>1, <4>1 DEF Reach
      <4>3. table[local[d].dst] = peer
        BY <1>0, <3>1, <4>2 DEF Connections
      <4>4. CASE Kept(packet)
        <5>1. arrived' = [arrived EXCEPT ![peer] = Append(@, packet)]
          BY <1>0, <3>1, <4>3, <4>4 DEF Write
        <5>2. arrived[peer] \in Seq(Packet) /\ arrived'[peer] = Append(arrived[peer], packet)
          BY <1>0, <5>1 DEF Own
        <5>3. Len(Append(arrived[peer], packet)) # Len(arrived[peer])
          BY <5>2
        <5> QED  BY <2>2, <5>2, <5>3
      <4>5. CASE ~Kept(packet)
        BY <1>4, <4>5 DEF Kept
      <4> QED  BY <4>4, <4>5
    <3> QED  BY <2>1, <2>2, <3>1
  <2>3. ASSUME NEW t \in Socket, Delivery(d, t), arrived' # arrived
        PROVE  Received(s, m)'
    <3>1. /\ arrived \in [Socket -> Seq(Packet)]
          /\ arrived' = [arrived EXCEPT ![t] = Append(@, packet)]
          /\ Kept(packet) /\ t \notin closed
          /\ t = peer => fds[Other(d)] # NoFd
          /\ t # peer => fds[Other(d)] = NoFd
      BY <2>3 DEF Delivery, Own
    <3>2. CASE t # peer
      <4>1. arrived'[peer] = arrived[peer]
        <5> HIDE DEF peer
        <5> QED  BY <1>0, <3>1, <3>2
      <4> QED  BY <2>1, <3>1, <3>2, <4>1
    <3>3. CASE t = peer
      <4>1. arrived[peer] \in Seq(Packet) /\ arrived'[peer] = Append(arrived[peer], packet)
        <5> HIDE DEF peer, packet
        <5> QED  BY <1>0, <3>1, <3>3
      <4>2. m + 1 \notin Dropped
        BY <1>4, <3>1 DEF Kept
      <4>3. (1 .. m) \ Dropped \subseteq R
        BY <1>7, <3>1, <3>3
      <4>4. R = (1 .. m) \ Dropped
        BY <1>7, <4>3
      <4>5. \A n \in R : n < packet.n
        BY <1>4, <4>4
      <4>6. /\ Of(Append(arrived[peer], packet), s) = R \cup {packet.n}
            /\ Ascends(Append(arrived[peer], packet), s)
        <5>1. Ascends(arrived[peer], s) /\ packet.from = s
          BY <1>4, <1>7
        <5> QED  BY <4>1, <4>5, <5>1, OfAppend
      <4>7. Of(arrived[peer], s)' = R \cup {m + 1} /\ Ascends(arrived[peer], s)'
        BY <1>4, <4>1, <4>6 DEF Of, Ascends
      <4>8. R \cup {m + 1} = (1 .. m + 1) \ Dropped
        BY <4>2, <4>4
      <4>9. \A n \in (1 .. m + 1) \ Dropped :
              (1 .. n) \ Dropped \subseteq (1 .. m + 1) \ Dropped
        OBVIOUS
      <4> HIDE DEF Due, Of, Ascends, R
      <4> QED  BY <1>6, <4>7, <4>8, <4>9 DEF Received
    <3> QED  BY <3>2, <3>3
  <2> QED  BY <1>0, <2>2, <2>3, Delivers
<1>9. Ascends(log, s)' /\ Of(log, s)' = 1 .. m
  BY <1>1, <1>3 DEF Of, Ascends
<1> QED  BY <1>1, <1>5, <1>8, <1>9 DEF TracedTo

LEMMA TracingEnqueues ==
  ASSUME Control, Closing, Descriptors, Buffers, Queue, Connections, Reading,
         Own, [Next]_vars, NEW s \in Socket, s \notin Side \X reused, Enqueue(s[1]),
         session = s[2], session' = s[2], NEW m \in Nat, TracedTo(s, m)
  PROVE  taken'[s] = taken[s] /\ m + 1 <= taken[s] /\ TracedTo(s, m + 1)'
<1> DEFINE d == s[1]
           peer == <<Other(s[1]), s[2]>>
           buf == local[s[1]].buf
           rest == Tail(buf)
<1>0. /\ d \in Side /\ s[2] \in Nat \ {0} /\ s = <<d, s[2]>> /\ Other(d) \in Side
      /\ Side \subseteq Closer /\ ThreadLabel \subseteq MainLabel \cup ThreadLabel
      /\ local \in [Side -> Record]
  BY Others, Sides DEF Socket, Buffers, Record
<1>1. /\ pc[d] = "enqueue" /\ UNCHANGED <<arrived, taken, closed, fds>>
      /\ log' = Append(log, Head(buf))
      /\ local' = [local EXCEPT ![d] =
           IF rest = <<>> THEN Idle ELSE [@ EXCEPT !.buf = rest]]
      /\ Goto(d, CASE rest # <<>> -> "write"
                   [] rest = <<>> /\ local[d].failed   -> "closing"
                   [] rest = <<>> /\ ~local[d].failed  -> "check")
  BY DEF Enqueue, Enqueued, peers, sess
<1>2. Pending(s, m) /\ Received(s, m) /\ Ascends(log, s) /\ Of(log, s) = 1 .. m
  BY DEF TracedTo
<1>3. /\ buf \in Seq(Packet) /\ buf # <<>>
      /\ Head(buf) \in Packet /\ Head(buf).from = s /\ Head(buf).n = m + 1
      /\ m + Len(buf) = taken[s] /\ \A i \in DOMAIN buf : buf[i].n = m + i
  BY <1>1, <1>2, NextPacket
<1>4. /\ Len(rest) = Len(buf) - 1 /\ Len(buf) \in Nat \ {0}
      /\ \A i \in DOMAIN rest : i + 1 \in DOMAIN buf /\ rest[i] = buf[i + 1]
      /\ \A i \in DOMAIN rest : i \in Nat
  <2>1. rest \in Seq(Packet)
    BY <1>3, TailElements
  <2> QED  BY <1>3, <2>1, TailElements
<1>5. \A i \in DOMAIN rest : rest[i].n = m + 1 + i
  BY <1>3, <1>4
<1>6. m + 1 + Len(rest) = taken[s] /\ m + 1 <= taken[s]
  <2>1. Len(rest) = Len(buf) - 1 /\ Len(buf) \in Nat \ {0} /\ m + Len(buf) = taken[s]
    BY <1>3, <1>4
  <2> HIDE DEF rest, buf
  <2> QED  BY <2>1
<1>7. Ascends(log, s)' /\ Of(log, s)' = 1 .. m + 1
  <2>1. log \in Seq(Packet \cup {Sentinel})
    BY DEF Queue
  <2>2. \A n \in Of(log, s) : n < m + 1
    BY <1>2
  <2> DEFINE packet == Head(buf)
  <2>3. packet.from = s /\ packet.n = m + 1
    BY <1>3
  <2> HIDE DEF packet
  <2>4. Of(Append(log, packet), s) = Of(log, s) \cup {m + 1} /\ Ascends(Append(log, packet), s)
    BY <1>2, <2>1, <2>2, <2>3, OfAppend
  <2>5. (1 .. m) \cup {m + 1} = 1 .. m + 1
    OBVIOUS
  <2>6. log' = Append(log, packet)
    BY <1>1 DEF packet
  <2> QED  BY <1>2, <2>4, <2>5, <2>6 DEF Of, Ascends
<1> HIDE DEF rest, buf
<1>8. \/ rest # <<>> /\ pc'[d] = "write" /\ local'[d].buf = rest
      \/ rest = <<>> /\ pc'[d] \in {"closing", "check"}
  <2>1. CASE rest # <<>>
    <3>1. Goto(d, "write") /\ local'[d].buf = rest
      BY <1>0, <1>1, <2>1 DEF Record
    <3> QED  BY <1>0, <2>1, <3>1, Labels DEF ThreadLabel
  <2>2. CASE rest = <<>>
    <3>1. Goto(d, "closing") \/ Goto(d, "check")
      BY <1>0, <1>1, <2>2 DEF Record
    <3>2. pc'[d] \in {"closing", "check"}
      BY <1>0, <3>1, Labels DEF ThreadLabel
    <3> QED  BY <2>2, <3>2
  <2> QED  BY <2>1, <2>2
<1>9. Pending(s, m + 1)'
  <2>1. CASE rest # <<>>
    BY <1>1, <1>5, <1>6, <1>8, <2>1 DEF Pending
  <2>2. CASE rest = <<>>
    <3>1. m + 1 = taken[s]
      <4>1. Len(rest) = 0
        BY <2>2
      <4> QED  BY <1>6, <4>1
    <3> QED  BY <1>1, <1>8, <2>2, <3>1 DEF Pending
  <2> QED  BY <2>1, <2>2
<1>10. Due(s, m + 1)' = Due(s, m)
  BY <1>1, <1>8 DEF Due
<1>11. Received(s, m + 1)'
  <2>1. Of(arrived[peer], s)' = Of(arrived[peer], s) /\ (Ascends(arrived[peer], s)' <=> Ascends(arrived[peer], s))
    BY <1>1 DEF Of, Ascends
  <2> HIDE DEF Of, Due, Ascends
  <2> QED  BY <1>1, <1>2, <1>10, <2>1 DEF Received
<1> QED  BY <1>1, <1>6, <1>7, <1>9, <1>11 DEF TracedTo

LEMMA TracingStep ==
  ASSUME Control, Control', Closing, Descriptors, Buffers, Queue, Holding, Connections,
         Reading, Own, Fresh, Tracing, [Next]_vars
  PROVE  Tracing'
<1> SUFFICES ASSUME NEW s \in Socket, s \notin Side \X reused'
             PROVE  \E m \in 0 .. taken'[s] : TracedTo(s, m)'
  BY DEF Tracing
<1>1. /\ s \notin Side \X reused /\ s[1] \in Side
      /\ taken \in [Socket -> 0 .. MaxSent] /\ taken[s] \in Nat
  BY ReusedGrows DEF Socket, Buffers
<1>2. CASE Create /\ session' = s[2]
  <2>1. taken'[s] = 0 /\ TracedTo(s, 0)'
    BY <1>1, <1>2, TracingBegins
  <2>2. 0 \in 0 .. taken'[s]
    BY <2>1
  <2> QED  BY <2>1, <2>2
<1>3. CASE ~(Create /\ session' = s[2])
  <2>1. PICK m \in 0 .. taken[s] : TracedTo(s, m)
    BY <1>1 DEF Tracing
  <2>2. m \in Nat
    BY <1>1
  <2>3. CASE ~Thread(s[1])
    <3>1. taken'[s] = taken[s] /\ TracedTo(s, m)'
      BY <1>1, <1>3, <2>1, <2>3, TracingStays
    <3> QED  BY <3>1
  <2>4. CASE Thread(s[1]) /\ session # s[2]
    <3>1. /\ Of(log, s)' = Of(log, s) /\ (Ascends(log, s) => Ascends(log, s)')
          /\ arrived'[<<Other(s[1]), s[2]>>] = arrived[<<Other(s[1]), s[2]>>]
          /\ taken'[s] = taken[s]
      BY <1>1, <2>4, Untouched
    <3>2. session' = session
      BY <1>1, <2>4, ThreadGoes
    <3>3. Due(s, m)' = Due(s, m)
      BY <2>4, <3>2 DEF Due
    <3>4. Received(s, m)'
      BY <2>1, <2>4, <3>1, <3>2, <3>3, ClosedGrows, ReceivedStays DEF TracedTo
    <3>5. TracedTo(s, m)'
      BY <2>1, <2>4, <3>1, <3>2, <3>4 DEF TracedTo
    <3> QED  BY <3>1, <3>5
  <2>5. CASE Thread(s[1]) /\ session = s[2]
    <3>1. session' = s[2]
      BY <1>1, <2>5, ThreadGoes
    <3>2. CASE Write(s[1])
      <4>1. taken'[s] = taken[s] /\ TracedTo(s, m)'
        BY <1>1, <2>1, <2>2, <2>5, <3>1, <3>2, TracingWrites
      <4> QED  BY <4>1
    <3>3. CASE Enqueue(s[1])
      <4>1. taken'[s] = taken[s] /\ m + 1 <= taken[s] /\ TracedTo(s, m + 1)'
        BY <1>1, <2>1, <2>2, <2>5, <3>1, <3>3, TracingEnqueues
      <4>2. m + 1 \in 0 .. taken'[s]
        BY <1>1, <2>2, <4>1
      <4> QED  BY <4>1, <4>2
    <3>4. CASE ~Write(s[1]) /\ ~Enqueue(s[1])
      <4>1. taken[s] <= taken'[s] /\ taken'[s] \in Nat /\ TracedTo(s, m)'
        BY <1>1, <2>1, <2>5, <3>1, <3>4, TracingQuiet
      <4>2. m \in 0 .. taken'[s]
        BY <1>1, <2>1, <4>1
      <4> QED  BY <4>1, <4>2
    <3> QED  BY <3>2, <3>3, <3>4
  <2> QED  BY <2>3, <2>4, <2>5
<1> QED  BY <1>2, <1>3

----------------------------------------------------------------------------
LEMMA IInvIsInvariant == SpecAlone => []IInv
<1>1. IInv /\ [Next]_vars => IInv'
  BY ControlStep, ClosingStep, DescriptorsStep, BuffersStep, QueueStep DEF IInv
<1> QED  BY <1>1, IInvInit, PTL DEF SpecAlone

\* What holds of the peers besides.
Peers == Holding /\ Connections /\ Reading /\ Own /\ Fresh /\ Tracing

LEMMA PeersInit == Init => Peers
<1> SUFFICES ASSUME Init PROVE Peers
  OBVIOUS
<1>1. /\ pc = [p \in Closer |-> IF p = "main" THEN "probe" ELSE "done"]
      /\ "main" \in Closer /\ Side \subseteq Closer /\ "main" \notin Side
  BY Sides DEF Init
<1>2. /\ pc["main"] = "probe" /\ \A d \in Side : pc[d] = "done"
      /\ \A p \in Closer : pc[p] \in {"probe", "done"}
  BY <1>1
<1>3. /\ session = 0 /\ count = 0 /\ new = NoFd /\ numbers = {} /\ log = <<>>
      /\ taken = [s \in Socket |-> 0] /\ arrived = [s \in Socket |-> <<>>]
  BY DEF Init
<1>4. Holding
  BY <1>2 DEF Holding
<1>5. Connections
  BY <1>2, <1>3 DEF Connections, Leaving
<1>6. Reading
  BY <1>2 DEF Reading, At
<1>7. Own
  <2>1. <<>> \in Seq(Packet)
    OBVIOUS
  <2> QED  BY <1>3, <2>1 DEF Own, OwnPeersOnly
<1>8. ASSUME NEW s \in Socket
      PROVE  /\ taken[s] = 0 /\ arrived[<<Other(s[1]), s[2]>>] = <<>>
             /\ Of(log, s) = {} /\ Ascends(log, s)
             /\ Of(<<>>, s) = {} /\ Ascends(<<>>, s)
             /\ session # s[2]
  <2>1. s[1] \in Side /\ s[2] \in 1 .. MaxClients
    BY DEF Socket
  <2>2. <<Other(s[1]), s[2]>> \in Socket
    BY <2>1, Others DEF Socket
  <2> QED  BY <1>3, <2>1, <2>2 DEF Of, Ascends
<1>9. Fresh
  BY <1>8 DEF Fresh
<1>10. Tracing
  <2>1. ASSUME NEW s \in Socket
        PROVE  TracedTo(s, 0)
    <3>1. 1 .. 0 = {}
      OBVIOUS
    <3>2. Due(s, 0) = {}
      BY <1>8, <3>1 DEF Due
    <3> HIDE DEF Of, Ascends, Due
    <3> QED  BY <1>8, <3>1, <3>2 DEF TracedTo, Received
  <2>2. ASSUME NEW s \in Socket
        PROVE  0 \in 0 .. taken[s]
    <3>1. taken[s] = 0
      BY <1>3
    <3>2. 0 \in 0 .. 0
      OBVIOUS
    <3> QED  BY <3>1, <3>2
  <2> QED  BY <2>1, <2>2 DEF Tracing
<1> QED  BY <1>4, <1>5, <1>6, <1>7, <1>9, <1>10 DEF Peers

LEMMA PeersIsInvariant == SpecAlone => [](IInv /\ Peers)
<1>1. IInv /\ IInv' /\ Peers /\ [Next]_vars => Peers'
  BY HoldingStep, ConnectionsStep, ReadingStep, OwnStep, FreshStep, TracingStep
     DEF IInv, Peers
<1> QED  BY <1>1, IInvIsInvariant, PeersInit, PTL DEF SpecAlone

----------------------------------------------------------------------------
\* A session is there as long as its threads (session_stop_and_free(),
\* qwstrace_run()).
THEOREM ThreadsHaveSession == Spec => []SessionOutlivesThreads
<1>1. IInv => SessionOutlivesThreads
  BY DEF IInv, Control, SessionOutlivesThreads
<1> QED  BY <1>1, IInvIsInvariant, PTL DEF Spec

\* Nothing is queued behind the sentinel, and when the proxy is down all of the
\* queue has been traced (qwstrace_run(), tracer_thread_fn()).
THEOREM NothingBehindSentinel == Spec => []SentinelIsLast
<1>1. IInv => SentinelIsLast
  BY DEF IInv, Queue, SentinelIsLast, TracerEnded
<1> QED  BY <1>1, IInvIsInvariant, PTL DEF Spec

\* What a peer receives comes from the other peer of its session, or a client gets
\* what the session before had still under way (feed_and_enqueue(), which writes to
\* a descriptor that was looked up before, and session_close_fds()).
THEOREM OnlyFromItsPeer == Spec => []OwnPeersOnly
<1>1. Peers => OwnPeersOnly
  BY DEF Peers, Own
<1> QED  BY <1>1, PeersIsInvariant, PTL DEF Spec

\* What a peer sends is traced whole and in order, and what is not dropped was
\* received before (feed_and_enqueue(), trace_enqueue() and the two threads).
THEOREM NothingIsLost == Spec => []TraceIsFaithful
<1>1. IInv /\ Peers => TraceIsFaithful
  <2> SUFFICES ASSUME IInv, Peers, NEW s \in Socket, s \notin Side \X reused
               PROVE  LET peer == <<Other(s[1]), s[2]>>
                          trace == Of(log, s)
                          received == Of(arrived[peer], s)
                          underway == session = s[2]
                          inHand == IF underway /\ pc[s[1]] = "enqueue"
                                      THEN {Head(local[s[1]].buf).n} ELSE {}
                      IN  /\ Ascends(log, s) /\ Ascends(arrived[peer], s)
                          /\ \E m \in 0 .. taken[s] : trace = 1 .. m
                          /\ received \subseteq (trace \cup inHand) \ Dropped
                          /\ \A n \in received : (1 .. n) \ Dropped \subseteq received
                          /\ underway /\ ~dead /\ peer \notin closed
                               => trace \ Dropped \subseteq received
                          /\ underway /\ ~dead /\ pc[s[1]] = "read"
                               => trace = 1 .. taken[s]
    BY DEF TraceIsFaithful
  <2> DEFINE peer == <<Other(s[1]), s[2]>>
             received == Of(arrived[peer], s)
             inHand == IF session = s[2] /\ pc[s[1]] = "enqueue"
                         THEN {Head(local[s[1]].buf).n} ELSE {}
  <2>1. s[1] \in Side /\ Other(s[1]) \in Side /\ s[2] # 0
    BY Others DEF Socket
  <2>2. PICK m \in 0 .. taken[s] : TracedTo(s, m)
    BY DEF Peers, Tracing
  <2>3. taken[s] \in Nat /\ m \in Nat
    BY <2>2 DEF IInv, Buffers
  <2>4. /\ Ascends(log, s) /\ Of(log, s) = 1 .. m /\ Received(s, m)
        /\ session = s[2] => Pending(s, m)
    BY <2>2 DEF TracedTo
  <2>5. /\ Ascends(arrived[peer], s) /\ received \subseteq Due(s, m)
        /\ \A n \in received : (1 .. n) \ Dropped \subseteq received
        /\ session = s[2] /\ peer \notin closed /\ fds[Other(s[1])] # NoFd
             => Due(s, m) \subseteq received
    BY <2>4 DEF Received
  <2>6. Due(s, m) \subseteq ((1 .. m) \cup inHand) \ Dropped
    <3>1. CASE session = s[2] /\ pc[s[1]] = "enqueue"
      <4>1. inHand = {m + 1}
        BY <2>3, <2>4, <3>1, NextPacket DEF IInv, Peers
      <4> QED  BY <2>3, <3>1, <4>1 DEF Due
    <3>2. CASE ~(session = s[2] /\ pc[s[1]] = "enqueue")
      BY <3>2 DEF Due
    <3> QED  BY <3>1, <3>2
  <2>7. (1 .. m) \ Dropped \subseteq Due(s, m)
    BY <2>3 DEF Due
  <2>8. session = s[2] /\ ~dead => fds[Other(s[1])] # NoFd
    BY <2>1 DEF Peers, Connections
  <2>9. session = s[2] /\ pc[s[1]] = "read" => m = taken[s]
    BY <2>4 DEF Pending
  <2> HIDE DEF received, inHand, Of, Ascends, Due, peer
  <2>10. /\ received \subseteq (Of(log, s) \cup inHand) \ Dropped
         /\ session = s[2] /\ ~dead /\ peer \notin closed
              => Of(log, s) \ Dropped \subseteq received
         /\ session = s[2] /\ ~dead /\ pc[s[1]] = "read" => Of(log, s) = 1 .. taken[s]
    BY <2>4, <2>5, <2>6, <2>7, <2>8, <2>9
  <2> QED  BY <2>2, <2>4, <2>5, <2>10 DEF peer, received, inHand
<1> QED  BY <1>1, PeersIsInvariant, PTL DEF Spec

\* Whenever a descriptor is taken there is one: four numbers are enough for a
\* session, the client that is accepted and its server.
THEOREM DescriptorsSuffice ==
  Spec => [](pc["main"] \in {"loop", "connect"} => Lowest \in Number)
<1>1. IInv /\ pc["main"] \in {"loop", "connect"} => Lowest \in Number
  BY LowestIsFree DEF IInv, Descriptors
<1> QED  BY <1>1, IInvIsInvariant, PTL DEF Spec
=============================================================================
