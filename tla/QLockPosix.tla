----------------------------- MODULE QLockPosix -----------------------------
(***************************************************************************)
(* QLock on POSIX semaphores (ipc_backend=posix): Qt 4.8's algorithm with  *)
(* the counter c, the read gate rsem and the write mutex wsem.  Every      *)
(* operation on a semaphore is a step.  posix_sem_wait_eintr() starts over *)
(* on EINTR, and on an open semaphore sem_wait() has no other error, so    *)
(* the error paths of qlock_lock() and qlock_unlock() are not taken.       *)
(***************************************************************************)
EXTENDS Integers, FiniteSets

CONSTANTS Proc,
          MaxLocks   \* QLOCK_MAX_LOCKS

ASSUME LockAssumption == /\ IsFiniteSet(Proc)
                         /\ MaxLocks \in Nat \ {0}

VARIABLES c, rsem, wsem,
          pc    \* the operation each process does next

vars == <<c, rsem, wsem, pc>>

Label == {"idle", "reading", "writing",
          "write_wait_rsem", "write_wait_wsem", "write_post_rsem",
          "read_wait_wsem", "read_try_rsem", "read_wait_c", "read_post_wsem",
          "leave_wait_wsem", "leave_post_c", "leave_check", "leave_post_wsem"}

Init == /\ c = MaxLocks /\ rsem = 1 /\ wsem = 1
        /\ pc = [p \in Proc |-> "idle"]

Goto(p, from, to) == pc[p] = from /\ pc' = [pc EXCEPT ![p] = to]

\* sem_wait() and sem_post() on each of the semaphores.
WaitC    == c > 0 /\ c' = c - 1 /\ UNCHANGED <<rsem, wsem>>
PostC    == c' = c + 1 /\ UNCHANGED <<rsem, wsem>>
WaitRsem == rsem > 0 /\ rsem' = rsem - 1 /\ UNCHANGED <<c, wsem>>
PostRsem == rsem' = rsem + 1 /\ UNCHANGED <<c, wsem>>
WaitWsem == wsem > 0 /\ wsem' = wsem - 1 /\ UNCHANGED <<c, rsem>>
PostWsem == wsem' = wsem + 1 /\ UNCHANGED <<c, rsem>>

Call(p) == /\ \/ Goto(p, "idle", "write_wait_rsem")
              \/ Goto(p, "idle", "read_wait_wsem")
           /\ UNCHANGED <<c, rsem, wsem>>

\* Mutant of LockWrite: the write mutex is not waited for.
LockWriteByGate(p) ==
  \/ Goto(p, "write_wait_rsem", "write_wait_wsem") /\ WaitRsem
  \/ Goto(p, "write_wait_wsem", "writing") /\ UNCHANGED <<c, rsem, wsem>>

LockWrite(p) ==
  \/ Goto(p, "write_wait_rsem", "write_wait_wsem") /\ WaitRsem
  \/ Goto(p, "write_wait_wsem", "writing") /\ WaitWsem

UnlockWrite(p) ==
  \/ Goto(p, "writing", "write_post_rsem") /\ PostWsem
  \/ Goto(p, "write_post_rsem", "idle") /\ PostRsem

\* Mutant of LockRead: the counter is not waited for.
LockReadUncounted(p) ==
  \/ Goto(p, "read_wait_wsem", "read_try_rsem") /\ WaitWsem
  \/ /\ Goto(p, "read_try_rsem", "read_post_wsem")
     /\ WaitRsem \/ (rsem = 0 /\ UNCHANGED <<c, rsem, wsem>>)
  \/ Goto(p, "read_post_wsem", "reading") /\ PostWsem

\* sem_trywait(rsem) marks "readers active"; that it may fail is ignored.
LockRead(p) ==
  \/ Goto(p, "read_wait_wsem", "read_try_rsem") /\ WaitWsem
  \/ /\ Goto(p, "read_try_rsem", "read_wait_c")
     /\ WaitRsem \/ (rsem = 0 /\ UNCHANGED <<c, rsem, wsem>>)
  \/ Goto(p, "read_wait_c", "read_post_wsem") /\ WaitC
  \/ Goto(p, "read_post_wsem", "reading") /\ PostWsem

\* The last reader to leave, by the counter, opens the gate.
UnlockRead(p) ==
  \/ Goto(p, "reading", "leave_wait_wsem") /\ UNCHANGED <<c, rsem, wsem>>
  \/ Goto(p, "leave_wait_wsem", "leave_post_c") /\ WaitWsem
  \/ Goto(p, "leave_post_c", "leave_check") /\ PostC
  \/ /\ Goto(p, "leave_check", "leave_post_wsem")
     /\ \/ c = MaxLocks /\ PostRsem
        \/ c # MaxLocks /\ UNCHANGED <<c, rsem, wsem>>
  \/ Goto(p, "leave_post_wsem", "idle") /\ PostWsem

ProcNext(p) ==
  Call(p) \/ LockWrite(p) \/ UnlockWrite(p) \/ LockRead(p) \/ UnlockRead(p)

Next == \E p \in Proc : ProcNext(p)

Spec == Init /\ [][Next]_vars

----------------------------------------------------------------------------
(* Properties. *)

Holds(p, type) == pc[p] = IF type = "write" THEN "writing" ELSE "reading"

\* The processes that have taken wsem and not posted it yet.
InsideWsem == {p \in Proc : pc[p] \in {"writing", "read_try_rsem", "read_wait_c",
                                       "read_post_wsem", "leave_post_c",
                                       "leave_check", "leave_post_wsem"}}

\* The write mutex is one, in every interleaving of readers and writers: its
\* posts and waits balance, so the counter and the gate are changed by one
\* process at a time.
WsemIsMutex == wsem + Cardinality(InsideWsem) = 1

\* Writers exclude each other.
WritersExclusive ==
  \A p, q \in Proc : (Holds(p, "write") /\ Holds(q, "write")) => p = q

\* The counter has a slot less for every reader inside.
CounterCountsReaders ==
  c + Cardinality({p \in Proc : pc[p] \in {"read_post_wsem", "reading",
                                           "leave_wait_wsem", "leave_post_c"}})
    = MaxLocks

\* Every semaphore counts what it stands for, whoever comes in between: wsem the
\* process that may change the others, the counter the free slots.
SemaphoresBalance == WsemIsMutex /\ CounterCountsReaders

\* "Read = shared; Write = exclusive" (qws_lock.h:123): no process reads while
\* another writes.
ReadersExcludeWriters ==
  \A p, q \in Proc : ~(Holds(p, "write") /\ Holds(q, "read"))
=============================================================================
