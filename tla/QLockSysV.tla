----------------------------- MODULE QLockSysV -----------------------------
(***************************************************************************)
(* QLock on System V semaphores (the default ipc_backend): one semaphore   *)
(* that starts at QLOCK_MAX_LOCKS; a reader takes 1 unit of it, a writer   *)
(* all of them, in one semop() without SEM_UNDO.                           *)
(***************************************************************************)
EXTENDS Integers, FiniteSets

CONSTANTS Proc,      \* processes (or second calls of one) that use the lock
          MaxLocks   \* QLOCK_MAX_LOCKS

ASSUME LockAssumption == /\ IsFiniteSet(Proc)
                         /\ MaxLocks \in Nat \ {0}

Type == {"read", "write"}

VARIABLES
  sem,      \* value of semaphore 0
  exists,   \* the set has not been removed
  want,     \* the qlock_lock() call a process is in, "none" if in no call
  holds,    \* what a process has locked and not unlocked, "none" if nothing
  alive,
  torn      \* ghost: the set was initialised anew under a holder

vars == <<sem, exists, want, holds, alive, torn>>

Units(type) == IF type = "write" THEN MaxLocks ELSE 1

Init ==
  /\ sem = MaxLocks
  /\ exists = TRUE
  /\ want = [p \in Proc |-> "none"]
  /\ holds = [p \in Proc |-> "none"]
  /\ alive = [p \in Proc |-> TRUE]
  /\ torn = FALSE

\* qlock_lock() is entered ...
Lock(p, type) ==
  /\ alive[p] /\ want[p] = "none" /\ holds[p] = "none"
  /\ want' = [want EXCEPT ![p] = type]
  /\ UNCHANGED <<sem, exists, holds, alive, torn>>

\* Mutant of Acquire: waits for one unit whatever it then takes.
AcquireOnOne(p, type) ==
  /\ exists /\ want[p] = type
  /\ sem >= 1
  /\ sem' = sem - Units(type)
  /\ holds' = [holds EXCEPT ![p] = type]
  /\ want' = [want EXCEPT ![p] = "none"]
  /\ UNCHANGED <<exists, alive, torn>>

\* ... and its semop() goes through when there are units enough.
Acquire(p, type) ==
  /\ exists /\ want[p] = type
  /\ sem >= Units(type)
  /\ sem' = sem - Units(type)
  /\ holds' = [holds EXCEPT ![p] = type]
  /\ want' = [want EXCEPT ![p] = "none"]
  /\ UNCHANGED <<exists, alive, torn>>

\* Mutant of Unlock: only writers give their units back.
UnlockLeakingReads(p) ==
  /\ alive[p] /\ holds[p] # "none"
  /\ sem' = IF exists /\ holds[p] = "write" THEN sem + MaxLocks ELSE sem
  /\ holds' = [holds EXCEPT ![p] = "none"]
  /\ UNCHANGED <<exists, want, alive, torn>>

\* qlock_unlock() never waits; on a removed set it fails and the caller holds
\* nothing all the same.
Unlock(p) ==
  /\ alive[p] /\ holds[p] # "none"
  /\ sem' = IF exists THEN sem + Units(holds[p]) ELSE sem
  /\ holds' = [holds EXCEPT ![p] = "none"]
  /\ UNCHANGED <<exists, want, alive, torn>>

\* qlock_destroy() of the owner removes the set.
Destroy ==
  /\ exists
  /\ exists' = FALSE
  /\ UNCHANGED <<sem, want, holds, alive, torn>>

\* A call that waits, or is made, on a removed set returns -1.
LockFails(p) ==
  /\ ~exists /\ want[p] # "none"
  /\ want' = [want EXCEPT ![p] = "none"]
  /\ UNCHANGED <<sem, exists, holds, alive, torn>>

\* The kernel gives no units back when a process dies holding the lock.
Die(p) ==
  /\ alive[p]
  /\ alive' = [alive EXCEPT ![p] = FALSE]
  /\ want' = [want EXCEPT ![p] = "none"]
  /\ UNCHANGED <<sem, exists, holds, torn>>

\* A second qlock_create() on the same file (a restarted server) gets the set
\* that exists, IPC_EXCL not being set, and SETALL writes its start values.
Create ==
  /\ exists
  /\ sem' = MaxLocks
  /\ torn' = (torn \/ \E p \in Proc : holds[p] # "none")
  /\ UNCHANGED <<exists, want, holds, alive>>

ProcNext(p) ==
  \/ \E type \in Type : Lock(p, type) \/ Acquire(p, type)
  \/ Unlock(p)
  \/ LockFails(p)
  \/ Die(p)

Next == \/ \E p \in Proc : ProcNext(p)
        \/ Create
        \/ Destroy

Spec == Init /\ [][Next]_vars

\* The kernel completes a semop() that can go through: a sleeping operation is
\* reconsidered, oldest first, by the semop() that raises the value.  That the
\* holders unlock is up to the callers.
Fairness ==
  \A p \in Proc : /\ \A type \in Type : SF_vars(Acquire(p, type))
                  /\ WF_vars(Unlock(p))
                  /\ WF_vars(LockFails(p))

FairSpec == Spec /\ Fairness

----------------------------------------------------------------------------
(* Properties. *)

\* The type invariant; that sem is never negative is what semop() waits for.
TypeOK ==
  /\ sem \in Nat
  /\ exists \in BOOLEAN
  /\ want \in [Proc -> Type \cup {"none"}]
  /\ holds \in [Proc -> Type \cup {"none"}]
  /\ alive \in [Proc -> BOOLEAN]
  /\ torn \in BOOLEAN

Readers == {p \in Proc : holds[p] = "read"}
Writers == {p \in Proc : holds[p] = "write"}

\* No unit is lost or made up: what the semaphore has and what processes, dead
\* ones included, hold is always all of it (until it is reset under a holder,
\* or removed).
UnitsConserved ==
  torn \/ ~exists \/
    sem + Cardinality(Readers) + MaxLocks * Cardinality(Writers) = MaxLocks

\* A writer is alone, as qws_lock.h promises.
Exclusive ==
  torn \/ \A p, q \in Proc :
            (p # q /\ holds[p] = "write") => holds[q] = "none"

\* Every step is a step of the abstract lock: "Read = shared; Write =
\* exclusive" (qws_lock.h:123).
Abstract == INSTANCE RWLock WITH broken <- torn
ImplementsRWLock == Abstract!Spec

\* A reader's call returns, unless a process died holding the lock: readers
\* are not starved by writers.  (Writers may be starved by readers that
\* overlap: their semop() is never possible then.)
ReadersServed ==
  \A p \in Proc :
    want[p] = "read" ~> (want[p] # "read" \/
                         \E q \in Proc : ~alive[q] /\ holds[q] # "none")
=============================================================================
