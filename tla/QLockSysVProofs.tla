-------------------------- MODULE QLockSysVProofs --------------------------
(***************************************************************************)
(* The System V lock keeps its promise for any finite set of processes and *)
(* any capacity.  The argument is the conservation of units: a writer      *)
(* holds all of them, so nobody else can have taken any.                   *)
(***************************************************************************)
EXTENDS QLockSysV, FiniteSetTheorems, TLAPS

\* A process that waits for the lock holds nothing, so what it takes adds to
\* what others have.  Exclusive follows from the conservation of units as long
\* as the semaphores exist; it is kept beside it because it outlives them.
CallersHoldNothing == \A p \in Proc : want[p] # "none" => holds[p] = "none"

IInv == TypeOK /\ CallersHoldNothing /\ UnitsConserved /\ Exclusive

USE LockAssumption

LEMMA HoldersFinite ==
  /\ IsFiniteSet(Readers) /\ Cardinality(Readers) \in Nat
  /\ IsFiniteSet(Writers) /\ Cardinality(Writers) \in Nat
<1>1. Readers \subseteq Proc /\ Writers \subseteq Proc
  BY DEF Readers, Writers
<1> QED  BY <1>1, FS_Subset, FS_CardinalityType

\* The units left bound who can hold the lock.
LEMMA UnitsTellHolders ==
  ASSUME TypeOK, UnitsConserved, exists, ~torn
  PROVE  /\ sem >= 1 => Writers = {}
         /\ sem >= MaxLocks => Writers = {} /\ Readers = {}
<1> DEFINE r == Cardinality(Readers)
           w == Cardinality(Writers)
<1>1. /\ r \in Nat /\ w \in Nat /\ sem \in Nat /\ MaxLocks \in Nat \ {0}
      /\ r = 0 => Readers = {}
      /\ w = 0 => Writers = {}
  BY HoldersFinite, FS_EmptySet DEF TypeOK
<1>2. sem + r + MaxLocks * w = MaxLocks
  BY DEF UnitsConserved
<1> HIDE DEF r, w
<1>3. w # 0 => MaxLocks * w >= MaxLocks
  BY <1>1
<1>4. MaxLocks * w \in Nat
  BY <1>1
<1>5. sem >= 1 => w = 0
  BY <1>1, <1>2, <1>3, <1>4
<1>6. w = 0 => MaxLocks * w = 0
  BY <1>1
<1>7. sem >= MaxLocks => w = 0 /\ r = 0
  BY <1>1, <1>2, <1>5, <1>6
<1> QED  BY <1>1, <1>5, <1>7

\* What one process' change of hold does to the two sets.
LEMMA HolderChange ==
  ASSUME NEW p \in Proc, NEW type \in Type \cup {"none"},
         holds \in [Proc -> Type \cup {"none"}],
         holds' = [holds EXCEPT ![p] = type]
  PROVE  /\ Readers' = IF type = "read" THEN Readers \cup {p} ELSE Readers \ {p}
         /\ Writers' = IF type = "write" THEN Writers \cup {p}
                                         ELSE Writers \ {p}
BY DEF Readers, Writers, Type

LEMMA TypeInvariant ==
  ASSUME TypeOK, Next
  PROVE  TypeOK'
<1>1. CASE Create
  BY <1>1 DEF TypeOK, Create
<1>2. CASE Destroy
  BY <1>2 DEF TypeOK, Destroy
<1>3. ASSUME NEW p \in Proc, NEW type \in Type, Lock(p, type)
      PROVE  TypeOK'
  BY <1>3 DEF TypeOK, Lock, Type
<1>4. ASSUME NEW p \in Proc, NEW type \in Type, Acquire(p, type)
      PROVE  TypeOK'
  BY <1>4 DEF TypeOK, Acquire, Type, Units
<1>5. ASSUME NEW p \in Proc, Unlock(p)
      PROVE  TypeOK'
  BY <1>5 DEF TypeOK, Unlock, Type, Units
<1>6. ASSUME NEW p \in Proc, LockFails(p)
      PROVE  TypeOK'
  BY <1>6 DEF TypeOK, LockFails, Type
<1>7. ASSUME NEW p \in Proc, Die(p)
      PROVE  TypeOK'
  BY <1>7 DEF TypeOK, Die, Type
<1> QED  BY <1>1, <1>2, <1>3, <1>4, <1>5, <1>6, <1>7 DEF Next, ProcNext

\* Taking or giving units keeps their sum.
LEMMA AcquireConserves ==
  ASSUME TypeOK, UnitsConserved, NEW p \in Proc, NEW type \in Type,
         holds[p] = "none", Acquire(p, type)
  PROVE  UnitsConserved'
<1> SUFFICES ASSUME ~torn, exists
             PROVE  sem' + Cardinality(Readers') + MaxLocks * Cardinality(Writers')
                      = MaxLocks
  BY DEF Acquire, UnitsConserved
<1>1. /\ holds \in [Proc -> Type \cup {"none"}] /\ sem \in Nat
      /\ holds' = [holds EXCEPT ![p] = type] /\ sem' = sem - Units(type)
  BY DEF TypeOK, Acquire
<1>2. p \notin Readers /\ p \notin Writers
  BY DEF Readers, Writers
<1>3. sem + Cardinality(Readers) + MaxLocks * Cardinality(Writers) = MaxLocks
  BY DEF UnitsConserved
<1>4. CASE type = "read"
  <2>1. Readers' = Readers \cup {p} /\ Writers' = Writers \ {p}
    BY <1>1, <1>4, HolderChange
  <2>2. Writers' = Writers
    BY <1>2, <2>1
  <2>3. Cardinality(Readers') = Cardinality(Readers) + 1
    BY <1>2, <2>1, HoldersFinite, FS_AddElement
  <2> QED  BY <1>1, <1>3, <1>4, <2>2, <2>3, HoldersFinite DEF Units
<1>5. CASE type = "write"
  <2>1. Writers' = Writers \cup {p} /\ Readers' = Readers \ {p}
    BY <1>1, <1>5, HolderChange
  <2>2. Readers' = Readers
    BY <1>2, <2>1
  <2>3. Cardinality(Writers') = Cardinality(Writers) + 1
    BY <1>2, <2>1, HoldersFinite, FS_AddElement
  <2>4. MaxLocks * Cardinality(Writers') = MaxLocks * Cardinality(Writers) + MaxLocks
    BY <2>3, HoldersFinite
  <2> QED  BY <1>1, <1>3, <1>5, <2>2, <2>3, <2>4, HoldersFinite DEF Units
<1> QED  BY <1>4, <1>5 DEF Type

LEMMA UnlockConserves ==
  ASSUME TypeOK, UnitsConserved, NEW p \in Proc, Unlock(p)
  PROVE  UnitsConserved'
<1> SUFFICES ASSUME ~torn, exists
             PROVE  sem' + Cardinality(Readers') + MaxLocks * Cardinality(Writers')
                      = MaxLocks
  BY DEF Unlock, UnitsConserved
<1>1. /\ holds \in [Proc -> Type \cup {"none"}] /\ sem \in Nat
      /\ holds' = [holds EXCEPT ![p] = "none"]
      /\ sem' = sem + Units(holds[p]) /\ holds[p] \in Type
  BY DEF TypeOK, Unlock
<1>2. sem + Cardinality(Readers) + MaxLocks * Cardinality(Writers) = MaxLocks
  BY DEF UnitsConserved
<1>3. Readers' = Readers \ {p} /\ Writers' = Writers \ {p}
  BY <1>1 DEF Readers, Writers, Type
<1>4. CASE holds[p] = "read"
  <2>1. p \in Readers /\ Writers' = Writers
    BY <1>3, <1>4 DEF Readers, Writers
  <2>2. Cardinality(Readers') = Cardinality(Readers) - 1
    BY <1>3, <2>1, HoldersFinite, FS_RemoveElement
  <2> QED  BY <1>1, <1>2, <1>4, <2>1, <2>2, HoldersFinite DEF Units
<1>5. CASE holds[p] = "write"
  <2>1. p \in Writers /\ Readers' = Readers
    BY <1>3, <1>5 DEF Readers, Writers
  <2>2. Cardinality(Writers') = Cardinality(Writers) - 1
    BY <1>3, <2>1, HoldersFinite, FS_RemoveElement
  <2>3. MaxLocks * Cardinality(Writers') = MaxLocks * Cardinality(Writers) - MaxLocks
    BY <2>2, HoldersFinite
  <2> QED  BY <1>1, <1>2, <1>5, <2>1, <2>2, <2>3, HoldersFinite DEF Units
<1> QED  BY <1>1, <1>4, <1>5 DEF Type
LEMMA ConservationStep ==
  ASSUME IInv, Next
  PROVE  UnitsConserved'
<1> USE DEF IInv
<1>1. CASE Create
  <2>1. SUFFICES ASSUME ~torn', exists'
                 PROVE  sem' + Cardinality(Readers')
                          + MaxLocks * Cardinality(Writers') = MaxLocks
    BY DEF UnitsConserved
  <2>2. Readers' = {} /\ Writers' = {} /\ sem' = MaxLocks
    BY <1>1, <2>1 DEF Create, Readers, Writers
  <2>3. Cardinality(Readers') = 0 /\ Cardinality(Writers') = 0
    BY <2>2, FS_EmptySet
  <2> QED  BY <2>2, <2>3
<1>2. CASE Destroy
  BY <1>2 DEF Destroy, UnitsConserved
<1>3. ASSUME NEW p \in Proc, NEW type \in Type, Lock(p, type)
      PROVE  UnitsConserved'
  BY <1>3 DEF Lock, UnitsConserved, Readers, Writers
<1>4. ASSUME NEW p \in Proc, NEW type \in Type, Acquire(p, type)
      PROVE  UnitsConserved'
  <2>1. holds[p] = "none"
    BY <1>4 DEF CallersHoldNothing, Acquire, Type
  <2> QED  BY <1>4, <2>1, AcquireConserves
<1>5. ASSUME NEW p \in Proc, Unlock(p)
      PROVE  UnitsConserved'
  BY <1>5, UnlockConserves
<1>6. ASSUME NEW p \in Proc, LockFails(p)
      PROVE  UnitsConserved'
  BY <1>6 DEF LockFails, UnitsConserved, Readers, Writers
<1>7. ASSUME NEW p \in Proc, Die(p)
      PROVE  UnitsConserved'
  BY <1>7 DEF Die, UnitsConserved, Readers, Writers
<1> QED  BY <1>1, <1>2, <1>3, <1>4, <1>5, <1>6, <1>7 DEF Next, ProcNext

\* A call that goes through does so with nobody in the way.
LEMMA AcquireAlone ==
  ASSUME IInv, ~torn, NEW p \in Proc, NEW type \in Type, Acquire(p, type)
  PROVE  /\ type = "read" => \A q \in Proc : holds[q] # "write"
         /\ type = "write" => \A q \in Proc : holds[q] = "none"
<1>1. /\ sem \in Nat /\ MaxLocks \in Nat \ {0} /\ exists /\ sem >= Units(type)
      /\ holds \in [Proc -> Type \cup {"none"}]
  BY DEF IInv, TypeOK, Acquire
<1>2. CASE type = "read"
  <2>1. Writers = {}
    BY <1>1, <1>2, UnitsTellHolders DEF IInv, Units
  <2> QED  BY <1>2, <2>1 DEF Writers
<1>3. CASE type = "write"
  <2>1. Writers = {} /\ Readers = {}
    BY <1>1, <1>3, UnitsTellHolders DEF IInv, Units
  <2> QED  BY <1>1, <1>3, <2>1 DEF Writers, Readers, Type
<1> QED  BY <1>2, <1>3 DEF Type

LEMMA ExclusiveStep ==
  ASSUME IInv, Next
  PROVE  Exclusive' /\ CallersHoldNothing'
<1> USE DEF IInv, TypeOK
<1>1. CASE Create
  BY <1>1 DEF Create, Exclusive, CallersHoldNothing
<1>2. CASE Destroy
  BY <1>2 DEF Destroy, Exclusive, CallersHoldNothing
<1>3. ASSUME NEW p \in Proc, NEW type \in Type, Lock(p, type)
      PROVE  Exclusive' /\ CallersHoldNothing'
  BY <1>3 DEF Lock, Exclusive, CallersHoldNothing
<1>4. ASSUME NEW p \in Proc, NEW type \in Type, Acquire(p, type)
      PROVE  Exclusive' /\ CallersHoldNothing'
  <2>1. /\ holds' = [holds EXCEPT ![p] = type] /\ torn' = torn
        /\ want' = [want EXCEPT ![p] = "none"]
    BY <1>4 DEF Acquire
  <2>2. CallersHoldNothing'
    BY <2>1 DEF CallersHoldNothing
  <2>3. CASE torn
    BY <2>1, <2>2, <2>3 DEF Exclusive
  <2>4. CASE ~torn
    <3>1. /\ type = "read" => \A q \in Proc : holds[q] # "write"
          /\ type = "write" => \A q \in Proc : holds[q] = "none"
      BY <1>4, <2>4, AcquireAlone
    <3> QED  BY <2>1, <2>2, <3>1 DEF Exclusive, Type
  <2> QED  BY <2>3, <2>4
<1>5. ASSUME NEW p \in Proc, Unlock(p)
      PROVE  Exclusive' /\ CallersHoldNothing'
  BY <1>5 DEF Unlock, Exclusive, CallersHoldNothing
<1>6. ASSUME NEW p \in Proc, LockFails(p)
      PROVE  Exclusive' /\ CallersHoldNothing'
  BY <1>6 DEF LockFails, Exclusive, CallersHoldNothing
<1>7. ASSUME NEW p \in Proc, Die(p)
      PROVE  Exclusive' /\ CallersHoldNothing'
  BY <1>7 DEF Die, Exclusive, CallersHoldNothing
<1> QED  BY <1>1, <1>2, <1>3, <1>4, <1>5, <1>6, <1>7 DEF Next, ProcNext

\* The inductive invariant holds in every reachable state.
THEOREM Invariance == Spec => []IInv
<1>1. Init => IInv
  <2> SUFFICES ASSUME Init PROVE IInv
    OBVIOUS
  <2>1. TypeOK /\ CallersHoldNothing /\ Exclusive
    BY DEF Init, TypeOK, CallersHoldNothing, Exclusive, Type
  <2>2. Readers = {} /\ Writers = {}
    BY DEF Init, Readers, Writers
  <2>3. Cardinality(Readers) = 0 /\ Cardinality(Writers) = 0
    BY <2>2, FS_EmptySet
  <2>4. UnitsConserved
    BY <2>3 DEF Init, UnitsConserved
  <2> QED  BY <2>1, <2>4 DEF IInv
<1>2. IInv /\ [Next]_vars => IInv'
  <2> SUFFICES ASSUME IInv, [Next]_vars PROVE IInv'
    OBVIOUS
  <2>1. CASE Next
    BY <2>1, TypeInvariant, ConservationStep, ExclusiveStep DEF IInv
  <2>2. CASE UNCHANGED vars
    BY <2>2 DEF vars, IInv, TypeOK, CallersHoldNothing, UnitsConserved,
                Exclusive, Readers, Writers
  <2> QED  BY <2>1, <2>2
<1> QED  BY <1>1, <1>2, PTL DEF Spec

\* No unit of the semaphore is ever lost or made up, whoever dies, as long as
\* it is not removed or reset under a holder (qws_lock.c:463-498).
THEOREM Conservation == Spec => []UnitsConserved
BY Invariance, PTL DEF IInv

\* "Read = shared; Write = exclusive" (qws_lock.h:123) holds of the System V
\* lock, for any number of processes and any capacity.
THEOREM MutualExclusion == Spec => []Exclusive
BY Invariance, PTL DEF IInv

\* Every step of the System V lock is a step of the abstract one, or leaves
\* it unchanged: waiting, failing and dying are invisible to other callers.
THEOREM Refinement == Spec => ImplementsRWLock
<1>1. Init => Abstract!Init
  BY DEF Init, Abstract!Init
<1>2. IInv /\ [Next]_vars => [Abstract!Next]_(Abstract!vars)
  <2> SUFFICES ASSUME IInv, [Next]_vars
               PROVE  [Abstract!Next]_(Abstract!vars)
    OBVIOUS
  <2> USE DEF Abstract!Next, Abstract!vars
  <2>1. CASE Create
    BY <2>1 DEF Create, Abstract!Break, IInv, TypeOK
  <2>2. CASE Destroy
    BY <2>2 DEF Destroy
  <2>3. ASSUME NEW p \in Proc, NEW type \in Type, Lock(p, type)
        PROVE  UNCHANGED Abstract!vars
    BY <2>3 DEF Lock
  <2>4. ASSUME NEW p \in Proc, NEW type \in Type, Acquire(p, type)
        PROVE  Abstract!Next
    <3>1. /\ holds[p] = "none" /\ holds' = [holds EXCEPT ![p] = type]
          /\ UNCHANGED torn
      BY <2>4 DEF Acquire, IInv, CallersHoldNothing, Type
    <3>2. \/ torn
          \/ /\ type = "read" => \A q \in Proc : holds[q] # "write"
             /\ type = "write" => \A q \in Proc : holds[q] = "none"
      BY <2>4, AcquireAlone
    <3> QED  BY <3>1, <3>2 DEF Abstract!AcquireRead, Abstract!AcquireWrite, Type
  <2>5. ASSUME NEW p \in Proc, Unlock(p)
        PROVE  Abstract!Next
    BY <2>5 DEF Unlock, Abstract!Release
  <2>6. ASSUME NEW p \in Proc, LockFails(p)
        PROVE  UNCHANGED Abstract!vars
    BY <2>6 DEF LockFails
  <2>7. ASSUME NEW p \in Proc, Die(p)
        PROVE  UNCHANGED Abstract!vars
    BY <2>7 DEF Die
  <2>8. CASE UNCHANGED vars
    BY <2>8 DEF vars
  <2> QED  BY <2>1, <2>2, <2>3, <2>4, <2>5, <2>6, <2>7, <2>8 DEF Next, ProcNext
<1> QED  BY <1>1, <1>2, Invariance, PTL DEF Spec, Abstract!Spec, ImplementsRWLock
=============================================================================
