-------------------------- MODULE QLockPosixProofs --------------------------
(***************************************************************************)
(* Theorems about the POSIX lock, for any finite set of processes and any  *)
(* number of slots: its write mutex and its counter balance however the    *)
(* operations on the three semaphores interleave.                          *)
(***************************************************************************)
EXTENDS QLockPosix, FiniteSetTheorems, TLAPS

USE LockAssumption

\* The processes at one of the labels L.
At(L) == {p \in Proc : pc[p] \in L}

MutexLabels == {"writing", "read_try_rsem", "read_wait_c", "read_post_wsem",
                "leave_post_c", "leave_check", "leave_post_wsem"}
SlotLabels == {"read_post_wsem", "reading", "leave_wait_wsem", "leave_post_c"}

TypeOK ==
  /\ c \in Nat /\ rsem \in Nat /\ wsem \in Nat
  /\ pc \in [Proc -> Label]

IInv == TypeOK /\ SemaphoresBalance

LEMMA Balance ==
  /\ WsemIsMutex <=> wsem + Cardinality(At(MutexLabels)) = 1
  /\ CounterCountsReaders <=> c + Cardinality(At(SlotLabels)) = MaxLocks
BY DEF WsemIsMutex, InsideWsem, CounterCountsReaders, At, MutexLabels, SlotLabels

LEMMA AtFinite ==
  ASSUME NEW L
  PROVE  IsFiniteSet(At(L)) /\ Cardinality(At(L)) \in Nat
<1>1. At(L) \subseteq Proc
  BY DEF At
<1> QED  BY <1>1, FS_Subset, FS_CardinalityType

\* One process that goes from one label to another is one less there and one
\* more here.
LEMMA Moving ==
  ASSUME TypeOK, NEW p \in Proc, NEW from \in Label, NEW to \in Label,
         Goto(p, from, to), NEW L
  PROVE  /\ from \in L <=> to \in L => Cardinality(At(L)') = Cardinality(At(L))
         /\ from \in L /\ to \notin L => Cardinality(At(L)') = Cardinality(At(L)) - 1
         /\ from \notin L /\ to \in L => Cardinality(At(L)') = Cardinality(At(L)) + 1
<1>1. /\ pc[p] = from /\ pc'[p] = to
      /\ \A q \in Proc : q # p => pc'[q] = pc[q]
  BY DEF TypeOK, Goto
<1>2. IsFiniteSet(At(L))
  BY AtFinite
<1>3. CASE from \in L <=> to \in L
  <2>1. At(L)' = At(L)
    BY <1>1, <1>3 DEF At
  <2> QED  BY <1>3, <2>1
<1>4. CASE from \in L /\ to \notin L
  <2>1. At(L)' = At(L) \ {p} /\ p \in At(L)
    BY <1>1, <1>4 DEF At
  <2> QED  BY <1>2, <1>4, <2>1, FS_RemoveElement
<1>5. CASE from \notin L /\ to \in L
  <2>1. At(L)' = At(L) \cup {p} /\ p \notin At(L)
    BY <1>1, <1>5 DEF At
  <2> QED  BY <1>2, <1>5, <2>1, FS_AddElement
<1> QED  BY <1>3, <1>4, <1>5

\* A step that takes wsem when it enters the critical section and posts it when
\* it leaves, and takes a slot and gives it back likewise, keeps the balance.
LEMMA BalancedStep ==
  ASSUME IInv, NEW p \in Proc, NEW from \in Label, NEW to \in Label,
         Goto(p, from, to), rsem' \in Nat, wsem' \in Nat, c' \in Nat,
         from \in MutexLabels <=> to \in MutexLabels => wsem' = wsem,
         from \in MutexLabels /\ to \notin MutexLabels => wsem' = wsem + 1,
         from \notin MutexLabels /\ to \in MutexLabels => wsem' = wsem - 1,
         from \in SlotLabels <=> to \in SlotLabels => c' = c,
         from \in SlotLabels /\ to \notin SlotLabels => c' = c + 1,
         from \notin SlotLabels /\ to \in SlotLabels => c' = c - 1
  PROVE  IInv'
<1> DEFINE m == Cardinality(At(MutexLabels))
           k == Cardinality(At(SlotLabels))
<1>1. TypeOK /\ wsem + m = 1 /\ c + k = MaxLocks
  BY Balance DEF IInv, SemaphoresBalance
<1>2. m \in Nat /\ k \in Nat
  BY AtFinite
<1>3. /\ m' = Cardinality(At(MutexLabels)') /\ k' = Cardinality(At(SlotLabels)')
      /\ WsemIsMutex' <=> wsem' + m' = 1
      /\ CounterCountsReaders' <=> c' + k' = MaxLocks
  BY DEF WsemIsMutex, InsideWsem, CounterCountsReaders, At, MutexLabels, SlotLabels
<1>4. wsem' + m' = 1
  <2>1. /\ from \in MutexLabels <=> to \in MutexLabels => m' = m
        /\ from \in MutexLabels /\ to \notin MutexLabels => m' = m - 1
        /\ from \notin MutexLabels /\ to \in MutexLabels => m' = m + 1
    BY <1>1, <1>3, Moving
  <2>2. wsem \in Nat /\ wsem' \in Nat
    BY <1>1 DEF TypeOK
  <2> HIDE DEF m
  <2> QED  BY <1>1, <1>2, <2>1, <2>2
<1>5. c' + k' = MaxLocks
  <2>1. /\ from \in SlotLabels <=> to \in SlotLabels => k' = k
        /\ from \in SlotLabels /\ to \notin SlotLabels => k' = k - 1
        /\ from \notin SlotLabels /\ to \in SlotLabels => k' = k + 1
    BY <1>1, <1>3, Moving
  <2>2. c \in Nat /\ c' \in Nat
    BY <1>1 DEF TypeOK
  <2> HIDE DEF k
  <2> QED  BY <1>1, <1>2, <2>1, <2>2
<1>6. TypeOK'
  BY <1>1 DEF TypeOK, Goto
<1> QED  BY <1>3, <1>4, <1>5, <1>6 DEF IInv, SemaphoresBalance

LEMMA Inductive ==
  ASSUME IInv, NEW p \in Proc, ProcNext(p)
  PROVE  IInv'
<1> USE DEF Label, MutexLabels, SlotLabels
<1>1. c \in Nat /\ rsem \in Nat /\ wsem \in Nat
  BY DEF IInv, TypeOK
<1>2. CASE Call(p)
  BY <1>1, <1>2, BalancedStep DEF Call
<1>3. CASE LockWrite(p)
  <2>1. CASE Goto(p, "write_wait_rsem", "write_wait_wsem") /\ WaitRsem
    BY <1>1, <2>1, BalancedStep DEF WaitRsem
  <2>2. CASE Goto(p, "write_wait_wsem", "writing") /\ WaitWsem
    BY <1>1, <2>2, BalancedStep DEF WaitWsem
  <2> QED  BY <1>3, <2>1, <2>2 DEF LockWrite
<1>4. CASE UnlockWrite(p)
  <2>1. CASE Goto(p, "writing", "write_post_rsem") /\ PostWsem
    BY <1>1, <2>1, BalancedStep DEF PostWsem
  <2>2. CASE Goto(p, "write_post_rsem", "idle") /\ PostRsem
    BY <1>1, <2>2, BalancedStep DEF PostRsem
  <2> QED  BY <1>4, <2>1, <2>2 DEF UnlockWrite
<1>5. CASE LockRead(p)
  <2>1. CASE Goto(p, "read_wait_wsem", "read_try_rsem") /\ WaitWsem
    BY <1>1, <2>1, BalancedStep DEF WaitWsem
  <2>2. CASE /\ Goto(p, "read_try_rsem", "read_wait_c")
             /\ WaitRsem \/ (rsem = 0 /\ UNCHANGED <<c, rsem, wsem>>)
    BY <1>1, <2>2, BalancedStep DEF WaitRsem
  <2>3. CASE Goto(p, "read_wait_c", "read_post_wsem") /\ WaitC
    BY <1>1, <2>3, BalancedStep DEF WaitC
  <2>4. CASE Goto(p, "read_post_wsem", "reading") /\ PostWsem
    BY <1>1, <2>4, BalancedStep DEF PostWsem
  <2> QED  BY <1>5, <2>1, <2>2, <2>3, <2>4 DEF LockRead
<1>6. CASE UnlockRead(p)
  <2>1. CASE Goto(p, "reading", "leave_wait_wsem") /\ UNCHANGED <<c, rsem, wsem>>
    BY <1>1, <2>1, BalancedStep
  <2>2. CASE Goto(p, "leave_wait_wsem", "leave_post_c") /\ WaitWsem
    BY <1>1, <2>2, BalancedStep DEF WaitWsem
  <2>3. CASE Goto(p, "leave_post_c", "leave_check") /\ PostC
    BY <1>1, <2>3, BalancedStep DEF PostC
  <2>4. CASE /\ Goto(p, "leave_check", "leave_post_wsem")
             /\ \/ c = MaxLocks /\ PostRsem
                \/ c # MaxLocks /\ UNCHANGED <<c, rsem, wsem>>
    BY <1>1, <2>4, BalancedStep DEF PostRsem
  <2>5. CASE Goto(p, "leave_post_wsem", "idle") /\ PostWsem
    BY <1>1, <2>5, BalancedStep DEF PostWsem
  <2> QED  BY <1>6, <2>1, <2>2, <2>3, <2>4, <2>5 DEF UnlockRead
<1> QED  BY <1>2, <1>3, <1>4, <1>5, <1>6 DEF ProcNext

LEMMA IInvInit == Init => IInv
<1> SUFFICES ASSUME Init PROVE IInv
  OBVIOUS
<1>1. TypeOK
  BY DEF Init, TypeOK, Label
<1>2. At(MutexLabels) = {} /\ At(SlotLabels) = {}
  BY DEF Init, At, MutexLabels, SlotLabels
<1>3. Cardinality({}) = 0
  BY FS_EmptySet
<1>4. wsem + 0 = 1 /\ c + 0 = MaxLocks
  BY DEF Init
<1> QED  BY <1>1, <1>2, <1>3, <1>4, Balance DEF IInv, SemaphoresBalance

LEMMA IInvIsInvariant == Spec => []IInv
<1>1. IInv /\ UNCHANGED vars => IInv'
  BY DEF IInv, TypeOK, SemaphoresBalance, WsemIsMutex, InsideWsem,
         CounterCountsReaders, vars
<1>2. IInv /\ [Next]_vars => IInv'
  BY <1>1, Inductive DEF Next
<1> QED  BY <1>2, IInvInit, PTL DEF Spec

\* wsem counts the process that may change counter and gate, the counter the
\* slots that are free, after every operation on a semaphore
\* (qlock_lock(), qlock_unlock()).
THEOREM SemaphoresAreBalanced == Spec => []SemaphoresBalance
<1>1. IInv => SemaphoresBalance
  BY DEF IInv
<1> QED  BY <1>1, IInvIsInvariant, PTL

\* A writer is the only one that has taken wsem and not posted it.
THEOREM OneWriter == Spec => []WritersExclusive
<1>1. IInv => WritersExclusive
  <2> SUFFICES ASSUME IInv, NEW p \in Proc, NEW q \in Proc,
                      pc[p] = "writing", pc[q] = "writing", p # q
               PROVE  FALSE
    BY DEF WritersExclusive, Holds
  <2> DEFINE M == At(MutexLabels)
  <2>1. IsFiniteSet(M) /\ p \in M /\ q \in M \ {p}
    BY AtFinite DEF At, MutexLabels
  <2> HIDE DEF M
  <2>2. /\ Cardinality(M \ {p}) = Cardinality(M) - 1
        /\ Cardinality((M \ {p}) \ {q}) = Cardinality(M) - 1 - 1
    BY <2>1, FS_RemoveElement
  <2>3. Cardinality(M) \in Nat /\ Cardinality((M \ {p}) \ {q}) \in Nat
    BY <2>1, FS_RemoveElement, FS_CardinalityType
  <2>4. wsem \in Nat /\ wsem + Cardinality(M) = 1
    BY Balance DEF IInv, TypeOK, SemaphoresBalance, M
  <2> QED  BY <2>2, <2>3, <2>4
<1> QED  BY <1>1, IInvIsInvariant, PTL
=============================================================================
