------------------------------- MODULE RWLock -------------------------------
(***************************************************************************)
(* What libqwsproto/qws_lock.h promises of a QLock: "Read = shared; Write  *)
(* = exclusive".  A process that takes the lock twice counts as two.  The  *)
(* promise ends when a second qlock_create() on the same file resets the   *)
(* semaphores under a holder.                                              *)
(***************************************************************************)
CONSTANT Proc

VARIABLES holds,   \* what each process holds: "none", "read" or "write"
          broken   \* the semaphores were reset under a holder

vars == <<holds, broken>>

Init == /\ holds = [p \in Proc |-> "none"]
        /\ broken = FALSE

AcquireRead(p) ==
  /\ holds[p] = "none"
  /\ broken \/ \A q \in Proc : holds[q] # "write"
  /\ holds' = [holds EXCEPT ![p] = "read"]
  /\ UNCHANGED broken

AcquireWrite(p) ==
  /\ holds[p] = "none"
  /\ broken \/ \A q \in Proc : holds[q] = "none"
  /\ holds' = [holds EXCEPT ![p] = "write"]
  /\ UNCHANGED broken

Release(p) ==
  /\ holds[p] # "none"
  /\ holds' = [holds EXCEPT ![p] = "none"]
  /\ UNCHANGED broken

Break ==
  /\ broken' = TRUE
  /\ UNCHANGED holds

Next == \/ \E p \in Proc : AcquireRead(p) \/ AcquireWrite(p) \/ Release(p)
        \/ Break

Spec == Init /\ [][Next]_vars
=============================================================================
