--------------------------- MODULE FileLock_proof ---------------------------
(***************************************************************************)
(* Proofs about FileLock, for any set of calls and processes: the flock is *)
(* with the call that is past phase 0, and implements LockService.         *)
(***************************************************************************)
EXTENDS FileLock, TLAPS

(* A descriptor is open exactly while its call runs.                       *)
OpenInv ==
  \A c \in Calls : c \in open <=> pc[c] \in {"waiting", "held", "closing"}

(* A granted flock stays with the file until the call gives it up, and a   *)
(* call is past phase 0 only after its goroutine reported the grant.       *)
OwnerInv ==
  \A c \in Calls :
    /\ waiter[c] = "granted" => owner = c
    /\ waiter[c] = "sent" /\ pc[c] \in {"waiting", "held"} => owner = c
    /\ owner = c => waiter[c] \in {"granted", "sent"}
    /\ pc[c] = "held" => waiter[c] = "sent"
    /\ pc[c] = "idle" => waiter[c] = "none"

LockInv == TypeOK /\ OpenInv /\ OwnerInv

LEMMA LockInit == Init => LockInv
BY FileLockAssumption
   DEF Init, LockInv, TypeOK, OpenInv, OwnerInv, Steps, Waiters, InKernel

LEMMA LockNext == LockInv /\ [Next]_vars => LockInv'
<1> SUFFICES ASSUME LockInv, [Next]_vars PROVE LockInv'
  OBVIOUS
<1> USE FileLockAssumption
    DEF LockInv, TypeOK, OpenInv, OwnerInv, Steps, Waiters, InKernel, Goto, Become
<1>1. ASSUME NEW c \in Calls, Open(c) PROVE LockInv'
  BY <1>1 DEF Open
<1>2. ASSUME NEW c \in Calls, OpenFails(c) PROVE LockInv'
  BY <1>2 DEF OpenFails
<1>3. ASSUME NEW c \in Calls, Receive(c) PROVE LockInv'
  BY <1>3 DEF Receive
<1>4. ASSUME NEW c \in Calls, Timeout(c) PROVE LockInv'
  BY <1>4 DEF Timeout
<1>5. ASSUME NEW c \in Calls, Unlock(c) PROVE LockInv'
  BY <1>5 DEF Unlock
<1>6. ASSUME NEW c \in Calls, Close(c) PROVE LockInv'
  BY <1>6 DEF Close
<1>7. ASSUME NEW c \in Calls, StartFlock(c) PROVE LockInv'
  BY <1>7 DEF StartFlock
<1>8. ASSUME NEW c \in Calls, Grant(c) PROVE LockInv'
  BY <1>8 DEF Grant
<1>9. ASSUME NEW c \in Calls, FlockFails(c) PROVE LockInv'
  BY <1>9 DEF FlockFails
<1>10. ASSUME NEW c \in Calls, ReturnFlock(c) PROVE LockInv'
  BY <1>10 DEF ReturnFlock
<1>11. ASSUME NEW p \in Procs, Die(p) PROVE LockInv'
  BY <1>11 DEF Die
<1>12. CASE UNCHANGED vars
  BY <1>12 DEF vars
<1>13. QED
  BY <1>1, <1>2, <1>3, <1>4, <1>5, <1>6, <1>7, <1>8, <1>9, <1>10, <1>11, <1>12
     DEF Next, CallStep, WaiterStep

(* HeldIsOwned: whatever times out, fails or dies, a call past phase 0     *)
(* owns the flock.                                                         *)
THEOREM HeldOwnsLock == Spec => []HeldIsOwned
<1>1. LockInv => HeldIsOwned
  BY DEF LockInv, OpenInv, OwnerInv, HeldIsOwned
<1>2. QED
  BY <1>1, LockInit, LockNext, PTL DEF Spec

(* The refinement mapping of FileLock!Service.                             *)
Stage == [c \in Calls |-> CASE pc[c] = "idle" -> "out"
                            [] pc[c] = "waiting" -> "waiting"
                            [] pc[c] = "held" -> "in"
                            [] OTHER -> "over"]

LEMMA ServiceStep ==
  ASSUME LockInv, [Next]_vars
  PROVE  [Service!Next]_Stage
<1> USE DEF LockInv, TypeOK, Stage, Goto
<1>1. ASSUME NEW c \in Calls, Open(c) PROVE Service!Enter(c)
  BY <1>1 DEF Open, Service!Enter
<1>2. ASSUME NEW c \in Calls,
             pc[c] # "closing" /\ pc[c] # "over",
             pc' = [pc EXCEPT ![c] = "closing"] \/ pc' = [pc EXCEPT ![c] = "over"]
      PROVE  Service!Leave(c)
  BY <1>2 DEF Service!Leave, Steps
<1>3. ASSUME NEW c \in Calls, pc[c] = "waiting", waiter[c] = "sent",
             pc' = [pc EXCEPT ![c] = "held"]
      PROVE  Service!Grant(c)
  <2>1. \A d \in Calls : pc[d] # "held"
    BY <1>3 DEF OwnerInv
  <2>2. QED
    BY <1>3, <2>1 DEF Service!Grant
<1>4. ASSUME NEW c \in Calls, Receive(c) PROVE Service!Next
  BY <1>2, <1>3, <1>4 DEF Receive, Service!Next
<1>5. ASSUME NEW c \in Calls, OpenFails(c) \/ Timeout(c) \/ Unlock(c)
      PROVE  Service!Next
  BY <1>2, <1>5 DEF OpenFails, Timeout, Unlock, Service!Next
<1>6. ASSUME NEW c \in Calls, Close(c) PROVE UNCHANGED Stage
  BY <1>6 DEF Close
<1>7. ASSUME NEW c \in Calls, WaiterStep(c) PROVE UNCHANGED Stage
  BY <1>7 DEF WaiterStep, StartFlock, Grant, FlockFails, ReturnFlock
<1>8. ASSUME NEW p \in Procs, Die(p) PROVE Service!Next
  <2> DEFINE dead == {c \in Calls : ProcOf[c] = p /\ pc[c] # "idle"}
  <2>1. pc' = [c \in Calls |-> IF c \in dead THEN "over" ELSE pc[c]]
    BY <1>8 DEF Die
  <2>2. Stage' = [c \in Calls |-> IF c \in dead THEN "over" ELSE Stage[c]]
    BY <2>1
  <2>3. dead \in SUBSET Calls
    OBVIOUS
  <2> HIDE DEF dead
  <2>4. QED
    BY <2>2, <2>3 DEF Service!Next, Service!Die
<1>9. CASE UNCHANGED vars
  BY <1>9 DEF vars
<1>10. QED
  BY <1>1, <1>4, <1>5, <1>6, <1>7, <1>8, <1>9 DEF Next, CallStep, Service!Next

(* ImplementsLockService: the lock file, with its abandoned goroutines, is *)
(* a lock.                                                                 *)
THEOREM FlockImplementsService == Spec => ImplementsLockService
<1>1. Init => Service!Init
  BY DEF Init, Service!Init
<1>2. LockInv /\ [Next]_vars => [Service!Next]_Stage
  BY ServiceStep
<1>3. QED
  BY <1>1, <1>2, LockInit, LockNext, PTL
     DEF Spec, Service!Spec, ImplementsLockService, Stage
=============================================================================
