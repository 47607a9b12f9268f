------------------------ MODULE PeerAllocation_proof ------------------------
(***************************************************************************)
(* Proofs about PeerAllocation, for any set of requests, names and         *)
(* addresses, any number of attempts per request, and a backend that       *)
(* answers a reserve in any of its three ways.                             *)
(***************************************************************************)
EXTENDS PeerAllocation, TLAPS

(* The parts of the inductive invariant.                                   *)

(* The flock is held exactly by the request past phase 0.                  *)
HolderInv ==
  LockConfigured => \A r \in Reqs : pc[r] \in Locked <=> holder = r

(* What the backend made of an attempt: an answered attempt names a lease  *)
(* of the same key name, and exactly the attempts that created a lease     *)
(* have an address.                                                        *)
AttemptInv ==
  /\ \A a \in Leases : reply[a] # None <=> status[a] \in Created \cup {"shared"}
  /\ \A a \in Leases : addr[a] # None <=> status[a] \in Created
  /\ \A a \in Leases : reply[a] # None =>
       status[reply[a]] \in Created /\ Owner(reply[a]) = Owner(a)

(* A request works with the answer to an attempt of its own, from the      *)
(* phase that follows it, and has its kernel peer from the end of phase 3. *)
PhaseInv ==
  \A r \in Reqs :
    /\ cur[r] # None => Of[cur[r]] = r /\ status[cur[r]] # "unsent"
    /\ pc[r] \in {"idle", "lock"} => cur[r] = None
    /\ pc[r] \in {"idle", "lock", "reserve", "configure"} => r \notin peers
    /\ pc[r] \in {"write", "confirm", "ok"} => r \in peers
    /\ pc[r] \in {"configure", "write", "confirm", "releasing", "ok"} =>
         LeaseOf(r) # None
    /\ r \in peers => LeaseOf(r) # None

(* The backend's own guarantee: two leases in force have two addresses.    *)
DistinctAddresses ==
  \A l, m \in Leases :
    status[l] \in Holding /\ status[m] \in Holding /\ addr[l] = addr[m] => l = m

(* The interface has a peer created under lease l.                         *)
Configured(l) == \E r \in peers : LeaseOf(r) = l

(* Only leases with a peer are confirmed.                                  *)
ConfirmInv ==
  \A l \in Leases : l \in confirms \/ status[l] = "allocated" => Configured(l)

(* The route of a lease in force that has a peer is with its name.         *)
RouteInv ==
  \A l \in Leases :
    status[l] \in Holding /\ Configured(l) =>
      /\ route[addr[l]] # None
      /\ NameOf[route[addr[l]]] = Owner(l)

(* A request about to take a route takes it from no other name's lease.    *)
SessionInv ==
  \A s \in Reqs, l \in Leases :
    /\ pc[s] \in {"reserve", "configure"}
    /\ LeaseOf(s) # None
    /\ status[l] \in Holding
    /\ Configured(l)
    /\ Owner(l) # NameOf[s]
    => addr[l] # addr[LeaseOf(s)]

-----------------------------------------------------------------------------
BaseInv == TypeOK /\ PhaseInv

LEMMA LeaseOfType ==
  ASSUME TypeOK, NEW r \in Reqs
  PROVE  LeaseOf(r) \in Leases \cup {None}
BY PeerAllocationAssumption DEF TypeOK, LeaseOf, Leases

LEMMA BaseInit == Init => BaseInv
<1> USE PeerAllocationAssumption
<1> SUFFICES ASSUME Init PROVE BaseInv
  OBVIOUS
<1>1. TypeOK
  BY DEF Init, TypeOK, Phases, Status, Leases
<1>2. PhaseInv
  BY DEF Init, PhaseInv, LeaseOf
<1>3. QED
  BY <1>1, <1>2 DEF BaseInv

LEMMA BaseNext == BaseInv /\ [Next]_vars => BaseInv'
<1> SUFFICES ASSUME BaseInv, [Next]_vars PROVE BaseInv'
  OBVIOUS
<1> USE PeerAllocationAssumption DEF BaseInv, backendVars, callVars, kernelVars
<1>a. None \notin Leases
  BY DEF Leases
<1>1. ASSUME NEW r \in Reqs,
             \/ AcquireLock(r) \/ RetryReserve(r)
             \/ Begin(r) /\ ~LockConfigured
      PROVE  BaseInv'
  <2>1. /\ pc[r] \in {"idle", "lock", "reserve"}
        /\ pc' = [pc EXCEPT ![r] = "reserve"]
        /\ \/ \E a \in Attempts :
                /\ Of[a] = r
                /\ status' = [status EXCEPT ![a] = "sent"]
                /\ cur' = [cur EXCEPT ![r] = a]
           \/ UNCHANGED <<status, cur>>
        /\ holder' \in {holder, r}
        /\ UNCHANGED <<live, addr, reply, confirms, releases, peers, route>>
    <3>1. CASE AcquireLock(r)
      BY <3>1 DEF AcquireLock, SendReserve, Goto
    <3>2. CASE Begin(r) /\ ~LockConfigured
      BY <3>2 DEF Begin, SendReserve, Goto
    <3>3. CASE RetryReserve(r)
      BY <3>3 DEF RetryReserve, SendReserve, TypeOK
    <3>4. QED
      BY <1>1, <3>1, <3>2, <3>3
  <2>2. TypeOK'
    BY <2>1 DEF TypeOK, Phases, Active, Locked, Status, Leases
  <2>3. PhaseInv'
    BY <2>1 DEF TypeOK, PhaseInv, LeaseOf, Leases
  <2>4. QED
    BY <2>2, <2>3
<1>2. ASSUME NEW r \in Reqs,
             \/ Reject(r) \/ LockTimeout(r) \/ ReserveReplied(r)
             \/ ReserveFails(r) \/ FinishRelease(r) \/ FinishCreate(r)
             \/ Begin(r) /\ LockConfigured
      PROVE  BaseInv'
  <2>1. /\ \/ pc[r] = "idle" /\ pc' = [pc EXCEPT ![r] = "lock"]
           \/ pc' = [pc EXCEPT ![r] = "failed"]
           \/ /\ pc[r] = "reserve" /\ pc' = [pc EXCEPT ![r] = "configure"]
              /\ LeaseOf(r) # None
           \/ pc[r] = "confirm" /\ pc' = [pc EXCEPT ![r] = "ok"]
        /\ holder' \in {holder, None}
        /\ UNCHANGED <<live, cur, backendVars, callVars, kernelVars>>
    BY <1>2 DEF Reject, Begin, LockTimeout, ReserveReplied, ReserveFails,
                FinishRelease, FinishCreate, Goto, Unlock, TypeOK
  <2>2. TypeOK'
    BY <2>1 DEF TypeOK, Phases, Active, Ended, Locked
  <2>3. PhaseInv'
    BY <2>1 DEF TypeOK, PhaseInv, LeaseOf
  <2>4. QED
    BY <2>2, <2>3
<1>3. ASSUME NEW r \in Reqs, ConfigureKernel(r)
      PROVE  BaseInv'
  <2>1. TypeOK'
    BY <1>3 DEF ConfigureKernel, Goto, TypeOK, Phases, Active, Locked
  <2>2. PhaseInv'
    BY <1>3 DEF ConfigureKernel, Goto, TypeOK, PhaseInv, LeaseOf
  <2>3. QED
    BY <2>1, <2>2
<1>4. ASSUME NEW r \in Reqs, WriteConfig(r) \/ Compensate(r)
      PROVE  BaseInv'
  <2>1. /\ pc[r] \in {"configure", "write"} /\ LeaseOf(r) \in Leases
        /\ \/ pc[r] = "write" /\ pc' = [pc EXCEPT ![r] = "confirm"]
           \/ pc' = [pc EXCEPT ![r] = "releasing"]
        /\ confirms' \in {confirms, confirms \cup {LeaseOf(r)}}
        /\ releases' \in {releases, releases \cup {LeaseOf(r)}}
        /\ UNCHANGED <<live, cur, holder, backendVars, kernelVars>>
    BY <1>4, LeaseOfType
       DEF WriteConfig, Compensate, Goto, SendConfirm, SendRelease, PhaseInv
  <2>2. TypeOK'
    BY <2>1 DEF TypeOK, Phases, Active, Locked
  <2>3. PhaseInv'
    BY <2>1 DEF TypeOK, PhaseInv, LeaseOf
  <2>4. QED
    BY <2>2, <2>3
<1>5. ASSUME NEW r \in Reqs, Cancel(r)
      PROVE  BaseInv'
  <2>1. TypeOK'
    BY <1>5 DEF Cancel, TypeOK
  <2>2. PhaseInv'
    BY <1>5 DEF Cancel, TypeOK, PhaseInv, LeaseOf
  <2>3. QED
    BY <2>1, <2>2
<1>6. ASSUME Crash
      PROVE  BaseInv'
  <2>1. TypeOK'
    BY <1>6 DEF Crash, TypeOK, Phases, Ended
  <2>2. PhaseInv'
    BY <1>6 DEF Crash, TypeOK, PhaseInv, LeaseOf, Active, Locked
  <2>3. QED
    BY <2>1, <2>2
<1>7. ASSUME NEW a \in Leases, NewLease(a) \/ ShareLease(a)
      PROVE  BaseInv'
  <2>1. /\ status[a] = "sent"
        /\ \E x \in {"reserved", "shared"} : status' = [status EXCEPT ![a] = x]
        /\ \E l \in Leases : reply' = [reply EXCEPT ![a] = l]
        /\ addr' = addr \/ \E i \in IPs : addr' = [addr EXCEPT ![a] = i]
        /\ UNCHANGED <<pc, live, cur, holder, callVars, kernelVars>>
    BY <1>7 DEF NewLease, ShareLease
  <2>2. TypeOK'
    BY <2>1 DEF TypeOK, Status, Created, Holding
  <2>3. PhaseInv'
    BY <1>a, <2>1 DEF TypeOK, PhaseInv, LeaseOf, Leases
  <2>4. QED
    BY <2>2, <2>3
<1>8. ASSUME NEW l \in Leases,
             \/ LoseReserve(l) \/ ExecConfirm(l) \/ LoseConfirm(l)
             \/ ExecRelease(l) \/ LoseRelease(l) \/ Expire(l) \/ Revoke(l)
      PROVE  BaseInv'
  <2>1. /\ \/ status' = status
           \/ /\ status[l] # "unsent"
              /\ \E x \in Created \cup {"lost", "refused"} :
                   status' = [status EXCEPT ![l] = x]
        /\ confirms' \in SUBSET confirms
        /\ releases' \in SUBSET releases
        /\ UNCHANGED <<pc, live, cur, holder, addr, reply, kernelVars>>
    BY <1>8 DEF LoseReserve, ExecConfirm, LoseConfirm, ExecRelease,
                LoseRelease, Expire, Revoke, Created, Holding
  <2>2. TypeOK'
    BY <2>1 DEF TypeOK, Status
  <2>3. PhaseInv'
    BY <2>1 DEF TypeOK, PhaseInv, LeaseOf, Leases, Created, Holding
  <2>4. QED
    BY <2>2, <2>3
<1>9. CASE UNCHANGED vars
  BY <1>9 DEF vars, TypeOK, PhaseInv, LeaseOf
<1>10. QED
  BY <1>1, <1>2, <1>3, <1>4, <1>5, <1>6, <1>7, <1>8, <1>9
     DEF Next, RequestStep, ClientStep, BackendStep

(* TypeOK: every variable keeps its type; in particular what is confirmed  *)
(* and released is always a lease, never the answer that did not come.     *)
THEOREM TypeCorrect == Spec => []TypeOK
<1>1. Spec => []BaseInv
  BY BaseInit, BaseNext, PTL DEF Spec
<1>2. BaseInv => TypeOK
  BY DEF BaseInv
<1>3. QED
  BY <1>1, <1>2, PTL

-----------------------------------------------------------------------------
(* The flock.                                                              *)

LEMMA HolderInit == Init => HolderInv
<1> SUFFICES ASSUME Init, NEW r \in Reqs
             PROVE  pc[r] \in Locked <=> holder = r
  BY DEF HolderInv
<1>1. pc[r] \notin Locked
  BY DEF Init, Locked
<1>2. holder # r
  BY PeerAllocationAssumption DEF Init
<1>3. QED
  BY <1>1, <1>2

LEMMA HolderNext == TypeOK /\ HolderInv /\ [Next]_vars => HolderInv'
<1> SUFFICES ASSUME TypeOK, HolderInv, [Next]_vars, LockConfigured
             PROVE  (\A q \in Reqs : pc[q] \in Locked <=> holder = q)'
  BY DEF HolderInv
<1> USE PeerAllocationAssumption DEF TypeOK, HolderInv, Locked, Goto, Unlock
<1>1. ASSUME NEW r \in Reqs, RequestStep(r)
      PROVE  (\A q \in Reqs : pc[q] \in Locked <=> holder = q)'
  <2>1. CASE AcquireLock(r)
    BY <2>1 DEF AcquireLock
  <2>2. CASE LockTimeout(r)
    BY <2>2 DEF LockTimeout
  <2>3. CASE RetryReserve(r)
    BY <2>3 DEF RetryReserve
  <2>4. CASE ReserveReplied(r)
    BY <2>4 DEF ReserveReplied
  <2>5. CASE ReserveFails(r)
    BY <2>5 DEF ReserveFails
  <2>6. CASE ConfigureKernel(r)
    BY <2>6 DEF ConfigureKernel
  <2>7. CASE WriteConfig(r)
    BY <2>7 DEF WriteConfig
  <2>8. CASE Compensate(r)
    BY <2>8 DEF Compensate
  <2>9. CASE FinishRelease(r) \/ FinishCreate(r)
    BY <2>9 DEF FinishRelease, FinishCreate
  <2>10. QED
    BY <1>1, <2>1, <2>2, <2>3, <2>4, <2>5, <2>6, <2>7, <2>8, <2>9 DEF RequestStep
<1>2. ASSUME NEW r \in Reqs, ClientStep(r)
      PROVE  (\A q \in Reqs : pc[q] \in Locked <=> holder = q)'
  BY <1>2 DEF ClientStep, Reject, Begin, Cancel
<1>3. ASSUME NEW l \in Leases, BackendStep(l)
      PROVE  (\A q \in Reqs : pc[q] \in Locked <=> holder = q)'
  BY <1>3 DEF BackendStep, NewLease, ShareLease, LoseReserve, ExecConfirm,
              LoseConfirm, ExecRelease, LoseRelease, Expire, Revoke
<1>4. CASE Crash
  BY <1>4 DEF Crash, Active
<1>5. CASE UNCHANGED vars
  BY <1>5 DEF vars
<1>6. QED
  BY <1>1, <1>2, <1>3, <1>4, <1>5 DEF Next

(* LockExclusion: at most one request of the host is past phase 0, for any *)
(* number of requests, on every error path and across restarts.            *)
THEOREM MutualExclusion == Spec => []LockExclusion
<1>1. BaseInv => TypeOK
  BY DEF BaseInv
<1>2. HolderInv => LockExclusion
  BY DEF HolderInv, LockExclusion
<1>3. QED
  BY <1>1, <1>2, BaseInit, BaseNext, HolderInit, HolderNext, PTL DEF Spec

(* The refinement mapping of PeerAllocation!Lock.                          *)
Stage == [r \in Reqs |-> CASE pc[r] = "idle" -> "out"
                           [] pc[r] = "lock" -> "waiting"
                           [] pc[r] \in Locked -> "in"
                           [] OTHER -> "over"]

LEMMA LockStep ==
  ASSUME TypeOK, HolderInv, LockConfigured, [Next]_vars
  PROVE  [Lock!Next]_Stage
<1> USE PeerAllocationAssumption
    DEF TypeOK, Stage, Locked, Phases, Active, Ended, Goto
<1>1. ASSUME NEW r \in Reqs, AcquireLock(r) PROVE Lock!Grant(r)
  <2>1. \A q \in Reqs : pc[q] \notin Locked
    BY <1>1 DEF AcquireLock, HolderInv
  <2>2. pc[r] = "lock" /\ pc' = [pc EXCEPT ![r] = "reserve"]
    BY <1>1 DEF AcquireLock
  <2>3. Stage[r] = "waiting" /\ \A q \in Reqs : Stage[q] # "in"
    BY <2>1, <2>2
  <2>4. Stage' = [Stage EXCEPT ![r] = "in"]
    BY <2>2
  <2>5. QED
    BY <2>3, <2>4 DEF Lock!Grant
<1>2. ASSUME NEW r \in Reqs, Begin(r) PROVE Lock!Enter(r)
  <2>1. pc[r] = "idle" /\ pc' = [pc EXCEPT ![r] = "lock"]
    BY <1>2 DEF Begin
  <2>2. QED
    BY <2>1 DEF Lock!Enter
<1>3. ASSUME NEW r \in Reqs, NEW x \in Ended, pc[r] \notin Ended,
             pc' = [pc EXCEPT ![r] = x]
      PROVE  Lock!Leave(r)
  <2>1. Stage[r] # "over"
    BY <1>3
  <2>2. Stage' = [Stage EXCEPT ![r] = "over"]
    BY <1>3
  <2>3. QED
    BY <2>1, <2>2 DEF Lock!Leave
<1>4. ASSUME NEW r \in Reqs,
             \/ Reject(r) \/ LockTimeout(r) \/ ReserveFails(r)
             \/ FinishRelease(r) \/ FinishCreate(r)
      PROVE  Lock!Leave(r)
  BY <1>3, <1>4 DEF Reject, LockTimeout, ReserveFails, FinishRelease, FinishCreate
<1>5. ASSUME NEW r \in Reqs, NEW x \in Locked, pc[r] \in Locked,
             pc' = pc \/ pc' = [pc EXCEPT ![r] = x]
      PROVE  UNCHANGED Stage
  BY <1>5
<1>6. ASSUME NEW r \in Reqs,
             \/ RetryReserve(r) \/ ReserveReplied(r) \/ ConfigureKernel(r)
             \/ WriteConfig(r) \/ Compensate(r)
      PROVE  UNCHANGED Stage
  BY <1>5, <1>6 DEF RetryReserve, ReserveReplied, ConfigureKernel, WriteConfig, Compensate
<1>7. ASSUME UNCHANGED pc PROVE UNCHANGED Stage
  BY <1>7
<1>8. ASSUME NEW r \in Reqs, Cancel(r) PROVE UNCHANGED Stage
  BY <1>7, <1>8 DEF Cancel
<1>9. ASSUME NEW l \in Leases, BackendStep(l) PROVE UNCHANGED Stage
  BY <1>7, <1>9 DEF BackendStep, NewLease, ShareLease, LoseReserve, ExecConfirm,
                    LoseConfirm, ExecRelease, LoseRelease, Expire, Revoke
<1>10. ASSUME Crash PROVE Lock!Next
  <2> DEFINE dead == {r \in Reqs : pc[r] \in Active}
  <2>1. pc' = [r \in Reqs |-> IF r \in dead THEN "aborted" ELSE pc[r]]
    BY <1>10 DEF Crash
  <2>2. Stage' = [r \in Reqs |-> IF r \in dead THEN "over" ELSE Stage[r]]
    BY <2>1
  <2>3. dead \in SUBSET Reqs
    OBVIOUS
  <2> HIDE DEF dead
  <2>4. QED
    BY <2>2, <2>3 DEF Lock!Next, Lock!Die
<1>11. CASE UNCHANGED vars
  BY <1>7, <1>11 DEF vars
<1>12. QED
  BY <1>1, <1>2, <1>4, <1>6, <1>8, <1>9, <1>10, <1>11
     DEF Next, RequestStep, ClientStep, Lock!Next

(* UsesLockService: with a lock path configured, creation is a client of   *)
(* the lock that FileLock implements.                                      *)
THEOREM CreationUsesLock ==
  ASSUME LockConfigured
  PROVE  Spec => UsesLockService
<1>1. Init => Lock!Init
  BY DEF Init, Lock!Init, Locked
<1>2. BaseInv /\ HolderInv /\ [Next]_vars => [Lock!Next]_Stage
  BY LockStep DEF BaseInv
<1>3. BaseInv => TypeOK
  BY DEF BaseInv
<1>4. QED
  BY <1>1, <1>2, <1>3, BaseInit, BaseNext, HolderInit, HolderNext, PTL
     DEF Spec, Lock!Spec, UsesLockService, Stage

-----------------------------------------------------------------------------
(* The lease table.                                                        *)

LedgerInv == AttemptInv /\ DistinctAddresses

LEMMA LedgerInit == Init => LedgerInv
BY PeerAllocationAssumption
   DEF Init, LedgerInv, AttemptInv, DistinctAddresses, Created, Holding, Leases

LEMMA LedgerNext == TypeOK /\ LedgerInv /\ [Next]_vars => LedgerInv'
<1> SUFFICES ASSUME TypeOK, LedgerInv, [Next]_vars PROVE LedgerInv'
  OBVIOUS
<1> USE PeerAllocationAssumption DEF LedgerInv, backendVars, callVars, kernelVars
<1>a. None \notin Leases /\ None \notin IPs
  BY DEF Leases
<1>1. ASSUME NEW r \in Reqs, SendReserve(r)
      PROVE  LedgerInv'
  <2>1. AttemptInv'
    BY <1>1 DEF SendReserve, TypeOK, AttemptInv, Created, Holding, Leases, Owner
  <2>2. DistinctAddresses'
    BY <1>1 DEF SendReserve, TypeOK, DistinctAddresses, Holding, Leases
  <2>3. QED
    BY <2>1, <2>2
<1>2. ASSUME UNCHANGED backendVars
      PROVE  LedgerInv'
  BY <1>2 DEF AttemptInv, DistinctAddresses
<1>3. ASSUME NEW a \in Leases, NewLease(a)
      PROVE  LedgerInv'
  <2>1. AttemptInv'
    BY <1>a, <1>3 DEF NewLease, TypeOK, AttemptInv, Created, Holding, Owner
  <2>2. DistinctAddresses'
    BY <1>3 DEF NewLease, TypeOK, DistinctAddresses, Taken, Holding
  <2>3. QED
    BY <2>1, <2>2
<1>4. ASSUME NEW a \in Leases, ShareLease(a)
      PROVE  LedgerInv'
  <2>0. PICK l \in Leases : /\ status[l] \in Holding /\ Repeats(a, l)
                            /\ reply' = [reply EXCEPT ![a] = l]
    BY <1>4 DEF ShareLease
  <2>a. Owner(l) = Owner(a)
    BY <2>0 DEF Repeats, Owner
  <2>1. AttemptInv'
    BY <1>a, <1>4, <2>0, <2>a
       DEF ShareLease, TypeOK, AttemptInv, Created, Holding, Owner
  <2>2. DistinctAddresses'
    BY <1>4 DEF ShareLease, TypeOK, DistinctAddresses, Holding
  <2>3. QED
    BY <2>1, <2>2
<1>5. ASSUME NEW l \in Leases, NEW x,
             status' = [status EXCEPT ![l] = x],
             \/ status[l] = "sent" /\ x \in {"lost", "refused"}
             \/ status[l] \in Holding /\ x \in Created \ {"reserved"},
             UNCHANGED <<addr, reply>>
      PROVE  LedgerInv'
  <2>1. AttemptInv'
    BY <1>5 DEF TypeOK, AttemptInv, Created, Holding, Owner
  <2>2. DistinctAddresses'
    BY <1>5 DEF TypeOK, DistinctAddresses, Holding, Created
  <2>3. QED
    BY <2>1, <2>2
<1>6. ASSUME NEW r \in Reqs, RequestStep(r) \/ ClientStep(r)
      PROVE  SendReserve(r) \/ UNCHANGED backendVars
  BY <1>6 DEF RequestStep, ClientStep, AcquireLock, LockTimeout, RetryReserve,
              ReserveReplied, ReserveFails, ConfigureKernel, WriteConfig,
              Compensate, FinishRelease, FinishCreate, Reject, Begin, Cancel
<1>7. ASSUME NEW l \in Leases, BackendStep(l)
      PROVE  LedgerInv'
  <2>1. CASE NewLease(l)
    BY <1>3, <2>1
  <2>2. CASE ShareLease(l)
    BY <1>4, <2>2
  <2>3. CASE LoseReserve(l)
    BY <1>5, <2>3 DEF LoseReserve
  <2>4. CASE ExecConfirm(l)
    BY <1>2, <1>5, <2>4 DEF ExecConfirm, Created, Holding
  <2>5. CASE ExecRelease(l)
    BY <1>2, <1>5, <2>5 DEF ExecRelease, Created
  <2>6. CASE LoseConfirm(l) \/ LoseRelease(l)
    BY <1>2, <2>6 DEF LoseConfirm, LoseRelease
  <2>7. CASE Expire(l) \/ Revoke(l)
    BY <1>5, <2>7 DEF Expire, Revoke, Created, Holding
  <2>8. QED
    BY <1>7, <2>1, <2>2, <2>3, <2>4, <2>5, <2>6, <2>7 DEF BackendStep
<1>8. CASE Crash
  BY <1>2, <1>8 DEF Crash
<1>9. CASE UNCHANGED vars
  BY <1>2, <1>9 DEF vars
<1>10. QED
  BY <1>1, <1>2, <1>6, <1>7, <1>8, <1>9 DEF Next

-----------------------------------------------------------------------------
(* The routes.                                                             *)

CoreInv == BaseInv /\ LedgerInv

(* A peer keeps its lease for ever: what it was created under is answered. *)
LEMMA PeerStable ==
  ASSUME CoreInv, [Next]_vars, NEW r \in peers
  PROVE  r \in peers' /\ LeaseOf(r)' = LeaseOf(r)
<1> USE PeerAllocationAssumption DEF CoreInv, BaseInv, TypeOK, LeaseOf,
        backendVars, callVars, kernelVars
<1>1. r \in Reqs /\ cur[r] \in Leases /\ reply[cur[r]] # None
  BY DEF PhaseInv, Leases
<1>2. pc[r] \notin {"idle", "lock", "reserve", "configure"}
  BY <1>1 DEF PhaseInv
<1>3. status[cur[r]] # "sent"
  BY <1>1 DEF LedgerInv, AttemptInv, Created, Holding
<1>4. ASSUME NEW q \in Reqs, RequestStep(q) \/ ClientStep(q)
      PROVE  r \in peers' /\ UNCHANGED reply /\ cur'[r] = cur[r]
  BY <1>1, <1>2, <1>4
     DEF RequestStep, ClientStep, AcquireLock, LockTimeout, RetryReserve,
         ReserveReplied, ReserveFails, ConfigureKernel, WriteConfig,
         Compensate, FinishRelease, FinishCreate, Reject, Begin, Cancel, SendReserve
<1>5. ASSUME NEW l \in Leases, BackendStep(l)
      PROVE  r \in peers' /\ reply'[cur[r]] = reply[cur[r]] /\ UNCHANGED cur
  BY <1>1, <1>3, <1>5
     DEF BackendStep, NewLease, ShareLease, LoseReserve, ExecConfirm,
         LoseConfirm, ExecRelease, LoseRelease, Expire, Revoke, Leases
<1>6. ASSUME Crash \/ UNCHANGED vars
      PROVE  UNCHANGED <<peers, reply, cur>>
  BY <1>6 DEF Crash, vars
<1>7. QED
  BY <1>1, <1>4, <1>5, <1>6 DEF Next

(* Only the end of phase 3 gives a lease a peer.                           *)
LEMMA ConfiguredStep ==
  ASSUME CoreInv, [Next]_vars, NEW l \in Leases
  PROVE  /\ Configured(l) => Configured(l)'
         /\ Configured(l)' =>
              \/ Configured(l)
              \/ \E r \in Reqs : ConfigureKernel(r) /\ LeaseOf(r) = l
<1>1. Configured(l) => Configured(l)'
  BY PeerStable DEF Configured
<1>2. ASSUME NEW r \in peers', r \notin peers
      PROVE  r \in Reqs /\ ConfigureKernel(r) /\ LeaseOf(r)' = LeaseOf(r)
  <2>1. PICK q \in Reqs : ConfigureKernel(q)
    BY <1>2 DEF Next, RequestStep, ClientStep, BackendStep, Crash, vars,
         AcquireLock, LockTimeout, RetryReserve, ReserveReplied, ReserveFails,
         WriteConfig, Compensate, FinishRelease, FinishCreate, Reject, Begin, Cancel, NewLease, ShareLease, LoseReserve, ExecConfirm,
         LoseConfirm, ExecRelease, LoseRelease, Expire, Revoke, kernelVars
  <2>2. r = q
    BY <1>2, <2>1 DEF ConfigureKernel
  <2>3. QED
    BY <2>1, <2>2 DEF ConfigureKernel, LeaseOf, backendVars
<1>3. ASSUME Configured(l)'
      PROVE  \/ Configured(l)
             \/ \E r \in Reqs : ConfigureKernel(r) /\ LeaseOf(r) = l
  <2>1. PICK r \in peers' : LeaseOf(r)' = l
    BY <1>3 DEF Configured
  <2>2. CASE r \in peers
    BY <2>1, <2>2, PeerStable DEF Configured
  <2>3. CASE r \notin peers
    BY <1>2, <2>1, <2>3
  <2>4. QED
    BY <2>2, <2>3
<1>4. QED
  BY <1>1, <1>3

(* Only phase 6 confirms a lease.                                          *)
LEMMA NewlyConfirmed ==
  ASSUME CoreInv, [Next]_vars, NEW l \in Leases,
         l \notin confirms, status[l] # "allocated",
         l \in confirms' \/ status'[l] = "allocated"
  PROVE  \E r \in Reqs : WriteConfig(r) /\ LeaseOf(r) = l
<1> USE DEF CoreInv, BaseInv, TypeOK, backendVars, callVars, kernelVars
<1>1. ASSUME NEW r \in Reqs, RequestStep(r) \/ ClientStep(r)
      PROVE  WriteConfig(r) /\ LeaseOf(r) = l
  <2>1. SendReserve(r) => status'[l] # "allocated"
    BY DEF SendReserve, Leases
  <2>2. QED
    BY <1>1, <2>1
       DEF RequestStep, ClientStep, AcquireLock, LockTimeout,
           RetryReserve, ReserveReplied, ReserveFails, ConfigureKernel,
           WriteConfig, Compensate, FinishRelease, FinishCreate, Reject,
           Begin, Cancel, SendConfirm
<1>2. ASSUME NEW m \in Leases, BackendStep(m)
      PROVE  FALSE
  BY <1>2
     DEF BackendStep, NewLease, ShareLease, LoseReserve, ExecConfirm,
         LoseConfirm, ExecRelease, LoseRelease, Expire, Revoke, Leases
<1>3. ASSUME Crash \/ UNCHANGED vars
      PROVE  FALSE
  BY <1>3 DEF Crash, vars
<1>4. QED
  BY <1>1, <1>2, <1>3 DEF Next

LEMMA ConfirmNext == CoreInv /\ ConfirmInv /\ [Next]_vars => ConfirmInv'
<1> SUFFICES ASSUME CoreInv, ConfirmInv, [Next]_vars, NEW l \in Leases,
                    l \in confirms' \/ status'[l] = "allocated"
             PROVE  Configured(l)'
  BY DEF ConfirmInv, Leases
<1>1. CASE l \in confirms \/ status[l] = "allocated"
  BY <1>1, ConfiguredStep DEF ConfirmInv
<1>2. CASE l \notin confirms /\ status[l] # "allocated"
  <2>1. PICK r \in Reqs : WriteConfig(r) /\ LeaseOf(r) = l
    BY <1>2, NewlyConfirmed
  <2>2. r \in peers /\ LeaseOf(r) = l
    BY <2>1 DEF WriteConfig, CoreInv, BaseInv, PhaseInv
  <2>3. QED
    BY <2>2, PeerStable DEF Configured
<1>3. QED
  BY <1>1, <1>2

(* A lease that comes into force is new to every peer, and no lease in     *)
(* force ever changes its address.                                         *)
LEMMA HoldingStep ==
  ASSUME CoreInv, [Next]_vars, NEW l \in Leases, status'[l] \in Holding
  PROVE  \/ status[l] \in Holding /\ addr'[l] = addr[l]
         \/ NewLease(l) /\ ~Configured(l)
<1> USE DEF CoreInv, BaseInv, TypeOK, Leases, Holding, backendVars
<1>1. ASSUME NewLease(l)
      PROVE  ~Configured(l)
  <2> SUFFICES ASSUME NEW r \in peers, LeaseOf(r) = l
               PROVE  FALSE
    BY DEF Configured
  <2>1. cur[r] \in Leases /\ reply[cur[r]] = l /\ reply[cur[r]] # None
    BY PeerAllocationAssumption DEF LeaseOf, PhaseInv
  <2>2. status[l] \in Created
    BY <2>1 DEF LedgerInv, AttemptInv
  <2>3. QED
    BY <1>1, <2>2 DEF NewLease, Created
<1>2. ASSUME NEW r \in Reqs, RequestStep(r) \/ ClientStep(r)
      PROVE  status[l] \in Holding /\ addr'[l] = addr[l]
  BY <1>2 DEF RequestStep, ClientStep, AcquireLock, LockTimeout, RetryReserve,
              ReserveReplied, ReserveFails, ConfigureKernel, WriteConfig,
              Compensate, FinishRelease, FinishCreate, Reject, Begin, Cancel, SendReserve
<1>3. ASSUME NEW m \in Leases, BackendStep(m), ~NewLease(l)
      PROVE  status[l] \in Holding /\ addr'[l] = addr[l]
  BY <1>3 DEF BackendStep, NewLease, ShareLease, LoseReserve, ExecConfirm,
              LoseConfirm, ExecRelease, LoseRelease, Expire, Revoke
<1>4. ASSUME Crash \/ UNCHANGED vars
      PROVE  status[l] \in Holding /\ addr'[l] = addr[l]
  BY <1>4 DEF Crash, vars
<1>5. QED
  BY <1>1, <1>2, <1>3, <1>4 DEF Next

(* A request's lease carries the request's name.                           *)
LEMMA LeaseName ==
  ASSUME CoreInv, NEW r \in Reqs, LeaseOf(r) # None
  PROVE  LeaseOf(r) \in Leases /\ Owner(LeaseOf(r)) = NameOf[r]
<1>1. cur[r] \in Leases /\ Of[cur[r]] = r
  BY DEF CoreInv, BaseInv, TypeOK, PhaseInv, LeaseOf, Leases
<1>2. LeaseOf(r) \in Leases
  BY LeaseOfType DEF CoreInv, BaseInv
<1>3. QED
  BY <1>1, <1>2 DEF CoreInv, LedgerInv, AttemptInv, LeaseOf, Owner

RouteSafe == HolderInv /\ RouteInv /\ SessionInv

LEMMA RouteNext ==
  CoreInv /\ RouteSafe /\ LockConfigured /\ [Next]_vars => RouteInv'
<1> SUFFICES ASSUME CoreInv, RouteSafe, LockConfigured, [Next]_vars,
                    NEW l \in Leases, status'[l] \in Holding, Configured(l)'
             PROVE  /\ route'[addr'[l]] # None
                    /\ NameOf[route'[addr'[l]]] = Owner(l)
  BY DEF RouteInv, Owner, Leases
<1> USE PeerAllocationAssumption
<1>1. CASE \E r \in Reqs : ConfigureKernel(r)
  <2>1. PICK r \in Reqs : ConfigureKernel(r)
    BY <1>1
  <2>2. /\ pc[r] = "configure" /\ LeaseOf(r) \in Leases
        /\ LeaseOf(r) # None /\ Owner(LeaseOf(r)) = NameOf[r]
    BY <2>1, LeaseName DEF ConfigureKernel, CoreInv, BaseInv, PhaseInv
  <2>3. /\ route' = [route EXCEPT ![addr[LeaseOf(r)]] = r]
        /\ UNCHANGED <<status, addr>>
    BY <2>1 DEF ConfigureKernel, backendVars
  <2>4. addr[l] \in IPs
    BY <2>3 DEF CoreInv, BaseInv, LedgerInv, AttemptInv, TypeOK, Created
  <2>5. route \in [IPs -> Reqs \cup {None}]
    BY DEF CoreInv, BaseInv, TypeOK
  <2>6. CASE addr[l] = addr[LeaseOf(r)]
    <3>1. Owner(l) = NameOf[r]
      <4>1. CASE l = LeaseOf(r)
        BY <2>2, <4>1
      <4>2. CASE l # LeaseOf(r)
        <5>1. Configured(l)
          BY <2>1, <4>2 DEF Configured, ConfigureKernel, LeaseOf, backendVars
        <5>2. QED
          BY <2>2, <2>3, <2>6, <5>1 DEF RouteSafe, SessionInv
      <4>3. QED
        BY <4>1, <4>2
    <3>2. QED
      BY <2>3, <2>4, <2>5, <2>6, <3>1
  <2>7. CASE addr[l] # addr[LeaseOf(r)]
    <3>1. Configured(l)
      BY <2>1, <2>7 DEF Configured, ConfigureKernel, LeaseOf, backendVars
    <3>2. QED
      BY <2>3, <2>4, <2>5, <2>7, <3>1 DEF RouteSafe, RouteInv
  <2>8. QED
    BY <2>6, <2>7
<1>2. CASE ~ \E r \in Reqs : ConfigureKernel(r)
  <2>1. Configured(l)
    BY <1>2, ConfiguredStep
  <2>2. status[l] \in Holding /\ addr'[l] = addr[l]
    BY <2>1, HoldingStep
  <2>3. UNCHANGED route
    BY <1>2 DEF Next, RequestStep, ClientStep, BackendStep, Crash, vars,
         AcquireLock, LockTimeout, RetryReserve, ReserveReplied, ReserveFails,
         WriteConfig, Compensate, FinishRelease, FinishCreate, Reject, Begin, Cancel, NewLease, ShareLease, LoseReserve, ExecConfirm,
         LoseConfirm, ExecRelease, LoseRelease, Expire, Revoke, kernelVars
  <2>4. QED
    BY <2>1, <2>2, <2>3 DEF RouteSafe, RouteInv
<1>3. QED
  BY <1>1, <1>2

(* Before phase 3 the lease of a request is the one it had, or one that is *)
(* in force now: the reply has just arrived at the backend's side.         *)
LEMMA SessionStep ==
  ASSUME CoreInv, LockConfigured, [Next]_vars, NEW s \in Reqs,
         pc'[s] \in {"reserve", "configure"}, LeaseOf(s)' # None
  PROVE  \/ /\ pc[s] \in {"reserve", "configure"}
            /\ LeaseOf(s) # None /\ LeaseOf(s)' = LeaseOf(s)
            /\ addr'[LeaseOf(s)] = addr[LeaseOf(s)]
         \/ status'[LeaseOf(s)'] \in Holding
<1> USE PeerAllocationAssumption
    DEF CoreInv, BaseInv, TypeOK, LeaseOf, Leases, backendVars
<1>1. ASSUME NEW r \in Reqs, SendReserve(r), pc[r] \in {"lock", "reserve"},
             pc[r] = "reserve" => live[r], pc' = [pc EXCEPT ![r] = "reserve"]
      PROVE  /\ pc[s] \in {"reserve", "configure"}
             /\ LeaseOf(s) # None /\ LeaseOf(s)' = LeaseOf(s)
             /\ addr'[LeaseOf(s)] = addr[LeaseOf(s)]
  <2>1. CASE r = s
    <3>1. cur[s] = None \/ live[s]
      BY <1>1, <2>1 DEF PhaseInv
    <3>2. cur'[s] # None
      OBVIOUS
    <3>3. PICK a \in Attempts : cur'[s] = a /\ status[a] = "unsent"
      BY <1>1, <2>1, <3>1, <3>2 DEF SendReserve
    <3>4. reply[a] = None
      BY <3>3 DEF LedgerInv, AttemptInv, Created, Holding
    <3>5. QED
      BY <1>1, <3>3, <3>4 DEF SendReserve
  <2>2. CASE r # s
    BY <1>1, <2>2 DEF SendReserve
  <2>3. QED
    BY <2>1, <2>2
<1>2. ASSUME NEW r \in Reqs, RequestStep(r) \/ ClientStep(r)
      PROVE  /\ pc[s] \in {"reserve", "configure"}
             /\ LeaseOf(s) # None /\ LeaseOf(s)' = LeaseOf(s)
             /\ addr'[LeaseOf(s)] = addr[LeaseOf(s)]
  <2>1. CASE AcquireLock(r) \/ RetryReserve(r)
    BY <1>1, <2>1 DEF AcquireLock, RetryReserve, CanRetry, Goto
  <2>2. CASE ~(AcquireLock(r) \/ RetryReserve(r))
    BY <1>2, <2>2
       DEF RequestStep, ClientStep, LockTimeout, ReserveReplied, ReserveFails,
           ConfigureKernel, WriteConfig, Compensate, FinishRelease,
           FinishCreate, Reject, Begin, Cancel, Goto
  <2>3. QED
    BY <2>1, <2>2
<1>3. ASSUME NEW m \in Leases, NewLease(m) \/ ShareLease(m)
      PROVE  \/ /\ pc[s] \in {"reserve", "configure"}
                /\ LeaseOf(s) # None /\ LeaseOf(s)' = LeaseOf(s)
                /\ addr'[LeaseOf(s)] = addr[LeaseOf(s)]
             \/ status'[LeaseOf(s)'] \in Holding
  <2>1. cur[s] \in Leases /\ UNCHANGED <<pc, cur>>
    BY <1>3 DEF NewLease, ShareLease
  <2>2. CASE cur[s] = m
    BY <1>3, <2>1, <2>2 DEF NewLease, ShareLease, Holding
  <2>3. CASE cur[s] # m
    <3>1. LeaseOf(s)' = LeaseOf(s)
      BY <1>3, <2>1, <2>3 DEF NewLease, ShareLease
    <3>2. status[LeaseOf(s)] \in Created /\ LeaseOf(s) # m
      BY <1>3, <2>1, <3>1
         DEF NewLease, ShareLease, LedgerInv, AttemptInv, Created, Holding
    <3>3. QED
      BY <1>3, <2>1, <3>1, <3>2 DEF NewLease, ShareLease
  <2>4. QED
    BY <2>2, <2>3
<1>4. ASSUME NEW m \in Leases, BackendStep(m), ~(NewLease(m) \/ ShareLease(m))
      PROVE  UNCHANGED <<pc, cur, reply, addr>>
  BY <1>4 DEF BackendStep, LoseReserve, ExecConfirm, LoseConfirm, ExecRelease,
              LoseRelease, Expire, Revoke
<1>5. ASSUME Crash \/ UNCHANGED vars
      PROVE  /\ pc[s] \in {"reserve", "configure"}
             /\ LeaseOf(s) # None /\ LeaseOf(s)' = LeaseOf(s)
             /\ addr'[LeaseOf(s)] = addr[LeaseOf(s)]
  BY <1>5 DEF Crash, vars
<1>6. QED
  BY <1>2, <1>3, <1>4, <1>5 DEF Next

LEMMA SessionNext ==
  CoreInv /\ RouteSafe /\ LockConfigured /\ [Next]_vars => SessionInv'
<1> SUFFICES ASSUME CoreInv, RouteSafe, LockConfigured, [Next]_vars,
                    NEW s \in Reqs, NEW l \in Leases,
                    pc'[s] \in {"reserve", "configure"}, LeaseOf(s)' # None,
                    status'[l] \in Holding, Configured(l)', Owner(l) # NameOf[s]
             PROVE  addr'[l] # addr'[LeaseOf(s)']
  BY DEF SessionInv, Owner, Leases
<1>1. CoreInv'
  BY BaseNext, LedgerNext DEF CoreInv, BaseInv
<1>2. ~ \E r \in Reqs : ConfigureKernel(r)
  <2> SUFFICES ASSUME NEW r \in Reqs, ConfigureKernel(r) PROVE FALSE
    OBVIOUS
  <2>1. r # s /\ pc[s] \in Locked /\ pc[r] \in Locked
    BY DEF ConfigureKernel, Goto, CoreInv, BaseInv, TypeOK, Locked
  <2>2. QED
    BY <2>1 DEF RouteSafe, HolderInv
<1>3. Configured(l)
  BY <1>2, ConfiguredStep
<1>4. status[l] \in Holding /\ addr'[l] = addr[l]
  BY <1>3, HoldingStep
<1>5. CASE /\ pc[s] \in {"reserve", "configure"}
           /\ LeaseOf(s) # None /\ LeaseOf(s)' = LeaseOf(s)
           /\ addr'[LeaseOf(s)] = addr[LeaseOf(s)]
  BY <1>3, <1>4, <1>5 DEF RouteSafe, SessionInv
<1>6. CASE status'[LeaseOf(s)'] \in Holding
  <2>1. cur'[s] \in Leases /\ Of[cur'[s]] = s
    BY <1>1 DEF CoreInv, BaseInv, TypeOK, PhaseInv, LeaseOf, Leases
  <2>2. LeaseOf(s)' = reply'[cur'[s]] /\ LeaseOf(s)' \in Leases
    BY <1>1, <2>1 DEF CoreInv, BaseInv, TypeOK, LeaseOf, Leases
  <2>3. Owner(LeaseOf(s)') = NameOf[s]
    BY <1>1, <2>1, <2>2 DEF CoreInv, LedgerInv, AttemptInv, Owner
  <2>4. QED
    BY <1>1, <1>6, <2>2, <2>3 DEF CoreInv, LedgerInv, DistinctAddresses
<1>7. QED
  BY <1>5, <1>6, SessionStep

(* The inductive invariant.                                                *)
FullInv ==
  /\ CoreInv
  /\ ConfirmInv
  /\ HolderInv
  /\ LockConfigured => RouteInv /\ SessionInv

LEMMA FullInit == Init => FullInv
<1> SUFFICES ASSUME Init PROVE FullInv
  OBVIOUS
<1>1. CoreInv /\ HolderInv
  BY BaseInit, LedgerInit, HolderInit DEF CoreInv
<1>2. ConfirmInv /\ RouteInv /\ SessionInv
  BY PeerAllocationAssumption
     DEF Init, ConfirmInv, RouteInv, SessionInv, Configured, Holding, Leases
<1>3. QED
  BY <1>1, <1>2 DEF FullInv

LEMMA FullNext == FullInv /\ [Next]_vars => FullInv'
<1> SUFFICES ASSUME FullInv, [Next]_vars PROVE FullInv'
  OBVIOUS
<1>1. CoreInv' /\ HolderInv' /\ ConfirmInv'
  BY BaseNext, LedgerNext, HolderNext, ConfirmNext DEF FullInv, CoreInv, BaseInv
<1>2. LockConfigured => RouteInv' /\ SessionInv'
  BY RouteNext, SessionNext DEF FullInv, RouteSafe
<1>3. QED
  BY <1>1, <1>2 DEF FullInv

(* AllocatedAddressRouted: with a lock path configured, the interface      *)
(* routes every allocated address to a peer of the name that holds it,     *)
(* whatever expires, is lost, retried, cancelled or killed on the way.     *)
THEOREM RoutesFollowLeases == Spec => []AllocatedAddressRouted
<1>1. FullInv => AllocatedAddressRouted
  BY DEF FullInv, ConfirmInv, RouteInv, AllocatedAddressRouted, Holding
<1>2. QED
  BY <1>1, FullInit, FullNext, PTL DEF Spec

-----------------------------------------------------------------------------
(* Creation implements the address book.                                   *)

(* The refinement mapping of PeerAllocation!Book.                          *)
User == [i \in IPs |->
           IF \E l \in Leases : status[l] = "allocated" /\ addr[l] = i
           THEN NameOf[route[i]] ELSE None]

LEMMA UserIsOwner ==
  ASSUME FullInv, LockConfigured, NEW l \in Leases, status[l] = "allocated"
  PROVE  addr[l] \in IPs /\ User[addr[l]] = Owner(l) /\ Owner(l) \in Names
<1>1. addr[l] \in IPs
  BY PeerAllocationAssumption
     DEF FullInv, CoreInv, BaseInv, TypeOK, LedgerInv, AttemptInv, Created, Holding
<1>2. NameOf[route[addr[l]]] = Owner(l)
  BY DEF FullInv, ConfirmInv, RouteInv, Holding
<1>3. QED
  BY <1>1, <1>2, PeerAllocationAssumption DEF User, Owner, Leases

(* What a step can do to the allocated leases.                             *)
LEMMA AllocatedStep ==
  ASSUME FullInv, [Next]_vars
  PROVE  \/ /\ \A l \in Leases : status[l] = "allocated" <=> status'[l] = "allocated"
            /\ \A l \in Leases : status[l] = "allocated" => addr'[l] = addr[l]
         \/ \E l \in Leases :
              /\ status[l] = "reserved" /\ status' = [status EXCEPT ![l] = "allocated"]
              /\ UNCHANGED <<addr, route>>
         \/ \E l \in Leases :
              /\ status[l] = "allocated" /\ status' = [status EXCEPT ![l] = "released"]
              /\ UNCHANGED <<addr, route>>
<1> USE DEF FullInv, CoreInv, BaseInv, TypeOK, Holding, backendVars, kernelVars
<1>1. ASSUME NEW r \in Reqs, RequestStep(r) \/ ClientStep(r)
      PROVE  /\ \A l \in Leases : status[l] = "allocated" <=> status'[l] = "allocated"
             /\ UNCHANGED addr
  BY <1>1 DEF RequestStep, ClientStep, AcquireLock, LockTimeout, RetryReserve,
              ReserveReplied, ReserveFails, ConfigureKernel, WriteConfig,
              Compensate, FinishRelease, FinishCreate, Reject, Begin, Cancel, SendReserve, Leases
<1>2. ASSUME NEW l \in Leases, BackendStep(l),
             ~(ExecConfirm(l) \/ ExecRelease(l) \/ Revoke(l))
      PROVE  /\ \A m \in Leases : status[m] = "allocated" <=> status'[m] = "allocated"
             /\ \A m \in Leases : status[m] = "allocated" => addr'[m] = addr[m]
  BY <1>2 DEF BackendStep, NewLease, ShareLease, LoseReserve, LoseConfirm,
              LoseRelease, Expire
<1>3. ASSUME NEW l \in Leases, ExecConfirm(l) \/ ExecRelease(l) \/ Revoke(l)
      PROVE  \/ status' = status /\ UNCHANGED <<addr, route>>
             \/ /\ status[l] = "reserved" /\ status' = [status EXCEPT ![l] = "released"]
                /\ UNCHANGED <<addr, route>>
             \/ /\ status[l] = "reserved" /\ status' = [status EXCEPT ![l] = "allocated"]
                /\ UNCHANGED <<addr, route>>
             \/ /\ status[l] = "allocated" /\ status' = [status EXCEPT ![l] = "released"]
                /\ UNCHANGED <<addr, route>>
  BY <1>3 DEF ExecConfirm, ExecRelease, Revoke
<1>4. ASSUME Crash \/ UNCHANGED vars
      PROVE  UNCHANGED <<status, addr>>
  BY <1>4 DEF Crash, vars
<1>5. QED
  BY <1>1, <1>2, <1>3, <1>4 DEF Next

LEMMA BookStep ==
  ASSUME FullInv, FullInv', LockConfigured, [Next]_vars
  PROVE  [Book!Next]_User
<1> USE PeerAllocationAssumption DEF FullInv, CoreInv, BaseInv, TypeOK
<1>1. ASSUME \A l \in Leases : status[l] = "allocated" <=> status'[l] = "allocated",
             \A l \in Leases : status[l] = "allocated" => addr'[l] = addr[l]
      PROVE  User' = User
  <2> SUFFICES ASSUME NEW i \in IPs
               PROVE  User'[i] = User[i]
    BY DEF User
  <2>1. CASE \E l \in Leases : status[l] = "allocated" /\ addr[l] = i
    <3>1. PICK l \in Leases : status[l] = "allocated" /\ addr[l] = i
      BY <2>1
    <3>2. status'[l] = "allocated" /\ addr'[l] = i
      BY <1>1, <3>1
    <3>3. User[i] = Owner(l)
      BY <3>1, UserIsOwner
    <3>4. NameOf[route'[addr'[l]]] = Owner(l)
      BY <3>2 DEF ConfirmInv, RouteInv, Holding, Owner, Leases
    <3>5. User'[i] = Owner(l)
      BY <3>2, <3>4 DEF User
    <3>6. QED
      BY <3>3, <3>5
  <2>2. CASE ~ \E l \in Leases : status[l] = "allocated" /\ addr[l] = i
    BY <1>1, <2>2 DEF User
  <2>3. QED
    BY <2>1, <2>2
<1>2. ASSUME NEW l \in Leases, status[l] = "reserved",
             status' = [status EXCEPT ![l] = "allocated"], UNCHANGED <<addr, route>>
      PROVE  Book!Next
  <2>1. addr[l] \in IPs
    BY <1>2 DEF LedgerInv, AttemptInv, Created, Holding
  <2>2. User[addr[l]] = None
    BY <1>2, <2>1 DEF User, LedgerInv, DistinctAddresses, Holding
  <2>3. /\ status'[l] = "allocated"
        /\ \A m \in Leases \ {l} : status'[m] = status[m]
    BY <1>2
  <2>4. NameOf[route'[addr'[l]]] = Owner(l) /\ Owner(l) \in Names
    BY <2>3 DEF ConfirmInv, RouteInv, Holding, Owner, Leases
  <2>5. User' = [User EXCEPT ![addr[l]] = Owner(l)]
    <3> SUFFICES ASSUME NEW i \in IPs
                 PROVE  User'[i] = IF i = addr[l] THEN Owner(l) ELSE User[i]
      BY DEF User
    <3>1. CASE i = addr[l]
      BY <1>2, <2>3, <2>4, <3>1 DEF User
    <3>2. CASE i # addr[l]
      BY <1>2, <2>3, <3>2 DEF User
    <3>3. QED
      BY <3>1, <3>2
  <2>6. QED
    BY <2>1, <2>2, <2>4, <2>5 DEF Book!Next, Book!Grant, User
<1>3. ASSUME NEW l \in Leases, status[l] = "allocated",
             status' = [status EXCEPT ![l] = "released"], UNCHANGED <<addr, route>>
      PROVE  Book!Next
  <2>1. addr[l] \in IPs /\ User[addr[l]] = Owner(l) /\ Owner(l) # None
    BY <1>3, UserIsOwner
  <2>2. \A m \in Leases : status'[m] = "allocated" => addr[m] # addr[l]
    BY <1>3 DEF LedgerInv, DistinctAddresses, Holding
  <2>3. \A m \in Leases \ {l} : status'[m] = status[m]
    BY <1>3
  <2>4. User' = [User EXCEPT ![addr[l]] = None]
    <3> SUFFICES ASSUME NEW i \in IPs
                 PROVE  User'[i] = IF i = addr[l] THEN None ELSE User[i]
      BY DEF User
    <3>1. CASE i = addr[l]
      BY <1>3, <2>2, <3>1 DEF User
    <3>2. CASE i # addr[l]
      BY <1>3, <2>3, <2>2, <3>2 DEF User
    <3>3. QED
      BY <3>1, <3>2
  <2>5. QED
    BY <2>1, <2>4 DEF Book!Next, Book!GiveBack, User
<1>4. QED
  BY <1>1, <1>2, <1>3, AllocatedStep

(* With a lock path configured, an address in use passes from one name to  *)
(* another only after it was given back.                                   *)
THEOREM CreationImplementsBook ==
  ASSUME LockConfigured
  PROVE  Spec => ImplementsAddressBook
<1>1. Init => Book!Init
  BY DEF Init, Book!Init
<1>2. FullInv /\ FullInv' /\ [Next]_vars => [Book!Next]_User
  BY BookStep
<1>3. QED
  BY <1>1, <1>2, FullInit, FullNext, PTL
     DEF Spec, Book!Spec, ImplementsAddressBook, User
-----------------------------------------------------------------------------
(* Confirmations and compensations.                                        *)

Delivered(r) == pc[r] \in {"confirm", "ok", "aborted"}

(* What is confirmed, or was, belongs to a request that got to phase 6.    *)
DeliveredInv ==
  \A l \in Leases :
    l \in confirms \/ status[l] = "allocated" =>
      \E r \in peers : LeaseOf(r) = l /\ Delivered(r)

(* A request that got to phase 6, or that gave up, only moves on to its    *)
(* end.                                                                    *)
LEMMA EndStep ==
  ASSUME TypeOK, [Next]_vars, NEW r \in Reqs
  PROVE  /\ Delivered(r) => Delivered(r)'
         /\ GaveUp(r) => GaveUp(r)'
<1> USE DEF TypeOK, Delivered, GaveUp
<1>1. ASSUME NEW q \in Reqs, RequestStep(q) \/ ClientStep(q)
      PROVE  /\ Delivered(r) => Delivered(r)'
             /\ GaveUp(r) => GaveUp(r)'
  BY <1>1 DEF RequestStep, ClientStep, AcquireLock, LockTimeout, RetryReserve,
              ReserveReplied, ReserveFails, ConfigureKernel, WriteConfig,
              Compensate, FinishRelease, FinishCreate, Reject, Begin, Cancel,
              Goto
<1>2. ASSUME NEW l \in Leases, BackendStep(l)
      PROVE  UNCHANGED pc
  BY <1>2 DEF BackendStep, NewLease, ShareLease, LoseReserve, ExecConfirm,
              LoseConfirm, ExecRelease, LoseRelease, Expire, Revoke
<1>3. CASE Crash
  BY <1>3 DEF Crash
<1>4. CASE UNCHANGED vars
  BY <1>4 DEF vars
<1>5. QED
  BY <1>1, <1>2, <1>3, <1>4 DEF Next

LEMMA DeliveredNext ==
  CoreInv /\ DeliveredInv /\ [Next]_vars => DeliveredInv'
<1> SUFFICES ASSUME CoreInv, DeliveredInv, [Next]_vars, NEW l \in Leases,
                    l \in confirms' \/ status'[l] = "allocated"
             PROVE  (\E r \in peers : LeaseOf(r) = l /\ Delivered(r))'
  BY DEF DeliveredInv, Leases
<1>1. CASE l \in confirms \/ status[l] = "allocated"
  <2>1. PICK r \in peers : LeaseOf(r) = l /\ Delivered(r)
    BY <1>1 DEF DeliveredInv
  <2>2. QED
    BY <2>1, PeerStable, EndStep DEF CoreInv, BaseInv, TypeOK
<1>2. CASE l \notin confirms /\ status[l] # "allocated"
  <2>1. PICK r \in Reqs : WriteConfig(r) /\ LeaseOf(r) = l
    BY <1>2, NewlyConfirmed
  <2>2. r \in peers
    BY <2>1 DEF WriteConfig, CoreInv, BaseInv, PhaseInv
  <2>3. Delivered(r)'
    BY <2>1 DEF WriteConfig, Goto, Delivered, CoreInv, BaseInv, TypeOK
  <2>4. QED
    BY <2>1, <2>2, <2>3, PeerStable
<1>3. QED
  BY <1>1, <1>2

LEMMA DeliveredInit == Init => DeliveredInv
BY DEF Init, DeliveredInv, Leases

(* AllocatedWasDelivered: an orphan lease, of a lost attempt or of a       *)
(* creation that returned an error, is never allocated, however the        *)
(* backend answers a repeated reserve.                                     *)
THEOREM OnlyDeliveredIsAllocated == Spec => []AllocatedWasDelivered
<1> DEFINE Inv == CoreInv /\ DeliveredInv
<1>1. Init => Inv
  BY BaseInit, LedgerInit, DeliveredInit DEF CoreInv
<1>2. Inv /\ [Next]_vars => Inv'
  BY BaseNext, LedgerNext, DeliveredNext DEF CoreInv, BaseInv
<1>3. Inv => AllocatedWasDelivered
  BY DEF DeliveredInv, Delivered, AllocatedWasDelivered, CoreInv, BaseInv, TypeOK
<1>4. QED
  BY <1>1, <1>2, <1>3, PTL DEF Spec

(* A lease is being released only if a request that works with it, the one *)
(* it was made for or another of its name, has given up.                   *)
ReleaseInv ==
  \A l \in releases : \E r \in Reqs : LeaseOf(r) = l /\ GaveUp(r)

(* Who gave up never turns to another lease.                               *)
LEMMA LeaseStable ==
  ASSUME CoreInv, [Next]_vars, NEW r \in Reqs, GaveUp(r), LeaseOf(r) # None
  PROVE  LeaseOf(r)' = LeaseOf(r)
<1> USE PeerAllocationAssumption DEF CoreInv, BaseInv, TypeOK, LeaseOf,
        backendVars
<1>1. cur[r] \in Leases /\ reply[cur[r]] # None
  BY DEF Leases
<1>2. status[cur[r]] # "sent"
  BY <1>1 DEF LedgerInv, AttemptInv, Created, Holding
<1>3. ASSUME NEW q \in Reqs, RequestStep(q) \/ ClientStep(q)
      PROVE  UNCHANGED reply /\ cur'[r] = cur[r]
  BY <1>3
     DEF GaveUp, RequestStep, ClientStep, AcquireLock, LockTimeout, RetryReserve,
         ReserveReplied, ReserveFails, ConfigureKernel, WriteConfig,
         Compensate, FinishRelease, FinishCreate, Reject, Begin, Cancel, SendReserve
<1>4. ASSUME NEW l \in Leases, BackendStep(l)
      PROVE  reply'[cur[r]] = reply[cur[r]] /\ UNCHANGED cur
  BY <1>1, <1>2, <1>4
     DEF BackendStep, NewLease, ShareLease, LoseReserve, ExecConfirm,
         LoseConfirm, ExecRelease, LoseRelease, Expire, Revoke, Leases
<1>5. ASSUME Crash \/ UNCHANGED vars
      PROVE  UNCHANGED <<reply, cur>>
  BY <1>5 DEF Crash, vars
<1>6. QED
  BY <1>1, <1>3, <1>4, <1>5 DEF Next

LEMMA ReleaseNext ==
  ASSUME CoreInv, ReleaseInv, [Next]_vars
  PROVE  ReleaseInv'
<1> USE DEF CoreInv, BaseInv, TypeOK, callVars
<1>1. ASSUME NEW l \in releases
      PROVE  \E r \in Reqs : LeaseOf(r)' = l /\ GaveUp(r)'
  <2>1. PICK r \in Reqs : LeaseOf(r) = l /\ GaveUp(r)
    BY <1>1 DEF ReleaseInv
  <2>2. l # None
    BY <1>1, PeerAllocationAssumption DEF Leases
  <2>3. QED
    BY <2>1, <2>2, LeaseStable, EndStep
<1>2. ASSUME NEW r \in Reqs, Compensate(r)
      PROVE  /\ releases' \subseteq releases \cup {LeaseOf(r)}
             /\ LeaseOf(r)' = LeaseOf(r) /\ GaveUp(r)'
  BY <1>2 DEF Compensate, SendRelease, Goto, GaveUp, LeaseOf, backendVars
<1>3. ASSUME NEW r \in Reqs, RequestStep(r) \/ ClientStep(r), ~Compensate(r)
      PROVE  UNCHANGED releases
  BY <1>3 DEF RequestStep, ClientStep, AcquireLock, LockTimeout, RetryReserve,
              ReserveReplied, ReserveFails, ConfigureKernel, WriteConfig,
              FinishRelease, FinishCreate, Reject, Begin, Cancel
<1>4. ASSUME NEW l \in Leases, BackendStep(l)
      PROVE  releases' \subseteq releases
  BY <1>4 DEF BackendStep, NewLease, ShareLease, LoseReserve, ExecConfirm,
              LoseConfirm, ExecRelease, LoseRelease, Expire, Revoke
<1>5. ASSUME Crash \/ UNCHANGED vars
      PROVE  UNCHANGED releases
  BY <1>5 DEF Crash, vars
<1>6. QED
  BY <1>1, <1>2, <1>3, <1>4, <1>5 DEF Next, ReleaseInv

LEMMA ReleaseInit == Init => ReleaseInv
BY DEF Init, ReleaseInv

Caused(l) ==
  \/ Revoke(l)
  \/ ExecRelease(l) /\ \E r \in Reqs : LeaseOf(r) = l /\ GaveUp(r)

(* The ways an allocated lease ends.                                       *)
LEMMA CauseStep ==
  ASSUME CoreInv, ReleaseInv, [Next]_vars,
         NEW l \in Leases, status[l] = "allocated", status'[l] # "allocated"
  PROVE  Caused(l)
<1> USE DEF CoreInv, BaseInv, TypeOK, Leases, backendVars
<1>1. ASSUME NEW r \in Reqs, RequestStep(r) \/ ClientStep(r)
      PROVE  FALSE
  BY <1>1 DEF RequestStep, ClientStep, AcquireLock, LockTimeout, RetryReserve,
              ReserveReplied, ReserveFails, ConfigureKernel, WriteConfig,
              Compensate, FinishRelease, FinishCreate, Reject, Begin, Cancel,
              SendReserve
<1>2. ASSUME NEW m \in Leases, BackendStep(m)
      PROVE  Revoke(l) \/ ExecRelease(l)
  BY <1>2 DEF BackendStep, NewLease, ShareLease, LoseReserve, ExecConfirm,
              LoseConfirm, ExecRelease, LoseRelease, Expire, Revoke
<1>3. ASSUME Crash \/ UNCHANGED vars
      PROVE  FALSE
  BY <1>3 DEF Crash, vars
<1>4. ASSUME ExecRelease(l)
      PROVE  \E r \in Reqs : LeaseOf(r) = l /\ GaveUp(r)
  BY <1>4 DEF ExecRelease, ReleaseInv
<1>5. QED
  BY <1>1, <1>2, <1>3, <1>4 DEF Next, Caused

(* ConfirmedEndsForCause: whichever way the backend answers a repeated     *)
(* reserve, a confirmed lease ends only by a delete, by the operator, or   *)
(* by the compensation of a creation that works with it and gave up.       *)
THEOREM ConfirmedLeasesEndForCause == Spec => ConfirmedEndsForCause
<1> DEFINE Inv == CoreInv /\ ReleaseInv
<1>1. Init => Inv
  BY BaseInit, LedgerInit, ReleaseInit DEF CoreInv
<1>2. Inv /\ [Next]_vars => Inv'
  BY BaseNext, LedgerNext, ReleaseNext DEF CoreInv, BaseInv
<1>3. Inv /\ [Next]_vars =>
        [\A l \in Leases :
           status[l] = "allocated" /\ status'[l] # "allocated" =>
             \/ Revoke(l)
             \/ ExecRelease(l) /\ \E r \in Reqs : LeaseOf(r) = l /\ GaveUp(r)]_vars
  BY CauseStep DEF Caused
<1>4. QED
  BY <1>1, <1>2, <1>3, PTL DEF Spec, ConfirmedEndsForCause

-----------------------------------------------------------------------------
(* With WG_VALIDATE_KEYS, which is on unless it is set otherwise, no       *)
(* creation ever adds a peer or answers 201.                               *)
THEOREM ValidationStopsCreation ==
  ASSUME ValidateKeys
  PROVE  Spec => [](peers = {} /\ \A r \in Reqs : pc[r] # "ok")
<1> DEFINE Inv == BaseInv /\ peers = {}
<1>1. Init => Inv
  BY BaseInit DEF Init
<1>2. Inv /\ [Next]_vars => Inv'
  <2> SUFFICES ASSUME Inv, [Next]_vars PROVE peers' = {}
    BY BaseNext
  <2>1. \A r \in Reqs : ~ConfigureKernel(r)
    BY DEF ConfigureKernel, KeyGenerated
  <2>2. QED
    BY <2>1
       DEF Next, RequestStep, ClientStep, BackendStep, Crash, vars, kernelVars,
           AcquireLock, LockTimeout, RetryReserve, ReserveReplied, ReserveFails,
           WriteConfig, Compensate, FinishRelease, FinishCreate, Reject, Begin,
           Cancel, NewLease, ShareLease, LoseReserve, ExecConfirm, LoseConfirm,
           ExecRelease, LoseRelease, Expire, Revoke
<1>3. Inv => peers = {} /\ \A r \in Reqs : pc[r] # "ok"
  BY DEF BaseInv, PhaseInv
<1>4. QED
  BY <1>1, <1>2, <1>3, PTL DEF Spec
=============================================================================
