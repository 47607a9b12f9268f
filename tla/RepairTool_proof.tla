-------------------------- MODULE RepairTool_proof --------------------------
(***************************************************************************)
(* Proofs about the reconciliation loop and the repair tool beside the     *)
(* creations, from the invariants of PeerAllocation_proof.                 *)
(***************************************************************************)
EXTENDS RepairTool, PeerAllocation_proof

(* The address of a peer has a route for as long as there is the peer: to  *)
(* it, or to one that took it.                                             *)
PeerRouted ==
  \A r \in peers : addr[LeaseOf(r)] \in IPs /\ route[addr[LeaseOf(r)]] # None

(* An imported address is leased to nobody.                                *)
ImportInv ==
  \A i \in IPs, l \in Leases :
    imported[i] # None /\ status[l] \in Holding => addr[l] # i

ToolInv ==
  /\ FullInv
  /\ DeliveredInv
  /\ ReleaseInv
  /\ PeerRouted
  /\ TTypeOK
  /\ ImportInv

(* With a lease table that is always empty the loop heals nothing: a run   *)
(* changes its own result only.                                            *)
LEMMA LoopStep == RNext => [Next]_vars
<1>1. ASSUME Reconcile PROVE UNCHANGED vars
  BY <1>1 DEF Reconcile, HealByConfirming, HealByReleasing, DBPeers, vars, callVars
<1>2. QED
  BY <1>1 DEF RNext, ReconcileFails

(* Creations beside the loop are creations: what is proved of              *)
(* PeerAllocation holds beside it.                                         *)
THEOREM LoopLeavesCreations == RSpec => Spec
<1>1. RInit => Init
  BY DEF RInit
<1>2. [RNext]_rvars => [Next]_vars
  BY LoopStep DEF rvars
<1>3. QED
  BY <1>1, <1>2, PTL DEF RSpec, Spec

LEMMA ReportStep ==
  ASSUME TypeOK, ReportOK, RNext
  PROVE  ReportOK'
<1>1. CASE UNCHANGED report
  BY <1>1 DEF ReportOK
<1>2. CASE Reconcile
  <2>1. KernelPeers \in SUBSET Reqs
    BY DEF KernelPeers, TypeOK
  <2>2. QED
    BY <1>2, <2>1 DEF Reconcile, ReportOK, DBPeers
<1>3. CASE ReconcileFails
  BY <1>3 DEF ReconcileFails, ReportOK, Empty
<1>4. QED
  BY <1>1, <1>2, <1>3 DEF RNext

-----------------------------------------------------------------------------
(* The lease a request works with has been created.                        *)
LEMMA LeaseCreated ==
  ASSUME CoreInv, NEW r \in Reqs, LeaseOf(r) # None
  PROVE  LeaseOf(r) \in Leases /\ status[LeaseOf(r)] \in Created
<1>1. cur[r] \in Leases /\ reply[cur[r]] # None
  BY DEF LeaseOf, CoreInv, BaseInv, TypeOK, Leases
<1>2. QED
  BY <1>1, LeaseName DEF CoreInv, LedgerInv, AttemptInv, LeaseOf

(* No creation takes a route away without giving it to a peer, a lease     *)
(* keeps its address, and the end of phase 3 is what adds a peer.          *)
LEMMA RoutesRemain ==
  ASSUME CoreInv, [Next]_vars
  PROVE  /\ \A i \in IPs : route[i] # None => route'[i] # None
         /\ \A l \in Leases : addr[l] # None => addr'[l] = addr[l]
         /\ \A r \in peers' \ peers : r \in Reqs /\ ConfigureKernel(r)
<1> USE PeerAllocationAssumption
    DEF CoreInv, BaseInv, TypeOK, Leases, backendVars, kernelVars
<1>1. ASSUME NEW q \in Reqs, ConfigureKernel(q)
      PROVE  /\ \A i \in IPs : route[i] # None => route'[i] # None
             /\ UNCHANGED addr /\ peers' = peers \cup {q}
  BY <1>1 DEF ConfigureKernel
<1>2. ASSUME NEW q \in Reqs, RequestStep(q) \/ ClientStep(q), ~ConfigureKernel(q)
      PROVE  UNCHANGED <<route, addr, peers>>
  BY <1>2 DEF RequestStep, ClientStep, AcquireLock, LockTimeout, RetryReserve,
              ReserveReplied, ReserveFails, WriteConfig, Compensate,
              FinishRelease, FinishCreate, Reject, Begin, Cancel, SendReserve
<1>3. ASSUME NEW m \in Leases, BackendStep(m), ~NewLease(m)
      PROVE  UNCHANGED <<route, addr, peers>>
  BY <1>3 DEF BackendStep, ShareLease, LoseReserve, ExecConfirm, LoseConfirm,
              ExecRelease, LoseRelease, Expire, Revoke
<1>4. ASSUME NEW m \in Leases, NewLease(m)
      PROVE  /\ UNCHANGED <<route, peers>>
             /\ \A l \in Leases : addr[l] # None => addr'[l] = addr[l]
  <2>1. addr[m] = None
    BY <1>4 DEF NewLease, LedgerInv, AttemptInv, Created, Holding
  <2>2. QED
    BY <1>4, <2>1 DEF NewLease
<1>5. ASSUME Crash \/ UNCHANGED vars
      PROVE  UNCHANGED <<route, addr, peers>>
  BY <1>5 DEF Crash, vars
<1>6. QED
  BY <1>1, <1>2, <1>3, <1>4, <1>5 DEF Next

LEMMA PeerRoutedNext ==
  ASSUME CoreInv, PeerRouted, [Next]_vars
  PROVE  PeerRouted'
<1> SUFFICES ASSUME NEW r \in peers'
             PROVE  addr'[LeaseOf(r)'] \in IPs /\ route'[addr'[LeaseOf(r)']] # None
  BY DEF PeerRouted
<1>1. CASE r \in peers
  <2>1. r \in Reqs /\ LeaseOf(r) # None
    BY <1>1 DEF CoreInv, BaseInv, TypeOK, PhaseInv
  <2>2. LeaseOf(r) \in Leases /\ addr[LeaseOf(r)] # None
    BY <2>1, LeaseCreated DEF CoreInv, LedgerInv, AttemptInv
  <2>3. addr[LeaseOf(r)] \in IPs /\ route[addr[LeaseOf(r)]] # None
    BY <1>1 DEF PeerRouted
  <2>4. LeaseOf(r)' = LeaseOf(r)
    BY <1>1, PeerStable
  <2>5. QED
    BY <2>2, <2>3, <2>4, RoutesRemain
<1>2. CASE r \notin peers
  <2>1. r \in Reqs /\ ConfigureKernel(r)
    BY <1>2, RoutesRemain
  <2>2. LeaseOf(r) # None
    BY <2>1 DEF ConfigureKernel, CoreInv, BaseInv, PhaseInv
  <2>3. LeaseOf(r) \in Leases /\ addr[LeaseOf(r)] # None
    BY <2>1, <2>2, LeaseCreated DEF CoreInv, LedgerInv, AttemptInv
  <2>4. addr[LeaseOf(r)] \in IPs
    BY <2>3 DEF CoreInv, BaseInv, TypeOK
  <2>5. LeaseOf(r)' = LeaseOf(r) /\ UNCHANGED addr
    BY <2>1 DEF ConfigureKernel, LeaseOf, backendVars
  <2>6. route'[addr[LeaseOf(r)]] = r
    BY <2>1, <2>4 DEF ConfigureKernel, CoreInv, BaseInv, TypeOK
  <2>7. QED
    BY <2>1, <2>4, <2>5, <2>6, PeerAllocationAssumption
<1>3. QED
  BY <1>1, <1>2

-----------------------------------------------------------------------------
LEMMA ToolInit == TInit => ToolInv
<1> SUFFICES ASSUME TInit PROVE ToolInv
  OBVIOUS
<1>1. Init
  BY DEF TInit, RInit
<1>2. FullInv /\ DeliveredInv /\ ReleaseInv
  BY <1>1, FullInit, DeliveredInit, ReleaseInit
<1>3. TTypeOK
  BY DEF TInit, RInit, TTypeOK, ReportOK, Empty
<1>4. ImportInv
  BY DEF TInit, ImportInv
<1>5. PeerRouted
  BY <1>1 DEF Init, PeerRouted
<1>6. QED
  BY <1>2, <1>3, <1>4, <1>5 DEF ToolInv

(* A lease never comes into force on an imported address.                  *)
LEMMA ImportStep ==
  ASSUME ToolInv, [Next]_vars, SparesImported, UNCHANGED imported
  PROVE  ImportInv'
<1> SUFFICES ASSUME NEW i \in IPs, NEW l \in Leases,
                    imported[i] # None, status'[l] \in Holding
             PROVE  addr'[l] # i
  BY DEF ImportInv, Leases
<1>1. CASE status[l] \in Holding /\ addr'[l] = addr[l]
  BY <1>1 DEF ToolInv, ImportInv
<1>2. CASE NewLease(l)
  <2>1. addr[l] = None /\ addr'[l] \in IPs
    BY <1>2 DEF NewLease, ToolInv, FullInv, CoreInv, BaseInv, TypeOK, LedgerInv,
                AttemptInv, Created, Holding
  <2>2. imported[addr'[l]] = None
    BY <2>1, PeerAllocationAssumption DEF SparesImported
  <2>3. QED
    BY <2>2
<1>3. QED
  BY <1>1, <1>2, HoldingStep DEF ToolInv, FullInv

(* fix-drift ends leases in force that have no route: no lease that has a  *)
(* peer.                                                                   *)
LEMMA DriftOnlyEnds ==
  ASSUME ToolInv, FixDrift
  PROVE  /\ status' \in [Leases -> Status]
         /\ \A l \in Leases :
              \/ status'[l] = status[l]
              \/ /\ status[l] \in Holding /\ status'[l] = "released"
                 /\ ~Configured(l)
         /\ UNCHANGED <<pc, live, cur, holder, addr, reply, confirms, releases,
                        peers, route, report>>
<1> USE DEF ToolInv, FullInv, CoreInv, BaseInv, TypeOK
<1>1. UNCHANGED <<pc, live, cur, holder, addr, reply, confirms, releases,
                  peers, route, report>>
  BY DEF FixDrift, callVars, kernelVars
<1>2. \A l \in Leases :
        \/ status'[l] = status[l]
        \/ status[l] \in Holding /\ route[addr[l]] = None /\ status'[l] = "released"
  BY DEF FixDrift, Unrouted
<1>3. status' \in [Leases -> Status]
  BY DEF FixDrift, Status, Created
<1>4. \A l \in Leases : Configured(l) => route[addr[l]] # None
  BY DEF Configured, PeerRouted
<1>5. QED
  BY <1>1, <1>2, <1>3, <1>4

LEMMA FixDriftStep ==
  ASSUME ToolInv, FixDrift
  PROVE  ToolInv'
<1> USE PeerAllocationAssumption, DriftOnlyEnds
    DEF ToolInv, FullInv, CoreInv, BaseInv, TypeOK
<1>1. TypeOK'
  OBVIOUS
<1>2. PhaseInv'
  BY DEF PhaseInv, LeaseOf, Holding, Leases
<1>3. LedgerInv'
  BY DEF LedgerInv, AttemptInv, DistinctAddresses, Created, Holding
<1>4. \A l \in Leases : Configured(l)' <=> Configured(l)
  BY DEF Configured, LeaseOf
<1>5. \A l \in Leases : status'[l] \in Holding => status'[l] = status[l]
  BY DEF Holding
<1>6. ConfirmInv'
  BY <1>4, <1>5 DEF ConfirmInv, Holding
<1>7. HolderInv'
  BY DEF HolderInv
<1>8. RouteInv => RouteInv'
  BY <1>4, <1>5 DEF RouteInv, Owner
<1>9. SessionInv => SessionInv'
  BY <1>4, <1>5 DEF SessionInv, LeaseOf, Owner
<1>10. DeliveredInv'
  BY <1>5 DEF DeliveredInv, LeaseOf, Delivered, Holding
<1>11. ReleaseInv' /\ PeerRouted'
  BY DEF ReleaseInv, PeerRouted, GaveUp, LeaseOf
<1>12. \A i \in IPs : \/ imported'[i] \in {imported[i], None}
                      \/ i \notin Taken /\ imported'[i] \in Reqs \cup {None}
  BY DEF FixDrift, Unleased, Importable
<1>13. TTypeOK'
  <2>1. imported' \in [IPs -> Reqs \cup {Hand, None}]
    BY <1>12 DEF FixDrift, TTypeOK
  <2>2. QED
    BY <2>1 DEF TTypeOK, ReportOK
<1>14. ImportInv'
  BY <1>5, <1>12 DEF ImportInv, Taken, Holding
<1>15. QED
  BY <1>1, <1>2, <1>3, <1>6, <1>7, <1>8, <1>9, <1>10, <1>11, <1>13, <1>14

LEMMA ToolNext == ToolInv /\ [TNext]_tvars => ToolInv'
<1> SUFFICES ASSUME ToolInv, [TNext]_tvars PROVE ToolInv'
  OBVIOUS
<1>1. ASSUME [Next]_vars
      PROVE  FullInv' /\ DeliveredInv' /\ ReleaseInv' /\ PeerRouted'
  BY <1>1, FullNext, DeliveredNext, ReleaseNext, PeerRoutedNext DEF ToolInv, FullInv
<1>2. CASE RNext /\ SparesImported /\ UNCHANGED imported
  <2>1. [Next]_vars
    BY <1>2, LoopStep
  <2>2. TTypeOK'
    BY <1>2, ReportStep DEF ToolInv, FullInv, CoreInv, BaseInv, TTypeOK
  <2>3. QED
    BY <1>1, <1>2, <2>1, <2>2, ImportStep DEF ToolInv
<1>3. CASE \E i \in IPs :
             ForceRelease(i) \/ \E k \in Reqs \cup {Hand} : ImportPeer(i, k)
  <2>1. PICK i \in IPs :
          ForceRelease(i) \/ \E k \in Reqs \cup {Hand} : ImportPeer(i, k)
    BY <1>3
  <2>2. /\ UNCHANGED <<vars, report>>
        /\ \/ imported' = [imported EXCEPT ![i] = None]
           \/ /\ i \notin Taken
              /\ \E k \in Reqs \cup {Hand} : imported' = [imported EXCEPT ![i] = k]
    BY <2>1 DEF ForceRelease, ImportPeer, Importable, rvars
  <2>3. TTypeOK'
    BY <2>2 DEF ToolInv, TTypeOK, ReportOK
  <2>4. ImportInv'
    BY <2>2 DEF ToolInv, TTypeOK, ImportInv, Taken, vars, backendVars
  <2>5. QED
    BY <1>1, <2>2, <2>3, <2>4 DEF ToolInv
<1>4. CASE FixDrift
  BY <1>4, FixDriftStep
<1>5. CASE UNCHANGED tvars
  <2>1. UNCHANGED <<vars, report, imported>>
    BY <1>5 DEF tvars, rvars
  <2>2. TTypeOK' /\ ImportInv'
    BY <2>1 DEF ToolInv, TTypeOK, ReportOK, ImportInv, vars, backendVars
  <2>3. QED
    BY <1>1, <2>1, <2>2 DEF ToolInv
<1>6. QED
  BY <1>2, <1>3, <1>4, <1>5 DEF TNext

(* Every step beside the tool is one of creations, or changes neither the  *)
(* leases that are allocated nor a creation.                               *)
LEMMA ToolStep ==
  ASSUME ToolInv, [TNext]_tvars
  PROVE  \/ [Next]_vars
         \/ /\ \A l \in Leases : status[l] = "allocated" <=> status'[l] = "allocated"
            /\ UNCHANGED <<pc, addr, route>>
<1>1. CASE FixDrift
  <2>1. \A l \in Leases : status[l] = "allocated" => Configured(l)
    BY DEF ToolInv, FullInv, ConfirmInv
  <2>2. QED
    BY <1>1, <2>1, DriftOnlyEnds
<1>2. CASE ~FixDrift
  BY <1>2, LoopStep DEF TNext, ForceRelease, ImportPeer, rvars, tvars
<1>3. QED
  BY <1>1, <1>2

(* TTypeOK: the loop's result and the imports keep their types.            *)
THEOREM ToolTypeCorrect == TSpec => []TTypeOK
BY ToolInit, ToolNext, PTL DEF TSpec, ToolInv

(* ConfirmedSurvivesRepair: fix-drift ends no confirmed lease and none of  *)
(* a creation past phase 3, with or without the lock file, whichever drift *)
(* the backend chooses to mend.                                            *)
THEOREM RepairSparesConfirmed == TSpec => ConfirmedSurvivesRepair
<1> DEFINE InUse(l) ==
             \/ status[l] = "allocated"
             \/ \E r \in Reqs : LeaseOf(r) = l /\ pc[r] \in {"write", "confirm", "ok"}
<1>1. ToolInv => \A l \in Leases : InUse(l) => Configured(l)
  BY DEF ToolInv, FullInv, CoreInv, BaseInv, PhaseInv, ConfirmInv, Configured
<1>2. ToolInv /\ [TNext]_tvars =>
        [FixDrift => \A l \in Leases : InUse(l) => status'[l] = status[l]]_tvars
  BY <1>1, DriftOnlyEnds
<1>3. QED
  BY <1>2, ToolInit, ToolNext, PTL DEF TSpec, ConfirmedSurvivesRepair

(* ConfirmedEndsForCause beside the loop and the tool: what they release   *)
(* on their own account is never a confirmed lease.                        *)
THEOREM ToolEndsForCause == TSpec => ConfirmedEndsForCause
<1>1. ToolInv /\ [TNext]_tvars =>
        [\A l \in Leases :
           status[l] = "allocated" /\ status'[l] # "allocated" =>
             \/ Revoke(l)
             \/ ExecRelease(l) /\ \E r \in Reqs : LeaseOf(r) = l /\ GaveUp(r)]_vars
  <2> SUFFICES ASSUME ToolInv, [TNext]_tvars, NEW l \in Leases,
                      status[l] = "allocated", status'[l] # "allocated"
               PROVE  Caused(l)
    BY DEF Caused
  <2>1. [Next]_vars
    BY ToolStep
  <2>2. QED
    BY <2>1, CauseStep DEF ToolInv, FullInv
<1>2. QED
  BY <1>1, ToolInit, ToolNext, PTL DEF TSpec, ConfirmedEndsForCause

(* ImportedRouteKept: an imported peer loses its route only to a creation  *)
(* past its reservation whose lease has expired or been released.          *)
THEOREM ImportsKeepRoutes == TSpec => ImportedRouteKept
<1> DEFINE Late(i) == \E r \in Reqs : /\ pc[r] = "configure" /\ addr[LeaseOf(r)] = i
                                      /\ status[LeaseOf(r)] \in {"expired", "released"}
           Kept == \A i \in IPs : imported[i] # None /\ route'[i] # route[i] => Late(i)
<1>1. ToolInv /\ [TNext]_tvars => Kept
  <2> SUFFICES ASSUME ToolInv, [TNext]_tvars, NEW i \in IPs,
                      imported[i] # None, route'[i] # route[i]
               PROVE  Late(i)
    OBVIOUS
  <2>1. [Next]_vars
    BY LoopStep DEF TNext, ForceRelease, ImportPeer, FixDrift, kernelVars, rvars,
                    tvars, vars
  <2>2. PICK r \in Reqs : ConfigureKernel(r)
    BY <2>1
       DEF Next, RequestStep, ClientStep, BackendStep, Crash, vars, kernelVars,
           AcquireLock, LockTimeout, RetryReserve, ReserveReplied, ReserveFails,
           WriteConfig, Compensate, FinishRelease, FinishCreate, Reject, Begin,
           Cancel, NewLease, ShareLease, LoseReserve, ExecConfirm, LoseConfirm,
           ExecRelease, LoseRelease, Expire, Revoke
  <2>3. pc[r] = "configure" /\ addr[LeaseOf(r)] = i
    BY <2>2 DEF ConfigureKernel, ToolInv, FullInv, CoreInv, BaseInv, TypeOK
  <2>4. LeaseOf(r) \in Leases /\ status[LeaseOf(r)] \in Created
    BY <2>3, LeaseCreated DEF ToolInv, FullInv, CoreInv, BaseInv, PhaseInv
  <2>5. status[LeaseOf(r)] \notin Holding
    BY <2>3, <2>4 DEF ToolInv, ImportInv
  <2>6. QED
    BY <2>3, <2>4, <2>5 DEF Created
<1>2. QED
  BY <1>1, ToolInit, ToolNext, PTL DEF TSpec, ImportedRouteKept

-----------------------------------------------------------------------------
(* What is proved of creations alone holds beside the loop and the tool.   *)

(* AllocatedAddressRouted: neither a fix-drift in the middle of a creation *)
(* nor an import takes the route of a lease that is allocated.             *)
THEOREM ToolKeepsRoutes == TSpec => []AllocatedAddressRouted
<1>1. ToolInv => AllocatedAddressRouted
  BY DEF ToolInv, FullInv, ConfirmInv, RouteInv, AllocatedAddressRouted, Holding
<1>2. QED
  BY <1>1, ToolInit, ToolNext, PTL DEF TSpec

(* AllocatedWasDelivered: the tool allocates no orphan.                    *)
THEOREM ToolKeepsOrphans == TSpec => []AllocatedWasDelivered
<1>1. ToolInv => AllocatedWasDelivered
  BY DEF ToolInv, FullInv, CoreInv, BaseInv, TypeOK, DeliveredInv, Delivered,
         AllocatedWasDelivered
<1>2. QED
  BY <1>1, ToolInit, ToolNext, PTL DEF TSpec

(* ImplementsAddressBook, with the lock file: fix-drift ends leases by the *)
(* lot, but none that is in the book.                                      *)
THEOREM ToolImplementsBook ==
  ASSUME LockConfigured
  PROVE  TSpec => ImplementsAddressBook
<1>1. TInit => Book!Init
  BY DEF TInit, RInit, Init, Book!Init
<1>2. ToolInv /\ ToolInv' /\ [TNext]_tvars => [Book!Next]_User
  <2> SUFFICES ASSUME ToolInv, ToolInv', [TNext]_tvars PROVE [Book!Next]_User
    OBVIOUS
  <2>1. CASE [Next]_vars
    BY <2>1, BookStep DEF ToolInv
  <2>2. ASSUME \A l \in Leases : status[l] = "allocated" <=> status'[l] = "allocated",
               UNCHANGED <<addr, route>>
        PROVE  UNCHANGED User
    BY <2>2 DEF User
  <2>3. QED
    BY <2>1, <2>2, ToolStep
<1>3. QED
  BY <1>1, <1>2, ToolInit, ToolNext, PTL
     DEF TSpec, Book!Spec, ImplementsAddressBook, User

(* UsesLockService, with the lock file: the loop and the tool, which do    *)
(* not take it, do not disturb those that do.                              *)
THEOREM ToolUsesLock ==
  ASSUME LockConfigured
  PROVE  TSpec => UsesLockService
<1>1. TInit => Lock!Init
  BY DEF TInit, RInit, Init, Lock!Init, Locked
<1>2. ToolInv /\ [TNext]_tvars => [Lock!Next]_Stage
  <2> SUFFICES ASSUME ToolInv, [TNext]_tvars PROVE [Lock!Next]_Stage
    OBVIOUS
  <2>1. CASE [Next]_vars
    BY <2>1, LockStep DEF ToolInv, FullInv, CoreInv, BaseInv
  <2>2. UNCHANGED pc => UNCHANGED Stage
    BY DEF Stage
  <2>3. QED
    BY <2>1, <2>2, ToolStep
<1>3. QED
  BY <1>1, <1>2, ToolInit, ToolNext, PTL
     DEF TSpec, Lock!Spec, UsesLockService, Stage
=============================================================================
