------------------------ MODULE LegacyCreation_proof ------------------------
(***************************************************************************)
(* Proofs about LegacyCreation, for any requests, processes and range: the *)
(* two locks and the scan do what they are for, although the address that  *)
(* was chosen is written nowhere (AddressesDiffer is false).               *)
(***************************************************************************)
EXTENDS LegacyCreation, TLAPS, WellFoundedInduction

(* Every set of naturals that is not empty has a least element.            *)
LEMMA NatMinimum ==
  ASSUME NEW S \in SUBSET Nat, S # {}
  PROVE  Min(S) \in S
<1>1. \E less : /\ \E x \in S : \A y \in S : ~(<<y, x>> \in less)
                /\ \A x, y \in Nat : y < x => <<y, x>> \in less
  <2> DEFINE less == OpToRel(<, Nat)
  <2>1. \E x \in S : \A y \in S : ~(<<y, x>> \in less)
    BY NatLessThanWellFounded, WFMin, Zenon
  <2>2. \A x, y \in Nat : y < x => <<y, x>> \in less
    BY Zenon DEF OpToRel
  <2>3. QED
    BY <2>1, <2>2, Zenon
<1>2. PICK x \in S : \A y \in S : ~(y < x)
  BY <1>1
<1>3. \A y \in S : x <= y
  BY <1>2
<1>4. QED
  BY <1>3 DEF Min

-----------------------------------------------------------------------------
(* A request under way is in a process that has a client.                  *)
ClientInv == \A r \in Reqs : pc[r] \in Active => start[ProcOf[r]] # None

(* A process's mutex is with its request between the two Locks and the end *)
(* of the scan, and the flock with the one that scans.                     *)
LocksInv ==
  /\ \A r \in Reqs :
       pc[r] \in {"flock", "scan"} <=> mutex[ProcOf[r]] = r
  /\ \A p \in Procs : \A r \in Reqs : mutex[p] = r => ProcOf[r] = p
  /\ \A r \in Reqs : pc[r] = "scan" <=> flock = r

(* What has been listed since a request began is listed, and is not what   *)
(* the request chose.                                                      *)
SeenInv ==
  \A r \in Reqs :
    /\ seen[r] \subseteq listed
    /\ pc[r] = "configure" => ip[r] \in Octets \ seen[r]

LegacyInv == TypeOK /\ ClientInv /\ LocksInv /\ SeenInv

LEMMA LegacyInit == Init => LegacyInv
BY LegacyAssumption
   DEF Init, LegacyInv, TypeOK, ClientInv, LocksInv, SeenInv, Active, Octets

(* The scan chooses an octet of the range that is not listed.              *)
LEMMA ScanChooses ==
  ASSUME LegacyInv, NEW r \in Reqs, pc[r] = "scan", Free(start[ProcOf[r]]) # {}
  PROVE  Min(Free(start[ProcOf[r]])) \in Octets \ listed
<1> DEFINE first == start[ProcOf[r]]
<1>1. first \in 2..EndIP
  BY LegacyAssumption DEF LegacyInv, TypeOK, ClientInv, Active
<1>2. Free(first) \subseteq Octets \ listed /\ Free(first) \in SUBSET Nat
  BY <1>1, LegacyAssumption DEF Free, Octets, DefaultStart
<1>3. Min(Free(first)) \in Free(first)
  BY <1>2, NatMinimum
<1>4. QED
  BY <1>2, <1>3

(* A process starts with a range that is not empty.                        *)
LEMMA StartChooses ==
  ASSUME NEW p \in Procs, Start(p)
  PROVE  \E first \in 2..EndIP : start' = [start EXCEPT ![p] = first]
<1>1. PICK first \in {DefaultStart} \cup (IF exists THEN {Server + 1} ELSE {}) :
        /\ first >= 2 /\ first < EndIP
        /\ start' = [start EXCEPT ![p] = first]
  BY DEF Start
<1>2. first = 2 \/ first = Server + 1
  BY DEF DefaultStart
<1>3. first \in 2..EndIP
  BY <1>1, <1>2, LegacyAssumption
<1>4. QED
  BY <1>1, <1>3

LEMMA LegacyNext == LegacyInv /\ [Next]_vars => LegacyInv'
<1> SUFFICES ASSUME LegacyInv, [Next]_vars PROVE LegacyInv'
  OBVIOUS
<1> USE LegacyAssumption
    DEF LegacyInv, TypeOK, ClientInv, LocksInv, SeenInv, Active, locks, file,
        Goto, Return, ReleaseLocks
<1>1. ASSUME NEW r \in Reqs, LockMutex(r) PROVE LegacyInv'
  BY <1>1 DEF LockMutex
<1>2. ASSUME NEW r \in Reqs, TakeFlock(r) PROVE LegacyInv'
  BY <1>2 DEF TakeFlock
<1>3. ASSUME NEW r \in Reqs, FlockTimeout(r) PROVE LegacyInv'
  BY <1>3 DEF FlockTimeout
<1>4. ASSUME NEW r \in Reqs, Scan(r) PROVE LegacyInv'
  <2>1. Min(Free(start[ProcOf[r]])) \in Octets \ listed
    BY <1>4, ScanChooses DEF Scan
  <2>2. QED
    BY <1>4, <2>1 DEF Scan
<1>5. ASSUME NEW r \in Reqs, ScanFails(r) PROVE LegacyInv'
  BY <1>5 DEF ScanFails
<1>6. ASSUME NEW r \in Reqs, Configure(r) PROVE LegacyInv'
  BY <1>6 DEF Configure
<1>7. ASSUME NEW r \in Reqs, ReadDevice(r) PROVE LegacyInv'
  BY <1>7 DEF ReadDevice
<1>8. ASSUME NEW r \in Reqs, Reject(r) \/ NoKey(r) PROVE LegacyInv'
  BY <1>8 DEF Reject, NoKey
<1>9. ASSUME NEW r \in Reqs, Create(r) \/ Regenerate(r) PROVE LegacyInv'
  BY <1>9 DEF Create, Regenerate, Begin, DeletePeer, FoundKeys
<1>10. ASSUME NEW r \in Reqs, Delete(r) PROVE LegacyInv'
  BY <1>10 DEF Delete, DeletePeer, FoundKeys
<1>11. ASSUME NEW p \in Procs, Start(p) PROVE LegacyInv'
  <2>1. PICK first \in 2..EndIP : start' = [start EXCEPT ![p] = first]
    BY <1>11, StartChooses
  <2>2. first # None
    OBVIOUS
  <2>3. UNCHANGED <<pc, ip, mutex, flock, listed, exists, seen, route>>
    BY <1>11 DEF Start
  <2>4. TypeOK'
    BY <2>1, <2>3
  <2>5. ClientInv'
    BY <2>1, <2>2, <2>3
  <2>6. LocksInv' /\ SeenInv'
    BY <2>3
  <2>7. QED
    BY <2>4, <2>5, <2>6
<1>12. ASSUME NEW p \in Procs, Die(p) PROVE LegacyInv'
  BY <1>12 DEF Die
<1>13. ASSUME NEW i \in Octets, List(i) PROVE LegacyInv'
  BY <1>13 DEF List
<1>14. ASSUME NEW i \in Octets, Unlist(i) \/ ListBehind(i) PROVE LegacyInv'
  BY <1>14 DEF Unlist, ListBehind
<1>15. CASE OtherTakes \/ OtherFrees
  BY <1>15 DEF OtherTakes, OtherFrees
<1>16. CASE UNCHANGED vars
  BY <1>16 DEF vars
<1>17. QED
  BY <1>1, <1>2, <1>3, <1>4, <1>5, <1>6, <1>7, <1>8, <1>9, <1>10, <1>11,
     <1>12, <1>13, <1>14, <1>15, <1>16 DEF Next, Step

LEMMA LegacyInvariant == Spec => []LegacyInv
BY LegacyInit, LegacyNext, PTL DEF Spec

(* TypeOK: what is chosen and routed is in the range, for any range.       *)
THEOREM LegacyTypeCorrect == Spec => []TypeOK
<1>1. LegacyInv => TypeOK
  BY DEF LegacyInv
<1>2. QED
  BY <1>1, LegacyInvariant, PTL

(* ScanIsExclusive: across all processes one request at most reads the     *)
(* file, with both locks, whoever times out or dies.                       *)
THEOREM OneScanAtATime == Spec => []ScanIsExclusive
<1>1. LegacyInv => ScanIsExclusive
  BY DEF LegacyInv, LocksInv, ScanIsExclusive
<1>2. QED
  BY <1>1, LegacyInvariant, PTL

(* ListedRouteKept: a creation leaves the routes of the addresses that     *)
(* wg0.conf listed all the while.                                          *)
THEOREM ListedRoutesStay == Spec => ListedRouteKept
<1>1. ASSUME LegacyInv, [Next]_vars, NEW r \in Reqs, NEW i \in seen[r],
             route'[i] = r
      PROVE  route[i] = r
  <2> USE <1>1 DEF LegacyInv, TypeOK, locks, file
  <2>1. i \in Octets
    OBVIOUS
  <2>2. CASE UNCHANGED route
    BY <2>2
  <2>3. ASSUME NEW s \in Reqs, Configure(s) PROVE route[i] = r
    BY <2>1, <2>3 DEF Configure, SeenInv
  <2>4. ASSUME NEW s \in Reqs, Delete(s) \/ Regenerate(s) PROVE route[i] = r
    BY <2>1, <2>4 DEF Delete, Regenerate, DeletePeer, FoundKeys
  <2>5. ASSUME NEW j \in Octets, List(j) \/ Unlist(j) \/ ListBehind(j)
        PROVE  route[i] = r
    BY <2>1, <2>5, LegacyAssumption DEF List, Unlist, ListBehind
  <2>6. QED
    BY <2>2, <2>3, <2>4, <2>5
       DEF Next, Step, LockMutex, TakeFlock, FlockTimeout, Scan, ScanFails,
           ReadDevice, Reject, NoKey, Create, Start, Die, OtherTakes,
           OtherFrees, vars
<1>2. LegacyInv /\ [Next]_vars =>
        [\A r \in Reqs : \A i \in seen[r] : route'[i] = r => route[i] = r]_vars
  BY <1>1
<1>3. QED
  BY <1>2, LegacyInvariant, PTL DEF Spec, ListedRouteKept
=============================================================================
