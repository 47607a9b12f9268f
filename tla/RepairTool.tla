----------------------------- MODULE RepairTool -----------------------------
(***************************************************************************)
(* The commands of cmd/repair/main.go that change the lease table, run by  *)
(* an operator beside creations and the reconciliation loop.  Each is one  *)
(* call of the backend, without the flock, a timeout or a retry;           *)
(* `force-release' of a lease is PeerAllocation!Revoke.  `audit', `list',  *)
(* `pool-status' and every dry run change nothing.                         *)
(*                                                                         *)
(* The tool checks nothing itself: it sends what the operator typed, and a *)
(* call that fails changes nothing.  What the backend does with a call is  *)
(* an assumption, kept in operators of its own: it takes an import only of *)
(* an address that nobody has (Importable), and it reconciles drift as the *)
(* help of `fix-drift' says, in part or in full (Unrouted, Unleased).      *)
(***************************************************************************)
EXTENDS Reconciliation

CONSTANT Hand       \* the key of a peer that no creation has made

ASSUME RepairToolAssumption == Hand \notin Reqs \cup {None}

VARIABLE imported   \* key an import made the user of an address, or None

tvars == <<rvars, imported>>

TTypeOK == ReportOK /\ imported \in [IPs -> Reqs \cup {Hand, None}]

(* The backend leases an address to one key at a time.                     *)
Importable(i) == i \notin Taken /\ imported[i] = None

(* Drift: an address the interface does not route, and one it routes to a  *)
(* peer though nobody has it.                                              *)
Unrouted == {i \in IPs : route[i] = None}
Unleased == {i \in IPs : route[i] # None /\ Importable(i)}

(* Planted bug, as in PeerAllocation: an import takes a held address.      *)
ImportPeerHeld(i, k) ==
  /\ imported' = [imported EXCEPT ![i] = k]
  /\ UNCHANGED rvars

(* import-peer: any key, on the interface or not, and any address.         *)
ImportPeer(i, k) ==
  /\ Importable(i)
  /\ imported' = [imported EXCEPT ![i] = k]
  /\ UNCHANGED rvars

(* force-release --ip of an imported address.                              *)
ForceRelease(i) ==
  /\ imported[i] # None
  /\ imported' = [imported EXCEPT ![i] = None]
  /\ UNCHANGED rvars

(* fix-drift: one call, upon which the backend ends leases and imports of  *)
(* addresses that are not routed, those of creations which have yet to add *)
(* their peer included, and imports peers whose address nobody has.        *)
FixDrift ==
  \E gone \in SUBSET Unrouted, new \in SUBSET Unleased :
    /\ status' = [l \in Leases |->
                    IF status[l] \in Holding /\ addr[l] \in gone
                    THEN "released" ELSE status[l]]
    /\ imported' = [i \in IPs |-> CASE i \in gone -> None
                                     [] i \in new  -> route[i]
                                     [] OTHER      -> imported[i]]
    /\ UNCHANGED <<pc, live, cur, holder, addr, reply, callVars, kernelVars,
                   report>>

(* No new lease gets an imported address.                                  *)
SparesImported ==
  \A l \in Leases : addr'[l] # addr[l] => imported[addr'[l]] = None

TInit == RInit /\ imported = [i \in IPs |-> None]

TNext ==
  \/ RNext /\ SparesImported /\ UNCHANGED imported
  \/ \E i \in IPs :
       ForceRelease(i) \/ \E k \in Reqs \cup {Hand} : ImportPeer(i, k)
  \/ FixDrift

TSpec == TInit /\ [][TNext]_tvars

(* As Reconciliation!RFairSpec; operators may do nothing.                  *)
TFairSpec ==
  /\ TSpec
  /\ \A r \in Reqs : WF_tvars(RequestStep(r) /\ UNCHANGED <<report, imported>>)
  /\ SF_tvars(Reconcile /\ UNCHANGED imported)

-----------------------------------------------------------------------------
(* fix-drift may end the lease of a creation under way, but only before    *)
(* its peer is on the interface: a confirmed lease, and that of a creation *)
(* past phase 3, survive it, confirmed or not (repair/main.go:160-167,     *)
(* 451-505, wireguard.go:256-297).                                         *)
ConfirmedSurvivesRepair ==
  [][FixDrift =>
       \A l \in Leases :
         \/ status[l] = "allocated"
         \/ \E r \in Reqs : LeaseOf(r) = l /\ pc[r] \in {"write", "confirm", "ok"}
         => status'[l] = status[l]]_tvars

(* The one way an imported peer loses its route is a creation that was     *)
(* already past its reservation, and whose lease expired or was released   *)
(* while it was under way: the tool does not take the lock file that would *)
(* keep it out (repair/main.go:580-633, wireguard.go:238-271).             *)
ImportedRouteKept ==
  [][\A i \in IPs :
       imported[i] # None /\ route'[i] # route[i] =>
         \E r \in Reqs : /\ pc[r] = "configure" /\ addr[LeaseOf(r)] = i
                         /\ status[LeaseOf(r)] \in {"expired", "released"}]_tvars
=============================================================================
