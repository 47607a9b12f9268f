--------------------------- MODULE Reconciliation ---------------------------
(***************************************************************************)
(* The reconciliation loop (internal/vpn/reconciliation.go) beside the     *)
(* creations of PeerAllocation.  The loop does not take the flock, so its  *)
(* runs interleave with every phase of a creation.  One run is one step:   *)
(* it reads the device once, and the only other source it compares with,   *)
(* the lease table, is never read.                                         *)
(***************************************************************************)
EXTENDS PeerAllocation

VARIABLE report   \* ReconcileResult of the last run, as the sets it counts

rvars == <<vars, report>>

ReportOK == report \in [orphans : SUBSET Reqs, stale : SUBSET Reqs,
                        mismatched : SUBSET Reqs, confirmed : SUBSET Reqs,
                        failed : BOOLEAN]

Empty == [orphans |-> {}, stale |-> {}, failed |-> FALSE,
          mismatched |-> {}, confirmed |-> {}]

(* getKernelPeers: every peer of the interface.                            *)
KernelPeers == peers

(* Planted bug: a lease table that lists the creations in flight, too.     *)
DBPeersInFlight == {r \in Reqs : /\ LeaseOf(r) # None
                                 /\ status[LeaseOf(r)] \in Holding}

(* getDBPeers: the backend has no list endpoint yet, and the map returned  *)
(* is always empty.                                                        *)
DBPeers == {}

(* healIPMismatch and healUnconfirmed confirm the lease of an entry of     *)
(* DBPeers, and healStaleDBEntry releases it, with contexts of their own:  *)
(* no client that hangs up stops them.                                     *)
HealByConfirming(rs) == confirms' = confirms \cup {LeaseOf(r) : r \in rs}
HealByReleasing(rs)  == releases' = releases \cup {LeaseOf(r) : r \in rs}

(* detectAndHealDrift over the four kinds of drift it tells apart.         *)
(* healOrphan only logs.                                                   *)
Reconcile ==
  LET known       == KernelPeers \cap DBPeers
      orphans     == KernelPeers \ DBPeers
      mismatched  == {r \in known : route[addr[LeaseOf(r)]] # r}
      unconfirmed == {r \in known : status[LeaseOf(r)] = "reserved"}
      stale       == DBPeers \ KernelPeers
  IN  /\ HealByConfirming(mismatched \cup unconfirmed)
      /\ HealByReleasing(stale)
      /\ report' = [orphans |-> orphans, stale |-> stale, failed |-> FALSE,
                    mismatched |-> mismatched, confirmed |-> unconfirmed]
      /\ UNCHANGED <<pc, live, cur, holder, backendVars, kernelVars>>

(* Planted bug: a failed run leaves no result.                             *)
ReconcileFailsNil ==
  /\ report' = None
  /\ UNCHANGED vars

(* The device or the config file cannot be read: the run counts one error. *)
ReconcileFails ==
  /\ report' = [Empty EXCEPT !.failed = TRUE]
  /\ UNCHANGED vars

RInit == Init /\ report = Empty

RNext == (Next /\ UNCHANGED report) \/ Reconcile \/ ReconcileFails

RSpec == RInit /\ [][RNext]_rvars

(* The ticker fires for ever, and reading the device does not fail for     *)
(* ever; requests and the backend's TTL make progress as before.           *)
RFairSpec ==
  /\ RSpec
  /\ \A r \in Reqs : WF_rvars(RequestStep(r) /\ UNCHANGED report)
  /\ \A l \in Leases : WF_rvars(Expire(l) /\ UNCHANGED report)
  /\ SF_rvars(Reconcile)

-----------------------------------------------------------------------------
(* A peer left in the kernel without a lease is reported as an orphan by   *)
(* some later run (reconciliation.go:256-268).                             *)
StrayPeerReported ==
  \A r \in Reqs :
    (r \in peers /\ pc[r] = "failed") ~> r \in report.orphans

(* A creation whose confirmation failed is fixed later: its lease does not *)
(* stay unconfirmed until it expires ("Non-fatal: reconciler can fix       *)
(* later", wireguard.go:293).                                              *)
UnconfirmedIsHealed ==
  \A r \in Reqs, l \in Leases :
    (pc[r] = "ok" /\ LeaseOf(r) = l /\ status[l] = "reserved")
      ~> status[l] \in {"allocated", "released"}
=============================================================================
