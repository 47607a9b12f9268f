--------------------------- MODULE PeerAllocation ---------------------------
(***************************************************************************)
(* The DB-first creation of a WireGuard peer (internal/vpn/wireguard.go,   *)
(* createPeerDBFirst) as a saga over three stores: the lease table of the  *)
(* backend, reached over an unreliable network; the peers and the          *)
(* allowed-IP routing of the kernel interface; and the flock that          *)
(* serialises creations on one host.                                       *)
(*                                                                         *)
(* A request is one call of createPeerDBFirst: one HTTP create (or the     *)
(* second half of a regenerate).  It is identified with the key pair it    *)
(* generates, so a kernel peer is named by its request.  Requests are      *)
(* one-shot; a client that tries again is another request with the same    *)
(* key name.                                                               *)
(***************************************************************************)

CONSTANTS
  Reqs,             \* calls of createPeerDBFirst
  Names,            \* key names
  NameOf,           \* the key name each request carries
  IPs,              \* the addresses of the backend's pool
  Attempts,         \* the HTTP exchanges of all ReserveIP calls
  Of,               \* the request each attempt belongs to; a request has
                    \* maxRetries of them (3 in the code)
  None,             \* stands for "no request", "no address" and "no attempt"
  LockConfigured,   \* lockFilePath # ""
  ValidateKeys,     \* WG_VALIDATE_KEYS, which is on by default
  Idempotency       \* whether the backend answers a reserve with a lease it
                    \* already made for the same "request" (the attempts of
                    \* a ReserveIP carry one request id), for the same
                    \* "name", or with a new lease always ("none")

ASSUME PeerAllocationAssumption ==
  /\ NameOf \in [Reqs -> Names]
  /\ Of \in [Attempts -> Reqs]
  /\ \A r \in Reqs : \E a \in Attempts : Of[a] = r
  /\ LockConfigured \in BOOLEAN /\ ValidateKeys \in BOOLEAN
  /\ Idempotency \in {"none", "request", "name"}
  /\ None \notin Reqs \cup IPs \cup Attempts \cup Names

VARIABLES
  pc,        \* phase of each request
  live,      \* the request's context has not been cancelled
  cur,       \* the reserve attempt each request sent last, or None
  holder,    \* request holding the flock, or None
  status,    \* what became of each reserve attempt at the backend
  addr,      \* address of the lease an attempt created
  reply,     \* lease the backend answers an attempt with
  confirms,  \* leases with a confirm-allocation call still in the network
  releases,  \* leases with a release-ip call still in the network
  peers,     \* requests whose public key is a peer of the interface
  route      \* peer that owns each allowed IP in the kernel

backendVars == <<status, addr, reply>>
callVars    == <<confirms, releases>>
kernelVars  == <<peers, route>>
vars == <<pc, live, cur, holder, backendVars, callVars, kernelVars>>

-----------------------------------------------------------------------------
(* A lease is named by the attempt that created it: lease identifiers are  *)
(* UUIDs the backend never reuses.                                         *)
Leases   == Attempts
Owner(l) == NameOf[Of[l]]

Holding  == {"reserved", "allocated"}           \* the address is taken
Created  == Holding \cup {"expired", "released"}
Status   == Created \cup {"unsent", "sent", "lost", "refused", "shared"}

(* Attempt a repeats, in the eyes of the backend, the one that made l.      *)
Repeats(a, l) == CASE Idempotency = "request" -> Of[l] = Of[a]
                   [] Idempotency = "name"    -> Owner(l) = Owner(a)
                   [] OTHER                   -> FALSE

(* The lease a request works with: the answer to its last attempt.         *)
LeaseOf(r) == IF cur[r] = None THEN None ELSE reply[cur[r]]

Taken == {addr[l] : l \in {m \in Leases : status[m] \in Holding}}

Locked  == {"reserve", "configure", "write", "confirm", "releasing"}
Active  == Locked \cup {"lock"}
Ended   == {"ok", "failed", "aborted"}
Phases  == Active \cup Ended \cup {"idle"}

TypeOK ==
  /\ pc \in [Reqs -> Phases]
  /\ live \in [Reqs -> BOOLEAN]
  /\ cur \in [Reqs -> Attempts \cup {None}]
  /\ holder \in Reqs \cup {None}
  /\ status \in [Leases -> Status]
  /\ addr \in [Leases -> IPs \cup {None}]
  /\ reply \in [Leases -> Leases \cup {None}]
  /\ confirms \in SUBSET Leases
  /\ releases \in SUBSET Leases
  /\ peers \in SUBSET Reqs
  /\ route \in [IPs -> Reqs \cup {None}]

Init ==
  /\ pc = [r \in Reqs |-> "idle"]
  /\ live = [r \in Reqs |-> TRUE]
  /\ cur = [r \in Reqs |-> None]
  /\ holder = None
  /\ status = [l \in Leases |-> "unsent"]
  /\ addr = [l \in Leases |-> None]
  /\ reply = [l \in Leases |-> None]
  /\ confirms = {}
  /\ releases = {}
  /\ peers = {}
  /\ route = [i \in IPs |-> None]

-----------------------------------------------------------------------------
(* Steps of the agent.                                                     *)

Goto(r, phase) == pc' = [pc EXCEPT ![r] = phase]

(* The deferred release of the lock file, on every return of the function. *)
Unlock(r) == holder' = IF holder = r THEN None ELSE holder

(* A refusal (4xx but for 429) is not retried; everything else is, as long *)
(* as there are attempts and the context lives.                            *)
Refused(r)  == cur[r] # None /\ status[cur[r]] = "refused"
CanRetry(r) == /\ live[r] /\ ~Refused(r)
               /\ \E a \in Attempts : Of[a] = r /\ status[a] = "unsent"

(* http.Client.Do under a cancelled context fails before anything is sent. *)
SendReserve(r) ==
  /\ \/ /\ live[r]
        /\ \E a \in Attempts :
             /\ Of[a] = r
             /\ status[a] = "unsent"
             /\ status' = [status EXCEPT ![a] = "sent"]
             /\ cur' = [cur EXCEPT ![r] = a]
     \/ ~live[r] /\ UNCHANGED <<status, cur>>
  /\ UNCHANGED <<addr, reply>>
SendConfirm(r) ==
  confirms' = IF live[r] THEN confirms \cup {LeaseOf(r)} ELSE confirms
SendRelease(r) ==
  releases' = IF live[r] THEN releases \cup {LeaseOf(r)} ELSE releases

(* Planted bugs.  None of these operators is part of Next: each is a wrong *)
(* form of the action its name starts with, kept to show that the          *)
(* properties below can fail.                                              *)
AcquireLockAnyway(r) ==          \* the flock is not exclusive
  /\ pc[r] = "lock"
  /\ holder' = r
  /\ Goto(r, "reserve")
  /\ SendReserve(r)
  /\ UNCHANGED <<live, callVars, kernelVars>>
ReserveRepliedUnlocks(r) ==      \* the lock covers the reservation only
  /\ pc[r] = "reserve"
  /\ live[r]
  /\ LeaseOf(r) # None
  /\ Goto(r, "configure")
  /\ Unlock(r)
  /\ UNCHANGED <<live, cur, backendVars, callVars, kernelVars>>
ReserveRepliedConfirms(r) ==     \* confirmed before the peer exists
  /\ pc[r] = "reserve"
  /\ live[r]
  /\ LeaseOf(r) # None
  /\ Goto(r, "configure")
  /\ SendConfirm(r)
  /\ UNCHANGED <<live, cur, holder, backendVars, releases, kernelVars>>
CompensateAlways(r) ==           \* releases what was never reserved
  /\ pc[r] \in {"reserve", "configure", "write"}
  /\ Goto(r, "releasing")
  /\ SendRelease(r)
  /\ UNCHANGED <<live, cur, holder, backendVars, confirms, kernelVars>>
FinishReleaseKeepsLock(r) ==     \* an error return without the unlock
  /\ pc[r] = "releasing"
  /\ Goto(r, "failed")
  /\ UNCHANGED <<live, cur, holder, backendVars, callVars, kernelVars>>
FinishCreateReleases(r) ==       \* a failed confirmation is compensated
  /\ pc[r] = "confirm"
  /\ Goto(r, "ok")
  /\ Unlock(r)
  /\ SendRelease(r)
  /\ UNCHANGED <<live, cur, backendVars, confirms, kernelVars>>

(* A name ValidateKeyName rejects, or a lock file that cannot be opened.   *)
Reject(r) ==
  /\ pc[r] = "idle"
  /\ Goto(r, "failed")
  /\ UNCHANGED <<live, cur, holder, backendVars, callVars, kernelVars>>

(* Phase 0: open the lock file and queue for the flock.  Without a lock    *)
(* path the reservation starts at once.                                    *)
Begin(r) ==
  /\ pc[r] = "idle"
  /\ IF LockConfigured
     THEN Goto(r, "lock") /\ UNCHANGED <<cur, backendVars>>
     ELSE Goto(r, "reserve") /\ SendReserve(r)
  /\ UNCHANGED <<live, holder, callVars, kernelVars>>

(* The flock is granted; phase 1 starts with the first reserve attempt.    *)
AcquireLock(r) ==
  /\ pc[r] = "lock"
  /\ holder = None
  /\ holder' = r
  /\ Goto(r, "reserve")
  /\ SendReserve(r)
  /\ UNCHANGED <<live, callVars, kernelVars>>

(* acquireLockWithTimeout gave up after ten seconds.                       *)
LockTimeout(r) ==
  /\ pc[r] = "lock"
  /\ Goto(r, "failed")
  /\ UNCHANGED <<live, cur, holder, backendVars, callVars, kernelVars>>

(* The attempt failed with a retryable error and the backoff elapsed. The  *)
(* failed attempt may still be in the network or already be executed.      *)
RetryReserve(r) ==
  /\ pc[r] = "reserve"
  /\ CanRetry(r)
  /\ SendReserve(r)
  /\ UNCHANGED <<pc, live, holder, callVars, kernelVars>>

(* The answer to the attempt in progress arrives.                          *)
ReserveReplied(r) ==
  /\ pc[r] = "reserve"
  /\ live[r]
  /\ LeaseOf(r) # None
  /\ Goto(r, "configure")
  /\ UNCHANGED <<live, cur, holder, backendVars, callVars, kernelVars>>

(* Attempts exhausted, a cancelled context, a refusal, or an answer that   *)
(* cannot be decoded though the lease exists: the function returns and     *)
(* nothing is compensated.                                                 *)
ReserveFails(r) ==
  /\ pc[r] = "reserve"
  /\ ~CanRetry(r) \/ LeaseOf(r) # None
  /\ Goto(r, "failed")
  /\ Unlock(r)
  /\ UNCHANGED <<live, cur, backendVars, callVars, kernelVars>>

(* generatePrivateKey: a key that is validated is never accepted, because  *)
(* the test decodes its base64 text as hexadecimal.                        *)
KeyGenerated == ~ValidateKeys

(* Phases 2 and 3: the keys are generated and the peer is added to the     *)
(* interface.  An allowed IP has one owner: the kernel moves it off the    *)
(* peer that had it.                                                       *)
ConfigureKernel(r) ==
  /\ pc[r] = "configure" /\ KeyGenerated
  /\ peers' = peers \cup {r}
  /\ route' = [route EXCEPT ![addr[LeaseOf(r)]] = r]
  /\ Goto(r, "write")
  /\ UNCHANGED <<live, cur, holder, backendVars, callVars>>

(* Phases 4 and 5: the device is read and the config file written; phase 6 *)
(* sends the confirmation.                                                 *)
WriteConfig(r) ==
  /\ pc[r] = "write"
  /\ Goto(r, "confirm")
  /\ SendConfirm(r)
  /\ UNCHANGED <<live, cur, holder, backendVars, releases, kernelVars>>

(* A failure in phases 1 to 5 is compensated by releasing the lease; the   *)
(* kernel peer, if phase 3 added it, stays.                                *)
Compensate(r) ==
  /\ pc[r] \in {"configure", "write"}
  /\ Goto(r, "releasing")
  /\ SendRelease(r)
  /\ UNCHANGED <<live, cur, holder, backendVars, confirms, kernelVars>>

(* ReleaseIP returned; its result is ignored and the original error goes   *)
(* to the client.                                                          *)
FinishRelease(r) ==
  /\ pc[r] = "releasing"
  /\ Goto(r, "failed")
  /\ Unlock(r)
  /\ UNCHANGED <<live, cur, backendVars, callVars, kernelVars>>

(* ConfirmAllocation returned.  Success, 404 and every other error all     *)
(* lead to a 201 for the client.                                           *)
FinishCreate(r) ==
  /\ pc[r] = "confirm"
  /\ Goto(r, "ok")
  /\ Unlock(r)
  /\ UNCHANGED <<live, cur, backendVars, callVars, kernelVars>>

(* The client hangs up: net/http cancels the request's context.            *)
Cancel(r) ==
  /\ pc[r] \in Active
  /\ live[r]
  /\ live' = [live EXCEPT ![r] = FALSE]
  /\ UNCHANGED <<pc, cur, holder, backendVars, callVars, kernelVars>>

(* The agent process dies and is restarted.  The kernel frees the flock    *)
(* and keeps the interface; what was sent stays in the network.            *)
Crash ==
  /\ \E r \in Reqs : pc[r] \in Active
  /\ pc' = [r \in Reqs |-> IF pc[r] \in Active THEN "aborted" ELSE pc[r]]
  /\ holder' = None
  /\ UNCHANGED <<live, cur, backendVars, callVars, kernelVars>>

-----------------------------------------------------------------------------
(* Steps of the backend and of the network.                                *)

(* A reserve attempt is executed, perhaps after the agent gave up on it.   *)
NewLease(a) ==
  /\ status[a] = "sent"
  /\ ~ \E l \in Leases : status[l] \in Holding /\ Repeats(a, l)
  /\ \E i \in IPs \ Taken : addr' = [addr EXCEPT ![a] = i]
  /\ status' = [status EXCEPT ![a] = "reserved"]
  /\ reply' = [reply EXCEPT ![a] = a]
  /\ UNCHANGED <<pc, live, cur, holder, callVars, kernelVars>>

(* The backend answers with the lease the attempt repeats.                 *)
ShareLease(a) ==
  /\ status[a] = "sent"
  /\ \E l \in Leases :
       /\ status[l] \in Holding /\ Repeats(a, l)
       /\ reply' = [reply EXCEPT ![a] = l]
  /\ status' = [status EXCEPT ![a] = "shared"]
  /\ UNCHANGED <<pc, live, cur, holder, addr, callVars, kernelVars>>

(* The attempt is lost (or answered 429 or 5xx), or it is refused.         *)
LoseReserve(a) ==
  /\ status[a] = "sent"
  /\ \E s \in {"lost", "refused"} : status' = [status EXCEPT ![a] = s]
  /\ UNCHANGED <<pc, live, cur, holder, addr, reply, callVars, kernelVars>>

(* confirm-allocation: only a reserved lease becomes allocated; for any    *)
(* other the answer is an error the agent swallows.                        *)
ExecConfirm(l) ==
  /\ l \in confirms
  /\ confirms' = confirms \ {l}
  /\ status' = IF status[l] = "reserved"
               THEN [status EXCEPT ![l] = "allocated"] ELSE status
  /\ UNCHANGED <<pc, live, cur, holder, addr, reply, releases, kernelVars>>

LoseConfirm(l) ==
  /\ l \in confirms
  /\ confirms' = confirms \ {l}
  /\ UNCHANGED <<pc, live, cur, holder, backendVars, releases, kernelVars>>

ExecRelease(l) ==
  /\ l \in releases
  /\ releases' = releases \ {l}
  /\ status' = IF status[l] \in Holding
               THEN [status EXCEPT ![l] = "released"] ELSE status
  /\ UNCHANGED <<pc, live, cur, holder, addr, reply, confirms, kernelVars>>

LoseRelease(l) ==
  /\ l \in releases
  /\ releases' = releases \ {l}
  /\ UNCHANGED <<pc, live, cur, holder, backendVars, confirms, kernelVars>>

(* A reservation that is not confirmed within its TTL.                     *)
Expire(l) ==
  /\ status[l] = "reserved"
  /\ status' = [status EXCEPT ![l] = "expired"]
  /\ UNCHANGED <<pc, live, cur, holder, addr, reply, callVars, kernelVars>>

(* A key is deleted at the backend, or an operator runs `force-release'    *)
(* (cmd/repair), who may name any lease, and waits for it without limit.   *)
Revoke(l) ==
  /\ status[l] \in Holding
  /\ status' = [status EXCEPT ![l] = "released"]
  /\ UNCHANGED <<pc, live, cur, holder, addr, reply, callVars, kernelVars>>

-----------------------------------------------------------------------------
RequestStep(r) ==
  \/ AcquireLock(r) \/ LockTimeout(r)
  \/ RetryReserve(r) \/ ReserveReplied(r) \/ ReserveFails(r)
  \/ ConfigureKernel(r) \/ WriteConfig(r) \/ Compensate(r)
  \/ FinishRelease(r) \/ FinishCreate(r)

ClientStep(r) == Reject(r) \/ Begin(r) \/ Cancel(r)

BackendStep(l) ==
  \/ NewLease(l) \/ ShareLease(l) \/ LoseReserve(l)
  \/ ExecConfirm(l) \/ LoseConfirm(l)
  \/ ExecRelease(l) \/ LoseRelease(l)
  \/ Expire(l) \/ Revoke(l)

Next ==
  \/ \E r \in Reqs : RequestStep(r) \/ ClientStep(r)
  \/ \E l \in Leases : BackendStep(l)
  \/ Crash

Spec == Init /\ [][Next]_vars

(* The scheduler runs every request; the lock timer and the HTTP client's  *)
(* timeout end every wait.                                                 *)
FairSpec == Spec /\ \A r \in Reqs : WF_vars(RequestStep(r))

(* And the backend reclaims what is not confirmed within its TTL.          *)
FairSpecTTL == FairSpec /\ \A l \in Leases : WF_vars(Expire(l))

-----------------------------------------------------------------------------
(* Properties.                                                             *)

(* Between the grant of the flock and the return of createPeerDBFirst no   *)
(* other request of the host is past phase 0 (wireguard.go:201-222), on    *)
(* every error path and across restarts.                                   *)
LockExclusion ==
  LockConfigured =>
    \A r, s \in Reqs : pc[r] \in Locked /\ pc[s] \in Locked => r = s

(* An address the backend counts as allocated is routed by the interface   *)
(* to a peer of the name that holds the lease.  Reservations that expire   *)
(* under a slow creation, late attempts and peers left by failed creations *)
(* never take the route of a confirmed peer (wireguard.go:256-297).        *)
AllocatedAddressRouted ==
  LockConfigured =>
    \A l \in Leases :
      status[l] = "allocated" =>
        /\ route[addr[l]] # None
        /\ NameOf[route[addr[l]]] = Owner(l)

(* A lease becomes permanent only through a request that reached phase 6:  *)
(* the orphan reservations of lost attempts and of creations that returned *)
(* an error are never allocated (wireguard.go:284-297).                    *)
AllocatedWasDelivered ==
  \A l \in Leases :
    status[l] = "allocated" =>
      \E r \in Reqs : /\ LeaseOf(r) = l
                      /\ pc[r] \in {"confirm", "ok", "aborted"}

GaveUp(r) == pc[r] \in {"releasing", "failed", "aborted"}

(* A confirmed lease ends only because its key is deleted, the operator    *)
(* says so, or a creation that works with it failed: no release-ip that is *)
(* late, repeated or sent in vain ends it (wireguard.go:231-288, 292).     *)
ConfirmedEndsForCause ==
  [][\A l \in Leases :
       status[l] = "allocated" /\ status'[l] # "allocated" =>
         \/ Revoke(l)
         \/ ExecRelease(l) /\ \E r \in Reqs : LeaseOf(r) = l /\ GaveUp(r)]_vars

(* A confirmed allocation is permanent: no compensation takes it back from *)
(* a creation that answered 201 (docs/api/wireguard-ip-allocation-api.md:  *)
(* 167; wireguard.go:231-288).                                             *)
ConfirmedIsPermanent ==
  [][\A l \in Leases :
       status[l] = "allocated" /\ status'[l] # "allocated" => Revoke(l)]_vars

(* The flock is given back on every path: no request holds it forever.     *)
LockIsReleased == \A r \in Reqs : holder = r ~> holder # r

(* No address is lost to a creation that returned an error: its lease      *)
(* leaves the reserved state, and not by being allocated.                  *)
FailedLeaseReclaimed ==
  \A l \in Leases :
    status[l] = "reserved" /\ pc[Of[l]] = "failed" ~> status[l] \notin Holding

(* Creation implements the address book.                                   *)
Book == INSTANCE AddressBook WITH
          user <- [i \in IPs |->
                     IF \E l \in Leases : status[l] = "allocated" /\ addr[l] = i
                     THEN NameOf[route[i]] ELSE None]
ImplementsAddressBook == Book!Spec

(* Creation uses the lock file as LockService offers it: one entry per     *)
(* call, after waiting, and alone (wireguard.go:201-222, 299-304).         *)
Lock == INSTANCE LockService WITH
          Calls <- Reqs,
          stage <- [r \in Reqs |-> CASE pc[r] = "idle" -> "out"
                                    [] pc[r] = "lock" -> "waiting"
                                    [] pc[r] \in Locked -> "in"
                                    [] OTHER -> "over"]
UsesLockService == Lock!Spec
=============================================================================
