--------------------------- MODULE LegacyCreation ---------------------------
(***************************************************************************)
(* Creation without the backend (internal/vpn/wireguard.go,                *)
(* CreatePeerLegacy and getNextAvailableIP), which is what the agent does  *)
(* unless ENABLE_DB_IP_ALLOCATION is set: the address is the first of the  *)
(* range that wg0.conf does not list.  A mutex serialises the calls of one *)
(* process and a flock those of the host, for as long as the file is read. *)
(*                                                                         *)
(* Addresses are host octets.  An operator lists peers of his own in       *)
(* wg0.conf and configures them; the agent never writes there.  The        *)
(* abandoned goroutines of the flock are FileLock's subject: here the      *)
(* flock is the LockService they implement, and any other program may hold *)
(* it for as long as it likes.                                             *)
(***************************************************************************)
EXTENDS Integers, FiniteSetsExt

CONSTANTS
  Reqs,      \* create, delete and regenerate requests
  Procs,     \* agent processes of the host
  ProcOf,    \* the process each request is sent to
  Server,    \* octet of the Address line of wg0.conf
  EndIP,     \* last octet of the range (254 in the code)
  ValidateKeys,  \* WG_VALIDATE_KEYS, which is on by default
  Operator,  \* the owner of the peers listed in wg0.conf
  Other,     \* another program that takes the flock
  None       \* stands for "no request", "no address", "no WireGuard client"

DefaultStart == 2   \* first octet when the Address cannot be read

ASSUME LegacyAssumption ==
  /\ ProcOf \in [Reqs -> Procs]
  /\ Server \in Nat \ {0} /\ EndIP \in Nat
  /\ ValidateKeys \in BOOLEAN
  /\ None \notin Reqs \cup Nat
  /\ Other \notin Reqs \cup {None} /\ Operator \notin Reqs \cup {None}

VARIABLES
  start,    \* startIP of each process; None while it has no client
  pc, ip,   \* phase of each request, and the address it has chosen
  mutex,    \* ipAllocationLock of each process: the request that holds it
  flock,    \* the request, or Other, that holds wg0.conf.alloc.lock
  listed,   \* addresses a scan finds in wg0.conf: of each AllowedIPs line
            \* the first, if it is a /32
  exists,   \* wg0.conf exists
  seen,     \* addresses listed ever since the request began, while it is
            \* under way (history)
  route     \* the peer that owns each allowed IP in the kernel

locks == <<mutex, flock>>
file  == <<listed, exists>>
vars  == <<start, pc, ip, locks, file, seen, route>>

Octets == DefaultStart..EndIP
Active == {"mutex", "flock", "scan", "configure", "device"}

TypeOK ==
  /\ start \in [Procs -> 2..EndIP \cup {None}]
  /\ pc \in [Reqs -> Active \cup {"idle", "ok", "failed", "aborted"}]
  /\ ip \in [Reqs -> Octets \cup {None}]
  /\ mutex \in [Procs -> Reqs \cup {None}]
  /\ flock \in Reqs \cup {Other, None}
  /\ listed \subseteq Octets /\ exists \in BOOLEAN
  /\ seen \in [Reqs -> SUBSET Octets]
  /\ route \in [Octets -> Reqs \cup {Operator, None}]

Init ==
  /\ start = [p \in Procs |-> None]
  /\ pc = [r \in Reqs |-> "idle"]
  /\ ip = [r \in Reqs |-> None]
  /\ mutex = [p \in Procs |-> None]
  /\ flock = None
  /\ listed = {} /\ exists \in BOOLEAN
  /\ seen = [r \in Reqs |-> {}]
  /\ route = [i \in Octets |-> None]

-----------------------------------------------------------------------------
Goto(r, phase) == pc' = [pc EXCEPT ![r] = phase] /\ UNCHANGED seen
Return(r, result) ==
  /\ pc' = [pc EXCEPT ![r] = result]
  /\ seen' = [seen EXCEPT ![r] = {}]

(* The deferred Unlock and releaseLock of getNextAvailableIP.              *)
ReleaseLocks(r) ==
  /\ mutex' = [mutex EXCEPT ![ProcOf[r]] = None]
  /\ flock' = IF flock = r THEN None ELSE flock

(* Planted bugs, as in PeerAllocation: not part of Next.                   *)
FreeOneMore(first) == (first..EndIP + 1) \ listed
FreeWraps(first) ==             \* a full range starts again
  IF first..EndIP \subseteq listed THEN first..EndIP ELSE (first..EndIP) \ listed
TakeFlockShared(r) ==           \* LOCK_SH in place of LOCK_EX
  /\ pc[r] = "flock" /\ flock # Other
  /\ flock' = r
  /\ Goto(r, "scan")
  /\ UNCHANGED <<start, ip, mutex, file, route>>
FlockTimeoutKeepsMutex(r) ==    \* an early return without the Unlock
  /\ pc[r] = "flock"
  /\ Return(r, "failed")
  /\ UNCHANGED <<start, ip, locks, file, route>>

-----------------------------------------------------------------------------
(* The addresses of the range that the scan does not find in wg0.conf.  An *)
(* address that follows another one on its line is free to it.             *)
Free(first) == (first..EndIP) \ listed

(* The processes.                                                          *)

(* NewWireGuardClient: the range starts after the server's own address, or *)
(* at the default when it cannot be read.  An empty range leaves the       *)
(* process without a client, and every handler answers 500.                *)
Start(p) ==
  /\ start[p] = None
  /\ \E first \in {DefaultStart} \cup (IF exists THEN {Server + 1} ELSE {}) :
       /\ first >= 2 /\ first < EndIP
       /\ start' = [start EXCEPT ![p] = first]
  /\ UNCHANGED <<pc, ip, locks, file, seen, route>>

(* A process ends; the kernel frees its flock and keeps the peers.         *)
Die(p) ==
  LET dead == {r \in Reqs : ProcOf[r] = p /\ pc[r] \in Active}
  IN  /\ start[p] # None
      /\ start' = [start EXCEPT ![p] = None]
      /\ pc' = [r \in Reqs |-> IF r \in dead THEN "aborted" ELSE pc[r]]
      /\ mutex' = [mutex EXCEPT ![p] = None]
      /\ flock' = IF flock \in dead THEN None ELSE flock
      /\ seen' = [r \in Reqs |-> IF r \in dead THEN {} ELSE seen[r]]
      /\ ip' = [r \in Reqs |-> IF r \in dead THEN None ELSE ip[r]]
      /\ UNCHANGED <<file, route>>

(* A name that is not accepted, or no client.                              *)
Reject(r) ==
  /\ pc[r] = "idle"
  /\ Return(r, "failed")
  /\ UNCHANGED <<start, ip, locks, file, route>>

(* The random source fails, or the keys are validated: the test decodes a  *)
(* base64 key as hexadecimal and rejects every one.                        *)
KeyGenerated == ~ValidateKeys
NoKey(r) ==
  /\ pc[r] = "idle" /\ start[ProcOf[r]] # None
  /\ Return(r, "failed")
  /\ UNCHANGED <<start, ip, locks, file, route>>

(* The keys are generated and ipAllocationLock.Lock is called.             *)
Begin(r) ==
  /\ pc[r] = "idle" /\ start[ProcOf[r]] # None
  /\ KeyGenerated
  /\ pc' = [pc EXCEPT ![r] = "mutex"]
  /\ seen' = [seen EXCEPT ![r] = listed]
  /\ UNCHANGED <<start, ip, locks, file>>
Create(r) == Begin(r) /\ UNCHANGED route

(* The peers findPeerPublicKey finds under a name: none, since its pattern *)
(* wants the name's marker and the key on one line, and the lines of a     *)
(* peer in wg0.conf have the key on a line of its own.                     *)
FoundKeys == {}

(* DeletePeer: what is not found counts as deleted; a file that cannot be  *)
(* read is an error, which ends a delete or regenerate (Reject).           *)
DeletePeer ==
  /\ exists
  /\ route' = [i \in Octets |->
                 IF route[i] \in FoundKeys THEN None ELSE route[i]]
Delete(r) ==
  /\ pc[r] = "idle" /\ start[ProcOf[r]] # None
  /\ DeletePeer
  /\ Return(r, "ok")
  /\ UNCHANGED <<start, ip, locks, file>>
Regenerate(r) == DeletePeer /\ Begin(r)

LockMutex(r) ==
  /\ pc[r] = "mutex" /\ mutex[ProcOf[r]] = None
  /\ mutex' = [mutex EXCEPT ![ProcOf[r]] = r]
  /\ Goto(r, "flock")
  /\ UNCHANGED <<start, ip, flock, file, route>>

TakeFlock(r) ==
  /\ pc[r] = "flock" /\ flock = None
  /\ flock' = r
  /\ Goto(r, "scan")
  /\ UNCHANGED <<start, ip, mutex, file, route>>

(* Five seconds have passed, or the lock file cannot be opened.            *)
FlockTimeout(r) ==
  /\ pc[r] = "flock"
  /\ Return(r, "failed")
  /\ ReleaseLocks(r)
  /\ UNCHANGED <<start, ip, file, route>>

(* wg0.conf is read and the first free address taken; both locks are       *)
(* released on return.  A missing file lists nothing.                      *)
Scan(r) ==
  LET free == Free(start[ProcOf[r]])
  IN  /\ pc[r] = "scan" /\ free # {}
      /\ ip' = [ip EXCEPT ![r] = Min(free)]
      /\ Goto(r, "configure")
      /\ ReleaseLocks(r)
      /\ UNCHANGED <<start, file, route>>

(* The range is full, or the file cannot be read.                          *)
ScanFails(r) ==
  /\ pc[r] = "scan"
  /\ exists
  /\ Return(r, "failed")
  /\ ReleaseLocks(r)
  /\ UNCHANGED <<start, ip, file, route>>

Configure(r) ==
  /\ pc[r] = "configure"
  /\ \/ route' = [route EXCEPT ![ip[r]] = r] /\ Goto(r, "device") /\ UNCHANGED ip
     \/ Return(r, "failed") /\ ip' = [ip EXCEPT ![r] = None] /\ UNCHANGED route
  /\ UNCHANGED <<start, locks, file>>

(* The server's key is read for the answer; a failure leaves the peer.     *)
ReadDevice(r) ==
  /\ pc[r] = "device"
  /\ \/ Return(r, "ok") /\ UNCHANGED ip
     \/ Return(r, "failed") /\ ip' = [ip EXCEPT ![r] = None]
  /\ UNCHANGED <<start, locks, file, route>>

-----------------------------------------------------------------------------
(* The operator adds a peer, to the interface and to wg0.conf, or takes it *)
(* out again, or adds an address to the line of one that is there.         *)
List(i) ==
  /\ exists /\ i \notin listed
  /\ listed' = listed \cup {i}
  /\ route' = [route EXCEPT ![i] = Operator]
  /\ UNCHANGED <<start, pc, ip, locks, exists, seen>>
Unlist(i) ==
  /\ i \in listed
  /\ listed' = listed \ {i}
  /\ route' = [route EXCEPT ![i] = IF @ = Operator THEN None ELSE @]
  /\ seen' = [r \in Reqs |-> seen[r] \ {i}]
  /\ UNCHANGED <<start, pc, ip, locks, exists>>
ListBehind(i) ==
  /\ listed # {} /\ i \notin listed
  /\ route' = [route EXCEPT ![i] = Operator]
  /\ UNCHANGED <<start, pc, ip, locks, file, seen>>

OtherTakes ==
  /\ flock = None
  /\ flock' = Other
  /\ UNCHANGED <<start, pc, ip, mutex, file, seen, route>>
OtherFrees ==
  /\ flock = Other
  /\ flock' = None
  /\ UNCHANGED <<start, pc, ip, mutex, file, seen, route>>

Step(r) ==
  \/ LockMutex(r) \/ TakeFlock(r) \/ FlockTimeout(r)
  \/ Scan(r) \/ ScanFails(r) \/ Configure(r) \/ ReadDevice(r)

Next ==
  \/ \E r \in Reqs : Step(r)
       \/ Reject(r) \/ NoKey(r) \/ Create(r) \/ Delete(r) \/ Regenerate(r)
  \/ \E p \in Procs : Start(p) \/ Die(p)
  \/ \E i \in Octets : List(i) \/ Unlist(i) \/ ListBehind(i)
  \/ OtherTakes \/ OtherFrees

Spec == Init /\ [][Next]_vars

(* A goroutine that can run does, a mutex that is free is given to a       *)
(* goroutine that waits for it, and the timer of the flock fires.          *)
FairSpec == Spec /\ \A r \in Reqs : WF_vars(Step(r))

-----------------------------------------------------------------------------
(* Of all requests of the host at most one is between the grant of the     *)
(* flock and the end of the scan, and it holds its process's mutex too     *)
(* (wireguard.go:563-585).                                                 *)
ScanIsExclusive ==
  \A r \in Reqs :
    pc[r] = "scan" =>
      /\ flock = r /\ mutex[ProcOf[r]] = r
      /\ \A s \in Reqs : pc[s] = "scan" => s = r

(* A creation never takes over the route of an address that the scan could *)
(* find in wg0.conf ever since it began, however long it waited and        *)
(* whatever else came and went (wireguard.go:587-613, 520-540).            *)
ListedRouteKept ==
  [][ \A r \in Reqs : \A i \in seen[r] : route'[i] = r => route[i] = r ]_vars

(* Every creation ends, even when another program keeps the flock for ever *)
(* and the other requests queue for the mutex behind the one that waits    *)
(* for it (wireguard.go:563-582).                                          *)
CallsEnd == \A r \in Reqs : pc[r] \in Active ~> pc[r] \notin Active

(* Two creations that answered 201 have different addresses                *)
(* ("duplicate IPs indicate a serious bug",                                *)
(* tests/load/wireguard-ip-allocation-test.js:331).                        *)
AddressesDiffer ==
  \A r, s \in Reqs :
    r # s /\ pc[r] = "ok" /\ pc[s] = "ok" => ip[r] = None \/ ip[r] # ip[s]
=============================================================================
