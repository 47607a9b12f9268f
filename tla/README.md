# Verification of usipipo-agent

The agent runs on a WireGuard server. It answers a small HTTP API that creates,
deletes and regenerates peers, keeps `wg0.conf` and the kernel interface, leases
addresses from a backend, reconciles its view with the kernel's, reports metrics
and registers itself. These modules model its core logic in TLA+: TLC checks
them on small instances, TLAPS proves the theorems listed below for every value
of the constants. Paths are relative to `src/`.

## 1. Inventory

| Part | State | Operations | Hard behaviour |
|---|---|---|---|
| DB-first creation (`internal/vpn/wireguard.go:197-312`, `ip_allocation_client.go`) | the call's phase; leases in the backend; peers and routes in the kernel | lock, reserve, configure, write, confirm; release as compensation | three stores and no transaction: lost and late calls, retries, expiry, cancelled contexts, crashes |
| Legacy creation, delete, regenerate (`wireguard.go:401-614`, `internal/api/handlers.go`) | mutex, flock, `wg0.conf`, interface | scan, configure; find and remove | two locks in two processes; nothing records what was chosen |
| Lock file (`wireguard_unix.go`) | open files, the flock, blocked goroutines | open, flock with a timer, unlock, close | flock cannot be interrupted: waiters outlive their callers |
| Configuration file (`wireguard.go:314-375`) | `wg0.conf`, its backup, temporary files | write, back up, rename, restore, append | any operation fails, the process dies between any two |
| Reconciliation loop (`reconciliation.go`) | the result of the last run | compare interface and leases, heal | takes no lock, runs beside creations |
| Rate limiting (`internal/api/ratelimit.go`, `middleware.go`) | per address: limiter, failure tracker | check, take a token, record, clean up | four critical sections per request, timers |
| Start and stop (`cmd/agent/main.go`, `internal/api/server.go`) | goroutines, signal channels, listener, handlers | serve, stop, shut down | two goroutines react to one signal, a third ends the process |
| Metrics collector, reporter, registrar (`internal/metrics`, `internal/reporter`, `internal/registrar`) | a cache; a ticker; a server id | collect, post, register | unsynchronised shared fields, a goroutine per tick |
| Repair tool (`cmd/repair/main.go`) | none of its own | list, release, import, fix drift | runs beside the agent, without its lock |
| Configuration, logging, validation, GeoIP | none | | |

How they interact. `main` builds the clients, starts the loop and `server.Start`
in goroutines and waits for a signal. A request passes the middleware chain and
reaches a handler, which calls `WireGuardClient`. `CreatePeer` takes the DB-first
path when `ENABLE_DB_IP_ALLOCATION` is set (it is not by default), else the
legacy one. Creation and loop share the interface, `wg0.conf` and the backend,
and only creations share the lock file. What makes each part correct:

- creation: an address the backend counts as allocated is routed to a peer of the
  name that holds it; a failed creation gives its lease back; one request of the
  host at a time is past the lock, and the lock always comes free;
- legacy creation: addresses in `wg0.conf` are left alone, every call ends,
  distinct creations have distinct addresses (the code fails this one);
- lock file: who thinks he has the lock has it; an abandoned waiter keeps nothing;
- configuration file: readers see complete texts, the last good one survives;
- loop and repair tool: neither ends a confirmed lease (but for an operator who asks
  for it), nor that of a creation whose peer is on the interface; strays are reported;
  imported peers keep their routes;
- rate limiting: lockouts start, last and end as configured, whatever interleaves;
- metrics: what the cache serves is fresh, senders do not pile up, reports go on;
- shutdown: it ends, quietly, and does not cut handlers off (fails, see 5).

## 2. Modules

| Module | Models |
|---|---|
| `AddressBook` | abstract: an address in use belongs to one name, and passes to another only after it was given back |
| `LockService` | abstract: one call in the critical section, after waiting, at most once |
| `PeerAllocation` | DB-first creation as a saga over backend, network, kernel and lock; refines `AddressBook` and uses `LockService` |
| `Reconciliation` | extends `PeerAllocation` with the loop |
| `RepairTool` | extends `Reconciliation` with the commands that change the lease table |
| `FileLock` | flock, goroutines and processes; refines `LockService` |
| `ConfigFile` | `writePeerConfigAtomic` one file operation at a time |
| `HostFiles` | composes the two: the calls that hold the lock write the file |
| `LegacyCreation` | the path without the backend, two processes, operator, other programs |
| `AuthFailure` | middleware chain over failure tracker and limiter, with clock and clean-up |
| `Reporting` | the metrics cache under handlers and the reporter's senders, in discrete time |
| `Shutdown` | goroutines of the process from `server.Start` to exit |
| `PeerAllocation_proof`, `RepairTool_proof`, `FileLock_proof`, `HostFiles_proof`, `LegacyCreation_proof`, `AuthFailure_proof`, `Reporting_proof`, `Shutdown_proof` | theorems |
| `MC*` | instances for TLC |

Each component is a set of VARIABLES, Init and one action per operation or atomic
step; PROJECT.json maps every definition to the lines it stands for. Some modules
have *planted bugs*: wrong forms of an action, in no next-state relation, that
say what plausible mistake each property would catch.

**PeerAllocation.** A request is one call of `createPeerDBFirst` and is identified
with the key pair it generates. `pc` goes idle, lock (waiting for the flock),
reserve (an exchange is under way), configure (the answer is there; next is the
kernel), write (device read and file written next), confirm, and ends in ok or
failed; `releasing` is a compensation under way and `aborted` a request whose
process died. An attempt is one HTTP exchange of `ReserveIP`; a lease is named by
the attempt that created it, since the backend's identifiers are never reused.
`status` says where the attempt is: unsent, in the network, lost, answered with
another's lease (`shared`), or the state of the lease it created. Calls of
confirm and release are sets: they may be lost, or executed at any later time,
even after the request has ended. The kernel's allowed-IP table is a function
`route`: configuring a peer moves the address off the peer that had it.
`live` is the request's context. `LockConfigured = FALSE` is the configuration
without a lock path and, in effect, the Windows build, where flock is a no-op; on
Linux the path has a default (`config.go:103`). An answer that is lost, 429 or 5xx
is retried while attempts and context last; any other refusal, and an answer that
cannot be decoded, ends the reservation (`Refused`, `CanRetry`). All attempts of a
`ReserveIP` carry one request id (`ip_allocation_client.go:289`), another call
another one. `Idempotency` says what the backend does with a repeated reserve:
answer with the lease it made for the same request id, with the lease it has for
the name (`docs/ip-allocation-implementation-guide.md:678`), or with a new lease.
The agent's code works with each. `ValidateKeys` is FALSE in the runs: with the
default TRUE no creation gets past its key (theorem `ValidationStopsCreation`).

**FileLock.** The flock belongs to the open file, which lives until its descriptor
is closed and no system call uses it. A call and its goroutine have separate
program counters; the buffered channel between them is the goroutine's state
(`sent`, `error`). `PeerAllocation` stands on `LockService`, and `FileLock`
implements it with the same refinement mapping of phases, so the two compose.

**ConfigFile.** A file is a sequence of texts; a failed write leaves nothing or a
piece. `faults` remembers what has failed, so that properties can say how many
faults they survive. The deferred `os.Remove` fails too, silently, after a write that
failed (`ReturnFailed`); after a rename there is nothing left to remove. The module lets any set of writes die at once and leaves it to its
user that writes are serial.

**HostFiles.** A call of `FileLock` that holds the lock takes the steps of one write
of `ConfigFile` before it may unlock; a process that dies takes its call and its
write with it. That writes are serial, which every property of the file needs, is a
property here (`WritesAreSerial`), not an assumption.

**Reconciliation.** One run is one step: it reads the device once and nothing else
that it compares with. `DBPeers` is empty because `getDBPeers` is. All the
healing branches are there and act on its entries; the mutant that fills it shows
what they would do.

**RepairTool.** Each command is one call of the backend, and the tool checks nothing
before it calls: `import-peer` takes any key, that of a peer no creation has made
(`Hand`) included, and any address; `force-release` ends an import, or any lease
(`PeerAllocation!Revoke`). What the backend does with a call is not in the repository
and is assumed, each assumption in an operator of its own: an address is leased to one
key at a time, so an import of a held address is refused (`Importable`) and an imported
one is not leased (`SparesImported`); `fix-drift` does as its help says
(`cmd/repair/main.go:160-167`), in full or in part: it ends leases and imports of
addresses the interface does not route (`Unrouted`), those of creations whose peer is
not there yet included, and imports routed addresses nobody has (`Unleased`). Routes
that an operator makes with other tools are not modelled.

**LegacyCreation.** `listed` is what a scan finds: of each AllowedIPs line the first
address, if it is a /32 (`wireguard.go:597`). An operator may put a second one behind it,
which the scan does not see (`ListBehind`). `FoundKeys` is empty: `findPeerPublicKey`'s pattern needs
marker and key on one line. `KeyGenerated` is false under `WG_VALIDATE_KEYS`: the
entropy test decodes base64 as hexadecimal. `start` is read from the Address line
when the process starts.

**Reporting.** One time unit stands for five seconds, so the code's own constants
(TTL 10 s, context 30 s, interval 60 s) are small numbers. Times are ages, capped
one past what they are compared with, and nothing bounds a behaviour. The first read of
`cache`, the read of `cacheTime`, the second read of `cache`, which is what is returned,
and each of the two writes are steps of their own.
`SendsFit` states how they relate to the code's constants (see 6).
`MaxCollect` and `MaxPause` are bounds of the model: how long a collection takes
(its slowest system call samples the CPU for a second) and how long a goroutine that
can run is not run. A torn read of `cacheTime` is not modelled: the first write can
only replace the zero time, of which every torn value is still long ago or now.

**AuthFailure.** Times are ages in ticks, capped one past what they are compared
with. `left` is the time to `LockedUntil` with two values for zero and for past,
because the code tells the three apart.

**Shutdown.** Signals go to the registered channels; `serve` reaching `returned`
is fatal. Between `ServeAssigns` and `ServeListens`, `Stop` may or may not see
`httpServer`: the field is not synchronised (both `MainPanics` and
`MainStopsServer` are enabled).

## 3. Runs

| Run | Instance | Shows |
|---|---|---|
| CreateLocked | 3 requests, 2 of one name, 2 addresses, 1 attempt each, lock, a backend that answers by name | TypeOK, AllocatedAddressRouted, ConfirmedEndsForCause |
| SharedLease | the same | violated: ConfirmedIsPermanent |
| CreateRetry | 2 requests, 1 address, 2 attempts for one of them, the second answered with the lease of the first, fair | creation implements AddressBook and uses LockService; the lock comes free; only delivered leases are allocated (AllocatedWasDelivered); a failed creation's lease is reclaimed |
| Reconcile | loop and repair tool beside 2 requests, 1 address, no lock, fair | TTypeOK, ConfirmedEndsForCause, ConfirmedSurvivesRepair, ImportedRouteKept, StrayPeerReported |
| Unconfirmed | 2 requests, 1 address, lock, fair | violated: UnconfirmedIsHealed |
| HostFiles | 2 calls in a process, 1 in the next; 2 of them write; every fault, fair | HTypeOK, HeldIsOwned, WritesAreSerial, ReadersSeeCompleteText, LastGoodText, LeftoverTempExplained; AbandonedLockIsFreed, WaitersEnd; implements LockService |
| LegacyCreate | 2 requests to a process, 1 to another, 2 addresses, fair | TypeOK, ScanIsExclusive, ListedRouteKept, CallsEnd |
| LegacyDuplicates | the same | violated: AddressesDiffer |
| AuthLockout | 3 requests at a time of one address, fair | TypeOK, LockFollowsCount, BlockRunsItsCourse, ForgottenLimiterWasFull, BlockEnds |
| Reporting | a handler, 2 senders, with and without a UUID, fair | TypeOK, SendsDoNotOverlap, ServedIsFresh, ReportsRepeat |
| Stop | 2 requests, 2 signals, fair | TypeOK, LoopQuietAfterStop, OkMeansDrained, SignalEnds |
| StopCutsOff | the same | violated: HandlersFinish |

Why the bounds are enough to meet the interesting cases. Three requests over two
addresses, two of one name, give every pair of requests that share a name, an
address, both or neither, while a third holds or has lost the lock; one address
forces reuse after every release and expiry. Two attempts are the least that make
a late one (the code has three); the two requests of CreateRetry have two names, so
that answering by name and by request id is the same there. Reconcile has a backend
that always makes a new lease; the theorems of 6 are about each of the three. Two senders are what it
takes to see them overlap. Two processes are the least for a restart or an
upgrade. In `AuthFailure` the code's values (threshold 10, lockout and window 5
minutes, entry TTL 3 minutes, burst 5 at 3 per second, delays 1 to 30 seconds) are
scaled to 3, 5, 5, 3, 2 at 1 and 1 to 2 ticks: their order is kept, including the
TTL that is shorter than the window; addresses are independent of each other, so
one is enough. `MaxSignals` is a bound of the model. Identical requests, writes
and addresses are symmetric in the runs without liveness properties.

CHECK_DEADLOCK is FALSE where the system really stops: requests, writes, lock
calls and the process are one-shot. In AuthLockout the clock never stops and
deadlock is checked.

## 4. Fairness

- `PeerAllocation!FairSpec`: weak fairness of each request's own steps. Goroutines
  are scheduled, `acquireLockWithTimeout` has a 10-second timer and the HTTP
  client a timeout, so no wait lasts for ever. `FairSpecTTL` adds the backend's
  TTL. Nothing is assumed of network, client or crashes.
- `Reconciliation!RFairSpec` adds strong fairness of a run that succeeds: the
  ticker fires for ever and reading the device does not fail for ever.
- `RepairTool!TFairSpec`: the same; operators may do nothing.
- `HostFiles!HFairSpec`, as `FileLock!FairSpec`: calls end once started, goroutines are
  scheduled, and the kernel grants a lock that is free to someone who waits for it; file
  operations return.
- `Reporting!FairSpec`: time passes, goroutines run, and strong fairness of the loop
  taking the closed channel (Go's select picks among ready cases at random) and of
  collections succeeding: without the latter no metrics need ever be posted.
- `LegacyCreation!FairSpec`: a request's steps; the five-second timer is one. The
  program that holds the flock need never free it.
- `AuthFailure!FairSpec`: the clock goes on.
- `Shutdown!FairSpec`: goroutines run, the ten-second timers fire, and strong
  fairness of the loop taking the closed channel, since Go's select picks among
  ready cases at random. A handler need never answer.

## 5. What the code does not do

Four runs end in a violation that is a real behaviour of the code. PROJECT.json
quotes the lines that say otherwise.

- *Unconfirmed.* A failed confirmation is "non-fatal: reconciler can fix later";
  the loop compares with an empty table and confirms nothing, so the lease of a
  delivered creation expires. When its address is leased again, the route of the
  first client goes to the second.
- *LegacyDuplicates.* The legacy path gives the same address again and again:
  nothing writes the chosen one to the file that is scanned.
- *SharedLease.* The guide's backend answers a second creation of a name with the
  lease of the first. When the second fails, its compensation releases that lease,
  though it was confirmed and the first client has its configuration. Only the
  creations that were given a lease can do that to it (`ConfirmedEndsForCause`).
- *StopCutsOff.* `Shutdown` makes `ListenAndServe` return, which `main` treats as
  fatal: the process exits with handlers under way.

Other divergences are in the models without a run of their own, since a step or two
shows them:

- phase 5 renames the *client's* configuration over `wg0.conf` (`wireguard.go:284,
  346`), from which the next start reads the server's Address (`wireguard.go:69`;
  `ConfigFile!Rename`);
- a delete answers 204 and leaves the peer and its route, although it "Returns nil if
  peer is successfully deleted" (`wireguard.go:404`): the pattern of
  `findPeerPublicKey` matches nothing in `wg0.conf` (`FoundKeys`). A regenerate begins
  with the same call and leaves the old key connected beside the new one;
- an agent whose `SERVER_ID` is not a UUID, which is what `scripts/install.sh:737`
  writes, does not register, although `AUTO-REGISTRATION-GUIDE.md:10` says so: its
  first report dereferences the registrar's nil configuration in a goroutine nobody
  recovers and ends the process (`Reporting!Register`);
- the peer of a creation that fails after phase 3 stays in the interface, although the
  implementation guide (`docs/ip-allocation-implementation-guide.md:231, 249`) removes
  it (`Compensate` leaves `peers` alone);
- `fix-drift` may end the lease of a creation that has reserved it and is about to
  configure its peer, since the tool takes no lock (`FixDrift`);
- a temporary file that cannot be removed after a failed write stays, without a word in
  the log (`ReturnFailed`).

With `WG_VALIDATE_KEYS` on, which is the default (`config.go:136`, and
`docs/SECURITY.md:37` asks to keep it), every creation fails: the entropy test
decodes the base64 key as hexadecimal (`KeyGenerated`). The theorem
`ValidationStopsCreation` states it of the whole creation.

Smaller ones: the metrics cache may go back to an older snapshot, and a snapshot
may be served for a collection and two pauses longer than the TTL (`ServedIsFresh`
states the bound that holds, and one less does not); the repair tool's `--api-url` and
`--api-key` are overwritten by the environment before they are read
(`cmd/repair/main.go:81-90`);
`fix-drift` reports success for an answer with `success: false` and no error text
(`cmd/repair/main.go:488`).

## 6. Proofs

`PeerAllocation_proof` assumes only `PeerAllocationAssumption`: any sets of
requests, names, addresses and attempts, finite or not. The properties are not
inductive as they stand. The invariant is

    FullInv == TypeOK /\ PhaseInv /\ AttemptInv /\ DistinctAddresses /\ ConfirmInv
               /\ HolderInv /\ (LockConfigured => RouteInv /\ SessionInv)

`PhaseInv` and `AttemptInv` tie a request's phase to the lease it works with,
`DistinctAddresses` keeps leases that hold an address apart, `ConfirmInv` says
that only leases with a kernel peer are confirmed, and `HolderInv` that the flock
is held exactly by the request past phase 0. The heart is `RouteInv` (a lease
in force that has a kernel peer is routed to a peer of its name) and
`SessionInv` (a request about to take a route takes it from no other name's
lease): a later creation could only move a route of theirs if the backend
had given it the same address, which it does only after the lease ended, and the
lock keeps other creations of the host out between reserve and confirm. Without
the lock this is false, hence the condition. Each conjunct is
preserved by each action, one lemma per group. From FullInv follow `TypeCorrect`,
`MutualExclusion` (LockExclusion), `RoutesFollowLeases` (AllocatedAddressRouted),
`CreationUsesLock` (refinement of LockService) and `CreationImplementsBook`
(refinement of AddressBook): each step maps to a step of the abstract module or
to a stutter, the interesting ones being ExecConfirm (Grant) and ExecRelease and
Revoke (GiveBack).

Two more invariants stand beside it. `DeliveredInv` (what is confirmed, or was,
belongs to a request that reached phase 6) gives `OnlyDeliveredIsAllocated`
(AllocatedWasDelivered). `ReleaseInv` (a lease is being released only when some request
that was given it has given up) gives `ConfirmedLeasesEndForCause`
(ConfirmedEndsForCause), whichever way the backend answers a repeated reserve. That no
release at all ends a confirmed lease is false when it answers by name, see 5.

`RepairTool_proof` stands on these. With an empty lease table a run of the loop
changes nothing but its result (`LoopLeavesCreations`: RSpec implements Spec), and
`fix-drift` only ends leases in force, which `FullInv` and `ReleaseInv` survive. With
`ImportInv` (an imported address is leased to nobody) they give `ToolTypeCorrect`
(TTypeOK) and `ImportsKeepRoutes` (ImportedRouteKept). `PeerRouted`, the address of a
lease whose creation has added its peer is routed to somebody, with the lock or without,
gives `RepairSparesConfirmed` (ConfirmedSurvivesRepair) and, with `ReleaseInv`,
`ToolEndsForCause` (ConfirmedEndsForCause). That the backend does not lease an imported
address and ends only what is drift are assumptions of the model (`SparesImported`,
`Importable`, `Unrouted`), not theorems.
`fix-drift` ends several leases in one step (`PeerAllocation!Revoke` ends one), in the
middle of creations too, so creations beside the tool are no behaviours of
PeerAllocation as they stand. FullInv and DeliveredInv survive it all the same
(`DriftOnlyEnds`): with the lock file, RouteInv says that a lease that has a peer is
routed, hence not drift, so no lease in the book is touched. What is proved of
creations holds beside loop and tool: `ToolKeepsRoutes`, `ToolKeepsOrphans`,
`ToolImplementsBook` and `ToolUsesLock`.

`FileLock_proof` uses `LockInv == TypeOK /\ OpenInv /\ OwnerInv`: a call's
descriptor is open exactly while it runs (`OpenInv`); a goroutine that was
granted the flock, or reported it to a call that still waits or holds, belongs to
the file that owns it (`OwnerInv`). From it follow `HeldOwnsLock` (HeldIsOwned) and
`FlockImplementsService`.

`AuthFailure_proof` assumes the order of the configured times that
`AuthFailureAssumption` states: the longest backoff is no longer than the entries'
TTL, in which a limiter refills. Its invariant is
`AuthInv == TypeOK /\ LockFollowsCount /\ RefillInv`, where `RefillInv` says that a
limiter is full or has at least what it regained since its last use; that and the
assumption give `CleanupGivesNothing` (ForgottenLimiterWasFull).
`BlocksRunTheirCourse` (BlockRunsItsCourse) needs that an address that is blocked
by backoff is younger than the TTL.

`HostFiles_proof` first shows that the writes leave the lock alone
(`HostImplementsLock`: HSpec implements the Spec of FileLock), so that what
`FileLock_proof` shows holds here too (`HostHeldOwnsLock`, `HostImplementsService`).
Then `HostInv == LockInv /\ WriteInv /\ FileTyped /\ FileInv`, for any set of calls,
processes and writers, gives HTypeOK and the four properties of the file. `WriteInv`,
a write is under way only while its call holds the lock, makes them serial
(`LockSerialisesWrites`), and with one writer at a time the three parts of `FileInv`
can be followed from one file operation to the next:

- `TempInv`: a temporary file is one to fill and rename, or was left by a death or by a
  failed write that could not remove it (`TempsAreRemoved`);
- `ReadersInv`: without a failed CreateTemp or rename nothing opens `wg0.conf` to write,
  and the text in it is complete (`ReadersComplete`);
- `GoodInv`: until a second fault follows a failed rename, the last good text is in
  the file, or in the memory of a restore that has truncated it; what an overwrite has
  read and, unless copying it failed, the backup are equal to the file until they are
  used (`LastTextSurvives`).

`HostFilesAssumption` says that the texts differ from each other and from "no file".
`ConfigFile` on its own does not have these properties: its writes overlap.

`LegacyCreation_proof` holds for any range of addresses and any processes.
`LegacyInv == TypeOK /\ ClientInv /\ LocksInv /\ SeenInv`: a request between the two
Locks and the end of its scan has its process's mutex, and the one that scans the flock
(`LocksInv`, which gives `OneScanAtATime`); what was listed when it began and ever since
is listed, and is not what it chose (`SeenInv`, which gives `ListedRoutesStay`). That
the scan finds an address that is not listed needs that a non-empty set of naturals has
a least element, `NatMinimum`.
That distinct creations have distinct addresses is false, see 5.

`Reporting_proof` assumes of the durations what `SendsFit` states: a send has time for
its collection (two pauses and a collection are within the context), and the context
and two pauses are over before the next tick. With the code's 30 and 60 seconds that
leaves a pause just under 15 seconds. The invariant is
`ReportInv == TypeOK /\ WaitInv /\ CacheInv /\ SendInv`. `WaitInv` bounds how long a
goroutine is at a step. `CacheInv` bounds the age of the snapshot by the age of
`cacheTime`, although the two may be of different collections: whoever sets
`cacheTime` now stored a snapshot at most a pause ago, and a snapshot that replaced it
is at most a collection older. Between the test of `cacheTime` and the return of the
cache lies one more pause, in which the snapshot ages and may be replaced by an older one
(`Checked`). That gives `ServedWithinBound` (ServedIsFresh). `SendInv`
bounds the age of a send at each of its steps (`LifeInv`) and says that a tick that
waits finds none under way (`TickInv`), which gives `SendersApart` (SendsDoNotOverlap).

`Shutdown_proof`: `StopInv == TypeOK /\ QuietInv /\ DrainInv`. The loop is told to stop
before it is waited for (`LoopStaysQuiet`), and once the listener of main's Shutdown is
closed no handler starts, so what is drained stays drained until the process ends
(`GoodEndIsDrained`).

Every invariant, action property and refinement that a passing run checks is thus
also proved, for every value of the constants that the theorem's hypotheses allow
(they are named above: the lock file, the order of the durations). Only model-checked, because it needs
fairness and ENABLED, is liveness: FailedLeaseReclaimed and the lock coming free in
CreateRetry, StrayPeerReported, AbandonedLockIsFreed, WaitersEnd, CallsEnd, BlockEnds,
ReportsRepeat and SignalEnds.

## 7. Not modelled

- The loading of the configuration: it is read once before anything runs; what
  depends on it is a constant of a module.
- Logging, sanitising, file permissions and the GeoIP lookup: nothing the program
  does later depends on them.
- The registrar beyond the panic above: its request, its answers and the rewriting of
  `.env` are code the agent cannot reach, since the only caller makes a registrar
  without a configuration.
- Of the allocation client, signatures and the length of the backoff. Of the repair
  tool, the commands that only read, and its output.
- The key limiter of the middleware, which only the valid key reaches.
- Times are never compared across modules: that the HTTP server's write timeout
  (15 s, `server.go:171`) is shorter than a creation may take shows only in the client
  not getting its answer, which `PeerAllocation` does not distinguish from getting it.
- The backend itself, installation scripts and load tests.

## 8. Plan

Done: PeerAllocation with its abstract modules, Reconciliation and RepairTool, FileLock,
ConfigFile and HostFiles, LegacyCreation, AuthFailure, Reporting and Shutdown, each with
its runs, and the theorems of section 6 about all of them. Left:

1. ConfigFile as a component of its own: an abstract file (the text is the old or the new
   one) that HostFiles implements while no fault has happened.
2. Lemmas towards liveness that need no fairness, such as that every step of a request
   moves it on in the order of its phases.
