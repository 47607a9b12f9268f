------------------------------ MODULE FileLock ------------------------------
(***************************************************************************)
(* acquireLockWithTimeout and releaseLock (internal/vpn/wireguard_unix.go) *)
(* as createPeerDBFirst uses them (wireguard.go:201-222, 299-304): a call  *)
(* opens the lock file and lets a goroutine block in flock(2), which       *)
(* cannot be interrupted.  A call that times out closes the file and       *)
(* returns; its goroutine stays behind in the kernel.                      *)
(*                                                                         *)
(* The lock belongs to the open file, which lives until its descriptor is  *)
(* closed and no system call uses it any more.                             *)
(***************************************************************************)
CONSTANTS
  Calls,    \* calls of createPeerDBFirst, in all processes of the host
  Procs,    \* the processes: an agent and the one that replaces it
  ProcOf,   \* the process of each call
  None      \* stands for "no open file"

ASSUME FileLockAssumption == ProcOf \in [Calls -> Procs] /\ None \notin Calls

VARIABLES
  pc,       \* the call itself
  waiter,   \* its goroutine
  open,     \* calls whose descriptor is open
  owner     \* call whose open file owns the flock, or None

vars == <<pc, waiter, open, owner>>

-----------------------------------------------------------------------------
(* The goroutine is about to call flock, blocked in it, granted the lock   *)
(* but not back from the kernel, or back: with its result in the buffered  *)
(* channel ("sent", or "error"), where nobody need read it.                *)
InKernel == {"blocked", "granted"}
Waiters  == {"none", "started", "sent", "error", "killed"} \cup InKernel
Steps    == {"idle", "waiting", "held", "closing", "over"}

TypeOK ==
  /\ pc \in [Calls -> Steps]
  /\ waiter \in [Calls -> Waiters]
  /\ open \in SUBSET Calls
  /\ owner \in Calls \cup {None}

Init ==
  /\ pc = [c \in Calls |-> "idle"]
  /\ waiter = [c \in Calls |-> "none"]
  /\ open = {}
  /\ owner = None

Goto(c, step) == pc' = [pc EXCEPT ![c] = step]
Become(c, state) == waiter' = [waiter EXCEPT ![c] = state]

(* Planted bugs, as in PeerAllocation: not part of Next.                   *)
GrantShared(c) ==              \* LOCK_SH in place of LOCK_EX
  /\ waiter[c] = "blocked"
  /\ owner' = c
  /\ Become(c, "granted")
  /\ UNCHANGED <<pc, open>>
ReceiveIgnoresError(c) ==      \* any result counts as the lock
  /\ pc[c] = "waiting"
  /\ waiter[c] \in {"sent", "error"}
  /\ Goto(c, "held")
  /\ UNCHANGED <<waiter, open, owner>>
TimeoutKeepsFile(c) ==         \* the early return does not close the file
  /\ pc[c] = "waiting"
  /\ Goto(c, "over")
  /\ UNCHANGED <<waiter, open, owner>>
CloseInherited(c) ==           \* a child process has the descriptor too
  /\ pc[c] = "closing"
  /\ open' = open \ {c}
  /\ Goto(c, "over")
  /\ UNCHANGED <<waiter, owner>>
FlockInterrupted(c) ==         \* a result the call does not know
  /\ waiter[c] = "blocked"
  /\ Become(c, "interrupted")
  /\ UNCHANGED <<pc, open, owner>>

-----------------------------------------------------------------------------
(* Steps of the call.                                                      *)

(* os.OpenFile succeeds; the goroutine is started.                         *)
Open(c) ==
  /\ pc[c] = "idle"
  /\ open' = open \cup {c}
  /\ Goto(c, "waiting")
  /\ Become(c, "started")
  /\ UNCHANGED owner

OpenFails(c) ==
  /\ pc[c] = "idle"
  /\ Goto(c, "over")
  /\ UNCHANGED <<waiter, open, owner>>

(* The select receives from the channel: nil, or the error of flock.       *)
Receive(c) ==
  /\ pc[c] = "waiting"
  /\ \/ waiter[c] = "sent"  /\ Goto(c, "held")
     \/ waiter[c] = "error" /\ Goto(c, "closing")
  /\ UNCHANGED <<waiter, open, owner>>

(* The select takes the timer, even if the channel is ready too.           *)
Timeout(c) ==
  /\ pc[c] = "waiting"
  /\ Goto(c, "closing")
  /\ UNCHANGED <<waiter, open, owner>>

(* The creation is over: releaseLock, before Close.                        *)
Unlock(c) ==
  /\ pc[c] = "held"
  /\ owner' = IF owner = c THEN None ELSE owner
  /\ Goto(c, "closing")
  /\ UNCHANGED <<waiter, open>>

(* Close frees the lock of the open file unless flock still uses the file. *)
Close(c) ==
  /\ pc[c] = "closing"
  /\ open' = open \ {c}
  /\ owner' = IF owner = c /\ waiter[c] \notin InKernel THEN None ELSE owner
  /\ Goto(c, "over")
  /\ UNCHANGED waiter

-----------------------------------------------------------------------------
(* Steps of the goroutine and of the kernel.                               *)

(* flock on a descriptor that was closed meanwhile is EBADF.               *)
StartFlock(c) ==
  /\ waiter[c] = "started"
  /\ Become(c, IF c \in open THEN "blocked" ELSE "error")
  /\ UNCHANGED <<pc, open, owner>>

(* The kernel grants the lock to the file, whether or not its descriptor   *)
(* is still open.                                                          *)
Grant(c) ==
  /\ waiter[c] = "blocked"
  /\ owner = None
  /\ owner' = c
  /\ Become(c, "granted")
  /\ UNCHANGED <<pc, open>>

(* flock fails: interrupted, or the kernel is out of locks.                *)
FlockFails(c) ==
  /\ waiter[c] = "blocked"
  /\ Become(c, "error")
  /\ UNCHANGED <<pc, open, owner>>

(* flock returns and gives up its use of the file; if the descriptor was   *)
(* closed that was the last one, and the lock goes with it.                *)
ReturnFlock(c) ==
  /\ waiter[c] = "granted"
  /\ Become(c, "sent")
  /\ owner' = IF c \notin open /\ owner = c THEN None ELSE owner
  /\ UNCHANGED <<pc, open>>

(* A process dies: its goroutines and its files are gone.                  *)
Die(p) ==
  LET dead == {c \in Calls : ProcOf[c] = p /\ pc[c] # "idle"}
  IN  /\ \E c \in dead : pc[c] # "over" \/ waiter[c] \in InKernel
      /\ pc' = [c \in Calls |-> IF c \in dead THEN "over" ELSE pc[c]]
      /\ waiter' = [c \in Calls |-> IF c \in dead THEN "killed" ELSE waiter[c]]
      /\ open' = open \ dead
      /\ owner' = IF owner \in dead THEN None ELSE owner

CallStep(c) == Receive(c) \/ Timeout(c) \/ Unlock(c) \/ Close(c)
WaiterStep(c) == StartFlock(c) \/ Grant(c) \/ FlockFails(c) \/ ReturnFlock(c)

Next ==
  \/ \E c \in Calls : Open(c) \/ OpenFails(c) \/ CallStep(c) \/ WaiterStep(c)
  \/ \E p \in Procs : Die(p)

Spec == Init /\ [][Next]_vars

(* A call ends once it has started (PeerAllocation!LockIsReleased); the    *)
(* goroutine is scheduled, and the kernel grants a free lock.              *)
FairSpec ==
  /\ Spec
  /\ \A c \in Calls : /\ WF_vars(CallStep(c))
                      /\ WF_vars(StartFlock(c) \/ Grant(c) \/ ReturnFlock(c))

-----------------------------------------------------------------------------
(* A call past phase 0 owns the flock, so no other call is: the nil it     *)
(* read from the channel is not older than its lock (wireguard.go:211,     *)
(* wireguard_unix.go:23-36).                                               *)
HeldIsOwned == \A c \in Calls : pc[c] = "held" => owner = c /\ c \in open

(* The flock implements the lock that creation relies on.                  *)
Service == INSTANCE LockService WITH
             stage <- [c \in Calls |->
                         CASE pc[c] = "idle" -> "out"
                           [] pc[c] = "waiting" -> "waiting"
                           [] pc[c] = "held" -> "in"
                           [] OTHER -> "over"]
ImplementsLockService == Service!Spec

(* A call that gave up does not keep the lock: if its goroutine is granted *)
(* the flock later, the flock is freed again (wireguard.go:212,            *)
(* wireguard_unix.go:25-28).                                               *)
AbandonedLockIsFreed ==
  \A c \in Calls : owner = c /\ pc[c] # "held" ~> owner # c

(* No goroutine stays in flock for ever.                                   *)
WaitersEnd == \A c \in Calls : waiter[c] \in InKernel ~> waiter[c] \notin InKernel
=============================================================================
