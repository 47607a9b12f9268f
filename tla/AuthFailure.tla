---------------------------- MODULE AuthFailure ----------------------------
(***************************************************************************)
(* Rate limiting and the tracking of authentication failures (internal/    *)
(* api/ratelimit.go) under the middleware chain that drives them           *)
(* (internal/api/middleware.go): check, take a token, authenticate, record *)
(* the failure.  Each of the four takes the limiter's mutex by itself, so  *)
(* requests interleave between them, with the clock and with the clean-up. *)
(*                                                                         *)
(* Times are kept as ages, in ticks, and stop growing one tick past the    *)
(* longest span they are compared with.  Rate limiting is enabled.  The    *)
(* key-based limiter is left out: only the valid key reaches it and its    *)
(* answers change nothing here.  Operators marked as planted bugs are not  *)
(* part of Next; they show that the properties can fail.                   *)
(***************************************************************************)
EXTENDS Integers, Sequences

CONSTANTS
  IPs,         \* client addresses
  Slots,       \* requests that can be under way at the same time
  IPOf,        \* the address each of them comes from
  None,        \* stands for "no entry in the map"
  Threshold,   \* LockoutThreshold
  Lockout,     \* LockoutDuration
  Window,      \* FailureWindow
  Delays,      \* the backoff table, from level 0 on
  BackoffMax,
  EntryTTL,
  Burst,       \* AuthBurst
  Refill       \* tokens a limiter regains per tick (AuthRPS)

ASSUME AuthFailureAssumption ==
  /\ IPOf \in [Slots -> IPs]
  /\ {Threshold, Lockout, Burst, Refill} \subseteq Nat \ {0}
  /\ {Window, BackoffMax, EntryTTL} \subseteq Nat
  /\ Delays \in Seq(Nat)
  /\ BackoffMax <= EntryTTL
  /\ Burst <= Refill * EntryTTL

VARIABLES
  pc,         \* where each request is in the chain
  failures,   \* authFailures: a FailureTracker per address
  limiters    \* ipLimiters: tokens and time since lastAccess per address

vars == <<pc, failures, limiters>>

-----------------------------------------------------------------------------
(* left is the time until LockedUntil: Unset when that is zero, Past when  *)
(* it is before now, and 0 when it is now.                                 *)
Unset == -2
Past  == -1

AgeCap  == 1 + (IF Window > EntryTTL THEN Window ELSE EntryTTL)
Ages    == 0..AgeCap
Older(age) == IF age < AgeCap THEN age + 1 ELSE age

Tracker == [count : Nat, level : Nat, first : Ages, last : Ages,
            left : Unset..Lockout]
Limiter == [tokens : 0..Burst, idle : Ages]

(* A missing entry is no tracker and no limiter.                           *)
ASSUME NoneIsNoEntry == None \notin Tracker \cup Limiter

TypeOK ==
  /\ pc \in [Slots -> {"idle", "checked", "allowed", "denied"}]
  /\ \A ip \in IPs : failures[ip] = None \/ failures[ip] \in Tracker
  /\ \A ip \in IPs : limiters[ip] = None \/ limiters[ip] \in Limiter
  /\ DOMAIN failures = IPs /\ DOMAIN limiters = IPs

Init ==
  /\ pc = [s \in Slots |-> "idle"]
  /\ failures = [ip \in IPs |-> None]
  /\ limiters = [ip \in IPs |-> None]

(* isLockedOut, getBackoffDelay and checkAuthFailureLimit.                 *)
LockedOutOnce(t) == t.left # Unset   \* planted bug: looks for a zero time only
LockedOut(t) == t.left > 0
BackoffDelay(t) ==
  IF t.level >= Len(Delays) \/ Delays[t.level + 1] > BackoffMax
  THEN BackoffMax ELSE Delays[t.level + 1]
Blocked(ip) ==
  /\ failures[ip] # None
  /\ \/ LockedOut(failures[ip])
     \/ failures[ip].last < BackoffDelay(failures[ip])

(* recordFailure, in the order of its tests: a lockout that is over is     *)
(* forgotten, one that is not leaves the tracker alone, and a window that  *)
(* is over starts again.                                                   *)
Fresh == [count |-> 0, level |-> 0, first |-> 0, last |-> 0, left |-> Unset]
AfterLockout(t) ==
  IF t.left = Past
  THEN [Fresh EXCEPT !.last = t.last] ELSE t
InWindow(t) ==
  IF t.first > Window
  THEN [t EXCEPT !.count = 0, !.level = 0, !.first = 0] ELSE t
OneMoreLate(t) ==                \* planted bug: locks one failure late
  [t EXCEPT !.count = @ + 1, !.level = @ + 1, !.last = 0,
            !.left = IF t.count >= Threshold THEN Lockout ELSE @]
OneMore(t) ==
  [t EXCEPT !.count = @ + 1, !.level = @ + 1, !.last = 0,
            !.left = IF t.count + 1 >= Threshold THEN Lockout ELSE @]
RecordedWhileLocked(t) ==        \* planted bug: late failures count, too
  OneMore(InWindow(AfterLockout(t)))
Recorded(t) ==
  LET now == AfterLockout(t)
  IN  IF LockedOut(now) THEN now ELSE OneMore(InWindow(now))

RecordFailure(ip) ==
  failures' = [failures EXCEPT
                 ![ip] = Recorded(IF @ = None THEN Fresh ELSE @)]

-----------------------------------------------------------------------------
Goto(s, step) == pc' = [pc EXCEPT ![s] = step]

(* AuthFailureMiddleware, first half: a blocked address is answered 429,   *)
(* which changes nothing.                                                  *)
Check(s) ==
  /\ pc[s] = "idle"
  /\ ~Blocked(IPOf[s])
  /\ Goto(s, "checked")
  /\ UNCHANGED <<failures, limiters>>

TakeTokenOnCredit(s) ==          \* planted bug: an off-by-one
  LET ip  == IPOf[s]
      has == IF limiters[ip] = None THEN Burst ELSE limiters[ip].tokens
  IN  /\ pc[s] = "checked"
      /\ Goto(s, IF has >= 0 THEN "allowed" ELSE "idle")
      /\ limiters' = [limiters EXCEPT
           ![ip] = [tokens |-> has - 1, idle |-> 0]]
      /\ UNCHANGED failures

(* HybridRateLimitMiddleware and AllowIP: every request of an address      *)
(* takes a token of the same limiter, which is made on first use.          *)
TakeToken(s) ==
  LET ip  == IPOf[s]
      has == IF limiters[ip] = None THEN Burst ELSE limiters[ip].tokens
  IN  /\ pc[s] = "checked"
      /\ Goto(s, IF has > 0 THEN "allowed" ELSE "idle")
      /\ limiters' = [limiters EXCEPT
           ![ip] = [tokens |-> IF has > 0 THEN has - 1 ELSE 0, idle |-> 0]]
      /\ UNCHANGED failures

(* APIKeyMiddlewareWithRateLimit: a key that is missing, malformed or      *)
(* wrong is answered 401; any other end of the request is not a failure.   *)
Authenticate(s) ==
  /\ pc[s] = "allowed"
  /\ Goto(s, "denied") \/ Goto(s, "idle")
  /\ UNCHANGED <<failures, limiters>>

(* AuthFailureMiddleware, second half: the 401 is recorded.                *)
Record(s) ==
  /\ pc[s] = "denied"
  /\ Goto(s, "idle")
  /\ RecordFailure(IPOf[s])
  /\ UNCHANGED limiters

CleanupEmpties ==                \* planted bug: every limiter goes
  /\ limiters' = [ip \in IPs |-> None]
  /\ UNCHANGED <<pc, failures>>

(* cleanup: what has been quiet for the TTL goes, a running lockout stays. *)
Cleanup ==
  /\ limiters' = [ip \in IPs |->
       IF limiters[ip] # None /\ limiters[ip].idle > EntryTTL
       THEN None ELSE limiters[ip]]
  /\ failures' = [ip \in IPs |->
       IF failures[ip] # None /\ failures[ip].left < 0
                              /\ failures[ip].last > EntryTTL
       THEN None ELSE failures[ip]]
  /\ UNCHANGED pc

(* Time passes: entries age, lockouts run down, limiters refill.           *)
Tick ==
  /\ failures' = [ip \in IPs |->
       IF failures[ip] = None THEN None
       ELSE [failures[ip] EXCEPT
               !.first = Older(@), !.last = Older(@),
               !.left = IF @ > Past THEN @ - 1 ELSE @]]
  /\ limiters' = [ip \in IPs |->
       IF limiters[ip] = None THEN None
       ELSE [tokens |-> IF limiters[ip].tokens + Refill > Burst THEN Burst
                        ELSE limiters[ip].tokens + Refill,
             idle |-> Older(limiters[ip].idle)]]
  /\ UNCHANGED pc

Next ==
  \/ \E s \in Slots : Check(s) \/ TakeToken(s) \/ Authenticate(s) \/ Record(s)
  \/ Cleanup
  \/ Tick

Spec == Init /\ [][Next]_vars

(* The clock does not stop.                                                *)
FairSpec == Spec /\ WF_vars(Tick)

-----------------------------------------------------------------------------
(* An address is locked out only for the failures that reached the         *)
(* threshold, and reaching it always locks, whatever order late failures,  *)
(* resets of the window and expiries come in (ratelimit.go:159-203).       *)
LockFollowsCount ==
  \A ip \in IPs :
    failures[ip] # None =>
      /\ LockedOut(failures[ip]) => failures[ip].count >= Threshold
      /\ failures[ip].count >= Threshold => failures[ip].left # Unset

(* A block runs its course: no clean-up forgets a blocked address, and a   *)
(* failure that was under way when the lockout began neither lifts nor     *)
(* prolongs it (ratelimit.go:182-190, 302-316).                            *)
BlockRunsItsCourse ==
  [][ \A ip \in IPs :
        Blocked(ip) =>
          /\ failures'[ip] # None
          /\ LockedOut(failures[ip]) =>
               failures'[ip].left \in {failures[ip].left, failures[ip].left - 1}
    ]_vars

(* The clean-up gives an address no token it has not earned: a limiter     *)
(* that is forgotten had refilled (ratelimit.go:302-307).                  *)
ForgottenLimiterWasFull ==
  [][ \A ip \in IPs :
        limiters[ip] # None /\ limiters'[ip] = None
          => limiters[ip].tokens = Burst ]_vars

(* Whoever is blocked is admitted again after a while, however often it    *)
(* asks meanwhile: a refused request is not a failure                      *)
(* (middleware.go:18-41).                                                  *)
BlockEnds == \A ip \in IPs : Blocked(ip) ~> ~Blocked(ip)
=============================================================================
