-------------------------- MODULE AuthFailure_proof --------------------------
(***************************************************************************)
(* Proofs about AuthFailure, for any set of addresses and of requests and  *)
(* any configuration that meets AuthFailureAssumption.                     *)
(***************************************************************************)
EXTENDS AuthFailure, TLAPS

(* A limiter has refilled for as long as it has been idle.                 *)
RefillInv ==
  \A ip \in IPs :
    limiters[ip] # None =>
      limiters[ip].tokens = Burst \/ limiters[ip].tokens >= Refill * limiters[ip].idle

AuthInv == TypeOK /\ LockFollowsCount /\ RefillInv

-----------------------------------------------------------------------------
(* The operators.                                                          *)

LEMMA Parameters ==
  /\ \A s \in Slots : IPOf[s] \in IPs
  /\ Threshold \in Nat /\ Threshold > 0
  /\ Lockout \in Nat /\ Lockout > 0
  /\ Burst \in Nat /\ Burst > 0
  /\ Refill \in Nat /\ Refill > 0
  /\ Window \in Nat /\ EntryTTL \in Nat
  /\ BackoffMax \in Nat /\ BackoffMax <= EntryTTL
  /\ Burst <= Refill * EntryTTL
BY AuthFailureAssumption

LEMMA AgesFacts ==
  /\ AgeCap \in Nat /\ AgeCap > Window /\ AgeCap > EntryTTL
  /\ 0 \in Ages
  /\ \A n \in Ages : n \in Nat /\ Older(n) \in Ages /\ Older(n) \in {n, n + 1}
BY Parameters DEF AgeCap, Ages, Older

LEMMA FreshIsTracker == Fresh \in Tracker
BY AgesFacts, Parameters DEF Fresh, Tracker, Unset

(* Each part of recordFailure makes a tracker of a tracker and keeps what  *)
(* LockFollowsCount says of one.                                           *)
Sound(t) == /\ t \in Tracker
            /\ LockedOut(t) => t.count >= Threshold
            /\ t.count >= Threshold => t.left # Unset

LEMMA AfterLockoutFacts ==
  ASSUME NEW t, Sound(t)
  PROVE  /\ Sound(AfterLockout(t))
         /\ LockedOut(t) => AfterLockout(t) = t
BY AgesFacts, Parameters
   DEF Sound, AfterLockout, Fresh, Tracker, LockedOut, Unset, Past

LEMMA InWindowFacts ==
  ASSUME NEW t, Sound(t), ~LockedOut(t)
  PROVE  Sound(InWindow(t)) /\ ~LockedOut(InWindow(t))
<1>1. CASE t.first > Window
  <2> DEFINE u == [t EXCEPT !.count = 0, !.level = 0, !.first = 0]
  <2>1. InWindow(t) = u
    BY <1>1 DEF InWindow
  <2>2. t \in Tracker
    BY DEF Sound
  <2>3. u.count = 0 /\ u.left = t.left
    BY <2>2 DEF Tracker
  <2>4. u \in Tracker
    BY <2>2, AgesFacts DEF Tracker
  <2> HIDE DEF u
  <2> QED
    BY <2>1, <2>3, <2>4, Parameters DEF Sound, LockedOut
<1> QED
  BY <1>1 DEF InWindow

LEMMA OneMoreFacts ==
  ASSUME NEW t, Sound(t), ~LockedOut(t)
  PROVE  Sound(OneMore(t))
<1>1. t.count \in Nat /\ t.level \in Nat /\ t.first \in Ages /\ t.left \in Unset..Lockout
  BY DEF Sound, Tracker
<1>2. Lockout \in Unset..Lockout /\ Lockout # Unset
  BY Parameters DEF Unset
<1>3. /\ OneMore(t).count = t.count + 1
      /\ OneMore(t).left = IF t.count + 1 >= Threshold THEN Lockout ELSE t.left
      /\ OneMore(t).left \in Unset..Lockout
  BY <1>1, <1>2 DEF OneMore, Sound, Tracker
<1>4. OneMore(t) \in Tracker
  <2>1. t \in [count : Nat, level : Nat, first : Ages, last : Ages,
               left : Unset..Lockout]
    BY DEF Sound, Tracker
  <2>2. /\ t.count + 1 \in Nat /\ t.level + 1 \in Nat /\ 0 \in Ages
        /\ (IF t.count + 1 >= Threshold THEN Lockout ELSE t.left)
             \in Unset..Lockout
    BY <1>1, <1>2, AgesFacts
  <2> DEFINE locked == IF t.count + 1 >= Threshold THEN Lockout ELSE t.left
  <2>3. OneMore(t) = [t EXCEPT !.count = t.count + 1, !.level = t.level + 1,
                               !.last = 0, !.left = locked]
    BY DEF OneMore
  <2>4. locked \in Unset..Lockout
    BY <2>2
  <2> HIDE DEF locked
  <2> QED BY <2>1, <2>2, <2>3, <2>4 DEF Tracker
<1> QED
  BY <1>1, <1>2, <1>3, <1>4, Parameters DEF Sound, LockedOut

(* A running lockout stays as it is.                                       *)
LEMMA RecordedFacts ==
  ASSUME NEW t, Sound(t)
  PROVE  Sound(Recorded(t)) /\ (LockedOut(t) => Recorded(t) = t)
BY AfterLockoutFacts, InWindowFacts, OneMoreFacts DEF Recorded

(* A tracker one tick later.                                               *)
Aged(t) == [t EXCEPT !.first = Older(@), !.last = Older(@),
                     !.left = IF @ > Past THEN @ - 1 ELSE @]

LEMMA AgedFacts ==
  ASSUME NEW t, Sound(t)
  PROVE  /\ Sound(Aged(t))
         /\ LockedOut(t) => Aged(t).left = t.left - 1
<1>1. /\ t \in Tracker /\ t.count \in Nat /\ t.left \in Unset..Lockout
      /\ Older(t.first) \in Ages /\ Older(t.last) \in Ages
  BY AgesFacts DEF Sound, Tracker
<1>2. /\ Aged(t).count = t.count
      /\ Aged(t).left = IF t.left > Past THEN t.left - 1 ELSE t.left
      /\ Aged(t).left \in Unset..Lockout
  BY <1>1, Parameters DEF Aged, Tracker, Unset, Past
<1>3. Aged(t) \in Tracker
  BY <1>1, <1>2 DEF Aged, Tracker
<1> QED
  BY <1>1, <1>2, <1>3, Parameters DEF Sound, LockedOut, Unset, Past

(* A limiter that gave a token, or had none to give.                       *)
LEMMA TokenFacts ==
  ASSUME TypeOK, NEW ip \in IPs
  PROVE  LET has == IF limiters[ip] = None THEN Burst ELSE limiters[ip].tokens
             new == [tokens |-> IF has > 0 THEN has - 1 ELSE 0, idle |-> 0]
         IN  new \in Limiter /\ new.tokens >= Refill * new.idle
<1> DEFINE has == IF limiters[ip] = None THEN Burst ELSE limiters[ip].tokens
<1>1. has \in 0..Burst
  BY Parameters DEF TypeOK, Limiter
<1> QED BY <1>1, AgesFacts, Parameters DEF Limiter

LEMMA DelayBounded ==
  ASSUME NEW t \in Tracker
  PROVE  BackoffDelay(t) \in Int /\ BackoffDelay(t) <= EntryTTL
BY Parameters, AuthFailureAssumption DEF BackoffDelay, Tracker

-----------------------------------------------------------------------------
LEMMA AuthInit == Init => AuthInv
BY DEF Init, AuthInv, TypeOK, LockFollowsCount, RefillInv

(* The steps of the trackers.                                              *)
LEMMA RecordKeeps ==
  ASSUME AuthInv, NEW s \in Slots, Record(s)
  PROVE  AuthInv'
<1> DEFINE ip == IPOf[s]
           t  == IF failures[ip] = None THEN Fresh ELSE failures[ip]
<1>0. ip \in IPs
  BY Parameters
<1>1. Sound(t)
  BY <1>0, FreshIsTracker, Parameters
     DEF AuthInv, TypeOK, LockFollowsCount, Sound, Fresh, LockedOut, Unset
<1>2. failures' = [failures EXCEPT ![ip] = Recorded(t)]
  BY DEF Record, RecordFailure
<1>3. /\ Recorded(t) \in Tracker
      /\ LockedOut(Recorded(t)) => Recorded(t).count >= Threshold
      /\ Recorded(t).count >= Threshold => Recorded(t).left # Unset
  BY <1>1, RecordedFacts DEF Sound
<1>4. pc' \in [Slots -> {"idle", "checked", "allowed", "denied"}]
  BY DEF AuthInv, TypeOK, Record, Goto
<1>5. UNCHANGED limiters
  BY DEF Record
<1> QED
  <2>1. TypeOK'
    BY <1>0, <1>2, <1>3, <1>4, <1>5 DEF AuthInv, TypeOK
  <2>2. LockFollowsCount'
    BY <1>0, <1>2, <1>3 DEF AuthInv, TypeOK, LockFollowsCount
  <2>3. RefillInv'
    BY <1>5 DEF AuthInv, RefillInv
  <2> QED BY <2>1, <2>2, <2>3 DEF AuthInv

LEMMA CleanupKeeps == AuthInv /\ Cleanup => AuthInv'
BY DEF AuthInv, TypeOK, LockFollowsCount, RefillInv, Cleanup

(* The step of the limiter.                                                *)
LEMMA TakeTokenKeeps ==
  ASSUME AuthInv, NEW s \in Slots, TakeToken(s)
  PROVE  AuthInv'
<1> DEFINE ip  == IPOf[s]
           has == IF limiters[ip] = None THEN Burst ELSE limiters[ip].tokens
           new == [tokens |-> IF has > 0 THEN has - 1 ELSE 0, idle |-> 0]
<1>0. ip \in IPs
  BY Parameters
<1>2. new \in Limiter /\ new.tokens >= Refill * new.idle
  BY <1>0, TokenFacts DEF AuthInv
<1>3. limiters' = [limiters EXCEPT ![ip] = new] /\ UNCHANGED failures
  BY DEF TakeToken
<1>4. pc' \in [Slots -> {"idle", "checked", "allowed", "denied"}]
  BY DEF AuthInv, TypeOK, TakeToken, Goto
<1>5. TypeOK'
  BY <1>0, <1>2, <1>3, <1>4 DEF AuthInv, TypeOK
<1>6. RefillInv'
  BY <1>0, <1>2, <1>3 DEF AuthInv, TypeOK, RefillInv
<1>7. LockFollowsCount'
  BY <1>3 DEF AuthInv, LockFollowsCount
<1> QED BY <1>5, <1>6, <1>7 DEF AuthInv

(* Time passes.                                                            *)
LEMMA TickKeeps == AuthInv /\ Tick => AuthInv'
<1> SUFFICES ASSUME AuthInv, Tick PROVE AuthInv'
  OBVIOUS
<1>1. ASSUME NEW ip \in IPs, failures'[ip] # None
      PROVE  /\ failures'[ip] \in Tracker
             /\ LockedOut(failures'[ip]) => failures'[ip].count >= Threshold
             /\ failures'[ip].count >= Threshold => failures'[ip].left # Unset
  <2>1. Sound(failures[ip])
    BY <1>1 DEF AuthInv, TypeOK, LockFollowsCount, Sound, Tick
  <2>2. failures'[ip] = Aged(failures[ip])
    BY <1>1 DEF Tick, Aged
  <2> QED
    BY <2>1, <2>2, AgedFacts DEF Sound
<1>2. ASSUME NEW ip \in IPs, limiters'[ip] # None
      PROVE  /\ limiters'[ip] \in Limiter
             /\ \/ limiters'[ip].tokens = Burst
                \/ limiters'[ip].tokens >= Refill * limiters'[ip].idle
  <2> DEFINE b    == limiters[ip].tokens
             i    == limiters[ip].idle
  <2>1. limiters[ip] # None /\ b \in 0..Burst /\ i \in Ages /\ i \in Nat
    BY <1>2, AgesFacts DEF AuthInv, TypeOK, Limiter, Tick
  <2>2. limiters'[ip] = [tokens |-> IF b + Refill > Burst THEN Burst ELSE b + Refill,
                         idle |-> Older(i)]
    BY <1>2 DEF Tick
  <2>3. limiters'[ip] \in Limiter
    BY <2>1, <2>2, AgesFacts, Parameters DEF Limiter
  <2>4. b = Burst \/ b >= Refill * i
    BY <2>1 DEF AuthInv, RefillInv
  <2>5. Refill * (i + 1) = Refill * i + Refill
    BY <2>1, Parameters
  <2>6. Older(i) = i \/ Older(i) = i + 1
    BY <2>1, AgesFacts
  <2>7. CASE b + Refill > Burst
    BY <2>2, <2>3, <2>7
  <2>8. CASE ~(b + Refill > Burst)
    <3>1. limiters'[ip].tokens = b + Refill /\ limiters'[ip].idle = Older(i)
      BY <2>2, <2>8
    <3>2. b >= Refill * i
      BY <2>1, <2>4, <2>8, Parameters
    <3>3. Refill * i \in Int /\ Refill \in Nat
      BY <2>1, Parameters
    <3>4. b + Refill >= Refill * Older(i)
      BY <2>1, <2>5, <2>6, <3>2, <3>3
    <3> QED BY <2>3, <3>1, <3>4
  <2> QED BY <2>7, <2>8
<1>3. pc' = pc /\ DOMAIN failures' = IPs /\ DOMAIN limiters' = IPs
  BY DEF Tick
<1>4. TypeOK'
  BY <1>1, <1>2, <1>3 DEF AuthInv, TypeOK
<1>5. LockFollowsCount'
  BY <1>1 DEF LockFollowsCount
<1>6. RefillInv'
  BY <1>2 DEF RefillInv
<1> QED BY <1>4, <1>5, <1>6 DEF AuthInv

LEMMA AuthNext == AuthInv /\ [Next]_vars => AuthInv'
<1> SUFFICES ASSUME AuthInv, [Next]_vars PROVE AuthInv'
  OBVIOUS
<1>1. ASSUME NEW s \in Slots, Check(s) PROVE AuthInv'
  BY <1>1 DEF AuthInv, TypeOK, LockFollowsCount, RefillInv, Check, Goto
<1>2. ASSUME NEW s \in Slots, Authenticate(s) PROVE AuthInv'
  BY <1>2 DEF AuthInv, TypeOK, LockFollowsCount, RefillInv, Authenticate, Goto
<1>3. CASE UNCHANGED vars
  BY <1>3 DEF AuthInv, TypeOK, LockFollowsCount, RefillInv, vars
<1> QED
  BY <1>1, <1>2, <1>3, RecordKeeps, TakeTokenKeeps, CleanupKeeps, TickKeeps DEF Next

LEMMA AuthAlways == Spec => []AuthInv
BY AuthInit, AuthNext, PTL DEF Spec

-----------------------------------------------------------------------------
(* Every variable keeps its type; counts and tokens stay in their ranges.  *)
THEOREM TypeCorrect == Spec => []TypeOK
<1>1. AuthInv => TypeOK
  BY DEF AuthInv
<1> QED BY <1>1, AuthAlways, PTL

(* An address is locked out exactly for reaching the threshold.            *)
THEOREM LockoutFollowsThreshold == Spec => []LockFollowsCount
<1>1. AuthInv => LockFollowsCount
  BY DEF AuthInv
<1> QED BY <1>1, AuthAlways, PTL

(* The clean-up forgets no limiter that has not refilled.                  *)
THEOREM CleanupGivesNothing == Spec => ForgottenLimiterWasFull
<1>1. ASSUME AuthInv, [Next]_vars, NEW ip \in IPs,
             limiters[ip] # None, limiters'[ip] = None
      PROVE  limiters[ip].tokens = Burst
  <2> DEFINE b == limiters[ip].tokens
             i == limiters[ip].idle
  <2>1. b \in 0..Burst /\ i \in Nat /\ (b = Burst \/ b >= Refill * i)
    BY <1>1, AgesFacts DEF AuthInv, TypeOK, Limiter, RefillInv
  <2>2. i > EntryTTL
    <3>1. ASSUME NEW s \in Slots, TakeToken(s) PROVE FALSE
      BY <1>1, <3>1, TokenFacts, Parameters, NoneIsNoEntry
         DEF AuthInv, TypeOK, TakeToken
    <3>2. CASE Tick
      <4>1. limiters'[ip] =
              [tokens |-> IF b + Refill > Burst THEN Burst ELSE b + Refill,
               idle |-> Older(i)]
        BY <1>1, <3>2 DEF Tick
      <4>2. limiters'[ip] \in Limiter
        BY <1>1, <2>1, <4>1, AgesFacts, Parameters DEF AuthInv, TypeOK, Limiter
      <4> QED BY <1>1, <4>2, NoneIsNoEntry
    <3>3. CASE Cleanup
      BY <1>1, <3>3 DEF Cleanup
    <3>4. limiters' # limiters
      BY <1>1
    <3> QED
      BY <1>1, <3>1, <3>2, <3>3, <3>4
         DEF Next, Check, Authenticate, Record, vars
  <2>3. Refill * i >= Refill * EntryTTL
    BY <2>1, <2>2, Parameters
  <2> QED
    BY <2>1, <2>3, Parameters
<1>2. AuthInv /\ [Next]_vars =>
        [ \A ip \in IPs :
            limiters[ip] # None /\ limiters'[ip] = None
              => limiters[ip].tokens = Burst ]_vars
  BY <1>1
<1> QED BY <1>2, AuthAlways, PTL DEF Spec, ForgottenLimiterWasFull

(* A block runs its course.                                                *)
THEOREM BlocksRunTheirCourse == Spec => BlockRunsItsCourse
<1>1. ASSUME AuthInv, [Next]_vars, NEW ip \in IPs, Blocked(ip)
      PROVE  /\ failures'[ip] # None
             /\ LockedOut(failures[ip]) =>
                  failures'[ip].left \in {failures[ip].left, failures[ip].left - 1}
  <2> DEFINE t == failures[ip]
  <2>1. t # None /\ Sound(t)
    BY <1>1 DEF AuthInv, TypeOK, LockFollowsCount, Blocked, Sound
  <2>2. CASE UNCHANGED failures
    BY <2>1, <2>2
  <2>3. ASSUME NEW s \in Slots, Record(s)
        PROVE  /\ failures'[ip] # None
               /\ LockedOut(failures[ip]) =>
                    failures'[ip].left \in {failures[ip].left, failures[ip].left - 1}
    <3>1. failures' = [failures EXCEPT
            ![IPOf[s]] = Recorded(IF failures[IPOf[s]] = None THEN Fresh ELSE failures[IPOf[s]])]
      BY <2>3 DEF Record, RecordFailure
    <3>2. Recorded(t) \in Tracker /\ (LockedOut(t) => Recorded(t) = t)
      BY <2>1, RecordedFacts DEF Sound
    <3>3. failures'[ip] = t \/ failures'[ip] = Recorded(t)
      BY <1>1, <2>1, <3>1 DEF AuthInv, TypeOK
    <3> QED
      BY <2>1, <3>2, <3>3, NoneIsNoEntry
  <2>4. CASE Cleanup
    <3>1. ~(t.left < 0 /\ t.last > EntryTTL)
      <4>1. /\ t \in Tracker /\ t.last \in Nat /\ t.left \in Int
            /\ BackoffDelay(t) \in Int /\ BackoffDelay(t) <= EntryTTL
        BY <2>1, DelayBounded, AgesFacts, Parameters DEF Sound, Tracker, Unset
      <4>2. t.left > 0 \/ t.last < BackoffDelay(t)
        BY <1>1 DEF Blocked, LockedOut
      <4> QED BY <4>1, <4>2, Parameters
    <3> QED BY <2>1, <2>4, <3>1 DEF Cleanup
  <2>5. CASE Tick
    <3>1. failures'[ip] = Aged(t)
      BY <2>1, <2>5 DEF Tick, Aged
    <3> QED
      BY <2>1, <3>1, AgedFacts, NoneIsNoEntry DEF Sound
  <2> QED
    BY <1>1, <2>2, <2>3, <2>4, <2>5
       DEF Next, Check, Authenticate, TakeToken, vars
<1>2. AuthInv /\ [Next]_vars =>
        [ \A ip \in IPs :
            Blocked(ip) =>
              /\ failures'[ip] # None
              /\ LockedOut(failures[ip]) =>
                   failures'[ip].left \in {failures[ip].left, failures[ip].left - 1}
        ]_vars
  BY <1>1
<1> QED BY <1>2, AuthAlways, PTL DEF Spec, BlockRunsItsCourse
=============================================================================
