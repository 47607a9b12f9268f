-------------------------- MODULE Reporting_proof --------------------------
(***************************************************************************)
(* Proofs about Reporting, for any handlers and senders and any durations  *)
(* of which SendsFit holds.                                                *)
(***************************************************************************)
EXTENDS Reporting, TLAPS

(* No goroutine stays longer at a step than it may.                        *)
WaitInv ==
  \A g \in Getters :
    /\ idle[g] <= MaxPause
    /\ at[g] = "collect" => taken[g] <= MaxCollect
    /\ at[g] = "store"   => taken[g] <= MaxCollect + idle[g]

(* The snapshot in the cache was begun at most a collection before it was  *)
(* stored, and cacheTime set at most a pause later; a newer cacheTime may  *)
(* belong to an older snapshot, but no older than that.  Who has seen a    *)
(* valid time and has yet to read the snapshot finds one that is older by  *)
(* the time it was held up, or a newer one.                                *)
Checked == TTL + MaxCollect + MaxPause

CacheInv ==
  /\ cacheAge # None => cache # None
  /\ cacheAge # None /\ cacheAge < TTL
       => cache <= cacheAge + MaxCollect + MaxPause
  /\ \A g \in Getters :
       /\ at[g] = "check" => cache # None
       /\ at[g] = "hit"   => cache # None /\ cache < Checked + idle[g]
       /\ at[g] = "store" => cache # None /\ cache <= MaxCollect + idle[g]

(* How long a send has been under way when it gets to a step.              *)
LifeInv ==
  \A s \in Senders :
    /\ at[s] = "new"     => due[s] <= idle[s]
    /\ at[s] = "check"   => due[s] <= MaxPause + idle[s]
    /\ at[s] = "hit"     => due[s] <= 2 * MaxPause + idle[s]
    /\ at[s] = "collect" => due[s] <= 2 * MaxPause + taken[s]
    /\ at[s] = "store"   => due[s] <= 2 * MaxPause + MaxCollect + idle[s]
    /\ at[s] = "post"    => due[s] <= SendTimeout + MaxPause

(* A send is younger than the last tick but for a pause, and a tick that   *)
(* waits to be taken finds no send under way.                              *)
TickInv ==
  /\ loop = "off" => \A s \in Senders : ~Active(s)
  /\ loop # "running" => ticked = None
  /\ ticked # None => phase = ticked /\ \A s \in Senders : ~Active(s)
  /\ loop = "running" =>
       \A s \in Senders : Active(s) => phase <= due[s] + MaxPause

SendInv == LifeInv /\ TickInv /\ SendsDoNotOverlap

ReportInv == TypeOK /\ WaitInv /\ CacheInv /\ SendInv

LEMMA Durations ==
  /\ SendTimeout \in Nat /\ MaxCollect \in Nat /\ MaxPause \in Nat
  /\ TTL \in Nat \ {0} /\ Interval \in Nat \ {0} /\ None \notin Nat
  /\ Handlers \cap Senders = {}
  /\ 2 * MaxPause + MaxCollect <= SendTimeout
  /\ SendTimeout + 2 * MaxPause < Interval
BY ReportingAssumption, SendsFit

LEMMA ReportInit == Init => ReportInv
<1> SUFFICES ASSUME Init PROVE ReportInv
  OBVIOUS
<1> USE Durations DEF Init
<1>1. TypeOK
  <2>1. 0 \in Ages(MaxCollect + MaxPause) /\ 0 \in Ages(MaxDue) /\ 0 \in 0..Interval - 1
    BY DEF Ages, MaxDue
  <2>2. QED
    BY <2>1 DEF TypeOK
<1>2. WaitInv /\ CacheInv
  BY DEF WaitInv, CacheInv
<1>3. SendInv
  BY DEF SendInv, LifeInv, TickInv, SendsDoNotOverlap, Active, Getters
<1>4. QED
  BY <1>1, <1>2, <1>3 DEF ReportInv

(* What a getter does at one instant.                                      *)
LEMMA GetterKeeps ==
  ASSUME ReportInv,
         NEW g \in Getters,
         \/ g \in Handlers /\ Ask(g)
         \/ g \in Senders /\ (SenderGets(g) \/ PostEnds(g))
         \/ GetterStep(g)
  PROVE  ReportInv'
<1> USE Durations
    DEF ReportInv, TypeOK, WaitInv, CacheInv, SendInv, LifeInv, TickInv,
        SendsDoNotOverlap, Active, Getters, Ages, Goto, Returns, Collects,
        ReadCache, process, ticker, shared, own
<1>1. CASE g \in Handlers /\ Ask(g)
  BY <1>1 DEF Ask
<1>2. CASE g \in Senders /\ SenderGets(g)
  BY <1>2 DEF SenderGets
<1>3. CASE g \in Senders /\ PostEnds(g)
  BY <1>3 DEF PostEnds
<1>4. CASE CheckTime(g)
  BY <1>4 DEF CheckTime, Checked
<1>5. CASE ServeCache(g)
  BY <1>5 DEF ServeCache
<1>6. CASE CollectFails(g)
  BY <1>6 DEF CollectFails
<1>7. CASE StoreCache(g)
  BY <1>7 DEF StoreCache, Bound, Checked
<1>8. CASE StoreTime(g)
  BY <1>8 DEF StoreTime
<1>9. QED
  BY <1>1, <1>2, <1>3, <1>4, <1>5, <1>6, <1>7, <1>8 DEF GetterStep

(* The reporter's loop, and the end of the process.                        *)
LEMMA LoopKeeps ==
  ASSUME ReportInv, LoopStep \/ Stop \/ \E s \in Senders : Register(s)
  PROVE  ReportInv'
<1> USE Durations
    DEF ReportInv, TypeOK, WaitInv, CacheInv, SendInv, LifeInv, TickInv,
        SendsDoNotOverlap, Active, Getters, Ages, Goto, process, ticker,
        shared, own
<1>1. ASSUME NEW s \in Senders, Spawn(s), UNCHANGED <<process, shared>>,
             \/ loop = "off" /\ phase' = 0 /\ UNCHANGED ticked
             \/ ticked # None /\ ticked' = None /\ UNCHANGED phase,
             loop' = "running", UNCHANGED stopCh
      PROVE  ReportInv'
  <2>1. TypeOK'
    <3>1. s \in Getters /\ 0 \in Ages(MaxCollect + MaxPause) /\ 0 \in Ages(MaxDue)
      BY DEF MaxDue
    <3>2. phase' \in 0..Interval - 1 /\ ticked' \in Ages(MaxPause) \cup {None}
      BY <1>1
    <3>3. /\ at' = [at EXCEPT ![s] = "new"] /\ idle' = [idle EXCEPT ![s] = 0]
          /\ due' = [due EXCEPT ![s] = 0] /\ taken' = taken
      BY <1>1 DEF Spawn
    <3>4. UNCHANGED <<up, idValid, stopCh, cache, cacheAge>> /\ loop' = "running"
      BY <1>1
    <3> HIDE DEF Ages, Getters
    <3>5. QED
      BY <3>1, <3>2, <3>3, <3>4
  <2>2. WaitInv' /\ CacheInv' /\ LifeInv'
    BY <1>1 DEF Spawn
  <2>3. \A t \in Senders \ {s} : ~Active(t) /\ at'[t] = at[t]
    BY <1>1 DEF Spawn
  <2>4. phase' <= MaxPause /\ due'[s] = 0 /\ ticked' = None
    BY <1>1 DEF Spawn
  <2>5. TickInv' /\ SendsDoNotOverlap'
    BY <1>1, <2>3, <2>4
  <2>6. QED
    BY <2>1, <2>2, <2>5
<1>2. CASE LoopStarts
  BY <1>1, <1>2 DEF LoopStarts
<1>3. CASE LoopTicks
  BY <1>1, <1>3 DEF LoopTicks
<1>4. CASE LoopStops
  BY <1>4 DEF LoopStops
<1>5. CASE Stop
  BY <1>5 DEF Stop
<1>6. CASE \E s \in Senders : Register(s)
  <2>1. up' \in BOOLEAN /\ UNCHANGED <<idValid, ticker, shared, own>>
    BY <1>6 DEF Register
  <2>2. QED
    BY <2>1
<1>7. QED
  BY <1>2, <1>3, <1>4, <1>5, <1>6 DEF LoopStep

-----------------------------------------------------------------------------
(* Time passes.                                                            *)
LEMMA CapFacts ==
  ASSUME NEW n \in Nat, NEW top \in Nat
  PROVE  Cap(n, top) \in Ages(top) /\ Cap(n, top) <= n
BY DEF Cap, Ages

LEMMA OlderFacts ==
  ASSUME NEW top \in Nat, NEW age \in Ages(top) \cup {None}
  PROVE  /\ Older(age, top) \in Ages(top) \cup {None}
         /\ Older(age, top) = None <=> age = None
         /\ age # None => Older(age, top) <= age + 1
         /\ age # None /\ age < top => Older(age, top) = age + 1
BY CapFacts, Durations DEF Older, Ages, Cap

LEMMA PhaseFacts ==
  ASSUME NEW n \in 0..Interval - 1
  PROVE  (n + 1) % Interval = IF n = Interval - 1 THEN 0 ELSE n + 1
BY Durations

(* The ages of what the goroutines share.                                  *)
LEMMA SharedAges ==
  ASSUME ReportInv, Tick
  PROVE  /\ cache' \in Ages(Bound) \cup {None} /\ cacheAge' \in Ages(TTL) \cup {None}
         /\ cache # None => cache' # None /\ cache' <= cache + 1
         /\ cache # None => cache \in Nat /\ cache' \in Nat
         /\ cacheAge' # None => cacheAge # None
         /\ cacheAge' # None /\ cacheAge' < TTL =>
              cacheAge \in Nat /\ cacheAge < TTL /\ cacheAge' = cacheAge + 1
<1>1. /\ Bound \in Nat /\ TTL \in Nat
      /\ cache \in Ages(Bound) \cup {None} /\ cacheAge \in Ages(TTL) \cup {None}
      /\ cache' = Older(cache, Bound) /\ cacheAge' = Older(cacheAge, TTL)
  BY Durations DEF ReportInv, TypeOK, Tick, Bound
<1>2. /\ cache' \in Ages(Bound) \cup {None} /\ cacheAge' \in Ages(TTL) \cup {None}
      /\ cache # None => cache' # None /\ cache' <= cache + 1
      /\ cacheAge' # None => cacheAge # None
  BY <1>1, OlderFacts
<1>3. ASSUME cacheAge' # None, cacheAge' < TTL
      PROVE  cacheAge \in Nat /\ cacheAge < TTL /\ cacheAge' = cacheAge + 1
  <2>1. cacheAge \in Ages(TTL) /\ cacheAge # None
    BY <1>1, <1>2, <1>3
  <2>2. cacheAge' = Cap(cacheAge + 1, TTL)
    BY <1>1, <2>1 DEF Older
  <2>3. QED
    BY <1>1, <1>3, <2>1, <2>2 DEF Cap, Ages
<1>4. cache # None => cache \in Nat /\ cache' \in Nat
  BY <1>1, <1>2 DEF Ages
<1>5. QED
  BY <1>2, <1>3, <1>4

(* The ages of a goroutine: none is held up for longer than it may be.     *)
LEMMA OwnAges ==
  ASSUME ReportInv, Tick, NEW g \in Getters
  PROVE  /\ taken'[g] = IF at[g] \in {"collect", "store"} THEN taken[g] + 1 ELSE 0
         /\ idle'[g] = IF at[g] \in {"idle", "collect", "post"} THEN 0 ELSE idle[g] + 1
         /\ at[g] \notin {"idle", "collect", "post"} => idle[g] < MaxPause
         /\ at[g] = "collect" => taken[g] < MaxCollect
         /\ taken[g] \in Nat /\ idle[g] \in Nat /\ at'[g] = at[g]
BY DEF Tick, MayWait, ReportInv, TypeOK, Ages

(* The ages of a send: time passes for it only while it is not overdue.    *)
LEMMA SendAges ==
  ASSUME ReportInv, Tick, NEW s \in Senders, Active(s)
  PROVE  /\ due[s] \in Nat /\ due[s] < SendTimeout + MaxPause
         /\ due'[s] = due[s] + 1
<1> USE Durations
<1>1. s \in Getters /\ due[s] \in Nat /\ idle[s] \in Nat /\ taken[s] \in Nat
  BY DEF Getters, ReportInv, TypeOK, Ages
<1>2. due[s] < SendTimeout + MaxPause
  <2>1. CASE at[s] = "post"
    BY <1>1, <2>1 DEF Tick, MayWait, Expired
  <2>2. CASE at[s] = "collect"
    <3>1. due[s] <= 2 * MaxPause + taken[s] /\ taken[s] < MaxCollect
      BY <1>1, <2>2, OwnAges DEF ReportInv, SendInv, LifeInv
    <3>2. QED
      BY <1>1, <3>1
  <2>3. CASE at[s] \in {"new", "check", "hit", "store"}
    <3>1. idle[s] < MaxPause
      BY <1>1, <2>3, OwnAges
    <3>2. due[s] <= 2 * MaxPause + MaxCollect + idle[s]
      BY <1>1, <2>3 DEF ReportInv, SendInv, LifeInv
    <3>3. QED
      BY <1>1, <3>1, <3>2
  <2>4. at[s] \in {"new", "check", "hit", "collect", "store", "post"}
    BY <1>1 DEF ReportInv, TypeOK, Active
  <2>5. QED
    BY <2>1, <2>2, <2>3, <2>4
<1>3. due'[s] = Cap(due[s] + 1, MaxDue)
  BY DEF Tick
<1>4. QED
  BY <1>1, <1>2, <1>3 DEF Cap, MaxDue

LEMMA TickKeeps ==
  ASSUME ReportInv, Tick
  PROVE  ReportInv'
<1> USE Durations
<1>1. /\ UNCHANGED <<up, idValid, loop, stopCh, at>>
      /\ \A s \in Senders : s \in Getters /\ Active(s)' = Active(s)
  BY DEF Tick, process, Getters, Active
<1>2. WaitInv'
  BY <1>1, OwnAges DEF WaitInv, ReportInv
<1>3. CacheInv'
  <2>1. ASSUME NEW g \in Getters, at[g] = "check" PROVE cache' # None
    BY <2>1, SharedAges DEF CacheInv, ReportInv
  <2>2. ASSUME NEW g \in Getters, at[g] = "store"
        PROVE  cache' # None /\ cache' <= MaxCollect + idle'[g]
    <3>1. cache # None /\ cache <= MaxCollect + idle[g]
      BY <2>2 DEF CacheInv, ReportInv
    <3>2. idle[g] \in Nat /\ idle'[g] = idle[g] + 1
      BY <2>2, OwnAges
    <3>3. cache' # None /\ cache \in Nat /\ cache' \in Nat /\ cache' <= cache + 1
      BY <3>1, SharedAges
    <3>4. QED
      BY <3>1, <3>2, <3>3
  <2>5. ASSUME NEW g \in Getters, at[g] = "hit"
        PROVE  cache' # None /\ cache' < Checked + idle'[g]
    <3>1. cache # None /\ cache < Checked + idle[g]
      BY <2>5 DEF CacheInv, ReportInv
    <3>2. idle[g] \in Nat /\ idle'[g] = idle[g] + 1 /\ Checked \in Nat
      BY <2>5, OwnAges DEF Checked
    <3>3. cache' # None /\ cache \in Nat /\ cache' \in Nat /\ cache' <= cache + 1
      BY <3>1, SharedAges
    <3>4. QED
      BY <3>1, <3>2, <3>3
  <2>3. cacheAge' # None => cache' # None
    BY SharedAges DEF CacheInv, ReportInv
  <2>4. ASSUME cacheAge' # None, cacheAge' < TTL
        PROVE  cache' <= cacheAge' + MaxCollect + MaxPause
    <3>1. cacheAge \in Nat /\ cacheAge # None /\ cacheAge < TTL
          /\ cacheAge' = cacheAge + 1
      BY <2>4, SharedAges
    <3>2. cache # None /\ cache <= cacheAge + MaxCollect + MaxPause
      BY <3>1 DEF CacheInv, ReportInv
    <3>3. cache \in Nat /\ cache' \in Nat /\ cache' <= cache + 1
      BY <3>2, SharedAges
    <3>4. QED
      BY <3>1, <3>2, <3>3
  <2>6. QED
    BY <1>1, <2>1, <2>2, <2>3, <2>4, <2>5 DEF CacheInv
<1>4. LifeInv'
  BY <1>1, OwnAges, SendAges DEF LifeInv, ReportInv, SendInv, Active
<1>5. TickInv'
  <2>1. CASE loop # "running"
    BY <1>1, <2>1 DEF Tick, TickInv, ReportInv, SendInv
  <2>2. CASE loop = "running" /\ ticked # None
    <3>1. ticked \in Nat /\ phase = ticked /\ ticked < MaxPause
      BY <2>2 DEF Tick, TickInv, ReportInv, SendInv, TypeOK, Ages
    <3>2. phase' = phase + 1 /\ phase' # 0
      BY <2>2, <3>1, PhaseFacts DEF Tick
    <3>3. ticked' = Older(ticked, MaxPause)
      BY <2>2, <3>2 DEF Tick
    <3>4. ticked' = ticked + 1
      BY <3>1, <3>3 DEF Older, Cap
    <3>5. QED
      BY <1>1, <2>2, <3>1, <3>2, <3>4 DEF TickInv, ReportInv, SendInv
  <2>3. CASE loop = "running" /\ ticked = None
    <3>1. phase \in 0..Interval - 1
      BY DEF ReportInv, TypeOK
    <3>2. \A s \in Senders : Active(s) => phase <= due[s] + MaxPause
      BY <2>3 DEF TickInv, ReportInv, SendInv
    <3>3. CASE phase = Interval - 1
      <4>1. \A s \in Senders : ~Active(s)
        <5>1. SUFFICES ASSUME NEW s \in Senders, Active(s) PROVE FALSE
          OBVIOUS
        <5>2. due[s] \in Nat /\ due[s] < SendTimeout + MaxPause
          BY <5>1, SendAges
        <5>3. Interval - 1 <= due[s] + MaxPause
          BY <3>2, <3>3, <5>1
        <5>4. QED
          BY <5>2, <5>3
      <4>2. phase' = 0 /\ ticked' = 0
        BY <2>3, <3>1, <3>3, PhaseFacts DEF Tick
      <4>3. QED
        BY <1>1, <2>3, <4>1, <4>2 DEF TickInv
    <3>4. CASE phase # Interval - 1
      <4>1. phase' = phase + 1 /\ phase' # 0
        BY <2>3, <3>1, <3>4, PhaseFacts DEF Tick
      <4>2. ticked' = None
        BY <2>3, <4>1 DEF Tick, Older
      <4>3. \A s \in Senders : Active(s)' => phase' <= due'[s] + MaxPause
        BY <1>1, <3>1, <3>2, <4>1, SendAges
      <4>4. QED
        BY <1>1, <2>3, <4>2, <4>3 DEF TickInv
    <3>5. QED
      BY <3>3, <3>4
  <2>4. QED
    BY <2>1, <2>2, <2>3
<1>6. SendsDoNotOverlap'
  BY <1>1 DEF SendsDoNotOverlap, ReportInv, SendInv
<1>7. TypeOK'
  <2>1. phase' \in 0..Interval - 1
    BY PhaseFacts DEF Tick, ReportInv, TypeOK
  <2>2. ticked' \in Ages(MaxPause) \cup {None}
    BY OlderFacts DEF Tick, ReportInv, TypeOK, Ages
  <2>3. /\ taken' \in [Getters -> Ages(MaxCollect + MaxPause)]
        /\ idle' \in [Getters -> Ages(MaxCollect + MaxPause)]
    <3>1. \A g \in Getters :
            /\ taken'[g] \in Nat /\ taken'[g] <= MaxCollect + MaxPause
            /\ idle'[g] \in Nat /\ idle'[g] <= MaxCollect + MaxPause
      BY OwnAges DEF ReportInv, WaitInv
    <3>2. QED
      BY <3>1 DEF Tick, Ages
  <2>4. due' \in [Senders -> Ages(MaxDue)]
    <3>1. \A s \in Senders : due[s] \in Nat /\ 0 \in Ages(MaxDue) /\ MaxDue \in Nat
      BY DEF ReportInv, TypeOK, Ages, MaxDue
    <3>2. QED
      BY <3>1, CapFacts DEF Tick
  <2>5. QED
    BY <1>1, <2>1, <2>2, <2>3, <2>4, SharedAges DEF ReportInv, TypeOK
<1>8. QED
  BY <1>2, <1>3, <1>4, <1>5, <1>6, <1>7 DEF ReportInv, SendInv

-----------------------------------------------------------------------------
LEMMA ReportNext == ReportInv /\ [Next]_vars => ReportInv'
<1> SUFFICES ASSUME ReportInv, [Next]_vars PROVE ReportInv'
  OBVIOUS
<1>1. CASE UNCHANGED vars
  BY <1>1 DEF vars, process, ticker, shared, own, ReportInv, TypeOK, WaitInv,
              CacheInv, SendInv, LifeInv, TickInv, SendsDoNotOverlap, Active
<1>2. ASSUME NEW s \in Senders, SenderStep(s) PROVE ReportInv'
  BY <1>2, GetterKeeps, LoopKeeps DEF SenderStep, Getters
<1>3. ASSUME NEW h \in Handlers, Ask(h) PROVE ReportInv'
  BY <1>3, GetterKeeps DEF Getters
<1>4. QED
  BY <1>1, <1>2, <1>3, GetterKeeps, LoopKeeps, TickKeeps DEF Next

LEMMA ReportInvariant == Spec => []ReportInv
BY ReportInit, ReportNext, PTL DEF Spec

(* TypeOK: the ages stay within their caps, for any durations.             *)
THEOREM ReportingTypeCorrect == Spec => []TypeOK
<1>1. ReportInv => TypeOK
  BY DEF ReportInv
<1>2. QED
  BY <1>1, ReportInvariant, PTL

(* SendsDoNotOverlap: a goroutine per tick does not pile up, because a     *)
(* send's context is shorter than the interval.                            *)
THEOREM SendersApart == Spec => []SendsDoNotOverlap
<1>1. ReportInv => SendsDoNotOverlap
  BY DEF ReportInv, SendInv
<1>2. QED
  BY <1>1, ReportInvariant, PTL

(* ServedIsFresh: though cache and cacheTime are set and looked at one     *)
(* after the other and without a lock, what is served was begun less than  *)
(* the TTL, a collection and two pauses ago.                               *)
THEOREM ServedWithinBound == Spec => ServedIsFresh
<1>1. ASSUME ReportInv, NEW g \in Getters, at[g] = "hit"
      PROVE  cache # None /\ cache < Bound
  <2>1. cache # None /\ cache < Checked + idle[g]
    BY <1>1 DEF ReportInv, CacheInv
  <2>2. cache \in Nat /\ idle[g] \in Nat /\ idle[g] <= MaxPause
    BY <1>1, <2>1 DEF ReportInv, TypeOK, WaitInv, Ages
  <2>3. QED
    BY <2>1, <2>2, Durations DEF Bound, Checked
<1>2. ReportInv /\ [Next]_vars =>
        [\A g \in Getters :
           at[g] = "hit" /\ at'[g] # "hit"
             => cache # None /\ cache < Bound]_vars
  BY <1>1
<1>3. QED
  BY <1>2, ReportInvariant, PTL DEF Spec, ServedIsFresh
=============================================================================
