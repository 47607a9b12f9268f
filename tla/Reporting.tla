----------------------------- MODULE Reporting -----------------------------
(***************************************************************************)
(* The metrics of the agent: the collector and its cache                   *)
(* (internal/metrics/collector.go:15-114), read and filled without a lock  *)
(* by the handlers of GET /metrics and by the senders of the reporter      *)
(* (internal/reporter/reporter.go), which the reporter's loop starts one   *)
(* per tick whether or not the last one has ended.                         *)
(*                                                                         *)
(* Time is discrete and relative: what matters of a moment is how long ago *)
(* it was, up to where the code stops telling ages apart.  Nothing bounds  *)
(* the length of a behaviour.                                              *)
(***************************************************************************)
EXTENDS Naturals, FiniteSets

CONSTANTS
  Handlers,      \* requests for the metrics, one after the other on each
  Senders,       \* goroutines that run sendMetrics; enough to overlap
  TTL,           \* cacheTTL (10 s)
  Interval,      \* of the reporter's ticker (60 s)
  SendTimeout,   \* of the context of sendMetrics (30 s)
  MaxCollect,    \* bound: how long the system calls of a collection take
  MaxPause,      \* bound: how long a goroutine that can run is not run
  None           \* stands for "no value yet"

ASSUME ReportingAssumption ==
  /\ Handlers \cap Senders = {}
  /\ {SendTimeout, MaxCollect, MaxPause} \subseteq Nat
  /\ {TTL, Interval} \subseteq Nat \ {0}
  /\ None \notin Nat

(* A send has time for its collection and is over before the next tick.    *)
ASSUME SendsFit ==
  /\ 2 * MaxPause + MaxCollect <= SendTimeout
  /\ SendTimeout + 2 * MaxPause < Interval

VARIABLES
  up,         \* the process has not panicked
  idValid,    \* SERVER_ID has the format of a UUID
  loop,       \* the reporter's loop: "off", "running" or "stopped"
  stopCh,     \* stopChan is closed
  phase,      \* time since the ticker last fired
  ticked,     \* None, or how long a tick has been in the ticker's channel
  cache,      \* age of the snapshot in the cache, or None
  cacheAge,   \* how long ago cacheTime was set, or None
  at,         \* step of each handler and sender
  taken,      \* age of the snapshot it collects
  idle,       \* how long it has been at its step
  due         \* age of each sender's context

process == <<up, idValid>>
ticker  == <<loop, stopCh, phase, ticked>>
shared  == <<cache, cacheAge>>
own     == <<at, taken, idle, due>>
vars    == <<process, ticker, shared, own>>

Getters == Handlers \cup Senders

(* How old a snapshot may be when it is served from the cache.             *)
Bound == TTL + MaxCollect + 2 * MaxPause

(* Ages that no step tells apart any more are one.                         *)
Cap(n, top) == IF n < top THEN n ELSE top
Older(age, top) == IF age = None THEN None ELSE Cap(age + 1, top)

Ages(top) == 0..top
MaxDue == SendTimeout + MaxPause + 1

TypeOK ==
  /\ up \in BOOLEAN /\ idValid \in BOOLEAN /\ stopCh \in BOOLEAN
  /\ loop \in {"off", "running", "stopped"}
  /\ phase \in 0..Interval - 1
  /\ ticked \in Ages(MaxPause) \cup {None}
  /\ cache \in Ages(Bound) \cup {None}
  /\ cacheAge \in Ages(TTL) \cup {None}
  /\ at \in [Getters -> {"idle", "new", "check", "hit", "collect", "store", "post"}]
  /\ taken \in [Getters -> Ages(MaxCollect + MaxPause)]
  /\ idle \in [Getters -> Ages(MaxCollect + MaxPause)]
  /\ due \in [Senders -> Ages(MaxDue)]

Init ==
  /\ up = TRUE /\ idValid \in BOOLEAN
  /\ loop = "off" /\ stopCh = FALSE /\ phase = 0 /\ ticked = None
  /\ cache = None /\ cacheAge = None
  /\ at = [g \in Getters |-> "idle"]
  /\ taken = [g \in Getters |-> 0]
  /\ idle = [g \in Getters |-> 0]
  /\ due = [s \in Senders |-> 0]

-----------------------------------------------------------------------------
Goto(g, step) ==
  /\ at' = [at EXCEPT ![g] = step]
  /\ idle' = [idle EXCEPT ![g] = 0]

(* GetMetrics returns: a handler answers, a sender posts what it got.      *)
Returns(g) == Goto(g, IF g \in Senders THEN "post" ELSE "idle")

Collects(g) ==
  /\ Goto(g, "collect")
  /\ taken' = [taken EXCEPT ![g] = 0]

Active(s) == at[s] # "idle"

(* Planted bugs, as in PeerAllocation: not part of Next.                   *)
CheckTimeSlides(g) ==            \* every hit makes the cache live longer
  /\ at[g] = "check"
  /\ IF cacheAge # None /\ cacheAge < TTL
     THEN Goto(g, "hit") /\ cacheAge' = 0 /\ UNCHANGED taken
     ELSE Collects(g) /\ UNCHANGED cacheAge
  /\ UNCHANGED <<process, ticker, cache, due>>
ExpiredNever(s) == FALSE         \* context.Background() without a timeout
SpawnOnce(s) ==                  \* only the first send is started
  /\ at[s] = "idle"
  /\ IF loop = "off" THEN Goto(s, "new") ELSE UNCHANGED <<at, idle>>
  /\ due' = [due EXCEPT ![s] = 0]
  /\ UNCHANGED taken
LoopTicksLeaving ==              \* the tick that is taken ends the loop
  /\ loop = "running" /\ ticked # None
  /\ loop' = "left" /\ ticked' = None
  /\ UNCHANGED <<process, stopCh, phase, shared, own>>

-----------------------------------------------------------------------------
(* The collector.                                                          *)

(* GetMetrics reads c.cache.                                               *)
ReadCache(g) ==
  /\ IF cache # None THEN Goto(g, "check") /\ UNCHANGED taken ELSE Collects(g)
  /\ UNCHANGED <<process, ticker, shared, due>>

Ask(h) == at[h] = "idle" /\ ReadCache(h)

(* It looks at c.cacheTime, which another one may set meanwhile.           *)
CheckTime(g) ==
  /\ at[g] = "check"
  /\ IF cacheAge # None /\ cacheAge < TTL
     THEN Goto(g, "hit") /\ UNCHANGED taken
     ELSE Collects(g)
  /\ UNCHANGED <<process, ticker, shared, due>>

(* It reads c.cache again, to return what is there by now.                 *)
ServeCache(g) ==
  /\ at[g] = "hit"
  /\ Returns(g)
  /\ UNCHANGED <<process, ticker, shared, taken, due>>

(* The system calls fail, or the request or context is cancelled.          *)
CollectFails(g) ==
  /\ at[g] = "collect"
  /\ Goto(g, "idle")
  /\ UNCHANGED <<process, ticker, shared, taken, due>>

(* c.cache = metrics: over whatever another one collected meanwhile.       *)
StoreCache(g) ==
  /\ at[g] = "collect"
  /\ cache' = taken[g]
  /\ Goto(g, "store")
  /\ UNCHANGED <<process, ticker, cacheAge, taken, due>>

(* c.cacheTime = time.Now().                                               *)
StoreTime(g) ==
  /\ at[g] = "store"
  /\ cacheAge' = 0
  /\ Returns(g)
  /\ UNCHANGED <<process, ticker, cache, taken, due>>

-----------------------------------------------------------------------------
(* The reporter.                                                           *)

(* go r.sendMetrics()                                                      *)
Spawn(s) ==
  /\ at[s] = "idle"
  /\ Goto(s, "new")
  /\ due' = [due EXCEPT ![s] = 0]
  /\ UNCHANGED taken

LoopStarts ==
  /\ loop = "off"
  /\ loop' = "running" /\ phase' = 0
  /\ \E s \in Senders : Spawn(s)
  /\ UNCHANGED <<process, stopCh, ticked, shared>>

LoopTicks ==
  /\ loop = "running" /\ ticked # None
  /\ ticked' = None
  /\ \E s \in Senders : Spawn(s)
  /\ UNCHANGED <<process, loop, stopCh, phase, shared>>

LoopStops ==
  /\ loop = "running" /\ stopCh
  /\ loop' = "stopped" /\ ticked' = None
  /\ UNCHANGED <<process, stopCh, phase, shared, own>>

(* main stops the reporter on its way out.                                 *)
Stop ==
  /\ ~stopCh
  /\ stopCh' = TRUE
  /\ UNCHANGED <<process, loop, phase, ticked, shared, own>>

(* With a server id the sender asks for the metrics.                       *)
SenderGets(s) == at[s] = "new" /\ idValid /\ ReadCache(s)

(* Without one it registers first: NewRegistrarFromValues leaves cfg nil,  *)
(* GetLocation reads cfg.GeoIPEnabled, and nobody recovers the panic.      *)
Register(s) ==
  /\ at[s] = "new"
  /\ ~idValid
  /\ up' = FALSE
  /\ UNCHANGED <<idValid, ticker, shared, own>>

(* The answer, an error, or the end of the context: with its retries the   *)
(* exchange lasts no longer than the context.                              *)
PostEnds(s) ==
  /\ at[s] = "post"
  /\ Goto(s, "idle")
  /\ UNCHANGED <<process, ticker, shared, taken, due>>

Expired(s) == due[s] >= SendTimeout

-----------------------------------------------------------------------------
(* Time passes.  A goroutine is held up at a step for MaxPause at most, a  *)
(* collection takes MaxCollect, and an exchange ends with its context.     *)
MayWait(g) ==
  CASE at[g] = "idle"    -> TRUE
    [] at[g] = "collect" -> taken[g] < MaxCollect
    [] at[g] = "post"    -> ~Expired(g) \/ due[g] < SendTimeout + MaxPause
    [] OTHER             -> idle[g] < MaxPause

Tick ==
  /\ \A g \in Getters : MayWait(g)
  /\ ticked # None => ticked < MaxPause
  /\ IF loop = "running"
     THEN /\ phase' = (phase + 1) % Interval
          /\ ticked' = IF phase' = 0 /\ ticked = None THEN 0
                       ELSE Older(ticked, MaxPause)
     ELSE UNCHANGED <<phase, ticked>>
  /\ cache' = Older(cache, Bound)
  /\ cacheAge' = Older(cacheAge, TTL)
  /\ taken' = [g \in Getters |-> IF at[g] \in {"collect", "store"}
                                 THEN taken[g] + 1 ELSE 0]
  /\ idle' = [g \in Getters |-> IF at[g] \in {"idle", "collect", "post"}
                                THEN 0 ELSE idle[g] + 1]
  /\ due' = [s \in Senders |-> IF Active(s) THEN Cap(due[s] + 1, MaxDue) ELSE 0]
  /\ UNCHANGED <<process, loop, stopCh, at>>

GetterStep(g) ==
  \/ CheckTime(g) \/ ServeCache(g)
  \/ CollectFails(g) \/ StoreCache(g) \/ StoreTime(g)

SenderStep(s) == SenderGets(s) \/ Register(s) \/ PostEnds(s)
LoopStep      == LoopStarts \/ LoopTicks \/ LoopStops

Next ==
  /\ up
  /\ \/ \E h \in Handlers : Ask(h)
     \/ \E g \in Getters : GetterStep(g)
     \/ \E s \in Senders : SenderStep(s)
     \/ LoopStep \/ Stop \/ Tick

Spec == Init /\ [][Next]_vars

(* Go runs every goroutine, and its select does not avoid a ready case for *)
(* ever; time passes; collections do not fail for ever.                    *)
FairSpec ==
  /\ Spec
  /\ WF_vars(up /\ Tick)
  /\ \A g \in Getters : WF_vars(up /\ GetterStep(g))
  /\ SF_vars(up /\ \E s \in Senders : StoreCache(s))
  /\ \A s \in Senders : WF_vars(up /\ SenderStep(s))
  /\ WF_vars(up /\ (LoopStarts \/ LoopTicks)) /\ SF_vars(up /\ LoopStops)

-----------------------------------------------------------------------------
(* What GetMetrics serves from its cache is a snapshot, and one that was   *)
(* begun less than the TTL, a collection and two pauses ago, though a slow *)
(* collection may replace a newer snapshot, cache and cacheTime may be of  *)
(* different collections, and the snapshot that is returned need not be    *)
(* the one whose time was looked at (collector.go:37-41, 110-111).         *)
ServedIsFresh ==
  [][\A g \in Getters :
       at[g] = "hit" /\ at'[g] # "hit"
         => cache # None /\ cache < Bound]_vars

(* The senders do not pile up: a tick finds the last one ended, because a  *)
(* send lives no longer than its context, which is shorter than the        *)
(* interval (reporter.go:56-65, 80-81).                                    *)
SendsDoNotOverlap == \A s, t \in Senders : Active(s) /\ Active(t) => s = t

(* While the loop runs, metrics are posted again and again                 *)
(* (reporter.go:60-65).                                                    *)
ReportsRepeat ==
  (idValid /\ loop = "running") ~> (stopCh \/ \E s \in Senders : at[s] = "post")
=============================================================================
