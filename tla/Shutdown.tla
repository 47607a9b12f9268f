------------------------------ MODULE Shutdown ------------------------------
(***************************************************************************)
(* How the agent process starts and ends (cmd/agent/main.go:118-175,       *)
(* internal/api/server.go:165-199, internal/vpn/reconciliation.go:64-95):  *)
(* the main goroutine, the goroutine that serves HTTP, the one Start       *)
(* spawns to watch for signals, the reconciliation loop and the handlers.  *)
(* A signal goes to every channel registered for it and kills the process  *)
(* when there is none.  The reporter's goroutine is left out: Stop closes  *)
(* its channel and waits for nothing.                                      *)
(***************************************************************************)
EXTENDS Naturals

CONSTANTS
  Requests,    \* HTTP requests
  MaxSignals   \* bound: SIGINT and SIGTERM sent to the process

ASSUME ShutdownAssumption == MaxSignals \in Nat

VARIABLES
  main,      \* the main goroutine
  serve,     \* the goroutine that runs Server.Start
  watch,     \* the goroutine Start spawns
  loop,      \* the reconciliation loop; "nil" when there is none
  stopCh,    \* the loop's stopCh is closed
  closing,   \* http.Server.Shutdown has been called: the listener is closed
  late,      \* the calls of Shutdown whose ten seconds are over
  running,   \* requests with a handler under way
  served,    \* requests that were answered
  inbox,     \* goroutines with a signal in their channel
  signals,   \* signals sent so far
  exit       \* "no", or how the process ended

goroutines == <<main, serve, watch, loop>>
http       == <<closing, late, running, served>>
vars == <<goroutines, stopCh, http, inbox, signals, exit>>

TypeOK ==
  /\ main \in {"boot", "spawned", "wait", "loop", "server", "draining", "done"}
  /\ serve \in {"off", "starting", "assigned", "serving", "returned"}
  /\ watch \in {"off", "spawned", "watching", "draining", "done"}
  /\ loop \in {"nil", "running", "waiting", "stopped"}
  /\ stopCh \in BOOLEAN /\ closing \in BOOLEAN
  /\ late \subseteq {"main", "watch"} /\ inbox \subseteq {"main", "watch"}
  /\ running \subseteq Requests /\ served \subseteq Requests
  /\ signals \in 0..MaxSignals
  /\ exit \in {"no", "ok", "fatal", "panic", "killed"}

(* With or without DB-first allocation, so with or without a loop.         *)
Init ==
  /\ main = "boot" /\ serve = "off" /\ watch = "off"
  /\ loop \in {"nil", "running"}
  /\ stopCh = FALSE
  /\ closing = FALSE /\ late = {} /\ running = {} /\ served = {}
  /\ inbox = {} /\ signals = 0
  /\ exit = "no"

-----------------------------------------------------------------------------
Alive     == exit = "no"
Drained(g) == running = {} \/ g \in late      \* Shutdown's call returns

(* Planted bugs, as in PeerAllocation: not part of Next.                   *)
WakesWithoutClose ==                     \* Stop waits but closes nothing
  /\ Alive /\ main = "wait" /\ "main" \in inbox
  /\ inbox' = inbox \ {"main"}
  /\ main' = IF loop = "nil" THEN "server" ELSE "loop"
  /\ UNCHANGED <<serve, watch, loop, stopCh, http, signals, exit>>
JoinsWithoutWait ==                      \* Stop does not wait
  /\ Alive /\ main = "loop"
  /\ main' = "server"
  /\ UNCHANGED <<serve, watch, loop, stopCh, http, inbox, signals, exit>>
DrainedAtOnce ==                         \* Close instead of Shutdown
  /\ Alive /\ main = "draining"
  /\ main' = "done"
  /\ UNCHANGED <<serve, watch, loop, stopCh, http, inbox, signals, exit>>
LoopForgets ==                           \* the entry is cleared
  /\ Alive /\ loop = "waiting" /\ stopCh
  /\ loop' = "off"
  /\ UNCHANGED <<main, serve, watch, stopCh, http, inbox, signals, exit>>

(* The main goroutine.                                                     *)
MainSpawns ==                            \* go server.Start
  /\ Alive /\ main = "boot"
  /\ main' = "spawned" /\ serve' = "starting"
  /\ UNCHANGED <<watch, loop, stopCh, http, inbox, signals, exit>>
MainNotify ==                            \* signal.Notify
  /\ Alive /\ main = "spawned"
  /\ main' = "wait"
  /\ UNCHANGED <<serve, watch, loop, stopCh, http, inbox, signals, exit>>
MainWakes ==                             \* <-sigChan; reconcileLoop.Stop
  /\ Alive /\ main = "wait" /\ "main" \in inbox
  /\ inbox' = inbox \ {"main"}
  /\ IF loop = "nil" THEN main' = "server" /\ UNCHANGED stopCh
                     ELSE main' = "loop"   /\ stopCh' = TRUE
  /\ UNCHANGED <<serve, watch, loop, http, signals, exit>>
MainJoinsLoop ==                         \* wg.Wait; LogShutdown, reporter.Stop
  /\ Alive /\ main = "loop" /\ loop = "stopped"
  /\ main' = "server"
  /\ UNCHANGED <<serve, watch, loop, stopCh, http, inbox, signals, exit>>
MainStopsServer ==                       \* server.Stop
  /\ Alive /\ main = "server"
  /\ serve \notin {"off", "starting"}
  /\ main' = "draining" /\ closing' = TRUE
  /\ UNCHANGED <<serve, watch, loop, stopCh, late, running, served, inbox,
                 signals, exit>>
MainPanics ==                            \* s.httpServer is, or is seen as, nil
  /\ Alive /\ main = "server"
  /\ serve \in {"off", "starting", "assigned"}
  /\ exit' = "panic"
  /\ UNCHANGED <<goroutines, stopCh, http, inbox, signals>>
MainDrained ==
  /\ Alive /\ main = "draining" /\ Drained("main")
  /\ main' = "done"
  /\ UNCHANGED <<serve, watch, loop, stopCh, http, inbox, signals, exit>>
MainReturns ==
  /\ Alive /\ main = "done"
  /\ exit' = "ok"
  /\ UNCHANGED <<goroutines, stopCh, http, inbox, signals>>

-----------------------------------------------------------------------------
(* The goroutine that serves.  ListenAndServe returns ErrServerClosed as   *)
(* soon as Shutdown is called, or another error when it cannot listen, and *)
(* either is fatal.                                                        *)
ServeAssigns ==
  /\ Alive /\ serve = "starting"
  /\ serve' = "assigned" /\ watch' = "spawned"
  /\ UNCHANGED <<main, loop, stopCh, http, inbox, signals, exit>>
ServeListens ==
  /\ Alive /\ serve = "assigned"
  /\ \/ serve' = "returned"
     \/ ~closing /\ serve' = "serving"
  /\ UNCHANGED <<main, watch, loop, stopCh, http, inbox, signals, exit>>
ServeReturns ==
  /\ Alive /\ serve = "serving" /\ closing
  /\ serve' = "returned"
  /\ UNCHANGED <<main, watch, loop, stopCh, http, inbox, signals, exit>>
ServeFatal ==                            \* log.Fatalf
  /\ Alive /\ serve = "returned"
  /\ exit' = "fatal"
  /\ UNCHANGED <<goroutines, stopCh, http, inbox, signals>>

(* The goroutine that watches for signals on its own.                      *)
WatchNotify ==
  /\ Alive /\ watch = "spawned"
  /\ watch' = "watching"
  /\ UNCHANGED <<main, serve, loop, stopCh, http, inbox, signals, exit>>
WatchWakes ==
  /\ Alive /\ watch = "watching" /\ "watch" \in inbox
  /\ inbox' = inbox \ {"watch"}
  /\ watch' = "draining" /\ closing' = TRUE
  /\ UNCHANGED <<main, serve, loop, stopCh, late, running, served, signals, exit>>
WatchDrained ==
  /\ Alive /\ watch = "draining" /\ Drained("watch")
  /\ watch' = "done"
  /\ UNCHANGED <<main, serve, loop, stopCh, http, inbox, signals, exit>>

(* The reconciliation loop: one reconciliation after another, until the    *)
(* select takes the closed channel.                                        *)
LoopWaits ==
  /\ Alive /\ loop = "running"
  /\ loop' = "waiting"
  /\ UNCHANGED <<main, serve, watch, stopCh, http, inbox, signals, exit>>
LoopTicks ==
  /\ Alive /\ loop = "waiting"
  /\ loop' = "running"
  /\ UNCHANGED <<main, serve, watch, stopCh, http, inbox, signals, exit>>
LoopStops ==
  /\ Alive /\ loop = "waiting" /\ stopCh
  /\ loop' = "stopped"
  /\ UNCHANGED <<main, serve, watch, stopCh, http, inbox, signals, exit>>
-----------------------------------------------------------------------------
(* net/http and the operating system.                                      *)
Accept(r) ==
  /\ Alive /\ serve = "serving" /\ ~closing
  /\ r \notin running \cup served
  /\ running' = running \cup {r}
  /\ UNCHANGED <<goroutines, stopCh, closing, late, served, inbox, signals, exit>>
Answer(r) ==
  /\ Alive /\ r \in running
  /\ running' = running \ {r} /\ served' = served \cup {r}
  /\ UNCHANGED <<goroutines, stopCh, closing, late, inbox, signals, exit>>
TenSeconds(g) ==
  /\ Alive
  /\ IF g = "main" THEN main = "draining" ELSE watch = "draining"
  /\ late' = late \cup {g}
  /\ UNCHANGED <<goroutines, stopCh, closing, running, served, inbox, signals,
                 exit>>
Signal ==
  LET registered == (IF main \in {"boot", "spawned"} THEN {} ELSE {"main"}) \cup
                    (IF watch \in {"off", "spawned"} THEN {} ELSE {"watch"})
  IN  /\ Alive /\ signals < MaxSignals
      /\ signals' = signals + 1
      /\ inbox' = inbox \cup registered
      /\ exit' = IF registered = {} THEN "killed" ELSE exit
      /\ UNCHANGED <<goroutines, stopCh, http>>

MainStep  == \/ MainSpawns \/ MainNotify \/ MainWakes \/ MainJoinsLoop
             \/ MainStopsServer \/ MainPanics \/ MainDrained \/ MainReturns
ServeStep == ServeAssigns \/ ServeListens \/ ServeReturns \/ ServeFatal
WatchStep == WatchNotify \/ WatchWakes \/ WatchDrained
LoopStep  == LoopWaits \/ LoopTicks \/ LoopStops
OtherStep == \/ \E r \in Requests : Accept(r) \/ Answer(r)
             \/ \E g \in {"main", "watch"} : TenSeconds(g)
             \/ Signal

Next == MainStep \/ ServeStep \/ WatchStep \/ LoopStep \/ OtherStep

Spec == Init /\ [][Next]_vars

(* Go runs every goroutine, its select does not avoid a ready case for     *)
(* ever, a reconciliation ends, and timers fire.  A handler may take as    *)
(* long as it likes.                                                       *)
FairSpec ==
  /\ Spec
  /\ WF_vars(MainStep) /\ WF_vars(ServeStep) /\ WF_vars(WatchStep)
  /\ WF_vars(LoopWaits) /\ SF_vars(LoopStops)
  /\ \A g \in {"main", "watch"} : WF_vars(TenSeconds(g))

-----------------------------------------------------------------------------
(* Once Stop of the loop has returned, no reconciliation is under way or   *)
(* starts (reconciliation.go:70-75, main.go:157-160).                      *)
LoopQuietAfterStop ==
  main \in {"server", "draining", "done"} => loop \in {"nil", "stopped"}

(* The process ends well only when every handler has, or when the ten      *)
(* seconds of server.Stop are over (server.go:195-199, main.go:170-175).   *)
OkMeansDrained == exit = "ok" => running = {} \/ "main" \in late

(* Whatever the signal interrupts (the start, a reconciliation, a handler  *)
(* that hangs, another shutdown), the process ends.                        *)
SignalEnds == signals > 0 ~> ~Alive

(* The shutdown is graceful ("Graceful shutdown", server.go:175): unless   *)
(* the ten seconds are over, no handler is cut off.                        *)
HandlersFinish ==
  exit # "no" /\ closing => running = {} \/ late # {}
=============================================================================
