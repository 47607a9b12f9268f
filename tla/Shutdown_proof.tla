--------------------------- MODULE Shutdown_proof ---------------------------
(***************************************************************************)
(* Proofs about Shutdown, for any set of requests and any number of        *)
(* signals.                                                                *)
(***************************************************************************)
EXTENDS Shutdown, TLAPS

(* The loop is told to stop before it is waited for, and stays quiet.      *)
QuietInv ==
  /\ main = "loop" => stopCh
  /\ LoopQuietAfterStop

(* Once the listener of main's Shutdown is closed no handler starts, so    *)
(* what has been drained stays drained.                                    *)
DrainInv ==
  /\ main \in {"draining", "done"} => closing
  /\ main = "done" \/ exit = "ok" => running = {} \/ "main" \in late
  /\ exit = "ok" => main = "done"

StopInv == TypeOK /\ QuietInv /\ DrainInv

LEMMA StopInit == Init => StopInv
<1> SUFFICES ASSUME Init PROVE StopInv
  OBVIOUS
<1>1. TypeOK
  <2>1. signals \in 0..MaxSignals
    BY ShutdownAssumption DEF Init
  <2>2. loop \in {"nil", "running", "waiting", "stopped"}
    BY DEF Init
  <2>3. QED
    BY <2>1, <2>2 DEF Init, TypeOK
<1>2. QuietInv /\ DrainInv
  BY DEF Init, QuietInv, LoopQuietAfterStop, DrainInv
<1>3. QED
  BY <1>1, <1>2 DEF StopInv

LEMMA StopNext == StopInv /\ [Next]_vars => StopInv'
<1> SUFFICES ASSUME StopInv, [Next]_vars PROVE StopInv'
  OBVIOUS
<1> USE ShutdownAssumption
    DEF StopInv, TypeOK, QuietInv, LoopQuietAfterStop, DrainInv, Alive,
        goroutines, http
<1>1. CASE MainStep
  <2>1. CASE MainSpawns
    BY <2>1 DEF MainSpawns
  <2>2. CASE MainNotify
    BY <2>2 DEF MainNotify
  <2>3. CASE MainWakes
    BY <2>3 DEF MainWakes
  <2>4. CASE MainJoinsLoop
    BY <2>4 DEF MainJoinsLoop
  <2>5. CASE MainStopsServer
    BY <2>5 DEF MainStopsServer
  <2>6. CASE MainPanics
    BY <2>6 DEF MainPanics
  <2>7. CASE MainDrained
    BY <2>7 DEF MainDrained, Drained
  <2>8. CASE MainReturns
    BY <2>8 DEF MainReturns
  <2>9. QED
    BY <1>1, <2>1, <2>2, <2>3, <2>4, <2>5, <2>6, <2>7, <2>8 DEF MainStep
<1>2. CASE ServeStep
  <2>1. CASE ServeAssigns
    BY <2>1 DEF ServeAssigns
  <2>2. CASE ServeListens
    BY <2>2 DEF ServeListens
  <2>3. CASE ServeReturns
    BY <2>3 DEF ServeReturns
  <2>4. CASE ServeFatal
    BY <2>4 DEF ServeFatal
  <2>5. QED
    BY <1>2, <2>1, <2>2, <2>3, <2>4 DEF ServeStep
<1>3. CASE WatchStep
  <2>1. CASE WatchNotify
    BY <2>1 DEF WatchNotify
  <2>2. CASE WatchWakes
    BY <2>2 DEF WatchWakes
  <2>3. CASE WatchDrained
    BY <2>3 DEF WatchDrained
  <2>4. QED
    BY <1>3, <2>1, <2>2, <2>3 DEF WatchStep
<1>4. CASE LoopStep
  <2>1. CASE LoopWaits
    BY <2>1 DEF LoopWaits
  <2>2. CASE LoopTicks
    BY <2>2 DEF LoopTicks
  <2>3. CASE LoopStops
    BY <2>3 DEF LoopStops
  <2>4. QED
    BY <1>4, <2>1, <2>2, <2>3 DEF LoopStep
<1>5. CASE OtherStep
  <2>1. ASSUME NEW r \in Requests, Accept(r) PROVE StopInv'
    BY <2>1 DEF Accept
  <2>2. ASSUME NEW r \in Requests, Answer(r) PROVE StopInv'
    BY <2>2 DEF Answer
  <2>3. ASSUME NEW g \in {"main", "watch"}, TenSeconds(g) PROVE StopInv'
    BY <2>3 DEF TenSeconds
  <2>4. CASE Signal
    BY <2>4 DEF Signal
  <2>5. QED
    BY <1>5, <2>1, <2>2, <2>3, <2>4 DEF OtherStep
<1>6. CASE UNCHANGED vars
  BY <1>6 DEF vars
<1>7. QED
  BY <1>1, <1>2, <1>3, <1>4, <1>5, <1>6 DEF Next

(* TypeOK: the goroutines of the process go only where the code sends      *)
(* them.                                                                   *)
THEOREM ShutdownTypeCorrect == Spec => []TypeOK
<1>1. StopInv => TypeOK
  BY DEF StopInv
<1>2. QED
  BY <1>1, StopInit, StopNext, PTL DEF Spec

(* LoopQuietAfterStop: when Stop of the loop has returned, no              *)
(* reconciliation is under way or starts (reconciliation.go:70-75).        *)
THEOREM LoopStaysQuiet == Spec => []LoopQuietAfterStop
<1>1. StopInv => LoopQuietAfterStop
  BY DEF StopInv, QuietInv
<1>2. QED
  BY <1>1, StopInit, StopNext, PTL DEF Spec

(* OkMeansDrained: the process ends well only when every handler has ended *)
(* or the ten seconds are over (server.go:195-199).                        *)
THEOREM GoodEndIsDrained == Spec => []OkMeansDrained
<1>1. StopInv => OkMeansDrained
  BY DEF StopInv, DrainInv, OkMeansDrained
<1>2. QED
  BY <1>1, StopInit, StopNext, PTL DEF Spec
=============================================================================
