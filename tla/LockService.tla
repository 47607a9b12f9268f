---------------------------- MODULE LockService ----------------------------
(***************************************************************************)
(* What the lock file promises to createPeerDBFirst: each call enters the  *)
(* critical section at most once, after waiting, and never while another   *)
(* call is in it; a wait may be given up; a dead process leaves.           *)
(***************************************************************************)
CONSTANT Calls

VARIABLE stage   \* "out", "waiting", "in" or "over" for each call

Init == stage = [c \in Calls |-> "out"]

Enter(c) == stage[c] = "out" /\ stage' = [stage EXCEPT ![c] = "waiting"]

Grant(c) ==
  /\ stage[c] = "waiting"
  /\ \A d \in Calls : stage[d] # "in"
  /\ stage' = [stage EXCEPT ![c] = "in"]

Leave(c) == stage[c] # "over" /\ stage' = [stage EXCEPT ![c] = "over"]

Die(dead) == stage' = [c \in Calls |-> IF c \in dead THEN "over" ELSE stage[c]]

Next ==
  \/ \E c \in Calls : Enter(c) \/ Grant(c) \/ Leave(c)
  \/ \E dead \in SUBSET Calls : Die(dead)

Spec == Init /\ [][Next]_stage
=============================================================================
