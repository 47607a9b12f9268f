----------------------------- MODULE MCShutdown -----------------------------
(* Instances of Shutdown for TLC: two requests.                            *)
EXTENDS Shutdown, TLC

CONSTANTS q1, q2

MCRequests == {q1, q2}
MCSymmetry == Permutations(MCRequests)
=============================================================================
