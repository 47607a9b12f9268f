---------------------------- MODULE MCHostFiles ----------------------------
(* Two calls in one process and one in the process that replaces it; one   *)
(* of each gets as far as its write.                                       *)
EXTENDS HostFiles, TLC

CONSTANTS c1, c2, c3, p1, p2

MCCalls   == {c1, c2, c3}
MCProcs   == {p1, p2}
MCProcOf  == c1 :> p1 @@ c2 :> p1 @@ c3 :> p2
MCWriters == {c1, c3}
=============================================================================
