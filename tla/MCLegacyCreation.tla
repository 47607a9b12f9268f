-------------------------- MODULE MCLegacyCreation --------------------------
(* Instances of LegacyCreation for TLC: two requests to one process and    *)
(* one to another, over two addresses.                                     *)
EXTENDS LegacyCreation, TLC

CONSTANTS r1, r2, r3, p1, p2

MCReqs   == {r1, r2, r3}
MCProcs  == {p1, p2}
MCProcOf == r1 :> p1 @@ r2 :> p1 @@ r3 :> p2
=============================================================================
