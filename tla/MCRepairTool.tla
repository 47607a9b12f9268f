---------------------------- MODULE MCRepairTool ----------------------------
(* Two creations of two names over one address, with one reserve each.     *)
EXTENDS RepairTool, TLC

CONSTANTS r1, r3, alice, bob, a1, a3

MCReqs     == {r1, r3}
MCNames    == {alice, bob}
MCNameOf   == r1 :> alice @@ r3 :> bob
MCAttempts == {a1, a3}
MCOf       == a1 :> r1 @@ a3 :> r3
=============================================================================
