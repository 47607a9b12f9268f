-------------------------- MODULE MCPeerAllocation --------------------------
(* Instances of PeerAllocation for TLC.                                    *)
EXTENDS PeerAllocation, TLC

CONSTANTS r1, r2, r3, alice, bob, i1, i2, a1, a2, a3, b1

MCNames == {alice, bob}

(* r1 and r2 are two creations of the same name (a retry, or a             *)
(* regenerate), r3 one of another name; one attempt each.                  *)
Reqs3     == {r1, r2, r3}
NameOf3   == r1 :> alice @@ r2 :> alice @@ r3 :> bob
Attempts3 == {a1, a2, a3}
Of3       == a1 :> r1 @@ a2 :> r2 @@ a3 :> r3
Swap12    == r1 :> r2 @@ r2 :> r1 @@ a1 :> a2 @@ a2 :> a1
Symmetry3 == Permutations({i1, i2}) \cup {Swap12}

(* Two creations of two names; the first may send a second reserve.        *)
Reqs2      == {r1, r3}
NameOf2    == r1 :> alice @@ r3 :> bob
Attempts12 == {a1, b1, a3}
Of12       == a1 :> r1 @@ b1 :> r1 @@ a3 :> r3
=============================================================================
