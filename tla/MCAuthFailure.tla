--------------------------- MODULE MCAuthFailure ---------------------------
(* Instances of AuthFailure for TLC: three requests of one address.        *)
EXTENDS AuthFailure, TLC

CONSTANTS s1, s2, s3, host

MCSlots    == {s1, s2, s3}
MCIPOf     == [s \in MCSlots |-> host]
MCDelays   == <<1, 1, 2>>
=============================================================================
