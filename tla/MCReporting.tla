---------------------------- MODULE MCReporting ----------------------------
(* A handler that is asked again and again and two senders; the unit of    *)
(* time is five seconds.                                                   *)
EXTENDS Reporting

CONSTANTS h1, s1, s2

MCHandlers == {h1}
MCSenders  == {s1, s2}
=============================================================================
