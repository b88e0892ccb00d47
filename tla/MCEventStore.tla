---------------------------- MODULE MCEventStore ----------------------------
(* Model values for checking EventStore with TLC.                           *)
EXTENDS EventStore

CONSTANTS a, b, g1, g2

OneEvent == {a}
TwoEvents == {a, b}
TwoEngines == {g1, g2}
=============================================================================
