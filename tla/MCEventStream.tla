---------------------------- MODULE MCEventStream ----------------------------
(* Instances of EventStream for TLC.                                        *)
EXTENDS EventStream

CONSTANTS d1, d2
=============================================================================
