----------------------------- MODULE MCSchedules -----------------------------
(* Instances of Schedules for TLC.                                          *)
EXTENDS Schedules

CONSTANTS t1, t2, t3, heater, filter, lamp, bubbles
=============================================================================
