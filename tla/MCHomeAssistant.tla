--------------------------- MODULE MCHomeAssistant ---------------------------
(***************************************************************************)
(* Instances of HomeAssistant for TLC: a thermostat with two setpoints.    *)
(***************************************************************************)
EXTENDS HomeAssistant

Thermostat(state, temperature) ==
    [domain |-> "climate", state |-> state, attr |-> [temperature |-> temperature]]
MCEntities ==
    {Thermostat(s, t) : s \in {"heat", "off"}, t \in {2000, 2200}}
       \cup {Thermostat("unavailable", 2000)}
MCRequests == {[action |-> "SET_TARGET_TEMPERATURE", param |-> 2200]}

=============================================================================
