----------------------------- MODULE MCCommands -----------------------------
(* Instances of Commands for TLC.                                          *)
EXTENDS Commands, TLC

CONSTANTS c1, c2, c3, d1, d2

Symmetric == Permutations({c1, c2, c3}) \cup Permutations({d1, d2})

\* Two switches.
PowerRequests == [device : {d1, d2}, action : {"SET_POWER"}, param : {On}]
PowerBoot == [f \in {"SET_POWER"} |-> Off]
AllCapabilities ==
    [d \in {d1, d2} |-> {ACTION_SPECS[a].capability : a \in Action} \cup {"UNLOCK"}]
NoRanges == [d \in {d1, d2} |-> {}]

\* A door lock d1 and a pool d2 with a verified range of 20 to 40 degrees; the
\* requests lie on both sides of every check of submit.
HouseRequests ==
    {[device |-> d1, action |-> "SET_LOCK_STATE", param |-> p] :
        p \in {LOCKED, UNLOCKED, LOCK_UNKNOWN}}
    \cup {[device |-> d2, action |-> "SET_TARGET_TEMPERATURE", param |-> p] :
            p \in {1999, 2000, 4001, 6001}}
    \cup [device : {d1, d2}, action : {"SET_HEATER"}, param : {On}]
    \cup [device : {d2}, action : {"SET_HEATER"}, param : {Off}]
HouseBoot == [f \in {r.action : r \in HouseRequests} |->
                CASE f = "SET_LOCK_STATE" -> LOCKED
                  [] f = "SET_TARGET_TEMPERATURE" -> 3000
                  [] f = "SET_HEATER" -> Off]
HouseCapabilities ==
    [d \in {d1, d2} |-> IF d = d1 THEN {"LOCK", "UNLOCK", "UNLATCH"}
                                  ELSE {"TARGET_TEMPERATURE", "HEATING"}]
HouseRanges == [d \in {d1, d2} |-> IF d = d2 THEN 2000..4000 ELSE {}]
=============================================================================
