---------------------------- MODULE CommandPolicy ----------------------------
(***************************************************************************)
(* The pure part of the command pipeline: the table of actions, their      *)
(* parameter schemas, risk classes and required capabilities               *)
(* (commands/models.py, commands/policy.py) and the comparison of an       *)
(* observed state with a request (commands/reconcile.py).                  *)
(*                                                                         *)
(* Every parameter and every state field is an integer: booleans and       *)
(* enumerations are numbered below, temperatures are hundredths of a       *)
(* degree Celsius.                                                         *)
(***************************************************************************)
EXTENDS Integers

\* Numbering of the boolean and enumerated parameter and state values.
On == 1
Off == 0
PLAY == 1
PAUSE == 0
PLAYING == 10
PAUSED == 11
IDLE == 12
LOCKED == 1
UNLOCKED == 0
LOCK_UNKNOWN == 2

\* A state field the adapter does not report (None).
NotReported == -1

\* Rounding to the nearest integer, halves to the even one, as Python's round.
RoundDiv(a, b) ==
    LET q == a \div b
        r == a % b
    IN  IF 2 * r > b \/ (2 * r = b /\ q % 2 = 1) THEN q + 1 ELSE q

OnOffActions == {"SET_POWER", "SET_HEATER", "SET_FILTER", "SET_BUBBLES",
                 "SET_CONTROL_PANEL_LOCK"}

Action == OnOffActions \cup
          {"SET_BRIGHTNESS", "SET_VOLUME", "SET_PLAYBACK",
           "SET_TARGET_TEMPERATURE", "SET_LOCK_STATE", "UNLATCH"}

RiskClass == {"LOW", "MEDIUM", "HIGH"}

\* What each parameter model accepts; anything else is InvalidParametersError.
ParamsModel(action) ==
    CASE action \in OnOffActions                  -> {Off, On}
      [] action \in {"SET_BRIGHTNESS", "SET_VOLUME"} -> 0..100
      [] action = "SET_PLAYBACK"                  -> {PAUSE, PLAY}
      [] action = "SET_TARGET_TEMPERATURE"        -> 0..6000
      [] action = "SET_LOCK_STATE"                -> {UNLOCKED, LOCKED}
      [] OTHER                                    -> {0}

\* ACTION_SPECS: capability and base risk of every action.
ACTION_SPECS ==
    [a \in Action |->
        CASE a = "SET_POWER"      -> [capability |-> "POWER", risk |-> "LOW"]
          [] a = "SET_BRIGHTNESS" -> [capability |-> "BRIGHTNESS", risk |-> "LOW"]
          [] a = "SET_VOLUME"     -> [capability |-> "VOLUME", risk |-> "LOW"]
          [] a = "SET_PLAYBACK"   -> [capability |-> "MEDIA_PLAYBACK", risk |-> "LOW"]
          [] a = "SET_TARGET_TEMPERATURE" ->
                [capability |-> "TARGET_TEMPERATURE", risk |-> "MEDIUM"]
          [] a = "SET_HEATER"     -> [capability |-> "HEATING", risk |-> "MEDIUM"]
          [] a = "SET_FILTER"     -> [capability |-> "FILTER", risk |-> "MEDIUM"]
          [] a = "SET_BUBBLES"    -> [capability |-> "BUBBLES", risk |-> "MEDIUM"]
          [] a = "SET_CONTROL_PANEL_LOCK" ->
                [capability |-> "CONTROL_PANEL_LOCK", risk |-> "MEDIUM"]
          [] a = "SET_LOCK_STATE" -> [capability |-> "LOCK", risk |-> "MEDIUM"]
          [] OTHER                -> [capability |-> "UNLATCH", risk |-> "HIGH"]]

\* Slip: the parameter is ignored and only the table's base risk is used.
classify_base_only(action, param) == ACTION_SPECS[action].risk

classify(action, param) ==
    IF action = "SET_LOCK_STATE"
    THEN IF param = UNLOCKED THEN "HIGH" ELSE "MEDIUM"
    ELSE ACTION_SPECS[action].risk

required_capability_for(action, param) ==
    IF action = "SET_LOCK_STATE" /\ param = UNLOCKED
    THEN "UNLOCK"
    ELSE ACTION_SPECS[action].capability

\* The value of the action's own state field that satisfies the request.
Expected(action, param) ==
    IF action = "SET_PLAYBACK"
    THEN IF param = PLAY THEN PLAYING ELSE PAUSED
    ELSE param

\* _TEMPERATURE_EPSILON_C, 0.05 degrees.
TemperatureEpsilon == 5

\* desired_matches: "TRUE", "FALSE", or "NONE" when the state cannot tell.
\* seen is the state field the action is about.
desired_matches(action, param, seen) ==
    IF action = "UNLATCH" \/ seen = NotReported THEN "NONE"
    ELSE LET close == IF action = "SET_TARGET_TEMPERATURE"
                      THEN /\ seen - param <= TemperatureEpsilon
                           /\ param - seen <= TemperatureEpsilon
                      ELSE seen = Expected(action, param)
         IN  IF close THEN "TRUE" ELSE "FALSE"
=============================================================================
