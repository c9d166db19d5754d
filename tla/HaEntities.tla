----------------------------- MODULE HaEntities -----------------------------
(***************************************************************************)
(* The pure part of the Home Assistant adapter: what an entity becomes     *)
(* (home_assistant/entities.py), and the service call of a command with    *)
(* the comparison of the read-back (home_assistant/provider.py).           *)
(*                                                                         *)
(* An entity is a record [domain, state, attr], where attr is a function   *)
(* from the attributes it has to integers, or to Junk for a value of       *)
(* another type.  Temperatures are hundredths of a degree, volume levels   *)
(* thousandths, brightness is 0-255.  A DeviceState is the function from   *)
(* its reported fields to their values, numbered as in CommandPolicy.      *)
(***************************************************************************)
EXTENDS CommandPolicy, FiniteSets

CONSTANTS Junk,        \* an attribute of the wrong type, NaN or infinite
          NoMapping    \* None, in place of a Mapping

ASSUME JunkIsNoNumber == Junk \notin Int

STOPPED == IDLE
PLAYBACK_UNKNOWN == 13

Has(e, key) == key \in DOMAIN e.attr
\* HaEntity.number: the attribute is there and is a finite number.
IsNumber(e, key) == Has(e, key) /\ e.attr[key] # Junk
\* HaEntity.features, of which features a flag is one bit.
Features(e) == IF IsNumber(e, "supported_features") THEN e.attr["supported_features"] ELSE 0
Flag(e, bit) == (Features(e) \div bit) % 2 = 1

-----------------------------------------------------------------------------
(* Mapping: kind, everything the entity can do, and what of it is writing. *)

NoConstraints == [min |-> Junk, max |-> Junk, step |-> Junk]
Mapping(kind, capabilities, writable, constraints) ==
    [kind |-> kind, capabilities |-> capabilities, writable |-> writable,
     constraints |-> constraints]

If(present, capability) == IF present THEN {capability} ELSE {}

\* "dimmable" stands for a list with a colour mode other than on/off.
LightCapabilities(e) == {"POWER"} \cup If(Has(e, "dimmable"), "BRIGHTNESS")

MediaCapabilities(e) ==
    If(Flag(e, 16384) \/ Flag(e, 1), "MEDIA_PLAYBACK") \cup If(Flag(e, 32), "MEDIA_NEXT")
      \cup If(Flag(e, 16), "MEDIA_PREVIOUS") \cup If(Flag(e, 4), "VOLUME")

ClimateReadings(e) ==
    If(IsNumber(e, "current_temperature"), "CURRENT_TEMPERATURE")
      \cup If(IsNumber(e, "humidity") \/ IsNumber(e, "current_humidity"), "HUMIDITY")

NumberOrNone(e, key) == IF IsNumber(e, key) THEN e.attr[key] ELSE Junk

\* The thermostat's own limits; a missing or zero step is half a degree.
ClimateConstraints(e) ==
    [min |-> NumberOrNone(e, "min_temp"), max |-> NumberOrNone(e, "max_temp"),
     step |-> IF NumberOrNone(e, "target_temp_step") \in {Junk, 0} THEN 50
              ELSE e.attr["target_temp_step"]]

describe(e) ==
    CASE e.domain = "light" ->
            Mapping("LIGHT", LightCapabilities(e), LightCapabilities(e), NoConstraints)
      [] e.domain = "switch" -> Mapping("SWITCH", {"POWER"}, {"POWER"}, NoConstraints)
      [] e.domain = "media_player" ->
            Mapping("MEDIA_PLAYER", MediaCapabilities(e), MediaCapabilities(e), NoConstraints)
      [] e.domain = "lock" -> Mapping("LOCK", {}, {}, NoConstraints)
      [] e.domain = "climate" ->
            LET target == If(IsNumber(e, "temperature"), "TARGET_TEMPERATURE")
            IN  Mapping("THERMOSTAT", ClimateReadings(e) \cup target, target,
                        IF target = {} THEN NoConstraints ELSE ClimateConstraints(e))
      [] e.domain = "sensor" /\ Has(e, "temperature_class") ->
            Mapping("SENSOR", {"CURRENT_TEMPERATURE"}, {}, NoConstraints)
      [] OTHER -> NoMapping

RELEASABLE_DOMAINS == {"light", "switch", "media_player", "climate"}

\* What discovery advertises, given the domains the operator has released.
Advertised(e, released_domains) ==
    LET m == describe(e)
    IN  IF m = NoMapping THEN {}
        ELSE IF e.domain \in released_domains \cap RELEASABLE_DOMAINS THEN m.capabilities
        ELSE m.capabilities \ m.writable

availability(e) ==
    IF e.state = "unavailable" THEN "OFFLINE"
    ELSE IF e.state = "unknown" THEN "UNKNOWN" ELSE "ONLINE"

-----------------------------------------------------------------------------
(* The canonical state of an entity.                                       *)

Truth(b) == IF b THEN On ELSE Off

PlaybackOf(state) ==
    CASE state \in {"playing", "buffering"} -> PLAYING
      [] state = "paused" -> PAUSED
      [] state \in {"idle", "standby", "off"} -> STOPPED
      [] OTHER -> PLAYBACK_UNKNOWN

LockStateOf(state) ==
    IF state = "locked" THEN LOCKED
    ELSE IF state \in {"unlocked", "open"} THEN UNLOCKED ELSE LOCK_UNKNOWN

\* Slip: the fraction is cut off.
CutPercent(brightness) == (brightness * 100) \div 255

\* Percent of a brightness out of 255, and of a level in thousandths.
Percent(brightness) == RoundDiv(brightness * 100, 255)
VolumePercent(level) == RoundDiv(level, 10)

\* An unreported value stays absent.  The kind is the one discovery recorded.
LightState(e) ==
    [f \in {"power"} \cup If(IsNumber(e, "brightness"), "brightness") |->
        IF f = "power" THEN Truth(e.state = "on") ELSE Percent(e.attr["brightness"])]

MediaState(e) ==
    [f \in {"playback"} \cup If(IsNumber(e, "volume_level"), "volume")
             \cup If(IsNumber(e, "media_title"), "program_name") |->
        CASE f = "playback" -> PlaybackOf(e.state)
          [] f = "volume" -> VolumePercent(e.attr["volume_level"])
          [] f = "program_name" -> e.attr["media_title"]]

ClimateState(e) ==
    [f \in If(e.state # "off", "heater")
             \cup If(IsNumber(e, "current_temperature"), "current_temperature_c")
             \cup If(IsNumber(e, "temperature"), "target_temperature_c") |->
        CASE f = "heater" -> Truth(e.state \in {"heat", "heat_cool"})
          [] f = "current_temperature_c" -> e.attr["current_temperature"]
          [] f = "target_temperature_c" -> e.attr["temperature"]]

normalise(e, kind) ==
    IF e.state \in {"unavailable", "unknown"} THEN <<>>
    ELSE CASE kind \in {"LIGHT", "SWITCH"} -> LightState(e)
           [] kind = "MEDIA_PLAYER" -> MediaState(e)
           [] kind = "LOCK" -> [lock_state |-> LockStateOf(e.state)]
           [] kind = "THERMOSTAT" -> ClimateState(e)
           [] kind = "SENSOR" ->
                \* The state is text; "reading" is the number it stands for.
                [f \in If(IsNumber(e, "reading"), "current_temperature_c") |-> e.attr["reading"]]

\* The bounds of DeviceState: outside them the model refuses the value and
\* normalise raises.
InBounds(state) ==
    \A f \in DOMAIN state \cap {"brightness", "volume"} : state[f] \in 0 .. 100

-----------------------------------------------------------------------------
(* The service call of a command, and whether its effect is there.         *)

Service(name, data, expected) == [service |-> name, data |-> data, expected |-> expected]
NoService == Service("none", <<>>, <<>>)

\* HomeAssistantProvider._call_for; NoService is ProviderRejectedError.
CallFor(action, param) ==
    CASE action = "SET_POWER" ->
            Service(IF param = On THEN "turn_on" ELSE "turn_off", <<>>, [power |-> param])
      [] action = "SET_BRIGHTNESS" ->
            IF param = 0 THEN Service("turn_off", <<>>, [power |-> Off])
            ELSE Service("turn_on", [brightness_pct |-> param],
                         [power |-> On, brightness |-> param])
      [] action = "SET_VOLUME" ->
            Service("volume_set", [volume_level |-> param * 10], [volume |-> param])
      [] action = "SET_PLAYBACK" ->
            Service(IF param = PLAY THEN "media_play" ELSE "media_pause", <<>>, <<>>)
      [] action = "SET_TARGET_TEMPERATURE" ->
            Service("set_temperature", [temperature |-> param],
                    [target_temperature_c |-> param])
      [] OTHER -> NoService

Within(a, b, d) == a - b <= d /\ b - a <= d

\* HomeAssistantProvider._matches
Matches(e, kind, expected) ==
    LET seen == normalise(e, kind)
    IN  \A f \in DOMAIN expected :
          /\ f \in DOMAIN seen
          /\ CASE f = "target_temperature_c" -> Within(seen[f], expected[f], 51)
               [] f = "brightness" -> Within(seen[f], expected[f], 1)
               [] OTHER -> seen[f] = expected[f]

=============================================================================
