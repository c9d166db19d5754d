------------------------- MODULE ConversionsProofs -------------------------
(***************************************************************************)
(* Proofs about the conversions at the edges: whatever a Home Assistant    *)
(* entity is offered for is answered, for every value a command can carry; *)
(* a write to the pool arrives as meant, through the layout, the frame and *)
(* back; a setpoint survives both roundings; a passcode returns as it was; *)
(* and however the pool's stream is cut, its frames arrive once each.      *)
(***************************************************************************)
EXTENDS Conversions, BestwayStream, SequenceTheorems, TLAPS

-----------------------------------------------------------------------------
(* Rounding.                                                               *)

\* A percentage that went to Home Assistant comes back as it was, through the
\* 255 steps of a brightness as well.
LEMMA PercentReturns ==
  ASSUME NEW p \in 0..100
  PROVE  /\ RoundDiv(255 * p, 100) \in 0..255
         /\ Percent(RoundDiv(255 * p, 100)) = p
         /\ VolumePercent(p * 10) = p
  BY DEF Percent, VolumePercent, RoundDiv

\* What Home Assistant documents is within the bounds of DeviceState.
LEMMA PercentBounds ==
  ASSUME NEW b \in 0..255
  PROVE  Percent(b) \in 0..100
  BY DEF Percent, RoundDiv

LEMMA VolumeBounds ==
  ASSUME NEW v \in 0..1000
  PROVE  VolumePercent(v) \in 0..100
  BY DEF VolumePercent, RoundDiv

-----------------------------------------------------------------------------
(* Home Assistant.                                                         *)

GoodEntity(e) ==
    /\ e = [domain |-> e.domain, state |-> e.state, attr |-> e.attr]
    /\ \A key \in DOMAIN e.attr : e.attr[key] \in Int \cup {Junk}

Answered(e, action, param) ==
    LET kind == describe(e).kind
        call == CallFor(action, param)
        after == CarriedOut(e, call)
        state == normalise(after, kind)
        f == StateField(action)
    IN  /\ call # NoService
        /\ WellFormed(e) => InBounds(state)
        /\ InBounds(state) => (Matches(after, kind, call.expected) <=> Known(after))
        /\ f \in DOMAIN state => desired_matches(action, param, state[f]) # "FALSE"

\* Which domains a command can be offered for.
LEMMA OfferedFor ==
  ASSUME NEW e, NEW released, NEW action \in Action, NEW param,
         required_capability_for(action, param) \in Advertised(e, released)
  PROVE  /\ e.domain \in released \ {"lock", "sensor"}
         /\ \/ action = "SET_POWER" /\ e.domain \in {"light", "switch"}
            \/ action = "SET_BRIGHTNESS" /\ e.domain = "light"
            \/ action \in {"SET_VOLUME", "SET_PLAYBACK"} /\ e.domain = "media_player"
            \/ action = "SET_TARGET_TEMPERATURE" /\ e.domain = "climate"
  <1> DEFINE m == describe(e)
             c == required_capability_for(action, param)
  <1>1. c \in m.capabilities /\ m # NoMapping
        /\ (c \in m.writable => e.domain \in released \cap RELEASABLE_DOMAINS)
    BY DEF Advertised
  <1>2. c \in {"POWER", "BRIGHTNESS", "VOLUME", "MEDIA_PLAYBACK", "TARGET_TEMPERATURE", "HEATING",
               "FILTER", "BUBBLES", "CONTROL_PANEL_LOCK", "LOCK", "UNLOCK", "UNLATCH"}
        /\ (c = "POWER" => action = "SET_POWER")
        /\ (c = "BRIGHTNESS" => action = "SET_BRIGHTNESS")
        /\ (c = "VOLUME" => action = "SET_VOLUME")
        /\ (c = "MEDIA_PLAYBACK" => action = "SET_PLAYBACK")
        /\ (c = "TARGET_TEMPERATURE" => action = "SET_TARGET_TEMPERATURE")
    BY DEF required_capability_for, ACTION_SPECS, Action, OnOffActions
  <1> HIDE DEF c
  <1>3. CASE e.domain = "light"
    <2>1. m.writable = m.capabilities /\ m.capabilities \subseteq {"POWER", "BRIGHTNESS"}
      BY <1>3 DEF describe, Mapping, LightCapabilities, If
    <2> QED  BY <1>1, <1>2, <1>3, <2>1
  <1>4. CASE e.domain = "switch"
    <2>1. m.writable = m.capabilities /\ m.capabilities = {"POWER"}
      BY <1>4 DEF describe, Mapping
    <2> QED  BY <1>1, <1>2, <1>4, <2>1
  <1>5. CASE e.domain = "media_player"
    <2>1. m.writable = m.capabilities
          /\ m.capabilities \subseteq {"MEDIA_PLAYBACK", "MEDIA_NEXT", "MEDIA_PREVIOUS", "VOLUME"}
      BY <1>5 DEF describe, Mapping, MediaCapabilities, If
    <2> QED  BY <1>1, <1>2, <1>5, <2>1
  <1>6. CASE e.domain = "climate"
    <2>1. m.writable \subseteq {"TARGET_TEMPERATURE"}
          /\ m.capabilities \subseteq {"CURRENT_TEMPERATURE", "HUMIDITY"} \cup m.writable
      BY <1>6 DEF describe, Mapping, ClimateReadings, If
    <2> QED  BY <1>1, <1>2, <1>6, <2>1
  <1>7. CASE e.domain \notin {"light", "switch", "media_player", "climate"}
    <2>1. m = NoMapping \/ m.capabilities \subseteq {"CURRENT_TEMPERATURE"}
      BY <1>7 DEF describe, Mapping
    <2> QED  BY <1>1, <1>2, <2>1
  <1> QED  BY <1>3, <1>4, <1>5, <1>6, <1>7

USE DEF JunkIsNoNumber

\* What a service call leaves of an entity: one attribute at most is new.
LEMMA OverWith ==
  ASSUME NEW s, NEW t, NEW key
  PROVE  /\ key \in DOMAIN s => key \in DOMAIN Over(s, t) /\ Over(s, t)[key] = s[key]
         /\ key \notin DOMAIN s =>
              /\ key \in DOMAIN Over(s, t) <=> key \in DOMAIN t
              /\ key \in DOMAIN t => Over(s, t)[key] = t[key]
  BY DEF Over

LEMMA AfterCall ==
  ASSUME NEW e, GoodEntity(e), NEW call
  PROVE  LET after == CarriedOut(e, call)
         IN  /\ call.service = "turn_off" =>
                  after.state = "off" /\ after.attr = Over([brightness |-> Junk], e.attr)
             /\ call.service = "turn_on" =>
                  /\ after.state = "on"
                  /\ "brightness_pct" \notin DOMAIN call.data => after.attr = Over(<<>>, e.attr)
                  /\ "brightness_pct" \in DOMAIN call.data =>
                       after.attr = Over([brightness |-> RoundDiv(255 * call.data["brightness_pct"], 100)],
                                         e.attr)
             /\ call.service = "media_play" =>
                  after.state = "playing" /\ after.attr = Over(<<>>, e.attr)
             /\ call.service = "media_pause" =>
                  after.state = "paused" /\ after.attr = Over(<<>>, e.attr)
  <1>1. ASSUME NEW state, NEW attr
        PROVE  LET f == [e EXCEPT !.state = state, !.attr = attr]
               IN  f.state = state /\ f.attr = attr
    BY DEF GoodEntity
  <1> QED  BY <1>1 DEF CarriedOut

LEMMA AfterSetting ==
  ASSUME NEW e, GoodEntity(e), NEW call, call.service \in {"volume_set", "set_temperature"}
  PROVE  CarriedOut(e, call) = [domain |-> e.domain, state |-> e.state,
                                attr |-> Over(call.data, e.attr)]
  BY DEF CarriedOut, GoodEntity

\* A call that sets no attribute leaves what an attribute was.
LEMMA KeptAttributes ==
  ASSUME NEW e, NEW after, NEW s, DOMAIN s = {}, after.attr = Over(s, e.attr), NEW key,
         IsNumber(after, key)
  PROVE  IsNumber(e, key) /\ after.attr[key] = e.attr[key]
  BY OverWith DEF IsNumber, Has

LEMMA PowerAnswered ==
  ASSUME NEW e, GoodEntity(e), e.domain \in {"light", "switch"}, NEW param \in {Off, On}
  PROVE  Answered(e, "SET_POWER", param)
  <1> DEFINE call == CallFor("SET_POWER", param)
             after == CarriedOut(e, call)
             kind == describe(e).kind
  <1>1. kind \in {"LIGHT", "SWITCH"}
    BY DEF describe, Mapping
  <1>2. call.service = (IF param = On THEN "turn_on" ELSE "turn_off") /\ call.data = <<>>
        /\ call.expected = [power |-> param]
    BY DEF CallFor, Service
  <1> HIDE DEF call, kind
  <1>3. /\ after.state = (IF param = On THEN "on" ELSE "off")
        /\ WellFormed(e) /\ IsNumber(after, "brightness") => after.attr["brightness"] \in 0..255
    <2>1. CASE param = On
      <3>1. call.service = "turn_on" /\ "brightness_pct" \notin DOMAIN call.data
        BY <1>2, <2>1
      <3>2. after.state = "on" /\ after.attr = Over(<<>>, e.attr)
        BY <3>1, AfterCall
      <3>3. WellFormed(e) /\ IsNumber(after, "brightness") => after.attr["brightness"] \in 0..255
        <4>1. DOMAIN <<>> = {}
          OBVIOUS
        <4> HIDE DEF after
        <4>2. IsNumber(after, "brightness") =>
                 IsNumber(e, "brightness") /\ after.attr["brightness"] = e.attr["brightness"]
          BY <3>2, <4>1, KeptAttributes, Zenon
        <4> QED  BY <4>2 DEF WellFormed
      <3> QED  BY <2>1, <3>2, <3>3
    <2>2. CASE param = Off
      <3>1. call.service = "turn_off"
        BY <1>2, <2>2 DEF On, Off
      <3>2. after.state = "off" /\ after.attr = Over([brightness |-> Junk], e.attr)
        BY <3>1, AfterCall
      <3> QED  BY <2>2, <3>2, OverWith DEF IsNumber, On, Off
    <2> QED  BY <2>1, <2>2
  <1>4. normalise(after, kind) = LightState(after)
    BY <1>1, <1>3 DEF normalise, On, Off
  <1>5. call # NoService
    BY <1>2 DEF NoService, Service
  <1> HIDE DEF after
  <1>6. LightState(after)["power"] = param /\ "power" \in DOMAIN LightState(after)
    BY <1>3 DEF LightState, Truth, On, Off
  <1>7. WellFormed(e) => InBounds(LightState(after))
    <2>1. ASSUME WellFormed(e), IsNumber(after, "brightness")
          PROVE  LightState(after)["brightness"] \in 0..100
      <3>1. LightState(after)["brightness"] = Percent(after.attr["brightness"])
        BY <2>1 DEF LightState, If
      <3>2. after.attr["brightness"] \in 0..255
        BY <1>3, <2>1
      <3>3. Percent(after.attr["brightness"]) \in 0..100
        BY <3>2, PercentBounds, Zenon
      <3> QED  BY <3>1, <3>3
    <2> QED  BY <2>1 DEF InBounds, LightState, If
  <1>8. Matches(after, kind, call.expected)
    BY <1>2, <1>4, <1>6 DEF Matches
  <1>9. desired_matches("SET_POWER", param, param) # "FALSE"
    BY DEF desired_matches, Expected
  <1>10. Known(after)
    BY <1>3 DEF Known
  <1> QED  BY <1>4, <1>5, <1>6, <1>7, <1>8, <1>9, <1>10
              DEF Answered, StateField, call, after, kind

LEMMA BrightnessAnswered ==
  ASSUME NEW e, GoodEntity(e), e.domain = "light", NEW param \in 0..100
  PROVE  Answered(e, "SET_BRIGHTNESS", param)
  <1> DEFINE call == CallFor("SET_BRIGHTNESS", param)
             after == CarriedOut(e, call)
             kind == describe(e).kind
  <1>1. kind = "LIGHT"
    BY DEF describe, Mapping
  <1>2. CASE param = 0
    <2>1. call.service = "turn_off" /\ call.expected = [power |-> Off]
      BY <1>2 DEF CallFor, Service
    <2>2. after.state = "off" /\ ~IsNumber(after, "brightness")
      <3>1. after.state = "off" /\ after.attr = Over([brightness |-> Junk], e.attr)
        BY <2>1, AfterCall
      <3> QED  BY <3>1, OverWith DEF IsNumber
    <2>3. normalise(after, kind) = LightState(after)
      BY <1>1, <2>2 DEF normalise
    <2>4. call # NoService
      BY <2>1 DEF NoService, Service
    <2> HIDE DEF call, after, kind
    <2>5. DOMAIN LightState(after) = {"power"} /\ LightState(after)["power"] = Off
      BY <2>2 DEF LightState, Truth, If
    <2>6. Matches(after, kind, call.expected)
      BY <2>1, <2>3, <2>5 DEF Matches
    <2>7. Known(after)
      BY <2>2 DEF Known
    <2> QED  BY <2>3, <2>4, <2>5, <2>6, <2>7
                DEF Answered, StateField, InBounds, call, after, kind
  <1>3. CASE param # 0
    <2>1. call.service = "turn_on" /\ call.data = [brightness_pct |-> param]
          /\ call.expected = [power |-> On, brightness |-> param]
      BY <1>3 DEF CallFor, Service
    <2>2. after.state = "on" /\ IsNumber(after, "brightness")
          /\ after.attr["brightness"] = RoundDiv(255 * param, 100)
      <3>1. after.state = "on"
            /\ after.attr = Over([brightness |-> RoundDiv(255 * param, 100)], e.attr)
        BY <2>1, AfterCall
      <3>2. RoundDiv(255 * param, 100) \in 0..255
        BY PercentReturns, Zenon
      <3>3. RoundDiv(255 * param, 100) # Junk
        BY <3>2, JunkIsNoNumber
      <3> QED  BY <3>1, <3>3, OverWith DEF IsNumber, Has
    <2>3. normalise(after, kind) = LightState(after)
      BY <1>1, <2>2 DEF normalise
    <2>4. call # NoService
      BY <2>1 DEF NoService, Service
    <2> HIDE DEF call, after, kind
    <2>5. DOMAIN LightState(after) = {"power", "brightness"}
          /\ LightState(after)["power"] = On /\ LightState(after)["brightness"] = param
      BY <2>2, PercentReturns DEF LightState, Truth, If
    <2>6. Matches(after, kind, call.expected)
      BY <2>1, <2>3, <2>5 DEF Matches, Within
    <2>7. desired_matches("SET_BRIGHTNESS", param, param) # "FALSE"
      BY DEF desired_matches, Expected
    <2>8. Known(after)
      BY <2>2 DEF Known
    <2> QED  BY <2>3, <2>4, <2>5, <2>6, <2>7, <2>8
                DEF Answered, StateField, InBounds, call, after, kind
  <1> QED  BY <1>2, <1>3

LEMMA VolumeAnswered ==
  ASSUME NEW e, GoodEntity(e), e.domain = "media_player", NEW param \in 0..100
  PROVE  Answered(e, "SET_VOLUME", param)
  <1> DEFINE call == CallFor("SET_VOLUME", param)
             after == CarriedOut(e, call)
             kind == describe(e).kind
  <1>1. kind = "MEDIA_PLAYER"
    BY DEF describe, Mapping
  <1>2. call.service = "volume_set" /\ call.data = [volume_level |-> param * 10]
        /\ call.expected = [volume |-> param]
    BY DEF CallFor, Service
  <1> HIDE DEF call, kind
  <1>3. after.state = e.state /\ IsNumber(after, "volume_level")
        /\ after.attr["volume_level"] = param * 10
    <2>1. after.state = e.state /\ after.attr = Over(call.data, e.attr)
      BY <1>2, AfterSetting
    <2>2. "volume_level" \in DOMAIN after.attr /\ after.attr["volume_level"] = param * 10
      BY <1>2, <2>1, OverWith
    <2> QED  BY <2>1, <2>2, JunkIsNoNumber DEF IsNumber, Has
  <1>4. call # NoService
    BY <1>2 DEF NoService, Service
  <1>5. CASE ~Known(after)
    <2>1. normalise(after, kind) = <<>> /\ DOMAIN <<>> = {}
      BY <1>5 DEF normalise, Known
    <2>2. ~Matches(after, kind, call.expected)
      BY <1>2, <2>1 DEF Matches
    <2>3. InBounds(<<>>) /\ \A f : f \notin DOMAIN <<>>
      BY <2>1 DEF InBounds
    <2> DEFINE state == normalise(after, kind)
               f == StateField("SET_VOLUME")
    <2>4. /\ call # NoService
          /\ WellFormed(e) => InBounds(state)
          /\ InBounds(state) => (Matches(after, kind, call.expected) <=> Known(after))
          /\ f \in DOMAIN state => desired_matches("SET_VOLUME", param, state[f]) # "FALSE"
      <3>1. state = <<>>
        BY <2>1
      <3> HIDE DEF call, after, kind, state, f
      <3> QED  BY <1>4, <1>5, <2>2, <2>3, <3>1
    <2> QED  BY <2>4, Zenon DEF Answered, call, after, kind
  <1>6. CASE Known(after)
    <2>1. normalise(after, kind) = MediaState(after)
      BY <1>1, <1>6 DEF normalise, Known
    <2> HIDE DEF after
    <2>2. "volume" \in DOMAIN MediaState(after) /\ MediaState(after)["volume"] = param
          /\ "brightness" \notin DOMAIN MediaState(after)
      BY <1>3, PercentReturns DEF MediaState, If
    <2>3. Matches(after, kind, call.expected)
      BY <1>2, <2>1, <2>2 DEF Matches
    <2>4. desired_matches("SET_VOLUME", param, param) # "FALSE"
      BY DEF desired_matches, Expected
    <2> QED  BY <1>4, <1>6, <2>1, <2>2, <2>3, <2>4
                DEF Answered, StateField, InBounds, call, after, kind
  <1> QED  BY <1>5, <1>6

LEMMA PlaybackAnswered ==
  ASSUME NEW e, GoodEntity(e), e.domain = "media_player", NEW param \in {PAUSE, PLAY}
  PROVE  Answered(e, "SET_PLAYBACK", param)
  <1> DEFINE call == CallFor("SET_PLAYBACK", param)
             after == CarriedOut(e, call)
             kind == describe(e).kind
  <1>1. kind = "MEDIA_PLAYER"
    BY DEF describe, Mapping
  <1>2. call.service = (IF param = PLAY THEN "media_play" ELSE "media_pause")
        /\ call.expected = <<>>
    BY DEF CallFor, Service
  <1> HIDE DEF call, kind
  <1>3. /\ after.state = (IF param = PLAY THEN "playing" ELSE "paused")
        /\ WellFormed(e) /\ IsNumber(after, "volume_level") =>
              after.attr["volume_level"] \in 0..1000
    <2>1. after.state = (IF param = PLAY THEN "playing" ELSE "paused")
          /\ after.attr = Over(<<>>, e.attr)
      BY <1>2, AfterCall DEF PLAY, PAUSE
    <2>2. WellFormed(e) /\ IsNumber(after, "volume_level") =>
             after.attr["volume_level"] \in 0..1000
      <3>1. DOMAIN <<>> = {}
        OBVIOUS
      <3> HIDE DEF after
      <3>2. IsNumber(after, "volume_level") =>
               IsNumber(e, "volume_level") /\ after.attr["volume_level"] = e.attr["volume_level"]
        BY <2>1, <3>1, KeptAttributes, Zenon
      <3> QED  BY <3>2 DEF WellFormed
    <2> QED  BY <2>1, <2>2
  <1>4. normalise(after, kind) = MediaState(after)
    BY <1>1, <1>3 DEF normalise
  <1>5. call # NoService
    BY <1>2 DEF NoService, Service
  <1> HIDE DEF call, after, kind
  <1>6. MediaState(after)["playback"] = (IF param = PLAY THEN PLAYING ELSE PAUSED)
    BY <1>3 DEF MediaState, PlaybackOf
  <1>7. WellFormed(e) => InBounds(MediaState(after))
    <2>1. ASSUME WellFormed(e), IsNumber(after, "volume_level")
          PROVE  MediaState(after)["volume"] \in 0..100
      <3>1. MediaState(after)["volume"] = VolumePercent(after.attr["volume_level"])
        BY <2>1 DEF MediaState, If
      <3>2. after.attr["volume_level"] \in 0..1000
        BY <1>3, <2>1
      <3>3. VolumePercent(after.attr["volume_level"]) \in 0..100
        BY <3>2, VolumeBounds, Zenon
      <3> QED  BY <3>1, <3>3
    <2> QED  BY <2>1 DEF InBounds, MediaState, If
  <1>8. Matches(after, kind, call.expected)
    BY <1>2 DEF Matches
  <1>9. desired_matches("SET_PLAYBACK", param, MediaState(after)["playback"]) # "FALSE"
    BY <1>6 DEF desired_matches, Expected
  <1>10. Known(after)
    BY <1>3 DEF Known
  <1> QED  BY <1>4, <1>5, <1>7, <1>8, <1>9, <1>10 DEF Answered, StateField, call, after, kind

LEMMA SetpointAnswered ==
  ASSUME NEW e, GoodEntity(e), e.domain = "climate", NEW param, param \in 0..6000
  PROVE  Answered(e, "SET_TARGET_TEMPERATURE", param)
  <1> DEFINE call == CallFor("SET_TARGET_TEMPERATURE", param)
             after == CarriedOut(e, call)
             kind == describe(e).kind
  <1>1. kind = "THERMOSTAT"
    BY DEF describe, Mapping
  <1>2. call.service = "set_temperature" /\ call.data = [temperature |-> param]
        /\ call.expected = [target_temperature_c |-> param]
    BY DEF CallFor, Service
  <1> HIDE DEF call, kind
  <1>3. after.state = e.state /\ IsNumber(after, "temperature")
        /\ after.attr["temperature"] = param
    <2>1. after.state = e.state /\ after.attr = Over(call.data, e.attr)
      BY <1>2, AfterSetting
    <2>2. "temperature" \in DOMAIN after.attr /\ after.attr["temperature"] = param
      BY <1>2, <2>1, OverWith
    <2>3. param # Junk
      BY JunkIsNoNumber
    <2> QED  BY <2>1, <2>2, <2>3 DEF IsNumber, Has
  <1>4. call # NoService
    BY <1>2 DEF NoService, Service
  <1>5. CASE ~Known(after)
    <2>1. normalise(after, kind) = <<>> /\ DOMAIN <<>> = {}
      BY <1>5 DEF normalise, Known
    <2>2. ~Matches(after, kind, call.expected)
      BY <1>2, <2>1 DEF Matches
    <2>3. InBounds(<<>>) /\ \A f : f \notin DOMAIN <<>>
      BY <2>1 DEF InBounds
    <2> DEFINE state == normalise(after, kind)
               f == StateField("SET_TARGET_TEMPERATURE")
    <2>4. /\ call # NoService
          /\ WellFormed(e) => InBounds(state)
          /\ InBounds(state) => (Matches(after, kind, call.expected) <=> Known(after))
          /\ f \in DOMAIN state => desired_matches("SET_TARGET_TEMPERATURE", param, state[f]) # "FALSE"
      <3>1. state = <<>>
        BY <2>1
      <3> HIDE DEF call, after, kind, state, f
      <3> QED  BY <1>4, <1>5, <2>2, <2>3, <3>1
    <2> QED  BY <2>4 DEF Answered, call, after, kind
  <1>6. CASE Known(after)
    <2>1. normalise(after, kind) = ClimateState(after)
      BY <1>1, <1>6 DEF normalise, Known
    <2> HIDE DEF after
    <2>2. "target_temperature_c" \in DOMAIN ClimateState(after)
          /\ ClimateState(after)["target_temperature_c"] = param
          /\ {"brightness", "volume"} \cap DOMAIN ClimateState(after) = {}
      BY <1>3 DEF ClimateState, If
    <2>3. Matches(after, kind, call.expected)
      <3>1. Within(param, param, 51)
        BY DEF Within
      <3> QED  BY <1>2, <2>1, <2>2, <3>1 DEF Matches
    <2>4. desired_matches("SET_TARGET_TEMPERATURE", param, param) # "FALSE"
      BY DEF desired_matches, TemperatureEpsilon
    <2> QED  BY <1>4, <1>6, <2>1, <2>2, <2>3, <2>4
                DEF Answered, StateField, InBounds, call, after, kind
  <1> QED  BY <1>5, <1>6

-----------------------------------------------------------------------------
(* The specification.                                                      *)

\* What connect returns for a passcode response.
Returned(answer) ==
    LET passcode == decode_length_prefixed(answer)
    IN  IF passcode.status = "ok" THEN encode_length_prefixed(passcode.bytes) ELSE passcode

\* What an input was converted into is what the adapters make of it, and it was
\* one of the inputs.
ConvertedInv ==
    /\ input.kind = "offer" =>
        /\ input.data \in Offers
        /\ output = NotYet
           \/ output = [result |->
                 [capabilities |-> Advertised(input.data.entity, input.data.released),
                  call |-> CallFor(input.data.action, input.data.param)]]
    /\ input.kind = "write" =>
        /\ input.data \in Writes
        /\ output = NotYet
           \/ output = [result |-> Request(input.data.profile, input.data.action, input.data.param,
                                          input.data.base, input.data.sequence)]
    /\ input.kind = "passcode" =>
        /\ input.data \in Answers
        /\ output = NotYet \/ output = [result |-> Returned(input.data.answer)]

LEMMA ConvertedHolds == Spec => []ConvertedInv
  <1>1. Init => ConvertedInv
    BY DEF Init, ConvertedInv
  <1>2. ConvertedInv /\ [Next]_vars => ConvertedInv'
    BY DEF ConvertedInv, Next, vars, Login, Write, Offer, Convert, Returned
  <1> QED  BY <1>1, <1>2, PTL DEF Spec

\* OfferedIsAnswered (HomeAssistantProvider.discover_devices against execute):
\* whatever a Home Assistant entity is offered for, in any state, with any
\* attributes and any value a command can carry, has a service call, and execute
\* finds the effect it waits for exactly if Home Assistant has a state for the
\* entity after the call and normalise does not raise for another attribute that
\* is out of its range.
THEOREM OfferedIsAnsweredHolds == Spec => []OfferedIsAnswered
  <1>1. ConvertedInv => OfferedIsAnswered
    <2> SUFFICES ASSUME ConvertedInv, Converted("offer"),
                        required_capability_for(input.data.action, input.data.param)
                          \in output.result.capabilities
                 PROVE  /\ input.data.entity.domain \in input.data.released \ {"lock", "sensor"}
                        /\ Answered(input.data.entity, input.data.action, input.data.param)
                        /\ output.result.call = CallFor(input.data.action, input.data.param)
      BY DEF OfferedIsAnswered, Answered
    <2> DEFINE o == input.data
    <2>1. o \in Offers /\ output.result.call = CallFor(o.action, o.param)
          /\ output.result.capabilities = Advertised(o.entity, o.released)
      BY DEF Converted, ConvertedInv
    <2>2. GoodEntity(o.entity) /\ o.action \in Action /\ o.param \in ParamsModel(o.action)
      BY <2>1, OffersAssumption DEF GoodEntity
    <2>3. /\ o.entity.domain \in o.released \ {"lock", "sensor"}
          /\ \/ o.action = "SET_POWER" /\ o.entity.domain \in {"light", "switch"}
             \/ o.action = "SET_BRIGHTNESS" /\ o.entity.domain = "light"
             \/ o.action \in {"SET_VOLUME", "SET_PLAYBACK"} /\ o.entity.domain = "media_player"
             \/ o.action = "SET_TARGET_TEMPERATURE" /\ o.entity.domain = "climate"
      BY <2>1, <2>2, OfferedFor
    <2> HIDE DEF o
    <2>4. CASE o.action = "SET_POWER"
      <3>1. o.param \in {Off, On}
        BY <2>2, <2>4 DEF ParamsModel, OnOffActions
      <3> QED  BY <2>1, <2>2, <2>3, <2>4, <3>1, PowerAnswered DEF o
    <2>5. CASE o.action = "SET_BRIGHTNESS"
      <3>1. o.param \in 0..100
        BY <2>2, <2>5 DEF ParamsModel, OnOffActions
      <3> QED  BY <2>1, <2>2, <2>3, <2>5, <3>1, BrightnessAnswered DEF o
    <2>6. CASE o.action = "SET_VOLUME"
      <3>1. o.param \in 0..100
        BY <2>2, <2>6 DEF ParamsModel, OnOffActions
      <3> QED  BY <2>1, <2>2, <2>3, <2>6, <3>1, VolumeAnswered DEF o
    <2>7. CASE o.action = "SET_PLAYBACK"
      <3>1. o.param \in {PAUSE, PLAY}
        BY <2>2, <2>7 DEF ParamsModel, OnOffActions
      <3> QED  BY <2>1, <2>2, <2>3, <2>7, <3>1, PlaybackAnswered DEF o
    <2>8. CASE o.action = "SET_TARGET_TEMPERATURE"
      <3>1. o.param \in 0..6000
        BY <2>2, <2>8 DEF ParamsModel, OnOffActions
      <3>2. o.entity.domain = "climate" /\ GoodEntity(o.entity)
        BY <2>2, <2>3, <2>8
      <3>3. Answered(o.entity, "SET_TARGET_TEMPERATURE", o.param)
        BY <3>1, <3>2, SetpointAnswered
      <3> QED  BY <2>1, <2>3, <2>8, <3>3 DEF o
    <2> QED  BY <2>3, <2>4, <2>5, <2>6, <2>7, <2>8
  <1> QED  BY <1>1, ConvertedHolds, PTL

-----------------------------------------------------------------------------
(* The pool.                                                               *)

\* from_celsius and to_celsius: within any range whose limits both scales can
\* hold (multiples of five degrees, like the verified 20 to 40), a setpoint that
\* was rounded for the controller and read back is still in the range, and at most
\* half a degree, or a third in Fahrenheit, from what was asked.
THEOREM SetpointSurvives ==
  ASSUME NEW low \in Int, NEW high \in Int, NEW c \in 500 * low .. 500 * high,
         NEW fahrenheit \in BOOLEAN
  PROVE  LET seen == to_celsius(from_celsius(c, fahrenheit), fahrenheit)
         IN  /\ seen \in 500 * low .. 500 * high
             /\ Within(seen, c, IF fahrenheit THEN 33 ELSE 50)
  <1>1. CASE fahrenheit
    <2>1. PICK f \in Int : f = RoundDiv(c * 9 + 32 * 500, 500)
      BY DEF RoundDiv
    <2>2. /\ 500 * f - (9 * c + 16000) <= 250 /\ (9 * c + 16000) - 500 * f <= 250
          /\ 9 * low + 32 <= f /\ f <= 9 * high + 32
      BY <2>1 DEF RoundDiv
    <2>3. PICK r \in Int : r = RoundDiv((f - 32) * 50, 9)
      BY <2>1 DEF RoundDiv
    <2>4. /\ 9 * r - 50 * (f - 32) <= 4 /\ 50 * (f - 32) - 9 * r <= 4
          /\ 50 * low <= r /\ r <= 50 * high
      BY <2>2, <2>3 DEF RoundDiv
    <2>5. to_celsius(from_celsius(c, fahrenheit), fahrenheit) = 10 * r
      BY <1>1, <2>1, <2>3 DEF to_celsius, from_celsius
    <2>6. 10 * r \in 500 * low .. 500 * high /\ Within(10 * r, c, 33)
      BY <2>2, <2>4 DEF Within
    <2> QED  BY <1>1, <2>5, <2>6
  <1>2. CASE ~fahrenheit
    <2>1. PICK d \in Int : d = RoundDiv(c, 100)
      BY DEF RoundDiv
    <2>2. /\ 100 * d - c <= 50 /\ c - 100 * d <= 50
          /\ 5 * low <= d /\ d <= 5 * high
      BY <2>1 DEF RoundDiv
    <2>3. to_celsius(from_celsius(c, fahrenheit), fahrenheit) = 100 * d
      BY <1>2, <2>1 DEF to_celsius, from_celsius
    <2> QED  BY <1>2, <2>2, <2>3 DEF Within
  <1> QED  BY <1>1, <1>2

Weight(b) == 2^b

LEMMA Weights ==
  ASSUME NEW b \in 0..7
  PROVE  \/ b = 0 /\ Weight(b) = 1
         \/ b = 1 /\ Weight(b) = 2
         \/ b = 2 /\ Weight(b) = 4
         \/ b = 3 /\ Weight(b) = 8
         \/ b = 4 /\ Weight(b) = 16
         \/ b = 5 /\ Weight(b) = 32
         \/ b = 6 /\ Weight(b) = 64
         \/ b = 7 /\ Weight(b) = 128
  <1>0. b = 0 => Weight(b) = 1
    BY DEF Weight
  <1>1. b = 1 => Weight(b) = 2
    BY DEF Weight
  <1>2. b = 2 => Weight(b) = 4
    BY DEF Weight
  <1>3. b = 3 => Weight(b) = 8
    BY DEF Weight
  <1>4. b = 4 => Weight(b) = 16
    BY DEF Weight
  <1>5. b = 5 => Weight(b) = 32
    BY DEF Weight
  <1>6. b = 6 => Weight(b) = 64
    BY DEF Weight
  <1>7. b = 7 => Weight(b) = 128
    BY DEF Weight
  <1> QED  BY <1>0, <1>1, <1>2, <1>3, <1>4, <1>5, <1>6, <1>7

\* Replacing one bit of a byte leaves the others, by their weights.
LEMMA OtherBits ==
  ASSUME NEW byte \in Byte, NEW value \in {0, 1}, NEW w \in {1, 2, 4, 8, 16, 32, 64, 128},
         NEW changed, changed = byte + (value - ((byte \div w) % 2)) * w
  PROVE  \A v \in {1, 2, 4, 8, 16, 32, 64, 128} \ {w} : (changed \div v) % 2 = (byte \div v) % 2
  <1> DEFINE Same(v) == (changed \div v) % 2 = (byte \div v) % 2
  <1>1. CASE w = 1
    <2>1. changed = byte + (value - ((byte \div 1) % 2)) * 1
      BY <1>1
    <2>2. Same(2)
      BY <2>1, SMTT(30) DEF Byte
    <2>3. Same(4)
      BY <2>1, SMTT(30) DEF Byte
    <2>4. Same(8)
      BY <2>1, SMTT(30) DEF Byte
    <2>5. Same(16)
      BY <2>1, SMTT(30) DEF Byte
    <2>6. Same(32)
      BY <2>1, SMTT(30) DEF Byte
    <2>7. Same(64)
      BY <2>1, SMTT(30) DEF Byte
    <2>8. Same(128)
      BY <2>1, SMTT(30) DEF Byte
    <2> QED  BY <1>1, <2>2, <2>3, <2>4, <2>5, <2>6, <2>7, <2>8
  <1>2. CASE w = 2
    <2>1. changed = byte + (value - ((byte \div 2) % 2)) * 2
      BY <1>2
    <2>2. Same(1)
      BY <2>1, SMTT(30) DEF Byte
    <2>3. Same(4)
      BY <2>1, SMTT(30) DEF Byte
    <2>4. Same(8)
      BY <2>1, SMTT(30) DEF Byte
    <2>5. Same(16)
      BY <2>1, SMTT(30) DEF Byte
    <2>6. Same(32)
      BY <2>1, SMTT(30) DEF Byte
    <2>7. Same(64)
      BY <2>1, SMTT(30) DEF Byte
    <2>8. Same(128)
      BY <2>1, SMTT(30) DEF Byte
    <2> QED  BY <1>2, <2>2, <2>3, <2>4, <2>5, <2>6, <2>7, <2>8
  <1>3. CASE w = 4
    <2>1. changed = byte + (value - ((byte \div 4) % 2)) * 4
      BY <1>3
    <2>2. Same(1)
      BY <2>1, SMTT(30) DEF Byte
    <2>3. Same(2)
      BY <2>1, SMTT(30) DEF Byte
    <2>4. Same(8)
      BY <2>1, SMTT(30) DEF Byte
    <2>5. Same(16)
      BY <2>1, SMTT(30) DEF Byte
    <2>6. Same(32)
      BY <2>1, SMTT(30) DEF Byte
    <2>7. Same(64)
      BY <2>1, SMTT(30) DEF Byte
    <2>8. Same(128)
      BY <2>1, SMTT(30) DEF Byte
    <2> QED  BY <1>3, <2>2, <2>3, <2>4, <2>5, <2>6, <2>7, <2>8
  <1>4. CASE w = 8
    <2>1. changed = byte + (value - ((byte \div 8) % 2)) * 8
      BY <1>4
    <2>2. Same(1)
      BY <2>1, SMTT(30) DEF Byte
    <2>3. Same(2)
      BY <2>1, SMTT(30) DEF Byte
    <2>4. Same(4)
      BY <2>1, SMTT(30) DEF Byte
    <2>5. Same(16)
      BY <2>1, SMTT(30) DEF Byte
    <2>6. Same(32)
      BY <2>1, SMTT(30) DEF Byte
    <2>7. Same(64)
      BY <2>1, SMTT(30) DEF Byte
    <2>8. Same(128)
      BY <2>1, SMTT(30) DEF Byte
    <2> QED  BY <1>4, <2>2, <2>3, <2>4, <2>5, <2>6, <2>7, <2>8
  <1>5. CASE w = 16
    <2>1. changed = byte + (value - ((byte \div 16) % 2)) * 16
      BY <1>5
    <2>2. Same(1)
      BY <2>1, SMTT(30) DEF Byte
    <2>3. Same(2)
      BY <2>1, SMTT(30) DEF Byte
    <2>4. Same(4)
      BY <2>1, SMTT(30) DEF Byte
    <2>5. Same(8)
      BY <2>1, SMTT(30) DEF Byte
    <2>6. Same(32)
      BY <2>1, SMTT(30) DEF Byte
    <2>7. Same(64)
      BY <2>1, SMTT(30) DEF Byte
    <2>8. Same(128)
      BY <2>1, SMTT(30) DEF Byte
    <2> QED  BY <1>5, <2>2, <2>3, <2>4, <2>5, <2>6, <2>7, <2>8
  <1>6. CASE w = 32
    <2>1. changed = byte + (value - ((byte \div 32) % 2)) * 32
      BY <1>6
    <2>2. Same(1)
      BY <2>1, SMTT(30) DEF Byte
    <2>3. Same(2)
      BY <2>1, SMTT(30) DEF Byte
    <2>4. Same(4)
      BY <2>1, SMTT(30) DEF Byte
    <2>5. Same(8)
      BY <2>1, SMTT(30) DEF Byte
    <2>6. Same(16)
      BY <2>1, SMTT(30) DEF Byte
    <2>7. Same(64)
      BY <2>1, SMTT(30) DEF Byte
    <2>8. Same(128)
      BY <2>1, SMTT(30) DEF Byte
    <2> QED  BY <1>6, <2>2, <2>3, <2>4, <2>5, <2>6, <2>7, <2>8
  <1>7. CASE w = 64
    <2>1. changed = byte + (value - ((byte \div 64) % 2)) * 64
      BY <1>7
    <2>2. Same(1)
      BY <2>1, SMTT(30) DEF Byte
    <2>3. Same(2)
      BY <2>1, SMTT(30) DEF Byte
    <2>4. Same(4)
      BY <2>1, SMTT(30) DEF Byte
    <2>5. Same(8)
      BY <2>1, SMTT(30) DEF Byte
    <2>6. Same(16)
      BY <2>1, SMTT(30) DEF Byte
    <2>7. Same(32)
      BY <2>1, SMTT(30) DEF Byte
    <2>8. Same(128)
      BY <2>1, SMTT(30) DEF Byte
    <2> QED  BY <1>7, <2>2, <2>3, <2>4, <2>5, <2>6, <2>7, <2>8
  <1>8. CASE w = 128
    <2>1. changed = byte + (value - ((byte \div 128) % 2)) * 128
      BY <1>8
    <2>2. Same(1)
      BY <2>1, SMTT(30) DEF Byte
    <2>3. Same(2)
      BY <2>1, SMTT(30) DEF Byte
    <2>4. Same(4)
      BY <2>1, SMTT(30) DEF Byte
    <2>5. Same(8)
      BY <2>1, SMTT(30) DEF Byte
    <2>6. Same(16)
      BY <2>1, SMTT(30) DEF Byte
    <2>7. Same(32)
      BY <2>1, SMTT(30) DEF Byte
    <2>8. Same(64)
      BY <2>1, SMTT(30) DEF Byte
    <2> QED  BY <1>8, <2>2, <2>3, <2>4, <2>5, <2>6, <2>7, <2>8
  <1> QED  BY <1>1, <1>2, <1>3, <1>4, <1>5, <1>6, <1>7, <1>8

\* A byte with one bit replaced, and nothing else.
LEMMA BitReplaced ==
  ASSUME NEW byte \in Byte, NEW value \in {0, 1}, NEW bit \in 0..7
  PROVE  LET changed == byte + (value - BitOf(byte, bit)) * 2^bit
         IN  /\ changed \in Byte /\ BitOf(changed, bit) = value
             /\ \A b \in 0..7 \ {bit} : BitOf(changed, b) = BitOf(byte, b)
  <1> DEFINE changed == byte + (value - BitOf(byte, bit)) * 2^bit
  <1>1. PICK w \in {1, 2, 4, 8, 16, 32, 64, 128} : w = Weight(bit)
    BY Weights
  <1>2. BitOf(byte, bit) = (byte \div w) % 2 /\ changed = byte + (value - ((byte \div w) % 2)) * w
    BY <1>1 DEF BitOf, Weight
  <1> HIDE DEF changed
  <1>3. changed \in Byte /\ (changed \div w) % 2 = value
    BY <1>2 DEF Byte
  <1>4. ASSUME NEW b \in 0..7 \ {bit}
        PROVE  BitOf(changed, b) = BitOf(byte, b)
    <2>1. PICK v \in {1, 2, 4, 8, 16, 32, 64, 128} : v = Weight(b) /\ v # w
      BY <1>1, Weights
    <2>2. (changed \div v) % 2 = (byte \div v) % 2
      BY <1>2, <2>1, OtherBits
    <2> QED  BY <2>1, <2>2 DEF BitOf, Weight
  <1>5. BitOf(changed, bit) = value
    BY <1>1, <1>3 DEF BitOf, Weight
  <1> QED  BY <1>3, <1>4, <1>5 DEF changed

\* A layout as the validators of DatapointProfile leave it, and a block.
Layout(p) ==
    /\ p.control_offset \in Nat \cup {Nowhere} /\ p.control_length \in Nat \cup {Nowhere}
    /\ \A d \in DOMAIN p.locations :
          /\ p.locations[d].kind \in {"byte", "bit"}
          /\ p.locations[d].offset \in Nat /\ p.locations[d].bit \in 0..7

LEMMA PartOf ==
  ASSUME NEW S, NEW s \in Seq(S), NEW a, a \in Nat, NEW n, n \in Nat, a + n <= Len(s)
  PROVE  /\ DOMAIN SubSeq(s, a + 1, a + n) = 1..n
         /\ \A k \in 1..n : SubSeq(s, a + 1, a + n)[k] = s[a + k]
  OBVIOUS

\* The place of a datapoint is in the part of the block that is sent.
LEMMA PlaceOf ==
  ASSUME NEW p, Layout(p), NEW base \in Seq(Byte), NEW d, NEW value,
         encode_control(p, d, value, base) # Rejected
  PROVE  LET start == p.control_offset
             offset == p.locations[d].offset
         IN  /\ start \in Nat /\ p.control_length \in Nat /\ d \in DOMAIN p.locations
             /\ start + p.control_length <= Len(base)
             /\ offset \in Nat /\ offset - start \in 0..p.control_length - 1
  BY DEF encode_control, Layout

\* Taking over the values of a control request changes the byte of the datapoint
\* and no other.
LEMMA OneByteChanges ==
  ASSUME NEW p, Layout(p), NEW base \in Seq(Byte), NEW d, NEW value,
         NEW control, control = encode_control(p, d, value, base), control # Rejected
  PROVE  LET l == p.locations[d]
             after == Overlaid(p, base, control.values)
         IN  /\ after \in Seq(Byte) /\ Len(after) = Len(base)
             /\ l.offset + 1 \in DOMAIN base
             /\ \A i \in DOMAIN base \ {l.offset + 1} : after[i] = base[i]
             /\ At(after, l.offset) =
                   IF l.kind = "bit"
                   THEN At(base, l.offset) + (value - BitOf(At(base, l.offset), l.bit)) * 2^l.bit
                   ELSE value
  <1> DEFINE start == p.control_offset
             length == p.control_length
             l == p.locations[d]
             block == SubSeq(base, start + 1, start + length)
             place == l.offset - start + 1
             byte == block[place]
             changed == IF l.kind = "bit" THEN byte + (value - BitOf(byte, l.bit)) * 2^l.bit
                        ELSE value
             after == Overlaid(p, base, control.values)
  <1>1. /\ start \in Nat /\ length \in Nat /\ start + length <= Len(base)
        /\ l.offset \in Nat /\ place \in 1..length /\ start + place = l.offset + 1
    BY PlaceOf
  <1>2. control.values = [block EXCEPT ![place] = changed] /\ changed \in Byte
    BY DEF encode_control
  <1> HIDE DEF changed, place, start, length, l
  <1>3. /\ DOMAIN block = 1..length
        /\ \A k \in 1..length : block[k] = base[start + k]
    BY <1>1, PartOf DEF block
  <1> HIDE DEF block
  <1>4. /\ DOMAIN control.values = 1..length /\ control.values[place] = changed
        /\ \A k \in 1..length \ {place} : control.values[k] = base[start + k]
    BY <1>1, <1>2, <1>3
  <1>5. byte = At(base, l.offset)
    BY <1>1, <1>3 DEF At
  <1>6. /\ DOMAIN after = DOMAIN base
        /\ \A i \in DOMAIN base :
              after[i] = IF i - start \in 1..length THEN control.values[i - start] ELSE base[i]
    BY <1>4 DEF Overlaid, start
  <1> HIDE DEF after
  <1>7. l.offset + 1 \in DOMAIN base /\ l.offset + 1 - start = place
    BY <1>1
  <1>8. At(after, l.offset) = changed
    <2> DEFINE i == l.offset + 1
    <2>1. i \in DOMAIN base /\ i - start = place
      BY <1>1, <1>7
    <2> HIDE DEF i
    <2>2. after[i] = control.values[place]
      BY <1>1, <1>6, <2>1
    <2> QED  BY <1>4, <2>2 DEF At, i
  <1>9. ASSUME NEW i \in DOMAIN base \ {l.offset + 1}
        PROVE  after[i] = base[i]
    <2>1. i - start \in 1..length => i - start # place /\ start + (i - start) = i
      BY <1>1
    <2> QED  BY <1>4, <1>6, <2>1
  <1>10. after \in Seq(Byte) /\ Len(after) = Len(base)
    <2>1. after = [i \in DOMAIN base |-> after[i]]
      BY DEF after, Overlaid
    <2>2. \A i \in DOMAIN base : after[i] \in Byte
      BY <1>2, <1>8, <1>9 DEF At
    <2> QED  BY <2>1, <2>2
  <1> QED  BY <1>5, <1>7, <1>8, <1>9, <1>10 DEF changed, l, after

LEMMA SoundIsLayout ==
  ASSUME NEW p, SoundLayout(p)
  PROVE  /\ Layout(p)
         /\ \A d, x \in DOMAIN p.locations : x # d => Apart(p.locations[x], p.locations[d])
  <1> DEFINE limit == MAX_PAYLOAD_BYTES
  <1>0. limit - 1 \in Int /\ limit - 10 \in Int
    BY SMT DEF MAX_PAYLOAD_BYTES
  <1> HIDE DEF limit
  <1>1. p.control_offset \in Nat \cup {Nowhere} /\ p.control_length \in Nat \cup {Nowhere}
    <2>1. p.control_offset \in Nat \cup {Nowhere}
          /\ p.control_length \in (0 .. limit - 10) \cup {Nowhere}
      BY Zenon DEF SoundLayout, limit
    <2> QED  BY <1>0, <2>1
  <1>2. ASSUME NEW d \in DOMAIN p.locations
        PROVE  /\ p.locations[d].kind \in {"byte", "bit"}
               /\ p.locations[d].offset \in Nat /\ p.locations[d].bit \in 0..7
    <2>1. p.locations[d].offset \in 0 .. limit - 1 /\ p.locations[d].bit \in 0..7
      <3>1. ValidProfile(p)
        BY Zenon DEF SoundLayout
      <3> QED  BY <3>1, SMT DEF ValidProfile, limit
    <2>2. p.locations[d].kind = IF d \in TEMPERATURE_DATAPOINTS THEN "byte" ELSE "bit"
      BY Zenon DEF SoundLayout
    <2> QED  BY <1>0, <2>1, <2>2
  <1>3. \A d, x \in DOMAIN p.locations : x # d => Apart(p.locations[x], p.locations[d])
    BY Zenon DEF SoundLayout
  <1> QED  BY <1>1, <1>2, <1>3 DEF Layout

\* The layouts that are shipped are sound.
LEMMA ShippedLayouts ==
  ASSUME NEW p \in {CANDIDATE_PROFILE, AIRJET_19BYTE_PROFILE}
  PROVE  SoundLayout(p)
  <1>1. CASE p = CANDIDATE_PROFILE
    <2>1. ValidProfile(p)
      <3>1. \A d \in DOMAIN p.locations :
               p.locations[d].offset \in 0 .. MAX_PAYLOAD_BYTES - 1 /\ p.locations[d].bit \in 0 .. 7
        BY <1>1, SMTT(60) DEF CANDIDATE_PROFILE, ByteLocation, BitLocation, MAX_PAYLOAD_BYTES
      <3>2. /\ p.minimum_payload_length \in 1 .. MAX_PAYLOAD_BYTES
            /\ p.min >= 0 /\ p.max <= 6000 /\ p.max > p.min /\ p.writable = {}
        BY <1>1, SMT DEF CANDIDATE_PROFILE, MAX_PAYLOAD_BYTES
      <3> QED  BY <3>1, <3>2 DEF ValidProfile
    <2>2. \A d \in DOMAIN p.locations :
             p.locations[d].kind = IF d \in TEMPERATURE_DATAPOINTS THEN "byte" ELSE "bit"
      BY <1>1, SMT DEF CANDIDATE_PROFILE, ByteLocation, BitLocation, TEMPERATURE_DATAPOINTS
    <2>3. \A d \in DOMAIN p.locations : \A x \in DOMAIN p.locations \ {d} :
             Apart(p.locations[d], p.locations[x])
      BY <1>1, SMTT(30) DEF CANDIDATE_PROFILE, ByteLocation, BitLocation, Apart
    <2>4. \A d \in DOMAIN p.flag_bits :
             /\ p.flag_bits[d] \in 0 .. 15
             /\ \A x \in DOMAIN p.flag_bits \ {d} : p.flag_bits[d] # p.flag_bits[x]
      BY <1>1, SMT DEF CANDIDATE_PROFILE
    <2>5. /\ p.control_offset \in Nat /\ p.control_length \in 0 .. MAX_PAYLOAD_BYTES - 10
          /\ p.min \in Int /\ p.min % 500 = 0 /\ p.max \in Int /\ p.max % 500 = 0
      BY <1>1, SMT DEF CANDIDATE_PROFILE, MAX_PAYLOAD_BYTES
    <2> QED  BY <2>1, <2>2, <2>3, <2>4, <2>5, Zenon DEF SoundLayout
  <1>2. CASE p = AIRJET_19BYTE_PROFILE
    <2>1. ValidProfile(p)
      <3>1. \A d \in DOMAIN p.locations :
               p.locations[d].offset \in 0 .. MAX_PAYLOAD_BYTES - 1 /\ p.locations[d].bit \in 0 .. 7
        BY <1>2, SMTT(60) DEF AIRJET_19BYTE_PROFILE, ByteLocation, BitLocation, MAX_PAYLOAD_BYTES
      <3>2. /\ p.minimum_payload_length \in 1 .. MAX_PAYLOAD_BYTES
            /\ p.min >= 0 /\ p.max <= 6000 /\ p.max > p.min /\ p.writable = {}
        BY <1>2, SMT DEF AIRJET_19BYTE_PROFILE, MAX_PAYLOAD_BYTES
      <3> QED  BY <3>1, <3>2 DEF ValidProfile
    <2>2. \A d \in DOMAIN p.locations :
             p.locations[d].kind = IF d \in TEMPERATURE_DATAPOINTS THEN "byte" ELSE "bit"
      BY <1>2, SMT DEF AIRJET_19BYTE_PROFILE, ByteLocation, BitLocation, TEMPERATURE_DATAPOINTS
    <2>3. \A d \in DOMAIN p.locations : \A x \in DOMAIN p.locations \ {d} :
             Apart(p.locations[d], p.locations[x])
      BY <1>2, SMTT(30) DEF AIRJET_19BYTE_PROFILE, ByteLocation, BitLocation, Apart
    <2>4. \A d \in DOMAIN p.flag_bits :
             /\ p.flag_bits[d] \in 0 .. 15
             /\ \A x \in DOMAIN p.flag_bits \ {d} : p.flag_bits[d] # p.flag_bits[x]
      BY <1>2, SMT DEF AIRJET_19BYTE_PROFILE
    <2>5. /\ p.control_offset \in Nat /\ p.control_length \in 0 .. MAX_PAYLOAD_BYTES - 10
          /\ p.min \in Int /\ p.min % 500 = 0 /\ p.max \in Int /\ p.max % 500 = 0
      BY <1>2, SMT DEF AIRJET_19BYTE_PROFILE, MAX_PAYLOAD_BYTES
    <2> QED  BY <2>1, <2>2, <2>3, <2>4, <2>5, Zenon DEF SoundLayout
  <1> QED  BY <1>1, <1>2

\* What the values of a request make of a block.
ChangesOne(p, base, d, value) ==
    LET l == p.locations[d]
        after == Overlaid(p, base, encode_control(p, d, value, base).values)
    IN  /\ decode(p, after) = [decode(p, base) EXCEPT ![d] = value]
        /\ \A i \in DOMAIN base \ {l.offset + 1} : after[i] = base[i]
        /\ l.kind = "bit" =>
             \A b \in 0..7 \ {l.bit} :
                BitOf(At(after, l.offset), b) = BitOf(At(base, l.offset), b)

\* encode_control, the part of WriteArrivesAsMeant that does not depend on the
\* wire format: with any layout whose datapoints share no bit, any block and any
\* value, once the controller has taken over the values of the request, the
\* datapoint reads as the value, all others read as before, and no other byte and
\* no other bit has changed, whether a layout explains it or not.
THEOREM WriteChangesOneDatapoint ==
  ASSUME NEW p, Layout(p), NEW base \in Seq(Byte), NEW d, NEW value,
         \A x \in DOMAIN p.locations \ {d} : Apart(p.locations[x], p.locations[d]),
         p.locations[d].kind = "bit" => value \in {0, 1},
         encode_control(p, d, value, base) # Rejected, decode(p, base) # ProfileError
  PROVE  ChangesOne(p, base, d, value)
  <1>0. PICK control : control = encode_control(p, d, value, base)
    OBVIOUS
  <1> DEFINE l == p.locations[d]
             after == Overlaid(p, base, control.values)
             Read(q, block) == IF q.kind = "bit" THEN BitOf(At(block, q.offset), q.bit)
                               ELSE At(block, q.offset)
  <1>1. /\ after \in Seq(Byte) /\ Len(after) = Len(base) /\ l.offset + 1 \in DOMAIN base
        /\ \A i \in DOMAIN base \ {l.offset + 1} : after[i] = base[i]
        /\ At(after, l.offset) =
              IF l.kind = "bit"
              THEN At(base, l.offset) + (value - BitOf(At(base, l.offset), l.bit)) * 2^l.bit
              ELSE value
    <2>1. control # Rejected
      BY <1>0
    <2> QED  BY <1>0, <2>1, OneByteChanges
  <1>2. /\ d \in DOMAIN p.locations /\ l.kind \in {"byte", "bit"}
        /\ l.offset \in Nat /\ l.bit \in 0..7
    BY <1>0, PlaceOf DEF Layout
  <1> HIDE DEF after
  <1>3. ASSUME l.kind = "bit"
        PROVE  /\ BitOf(At(after, l.offset), l.bit) = value
               /\ \A b \in 0..7 \ {l.bit} :
                     BitOf(At(after, l.offset), b) = BitOf(At(base, l.offset), b)
    <2>1. At(base, l.offset) \in Byte
      BY <1>1 DEF At
    <2>2. value \in {0, 1}
      BY <1>3
    <2> DEFINE changed == At(base, l.offset) + (value - BitOf(At(base, l.offset), l.bit)) * 2^l.bit
    <2>3. /\ BitOf(changed, l.bit) = value
          /\ \A b \in 0..7 \ {l.bit} : BitOf(changed, b) = BitOf(At(base, l.offset), b)
      BY <1>2, <2>1, <2>2, BitReplaced, Zenon
    <2>4. At(after, l.offset) = changed
      BY <1>1, <1>3
    <2> HIDE DEF changed
    <2> QED  BY <2>3, <2>4
  <1>4. Read(l, after) = value
    BY <1>1, <1>3
  <1>5. ASSUME NEW x \in DOMAIN p.locations \ {d}
        PROVE  Read(p.locations[x], after) = Read(p.locations[x], base)
    <2> DEFINE q == p.locations[x]
    <2>1. q.offset \in Nat /\ q.offset + 1 \in DOMAIN base /\ q.bit \in 0..7
      BY DEF decode, Layout
    <2>2. CASE q.offset # l.offset
      <3>1. At(after, q.offset) = At(base, q.offset)
        BY <1>1, <1>2, <2>1, <2>2 DEF At
      <3> QED  BY <3>1
    <2>3. CASE q.offset = l.offset
      <3>1. q.kind = "bit" /\ l.kind = "bit" /\ q.bit # l.bit
        BY <2>3 DEF Apart
      <3> QED  BY <1>3, <2>1, <2>3, <3>1
    <2> QED  BY <2>2, <2>3
  <1>6. decode(p, after) = [x \in DOMAIN p.locations |-> Read(p.locations[x], after)]
        /\ decode(p, base) = [x \in DOMAIN p.locations |-> Read(p.locations[x], base)]
    BY <1>1 DEF decode
  <1> HIDE DEF Read
  <1>7. decode(p, after) = [decode(p, base) EXCEPT ![d] = value]
    BY <1>2, <1>4, <1>5, <1>6
  <1> QED  BY <1>0, <1>1, <1>3, <1>7 DEF after, ChangesOne

-----------------------------------------------------------------------------
(* Frames.                                                                 *)

\* The least number of a set.
LEMMA LeastIs ==
  ASSUME NEW S, S \subseteq Int, NEW m, m \in S, \A y \in S : m =< y
  PROVE  Min(S) = m
  <1> DEFINE least == Min(S)
  <1>1. least \in S /\ \A y \in S : least =< y
    BY Zenon DEF Min
  <1> HIDE DEF least
  <1>2. least \in Int /\ m \in Int
    BY <1>1
  <1>3. least =< m /\ m =< least
    BY <1>1
  <1>4. least = m
    BY <1>2, <1>3
  <1> QED  BY <1>4 DEF least

\* The length of a frame takes one byte or two.
LEMMA EncodedLength ==
  ASSUME NEW n, n \in Nat, n \div 128 < 128
  PROVE  encode_varint(n).bytes = IF n < 128 THEN <<n>> ELSE <<128 + (n % 128), n \div 128>>
  <1> DEFINE Coded(size) == [i \in 1 .. size |->
                            ((n \div Shift[i]) % Group) + (IF i < size THEN Group ELSE 0)]
  <1>1. PICK sizes : sizes = {k \in 1 .. MAX_VARINT_BYTES : n \div Shift[k] < Group}
    BY Zenon
  <1>2. /\ n \div Shift[1] = n /\ n \div Shift[2] = n \div 128
        /\ n \div Shift[1] < Group <=> n < 128
        /\ n \div Shift[2] < Group
    BY SMT DEF Shift, Group
  <1>3. 2 \in sizes /\ (1 \in sizes <=> n < 128) /\ sizes \subseteq 1..4
    BY <1>1, <1>2 DEF MAX_VARINT_BYTES
  <1>4. ASSUME NEW size, Min(sizes) = size
        PROVE  encode_varint(n).bytes = Coded(size)
    <2>1. sizes # {}
      BY <1>3
    <2>2. encode_varint(n) = [status |-> "ok", bytes |-> Coded(size)]
      BY <1>1, <1>4, <2>1, Zenon DEF encode_varint
    <2> HIDE DEF Coded
    <2> QED  BY <2>2
  <1>5. CASE n < 128
    <2>1. 1 \in sizes
      BY <1>3, <1>5
    <2>2. sizes \subseteq Int /\ \A y \in sizes : 1 =< y
      BY <1>3
    <2>3. Min(sizes) = 1
      BY <2>1, <2>2, LeastIs, Zenon
    <2>4. Coded(1) = <<n>>
      <3>1. n % 128 = n
        BY <1>5
      <3>2. Coded(1)[1] = n
        BY <1>2, <3>1 DEF Group
      <3> QED  BY <3>2
    <2> QED  BY <1>4, <1>5, <2>3, <2>4
  <1>6. CASE ~(n < 128)
    <2>1. 2 \in sizes
      BY <1>3
    <2>2. sizes \subseteq Int /\ \A y \in sizes : 2 =< y
      BY <1>3, <1>6
    <2>3. Min(sizes) = 2
      BY <2>1, <2>2, LeastIs, Zenon
    <2>4. Coded(2) = <<128 + (n % 128), n \div 128>>
      <3>1. Coded(2)[1] = 128 + (n % 128) /\ Coded(2)[2] = n \div 128
        BY <1>2, <1>6 DEF Group
      <3> QED  BY <3>1
    <2> QED  BY <1>4, <1>6, <2>3, <2>4
  <1> QED  BY <1>5, <1>6

\* A length that was read.
Found(consumed, value) == [status |-> "ok", consumed |-> consumed, value |-> value]

\* A length of one byte has no high bit.
LEMMA LengthOfOne ==
  ASSUME NEW data, NEW offset, offset \in Nat, offset + 1 <= Len(data),
         data[offset + 1] \in Byte, data[offset + 1] < 128
  PROVE  decode_varint(data, offset) = Found(1, data[offset + 1])
  <1> DEFINE part(size, i) == IF i <= size THEN (data[offset + i] % Group) * Shift[i] ELSE 0
             Value(size) == part(size, 1) + part(size, 2) + part(size, 3) + part(size, 4)
  <1>1. PICK last : last = {i \in 1 .. MAX_VARINT_BYTES :
                        offset + i <= Len(data) /\ data[offset + i] < Group}
    BY Zenon
  <1>2. 1 \in last /\ last \subseteq Int /\ \A y \in last : 1 =< y
    BY <1>1 DEF MAX_VARINT_BYTES, Group
  <1>3. Min(last) = 1
    BY <1>2, LeastIs, Zenon
  <1>4. Value(1) = data[offset + 1]
    <2>1. ASSUME NEW a, a \in Byte, a < 128, data[offset + 1] = a
          PROVE  Value(1) = a
      BY <2>1, SMT DEF Group, Shift, Byte
    <2> HIDE DEF Value
    <2> QED  BY <2>1, Zenon
  <1>5. last # {} => decode_varint(data, offset) =
           Found(Min(last), Value(Min(last)))
    BY <1>1, Zenon DEF decode_varint, Found
  <1> HIDE DEF Value
  <1> QED  BY <1>2, <1>3, <1>4, <1>5

\* A first byte with the high bit leaves the value to the second.
LEMMA LengthOfTwo ==
  ASSUME NEW data, NEW offset, offset \in Nat, offset + 2 <= Len(data), Len(data) \in Nat,
         data[offset + 1] \in Byte, data[offset + 1] >= 128, data[offset + 2] \in 0..127
  PROVE  decode_varint(data, offset) =
            Found(2, (data[offset + 1] - 128) + 128 * data[offset + 2])
  <1> DEFINE part(size, i) == IF i <= size THEN (data[offset + i] % Group) * Shift[i] ELSE 0
             Value(size) == part(size, 1) + part(size, 2) + part(size, 3) + part(size, 4)
  <1>1. PICK last : last = {i \in 1 .. MAX_VARINT_BYTES :
                        offset + i <= Len(data) /\ data[offset + i] < Group}
    BY Zenon
  <1> DEFINE a == data[offset + 1]
             b == data[offset + 2]
  <1>0. a \in 128..255 /\ b \in 0..127
    <2>1. PICK x \in Byte : x = a /\ x >= 128
      BY Zenon
    <2> HIDE DEF a
    <2> QED  BY <2>1 DEF Byte
  <1>2. data[offset + 2] < Group /\ ~(data[offset + 1] < Group)
    <2> HIDE DEF a, b
    <2>1. b < Group /\ ~(a < Group)
      BY <1>0 DEF Group
    <2> QED  BY <2>1, Zenon DEF a, b
  <1>3. 2 \in last /\ 1 \notin last /\ last \subseteq 1..4
    BY <1>1, <1>2 DEF MAX_VARINT_BYTES
  <1>4. last \subseteq Int /\ \A y \in last : 2 =< y
    BY <1>3
  <1>5. Min(last) = 2
    BY <1>3, <1>4, LeastIs, Zenon
  <1>6. Value(2) = (a - 128) + 128 * b
    <2>1. ASSUME NEW x, x \in 128..255, NEW y, y \in 0..127, a = x, b = y
          PROVE  Value(2) = (x - 128) + 128 * y
      BY <2>1, SMT DEF Group, Shift
    <2> HIDE DEF Value
    <2> QED  BY <1>0, <2>1, Zenon
  <1>7. last # {} => decode_varint(data, offset) =
           Found(Min(last), Value(Min(last)))
    BY <1>1, Zenon DEF decode_varint, Found
  <1> HIDE DEF Value
  <1> QED  BY <1>3, <1>5, <1>6, <1>7

\* While the last byte of a length has not arrived, it is incomplete.
LEMMA LengthMissing ==
  ASSUME NEW data, NEW offset, offset \in Nat, Len(data) \in Nat,
         \/ Len(data) <= offset
         \/ Len(data) = offset + 1 /\ ~(data[offset + 1] < 128)
  PROVE  decode_varint(data, offset) = Incomplete
  <1>1. PICK last : last = {i \in 1 .. MAX_VARINT_BYTES :
                        offset + i <= Len(data) /\ data[offset + i] < Group}
    BY Zenon
  <1>2. Len(data) < offset + MAX_VARINT_BYTES
    BY DEF MAX_VARINT_BYTES
  <1>3. ASSUME NEW i, i \in last
        PROVE  FALSE
    <2>1. offset + i <= Len(data) /\ data[offset + i] < 128 /\ i \in 1..4
      BY <1>1, <1>3 DEF MAX_VARINT_BYTES, Group
    <2>2. i = 1
      BY <2>1
    <2> QED  BY <2>1, <2>2
  <1>4. last = {}
    BY <1>3
  <1> QED  BY <1>1, <1>2, <1>4, Zenon DEF decode_varint

\* A function on 1..n is a sequence.
LEMMA SequenceOf ==
  ASSUME NEW S, NEW n, n \in Nat, NEW s, s \in [1..n -> S]
  PROVE  s \in Seq(S) /\ Len(s) = n
  <1>1. s \in Seq(S)
    BY SeqDef, Zenon
  <1>2. DOMAIN s = 1..Len(s) /\ Len(s) \in Nat /\ DOMAIN s = 1..n
    BY <1>1, LenProperties, Zenon
  <1> QED  BY <1>1, <1>2

\* What a byte counts, k places from the end of a number.
Place(k) == 256^k

LEMMA Places ==
  /\ Place(0) = 1
  /\ Place(1) = 256
  /\ Place(2) = 65536
  /\ Place(3) = 16777216
  <1>1. Place(0) = 1
    BY SMT DEF Place
  <1>2. Place(1) = 256
    BY SMT DEF Place
  <1>3. Place(2) = 65536
    BY SMT DEF Place
  <1>4. Place(3) = 16777216
    BY SMT DEF Place
  <1> QED  BY <1>1, <1>2, <1>3, <1>4

\* The numbers of a frame, highest byte first.
LEMMA TwoBytes ==
  ASSUME NEW n, n \in Nat
  PROVE  BigEndian(n, 2) = <<(n \div 256) % 256, n % 256>>
  <1>1. BigEndian(n, 2) = [i \in 1..2 |-> (n \div Place(2 - i)) % 256]
    BY DEF BigEndian, Place
  <1> QED  BY <1>1, Places

LEMMA FourBytes ==
  ASSUME NEW n, n \in Nat
  PROVE  BigEndian(n, 4) \in Seq(Byte) /\ Len(BigEndian(n, 4)) = 4
  <1> DEFINE byte(i) == (n \div Place(4 - i)) % 256
  <1>1. BigEndian(n, 4) = [i \in 1..4 |-> byte(i)]
    BY DEF BigEndian, Place
  <1>2. ASSUME NEW w, w \in {1, 256, 65536, 16777216}
        PROVE  (n \div w) % 256 \in Byte
    BY <1>2, SMT DEF Byte
  <1>3. \A i \in 1..4 : Place(4 - i) \in {1, 256, 65536, 16777216}
    BY Places, SMT
  <1>4. \A i \in 1..4 : byte(i) \in Byte
    BY <1>2, <1>3, SMT
  <1> HIDE DEF byte
  <1>5. BigEndian(n, 4) \in [1..4 -> Byte]
    BY <1>1, <1>4
  <1> QED  BY <1>5, SequenceOf

\* Where the flag of a frame is, behind the magic and the length.
HeadSize(n) == IF n < 128 THEN 5 ELSE 6

\* The data begins with a frame, or with a part of it: what is there of the
\* magic, of the length, of the flag, the command and the payload.
Begins(data, command, payload, flag) ==
    LET n == Len(payload) + 3
        head == HeadSize(n)
    IN  /\ \A i \in 1..4 : i <= Len(data) => data[i] = IF i = 4 THEN 3 ELSE 0
        /\ 5 <= Len(data) => data[5] = IF n < 128 THEN n ELSE 128 + (n % 128)
        /\ n >= 128 /\ 6 <= Len(data) => data[6] = n \div 128
        /\ head + 1 <= Len(data) => data[head + 1] = flag
        /\ head + 2 <= Len(data) => data[head + 2] = command \div 256
        /\ head + 3 <= Len(data) => data[head + 3] = command % 256
        /\ \A i \in DOMAIN payload : head + 3 + i <= Len(data) => data[head + 3 + i] = payload[i]

\* The bytes of a length are bytes.
LEMMA LengthBytes ==
  ASSUME NEW n, n \in Nat, n \div 128 < 128
  PROVE  /\ n < 128 => n \in Byte
         /\ 128 + (n % 128) \in Byte /\ n \div 128 \in Byte /\ n \div 128 \in 0..127
  BY SMT DEF Byte

\* What encode writes begins with the frame, and is as long as it.
LEMMA EncodedFrame ==
  ASSUME NEW command, command \in Nat, command \div 256 < 256,
         NEW payload, payload \in Seq(Byte), Len(payload) <= MAX_PAYLOAD_BYTES - 3,
         NEW flag, flag \in Byte
  PROVE  LET w == encode(Frame(command, payload, flag)).bytes
         IN  /\ w \in Seq(Byte) /\ Len(w) = HeadSize(Len(payload) + 3) + 3 + Len(payload)
             /\ Begins(w, command, payload, flag)
  <1> DEFINE n == Len(payload) + 3
             v == IF n < 128 THEN <<n>> ELSE <<128 + (n % 128), n \div 128>>
             two == <<command \div 256, command % 256>>
             body == <<flag>> \o two \o payload
             w == MAGIC \o v \o body
  <1>1. Len(payload) \in Nat /\ n \in Nat /\ n \div 128 < 128
    BY SMT DEF MAX_PAYLOAD_BYTES
  <1>2. BigEndian(command, 2) = two /\ two \in Seq(Byte)
    <2>1. (command \div 256) % 256 = command \div 256
      BY SMT
    <2>2. command \div 256 \in Byte /\ command % 256 \in Byte
      BY SMT DEF Byte
    <2> QED  BY <2>1, <2>2, TwoBytes
  <1>3. v \in Seq(Byte) /\ Len(v) = HeadSize(n) - 4
    <2>1. /\ n < 128 => n \in Byte
          /\ 128 + (n % 128) \in Byte /\ n \div 128 \in Byte
      BY <1>1, LengthBytes, Zenon
    <2> QED  BY <1>1, <2>1 DEF HeadSize
  <1>4. /\ body \in Seq(Byte) /\ Len(body) = n
        /\ body[1] = flag /\ body[2] = command \div 256 /\ body[3] = command % 256
        /\ \A i \in 1..Len(payload) : body[3 + i] = payload[i]
    BY <1>1, <1>2
  <1>5. encode(Frame(command, payload, flag)).bytes = w
    <2>1. encode_varint(Len(body)).bytes = v
      BY <1>1, <1>4, EncodedLength
    <2>2. ~(Len(payload) > MAX_PAYLOAD_BYTES)
      BY <1>1, SMT DEF MAX_PAYLOAD_BYTES
    <2>3. encode(Frame(command, payload, flag)) =
             [status |-> "ok", bytes |-> MAGIC \o encode_varint(Len(body)).bytes \o body]
      BY <1>2, <2>2 DEF encode, Frame
    <2> HIDE DEF v, body
    <2> QED  BY <2>1, <2>3
  <1>6. MAGIC \in Seq(Byte) /\ Len(MAGIC) = 4 /\ \A i \in 1..4 : MAGIC[i] = IF i = 4 THEN 3 ELSE 0
    BY DEF MAGIC, Byte
  <1>7. /\ n < 128 => v[1] = n
        /\ ~(n < 128) => v[1] = 128 + (n % 128) /\ v[2] = n \div 128
    BY <1>1
  <1> HIDE DEF v, two, body
  <1>8. /\ w \in Seq(Byte) /\ Len(w) = 4 + Len(v) + n
        /\ \A i \in 1..4 : w[i] = MAGIC[i]
        /\ \A i \in 1..Len(v) : w[4 + i] = v[i]
        /\ \A i \in 1..n : w[4 + Len(v) + i] = body[i]
    <2>1. MAGIC \in Seq(Byte) /\ v \in Seq(Byte) /\ body \in Seq(Byte)
      BY <1>3, <1>4, <1>6
    <2>2. /\ w \in Seq(Byte) /\ Len(w) = Len(MAGIC) + Len(v) + Len(body)
          /\ \A i \in 1..Len(MAGIC) : w[i] = MAGIC[i]
          /\ \A i \in 1..Len(v) : w[Len(MAGIC) + i] = v[i]
          /\ \A i \in 1..Len(body) : w[Len(MAGIC) + Len(v) + i] = body[i]
      BY <2>1
    <2> QED  BY <1>4, <1>6, <2>2, Zenon
  <1> HIDE DEF w
  <1>9. Begins(w, command, payload, flag)
    <2>1. 4 + Len(v) = HeadSize(n) /\ DOMAIN payload = 1..Len(payload)
      BY <1>3 DEF HeadSize
    <2>2. \A i \in 1..4 : w[i] = IF i = 4 THEN 3 ELSE 0
      BY <1>6, <1>8
    <2>3. w[5] = v[1] /\ (~(n < 128) => w[6] = v[2])
      BY <1>1, <1>3, <1>8 DEF HeadSize
    <2>4. \A i \in 1..n : w[HeadSize(n) + i] = body[i]
      BY <1>8, <2>1
    <2>5. /\ w[HeadSize(n) + 1] = flag
          /\ w[HeadSize(n) + 2] = command \div 256
          /\ w[HeadSize(n) + 3] = command % 256
      BY <1>1, <1>4, <2>4
    <2>6. \A i \in 1..Len(payload) : w[HeadSize(n) + 3 + i] = payload[i]
      <3> TAKE i \in 1..Len(payload)
      <3>1. 3 + i \in 1..n /\ HeadSize(n) + (3 + i) = HeadSize(n) + 3 + i
        BY <1>1 DEF HeadSize
      <3> QED  BY <1>4, <2>4, <3>1
    <2>7. w[5] = (IF n < 128 THEN n ELSE 128 + (n % 128)) /\ (n >= 128 => w[6] = n \div 128)
      BY <1>1, <1>7, <2>3
    <2>8. \A i \in DOMAIN payload : w[HeadSize(n) + 3 + i] = payload[i]
      BY <2>1, <2>6, Zenon
    <2> QED  BY <2>2, <2>5, <2>7, <2>8, Zenon DEF Begins
  <1> QED  BY <1>1, <1>3, <1>5, <1>8, <1>9 DEF HeadSize, w

\* What the reader makes of data that begins with a frame of that size.
ReadAs(data, f, size) ==
    decode_frame(data) =
       IF Len(data) < size THEN Incomplete
       ELSE [status |-> "ok", consumed |-> size, frame |-> f]

\* decode_frame reads the frame that data begins with, or waits for the rest.
LEMMA DecodedFrame ==
  ASSUME NEW command, command \in Nat, command \div 256 < 256,
         NEW payload, payload \in Seq(Byte), Len(payload) <= MAX_PAYLOAD_BYTES - 3,
         NEW flag, flag \in Byte,
         NEW data, data \in Seq(Byte), Begins(data, command, payload, flag)
  PROVE  ReadAs(data, Frame(command, payload, flag), HeadSize(Len(payload) + 3) + 3 + Len(payload))
  <1> DEFINE n == Len(payload) + 3
             head == HeadSize(n)
             length == decode_varint(data, 4)
  <1>1. /\ Len(payload) \in Nat /\ n \in Nat /\ n \div 128 < 128
        /\ Len(data) \in Nat /\ n <= MAX_PAYLOAD_BYTES /\ n >= 3
    BY SMT DEF MAX_PAYLOAD_BYTES
  <1>2. Len(MAGIC) = 4
    BY DEF MAGIC
  <1>5. /\ 5 <= Len(data) => data[5] = IF n < 128 THEN n ELSE 128 + (n % 128)
        /\ n >= 128 /\ 6 <= Len(data) => data[6] = n \div 128
        /\ head + 1 <= Len(data) => data[head + 1] = flag
        /\ head + 2 <= Len(data) => data[head + 2] = command \div 256
        /\ head + 3 <= Len(data) => data[head + 3] = command % 256
        /\ \A i \in DOMAIN payload : head + 3 + i <= Len(data) => data[head + 3 + i] = payload[i]
    BY Zenon DEF Begins
  <1>3. CASE Len(data) < 4
    <2>1. decode_frame(data) = Incomplete
      BY <1>2, <1>3, Zenon DEF decode_frame
    <2> QED  BY <1>1, <1>3, <2>1 DEF HeadSize, ReadAs
  <1>4. CASE ~(Len(data) < 4)
    <2>1. IsPrefix(MAGIC, data)
      <3>1. \A i \in 1..4 : data[i] = MAGIC[i]
        BY <1>1, <1>4 DEF Begins, MAGIC
      <3>2. MAGIC \in Seq(Byte)
        BY DEF MAGIC, Byte
      <3> QED  BY <1>1, <1>2, <1>4, <3>1, <3>2 DEF IsPrefix
    <2>2. IF Len(data) < head THEN length = Incomplete
          ELSE length = Found(head - 4, n)
      <3>0. 4 \in Nat
        OBVIOUS
      <3>1. CASE n < 128
        <4>1. n \in Byte
          BY <1>1, <3>1, LengthBytes, Zenon
        <4>2. ASSUME 5 <= Len(data)
              PROVE  length = Found(1, n)
          <5>1. 4 + 1 <= Len(data) /\ data[4 + 1] = n
            BY <1>5, <3>1, <4>2
          <5> HIDE DEF n
          <5>2. data[4 + 1] \in Byte /\ data[4 + 1] < 128
            BY <3>1, <4>1, <5>1, Zenon
          <5>3. length = Found(1, data[4 + 1])
            BY <3>0, <5>1, <5>2, LengthOfOne, Zenon
          <5> QED  BY <5>1, <5>3, Zenon
        <4>3. Len(data) <= 4 => length = Incomplete
          BY <1>1, <3>0, LengthMissing, Zenon
        <4> HIDE DEF length
        <4> QED  BY <1>1, <3>1, <4>2, <4>3 DEF HeadSize
      <3>2. CASE ~(n < 128)
        <4> DEFINE a == 128 + (n % 128)
                   b == n \div 128
        <4>1. a \in Byte /\ b \in 0..127
          BY <1>1, LengthBytes, Zenon
        <4>2. a >= 128 /\ ~(a < 128) /\ (a - 128) + 128 * b = n
          BY <1>1
        <4> HIDE DEF a, b
        <4>3. ASSUME 6 <= Len(data)
              PROVE  length = Found(2, n)
          <5>1. 4 + 2 <= Len(data) /\ data[4 + 1] = a /\ data[4 + 2] = b
            BY <1>1, <1>5, <3>0, <3>2, <4>3 DEF a, b
          <5> HIDE DEF n
          <5>2. data[4 + 1] \in Byte /\ data[4 + 1] >= 128 /\ data[4 + 2] \in 0..127
            BY <4>1, <4>2, <5>1, Zenon
          <5>3. length = Found(2, (data[4 + 1] - 128) + 128 * data[4 + 2])
            BY <1>1, <3>0, <5>1, <5>2, LengthOfTwo, Zenon
          <5> QED  BY <4>2, <5>1, <5>3, Zenon
        <4>4. ASSUME Len(data) <= 4 \/ Len(data) = 4 + 1
              PROVE  length = Incomplete
          <5>1. Len(data) = 4 + 1 => ~(data[4 + 1] < 128)
            BY <1>5, <3>0, <3>2, <4>2 DEF a
          <5> QED  BY <1>1, <3>0, <4>4, <5>1, LengthMissing, Zenon
        <4> HIDE DEF length
        <4>5. head = 6 /\ Len(data) \in Nat
          BY <1>1, <3>2 DEF HeadSize
        <4> HIDE DEF head, n
        <4>6. CASE 6 <= Len(data)
          BY <4>3, <4>5, <4>6
        <4>7. CASE ~(6 <= Len(data))
          <5>1. Len(data) <= 4 \/ Len(data) = 4 + 1
            <6>1. \A k \in Nat : 6 <= k \/ k <= 4 \/ k = 4 + 1
              BY SMT
            <6> QED  BY <4>5, <4>7, <6>1, Zenon
          <5>2. length = Incomplete
            BY <4>4, <5>1, Zenon
          <5> QED  BY <4>5, <4>7, <5>2
        <4> QED  BY <4>6, <4>7
      <3> QED  BY <3>1, <3>2
    <2>3. CASE Len(data) < head
      <3>1. length = Incomplete /\ length.status # "ok"
        BY <2>2, <2>3 DEF Incomplete
      <3> HIDE DEF length
      <3>2. decode_frame(data) = Incomplete
        BY <1>2, <1>4, <2>1, <3>1, Zenon DEF decode_frame, length
      <3> QED  BY <1>1, <2>3, <3>2 DEF HeadSize, ReadAs
    <2>4. CASE ~(Len(data) < head)
      <3>1. length.status = "ok" /\ length.consumed = head - 4 /\ length.value = n
        BY <2>2, <2>4 DEF Found
      <3> DEFINE end == 4 + length.consumed + length.value
      <3>2. end = head + n /\ 4 + length.consumed = head
        BY <1>1, <3>1 DEF HeadSize
      <3>3. ~(length.value > MAX_PAYLOAD_BYTES \/ length.value < 3)
        BY <1>1, <3>1, SMT DEF MAX_PAYLOAD_BYTES
      <3> HIDE DEF length
      <3>4. decode_frame(data) =
               IF Len(data) < head + n THEN Incomplete
               ELSE [status |-> "ok", consumed |-> head + n,
                     frame |-> Frame(FromBigEndian(SubSeq(data, head + 2, head + 3)),
                                     SubSeq(data, head + 4, head + n), data[head + 1])]
        BY <1>2, <1>4, <2>1, <3>1, <3>2, <3>3, Zenon DEF decode_frame, length
      <3>5. ASSUME ~(Len(data) < head + n)
            PROVE  /\ FromBigEndian(SubSeq(data, head + 2, head + 3)) = command
                   /\ SubSeq(data, head + 4, head + n) = payload
                   /\ data[head + 1] = flag
        <4>1. head \in {5, 6}
          BY DEF HeadSize
        <4>2. /\ data[head + 1] = flag
              /\ data[head + 2] = command \div 256 /\ data[head + 3] = command % 256
              /\ \A i \in 1..Len(payload) : data[head + 3 + i] = payload[i]
          <5>1. /\ head + 1 <= Len(data) /\ head + 2 <= Len(data) /\ head + 3 <= Len(data)
                /\ DOMAIN payload = 1..Len(payload)
                /\ \A i \in 1..Len(payload) : head + 3 + i <= Len(data)
            BY <1>1, <3>5, <4>1
          <5>2. /\ data[head + 1] = flag
                /\ data[head + 2] = command \div 256 /\ data[head + 3] = command % 256
            BY <1>5, <5>1, Zenon
          <5>3. \A i \in 1..Len(payload) : data[head + 3 + i] = payload[i]
            <6> TAKE i \in 1..Len(payload)
            <6>1. i \in DOMAIN payload /\ head + 3 + i <= Len(data)
              BY <5>1
            <6> QED  BY <1>5, <6>1, Zenon
          <5> QED  BY <5>2, <5>3
        <4> HIDE DEF head
        <4>3. FromBigEndian(SubSeq(data, head + 2, head + 3)) = 256 * (command \div 256) + (command % 256)
          BY <1>1, <3>5, <4>1, <4>2 DEF FromBigEndian
        <4>4. SubSeq(data, head + 4, head + n) = payload
          BY <1>1, <3>5, <4>1, <4>2
        <4> QED  BY <4>2, <4>3, <4>4
      <3>6. HeadSize(Len(payload) + 3) + 3 + Len(payload) = head + n
        BY <1>1 DEF HeadSize
      <3> QED  BY <3>4, <3>5, <3>6, Zenon DEF ReadAs
    <2> QED  BY <2>3, <2>4
  <1> QED  BY <1>3, <1>4

\* What agrees with a frame as far as both go begins with it.
LEMMA BeginsAlike ==
  ASSUME NEW command, NEW payload, payload \in Seq(Byte), NEW flag,
         NEW w, w \in Seq(Byte), Len(w) = HeadSize(Len(payload) + 3) + 3 + Len(payload),
         Begins(w, command, payload, flag),
         NEW data, data \in Seq(Byte), \A i \in 1..Len(w) : i <= Len(data) => data[i] = w[i]
  PROVE  Begins(data, command, payload, flag)
  <1> DEFINE n == Len(payload) + 3
             head == HeadSize(n)
  <1>1. /\ Len(payload) \in Nat /\ Len(data) \in Nat /\ DOMAIN payload = 1..Len(payload)
        /\ head \in {5, 6} /\ Len(w) = head + 3 + Len(payload) /\ (n >= 128 => head = 6)
    BY DEF HeadSize
  <1>2. /\ \A i \in 1..4 : w[i] = IF i = 4 THEN 3 ELSE 0
        /\ w[5] = (IF n < 128 THEN n ELSE 128 + (n % 128)) /\ (n >= 128 => w[6] = n \div 128)
        /\ w[head + 1] = flag /\ w[head + 2] = command \div 256 /\ w[head + 3] = command % 256
        /\ \A i \in DOMAIN payload : w[head + 3 + i] = payload[i]
    <2>1. /\ \A i \in 1..4 : i <= Len(w)
          /\ 5 <= Len(w) /\ (n >= 128 => 6 <= Len(w))
          /\ head + 1 <= Len(w) /\ head + 2 <= Len(w) /\ head + 3 <= Len(w)
          /\ \A i \in DOMAIN payload : head + 3 + i <= Len(w)
      BY <1>1
    <2> QED  BY <2>1 DEF Begins
  <1>3. /\ \A i \in 1..4 : i \in 1..Len(w)
        /\ 5 \in 1..Len(w) /\ (n >= 128 => 6 \in 1..Len(w))
        /\ head + 1 \in 1..Len(w) /\ head + 2 \in 1..Len(w) /\ head + 3 \in 1..Len(w)
        /\ \A i \in DOMAIN payload : head + 3 + i \in 1..Len(w)
    BY <1>1
  <1> HIDE DEF n, head
  <1>4. /\ \A i \in 1..4 : i <= Len(data) => data[i] = IF i = 4 THEN 3 ELSE 0
        /\ 5 <= Len(data) => data[5] = IF n < 128 THEN n ELSE 128 + (n % 128)
        /\ n >= 128 /\ 6 <= Len(data) => data[6] = n \div 128
        /\ head + 1 <= Len(data) => data[head + 1] = flag
        /\ head + 2 <= Len(data) => data[head + 2] = command \div 256
        /\ head + 3 <= Len(data) => data[head + 3] = command % 256
        /\ \A i \in DOMAIN payload : head + 3 + i <= Len(data) => data[head + 3 + i] = payload[i]
    <2>1. \A i \in 1..4 : i <= Len(data) => data[i] = IF i = 4 THEN 3 ELSE 0
      <3> TAKE i \in 1..4
      <3>1. i <= Len(data) => data[i] = w[i]
        BY <1>3, Zenon
      <3>2. w[i] = IF i = 4 THEN 3 ELSE 0
        BY <1>2
      <3> QED  BY <3>1, <3>2
    <2>2. /\ 5 <= Len(data) => data[5] = IF n < 128 THEN n ELSE 128 + (n % 128)
          /\ n >= 128 /\ 6 <= Len(data) => data[6] = n \div 128
      <3>1. 5 <= Len(data) => data[5] = w[5]
        BY <1>3, Zenon
      <3>2. n >= 128 /\ 6 <= Len(data) => data[6] = w[6]
        BY <1>3, Zenon
      <3> QED  BY <1>2, <3>1, <3>2
    <2>3. /\ head + 1 <= Len(data) => data[head + 1] = flag
          /\ head + 2 <= Len(data) => data[head + 2] = command \div 256
          /\ head + 3 <= Len(data) => data[head + 3] = command % 256
      <3>1. /\ head + 1 <= Len(data) => data[head + 1] = w[head + 1]
            /\ head + 2 <= Len(data) => data[head + 2] = w[head + 2]
            /\ head + 3 <= Len(data) => data[head + 3] = w[head + 3]
        BY <1>3, Zenon
      <3> QED  BY <1>2, <3>1
    <2>4. \A i \in DOMAIN payload : head + 3 + i <= Len(data) => data[head + 3 + i] = payload[i]
      <3> TAKE i \in DOMAIN payload
      <3>1. head + 3 + i <= Len(data) => data[head + 3 + i] = w[head + 3 + i]
        BY <1>3, Zenon
      <3>2. w[head + 3 + i] = payload[i]
        BY <1>2
      <3> QED  BY <3>1, <3>2
    <2> QED  BY <2>1, <2>2, <2>3, <2>4
  <1> QED  BY <1>4 DEF Begins, n, head

\* A frame that was encoded is the frame that is decoded, whatever follows it on
\* the stream, and takes exactly its own bytes; as long as a byte of it has not
\* arrived, the reader waits.  This is what FrameReader.feed relies on when it
\* cuts a stream into frames (Frame.encode, decode_frame).
THEOREM FrameSurvives ==
  ASSUME NEW command, command \in Nat, command \div 256 < 256,
         NEW payload, payload \in Seq(Byte), Len(payload) <= MAX_PAYLOAD_BYTES - 3,
         NEW flag, flag \in Byte
  PROVE  LET f == Frame(command, payload, flag)
             w == encode(f).bytes
         IN  /\ \A rest \in Seq(Byte) :
                  decode_frame(w \o rest) = [status |-> "ok", consumed |-> Len(w), frame |-> f]
             /\ \A k \in 0 .. Len(w) - 1 : decode_frame(SubSeq(w, 1, k)) = Incomplete
  <1> DEFINE f == Frame(command, payload, flag)
             w == encode(f).bytes
             size == HeadSize(Len(payload) + 3) + 3 + Len(payload)
  <1>1. w \in Seq(Byte) /\ Len(w) = size /\ Begins(w, command, payload, flag)
    BY EncodedFrame, Zenon
  <1>2. ASSUME NEW data, data \in Seq(Byte), \A i \in 1..Len(w) : i <= Len(data) => data[i] = w[i]
        PROVE  ReadAs(data, f, size)
    <2> HIDE DEF w
    <2>1. Begins(data, command, payload, flag)
      BY <1>1, <1>2, BeginsAlike, Zenon
    <2> QED  BY <1>2, <2>1, DecodedFrame, Zenon
  <1> HIDE DEF w, size
  <1>3. Len(w) \in Nat
    BY <1>1
  <1>4. ASSUME NEW rest, rest \in Seq(Byte)
        PROVE  decode_frame(w \o rest) = [status |-> "ok", consumed |-> Len(w), frame |-> f]
    <2>1. w \o rest \in Seq(Byte) /\ \A i \in 1..Len(w) : (w \o rest)[i] = w[i]
      BY <1>1, <1>4
    <2>2. ~(Len(w \o rest) < size)
      BY <1>1, <1>3, <1>4
    <2>3. ReadAs(w \o rest, f, size)
      BY <1>2, <2>1, Zenon
    <2> QED  BY <1>1, <2>2, <2>3, Zenon DEF ReadAs
  <1>5. ASSUME NEW k, k \in 0 .. Len(w) - 1
        PROVE  decode_frame(SubSeq(w, 1, k)) = Incomplete
    <2> DEFINE part == SubSeq(w, 1, k)
    <2>1. part \in Seq(Byte) /\ Len(part) = k /\ \A i \in 1..k : part[i] = w[i]
      BY <1>1, <1>3, <1>5
    <2>2. Len(part) < size /\ \A i \in 1..Len(w) : i <= Len(part) => part[i] = w[i]
      BY <1>1, <1>3, <1>5, <2>1
    <2> HIDE DEF part
    <2>3. ReadAs(part, f, size)
      BY <1>2, <2>1, <2>2, Zenon
    <2> QED  BY <2>2, <2>3, Zenon DEF part, ReadAs
  <1> QED  BY <1>4, <1>5, Zenon DEF w

-----------------------------------------------------------------------------
(* Writes, from the command to the block of the controller.                *)

\* The actions of the pool.
Written == DOMAIN _ACTION_DATAPOINTS

\* What a layout offers of the actions of the pool is what it may write.
LEMMA OfferedIsWritable ==
  ASSUME NEW p, NEW action, action \in Written, NEW param
  PROVE  required_capability_for(action, param) \in Offered(p)
            <=> may_write(p, _ACTION_DATAPOINTS[action])
  <1> DEFINE d == _ACTION_DATAPOINTS[action]
             c == required_capability_for(action, param)
  <1>1. /\ d \in DOMAIN _WRITE_CAPABILITIES /\ c = _WRITE_CAPABILITIES[d]
        /\ c # "CURRENT_TEMPERATURE"
        /\ \A x \in DOMAIN _WRITE_CAPABILITIES : _WRITE_CAPABILITIES[x] = c => x = d
    BY DEF Written, _ACTION_DATAPOINTS, _WRITE_CAPABILITIES, required_capability_for, ACTION_SPECS,
           Action, OnOffActions
  <1> HIDE DEF d, c
  <1>2. c \in capabilities(p) <=> may_write(p, d)
    BY <1>1 DEF capabilities
  <1> QED  BY <1>1, <1>2 DEF Offered, may_write, d, c

\* The value of a command is a byte, or rejected for being out of range.
Fits(p, action, param, base) ==
    LET value == value_for(p, action, param, base)
    IN  /\ action # "SET_TARGET_TEMPERATURE" => value \in {0, 1}
        /\ action = "SET_TARGET_TEMPERATURE" =>
             IF param \in p.min .. p.max
             THEN /\ value = from_celsius(param, Fahrenheit(decode(p, base)))
                  /\ value \in Byte /\ param \in Int
             ELSE value = Rejected

LEMMA ValueFits ==
  ASSUME NEW p, ValidProfile(p), p.min \in Int, p.max \in Int,
         NEW action, action \in Written, NEW param, param \in ParamsModel(action), NEW base
  PROVE  Fits(p, action, param, base)
  <1>1. CASE action # "SET_TARGET_TEMPERATURE"
    <2>1. action \in OnOffActions
      BY <1>1 DEF Written, _ACTION_DATAPOINTS, OnOffActions
    <2>2. value_for(p, action, param, base) = param
      BY <2>1, Zenon DEF value_for
    <2>3. param \in {0, 1}
      BY <2>1, SMT DEF ParamsModel, On, Off, OnOffActions
    <2> QED  BY <1>1, <2>2, <2>3 DEF Fits
  <1>2. CASE action = "SET_TARGET_TEMPERATURE"
    <2>1. action \notin OnOffActions /\ param \in 0..6000
      BY <1>2 DEF OnOffActions, ParamsModel
    <2>2. from_celsius(param, Fahrenheit(decode(p, base))) \in Byte
      <3>1. PICK c \in 0..6000 : c = param
        BY <2>1
      <3>2. RoundDiv(c * 9 + 32 * 500, 500) \in Byte /\ RoundDiv(c, 100) \in Byte
        BY SMT DEF RoundDiv, Byte
      <3>3. \/ from_celsius(c, Fahrenheit(decode(p, base))) = RoundDiv(c * 9 + 32 * 500, 500)
            \/ from_celsius(c, Fahrenheit(decode(p, base))) = RoundDiv(c, 100)
        BY SMT DEF from_celsius
      <3> QED  BY <3>1, <3>2, <3>3
    <2>3. value_for(p, action, param, base) =
            IF param < p.min \/ param > p.max THEN Rejected
            ELSE from_celsius(param, Fahrenheit(decode(p, base)))
      BY <2>1 DEF value_for
    <2> QED  BY <1>2, <2>1, <2>2, <2>3 DEF Fits
  <1> QED  BY <1>1, <1>2

\* 2^b, for the sixteen flags.
FlagOf(b) == 2^b

\* The powers of two, as far as the flags go.
Power(x) ==
    CASE x = 0 -> 1 [] x = 1 -> 2 [] x = 2 -> 4 [] x = 3 -> 8 [] x = 4 -> 16 [] x = 5 -> 32
      [] x = 6 -> 64 [] x = 7 -> 128 [] x = 8 -> 256 [] x = 9 -> 512 [] x = 10 -> 1024
      [] x = 11 -> 2048 [] x = 12 -> 4096 [] x = 13 -> 8192 [] x = 14 -> 16384 [] x = 15 -> 32768

LEMMA FlagPower ==
  \A x \in 0..15 : FlagOf(x) = Power(x)
  <1>1. FlagOf(0) = 1 /\ FlagOf(1) = 2 /\ FlagOf(2) = 4 /\ FlagOf(3) = 8
    BY SMT DEF FlagOf
  <1>2. FlagOf(4) = 16 /\ FlagOf(5) = 32 /\ FlagOf(6) = 64 /\ FlagOf(7) = 128
    BY SMT DEF FlagOf
  <1>3. FlagOf(8) = 256 /\ FlagOf(9) = 512 /\ FlagOf(10) = 1024 /\ FlagOf(11) = 2048
    BY SMT DEF FlagOf
  <1>4. FlagOf(12) = 4096 /\ FlagOf(13) = 8192 /\ FlagOf(14) = 16384 /\ FlagOf(15) = 32768
    BY SMT DEF FlagOf
  <1> QED  BY <1>1, <1>2, <1>3, <1>4, SMT DEF Power

\* The flags a request can have.
OneFlag == {1, 2, 4, 8, 16, 32, 64, 128, 256, 512, 1024, 2048, 4096, 8192, 16384, 32768}

\* Every flag of a layout is one of them.
LEMMA FlagRange ==
  ASSUME NEW b, b \in 0..15
  PROVE  FlagOf(b) \in OneFlag
  <1>1. FlagOf(b) = Power(b)
    BY FlagPower, Zenon
  <1>2. Power(b) \in OneFlag
    BY SMT DEF Power, OneFlag
  <1> QED  BY <1>1, <1>2

\* The flags of a request name one datapoint.
LEMMA FlagName ==
  ASSUME NEW b, b \in 0..15, NEW x, x \in 0..15
  PROVE  BitOf(FlagOf(b), x) = IF x = b THEN 1 ELSE 0
  <1>1. FlagOf(b) = Power(b) /\ FlagOf(x) = Power(x)
    BY FlagPower, Zenon
  <1>2. (Power(b) \div Power(x)) % 2 = IF x = b THEN 1 ELSE 0
    BY SMTT(60) DEF Power
  <1>3. BitOf(FlagOf(b), x) = (FlagOf(b) \div FlagOf(x)) % 2
    BY DEF BitOf, FlagOf
  <1> QED  BY <1>1, <1>2, <1>3, Zenon

\* The largest number of an interval.
LEMMA GreatestIs ==
  ASSUME NEW a, a \in Int, NEW b, b \in Int, a <= b
  PROVE  Max(a .. b) = b
  <1> DEFINE greatest == Max(a .. b)
  <1>1. greatest \in a .. b /\ \A y \in a .. b : greatest >= y
    <2>1. \E x \in a .. b : \A y \in a .. b : x >= y
      <3>1. b \in a .. b /\ \A y \in a .. b : b >= y
        OBVIOUS
      <3> QED  BY <3>1
    <2> QED  BY <2>1, Zenon DEF Max
  <1> HIDE DEF greatest
  <1>2. greatest \in Int /\ greatest >= b /\ greatest <= b
    BY <1>1
  <1>3. greatest = b
    BY <1>2
  <1> QED  BY <1>3 DEF greatest

\* When the layout and the block allow a write, encode_control gives the flags and
\* the values of a request; otherwise it refuses.
LEMMA EncodesIff ==
  ASSUME NEW p, SoundLayout(p), NEW base, base \in Seq(Byte), NEW d, may_write(p, d),
         NEW value, value \in Byte, p.locations[d].kind = "bit" => value \in {0, 1}
  PROVE  LET start == p.control_offset
             length == p.control_length
             l == p.locations[d]
             control == encode_control(p, d, value, base)
         IN  IF /\ Nowhere \notin {start, length} /\ start + length <= Len(base)
                /\ l.offset - start \in 0 .. length - 1
             THEN /\ control # Rejected
                  /\ control.flags = FlagOf(p.flag_bits[d])
                  /\ control.values \in Seq(Byte) /\ Len(control.values) = length
                  /\ 1 <= length /\ length <= MAX_PAYLOAD_BYTES - 10
             ELSE control = Rejected
  <1> DEFINE start == p.control_offset
             length == p.control_length
             l == p.locations[d]
             block == SubSeq(base, start + 1, start + length)
             place == l.offset - start + 1
             byte == block[place]
             changed == IF l.kind = "bit" THEN byte + (value - BitOf(byte, l.bit)) * 2^l.bit
                        ELSE value
             control == encode_control(p, d, value, base)
             Room == /\ start # Nowhere /\ length # Nowhere /\ ~(Len(base) < start + length)
                     /\ ~(l.offset - start \notin 0 .. length - 1)
  <1>1. d \in DOMAIN p.flag_bits /\ d \in DOMAIN p.locations /\ p.flag_bits[d] \in 0..15
    BY DEF SoundLayout, ValidProfile, may_write
  <1>2. Layout(p)
    BY SoundIsLayout
  <1>3. ASSUME Room
        PROVE  /\ control = [flags |-> FlagOf(p.flag_bits[d]),
                              values |-> [block EXCEPT ![place] = changed]]
               /\ [block EXCEPT ![place] = changed] \in Seq(Byte)
               /\ Len([block EXCEPT ![place] = changed]) = length
               /\ 1 <= length /\ length <= MAX_PAYLOAD_BYTES - 10
    <2>1. /\ start \in Nat /\ length \in Nat /\ l.offset \in Nat /\ l.bit \in 0..7
          /\ place \in 1..length /\ start + length <= Len(base)
          /\ l.kind \in {"byte", "bit"}
      BY <1>1, <1>2, <1>3 DEF Layout
    <2>2. block \in Seq(Byte) /\ Len(block) = length
      BY <2>1
    <2> HIDE DEF block, place
    <2>3. byte \in Byte
      BY <2>1, <2>2
    <2>4. changed \in Byte
      BY <2>1, <2>3, BitReplaced, Zenon
    <2>5. control = [flags |-> 2^p.flag_bits[d], values |-> [block EXCEPT ![place] = changed]]
      BY <1>1, <1>3, <2>4, Zenon DEF encode_control, block, place
    <2> HIDE DEF changed
    <2>6. [block EXCEPT ![place] = changed] \in Seq(Byte)
          /\ Len([block EXCEPT ![place] = changed]) = length
      BY <2>1, <2>2, <2>4
    <2>7. 1 <= length /\ length <= MAX_PAYLOAD_BYTES - 10
      <3>1. length \in (0 .. MAX_PAYLOAD_BYTES - 10) \cup {Nowhere}
        BY Zenon DEF SoundLayout
      <3>2. MAX_PAYLOAD_BYTES - 10 \in Int
        BY SMT DEF MAX_PAYLOAD_BYTES
      <3> QED  BY <1>3, <2>1, <3>1, <3>2
    <2> QED  BY <2>5, <2>6, <2>7, Zenon DEF FlagOf
  <1>4. ASSUME ~Room
        PROVE  control = Rejected
    BY <1>4, Zenon DEF encode_control
  <1> HIDE DEF block, place, changed, control
  <1>5. ASSUME Room
        PROVE  /\ control # Rejected
               /\ control.flags = FlagOf(p.flag_bits[d])
               /\ control.values \in Seq(Byte) /\ Len(control.values) = length
               /\ 1 <= length /\ length <= MAX_PAYLOAD_BYTES - 10
    <2> DEFINE values == [block EXCEPT ![place] = changed]
    <2>1. /\ control = [flags |-> FlagOf(p.flag_bits[d]), values |-> values]
          /\ values \in Seq(Byte) /\ Len(values) = length
          /\ 1 <= length /\ length <= MAX_PAYLOAD_BYTES - 10
      BY <1>3, <1>5, Zenon
    <2> HIDE DEF values
    <2>2. FlagOf(p.flag_bits[d]) \in Nat
      <3>1. FlagOf(p.flag_bits[d]) \in OneFlag
        BY <1>1, FlagRange, Zenon
      <3> QED  BY <3>1, SMT DEF OneFlag
    <2>3. control \in [flags : Nat, values : Seq(Byte)]
      BY <2>1, <2>2
    <2>4. control # Rejected
      BY <2>3, ErrorsAreNoValues, Zenon
    <2>5. control.flags = FlagOf(p.flag_bits[d]) /\ control.values = values
      BY <2>1
    <2> QED  BY <2>1, <2>4, <2>5, Zenon
  <1>6. Room <=> /\ Nowhere \notin {start, length} /\ start + length <= Len(base)
                 /\ l.offset - start \in 0 .. length - 1
    <2>1. ASSUME start # Nowhere, length # Nowhere
          PROVE  start + length <= Len(base) <=> ~(Len(base) < start + length)
      BY <1>2, <2>1 DEF Layout
    <2> QED  BY <2>1
  <1> HIDE DEF Room
  <1> QED  BY <1>4, <1>5, <1>6, Zenon DEF control

\* build_control_payload, with flags and values it accepts.
LEMMA Built ==
  ASSUME NEW sequence, NEW flags, flags \in OneFlag, NEW values, values # <<>>
  PROVE  build_control_payload(sequence, flags, values) =
            [status |-> "ok",
             bytes |-> BigEndian(sequence, 4) \o <<CONTROL>> \o BigEndian(flags, 2) \o values]
  <1> DEFINE limit == 65535
  <1>1. flags \in 0 .. limit
    BY SMT DEF OneFlag
  <1> DEFINE result == [status |-> "ok", bytes |-> BigEndian(sequence, 4) \o <<CONTROL>>
                                                   \o BigEndian(flags, 2) \o values]
  <1>2. build_control_payload(sequence, flags, values) =
           IF flags \notin 0 .. limit \/ values = <<>> THEN Malformed ELSE result
    BY DEF build_control_payload
  <1> HIDE DEF result, limit
  <1>3. build_control_payload(sequence, flags, values) = result
    BY <1>1, <1>2, Zenon
  <1> QED  BY <1>3 DEF result

\* Four parts put together, as the payload of a control request is.
JoinedFrom(s, a, b, c, v) ==
    LET before == Len(a) + Len(b)
    IN  /\ s \in Seq(Byte) /\ Len(s) = before + Len(c) + Len(v)
        /\ \A i \in 1..Len(c) : s[before + i] = c[i]
        /\ \A i \in 1..Len(v) : s[before + Len(c) + i] = v[i]

LEMMA Joined ==
  ASSUME NEW a, a \in Seq(Byte), NEW b, b \in Seq(Byte),
         NEW c, c \in Seq(Byte), NEW v, v \in Seq(Byte)
  PROVE  JoinedFrom(a \o b \o c \o v, a, b, c, v)
  BY DEF JoinedFrom

\* A control request as it is sent carries the flags and the values.
Carries(sequence, flags, values) ==
    LET payload == build_control_payload(sequence, flags, values).bytes
        bytes == encode(Frame(CONTROL_REQUEST, payload, 0)).bytes
    IN  /\ decode_frame(bytes).frame = Frame(CONTROL_REQUEST, payload, 0)
        /\ FromBigEndian(SubSeq(payload, 6, 7)) = flags
        /\ SubSeq(payload, 8, Len(payload)) = values

LEMMA RequestCarries ==
  ASSUME NEW sequence, sequence \in Nat, NEW flags, flags \in OneFlag,
         NEW values, values \in Seq(Byte), 1 <= Len(values), Len(values) <= MAX_PAYLOAD_BYTES - 10
  PROVE  Carries(sequence, flags, values)
  <1> DEFINE four == BigEndian(sequence, 4)
             two == <<(flags \div 256) % 256, flags % 256>>
             payload == build_control_payload(sequence, flags, values).bytes
             bytes == encode(Frame(CONTROL_REQUEST, payload, 0)).bytes
  <1>1. flags \in Nat /\ flags \div 256 < 256 /\ flags \div 256 >= 0
        /\ 256 * (flags \div 256) + (flags % 256) = flags
    BY SMT DEF OneFlag
  <1>2. four \in Seq(Byte) /\ Len(four) = 4
    BY FourBytes, Zenon
  <1>3. two \in Seq(Byte) /\ Len(two) = 2 /\ two = BigEndian(flags, 2)
        /\ 256 * two[1] + two[2] = flags
    <2>1. (flags \div 256) % 256 \in Byte /\ flags % 256 \in Byte
      BY <1>1, SMT DEF Byte
    <2>2. (flags \div 256) % 256 = flags \div 256
      BY <1>1, SMT
    <2>3. two = BigEndian(flags, 2)
      BY <1>1, TwoBytes, Zenon
    <2> QED  BY <1>1, <2>1, <2>2, <2>3
  <1>4. payload = four \o <<CONTROL>> \o two \o values
    <2>1. values # <<>>
      OBVIOUS
    <2>3. build_control_payload(sequence, flags, values) =
             [status |-> "ok",
              bytes |-> BigEndian(sequence, 4) \o <<CONTROL>> \o BigEndian(flags, 2) \o values]
      BY <2>1, Built, Zenon
    <2> HIDE DEF two
    <2>4. payload = BigEndian(sequence, 4) \o <<CONTROL>> \o BigEndian(flags, 2) \o values
      BY <2>3
    <2> QED  BY <1>3, <2>4, Zenon
  <1> HIDE DEF four, two, payload
  <1>5. CONTROL \in Byte
    BY SMT DEF CONTROL, Byte
  <1>6. /\ payload \in Seq(Byte) /\ Len(payload) = 7 + Len(values)
        /\ payload[6] = two[1] /\ payload[7] = two[2]
        /\ \A i \in 1..Len(values) : payload[7 + i] = values[i]
    <2>1. <<CONTROL>> \in Seq(Byte) /\ Len(<<CONTROL>>) = 1
      BY <1>5
    <2> DEFINE one == <<CONTROL>>
    <2>2. payload = four \o one \o two \o values
      BY <1>4
    <2> HIDE DEF one
    <2>3. one \in Seq(Byte) /\ Len(one) = 1
      BY <2>1 DEF one
    <2>4. JoinedFrom(payload, four, one, two, values)
      <3>1. two \in Seq(Byte)
        BY <1>3
      <3> QED  BY <1>2, <2>2, <2>3, <3>1, Joined, Zenon
    <2>5. Len(four) = 4 /\ Len(one) = 1 /\ Len(two) = 2
      BY <1>2, <1>3, <2>3
    <2> QED  BY <2>4, <2>5 DEF JoinedFrom
  <1>7. SubSeq(payload, 8, Len(payload)) = values
    BY <1>6
  <1>8. FromBigEndian(SubSeq(payload, 6, 7)) = flags
    <2>1. SubSeq(payload, 6, 7)[1] = payload[6] /\ SubSeq(payload, 6, 7)[2] = payload[7]
      BY <1>6
    <2> QED  BY <1>3, <1>6, <2>1 DEF FromBigEndian
  <1>9. /\ CONTROL_REQUEST \in Nat /\ CONTROL_REQUEST \div 256 < 256 /\ 0 \in Byte
        /\ Len(payload) <= MAX_PAYLOAD_BYTES - 3
    <2>1. MAX_PAYLOAD_BYTES \in Int
      BY SMT DEF MAX_PAYLOAD_BYTES
    <2>2. Len(payload) <= MAX_PAYLOAD_BYTES - 3
      BY <1>6, <2>1
    <2> QED  BY <2>2, SMT DEF CONTROL_REQUEST, Byte
  <1>10. bytes \in Seq(Byte)
    BY <1>6, <1>9, EncodedFrame, Zenon
  <1>11. decode_frame(bytes \o <<>>) =
           [status |-> "ok", consumed |-> Len(bytes), frame |-> Frame(CONTROL_REQUEST, payload, 0)]
    <2>1. <<>> \in Seq(Byte)
      OBVIOUS
    <2> QED  BY <1>6, <1>9, <2>1, FrameSurvives, Zenon
  <1> HIDE DEF bytes
  <1>12. decode_frame(bytes).frame = Frame(CONTROL_REQUEST, payload, 0)
    <2>1. bytes \o <<>> = bytes
      BY <1>10
    <2> HIDE DEF Frame
    <2> QED  BY <1>11, <2>1
  <1> QED  BY <1>7, <1>8, <1>12, Zenon DEF bytes, payload, Carries

\* A block that can hold the value of a datapoint.
LEMMA BlockHolds ==
  ASSUME NEW start, NEW length, NEW offset, offset \in Nat, NEW size, size \in Nat,
         start \in Nat \cup {Nowhere}, length \in Nat \cup {Nowhere}
  PROVE  LET held == IF Nowhere \in {start, length} THEN {} ELSE start .. start + length - 1
         IN  (offset \in held /\ Max(held) < size)
               <=> /\ Nowhere \notin {start, length} /\ start + length <= size
                   /\ offset - start \in 0 .. length - 1
  <1> DEFINE held == IF Nowhere \in {start, length} THEN {} ELSE start .. start + length - 1
  <1>1. CASE Nowhere \in {start, length}
    BY <1>1
  <1>2. CASE Nowhere \notin {start, length}
    <2>1. start \in Nat /\ length \in Nat
      BY <1>2
    <2>2. held = start .. start + length - 1
      BY <1>2
    <2> HIDE DEF held
    <2>3. offset \in held <=> offset - start \in 0 .. length - 1
      BY <2>1, <2>2
    <2>4. ASSUME offset \in held
          PROVE  Max(held) = start + length - 1
      <3>1. start \in Int /\ start + length - 1 \in Int /\ start <= start + length - 1
        BY <2>1, <2>2, <2>4
      <3> QED  BY <2>2, <3>1, GreatestIs, Zenon
    <2>5. offset \in held => (Max(held) < size <=> start + length <= size)
      BY <2>1, <2>4
    <2> QED  BY <1>2, <2>3, <2>5 DEF held
  <1> QED  BY <1>1, <1>2

\* What a write becomes is what WriteArrivesAsMeant says of it.
LEMMA WriteArrives ==
  ASSUME NEW w, w \in Writes
  PROVE  ArrivesAsMeant(w, Request(w.profile, w.action, w.param, w.base, w.sequence))
  <1> DEFINE p == w.profile
             base == w.base
             d == _ACTION_DATAPOINTS[w.action]
             value == value_for(p, w.action, w.param, base)
             l == p.locations[d]
             control == encode_control(p, d, value, base)
             payload == build_control_payload(w.sequence, control.flags, control.values).bytes
             bytes == encode(Frame(CONTROL_REQUEST, payload, 0)).bytes
             result == Request(p, w.action, w.param, base, w.sequence)
             InRange == w.action = "SET_TARGET_TEMPERATURE" => w.param \in p.min .. p.max
             Room == /\ Nowhere \notin {p.control_offset, p.control_length}
                     /\ p.control_offset + p.control_length <= Len(base)
                     /\ l.offset - p.control_offset \in 0 .. p.control_length - 1
             held == IF Nowhere \in {p.control_offset, p.control_length} THEN {}
                     ELSE p.control_offset .. p.control_offset + p.control_length - 1
             Readable == decode(p, base) # ProfileError
             allowed == /\ l.offset \in held /\ Max(held) < Len(base)
                        /\ required_capability_for(w.action, w.param) \in Offered(p)
                        /\ Readable /\ InRange
  <1>1. /\ SoundLayout(p) /\ base \in Seq(Byte) /\ w.sequence \in Nat
        /\ w.action \in Written /\ w.param \in ParamsModel(w.action)
    BY WritesAssumption, Zenon DEF Written
  <1>2. result = IF ~Readable THEN Unreadable ELSE IF value = Rejected \/ control = Rejected
                 THEN Rejected ELSE bytes
    BY <1>1, Zenon DEF Request, Written
  <1>3. ValidProfile(p) /\ p.min \in Int /\ p.max \in Int
    BY <1>1, Zenon DEF SoundLayout
  <1>4. /\ w.action # "SET_TARGET_TEMPERATURE" => value \in {0, 1}
        /\ w.action = "SET_TARGET_TEMPERATURE" =>
             IF w.param \in p.min .. p.max THEN value \in Byte ELSE value = Rejected
    <2>1. Fits(p, w.action, w.param, base)
      BY <1>1, <1>3, ValueFits, Zenon
    <2> QED  BY <2>1, Zenon DEF Fits
  <1>5. ~InRange => value = Rejected
    BY <1>4
  <1>6. required_capability_for(w.action, w.param) \in Offered(p) <=> may_write(p, d)
    BY <1>1, OfferedIsWritable, Zenon
  <1>7. ASSUME ~may_write(p, d)
        PROVE  control = Rejected
    BY <1>7, Zenon DEF encode_control
  <1>8. ASSUME may_write(p, d)
        PROVE  /\ d \in DOMAIN p.locations /\ d \in DOMAIN p.flag_bits
               /\ (l.offset \in held /\ Max(held) < Len(base)) <=> Room
    <2>1. d \in DOMAIN p.locations /\ d \in DOMAIN p.flag_bits
      BY <1>3, <1>8 DEF ValidProfile, may_write
    <2>2. Layout(p)
      BY <1>1, SoundIsLayout, Zenon
    <2>3. /\ l.offset \in Nat /\ Len(base) \in Nat
          /\ p.control_offset \in Nat \cup {Nowhere} /\ p.control_length \in Nat \cup {Nowhere}
      BY <1>1, <2>1, <2>2 DEF Layout
    <2>4. (l.offset \in held /\ Max(held) < Len(base)) <=> Room
      BY <2>3, BlockHolds, Zenon
    <2> QED  BY <2>1, <2>4, Zenon
  <1>9. ASSUME may_write(p, d), InRange
        PROVE  /\ value \in Byte /\ value # Rejected
               /\ l.kind = "bit" => value \in {0, 1}
    <2>1. value \in Byte
      BY <1>4, <1>9 DEF Byte
    <2>2. value # Rejected
      <3>1. value \in Int
        BY <2>1 DEF Byte
      <3> QED  BY <3>1, ErrorsAreNoValues, Zenon
    <2>3. ASSUME l.kind = "bit"
          PROVE  w.action # "SET_TARGET_TEMPERATURE"
      <3>1. l.kind = IF d \in TEMPERATURE_DATAPOINTS THEN "byte" ELSE "bit"
        BY <1>1, <1>8, <1>9, Zenon DEF SoundLayout
      <3>2. d \notin TEMPERATURE_DATAPOINTS
        BY <2>3, <3>1
      <3>3. _ACTION_DATAPOINTS["SET_TARGET_TEMPERATURE"] \in TEMPERATURE_DATAPOINTS
        BY DEF _ACTION_DATAPOINTS, TEMPERATURE_DATAPOINTS
      <3> QED  BY <3>2, <3>3
    <2> QED  BY <1>4, <2>1, <2>2, <2>3
  <1>10. ASSUME ~allowed
         PROVE  result \in {Rejected, Unreadable}
    <2>1. CASE may_write(p, d) /\ InRange /\ ~Room
      <3>1. control = Rejected
        BY <1>1, <1>9, <2>1, EncodesIff, Zenon
      <3> QED  BY <1>2, <3>1
    <2> QED  BY <1>2, <1>5, <1>6, <1>7, <1>8, <1>10, <2>1
  <1>11. ASSUME allowed
         PROVE  /\ result = bytes /\ may_write(p, d) /\ control # Rejected
                /\ control.flags = FlagOf(p.flag_bits[d])
                /\ control.values \in Seq(Byte)
                /\ 1 <= Len(control.values) /\ Len(control.values) <= MAX_PAYLOAD_BYTES - 10
    <2>1. may_write(p, d) /\ InRange /\ Readable /\ Room
      BY <1>6, <1>8, <1>11
    <2>2. /\ control # Rejected /\ control.flags = FlagOf(p.flag_bits[d])
          /\ control.values \in Seq(Byte) /\ Len(control.values) = p.control_length
          /\ 1 <= p.control_length /\ p.control_length <= MAX_PAYLOAD_BYTES - 10
      BY <1>1, <1>9, <2>1, EncodesIff, Zenon
    <2>3. result = bytes
      BY <1>2, <1>9, <2>1, <2>2, Zenon
    <2> QED  BY <2>1, <2>2, <2>3, Zenon
  <1>12. ASSUME allowed
         PROVE  LET sent == decode_frame(result).frame
                    flags == FromBigEndian(SubSeq(sent.payload, 6, 7))
                    after == Overlaid(p, base, SubSeq(sent.payload, 8, Len(sent.payload)))
                IN  /\ sent.command = CONTROL_REQUEST
                    /\ flags = FlagOf(p.flag_bits[d])
                    /\ after = Overlaid(p, base, control.values)
    <2>1. /\ result = bytes /\ control.flags = FlagOf(p.flag_bits[d])
          /\ control.values \in Seq(Byte)
          /\ 1 <= Len(control.values) /\ Len(control.values) <= MAX_PAYLOAD_BYTES - 10
      BY <1>11, <1>12, Zenon
    <2>2. control.flags \in OneFlag
      <3>1. p.flag_bits[d] \in 0..15
        BY <1>1, <1>8, <1>11, <1>12, Zenon DEF SoundLayout
      <3> QED  BY <2>1, <3>1, FlagRange, Zenon
    <2> HIDE DEF control, result
    <2>3. /\ decode_frame(bytes).frame = Frame(CONTROL_REQUEST, payload, 0)
          /\ FromBigEndian(SubSeq(payload, 6, 7)) = control.flags
          /\ SubSeq(payload, 8, Len(payload)) = control.values
      <3>1. Carries(w.sequence, control.flags, control.values)
        BY <1>1, <2>1, <2>2, RequestCarries, Zenon
      <3> QED  BY <3>1, Zenon DEF Carries
    <2> HIDE DEF bytes, payload
    <2>4. /\ Frame(CONTROL_REQUEST, payload, 0).payload = payload
          /\ Frame(CONTROL_REQUEST, payload, 0).command = CONTROL_REQUEST
      BY DEF Frame
    <2> QED  BY <2>1, <2>3, <2>4, Zenon
  <1>13. ASSUME allowed
         PROVE  {x \in DOMAIN p.flag_bits : BitOf(FlagOf(p.flag_bits[d]), p.flag_bits[x]) = 1} = {d}
    <2>1. d \in DOMAIN p.flag_bits /\ p.flag_bits[d] \in 0..15
      BY <1>1, <1>8, <1>11, <1>13, Zenon DEF SoundLayout
    <2>2. ASSUME NEW x \in DOMAIN p.flag_bits
          PROVE  BitOf(FlagOf(p.flag_bits[d]), p.flag_bits[x]) = 1 <=> x = d
      <3>1. p.flag_bits[x] \in 0..15 /\ (x # d => p.flag_bits[x] # p.flag_bits[d])
        BY <1>1, <2>1, Zenon DEF SoundLayout
      <3>2. BitOf(FlagOf(p.flag_bits[d]), p.flag_bits[x]) = IF p.flag_bits[x] = p.flag_bits[d] THEN 1 ELSE 0
        BY <2>1, <3>1, FlagName, Zenon
      <3> QED  BY <3>1, <3>2
    <2> QED  BY <2>1, <2>2
  <1>14. ASSUME allowed
         PROVE  LET after == Overlaid(p, base, control.values)
                IN  /\ decode(p, after) = [decode(p, base) EXCEPT ![d] = value]
                    /\ \A i \in DOMAIN base \ {l.offset + 1} : after[i] = base[i]
                    /\ l.kind = "bit" =>
                         \A b \in 0..7 \ {l.bit} :
                            BitOf(At(after, l.offset), b) = BitOf(At(base, l.offset), b)
    <2>1. Layout(p) /\ \A x \in DOMAIN p.locations \ {d} : Apart(p.locations[x], p.locations[d])
      BY <1>1, <1>8, <1>11, <1>14, SoundIsLayout
    <2>2. (l.kind = "bit" => value \in {0, 1}) /\ control # Rejected /\ Readable
      BY <1>9, <1>11, <1>14
    <2>3. ChangesOne(p, base, d, value)
      BY <1>1, <2>1, <2>2, WriteChangesOneDatapoint, Zenon
    <2> QED  BY <2>3, Zenon DEF ChangesOne
  <1>15. CASE ~allowed
    <2> HIDE DEF result
    <2> QED  BY <1>10, <1>15, Zenon DEF ArrivesAsMeant, result
  <1>16. CASE allowed
    BY <1>12, <1>13, <1>14, <1>16, Zenon DEF ArrivesAsMeant
  <1> QED  BY <1>15, <1>16

-----------------------------------------------------------------------------
(* The passcode.                                                           *)

LEMMA TwoDigits ==
  ASSUME NEW n, n \in Nat, n \div 256 < 256
  PROVE  /\ n \div 256 \in Byte /\ n % 256 \in Byte
         /\ (n \div 256) % 256 = n \div 256 /\ 256 * (n \div 256) + (n % 256) = n
  <1>1. n \div 256 \in Byte /\ n % 256 \in Byte
    BY SMT DEF Byte
  <1>2. (n \div 256) % 256 = n \div 256
    BY SMT
  <1>3. 256 * (n \div 256) + (n % 256) = n
    BY SMT
  <1> QED  BY <1>1, <1>2, <1>3

\* Behind its own length, any field that is short enough is found again.
LEMMA PrefixedReturns ==
  ASSUME NEW field, field \in Seq(Byte), Len(field) \div 256 < 256
  PROVE  LET sent == encode_length_prefixed(field)
         IN  /\ sent.status = "ok" /\ FromBigEndian(SubSeq(sent.bytes, 1, 2)) = Len(sent.bytes) - 2
             /\ decode_length_prefixed(sent.bytes) = [status |-> "ok", bytes |-> field]
  <1>1. PICK size \in Nat : size = Len(field)
    OBVIOUS
  <1>2. PICK high, low : high = size \div 256 /\ low = size % 256
    OBVIOUS
  <1>3. /\ high \in Byte /\ low \in Byte /\ (size \div 256) % 256 = high
        /\ 256 * high + low = size
    BY <1>1, <1>2, TwoDigits
  <1> DEFINE two == <<high, low>>
             s == two \o field
  <1>4. encode_length_prefixed(field) = [status |-> "ok", bytes |-> s]
    <2>1. BigEndian(Len(field), 2) = two
      BY <1>1, <1>2, <1>3, TwoBytes
    <2> HIDE DEF two
    <2> HIDE DEF s
    <2>2. BigEndian(Len(field), 2) \o field = s
      BY <2>1 DEF s
    <2>3. ~(Len(field) > 65535)
      <3>1. size \div 256 < 256
        BY <1>1
      <3>2. \A n \in Nat : n \div 256 < 256 => ~(n > 65535)
        BY SMT
      <3> QED  BY <1>1, <3>1, <3>2
    <2> QED  BY <2>2, <2>3, SMT DEF encode_length_prefixed
  <1>5. /\ s \in Seq(Byte) /\ Len(s) = size + 2 /\ s[1] = high /\ s[2] = low
        /\ \A i \in 1 .. size : s[2 + i] = field[i]
    BY <1>1, <1>3
  <1> HIDE DEF s
  <1>6. FromBigEndian(SubSeq(s, 1, 2)) = size
    <2>1. SubSeq(s, 1, 2)[1] = high /\ SubSeq(s, 1, 2)[2] = low
      BY <1>1, <1>5
    <2> QED  BY <1>3, <2>1 DEF FromBigEndian
  <1>7. SubSeq(s, 3, Len(s)) = field
    <2>1. PICK rest : rest = SubSeq(s, 3, Len(s))
      BY Zenon
    <2>2. rest \in Seq(Byte) /\ Len(rest) = size /\ \A i \in 1 .. size : rest[i] = s[2 + i]
      BY <1>1, <1>5, <2>1
    <2>3. \A i \in 1 .. size : rest[i] = field[i]
      BY <1>5, <2>2
    <2>4. rest = field
      BY <1>1, <2>2, <2>3, SeqEqual
    <2> QED  BY <2>1, <2>4
  <1>8. decode_length_prefixed(s) = [status |-> "ok", bytes |-> field]
    <2>1. ~(Len(s) < 2)
      BY <1>1, <1>5
    <2>2. FromBigEndian(SubSeq(s, 1, 2)) = Len(SubSeq(s, 3, Len(s)))
      BY <1>1, <1>6, <1>7
    <2> DEFINE rest == SubSeq(s, 3, Len(s))
               prefixed == FromBigEndian(SubSeq(s, 1, 2)) = Len(rest)
    <2>3. decode_length_prefixed(s) =
             IF Len(s) < 2 THEN Malformed
             ELSE IF ~ prefixed /\ Len(s) > MAX_PAYLOAD_BYTES THEN Malformed
             ELSE [status |-> "ok", bytes |-> IF prefixed THEN rest ELSE s]
      BY Zenon DEF decode_length_prefixed
    <2>4. prefixed /\ rest = field
      BY <1>7, <2>2
    <2> HIDE DEF prefixed, rest
    <2> QED  BY <2>1, <2>3, <2>4, Zenon
  <1> QED  BY <1>1, <1>4, <1>5, <1>6, <1>8

\* A passcode response carries a field that is short enough, or is none.
LEMMA AnswerHolds ==
  ASSUME NEW answer, answer \in Seq(Byte), Len(answer) <= MAX_PAYLOAD_BYTES - 3
  PROVE  /\ Len(answer) < 2 => decode_length_prefixed(answer) = Malformed
         /\ ~(Len(answer) < 2) =>
              \E field \in Seq(Byte) :
                 /\ Len(field) \div 256 < 256
                 /\ decode_length_prefixed(answer) = [status |-> "ok", bytes |-> field]
  <1>1. Len(answer) < 2 => decode_length_prefixed(answer) = Malformed
    BY DEF decode_length_prefixed
  <1>2. ASSUME ~(Len(answer) < 2)
        PROVE  \E field \in Seq(Byte) :
                 /\ Len(field) \div 256 < 256
                 /\ decode_length_prefixed(answer) = [status |-> "ok", bytes |-> field]
    <2> DEFINE body == SubSeq(answer, 3, Len(answer))
               prefixed == FromBigEndian(SubSeq(answer, 1, 2)) = Len(body)
               field == IF prefixed THEN body ELSE answer
    <2>1. body \in Seq(Byte) /\ Len(body) = Len(answer) - 2 /\ Len(answer) \in Nat
      <3>1. PICK size \in Nat : size = Len(answer) /\ 2 <= size
        BY <1>2
      <3>2. SubSeq(answer, 3, size) \in Seq(Byte) /\ Len(SubSeq(answer, 3, size)) = size - 2
        BY <3>1
      <3> QED  BY <3>1, <3>2
    <2>2. ~(Len(answer) > MAX_PAYLOAD_BYTES)
      BY <2>1 DEF MAX_PAYLOAD_BYTES
    <2>3. decode_length_prefixed(answer) = [status |-> "ok", bytes |-> field]
      BY <1>2, <2>2, Zenon DEF decode_length_prefixed
    <2>4. field \in Seq(Byte) /\ (Len(field) = Len(answer) \/ Len(field) = Len(answer) - 2)
      BY <2>1
    <2> HIDE DEF field
    <2>5. Len(field) \div 256 < 256
      BY <1>2, <2>1, <2>4, SMT DEF MAX_PAYLOAD_BYTES
    <2> QED  BY <2>3, <2>4, <2>5
  <1> QED  BY <1>1, <1>2

\* What connect returns, for any response a frame can carry.
LEMMA PasscodeReturns ==
  ASSUME NEW answer, answer \in Seq(Byte), Len(answer) <= MAX_PAYLOAD_BYTES - 3
  PROVE  ReturnsAsGiven(answer, Returned(answer))
  <1>1. CASE Len(answer) < 2
    <2>1. decode_length_prefixed(answer) = Malformed
      BY <1>1, AnswerHolds
    <2>2. Returned(answer) = Malformed
      BY <2>1 DEF Returned, Malformed
    <2> QED  BY <1>1, <2>2 DEF ReturnsAsGiven
  <1>2. CASE ~(Len(answer) < 2)
    <2>1. PICK field \in Seq(Byte) :
             /\ Len(field) \div 256 < 256
             /\ decode_length_prefixed(answer) = [status |-> "ok", bytes |-> field]
      BY <1>2, AnswerHolds
    <2>2. Returned(answer) = encode_length_prefixed(field)
      BY <2>1 DEF Returned
    <2>3. LET sent == encode_length_prefixed(field)
          IN  /\ FromBigEndian(SubSeq(sent.bytes, 1, 2)) = Len(sent.bytes) - 2
              /\ decode_length_prefixed(sent.bytes) = [status |-> "ok", bytes |-> field]
      BY <2>1, PrefixedReturns
    <2> QED  BY <1>2, <2>1, <2>2, <2>3 DEF ReturnsAsGiven
  <1> QED  BY <1>1, <1>2

-----------------------------------------------------------------------------
(* What is written to the controller.                                      *)

\* WriteArrivesAsMeant (BestwayClient.connect, DatapointProfile.encode_control,
\* BestwayProvider.execute): for any passcode response, the client returns the
\* passcode it was given, or fails when there is none; and with any sound layout,
\* any block, any sequence number and any command its parameter model accepts, the
\* request that is sent, decoded at the other end, changes the datapoint of the
\* command and nothing else; it is sent if discovery offers the command, the block
\* is readable and can hold it and the value is in range, and refused otherwise.
THEOREM WriteArrivesAsMeantHolds == Spec => []WriteArrivesAsMeant
  <1>1. ConvertedInv => WriteArrivesAsMeant
    <2>1. ASSUME ConvertedInv, Converted("write")
          PROVE  ArrivesAsMeant(input.data, output.result)
      <3> DEFINE w == input.data
      <3>1. w \in Writes
            /\ output.result = Request(w.profile, w.action, w.param, w.base, w.sequence)
        BY <2>1 DEF Converted, ConvertedInv
      <3> HIDE DEF w
      <3> QED  BY <3>1, WriteArrives, Zenon DEF w
    <2>2. ASSUME ConvertedInv, Converted("passcode")
          PROVE  ReturnsAsGiven(input.data.answer, output.result)
      <3>1. PICK answer : answer = input.data.answer
        OBVIOUS
      <3>2. /\ answer \in Seq(Byte) /\ Len(answer) <= MAX_PAYLOAD_BYTES - 3
            /\ output.result = Returned(answer)
        BY <2>2, <3>1, AnswersAssumption DEF Converted, ConvertedInv
      <3> QED  BY <3>1, <3>2, PasscodeReturns
    <2> QED  BY <2>1, <2>2 DEF WriteArrivesAsMeant
  <1> QED  BY <1>1, ConvertedHolds, PTL

\* A setpoint that was sent, read back, is in the range and near what was asked.
LEMMA SetpointStays ==
  ASSUME NEW w, w \in Writes
  PROVE  StaysInRange(w, Request(w.profile, w.action, w.param, w.base, w.sequence))
  <1> DEFINE p == w.profile
             base == w.base
             d == "TARGET_TEMPERATURE"
             value == value_for(p, w.action, w.param, base)
             result == Request(p, w.action, w.param, base, w.sequence)
             sent == decode_frame(result).frame
             after == Overlaid(p, base, SubSeq(sent.payload, 8, Len(sent.payload)))
             fahrenheit == Fahrenheit(decode(p, base))
  <1> SUFFICES ASSUME w.action = "SET_TARGET_TEMPERATURE", result \notin {Rejected, Unreadable}
               PROVE  /\ to_state(p, after)["target_temperature_c"] \in p.min .. p.max
                      /\ Within(to_state(p, after)["target_temperature_c"], w.param,
                                IF fahrenheit THEN 33 ELSE 50)
    BY Zenon DEF StaysInRange
  <1>1. ArrivesAsMeant(w, result)
    BY WriteArrives, Zenon
  <1>2. _ACTION_DATAPOINTS[w.action] = d
    BY DEF _ACTION_DATAPOINTS
  <1>3. /\ w.param \in p.min .. p.max
        /\ required_capability_for(w.action, w.param) \in Offered(p)
        /\ decode(p, base) # ProfileError
        /\ decode(p, after) = [decode(p, base) EXCEPT ![_ACTION_DATAPOINTS[w.action]] = value]
    <2> HIDE DEF result
    <2> QED  BY <1>1, Zenon DEF ArrivesAsMeant
  <1>4. /\ SoundLayout(p) /\ ValidProfile(p) /\ p.min \in Int /\ p.max \in Int
        /\ p.min % 500 = 0 /\ p.max % 500 = 0
        /\ w.action \in Written /\ w.param \in ParamsModel(w.action)
    <2>1. SoundLayout(p) /\ w.action \in Written /\ w.param \in ParamsModel(w.action)
      BY WritesAssumption, Zenon DEF Written
    <2>2. ValidProfile(p) /\ p.min \in Int /\ p.max \in Int
      BY <2>1, Zenon DEF SoundLayout
    <2>3. p.min % 500 = 0 /\ p.max % 500 = 0
      BY <2>1, SMT DEF SoundLayout
    <2> QED  BY <2>1, <2>2, <2>3
  <1>5. value = from_celsius(w.param, fahrenheit) /\ w.param \in Int
    <2>1. Fits(p, w.action, w.param, base)
      BY <1>4, ValueFits, Zenon
    <2> QED  BY <1>3, <2>1, Zenon DEF Fits
  <1>6. d \in DOMAIN p.locations
    <2>1. may_write(p, _ACTION_DATAPOINTS[w.action])
      BY <1>3, <1>4, OfferedIsWritable, Zenon
    <2> QED  BY <1>2, <1>4, <2>1 DEF ValidProfile, may_write
  <1>7. /\ DOMAIN decode(p, base) = DOMAIN p.locations
        /\ DOMAIN decode(p, after) = DOMAIN p.locations
        /\ decode(p, after)[d] = value
        /\ \A x \in DOMAIN p.locations \ {d} : decode(p, after)[x] = decode(p, base)[x]
    <2>1. DOMAIN decode(p, base) = DOMAIN p.locations
      BY <1>3 DEF decode
    <2> HIDE DEF after, value
    <2> QED  BY <1>2, <1>3, <1>6, <2>1
  <1> HIDE DEF after, value
  <1>8. Fahrenheit(decode(p, after)) <=> fahrenheit
    BY <1>7 DEF Fahrenheit
  <1>9. to_state(p, after)["target_temperature_c"] = to_celsius(value, fahrenheit)
    <2> DEFINE f == "target_temperature_c"
    <2>1. f \in Range(Field)
      BY DEF Range, Field
    <2>2. \A x \in DOMAIN Field : Field[x] = f <=> x = d
      BY DEF Field
    <2>3. d \in DOMAIN Field
      BY DEF Field
    <2>4. (CHOOSE x \in DOMAIN Field : Field[x] = f) = d
      BY <2>2, <2>3
    <2>5. to_state(p, after)[f] =
            LET decoded == decode(p, after)
                x == CHOOSE x \in DOMAIN Field : Field[x] = f
            IN  IF x \notin DOMAIN decoded THEN NotReported
                ELSE IF x \in TEMPERATURE_DATAPOINTS
                THEN to_celsius(decoded[x], Fahrenheit(decoded))
                ELSE decoded[x]
      BY <2>1, Zenon DEF to_state
    <2>6. d \in TEMPERATURE_DATAPOINTS /\ d \in DOMAIN decode(p, after)
      BY <1>6, <1>7 DEF TEMPERATURE_DATAPOINTS
    <2>7. to_state(p, after)[f] = to_celsius(decode(p, after)[d], Fahrenheit(decode(p, after)))
      BY <2>4, <2>5, <2>6, Zenon
    <2>8. to_celsius(value, Fahrenheit(decode(p, after))) = to_celsius(value, fahrenheit)
      BY <1>8, Zenon DEF to_celsius
    <2> QED  BY <1>7, <2>7, <2>8
  <1>10. PICK low \in Int, high \in Int : p.min = 500 * low /\ p.max = 500 * high
    <2>1. ASSUME NEW n \in Int, n % 500 = 0
          PROVE  \E k \in Int : n = 500 * k
      <3>1. n \div 500 \in Int /\ n = 500 * (n \div 500)
        BY <2>1
      <3> QED  BY <3>1
    <2> QED  BY <1>4, <2>1
  <1>11. w.param \in 500 * low .. 500 * high
    BY <1>3, <1>10
  <1>12. fahrenheit \in BOOLEAN
    BY DEF Fahrenheit
  <1> HIDE DEF fahrenheit
  <1>13. LET seen == to_celsius(from_celsius(w.param, fahrenheit), fahrenheit)
         IN  /\ seen \in 500 * low .. 500 * high
             /\ Within(seen, w.param, IF fahrenheit THEN 33 ELSE 50)
    BY <1>10, <1>11, <1>12, SetpointSurvives
  <1> QED  BY <1>5, <1>9, <1>10, <1>13

\* SetpointStaysInRange (from_celsius, to_celsius, BestwayProvider._value_for):
\* whatever setpoint a sound layout accepts is held and shown by the controller
\* within the verified range, half a degree or a third from what was asked.
THEOREM SetpointStaysInRangeHolds == Spec => []SetpointStaysInRange
  <1>1. ConvertedInv => SetpointStaysInRange
    <2> SUFFICES ASSUME ConvertedInv, Converted("write")
                 PROVE  StaysInRange(input.data, output.result)
      BY DEF SetpointStaysInRange
    <2> DEFINE w == input.data
    <2>1. w \in Writes
          /\ output.result = Request(w.profile, w.action, w.param, w.base, w.sequence)
      BY DEF Converted, ConvertedInv
    <2> HIDE DEF w
    <2> QED  BY <2>1, SetpointStays, Zenon DEF w
  <1> QED  BY <1>1, ConvertedHolds, PTL

-----------------------------------------------------------------------------
(* The stream of the controller.                                           *)

\* One sequence begins with the other.
Starts(whole, part) ==
    /\ whole \in Seq(Byte) /\ part \in Seq(Byte) /\ Len(part) <= Len(whole)
    /\ \A i \in 1 .. Len(part) : whole[i] = part[i]

\* One of at most four numbers is the least.
LEMMA LeastOf ==
  ASSUME NEW S, S \subseteq 1..4, S # {}
  PROVE  \E m \in S : \A i \in S : m =< i
  <1>1. CASE 1 \in S
    BY <1>1
  <1>2. CASE 1 \notin S /\ 2 \in S
    BY <1>2
  <1>3. CASE 1 \notin S /\ 2 \notin S /\ 3 \in S
    BY <1>3
  <1>4. CASE 1 \notin S /\ 2 \notin S /\ 3 \notin S
    <2>1. PICK m \in S : TRUE
      OBVIOUS
    <2>2. \A i \in S : i = 4
      BY <1>4
    <2> QED  BY <2>1, <2>2
  <1> QED  BY <1>1, <1>2, <1>3, <1>4

\* A length that has been read, or refused, is not changed by what follows.
LEMMA LengthIsFinal ==
  ASSUME NEW part, NEW whole, Starts(whole, part), NEW offset, offset \in Nat,
         decode_varint(part, offset) # Incomplete
  PROVE  decode_varint(whole, offset) = decode_varint(part, offset)
  <1> DEFINE Lasts(data) == {i \in 1 .. MAX_VARINT_BYTES :
                                offset + i <= Len(data) /\ data[offset + i] < Group}
             P(data, size, i) == IF i <= size THEN (data[offset + i] % Group) * Shift[i] ELSE 0
             Value(data, size) == P(data, size, 1) + P(data, size, 2)
                                    + P(data, size, 3) + P(data, size, 4)
             Outcome(data) ==
                IF Lasts(data) # {} THEN Found(Min(Lasts(data)), Value(data, Min(Lasts(data))))
                ELSE IF Len(data) < offset + MAX_VARINT_BYTES THEN Incomplete ELSE Malformed
  <1>1. decode_varint(part, offset) = Outcome(part) /\ decode_varint(whole, offset) = Outcome(whole)
    BY Zenon DEF decode_varint, Found
  <1>2. /\ Len(part) \in Nat /\ Len(whole) \in Nat /\ Len(part) <= Len(whole)
        /\ \A i \in 1..4 : offset + i <= Len(part) =>
              offset + i <= Len(whole) /\ whole[offset + i] = part[offset + i]
    BY DEF Starts
  <1>3. /\ Lasts(part) \subseteq Lasts(whole) /\ Lasts(part) \subseteq Int
        /\ Lasts(whole) \subseteq 1..4
        /\ \A i \in Lasts(whole) : offset + i <= Len(part) => i \in Lasts(part)
        /\ \A i \in Lasts(part) : offset + i <= Len(part)
    BY <1>2 DEF MAX_VARINT_BYTES
  <1>4. CASE Lasts(part) = {}
    <2>1. ~(Len(part) < offset + MAX_VARINT_BYTES) /\ Outcome(part) = Malformed
      BY <1>1, <1>4
    <2>2. \A i \in 1..4 : offset + i <= Len(part)
      BY <1>2, <2>1 DEF MAX_VARINT_BYTES
    <2>3. Lasts(whole) = {}
      BY <1>3, <1>4, <2>2
    <2>4. ~(Len(whole) < offset + MAX_VARINT_BYTES)
      BY <1>2, <2>1 DEF MAX_VARINT_BYTES
    <2> HIDE DEF Lasts
    <2> QED  BY <1>1, <2>1, <2>3, <2>4
  <1>5. CASE Lasts(part) # {}
    <2>1. PICK size \in Lasts(part) : \A i \in Lasts(part) : size =< i
      <3>1. Lasts(part) \subseteq 1..4 /\ Lasts(part) # {}
        BY <1>3, <1>5
      <3> HIDE DEF Lasts
      <3> QED  BY <3>1, LeastOf, Zenon
    <2>2. \A i \in Lasts(whole) : size =< i
      <3> SUFFICES ASSUME NEW i \in Lasts(whole), ~(size =< i)
                   PROVE  FALSE
        OBVIOUS
      <3>1. offset + size <= Len(part) /\ size \in Int /\ i \in Int
        BY <1>3
      <3>2. offset + i <= Len(part)
        BY <1>2, <3>1
      <3> QED  BY <1>3, <2>1, <3>2
    <2>3. size \in Lasts(whole) /\ Lasts(whole) \subseteq Int
      BY <1>3
    <2> HIDE DEF Lasts
    <2>4. Min(Lasts(part)) = size
      BY <1>3, <2>1, LeastIs, Zenon
    <2>5. Min(Lasts(whole)) = size
      BY <2>2, <2>3, LeastIs, Zenon
    <2>6. Value(whole, size) = Value(part, size)
      <3>1. offset + size <= Len(part) /\ size \in 1..4
        BY <1>3
      <3>2. \A i \in 1..4 : i <= size => whole[offset + i] = part[offset + i]
        BY <1>2, <3>1
      <3>3. \A i \in 1..4 : P(whole, size, i) = P(part, size, i)
        BY <3>2
      <3> HIDE DEF P
      <3> QED  BY <3>3
    <2> HIDE DEF Value
    <2>7. Lasts(whole) # {}
      BY <2>3
    <2> QED  BY <1>1, <1>5, <2>4, <2>5, <2>6, <2>7
  <1> QED  BY <1>4, <1>5

\* A length takes as many bytes as there are.
LEMMA LengthBounds ==
  ASSUME NEW data, data \in Seq(Byte), NEW offset, offset \in Nat,
         decode_varint(data, offset).status = "ok"
  PROVE  /\ decode_varint(data, offset).consumed \in 1..4
         /\ decode_varint(data, offset).value \in Nat
  <1> DEFINE last == {i \in 1 .. MAX_VARINT_BYTES :
                                offset + i <= Len(data) /\ data[offset + i] < Group}
             P(size, i) == IF i <= size THEN (data[offset + i] % Group) * Shift[i] ELSE 0
             Value(size) == P(size, 1) + P(size, 2) + P(size, 3) + P(size, 4)
  <1>1. decode_varint(data, offset) =
           IF last # {} THEN Found(Min(last), Value(Min(last)))
           ELSE IF Len(data) < offset + MAX_VARINT_BYTES THEN Incomplete ELSE Malformed
    BY Zenon DEF decode_varint, Found
  <1>2. last # {}
    <2> HIDE DEF last
    <2> QED  BY <1>1 DEF Incomplete, Malformed
  <1>3. last \subseteq 1..4
    BY DEF MAX_VARINT_BYTES
  <1>4. PICK size \in last : \A i \in last : size =< i
    <2>1. last \subseteq 1..4 /\ last # {}
      BY <1>2, <1>3
    <2> HIDE DEF last
    <2> QED  BY <2>1, LeastOf, Zenon
  <1>5. \A i \in 1..4 : i <= size => data[offset + i] \in Byte
    <2>1. offset + size <= Len(data) /\ size \in 1..4
      BY <1>3
    <2> QED  BY <2>1
  <1> HIDE DEF last
  <1>6. last \subseteq Int
    BY <1>3
  <1>7. Min(last) = size
    BY <1>4, <1>6, LeastIs, Zenon
  <1>8. Value(size) \in Nat
    <2>1. \A i \in 1..4 : Shift[i] \in Nat
      BY DEF Shift
    <2>2. \A i \in 1..4 : i <= size => data[offset + i] % Group \in Nat
      <3>1. \A b \in Byte : b % Group \in Nat
        BY SMT DEF Byte, Group
      <3> QED  BY <1>5, <3>1, Zenon
    <2>3. \A m, n \in Nat : m * n \in Nat
      BY SMT
    <2>4. \A i \in 1..4 : P(size, i) \in Nat
      BY <2>1, <2>2, <2>3, Zenon
    <2> HIDE DEF P
    <2> QED  BY <2>4
  <1> HIDE DEF Value
  <1>9. decode_varint(data, offset) = Found(size, Value(size))
    BY <1>1, <1>2, <1>7, Zenon
  <1> QED  BY <1>3, <1>8, <1>9 DEF Found

\* What has been decoded, or refused, is not changed by what follows.
LEMMA DecisionIsFinal ==
  ASSUME NEW part, NEW whole, Starts(whole, part), decode_frame(part) # Incomplete
  PROVE  decode_frame(whole) = decode_frame(part)
  <1> DEFINE length(data) == decode_varint(data, 4)
             end(data) == 4 + length(data).consumed + length(data).value
             body(data) == [status |-> "ok", consumed |-> end(data),
                 frame |-> Frame(FromBigEndian(SubSeq(data, 4 + length(data).consumed + 2,
                                                            4 + length(data).consumed + 3)),
                                 SubSeq(data, 4 + length(data).consumed + 4, end(data)),
                                 data[4 + length(data).consumed + 1])]
  <1>1. MAGIC \in Seq(Byte) /\ Len(MAGIC) = 4
    BY DEF MAGIC, Byte
  <1>2. /\ part \in Seq(Byte) /\ whole \in Seq(Byte)
        /\ Len(part) \in Nat /\ Len(whole) \in Nat /\ Len(part) <= Len(whole)
        /\ \A i \in 1 .. Len(part) : whole[i] = part[i]
    BY DEF Starts
  <1>3. \A data : decode_frame(data) =
           IF Len(data) < 4 THEN Incomplete
           ELSE IF ~ IsPrefix(MAGIC, data) THEN Malformed
           ELSE IF length(data).status # "ok" THEN length(data)
           ELSE IF length(data).value > MAX_PAYLOAD_BYTES \/ length(data).value < 3 THEN Malformed
           ELSE IF Len(data) < end(data) THEN Incomplete
           ELSE body(data)
    BY <1>1, Zenon DEF decode_frame
  <1> HIDE DEF body
  <1>4. ~(Len(part) < 4) /\ ~(Len(whole) < 4)
    <2>1. ~(Len(part) < 4)
      BY <1>3, Zenon
    <2> QED  BY <1>2, <2>1
  <1>5. IsPrefix(MAGIC, whole) <=> IsPrefix(MAGIC, part)
    <2>1. \A data \in Seq(Byte) : ~(Len(data) < 4) =>
             (IsPrefix(MAGIC, data) <=> \A i \in 1..4 : data[i] = MAGIC[i])
      <3> TAKE data \in Seq(Byte)
      <3> HAVE ~(Len(data) < 4)
      <3>1. SubSeq(MAGIC, 1, 4) = MAGIC
        BY <1>1
      <3>2. SubSeq(data, 1, 4) \in Seq(Byte) /\ Len(SubSeq(data, 1, 4)) = 4
            /\ \A i \in 1..4 : SubSeq(data, 1, 4)[i] = data[i]
        OBVIOUS
      <3>3. IsPrefix(MAGIC, data) <=> MAGIC = SubSeq(data, 1, 4)
        BY <1>1, <3>1 DEF IsPrefix
      <3> QED  BY <1>1, <3>2, <3>3
    <2> QED  BY <1>2, <1>4, <2>1
  <1>6. CASE ~ IsPrefix(MAGIC, part)
    BY <1>3, <1>4, <1>5, <1>6, Zenon
  <1>7. CASE IsPrefix(MAGIC, part)
    <2>1. length(part) # Incomplete
      <3>1. Incomplete.status # "ok"
        BY DEF Incomplete
      <3> QED  BY <1>3, <1>4, <1>7, <3>1, Zenon
    <2>2. length(whole) = length(part)
      <3> HIDE DEF Starts
      <3> QED  BY <2>1, LengthIsFinal
    <2>3. end(whole) = end(part)
      BY <2>2
    <2>4. CASE length(part).status # "ok" \/ length(part).value > MAX_PAYLOAD_BYTES
               \/ length(part).value < 3
      BY <1>3, <1>4, <1>5, <1>7, <2>2, <2>4, Zenon
    <2>5. CASE ~(length(part).status # "ok" \/ length(part).value > MAX_PAYLOAD_BYTES
                 \/ length(part).value < 3)
      <3>1. length(part).consumed \in 1..4 /\ length(part).value \in Nat
        BY <1>2, <2>5, LengthBounds
      <3> HIDE DEF length
      <3>2. ~(Len(part) < end(part)) /\ decode_frame(part) = body(part)
        BY <1>3, <1>4, <1>7, <2>5, Zenon
      <3>3. end(part) <= Len(part) /\ end(part) \in Nat /\ end(part) <= Len(whole)
        BY <1>2, <3>1, <3>2
      <3>4. decode_frame(whole) = body(whole)
        <4>1. ~(Len(whole) < end(whole))
          BY <1>2, <2>3, <3>3
        <4> HIDE DEF end
        <4> QED  BY <1>3, <1>4, <1>5, <1>7, <2>2, <2>5, <4>1, Zenon
      <3> DEFINE start == 4 + length(part).consumed
      <3>5. start \in 5..8 /\ start + 3 <= end(part)
        <4>1. length(part).value >= 3
          BY <2>5, <3>1
        <4> QED  BY <3>1, <4>1
      <3> HIDE DEF end, start
      <3>6. whole[start + 1] = part[start + 1]
        BY <1>2, <3>3, <3>5
      <3>7. SubSeq(whole, start + 2, start + 3) = SubSeq(part, start + 2, start + 3)
        BY <1>2, <3>3, <3>5
      <3>8. SubSeq(whole, start + 4, end(part)) = SubSeq(part, start + 4, end(part))
        BY <1>2, <3>3, <3>5
      <3>9. body(whole) = body(part)
        BY <2>2, <2>3, <3>6, <3>7, <3>8, Zenon DEF body, start
      <3> QED  BY <3>2, <3>4, <3>9
    <2> QED  BY <2>4, <2>5
  <1> QED  BY <1>6, <1>7

\* What waits for the rest of its frame is shorter than the longest frame.
LEMMA IncompleteIsShort ==
  ASSUME NEW data, data \in Seq(Byte), decode_frame(data) = Incomplete
  PROVE  Len(data) < MAX_PAYLOAD_BYTES + 8
  <1> DEFINE length == decode_varint(data, 4)
  <1>1. MAGIC \in Seq(Byte) /\ Len(MAGIC) = 4
    BY DEF MAGIC, Byte
  <1>2. \/ Len(data) < 4
        \/ length.status # "ok" /\ length = Incomplete
        \/ /\ length.status = "ok" /\ ~(length.value > MAX_PAYLOAD_BYTES)
           /\ Len(data) < 4 + length.consumed + length.value
    <2>1. Incomplete # Malformed /\ \A c, f : Incomplete # [status |-> "ok", consumed |-> c, frame |-> f]
      BY DEF Incomplete, Malformed
    <2> HIDE DEF length
    <2> QED  BY <1>1, <2>1, Zenon DEF decode_frame, length
  <1>3. CASE Len(data) < 4
    BY <1>3 DEF MAX_PAYLOAD_BYTES
  <1>4. CASE length = Incomplete
    <2>1. Len(data) < 4 + MAX_VARINT_BYTES
      <3> DEFINE last == {i \in 1 .. MAX_VARINT_BYTES : 4 + i <= Len(data) /\ data[4 + i] < Group}
                 Value(size) == (IF 1 <= size THEN (data[4 + 1] % Group) * Shift[1] ELSE 0)
                                + (IF 2 <= size THEN (data[4 + 2] % Group) * Shift[2] ELSE 0)
                                + (IF 3 <= size THEN (data[4 + 3] % Group) * Shift[3] ELSE 0)
                                + (IF 4 <= size THEN (data[4 + 4] % Group) * Shift[4] ELSE 0)
      <3>1. length = IF last # {} THEN Found(Min(last), Value(Min(last)))
                     ELSE IF Len(data) < 4 + MAX_VARINT_BYTES THEN Incomplete ELSE Malformed
        BY Zenon DEF decode_varint, Found
      <3>2. Incomplete # Malformed /\ \A c, v : Incomplete # Found(c, v)
        BY DEF Incomplete, Malformed, Found
      <3> HIDE DEF last, Value, length
      <3> QED  BY <1>4, <3>1, <3>2, Zenon
    <2> QED  BY <2>1 DEF MAX_VARINT_BYTES, MAX_PAYLOAD_BYTES
  <1>5. CASE /\ length.status = "ok" /\ ~(length.value > MAX_PAYLOAD_BYTES)
             /\ Len(data) < 4 + length.consumed + length.value
    <2>1. length.consumed \in 1..4 /\ length.value \in Nat
      BY <1>5, LengthBounds
    <2> HIDE DEF length
    <2> QED  BY <1>5, <2>1 DEF MAX_PAYLOAD_BYTES
  <1> HIDE DEF length
  <1> QED  BY <1>2, <1>3, <1>4, <1>5

\* What a reader makes of a buffer that begins with the frame, as far as it has
\* arrived.
ReadBack(it) ==
    /\ Bytes(it) \in Seq(Byte) /\ Len(Bytes(it)) \in Nat \ {0}
    /\ \A data \in Seq(Byte) :
          (\A i \in 1 .. Len(data) : i <= Len(Bytes(it)) => data[i] = Bytes(it)[i]) =>
             decode_frame(data) =
                IF Len(data) < Len(Bytes(it)) THEN Incomplete
                ELSE [status |-> "ok", consumed |-> Len(Bytes(it)), frame |-> it]

\* Any frame that fits is read back.
LEMMA FrameBegins ==
  ASSUME NEW command, command \in Nat, command \div 256 < 256,
         NEW payload, payload \in Seq(Byte), Len(payload) <= MAX_PAYLOAD_BYTES - 3,
         NEW flag, flag \in Byte,
         NEW it, it = Frame(command, payload, flag)
  PROVE  ReadBack(it)
  <1>1. PICK w : w = encode(Frame(command, payload, flag)).bytes /\ w = Bytes(it)
    BY Zenon DEF Bytes
  <1>3. w \in Seq(Byte) /\ Len(w) = HeadSize(Len(payload) + 3) + 3 + Len(payload)
    BY <1>1, EncodedFrame, Zenon
  <1>4. /\ \A rest \in Seq(Byte) :
              decode_frame(w \o rest) = [status |-> "ok", consumed |-> Len(w), frame |-> it]
        /\ \A k \in 0 .. Len(w) - 1 : decode_frame(SubSeq(w, 1, k)) = Incomplete
    BY <1>1, FrameSurvives, Zenon
  <1>5. Len(w) \in Nat \ {0}
    <2>1. HeadSize(Len(payload) + 3) \in {5, 6} /\ Len(payload) \in Nat
      BY DEF HeadSize
    <2> QED  BY <1>3, <2>1
  <1>6. ASSUME NEW data \in Seq(Byte), \A i \in 1 .. Len(data) : i <= Len(w) => data[i] = w[i]
        PROVE  decode_frame(data) = IF Len(data) < Len(w) THEN Incomplete
                     ELSE [status |-> "ok", consumed |-> Len(w), frame |-> it]
    <2>1. CASE Len(data) < Len(w)
      <3>1. Len(data) \in 0 .. Len(w) - 1
        BY <1>5, <2>1
      <3>2. data = SubSeq(w, 1, Len(data))
        BY <1>3, <1>6, <3>1
      <3> QED  BY <1>4, <2>1, <3>1, <3>2, Zenon
    <2>2. CASE ~(Len(data) < Len(w))
      <3>1. PICK rest : rest = SubSeq(data, Len(w) + 1, Len(data))
        OBVIOUS
      <3>2. /\ rest \in Seq(Byte) /\ Len(rest) = Len(data) - Len(w)
            /\ \A i \in 1 .. Len(rest) : rest[i] = data[Len(w) + i]
        BY <1>5, <2>2, <3>1
      <3>3. data = w \o rest
        <4>1. /\ w \o rest \in Seq(Byte) /\ Len(w \o rest) = Len(data)
              /\ \A i \in 1 .. Len(w) : (w \o rest)[i] = w[i]
              /\ \A i \in Len(w) + 1 .. Len(data) : (w \o rest)[i] = rest[i - Len(w)]
          BY <1>3, <1>5, <2>2, <3>2
        <4>2. \A i \in Len(w) + 1 .. Len(data) : rest[i - Len(w)] = data[i]
          BY <1>5, <3>2
        <4>3. \A i \in 1 .. Len(data) : (w \o rest)[i] = data[i]
          BY <1>5, <1>6, <2>2, <4>1, <4>2
        <4>4. \A i \in 1 .. Len(w \o rest) : (w \o rest)[i] = data[i]
          BY <4>1, <4>3, Zenon
        <4>5. w \o rest = data
          BY <1>6, <4>1, <4>4, SeqEqual, Zenon
        <4> QED  BY <4>5, Zenon
      <3> QED  BY <1>4, <2>2, <3>2, <3>3, Zenon
    <2> QED  BY <2>1, <2>2
  <1> QED  BY <1>1, <1>3, <1>5, <1>6, Zenon DEF ReadBack

\* A frame the controller may send is one that fits.
LEMMA FrameAtHead ==
  ASSUME NEW it \in Sendable
  PROVE  ReadBack(it)
  <1>1. /\ it \in [command : Nat, payload : Seq(Byte), flag : Byte]
        /\ it.command \div 256 < 256 /\ Len(it.payload) <= MAX_PAYLOAD_BYTES - 3
    BY SendableAssumption, Zenon
  <1>2. it = Frame(it.command, it.payload, it.flag)
    BY <1>1 DEF Frame
  <1>3. it.command \in Nat /\ it.payload \in Seq(Byte) /\ it.flag \in Byte
    BY <1>1
  <1>4. PICK command, payload, flag :
           /\ command \in Nat /\ command \div 256 < 256
           /\ payload \in Seq(Byte) /\ Len(payload) <= MAX_PAYLOAD_BYTES - 3
           /\ flag \in Byte /\ it = Frame(command, payload, flag)
    BY <1>1, <1>2, <1>3
  <1>5. it = Frame(command, payload, flag)
    BY <1>4, Zenon
  <1> QED  BY <1>4, <1>5, FrameBegins, Zenon

\* How many frames have been taken off, wherever they are by now.
Taken == Len(handed) + Len(pending) + Len(frames)

\* EndOf, for any ends.
EndIn(e, n) == IF n = 0 THEN 0 ELSE e[n]

\* The inductive invariant.  What the variables hold;
Held ==
    /\ stream \in Seq(Byte) /\ transmitted \in Seq(Sendable) /\ noise \in Garbage \cup {<<>>}
    /\ ends \in Seq(Nat) /\ Len(ends) = Len(transmitted)
    /\ arrived \in Nat /\ arrived <= Len(stream)
    /\ reader \in {"reading", "framing", "refused"} /\ buffer \in Seq(Byte)
    /\ frames \in Seq(Sendable) /\ pending \in Seq(Sendable) /\ handed \in Seq(Sendable)

\* the stream is the frames one after the other, and the noise;
Laid ==
    /\ \A i \in 1 .. Len(transmitted) :
          /\ EndIn(ends, i) = EndIn(ends, i - 1) + Len(Bytes(transmitted[i]))
          /\ \A k \in 1 .. Len(Bytes(transmitted[i])) :
                stream[EndIn(ends, i - 1) + k] = Bytes(transmitted[i])[k]
    /\ \A i, j \in 0 .. Len(transmitted) : i < j => EndIn(ends, i) < EndIn(ends, j)
    /\ EndIn(ends, Len(transmitted)) + Len(noise) = Len(stream)
    /\ \A k \in 1 .. Len(noise) : stream[EndIn(ends, Len(transmitted)) + k] = noise[k]

\* what was taken off is what was transmitted;
Ordered ==
    /\ Taken <= Len(transmitted)
    /\ \A i \in 1 .. Len(handed) : handed[i] = transmitted[i]
    /\ \A i \in 1 .. Len(pending) : pending[i] = transmitted[Len(handed) + i]
    /\ \A i \in 1 .. Len(frames) : frames[i] = transmitted[Len(handed) + Len(pending) + i]

\* the buffer is what has arrived behind it;
Buffered == reader # "refused" =>
    /\ EndIn(ends, Taken) + Len(buffer) = arrived
    /\ \A k \in 1 .. Len(buffer) : buffer[k] = stream[EndIn(ends, Taken) + k]

\* between two reads nothing whole is left in it;
Settled == reader = "reading" =>
    /\ frames = <<>> /\ (buffer = <<>> \/ decode_frame(buffer) = Incomplete)
    /\ Taken < Len(transmitted) => arrived < EndIn(ends, Taken + 1)
    /\ noise # <<>> => arrived < EndIn(ends, Len(transmitted)) + Len(noise)

\* and only noise is refused.
StreamInv ==
    /\ Held /\ Laid /\ Ordered /\ Buffered /\ Settled
    /\ reader = "refused" => noise # <<>>

LEMMA EndsAreNumbers ==
  ASSUME Held, Laid
  PROVE  \A i \in 0 .. Len(transmitted) :
            /\ EndIn(ends, i) \in Nat /\ EndIn(ends, i) <= EndIn(ends, Len(transmitted))
            /\ EndIn(ends, i) <= Len(stream)
  <1>1. \A i \in 0 .. Len(transmitted) : EndIn(ends, i) \in Nat
    BY DEF Held, EndIn
  <1>2. \A i \in 0 .. Len(transmitted) : EndIn(ends, i) <= EndIn(ends, Len(transmitted))
    <2> SUFFICES ASSUME NEW i \in 0 .. Len(transmitted), i # Len(transmitted)
                 PROVE  EndIn(ends, i) <= EndIn(ends, Len(transmitted))
      BY <1>1
    <2>1. Len(transmitted) \in 0 .. Len(transmitted) /\ i < Len(transmitted)
      BY DEF Held
    <2>2. EndIn(ends, i) < EndIn(ends, Len(transmitted))
      BY <2>1 DEF Laid
    <2> QED  BY <1>1, <2>1, <2>2
  <1>3. EndIn(ends, Len(transmitted)) <= Len(stream)
    <2>1. EndIn(ends, Len(transmitted)) + Len(noise) = Len(stream) /\ Len(noise) \in Nat
      BY GarbageAssumption DEF Held, Laid
    <2>2. EndIn(ends, Len(transmitted)) \in Nat
      BY <1>1 DEF Held
    <2> QED  BY <2>1, <2>2
  <1>4. Len(stream) \in Nat /\ Len(transmitted) \in Nat
    BY DEF Held
  <1> QED  BY <1>1, <1>2, <1>3, <1>4

LEMMA Counts ==
  ASSUME Held, Ordered
  PROVE  /\ Taken \in 0 .. Len(transmitted) /\ Len(transmitted) \in Nat
         /\ Len(handed) \in Nat /\ Len(pending) \in Nat /\ Len(frames) \in Nat
         /\ Taken = Len(handed) + Len(pending) + Len(frames)
  BY DEF Held, Ordered, Taken

\* Nothing that begins like noise is a frame.
LEMMA NoiseIsNoFrame ==
  ASSUME NEW g \in Garbage
  PROVE  g \in Seq(Byte) /\ decode_frame(g) = Malformed /\ Len(g) \in Nat \ {0}
  <1>1. g \in Seq(Byte) /\ decode_frame(g) = Malformed
    BY GarbageAssumption
  <1>2. Len(g) # 0
    <2> SUFFICES ASSUME Len(g) = 0
                 PROVE  FALSE
      OBVIOUS
    <2>1. Len(MAGIC) = 4
      BY DEF MAGIC
    <2>2. decode_frame(g) = Incomplete
      <3>1. Len(g) < Len(MAGIC)
        BY <2>1
      <3> QED  BY <3>1, Zenon DEF decode_frame
    <2> QED  BY <1>1, <2>2 DEF Incomplete, Malformed
  <1> QED  BY <1>1, <1>2

LEMMA NoiseIsBytes ==
  ASSUME Held
  PROVE  /\ noise \in Seq(Byte) /\ Len(noise) \in Nat
         /\ noise # <<>> => noise \in Garbage /\ Len(noise) > 0
  <1>1. CASE noise \in Garbage
    BY <1>1, NoiseIsNoFrame
  <1>2. CASE noise = <<>>
    BY <1>2
  <1> QED  BY <1>1, <1>2 DEF Held

\* What the reader sees at the head of the buffer: the next frame as far as it has
\* arrived, or the noise.
LEMMA HeadOfBuffer ==
  ASSUME Held, Laid, Ordered, Buffered, reader # "refused"
  PROVE  /\ Taken < Len(transmitted) =>
              /\ transmitted[Taken + 1] \in Sendable
              /\ Len(Bytes(transmitted[Taken + 1])) \in Nat \ {0}
              /\ EndIn(ends, Taken + 1) = EndIn(ends, Taken) + Len(Bytes(transmitted[Taken + 1]))
              /\ decode_frame(buffer) =
                   IF Len(buffer) < Len(Bytes(transmitted[Taken + 1])) THEN Incomplete
                   ELSE [status |-> "ok", consumed |-> Len(Bytes(transmitted[Taken + 1])),
                         frame |-> transmitted[Taken + 1]]
         /\ Taken = Len(transmitted) =>
              /\ Len(buffer) <= Len(noise)
              /\ buffer # <<>> => noise # <<>> /\ decode_frame(buffer) \in {Incomplete, Malformed}
              /\ noise # <<>> /\ Len(buffer) = Len(noise) => decode_frame(buffer) = Malformed
  <1>1. /\ Taken \in 0 .. Len(transmitted) /\ Len(transmitted) \in Nat
        /\ Len(buffer) \in Nat /\ buffer \in Seq(Byte)
        /\ EndIn(ends, Taken) \in Nat /\ EndIn(ends, Taken) + Len(buffer) = arrived /\ arrived <= Len(stream)
        /\ \A k \in 1 .. Len(buffer) : buffer[k] = stream[EndIn(ends, Taken) + k]
    BY Counts, EndsAreNumbers DEF Held, Buffered
  <1>2. CASE Taken < Len(transmitted)
    <2>1. PICK it : it = transmitted[Taken + 1]
      OBVIOUS
    <2>2. it \in Sendable
      BY <1>1, <1>2, <2>1 DEF Held
    <2>3. ReadBack(it)
      BY <2>2, FrameAtHead
    <2>4. /\ EndIn(ends, Taken + 1) = EndIn(ends, Taken) + Len(Bytes(it))
          /\ \A k \in 1 .. Len(Bytes(it)) : stream[EndIn(ends, Taken) + k] = Bytes(it)[k]
      <3>1. Taken + 1 \in 1 .. Len(transmitted) /\ (Taken + 1) - 1 = Taken
        BY <1>1, <1>2
      <3> QED  BY <2>1, <3>1 DEF Laid
    <2>5. Len(Bytes(it)) \in Nat \ {0}
      BY <2>3 DEF ReadBack
    <2>6. \A i \in 1 .. Len(buffer) : i <= Len(Bytes(it)) => buffer[i] = Bytes(it)[i]
      BY <1>1, <2>4, <2>5
    <2>7. decode_frame(buffer) =
             IF Len(buffer) < Len(Bytes(it)) THEN Incomplete
             ELSE [status |-> "ok", consumed |-> Len(Bytes(it)), frame |-> it]
      BY <1>1, <2>3, <2>6, Zenon DEF ReadBack
    <2>8. Taken # Len(transmitted)
      BY <1>1, <1>2
    <2> QED  BY <2>1, <2>2, <2>4, <2>5, <2>7, <2>8
  <1>3. CASE Taken = Len(transmitted)
    <2>1. noise \in Seq(Byte) /\ Len(noise) \in Nat
      BY NoiseIsBytes
    <2>2. /\ Len(buffer) <= Len(noise)
          /\ \A k \in 1 .. Len(buffer) : noise[k] = buffer[k]
      <3>1. EndIn(ends, Taken) + Len(noise) = Len(stream)
        BY <1>3 DEF Laid
      <3>2. Len(buffer) <= Len(noise)
        BY <1>1, <2>1, <3>1 DEF Held
      <3>3. \A k \in 1 .. Len(noise) : stream[EndIn(ends, Taken) + k] = noise[k]
        BY <1>3 DEF Laid
      <3>4. \A k \in 1 .. Len(buffer) : k \in 1 .. Len(noise)
        BY <1>1, <2>1, <3>2
      <3>5. \A k \in 1 .. Len(buffer) : buffer[k] = stream[EndIn(ends, Taken) + k]
        BY <1>1
      <3> QED  BY <3>2, <3>3, <3>4, <3>5, Zenon
    <2>3. Starts(noise, buffer)
      BY <1>1, <2>1, <2>2 DEF Starts
    <2>4. noise # <<>> => noise \in Garbage /\ decode_frame(noise) = Malformed
      BY NoiseIsNoFrame DEF Held
    <2>5. ASSUME buffer # <<>>
          PROVE  noise # <<>> /\ decode_frame(buffer) \in {Incomplete, Malformed}
      <3>1. noise # <<>>
        BY <1>1, <2>1, <2>2, <2>5
      <3>2. decode_frame(buffer) # Incomplete => decode_frame(buffer) = Malformed
        BY <2>3, <2>4, <3>1, DecisionIsFinal, Zenon
      <3> QED  BY <3>1, <3>2
    <2>6. ASSUME noise # <<>>, Len(buffer) = Len(noise)
          PROVE  decode_frame(buffer) = Malformed
      <3>1. buffer = noise
        BY <1>1, <2>1, <2>2, <2>6, SeqEqual, Zenon
      <3> QED  BY <2>4, <2>6, <3>1
    <2>7. ~(Taken < Len(transmitted))
      BY <1>1, <1>3
    <2> QED  BY <2>2, <2>5, <2>6, <2>7
  <1>4. Taken < Len(transmitted) \/ Taken = Len(transmitted)
    BY <1>1
  <1> QED  BY <1>2, <1>3, <1>4, Zenon

LEMMA TransmitKeeps ==
  ASSUME StreamInv, Transmit
  PROVE  StreamInv'
  <1>1. PICK f \in Sendable : /\ stream' = stream \o Bytes(f)
                              /\ transmitted' = Append(transmitted, f)
                              /\ ends' = Append(ends, Len(stream'))
    BY DEF Transmit
  <1>2. /\ noise = <<>> /\ UNCHANGED <<noise, arrived, reader, buffer, frames, pending, handed>>
    BY DEF Transmit
  <1>3. Held /\ Laid /\ Ordered /\ Buffered /\ Settled /\ reader # "refused"
    BY <1>2 DEF StreamInv
  <1> DEFINE n == Len(transmitted)
  <1>4. /\ Taken \in 0 .. n /\ n \in Nat /\ Taken' = Taken
        /\ \A i \in 0 .. n : EndIn(ends, i) \in Nat /\ EndIn(ends, i) <= Len(stream)
        /\ EndIn(ends, n) = Len(stream) /\ Len(stream) \in Nat
    <2>1. EndIn(ends, n) + Len(noise) = Len(stream) /\ Len(noise) = 0 /\ Len(stream) \in Nat
      BY <1>2, <1>3 DEF Laid, Held
    <2>2. Taken' = Taken
      BY <1>2 DEF Taken
    <2>3. /\ Taken \in 0 .. n /\ n \in Nat
          /\ \A i \in 0 .. n : EndIn(ends, i) \in Nat /\ EndIn(ends, i) <= Len(stream)
      BY <1>3, Counts, EndsAreNumbers
    <2> QED  BY <2>1, <2>2, <2>3
  <1>5. Bytes(f) \in Seq(Byte) /\ Len(Bytes(f)) \in Nat \ {0}
    BY FrameAtHead DEF ReadBack
  <1>6. /\ stream' \in Seq(Byte) /\ Len(stream') = Len(stream) + Len(Bytes(f))
        /\ \A k \in 1 .. Len(stream) : stream'[k] = stream[k]
        /\ \A k \in 1 .. Len(Bytes(f)) : stream'[Len(stream) + k] = Bytes(f)[k]
    BY <1>1, <1>3, <1>5 DEF Held
  <1>7. /\ transmitted' \in Seq(Sendable) /\ Len(transmitted)' = n + 1
        /\ transmitted'[n + 1] = f
        /\ \A i \in 1 .. n : transmitted'[i] = transmitted[i]
    BY <1>1, <1>3 DEF Held
  <1>8. /\ ends' \in Seq(Nat) /\ Len(ends)' = n + 1
        /\ ends'[n + 1] = Len(stream') /\ \A i \in 1 .. n : ends'[i] = ends[i]
    <2>1. ends \in Seq(Nat) /\ Len(ends) = n /\ Len(stream') \in Nat
      BY <1>3, <1>6 DEF Held
    <2> QED  BY <1>1, <2>1
  <1>9. /\ \A i \in 0 .. n : EndIn(ends', i) = EndIn(ends, i)
        /\ EndIn(ends', n + 1) = Len(stream) + Len(Bytes(f))
    BY <1>4, <1>6, <1>8 DEF EndIn
  <1>10. Held'
    BY <1>2, <1>3, <1>4, <1>5, <1>6, <1>7, <1>8 DEF Held
  <1>11. Laid'
    <2>1. ASSUME NEW i \in 1 .. n + 1
          PROVE  /\ EndIn(ends', i) = EndIn(ends', i - 1) + Len(Bytes(transmitted'[i]))
                 /\ \A k \in 1 .. Len(Bytes(transmitted'[i])) :
                       stream'[EndIn(ends', i - 1) + k] = Bytes(transmitted'[i])[k]
      <3>1. CASE i = n + 1
        <4>1. transmitted'[i] = f /\ EndIn(ends', i - 1) = Len(stream)
              /\ EndIn(ends', i) = Len(stream) + Len(Bytes(f))
          BY <1>4, <1>7, <1>9, <3>1
        <4> QED  BY <1>6, <4>1
      <3>2. CASE i \in 1 .. n
        <4>1. /\ EndIn(ends, i) = EndIn(ends, i - 1) + Len(Bytes(transmitted[i]))
              /\ \A k \in 1 .. Len(Bytes(transmitted[i])) :
                    stream[EndIn(ends, i - 1) + k] = Bytes(transmitted[i])[k]
          BY <1>3, <3>2 DEF Laid
        <4>2. /\ EndIn(ends', i) = EndIn(ends, i) /\ EndIn(ends', i - 1) = EndIn(ends, i - 1)
              /\ EndIn(ends, i) \in Nat /\ EndIn(ends, i - 1) \in Nat /\ EndIn(ends, i) <= Len(stream)
          BY <1>4, <1>9, <3>2
        <4>3. transmitted'[i] = transmitted[i]
          BY <1>7, <3>2
        <4>4. Len(Bytes(transmitted[i])) \in Nat
          <5>1. transmitted[i] \in Sendable
            BY <1>3, <3>2 DEF Held
          <5> QED  BY <5>1, FrameAtHead DEF ReadBack
        <4>5. \A k \in 1 .. Len(Bytes(transmitted[i])) :
                 EndIn(ends, i - 1) + k \in 1 .. Len(stream)
          BY <1>4, <4>1, <4>2, <4>4
        <4> QED  BY <1>6, <4>1, <4>2, <4>3, <4>5
      <3> QED  BY <1>4, <3>1, <3>2
    <2>2. \A i, j \in 0 .. n + 1 : i < j => EndIn(ends', i) < EndIn(ends', j)
      <3> SUFFICES ASSUME NEW i \in 0 .. n + 1, NEW j \in 0 .. n + 1, i < j
                   PROVE  EndIn(ends', i) < EndIn(ends', j)
        OBVIOUS
      <3>1. i \in 0 .. n /\ EndIn(ends', i) = EndIn(ends, i) /\ EndIn(ends, i) \in Nat /\ EndIn(ends, i) <= Len(stream)
        BY <1>4, <1>9
      <3>2. CASE j = n + 1
        BY <1>4, <1>5, <1>9, <3>1, <3>2
      <3>3. CASE j \in 0 .. n
        <4>1. EndIn(ends, i) < EndIn(ends, j) /\ EndIn(ends', j) = EndIn(ends, j)
          BY <1>3, <1>9, <3>1, <3>3 DEF Laid
        <4> QED  BY <3>1, <4>1
      <3> QED  BY <1>4, <3>2, <3>3
    <2>3. EndIn(ends', n + 1) + Len(noise') = Len(stream')
      BY <1>2, <1>4, <1>5, <1>6, <1>9
    <2>4. \A k \in 1 .. Len(noise') : stream'[EndIn(ends', n + 1) + k] = noise'[k]
      BY <1>2
    <2>5. Len(transmitted') = n + 1
      BY <1>7
    <2> QED  BY <2>1, <2>2, <2>3, <2>4, <2>5 DEF Laid, EndIn
  <1>12. Ordered'
    <2>1. Taken' <= Len(transmitted')
      BY <1>4, <1>7
    <2>2. /\ Len(handed) \in Nat /\ Len(pending) \in Nat /\ Len(frames) \in Nat
          /\ Len(handed) + Len(pending) + Len(frames) <= n
      BY <1>3, <1>4, Counts
    <2>3. /\ \A i \in 1 .. Len(handed) : handed[i] = transmitted'[i]
          /\ \A i \in 1 .. Len(pending) : pending[i] = transmitted'[Len(handed) + i]
          /\ \A i \in 1 .. Len(frames) :
                frames[i] = transmitted'[Len(handed) + Len(pending) + i]
      <3>1. /\ \A i \in 1 .. Len(handed) : i \in 1 .. n
            /\ \A i \in 1 .. Len(pending) : Len(handed) + i \in 1 .. n
            /\ \A i \in 1 .. Len(frames) : Len(handed) + Len(pending) + i \in 1 .. n
        BY <1>4, <2>2
      <3>2. /\ \A i \in 1 .. Len(handed) : handed[i] = transmitted[i]
            /\ \A i \in 1 .. Len(pending) : pending[i] = transmitted[Len(handed) + i]
            /\ \A i \in 1 .. Len(frames) :
                  frames[i] = transmitted[Len(handed) + Len(pending) + i]
        BY <1>3 DEF Ordered
      <3> HIDE DEF n
      <3> QED  BY <1>7, <3>1, <3>2, Zenon
    <2> QED  BY <1>2, <2>1, <2>3 DEF Ordered
  <1>13. EndIn(ends', Taken) = EndIn(ends, Taken)
    BY <1>4, <1>9 DEF EndIn
  <1>14. Buffered'
    <2>1. /\ EndIn(ends, Taken) + Len(buffer) = arrived /\ EndIn(ends, Taken) \in Nat
          /\ arrived <= Len(stream) /\ Len(buffer) \in Nat
          /\ \A k \in 1 .. Len(buffer) : buffer[k] = stream[EndIn(ends, Taken) + k]
      BY <1>3, <1>4 DEF Buffered, Held
    <2>2. \A k \in 1 .. Len(buffer) : EndIn(ends, Taken) + k \in 1 .. Len(stream)
      BY <1>4, <2>1
    <2>3. \A k \in 1 .. Len(buffer) : buffer[k] = stream'[EndIn(ends, Taken) + k]
      BY <1>6, <2>1, <2>2
    <2> QED  BY <1>2, <1>4, <1>13, <2>1, <2>3 DEF Buffered
  <1>15. Settled'
    <2> SUFFICES ASSUME reader = "reading"
                 PROVE  /\ frames' = <<>> /\ (buffer' = <<>> \/ decode_frame(buffer') = Incomplete)
                        /\ Taken' < Len(transmitted') => arrived' < EndIn(ends', Taken + 1)
      BY <1>2, <1>4 DEF Settled
    <2>1. CASE Taken < n
      <3>1. Taken + 1 \in 0 .. n
        BY <1>4, <2>1
      <3>2. EndIn(ends', Taken + 1) = EndIn(ends, Taken + 1)
        BY <1>4, <1>9, <3>1 DEF EndIn
      <3> QED  BY <1>2, <1>3, <2>1, <3>2 DEF Settled
    <2>2. CASE Taken = n
      <3>1. EndIn(ends', Taken + 1) = Len(stream) + Len(Bytes(f))
        BY <1>4, <1>9, <2>2 DEF EndIn
      <3>2. arrived \in Nat /\ arrived <= Len(stream)
        BY <1>3 DEF Held
      <3> QED  BY <1>2, <1>3, <1>4, <1>5, <3>1, <3>2 DEF Settled
    <2> QED  BY <1>4, <2>1, <2>2
  <1> QED  BY <1>2, <1>3, <1>10, <1>11, <1>12, <1>14, <1>15 DEF StreamInv

LEMMA BabbleKeeps ==
  ASSUME StreamInv, Babble
  PROVE  StreamInv'
  <1>1. /\ noise = <<>> /\ noise' \in Garbage /\ stream' = stream \o noise'
        /\ UNCHANGED <<transmitted, ends, arrived, reader, buffer, frames, pending, handed>>
    BY DEF Babble
  <1>2. Held /\ Laid /\ Ordered /\ Buffered /\ Settled /\ reader # "refused"
    BY <1>1 DEF StreamInv
  <1> DEFINE n == Len(transmitted)
  <1>3. /\ Taken \in 0 .. n /\ n \in Nat /\ Taken' = Taken
        /\ \A i \in 0 .. n : EndIn(ends, i) \in Nat /\ EndIn(ends, i) <= Len(stream)
        /\ EndIn(ends, n) = Len(stream) /\ Len(stream) \in Nat
    <2>1. EndIn(ends, n) + Len(noise) = Len(stream) /\ Len(noise) = 0 /\ Len(stream) \in Nat
      BY <1>1, <1>2 DEF Laid, Held
    <2>2. Taken' = Taken
      BY <1>1 DEF Taken
    <2>3. /\ Taken \in 0 .. n /\ n \in Nat
          /\ \A i \in 0 .. n : EndIn(ends, i) \in Nat /\ EndIn(ends, i) <= Len(stream)
      BY <1>2, Counts, EndsAreNumbers
    <2> QED  BY <2>1, <2>2, <2>3
  <1>4. noise' \in Seq(Byte) /\ Len(noise') \in Nat \ {0} /\ noise' # <<>>
    BY <1>1, NoiseIsNoFrame
  <1>5. /\ stream' \in Seq(Byte) /\ Len(stream') = Len(stream) + Len(noise')
        /\ \A k \in 1 .. Len(stream) : stream'[k] = stream[k]
        /\ \A k \in 1 .. Len(noise') : stream'[Len(stream) + k] = noise'[k]
    BY <1>1, <1>2, <1>4 DEF Held
  <1>6. Held'
    <2>1. Len(stream) <= Len(stream') /\ arrived \in Nat /\ arrived <= Len(stream)
      BY <1>2, <1>4, <1>5 DEF Held
    <2> QED  BY <1>1, <1>2, <1>3, <1>5, <2>1 DEF Held
  <1>7. Laid'
    <2>1. ASSUME NEW i \in 1 .. n
          PROVE  /\ EndIn(ends, i) = EndIn(ends, i - 1) + Len(Bytes(transmitted[i]))
                 /\ \A k \in 1 .. Len(Bytes(transmitted[i])) :
                       stream'[EndIn(ends, i - 1) + k] = Bytes(transmitted[i])[k]
      <3>1. /\ EndIn(ends, i) = EndIn(ends, i - 1) + Len(Bytes(transmitted[i]))
            /\ \A k \in 1 .. Len(Bytes(transmitted[i])) :
                  stream[EndIn(ends, i - 1) + k] = Bytes(transmitted[i])[k]
        BY <1>2 DEF Laid
      <3>2. EndIn(ends, i - 1) \in Nat /\ EndIn(ends, i) \in Nat /\ EndIn(ends, i) <= Len(stream)
        BY <1>3
      <3>3. Len(Bytes(transmitted[i])) \in Nat
        <4>1. transmitted[i] \in Sendable
          BY <1>2 DEF Held
        <4> QED  BY <4>1, FrameAtHead DEF ReadBack
      <3>4. \A k \in 1 .. Len(Bytes(transmitted[i])) :
               EndIn(ends, i - 1) + k \in 1 .. Len(stream)
        BY <1>3, <3>1, <3>2, <3>3
      <3> QED  BY <1>5, <3>1, <3>4
    <2>2. \A i, j \in 0 .. n : i < j => EndIn(ends, i) < EndIn(ends, j)
      BY <1>2 DEF Laid
    <2>3. EndIn(ends, n) + Len(noise') = Len(stream')
      BY <1>3, <1>5
    <2>4. \A k \in 1 .. Len(noise') : stream'[EndIn(ends, n) + k] = noise'[k]
      BY <1>3, <1>5
    <2> QED  BY <1>1, <2>1, <2>2, <2>3, <2>4 DEF Laid
  <1>8. Ordered'
    BY <1>1, <1>2, <1>3 DEF Ordered
  <1>9. Buffered'
    <2>1. /\ EndIn(ends, Taken) + Len(buffer) = arrived /\ EndIn(ends, Taken) \in Nat
          /\ arrived <= Len(stream) /\ Len(buffer) \in Nat
          /\ \A k \in 1 .. Len(buffer) : buffer[k] = stream[EndIn(ends, Taken) + k]
      BY <1>2, <1>3 DEF Buffered, Held
    <2>2. \A k \in 1 .. Len(buffer) : EndIn(ends, Taken) + k \in 1 .. Len(stream)
      BY <1>3, <2>1
    <2>3. \A k \in 1 .. Len(buffer) : buffer[k] = stream'[EndIn(ends, Taken) + k]
      BY <1>5, <2>1, <2>2
    <2> QED  BY <1>1, <1>3, <2>1, <2>3 DEF Buffered
  <1>10. Settled'
    <2>1. arrived < EndIn(ends, n) + Len(noise')
      <3>1. arrived \in Nat /\ arrived <= Len(stream)
        BY <1>2 DEF Held
      <3> QED  BY <1>3, <1>4, <3>1
    <2> QED  BY <1>1, <1>2, <1>3, <2>1 DEF Settled
  <1> QED  BY <1>1, <1>2, <1>6, <1>7, <1>8, <1>9, <1>10 DEF StreamInv

\* What the client does leaves the controller's side as it is.
LEMMA LaidKept ==
  ASSUME Laid, UNCHANGED controller
  PROVE  Laid'
  BY DEF Laid, controller

\* A chunk never overruns the bound of the buffer: what it is added to is short.
LEMMA ShortOfTheBound ==
  ASSUME StreamInv, reader = "reading"
  PROVE  Len(buffer) + _READ_CHUNK <= 4 * MAX_PAYLOAD_BYTES
  <1>1. buffer \in Seq(Byte) /\ (buffer = <<>> \/ decode_frame(buffer) = Incomplete)
    BY DEF StreamInv, Held, Settled
  <1>2. buffer = <<>> => Len(buffer) = 0
    OBVIOUS
  <1>3. Len(buffer) < MAX_PAYLOAD_BYTES + 8
    <2>1. 0 < MAX_PAYLOAD_BYTES + 8
      BY DEF MAX_PAYLOAD_BYTES
    <2> QED  BY <1>1, <1>2, <2>1, IncompleteIsShort
  <1>4. Len(buffer) \in Nat
    BY <1>1
  <1> QED  BY <1>3, <1>4 DEF MAX_PAYLOAD_BYTES, _READ_CHUNK

LEMMA ReadChunkKeeps ==
  ASSUME StreamInv, ReadChunk
  PROVE  StreamInv'
  <1>1. Held /\ Laid /\ Ordered /\ Buffered /\ reader = "reading"
    BY DEF StreamInv, ReadChunk
  <1>2. PICK size \in ChunkSizes :
           LET grown == buffer \o SubSeq(stream, arrived + 1, arrived + size)
           IN  /\ arrived + size <= Len(stream) /\ arrived' = arrived + size
               /\ IF Len(grown) > 4 * MAX_PAYLOAD_BYTES
                  THEN reader' = "refused" /\ buffer' = <<>>
                  ELSE reader' = "framing" /\ buffer' = grown
    BY DEF ReadChunk
  <1>3. UNCHANGED <<controller, frames, pending, handed>>
    BY DEF ReadChunk
  <1> DEFINE chunk == SubSeq(stream, arrived + 1, arrived + size)
             grown == buffer \o chunk
  <1>4. size \in Nat /\ size >= 1 /\ size <= _READ_CHUNK
    <2>1. _READ_CHUNK \in Nat
      BY DEF _READ_CHUNK
    <2>2. size \in 1 .. _READ_CHUNK
      BY BoundsAssumption
    <2> QED  BY <2>1, <2>2
  <1>5. /\ stream \in Seq(Byte) /\ buffer \in Seq(Byte) /\ arrived \in Nat
        /\ Len(buffer) \in Nat /\ arrived + size <= Len(stream)
    BY <1>1, <1>2 DEF Held
  <1>6. /\ chunk \in Seq(Byte) /\ Len(chunk) = size
        /\ \A k \in 1 .. size : chunk[k] = stream[arrived + k]
    <2> HIDE DEF chunk
    <2>1. chunk \in Seq(Byte) /\ Len(chunk) = size
      BY <1>4, <1>5 DEF chunk
    <2>2. \A k \in 1 .. size : chunk[k] = stream[arrived + k]
      BY <1>4, <1>5 DEF chunk
    <2> QED  BY <2>1, <2>2
  <1> HIDE DEF chunk
  <1>7. /\ grown \in Seq(Byte) /\ Len(grown) = Len(buffer) + size
        /\ \A k \in 1 .. Len(buffer) : grown[k] = buffer[k]
        /\ \A k \in 1 .. size : grown[Len(buffer) + k] = chunk[k]
    BY <1>4, <1>5, <1>6
  <1> HIDE DEF grown
  <1>8. ~(Len(grown) > 4 * MAX_PAYLOAD_BYTES)
    <2>1. Len(buffer) + _READ_CHUNK <= 4 * MAX_PAYLOAD_BYTES
      BY <1>1, ShortOfTheBound
    <2>2. _READ_CHUNK \in Nat /\ MAX_PAYLOAD_BYTES \in Nat
      BY DEF _READ_CHUNK, MAX_PAYLOAD_BYTES
    <2> QED  BY <1>4, <1>5, <1>7, <2>1, <2>2
  <1>9. arrived' = arrived + size /\ reader' = "framing" /\ buffer' = grown
    BY <1>2, <1>8 DEF grown, chunk
  <1>10. Held'
    BY <1>1, <1>3, <1>4, <1>5, <1>7, <1>9 DEF Held, controller
  <1>11. Taken' = Taken
    BY <1>3 DEF Taken
  <1>12. Ordered'
    BY <1>1, <1>3, <1>11 DEF Ordered, controller
  <1>13. Buffered'
    <2>1. /\ EndIn(ends, Taken) \in Nat /\ EndIn(ends, Taken) + Len(buffer) = arrived
          /\ \A k \in 1 .. Len(buffer) : buffer[k] = stream[EndIn(ends, Taken) + k]
      <3>1. Taken \in 0 .. Len(transmitted)
        BY <1>1, Counts
      <3> QED  BY <1>1, <3>1, EndsAreNumbers DEF Buffered
    <2>2. /\ EndIn(ends, Taken) + Len(grown) = arrived + size
          /\ \A m \in 1 .. size : EndIn(ends, Taken) + (Len(buffer) + m) = arrived + m
      <3>1. PICK e \in Nat : e = EndIn(ends, Taken)
        BY <2>1
      <3>2. PICK b \in Nat : b = Len(buffer)
        BY <1>5
      <3>3. e + b = arrived /\ Len(grown) = b + size
        BY <1>7, <2>1, <3>1, <3>2
      <3>4. e + (b + size) = arrived + size /\ \A m \in 1 .. size : e + (b + m) = arrived + m
        BY <1>4, <1>5, <3>3
      <3> QED  BY <3>1, <3>2, <3>3, <3>4
    <2>3. ASSUME NEW k \in 1 .. Len(grown)
          PROVE  grown[k] = stream[EndIn(ends, Taken) + k]
      <3>1. CASE k \in 1 .. Len(buffer)
        BY <1>7, <2>1, <3>1
      <3>2. CASE ~(k \in 1 .. Len(buffer))
        <4>1. PICK m \in 1 .. size : k = Len(buffer) + m
          <5>1. k - Len(buffer) \in 1 .. size /\ k = Len(buffer) + (k - Len(buffer))
            BY <1>4, <1>5, <1>7, <3>2
          <5> QED  BY <5>1
        <4>2. EndIn(ends, Taken) + k = arrived + m
          BY <2>2, <4>1
        <4> QED  BY <1>6, <1>7, <4>1, <4>2
      <3> QED  BY <3>1, <3>2
    <2> QED  BY <1>3, <1>9, <1>11, <2>2, <2>3 DEF Buffered, controller
  <1>14. Settled' /\ reader' # "refused"
    BY <1>9 DEF Settled
  <1>15. Laid'
    BY <1>1, <1>3, LaidKept
  <1> QED  BY <1>10, <1>12, <1>13, <1>14, <1>15 DEF StreamInv

LEMMA TakeFrameKeeps ==
  ASSUME StreamInv, TakeFrame
  PROVE  StreamInv'
  <1>1. Held /\ Laid /\ Ordered /\ Buffered /\ reader = "framing" /\ buffer # <<>>
    BY DEF StreamInv, TakeFrame
  <1>2. UNCHANGED <<controller, arrived, reader, pending, handed>>
    BY DEF TakeFrame
  <1>3. /\ decode_frame(buffer).status = "ok"
        /\ buffer' = SubSeq(buffer, decode_frame(buffer).consumed + 1, Len(buffer))
        /\ frames' = Append(frames, decode_frame(buffer).frame)
    BY DEF TakeFrame
  <1> DEFINE n == Len(transmitted)
  <1>4. /\ Taken \in 0 .. n /\ n \in Nat
        /\ Len(handed) \in Nat /\ Len(pending) \in Nat /\ Len(frames) \in Nat
        /\ Taken = Len(handed) + Len(pending) + Len(frames)
    BY <1>1, Counts
  <1>5. Taken < n
    <2> SUFFICES ASSUME Taken = n
                 PROVE  FALSE
      BY <1>4
    <2>1. decode_frame(buffer) \in {Incomplete, Malformed}
      BY <1>1, HeadOfBuffer
    <2> QED  BY <1>3, <2>1 DEF Incomplete, Malformed
  <1>6. PICK it : it = transmitted[Taken + 1]
    OBVIOUS
  <1>7. /\ it \in Sendable /\ Len(Bytes(it)) \in Nat \ {0}
        /\ EndIn(ends, Taken + 1) = EndIn(ends, Taken) + Len(Bytes(it))
        /\ decode_frame(buffer) =
             IF Len(buffer) < Len(Bytes(it)) THEN Incomplete
             ELSE [status |-> "ok", consumed |-> Len(Bytes(it)), frame |-> it]
    BY <1>1, <1>5, <1>6, HeadOfBuffer
  <1>8. /\ ~(Len(buffer) < Len(Bytes(it)))
        /\ decode_frame(buffer).consumed = Len(Bytes(it)) /\ decode_frame(buffer).frame = it
    BY <1>3, <1>7 DEF Incomplete
  <1>9. PICK size \in Nat \ {0} : size = Len(Bytes(it))
    BY <1>7
  <1>10. /\ buffer' \in Seq(Byte) /\ Len(buffer') = Len(buffer) - size
         /\ size <= Len(buffer) /\ Len(buffer) \in Nat
         /\ \A k \in 1 .. Len(buffer') : buffer'[k] = buffer[size + k]
    <2>1. buffer \in Seq(Byte) /\ Len(buffer) \in Nat /\ size <= Len(buffer)
      BY <1>1, <1>8, <1>9 DEF Held
    <2>2. buffer' = SubSeq(buffer, size + 1, Len(buffer))
      BY <1>3, <1>8, <1>9
    <2>3. Len(buffer') = Len(buffer) - size /\ buffer' \in Seq(Byte)
      BY <2>1, <2>2
    <2>4. \A k \in 1 .. Len(buffer) - size : SubSeq(buffer, size + 1, Len(buffer))[k] = buffer[size + k]
      BY <2>1
    <2> QED  BY <2>1, <2>2, <2>3, <2>4
  <1>11. /\ frames' \in Seq(Sendable) /\ Len(frames') = Len(frames) + 1
         /\ \A i \in 1 .. Len(frames) : frames'[i] = frames[i]
         /\ frames'[Len(frames) + 1] = it
    BY <1>1, <1>3, <1>7, <1>8 DEF Held
  <1>12. Held'
    BY <1>1, <1>2, <1>10, <1>11 DEF Held, controller
  <1>13. Taken' = Taken + 1
    BY <1>2, <1>4, <1>11 DEF Taken
  <1>14. Ordered'
    <2>1. Taken + 1 <= n
      BY <1>4, <1>5
    <2>2. ASSUME NEW i \in 1 .. Len(frames')
          PROVE  frames'[i] = transmitted[Len(handed) + Len(pending) + i]
      <3>1. CASE i \in 1 .. Len(frames)
        BY <1>1, <1>11, <3>1 DEF Ordered
      <3>2. CASE i = Len(frames) + 1
        <4>1. Len(handed) + Len(pending) + i = Taken + 1
          BY <1>4, <3>2
        <4> QED  BY <1>6, <1>11, <3>2, <4>1
      <3> QED  BY <1>4, <1>11, <3>1, <3>2
    <2>3. /\ \A i \in 1 .. Len(handed) : handed[i] = transmitted[i]
          /\ \A i \in 1 .. Len(pending) : pending[i] = transmitted[Len(handed) + i]
      BY <1>1 DEF Ordered
    <2>4. UNCHANGED <<transmitted, pending, handed>>
      BY <1>2 DEF controller
    <2> QED  BY <1>13, <2>1, <2>2, <2>3, <2>4 DEF Ordered
  <1>15. Buffered'
    <2>1. PICK e \in Nat : e = EndIn(ends, Taken)
      BY <1>1, <1>4, EndsAreNumbers
    <2>2. /\ e + Len(buffer) = arrived /\ EndIn(ends, Taken + 1) = e + size
          /\ \A k \in 1 .. Len(buffer) : buffer[k] = stream[e + k]
      BY <1>1, <1>7, <1>9, <2>1 DEF Buffered
    <2>3. EndIn(ends, Taken + 1) + Len(buffer') = arrived
      BY <1>10, <2>1, <2>2
    <2>4. ASSUME NEW k \in 1 .. Len(buffer')
          PROVE  buffer'[k] = stream[EndIn(ends, Taken + 1) + k]
      <3>1. size + k \in 1 .. Len(buffer) /\ e + (size + k) = (e + size) + k
        BY <1>10, <2>1
      <3> QED  BY <1>10, <2>2, <3>1
    <2>5. UNCHANGED <<stream, ends, arrived>>
      BY <1>2 DEF controller
    <2> QED  BY <1>13, <2>3, <2>4, <2>5 DEF Buffered
  <1>16. Settled' /\ reader' # "refused"
    BY <1>1, <1>2 DEF Settled
  <1>17. Laid'
    BY <1>1, <1>2, LaidKept
  <1> QED  BY <1>12, <1>14, <1>15, <1>16, <1>17 DEF StreamInv

LEMMA ReturnFramesKeeps ==
  ASSUME StreamInv, ReturnFrames
  PROVE  StreamInv'
  <1>1. /\ Held /\ Laid /\ Ordered /\ Buffered /\ reader = "framing"
        /\ buffer = <<>> \/ decode_frame(buffer) = Incomplete
    BY DEF StreamInv, ReturnFrames
  <1>2. /\ reader' = "reading" /\ pending' = pending \o frames /\ frames' = <<>>
        /\ UNCHANGED <<stream, transmitted, ends, noise, arrived, buffer, handed>>
    BY DEF ReturnFrames, controller
  <1> DEFINE n == Len(transmitted)
  <1>3. /\ Taken \in 0 .. n /\ n \in Nat
        /\ Len(handed) \in Nat /\ Len(pending) \in Nat /\ Len(frames) \in Nat
        /\ Taken = Len(handed) + Len(pending) + Len(frames)
    BY <1>1, Counts
  <1>4. /\ pending' \in Seq(Sendable) /\ Len(pending') = Len(pending) + Len(frames)
        /\ \A i \in 1 .. Len(pending) : pending'[i] = pending[i]
        /\ \A i \in 1 .. Len(frames) : pending'[Len(pending) + i] = frames[i]
    <2>1. pending \in Seq(Sendable) /\ frames \in Seq(Sendable)
      BY <1>1 DEF Held
    <2>2. PICK both : both = pending \o frames
      OBVIOUS
    <2>3. /\ both \in Seq(Sendable) /\ Len(both) = Len(pending) + Len(frames)
          /\ \A i \in 1 .. Len(pending) : both[i] = pending[i]
          /\ \A i \in 1 .. Len(frames) : both[Len(pending) + i] = frames[i]
      BY <2>1, <2>2
    <2> QED  BY <1>2, <2>2, <2>3
  <1>5. Taken' = Taken
    <2>1. Len(frames') = 0
      BY <1>2
    <2> QED  BY <1>2, <1>3, <1>4, <2>1 DEF Taken
  <1>6. Held'
    BY <1>1, <1>2, <1>4 DEF Held
  <1>7. Ordered'
    <2>1. ASSUME NEW i \in 1 .. Len(pending')
          PROVE  pending'[i] = transmitted[Len(handed) + i]
      <3>1. CASE i \in 1 .. Len(pending)
        BY <1>1, <1>4, <3>1 DEF Ordered
      <3>2. CASE ~(i \in 1 .. Len(pending))
        <4>1. PICK m \in 1 .. Len(frames) : i = Len(pending) + m
          <5>1. i - Len(pending) \in 1 .. Len(frames) /\ i = Len(pending) + (i - Len(pending))
            BY <1>3, <1>4, <3>2
          <5> QED  BY <5>1
        <4>2. Len(handed) + i = Len(handed) + Len(pending) + m
          BY <1>3, <4>1
        <4>3. frames[m] = transmitted[Len(handed) + Len(pending) + m]
          BY <1>1, <4>1 DEF Ordered
        <4> QED  BY <1>4, <4>1, <4>2, <4>3
      <3> QED  BY <3>1, <3>2
    <2>2. Taken <= n /\ \A i \in 1 .. Len(handed) : handed[i] = transmitted[i]
      BY <1>1 DEF Ordered
    <2> QED  BY <1>2, <1>5, <2>1, <2>2 DEF Ordered
  <1>8. Buffered'
    BY <1>1, <1>2, <1>5 DEF Buffered
  <1>9. PICK e \in Nat : e = EndIn(ends, Taken) /\ e + Len(buffer) = arrived
    BY <1>1, <1>3, EndsAreNumbers DEF Buffered
  <1>10. Len(buffer) \in Nat /\ (buffer = <<>> => Len(buffer) = 0)
    BY <1>1 DEF Held
  <1>11. \A i \in 0 .. n : EndIn(ends, i) \in Nat /\ EndIn(ends, i) <= EndIn(ends, n)
    BY <1>1, EndsAreNumbers
  <1>12. Taken < n => arrived < EndIn(ends, Taken + 1)
    <2> HAVE Taken < n
    <2>1. PICK it : it = transmitted[Taken + 1]
      OBVIOUS
    <2>2. /\ Len(Bytes(it)) \in Nat \ {0}
          /\ EndIn(ends, Taken + 1) = EndIn(ends, Taken) + Len(Bytes(it))
          /\ decode_frame(buffer) =
               IF Len(buffer) < Len(Bytes(it)) THEN Incomplete
               ELSE [status |-> "ok", consumed |-> Len(Bytes(it)), frame |-> it]
      BY <1>1, <2>1, HeadOfBuffer
    <2>3. Len(buffer) < Len(Bytes(it))
      <3>1. CASE buffer = <<>>
        BY <1>10, <2>2, <3>1
      <3>2. CASE decode_frame(buffer) = Incomplete
        BY <2>2, <3>2 DEF Incomplete
      <3> QED  BY <1>1, <3>1, <3>2
    <2>4. PICK size \in Nat \ {0} : size = Len(Bytes(it))
      BY <2>2
    <2>5. e + Len(buffer) < e + size
      BY <1>10, <2>3, <2>4
    <2> QED  BY <1>9, <2>2, <2>4, <2>5
  <1>13. noise # <<>> => arrived < EndIn(ends, n) + Len(noise)
    <2> HAVE noise # <<>>
    <2>1. Len(noise) \in Nat /\ Len(noise) > 0
      BY <1>1, NoiseIsBytes
    <2>2. CASE Taken < n
      <3>1. arrived < EndIn(ends, Taken + 1) /\ Taken + 1 \in 0 .. n /\ n \in 0 .. n
        BY <1>3, <1>12, <2>2
      <3>2. EndIn(ends, Taken + 1) <= EndIn(ends, n) /\ EndIn(ends, Taken + 1) \in Nat
            /\ EndIn(ends, n) \in Nat /\ arrived \in Nat
        BY <1>1, <1>11, <3>1 DEF Held
      <3> QED  BY <2>1, <3>1, <3>2
    <2>3. CASE Taken = n
      <3>1. /\ Len(buffer) <= Len(noise)
            /\ Len(buffer) = Len(noise) => decode_frame(buffer) = Malformed
        BY <1>1, <2>3, HeadOfBuffer
      <3>2. Len(buffer) # Len(noise)
        BY <1>1, <1>10, <2>1, <3>1 DEF Incomplete, Malformed
      <3> QED  BY <1>9, <1>10, <2>1, <2>3, <3>1, <3>2
    <2> QED  BY <1>3, <2>2, <2>3
  <1>14. Settled'
    BY <1>1, <1>2, <1>5, <1>12, <1>13 DEF Settled
  <1>15. Laid'
    BY <1>1, <1>2, LaidKept DEF controller
  <1> QED  BY <1>2, <1>6, <1>7, <1>8, <1>14, <1>15 DEF StreamInv

LEMMA RefuseKeeps ==
  ASSUME StreamInv, Refuse
  PROVE  StreamInv'
  <1>1. /\ Held /\ Laid /\ Ordered /\ Buffered /\ reader = "framing"
        /\ buffer # <<>> /\ decode_frame(buffer) = Malformed
    BY DEF StreamInv, Refuse
  <1>2. /\ reader' = "refused" /\ frames' = <<>>
        /\ UNCHANGED <<stream, transmitted, ends, noise, arrived, buffer, pending, handed>>
    BY DEF Refuse, controller
  <1>3. /\ Taken \in 0 .. Len(transmitted) /\ Len(transmitted) \in Nat
        /\ Len(handed) \in Nat /\ Len(pending) \in Nat /\ Len(frames) \in Nat
        /\ Taken = Len(handed) + Len(pending) + Len(frames)
    BY <1>1, Counts
  <1>4. noise # <<>>
    <2>1. CASE Taken < Len(transmitted)
      BY <1>1, <2>1, HeadOfBuffer DEF Incomplete, Malformed
    <2>2. CASE Taken = Len(transmitted)
      BY <1>1, <2>2, HeadOfBuffer
    <2> QED  BY <1>3, <2>1, <2>2
  <1>5. Held'
    BY <1>1, <1>2 DEF Held
  <1>6. Ordered'
    <2>1. Len(frames') = 0
      BY <1>2
    <2>2. Taken' <= Len(transmitted)
      BY <1>2, <1>3, <2>1 DEF Taken
    <2> QED  BY <1>1, <1>2, <2>1, <2>2 DEF Ordered
  <1>7. Buffered' /\ Settled'
    BY <1>2 DEF Buffered, Settled
  <1>8. Laid'
    BY <1>1, <1>2, LaidKept DEF controller
  <1> QED  BY <1>2, <1>4, <1>5, <1>6, <1>7, <1>8 DEF StreamInv

LEMMA HandOutKeeps ==
  ASSUME StreamInv, HandOut
  PROVE  StreamInv'
  <1>1. Held /\ Laid /\ Ordered /\ Buffered /\ Settled /\ reader = "reading" /\ pending # <<>>
    BY DEF StreamInv, HandOut
  <1>2. /\ handed' = Append(handed, Head(pending)) /\ pending' = Tail(pending)
        /\ UNCHANGED <<stream, transmitted, ends, noise, arrived, reader, buffer, frames>>
    BY DEF HandOut, controller
  <1>3. /\ Taken \in 0 .. Len(transmitted) /\ Len(transmitted) \in Nat
        /\ Len(handed) \in Nat /\ Len(pending) \in Nat /\ Len(frames) \in Nat
        /\ Taken = Len(handed) + Len(pending) + Len(frames)
    BY <1>1, Counts
  <1>4. /\ Len(pending) >= 1 /\ pending[1] \in Sendable /\ Head(pending) = pending[1]
        /\ pending' \in Seq(Sendable) /\ Len(pending') = Len(pending) - 1
        /\ \A i \in 1 .. Len(pending) - 1 : pending'[i] = pending[i + 1]
    BY <1>1, <1>2 DEF Held
  <1>5. /\ handed' \in Seq(Sendable) /\ Len(handed') = Len(handed) + 1
        /\ \A i \in 1 .. Len(handed) : handed'[i] = handed[i]
        /\ handed'[Len(handed) + 1] = pending[1]
    BY <1>1, <1>2, <1>4 DEF Held
  <1>6. Taken' = Taken
    BY <1>2, <1>3, <1>4, <1>5 DEF Taken
  <1>7. Held'
    BY <1>1, <1>2, <1>4, <1>5 DEF Held
  <1>8. Ordered'
    <2>1. /\ Taken <= Len(transmitted)
          /\ \A i \in 1 .. Len(handed) : handed[i] = transmitted[i]
          /\ \A i \in 1 .. Len(pending) : pending[i] = transmitted[Len(handed) + i]
          /\ \A i \in 1 .. Len(frames) : frames[i] = transmitted[Len(handed) + Len(pending) + i]
      BY <1>1 DEF Ordered
    <2>2. \A i \in 1 .. Len(handed) + 1 : handed'[i] = transmitted[i]
      <3>1. pending[1] = transmitted[Len(handed) + 1]
        BY <1>3, <1>4, <2>1
      <3> QED  BY <1>3, <1>5, <2>1, <3>1
    <2>3. ASSUME NEW i \in 1 .. Len(pending) - 1
          PROVE  pending'[i] = transmitted[(Len(handed) + 1) + i]
      <3>1. i + 1 \in 1 .. Len(pending) /\ Len(handed) + (i + 1) = (Len(handed) + 1) + i
        BY <1>3
      <3> QED  BY <1>4, <2>1, <3>1
    <2>4. Len(handed') + Len(pending') = Len(handed) + Len(pending)
      BY <1>3, <1>4, <1>5
    <2> QED  BY <1>2, <1>4, <1>5, <1>6, <2>1, <2>2, <2>3, <2>4 DEF Ordered
  <1>9. Buffered'
    BY <1>1, <1>2, <1>6 DEF Buffered
  <1>10. Settled'
    BY <1>1, <1>2, <1>6 DEF Settled
  <1>11. Laid'
    BY <1>1, <1>2, LaidKept DEF controller
  <1> QED  BY <1>1, <1>2, <1>7, <1>8, <1>9, <1>10, <1>11 DEF StreamInv

LEMMA StreamInvHolds == StreamSpec => []StreamInv
  <1>1. StreamInit => StreamInv
    <2> SUFFICES ASSUME StreamInit
                 PROVE  StreamInv
      OBVIOUS
    <2>1. /\ stream = <<>> /\ transmitted = <<>> /\ ends = <<>> /\ noise = <<>>
          /\ arrived = 0 /\ reader = "reading" /\ buffer = <<>>
          /\ frames = <<>> /\ pending = <<>> /\ handed = <<>>
      BY DEF StreamInit
    <2>2. Held
      BY <2>1 DEF Held
    <2>3. Taken = 0 /\ Len(transmitted) = 0 /\ Len(noise) = 0 /\ Len(buffer) = 0 /\ Len(stream) = 0
      BY <2>1 DEF Taken
    <2>4. EndIn(ends, 0) = 0
      BY DEF EndIn
    <2>5. Laid /\ Ordered /\ Buffered
      BY <2>1, <2>3, <2>4 DEF Laid, Ordered, Buffered
    <2>6. Settled /\ reader # "refused"
      BY <2>1, <2>3 DEF Settled
    <2> QED  BY <2>2, <2>5, <2>6 DEF StreamInv
  <1>2. StreamInv /\ [StreamNext]_streamVars => StreamInv'
    <2> SUFFICES ASSUME StreamInv, [StreamNext]_streamVars
                 PROVE  StreamInv'
      OBVIOUS
    <2>1. CASE Transmit
      BY <2>1, TransmitKeeps
    <2>2. CASE Babble
      BY <2>2, BabbleKeeps
    <2>3. CASE ReadChunk
      BY <2>3, ReadChunkKeeps
    <2>4. CASE TakeFrame
      BY <2>4, TakeFrameKeeps
    <2>5. CASE ReturnFrames
      BY <2>5, ReturnFramesKeeps
    <2>6. CASE Refuse
      BY <2>6, RefuseKeeps
    <2>7. CASE HandOut
      BY <2>7, HandOutKeeps
    <2>8. CASE UNCHANGED streamVars
      <3>1. UNCHANGED <<stream, transmitted, ends, noise, arrived, reader, buffer, frames,
                        pending, handed>>
        BY <2>8 DEF streamVars
      <3>2. Taken' = Taken
        BY <3>1 DEF Taken
      <3>3. Held' /\ Ordered' /\ Buffered' /\ Settled'
        BY <3>1, <3>2 DEF StreamInv, Held, Ordered, Buffered, Settled
      <3>4. Laid'
        BY <3>1, LaidKept DEF StreamInv, controller
      <3> QED  BY <3>1, <3>3, <3>4 DEF StreamInv
    <2> QED  BY <2>1, <2>2, <2>3, <2>4, <2>5, <2>6, <2>7, <2>8 DEF StreamNext
  <1> QED  BY <1>1, <1>2, PTL DEF StreamSpec

\* StreamTypeOK (FrameReader, BestwayClient._next_frame): what the reader and
\* the client hold are bytes and frames a controller may send, in every state.
THEOREM StreamTypeHolds == StreamSpec => []StreamTypeOK
  <1>1. StreamInv => StreamTypeOK
    <2> SUFFICES ASSUME StreamInv
                 PROVE  StreamTypeOK
      OBVIOUS
    <2>1. Held /\ Len(stream) \in Nat
      BY DEF StreamInv, Held
    <2>2. ends \in [DOMAIN transmitted -> Nat]
      BY <2>1 DEF Held
    <2>3. arrived \in 0 .. Len(stream)
      BY <2>1 DEF Held
    <2> QED  BY <2>1, <2>2, <2>3, Zenon DEF StreamTypeOK, Held
  <1> QED  BY <1>1, StreamInvHolds, PTL

\* WireIsExact (FrameReader.feed, BestwayClient._next_frame): for any frames that
\* fit the receiver's limit, any garbage no frame begins with and any cutting of
\* the stream into reads of at most 4096 bytes, the client receives the frames of
\* the controller in order and each once, keeps exactly the bytes behind them, has
\* room for another read, and refuses a stream only when the controller lost step,
\* and then as soon as the garbage has arrived.
THEOREM WireIsExactHolds == StreamSpec => []WireIsExact
  <1>1. StreamInv => WireIsExact
    <2> SUFFICES ASSUME StreamInv
                 PROVE  WireIsExact
      OBVIOUS
    <2> DEFINE received == handed \o pending
               count == Len(received)
               n == Len(transmitted)
    <2>1. Held /\ Laid /\ Ordered /\ Buffered /\ Settled /\ (reader = "refused" => noise # <<>>)
      BY DEF StreamInv
    <2>2. /\ Taken \in 0 .. n /\ n \in Nat
          /\ Len(handed) \in Nat /\ Len(pending) \in Nat /\ Len(frames) \in Nat
          /\ Taken = Len(handed) + Len(pending) + Len(frames)
      BY <2>1, Counts
    <2>3. /\ received \in Seq(Sendable) /\ count = Len(handed) + Len(pending)
          /\ \A i \in 1 .. Len(handed) : received[i] = handed[i]
          /\ \A i \in 1 .. Len(pending) : received[Len(handed) + i] = pending[i]
      BY <2>1 DEF Held
    <2> HIDE DEF received
    <2>4. count \in 0 .. n
      BY <2>2, <2>3
    <2>5. ASSUME NEW i \in 1 .. count
          PROVE  received[i] = transmitted[i]
      <3>1. CASE i \in 1 .. Len(handed)
        BY <2>1, <2>3, <3>1 DEF Ordered
      <3>2. CASE ~(i \in 1 .. Len(handed))
        <4>1. PICK m \in 1 .. Len(pending) : i = Len(handed) + m
          <5>1. i - Len(handed) \in 1 .. Len(pending) /\ i = Len(handed) + (i - Len(handed))
            BY <2>2, <2>3, <3>2
          <5> QED  BY <5>1
        <4> QED  BY <2>1, <2>3, <4>1 DEF Ordered
      <3> QED  BY <3>1, <3>2
    <2>6. IsPrefix(received, transmitted)
      <3>1. transmitted \in Seq(Sendable)
        BY <2>1 DEF Held
      <3>2. /\ SubSeq(transmitted, 1, count) \in Seq(Sendable)
            /\ Len(SubSeq(transmitted, 1, count)) = count
            /\ \A i \in 1 .. count : SubSeq(transmitted, 1, count)[i] = transmitted[i]
        BY <2>4, <3>1
      <3>3. SubSeq(transmitted, 1, count) = received
        BY <2>3, <2>5, <3>2, SeqEqual
      <3>4. SubSeq(received, 1, count) = received
        BY <2>3
      <3> QED  BY <2>2, <2>4, <3>3, <3>4 DEF IsPrefix
    <2>7. ASSUME reader = "reading"
          PROVE  /\ \A i \in DOMAIN transmitted : i <= count <=> ends[i] <= arrived
                 /\ buffer = SubSeq(stream, EndOf(count) + 1, arrived)
                 /\ Len(buffer) + _READ_CHUNK <= 4 * MAX_PAYLOAD_BYTES
                 /\ noise # <<>> => arrived < EndOf(n) + Len(noise)
      <3>1. /\ frames = <<>> /\ (Taken < n => arrived < EndIn(ends, Taken + 1))
            /\ noise # <<>> => arrived < EndIn(ends, n) + Len(noise)
        BY <2>1, <2>7 DEF Settled
      <3>2. Taken = count
        BY <2>2, <2>3, <3>1
      <3>3. \A i \in 0 .. n : EndIn(ends, i) \in Nat /\ EndOf(i) = EndIn(ends, i)
        BY <2>1, EndsAreNumbers DEF EndOf, EndIn
      <3>4. PICK e \in Nat : /\ e = EndIn(ends, count) /\ e + Len(buffer) = arrived
                             /\ \A k \in 1 .. Len(buffer) : buffer[k] = stream[e + k]
        BY <2>1, <2>4, <2>7, <3>2, <3>3 DEF Buffered
      <3>5. /\ arrived \in Nat /\ arrived <= Len(stream) /\ stream \in Seq(Byte)
            /\ buffer \in Seq(Byte) /\ Len(buffer) \in Nat /\ Len(stream) \in Nat
        BY <2>1 DEF Held
      <3>6. ASSUME NEW i \in 1 .. n
            PROVE  i <= count <=> ends[i] <= arrived
        <4>1. ends[i] = EndIn(ends, i) /\ EndIn(ends, i) \in Nat
          BY <3>3 DEF EndIn
        <4>2. CASE i <= count
          <5>1. i = count \/ EndIn(ends, i) < EndIn(ends, count)
            BY <2>1, <2>4, <4>2 DEF Laid
          <5> QED  BY <3>4, <3>5, <4>1, <4>2, <5>1
        <4>3. CASE ~(i <= count)
          <5>1. count < n /\ count + 1 \in 0 .. n /\ i \in 0 .. n
            BY <2>4, <4>3
          <5>2. arrived < EndIn(ends, count + 1) /\ EndIn(ends, count + 1) \in Nat
            BY <3>1, <3>2, <3>3, <5>1
          <5>3. i = count + 1 \/ EndIn(ends, count + 1) < EndIn(ends, i)
            <6>1. i # count + 1 => count + 1 < i
              BY <2>4, <4>3
            <6> QED  BY <2>1, <5>1, <6>1 DEF Laid
          <5> QED  BY <3>5, <4>1, <4>3, <5>2, <5>3
        <4> QED  BY <4>2, <4>3
      <3>7. buffer = SubSeq(stream, EndOf(count) + 1, arrived)
        <4>1. EndOf(count) = e
          BY <2>4, <3>3, <3>4
        <4>2. e <= arrived /\ Len(buffer) = arrived - e
          BY <3>4, <3>5
        <4>3. /\ SubSeq(stream, e + 1, arrived) \in Seq(Byte)
              /\ Len(SubSeq(stream, e + 1, arrived)) = arrived - e
          BY <3>5, <4>2
        <4>4. \A k \in 1 .. arrived - e : SubSeq(stream, e + 1, arrived)[k] = stream[e + k]
          BY <3>5, <4>2
        <4>5. \A k \in 1 .. Len(buffer) : buffer[k] = SubSeq(stream, e + 1, arrived)[k]
          BY <3>4, <4>2, <4>4
        <4>6. buffer = SubSeq(stream, e + 1, arrived)
          BY <3>5, <4>2, <4>3, <4>5, SeqEqual, Zenon
        <4> QED  BY <4>1, <4>6
      <3>8. noise # <<>> => arrived < EndOf(n) + Len(noise)
        <4>1. n \in 0 .. n
          BY <2>2
        <4> QED  BY <3>1, <3>3, <4>1
      <3>9. DOMAIN transmitted = 1 .. n
        BY <2>1 DEF Held
      <3>10. Len(buffer) + _READ_CHUNK <= 4 * MAX_PAYLOAD_BYTES
        BY <2>7, ShortOfTheBound
      <3> QED  BY <3>6, <3>7, <3>8, <3>9, <3>10
    <2> QED  BY <2>1, <2>6, <2>7, Zenon DEF WireIsExact, received
  <1> QED  BY <1>1, StreamInvHolds, PTL

=============================================================================
