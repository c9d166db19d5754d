----------------------------- MODULE Conversions -----------------------------
(***************************************************************************)
(* The conversions at the edges of the gateway, one input at a time: the   *)
(* passcode of the pool controller on its way back, a command on its way   *)
(* into a status block, and an entity of Home Assistant with a command it  *)
(* is offered for.                                                         *)
(*                                                                         *)
(* An input is taken and converted.  What the gateway should say of it is  *)
(* stated over the input alone.                                            *)
(***************************************************************************)
EXTENDS BestwayDatapoints, HaEntities

CONSTANTS
    Answers,   \* [answer]: payloads of a passcode response
    Writes,    \* [profile, base, action, param, sequence]
    Offers     \* [entity, released, action, param]

\* Two datapoints that share no bit.
Apart(a, b) ==
    \/ a.offset # b.offset
    \/ a.kind = "bit" /\ b.kind = "bit" /\ a.bit # b.bit

\* What makes a layout one of a controller, beyond its validators, as both shipped
\* ones are: booleans are bits and temperatures bytes, which share nothing; the
\* sixteen flags of a control request tell the datapoints apart; the value block
\* fits a frame; and the range ends where Fahrenheit and Celsius meet.
SoundLayout(p) ==
    /\ ValidProfile(p)
    /\ \A d \in DOMAIN p.locations :
          /\ p.locations[d].kind = IF d \in TEMPERATURE_DATAPOINTS THEN "byte" ELSE "bit"
          /\ \A x \in DOMAIN p.locations \ {d} : Apart(p.locations[d], p.locations[x])
    /\ \A d \in DOMAIN p.flag_bits :
          /\ p.flag_bits[d] \in 0 .. 15
          /\ \A x \in DOMAIN p.flag_bits \ {d} : p.flag_bits[d] # p.flag_bits[x]
    /\ p.control_offset \in Nat \cup {Nowhere}
    /\ p.control_length \in (0 .. MAX_PAYLOAD_BYTES - 10) \cup {Nowhere}
    /\ p.min \in Int /\ p.min % 500 = 0 /\ p.max \in Int /\ p.max % 500 = 0

\* The payload of a frame that was received.
ASSUME AnswersAssumption ==
    \A a \in Answers : a.answer \in Seq(Byte) /\ Len(a.answer) <= MAX_PAYLOAD_BYTES - 3

\* What reaches an adapter: a command its parameter model accepts.
ASSUME WritesAssumption ==
    \A w \in Writes :
        /\ SoundLayout(w.profile) /\ w.base \in Seq(Byte) /\ w.sequence \in Nat
        /\ w.action \in DOMAIN _ACTION_DATAPOINTS /\ w.param \in ParamsModel(w.action)

\* Any entity: in any state, with any numbers or other values as attributes.
ASSUME OffersAssumption ==
    \A o \in Offers :
        /\ o.entity = [domain |-> o.entity.domain, state |-> o.entity.state,
                       attr |-> o.entity.attr]
        /\ \A key \in DOMAIN o.entity.attr : o.entity.attr[key] \in Int \cup {Junk}
        /\ o.action \in Action /\ o.param \in ParamsModel(o.action)

\* An exception is no value.
ASSUME ErrorsAreNoValues ==
    /\ Rejected \notin Int /\ Nowhere \notin Int
    /\ Rejected \notin [flags : Nat, values : Seq(Byte)]

VARIABLES input, output
vars == <<input, output>>

NotYet == [none |-> TRUE]

Init ==
    /\ input \in [kind : {"passcode"}, data : Answers]
                   \cup [kind : {"write"}, data : Writes] \cup [kind : {"offer"}, data : Offers]
    /\ output = NotYet

-----------------------------------------------------------------------------
(* What the gateway does with an input.                                    *)

Convert(kind, result) ==
    /\ input.kind = kind /\ output = NotYet
    /\ output' = [result |-> result] /\ UNCHANGED input

\* BestwayClient.connect: the passcode goes back the way it came.
Login ==
    Convert("passcode",
        LET passcode == decode_length_prefixed(input.data.answer)
        IN  IF passcode.status = "ok" THEN encode_length_prefixed(passcode.bytes) ELSE passcode)

Write ==
    LET w == input.data
    IN  Convert("write", Request(w.profile, w.action, w.param, w.base, w.sequence))

\* discover_devices, and the service call of the command.
Offer ==
    LET o == input.data
    IN  Convert("offer", [capabilities |-> Advertised(o.entity, o.released),
                          call |-> CallFor(o.action, o.param)])

Next == Login \/ Write \/ Offer
Spec == Init /\ [][Next]_vars

-----------------------------------------------------------------------------
(* The controller and Home Assistant, at the other end.                    *)

\* The block once the controller has taken over the values of a request.
Overlaid(p, base, values) ==
    [i \in DOMAIN base |->
        LET k == i - p.control_offset
        IN  IF k \in DOMAIN values THEN values[k] ELSE base[i]]

Over(s, t) == [key \in DOMAIN s \cup DOMAIN t |-> IF key \in DOMAIN s THEN s[key] ELSE t[key]]

\* The entity once its integration has carried out a service call.  The
\* brightness of a light that is off is null.
CarriedOut(e, call) ==
    LET sets(state, attr) == [e EXCEPT !.state = state, !.attr = Over(attr, e.attr)]
    IN  CASE call.service = "turn_off" -> sets("off", [brightness |-> Junk])
          [] call.service = "turn_on" ->
                sets("on", IF "brightness_pct" \in DOMAIN call.data
                           THEN [brightness |-> RoundDiv(255 * call.data["brightness_pct"], 100)]
                           ELSE <<>>)
          [] call.service = "media_play" -> sets("playing", <<>>)
          [] call.service = "media_pause" -> sets("paused", <<>>)
          [] OTHER -> sets(e.state, call.data)

StateField(action) ==
    CASE action = "SET_POWER" -> "power" [] action = "SET_BRIGHTNESS" -> "brightness"
      [] action = "SET_VOLUME" -> "volume" [] action = "SET_PLAYBACK" -> "playback"
      [] action = "SET_TARGET_TEMPERATURE" -> "target_temperature_c"
      [] action = "SET_LOCK_STATE" -> "lock_state" [] OTHER -> "none"

\* Home Assistant has a state for the entity.
Known(e) == e.state \notin {"unavailable", "unknown"}

\* The two attributes that are rescaled are in the ranges Home Assistant documents.
WellFormed(e) ==
    /\ IsNumber(e, "brightness") => e.attr["brightness"] \in 0 .. 255
    /\ IsNumber(e, "volume_level") => e.attr["volume_level"] \in 0 .. 1000

-----------------------------------------------------------------------------
(* Properties.                                                             *)

Converted(kind) == input.kind = kind /\ output # NotYet

\* The passcode the client returns is the one it was given, behind its own
\* length, whether the controller had put its length in front or not.
ReturnsAsGiven(answer, result) ==
    IF Len(answer) < 2 THEN result = Malformed
    ELSE /\ decode_length_prefixed(result.bytes) = decode_length_prefixed(answer)
         /\ FromBigEndian(SubSeq(result.bytes, 1, 2)) = Len(result.bytes) - 2

\* What the request of a command (encode_control) makes of the block the
\* controller reported: the datapoint of the command reads as the command's
\* value and nothing else changes, not even bits no layout explains; the flags
\* name this datapoint only, in the frame of a control request.  Nothing is
\* written but what discovery offers, within the range, and all of that is where
\* the layout has a value block that holds the datapoint.
ArrivesAsMeant(w, result) ==
    LET p == w.profile
        d == _ACTION_DATAPOINTS[w.action]
        value == value_for(p, w.action, w.param, w.base)
        l == p.locations[d]
        sent == decode_frame(result).frame
        flags == FromBigEndian(SubSeq(sent.payload, 6, 7))
        after == Overlaid(p, w.base, SubSeq(sent.payload, 8, Len(sent.payload)))
        held == IF Nowhere \in {p.control_offset, p.control_length} THEN {}
                ELSE p.control_offset .. p.control_offset + p.control_length - 1
        allowed == /\ l.offset \in held /\ Max(held) < Len(w.base)
                   /\ required_capability_for(w.action, w.param) \in Offered(p)
                   /\ decode(p, w.base) # ProfileError
                   /\ w.action = "SET_TARGET_TEMPERATURE" => w.param \in p.min .. p.max
    IN  IF ~ allowed THEN result \in {Rejected, Unreadable}
        ELSE /\ sent.command = CONTROL_REQUEST
             /\ {x \in DOMAIN p.flag_bits : BitOf(flags, p.flag_bits[x]) = 1} = {d}
             /\ decode(p, after) = [decode(p, w.base) EXCEPT ![d] = value]
             /\ \A i \in DOMAIN w.base \ {l.offset + 1} : after[i] = w.base[i]
             /\ l.kind = "bit" =>
                  \A b \in (0 .. 7) \ {l.bit} :
                     BitOf(At(after, l.offset), b) = BitOf(At(w.base, l.offset), b)

\* What is written to the controller arrives as meant: the passcode of a login
\* (BestwayClient.connect), and the request of a command (encode_control).
WriteArrivesAsMeant ==
    /\ Converted("passcode") => ReturnsAsGiven(input.data.answer, output.result)
    /\ Converted("write") => ArrivesAsMeant(input.data, output.result)

\* A setpoint the gateway accepts, rounded to what the controller can hold
\* (from_celsius) and read back (to_celsius), is still within the verified range
\* of the layout and at most half a degree, or a third when the controller counts
\* in Fahrenheit, from what was asked.
StaysInRange(w, result) ==
    LET p == w.profile
        sent == decode_frame(result).frame
        after == Overlaid(p, w.base, SubSeq(sent.payload, 8, Len(sent.payload)))
        seen == to_state(p, after)["target_temperature_c"]
    IN  w.action = "SET_TARGET_TEMPERATURE" /\ result \notin {Rejected, Unreadable} =>
          /\ seen \in p.min .. p.max
          /\ Within(seen, w.param, IF Fahrenheit(decode(p, w.base)) THEN 33 ELSE 50)
SetpointStaysInRange == Converted("write") => StaysInRange(input.data, output.result)

\* Whatever a Home Assistant entity is offered for (describe and the released
\* domains, discover_devices) has a service call, and after that call, rounded by
\* both sides, the read-back of execute succeeds exactly if Home Assistant has a
\* state for the entity by then: one that is still unknown is offered and
\* commanded like any other (service.py:133) but never confirmed.  The state is
\* one the registry accepts, or else an attribute was out of its range before
\* and normalise raises; and it never reads as another value than the one asked
\* for.  Nothing can be asked of a lock or of a domain that is not released.
OfferedIsAnswered ==
    LET o == input.data
        kind == describe(o.entity).kind
        after == CarriedOut(o.entity, output.result.call)
        state == normalise(after, kind)
        f == StateField(o.action)
    IN  Converted("offer")
          /\ required_capability_for(o.action, o.param) \in output.result.capabilities =>
              /\ o.entity.domain \in o.released \ {"lock", "sensor"}
              /\ output.result.call # NoService
              /\ WellFormed(o.entity) => InBounds(state)
              /\ InBounds(state) =>
                    (Matches(after, kind, output.result.call.expected) <=> Known(after))
              /\ f \in DOMAIN state =>
                    desired_matches(o.action, o.param, state[f]) # "FALSE"

=============================================================================
