-------------------------- MODULE BestwayDatapoints --------------------------
(***************************************************************************)
(* What the bytes of the pool's status block mean, and which bytes a       *)
(* command writes (integrations/bestway/datapoints.py, and the functions   *)
(* of provider.py that apply a layout).                                    *)
(*                                                                         *)
(* A block is a sequence of bytes.  Booleans are 0 and 1, temperatures in  *)
(* Celsius are hundredths of a degree, as in CommandPolicy.                *)
(***************************************************************************)
EXTENDS CommandPolicy, BestwayFrames, Functions

CONSTANTS ProfileError,  \* raised by decode
          Rejected,      \* ProviderRejectedError
          Unreadable,    \* ProviderUnavailableError: the layout does not fit the block
          Nowhere        \* None: the layout does not say

BOOLEAN_DATAPOINTS ==
    {"HEATER", "FILTER_PUMP", "BUBBLES", "CONTROL_PANEL_LOCK", "UNIT_IS_FAHRENHEIT"}
TEMPERATURE_DATAPOINTS == {"CURRENT_TEMPERATURE", "TARGET_TEMPERATURE"}

ByteLocation(offset) == [kind |-> "byte", offset |-> offset, bit |-> 0]
BitLocation(offset, bit) == [kind |-> "bit", offset |-> offset, bit |-> bit]

CANDIDATE_PROFILE ==
    [minimum_payload_length |-> 12,
     locations |-> [CURRENT_TEMPERATURE |-> ByteLocation(6),
                    TARGET_TEMPERATURE |-> ByteLocation(5),
                    HEATER |-> BitLocation(4, 2), FILTER_PUMP |-> BitLocation(4, 1),
                    BUBBLES |-> BitLocation(4, 0), CONTROL_PANEL_LOCK |-> BitLocation(4, 3),
                    UNIT_IS_FAHRENHEIT |-> BitLocation(4, 4)],
     min |-> 2000, max |-> 4000,
     control_offset |-> 4, control_length |-> 8,
     flag_bits |-> [BUBBLES |-> 0, FILTER_PUMP |-> 1, HEATER |-> 2,
                    CONTROL_PANEL_LOCK |-> 3, TARGET_TEMPERATURE |-> 7],
     trusted |-> FALSE, writable |-> {}]

AIRJET_19BYTE_PROFILE ==
    [minimum_payload_length |-> 19,
     locations |-> [TARGET_TEMPERATURE |-> ByteLocation(2),
                    CURRENT_TEMPERATURE |-> ByteLocation(15),
                    HEATER |-> BitLocation(1, 1), FILTER_PUMP |-> BitLocation(1, 2),
                    BUBBLES |-> BitLocation(1, 3), CONTROL_PANEL_LOCK |-> BitLocation(1, 4)],
     min |-> 2000, max |-> 4000,
     control_offset |-> 1, control_length |-> 14,
     flag_bits |-> [HEATER |-> 1, FILTER_PUMP |-> 2, BUBBLES |-> 3,
                    CONTROL_PANEL_LOCK |-> 4, TARGET_TEMPERATURE |-> 7],
     trusted |-> FALSE, writable |-> {}]

\* What the validators of DatapointProfile accept.
ValidProfile(p) ==
    /\ p.minimum_payload_length \in 1 .. MAX_PAYLOAD_BYTES
    /\ \A d \in DOMAIN p.locations :
          p.locations[d].offset \in 0 .. MAX_PAYLOAD_BYTES - 1 /\ p.locations[d].bit \in 0 .. 7
    /\ p.min >= 0 /\ p.max <= 6000 /\ p.max > p.min
    /\ "UNIT_IS_FAHRENHEIT" \notin p.writable
    /\ p.writable \subseteq DOMAIN p.locations \cap DOMAIN p.flag_bits

may_write(p, d) == p.trusted /\ d \in p.writable

-----------------------------------------------------------------------------
(* Reading.                                                                *)

BitOf(byte, bit) == (byte \div 2^bit) % 2
\* The byte at an offset, which counts from 0.
At(payload, offset) == payload[offset + 1]

decode(p, payload) ==
    IF \/ Len(payload) < p.minimum_payload_length
       \/ \E d \in DOMAIN p.locations : p.locations[d].offset >= Len(payload)
    THEN ProfileError
    ELSE [d \in DOMAIN p.locations |->
            LET l == p.locations[d]
            IN  IF l.kind = "bit" THEN BitOf(At(payload, l.offset), l.bit)
                ELSE At(payload, l.offset)]

\* One decimal is kept of a converted temperature.
to_celsius(value, fahrenheit) ==
    IF fahrenheit THEN 10 * RoundDiv((value - 32) * 50, 9) ELSE 100 * value

\* Slip: the setpoint is rounded up before it is converted.
SlipCelsius(celsius, fahrenheit) ==
    LET degrees == celsius \div 100 + 1
    IN  IF fahrenheit THEN RoundDiv(degrees * 9 + 32 * 5, 5) ELSE degrees

from_celsius(celsius, fahrenheit) ==
    IF fahrenheit THEN RoundDiv(celsius * 9 + 32 * 500, 500) ELSE RoundDiv(celsius, 100)

Fahrenheit(decoded) ==
    "UNIT_IS_FAHRENHEIT" \in DOMAIN decoded /\ decoded["UNIT_IS_FAHRENHEIT"] = 1

Field == [CURRENT_TEMPERATURE |-> "current_temperature_c",
          TARGET_TEMPERATURE |-> "target_temperature_c", HEATER |-> "heater",
          FILTER_PUMP |-> "filter_pump", BUBBLES |-> "bubbles",
          CONTROL_PANEL_LOCK |-> "control_panel_lock"]

\* BestwayProvider._to_state; what the layout does not have is not reported.
to_state(p, payload) ==
    LET decoded == decode(p, payload)
    IN  [f \in Range(Field) |->
            LET d == CHOOSE x \in DOMAIN Field : Field[x] = f
            IN  IF d \notin DOMAIN decoded THEN NotReported
                ELSE IF d \in TEMPERATURE_DATAPOINTS
                THEN to_celsius(decoded[d], Fahrenheit(decoded))
                ELSE decoded[d]]

-----------------------------------------------------------------------------
(* Discovery.                                                              *)

_WRITE_CAPABILITIES ==
    [TARGET_TEMPERATURE |-> "TARGET_TEMPERATURE", HEATER |-> "HEATING", FILTER_PUMP |-> "FILTER",
     BUBBLES |-> "BUBBLES", CONTROL_PANEL_LOCK |-> "CONTROL_PANEL_LOCK"]

_ACTION_DATAPOINTS ==
    [SET_TARGET_TEMPERATURE |-> "TARGET_TEMPERATURE", SET_HEATER |-> "HEATER",
     SET_FILTER |-> "FILTER_PUMP", SET_BUBBLES |-> "BUBBLES",
     SET_CONTROL_PANEL_LOCK |-> "CONTROL_PANEL_LOCK"]

capabilities(p) ==
    (IF "CURRENT_TEMPERATURE" \in DOMAIN p.locations THEN {"CURRENT_TEMPERATURE"} ELSE {})
      \cup {_WRITE_CAPABILITIES[d] : d \in {x \in DOMAIN _WRITE_CAPABILITIES : may_write(p, x)}}

\* BestwayProvider.discover_devices: {} until the layout is trusted.
Offered(p) == IF p.trusted THEN capabilities(p) ELSE {}

-----------------------------------------------------------------------------
(* Writing.                                                                *)

\* Slip: setting a bit adds it without looking whether it is set.
SlipEncode(p, d, value, base) ==
    LET start == p.control_offset
        l == p.locations[d]
        block == SubSeq(base, start + 1, start + p.control_length)
        byte == block[l.offset - start + 1]
        changed == IF l.kind = "bit" THEN (byte + value * 2^l.bit) % 256 ELSE value
    IN  IF \/ ~ may_write(p, d) \/ Nowhere \in {p.control_offset, p.control_length}
           \/ Len(base) < start + p.control_length
           \/ l.offset - start \notin 0 .. p.control_length - 1
        THEN Rejected
        ELSE [flags |-> 2^p.flag_bits[d],
              values |-> [block EXCEPT ![l.offset - start + 1] = changed]]

\* DatapointProfile.encode_control: the flags and the value block of a control
\* request, which is the block just read with one field changed.
encode_control(p, d, value, base) ==
    LET start == p.control_offset
        l == p.locations[d]
        block == SubSeq(base, start + 1, start + p.control_length)
        byte == block[l.offset - start + 1]
        changed == IF l.kind = "bit" THEN byte + (value - BitOf(byte, l.bit)) * 2^l.bit
                   ELSE value
    IN  IF \/ ~ may_write(p, d)
           \/ p.control_offset = Nowhere \/ p.control_length = Nowhere
           \/ Len(base) < start + p.control_length
           \/ d \notin DOMAIN p.flag_bits
           \/ d \notin DOMAIN p.locations
           \/ l.offset - start \notin 0 .. p.control_length - 1
           \/ changed \notin Byte
        THEN Rejected
        ELSE [flags |-> 2^p.flag_bits[d],
              values |-> [block EXCEPT ![l.offset - start + 1] = changed]]

\* BestwayProvider._value_for
value_for(p, action, param, base) ==
    IF action \in OnOffActions THEN param
    ELSE IF param < p.min \/ param > p.max THEN Rejected
    ELSE from_celsius(param, Fahrenheit(decode(p, base)))

\* BestwayProvider.execute, up to what it sends: the bytes of the control
\* request, the sequence number being the client's.
Request(p, action, param, base, sequence) ==
    LET d == _ACTION_DATAPOINTS[action]
        value == value_for(p, action, param, base)
        control == encode_control(p, d, value, base)
        payload == build_control_payload(sequence, control.flags, control.values)
    IN  IF action \notin DOMAIN _ACTION_DATAPOINTS THEN Rejected
        ELSE IF decode(p, base) = ProfileError THEN Unreadable
        ELSE IF value = Rejected THEN Rejected
        ELSE IF control = Rejected THEN Rejected
        ELSE encode(Frame(CONTROL_REQUEST, payload.bytes, 0)).bytes

=============================================================================
