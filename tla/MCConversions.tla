---------------------------- MODULE MCConversions ----------------------------
(***************************************************************************)
(* Inputs of Conversions and streams of BestwayStream for TLC: short       *)
(* streams that are cut at every byte, and streams of the longest frames.  *)
(***************************************************************************)
EXTENDS Conversions, BestwayStream

Block == <<1, 31, 38, 0, 0, 0, 3, 0, 0, 0, 0, 0, 0, 0, 0, 36, 0, 0, 255>>

\* Passcodes with and without their length, one that begins like a length, and
\* answers too short to hold one.
MCAnswers ==
    {[answer |-> a] : a \in {<<>>, <<7>>, <<0, 0>>, <<0, 1>>, <<0, 1, 65>>, <<65, 66, 67>>,
                             <<0, 4, 65, 66, 67, 68>>, [i \in 1 .. 10 |-> 64 + i]}}

\* Layouts: as shipped, trusted, released in whole and in part, and released
\* ones whose value block is not known, too short for the setpoint, or longer
\* than what is reported.
Trusted(p, writable) == [p EXCEPT !.trusted = TRUE, !.writable = writable]
Writable == {"TARGET_TEMPERATURE", "HEATER", "FILTER_PUMP", "BUBBLES", "CONTROL_PANEL_LOCK"}
Layouts ==
    UNION {{p, Trusted(p, {}), Trusted(p, Writable), Trusted(p, {"BUBBLES"}),
            [p EXCEPT !.writable = Writable],
            [Trusted(p, Writable) EXCEPT !.control_length = Nowhere],
            [Trusted(p, Writable) EXCEPT !.control_offset = Nowhere],
            [Trusted(p, Writable) EXCEPT !.control_length = 1],
            [Trusted(p, Writable) EXCEPT !.control_length = 40]} :
                p \in {CANDIDATE_PROFILE, AIRJET_19BYTE_PROFILE}}
Bases == {Block, [Block EXCEPT ![5] = 31], [i \in 1 .. 19 |-> 0], [i \in 1 .. 19 |-> 255],
          [i \in 1 .. 11 |-> 100], [i \in 1 .. 18 |-> 100]}
Setpoints == {0, 1950, 1990} \cup {2000 + 10 * i : i \in 0 .. 200} \cup {4010, 6000}
Commanded ==
    {[action |-> "SET_TARGET_TEMPERATURE", param |-> t] : t \in Setpoints}
      \cup [action : OnOffActions \ {"SET_POWER"}, param : {Off, On}]
MCWrites ==
    {[profile |-> p, base |-> b, action |-> c.action, param |-> c.param, sequence |-> 70000] :
        p \in {q \in Layouts : ValidProfile(q)}, b \in Bases, c \in Commanded}

\* Entities of every domain, with and without what their capabilities need, also
\* with attributes out of their ranges, and those Home Assistant knows nothing of.
Entity(domain, state, attr) == [domain |-> domain, state |-> state, attr |-> attr]
MCEntities ==
    {Entity("light", s, a) : s \in {"on", "off", "unavailable"},
        a \in {<<>>, [dimmable |-> 1], [dimmable |-> 1, brightness |-> 255],
              [dimmable |-> 1, brightness |-> 300], [dimmable |-> 1, brightness |-> 0 - 5]}}
      \cup {Entity("switch", s, <<>>) : s \in {"on", "off", "unknown"}}
      \cup {Entity("media_player", s, a) : s \in {"playing", "standby", "unknown", "unavailable"},
              a \in {<<>>, [supported_features |-> Junk], [supported_features |-> 16385],
                     [supported_features |-> 52, volume_level |-> 333],
                     [supported_features |-> 16389, volume_level |-> 1500]}}
      \cup {Entity("lock", s, <<>>) : s \in {"locked", "open", "jammed"}}
      \cup {Entity("climate", s, a) : s \in {"heat", "off", "unknown", "unavailable"},
              a \in {<<>>, [temperature |-> Junk, current_temperature |-> 2100],
                     [temperature |-> 2150, humidity |-> 40, min_temp |-> 700, max_temp |-> 3000]}}
      \cup {Entity("sensor", "reading", [temperature_class |-> 1, reading |-> 1975]),
            Entity("cover", "open", <<>>)}
MCOffers ==
    {[entity |-> e, released |-> r, action |-> c.action, param |-> c.param] :
        e \in MCEntities,
        r \in {{}, {"light"}, {"climate", "lock", "sensor"}, {"light", "switch", "media_player", "climate"}},
        c \in UNION {{[action |-> a, param |-> v] :
                        v \in IF a = "SET_TARGET_TEMPERATURE" THEN {700, 1950, 2105, 3000}
                              ELSE ParamsModel(a)} : a \in Action}}

-----------------------------------------------------------------------------
\* A heartbeat, a command no one knows, and a payload that begins like a frame.
Short == {Frame(21, <<>>, 0), Frame(4095, <<255>>, 9), Frame(STATUS_RESPONSE, MAGIC \o <<3, 0, 0>>, 0)}

\* A damaged byte of the magic, with frames behind it; lengths that are too
\* small, too large, or have no last byte.
Damaged(i) == [Bytes(Frame(21, <<>>, 0)) \o Bytes(Frame(21, <<>>, 0)) EXCEPT ![i] = 255 - @]
Nonsense == {Damaged(i) : i \in 1 .. 4} \cup
            {MAGIC \o <<2, 0, 0>>, MAGIC \o <<129, 16, 7>>, MAGIC \o <<128, 128, 128, 128, 0>>}

SmallReads == 1 .. 10 \cup {20, 30}
LargeReads == {1021, _READ_CHUNK}

\* The longest frames and a frame with a length of two bytes; read by the chunk,
\* and otherwise in pieces that meet the frames at every distance.
Long == {Frame(STATUS_RESPONSE, [k \in 1 .. n |-> n % 256], 0) : n \in {130, MAX_PAYLOAD_BYTES - 3}}
TooLong == MAGIC \o <<255, 127>> \o [k \in 1 .. 9000 |-> 1]

MCSendable == Short \cup Long
MCGarbage == Nonsense \cup {TooLong}
MCChunkSizes == SmallReads \cup LargeReads

\* What is looked at, one at a time: an input, up to three short frames in small
\* reads, or long ones in large reads.
MCInit ==
    /\ StreamInit
    /\ \/ Init
       \/ input \in [kind : {"short", "long"}] /\ output = NotYet

Streams(kind, sendable, garbage, sizes, most) ==
    /\ input.kind = kind /\ StreamNext
    /\ Len(transmitted') <= most /\ Range(transmitted') \subseteq sendable
    /\ noise' \in garbage \cup {<<>>} /\ arrived' - arrived \in sizes \cup {0}
    /\ UNCHANGED vars

MCNext ==
    \/ Next /\ UNCHANGED streamVars
    \/ Streams("short", Short, Nonsense, SmallReads, 3)
    \/ Streams("long", Long, {TooLong}, LargeReads, MaxFrames)

MCSpec == MCInit /\ [][MCNext]_<<vars, streamVars>>

=============================================================================
