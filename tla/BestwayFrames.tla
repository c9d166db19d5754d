---------------------------- MODULE BestwayFrames ----------------------------
(***************************************************************************)
(* The wire format of the pool controller (integrations/bestway/           *)
(* protocol.py): varints, frames, length-prefixed fields and control       *)
(* payloads.                                                               *)
(*                                                                         *)
(* Bytes are 0..255 and every bound is the program's own.  What raises is  *)
(* a result with another status than "ok".                                 *)
(***************************************************************************)
EXTENDS Integers, Sequences, FiniteSetsExt, SequencesExt

MAGIC == <<0, 0, 0, 3>>
MAX_PAYLOAD_BYTES == 2048
MAX_VARINT_BYTES == 4
\* The values of a varint's seven bits.
Group == 128

\* The commands a check needs a name for; any other number is one, too.
STATUS_RESPONSE == 145      \* 0x0091
CONTROL_REQUEST == 147      \* 0x0093
CONTROL == 1                \* P0Action.CONTROL

Byte == 0 .. 255
Incomplete == [status |-> "incomplete"]
Malformed == [status |-> "malformed"]

-----------------------------------------------------------------------------
(* Numbers.                                                                *)

\* int.to_bytes(size, "big"); back only two bytes are ever read.
BigEndian(n, size) == [i \in 1 .. size |-> (n \div 256^(size - i)) % 256]

FromBigEndian(bytes) == 256 * bytes[1] + bytes[2]

\* What the groups of a varint count, low group first: << 7 * index.
Shift == <<1, 128, 16384, 2097152>>

\* Every group but the last has its high bit set.
encode_varint(n) ==
    LET sizes == {k \in 1 .. MAX_VARINT_BYTES : n \div Shift[k] < Group}
        size == Min(sizes)
    IN  IF sizes = {} THEN Malformed
        ELSE [status |-> "ok",
              bytes |-> [i \in 1 .. size |->
                            ((n \div Shift[i]) % Group) + (IF i < size THEN Group ELSE 0)]]

\* The value of the groups, and how many bytes they take, from offset on.
decode_varint(data, offset) ==
    LET last == {i \in 1 .. MAX_VARINT_BYTES :
                    offset + i <= Len(data) /\ data[offset + i] < Group}
        size == Min(last)
        part(i) == IF i <= size THEN (data[offset + i] % Group) * Shift[i] ELSE 0
    IN  IF last # {}
        THEN [status |-> "ok", consumed |-> size, value |-> part(1) + part(2) + part(3) + part(4)]
        ELSE IF Len(data) < offset + MAX_VARINT_BYTES THEN Incomplete ELSE Malformed

-----------------------------------------------------------------------------
(* Frames.                                                                 *)

Frame(command, payload, flag) ==
    [command |-> command, payload |-> payload, flag |-> flag]

\* Frame.encode.  The body's length always fits a varint.
encode(f) ==
    LET body == <<f.flag>> \o BigEndian(f.command, 2) \o f.payload
    IN  IF Len(f.payload) > MAX_PAYLOAD_BYTES THEN Malformed
        ELSE [status |-> "ok", bytes |-> MAGIC \o encode_varint(Len(body)).bytes \o body]

\* The frame at the head of the data, and how many bytes it takes.
decode_frame(data) ==
    LET length == decode_varint(data, Len(MAGIC))
        start == Len(MAGIC) + length.consumed
        end == start + length.value
    IN  IF Len(data) < Len(MAGIC) THEN Incomplete
        ELSE IF ~ IsPrefix(MAGIC, data) THEN Malformed
        ELSE IF length.status # "ok" THEN length
        ELSE IF length.value > MAX_PAYLOAD_BYTES \/ length.value < 3 THEN Malformed
        ELSE IF Len(data) < end THEN Incomplete
        ELSE [status |-> "ok", consumed |-> end,
              frame |-> Frame(FromBigEndian(SubSeq(data, start + 2, start + 3)),
                              SubSeq(data, start + 4, end), data[start + 1])]

-----------------------------------------------------------------------------
(* Payloads.                                                               *)

encode_length_prefixed(data) ==
    IF Len(data) > 65535 THEN Malformed
    ELSE [status |-> "ok", bytes |-> BigEndian(Len(data), 2) \o data]

\* A payload that does not start with its own length is taken as it is.
decode_length_prefixed(payload) ==
    LET body == SubSeq(payload, 3, Len(payload))
        prefixed == FromBigEndian(SubSeq(payload, 1, 2)) = Len(body)
    IN  IF Len(payload) < 2 THEN Malformed
        ELSE IF ~ prefixed /\ Len(payload) > MAX_PAYLOAD_BYTES THEN Malformed
        ELSE [status |-> "ok", bytes |-> IF prefixed THEN body ELSE payload]

\* Sequence number, action, flags, values.  A sequence number is kept modulo
\* 2^32 by its only caller and is never out of range.
build_control_payload(sequence, attr_flags, attr_vals) ==
    IF attr_flags \notin 0 .. 65535 \/ attr_vals = <<>> THEN Malformed
    ELSE [status |-> "ok",
          bytes |-> BigEndian(sequence, 4) \o <<CONTROL>> \o BigEndian(attr_flags, 2)
                      \o attr_vals]

=============================================================================
