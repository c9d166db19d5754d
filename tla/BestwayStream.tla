---------------------------- MODULE BestwayStream ----------------------------
(***************************************************************************)
(* One connection to the pool controller as a stream of bytes: the         *)
(* controller writes frames, the network delivers them in chunks of any    *)
(* size, FrameReader.feed (integrations/bestway/protocol.py) takes frames  *)
(* off what has arrived, and BestwayClient._next_frame (client.py) hands   *)
(* them out.                                                               *)
(*                                                                         *)
(* One iteration of feed's loop is a step; nothing of the client runs      *)
(* between two of them.  stream, transmitted, ends and noise are the       *)
(* controller's side and history.                                          *)
(***************************************************************************)
EXTENDS BestwayFrames

CONSTANTS
    Sendable,    \* the frames a controller may write
    Garbage,     \* what else it may write: no frame begins like that
    ChunkSizes,  \* how many bytes a read may return
    MaxFrames    \* bound: how many frames are written

_READ_CHUNK == 4096

\* The bytes of a frame.
Bytes(f) == encode(f).bytes

\* Frames that fit the limit of the receiver; Frame.encode sends longer ones.
ASSUME SendableAssumption ==
    \A f \in Sendable :
        /\ f \in [command : Nat, payload : Seq(Byte), flag : Byte]
        /\ f.command \div 256 < 256 /\ Len(f.payload) <= MAX_PAYLOAD_BYTES - 3

ASSUME GarbageAssumption ==
    \A g \in Garbage : g \in Seq(Byte) /\ decode_frame(g) = Malformed

ASSUME BoundsAssumption == ChunkSizes \subseteq 1 .. _READ_CHUNK /\ MaxFrames \in Nat

VARIABLES
    stream,       \* all bytes written so far
    transmitted,  \* the frames among them,
    ends,         \* and where each of them ends
    noise,        \* the bytes after the last frame that belong to none
    arrived,      \* how many bytes have been read
    reader,       \* "reading", "framing" (inside feed) or "refused"
    buffer,       \* FrameReader._buffer
    frames,       \* the list feed is about to return
    pending,      \* BestwayClient._pending
    handed        \* what _next_frame has returned so far

controller == <<stream, transmitted, ends, noise>>
streamVars == <<stream, transmitted, ends, noise, arrived, reader, buffer, frames, pending, handed>>

StreamInit ==
    /\ stream = <<>> /\ transmitted = <<>> /\ ends = <<>> /\ noise = <<>>
    /\ arrived = 0 /\ reader = "reading" /\ buffer = <<>>
    /\ frames = <<>> /\ pending = <<>> /\ handed = <<>>

-----------------------------------------------------------------------------
(* The controller.                                                         *)

Transmit ==
    /\ noise = <<>> /\ Len(transmitted) < MaxFrames
    /\ \E f \in Sendable :
          /\ stream' = stream \o Bytes(f)
          /\ transmitted' = Append(transmitted, f)
          /\ ends' = Append(ends, Len(stream'))
    /\ UNCHANGED <<noise, arrived, reader, buffer, frames, pending, handed>>

\* It loses step: damaged bytes, and whatever may follow them.
Babble ==
    /\ noise = <<>>
    /\ noise' \in Garbage /\ stream' = stream \o noise'
    /\ UNCHANGED <<transmitted, ends, arrived, reader, buffer, frames, pending, handed>>

-----------------------------------------------------------------------------
(* The client.                                                             *)

\* A chunk is read and fed.  The bound is tested on the whole of the buffer.
ReadChunk ==
    /\ reader = "reading" /\ pending = <<>>
    /\ \E size \in ChunkSizes :
          LET grown == buffer \o SubSeq(stream, arrived + 1, arrived + size)
          IN  /\ arrived + size <= Len(stream) /\ arrived' = arrived + size
              /\ IF Len(grown) > 4 * MAX_PAYLOAD_BYTES
                 THEN reader' = "refused" /\ buffer' = <<>>
                 ELSE reader' = "framing" /\ buffer' = grown
    /\ UNCHANGED <<controller, frames, pending, handed>>

\* Slip: the last byte of the frame stays in the buffer.
SlipTakeFrame ==
    LET head == decode_frame(buffer)
    IN  /\ reader = "framing" /\ buffer # <<>> /\ head.status = "ok"
        /\ buffer' = SubSeq(buffer, head.consumed, Len(buffer))
        /\ frames' = Append(frames, head.frame)
        /\ UNCHANGED <<controller, arrived, reader, pending, handed>>

\* The loop: a frame at the head of the buffer is taken off.
TakeFrame ==
    LET head == decode_frame(buffer)
    IN  /\ reader = "framing" /\ buffer # <<>> /\ head.status = "ok"
        /\ buffer' = SubSeq(buffer, head.consumed + 1, Len(buffer))
        /\ frames' = Append(frames, head.frame)
        /\ UNCHANGED <<controller, arrived, reader, pending, handed>>

\* The loop ends, and what it found becomes pending.
ReturnFrames ==
    /\ reader = "framing" /\ (buffer = <<>> \/ decode_frame(buffer) = Incomplete)
    /\ reader' = "reading" /\ pending' = pending \o frames /\ frames' = <<>>
    /\ UNCHANGED <<controller, arrived, buffer, handed>>

\* The loop raises; the frames it found before are lost with its list.  The
\* connection is closed, and a new one begins with an empty reader.
Refuse ==
    /\ reader = "framing" /\ buffer # <<>> /\ decode_frame(buffer) = Malformed
    /\ reader' = "refused" /\ frames' = <<>>
    /\ UNCHANGED <<controller, arrived, buffer, pending, handed>>

HandOut ==
    /\ reader = "reading" /\ pending # <<>>
    /\ handed' = Append(handed, Head(pending)) /\ pending' = Tail(pending)
    /\ UNCHANGED <<controller, arrived, reader, buffer, frames>>

StreamNext ==
    \/ Transmit \/ Babble
    \/ ReadChunk \/ TakeFrame \/ ReturnFrames \/ Refuse \/ HandOut

StreamSpec == StreamInit /\ [][StreamNext]_streamVars

-----------------------------------------------------------------------------
(* Properties.                                                             *)

\* Where the first n frames end.
EndOf(n) == IF n = 0 THEN 0 ELSE ends[n]

StreamTypeOK ==
    /\ stream \in Seq(Byte) /\ transmitted \in Seq(Sendable) /\ noise \in Garbage \cup {<<>>}
    /\ ends \in [DOMAIN transmitted -> Nat] /\ arrived \in 0 .. Len(stream)
    /\ reader \in {"reading", "framing", "refused"} /\ buffer \in Seq(Byte)
    /\ {frames, pending, handed} \subseteq Seq(Sendable)

\* However the network cuts the stream (FrameReader.feed, _next_frame), the
\* client receives the frames of the controller and no others, in order and each
\* once; between two reads it has received exactly those whose last byte has
\* arrived, keeps exactly the bytes behind them, and has room for another chunk.
\* A stream is refused only when the controller lost step, and then at the latest
\* when the bytes that show it have arrived: the reader never searches for a next
\* frame, and never raises for want of room.
WireIsExact ==
    LET received == handed \o pending
        count == Len(received)
    IN  /\ IsPrefix(received, transmitted)
        /\ reader = "reading" =>
              /\ \A i \in DOMAIN transmitted : i <= count <=> ends[i] <= arrived
              /\ buffer = SubSeq(stream, EndOf(count) + 1, arrived)
              /\ Len(buffer) + _READ_CHUNK <= 4 * MAX_PAYLOAD_BYTES
              /\ noise # <<>> => arrived < EndOf(Len(transmitted)) + Len(noise)
        /\ reader = "refused" => noise # <<>>

=============================================================================
