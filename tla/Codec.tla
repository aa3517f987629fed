--------------------------------- MODULE Codec ---------------------------------
(* RelayCodec of internal/codec/relay_codec.go between the two ends of a relay    *)
(* connection: Encode frames a packet, the TCP stream hands its bytes to Decode in *)
(* pieces of any length. A packet is its index in the order of sending; the bytes *)
(* are positions in the stream, so that a header is read right only at the        *)
(* position where Encode has put one. The mask that hides the type cancels out.   *)
EXTENDS Integers, Sequences

CONSTANTS HeaderSize,     \* constant.PacketHeaderSize
          MaxMessageSize, \* constant.MaxMessageSize
          BufferSize,     \* the most that one Read of the connection returns
          Sizes,          \* the sizes of payloads
          MaxPackets      \* bound: packets sent

\* A payload carries at least a tag of 16 bytes or a noise handshake, a header has 10 bytes.
ASSUME CodecAssumption ==
  /\ HeaderSize \in Nat \ {0} /\ MaxMessageSize \in Nat
  /\ BufferSize \in Nat \ {0} /\ MaxPackets \in Nat
  /\ Sizes \subseteq {n \in Nat : n >= HeaderSize}

VARIABLES encoded, \* the packets encoded: where their headers start, the sizes of their payloads
          total,   \* bytes encoded
          read,    \* bytes that Decode has received
          pos,     \* position of the first byte in c.buf; c.buf.Len() is read - pos
          size,    \* c.size: the payload awaited, -1 without a header
          cur,     \* c.typ, c.nonce: the packet whose header was read
          output,  \* the packets that the running Decode has found
          out,     \* the packets returned by Decode
          reading  \* of the reading goroutine: "idle", "loop", "failed"

codecVars == <<encoded, total, read, pos, size, cur, output, out, reading>>

Packet == [start : Nat, size : Sizes]

EndOf(p) == p.start + HeaderSize + p.size

CodecTypeOK ==
  /\ encoded \in Seq(Packet)
  /\ total \in Nat /\ read \in Nat /\ pos \in Nat
  /\ size \in Int /\ cur \in Nat
  /\ output \in Seq(Nat) /\ out \in Seq(Nat)
  /\ reading \in {"idle", "loop", "failed"}

CodecInit ==
  /\ encoded = <<>> /\ total = 0 /\ read = 0 /\ pos = 0
  /\ size = -1 /\ cur = 0
  /\ output = <<>> /\ out = <<>>
  /\ reading = "idle"

Encode(n) ==
  /\ Len(encoded) < MaxPackets
  /\ encoded' = Append(encoded, [start |-> total, size |-> n])
  /\ total' = total + HeaderSize + n
  /\ UNCHANGED <<read, pos, size, cur, output, out, reading>>

\* readHeader with the buffer at position p. Where no header starts, payload is taken for one.
readHeader(p) ==
  LET here == {i \in DOMAIN encoded : encoded[i].start = p} IN
  /\ pos' = p + HeaderSize
  /\ IF here # {} THEN \E i \in here : cur' = i /\ size' = encoded[i].size
     ELSE cur' = 0 /\ size' = 1

\* Decode is called with the next n bytes, up to its loop. A buffer shorter than a header ends
\* the call, also when a payload is awaited.
Decode(n) ==
  /\ reading = "idle"
  /\ n <= BufferSize /\ read + n <= total
  /\ read' = read + n
  /\ IF read' - pos < HeaderSize THEN UNCHANGED <<pos, size, cur, reading>>
     ELSE /\ reading' = "loop"
          /\ IF size < 0 THEN readHeader(pos) ELSE UNCHANGED <<pos, size, cur>>
  /\ UNCHANGED <<encoded, total, output, out>>

\* Fault: the last byte of the buffer does not count.
CompleteFaulty == size > 0 /\ size < read - pos

Complete == size > 0 /\ size <= read - pos

\* Fault: the size stays when the next header has not arrived.
DecodePacketFaulty ==
  /\ reading = "loop" /\ Complete /\ size <= MaxMessageSize
  /\ output' = Append(output, cur)
  /\ IF read - (pos + size) >= HeaderSize THEN readHeader(pos + size)
     ELSE pos' = pos + size /\ UNCHANGED <<size, cur>>
  /\ UNCHANGED <<encoded, total, read, out, reading>>

\* One round of the loop.
DecodePacket ==
  /\ reading = "loop" /\ Complete /\ size <= MaxMessageSize
  /\ output' = Append(output, cur)
  /\ IF read - (pos + size) >= HeaderSize THEN readHeader(pos + size)
     ELSE pos' = pos + size /\ size' = -1 /\ UNCHANGED cur
  /\ UNCHANGED <<encoded, total, read, out, reading>>

\* The error drops what this call has found, and Read closes the connection.
DecodeExceeds ==
  /\ reading = "loop" /\ Complete /\ size > MaxMessageSize
  /\ reading' = "failed" /\ output' = <<>>
  /\ UNCHANGED <<encoded, total, read, pos, size, cur, out>>

DecodeReturn ==
  /\ reading = "loop" /\ ~Complete
  /\ reading' = "idle" /\ out' = out \o output /\ output' = <<>>
  /\ UNCHANGED <<encoded, total, read, pos, size, cur>>

CodecNext ==
  \/ \E n \in Sizes : Encode(n)
  \/ \E n \in 1 .. BufferSize : Decode(n)
  \/ DecodePacket
  \/ DecodeExceeds
  \/ DecodeReturn

CodecSpec == CodecInit /\ [][CodecNext]_codecVars

--------------------------------------------------------------------------------
\* The packets that Decode has returned are those that were encoded, in order, none missing
\* and none twice, however the stream was cut into pieces.
DecodedInOrder ==
  Len(out) <= Len(encoded) /\ \A i \in DOMAIN out : out[i] = i

\* Between two calls no packet is held back whose last byte has arrived: the early return for
\* a short buffer never hides a complete payload, and the loop leaves none behind. (True
\* because no payload is shorter than a header.)
NothingHeldBack ==
  reading = "idle" => \A i \in DOMAIN encoded : EndOf(encoded[i]) <= read => i <= Len(out)
================================================================================
