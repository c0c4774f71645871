----------------------------- MODULE TinyPBCoder -----------------------------
(****************************************************************************)
(* TinyPBCoder (src/coder/tinypb_coder.cpp): encode writes packets to a     *)
(* Buffer, the stream brings them to the other side in pieces of any size,  *)
(* and decode, called after every read, takes the complete packets out of   *)
(* what has arrived.  The bytes are those of the code; a Buffer is the      *)
(* sequence of its readable bytes (module Buffer), and an index counts from *)
(* 0 at its first byte.                                                     *)
(*                                                                          *)
(* The stream is what encode makes, with bytes between packets that belong  *)
(* to none.                                                                 *)
(****************************************************************************)
EXTENDS Integers, Sequences

CONSTANTS
    Packets,    \* what may be sent: records of type, id, name, error and data
    Noise,      \* runs of bytes that may come between packets
    DefaultId,  \* the id encode gives to a packet that has none
    MaxPackets, \* bound: packets sent
    MaxNoise    \* bound: runs of noise

PB_START == 2
PB_END == 3

INT32_MAX == 2147483647

Byte == 0..255

PacketType == [type : Byte, id : Seq(Byte), name : Seq(Byte), error : 0..INT32_MAX, data : Seq(Byte)]

ASSUME PacketAssumption == Packets \subseteq PacketType /\ DefaultId \in Seq(Byte)
ASSUME NoiseAssumption == \A n \in Noise : n \in Seq(Byte \ {PB_START})
ASSUME CountAssumption == MaxPackets \in Nat /\ MaxNoise \in Nat

VARIABLES
    sent,           \* packets encoded
    stream,         \* bytes that have not arrived
    inputbuffer_,
    out_messages,   \* packets decoded, each with parse_success
    pc,             \* "read", or "decode" inside the loop of decode
    noise           \* runs of noise so far

coderVars == <<sent, stream, inputbuffer_, out_messages, pc, noise>>

CoderTypeOK ==
    /\ sent \in Seq(PacketType)
    /\ stream \in Seq(Byte) /\ inputbuffer_ \in Seq(Byte)
    /\ \A i \in 1..Len(out_messages) :
        out_messages[i].pkg \in PacketType /\ out_messages[i].parse_success \in BOOLEAN
    /\ pc \in {"read", "decode"}
    /\ noise \in 0..MaxNoise

CoderInit ==
    /\ sent = <<>> /\ stream = <<>> /\ inputbuffer_ = <<>> /\ out_messages = <<>>
    /\ pc = "read"
    /\ noise = 0

-----------------------------------------------------------------------------
(* encode *)

\* Buffer::appendInt32.
Int32(x) == <<x \div 16777216, (x \div 65536) % 256, (x \div 256) % 256, x % 256>>

PkLen(p) == 3 + 4 * 5 + Len(p.id) + Len(p.name) + Len(p.data)

Encoded(p) ==
    <<PB_START>> \o Int32(PkLen(p)) \o <<p.type>>
        \o Int32(Len(p.id)) \o p.id
        \o Int32(Len(p.name)) \o p.name
        \o Int32(p.error) \o p.data
        \o Int32(0) \o <<PB_END>>       \* check_sum_ is never computed

\* A packet without an id gets one.
WithId(p) == IF p.id = <<>> THEN [p EXCEPT !.id = DefaultId] ELSE p

Encode(p) ==
    /\ Len(sent) < MaxPackets
    /\ sent' = Append(sent, WithId(p))
    /\ stream' = stream \o Encoded(WithId(p))
    /\ UNCHANGED <<inputbuffer_, out_messages, pc, noise>>

\* External: bytes that belong to no packet.
SendNoise(n) ==
    /\ noise < MaxNoise
    /\ stream' = stream \o n
    /\ noise' = noise + 1
    /\ UNCHANGED <<sent, inputbuffer_, out_messages, pc>>

-----------------------------------------------------------------------------
(* decode *)

\* External: a read brings the next k bytes, and decode is called.
Arrive(k) ==
    /\ pc = "read"
    /\ inputbuffer_' = inputbuffer_ \o SubSeq(stream, 1, k)
    /\ stream' = SubSeq(stream, k + 1, Len(stream))
    /\ pc' = "decode"
    /\ UNCHANGED <<sent, out_messages, noise>>

WriteIndex == Len(inputbuffer_)

At(i) == inputbuffer_[i + 1]

\* The len bytes from index i on.
Slice(i, len) == SubSeq(inputbuffer_, i + 1, i + len)

\* be32toh of the four bytes at index i.
Int32At(i) ==
    LET high == IF At(i) < 128 THEN At(i) ELSE At(i) - 256
    IN ((high * 256 + At(i + 1)) * 256 + At(i + 2)) * 256 + At(i + 3)

HasLength(i) == i + 4 < WriteIndex

\* Mutant: the last byte is looked for one place too far.
EndIndexPast(i) == i + Int32At(i + 1)

EndIndex(i) == i + Int32At(i + 1) - 1

\* The packet that starts at i is all there.
Whole(i) == HasLength(i) /\ EndIndex(i) < WriteIndex /\ At(EndIndex(i)) = PB_END

\* The scan ends at a start byte whose packet is whole or still incomplete.
ScanEnds(i) ==
    /\ At(i) = PB_START
    /\ ~HasLength(i) \/ EndIndex(i) >= WriteIndex \/ Whole(i)

\* start_index after the scan.
StartIndex ==
    CHOOSE i \in 0..WriteIndex :
        /\ i = WriteIndex \/ ScanEnds(i)
        /\ \A j \in 0..(i - 1) : ~ScanEnds(j)

\* Mutant: the packet is parsed as if it had no msg_type_.
TypeIndexMissing(start) == start + 1 + 4

\* msg_type_index.
TypeIndex(start) == start + 1 + 4 + 1

\* The packet between start and end.  Each index is the end of a field; a field
\* that would reach the last byte is not read and makes the parse fail.
Parsed(start, end) ==
    LET type == TypeIndex(start)
        idlen == type + 4
        idn  == IF idlen < end THEN Int32At(type) ELSE 0
        id   == idlen + idn
        namelen == id + 4
        namen == IF namelen < end THEN Int32At(id) ELSE 0
        name == namelen + namen
        error == name + 4
        datan == Int32At(start + 1) - idn - namen - 4 * 5 - 3
        data == error + datan
        check == data + 4
    IN [pkg |-> [type  |-> IF type < end THEN At(type - 1) ELSE 0,
                 id    |-> IF id < end THEN Slice(idlen, idn) ELSE <<>>,
                 name  |-> IF name < end THEN Slice(namelen, namen) ELSE <<>>,
                 error |-> IF error < end THEN Int32At(name) ELSE 0,
                 data  |-> IF data < end THEN Slice(error, datan) ELSE <<>>],
        parse_success |->
            /\ type < end /\ idlen < end /\ id < end /\ namelen < end
            /\ name < end /\ error < end /\ data < end /\ check <= end]

\* A turn of decode's loop that finds a packet; parsed or not, it leaves the
\* buffer with its last byte and is handed on.
DecodeOne ==
    LET start == StartIndex
    IN /\ pc = "decode"
       /\ start < WriteIndex /\ Whole(start)
       /\ out_messages' = Append(out_messages, Parsed(start, EndIndex(start)))
       /\ inputbuffer_' = SubSeq(inputbuffer_, EndIndex(start) + 2, WriteIndex)
       /\ UNCHANGED <<sent, stream, pc, noise>>

\* The last turn, which only drops what comes before the next start byte.
DecodeDone ==
    LET start == StartIndex
    IN /\ pc = "decode"
       /\ ~(start < WriteIndex /\ Whole(start))
       /\ inputbuffer_' = SubSeq(inputbuffer_, start + 1, WriteIndex)
       /\ pc' = "read"
       /\ UNCHANGED <<sent, stream, out_messages, noise>>

\* All that may be sent has been decoded.
Finished ==
    /\ Len(sent) = MaxPackets /\ noise = MaxNoise /\ stream = <<>> /\ pc = "read"
    /\ UNCHANGED coderVars

-----------------------------------------------------------------------------
(* Properties *)

\* What decode delivers are the packets that were encoded, every field as it
\* was, in their order: none is lost, split or made up, however the stream is
\* cut into reads.
RoundTrip ==
    /\ Len(out_messages) <= Len(sent)
    /\ \A i \in 1..Len(out_messages) :
        out_messages[i] = [pkg |-> sent[i], parse_success |-> TRUE]
    /\ pc = "read" /\ stream = <<>> => Len(out_messages) = Len(sent)

IsProperPrefix(s, t) == Len(s) < Len(t) /\ s = SubSeq(t, 1, Len(s))

\* After decode the buffer holds the beginning of the next packet and nothing
\* else: no packet that is complete waits for the next read, and no byte of one
\* that is not complete has been dropped.
InSync ==
    pc = "read" =>
        \/ inputbuffer_ = <<>>
        \/ /\ Len(out_messages) < Len(sent)
           /\ IsProperPrefix(inputbuffer_, Encoded(sent[Len(out_messages) + 1]))
=============================================================================
