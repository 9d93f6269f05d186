------------------------------- MODULE AvlParser -------------------------------
(***************************************************************************)
(* TeltonikaParser (packages/teltonika-parser/src/parser.ts) on the bytes  *)
(* of one connection, driven as server.ts drives it: the login, then one   *)
(* packet after the other from the front of the connection's buffer.       *)
(*                                                                         *)
(* A stream is what a client sends.  connection.buffer is the part of it   *)
(* from pos to arrived, so the byte at offset o of the buffer is byte      *)
(* pos + o of the stream.  parseAvlPacket is given the whole buffer: only  *)
(* its end bounds a read, the length of the packet does not.               *)
(***************************************************************************)
EXTENDS AvlFormat

CONSTANTS
    Streams,   \* streams a client may send, by name
    Bytes,     \* Bytes[s]: the bytes of a stream
    Cuts,      \* Cuts[s]: the positions at which a chunk of it may end
    Packets,   \* Packets[s]: the packets in it, see Framed
    Crc(_)     \* calculateCRC16 (module Crc16)

\* from and to bound the bytes of a packet; intact says that nothing of it was
\* damaged: then records and telemetry are what its sender encoded, in the places
\* that starts and layout name.  The first packet follows the login, each one
\* starts with four zero bytes and the right length, and ends where the next one
\* starts.
Framed(s) ==
    \A i \in 1..Len(Packets[s]) :
        LET p == Packets[s][i]
        IN /\ p.from \in Nat /\ p.to \in Nat /\ p.from + 12 <= p.to /\ p.to <= Len(Bytes[s])
           /\ Word(Bytes[s], p.from) = 0 /\ Word(Bytes[s], p.from + 2) = 0
           /\ p.to = p.from + 12 + Long(Bytes[s], p.from + 4)
           /\ p.from = IF i = 1 THEN 2 + Word(Bytes[s], 0) ELSE Packets[s][i - 1].to

ASSUME StreamsAssumption ==
    \A s \in Streams :
        /\ Bytes[s] \in Seq(0..255)
        /\ Cuts[s] \subseteq 1..Len(Bytes[s])
        /\ Len(Packets[s]) \in Nat /\ DOMAIN Packets[s] = 1..Len(Packets[s])
        /\ Framed(s)

\* The sender of an intact packet keeps to the format.
ASSUME EncodingAssumption ==
    \A s \in Streams : \A i \in 1..Len(Packets[s]) :
        LET p == Packets[s][i]
        IN p.intact => PacketEncoded(Bytes[s], p, Crc(SubSeq(Bytes[s], p.from + 9, p.to - 4)))

VARIABLES
    stream,    \* the stream of this connection
    arrived,   \* bytes received
    pos,       \* bytes consumed
    pc,        \* what the parser reads next
    offset,    \* the local variable offset
    extended,  \* the local variable isExtended
    declared,  \* numberOfRecords1
    records,   \* the local variable records
    elements,  \* elements of the record being read
    start,     \* offset at which the record being read starts
    group,     \* index in sizes of the group being read
    left,      \* elements of the group still to read
    results    \* what became of each packet, in order

local == <<offset, extended, declared, records, elements, start, group, left>>
vars == <<stream, arrived, pos, pc, local, results>>

\* The reads of Node's Buffer, at an offset of connection.buffer.
BufferLength == arrived - pos
Has(o, n) == o + n <= BufferLength
U8(o) == Bytes[stream][pos + o + 1]
U16(o) == Word(Bytes[stream], pos + o)
S16(o) == SignedWord(Bytes[stream], pos + o)
U32(o) == Long(Bytes[stream], pos + o)
S32(o) == SignedLong(Bytes[stream], pos + o)

\* An unsigned number of n bytes, as its words of 16 bits.
UInt(o, n) == Words(Bytes[stream], pos + o, n)

\* The counts and ids of a codec have one or two bytes.
Short(o) == IF extended THEN U16(o) ELSE U8(o)

\* Mutant: codec 8 Extended is read as codec 8.
WidthOfCodec8 == 1

\* countSize and idSize.
Width == IF extended THEN 2 ELSE 1

\* getPacketLength: 0 when the packet is incomplete, -1 when it is invalid.
getPacketLength ==
    IF BufferLength < 12 THEN 0
    ELSE IF U16(0) # 0 \/ U16(2) # 0 THEN -1
    ELSE IF Has(0, 12 + U32(4)) THEN 12 + U32(4) ELSE 0

Init ==
    /\ stream \in Streams
    /\ arrived = 0 /\ pos = 0 /\ pc = "imei"
    /\ offset = 0 /\ extended = FALSE /\ declared = 0
    /\ records = <<>> /\ elements = <<>> /\ start = 0
    /\ group = 0 /\ left = 0
    /\ results = <<>>

\* A chunk arrives and is appended to the buffer.  The parser runs to the end of
\* a packet without giving up the thread.
Receive ==
    /\ pc \in {"imei", "packet"}
    /\ arrived' \in {c \in Cuts[stream] : c > arrived}
    /\ UNCHANGED <<stream, pos, pc, local, results>>

\* parseImei: 15 digits; reading as ASCII drops the highest bit of each byte.
IsImei == U16(0) = 15 /\ \A i \in 2..16 : U8(i) % 128 \in 48..57

ParseImei ==
    /\ pc = "imei" /\ Has(0, 2) /\ Has(2, U16(0))
    /\ pos' = pos + 2 + U16(0)
    /\ pc' = IF IsImei THEN "packet" ELSE "rejected"
    /\ UNCHANGED <<stream, arrived, local, results>>

\* handleDataPhase on an invalid preamble: everything received is dropped.
ClearBuffer ==
    /\ pc = "packet" /\ getPacketLength = -1
    /\ pos' = arrived
    /\ UNCHANGED <<stream, arrived, pc, local, results>>

\* Mutant: what is consumed of a packet that cannot be parsed is what was read.
SettleWhereItStopped(result) ==
    /\ results' = Append(results, result)
    /\ pos' = pos + (IF result.ok THEN getPacketLength ELSE offset)
    /\ pc' = "packet"
    /\ offset' = 0 /\ extended' = FALSE /\ declared' = 0
    /\ records' = <<>> /\ elements' = <<>> /\ start' = 0
    /\ group' = 0 /\ left' = 0
    /\ UNCHANGED <<stream, arrived>>

\* The end of parseAvlPacket, with or without a packet: the server consumes the
\* declared length either way, and acknowledges what it was given.
Settle(result) ==
    /\ results' = Append(results, result)
    /\ pos' = pos + getPacketLength
    /\ pc' = "packet"
    /\ offset' = 0 /\ extended' = FALSE /\ declared' = 0
    /\ records' = <<>> /\ elements' = <<>> /\ start' = 0
    /\ group' = 0 /\ left' = 0
    /\ UNCHANGED <<stream, arrived>>

Null == [ok |-> FALSE, records |-> <<>>, acked |-> 0, crcValid |-> FALSE]

\* The preamble, the length, the codec and the first count.
ParseHeader ==
    /\ pc = "packet" /\ getPacketLength > 0
    /\ IF U8(8) \in {8, 142}
       THEN /\ pc' = "record"
            /\ extended' = (U8(8) = 142)
            /\ declared' = U8(9)
            /\ offset' = 10
            /\ UNCHANGED <<stream, arrived, pos, records, elements, start, group, left, results>>
       ELSE Settle(Null)

\* parseAvlRecord: the time stamp, the priority, the position; then the event id
\* and the total count of its IO element are skipped.
ParseRecord ==
    /\ pc = "record" /\ Len(records) < declared
    /\ IF Has(offset, 24)
       THEN /\ start' = offset
            /\ offset' = offset + 24 + 2 * Width
            /\ elements' = <<>>
            /\ group' = 1
            /\ pc' = "count"
            /\ UNCHANGED <<stream, arrived, pos, extended, declared, records, left, results>>
       ELSE Settle(Null)

\* parseIoElement: the count of a group.
ReadCount ==
    /\ pc = "count" /\ group <= Len(sizes)
    /\ IF Has(offset, Width)
       THEN /\ left' = Short(offset)
            /\ offset' = offset + Width
            /\ pc' = "element"
            /\ UNCHANGED <<stream, arrived, pos, extended, declared, records, elements,
                           start, group, results>>
       ELSE Settle(Null)

\* An element of a group: its id and its value.
ReadElement ==
    /\ pc = "element" /\ left > 0
    /\ IF Has(offset, Width + sizes[group])
       THEN /\ elements' = Append(elements,
                   [id |-> Short(offset),
                    value |-> UInt(offset + Width, sizes[group])])
            /\ offset' = offset + Width + sizes[group]
            /\ left' = left - 1
            /\ UNCHANGED <<stream, arrived, pos, pc, extended, declared, records,
                           start, group, results>>
       ELSE Settle(Null)

NextGroup ==
    /\ pc = "element" /\ left = 0
    /\ group' = group + 1
    /\ pc' = "count"
    /\ UNCHANGED <<stream, arrived, pos, offset, extended, declared, records, elements,
                   start, left, results>>

\* The elements of variable length, of codec 8 Extended only: their count.
ReadNxCount ==
    /\ pc = "count" /\ group > Len(sizes) /\ extended
    /\ IF Has(offset, 2)
       THEN /\ left' = U16(offset)
            /\ offset' = offset + 2
            /\ pc' = "skip"
            /\ UNCHANGED <<stream, arrived, pos, extended, declared, records, elements,
                           start, group, results>>
       ELSE Settle(Null)

\* One of them is skipped: only its length is read.
SkipNx ==
    /\ pc = "skip" /\ left > 0
    /\ IF Has(offset + 2, 2)
       THEN /\ offset' = offset + 4 + U16(offset + 2)
            /\ left' = left - 1
            /\ UNCHANGED <<stream, arrived, pos, pc, extended, declared, records, elements,
                           start, group, results>>
       ELSE Settle(Null)

\* parseGpsElement, and the record as parseAvlRecord returns it.
GpsAt(o) == Gps(Bytes[stream], pos + o)

EndRecord ==
    /\ \/ pc = "count" /\ group > Len(sizes) /\ ~extended
       \/ pc = "skip" /\ left = 0
    /\ records' = Append(records, [timestamp |-> UInt(start, 8), priority |-> U8(start + 8),
                                   gps |-> GpsAt(start + 9), elements |-> elements])
    /\ pc' = "record"
    /\ UNCHANGED <<stream, arrived, pos, offset, extended, declared, elements,
                   start, group, left, results>>

\* The second count, compared for a warning only, and the checksum.
dataField == SubSeq(Bytes[stream], pos + 9, pos + 8 + U32(4))

ParseTrailer ==
    /\ pc = "record" /\ Len(records) = declared
    /\ Settle(IF Has(offset, 5)
              THEN [ok |-> TRUE, records |-> records,
                    acked |-> declared,
                    crcValid |-> U16(offset + 3) = Crc(dataField)]
              ELSE Null)

Next ==
    \/ Receive \/ ParseImei \/ ClearBuffer
    \/ ParseHeader \/ ParseRecord
    \/ ReadCount \/ ReadElement \/ NextGroup \/ ReadNxCount \/ SkipNx
    \/ EndRecord \/ ParseTrailer

Spec == Init /\ [][Next]_vars

AvlParseResult == [ok : BOOLEAN, records : Seq(AVLRecord), acked : Nat, crcValid : BOOLEAN]

TypeOK ==
    /\ stream \in Streams
    /\ arrived \in 0..Len(Bytes[stream]) /\ pos \in 0..arrived
    /\ pc \in {"imei", "rejected", "packet", "record", "count", "element", "skip"}
    /\ offset \in Nat /\ extended \in BOOLEAN /\ declared \in Nat
    /\ records \in Seq(AVLRecord) /\ elements \in Seq(IOElement)
    /\ start \in Nat /\ group \in 0..5 /\ left \in Nat
    /\ results \in Seq(AvlParseResult)

\* What the server makes of the records of packet i.
Telemetry(i) ==
    [j \in DOMAIN results[i].records |-> recordToTelemetry(results[i].records[j].elements)]

\* Every packet that arrives undamaged is decoded into exactly the records, the
\* structured values and the acknowledgement its sender expects, wherever the
\* chunks end, and whatever a damaged packet before it made of its own bytes and
\* of those behind it (parseAvlPacket reads from the whole buffer).
IntactDecoded ==
    \A i \in DOMAIN results \cap DOMAIN Packets[stream] :
        Packets[stream][i].intact =>
            /\ results[i].ok /\ results[i].crcValid
            /\ results[i].records = Packets[stream][i].records
            /\ results[i].acked = Len(Packets[stream][i].records)
            /\ Telemetry(i) = Packets[stream][i].telemetry

\* The parser is at the start of a packet whenever it begins one: what one packet
\* consumes is its declared length, whether it is decoded, rejected, or misread
\* into the bytes of the next one.
Aligned ==
    pc \notin {"imei", "rejected"} /\ Len(results) < Len(Packets[stream])
        => pos = Packets[stream][Len(results) + 1].from
=============================================================================
