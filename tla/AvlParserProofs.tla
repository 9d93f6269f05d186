---------------------------- MODULE AvlParserProofs ----------------------------
(***************************************************************************)
(* Proofs about AvlParser, for every set of streams and every checksum: the *)
(* parser stays in step with the packets, and decodes those that are intact.*)
(***************************************************************************)
EXTENDS AvlParser, WellFoundedInduction, TLAPS

Reading == {"record", "count", "element", "skip"}

\* While a packet is read it is complete, and the fixed part of the record that
\* is being read lies within the buffer.
InPacket ==
    /\ pc \in Reading => /\ BufferLength >= 12 /\ U16(0) = 0 /\ U16(2) = 0
                         /\ Has(0, 12 + U32(4))
    /\ pc \in Reading \ {"record"} => Has(start, 24)
    /\ pc = "count" => group \in 1..5
    /\ pc = "element" => group \in 1..4
    /\ pc = "imei" => pos = 0 /\ results = <<>>

Inv == TypeOK /\ InPacket /\ Aligned

\* An element of a sequence has the type of its elements.
LEMMA ElementOf ==
    ASSUME NEW S, NEW s \in Seq(S), NEW i \in 1..Len(s)
    PROVE  s[i] \in S
  OBVIOUS

\* So does a sequence with one more.
LEMMA AppendTyped ==
    ASSUME NEW S, NEW s \in Seq(S), NEW e \in S
    PROVE  Append(s, e) \in Seq(S) /\ Len(Append(s, e)) = Len(s) + 1 /\ Len(s) \in Nat
  OBVIOUS

\* And the empty one.
LEMMA EmptyTyped == ASSUME NEW S PROVE <<>> \in Seq(S)
  OBVIOUS

\* What the assumption says of a stream.
LEMMA StreamFacts ==
    ASSUME NEW s \in Streams
    PROVE  /\ Bytes[s] \in Seq(0..255) /\ Len(Bytes[s]) \in Nat
           /\ Cuts[s] \subseteq 1..Len(Bytes[s])
           /\ Len(Packets[s]) \in Nat
           /\ Framed(s)
  BY StreamsAssumption DEF StreamsAssumption

\* The numbers read within the buffer.
LEMMA ByteRead ==
    ASSUME TypeOK, NEW o \in Nat, Has(o, 1)
    PROVE  U8(o) \in 0..255
<1>1. Bytes[stream] \in Seq(0..255)
  BY StreamFacts DEF TypeOK
<1>2. Len(Bytes[stream]) \in Nat
  BY StreamFacts DEF TypeOK
<1>3. pos + o + 1 \in 1..Len(Bytes[stream])
  BY <1>2 DEF TypeOK, Has, BufferLength
<1>4. Bytes[stream][pos + o + 1] \in 0..255
  BY <1>1, <1>3, ElementOf
<1> QED
  BY <1>4 DEF U8

\* Two bytes.
LEMMA WordRead ==
    ASSUME TypeOK, NEW o \in Nat, Has(o, 2)
    PROVE  U16(o) \in Nat /\ S16(o) \in Int
<1>1. U8(o) \in 0..255 /\ U8(o + 1) \in 0..255
  BY ByteRead DEF Has, BufferLength, TypeOK
<1>2. U16(o) = U8(o) * 256 + U8(o + 1)
  BY DEF U16, U8, Word, TypeOK
<1>3. U16(o) \in Nat
  <2>1. \A a, b \in 0..255 : a * 256 + b \in Nat
    OBVIOUS
  <2> QED
    BY <1>1, <1>2, <2>1
<1>4. S16(o) = IF U8(o) < 128 THEN U16(o) ELSE U16(o) - 65536
  BY DEF S16, SignedWord, U8, U16, Word
<1> QED
  BY <1>1, <1>3, <1>4

\* Four bytes.
LEMMA LongRead ==
    ASSUME TypeOK, NEW o \in Nat, Has(o, 4)
    PROVE  U32(o) \in Nat /\ S32(o) \in Int
<1>1. U16(o) \in Nat /\ U16(o + 2) \in Nat /\ S16(o) \in Int
  BY WordRead DEF Has, BufferLength, TypeOK
<1>2. U32(o) = U16(o) * 65536 + U16(o + 2)
  BY DEF U32, U16, Long, TypeOK
<1>3. S32(o) = S16(o) * 65536 + U16(o + 2)
  BY DEF S32, S16, U16, SignedLong, TypeOK
<1> QED
  BY <1>1, <1>2, <1>3

\* A count or an id of the codec.
LEMMA ShortRead ==
    ASSUME TypeOK, NEW o \in Nat, Has(o, Width)
    PROVE  Short(o) \in Nat
<1>1. CASE extended
  BY <1>1, WordRead DEF Short, Width
<1>2. CASE ~extended
  BY <1>2, ByteRead DEF Short, Width
<1> QED
  BY <1>1, <1>2

\* The value of an IO element.
LEMMA UIntRead ==
    ASSUME TypeOK, NEW o \in Nat, NEW n \in {1, 2, 4, 8}, Has(o, n)
    PROVE  UInt(o, n) \in Seq(Nat)
<1>1. CASE n = 1
  <2>1. UInt(o, n) = <<U8(o)>>
    BY <1>1 DEF UInt, Words, U8, TypeOK
  <2>2. U8(o) \in Nat
    BY <1>1, ByteRead
  <2> QED
    BY <2>1, <2>2
<1>2. CASE n # 1
  <2>1. n \div 2 \in Nat /\ 2 * (n \div 2) = n
    BY <1>2
  <2>2. ASSUME NEW i \in 1..n \div 2
        PROVE  U16(o + 2 * (i - 1)) \in Nat
    <3>1. o + 2 * (i - 1) \in Nat /\ Has(o + 2 * (i - 1), 2)
      BY <2>1 DEF Has, BufferLength, TypeOK
    <3> QED
      BY <3>1, WordRead
  <2>3. UInt(o, n) = [i \in 1..n \div 2 |-> U16(o + 2 * (i - 1))]
    <3>1. \A i \in 1..n \div 2 : Word(Bytes[stream], pos + o + 2 * (i - 1)) = U16(o + 2 * (i - 1))
      BY <2>1 DEF U16, TypeOK
    <3> QED
      BY <1>2, <3>1 DEF UInt, Words
  <2> QED
    BY <2>1, <2>2, <2>3
<1> QED
  BY <1>1, <1>2

\* The GPS element.
LEMMA PositionRead ==
    ASSUME TypeOK, NEW o \in Nat, Has(o, 15)
    PROVE  GpsAt(o) \in GPSData
<1>1. /\ Has(o, 4) /\ Has(o + 4, 4) /\ Has(o + 8, 2) /\ Has(o + 10, 2)
      /\ Has(o + 12, 1) /\ Has(o + 13, 2)
      /\ o + 4 \in Nat /\ o + 8 \in Nat /\ o + 10 \in Nat /\ o + 12 \in Nat /\ o + 13 \in Nat
  BY DEF Has, BufferLength, TypeOK
<1>2. S32(o) \in Int /\ S32(o + 4) \in Int
  BY <1>1, LongRead
<1>3. S16(o + 8) \in Int /\ U16(o + 10) \in Int /\ U16(o + 13) \in Int
  BY <1>1, WordRead
<1>4. U8(o + 12) \in Int
  BY <1>1, ByteRead
<1>5. GpsAt(o) = [longitude |-> S32(o), latitude |-> S32(o + 4), altitude |-> S16(o + 8),
                  angle |-> U16(o + 10), satellites |-> U8(o + 12), speed |-> U16(o + 13),
                  isValid |-> U8(o + 12) >= 3 /\ (S32(o) # 0 \/ S32(o + 4) # 0)]
  <2>1. /\ pos + o + 4 = pos + (o + 4) /\ pos + o + 8 = pos + (o + 8) /\ pos + o + 10 = pos + (o + 10)
        /\ pos + o + 13 = pos + (o + 12) + 1 /\ pos + o + 13 = pos + (o + 13)
    BY DEF TypeOK
  <2> QED
    BY <2>1, Zenon DEF GpsAt, Gps, S32, S16, U16, U8
<1>6. (U8(o + 12) >= 3 /\ (S32(o) # 0 \/ S32(o + 4) # 0)) \in BOOLEAN
  OBVIOUS
<1> QED
  BY <1>2, <1>3, <1>4, <1>5, <1>6 DEF GPSData

\* A complete packet, as getPacketLength sees it.
LEMMA PacketLength ==
    ASSUME TypeOK
    PROVE  getPacketLength > 0
             <=> /\ BufferLength >= 12 /\ U16(0) = 0 /\ U16(2) = 0 /\ Has(0, 12 + U32(4))
<1>1. BufferLength \in Nat
  BY StreamFacts DEF BufferLength, TypeOK
<1>2. CASE BufferLength < 12
  BY <1>1, <1>2 DEF getPacketLength
<1>3. CASE BufferLength >= 12
  <2>1. U32(4) \in Nat
    <3>1. 4 \in Nat /\ Has(4, 4)
      BY <1>1, <1>3 DEF Has
    <3> QED
      BY <3>1, LongRead
  <2> QED
    BY <1>1, <1>3, <2>1 DEF getPacketLength
<1> QED
  BY <1>1, <1>2, <1>3
-----------------------------------------------------------------------------
\* The invariant holds before anything has arrived.
LEMMA InitHolds == Init => Inv
<1> SUFFICES ASSUME Init PROVE Inv
  OBVIOUS
<1>1. stream \in Streams /\ Len(Bytes[stream]) \in Nat
  BY StreamFacts DEF Init
<1>2. TypeOK
  <2>1. 0 \in 0..Len(Bytes[stream]) /\ 0 \in 0..0
    BY <1>1
  <2>2. <<>> \in Seq(AVLRecord) /\ <<>> \in Seq(IOElement) /\ <<>> \in Seq(AvlParseResult)
    BY EmptyTyped
  <2>3. extended \in BOOLEAN
    BY Zenon DEF Init
  <2>4. pc \in {"imei", "rejected", "packet", "record", "count", "element", "skip"}
    BY DEF Init
  <2>5. /\ records \in Seq(AVLRecord) /\ elements \in Seq(IOElement)
        /\ results \in Seq(AvlParseResult)
    BY <2>2, Zenon DEF Init
  <2> QED
    BY <1>1, <2>1, <2>3, <2>4, <2>5 DEF Init, TypeOK
<1>3. InPacket /\ Aligned
  BY DEF Init, InPacket, Aligned, Reading
<1> QED
  BY <1>2, <1>3 DEF Inv

\* The end of a packet, decoded or not: what it consumes takes the parser to the
\* start of the next packet.
LEMMA SettleHolds ==
    ASSUME Inv, getPacketLength > 0, pc \in Reading \cup {"packet"},
           NEW result \in AvlParseResult, Settle(result)
    PROVE  Inv'
<1> USE DEF Inv, Settle
<1>1. /\ BufferLength >= 12 /\ U16(0) = 0 /\ U16(2) = 0 /\ Has(0, 12 + U32(4))
      /\ getPacketLength = 12 + U32(4) /\ U32(4) \in Nat
  <2>1. BufferLength >= 12 /\ U16(0) = 0 /\ U16(2) = 0 /\ Has(0, 12 + U32(4))
    BY PacketLength
  <2>2. U32(4) \in Nat
    <3>1. BufferLength \in Int /\ TypeOK
      BY DEF BufferLength, TypeOK
    <3>2. 4 \in Nat /\ Has(4, 4)
      BY <2>1, <3>1 DEF Has
    <3> QED
      BY <3>1, <3>2, LongRead
  <2> QED
    BY <2>1, <2>2 DEF getPacketLength
<1>2. pos' = pos + 12 + U32(4) /\ pos' \in 0..arrived
  BY <1>1 DEF TypeOK, Has, BufferLength
<1>3. TypeOK'
  <2>1. results' \in Seq(AvlParseResult)
    BY AppendTyped DEF TypeOK
  <2>2. <<>> \in Seq(AVLRecord) /\ <<>> \in Seq(IOElement)
    BY EmptyTyped
  <2>3. extended' \in BOOLEAN
    BY Zenon
  <2>4. records' \in Seq(AVLRecord) /\ elements' \in Seq(IOElement)
    BY <2>2, Zenon
  <2> QED
    BY <1>2, <2>1, <2>3, <2>4 DEF TypeOK
<1>4. InPacket'
  BY DEF InPacket, Reading
<1>5. Aligned'
  <2> SUFFICES ASSUME Len(results') < Len(Packets[stream])
               PROVE  pos' = Packets[stream][Len(results') + 1].from
    BY DEF Aligned
  <2> DEFINE k == Len(results)
  <2>1. k \in Nat /\ Len(results') = k + 1 /\ Len(Packets[stream]) \in Nat
    BY StreamFacts DEF TypeOK
  <2>2. k + 1 \in 1..Len(Packets[stream]) /\ k + 2 \in 1..Len(Packets[stream])
    BY <2>1
  <2>3. pos = Packets[stream][k + 1].from
    BY <2>1 DEF Aligned, Reading
  <2>4. Framed(stream)
    BY StreamFacts DEF TypeOK
  <2>5. Packets[stream][k + 1].to = pos + 12 + U32(4)
    <3>1. Packets[stream][k + 1].to
            = Packets[stream][k + 1].from + 12 + Long(Bytes[stream], Packets[stream][k + 1].from + 4)
      BY <2>2, <2>4 DEF Framed
    <3> QED
      BY <2>3, <3>1 DEF U32
  <2>6. Packets[stream][k + 2].from = Packets[stream][k + 1].to
    <3>1. k + 2 # 1 /\ k + 2 - 1 = k + 1
      BY <2>1
    <3> QED
      BY <2>2, <2>4, <3>1 DEF Framed
  <2> QED
    BY <1>2, <2>1, <2>5, <2>6
<1> QED
  BY <1>3, <1>4, <1>5

\* Nothing but what is read changes while a packet is read: what that leaves.
LEMMA ReadingHolds ==
    ASSUME Inv, getPacketLength > 0, pc \in Reading \cup {"packet"},
           UNCHANGED <<stream, arrived, pos, results>>,
           pc' \in Reading,
           offset' \in Nat, extended' \in BOOLEAN, declared' \in Nat,
           records' \in Seq(AVLRecord), elements' \in Seq(IOElement),
           start' \in Nat, group' \in 0..5, left' \in Nat,
           pc' # "record" => start' + 24 <= BufferLength,
           pc' = "count" => group' \in 1..5,
           pc' = "element" => group' \in 1..4
    PROVE  Inv'
<1>1. TypeOK'
  BY DEF Inv, TypeOK, Reading
<1>2. BufferLength >= 12 /\ U16(0) = 0 /\ U16(2) = 0 /\ Has(0, 12 + U32(4))
  BY PacketLength DEF Inv
<1>3. /\ BufferLength' = BufferLength /\ U16(0)' = U16(0) /\ U16(2)' = U16(2)
      /\ Has(0, 12 + U32(4))' = Has(0, 12 + U32(4))
      /\ Has(start, 24)' = (start' + 24 <= BufferLength)
  BY DEF BufferLength, U16, U32, Has
<1>4. InPacket'
  BY <1>2, <1>3 DEF InPacket, Reading
<1>5. Aligned'
  BY DEF Inv, Aligned, Reading
<1> QED
  BY <1>1, <1>4, <1>5 DEF Inv

\* A packet that is rejected gives a result too.
LEMMA NullTyped == Null \in AvlParseResult
<1>1. <<>> \in Seq(AVLRecord)
  BY EmptyTyped
<1> QED
  BY <1>1 DEF Null, AvlParseResult

\* A packet that is being read is complete.
LEMMA Complete ==
    ASSUME Inv, pc \in Reading
    PROVE  getPacketLength > 0
  BY PacketLength DEF Inv, InPacket
-----------------------------------------------------------------------------
\* Chunks, the login, and a buffer that is dropped: a buffer is dropped only
\* behind the last packet.
LEMMA OutsideHolds ==
    ASSUME Inv, Receive \/ ParseImei \/ ClearBuffer
    PROVE  Inv'
<1> USE DEF Inv
<1>0. /\ stream \in Streams /\ Len(Bytes[stream]) \in Nat /\ Framed(stream)
      /\ Len(Packets[stream]) \in Nat /\ BufferLength \in Nat
  BY StreamFacts DEF TypeOK, BufferLength
<1>1. ASSUME Receive PROVE Inv'
  <2>1. arrived' \in 0..Len(Bytes[stream]) /\ arrived' > arrived
    BY <1>1, StreamFacts DEF Receive, TypeOK
  <2>2. TypeOK'
    BY <1>1, <2>1 DEF Receive, TypeOK, local
  <2>3. InPacket' /\ Aligned'
    BY <1>1 DEF Receive, InPacket, Aligned, Reading
  <2> QED
    BY <2>2, <2>3
<1>2. ASSUME ParseImei PROVE Inv'
  <2>1. U16(0) \in Nat
    BY <1>2, WordRead DEF ParseImei
  <2>2. pos' \in 0..arrived /\ pos' = 2 + U16(0)
    BY <1>0, <1>2, <2>1 DEF ParseImei, Has, BufferLength, TypeOK, InPacket
  <2>3. TypeOK'
    BY <1>2, <2>2 DEF ParseImei, TypeOK, local
  <2>4. InPacket'
    BY <1>2 DEF ParseImei, InPacket, Reading
  <2>5. Aligned'
    <3> SUFFICES ASSUME Len(results) < Len(Packets[stream])
                 PROVE  pos' = Packets[stream][Len(results) + 1].from
      BY <1>2 DEF ParseImei, Aligned
    <3>1. results = <<>> /\ Len(results) = 0 /\ 1 \in 1..Len(Packets[stream])
      BY <1>0, <1>2 DEF ParseImei, InPacket
    <3>2. Packets[stream][1].from = 2 + Word(Bytes[stream], 0)
      BY <1>0, <3>1 DEF Framed
    <3>3. pos = 0
      BY <1>2 DEF ParseImei, InPacket
    <3> QED
      BY <2>2, <3>1, <3>2, <3>3 DEF U16
  <2> QED
    BY <2>3, <2>4, <2>5
<1>3. ASSUME ClearBuffer PROVE Inv'
  <2>1. TypeOK'
    BY <1>3 DEF ClearBuffer, TypeOK, local
  <2>2. InPacket'
    BY <1>3 DEF ClearBuffer, InPacket, Reading
  <2>3. Len(results) >= Len(Packets[stream])
    <3> SUFFICES ASSUME Len(results) < Len(Packets[stream]) PROVE FALSE
      BY <1>0 DEF TypeOK
    <3>1. Len(results) + 1 \in 1..Len(Packets[stream])
      BY <1>0 DEF TypeOK
    <3>2. pos = Packets[stream][Len(results) + 1].from
      BY <1>3 DEF ClearBuffer, Aligned
    <3>3. U16(0) = 0 /\ U16(2) = 0
      <4>1. Word(Bytes[stream], pos) = 0 /\ Word(Bytes[stream], pos + 2) = 0
        BY <1>0, <3>1, <3>2 DEF Framed
      <4> QED
        BY <4>1 DEF U16, TypeOK
    <3>4. getPacketLength # -1
      <4>1. CASE BufferLength < 12
        BY <4>1 DEF getPacketLength
      <4>2. CASE BufferLength >= 12
        <5>1. 4 \in Nat /\ Has(4, 4)
          BY <1>0, <4>2 DEF Has
        <5>2. U32(4) \in Nat
          BY <5>1, LongRead
        <5> QED
          BY <3>3, <4>2, <5>2 DEF getPacketLength
      <4> QED
        BY <1>0, <4>1, <4>2
    <3> QED
      BY <1>3, <3>4 DEF ClearBuffer
  <2>4. Aligned'
    BY <1>0, <1>3, <2>3 DEF ClearBuffer, Aligned, TypeOK
  <2> QED
    BY <2>1, <2>2, <2>4
<1> QED
  BY <1>1, <1>2, <1>3

\* The steps of parseAvlPacket.
LEMMA HeaderHolds == ASSUME Inv, ParseHeader PROVE Inv'
<1> USE DEF Inv
<1>1. CASE U8(8) \in {8, 142}
  <2>1. U8(9) \in Nat
    <3>1. BufferLength \in Int /\ BufferLength >= 12
      BY PacketLength DEF ParseHeader, BufferLength, TypeOK
    <3>2. Has(9, 1) /\ 9 \in Nat
      BY <3>1 DEF Has
    <3> QED
      BY <3>2, ByteRead
  <2>2. extended' \in BOOLEAN
    BY <1>1 DEF ParseHeader
  <2>3. /\ UNCHANGED <<stream, arrived, pos, records, elements, start, group, left, results>>
        /\ pc = "packet" /\ getPacketLength > 0 /\ pc' = "record"
        /\ declared' = U8(9) /\ offset' = 10
    BY <1>1 DEF ParseHeader
  <2> QED
    BY <2>1, <2>2, <2>3, ReadingHolds DEF Reading, TypeOK
<1>2. CASE ~(U8(8) \in {8, 142})
  <2>1. pc \in Reading \cup {"packet"} /\ getPacketLength > 0 /\ Settle(Null)
    BY <1>2 DEF ParseHeader
  <2> QED
    BY <2>1, NullTyped, SettleHolds
<1> QED
  BY <1>1, <1>2

\* The fixed part of a record is read where it lies in the buffer.
LEMMA RecordHolds == ASSUME Inv, ParseRecord PROVE Inv'
<1> USE DEF Inv
<1>0. pc \in Reading /\ getPacketLength > 0
  BY Complete DEF ParseRecord, Reading
<1>1. CASE Has(offset, 24)
  <2>1. /\ UNCHANGED <<stream, arrived, pos, extended, declared, records, left, results>>
        /\ start' = offset /\ offset' = offset + 24 + 2 * Width
        /\ elements' = <<>> /\ group' = 1 /\ pc' = "count"
    BY <1>1 DEF ParseRecord
  <2>2. Width \in Nat /\ <<>> \in Seq(IOElement)
    BY EmptyTyped DEF Width
  <2>3. start' + 24 <= BufferLength
    BY <1>1, <2>1 DEF Has
  <2> QED
    BY <1>0, <2>1, <2>2, <2>3, ReadingHolds DEF Reading, TypeOK
<1>2. CASE ~Has(offset, 24)
  BY <1>0, <1>2, NullTyped, SettleHolds DEF ParseRecord
<1> QED
  BY <1>1, <1>2

\* The count of a group.
LEMMA CountHolds == ASSUME Inv, ReadCount PROVE Inv'
<1> USE DEF Inv
<1>0. pc \in Reading /\ getPacketLength > 0 /\ start + 24 <= BufferLength
  BY Complete DEF ReadCount, Reading, InPacket, Has
<1>1. CASE Has(offset, Width)
  <2>1. /\ UNCHANGED <<stream, arrived, pos, extended, declared, records, elements,
                       start, group, results>>
        /\ left' = Short(offset) /\ offset' = offset + Width /\ pc' = "element"
        /\ group <= Len(sizes)
    BY <1>1 DEF ReadCount
  <2>2. Short(offset) \in Nat /\ Width \in Nat
    BY <1>1, ShortRead DEF Width, TypeOK
  <2>3. group \in 1..4
    BY <2>1 DEF ReadCount, InPacket, sizes
  <2> QED
    BY <1>0, <2>1, <2>2, <2>3, ReadingHolds DEF Reading, TypeOK
<1>2. CASE ~Has(offset, Width)
  BY <1>0, <1>2, NullTyped, SettleHolds DEF ReadCount
<1> QED
  BY <1>1, <1>2

\* An element of a group.
LEMMA ElementHolds == ASSUME Inv, ReadElement PROVE Inv'
<1> USE DEF Inv
<1>0. pc \in Reading /\ getPacketLength > 0 /\ start + 24 <= BufferLength
  BY Complete DEF ReadElement, Reading, InPacket, Has
<1> DEFINE size == sizes[group]
<1>1. CASE Has(offset, Width + size)
  <2>1. /\ UNCHANGED <<stream, arrived, pos, pc, extended, declared, records,
                       start, group, results>>
        /\ elements' = Append(elements, [id |-> Short(offset), value |-> UInt(offset + Width, size)])
        /\ offset' = offset + Width + size
        /\ left' = left - 1 /\ left > 0
    BY <1>1 DEF ReadElement
  <2>2. group \in 1..4 /\ size \in {1, 2, 4, 8} /\ Width \in {1, 2}
    BY DEF ReadElement, InPacket, sizes, Width
  <2>3. Has(offset, Width) /\ Has(offset + Width, size) /\ offset + Width \in Nat
    BY <1>1, <2>2 DEF Has, BufferLength, TypeOK
  <2>4. Short(offset) \in Nat /\ UInt(offset + Width, size) \in Seq(Nat)
    BY <2>2, <2>3, ShortRead, UIntRead DEF TypeOK
  <2>5. elements' \in Seq(IOElement)
    BY <2>1, <2>4, AppendTyped DEF IOElement, TypeOK
  <2>6. offset' \in Nat /\ left' \in Nat
    BY <2>1, <2>2 DEF TypeOK
  <2> QED
    BY <1>0, <2>1, <2>2, <2>5, <2>6, ReadingHolds DEF Reading, TypeOK, ReadElement
<1>2. CASE ~Has(offset, Width + size)
  BY <1>0, <1>2, NullTyped, SettleHolds DEF ReadElement
<1> QED
  BY <1>1, <1>2

\* There are four groups.
LEMMA NextGroupHolds == ASSUME Inv, NextGroup PROVE Inv'
<1> USE DEF Inv
<1>0. pc \in Reading /\ getPacketLength > 0 /\ start + 24 <= BufferLength
  BY Complete DEF NextGroup, Reading, InPacket, Has
<1>1. group \in 1..4
  BY DEF NextGroup, InPacket
<1>2. group' \in 1..5 /\ group' \in 0..5 /\ pc' = "count"
  BY <1>1 DEF NextGroup
<1> QED
  BY <1>0, <1>2, ReadingHolds DEF NextGroup, Reading, TypeOK

\* The number of elements of variable length.
LEMMA NxCountHolds == ASSUME Inv, ReadNxCount PROVE Inv'
<1> USE DEF Inv
<1>0. pc \in Reading /\ getPacketLength > 0 /\ start + 24 <= BufferLength
  BY Complete DEF ReadNxCount, Reading, InPacket, Has
<1>1. CASE Has(offset, 2)
  <2>1. U16(offset) \in Nat
    BY <1>1, WordRead DEF TypeOK
  <2>2. /\ UNCHANGED <<stream, arrived, pos, extended, declared, records, elements,
                       start, group, results>>
        /\ left' = U16(offset) /\ offset' = offset + 2 /\ pc' = "skip"
    BY <1>1 DEF ReadNxCount
  <2> QED
    BY <1>0, <2>1, <2>2, ReadingHolds DEF Reading, TypeOK
<1>2. CASE ~Has(offset, 2)
  BY <1>0, <1>2, NullTyped, SettleHolds DEF ReadNxCount
<1> QED
  BY <1>1, <1>2

\* One of them.
LEMMA SkipHolds == ASSUME Inv, SkipNx PROVE Inv'
<1> USE DEF Inv
<1>0. pc \in Reading /\ getPacketLength > 0 /\ start + 24 <= BufferLength
  BY Complete DEF SkipNx, Reading, InPacket, Has
<1>1. CASE Has(offset + 2, 2)
  <2>1. U16(offset + 2) \in Nat
    BY <1>1, WordRead DEF TypeOK
  <2>2. /\ UNCHANGED <<stream, arrived, pos, pc, extended, declared, records, elements,
                       start, group, results>>
        /\ left' = left - 1 /\ left > 0 /\ offset' = offset + 4 + U16(offset + 2)
        /\ pc = "skip"
    BY <1>1 DEF SkipNx
  <2>3. offset' \in Nat /\ left' \in Nat
    BY <2>1, <2>2 DEF TypeOK
  <2> QED
    BY <1>0, <2>2, <2>3, ReadingHolds DEF Reading, TypeOK
<1>2. CASE ~Has(offset + 2, 2)
  BY <1>0, <1>2, NullTyped, SettleHolds DEF SkipNx
<1> QED
  BY <1>1, <1>2

\* What a record is made of lies in the buffer.
LEMMA EndRecordHolds == ASSUME Inv, EndRecord PROVE Inv'
<1> USE DEF Inv
<1>0. pc \in Reading /\ getPacketLength > 0 /\ start + 24 <= BufferLength
  BY Complete DEF EndRecord, Reading, InPacket, Has
<1>1. /\ Has(start, 8) /\ Has(start + 8, 1) /\ Has(start + 9, 15)
      /\ start \in Nat /\ start + 8 \in Nat /\ start + 9 \in Nat
  BY <1>0 DEF Has, BufferLength, TypeOK
<1>2. UInt(start, 8) \in Seq(Nat) /\ U8(start + 8) \in Nat /\ GpsAt(start + 9) \in GPSData
  <2>1. UInt(start, 8) \in Seq(Nat)
    BY <1>1, UIntRead
  <2>2. U8(start + 8) \in Nat
    BY <1>1, ByteRead
  <2>3. GpsAt(start + 9) \in GPSData
    BY <1>1, PositionRead
  <2> QED
    BY <2>1, <2>2, <2>3
<1>3. records' \in Seq(AVLRecord)
  BY <1>2, AppendTyped DEF EndRecord, AVLRecord, TypeOK
<1>4. pc' = "record"
  BY DEF EndRecord
<1> QED
  BY <1>0, <1>3, <1>4, ReadingHolds DEF EndRecord, Reading, TypeOK

\* The end of a packet.
LEMMA TrailerHolds == ASSUME Inv, ParseTrailer PROVE Inv'
<1> USE DEF Inv
<1>0. pc \in Reading /\ getPacketLength > 0
  BY Complete DEF ParseTrailer, Reading
<1> DEFINE whole == [ok |-> TRUE, records |-> records, acked |-> declared,
                     crcValid |-> U16(offset + 3) = Crc(dataField)]
<1>1. whole \in AvlParseResult
  BY DEF AvlParseResult, TypeOK
<1>2. \E result \in AvlParseResult : Settle(result)
  BY <1>1, NullTyped DEF ParseTrailer
<1> QED
  BY <1>0, <1>2, SettleHolds

\* Every step keeps the invariant.
LEMMA StepHolds == Inv /\ [Next]_vars => Inv'
<1>1. ASSUME Inv, UNCHANGED vars PROVE Inv'
  BY <1>1 DEF vars, local, Inv, TypeOK, InPacket, Aligned, BufferLength, U16, U32, Has
<1> QED
  BY <1>1, OutsideHolds, HeaderHolds, RecordHolds, CountHolds, ElementHolds, NextGroupHolds,
     NxCountHolds, SkipHolds, EndRecordHolds, TrailerHolds DEF Next
-----------------------------------------------------------------------------
\* The place the parser reads at, the buffer and the packets that are through
\* stay in step, whatever is damaged.
THEOREM InvariantHolds == Spec => []Inv
  BY InitHolds, StepHolds, PTL DEF Spec

\* The parser never reads a value that is not in the buffer, and what it returns
\* is made of numbers of the widths of the protocol.
THEOREM TypesHold == Spec => []TypeOK
  BY InvariantHolds, PTL DEF Inv

\* Whatever the bytes of a packet say of its records, the parser takes up the
\* next packet where it starts.
THEOREM AlignmentHolds == Spec => []Aligned
  BY InvariantHolds, PTL DEF Inv

-----------------------------------------------------------------------------
(* What an intact packet decodes to                                        *)

\* Sequences with the same elements are equal.
LEMMA SameSequence ==
    ASSUME NEW S, NEW s \in Seq(S), NEW t \in Seq(S), Len(s) = Len(t),
           \A j \in 1..Len(s) : s[j] = t[j]
    PROVE  s = t
  OBVIOUS

\* s is how t starts.
StartOf(s, t) == Len(s) <= Len(t) /\ \A j \in 1..Len(s) : s[j] = t[j]

\* It still is with the next element of t.
LEMMA StartGrows ==
    ASSUME NEW S, NEW s \in Seq(S), NEW t \in Seq(S), StartOf(s, t), Len(s) < Len(t)
    PROVE  StartOf(Append(s, t[Len(s) + 1]), t)
<1> DEFINE u == Append(s, t[Len(s) + 1])
<1>1. Len(s) \in Nat /\ Len(t) \in Nat
  OBVIOUS
<1>2. Len(u) = Len(s) + 1 /\ u[Len(s) + 1] = t[Len(s) + 1] /\ \A j \in 1..Len(s) : u[j] = s[j]
  OBVIOUS
<1> HIDE DEF u
<1>3. \A j \in 1..Len(u) : j \in 1..Len(s) \/ j = Len(s) + 1
  BY <1>1, <1>2
<1>4. StartOf(u, t)
  BY <1>1, <1>2, <1>3 DEF StartOf
<1> QED
  BY <1>4 DEF u

\* A set of natural numbers has a least element.
LEMMA LeastNatural ==
    ASSUME NEW S, S \subseteq Nat, S # {}
    PROVE  \E n \in S : \A m \in S : n <= m
<1> DEFINE R == OpToRel(<, Nat)
<1>1. IsWellFoundedOn(R, Nat)
  BY NatLessThanWellFounded
<1>2. PICK n \in S : \A m \in S : <<m, n>> \notin R
  <2> HIDE DEF R
  <2> QED
    BY <1>1, WFMin
<1>3. ASSUME NEW m \in S PROVE n <= m
  <2>1. m \in Nat /\ n \in Nat
    OBVIOUS
  <2>2. m < n => <<m, n>> \in R
    BY <2>1 DEF OpToRel
  <2>3. ~(m < n)
    BY <1>2, <2>2
  <2> HIDE DEF R
  <2> QED
    BY <2>1, <2>3
<1> HIDE DEF R
<1> QED
  BY <1>3

\* Of some places in a sequence one is the last.
LEMMA LastPlace ==
    ASSUME NEW n \in Nat, NEW S, S \subseteq 1..n, S # {}
    PROVE  \E i \in S : \A j \in S : j <= i
<1> DEFINE T == {n - i : i \in S}
<1>1. T \subseteq Nat /\ T # {}
  <2>1. ASSUME NEW i \in S PROVE n - i \in Nat
    <3>1. i \in 1..n
      OBVIOUS
    <3> QED
      BY <3>1
  <2> QED
    BY <2>1
<1>2. PICK m \in T : \A k \in T : m <= k
  <2> HIDE DEF T
  <2> QED
    BY <1>1, LeastNatural
<1>3. PICK i \in S : m = n - i
  BY <1>2
<1>4. ASSUME NEW j \in S PROVE j <= i
  <2>1. i \in 1..n /\ j \in 1..n
    OBVIOUS
  <2>2. m <= n - j
    BY <1>2
  <2> HIDE DEF T
  <2> QED
    BY <1>3, <2>1, <2>2
<1> HIDE DEF T
<1> QED
  BY <1>4

\* recordToTelemetry gives the structured values of a record.
LEMMA TelemetryOf ==
    ASSUME NEW elems \in Seq(IOElement), NEW telemetry, Describes(telemetry, elems)
    PROVE  recordToTelemetry(elems) = telemetry
<1> DEFINE At(id) == {i \in DOMAIN elems : elems[i].id = id}
           Last(id) == CHOOSE i \in At(id) : \A j \in At(id) : j <= i
           ids == {x \in BasicFields \cup CanFields : At(x) # {}}
<1>1. ids = {elems[i].id : i \in DOMAIN elems} \cap (BasicFields \cup CanFields)
  OBVIOUS
<1>2. telemetry = [id \in ids |-> telemetry[id]]
  BY <1>1 DEF Describes
<1>3. ASSUME NEW id \in ids PROVE telemetry[id] = parseIOValue(id, elems[Last(id)].value)
  <2>1. Len(elems) \in Nat /\ DOMAIN elems = 1..Len(elems)
    OBVIOUS
  <2>2. At(id) \subseteq 1..Len(elems) /\ At(id) # {}
    BY <2>1
  <2>3. \E i \in At(id) : \A j \in At(id) : j <= i
    <3> HIDE DEF At
    <3> QED
      BY <2>1, <2>2, LastPlace
  <2>4. Last(id) \in At(id) /\ \A j \in At(id) : j <= Last(id)
    <3> HIDE DEF At
    <3> QED
      BY <2>3
  <2> DEFINE k == Last(id)
  <2>5. k \in At(id) /\ \A j \in At(id) : j <= k
    BY <2>4
  <2> HIDE DEF Last
  <2>6. k \in DOMAIN elems /\ elems[k].id = id
    BY <2>5
  <2> HIDE DEF k
  <2>7. \A j \in DOMAIN elems : k < j => elems[j].id # id
    BY <2>1, <2>5, <2>6
  <2>8. id \in BasicFields \cup CanFields
    OBVIOUS
  <2> HIDE DEF At, ids
  <2>9. telemetry[elems[k].id] = parseIOValue(elems[k].id, elems[k].value)
    BY <2>6, <2>7, <2>8, Zenon DEF Describes
  <2> QED
    BY <2>6, <2>9 DEF k
<1>4. recordToTelemetry(elems) = [id \in ids |-> parseIOValue(id, elems[Last(id)].value)]
  BY DEF recordToTelemetry
<1> HIDE DEF ids, Last, At
<1> QED
  BY <1>2, <1>3, <1>4

-----------------------------------------------------------------------------
\* The next packet, or the one that is being read, and whether it is intact.
Current == Packets[stream][Len(results) + 1]
Expecting == Len(results) < Len(Packets[stream]) /\ Current.intact

\* The record that is being read: its place, its layout, and what it is.
Here == Current.starts[Len(records) + 1]
There == Current.starts[Len(records) + 2]
Layout == Current.layout[Len(records) + 1]
Record == Current.records[Len(records) + 1]

\* Within a record the offset is where the layout has what comes next.
InRecord ==
    /\ Len(records) < declared
    /\ pos + start = Here
    /\ StartOf(elements, Record.elements)
    /\ pc = "count" => /\ Len(elements) = Layout.first[group]
                       /\ pos + offset = Layout.group[group]
    /\ pc = "element" => /\ Layout.first[group] <= Len(elements)
                         /\ Len(elements) + left = Layout.first[group + 1]
                         /\ pos + offset = Place(Layout, Width, group, Len(elements) + 1)
    /\ pc = "skip" => /\ extended /\ Len(elements) = Len(Record.elements)
                      /\ left < Len(Layout.skip)
                      /\ pos + offset = Layout.skip[Len(Layout.skip) - left]

\* While an intact packet is read, the records and the elements so far are its
\* first ones, and the offset is where the next part of it is.
Decoding ==
    pc \in Reading /\ Expecting =>
        /\ extended = (Bytes[stream][Current.from + 9] = 142)
        /\ declared = Len(Current.records)
        /\ StartOf(records, Current.records)
        /\ pc = "record" => pos + offset = Here
        /\ pc # "record" => InRecord

Cleared == pc \notin Reading => records = <<>>
DecodingInv == Cleared /\ Decoding /\ IntactDecoded

\* The packet that is taken up next is where it starts, and has arrived.
LEMMA PacketFacts ==
    ASSUME Inv, Len(results) < Len(Packets[stream]), getPacketLength > 0,
           pc \in Reading \cup {"packet"}
    PROVE  /\ stream \in Streams /\ Len(results) + 1 \in 1..Len(Packets[stream])
           /\ pos = Current.from /\ pos \in Nat /\ arrived \in Nat
           /\ U32(4) \in Nat /\ Current.to = pos + 12 + U32(4)
           /\ Current.to \in Nat /\ Current.to <= arrived
<1>1. /\ stream \in Streams /\ Len(Packets[stream]) \in Nat /\ Framed(stream)
      /\ Len(Bytes[stream]) \in Nat
  BY StreamFacts DEF Inv, TypeOK
<1>2. Len(results) + 1 \in 1..Len(Packets[stream])
  BY <1>1 DEF Inv, TypeOK
<1>3. pos = Current.from
  BY DEF Inv, Aligned, Reading, Current
<1>4. pos \in Nat /\ arrived \in Nat
  BY <1>1 DEF Inv, TypeOK
<1>5. BufferLength >= 12 /\ Has(0, 12 + U32(4))
  BY PacketLength DEF Inv
<1>6. U32(4) \in Nat
  <2>1. 4 \in Nat /\ Has(4, 4)
    BY <1>4, <1>5 DEF Has, BufferLength
  <2> QED
    BY <2>1, LongRead DEF Inv
<1>7. Current.to = Current.from + 12 + Long(Bytes[stream], Current.from + 4)
  BY <1>1, <1>2 DEF Framed, Current
<1>8. Current.to = pos + 12 + U32(4)
  BY <1>3, <1>7 DEF U32
<1> QED
  BY <1>1, <1>2, <1>3, <1>4, <1>5, <1>6, <1>8 DEF Has, BufferLength

\* What the format says of it, when it is intact.
LEMMA IntactFacts ==
    ASSUME Inv, Expecting, getPacketLength > 0, pc \in Reading \cup {"packet"}
    PROVE  PacketEncoded(Bytes[stream], Current, Crc(dataField))
<1>1. Current.to - 4 = pos + 8 + U32(4)
  BY PacketFacts DEF Expecting
<1>2. dataField = SubSeq(Bytes[stream], Current.from + 9, Current.to - 4)
  BY <1>1, PacketFacts DEF dataField, Expecting
<1>3. PacketEncoded(Bytes[stream], Current,
                    Crc(SubSeq(Bytes[stream], Current.from + 9, Current.to - 4)))
  BY PacketFacts, EncodingAssumption DEF EncodingAssumption, Current, Expecting
<1> QED
  BY <1>2, <1>3

\* What it says of one of its records.
LEMMA RecordFacts ==
    ASSUME Inv, Expecting, Decoding, pc \in Reading, Len(records) < declared
    PROVE  /\ RecordEncoded(Bytes[stream], Width, Layout, Here, There, Record)
           /\ Record \in AVLRecord
           /\ Here \in Nat /\ There \in Nat /\ There <= arrived
           /\ Len(records) + 1 \in 1..Len(Current.records)
<1> DEFINE n == Len(Current.records)
           j == Len(records) + 1
<1>0. getPacketLength > 0
  BY Complete
<1>1. PacketEncoded(Bytes[stream], Current, Crc(dataField))
  BY <1>0, IntactFacts
<1>2. /\ extended = (Bytes[stream][Current.from + 9] = 142) /\ declared = n
  BY DEF Decoding
<1>3. Current.records \in Seq(AVLRecord) /\ n \in Nat
  BY <1>1 DEF PacketEncoded
<1>4. j \in 1..n
  BY <1>2, <1>3 DEF Inv, TypeOK
<1>5. (IF Bytes[stream][Current.from + 9] = 142 THEN 2 ELSE 1) = Width
  BY <1>2 DEF Width
<1>6. RecordEncoded(Bytes[stream], Width, Current.layout[j], Current.starts[j],
                    Current.starts[j + 1], Current.records[j])
  BY <1>1, <1>4, <1>5 DEF PacketEncoded
<1>7. Current.starts \in Seq(Current.from..Current.to) /\ Len(Current.starts) = n + 1
  BY <1>1 DEF PacketEncoded
<1>8. Current.starts[j] \in Current.from..Current.to /\ Current.starts[j + 1] \in Current.from..Current.to
  <2>1. j \in 1..Len(Current.starts) /\ j + 1 \in 1..Len(Current.starts)
    BY <1>3, <1>4, <1>7
  <2> HIDE DEF j
  <2> QED
    BY <1>7, <2>1, ElementOf
<1>9. Current.records[j] \in AVLRecord
  BY <1>3, <1>4, ElementOf
<1>10. j + 1 = Len(records) + 2
  BY DEF Inv, TypeOK
<1>11. Current.from \in Nat /\ Current.to \in Nat /\ Current.to <= arrived /\ arrived \in Nat
  BY <1>0, PacketFacts DEF Expecting
<1> QED
  BY <1>4, <1>6, <1>8, <1>9, <1>10, <1>11 DEF Here, There, Layout, Record

\* Products with a number that is not negative.
LEMMA Products ==
    ASSUME NEW c \in Nat, NEW x \in Nat, NEW y \in Nat, x <= y
    PROVE  x * c \in Nat /\ x * c <= y * c /\ (x + 1) * c = x * c + c
<1>1. x * c \in Nat /\ (x + 1) * c = x * c + c
  OBVIOUS
<1>2. y - x \in Nat /\ (y - x) * c \in Nat
  OBVIOUS
<1>3. y * c = x * c + (y - x) * c
  OBVIOUS
<1> QED
  BY <1>1, <1>2, <1>3

\* The elements of a group lie one after the other.
LEMMA PlaceFacts ==
    ASSUME NEW l, NEW w \in {1, 2}, NEW k \in 1..4, l.group[k] \in Nat, l.first[k] \in Nat,
           NEW m \in Nat, NEW n \in Nat, l.first[k] <= m, m <= n
    PROVE  /\ Place(l, w, k, m + 1) \in Nat
           /\ m = l.first[k] => Place(l, w, k, m + 1) = l.group[k] + w
           /\ l.group[k] + w <= Place(l, w, k, m + 1)
           /\ Place(l, w, k, m + 1) <= Place(l, w, k, n + 1)
           /\ Place(l, w, k, m + 2) = Place(l, w, k, m + 1) + w + sizes[k]
<1> DEFINE a == l.group[k]
           b == l.first[k]
           c == w + sizes[k]
           x == m - b
           y == n - b
<1>1. c \in Nat /\ sizes[k] \in Nat
  BY DEF sizes
<1>2. /\ Place(l, w, k, m + 1) = a + w + (m + 1 - 1 - b) * c
      /\ Place(l, w, k, m + 2) = a + w + (m + 2 - 1 - b) * c
      /\ Place(l, w, k, n + 1) = a + w + (n + 1 - 1 - b) * c
  BY DEF Place
<1>3. a \in Nat /\ b \in Nat /\ b <= m
  OBVIOUS
<1> HIDE DEF a, b, c
<1>4. x \in Nat /\ y \in Nat /\ x <= y /\ m + 1 - 1 - b = x /\ m + 2 - 1 - b = x + 1 /\ n + 1 - 1 - b = y
  BY <1>3
<1> HIDE DEF x, y
<1>5. x * c \in Nat /\ x * c <= y * c /\ (x + 1) * c = x * c + c /\ y * c \in Nat
  BY <1>1, <1>4, Products
<1> DEFINE u == x * c
           v == y * c
           z == (x + 1) * c
<1>6. /\ Place(l, w, k, m + 1) = a + w + u /\ Place(l, w, k, m + 2) = a + w + z
      /\ Place(l, w, k, n + 1) = a + w + v
  BY <1>2, <1>4
<1>7. u \in Nat /\ v \in Nat /\ u <= v /\ z = u + c
  BY <1>5
<1>8. m = b => u = 0
  <2>1. m = b => x = 0
    BY <1>3 DEF x
  <2>2. x = 0 => u = 0
    BY <1>1
  <2> QED
    BY <2>1, <2>2
<1> HIDE DEF u, v, z
<1> QED
  BY <1>1, <1>3, <1>6, <1>7, <1>8 DEF a, b, c

\* The counts and the elements of a record lie within the packet.
LEMMA GroupFacts ==
    ASSUME Inv, Expecting, Decoding, pc \in Reading, Len(records) < declared, NEW k \in 1..4
    PROVE  /\ Width \in {1, 2}
           /\ Layout.first[k] \in Nat /\ Layout.first[k + 1] \in Nat
           /\ Layout.first[k] <= Layout.first[k + 1]
           /\ Layout.group[k] \in Nat /\ Layout.group[k + 1] \in Nat
           /\ GroupEncoded(Bytes[stream], Width, Layout, Record.elements, k)
           /\ Layout.group[k] + Width <= Layout.group[k + 1]
           /\ Layout.group[k + 1] <= arrived
<1>1. RecordEncoded(Bytes[stream], Width, Layout, Here, There, Record)
  BY RecordFacts
<1>2. Here \in Nat /\ There \in Nat /\ There <= arrived /\ arrived \in Nat
  BY RecordFacts, StreamFacts DEF Inv, TypeOK
<1>3. Layout.group \in [1..5 -> Here..There] /\ Layout.first \in [1..5 -> Nat]
  BY <1>1 DEF RecordEncoded
<1>4. k \in 1..5 /\ k + 1 \in 1..5
  OBVIOUS
<1>5. Layout.group[k] \in Here..There /\ Layout.group[k + 1] \in Here..There
  BY <1>3, <1>4
<1>6. Layout.first[k] \in Nat /\ Layout.first[k + 1] \in Nat
  BY <1>3, <1>4
<1>7. GroupEncoded(Bytes[stream], Width, Layout, Record.elements, k)
  BY <1>1 DEF RecordEncoded
<1>8. /\ Layout.first[k] <= Layout.first[k + 1]
      /\ Layout.group[k + 1] = Place(Layout, Width, k, Layout.first[k + 1] + 1)
  BY <1>7 DEF GroupEncoded
<1>9. Width \in {1, 2}
  BY DEF Width
<1>10. Layout.group[k] \in Nat /\ Layout.group[k + 1] \in Nat /\ Layout.group[k + 1] <= arrived
  BY <1>2, <1>5
<1>11. Layout.group[k] + Width <= Layout.group[k + 1]
  <2> DEFINE l == Layout
             w == Width
             n == l.first[k + 1]
  <2>1. /\ l.group[k] \in Nat /\ l.first[k] \in Nat /\ n \in Nat /\ w \in {1, 2}
        /\ l.first[k] <= n /\ l.group[k + 1] = Place(l, w, k, n + 1)
    BY <1>6, <1>8, <1>9, <1>10
  <2> HIDE DEF l, w, n
  <2>2. n <= n
    BY <2>1
  <2>3. l.group[k] + w <= Place(l, w, k, n + 1)
    BY <2>1, <2>2, PlaceFacts, Zenon
  <2> QED
    BY <2>1, <2>3 DEF l, w
<1> QED
  BY <1>6, <1>7, <1>8, <1>9, <1>10, <1>11

-----------------------------------------------------------------------------
\* What a step that reads on leaves as it is.
LEMMA ReadsOn ==
    ASSUME DecodingInv, pc' \in Reading, UNCHANGED <<stream, pos, results>>, Decoding'
    PROVE  DecodingInv'
<1>1. Cleared'
  BY DEF Cleared
<1>2. IntactDecoded'
  BY DEF DecodingInv, IntactDecoded, Telemetry
<1> QED
  BY <1>1, <1>2 DEF DecodingInv

\* A step within a record is right when it leads to what the layout has next.
LEMMA ReadsRecord ==
    ASSUME DecodingInv, pc \in Reading, pc' \in Reading \ {"record"},
           UNCHANGED <<stream, pos, extended, declared, records, results>>,
           Expecting => InRecord'
    PROVE  DecodingInv'
<1>1. Current' = Current /\ Expecting' = Expecting
  BY DEF Current, Expecting
<1>2. Decoding'
  BY <1>1 DEF DecodingInv, Decoding, Reading
<1> QED
  BY <1>2, ReadsOn

\* The same record is being read.
LEMMA SameRecord ==
    ASSUME UNCHANGED <<stream, records, results>>
    PROVE  Here' = Here /\ There' = There /\ Layout' = Layout /\ Record' = Record
  BY DEF Here, There, Layout, Record, Current

\* The end of a packet is right when the result is what its sender encoded.
Right(result) ==
    /\ result.ok /\ result.crcValid
    /\ result.records = Current.records
    /\ result.acked = Len(Current.records)

\* The result of an intact packet joins those before it, with its telemetry.
LEMMA SettleDecoded ==
    ASSUME Inv, DecodingInv, getPacketLength > 0, pc \in Reading \cup {"packet"},
           NEW result \in AvlParseResult, Settle(result), Expecting => Right(result)
    PROVE  DecodingInv'
<1> DEFINE n == Len(results)
<1>1. pc' = "packet" /\ records' = <<>> /\ stream' = stream /\ results' = Append(results, result)
  BY DEF Settle
<1>2. Cleared' /\ Decoding'
  BY <1>1 DEF Cleared, Decoding, Reading
<1>3. results \in Seq(AvlParseResult) /\ n \in Nat
  BY DEF Inv, TypeOK
<1>4. /\ DOMAIN results' = 1..n + 1 /\ DOMAIN results = 1..n
      /\ results'[n + 1] = result /\ \A i \in 1..n : results'[i] = results[i]
  BY <1>1, <1>3
<1>5. stream \in Streams /\ DOMAIN Packets[stream] = 1..Len(Packets[stream])
      /\ Len(Packets[stream]) \in Nat
  BY StreamsAssumption DEF StreamsAssumption, Inv, TypeOK
<1>6. ASSUME NEW i \in DOMAIN results' \cap DOMAIN Packets[stream], Packets[stream][i].intact
      PROVE  /\ results'[i].ok /\ results'[i].crcValid
             /\ results'[i].records = Packets[stream][i].records
             /\ results'[i].acked = Len(Packets[stream][i].records)
             /\ Telemetry(i)' = Packets[stream][i].telemetry
  <2>1. CASE i \in 1..n
    <3>1. results'[i] = results[i] /\ i \in DOMAIN results
      BY <1>4, <2>1
    <3>2. Telemetry(i)' = Telemetry(i)
      BY <3>1 DEF Telemetry
    <3> QED
      BY <1>6, <3>1, <3>2 DEF DecodingInv, IntactDecoded
  <2>2. CASE i \notin 1..n
    <3>1. i = n + 1
      BY <1>3, <1>4, <2>2
    <3>2. n < Len(Packets[stream])
      BY <1>3, <1>5, <3>1
    <3>3. Current = Packets[stream][i] /\ Expecting
      BY <1>6, <3>1, <3>2 DEF Current, Expecting
    <3>4. results'[i] = result
      BY <1>4, <3>1
    <3>5. Right(result)
      BY <3>3
    <3>6. PacketEncoded(Bytes[stream], Current, Crc(dataField))
      BY <3>3, IntactFacts
    <3> DEFINE recs == Current.records
               told == Current.telemetry
    <3>7. /\ recs \in Seq(AVLRecord) /\ told = [j \in 1..Len(recs) |-> told[j]]
          /\ \A j \in 1..Len(recs) : Describes(told[j], recs[j].elements)
      BY <3>6 DEF PacketEncoded
    <3> HIDE DEF recs, told
    <3>8. DOMAIN recs = 1..Len(recs)
      BY <3>7
    <3>9. ASSUME NEW j \in 1..Len(recs) PROVE recordToTelemetry(recs[j].elements) = told[j]
      <4>1. recs[j] \in AVLRecord
        BY <3>7, ElementOf
      <4>2. recs[j].elements \in Seq(IOElement)
        BY <4>1 DEF AVLRecord
      <4> QED
        BY <3>7, <4>2, TelemetryOf
    <3>10. Telemetry(i)' = [j \in 1..Len(recs) |-> recordToTelemetry(recs[j].elements)]
      BY <3>4, <3>5, <3>8 DEF Telemetry, Right, recs
    <3>11. Telemetry(i)' = told
      BY <3>7, <3>9, <3>10
    <3> QED
      BY <3>3, <3>4, <3>5, <3>11 DEF Right, told
  <2> QED
    BY <2>1, <2>2
<1>7. IntactDecoded'
  BY <1>1, <1>6 DEF IntactDecoded
<1> QED
  BY <1>2, <1>7 DEF DecodingInv

\* The header of an intact packet.
LEMMA HeaderDecoded == ASSUME Inv, DecodingInv, ParseHeader PROVE DecodingInv'
<1>0. pc = "packet" /\ getPacketLength > 0 /\ pc \in Reading \cup {"packet"}
  BY DEF ParseHeader
<1>1. CASE U8(8) \in {8, 142}
  <2>1. /\ UNCHANGED <<stream, pos, records, results>> /\ pc' = "record"
        /\ extended' = (U8(8) = 142) /\ declared' = U8(9) /\ offset' = 10
    BY <1>1 DEF ParseHeader
  <2>2. records = <<>>
    BY <1>0 DEF DecodingInv, Cleared, Reading
  <2>3. ASSUME Expecting
        PROVE  /\ extended' = (Bytes[stream][Current.from + 9] = 142)
               /\ declared' = Len(Current.records)
               /\ StartOf(records, Current.records)
               /\ pos + 10 = Here
    <3>1. PacketEncoded(Bytes[stream], Current, Crc(dataField))
      BY <1>0, <2>3, IntactFacts
    <3>2. pos = Current.from /\ pos \in Nat
      BY <1>0, <2>3, PacketFacts DEF Expecting
    <3>3. U8(8) = Bytes[stream][Current.from + 9] /\ U8(9) = Bytes[stream][Current.from + 10]
      BY <3>2 DEF U8
    <3>4. /\ Bytes[stream][Current.from + 10] = Len(Current.records) /\ Len(Current.records) \in Nat
          /\ Current.starts[1] = Current.from + 10
      BY <3>1 DEF PacketEncoded
    <3>5. Len(records) = 0
      BY <2>2
    <3>6. StartOf(records, Current.records)
      BY <3>4, <3>5 DEF StartOf
    <3>7. Here = Current.starts[1]
      BY <3>5 DEF Here
    <3> QED
      BY <2>1, <3>2, <3>3, <3>4, <3>6, <3>7
  <2>4. Current' = Current /\ Expecting' = Expecting /\ Here' = Here
    BY <2>1 DEF Current, Expecting, Here
  <2>5. Decoding'
    BY <2>1, <2>3, <2>4 DEF Decoding
  <2> QED
    BY <2>1, <2>5, ReadsOn DEF Reading
<1>2. CASE ~(U8(8) \in {8, 142})
  <2>1. Settle(Null)
    BY <1>2 DEF ParseHeader
  <2>2. ~Expecting
    <3> SUFFICES ASSUME Expecting PROVE FALSE
      OBVIOUS
    <3>1. PacketEncoded(Bytes[stream], Current, Crc(dataField))
      BY <1>0, IntactFacts
    <3>2. pos = Current.from /\ pos \in Nat
      BY <1>0, PacketFacts DEF Expecting
    <3>3. U8(8) = Bytes[stream][Current.from + 9]
      BY <3>2 DEF U8
    <3>4. Bytes[stream][Current.from + 9] \in {8, 142}
      BY <3>1 DEF PacketEncoded
    <3> QED
      BY <1>2, <3>3, <3>4
  <2> QED
    BY <1>0, <2>1, <2>2, NullTyped, SettleDecoded
<1> QED
  BY <1>1, <1>2

\* The fixed part of a record.
LEMMA RecordDecoded == ASSUME Inv, DecodingInv, ParseRecord PROVE DecodingInv'
<1>0. pc = "record" /\ pc \in Reading /\ getPacketLength > 0 /\ Len(records) < declared
  BY Complete DEF ParseRecord, Reading
<1>1. Decoding
  BY DEF DecodingInv
<1>2. ASSUME Expecting
      PROVE  /\ Has(offset, 24) /\ pos + offset = Here
             /\ Layout.group[1] = Here + 24 + 2 * Width /\ Layout.first[1] = 0
  <2>1. pos + offset = Here
    BY <1>0, <1>1, <1>2 DEF Decoding
  <2>2. RecordEncoded(Bytes[stream], Width, Layout, Here, There, Record)
    BY <1>0, <1>1, <1>2, RecordFacts
  <2>3. Layout.group[1] = Here + 24 + 2 * Width /\ Layout.first[1] = 0
    BY <2>2 DEF RecordEncoded
  <2>4. /\ Layout.group[1] \in Nat /\ Layout.group[2] \in Nat /\ Layout.group[1] + Width <= Layout.group[2]
        /\ Layout.group[2] <= arrived
    BY <1>0, <1>1, <1>2, GroupFacts
  <2>5. Width \in {1, 2}
    BY DEF Width
  <2>6. pos \in Nat /\ offset \in Nat /\ arrived \in Nat
    BY StreamFacts DEF Inv, TypeOK
  <2>7. pos + offset + 24 <= arrived
    BY <2>1, <2>3, <2>4, <2>5, <2>6
  <2> QED
    BY <2>1, <2>3, <2>6, <2>7 DEF Has, BufferLength
<1>3. CASE Has(offset, 24)
  <2>1. /\ UNCHANGED <<stream, pos, extended, declared, records, results>> /\ pc' = "count"
        /\ start' = offset /\ offset' = offset + 24 + 2 * Width /\ elements' = <<>> /\ group' = 1
    BY <1>3 DEF ParseRecord
  <2>2. ASSUME Expecting PROVE InRecord'
    <3>1. Here' = Here /\ Layout' = Layout /\ Record' = Record
      BY <2>1, SameRecord
    <3>2. Record \in AVLRecord
      BY <1>0, <1>1, <2>2, RecordFacts
    <3>3. Len(Record.elements) \in Nat
      BY <3>2 DEF AVLRecord
    <3>4. Len(elements') = 0
      BY <2>1
    <3>5. StartOf(elements', Record.elements)
      BY <3>3, <3>4 DEF StartOf
    <3>6. pos + offset' = Layout.group[1]
      <4>1. pos \in Nat /\ offset \in Nat /\ Width \in {1, 2} /\ Here \in Nat
        BY <1>0, <1>1, <2>2, RecordFacts DEF Inv, TypeOK, Width
      <4> QED
        BY <1>2, <2>1, <2>2, <4>1
    <3>7. pos + start' = Here
      BY <1>2, <2>1, <2>2
    <3> QED
      BY <1>0, <1>2, <2>1, <2>2, <3>1, <3>4, <3>5, <3>6, <3>7 DEF InRecord
  <2> QED
    BY <1>0, <2>1, <2>2, ReadsRecord DEF Reading
<1>4. CASE ~Has(offset, 24)
  <2>1. Settle(Null) /\ ~Expecting
    BY <1>2, <1>4 DEF ParseRecord
  <2> QED
    BY <1>0, <2>1, NullTyped, SettleDecoded
<1> QED
  BY <1>3, <1>4

\* A field that the parser reads is the field at its place.
LEMMA ShortIs ==
    ASSUME Inv, NEW o \in Nat
    PROVE  Short(o) = Field(Bytes[stream], pos + o, Width)
  BY DEF Short, Field, U16, U8, Width, Inv, TypeOK

\* What the parser knows inside a record of an intact packet.
LEMMA InsideFacts ==
    ASSUME Inv, DecodingInv, Expecting, pc \in Reading \ {"record"}
    PROVE  /\ InRecord /\ Decoding /\ Len(records) < declared
           /\ pos \in Nat /\ offset \in Nat /\ arrived \in Nat /\ left \in Nat
           /\ elements \in Seq(IOElement) /\ Len(elements) \in Nat
           /\ Record.elements \in Seq(IOElement)
           /\ Len(Record.elements) \in Nat
           /\ Width \in {1, 2}
<1>1. InRecord /\ Decoding /\ Len(records) < declared
  BY DEF DecodingInv, Decoding, InRecord
<1>2. Record \in AVLRecord
  BY <1>1, RecordFacts
<1>3. Record.elements \in Seq(IOElement)
  BY <1>2 DEF AVLRecord
<1>4. /\ pos \in Nat /\ offset \in Nat /\ arrived \in Nat /\ left \in Nat
      /\ elements \in Seq(IOElement)
  BY StreamFacts DEF Inv, TypeOK
<1> QED
  BY <1>1, <1>3, <1>4 DEF Width

\* The count of a group.
LEMMA CountDecoded == ASSUME Inv, DecodingInv, ReadCount PROVE DecodingInv'
<1>0. /\ pc = "count" /\ pc \in Reading \ {"record"} /\ pc \in Reading \cup {"packet"}
      /\ getPacketLength > 0
  BY Complete DEF ReadCount, Reading
<1>1. group \in 1..4
  BY <1>0 DEF ReadCount, Inv, InPacket, sizes
<1>2. ASSUME Expecting
      PROVE  /\ Has(offset, Width)
             /\ pos + offset = Layout.group[group] /\ Len(elements) = Layout.first[group]
             /\ Short(offset) = Layout.first[group + 1] - Layout.first[group]
             /\ Layout.group[group] + Width = Place(Layout, Width, group, Len(elements) + 1)
             /\ Layout.first[group] \in Nat /\ Layout.first[group + 1] \in Nat
             /\ Layout.first[group] <= Layout.first[group + 1]
  <2> DEFINE l == Layout
             k == group
             m == Len(elements)
             w == Width
  <2>1. pos + offset = l.group[k] /\ m = l.first[k]
    BY <1>0, <1>2, InsideFacts DEF InRecord
  <2>2. /\ pos \in Nat /\ offset \in Nat /\ arrived \in Nat /\ m \in Nat /\ w \in {1, 2}
    BY <1>0, <1>2, InsideFacts
  <2>3. /\ l.first[k] \in Nat /\ l.first[k + 1] \in Nat /\ l.first[k] <= l.first[k + 1]
        /\ l.group[k] \in Nat /\ l.group[k + 1] \in Nat
        /\ l.group[k] + w <= l.group[k + 1] /\ l.group[k + 1] <= arrived
        /\ GroupEncoded(Bytes[stream], w, l, Record.elements, k)
    BY <1>0, <1>1, <1>2, InsideFacts, GroupFacts
  <2>4. Short(offset) = l.first[k + 1] - l.first[k]
    <3>1. Short(offset) = Field(Bytes[stream], pos + offset, w)
      BY <2>2, ShortIs
    <3>2. Field(Bytes[stream], l.group[k], w) = l.first[k + 1] - l.first[k]
      BY <2>3 DEF GroupEncoded
    <3> QED
      BY <2>1, <3>1, <3>2
  <2>5. l.group[k] + w = Place(l, w, k, m + 1)
    <3>1. /\ l.group[k] \in Nat /\ l.first[k] \in Nat /\ m \in Nat /\ w \in {1, 2} /\ k \in 1..4
          /\ l.first[k] <= m /\ m <= m
      BY <1>1, <2>1, <2>2, <2>3
    <3> HIDE DEF l, k, m, w
    <3>2. m = l.first[k] => Place(l, w, k, m + 1) = l.group[k] + w
      BY <3>1, PlaceFacts, Zenon
    <3> QED
      BY <2>1, <3>2
  <2>6. Has(offset, w)
    BY <2>1, <2>2, <2>3 DEF Has, BufferLength
  <2> QED
    BY <2>1, <2>3, <2>4, <2>5, <2>6
<1>3. CASE Has(offset, Width)
  <2>1. /\ UNCHANGED <<stream, pos, extended, declared, records, elements, start, group, results>>
        /\ pc' = "element" /\ left' = Short(offset) /\ offset' = offset + Width
    BY <1>3 DEF ReadCount
  <2>2. ASSUME Expecting PROVE InRecord'
    <3>1. Here' = Here /\ Layout' = Layout /\ Record' = Record /\ Width' = Width
      BY <2>1, SameRecord DEF Width
    <3>2. InRecord /\ pos \in Nat /\ offset \in Nat /\ Width \in {1, 2}
      BY <1>0, <2>2, InsideFacts
    <3>3. pos + offset' = Place(Layout, Width, group, Len(elements) + 1)
      BY <1>2, <2>1, <2>2, <3>2
    <3>4. Len(elements) + left' = Layout.first[group + 1] /\ Layout.first[group] <= Len(elements)
      BY <1>2, <2>1, <2>2
    <3> QED
      BY <2>1, <3>1, <3>2, <3>3, <3>4 DEF InRecord
  <2> QED
    BY <1>0, <2>1, <2>2, ReadsRecord DEF Reading
<1>4. CASE ~Has(offset, Width)
  <2>1. Settle(Null) /\ ~Expecting
    BY <1>2, <1>4 DEF ReadCount
  <2> QED
    BY <1>0, <2>1, NullTyped, SettleDecoded
<1> QED
  BY <1>3, <1>4

\* The elements of all groups are those of the record.
LEMMA GroupsWithin ==
    ASSUME Inv, DecodingInv, Expecting, pc \in Reading \ {"record"}, NEW k \in 1..4
    PROVE  Layout.first[k + 1] <= Len(Record.elements)
<1>1. InRecord /\ Decoding /\ Len(records) < declared
  BY InsideFacts
<1>2. RecordEncoded(Bytes[stream], Width, Layout, Here, There, Record)
  BY <1>1, RecordFacts
<1>3. Layout.first[5] = Len(Record.elements)
  BY <1>2 DEF RecordEncoded
<1>4. \A i \in 1..4 : /\ Layout.first[i] \in Nat /\ Layout.first[i + 1] \in Nat
                      /\ Layout.first[i] <= Layout.first[i + 1]
  BY <1>1, GroupFacts
<1>5. /\ Layout.first[2] <= Layout.first[3] /\ Layout.first[3] <= Layout.first[4]
      /\ Layout.first[4] <= Layout.first[5]
      /\ Layout.first[2] \in Nat /\ Layout.first[3] \in Nat /\ Layout.first[4] \in Nat /\ Layout.first[5] \in Nat
  <2>1. 2 \in 1..4 /\ 3 \in 1..4 /\ 4 \in 1..4 /\ 2 + 1 = 3 /\ 3 + 1 = 4 /\ 4 + 1 = 5
    OBVIOUS
  <2> QED
    BY <1>4, <2>1
<1>6. k + 1 \in {2, 3, 4, 5}
  OBVIOUS
<1> QED
  BY <1>3, <1>5, <1>6

\* An element of a group.
LEMMA ElementDecoded == ASSUME Inv, DecodingInv, ReadElement PROVE DecodingInv'
<1> DEFINE e == [id |-> Short(offset), value |-> UInt(offset + Width, sizes[group])]
<1>0. /\ pc = "element" /\ pc \in Reading \ {"record"} /\ pc \in Reading \cup {"packet"}
      /\ getPacketLength > 0 /\ left > 0
  BY Complete DEF ReadElement, Reading
<1>1. group \in 1..4
  BY <1>0 DEF Inv, InPacket
<1>2. ASSUME Expecting
      PROVE  /\ Has(offset, Width + sizes[group])
             /\ e = Record.elements[Len(elements) + 1]
             /\ Len(elements) < Len(Record.elements)
             /\ pos + (offset + Width + sizes[group]) = Place(Layout, Width, group, Len(elements) + 2)
             /\ Layout.first[group] <= Len(elements)
             /\ Len(elements) + left = Layout.first[group + 1]
  <2> DEFINE l == Layout
             k == group
             m == Len(elements)
             w == Width
             n == l.first[k + 1]
             z == sizes[k]
  <2>1. pos + offset = Place(l, w, k, m + 1) /\ l.first[k] <= m /\ m + left = n
    BY <1>0, <1>2, InsideFacts DEF InRecord
  <2>2. /\ pos \in Nat /\ offset \in Nat /\ arrived \in Nat /\ m \in Nat /\ w \in {1, 2} /\ left \in Nat
    BY <1>0, <1>2, InsideFacts
  <2>3. /\ l.first[k] \in Nat /\ n \in Nat
        /\ l.group[k] \in Nat /\ l.group[k + 1] \in Nat /\ l.group[k + 1] <= arrived
        /\ GroupEncoded(Bytes[stream], w, l, Record.elements, k)
    BY <1>0, <1>1, <1>2, InsideFacts, GroupFacts
  <2>4. m + 1 \in l.first[k] + 1 .. n /\ m + 1 <= n /\ m <= n /\ z \in {1, 2, 4, 8} /\ k \in 1..4
    BY <1>0, <1>1, <2>1, <2>2, <2>3 DEF sizes
  <2>5. Place(l, w, k, m + 2) = Place(l, w, k, m + 1) + w + z
    <3>1. /\ l.group[k] \in Nat /\ l.first[k] \in Nat /\ m \in Nat /\ w \in {1, 2} /\ k \in 1..4
          /\ l.first[k] <= m /\ m <= m
      BY <2>1, <2>2, <2>3, <2>4
    <3> HIDE DEF l, k, m, w
    <3>2. Place(l, w, k, m + 2) = Place(l, w, k, m + 1) + w + sizes[k]
      BY <3>1, PlaceFacts, Zenon
    <3> QED
      BY <3>2 DEF z
  <2>6. Place(l, w, k, m + 2) <= l.group[k + 1]
    <3>1. l.group[k + 1] = Place(l, w, k, n + 1)
      BY <2>3 DEF GroupEncoded
    <3> DEFINE j == m + 1
    <3>2. j \in Nat /\ j <= n /\ l.first[k] <= j /\ j + 1 = m + 2
      BY <2>1, <2>2, <2>3, <2>4
    <3> HIDE DEF l, k, m, w, n, j
    <3>3. Place(l, w, k, j + 1) <= Place(l, w, k, n + 1)
      BY <2>2, <2>3, <2>4, <3>2, PlaceFacts, Zenon
    <3> QED
      BY <3>1, <3>2, <3>3
  <2>7. Has(offset, w + z) /\ pos + (offset + w + z) = Place(l, w, k, m + 2)
    <3> HIDE DEF l, k, m, w, n, z
    <3> QED
      BY <2>1, <2>2, <2>3, <2>4, <2>5, <2>6 DEF Has, BufferLength
  <2>8. e = Record.elements[m + 1]
    <3>1. Record.elements[m + 1] =
            [id |-> Field(Bytes[stream], Place(l, w, k, m + 1), w),
             value |-> Words(Bytes[stream], Place(l, w, k, m + 1) + w, z)]
      BY <2>3, <2>4 DEF GroupEncoded
    <3>2. Short(offset) = Field(Bytes[stream], pos + offset, w)
      BY <2>2, ShortIs
    <3>3. UInt(offset + w, z) = Words(Bytes[stream], pos + offset + w, z)
      <4>1. pos + (offset + w) = pos + offset + w
        BY <2>2
      <4> QED
        BY <4>1 DEF UInt
    <3> QED
      BY <2>1, <3>1, <3>2, <3>3
  <2>9. m < Len(Record.elements)
    <3>1. n <= Len(Record.elements) /\ Len(Record.elements) \in Nat
      BY <1>0, <1>1, <1>2, GroupsWithin, InsideFacts
    <3> QED
      BY <2>2, <2>3, <2>4, <3>1
  <2> QED
    BY <2>1, <2>7, <2>8, <2>9
<1>3. CASE Has(offset, Width + sizes[group])
  <2>1. /\ UNCHANGED <<stream, pos, pc, extended, declared, records, start, group, results>>
        /\ elements' = Append(elements, e)
        /\ offset' = offset + Width + sizes[group] /\ left' = left - 1
    BY <1>3 DEF ReadElement
  <2>2. ASSUME Expecting PROVE InRecord'
    <3>1. Here' = Here /\ Layout' = Layout /\ Record' = Record /\ Width' = Width
      BY <2>1, SameRecord DEF Width
    <3>2. /\ InRecord /\ elements \in Seq(IOElement) /\ Record.elements \in Seq(IOElement)
          /\ Len(elements) \in Nat /\ left \in Nat
      BY <1>0, <2>2, InsideFacts
    <3>3. StartOf(elements', Record.elements)
      <4>1. StartOf(elements, Record.elements)
        BY <3>2 DEF InRecord
      <4> HIDE DEF e
      <4> QED
        BY <1>2, <2>1, <2>2, <3>2, <4>1, StartGrows
    <3>4. Len(elements') = Len(elements) + 1
      <4> HIDE DEF e
      <4> QED
        BY <2>1, <3>2
    <3>5. pos + offset' = Place(Layout, Width, group, Len(elements') + 1)
      <4>1. Len(elements') + 1 = Len(elements) + 2
        BY <3>2, <3>4
      <4> QED
        BY <1>2, <2>1, <2>2, <4>1
    <3>6. /\ Layout.first[group] <= Len(elements') /\ Len(elements') + left' = Layout.first[group + 1]
      <4>1. Layout.first[group] \in Nat
        BY <1>0, <1>1, <2>2, InsideFacts, GroupFacts
      <4>2. Layout.first[group] <= Len(elements) /\ Len(elements) + left = Layout.first[group + 1]
        BY <1>2, <2>2
      <4> HIDE DEF e
      <4> QED
        BY <2>1, <3>2, <3>4, <4>1, <4>2
    <3> HIDE DEF e
    <3> QED
      BY <1>0, <2>1, <3>1, <3>2, <3>3, <3>5, <3>6 DEF InRecord
  <2> QED
    BY <1>0, <2>1, <2>2, ReadsRecord
<1>4. CASE ~Has(offset, Width + sizes[group])
  <2>1. Settle(Null) /\ ~Expecting
    BY <1>2, <1>4 DEF ReadElement
  <2> QED
    BY <1>0, <2>1, NullTyped, SettleDecoded
<1> QED
  BY <1>3, <1>4

\* The next group starts where the last element of this one ends.
LEMMA NextGroupDecoded == ASSUME Inv, DecodingInv, NextGroup PROVE DecodingInv'
<1>0. /\ pc = "element" /\ pc \in Reading \ {"record"} /\ left = 0 /\ pc' = "count" /\ group' = group + 1
      /\ UNCHANGED <<stream, pos, offset, extended, declared, records, elements, start, results>>
  BY DEF NextGroup, Reading
<1>1. group \in 1..4
  BY <1>0 DEF Inv, InPacket
<1>2. ASSUME Expecting PROVE InRecord'
  <2>1. Here' = Here /\ Layout' = Layout /\ Record' = Record /\ Width' = Width
    BY <1>0, SameRecord DEF Width
  <2>2. InRecord /\ Len(elements) \in Nat
    BY <1>0, <1>2, InsideFacts
  <2>3. Len(elements) = Layout.first[group + 1]
    BY <1>0, <2>2 DEF InRecord
  <2>4. pos + offset = Layout.group[group + 1]
    <3>1. GroupEncoded(Bytes[stream], Width, Layout, Record.elements, group)
      BY <1>0, <1>1, <1>2, InsideFacts, GroupFacts
    <3>2. pos + offset = Place(Layout, Width, group, Len(elements) + 1)
      BY <1>0, <2>2 DEF InRecord
    <3> QED
      BY <2>3, <3>1, <3>2 DEF GroupEncoded
  <2> QED
    BY <1>0, <2>1, <2>2, <2>3, <2>4 DEF InRecord
<1> QED
  BY <1>0, <1>2, ReadsRecord DEF Reading

\* What the format says of the elements of variable length.
LEMMA VariableFacts ==
    ASSUME Inv, DecodingInv, Expecting, pc \in Reading \ {"record"}
    PROVE  /\ Layout.first[5] = Len(Record.elements)
           /\ ~extended => There = Layout.group[5]
           /\ extended => /\ VariableEncoded(Bytes[stream], Layout)
                          /\ There = Layout.skip[Len(Layout.skip)]
                          /\ Len(Layout.skip) \in Nat \ {0}
                          /\ \A i \in 1..Len(Layout.skip) :
                                 Layout.skip[i] \in Nat /\ Layout.skip[i] <= arrived
<1>1. InRecord /\ Decoding /\ Len(records) < declared
  BY InsideFacts
<1>2. RecordEncoded(Bytes[stream], Width, Layout, Here, There, Record)
  BY <1>1, RecordFacts
<1>3. Here \in Nat /\ There \in Nat /\ There <= arrived /\ arrived \in Nat
  BY <1>1, RecordFacts, InsideFacts
<1>4. Layout.skip \in Seq(Here..There)
  BY <1>2 DEF RecordEncoded
<1>5. \A i \in 1..Len(Layout.skip) : Layout.skip[i] \in Here..There
  BY <1>4, ElementOf
<1>6. Len(Layout.skip) \in Nat
  BY <1>4
<1>7. ASSUME extended
      PROVE  /\ VariableEncoded(Bytes[stream], Layout) /\ There = Layout.skip[Len(Layout.skip)]
             /\ Len(Layout.skip) >= 1
  <2>1. Width = 2
    BY <1>7 DEF Width
  <2>2. VariableEncoded(Bytes[stream], Layout) /\ There = Layout.skip[Len(Layout.skip)]
    BY <1>2, <2>1 DEF RecordEncoded
  <2> QED
    BY <2>2 DEF VariableEncoded
<1>8. ~extended => There = Layout.group[5]
  BY <1>2 DEF RecordEncoded, Width
<1>9. Layout.first[5] = Len(Record.elements)
  BY <1>2 DEF RecordEncoded
<1> QED
  BY <1>3, <1>5, <1>6, <1>7, <1>8, <1>9

\* Their number.
LEMMA NxCountDecoded == ASSUME Inv, DecodingInv, ReadNxCount PROVE DecodingInv'
<1>0. /\ pc = "count" /\ pc \in Reading \ {"record"} /\ pc \in Reading \cup {"packet"}
      /\ getPacketLength > 0 /\ extended
  BY Complete DEF ReadNxCount, Reading
<1>1. group = 5
  <2>1. group \in 1..5 /\ group > 4
    BY <1>0 DEF ReadNxCount, Inv, InPacket, sizes
  <2> QED
    BY <2>1
<1>2. ASSUME Expecting
      PROVE  /\ Has(offset, 2) /\ U16(offset) = Len(Layout.skip) - 1
             /\ pos + (offset + 2) = Layout.skip[1]
             /\ Len(elements) = Len(Record.elements) /\ Len(Layout.skip) \in Nat \ {0}
  <2>1. pos + offset = Layout.group[5] /\ Len(elements) = Layout.first[5]
    BY <1>0, <1>1, <1>2, InsideFacts DEF InRecord
  <2>2. VariableEncoded(Bytes[stream], Layout) /\ Len(Layout.skip) \in Nat \ {0}
    BY <1>0, <1>2, VariableFacts
  <2>3. /\ Word(Bytes[stream], Layout.group[5]) = Len(Layout.skip) - 1
        /\ Layout.skip[1] = Layout.group[5] + 2
    BY <2>2 DEF VariableEncoded
  <2>4. 1 \in 1..Len(Layout.skip)
    BY <2>2
  <2>5. Layout.skip[1] \in Nat /\ Layout.skip[1] <= arrived
    BY <1>0, <1>2, <2>4, VariableFacts
  <2>6. pos \in Nat /\ offset \in Nat /\ arrived \in Nat
    BY <1>0, <1>2, InsideFacts
  <2>7. Layout.first[5] = Len(Record.elements)
    BY <1>0, <1>2, VariableFacts
  <2>8. Has(offset, 2) /\ pos + (offset + 2) = Layout.skip[1]
    BY <2>1, <2>3, <2>5, <2>6 DEF Has, BufferLength
  <2> QED
    BY <2>1, <2>2, <2>3, <2>7, <2>8 DEF U16
<1>3. CASE Has(offset, 2)
  <2>1. /\ UNCHANGED <<stream, pos, extended, declared, records, elements, start, group, results>>
        /\ pc' = "skip" /\ left' = U16(offset) /\ offset' = offset + 2
    BY <1>3 DEF ReadNxCount
  <2>2. ASSUME Expecting PROVE InRecord'
    <3>1. Here' = Here /\ Layout' = Layout /\ Record' = Record
      BY <2>1, SameRecord
    <3>2. InRecord
      BY <1>0, <2>2, InsideFacts
    <3>3. left' < Len(Layout.skip) /\ Len(Layout.skip) - left' = 1
      BY <1>2, <2>1, <2>2
    <3> QED
      BY <1>0, <1>2, <2>1, <2>2, <3>1, <3>2, <3>3 DEF InRecord
  <2> QED
    BY <1>0, <2>1, <2>2, ReadsRecord DEF Reading
<1>4. CASE ~Has(offset, 2)
  <2>1. Settle(Null) /\ ~Expecting
    BY <1>2, <1>4 DEF ReadNxCount
  <2> QED
    BY <1>0, <2>1, NullTyped, SettleDecoded
<1> QED
  BY <1>3, <1>4

\* One of them.
LEMMA SkipDecoded == ASSUME Inv, DecodingInv, SkipNx PROVE DecodingInv'
<1>0. /\ pc = "skip" /\ pc \in Reading \ {"record"} /\ pc \in Reading \cup {"packet"}
      /\ getPacketLength > 0 /\ left > 0
  BY Complete DEF SkipNx, Reading
<1> DEFINE n == Len(Layout.skip)
           i == n - left
<1>1. ASSUME Expecting
      PROVE  /\ extended /\ Has(offset + 2, 2) /\ n \in Nat /\ left < n
             /\ pos + (offset + 4 + U16(offset + 2)) = Layout.skip[n - (left - 1)]
  <2>1. InRecord /\ pos \in Nat /\ offset \in Nat /\ arrived \in Nat /\ left \in Nat
    BY <1>0, <1>1, InsideFacts
  <2>2. extended /\ left < n /\ pos + offset = Layout.skip[i]
    BY <1>0, <2>1 DEF InRecord
  <2>3. n \in Nat \ {0} /\ VariableEncoded(Bytes[stream], Layout)
    BY <1>0, <1>1, <2>2, VariableFacts
  <2>4. i \in 1..n - 1 /\ i \in 1..n /\ i + 1 \in 1..n /\ n - (left - 1) = i + 1
    BY <1>0, <2>1, <2>2, <2>3
  <2>5. /\ Layout.skip[i] + 4 <= Layout.skip[i + 1]
        /\ Word(Bytes[stream], Layout.skip[i] + 2) = Layout.skip[i + 1] - (Layout.skip[i] + 4)
    BY <2>3, <2>4 DEF VariableEncoded
  <2>6. Layout.skip[i + 1] \in Nat /\ Layout.skip[i + 1] <= arrived /\ Layout.skip[i] \in Nat
    BY <1>0, <1>1, <2>2, <2>4, VariableFacts
  <2> HIDE DEF n, i
  <2>7. Has(offset + 2, 2)
    BY <2>1, <2>2, <2>5, <2>6 DEF Has, BufferLength
  <2>8. U16(offset + 2) = Layout.skip[i + 1] - (Layout.skip[i] + 4)
    <3>1. pos + (offset + 2) = Layout.skip[i] + 2
      BY <2>1, <2>2
    <3> QED
      BY <2>5, <3>1 DEF U16
  <2>9. pos + (offset + 4 + U16(offset + 2)) = Layout.skip[i + 1]
    BY <2>1, <2>2, <2>6, <2>8
  <2> QED
    BY <2>2, <2>3, <2>4, <2>7, <2>9
<1>2. CASE Has(offset + 2, 2)
  <2>1. /\ UNCHANGED <<stream, pos, pc, extended, declared, records, elements, start, group, results>>
        /\ left' = left - 1 /\ offset' = offset + 4 + U16(offset + 2)
    BY <1>2 DEF SkipNx
  <2>2. ASSUME Expecting PROVE InRecord'
    <3>1. Here' = Here /\ Layout' = Layout /\ Record' = Record
      BY <2>1, SameRecord
    <3>2. InRecord /\ left \in Nat
      BY <1>0, <2>2, InsideFacts
    <3>3. left' < Len(Layout.skip)
      BY <1>1, <2>1, <2>2, <3>2
    <3> QED
      BY <1>0, <1>1, <2>1, <2>2, <3>1, <3>2, <3>3 DEF InRecord
  <2> QED
    BY <1>0, <2>1, <2>2, ReadsRecord
<1>3. CASE ~Has(offset + 2, 2)
  <2>1. Settle(Null) /\ ~Expecting
    BY <1>1, <1>3 DEF SkipNx
  <2> QED
    BY <1>0, <2>1, NullTyped, SettleDecoded
<1> QED
  BY <1>2, <1>3

\* The end of a record: what was read of it is the record.
LEMMA EndDecoded == ASSUME Inv, DecodingInv, EndRecord PROVE DecodingInv'
<1> DEFINE r == [timestamp |-> UInt(start, 8), priority |-> U8(start + 8),
                 gps |-> GpsAt(start + 9), elements |-> elements]
<1>0. /\ pc \in {"count", "skip"} /\ pc \in Reading \ {"record"}
      /\ pc' = "record" /\ records' = Append(records, r)
      /\ UNCHANGED <<stream, pos, offset, extended, declared, results>>
  BY DEF EndRecord, Reading
<1>1. Len(records) \in Nat /\ records \in Seq(AVLRecord)
  BY DEF Inv, TypeOK
<1>2. ASSUME Expecting
      PROVE  r = Record /\ pos + offset = There
  <2>1. /\ InRecord /\ Decoding /\ Len(records) < declared
        /\ elements \in Seq(IOElement) /\ Record.elements \in Seq(IOElement)
        /\ pos \in Nat /\ start \in Nat /\ left \in Nat
    BY <1>0, <1>2, InsideFacts DEF Inv, TypeOK
  <2>2. /\ Layout.first[5] = Len(Record.elements)
        /\ ~extended => There = Layout.group[5]
        /\ extended => There = Layout.skip[Len(Layout.skip)] /\ Len(Layout.skip) \in Nat
    BY <1>0, <1>2, VariableFacts
  <2>3. pc = "count" => group = 5 /\ ~extended
    <3>1. pc = "count" => group \in 1..5 /\ group > 4
      BY DEF EndRecord, Inv, InPacket, sizes
    <3>2. pc = "count" => ~extended
      BY DEF EndRecord
    <3> QED
      BY <3>1, <3>2
  <2>4. pc = "skip" => left = 0 /\ extended
    BY <2>1 DEF EndRecord, InRecord
  <2>5. pos + offset = There /\ Len(elements) = Len(Record.elements)
    <3>1. CASE pc = "count"
      BY <2>1, <2>2, <2>3, <3>1 DEF InRecord
    <3>2. CASE pc = "skip"
      <4>1. Len(Layout.skip) - left = Len(Layout.skip)
        BY <2>2, <2>4, <3>2
      <4> QED
        BY <2>1, <2>2, <2>4, <3>2, <4>1 DEF InRecord
    <3> QED
      BY <1>0, <3>1, <3>2
  <2>6. elements = Record.elements
    <3>1. StartOf(elements, Record.elements)
      BY <2>1 DEF InRecord
    <3> QED
      BY <2>1, <2>5, <3>1, SameSequence DEF StartOf
  <2>7. RecordEncoded(Bytes[stream], Width, Layout, Here, There, Record) /\ Record \in AVLRecord
    BY <1>0, <1>2, <2>1, RecordFacts
  <2>8. pos + start = Here
    BY <2>1 DEF InRecord
  <2>9. UInt(start, 8) = Record.timestamp
    BY <2>7, <2>8 DEF RecordEncoded, UInt
  <2>10. U8(start + 8) = Record.priority
    <3>1. pos + (start + 8) + 1 = Here + 9
      BY <2>1, <2>8
    <3> QED
      BY <2>7, <3>1 DEF RecordEncoded, U8
  <2>11. GpsAt(start + 9) = Record.gps
    <3>1. pos + (start + 9) = Here + 9
      BY <2>1, <2>8
    <3> QED
      BY <2>7, <3>1 DEF RecordEncoded, GpsAt
  <2>12. Record = [timestamp |-> Record.timestamp, priority |-> Record.priority,
                   gps |-> Record.gps, elements |-> Record.elements]
    BY <2>7 DEF AVLRecord
  <2> QED
    BY <2>5, <2>6, <2>9, <2>10, <2>11, <2>12
<1>3. Current' = Current /\ Expecting' = Expecting
  BY <1>0 DEF Current, Expecting
<1> HIDE DEF r
<1>4. ASSUME Expecting PROVE StartOf(records', Current.records) /\ pos + offset = Here'
  <2>1. Decoding /\ Len(records) < declared
    BY <1>0, <1>4, InsideFacts
  <2>2. PacketEncoded(Bytes[stream], Current, Crc(dataField))
    BY <1>0, <1>4, Complete, IntactFacts
  <2>3. Current.records \in Seq(AVLRecord)
    BY <2>2 DEF PacketEncoded
  <2>4. StartOf(records, Current.records) /\ Len(records) < Len(Current.records)
    BY <1>0, <1>4, <2>1 DEF Decoding
  <2>5. records' = Append(records, Current.records[Len(records) + 1])
    BY <1>0, <1>2, <1>4 DEF Record
  <2>6. StartOf(records', Current.records)
    BY <1>1, <2>3, <2>4, <2>5, StartGrows
  <2>7. Len(records') + 1 = Len(records) + 2
    BY <1>0, <1>1
  <2>8. Here' = There
    BY <1>3, <2>7 DEF Here, There
  <2> QED
    BY <1>2, <1>4, <2>6, <2>8
<1>5. Decoding'
  <2> SUFFICES ASSUME Expecting
               PROVE  /\ extended' = (Bytes[stream][Current.from + 9] = 142)
                      /\ declared' = Len(Current.records)
                      /\ StartOf(records', Current.records)
                      /\ pos' + offset' = Here'
    BY <1>0, <1>3 DEF Decoding
  <2>1. Decoding
    BY DEF DecodingInv
  <2>2. extended = (Bytes[stream][Current.from + 9] = 142) /\ declared = Len(Current.records)
    BY <1>0, <2>1 DEF Decoding
  <2> QED
    BY <1>0, <1>4, <2>2
<1> QED
  BY <1>0, <1>5, ReadsOn DEF Reading

\* The end of the packet: the result is what its sender encoded.
LEMMA TrailerDecoded == ASSUME Inv, DecodingInv, ParseTrailer PROVE DecodingInv'
<1> DEFINE whole == [ok |-> TRUE, records |-> records, acked |-> declared,
                     crcValid |-> U16(offset + 3) = Crc(dataField)]
<1>0. /\ pc = "record" /\ pc \in Reading /\ pc \in Reading \cup {"packet"}
      /\ getPacketLength > 0 /\ Len(records) = declared
  BY Complete DEF ParseTrailer, Reading
<1>1. whole \in AvlParseResult
  BY DEF AvlParseResult, Inv, TypeOK
<1>2. ASSUME Expecting PROVE Has(offset, 5) /\ Right(whole)
  <2>1. /\ declared = Len(Current.records) /\ StartOf(records, Current.records)
        /\ pos + offset = Current.starts[Len(records) + 1]
    BY <1>0, <1>2 DEF DecodingInv, Decoding, Here
  <2>2. PacketEncoded(Bytes[stream], Current, Crc(dataField))
    BY <1>0, <1>2, IntactFacts
  <2> DEFINE last == Current.starts[Len(Current.records) + 1]
  <2>3. /\ Current.records \in Seq(AVLRecord) /\ last + 5 = Current.to
        /\ Word(Bytes[stream], last + 3) = Crc(dataField)
    BY <2>2 DEF PacketEncoded
  <2>4. pos + offset = last
    BY <1>0, <2>1
  <2> HIDE DEF last
  <2>5. pos \in Nat /\ offset \in Nat /\ arrived \in Nat /\ Current.to \in Nat /\ Current.to <= arrived
    BY <1>0, <1>2, PacketFacts DEF Expecting, Inv, TypeOK
  <2>6. Has(offset, 5)
    BY <2>3, <2>4, <2>5 DEF Has, BufferLength
  <2>7. U16(offset + 3) = Crc(dataField)
    <3>1. pos + (offset + 3) = last + 3
      BY <2>4, <2>5
    <3> QED
      BY <2>3, <3>1 DEF U16
  <2>8. records = Current.records
    <3>1. records \in Seq(AVLRecord)
      BY DEF Inv, TypeOK
    <3> QED
      BY <1>0, <2>1, <2>3, <3>1, SameSequence DEF StartOf
  <2> QED
    BY <2>1, <2>6, <2>7, <2>8 DEF Right
<1> HIDE DEF whole
<1>3. \E result \in AvlParseResult : Settle(result) /\ (Expecting => Right(result))
  <2>1. CASE Has(offset, 5)
    <3>1. Settle(whole)
      BY <2>1 DEF ParseTrailer, whole
    <3> QED
      BY <1>1, <1>2, <3>1
  <2>2. CASE ~Has(offset, 5)
    <3>1. Settle(Null)
      BY <2>2 DEF ParseTrailer
    <3> QED
      BY <1>2, <2>2, <3>1, NullTyped
  <2> QED
    BY <2>1, <2>2
<1> QED
  BY <1>0, <1>3, SettleDecoded

\* What happens between packets decodes nothing.
LEMMA OutsideDecoded ==
    ASSUME Inv, DecodingInv, Receive \/ ParseImei \/ ClearBuffer
    PROVE  DecodingInv'
<1>1. /\ pc \notin Reading /\ pc' \notin Reading /\ UNCHANGED <<stream, records, results>>
  BY DEF Receive, ParseImei, ClearBuffer, Reading, local
<1>2. Cleared' /\ Decoding'
  BY <1>1 DEF DecodingInv, Cleared, Decoding
<1>3. IntactDecoded'
  BY <1>1 DEF DecodingInv, IntactDecoded, Telemetry
<1> QED
  BY <1>2, <1>3 DEF DecodingInv

\* Nothing is decoded at the start.
LEMMA InitDecoded == Init => DecodingInv
<1> SUFFICES ASSUME Init PROVE DecodingInv
  OBVIOUS
<1>1. pc \notin Reading /\ records = <<>> /\ results = <<>>
  BY DEF Init, Reading
<1>2. DOMAIN results = {}
  BY <1>1
<1> QED
  BY <1>1, <1>2 DEF DecodingInv, Cleared, Decoding, IntactDecoded

\* Every step keeps it.
LEMMA StepDecoded == Inv /\ DecodingInv /\ [Next]_vars => DecodingInv'
<1>1. ASSUME Inv, DecodingInv, UNCHANGED vars PROVE DecodingInv'
  <2>1. UNCHANGED <<stream, arrived, pos, pc, offset, extended, declared, records, elements,
                    start, group, left, results>>
    BY <1>1 DEF vars, local
  <2>2. /\ Current' = Current /\ Expecting' = Expecting /\ Width' = Width
        /\ Here' = Here /\ Layout' = Layout /\ Record' = Record
    BY <2>1, SameRecord DEF Current, Expecting, Width
  <2>3. Cleared' /\ IntactDecoded'
    BY <1>1, <2>1 DEF DecodingInv, Cleared, IntactDecoded, Telemetry
  <2>4. InRecord' = InRecord
    BY <2>1, <2>2 DEF InRecord
  <2>5. Decoding'
    BY <1>1, <2>1, <2>2, <2>4 DEF DecodingInv, Decoding
  <2> QED
    BY <2>3, <2>5 DEF DecodingInv
<1> QED
  BY <1>1, OutsideDecoded, HeaderDecoded, RecordDecoded, CountDecoded, ElementDecoded,
     NextGroupDecoded, NxCountDecoded, SkipDecoded, EndDecoded, TrailerDecoded DEF Next

\* Every intact packet is decoded into exactly what its sender encoded, wherever
\* the chunks end and whatever the damaged packet before it was misread into.
THEOREM IntactIsDecoded == Spec => []IntactDecoded
<1>1. Inv /\ DecodingInv /\ [Next]_vars => Inv' /\ DecodingInv'
  BY StepHolds, StepDecoded
<1> QED
  BY <1>1, InitHolds, InitDecoded, PTL DEF Spec, DecodingInv
=============================================================================
