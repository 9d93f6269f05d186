------------------------------- MODULE AvlFormat -------------------------------
(***************************************************************************)
(* Codec 8 and Codec 8 Extended as a relation between bytes and what their *)
(* sender encoded in them, for positions in a sequence of bytes.  Nothing  *)
(* here reads one byte after the other: a layout says where each part is.  *)
(*                                                                         *)
(* A layout of a packet is a sequence of positions, its starts: where each *)
(* record starts and where the last one ends; and a layout of each record: *)
(*   group: where the count of each group of IO elements is, group[5] being*)
(*          where the elements of variable length start;                   *)
(*   first: how many elements are in the groups before each;               *)
(*   skip:  where each element of variable length is, and where they end.  *)
(***************************************************************************)
EXTENDS IoElements

GPSData == [longitude : Int, latitude : Int, altitude : Int, angle : Int,
            satellites : Int, speed : Int, isValid : BOOLEAN]
IOElement == [id : Nat, value : Seq(Nat)]
AVLRecord == [timestamp : Seq(Nat), priority : Nat, gps : GPSData, elements : Seq(IOElement)]

sizes == <<1, 2, 4, 8>>

\* Numbers of two and four bytes after the first p bytes, with and without sign.
Word(bytes, p) == bytes[p + 1] * 256 + bytes[p + 2]
Long(bytes, p) == Word(bytes, p) * 65536 + Word(bytes, p + 2)
SignedWord(bytes, p) ==
    IF bytes[p + 1] < 128 THEN Word(bytes, p) ELSE Word(bytes, p) - 65536
SignedLong(bytes, p) == SignedWord(bytes, p) * 65536 + Word(bytes, p + 2)

\* An unsigned number of n bytes, as its words of 16 bits.
Words(bytes, p, n) ==
    IF n = 1 THEN <<bytes[p + 1]>> ELSE [i \in 1..n \div 2 |-> Word(bytes, p + 2 * (i - 1))]

\* A count or an id, of w bytes.
Field(bytes, p, w) == IF w = 2 THEN Word(bytes, p) ELSE bytes[p + 1]

Gps(bytes, p) ==
    [longitude |-> SignedLong(bytes, p), latitude |-> SignedLong(bytes, p + 4),
     altitude |-> SignedWord(bytes, p + 8), angle |-> Word(bytes, p + 10),
     satellites |-> bytes[p + 13], speed |-> Word(bytes, p + 13),
     isValid |-> bytes[p + 13] >= 3 /\ (SignedLong(bytes, p) # 0 \/ SignedLong(bytes, p + 4) # 0)]

-----------------------------------------------------------------------------
\* Where element number m of a record is, when it belongs to group k.
Place(l, w, k, m) == l.group[k] + w + (m - 1 - l.first[k]) * (w + sizes[k])

\* Group k: its count, its elements, each an id and a value, one after the other.
GroupEncoded(bytes, w, l, elements, k) ==
    /\ Field(bytes, l.group[k], w) = l.first[k + 1] - l.first[k]
    /\ \A m \in l.first[k] + 1 .. l.first[k + 1] :
           LET p == Place(l, w, k, m) IN
           elements[m] = [id |-> Field(bytes, p, w), value |-> Words(bytes, p + w, sizes[k])]
    /\ l.first[k] <= l.first[k + 1]
    /\ l.group[k + 1] = Place(l, w, k, l.first[k + 1] + 1)

\* The elements of variable length, which Codec 8 does not have: their number, and
\* for each an id of two bytes, a length of two bytes, and the bytes.
VariableEncoded(bytes, l) ==
    /\ Len(l.skip) >= 1
    /\ Word(bytes, l.group[5]) = Len(l.skip) - 1
    /\ l.skip[1] = l.group[5] + 2
    /\ \A i \in 1..Len(l.skip) - 1 :
           /\ l.skip[i] + 4 <= l.skip[i + 1]
           /\ Word(bytes, l.skip[i] + 2) = l.skip[i + 1] - (l.skip[i] + 4)

\* The bytes from here to there are the record r.
RecordEncoded(bytes, w, l, here, there, r) ==
    /\ l.group \in [1..5 -> here..there] /\ l.first \in [1..5 -> Nat] /\ l.skip \in Seq(here..there)
    /\ Words(bytes, here, 8) = r.timestamp
    /\ bytes[here + 9] = r.priority
    /\ Gps(bytes, here + 9) = r.gps
    /\ l.group[1] = here + 24 + 2 * w
    /\ l.first[1] = 0 /\ l.first[5] = Len(r.elements)
    /\ \A k \in 1..4 : GroupEncoded(bytes, w, l, r.elements, k)
    /\ IF w = 2 THEN VariableEncoded(bytes, l) /\ there = l.skip[Len(l.skip)]
                ELSE there = l.group[5]

\* The structured values of the elements of a record: the last element of an id
\* counts.
Describes(telemetry, elements) ==
    /\ LET ids == {elements[i].id : i \in DOMAIN elements} \cap (BasicFields \cup CanFields)
       IN telemetry = [id \in ids |-> telemetry[id]]
    /\ \A i \in DOMAIN elements :
           /\ elements[i].id \in BasicFields \cup CanFields
           /\ \A j \in DOMAIN elements : i < j => elements[j].id # elements[i].id
           => telemetry[elements[i].id] = parseIOValue(elements[i].id, elements[i].value)

\* The bytes from p.from to p.to are the records of p, after the codec and their
\* number, before their number again and the checksum crc.
PacketEncoded(bytes, p, crc) ==
    LET n == Len(p.records)
        w == IF bytes[p.from + 9] = 142 THEN 2 ELSE 1
    IN  /\ bytes[p.from + 9] \in {8, 142}
        /\ p.records \in Seq(AVLRecord) /\ bytes[p.from + 10] = n
        /\ p.starts \in Seq(p.from..p.to) /\ Len(p.starts) = n + 1
        /\ p.starts[1] = p.from + 10 /\ p.starts[n + 1] + 5 = p.to
        /\ \A j \in 1..n :
               /\ RecordEncoded(bytes, w, p.layout[j], p.starts[j], p.starts[j + 1], p.records[j])
               /\ Describes(p.telemetry[j], p.records[j].elements)
        /\ p.telemetry = [j \in 1..n |-> p.telemetry[j]]
        /\ Word(bytes, p.starts[n + 1] + 3) = crc
=============================================================================
