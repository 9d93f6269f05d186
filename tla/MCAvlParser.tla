------------------------------ MODULE MCAvlParser ------------------------------
(***************************************************************************)
(* AvlParser on streams of two packets: every template with every kind of  *)
(* damage, followed by an undamaged one, cut into chunks in several ways.  *)
(***************************************************************************)
EXTENDS AvlParser, Crc16, SequencesExt

Byte(v, k) == (v \div (256^k)) % 256

\* v in n bytes, most significant first.
BE(v, n) == [i \in 1..n |-> IF n - i > 3 THEN 0 ELSE Byte(v, n - i)]

\* A negative number of 16 or 32 bits.
Neg(v, n) == [i \in 1..n |-> 255 - BE(v - 1, n)[i]]

\* The checksum as the remainder of a division, one bit at a time: the reference
\* for calculateCRC16.  The lowest bit is shifted out; when it differs from the
\* bit of the message, x^15, x^13 and 1 change.
Flip(r, k) == IF (r \div (2^k)) % 2 = 1 THEN r - 2^k ELSE r + 2^k

Remainder(data) ==
    LET Divide(r, byte) ==
            LET rem[b \in 0..8] ==
                    IF b = 0 THEN r
                    ELSE LET before == rem[b - 1]
                             shifted == before \div 2
                         IN IF (before + byte \div (2^(b - 1))) % 2 = 0 THEN shifted
                            ELSE Flip(Flip(shifted, 13), 0) + 2^15
            IN rem[8]
        crc[i \in 0..Len(data)] ==
            IF i = 0 THEN 0
            ELSE LET before == crc[i - 1]
                 IN IF before = 0 /\ data[i] = 0 THEN 0 ELSE Divide(before, data[i])
    IN crc[Len(data)]

Position(lon, lat, sats) ==
    [longitude |-> lon, latitude |-> lat, altitude |-> -5, angle |-> 270,
     satellites |-> sats, speed |-> 45, isValid |-> sats >= 3 /\ (lon # 0 \/ lat # 0)]

Signed(v, n) == IF v < 0 THEN Neg(-v, n) ELSE BE(v, n)

\* A record as its device knows it: io[k] are the elements of group k, nx the
\* lengths of its elements of variable length.
Sent(time, gps, io, nx) ==
    [timestamp |-> time, priority |-> 1, gps |-> gps, io |-> io, nx |-> nx]

Io(id, v) == [id |-> id, value |-> v]

Templates ==
    << [codec |-> 8, recs |-> << Sent(<<0, 400, 1, 0>>, Position(171910000, 447722000, 8),
            << <<Io(239, <<1>>), Io(240, <<0>>)>>, <<Io(66, <<12500>>)>>, <<>>, <<>> >>, <<>>) >>],
      [codec |-> 142, recs |-> << Sent(<<0, 400, 1, 1>>, Position(-1, 447722000, 2),
            << <<Io(274, <<90>>), Io(269, <<250>>)>>, <<Io(386, <<300>>)>>, <<Io(16, <<1, 4464>>)>>, <<>> >>,
            <<3>>) >>],
      [codec |-> 8, recs |-> << Sent(<<0, 400, 1, 2>>, Position(0, 0, 8), << <<>>, <<>>, <<>>, <<>> >>, <<>>),
                               Sent(<<0, 400, 1, 1>>, Position(171910000, 0, 3),
            << <<Io(1, <<2>>)>>, <<>>, <<>>, <<Io(78, <<0, 0, 0, 5>>)>> >>, <<>>) >>],
      [codec |-> 142, recs |-> << Sent(<<0, 400, 1, 3>>, Position(171910000, 447722000, 9),
            << <<Io(239, <<1>>)>>, <<Io(298, <<7>>), Io(239, <<0>>)>>, <<>>, <<>> >>, <<0, 2>>) >>] >>

Damages == {"none", "more", "fewer", "second", "codec", "crc", "group"}

\* The bytes of a packet, damaged; its length is that of its bytes.
Encode(p, damage) ==
    LET Raw(v, n) == IF n = 1 THEN v ELSE FlattenSeq([i \in DOMAIN v |-> BE(v[i], 2)])
        w == IF p.codec = 142 THEN 2 ELSE 1
        GpsBytes(g) == Signed(g.longitude, 4) \o Signed(g.latitude, 4) \o Signed(g.altitude, 2)
                    \o BE(g.angle, 2) \o BE(g.satellites, 1) \o BE(g.speed, 2)
        Group(io, k) ==
            BE(Len(io[k]) + (IF damage = "group" /\ k = 1 THEN 2 ELSE 0), w)
            \o FlattenSeq([i \in DOMAIN io[k] |-> BE(io[k][i].id, w) \o Raw(io[k][i].value, sizes[k])])
        Nx(nx) == IF w = 1 THEN <<>>
                  ELSE BE(Len(nx), 2)
                       \o FlattenSeq([i \in DOMAIN nx |-> BE(385, 2) \o BE(nx[i], 2)
                                                     \o [j \in 1..nx[i] |-> 0]])
        Rec(r) == Raw(r.timestamp, 8) \o BE(r.priority, 1) \o GpsBytes(r.gps) \o BE(0, w) \o BE(0, w)
                  \o FlattenSeq([k \in 1..4 |-> Group(r.io, k)]) \o Nx(r.nx)
        n == Len(p.recs)
        data == BE(IF damage = "codec" THEN 7 ELSE p.codec, 1)
                \o BE(CASE damage = "more" -> n + 1 [] damage = "fewer" -> n - 1 [] OTHER -> n, 1)
                \o FlattenSeq([i \in 1..n |-> Rec(p.recs[i])])
                \o BE(IF damage = "second" THEN n + 1 ELSE n, 1)
    IN BE(0, 4) \o BE(Len(data), 4) \o data
       \o BE((Remainder(data) + (IF damage = "crc" THEN 1 ELSE 0)) % 65536, 4)

\* The structured values the sender expects: ignition and so on, by id.
Reading(id, v) ==
    CASE id \in {1, 239, 240} -> v = <<1>>
      [] id = 274 -> Number(v, 1, 1, -40)
      [] id = 269 -> Number(v, 2, 5, 0)
      [] OTHER -> Number(v, 1, 1, 0)

Elements(r) == FlattenSeq(r.io)

Expected(r) ==
    LET es == SelectSeq(Elements(r), LAMBDA e : e.id \notin {78, 298, 386})
        ids == {es[i].id : i \in DOMAIN es}
    IN [id \in ids |-> Reading(id, SelectSeq(es, LAMBDA e : e.id = id)
                                    [Len(SelectSeq(es, LAMBDA e : e.id = id))].value)]

Login == BE(15, 2) \o [i \in 1..15 |-> 48 + (i % 10)]
Noise == [i \in 1..13 |-> 255]

\* A damaged or undamaged packet, then an undamaged one, then what may follow.
MCStreams ==
    {s \in [login : BOOLEAN, first : DOMAIN Templates, damage : Damages,
             second : DOMAIN Templates, noise : BOOLEAN] :
        s.login \/ (s.first = 1 /\ s.second = 1 /\ s.damage = "none" /\ ~s.noise)}

FirstOf == [t \in DOMAIN Templates |-> [d \in Damages |-> Encode(Templates[t], d)]]

MCBytes ==
    [s \in MCStreams |->
        IF ~s.login THEN BE(5, 2) \o [i \in 1..5 |-> 49]
        ELSE Login \o FirstOf[s.first][s.damage] \o FirstOf[s.second]["none"]
                   \o (IF s.noise THEN Noise ELSE <<>>)]

End(s) == 17 + Len(FirstOf[s.first][s.damage])

MCCuts ==
    [s \in MCStreams |->
        IF ~s.login THEN {1, 7}
        ELSE {20, End(s) - 1, End(s) + 30, Len(MCBytes[s])}]

\* Where the parts of a record are that starts here, by what its device knows.
Layout(r, w, here) ==
    LET first[k \in 1..5] == IF k = 1 THEN 0 ELSE first[k - 1] + Len(r.io[k - 1])
        groups[k \in 1..5] ==
            IF k = 1 THEN here + 24 + 2 * w
            ELSE groups[k - 1] + w + Len(r.io[k - 1]) * (w + sizes[k - 1])
        skip[i \in 1..Len(r.nx) + 1] ==
            IF i = 1 THEN groups[5] + 2 ELSE skip[i - 1] + 4 + r.nx[i - 1]
    IN [group |-> groups, first |-> first, skip |-> IF w = 2 THEN skip ELSE <<>>]

\* Where its records start when the packet does here, and where the last one ends.
Starts(t, w, here) ==
    LET begins[j \in 1..Len(t.recs) + 1] ==
            IF j = 1 THEN here + 10
            ELSE LET l == Layout(t.recs[j - 1], w, begins[j - 1])
                 IN IF w = 2 THEN l.skip[Len(l.skip)] ELSE l.group[5]
    IN begins

MCPackets ==
    LET Item(from, to, t, intact) ==
            LET w == IF t.codec = 142 THEN 2 ELSE 1
                starts == Starts(t, w, from)
            IN [from |-> from, to |-> to, intact |-> intact, starts |-> starts,
                layout |-> [i \in DOMAIN t.recs |-> Layout(t.recs[i], w, starts[i])],
                records |-> [i \in DOMAIN t.recs |->
                    [timestamp |-> t.recs[i].timestamp, priority |-> 1, gps |-> t.recs[i].gps,
                     elements |-> Elements(t.recs[i])]],
                telemetry |-> [i \in DOMAIN t.recs |-> Expected(t.recs[i])]]
    IN [s \in MCStreams |->
           IF ~s.login THEN <<>>
           ELSE << Item(17, End(s), Templates[s.first], s.damage = "none"),
                   Item(End(s), End(s) + Len(FirstOf[s.second]["none"]), Templates[s.second], TRUE) >>]
=============================================================================
