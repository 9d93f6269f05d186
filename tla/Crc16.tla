--------------------------------- MODULE Crc16 ---------------------------------
(***************************************************************************)
(* The checksum of a packet (packages/teltonika-parser/src/crc.ts): CRC-16 *)
(* with the reflected polynomial 0xA001, a byte at a time from a table.    *)
(***************************************************************************)
EXTENDS Integers, Sequences, Bitwise

\* Entry i: the register after the eight bits of i.
CRC16_TABLE ==
    [i \in 0..255 |->
        LET crc[j \in 0..8] ==
                IF j = 0 THEN i
                ELSE LET before == crc[j - 1]
                     IN IF before % 2 = 1 THEN (before \div 2) ^^ 40961 ELSE before \div 2
        IN crc[8]]

calculateCRC16(data) ==
    LET crc[i \in 0..Len(data)] ==
            IF i = 0 THEN 0
            ELSE LET before == crc[i - 1]
                 IN (before \div 256) ^^ CRC16_TABLE[(before ^^ data[i]) % 256]
    IN crc[Len(data)]
=============================================================================
