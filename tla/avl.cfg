SPECIFICATION Spec
CONSTANTS
    Streams <- MCStreams
    Bytes <- MCBytes
    Cuts <- MCCuts
    Packets <- MCPackets
    Crc <- calculateCRC16
INVARIANTS
    IntactDecoded
    Aligned
CHECK_DEADLOCK FALSE
