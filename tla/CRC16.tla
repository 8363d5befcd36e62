-------------------------------- MODULE CRC16 --------------------------------
(***************************************************************************)
(* The checksum of a frame (internal/protocol/crc16.go).  FrameCodec takes *)
(* the checksum as a parameter; the instance for TLC gives it this one.    *)
(***************************************************************************)
EXTENDS Integers, Sequences, FiniteSets, Bitwise

\* CRC-16/MODBUS: a byte is xored in, then eight bits are shifted out.
CrcBit == [c \in 0..65535 |->
  IF c % 2 = 1 THEN (c \div 2) ^^ 40961 ELSE c \div 2]

\* Shifting out a bit loses nothing.  So two runs of bytes of the same length that
\* differ in one byte have different checksums: the registers differ after that
\* byte, and every equal byte after it keeps them different.
ASSUME CrcAssumption == Cardinality({CrcBit[c] : c \in 0..65535}) = 65536

CrcByte(crc, b) ==
  CrcBit[CrcBit[CrcBit[CrcBit[CrcBit[CrcBit[CrcBit[CrcBit[crc ^^ b]]]]]]]]

CRC16Modbus(data) ==
  LET upTo[i \in 0..Len(data)] ==
        IF i = 0 THEN 65535 ELSE CrcByte(upTo[i - 1], data[i])
  IN  upTo[Len(data)]
=============================================================================
