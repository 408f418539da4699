-------------------------------- MODULE Crc ---------------------------------
(***************************************************************************)
(* The two checksums of utils/crc_check.c.  A byte is the set of its bits  *)
(* that are 1, so exclusive or is symmetric difference and a shift moves   *)
(* the bits.                                                               *)
(***************************************************************************)
EXTENDS Integers, Sequences, FiniteSetsExt

Bits == 0..7
Byte == SUBSET Bits
Shl(b) == {i + 1 : i \in b}          \* in int, bit 8 included
Shr(b) == {i - 1 : i \in b \ {0}}
EightTimes(Op(_), x) == Op(Op(Op(Op(Op(Op(Op(Op(x))))))))

polynomial == {0, 4, 5, 8}           \* 0x131

CrcBit(crc) ==
  Bits \cap IF 7 \in crc THEN SymDiff(Shl(crc), polynomial) ELSE Shl(crc)

\* CRC of the SHT30, most significant bit first, from 0xff.
Data_Crc_Check(buf) ==
  LET crc_val[k \in 0..Len(buf)] ==
        IF k = 0 THEN Bits ELSE EightTimes(CrcBit, SymDiff(crc_val[k - 1], buf[k]))
  IN  crc_val[Len(buf)]

\* One bit of calcrc_byte.
ReflectedBit(s) ==
  [crc  |-> IF (0 \in s.crc) # (0 \in s.byte)
            THEN Shr(SymDiff(s.crc, {3, 4})) \cup {7}
            ELSE Shr(s.crc),
   byte |-> Shr(s.byte)]

calcrc_byte(byte) == EightTimes(ReflectedBit, [crc |-> {}, byte |-> byte]).crc

\* Mutant of calcrc_bytes: a byte follows the last one without exclusive or.
CalcrcUnchained(buf) ==
  LET crc_val[k \in 0..Len(buf)] ==
        IF k = 0 THEN {} ELSE SymDiff(crc_val[k - 1], calcrc_byte(buf[k]))
  IN  crc_val[Len(buf)]

\* CRC of the probes, least significant bit first, from 0.
calcrc_bytes(buf) ==
  LET crc_val[k \in 0..Len(buf)] ==
        IF k = 0 THEN {} ELSE calcrc_byte(SymDiff(crc_val[k - 1], buf[k]))
  IN  crc_val[Len(buf)]
=============================================================================
