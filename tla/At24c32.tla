------------------------------- MODULE At24c32 -------------------------------
(***************************************************************************)
(* The driver of the EEPROM AT24C32 (app_driver/storage/at24c32.c).        *)
(*                                                                         *)
(* The memory is kept relative to the start of the last call: a cell is    *)
(* Old, or the number of the byte of the caller's buffer it now holds.     *)
(*                                                                         *)
(* The chip is external: its pages are larger than the driver's pieces and *)
(* aligned with them, and a transfer goes on at the start of a page after  *)
(* its end.  The pin that protects it is low around every piece and only   *)
(* there, the time of the chip's own write included.                       *)
(***************************************************************************)
EXTENDS Integers, Sequences

CONSTANTS
  Byte,         \* 256: what a uint8_t counts modulo
  PieceSize,    \* 16: the bytes the driver writes at once
  ChipPage,     \* 32: the bytes of a page of the chip
  EepromSize    \* 4096: the bytes of the chip

EepromAssumption ==
  /\ {Byte, PieceSize, ChipPage, EepromSize} \subseteq Nat \ {0}
  /\ ChipPage % PieceSize = 0 /\ EepromSize % ChipPage = 0 /\ Byte % PieceSize = 0

VARIABLES
  eeprom,       \* the cells
  pieces,       \* the pieces at24c32_write_buf has still to write
  \* History, read by no action.
  length,       \* the size the last call was made with
  asked,        \* the cells as that call should leave them
  broken        \* a transfer of the last call failed or broke off

vars == <<eeprom, pieces, length, asked, broken>>

Old == -1
Addresses == 0..(EepromSize - 1)
Held == [a \in Addresses |-> Old]
Idle == pieces = <<>>

Init ==
  /\ eeprom = Held /\ asked = Held /\ length = 0
  /\ pieces = <<>> /\ broken = FALSE

FirstPiece(addr, size) ==
  LET remain == PieceSize - (addr % PieceSize) IN IF size > remain THEN remain ELSE size

\* Mutant of Rest: the first piece is not taken off.
RestOfAll(size, first) == size % PieceSize
Rest(size, first) == (size - first) % PieceSize

\* A piece: its address, the place of its first byte in the buffer, its length.
At(addr, add, len) == [addr |-> addr + add, add |-> add, len |-> len]

\* The piece up to the next boundary, whole pieces, the rest.
Pieces(addr, size) ==
  LET first == FirstPiece(addr, size)
      whole == (size - first) \div PieceSize
      rest == Rest(size, first)
  IN  IF size = 0 THEN <<>>
      ELSE <<At(addr, 0, first)>>
           \o [k \in 1..whole |-> At(addr, first + (k - 1) * PieceSize, PieceSize)]
           \o (IF rest > 0 THEN <<At(addr, first + whole * PieceSize, rest)>> ELSE <<>>)

\* The size arrives as a uint8_t: of 256 bytes, the largest documented size,
\* none is written.
at24c32_write_buf(addr, size) ==
  /\ Idle
  /\ pieces' = Pieces(addr, size % Byte)
  /\ eeprom' = Held
  /\ length' = size
  /\ asked' = [a \in Addresses |-> IF a \in addr..(addr + size - 1) THEN a - addr ELSE Old]
  /\ broken' = FALSE

\* What the chip holds after it took the first bytes of a transfer.
at24c32_write(addr, add, taken) ==
  LET SamePage(a) == a \div ChipPage = addr \div ChipPage
      Place(a) == (a - addr) % ChipPage
  IN  [a \in Addresses |->
         IF SamePage(a) /\ Place(a) < taken THEN add + Place(a) ELSE eeprom[a]]

\* No memory for the copy, no answer, or a transfer that breaks off: the rest
\* of this piece is lost, and the call goes on with the next one.
at24c32_write_Page ==
  /\ ~Idle
  /\ LET p == Head(pieces)
     IN  \E taken \in 0..p.len :
           /\ eeprom' = at24c32_write(p.addr, p.add, taken)
           /\ broken' = (broken \/ taken < p.len)
  /\ pieces' = Tail(pieces)
  /\ UNCHANGED <<length, asked>>

\* The chip could not be added to the bus: the transfer through the handle that
\* was never set stops the program, where it does not go as one that failed.
BusAddDeviceFails ==
  /\ ~Idle
  /\ pieces' = <<>>
  /\ broken' = TRUE
  /\ UNCHANGED <<eeprom, length, asked>>

\* What a read over the whole chip would return, when no transfer breaks off.
at24c32_read_buf(addr, size) == [i \in 0..(size - 1) |-> eeprom[addr + i]]

Next ==
  \/ \E addr \in Addresses : \E size \in 0..Byte :
       addr + size <= EepromSize /\ at24c32_write_buf(addr, size)
  \/ at24c32_write_Page \/ BusAddDeviceFails

Spec == Init /\ [][Next]_vars
------------------------------------------------------------------------------
TypeOK ==
  /\ {eeprom, asked} \subseteq [Addresses -> {Old} \cup 0..(Byte - 1)]
  /\ \A k \in DOMAIN pieces :
       pieces[k] \in [addr : Addresses, add : 0..(Byte - 1), len : 1..PieceSize]
  /\ length \in 0..Byte
  /\ broken \in BOOLEAN

\* When a call of fewer than 256 bytes is over and no transfer of it failed, a
\* read gives the bytes of the buffer at their places and the old ones
\* everywhere else, also where a range starts, ends or crosses a boundary of
\* the chip's pages.  At any moment every cell is old or as asked.
EepromAsAsked ==
  /\ Idle /\ ~broken /\ length < Byte => at24c32_read_buf(0, EepromSize) = asked
  /\ \A a \in Addresses : eeprom[a] \in {Old, asked[a]}

\* The same of every documented size, 256 included (at24c32.c:99).
AnySizeWritten == Idle /\ ~broken => at24c32_read_buf(0, EepromSize) = asked
==============================================================================
