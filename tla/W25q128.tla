------------------------------- MODULE W25q128 -------------------------------
(***************************************************************************)
(* The driver of the NOR flash W25Q128 (app_driver/storage/w25q128.c).     *)
(*                                                                         *)
(* The memory is kept relative to the start of the last call: a cell is    *)
(* the set of what it holds the AND of.  Old is   whatever it held then,   *)
(* {} is an erased cell, and a number is the byte of the caller's buffer   *)
(* that was programmed into it.                                            *)
(*                                                                         *)
(* The chip is external.  It takes no command while it is busy or powered  *)
(* down; programming a page, erasing a sector and writing a register end   *)
(* within the minute that w25q_WaitCompleted polls, erasing the whole chip *)
(* may take longer.  The driver sends WRITE_ENABLE just before every       *)
(* command that needs it, so the latch behind it is not a variable.        *)
(***************************************************************************)
EXTENDS Integers

CONSTANTS
  Byte,         \* 256: the bytes of a page, and what a uint8_t counts modulo
  Sector,       \* 4096: the bytes of a subsector
  FlashSize     \* 16 MB: the bytes of the chip

FlashAssumption ==
  /\ {Byte, Sector, FlashSize} \subseteq Nat \ {0}
  /\ Sector % Byte = 0 /\ FlashSize % Sector = 0

VARIABLES
  flash,        \* the cells
  busy,         \* the chip is still at a chip erase whose wait gave up
  down,         \* the chip is powered down
  piece,        \* the loop of w25q_Write_Data before its next piece, or NoPiece
  \* History, read by no action.
  asked,        \* the cells as the last call should leave them
  wholePages,   \* the cells of the pages wholly inside what it writes
  refused       \* the chip did not take a command of the last call

vars == <<flash, busy, down, piece, asked, wholePages, refused>>
history == <<asked, wholePages, refused>>

Addresses == 0..(FlashSize - 1)
Old == -1
Held == [a \in Addresses |-> {Old}]
Erased(mem, cells) == [a \in Addresses |-> IF a \in cells THEN {} ELSE mem[a]]
NoPiece == [n_i |-> -1]
Idle == piece = NoPiece
Takes == ~busy /\ ~down

Init ==
  /\ flash = Held /\ asked = Held /\ wholePages = {}
  /\ busy = FALSE /\ down = FALSE /\ refused = FALSE
  /\ piece = NoPiece

\* The polls end when the chip is ready, or after about a minute.
w25q_WaitCompleted(working) == busy' \in (IF working THEN BOOLEAN ELSE {FALSE})

Erase(cells, long) ==
  /\ Idle
  /\ flash' = IF Takes THEN Erased(Held, cells) ELSE Held
  /\ asked' = Erased(Held, cells) /\ wholePages' = {}
  /\ refused' = ~Takes
  /\ w25q_WaitCompleted(busy \/ (long /\ Takes))
  /\ UNCHANGED <<down, piece>>

w25q_EraseSubsector(addr) ==
  Erase({a \in Addresses : a \div Sector = addr \div Sector}, FALSE)
w25q_EraseChip == Erase(Addresses, TRUE)

\* A register write changes no cell; the wait after it is the same.
w25q_WriteReg ==
  /\ Idle
  /\ w25q_WaitCompleted(busy)
  /\ UNCHANGED <<flash, down, piece, history>>

w25q_PowerDown ==
  /\ Idle
  /\ down' = (down \/ ~busy)
  /\ UNCHANGED <<flash, busy, piece, history>>

w25q_WakeUp ==
  /\ Idle
  /\ down' = FALSE
  /\ UNCHANGED <<flash, busy, piece, history>>

\* External: an erase the driver did not wait for comes to its end.
EraseEnds ==
  /\ busy
  /\ busy' = FALSE
  /\ UNCHANGED <<flash, down, piece, history>>
------------------------------------------------------------------------------
\* A page that lies wholly inside what is written.
WholePage(a, addr, size) ==
  LET first == Byte * (a \div Byte)
  IN  addr <= first /\ first + Byte <= addr + size

PieceOf(size, room) == IF size > room THEN room ELSE size

\* Mutant of FirstPiece: it is not cut at the end of the page.
FirstPieceUncut(addr, size) == PieceOf(size, Byte)
FirstPiece(addr, size) == PieceOf(size, Byte - (addr % Byte))

\* The bytes of a call go to their places, of whatever size it is.
w25q_Write_Data(addr, size) ==
  /\ Idle
  /\ piece' = [addr |-> addr, buffer |-> 0, Size |-> size, i |-> 0,
               remain |-> FirstPiece(addr, size), n_i |-> (size \div Byte) + 2]
  /\ flash' = Held
  /\ asked' = [a \in Addresses |->
                 IF a \in addr..(addr + size - 1) THEN {Old, a - addr} ELSE {Old}]
  /\ wholePages' = {a \in Addresses : WholePage(a, addr, size)}
  /\ refused' = FALSE
  /\ UNCHANGED <<busy, down>>

\* Its size is a uint8_t; the chip goes back to the start of the page after
\* its end, and ignores the command without a byte.
w25q_WritePage(addr, buffer, remain) ==
  LET Size == remain % Byte
      SamePage(a) == a \div Byte = addr \div Byte
      Place(a) == (a - addr) % Byte
  IN  [a \in Addresses |->
         IF Takes /\ SamePage(a) /\ Place(a) < Size THEN flash[a] \cup {buffer + Place(a)}
         ELSE flash[a]]

\* One turn of the loop: program a piece, then end or advance to the next.
NextPiece ==
  /\ ~Idle
  /\ IF piece.remain > 0
     THEN /\ flash' = w25q_WritePage(piece.addr, piece.buffer, piece.remain)
          /\ refused' = (refused \/ ~Takes)
          /\ w25q_WaitCompleted(busy)
     ELSE UNCHANGED <<flash, refused, busy>>
  /\ LET rest == piece.Size - piece.remain
     IN  piece' = IF rest = 0 \/ piece.i = piece.n_i THEN NoPiece
                  ELSE [addr |-> piece.addr + piece.remain,
                        buffer |-> piece.buffer + piece.remain, Size |-> rest,
                        i |-> piece.i + 1, remain |-> PieceOf(rest, Byte),
                        n_i |-> piece.n_i]
  /\ UNCHANGED <<down, asked, wholePages>>

\* What a read returns of a chip that takes commands.
w25q_Read_Data(addr, size) == [i \in 0..(size - 1) |-> flash[addr + i]]

Next ==
  \/ \E addr \in Addresses : w25q_EraseSubsector(addr)
  \/ \E addr \in Addresses : \E size \in 0..(FlashSize - addr) : w25q_Write_Data(addr, size)
  \/ NextPiece \/ w25q_EraseChip \/ w25q_WriteReg
  \/ w25q_PowerDown \/ w25q_WakeUp \/ EraseEnds

Spec == Init /\ [][Next]_vars
------------------------------------------------------------------------------
TypeOK ==
  /\ {busy, down, refused} \subseteq BOOLEAN
  /\ flash \in [Addresses -> SUBSET ({Old} \cup Addresses)]
  /\ asked \in [Addresses -> SUBSET ({Old} \cup Addresses)]
  /\ wholePages \subseteq Addresses
  /\ Idle \/ piece.Size \in 0..FlashSize

\* When a call is over that the chip took wholly, a read gives what was asked:
\* no byte is at a wrong place or programmed twice, none outside the range is
\* touched, and none is missing.  The exception is the pages that lie wholly
\* inside a write, whose 256 bytes are counted as 0 (w25q128.c:169).  While a
\* write is under way, and of a call the chip did not take, each cell still
\* holds what it did or already what it should.
FlashAsAsked ==
  /\ Idle /\ ~refused => \A a \in Addresses \ wholePages :
                          w25q_Read_Data(0, FlashSize)[a] = asked[a]
  /\ \A a \in Addresses : flash[a] \in {{Old}, asked[a]}

\* No exception: data of arbitrary length is written (w25q128.c:188).
AnyLengthWritten == Idle /\ ~refused => w25q_Read_Data(0, FlashSize) = asked
==============================================================================
