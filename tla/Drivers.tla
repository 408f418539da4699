------------------------------- MODULE Drivers -------------------------------
(***************************************************************************)
(* The drivers of the clock, the flash and the EEPROM.  They share nothing *)
(* but the bus, on which a transfer is one step, so what each of them      *)
(* promises is checked in behaviours in which it alone is called.          *)
(***************************************************************************)
CONSTANTS Dates, PowerUp, Taken, MaxTicks, MaxYears, Synced, Unknown,
          Byte, Sector, FlashSize, PieceSize, ChipPage, EepromSize

VARIABLES device,
          phase, regs, due, unset, ticks, years,
          flash, busy, down, piece, flashAsked, wholePages, refused,
          eeprom, pieces, length, eepromAsked, broken

Clock == INSTANCE Rtc
Flash == INSTANCE W25q128 WITH asked <- flashAsked
Eeprom == INSTANCE At24c32 WITH asked <- eepromAsked

clockVars == <<phase, regs, due, unset, ticks, years>>
flashVars == <<flash, busy, down, piece, flashAsked, wholePages, refused>>
eepromVars == <<eeprom, pieces, length, eepromAsked, broken>>
allVars == <<device, clockVars, flashVars, eepromVars>>

Init ==
  /\ device \in {"clock", "flash", "eeprom"}
  /\ Clock!Init /\ Flash!Init /\ Eeprom!Init

Next ==
  /\ UNCHANGED device
  /\ \/ device = "clock" /\ Clock!Next /\ UNCHANGED <<flashVars, eepromVars>>
     \/ device = "flash" /\ Flash!Next /\ UNCHANGED <<clockVars, eepromVars>>
     \/ device = "eeprom" /\ Eeprom!Next /\ UNCHANGED <<clockVars, flashVars>>

Spec == Init /\ [][Next]_allVars
------------------------------------------------------------------------------
\* The types of the three drivers' variables.
TypeOK == Clock!TypeOK /\ Flash!TypeOK /\ Eeprom!TypeOK

\* What was set is what is read, and the seconds since, in the years 2000 to
\* 2099 (PCF8563.c:71, 106, 135).
ClockKeepsTime == Clock!ClockKeepsTime

\* A clock that was reset and only half set still asks for the time
\* (PCF8563.c:127, main.c:138).
HalfSetNoticed == Clock!HalfSetNoticed

\* Erases and writes leave in the flash what they should but for whole pages,
\* and nothing else is touched (w25q128.c:103, 120, 193).
FlashAsAsked == Flash!FlashAsAsked

\* Writes of fewer than 256 bytes leave in the EEPROM what they should, and
\* nothing else is touched (at24c32.c:101).
EepromAsAsked == Eeprom!EepromAsAsked

(***************************************************************************)
(* What the comments say without these exceptions: any Unix timestamp is   *)
(* written to the clock (PCF8563.c:103), data of arbitrary length to the   *)
(* flash (w25q128.c:188), 1 to 256 bytes to the EEPROM (at24c32.c:99).     *)
(* The property asks only that one of the three statements holds, so a     *)
(* state that violates it is a counterexample to each of them.             *)
(***************************************************************************)
DriversAsDocumented ==
  Clock!ClockTakesAnyTime \/ Flash!AnyLengthWritten \/ Eeprom!AnySizeWritten
==============================================================================
