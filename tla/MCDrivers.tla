------------------------------ MODULE MCDrivers ------------------------------
(* Instances of Drivers for TLC. *)
EXTENDS Drivers, Integers

\* No number (the time 0), before a leap day, before and after the time main
\* asks for, the ends of a year, of a short February and of the last year with
\* digits, and after 2099.
MCDates ==
  {<<1970, 1, 1, 0, 0, 0>>, <<2028, 2, 28, 23, 59, 58>>, <<2025, 12, 31, 15, 59, 59>>,
   <<2026, 12, 31, 23, 59, 59>>, <<2027, 2, 28, 22, 59, 59>>, <<2099, 12, 31, 23, 59, 58>>,
   <<2106, 2, 7, 6, 28, 15>>}
MCSynced == <<2025, 12, 31, 16, 0, 0>>
MCPowerUp == {0, 153}
MCTaken == {0, 1, 4, 6, 7}

\* The assumptions of the drivers' modules, on the values of the run.
ASSUME MCClock == Clock!ClockAssumption
ASSUME MCFlash == Flash!FlashAssumption
ASSUME MCEeprom == Eeprom!EepromAssumption

\* The three drivers called in one behaviour, on the smallest chips.
TogetherNext ==
  /\ UNCHANGED device
  /\ \/ Clock!Next /\ UNCHANGED <<flashVars, eepromVars>>
     \/ Flash!Next /\ UNCHANGED <<clockVars, eepromVars>>
     \/ Eeprom!Next /\ UNCHANGED <<clockVars, flashVars>>

TogetherSpec == Init /\ [][TogetherNext]_allVars
MCBefore2000 == {<<1970, 1, 1, 0, 0, 0>>}
==============================================================================
