--------------------------------- MODULE Rtc ---------------------------------
(***************************************************************************)
(* The driver of the clock chip PCF8563 (app_driver/rtc/PCF8563.c) against *)
(* the chip's registers: BCD digits, unused bits, the calendar, and writes *)
(* that break off.  Time passes a second at a time.                        *)
(*                                                                         *)
(* A Unix time is written as the date that localtime makes of it and of    *)
(* which mktime makes it again: <<year, month, day, hour, minute, second>>. *)
(* The chip is external; of its calendar only the rule for leap years can  *)
(* differ from ours.                                                       *)
(***************************************************************************)
EXTENDS Integers, Iic

CONSTANTS
  Dates,        \* bound: the times the server may send
  PowerUp,      \* bound: what a register may hold when the chip gets power
  Taken,        \* bound: how many of the seven bytes a transfer may write
  MaxTicks,     \* bound: seconds between two times written wholly
  MaxYears,     \* bound: year ends between two times written wholly
  Synced,       \* 1767196800 as a date: main.c:138 asks for the time before it
  Unknown

VARIABLES
  phase,        \* "poweron", "reset" (Timer_IC_Init was called), "run"
  regs,         \* the chip's registers
  \* History, read by no action.
  due,          \* what the clock should show
  unset,        \* no complete time was written since the reset value
  ticks,        \* seconds since a time was written wholly
  years         \* year ends the chip has counted since

vars == <<phase, regs, due, unset, ticks, years>>

Uint8 == 0..255
VL_seconds == 2
TimeRegs == VL_seconds..8
Registers == 0..15
EmptyBuf == [i \in 1..7 |-> 0]

Before(t, u) ==
  \E i \in 1..6 : t[i] < u[i] /\ \A j \in 1..(i - 1) : t[j] = u[j]
------------------------------------------------------------------------------
(* The calendar. *)

DaysIn(month, leap) ==
  IF month = 2 THEN (IF leap THEN 29 ELSE 28)
  ELSE IF month \in {4, 6, 9, 11} THEN 30 ELSE 31

Last(t, year, leap) == <<year, 12, DaysIn(t[2], leap), 23, 59, 59>>
First == <<0, 1, 1, 0, 0, 0>>

\* One second later: the last place that is not at its end counts, the places
\* after it start again.
Later(t, last) ==
  LET Counting(k) == k = 0 \/ t[k] < last[k]
      i == CHOOSE k \in 0..6 : Counting(k) /\ \A j \in (k + 1)..6 : ~Counting(j)
  IN  [j \in 1..6 |-> IF j < i THEN t[j] ELSE IF j = i THEN t[j] + 1 ELSE First[j]]

Leap(year) == year % 4 = 0 /\ (year % 100 # 0 \/ year % 400 = 0)
NextSecond(t) == Later(t, Last(t, 9999, Leap(t[1])))

\* A date in the years that a 32-bit Unix time may name.
IsDate(t) ==
  /\ t = <<t[1], t[2], t[3], t[4], t[5], t[6]>>
  /\ t[1] \in 1970..2106 /\ t[2] \in 1..12 /\ t[3] \in 1..DaysIn(t[2], Leap(t[1]))
  /\ t[4] \in 0..23 /\ t[5] \in 0..59 /\ t[6] \in 0..59

ClockAssumption ==
  /\ \A t \in Dates : IsDate(t)
  /\ PowerUp \subseteq Uint8 /\ Taken \subseteq 0..7 /\ {MaxTicks, MaxYears} \subseteq Nat
------------------------------------------------------------------------------
(* The chip. *)

\* The registers of year to second, and the bits of each that hold its digits.
Place == <<8, 7, 5, 4, 3, 2>>
Width == <<256, 32, 64, 64, 128, 128>>

Digits(r) == [j \in 1..6 |-> LET v == r[Place[j]] % Width[j]
                             IN  10 * (v \div 16) + (v % 16)]
Counts(r) == LET t == Digits(r)
                 last == Last(t, 99, t[1] % 4 = 0)
             IN  \A j \in 1..6 :
                   r[Place[j]] % 16 < 10 /\ First[j] <= t[j] /\ t[j] <= last[j]

\* After the year 99 comes 0; registers that hold no time are left alone.
Counted(r) ==
  LET t == Later(Digits(r), Last(Digits(r), 99, Digits(r)[1] % 4 = 0))
      At(a) == CHOOSE j \in 1..6 : Place[j] = a
  IN  [a \in Registers |-> IF a \in {Place[j] : j \in 1..6}
                           THEN 16 * (t[At(a)] \div 10) + (t[At(a)] % 10) ELSE r[a]]

\* What is read: the unused bits of a register may be anything.
Seen(r, noise) ==
  [a \in Registers |->
     IF \E j \in 1..6 : Place[j] = a
     THEN LET w == Width[CHOOSE j \in 1..6 : Place[j] = a]
          IN  IF noise THEN (r[a] % w) + (256 - w) ELSE r[a] % w
     ELSE r[a]]
------------------------------------------------------------------------------
(* The driver. *)

\* Mutant of Bin_To_Bcd: the result is wider than a register.
BcdUnbounded(n) == 16 * (n \div 10) + (n % 10)

\* Mutant of Bin_To_Bcd: the digits are put together in decimal.
BinAsBcd(n) == n
Bin_To_Bcd(n) == (16 * (n \div 10) + (n % 10)) % 256
Bcd_To_Bin(n) == (10 * (n \div 16) + (n % 16)) % 256

\* The fields of struct tm, with the century tm_year - 100 stands for.
Fields(buf) ==
  <<2000 + Bcd_To_Bin(buf[7]), Bcd_To_Bin(buf[6] % 32), Bcd_To_Bin(buf[4] % 64),
    Bcd_To_Bin(buf[3] % 64), Bcd_To_Bin(buf[2] % 128), Bcd_To_Bin(buf[1] % 128)>>

Read_UnixTime(buf) == Fields(buf)
Read_UTCtime(buf) == Fields(buf)

\* A year before 2000 wraps in time_buf.
TimeBuf(t) ==
  <<Bin_To_Bcd(t[6]) % 128, Bin_To_Bcd(t[5]) % 128, Bin_To_Bcd(t[4]) % 64,
    Bin_To_Bcd(t[3]) % 64, 0, Bin_To_Bcd(t[2]) % 32, Bin_To_Bcd((t[1] - 2000) % 256)>>

Init ==
  /\ phase = "poweron"
  /\ \E v \in PowerUp : regs = [a \in Registers |-> v]
  /\ due = Unknown /\ unset = FALSE /\ ticks = 0 /\ years = 0

\* Status, alarms, and clock output and timer: three transfers.
Timer_IC_Init ==
  /\ phase = "poweron"
  /\ phase' = "reset"
  /\ \E s \in {0, 2}, a \in {0, 4}, c \in {0, 3} :
       regs' = IIC_Write_Buf(IIC_Write_Buf(IIC_Write_Buf(regs, 0, <<0, 0>>, s),
                                           9, <<128, 128, 128, 128>>, a),
                             13, <<0, 0, 0>>, c)
  /\ UNCHANGED <<due, unset, ticks, years>>

\* A date in the century the clock's digits can name.
InCentury(t) == t[1] \in 2000..2099

\* A transfer of the seven time registers, which may break off.
Transfer(t, taken) ==
  /\ regs' = IIC_Write_Buf(regs, VL_seconds, TimeBuf(t), taken)
  /\ due' = IF taken = 7 THEN t ELSE IF taken = 0 THEN due ELSE Unknown
  /\ ticks' = IF taken = 7 THEN 0 ELSE ticks
  /\ years' = IF taken = 7 THEN 0 ELSE years

\* 2018-01-01 00:00:00, in the digits of the code.
Timer_IC_Reset_Time ==
  /\ phase = "reset"
  /\ phase' = "run"
  /\ \E taken \in Taken :
       /\ Transfer(<<2018, 1, 1, 0, 0, 0>>, taken)
       /\ unset' = (unset \/ taken = 7)

\* Mutant of Update_UnixTime: the year is written first, by a transfer of its own.
UpdateYearFirst(t) ==
  /\ phase = "run"
  /\ \E taken \in Taken :
       /\ regs' = IIC_Write_Buf([regs EXCEPT ![8] = TimeBuf(t)[7]],
                                VL_seconds, TimeBuf(t), taken)
       /\ due' = IF taken = 7 THEN t ELSE Unknown
       /\ unset' = (unset /\ taken < 7)
       /\ ticks' = IF taken = 7 THEN 0 ELSE ticks
       /\ years' = IF taken = 7 THEN 0 ELSE years
  /\ UNCHANGED phase

Update_UnixTime(t) ==
  /\ phase = "run"
  /\ \E taken \in Taken :
       /\ Transfer(t, taken)
       /\ unset' = (unset /\ taken < 7)
  /\ UNCHANGED phase

\* External: a second passes.  The bit that stops the clock is clear since the
\* chip's own reset, and nothing sets it.  What the clock shows is followed
\* within the century.
Tick ==
  /\ ticks < MaxTicks
  /\ ticks' = ticks + 1
  /\ regs' = IF Counts(regs) THEN Counted(regs) ELSE regs
  /\ due' = IF due # Unknown /\ InCentury(due) /\ InCentury(NextSecond(due))
            THEN NextSecond(due) ELSE Unknown
  /\ years' = IF regs'[Place[1]] = regs[Place[1]] THEN years ELSE years + 1
  /\ years' <= MaxYears
  /\ UNCHANGED <<phase, unset>>

\* The device is powered on again, and resets the clock: the chip had power all
\* the time, or loses what it held.
PowerOn ==
  /\ phase' = "poweron"
  /\ \/ UNCHANGED <<regs, due, unset, ticks, years>>
     \/ /\ \E v \in PowerUp : regs' = [a \in Registers |-> v]
        /\ due' = Unknown /\ unset' = FALSE /\ ticks' = 0 /\ years' = 0

Next ==
  \/ Timer_IC_Init \/ Timer_IC_Reset_Time
  \/ \E t \in Dates : Update_UnixTime(t)
  \/ Tick \/ PowerOn

Spec == Init /\ [][Next]_vars
------------------------------------------------------------------------------
TypeOK ==
  /\ phase \in {"poweron", "reset", "run"}
  /\ regs \in [Registers -> Uint8]
  /\ unset \in BOOLEAN /\ ticks \in 0..MaxTicks /\ years \in 0..MaxYears
  /\ due = Unknown \/ IsDate(due)

\* What the reads of the whole time give, whatever the unused bits are.
Shown(noise) == IIC_Read_Buf(Seen(regs, noise), VL_seconds, EmptyBuf, 7)

\* A time of the years 2000 to 2099 that was written wholly is read back, by
\* both readers, as that time and the seconds since, over the ends of days,
\* months, leap Februaries and years.
ShowsDue == \A noise \in BOOLEAN :
  Read_UnixTime(Shown(noise)) = due /\ Read_UTCtime(Shown(noise)) = due
ClockKeepsTime == due # Unknown /\ InCentury(due) => ShowsDue

\* Of every time: "the given Unix timestamp" is what is written to the clock
\* (PCF8563.c:103), and http_client.c:109 gives it whatever number the server
\* sent, 0 for a "t" that is no number.
ClockTakesAnyTime == due # Unknown => ShowsDue

\* A clock that was reset and never wholly set is read as before Synced,
\* whatever part of a setting broke off: the year is the last register, so
\* main.c:138 asks for the time again at the next report.
HalfSetNoticed ==
  unset => \A noise \in BOOLEAN : Before(Read_UnixTime(Shown(noise)), Synced)
==============================================================================
