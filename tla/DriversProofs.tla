--------------------------- MODULE DriversProofs ---------------------------
(***************************************************************************)
(* Proofs about the drivers of Drivers.  The clock: what is written into   *)
(* its registers is read back and counted on, for every time they have     *)
(* digits for, and a setting that broke off is noticed.  The flash and the *)
(* EEPROM: every write of every size lands where it should.  Run drivers   *)
(* looks at seven times, and at chips of sixteen and of twelve bytes.      *)
(***************************************************************************)
EXTENDS Drivers, Integers, Sequences, SequenceTheorems, TLAPS

\* A time of this century, as localtime gives it.
IsTime(t) ==
  /\ t = <<t[1], t[2], t[3], t[4], t[5], t[6]>>
  /\ t[1] \in 2000..2099 /\ t[2] \in 1..12 /\ t[3] \in 1..31
  /\ t[4] \in 0..23 /\ t[5] \in 0..59 /\ t[6] \in 0..59

\* Two decimal digits survive the way through a register.
LEMMA BcdRoundTrip ==
  ASSUME NEW n \in 0..99
  PROVE  Clock!Bin_To_Bcd(n) \in 0..159 /\ Clock!Bcd_To_Bin(Clock!Bin_To_Bcd(n)) = n
<1>1. PICK tens \in 0..9, units \in 0..9 : n = 10 * tens + units
  <2>1. n \div 10 \in 0..9 /\ n % 10 \in 0..9 /\ n = 10 * (n \div 10) + (n % 10)
    OBVIOUS
  <2>2. QED
    BY <2>1
<1>2. n \div 10 = tens /\ n % 10 = units
  BY <1>1
<1>3. Clock!Bin_To_Bcd(n) = 16 * tens + units
  BY <1>2 DEF Clock!Bin_To_Bcd
<1>4. (16 * tens + units) \div 16 = tens /\ (16 * tens + units) % 16 = units
  OBVIOUS
<1>5. Clock!Bcd_To_Bin(Clock!Bin_To_Bcd(n)) = n
  BY <1>1, <1>3, <1>4 DEF Clock!Bcd_To_Bin
<1>6. QED
  BY <1>3, <1>5

\* The mask of a field keeps the digits of what the field may hold.
LEMMA BcdMasked ==
  /\ \A n \in 0..59 : Clock!Bin_To_Bcd(n) \in 0..127
  /\ \A n \in 0..31 : Clock!Bin_To_Bcd(n) \in 0..63
  /\ \A n \in 0..12 : Clock!Bin_To_Bcd(n) \in 0..31
BY DEF Clock!Bin_To_Bcd

\* Of a time of this century the masks of Update_UnixTime take nothing.
LEMMA TimeBufOfTime ==
  ASSUME NEW t, IsTime(t)
  PROVE  Clock!TimeBuf(t) = <<Clock!Bin_To_Bcd(t[6]), Clock!Bin_To_Bcd(t[5]), Clock!Bin_To_Bcd(t[4]),
                        Clock!Bin_To_Bcd(t[3]), 0, Clock!Bin_To_Bcd(t[2]), Clock!Bin_To_Bcd(t[1] - 2000)>>
<1>1. /\ Clock!Bin_To_Bcd(t[6]) % 128 = Clock!Bin_To_Bcd(t[6]) /\ Clock!Bin_To_Bcd(t[5]) % 128 = Clock!Bin_To_Bcd(t[5])
      /\ Clock!Bin_To_Bcd(t[4]) % 64 = Clock!Bin_To_Bcd(t[4]) /\ Clock!Bin_To_Bcd(t[3]) % 64 = Clock!Bin_To_Bcd(t[3])
      /\ Clock!Bin_To_Bcd(t[2]) % 32 = Clock!Bin_To_Bcd(t[2])
  <2>1. /\ \A v \in 0..127 : v % 128 = v
        /\ \A v \in 0..63 : v % 64 = v
        /\ \A v \in 0..31 : v % 32 = v
    OBVIOUS
  <2>2. t[6] \in 0..59 /\ t[5] \in 0..59 /\ t[4] \in 0..31 /\ t[3] \in 0..31 /\ t[2] \in 0..12
    BY DEF IsTime
  <2>3. /\ Clock!Bin_To_Bcd(t[6]) \in 0..127 /\ Clock!Bin_To_Bcd(t[5]) \in 0..127
        /\ Clock!Bin_To_Bcd(t[4]) \in 0..63 /\ Clock!Bin_To_Bcd(t[3]) \in 0..63
        /\ Clock!Bin_To_Bcd(t[2]) \in 0..31
    BY <2>2, BcdMasked
  <2>4. QED
    BY <2>1, <2>3
<1>2. (t[1] - 2000) % 256 = t[1] - 2000
  BY DEF IsTime
<1>3. QED
  BY <1>1, <1>2 DEF Clock!TimeBuf
------------------------------------------------------------------------------
\* What a reader gets of the time registers, bits that hold no digit included.
LEMMA ReadBytes ==
  ASSUME NEW r, NEW noise \in BOOLEAN
  PROVE  LET buf == Clock!IIC_Read_Buf(Clock!Seen(r, noise), Clock!VL_seconds, Clock!EmptyBuf, 7)
             n(w) == IF noise THEN 256 - w ELSE 0
         IN  /\ (r[2] \in Clock!Uint8 => buf[1] = (r[2] % 128) + n(128))
             /\ (r[3] \in Clock!Uint8 => buf[2] = (r[3] % 128) + n(128))
             /\ (r[4] \in Clock!Uint8 => buf[3] = (r[4] % 64) + n(64))
             /\ (r[5] \in Clock!Uint8 => buf[4] = (r[5] % 64) + n(64))
             /\ (r[7] \in Clock!Uint8 => buf[6] = (r[7] % 32) + n(32))
             /\ (r[8] \in Clock!Uint8 => buf[7] = r[8])
<1> DEFINE buf == Clock!IIC_Read_Buf(Clock!Seen(r, noise), Clock!VL_seconds, Clock!EmptyBuf, 7)
<1>1. \A i \in 1..7 : buf[i] = Clock!Seen(r, noise)[i + 1]
  BY DEF Clock!IIC_Read_Buf, Clock!EmptyBuf, Clock!VL_seconds
<1>2. \A a \in 0..15 : \A j \in 1..6 :
        Clock!Place[j] = a => (CHOOSE k \in 1..6 : Clock!Place[k] = a) = j
  BY DEF Clock!Place
<1>3. \A j \in 1..6 : LET a == Clock!Place[j]
                       w == Clock!Width[j]
                   IN  Clock!Seen(r, noise)[a] = IF noise THEN (r[a] % w) + (256 - w) ELSE r[a] % w
  <2> SUFFICES ASSUME NEW j \in 1..6
               PROVE  LET a == Clock!Place[j]
                          w == Clock!Width[j]
                      IN  Clock!Seen(r, noise)[a] = IF noise THEN (r[a] % w) + (256 - w) ELSE r[a] % w
    OBVIOUS
  <2>1. Clock!Place[j] \in 0..15
    BY DEF Clock!Place
  <2>2. (CHOOSE k \in 1..6 : Clock!Place[k] = Clock!Place[j]) = j
    BY <1>2, <2>1
  <2>3. QED
    BY <2>1, <2>2 DEF Clock!Seen, Clock!Registers
<1> DEFINE n(w) == IF noise THEN 256 - w ELSE 0
           SeenAs(a, w) == Clock!Seen(r, noise)[a] = IF noise THEN (r[a] % w) + (256 - w) ELSE r[a] % w
<1>4. SeenAs(2, 128) /\ SeenAs(3, 128) /\ SeenAs(4, 64) /\ SeenAs(5, 64)
      /\ SeenAs(7, 32) /\ SeenAs(8, 256)
  BY <1>3 DEF Clock!Place, Clock!Width
<1>5. /\ buf[1] = Clock!Seen(r, noise)[2] /\ buf[2] = Clock!Seen(r, noise)[3] /\ buf[3] = Clock!Seen(r, noise)[4]
      /\ buf[4] = Clock!Seen(r, noise)[5] /\ buf[6] = Clock!Seen(r, noise)[7] /\ buf[7] = Clock!Seen(r, noise)[8]
  BY <1>1
<1> HIDE DEF buf
<1>6. ASSUME NEW a, NEW w \in {32, 64, 128, 256}, r[a] \in Clock!Uint8, SeenAs(a, w)
      PROVE  Clock!Seen(r, noise)[a] = (r[a] % w) + n(w)
  BY <1>6 DEF Clock!Uint8
<1>7. ASSUME r[8] \in Clock!Uint8
      PROVE  Clock!Seen(r, noise)[8] = r[8]
  BY <1>4, <1>7 DEF Clock!Uint8
<1> HIDE DEF n, SeenAs
<1>8. /\ (r[2] \in Clock!Uint8 => buf[1] = (r[2] % 128) + n(128))
      /\ (r[3] \in Clock!Uint8 => buf[2] = (r[3] % 128) + n(128))
  BY <1>4, <1>5, <1>6
<1>9. /\ (r[4] \in Clock!Uint8 => buf[3] = (r[4] % 64) + n(64))
      /\ (r[5] \in Clock!Uint8 => buf[4] = (r[5] % 64) + n(64))
  BY <1>4, <1>5, <1>6
<1>10. r[7] \in Clock!Uint8 => buf[6] = (r[7] % 32) + n(32)
  BY <1>4, <1>5, <1>6
<1>11. r[8] \in Clock!Uint8 => buf[7] = r[8]
  BY <1>5, <1>7
<1>12. QED
  BY <1>8, <1>9, <1>10, <1>11 DEF buf, n
------------------------------------------------------------------------------
(***************************************************************************)
(* The clock, second by second.                                            *)
(***************************************************************************)

\* The registers hold the digits of t.
Shows(r, t) ==
  /\ r[8] = Clock!Bin_To_Bcd(t[1] - 2000) /\ r[7] = Clock!Bin_To_Bcd(t[2])
  /\ r[5] = Clock!Bin_To_Bcd(t[3]) /\ r[4] = Clock!Bin_To_Bcd(t[4])
  /\ r[3] = Clock!Bin_To_Bcd(t[5]) /\ r[2] = Clock!Bin_To_Bcd(t[6])

\* A day of this century.
IsDay(t) == Clock!IsDate(t) /\ t[1] \in 2000..2099

\* What is due is a date, and within the century its digits are those in the
\* registers.
Due ==
  due = Unknown \/ (Clock!IsDate(due) /\ (Clock!InCentury(due) => Shows(regs, due)))

\* The inductive invariant: what is due in this century is a day that exists, so
\* the chip, too, counts it on.
ClockIInv ==
  /\ phase \in {"poweron", "reset", "run"}
  /\ regs \in [Clock!Registers -> Clock!Uint8]
  /\ unset \in BOOLEAN /\ ticks \in 0..MaxTicks /\ years \in 0..MaxYears
  /\ Due

LEMMA DayIsTime == ASSUME NEW t, IsDay(t) PROVE IsTime(t)
<1>1. Clock!DaysIn(t[2], Clock!Leap(t[1])) \in 28..31
  BY DEF Clock!DaysIn
<1>2. t[3] \in 1..31
  BY <1>1 DEF IsDay, Clock!IsDate
<1>3. QED
  BY <1>2 DEF IsDay, Clock!IsDate, IsTime

\* Two decimal digits fill the register and are those of a decimal digit each.
LEMMA BcdDigits ==
  ASSUME NEW n \in 0..99
  PROVE  LET v == Clock!Bin_To_Bcd(n)
         IN  /\ v \in 0..153 /\ v = 16 * (n \div 10) + (n % 10)
             /\ 10 * (v \div 16) + (v % 16) = n /\ v % 16 < 10
<1>1. PICK tens \in 0..9, units \in 0..9 : n = 10 * tens + units
  <2>1. n \div 10 \in 0..9 /\ n % 10 \in 0..9 /\ n = 10 * (n \div 10) + (n % 10)
    OBVIOUS
  <2>2. QED
    BY <2>1
<1>2. n \div 10 = tens /\ n % 10 = units
  BY <1>1
<1>3. Clock!Bin_To_Bcd(n) = 16 * tens + units
  BY <1>2 DEF Clock!Bin_To_Bcd
<1>4. (16 * tens + units) \div 16 = tens /\ (16 * tens + units) % 16 = units
  OBVIOUS
<1>5. QED
  BY <1>1, <1>2, <1>3, <1>4

\* Registers that show a time are read as that time.
LEMMA ShownIsRead ==
  ASSUME NEW t, IsTime(t), NEW r, Shows(r, t), NEW noise \in BOOLEAN
  PROVE  Clock!Fields(Clock!IIC_Read_Buf(Clock!Seen(r, noise), Clock!VL_seconds, Clock!EmptyBuf, 7)) = t
<1> DEFINE buf == Clock!IIC_Read_Buf(Clock!Seen(r, noise), Clock!VL_seconds, Clock!EmptyBuf, 7)
<1>1. /\ t[6] \in 0..59 /\ t[5] \in 0..59 /\ t[4] \in 0..31 /\ t[3] \in 0..31
      /\ t[2] \in 0..12 /\ t[1] - 2000 \in 0..99
  BY DEF IsTime
<1>2. /\ r[2] \in 0..127 /\ r[3] \in 0..127 /\ r[4] \in 0..63 /\ r[5] \in 0..63
      /\ r[7] \in 0..31 /\ r[8] \in 0..159
  <2>1. /\ Clock!Bin_To_Bcd(t[6]) \in 0..127 /\ Clock!Bin_To_Bcd(t[5]) \in 0..127
        /\ Clock!Bin_To_Bcd(t[4]) \in 0..63 /\ Clock!Bin_To_Bcd(t[3]) \in 0..63
        /\ Clock!Bin_To_Bcd(t[2]) \in 0..31
    BY <1>1, BcdMasked
  <2>2. \A n \in 0..99 : Clock!Bin_To_Bcd(n) \in 0..159
    BY BcdRoundTrip
  <2>3. Clock!Bin_To_Bcd(t[1] - 2000) \in 0..159
    BY <1>1, <2>2
  <2>4. QED
    BY <2>1, <2>3 DEF Shows
<1>3. /\ buf[1] % 128 = r[2] /\ buf[2] % 128 = r[3] /\ buf[3] % 64 = r[4]
      /\ buf[4] % 64 = r[5] /\ buf[6] % 32 = r[7] /\ buf[7] = r[8]
  BY <1>2, ReadBytes DEF Clock!Uint8
<1> HIDE DEF buf
<1>4. /\ Clock!Bcd_To_Bin(r[2]) = t[6] /\ Clock!Bcd_To_Bin(r[3]) = t[5] /\ Clock!Bcd_To_Bin(r[4]) = t[4]
      /\ Clock!Bcd_To_Bin(r[5]) = t[3] /\ Clock!Bcd_To_Bin(r[7]) = t[2]
      /\ Clock!Bcd_To_Bin(r[8]) = t[1] - 2000
  <2>1. /\ t[6] \in 0..99 /\ t[5] \in 0..99 /\ t[4] \in 0..99 /\ t[3] \in 0..99 /\ t[2] \in 0..99
    BY <1>1
  <2>2. \A n \in 0..99 : Clock!Bcd_To_Bin(Clock!Bin_To_Bcd(n)) = n
    BY BcdRoundTrip
  <2>3. QED
    BY <1>1, <2>1, <2>2 DEF Shows
<1>5. Clock!Fields(buf) = <<2000 + (t[1] - 2000), t[2], t[3], t[4], t[5], t[6]>>
  BY <1>3, <1>4 DEF Clock!Fields
<1>6. QED
  BY <1>1, <1>5 DEF IsTime, buf

\* A complete write shows the time that was written.
LEMMA WrittenShows ==
  ASSUME NEW t, IsTime(t), NEW r \in [Clock!Registers -> Clock!Uint8]
  PROVE  Shows(Clock!IIC_Write_Buf(r, Clock!VL_seconds, Clock!TimeBuf(t), 7), t)
BY TimeBufOfTime DEF Clock!IIC_Write_Buf, Clock!VL_seconds, Clock!Registers, Shows

(***************************************************************************)
(* A time that was written wholly is what the next read makes of the       *)
(* registers, whatever they held and whatever their unused bits are.       *)
(***************************************************************************)
THEOREM WrittenIsRead ==
  ASSUME NEW t, IsTime(t), NEW r \in [Clock!Registers -> Clock!Uint8], NEW noise \in BOOLEAN
  PROVE  LET now == Clock!IIC_Write_Buf(r, Clock!VL_seconds, Clock!TimeBuf(t), 7)
         IN  Clock!Read_UnixTime(Clock!IIC_Read_Buf(Clock!Seen(now, noise), Clock!VL_seconds, Clock!EmptyBuf, 7)) = t
BY WrittenShows, ShownIsRead DEF Clock!Read_UnixTime

\* The place that counts: the last one that is not at its end.
CountsAt(t, last, i) ==
  /\ i = 0 \/ t[i] < last[i]
  /\ \A j \in (i + 1)..6 : ~(j = 0 \/ t[j] < last[j])

Onward(t, i) ==
  [j \in 1..6 |-> IF j < i THEN t[j] ELSE IF j = i THEN t[j] + 1 ELSE Clock!First[j]]

LEMMA CountsAtOne ==
  ASSUME NEW t, NEW last, NEW i \in 0..6, NEW k \in 0..6,
         CountsAt(t, last, i), CountsAt(t, last, k)
  PROVE  i = k
<1>1. ASSUME i < k PROVE FALSE
  <2>1. k \in (i + 1)..6 /\ k # 0
    BY <1>1
  <2>2. QED
    BY <2>1 DEF CountsAt
<1>2. ASSUME k < i PROVE FALSE
  <2>1. i \in (k + 1)..6 /\ i # 0
    BY <1>2
  <2>2. QED
    BY <2>1 DEF CountsAt
<1>3. QED
  BY <1>1, <1>2

LEMMA LaterIsOnward ==
  ASSUME NEW t, NEW last, NEW i \in 0..6, CountsAt(t, last, i)
  PROVE  Clock!Later(t, last) = Onward(t, i)
<1> DEFINE c == CHOOSE k \in 0..6 : CountsAt(t, last, k)
<1>1. c \in 0..6 /\ CountsAt(t, last, c)
  OBVIOUS
<1>2. c = i
  BY <1>1, CountsAtOne
<1>3. Clock!Later(t, last) = Onward(t, c)
  BY DEF Clock!Later, Onward, CountsAt
<1>4. QED
  BY <1>2, <1>3

\* Whatever the places, one of them counts, or all are at their ends.
LEMMA SomePlaceCounts ==
  ASSUME NEW t, NEW last
  PROVE  \E i \in 0..6 : CountsAt(t, last, i)
<1>1. CASE t[6] < last[6]
  <2>1. (6 + 1)..6 = {}
    OBVIOUS
  <2>2. CountsAt(t, last, 6)
    BY <1>1, <2>1 DEF CountsAt
  <2>3. QED
    BY <2>2
<1> DEFINE None(k) == \A j \in (k + 1)..6 : ~(j = 0 \/ t[j] < last[j])
<1>2. ASSUME NEW k \in 1..6, None(k), ~(t[k] < last[k])
      PROVE  None(k - 1)
  <2>1. \A j \in ((k - 1) + 1)..6 : j = k \/ j \in (k + 1)..6
    OBVIOUS
  <2>2. QED
    BY <1>2, <2>1
<1>3. None(6)
  OBVIOUS
<1>4. ASSUME NEW k \in 1..6, None(k), t[k] < last[k]
      PROVE  \E i \in 0..6 : CountsAt(t, last, i)
  BY <1>4 DEF CountsAt
<1>5. None(0) => CountsAt(t, last, 0)
  BY DEF CountsAt
<1> HIDE DEF None
<1>6. ASSUME NEW k \in 1..6, None(k), ~ \E i \in 0..6 : CountsAt(t, last, i)
      PROVE  None(k - 1)
  BY <1>2, <1>4, <1>6
<1>7. ASSUME ~ \E i \in 0..6 : CountsAt(t, last, i) PROVE FALSE
  <2>1. None(5)
    BY <1>3, <1>6, <1>7
  <2>2. None(4)
    BY <2>1, <1>6, <1>7
  <2>3. None(3)
    BY <2>2, <1>6, <1>7
  <2>4. None(2)
    BY <2>3, <1>6, <1>7
  <2>5. None(1)
    BY <2>4, <1>6, <1>7
  <2>6. None(0)
    BY <2>5, <1>6, <1>7
  <2>7. QED
    BY <1>5, <1>7, <2>6
<1>8. QED
  BY <1>7

\* The ends of the places of a day, for us and for the chip.
EndsHere(t) == Clock!Last(t, 9999, Clock!Leap(t[1]))
Shown99(t) == [j \in 1..6 |-> IF j = 1 THEN t[1] - 2000 ELSE t[j]]
EndsThere(t) == Clock!Last(Shown99(t), 99, Shown99(t)[1] % 4 = 0)

\* The chip's rule for leap years is ours, in these years.
LEMMA SameLeapYears ==
  ASSUME NEW y \in 2000..2099
  PROVE  Clock!Leap(y) <=> (y - 2000) % 4 = 0
BY DEF Clock!Leap

LEMMA SameEnds ==
  ASSUME NEW t, IsDay(t)
  PROVE  /\ EndsHere(t) = <<9999, 12, Clock!DaysIn(t[2], Clock!Leap(t[1])), 23, 59, 59>>
         /\ EndsThere(t) = <<99, 12, Clock!DaysIn(t[2], Clock!Leap(t[1])), 23, 59, 59>>
<1>1. Shown99(t)[1] = t[1] - 2000 /\ Shown99(t)[2] = t[2]
  BY DEF Shown99
<1>2. Clock!Leap(t[1]) <=> (t[1] - 2000) % 4 = 0
  BY SameLeapYears DEF IsDay
<1>3. Clock!DaysIn(t[2], (t[1] - 2000) % 4 = 0) = Clock!DaysIn(t[2], Clock!Leap(t[1]))
  BY <1>2 DEF Clock!DaysIn
<1>4. QED
  BY <1>1, <1>3 DEF EndsHere, EndsThere, Clock!Last

\* The chip reads the digits of the day, and finds them in order.
LEMMA ShownDigits ==
  ASSUME NEW t, IsDay(t), NEW r, Shows(r, t)
  PROVE  /\ Clock!Digits(r) = Shown99(t)
         /\ \A j \in 1..6 : r[Clock!Place[j]] % 16 < 10
<1>1. /\ t[6] \in 0..59 /\ t[5] \in 0..59 /\ t[4] \in 0..31 /\ t[3] \in 0..31
      /\ t[2] \in 0..12 /\ t[1] - 2000 \in 0..99
  BY DayIsTime DEF IsTime
<1> DEFINE b(n) == Clock!Bin_To_Bcd(n)
<1>2. \A n \in 0..99 : b(n) \in 0..153 /\ 10 * (b(n) \div 16) + (b(n) % 16) = n /\ b(n) % 16 < 10
  BY BcdDigits
<1>3. /\ \A n \in 0..59 : b(n) \in 0..127
      /\ \A n \in 0..31 : b(n) \in 0..63
      /\ \A n \in 0..12 : b(n) \in 0..31
  BY BcdMasked
<1> HIDE DEF b
<1> DEFINE Held(v, w, n) == 10 * ((v % w) \div 16) + ((v % w) % 16) = n /\ v % 16 < 10
<1>4. /\ \A n \in 0..59 : Held(b(n), 128, n)
      /\ \A n \in 0..31 : Held(b(n), 64, n)
      /\ \A n \in 0..12 : Held(b(n), 32, n)
      /\ \A n \in 0..99 : Held(b(n), 256, n)
  <2>1. /\ \A v \in 0..127 : v % 128 = v
        /\ \A v \in 0..63 : v % 64 = v
        /\ \A v \in 0..31 : v % 32 = v
        /\ \A v \in 0..153 : v % 256 = v
    OBVIOUS
  <2>2. \A n \in 0..59 : n \in 0..99 /\ b(n) % 128 = b(n)
    <3>1. ASSUME NEW n \in 0..59 PROVE b(n) % 128 = b(n)
      <4>1. b(n) \in 0..127
        BY <1>3
      <4>2. QED
        BY <2>1, <4>1
    <3>2. QED
      BY <3>1
  <2>3. \A n \in 0..31 : n \in 0..99 /\ b(n) % 64 = b(n)
    <3>1. ASSUME NEW n \in 0..31 PROVE b(n) % 64 = b(n)
      <4>1. b(n) \in 0..63
        BY <1>3
      <4>2. QED
        BY <2>1, <4>1
    <3>2. QED
      BY <3>1
  <2>4. \A n \in 0..12 : n \in 0..99 /\ b(n) % 32 = b(n)
    <3>1. ASSUME NEW n \in 0..12 PROVE b(n) % 32 = b(n)
      <4>1. b(n) \in 0..31
        BY <1>3
      <4>2. QED
        BY <2>1, <4>1
    <3>2. QED
      BY <3>1
  <2>5. \A n \in 0..99 : b(n) % 256 = b(n)
    <3>1. ASSUME NEW n \in 0..99 PROVE b(n) % 256 = b(n)
      <4>1. b(n) \in 0..153
        BY <1>2
      <4>2. QED
        BY <2>1, <4>1
    <3>2. QED
      BY <3>1
  <2>6. QED
    BY <1>2, <2>2, <2>3, <2>4, <2>5
<1>5. /\ Held(r[8], 256, t[1] - 2000) /\ Held(r[7], 32, t[2]) /\ Held(r[5], 64, t[3])
      /\ Held(r[4], 64, t[4]) /\ Held(r[3], 128, t[5]) /\ Held(r[2], 128, t[6])
  <2>1. /\ r[8] = b(t[1] - 2000) /\ r[7] = b(t[2]) /\ r[5] = b(t[3])
        /\ r[4] = b(t[4]) /\ r[3] = b(t[5]) /\ r[2] = b(t[6])
    BY DEF Shows, b
  <2> HIDE DEF Held
  <2>2. QED
    BY <1>1, <1>4, <2>1
<1>6. \A j \in 1..6 : Held(r[Clock!Place[j]], Clock!Width[j], Shown99(t)[j])
  <2> HIDE DEF Held
  <2>1. QED
    BY <1>5 DEF Clock!Place, Clock!Width, Shown99
<1>7. Shown99(t) = [j \in 1..6 |-> Shown99(t)[j]]
  BY DEF Shown99
<1> HIDE DEF Held
<1>8. \A j \in 1..6 : Clock!Digits(r)[j] = Shown99(t)[j]
  BY <1>6 DEF Clock!Digits, Held
<1>9. Clock!Digits(r) = [j \in 1..6 |-> Clock!Digits(r)[j]]
  BY DEF Clock!Digits
<1>10. QED
  BY <1>6, <1>7, <1>8, <1>9 DEF Held

\* Where our date counts on, the chip does, but at the end of the year 2099.
LEMMA SamePlaceCounts ==
  ASSUME NEW t, IsDay(t), NEW i \in 0..6, CountsAt(t, EndsHere(t), i)
  PROVE  i \in 1..6 /\ (t[1] < 2099 \/ i > 1 => CountsAt(Shown99(t), EndsThere(t), i))
<1>1. t[1] \in 2000..2099
  BY DEF IsDay
<1>2. EndsHere(t)[1] = 9999 /\ EndsThere(t)[1] = 99
  BY SameEnds
<1>3. i # 0
  <2>1. ASSUME i = 0 PROVE FALSE
    <3>1. 1 \in (i + 1)..6
      BY <2>1
    <3>2. ~(t[1] < EndsHere(t)[1])
      BY <3>1 DEF CountsAt
    <3>3. QED
      BY <1>1, <1>2, <3>2
  <2>2. QED
    BY <2>1
<1>4. \A j \in 2..6 : Shown99(t)[j] = t[j] /\ EndsThere(t)[j] = EndsHere(t)[j]
  BY SameEnds DEF Shown99
<1>5. Shown99(t)[1] = t[1] - 2000
  BY DEF Shown99
<1>6. ASSUME t[1] < 2099 \/ i > 1
      PROVE  CountsAt(Shown99(t), EndsThere(t), i)
  <2>1. ASSUME NEW j \in (i + 1)..6
        PROVE  ~(j = 0 \/ Shown99(t)[j] < EndsThere(t)[j])
    <3>1. j \in 2..6
      BY <1>3
    <3>2. ~(j = 0 \/ t[j] < EndsHere(t)[j])
      BY DEF CountsAt
    <3>3. QED
      BY <1>4, <3>1, <3>2
  <2>2. Shown99(t)[i] < EndsThere(t)[i]
    <3>1. CASE i = 1
      BY <1>1, <1>2, <1>5, <1>6, <3>1
    <3>2. CASE i > 1
      <4>1. i \in 2..6
        BY <3>2
      <4>2. t[i] < EndsHere(t)[i]
        BY <1>3 DEF CountsAt
      <4>3. QED
        BY <1>4, <4>1, <4>2
    <3>3. QED
      BY <1>3, <3>1, <3>2
  <2>3. QED
    BY <2>1, <2>2 DEF CountsAt
<1>7. QED
  BY <1>3, <1>6

\* A second after a day that exists comes one that exists.
LEMMA OnwardIsDate ==
  ASSUME NEW t, IsDay(t), NEW i \in 1..6, CountsAt(t, EndsHere(t), i)
  PROVE  /\ Onward(t, i)[1] \in 2000..2100
         /\ Onward(t, i)[1] = IF i = 1 THEN t[1] + 1 ELSE t[1]
         /\ Clock!IsDate(Onward(t, i))
<1> DEFINE n == Onward(t, i)
           days == Clock!DaysIn(t[2], Clock!Leap(t[1]))
<1>1. /\ t[1] \in 2000..2099 /\ t[2] \in 1..12 /\ t[3] \in 1..days
      /\ t[4] \in 0..23 /\ t[5] \in 0..59 /\ t[6] \in 0..59 /\ days \in 28..31
  BY DEF IsDay, Clock!IsDate, Clock!DaysIn
<1>2. t[i] < <<9999, 12, days, 23, 59, 59>>[i]
  BY SameEnds DEF CountsAt
<1>3. \A j \in 1..6 : n[j] = IF j < i THEN t[j] ELSE IF j = i THEN t[j] + 1 ELSE Clock!First[j]
  BY DEF Onward
<1>4. n = <<n[1], n[2], n[3], n[4], n[5], n[6]>>
  BY DEF Onward
<1> HIDE DEF n
<1>5. /\ n[1] = IF i = 1 THEN t[1] + 1 ELSE t[1]
      /\ n[2] = IF i < 2 THEN 1 ELSE IF i = 2 THEN t[2] + 1 ELSE t[2]
      /\ n[3] = IF i < 3 THEN 1 ELSE IF i = 3 THEN t[3] + 1 ELSE t[3]
      /\ n[4] = IF i < 4 THEN 0 ELSE IF i = 4 THEN t[4] + 1 ELSE t[4]
      /\ n[5] = IF i < 5 THEN 0 ELSE IF i = 5 THEN t[5] + 1 ELSE t[5]
      /\ n[6] = IF i < 6 THEN 0 ELSE t[6] + 1
  BY <1>3 DEF Clock!First
<1>6. Clock!DaysIn(n[2], Clock!Leap(n[1])) \in 28..31
  BY DEF Clock!DaysIn
<1>7. i > 2 => Clock!DaysIn(n[2], Clock!Leap(n[1])) = days
  BY <1>5
<1> HIDE DEF days
<1>8. /\ i = 1 => t[1] < 9999
      /\ i = 2 => t[2] < 12
      /\ i = 3 => t[3] < days
      /\ i = 4 => t[4] < 23
      /\ i = 5 => t[5] < 59
      /\ i = 6 => t[6] < 59
  BY <1>2
<1>9. n[1] \in 2000..2100 /\ n[2] \in 1..12
  BY <1>1, <1>5, <1>8
<1>10. n[4] \in 0..23 /\ n[5] \in 0..59 /\ n[6] \in 0..59
  BY <1>1, <1>5, <1>8
<1>11. n[3] \in 1..Clock!DaysIn(n[2], Clock!Leap(n[1]))
  <2>1. CASE i < 3
    BY <1>5, <1>6, <2>1
  <2>2. CASE i >= 3
    BY <1>1, <1>5, <1>7, <1>8, <2>2
  <2>3. QED
    BY <2>1, <2>2
<1>12. Clock!IsDate(n)
  BY <1>4, <1>9, <1>10, <1>11 DEF Clock!IsDate
<1>13. QED
  BY <1>5, <1>9, <1>12 DEF n

\* Registers in which the chip counts are registers again.
LEMMA CountedRegs ==
  ASSUME NEW r \in [Clock!Registers -> Clock!Uint8], Clock!Counts(r)
  PROVE  /\ Clock!Counted(r) \in [Clock!Registers -> Clock!Uint8]
         /\ \A j \in 1..6 : \E n \in 0..99 :
              /\ n = Clock!Later(Clock!Digits(r), Clock!Last(Clock!Digits(r), 99, Clock!Digits(r)[1] % 4 = 0))[j]
              /\ Clock!Counted(r)[Clock!Place[j]] = Clock!Bin_To_Bcd(n)
<1> DEFINE d == Clock!Digits(r)
           last == Clock!Last(d, 99, d[1] % 4 = 0)
           later == Clock!Later(d, last)
<1>1. PICK i \in 0..6 : CountsAt(d, last, i)
  BY SomePlaceCounts
<1>2. later = Onward(d, i)
  BY <1>1, LaterIsOnward
<1>3. \A j \in 1..6 : Clock!First[j] <= d[j] /\ d[j] <= last[j]
  BY DEF Clock!Counts
<1>4. \A j \in 1..6 : d[j] \in Int
  <2>1. \A j \in 1..6 : Clock!Place[j] \in Clock!Registers /\ Clock!Width[j] \in {32, 64, 128, 256}
    BY DEF Clock!Place, Clock!Width, Clock!Registers
  <2>2. ASSUME NEW j \in 1..6 PROVE d[j] \in Int
    <3>1. r[Clock!Place[j]] \in Clock!Uint8 /\ Clock!Width[j] \in {32, 64, 128, 256}
      BY <2>1
    <3>2. d[j] = 10 * ((r[Clock!Place[j]] % Clock!Width[j]) \div 16)
                   + ((r[Clock!Place[j]] % Clock!Width[j]) % 16)
      BY DEF Clock!Digits
    <3>3. PICK v \in Clock!Uint8, w \in {32, 64, 128, 256} :
            v = r[Clock!Place[j]] /\ w = Clock!Width[j]
      BY <3>1
    <3>4. d[j] = 10 * ((v % w) \div 16) + ((v % w) % 16)
      BY <3>2, <3>3
    <3>5. 10 * ((v % w) \div 16) + ((v % w) % 16) \in Int
      BY DEF Clock!Uint8
    <3>6. QED
      BY <3>4, <3>5
  <2>3. QED
    BY <2>2
<1>5. \A j \in 1..6 : last[j] \in 0..99 /\ Clock!First[j] \in 0..1
  <2>1. Clock!DaysIn(d[2], d[1] % 4 = 0) \in 28..31
    BY DEF Clock!DaysIn
  <2>2. QED
    BY <2>1 DEF Clock!Last, Clock!First
<1> HIDE DEF d, last, later
<1>6. ASSUME NEW j \in 1..6 PROVE later[j] \in 0..99
  <2>1. later[j] = IF j < i THEN d[j] ELSE IF j = i THEN d[j] + 1 ELSE Clock!First[j]
    BY <1>2 DEF Onward
  <2>2. d[j] \in Int /\ Clock!First[j] <= d[j] /\ d[j] <= last[j]
        /\ last[j] \in 0..99 /\ Clock!First[j] \in 0..1
    BY <1>3, <1>4, <1>5
  <2>3. j = i => d[j] < last[j]
    BY <1>1 DEF CountsAt
  <2>4. QED
    BY <2>1, <2>2, <2>3
<1>7. \A k, j \in 1..6 : Clock!Place[k] = Clock!Place[j] => k = j
  BY DEF Clock!Place
<1> DEFINE At(a) == CHOOSE j \in 1..6 : Clock!Place[j] = a
<1>8. \A j \in 1..6 : At(Clock!Place[j]) = j
  BY <1>7
<1>9. ASSUME NEW a \in Clock!Registers, a \in {Clock!Place[j] : j \in 1..6}
      PROVE  At(a) \in 1..6
  BY <1>9
<1>10. Clock!Counted(r) = [a \in Clock!Registers |-> IF a \in {Clock!Place[j] : j \in 1..6}
                           THEN 16 * (later[At(a)] \div 10) + (later[At(a)] % 10) ELSE r[a]]
  BY DEF Clock!Counted, later, last, d
<1> HIDE DEF At
<1>11. \A n \in 0..99 : Clock!Bin_To_Bcd(n) = 16 * (n \div 10) + (n % 10)
                        /\ Clock!Bin_To_Bcd(n) \in Clock!Uint8
  <2>1. ASSUME NEW n \in 0..99
        PROVE  Clock!Bin_To_Bcd(n) = 16 * (n \div 10) + (n % 10) /\ Clock!Bin_To_Bcd(n) \in 0..153
    BY BcdDigits
  <2>2. QED
    BY <2>1 DEF Clock!Uint8
<1>12. ASSUME NEW a \in Clock!Registers
       PROVE  Clock!Counted(r)[a] \in Clock!Uint8
  <2>1. CASE a \in {Clock!Place[j] : j \in 1..6}
    <3>1. later[At(a)] \in 0..99
      BY <1>6, <1>9, <2>1
    <3>2. QED
      BY <1>10, <1>11, <2>1, <3>1
  <2>2. CASE a \notin {Clock!Place[j] : j \in 1..6}
    BY <1>10, <2>2
  <2>3. QED
    BY <2>1, <2>2
<1>13. ASSUME NEW j \in 1..6
       PROVE  Clock!Counted(r)[Clock!Place[j]] = Clock!Bin_To_Bcd(later[j])
  <2>1. Clock!Place[j] \in Clock!Registers
    BY DEF Clock!Place, Clock!Registers
  <2>2. Clock!Counted(r)[Clock!Place[j]] = 16 * (later[j] \div 10) + (later[j] % 10)
    BY <1>8, <1>10, <2>1
  <2>3. QED
    BY <1>6, <1>11, <2>2
<1>14. QED
  BY <1>6, <1>10, <1>12, <1>13 DEF later, last, d

\* The chip counts a day on as we do, until the year 2099 is over.
LEMMA CountedShows ==
  ASSUME NEW t, IsDay(t), NEW r \in [Clock!Registers -> Clock!Uint8], Shows(r, t),
         NEW i \in 1..6, CountsAt(t, EndsHere(t), i), t[1] < 2099 \/ i > 1
  PROVE  Clock!Counts(r) /\ Shows(Clock!Counted(r), Onward(t, i)) /\ IsDay(Onward(t, i))
<1>1. Clock!Digits(r) = Shown99(t) /\ \A j \in 1..6 : r[Clock!Place[j]] % 16 < 10
  BY ShownDigits
<1>2. Clock!Last(Clock!Digits(r), 99, Clock!Digits(r)[1] % 4 = 0) = EndsThere(t)
  BY <1>1 DEF EndsThere
<1> DEFINE days == Clock!DaysIn(t[2], Clock!Leap(t[1]))
<1>3. EndsThere(t) = <<99, 12, days, 23, 59, 59>>
  BY SameEnds
<1>4. /\ t[1] \in 2000..2099 /\ t[2] \in 1..12 /\ t[3] \in 1..days
      /\ t[4] \in 0..23 /\ t[5] \in 0..59 /\ t[6] \in 0..59 /\ days \in 28..31
  BY DEF IsDay, Clock!IsDate, Clock!DaysIn
<1> HIDE DEF days
<1>5. \A j \in 1..6 : Clock!First[j] <= Shown99(t)[j] /\ Shown99(t)[j] <= EndsThere(t)[j]
  BY <1>3, <1>4 DEF Clock!First, Shown99
<1>6. Clock!Counts(r)
  BY <1>1, <1>2, <1>5 DEF Clock!Counts
<1>7. Clock!Later(Clock!Digits(r), EndsThere(t)) = Onward(Shown99(t), i)
  <2>1. CountsAt(Shown99(t), EndsThere(t), i)
    BY SamePlaceCounts
  <2>2. QED
    BY <1>1, <2>1, LaterIsOnward
<1> DEFINE n == Onward(t, i)
<1>8. n[1] = (IF i = 1 THEN t[1] + 1 ELSE t[1]) /\ Clock!IsDate(n)
  BY OnwardIsDate
<1>9. IsDay(n)
  BY <1>4, <1>8 DEF IsDay
<1>10. /\ Onward(Shown99(t), i)[1] = n[1] - 2000
       /\ \A j \in 2..6 : Onward(Shown99(t), i)[j] = n[j]
  BY <1>4, <1>8 DEF Onward, Shown99
<1> HIDE DEF n
<1>11. \A j \in 1..6 : Clock!Counted(r)[Clock!Place[j]] = Clock!Bin_To_Bcd(Onward(Shown99(t), i)[j])
  <2> DEFINE later == Clock!Later(Clock!Digits(r), Clock!Last(Clock!Digits(r), 99, Clock!Digits(r)[1] % 4 = 0))
  <2>1. \A j \in 1..6 : \E m \in 0..99 :
          m = later[j] /\ Clock!Counted(r)[Clock!Place[j]] = Clock!Bin_To_Bcd(m)
    BY <1>6, CountedRegs
  <2>2. later = Onward(Shown99(t), i)
    BY <1>2, <1>7
  <2> HIDE DEF later
  <2>3. QED
    BY <2>1, <2>2
<1>12. /\ Clock!Counted(r)[8] = Clock!Bin_To_Bcd(n[1] - 2000)
       /\ Clock!Counted(r)[7] = Clock!Bin_To_Bcd(n[2]) /\ Clock!Counted(r)[5] = Clock!Bin_To_Bcd(n[3])
       /\ Clock!Counted(r)[4] = Clock!Bin_To_Bcd(n[4]) /\ Clock!Counted(r)[3] = Clock!Bin_To_Bcd(n[5])
       /\ Clock!Counted(r)[2] = Clock!Bin_To_Bcd(n[6])
  <2>1. ASSUME NEW j \in 2..6 PROVE Clock!Counted(r)[Clock!Place[j]] = Clock!Bin_To_Bcd(n[j])
    BY <1>10, <1>11
  <2>2. Clock!Counted(r)[Clock!Place[1]] = Clock!Bin_To_Bcd(n[1] - 2000)
    BY <1>10, <1>11
  <2>3. QED
    BY <2>1, <2>2 DEF Clock!Place
<1>13. QED
  BY <1>6, <1>9, <1>12 DEF Shows, n

\* Every byte that is written is a byte.
LEMMA TimeBufBytes ==
  ASSUME NEW t, Clock!IsDate(t)
  PROVE  Clock!TimeBuf(t) \in [1..7 -> Clock!Uint8]
<1>1. ASSUME NEW n \in Int PROVE Clock!Bin_To_Bcd(n) \in Clock!Uint8
  <2>1. 16 * (n \div 10) + (n % 10) \in Int
    OBVIOUS
  <2>2. \A m \in Int : m % 256 \in 0..255
    OBVIOUS
  <2>3. QED
    BY <2>1, <2>2 DEF Clock!Bin_To_Bcd, Clock!Uint8
<1>2. /\ t[1] - 2000 \in Int /\ t[2] \in Int /\ t[3] \in Int /\ t[4] \in Int /\ t[5] \in Int
      /\ t[6] \in Int
  BY DEF Clock!IsDate
<1>3. (t[1] - 2000) % 256 \in Int
  BY <1>2
<1>4. \A v \in Clock!Uint8 : /\ v % 128 \in Clock!Uint8 /\ v % 64 \in Clock!Uint8
                             /\ v % 32 \in Clock!Uint8 /\ 0 \in Clock!Uint8
  BY DEF Clock!Uint8
<1>5. QED
  BY <1>1, <1>2, <1>3, <1>4 DEF Clock!TimeBuf

\* A transfer of a time, of which the chip takes none, all or some of the bytes.
LEMMA TransferStep ==
  ASSUME Clock!ClockAssumption, ClockIInv, NEW t, Clock!IsDate(t), NEW taken \in Taken,
         Clock!Transfer(t, taken)
  PROVE  /\ regs' \in [Clock!Registers -> Clock!Uint8]
         /\ ticks' \in 0..MaxTicks /\ years' \in 0..MaxYears
         /\ Due'
<1>1. taken \in 0..7 /\ MaxTicks \in Nat /\ MaxYears \in Nat
  BY DEF Clock!ClockAssumption
<1>2. regs \in [Clock!Registers -> Clock!Uint8]
  BY DEF ClockIInv
<1>3. regs' = Clock!IIC_Write_Buf(regs, Clock!VL_seconds, Clock!TimeBuf(t), taken)
  BY DEF Clock!Transfer
<1>4. \A a \in Clock!Registers :
        regs'[a] = IF a \in 2..(2 + taken - 1) THEN Clock!TimeBuf(t)[a - 2 + 1] ELSE regs[a]
  BY <1>2, <1>3 DEF Clock!IIC_Write_Buf, Clock!VL_seconds
<1>5. regs' \in [Clock!Registers -> Clock!Uint8]
  <2>1. regs' = [a \in Clock!Registers |-> regs'[a]]
    BY <1>2, <1>3 DEF Clock!IIC_Write_Buf
  <2>2. ASSUME NEW a \in Clock!Registers PROVE regs'[a] \in Clock!Uint8
    <3>1. CASE a \in 2..(2 + taken - 1)
      <4>1. a - 2 + 1 \in 1..7
        BY <1>1, <3>1
      <4>2. Clock!TimeBuf(t)[a - 2 + 1] \in Clock!Uint8
        BY <4>1, TimeBufBytes
      <4>3. QED
        BY <1>4, <3>1, <4>2
    <3>2. CASE a \notin 2..(2 + taken - 1)
      BY <1>2, <1>4, <3>2
    <3>3. QED
      BY <3>1, <3>2
  <2>3. QED
    BY <2>1, <2>2
<1>6. ticks' \in 0..MaxTicks /\ years' \in 0..MaxYears
  BY <1>1 DEF Clock!Transfer, ClockIInv
<1>7. CASE taken = 7
  <2>1. due' = t
    BY <1>7 DEF Clock!Transfer
  <2>2. CASE Clock!InCentury(t)
    <3>1. IsDay(t)
      BY <2>2 DEF Clock!InCentury, IsDay
    <3>2. Shows(regs', t)
      BY <1>2, <1>3, <1>7, <3>1, DayIsTime, WrittenShows
    <3>3. QED
      BY <1>5, <1>6, <2>1, <3>2 DEF Due
  <2>3. CASE ~Clock!InCentury(t)
    BY <1>5, <1>6, <2>1, <2>3 DEF Due
  <2>4. QED
    BY <2>2, <2>3
<1>8. CASE taken = 0
  <2>1. due' = due
    BY <1>8 DEF Clock!Transfer
  <2>2. \A a \in Clock!Registers : regs'[a] = regs[a]
    BY <1>4, <1>8
  <2>3. \A a \in {2, 3, 4, 5, 7, 8} : regs'[a] = regs[a]
    BY <2>2 DEF Clock!Registers
  <2>4. QED
    BY <1>5, <1>6, <2>1, <2>3 DEF ClockIInv, Due, Shows
<1>9. CASE taken \in 1..6
  BY <1>5, <1>6, <1>9 DEF Clock!Transfer, Due
<1>10. QED
  BY <1>1, <1>7, <1>8, <1>9

\* A transfer writes bytes, and only the registers it names.
LEMMA WriteBytes ==
  ASSUME NEW r \in [Clock!Registers -> Clock!Uint8], NEW first \in Nat, NEW taken \in Nat, NEW bytes,
         \A k \in 1..taken : bytes[k] \in Clock!Uint8
  PROVE  LET w == Clock!IIC_Write_Buf(r, first, bytes, taken)
         IN  /\ w \in [Clock!Registers -> Clock!Uint8]
             /\ \A a \in Clock!Registers : a \notin first..(first + taken - 1) => w[a] = r[a]
<1> DEFINE w == Clock!IIC_Write_Buf(r, first, bytes, taken)
<1>1. w = [a \in Clock!Registers |-> IF a \in first..(first + taken - 1)
                                    THEN bytes[a - first + 1] ELSE r[a]]
  BY DEF Clock!IIC_Write_Buf
<1>2. \A a : a \in first..(first + taken - 1) => a - first + 1 \in 1..taken
  OBVIOUS
<1>3. \A a \in Clock!Registers : a \in first..(first + taken - 1) => bytes[a - first + 1] \in Clock!Uint8
  BY <1>2
<1> HIDE DEF w
<1>4. QED
  BY <1>1, <1>3 DEF w

\* The three transfers of Timer_IC_Init leave the time alone.
LEMMA TimerInitStep ==
  ASSUME ClockIInv, Clock!Timer_IC_Init
  PROVE  ClockIInv'
<1>1. PICK s \in {0, 2}, a \in {0, 4}, c \in {0, 3} :
        regs' = Clock!IIC_Write_Buf(Clock!IIC_Write_Buf(Clock!IIC_Write_Buf(regs, 0, <<0, 0>>, s),
                                           9, <<128, 128, 128, 128>>, a), 13, <<0, 0, 0>>, c)
  BY DEF Clock!Timer_IC_Init
<1> DEFINE one == Clock!IIC_Write_Buf(regs, 0, <<0, 0>>, s)
           two == Clock!IIC_Write_Buf(one, 9, <<128, 128, 128, 128>>, a)
           three == Clock!IIC_Write_Buf(two, 13, <<0, 0, 0>>, c)
           Rest == {2, 3, 4, 5, 7, 8}
<1>2. Rest \subseteq Clock!Registers /\ regs' = three
  BY <1>1 DEF Clock!Registers
<1>3. one \in [Clock!Registers -> Clock!Uint8] /\ \A n \in Rest : one[n] = regs[n]
  <2>1. \A k \in 1..s : <<0, 0>>[k] \in Clock!Uint8
    BY DEF Clock!Uint8
  <2>2. \A n \in Rest : n \notin 0..(0 + s - 1)
    OBVIOUS
  <2>3. regs \in [Clock!Registers -> Clock!Uint8] /\ s \in Nat
    BY DEF ClockIInv
  <2> HIDE DEF Rest
  <2>4. QED
    BY <1>2, <2>1, <2>2, <2>3, WriteBytes
<1> HIDE DEF one
<1>4. two \in [Clock!Registers -> Clock!Uint8] /\ \A n \in Rest : two[n] = one[n]
  <2>1. \A k \in 1..a : <<128, 128, 128, 128>>[k] \in Clock!Uint8
    BY DEF Clock!Uint8
  <2>2. \A n \in Rest : n \notin 9..(9 + a - 1)
    OBVIOUS
  <2> HIDE DEF Rest
  <2>3. a \in Nat
    OBVIOUS
  <2>4. QED
    BY <1>2, <1>3, <2>1, <2>2, <2>3, WriteBytes
<1> HIDE DEF two
<1>5. three \in [Clock!Registers -> Clock!Uint8] /\ \A n \in Rest : three[n] = two[n]
  <2>1. \A k \in 1..c : <<0, 0, 0>>[k] \in Clock!Uint8
    BY DEF Clock!Uint8
  <2>2. \A n \in Rest : n \notin 13..(13 + c - 1)
    OBVIOUS
  <2> HIDE DEF Rest
  <2>3. c \in Nat
    OBVIOUS
  <2>4. QED
    BY <1>2, <1>4, <2>1, <2>2, <2>3, WriteBytes
<1> HIDE DEF three
<1>6. \A n \in Rest : regs'[n] = regs[n]
  BY <1>2, <1>3, <1>4, <1>5
<1>7. /\ phase' = "reset" /\ due' = due /\ unset' = unset /\ ticks' = ticks
      /\ years' = years
  BY DEF Clock!Timer_IC_Init
<1>8. QED
  BY <1>2, <1>5, <1>6, <1>7 DEF ClockIInv, Due, Shows

\* A second passes.
LEMMA TickStep ==
  ASSUME Clock!ClockAssumption, ClockIInv, Clock!Tick
  PROVE  ClockIInv'
<1>1. /\ ticks' \in 0..MaxTicks /\ phase' = phase /\ unset' = unset /\ years' \in 0..MaxYears
      /\ regs' = IF Clock!Counts(regs) THEN Clock!Counted(regs) ELSE regs
      /\ due' = IF due # Unknown /\ Clock!InCentury(due) /\ Clock!InCentury(Clock!NextSecond(due))
                THEN Clock!NextSecond(due) ELSE Unknown
  BY DEF Clock!Tick, ClockIInv, Clock!ClockAssumption
<1>2. regs \in [Clock!Registers -> Clock!Uint8]
  BY DEF ClockIInv
<1>3. regs' \in [Clock!Registers -> Clock!Uint8]
  BY <1>1, <1>2, CountedRegs
<1>4. CASE due = Unknown \/ ~Clock!InCentury(due)
  BY <1>1, <1>3, <1>4 DEF ClockIInv, Due
<1>5. CASE due # Unknown /\ Clock!InCentury(due)
  <2>1. IsDay(due) /\ Shows(regs, due)
    BY <1>5 DEF ClockIInv, Due, IsDay, Clock!InCentury
  <2>2. PICK i \in 0..6 : CountsAt(due, EndsHere(due), i)
    BY SomePlaceCounts
  <2>3. i \in 1..6
    BY <2>1, <2>2, SamePlaceCounts
  <2>4. Clock!NextSecond(due) = Onward(due, i)
    BY <2>2, LaterIsOnward DEF Clock!NextSecond, EndsHere
  <2>5. due[1] \in 2000..2099
    BY <2>1 DEF IsDay
  <2>6. CASE due[1] < 2099 \/ i > 1
    <3>1. Clock!Counts(regs) /\ Shows(Clock!Counted(regs), Onward(due, i)) /\ IsDay(Onward(due, i))
      BY <1>2, <2>1, <2>2, <2>3, <2>6, CountedShows
    <3>2. due' = Onward(due, i)
      BY <1>1, <1>5, <2>4, <3>1 DEF Clock!InCentury, IsDay
    <3>3. Clock!IsDate(due') /\ Shows(regs', due')
      BY <1>1, <3>1, <3>2 DEF IsDay
    <3>4. QED
      BY <1>1, <1>3, <3>3 DEF ClockIInv, Due
  <2>7. CASE due[1] = 2099 /\ i = 1
    <3>1. Onward(due, i)[1] = 2100
      BY <2>7 DEF Onward
    <3>2. due' = Unknown
      BY <1>1, <1>5, <2>4, <3>1 DEF Clock!InCentury
    <3>3. QED
      BY <1>1, <1>3, <3>2 DEF ClockIInv, Due
  <2>8. QED
    BY <2>3, <2>5, <2>6, <2>7
<1>6. QED
  BY <1>4, <1>5

\* The value of Timer_IC_Reset_Time is a date.
LEMMA ResetIsDate == Clock!IsDate(<<2018, 1, 1, 0, 0, 0>>)
BY DEF Clock!IsDate, Clock!DaysIn

LEMMA ClockInductive ==
  ASSUME Clock!ClockAssumption
  PROVE  /\ Init => ClockIInv
         /\ ClockIInv /\ [Next]_allVars => ClockIInv'
<1> DEFINE Filled(v) == [a \in Clock!Registers |-> v]
<1>1. \A v \in PowerUp : Filled(v) \in [Clock!Registers -> Clock!Uint8]
  BY DEF Clock!ClockAssumption
<1>2. 0 \in 0..MaxTicks /\ 0 \in 0..MaxYears
  BY DEF Clock!ClockAssumption
<1>3. Init => ClockIInv
  BY <1>1, <1>2 DEF Init, Clock!Init, ClockIInv, Due
<1>4. ClockIInv /\ [Next]_allVars => ClockIInv'
  <2> SUFFICES ASSUME ClockIInv, [Next]_allVars PROVE ClockIInv'
    OBVIOUS
  <2>1. CASE Clock!Timer_IC_Init
    BY <2>1, TimerInitStep
  <2>2. CASE Clock!Timer_IC_Reset_Time
    <3>1. PICK taken \in Taken : /\ Clock!Transfer(<<2018, 1, 1, 0, 0, 0>>, taken)
                                 /\ unset' = (unset \/ taken = 7)
      BY <2>2 DEF Clock!Timer_IC_Reset_Time
    <3>2. phase' = "run"
      BY <2>2 DEF Clock!Timer_IC_Reset_Time
    <3>3. unset' \in BOOLEAN
      BY <3>1 DEF ClockIInv
    <3>4. QED
      BY <3>1, <3>2, <3>3, ResetIsDate, TransferStep DEF ClockIInv
  <2>3. CASE \E t \in Dates : Clock!Update_UnixTime(t)
    <3>1. PICK t \in Dates, taken \in Taken : /\ Clock!Transfer(t, taken)
                                 /\ unset' = (unset /\ taken < 7)
      BY <2>3 DEF Clock!Update_UnixTime
    <3>2. phase' = phase
      BY <2>3 DEF Clock!Update_UnixTime
    <3>3. unset' \in BOOLEAN
      BY <3>1 DEF ClockIInv
    <3>4. Clock!IsDate(t)
      BY DEF Clock!ClockAssumption
    <3>5. /\ regs' \in [Clock!Registers -> Clock!Uint8]
          /\ ticks' \in 0..MaxTicks /\ years' \in 0..MaxYears
          /\ Due'
      BY <3>1, <3>4, TransferStep
    <3>6. QED
      BY <3>2, <3>3, <3>5 DEF ClockIInv
  <2>4. CASE Clock!Tick
    BY <2>4, TickStep
  <2>5. CASE Clock!PowerOn
    <3>1. phase' = "poweron"
      BY <2>5 DEF Clock!PowerOn
    <3>2. CASE UNCHANGED <<regs, due, unset, ticks, years>>
      BY <3>1, <3>2 DEF ClockIInv, Due, Shows
    <3>3. CASE /\ \E v \in PowerUp : regs' = Filled(v)
               /\ due' = Unknown /\ unset' = FALSE /\ ticks' = 0 /\ years' = 0
      BY <1>1, <1>2, <3>1, <3>3 DEF ClockIInv, Due
    <3>4. QED
      BY <2>5, <3>2, <3>3 DEF Clock!PowerOn
  <2>6. CASE UNCHANGED clockVars
    BY <2>6 DEF ClockIInv, Due, Shows, clockVars
  <2>7. QED
    BY <2>1, <2>2, <2>3, <2>4, <2>5, <2>6 DEF Next, allVars, Clock!Next
<1>5. QED
  BY <1>3, <1>4

(***************************************************************************)
(* Whenever a transfer breaks off and whatever the unused bits are: while  *)
(* a time of the years 2000 to 2099 that was written wholly is due, both   *)
(* readers give that time and the seconds since, over every end of a       *)
(* minute, hour, day, month and year until 2099 is over.                   *)
(***************************************************************************)
THEOREM ClockIsRight ==
  ASSUME Clock!ClockAssumption
  PROVE  Spec => []ClockKeepsTime
<1>1. (Init => ClockIInv) /\ (ClockIInv /\ [Next]_allVars => ClockIInv')
  BY ClockInductive
<1>2. ClockIInv => ClockKeepsTime
  <2> SUFFICES ASSUME ClockIInv, due # Unknown, Clock!InCentury(due), NEW noise \in BOOLEAN
               PROVE  Clock!Fields(Clock!Shown(noise)) = due
    BY DEF ClockKeepsTime, Clock!ClockKeepsTime, Clock!ShowsDue, Clock!Read_UnixTime,
           Clock!Read_UTCtime
  <2>1. IsDay(due) /\ Shows(regs, due)
    BY DEF ClockIInv, Due, IsDay, Clock!InCentury
  <2>2. QED
    BY <2>1, DayIsTime, ShownIsRead DEF Clock!Shown
<1>3. QED
  BY <1>1, <1>2, PTL DEF Spec

\* The year of a clock that was reset and not set since: no part of a setting
\* that broke off reaches it, and only the chip's year ends move it.
UnsetIInv ==
  unset => \E y \in 18..(18 + years) : regs[8] = Clock!Bin_To_Bcd(y)

\* The year a reader makes of the registers is that of the last one.
LEMMA ShownYear ==
  ASSUME NEW y \in 0..99, NEW r \in [Clock!Registers -> Clock!Uint8],
         r[8] = Clock!Bin_To_Bcd(y), NEW noise \in BOOLEAN
  PROVE  Clock!Fields(Clock!IIC_Read_Buf(Clock!Seen(r, noise), Clock!VL_seconds, Clock!EmptyBuf, 7))[1]
           = 2000 + y
<1> DEFINE buf == Clock!IIC_Read_Buf(Clock!Seen(r, noise), Clock!VL_seconds, Clock!EmptyBuf, 7)
<1>1. r[8] \in Clock!Uint8
  BY DEF Clock!Registers
<1>2. buf[7] = r[8]
  BY <1>1, ReadBytes
<1>3. Clock!Bcd_To_Bin(Clock!Bin_To_Bcd(y)) = y
  BY BcdRoundTrip
<1> HIDE DEF buf
<1>4. Clock!Fields(buf)[1] = 2000 + y
  BY <1>2, <1>3 DEF Clock!Fields
<1>5. QED
  BY <1>4 DEF buf

\* A transfer sets the year wholly or not at all.
LEMMA TransferYear ==
  ASSUME Clock!ClockAssumption, ClockIInv, NEW t, Clock!IsDate(t), NEW taken \in Taken,
         Clock!Transfer(t, taken)
  PROVE  taken < 7 => regs'[8] = regs[8] /\ years' = years
<1>1. taken \in 0..7 /\ regs \in [Clock!Registers -> Clock!Uint8]
  BY DEF Clock!ClockAssumption, ClockIInv
<1>2. ASSUME taken < 7 PROVE 8 \notin 2..(2 + taken - 1)
  BY <1>1, <1>2
<1>3. 8 \in Clock!Registers
  BY DEF Clock!Registers
<1>4. QED
  BY <1>1, <1>2, <1>3 DEF Clock!Transfer, Clock!IIC_Write_Buf, Clock!VL_seconds

\* The reset writes the year 18, or leaves the year that was there.
LEMMA ResetYearStep ==
  ASSUME Clock!ClockAssumption, ClockIInv, UnsetIInv, Clock!Timer_IC_Reset_Time
  PROVE  UnsetIInv'
<1> DEFINE t == <<2018, 1, 1, 0, 0, 0>>
<1>1. PICK taken \in Taken : Clock!Transfer(t, taken) /\ unset' = (unset \/ taken = 7)
  BY DEF Clock!Timer_IC_Reset_Time
<1>2. taken \in 0..7
  BY DEF Clock!ClockAssumption
<1>3. CASE taken < 7
  <2>1. regs'[8] = regs[8] /\ years' = years
    <3>1. Clock!IsDate(t)
      BY ResetIsDate
    <3> HIDE DEF t
    <3>2. taken < 7 => regs'[8] = regs[8] /\ years' = years
      BY <1>1, <3>1, TransferYear
    <3>3. QED
      BY <1>3, <3>2
  <2>2. taken # 7
    BY <1>2, <1>3
  <2>3. unset' => unset
    <3>1. unset' = (unset \/ taken = 7) /\ unset \in BOOLEAN
      BY <1>1 DEF ClockIInv
    <3>2. QED
      BY <2>2, <3>1
  <2>4. QED
    BY <2>1, <2>3 DEF UnsetIInv
<1>4. CASE taken = 7
  <2>1. years' = 0 /\ due' = t
    BY <1>1, <1>4 DEF Clock!Transfer
  <2>2. IsDay(t)
    BY ResetIsDate DEF IsDay
  <2>3. regs' = Clock!IIC_Write_Buf(regs, Clock!VL_seconds, Clock!TimeBuf(t), 7)
    BY <1>1, <1>4 DEF Clock!Transfer
  <2>4. Shows(regs', t)
    BY <2>2, <2>3, DayIsTime, WrittenShows DEF ClockIInv
  <2>5. regs'[8] = Clock!Bin_To_Bcd(18)
    BY <2>4 DEF Shows
  <2>6. QED
    BY <2>1, <2>5 DEF UnsetIInv
<1>5. QED
  BY <1>2, <1>3, <1>4

\* A second passes; at the end of a year the year is one more.
LEMMA TickYearStep ==
  ASSUME Clock!ClockAssumption, MaxYears < 81, ClockIInv, UnsetIInv, Clock!Tick
  PROVE  UnsetIInv'
<1> SUFFICES ASSUME unset' PROVE \E y \in 18..(18 + years') : regs'[8] = Clock!Bin_To_Bcd(y)
  BY DEF UnsetIInv
<1>1. /\ years \in 0..MaxYears /\ years' \in 0..MaxYears /\ MaxYears \in Nat /\ unset
      /\ regs \in [Clock!Registers -> Clock!Uint8]
      /\ years' = IF regs'[8] = regs[8] THEN years ELSE years + 1
      /\ regs' = IF Clock!Counts(regs) THEN Clock!Counted(regs) ELSE regs
  BY DEF Clock!Tick, ClockIInv, Clock!ClockAssumption, Clock!Place
<1>2. PICK y \in 18..(18 + years) : regs[8] = Clock!Bin_To_Bcd(y)
  BY <1>1 DEF UnsetIInv
<1>3. y \in 0..98
  BY <1>1
<1>4. CASE ~Clock!Counts(regs)
  BY <1>1, <1>2, <1>4
<1>5. CASE Clock!Counts(regs)
  <2> DEFINE d == Clock!Digits(regs)
             last == Clock!Last(d, 99, d[1] % 4 = 0)
             later == Clock!Later(d, last)
  <2>1. regs'[8] = Clock!Bin_To_Bcd(later[1])
    <3>1. \A j \in 1..6 : \E n \in 0..99 :
            n = later[j] /\ Clock!Counted(regs)[Clock!Place[j]] = Clock!Bin_To_Bcd(n)
      BY <1>1, <1>5, CountedRegs
    <3>2. Clock!Place[1] = 8
      BY DEF Clock!Place
    <3> HIDE DEF later
    <3>3. Clock!Counted(regs)[Clock!Place[1]] = Clock!Bin_To_Bcd(later[1])
      BY <3>1
    <3>4. QED
      BY <1>1, <1>5, <3>2, <3>3
  <2>2. d[1] = y
    <3>1. d[1] = 10 * ((regs[8] % 256) \div 16) + ((regs[8] % 256) % 16)
      BY DEF Clock!Digits, Clock!Place, Clock!Width
    <3>2. PICK v \in 0..153 : v = regs[8] /\ 10 * (v \div 16) + (v % 16) = y
      BY <1>2, <1>3, BcdDigits
    <3>3. v % 256 = v
      OBVIOUS
    <3> HIDE DEF d
    <3>4. QED
      BY <3>1, <3>2, <3>3
  <2>3. last[1] = 99
    BY DEF Clock!Last
  <2> HIDE DEF d, last
  <2>4. PICK i \in 0..6 : CountsAt(d, last, i)
    BY SomePlaceCounts
  <2>5. i # 0
    <3>1. ASSUME i = 0 PROVE FALSE
      <4>1. 1 \in (i + 1)..6
        BY <3>1
      <4>2. ~(d[1] < last[1])
        BY <2>4, <4>1 DEF CountsAt
      <4>3. QED
        BY <1>3, <2>2, <2>3, <4>2
    <3>2. QED
      BY <3>1
  <2>6. later = Onward(d, i)
    BY <2>4, LaterIsOnward
  <2>7. later[1] = y \/ later[1] = y + 1
    BY <2>2, <2>5, <2>6 DEF Onward
  <2> HIDE DEF later
  <2>8. CASE regs'[8] = regs[8]
    BY <1>1, <1>2, <2>8
  <2>9. CASE regs'[8] # regs[8]
    <3>1. later[1] = y + 1
      BY <1>2, <2>1, <2>7, <2>9
    <3>2. y + 1 \in 18..(18 + years')
      BY <1>1, <2>9
    <3>3. QED
      BY <2>1, <3>1, <3>2
  <2>10. QED
    BY <2>8, <2>9
<1>6. QED
  BY <1>4, <1>5

LEMMA UnsetInductive ==
  ASSUME Clock!ClockAssumption, MaxYears < 81
  PROVE  /\ Init => UnsetIInv
         /\ ClockIInv /\ UnsetIInv /\ [Next]_allVars => UnsetIInv'
<1>1. Init => UnsetIInv
  BY DEF Init, Clock!Init, UnsetIInv
<1>2. ClockIInv /\ UnsetIInv /\ [Next]_allVars => UnsetIInv'
  <2> SUFFICES ASSUME ClockIInv, UnsetIInv, [Next]_allVars PROVE UnsetIInv'
    OBVIOUS
  <2>1. CASE Clock!Timer_IC_Init
    <3>1. regs'[8] = regs[8]
      <4>1. 8 \in Clock!Registers /\ regs \in [Clock!Registers -> Clock!Uint8]
        BY DEF Clock!Registers, ClockIInv
      <4>2. \A s \in {0, 2}, a \in {0, 4}, c \in {0, 3} :
              8 \notin 0..(0 + s - 1) /\ 8 \notin 9..(9 + a - 1) /\ 8 \notin 13..(13 + c - 1)
        OBVIOUS
      <4>3. QED
        BY <2>1, <4>1, <4>2 DEF Clock!Timer_IC_Init, Clock!IIC_Write_Buf
    <3>2. unset' = unset /\ years' = years
      BY <2>1 DEF Clock!Timer_IC_Init
    <3>3. QED
      BY <3>1, <3>2 DEF UnsetIInv
  <2>2. CASE Clock!Timer_IC_Reset_Time
    BY <2>2, ResetYearStep
  <2>3. CASE \E t \in Dates : Clock!Update_UnixTime(t)
    <3>1. PICK t \in Dates, taken \in Taken : /\ Clock!Transfer(t, taken)
                                              /\ unset' = (unset /\ taken < 7)
      BY <2>3 DEF Clock!Update_UnixTime
    <3>2. Clock!IsDate(t)
      BY DEF Clock!ClockAssumption
    <3>3. taken < 7 => regs'[8] = regs[8] /\ years' = years
      BY <3>1, <3>2, TransferYear
    <3>4. unset' => unset /\ taken < 7
      <4>1. unset' = (unset /\ taken < 7) /\ unset \in BOOLEAN /\ taken \in 0..7
        BY <3>1 DEF ClockIInv, Clock!ClockAssumption
      <4>2. QED
        BY <4>1
    <3>5. QED
      BY <3>3, <3>4 DEF UnsetIInv
  <2>4. CASE Clock!Tick
    BY <2>4, TickYearStep
  <2>5. CASE Clock!PowerOn
    <3>1. CASE UNCHANGED <<regs, due, unset, ticks, years>>
      BY <3>1 DEF UnsetIInv
    <3>2. CASE unset' = FALSE
      BY <3>2 DEF UnsetIInv
    <3>3. QED
      BY <2>5, <3>1, <3>2 DEF Clock!PowerOn
  <2>6. CASE UNCHANGED clockVars
    BY <2>6 DEF UnsetIInv, clockVars
  <2>7. QED
    BY <2>1, <2>2, <2>3, <2>4, <2>5, <2>6 DEF Next, allVars, Clock!Next
<1>3. QED
  BY <1>1, <1>2

(***************************************************************************)
(* However often a setting breaks off, and wherever: as long as the clock  *)
(* has not counted as many year ends as lie between its reset value and    *)
(* the time main compares it with, a clock that was reset and never wholly *)
(* set is read as before that time.                                        *)
(***************************************************************************)
THEOREM UnsetIsNoticed ==
  ASSUME Clock!ClockAssumption, Synced[1] \in 2000..2099, 2018 + MaxYears < Synced[1]
  PROVE  Spec => []HalfSetNoticed
<1>0. MaxYears \in Nat /\ MaxYears < 81
  BY DEF Clock!ClockAssumption
<1>1. (Init => ClockIInv) /\ (ClockIInv /\ [Next]_allVars => ClockIInv')
  BY ClockInductive
<1>2. (Init => UnsetIInv) /\ (ClockIInv /\ UnsetIInv /\ [Next]_allVars => UnsetIInv')
  BY <1>0, UnsetInductive
<1>3. ClockIInv /\ UnsetIInv => HalfSetNoticed
  <2> SUFFICES ASSUME ClockIInv, UnsetIInv, unset, NEW noise \in BOOLEAN
               PROVE  Clock!Before(Clock!Fields(Clock!Shown(noise)), Synced)
    BY DEF HalfSetNoticed, Clock!HalfSetNoticed, Clock!Read_UnixTime
  <2>1. PICK y \in 18..(18 + years) : regs[8] = Clock!Bin_To_Bcd(y)
    BY DEF UnsetIInv
  <2>2. years \in 0..MaxYears /\ regs \in [Clock!Registers -> Clock!Uint8]
    BY DEF ClockIInv
  <2>3. y \in 0..99 /\ 2000 + y < Synced[1]
    BY <1>0, <2>2
  <2>4. Clock!Fields(Clock!Shown(noise))[1] = 2000 + y
    BY <2>1, <2>2, <2>3, ShownYear DEF Clock!Shown
  <2>5. \A j \in 1..(1 - 1) : Clock!Fields(Clock!Shown(noise))[j] = Synced[j]
    OBVIOUS
  <2>6. Clock!Fields(Clock!Shown(noise))[1] < Synced[1]
    BY <2>3, <2>4
  <2>7. QED
    BY <2>5, <2>6 DEF Clock!Before
<1>4. QED
  BY <1>1, <1>2, <1>3, PTL DEF Spec
------------------------------------------------------------------------------
(***************************************************************************)
(* The flash, with the pages of the chip and any number of them.           *)
(***************************************************************************)

\* The cells as the last call leaves them: as asked, but for whole pages.
Reached ==
  [a \in Flash!Addresses |-> IF a \in wholePages THEN {Flash!Old} ELSE flashAsked[a]]

\* The same of a write of n bytes at x.
FlashAskedOf(x, n) ==
  [a \in Flash!Addresses |->
     IF a \in x..(x + n - 1) /\ ~Flash!WholePage(a, x, n)
     THEN {Flash!Old, a - x} ELSE {Flash!Old}]

\* The loop of a write of n bytes at x before turn i: b bytes are behind it and
\* r are next.
Turn(x, n, b, i, r) ==
  /\ x + n <= FlashSize
  /\ \/ i = 0 /\ b = 0 /\ r = Flash!FirstPiece(x, n)
     \/ /\ i > 0 /\ 256 * (i - 1) < b /\ b < n
        /\ (x + b) % 256 = 0 /\ r = Flash!PieceOf(n - b, 256)

\* A write of n bytes at x under way: the cells up to the next piece are as
\* asked, unless a piece was refused, and those from there on are untouched.
Writing(x, n, b, i, r) ==
  /\ Turn(x, n, b, i, r)
  /\ piece = [addr |-> x + b, buffer |-> b, Size |-> n - b, i |-> i,
              remain |-> r, n_i |-> (n \div 256) + 2]
  /\ Reached = FlashAskedOf(x, n)
  /\ \A a \in Flash!Addresses :
       /\ a \notin x..(x + b - 1) => flash[a] = {Flash!Old}
       /\ ~refused /\ a \in x..(x + b - 1) => flash[a] = Reached[a]

FlashCells == [Flash!Addresses -> SUBSET ({Flash!Old} \cup Flash!Addresses)]

\* The inductive invariant.
FlashIInv ==
  /\ {busy, down, refused} \subseteq BOOLEAN
  /\ flash \in FlashCells /\ Reached \in FlashCells /\ flashAsked \in FlashCells
  /\ wholePages \subseteq Flash!Addresses
  /\ \A a \in Flash!Addresses : flash[a] \in {{Flash!Old}, Reached[a]}
  /\ IF Flash!Idle THEN ~refused => flash = Reached
     ELSE \E x, n, b, i, r \in Nat : Writing(x, n, b, i, r)

\* What the next piece is of the whole: its bytes lie in one page, it is a whole
\* page or one that the write does not fill, and not a byte is left out.
NextOf(x, n, b, r) ==
  /\ r \in 0..256 /\ b + r <= n
  /\ r = 0 => n = 0
  /\ r = 256 => (x + b) % 256 = 0
  /\ b + r < n => (x + b + r) % 256 = 0
  /\ (x + b) % 256 = 0 \/ b = 0
  /\ ((x + b) % 256) + r <= 256

LEMMA TurnPiece ==
  ASSUME Byte = 256, NEW x \in Nat, NEW n \in Nat, NEW b \in Nat, NEW i \in Nat, NEW r \in Nat,
         Turn(x, n, b, i, r)
  PROVE  NextOf(x, n, b, r)
<1>1. PICK q \in Nat, m \in 0..255 : x = 256 * q + m
  <2>1. x \div 256 \in Nat /\ x % 256 \in 0..255 /\ x = 256 * (x \div 256) + (x % 256)
    OBVIOUS
  <2>2. QED
    BY <2>1
<1>2. CASE i = 0 /\ b = 0 /\ r = Flash!FirstPiece(x, n)
  <2>1. x % 256 = m
    BY <1>1
  <2>2. r = IF n > 256 - m THEN 256 - m ELSE n
    BY <1>2, <2>1 DEF Flash!FirstPiece, Flash!PieceOf
  <2>3. (x + b) % 256 = m
    BY <1>1, <1>2
  <2>4. r = 256 - m => (x + b + r) % 256 = 0
    BY <1>1, <1>2
  <2>5. r \in 0..256 /\ b + r <= n /\ (r = 0 => n = 0) /\ (r = 256 => m = 0)
    BY <1>1, <1>2, <2>2
  <2>6. (b + r < n => r = 256 - m) /\ m + r <= 256
    BY <1>1, <1>2, <2>2
  <2>7. QED
    BY <1>2, <2>3, <2>4, <2>5, <2>6 DEF NextOf
<1>3. CASE i > 0 /\ b < n /\ (x + b) % 256 = 0 /\ r = Flash!PieceOf(n - b, 256)
  <2>1. r = IF n - b > 256 THEN 256 ELSE n - b
    BY <1>3 DEF Flash!PieceOf
  <2>2. (x + b + 256) % 256 = 0
    BY <1>3
  <2>3. QED
    BY <1>3, <2>1, <2>2 DEF NextOf
<1>4. QED
  BY <1>2, <1>3 DEF Turn

\* The loop does not run out of turns before it has written everything.
LEMMA EnoughTurns ==
  ASSUME NEW x \in Nat, NEW n \in Nat, NEW b \in Nat, NEW i \in Nat, NEW r \in Nat,
         Turn(x, n, b, i, r)
  PROVE  i # (n \div 256) + 2
<1>1. PICK q \in Nat : n \div 256 = q /\ n < 256 * q + 256
  <2>1. n \div 256 \in Nat /\ n < 256 * (n \div 256) + 256
    OBVIOUS
  <2>2. QED
    BY <2>1
<1>2. i = 0 \/ (256 * (i - 1) < b /\ b < n)
  BY DEF Turn
<1>3. QED
  BY <1>1, <1>2

\* The next turn.
LEMMA TurnStep ==
  ASSUME Byte = 256, NEW x \in Nat, NEW n \in Nat, NEW b \in Nat, NEW i \in Nat, NEW r \in Nat,
         Turn(x, n, b, i, r), b + r # n
  PROVE  /\ Flash!PieceOf(n - b - r, 256) \in Nat
         /\ Turn(x, n, b + r, i + 1, Flash!PieceOf(n - b - r, 256))
<1>1. NextOf(x, n, b, r)
  BY TurnPiece
<1>2. b + r < n /\ r \in Nat \ {0} /\ (x + b + r) % 256 = 0
  BY <1>1 DEF NextOf
<1>3. \/ i = 0 /\ b = 0
      \/ i > 0 /\ 256 * (i - 1) < b /\ b < n /\ r = Flash!PieceOf(n - b, 256)
  BY DEF Turn
<1>4. i > 0 => r = 256
  BY <1>2, <1>3 DEF Flash!PieceOf
<1>5. 256 * i < b + r
  BY <1>2, <1>3, <1>4
<1>6. i + 1 > 0 /\ 256 * ((i + 1) - 1) < b + r /\ (x + (b + r)) % 256 = 0 /\ (n - (b + r)) = n - b - r
  BY <1>2, <1>5
<1>7. x + n <= FlashSize
  BY DEF Turn
<1>8. Flash!PieceOf(n - b - r, 256) \in Nat
  BY <1>2 DEF Flash!PieceOf
<1>9. QED
  BY <1>2, <1>6, <1>7, <1>8 DEF Turn

\* Which cells a piece programs, and with which bytes.
Lands(x, n, b, r, a) ==
  /\ (a \div 256 = (x + b) \div 256 /\ (a - (x + b)) % 256 < r % 256)
       <=> (a \in (x + b)..(x + b + r - 1) /\ ~Flash!WholePage(a, x, n))
  /\ a \in (x + b)..(x + b + r - 1) => b + ((a - (x + b)) % 256) = a - x

LEMMA PieceLands ==
  ASSUME Byte = 256, NEW x \in Nat, NEW n \in Nat, NEW b \in Nat, NEW i \in Nat, NEW r \in Nat,
         Turn(x, n, b, i, r), NEW a \in Nat
  PROVE  Lands(x, n, b, r, a)
<1>1. NextOf(x, n, b, r)
  BY TurnPiece
<1>2. PICK q \in Nat, m \in 0..255 : x + b = 256 * q + m
  <2>1. (x + b) \div 256 \in Nat /\ (x + b) % 256 \in 0..255
        /\ x + b = 256 * ((x + b) \div 256) + ((x + b) % 256)
    OBVIOUS
  <2>2. QED
    BY <2>1
<1>3. PICK p \in Nat, l \in 0..255 : a = 256 * p + l
  <2>1. a \div 256 \in Nat /\ a % 256 \in 0..255 /\ a = 256 * (a \div 256) + (a % 256)
    OBVIOUS
  <2>2. QED
    BY <2>1
<1>4. a \div 256 = p /\ (x + b) \div 256 = q /\ (x + b) % 256 = m
  BY <1>2, <1>3
<1>5. r \in 0..256 /\ b + r <= n /\ (r = 256 => m = 0) /\ (m = 0 \/ b = 0) /\ m + r <= 256
  BY <1>1, <1>4 DEF NextOf
<1>6. Flash!WholePage(a, x, n) <=> x <= 256 * p /\ 256 * p + 256 <= x + n
  BY <1>4 DEF Flash!WholePage
<1>7. r < 256 => (r = n - b \/ (b = 0 /\ r = 256 - m /\ m > 0))
  <2>1. (b = 0 /\ r = Flash!FirstPiece(x, n)) \/ r = Flash!PieceOf(n - b, 256)
    BY DEF Turn
  <2>2. b = 0 /\ r = Flash!FirstPiece(x, n) => r = IF n > 256 - m THEN 256 - m ELSE n
    BY <1>4 DEF Flash!FirstPiece, Flash!PieceOf
  <2>3. r = Flash!PieceOf(n - b, 256) => r = IF n - b > 256 THEN 256 ELSE n - b
    BY DEF Flash!PieceOf
  <2>4. QED
    BY <1>5, <2>1, <2>2, <2>3
<1>8. a \in (x + b)..(x + b + r - 1) => p = q /\ l >= m /\ l < m + r
  BY <1>2, <1>3, <1>5
<1>9. p = q => (a - (x + b)) % 256 = IF l >= m THEN l - m ELSE l - m + 256
  BY <1>2, <1>3
<1>10. r < 256 => r % 256 = r
  BY <1>5
<1>11. CASE r = 256
  <2>1. r % 256 = 0 /\ (a - (x + b)) % 256 >= 0
    BY <1>11
  <2>2. a \in (x + b)..(x + b + r - 1) => Flash!WholePage(a, x, n)
    BY <1>2, <1>3, <1>5, <1>6, <1>8, <1>11
  <2>3. a \in (x + b)..(x + b + r - 1) => b + ((a - (x + b)) % 256) = a - x
    BY <1>2, <1>3, <1>8, <1>9
  <2>4. ~((a - (x + b)) % 256 < r % 256)
    BY <2>1
  <2>5. QED
    BY <2>2, <2>3, <2>4 DEF Lands
<1>12. CASE r < 256
  <2>1. a \in (x + b)..(x + b + r - 1) => ~Flash!WholePage(a, x, n)
    BY <1>2, <1>3, <1>5, <1>6, <1>7, <1>8, <1>12
  <2>2. p = q /\ (a - (x + b)) % 256 < r => a \in (x + b)..(x + b + r - 1)
    BY <1>2, <1>3, <1>5, <1>9, <1>12
  <2>3. a \in (x + b)..(x + b + r - 1) =>
          p = q /\ (a - (x + b)) % 256 < r /\ b + ((a - (x + b)) % 256) = a - x
    BY <1>2, <1>3, <1>5, <1>8, <1>9
  <2>4. QED
    BY <1>4, <1>10, <1>12, <2>1, <2>2, <2>3 DEF Lands
<1>13. QED
  BY <1>5, <1>11, <1>12

\* Hence what a taken piece leaves in a cell.
Programs(x, n, b, r, a) ==
  Flash!w25q_WritePage(x + b, b, r)[a] =
    IF Flash!Takes /\ a \in (x + b)..(x + b + r - 1) /\ ~Flash!WholePage(a, x, n)
    THEN flash[a] \cup {a - x} ELSE flash[a]

LEMMA PieceProgrammed ==
  ASSUME Byte = 256, FlashSize \in Nat,
         NEW x \in Nat, NEW n \in Nat, NEW b \in Nat, NEW i \in Nat, NEW r \in Nat,
         Turn(x, n, b, i, r), NEW a \in Flash!Addresses
  PROVE  Programs(x, n, b, r, a)
<1>1. a \in Nat
  BY DEF Flash!Addresses
<1>2. Lands(x, n, b, r, a)
  BY <1>1, PieceLands
<1>3. Flash!w25q_WritePage(x + b, b, r)[a] =
        IF Flash!Takes /\ a \div 256 = (x + b) \div 256 /\ (a - (x + b)) % 256 < r % 256
        THEN flash[a] \cup {b + ((a - (x + b)) % 256)} ELSE flash[a]
  BY DEF Flash!w25q_WritePage
<1>4. QED
  BY <1>2, <1>3, Zenon DEF Lands, Programs

\* The numbers of a turn stay in the chip.
LEMMA FlashAskedIsCells ==
  ASSUME FlashSize \in Nat, NEW x \in Nat, NEW n \in Nat, x + n <= FlashSize
  PROVE  FlashAskedOf(x, n) \in FlashCells
<1>1. \A a \in Flash!Addresses : a \in x..(x + n - 1) => a - x \in Flash!Addresses
  BY DEF Flash!Addresses
<1>2. QED
  BY <1>1 DEF FlashAskedOf, FlashCells

\* The call of a write: its first turn is next.
LEMMA FlashCallStep ==
  ASSUME Byte = 256, FlashSize \in Nat, FlashIInv,
         NEW x \in Flash!Addresses, NEW n \in 0..(FlashSize - x), Flash!w25q_Write_Data(x, n)
  PROVE  FlashIInv'
<1>1. x \in Nat /\ n \in Nat /\ x + n <= FlashSize
  BY DEF Flash!Addresses
<1> DEFINE r == Flash!FirstPiece(x, n)
<1>2. r \in Nat
  <2>1. x % 256 \in 0..255
    BY <1>1
  <2>2. QED
    BY <1>1, <2>1 DEF Flash!FirstPiece, Flash!PieceOf
<1>3. Turn(x, n, 0, 0, r)
  BY <1>1 DEF Turn
<1>4. /\ piece' = [addr |-> x, buffer |-> 0, Size |-> n, i |-> 0,
                   remain |-> r, n_i |-> (n \div 256) + 2]
      /\ flash' = Flash!Held /\ Reached' = FlashAskedOf(x, n)
      /\ refused' = FALSE /\ busy' = busy /\ down' = down
      /\ wholePages' \subseteq Flash!Addresses /\ flashAsked' \in FlashCells
  <2>1. /\ flashAsked' = [a \in Flash!Addresses |->
                           IF a \in x..(x + n - 1) THEN {Flash!Old, a - x} ELSE {Flash!Old}]
        /\ wholePages' = {a \in Flash!Addresses : Flash!WholePage(a, x, n)}
    BY DEF Flash!w25q_Write_Data
  <2>2. Reached' = FlashAskedOf(x, n)
    BY <2>1 DEF Reached, FlashAskedOf
  <2>3. \A a \in Flash!Addresses : a \in x..(x + n - 1) => a - x \in Flash!Addresses
    BY <1>1 DEF Flash!Addresses
  <2>4. flashAsked' \in FlashCells
    BY <2>1, <2>3 DEF FlashCells
  <2>5. QED
    BY <2>1, <2>2, <2>4 DEF Flash!w25q_Write_Data
<1> HIDE DEF r
<1>5. x + 0 = x /\ n - 0 = n
  BY <1>1
<1>6. \A a \in Flash!Addresses : flash'[a] = {Flash!Old}
  BY <1>4 DEF Flash!Held
<1>7. flash' \in FlashCells /\ Reached' \in FlashCells
  BY <1>1, <1>4, FlashAskedIsCells DEF Flash!Held, FlashCells
<1>8. \A a \in Flash!Addresses : a \notin x..(x + 0 - 1)
  BY <1>1 DEF Flash!Addresses
<1>9. Writing(x, n, 0, 0, r)'
  BY <1>3, <1>4, <1>5, <1>6, <1>8 DEF Writing
<1>10. ~Flash!Idle'
  <2>1. piece'.n_i # -1
    BY <1>1, <1>4
  <2>2. QED
    BY <2>1 DEF Flash!Idle, Flash!NoPiece
<1>11. QED
  BY <1>1, <1>2, <1>4, <1>6, <1>7, <1>9, <1>10 DEF FlashIInv

\* A turn of the loop: the next piece, and the end of the call or the next turn.
LEMMA FlashTurnStep ==
  ASSUME Byte = 256, FlashSize \in Nat, FlashIInv, Flash!NextPiece
  PROVE  FlashIInv'
<1>1. PICK x \in Nat, n \in Nat, b \in Nat, i \in Nat, r \in Nat : Writing(x, n, b, i, r)
  BY DEF FlashIInv, Flash!NextPiece
<1>2. /\ Turn(x, n, b, i, r) /\ NextOf(x, n, b, r) /\ i # (n \div 256) + 2
      /\ Reached = FlashAskedOf(x, n)
  BY <1>1, TurnPiece, EnoughTurns DEF Writing
<1>3. /\ piece.addr = x + b /\ piece.buffer = b /\ piece.Size = n - b /\ piece.i = i
      /\ piece.remain = r /\ piece.n_i = (n \div 256) + 2
  BY <1>1 DEF Writing
<1>4. /\ Reached' = Reached /\ flashAsked' = flashAsked /\ wholePages' = wholePages /\ down' = down
      /\ IF r > 0 THEN /\ flash' = Flash!w25q_WritePage(x + b, b, r)
                       /\ refused' = (refused \/ ~Flash!Takes)
                       /\ Flash!w25q_WaitCompleted(busy)
         ELSE flash' = flash /\ refused' = refused /\ busy' = busy
  BY <1>3 DEF Flash!NextPiece, Reached
<1>5. busy' \in BOOLEAN /\ refused' \in BOOLEAN
  BY <1>4 DEF FlashIInv, Flash!w25q_WaitCompleted
<1>6. ASSUME NEW a \in Flash!Addresses
      PROVE  flash'[a] = IF Flash!Takes /\ a \in (x + b)..(x + b + r - 1)
                                        /\ ~Flash!WholePage(a, x, n)
                         THEN flash[a] \cup {a - x} ELSE flash[a]
  <2>1. CASE r > 0
    <3>1. flash' = Flash!w25q_WritePage(x + b, b, r)
      BY <1>4, <2>1
    <3>2. Programs(x, n, b, r, a)
      BY <1>2, PieceProgrammed
    <3>3. QED
      BY <3>1, <3>2, Zenon DEF Programs
  <2>2. CASE r = 0
    <3>1. a \notin (x + b)..(x + b + r - 1)
      BY <2>2 DEF Flash!Addresses
    <3>2. QED
      BY <1>4, <2>2, <3>1
  <2>3. QED
    BY <2>1, <2>2
<1>7. ASSUME NEW a \in Flash!Addresses
      PROVE  /\ a \in x..(x + n - 1) /\ ~Flash!WholePage(a, x, n) => Reached[a] = {Flash!Old, a - x}
             /\ Flash!WholePage(a, x, n) => Reached[a] = {Flash!Old}
             /\ a \in (x + b)..(x + b + r - 1) => a \in x..(x + n - 1) /\ a \notin x..(x + b - 1)
             /\ a \notin x..(x + (b + r) - 1) => a \notin x..(x + b - 1) /\ a \notin (x + b)..(x + b + r - 1)
             /\ a \in x..(x + (b + r) - 1) => a \in x..(x + b - 1) \/ a \in (x + b)..(x + b + r - 1)
  <2>1. a \in Nat /\ b + r <= n /\ r \in Nat
    BY <1>2 DEF Flash!Addresses, NextOf
  <2>2. Reached[a] = IF a \in x..(x + n - 1) /\ ~Flash!WholePage(a, x, n)
                        THEN {Flash!Old, a - x} ELSE {Flash!Old}
    BY <1>2 DEF FlashAskedOf
  <2>3. QED
    BY <2>1, <2>2
<1>8. ASSUME NEW a \in Flash!Addresses
      PROVE  /\ a \notin x..(x + (b + r) - 1) => flash'[a] = {Flash!Old}
             /\ ~refused' /\ a \in x..(x + (b + r) - 1) => flash'[a] = Reached[a]
             /\ flash'[a] \in {{Flash!Old}, Reached[a]}
  <2>1. /\ a \notin x..(x + b - 1) => flash[a] = {Flash!Old}
        /\ ~refused /\ a \in x..(x + b - 1) => flash[a] = Reached[a]
        /\ flash[a] \in {{Flash!Old}, Reached[a]}
    BY <1>1 DEF Writing, FlashIInv
  <2>2. CASE Flash!Takes /\ a \in (x + b)..(x + b + r - 1) /\ ~Flash!WholePage(a, x, n)
    <3>1. flash'[a] = {Flash!Old, a - x}
      BY <1>6, <1>7, <2>1, <2>2
    <3>2. Reached[a] = {Flash!Old, a - x} /\ a \in x..(x + (b + r) - 1)
      BY <1>7, <2>2
    <3>3. QED
      BY <3>1, <3>2
  <2>3. CASE ~(Flash!Takes /\ a \in (x + b)..(x + b + r - 1) /\ ~Flash!WholePage(a, x, n))
    <3>1. flash'[a] = flash[a]
      BY <1>6, <2>3
    <3>2. a \notin x..(x + (b + r) - 1) => flash[a] = {Flash!Old}
      BY <1>7, <2>1
    <3>3. ASSUME ~refused', a \in x..(x + (b + r) - 1)
          PROVE  flash[a] = Reached[a]
      <4>1. ~refused /\ (r > 0 => Flash!Takes)
        BY <1>2, <1>4, <3>3 DEF NextOf, FlashIInv
      <4>2. CASE a \in x..(x + b - 1)
        BY <2>1, <4>1, <4>2
      <4>3. CASE a \in (x + b)..(x + b + r - 1)
        <5>1. r > 0
          BY <4>3
        <5>2. Flash!WholePage(a, x, n)
          BY <2>3, <4>1, <4>3, <5>1
        <5>3. QED
          BY <1>7, <2>1, <4>3, <5>2
      <4>4. QED
        BY <1>7, <3>3, <4>2, <4>3
    <3>4. QED
      BY <2>1, <3>1, <3>2, <3>3
  <2>4. QED
    BY <2>2, <2>3
<1>9. flash' \in FlashCells
  <2>1. flash' = [a \in Flash!Addresses |-> flash'[a]]
    BY <1>4 DEF Flash!w25q_WritePage, FlashIInv, FlashCells
  <2>2. Reached \in FlashCells
    BY DEF FlashIInv
  <2>3. \A a \in Flash!Addresses : flash'[a] \in SUBSET ({Flash!Old} \cup Flash!Addresses)
    BY <1>8, <2>2 DEF FlashCells
  <2>4. QED
    BY <2>1, <2>3 DEF FlashCells
<1>10. CASE b + r = n
  <2>1. n - b - r = 0
    BY <1>10
  <2>2. piece' = Flash!NoPiece
    BY <1>3, <2>1 DEF Flash!NextPiece
  <2>3. ASSUME ~refused' PROVE flash' = Reached
    <3>1. ASSUME NEW a \in Flash!Addresses, a \notin x..(x + n - 1) PROVE Reached[a] = {Flash!Old}
      BY <1>2, <3>1 DEF FlashAskedOf
    <3>2. \A a \in Flash!Addresses : flash'[a] = Reached[a]
      BY <1>8, <1>10, <2>3, <3>1
    <3>3. Reached \in FlashCells
      BY DEF FlashIInv
    <3>4. QED
      BY <1>9, <3>2, <3>3 DEF FlashCells
  <2>4. Flash!Idle'
    BY <2>2 DEF Flash!Idle, Flash!NoPiece
  <2>5. QED
    BY <1>4, <1>5, <1>8, <1>9, <2>3, <2>4 DEF FlashIInv
<1>11. CASE b + r # n
  <2> DEFINE s == Flash!PieceOf(n - b - r, 256)
  <2>1. s \in Nat /\ Turn(x, n, b + r, i + 1, s)
    BY <1>2, <1>11, TurnStep
  <2>2. n - b - r # 0
    BY <1>11
  <2>3. piece' = [addr |-> x + b + r, buffer |-> b + r, Size |-> n - b - r, i |-> i + 1,
                  remain |-> s, n_i |-> (n \div 256) + 2]
    BY <1>2, <1>3, <2>2 DEF Flash!NextPiece
  <2> HIDE DEF s
  <2>4. x + b + r = x + (b + r) /\ n - b - r = n - (b + r) /\ b + r \in Nat /\ i + 1 \in Nat
    OBVIOUS
  <2>5. Writing(x, n, b + r, i + 1, s)'
    BY <1>2, <1>4, <1>8, <2>1, <2>3, <2>4 DEF Writing
  <2>6. ~Flash!Idle'
    <3>1. piece'.n_i # -1
      BY <2>3
    <3>2. QED
      BY <3>1 DEF Flash!Idle, Flash!NoPiece
  <2>7. QED
    BY <1>4, <1>5, <1>8, <1>9, <2>1, <2>4, <2>5, <2>6 DEF FlashIInv
<1>12. QED
  BY <1>10, <1>11

\* An erase clears what it names, or nothing.
LEMMA FlashEraseStep ==
  ASSUME FlashIInv, NEW cells, NEW long \in BOOLEAN, Flash!Erase(cells, long)
  PROVE  FlashIInv'
<1>1. /\ flashAsked' = Flash!Erased(Flash!Held, cells) /\ wholePages' = {}
      /\ flash' = IF Flash!Takes THEN Flash!Erased(Flash!Held, cells) ELSE Flash!Held
      /\ refused' = ~Flash!Takes /\ down' = down /\ piece' = piece /\ Flash!Idle
      /\ busy' \in BOOLEAN
  BY DEF Flash!Erase, Flash!w25q_WaitCompleted
<1>2. Flash!Held \in FlashCells /\ Flash!Erased(Flash!Held, cells) \in FlashCells
  BY DEF Flash!Held, Flash!Erased, FlashCells
<1>3. Reached' = Flash!Erased(Flash!Held, cells)
  BY <1>1 DEF Reached, Flash!Erased
<1>4. /\ \A a \in Flash!Addresses : flash'[a] \in {{Flash!Old}, Reached'[a]}
      /\ Flash!Idle' /\ (~refused' => flash' = Reached')
  BY <1>1, <1>3 DEF Flash!Held, Flash!Erased, Flash!Idle, Flash!NoPiece
<1>5. down' \in BOOLEAN /\ refused' \in BOOLEAN
  BY <1>1 DEF FlashIInv
<1>6. QED
  BY <1>1, <1>2, <1>3, <1>4, <1>5 DEF FlashIInv

\* The rest of the driver and of the chip moves no cell.
LEMMA FlashOtherStep ==
  ASSUME FlashIInv,
         Flash!w25q_WriteReg \/ Flash!w25q_PowerDown \/ Flash!w25q_WakeUp \/ Flash!EraseEnds
           \/ UNCHANGED flashVars
  PROVE  FlashIInv'
<1>1. /\ flash' = flash /\ Reached' = Reached /\ piece' = piece /\ refused' = refused
      /\ flashAsked' = flashAsked /\ wholePages' = wholePages
      /\ busy' \in BOOLEAN /\ down' \in BOOLEAN
  BY DEF Flash!w25q_WriteReg, Flash!w25q_PowerDown, Flash!w25q_WakeUp, Flash!EraseEnds,
         flashVars, Flash!history, Flash!w25q_WaitCompleted, FlashIInv, Reached
<1>2. \A x, n, b, i, r \in Nat : Writing(x, n, b, i, r) => Writing(x, n, b, i, r)'
  BY <1>1 DEF Writing
<1>3. Flash!Idle' <=> Flash!Idle
  BY <1>1 DEF Flash!Idle, Flash!NoPiece
<1>4. IF Flash!Idle' THEN ~refused' => flash' = Reached'
      ELSE \E x, n, b, i, r \in Nat : Writing(x, n, b, i, r)'
  <2>1. CASE Flash!Idle
    BY <1>1, <1>3, <2>1 DEF FlashIInv
  <2>2. CASE ~Flash!Idle
    <3>1. PICK x \in Nat, n \in Nat, b \in Nat, i \in Nat, r \in Nat : Writing(x, n, b, i, r)
      BY <2>2 DEF FlashIInv
    <3>2. Writing(x, n, b, i, r)'
      BY <1>2, <3>1
    <3>3. QED
      BY <1>3, <2>2, <3>2
  <2>3. QED
    BY <2>1, <2>2
<1>5. flash' \in FlashCells /\ Reached' \in FlashCells /\ refused' \in BOOLEAN
  BY <1>1 DEF FlashIInv
<1>6. \A a \in Flash!Addresses : flash'[a] \in {{Flash!Old}, Reached'[a]}
  BY <1>1 DEF FlashIInv
<1>7. QED
  BY <1>1, <1>4, <1>5, <1>6 DEF FlashIInv

LEMMA FlashInductive ==
  ASSUME Byte = 256, FlashSize \in Nat
  PROVE  /\ Init => FlashIInv
         /\ FlashIInv /\ [Next]_allVars => FlashIInv'
<1>1. Init => FlashIInv
  <2> SUFFICES ASSUME Init PROVE FlashIInv
    OBVIOUS
  <2>1. /\ flash = Flash!Held /\ flashAsked = Flash!Held /\ wholePages = {} /\ Flash!Idle
        /\ busy = FALSE /\ down = FALSE /\ refused = FALSE /\ Reached = Flash!Held
    BY DEF Init, Flash!Init, Flash!Idle, Reached, Flash!Held
  <2>2. Flash!Held \in FlashCells
    BY DEF Flash!Held, FlashCells
  <2>3. QED
    BY <2>1, <2>2 DEF FlashIInv
<1>2. FlashIInv /\ [Next]_allVars => FlashIInv'
  <2> SUFFICES ASSUME FlashIInv, [Next]_allVars PROVE FlashIInv'
    OBVIOUS
  <2>1. CASE Flash!Next
    <3>1. CASE \E addr \in Flash!Addresses : Flash!w25q_EraseSubsector(addr)
      BY <3>1, FlashEraseStep DEF Flash!w25q_EraseSubsector
    <3>2. CASE \E addr \in Flash!Addresses : \E size \in 0..(FlashSize - addr) :
                 Flash!w25q_Write_Data(addr, size)
      BY <3>2, FlashCallStep
    <3>3. CASE Flash!NextPiece
      BY <3>3, FlashTurnStep
    <3>4. CASE Flash!w25q_EraseChip
      BY <3>4, FlashEraseStep DEF Flash!w25q_EraseChip
    <3>5. CASE Flash!w25q_WriteReg \/ Flash!w25q_PowerDown \/ Flash!w25q_WakeUp \/ Flash!EraseEnds
      BY <3>5, FlashOtherStep
    <3>6. QED
      BY <2>1, <3>1, <3>2, <3>3, <3>4, <3>5 DEF Flash!Next
  <2>2. CASE UNCHANGED flashVars
    BY <2>2, FlashOtherStep
  <2>3. QED
    BY <2>1, <2>2 DEF Next, allVars
<1>3. QED
  BY <1>1, <1>2

(***************************************************************************)
(* Of every erase and write, at every address and of every size, in a chip *)
(* of any number of pages: a read of the whole flash gives what the call   *)
(* asked for when the chip took all of it, but for the pages wholly inside *)
(* a write, which are left as they were; and at no moment a cell holds     *)
(* anything but what it did or what it should.                             *)
(***************************************************************************)
THEOREM FlashWritesAsAsked ==
  ASSUME Byte = 256, FlashSize \in Nat
  PROVE  Spec => []FlashAsAsked
<1>1. (Init => FlashIInv) /\ (FlashIInv /\ [Next]_allVars => FlashIInv')
  BY FlashInductive
<1>2. FlashIInv => FlashAsAsked
  <2> SUFFICES ASSUME FlashIInv PROVE FlashAsAsked
    OBVIOUS
  <2>1. \A a \in Flash!Addresses \ wholePages : Reached[a] = flashAsked[a]
    BY DEF Reached
  <2>2. \A a \in Flash!Addresses : Reached[a] \in {{Flash!Old}, flashAsked[a]}
    BY DEF Reached
  <2>3. \A a \in Flash!Addresses : flash[a] \in {{Flash!Old}, flashAsked[a]}
    BY <2>2 DEF FlashIInv
  <2>4. \A a \in Flash!Addresses : Flash!w25q_Read_Data(0, FlashSize)[a] = flash[a]
    <3>1. Flash!w25q_Read_Data(0, FlashSize) = [a \in Flash!Addresses |-> flash[0 + a]]
      BY DEF Flash!w25q_Read_Data, Flash!Addresses
    <3>2. \A a \in Flash!Addresses : 0 + a = a
      BY DEF Flash!Addresses
    <3>3. QED
      BY <3>1, <3>2
  <2>5. ASSUME Flash!Idle, ~refused, NEW a \in Flash!Addresses \ wholePages
        PROVE  Flash!w25q_Read_Data(0, FlashSize)[a] = flashAsked[a]
    <3>1. flash = Reached
      BY <2>5 DEF FlashIInv
    <3>2. QED
      BY <2>1, <2>4, <3>1
  <2>6. QED
    BY <2>3, <2>5 DEF FlashAsAsked, Flash!FlashAsAsked
<1>3. QED
  BY <1>1, <1>2, PTL DEF Spec
------------------------------------------------------------------------------
(***************************************************************************)
(* The EEPROM, with the sizes of the code and of the chip.                 *)
(***************************************************************************)
RealSizes == Byte = 256 /\ PieceSize = 16 /\ ChipPage = 32 /\ EepromSize = 4096

Cells == 0..4095
Content == {-1} \cup 0..255
Piece == [addr : Cells, add : 0..255, len : 1..16]

Covers(p, a) == a \in p.addr..(p.addr + p.len - 1)

\* A piece does not cross a boundary of 16 and carries what was asked.
Good(p, content) ==
  /\ (p.addr % 16) + p.len <= 16
  /\ \A a : Covers(p, a) => a \in Cells /\ content[a] = p.add + (a - p.addr)

\* The cells as the last call writes them: as asked, if its size is not 256.
Written == IF length < 256 THEN eepromAsked ELSE [a \in Cells |-> -1]

\* The inductive invariant: what is not as asked is still covered by a piece,
\* unless a transfer failed.
EepromIInv ==
  /\ eeprom \in [Cells -> Content] /\ Written \in [Cells -> Content]
  /\ eepromAsked \in [Cells -> Content] /\ length \in 0..256
  /\ broken \in BOOLEAN
  /\ pieces \in Seq(Piece)
  /\ \A k \in 1..Len(pieces) : Good(pieces[k], Written)
  /\ \A a \in Cells : eeprom[a] \in {-1, Written[a]}
  /\ ~broken => \A a \in Cells :
       eeprom[a] = Written[a] \/ \E k \in 1..Len(pieces) : Covers(pieces[k], a)

\* Of the page of x, the t bytes from x on are those of a transfer of t bytes.
StaysInPage(x, t, b) ==
  /\ (b \div 32 = x \div 32 /\ (b - x) % 32 < t) <=> b \in x..(x + t - 1)
  /\ b \in x..(x + t - 1) => (b - x) % 32 = b - x

\* A transfer never runs over the end of a page of the chip.
LEMMA NoWrap ==
  ASSUME NEW x \in Cells, NEW t \in 0..16, (x % 16) + t <= 16, NEW b \in Cells
  PROVE  StaysInPage(x, t, b)
<1>0. x \in 0..4095 /\ b \in 0..4095
  BY DEF Cells
<1>1. PICK q \in 0..127, h \in 0..1, m \in 0..15 : x = 32 * q + 16 * h + m
  <2>1. PICK u \in 0..255, m \in 0..15 : x = 16 * u + m
    <3>1. x \div 16 \in 0..255 /\ x % 16 \in 0..15 /\ x = 16 * (x \div 16) + (x % 16)
      BY <1>0
    <3>2. QED
      BY <3>1
  <2>2. PICK q \in 0..127, h \in 0..1 : u = 2 * q + h
    <3>1. u \div 2 \in 0..127 /\ u % 2 \in 0..1 /\ u = 2 * (u \div 2) + (u % 2)
      OBVIOUS
    <3>2. QED
      BY <3>1
  <2>3. x = 32 * q + 16 * h + m
    BY <2>1, <2>2
  <2>4. QED
    BY <2>3
<1>2. PICK r \in 0..127, n \in 0..31 : b = 32 * r + n
  <2>1. b \div 32 \in 0..127 /\ b % 32 \in 0..31 /\ b = 32 * (b \div 32) + (b % 32)
    BY <1>0
  <2>2. QED
    BY <2>1
<1>3. m + t <= 16
  BY <1>1
<1>4. x \div 32 = q /\ b \div 32 = r
  BY <1>1, <1>2
<1>5. ASSUME r = q PROVE (b - x) % 32 = IF n >= 16 * h + m THEN n - 16 * h - m
                                                           ELSE n - 16 * h - m + 32
  BY <1>1, <1>2, <1>5
<1>6. ASSUME b \in x..(x + t - 1) PROVE r = q /\ n >= 16 * h + m
  BY <1>1, <1>2, <1>3, <1>6
<1>7. QED
  BY <1>1, <1>2, <1>3, <1>4, <1>5, <1>6 DEF StaysInPage

\* Hence the cells of the bytes that were taken hold them, and no other changes.
LEMMA WriteLands ==
  ASSUME RealSizes, NEW addr \in Cells, NEW taken \in 0..16, (addr % 16) + taken <= 16,
         NEW add \in 0..255, NEW a \in Cells
  PROVE  Eeprom!at24c32_write(addr, add, taken)[a] =
           IF a \in addr..(addr + taken - 1) THEN add + (a - addr) ELSE eeprom[a]
<1>1. Eeprom!Addresses = Cells /\ ChipPage = 32
  BY DEF Eeprom!Addresses, RealSizes, Cells
<1>2. Eeprom!at24c32_write(addr, add, taken)[a] =
        IF a \div 32 = addr \div 32 /\ (a - addr) % 32 < taken THEN add + ((a - addr) % 32)
                                                               ELSE eeprom[a]
  BY <1>1 DEF Eeprom!at24c32_write
<1>3. StaysInPage(addr, taken, a)
  BY NoWrap
<1>4. QED
  BY <1>2, <1>3 DEF StaysInPage

\* A step of the driver writes what was asked, and where nothing was lost the
\* pieces that are left cover what is still to be written.
LEMMA EepromPageStep ==
  ASSUME RealSizes, EepromIInv, Eeprom!at24c32_write_Page
  PROVE  EepromIInv'
<1> DEFINE p == Head(pieces)
<1>1. PICK taken \in 0..p.len :
        /\ eeprom' = Eeprom!at24c32_write(p.addr, p.add, taken)
        /\ broken' = (broken \/ taken < p.len)
  BY DEF Eeprom!at24c32_write_Page
<1>2. /\ pieces # <<>> /\ pieces' = Tail(pieces)
      /\ Written' = Written /\ eepromAsked' = eepromAsked /\ length' = length
  BY DEF Eeprom!at24c32_write_Page, Eeprom!Idle, Written
<1>3. /\ p \in Piece /\ p = pieces[1] /\ Len(pieces) \in Nat \ {0}
      /\ pieces' \in Seq(Piece) /\ Len(pieces') = Len(pieces) - 1
      /\ \A k \in 1..Len(pieces') : pieces'[k] = pieces[k + 1]
  BY <1>2, HeadTailProperties, EmptySeq DEF EepromIInv
<1>4. Good(p, Written)
  BY <1>3 DEF EepromIInv
<1> HIDE DEF p
<1>5. ASSUME NEW a \in Cells
      PROVE  eeprom'[a] = IF a \in p.addr..(p.addr + taken - 1) THEN Written[a] ELSE eeprom[a]
  <2>1. PICK x \in Cells, l \in 1..16, d \in 0..255 : p.addr = x /\ p.len = l /\ p.add = d
    BY <1>3 DEF Piece
  <2>2. (x % 16) + l <= 16
    BY <1>4, <2>1 DEF Good
  <2>3. \A b : b \in x..(x + l - 1) => Written[b] = d + (b - x)
    BY <1>4, <2>1 DEF Good, Covers
  <2>4. PICK t \in 0..16 : t = taken /\ t <= l
    BY <2>1
  <2>5. eeprom' = Eeprom!at24c32_write(x, d, t)
    BY <1>1, <2>1, <2>4
  <2>6. x \in 0..4095
    BY DEF Cells
  <2>7. (x % 16) + t <= 16
    BY <2>2, <2>4, <2>6
  <2>8. eeprom'[a] = IF a \in x..(x + t - 1) THEN d + (a - x) ELSE eeprom[a]
    <3>1. \A y \in Cells, u \in 0..16 : (y % 16) + u <= 16 =>
            \A e \in 0..255, b \in Cells :
              Eeprom!at24c32_write(y, e, u)[b] =
                IF b \in y..(y + u - 1) THEN e + (b - y) ELSE eeprom[b]
      BY WriteLands
    <3>2. \A u \in 0..16 : (x % 16) + u <= 16 =>
            \A e \in 0..255, b \in Cells :
              Eeprom!at24c32_write(x, e, u)[b] =
                IF b \in x..(x + u - 1) THEN e + (b - x) ELSE eeprom[b]
      BY <3>1, Zenon
    <3>3. \A e \in 0..255, b \in Cells :
            Eeprom!at24c32_write(x, e, t)[b] =
              IF b \in x..(x + t - 1) THEN e + (b - x) ELSE eeprom[b]
      BY <2>7, <3>2, Zenon
    <3>4. QED
      BY <2>5, <3>3
  <2>9. a \in x..(x + t - 1) => a \in x..(x + l - 1)
    BY <2>4, <2>6
  <2>10. QED
    BY <2>1, <2>3, <2>4, <2>8, <2>9
<1>6. eeprom' \in [Cells -> Content]
  <2>1. Eeprom!Addresses = Cells
    BY DEF Eeprom!Addresses, RealSizes, Cells
  <2>2. eeprom' = [a \in Cells |-> eeprom'[a]]
    BY <1>1, <2>1 DEF Eeprom!at24c32_write
  <2>3. \A a \in Cells : eeprom'[a] \in Content
    BY <1>5 DEF EepromIInv
  <2>4. QED
    BY <2>2, <2>3
<1>7. broken' \in BOOLEAN
  BY <1>1 DEF EepromIInv
<1>8. \A k \in 1..Len(pieces') : Good(pieces'[k], Written)
  BY <1>3 DEF EepromIInv
<1>9. \A a \in Cells : eeprom'[a] \in {-1, Written[a]}
  BY <1>5 DEF EepromIInv
<1>10. ASSUME ~broken', NEW a \in Cells
       PROVE  eeprom'[a] = Written[a] \/ \E k \in 1..Len(pieces') : Covers(pieces'[k], a)
  <2>1. ~broken /\ taken = p.len
    <3>1. p.len \in 1..16
      BY <1>3 DEF Piece
    <3>2. ~broken /\ ~(taken < p.len)
      BY <1>1, <1>10
    <3>3. QED
      BY <3>1, <3>2
  <2>2. CASE eeprom[a] = Written[a]
    BY <1>5, <2>2
  <2>3. CASE \E k \in 1..Len(pieces) : Covers(pieces[k], a)
    <3>1. PICK k \in 1..Len(pieces) : Covers(pieces[k], a)
      BY <2>3
    <3>2. CASE k = 1
      BY <1>3, <1>5, <2>1, <3>1, <3>2 DEF Covers
    <3>3. CASE k # 1
      <4>1. k - 1 \in 1..Len(pieces') /\ pieces'[k - 1] = pieces[k]
        BY <1>3, <3>3
      <4>2. QED
        BY <3>1, <4>1
    <3>4. QED
      BY <3>2, <3>3
  <2>4. QED
    BY <2>1, <2>2, <2>3 DEF EepromIInv
<1>11. QED
  BY <1>2, <1>3, <1>6, <1>7, <1>8, <1>9, <1>10 DEF EepromIInv

\* What is in one of three sequences is in their concatenation, and no more.
Joined(P, A, B, C) ==
  /\ \A k \in 1..Len(P) : \/ \E i \in 1..Len(A) : P[k] = A[i]
                          \/ \E i \in 1..Len(B) : P[k] = B[i]
                          \/ \E i \in 1..Len(C) : P[k] = C[i]
  /\ \A i \in 1..Len(A) : \E k \in 1..Len(P) : P[k] = A[i]
  /\ \A i \in 1..Len(B) : \E k \in 1..Len(P) : P[k] = B[i]
  /\ \A i \in 1..Len(C) : \E k \in 1..Len(P) : P[k] = C[i]

LEMMA ThreeParts ==
  ASSUME NEW S, NEW A \in Seq(S), NEW B \in Seq(S), NEW C \in Seq(S), NEW P, P = A \o B \o C
  PROVE  P \in Seq(S) /\ Joined(P, A, B, C)
<1>1. Len(A) \in Nat /\ Len(B) \in Nat /\ Len(C) \in Nat
  BY LenProperties
<1>2. /\ A \o B \in Seq(S) /\ Len(A \o B) = Len(A) + Len(B)
      /\ \A i \in 1..(Len(A) + Len(B)) :
           (A \o B)[i] = IF i <= Len(A) THEN A[i] ELSE B[i - Len(A)]
  BY ConcatProperties
<1>3. /\ P \in Seq(S) /\ Len(P) = Len(A \o B) + Len(C)
      /\ \A i \in 1..(Len(A \o B) + Len(C)) :
           P[i] = IF i <= Len(A \o B) THEN (A \o B)[i] ELSE C[i - Len(A \o B)]
  BY <1>2, ConcatProperties
<1> DEFINE la == Len(A)
           lb == Len(B)
           lc == Len(C)
<1>4. /\ Len(P) = la + lb + lc
      /\ \A i \in 1..la : P[i] = A[i]
      /\ \A i \in 1..lb : P[la + i] = B[i]
      /\ \A i \in 1..lc : P[la + lb + i] = C[i]
  BY <1>1, <1>2, <1>3
<1>5. ASSUME NEW k \in 1..Len(P)
      PROVE  \/ \E i \in 1..la : P[k] = A[i]
             \/ \E i \in 1..lb : P[k] = B[i]
             \/ \E i \in 1..lc : P[k] = C[i]
  <2>1. CASE k <= la
    BY <1>1, <1>4, <2>1
  <2>2. CASE la < k /\ k <= la + lb
    <3>1. k - la \in 1..lb /\ la + (k - la) = k
      BY <1>1, <1>4, <2>2
    <3>2. QED
      BY <1>4, <3>1
  <2>3. CASE la + lb < k
    <3>1. k - (la + lb) \in 1..lc /\ la + lb + (k - (la + lb)) = k
      BY <1>1, <1>4, <2>3
    <3>2. QED
      BY <1>4, <3>1
  <2>4. QED
    BY <1>1, <1>4, <2>1, <2>2, <2>3
<1>6. \A i \in 1..la : \E k \in 1..Len(P) : P[k] = A[i]
  BY <1>1, <1>4
<1>7. ASSUME NEW i \in 1..lb PROVE \E k \in 1..Len(P) : P[k] = B[i]
  <2>1. la + i \in 1..Len(P) /\ P[la + i] = B[i]
    BY <1>1, <1>4
  <2>2. QED
    BY <2>1
<1>8. ASSUME NEW i \in 1..lc PROVE \E k \in 1..Len(P) : P[k] = C[i]
  <2>1. la + lb + i \in 1..Len(P) /\ P[la + lb + i] = C[i]
    BY <1>1, <1>4
  <2>2. QED
    BY <2>1
<1>9. QED
  BY <1>3, <1>5, <1>6, <1>7, <1>8 DEF Joined

\* What a write of n bytes to x asks for.
AskedOf(x, n) == [a \in Cells |-> IF a \in x..(x + n - 1) THEN a - x ELSE -1]

\* The l bytes from byte d on are among the n, and cross no boundary.
InOnePiece(x, n, d, l) ==
  /\ x \in 0..4095 /\ n \in 1..255 /\ x + n <= 4096
  /\ d \in 0..255 /\ l \in 1..16 /\ d + l <= n /\ ((x + d) % 16) + l <= 16

\* A piece of them carries what the write asks for.
LEMMA PieceGood ==
  ASSUME NEW x, NEW n, NEW d, NEW l, InOnePiece(x, n, d, l)
  PROVE  /\ Eeprom!At(x, d, l) \in Piece /\ Good(Eeprom!At(x, d, l), AskedOf(x, n))
         /\ \A j \in d..(d + l - 1) : Covers(Eeprom!At(x, d, l), x + j)
<1>a. x \in 0..4095 /\ n \in 1..255 /\ d \in 0..255 /\ l \in 1..16
  BY DEF InOnePiece
<1>0. x + n <= 4096 /\ d + l <= n /\ ((x + d) % 16) + l <= 16
  BY DEF InOnePiece
<1>1. x + d \in 0..4095
  BY <1>a, <1>0
<1>2. /\ Eeprom!At(x, d, l).addr = x + d /\ Eeprom!At(x, d, l).add = d
      /\ Eeprom!At(x, d, l).len = l
  BY DEF Eeprom!At
<1>3. Eeprom!At(x, d, l) \in Piece
  BY <1>a, <1>1 DEF Eeprom!At, Piece, Cells
<1>4. ASSUME NEW a \in (x + d)..(x + d + l - 1)
      PROVE  a \in Cells /\ AskedOf(x, n)[a] = d + (a - (x + d))
  <2>1. x \in Int /\ n \in Int /\ d \in Int /\ l \in Int /\ a \in Int
    BY <1>a
  <2>2. x + d <= a /\ a <= x + d + l - 1
    BY <1>a, <2>1
  <2>3. 0 <= x /\ 0 <= d
    BY <1>a
  <2>4. a \in 0..4095 /\ a \in x..(x + n - 1) /\ a - x = d + (a - (x + d))
    BY <1>0, <2>1, <2>2, <2>3
  <2>5. a \in Cells
    BY <2>4 DEF Cells
  <2>6. AskedOf(x, n)[a] = a - x
    BY <2>4, <2>5 DEF AskedOf
  <2>7. QED
    BY <2>4, <2>5, <2>6
<1>5. Good(Eeprom!At(x, d, l), AskedOf(x, n))
  BY <1>a, <1>0, <1>2, <1>4 DEF Good, Covers
<1>6. ASSUME NEW j \in d..(d + l - 1) PROVE Covers(Eeprom!At(x, d, l), x + j)
  BY <1>a, <1>2 DEF Covers
<1>7. QED
  BY <1>3, <1>5, <1>6

\* A write's first piece, its whole ones and its last.
FirstPart(x, n) == <<Eeprom!At(x, 0, Eeprom!FirstPiece(x, n))>>
WholeParts(x, n) ==
  LET f == Eeprom!FirstPiece(x, n)
  IN  [k \in 1..((n - f) \div PieceSize) |-> Eeprom!At(x, f + (k - 1) * PieceSize, PieceSize)]
LastPart(x, n) ==
  LET f == Eeprom!FirstPiece(x, n)
      w == (n - f) \div PieceSize
      r == Eeprom!Rest(n, f)
  IN  IF r > 0 THEN <<Eeprom!At(x, f + w * PieceSize, r)>> ELSE <<>>

\* A write that is not empty consists of these three.
LEMMA PartsOfWrite ==
  ASSUME NEW x, NEW n, n # 0
  PROVE  Eeprom!Pieces(x, n) = FirstPart(x, n) \o WholeParts(x, n) \o LastPart(x, n)
BY DEF Eeprom!Pieces, FirstPart, WholeParts, LastPart

GoodPart(s, x, n) == s \in Seq(Piece) /\ \A k \in 1..Len(s) : Good(s[k], AskedOf(x, n))
InPart(s, a) == \E k \in 1..Len(s) : Covers(s[k], a)

Fits(x, n) == x \in 0..4095 /\ n \in 1..255 /\ x + n <= 4096

\* The parts of a write are good and leave no byte of it out.
WellSplit(x, n) ==
  /\ GoodPart(FirstPart(x, n), x, n)
  /\ GoodPart(WholeParts(x, n), x, n)
  /\ GoodPart(LastPart(x, n), x, n)
  /\ \A a \in x..(x + n - 1) :
       InPart(FirstPart(x, n), a) \/ InPart(WholeParts(x, n), a) \/ InPart(LastPart(x, n), a)

LEMMA PartsAreGood ==
  ASSUME RealSizes, NEW addr, NEW size, Fits(addr, size)
  PROVE  WellSplit(addr, size)
<1>a. PICK x \in 0..4095 : x = addr
  BY DEF Fits
<1>b. PICK n \in 1..255 : n = size
  BY DEF Fits
<1>c. x + n <= 4096
  BY <1>a, <1>b DEF Fits
<1> DEFINE f == Eeprom!FirstPiece(x, n)
           w == (n - f) \div PieceSize
           r == Eeprom!Rest(n, f)
           start == <<Eeprom!At(x, 0, f)>>
           middle == [k \in 1..w |-> Eeprom!At(x, f + (k - 1) * PieceSize, PieceSize)]
           end == IF r > 0 THEN <<Eeprom!At(x, f + w * PieceSize, r)>> ELSE <<>>
<1>1. FirstPart(x, n) = start /\ WholeParts(x, n) = middle /\ LastPart(x, n) = end
  BY DEF FirstPart, WholeParts, LastPart
<1>2. /\ f \in 1..16 /\ f <= n /\ (x % 16) + f <= 16
      /\ f < n => (x + f) % 16 = 0
  <2>1. f = IF n > 16 - (x % 16) THEN 16 - (x % 16) ELSE n
    BY DEF Eeprom!FirstPiece, RealSizes
  <2>2. PICK q \in 0..255, m \in 0..15 : x = 16 * q + m
    <3>1. x \div 16 \in 0..255 /\ x % 16 \in 0..15 /\ x = 16 * (x \div 16) + (x % 16)
      OBVIOUS
    <3>2. QED
      BY <3>1
  <2>3. QED
    BY <2>1, <2>2
<1>3. w = (n - f) \div 16 /\ r = (n - f) % 16
  BY DEF Eeprom!Rest, RealSizes
<1> HIDE DEF f, w, r
<1>4. w \in 0..15 /\ r \in 0..15 /\ n = f + 16 * w + r
  BY <1>2, <1>3
<1>5. PieceSize = 16
  BY DEF RealSizes
<1>6. start \in Seq(Piece) /\ Len(start) = 1 /\ Good(start[1], AskedOf(x, n))
      /\ \A j \in 0..(f - 1) : Covers(start[1], x + j)
  <2>1. InOnePiece(x, n, 0, f)
    BY <1>c, <1>2 DEF InOnePiece
  <2>2. /\ Eeprom!At(x, 0, f) \in Piece /\ Good(Eeprom!At(x, 0, f), AskedOf(x, n))
        /\ \A j \in 0..(0 + f - 1) : Covers(Eeprom!At(x, 0, f), x + j)
    BY <2>1, PieceGood
  <2>3. 0 + f - 1 = f - 1
    BY <1>2
  <2>4. QED
    BY <2>2, <2>3
<1>7. ASSUME NEW k \in 1..w
      PROVE  LET d == f + (k - 1) * 16
                 p == Eeprom!At(x, d, 16)
             IN  /\ p \in Piece /\ Good(p, AskedOf(x, n))
                 /\ \A j \in d..(d + 15) : Covers(p, x + j)
  <2> DEFINE d == f + (k - 1) * 16
  <2>1. d \in 0..255 /\ d + 16 <= n /\ (x + d) % 16 = 0 /\ d + 16 - 1 = d + 15
    BY <1>2, <1>4
  <2> HIDE DEF d
  <2>2. InOnePiece(x, n, d, 16)
    BY <1>c, <2>1 DEF InOnePiece
  <2>3. /\ Eeprom!At(x, d, 16) \in Piece /\ Good(Eeprom!At(x, d, 16), AskedOf(x, n))
        /\ \A j \in d..(d + 16 - 1) : Covers(Eeprom!At(x, d, 16), x + j)
    BY <2>2, PieceGood
  <2>4. QED
    BY <2>1, <2>3 DEF d
<1>8. middle \in Seq(Piece) /\ Len(middle) = w
      /\ \A k \in 1..w :
           LET d == f + (k - 1) * 16
           IN  /\ Good(middle[k], AskedOf(x, n))
               /\ \A j \in d..(d + 15) : Covers(middle[k], x + j)
  BY <1>4, <1>5, <1>7
<1>9. /\ end \in Seq(Piece) /\ Len(end) = (IF r > 0 THEN 1 ELSE 0)
      /\ r > 0 => /\ Good(end[1], AskedOf(x, n))
                  /\ \A j \in (f + w * 16)..(n - 1) : Covers(end[1], x + j)
  <2> DEFINE d == f + w * 16
  <2>1. CASE r > 0
    <3>1. d \in 0..255 /\ d + r = n /\ (x + d) % 16 = 0 /\ d + r - 1 = n - 1
      BY <1>2, <1>4, <2>1
    <3> HIDE DEF d
    <3>2. r \in 1..16 /\ ((x + d) % 16) + r <= 16
      BY <1>4, <2>1, <3>1
    <3>3. InOnePiece(x, n, d, r)
      BY <1>c, <3>1, <3>2 DEF InOnePiece
    <3>4. /\ Eeprom!At(x, d, r) \in Piece /\ Good(Eeprom!At(x, d, r), AskedOf(x, n))
          /\ \A j \in d..(d + r - 1) : Covers(Eeprom!At(x, d, r), x + j)
      BY <3>3, PieceGood
    <3>5. QED
      BY <1>5, <2>1, <3>1, <3>4 DEF d
  <2>2. CASE ~(r > 0)
    BY <2>2
  <2>3. QED
    BY <2>1, <2>2
<1> HIDE DEF start, middle, end
<1>10. GoodPart(start, x, n) /\ GoodPart(middle, x, n) /\ GoodPart(end, x, n)
  BY <1>6, <1>8, <1>9 DEF GoodPart
<1>11. ASSUME NEW a \in x..(x + n - 1) 
       PROVE  InPart(start, a) \/ InPart(middle, a) \/ InPart(end, a)
  <2>1. PICK j \in 0..(n - 1) : a = x + j
    <3>1. a - x \in 0..(n - 1) /\ a = x + (a - x)
      OBVIOUS
    <3>2. QED
      BY <3>1
  <2>2. CASE j < f
    <3>1. j \in 0..(f - 1)
      BY <1>2, <2>2
    <3>2. 1 \in 1..Len(start) /\ Covers(start[1], a)
      BY <1>6, <2>1, <3>1
    <3>3. QED
      BY <3>2 DEF InPart
  <2>3. CASE f <= j /\ j < f + 16 * w
    <3>1. PICK k \in 1..w : j \in (f + (k - 1) * 16)..(f + (k - 1) * 16 + 15)
      <4>1. PICK e \in 0..255 : e = j - f
        BY <1>2, <2>3
      <4>2. PICK i \in 0..15, o \in 0..15 : e = 16 * i + o
        <5>1. e \div 16 \in 0..15 /\ e % 16 \in 0..15 /\ e = 16 * (e \div 16) + (e % 16)
          OBVIOUS
        <5>2. QED
          BY <5>1
      <4>3. 1 + i \in 1..w /\ j \in (f + ((1 + i) - 1) * 16)..(f + ((1 + i) - 1) * 16 + 15)
        BY <1>2, <1>4, <2>3, <4>1, <4>2
      <4>4. QED
        BY <4>3
    <3>2. k \in 1..Len(middle) /\ Covers(middle[k], a)
      BY <1>8, <2>1, <3>1
    <3>3. QED
      BY <3>2 DEF InPart
  <2>4. CASE f + 16 * w <= j
    <3>1. r > 0 /\ j \in (f + w * 16)..(n - 1)
      BY <1>2, <1>4, <2>4
    <3>2. 1 \in 1..Len(end) /\ Covers(end[1], a)
      BY <1>9, <2>1, <3>1
    <3>3. QED
      BY <3>2 DEF InPart
  <2>5. QED
    BY <1>2, <1>4, <2>1, <2>2, <2>3, <2>4
<1>12. WellSplit(x, n)
  BY <1>1, <1>10, <1>11 DEF WellSplit
<1>13. QED
  BY <1>a, <1>b, <1>12

\* Hence so are its pieces.
LEMMA PiecesOfWrite ==
  ASSUME RealSizes, NEW x, NEW n, Fits(x, n)
  PROVE  /\ GoodPart(Eeprom!Pieces(x, n), x, n)
         /\ \A a \in x..(x + n - 1) : InPart(Eeprom!Pieces(x, n), a)
<1> DEFINE whole == Eeprom!Pieces(x, n)
           start == FirstPart(x, n)
           middle == WholeParts(x, n)
           end == LastPart(x, n)
<1>1. n # 0
  BY DEF Fits
<1>2. whole = start \o middle \o end
  BY <1>1, PartsOfWrite, Zenon
<1>3. /\ GoodPart(start, x, n) /\ GoodPart(middle, x, n) /\ GoodPart(end, x, n)
      /\ \A a \in x..(x + n - 1) : InPart(start, a) \/ InPart(middle, a) \/ InPart(end, a)
  BY PartsAreGood DEF WellSplit
<1> HIDE DEF whole, start, middle, end
<1>4. start \in Seq(Piece) /\ middle \in Seq(Piece) /\ end \in Seq(Piece)
  BY <1>3 DEF GoodPart
<1>5. whole \in Seq(Piece) /\ Joined(whole, start, middle, end)
  BY <1>2, <1>4, ThreeParts
<1>6. GoodPart(whole, x, n)
  BY <1>3, <1>5 DEF GoodPart, Joined
<1>7. \A a : InPart(start, a) \/ InPart(middle, a) \/ InPart(end, a) => InPart(whole, a)
  BY <1>5 DEF InPart, Joined
<1>8. QED
  BY <1>3, <1>6, <1>7 DEF whole

\* After a call its pieces cover all that is to be written, a call of no bytes
\* included.
LEMMA EepromCallStep ==
  ASSUME RealSizes, EepromIInv, NEW addr \in Eeprom!Addresses, NEW size \in 0..Byte,
         addr + size <= EepromSize, Eeprom!at24c32_write_buf(addr, size)
  PROVE  EepromIInv'
<1> DEFINE n == size % Byte
<1>1. /\ addr \in 0..4095 /\ n \in 0..255 /\ addr + n <= 4096
      /\ Eeprom!Addresses = Cells
  BY DEF RealSizes, Eeprom!Addresses, Cells
<1>2. /\ pieces' = Eeprom!Pieces(addr, n) /\ eeprom' = Eeprom!Held /\ broken' = FALSE
      /\ length' = size /\ eepromAsked' = AskedOf(addr, size)
  BY <1>1 DEF Eeprom!at24c32_write_buf, AskedOf, Eeprom!Old
<1>3. Written' = AskedOf(addr, n) /\ eepromAsked' \in [Cells -> Content] /\ length' \in 0..256
  <2>1. size \in 0..256 /\ addr + size <= 4096
    BY DEF RealSizes
  <2>2. ASSUME size < 256 PROVE Written' = AskedOf(addr, n)
    <3>1. n = size
      BY <2>1, <2>2 DEF RealSizes
    <3> HIDE DEF n
    <3>2. Written' = eepromAsked'
      BY <1>2, <2>2 DEF Written
    <3>3. QED
      BY <1>2, <3>1, <3>2
  <2>3. ASSUME size = 256 PROVE Written' = AskedOf(addr, n)
    <3>1. n = 0
      BY <2>3 DEF RealSizes
    <3>2. \A a \in Cells : a \notin addr..(addr + 0 - 1)
      BY <1>1
    <3>3. AskedOf(addr, n) = [a \in Cells |-> -1]
      BY <3>1, <3>2 DEF AskedOf
    <3> HIDE DEF n
    <3>4. Written' = [a \in Cells |-> -1]
      BY <1>2, <2>3 DEF Written
    <3>5. QED
      BY <3>3, <3>4
  <2>4. \A a \in Cells : a \in addr..(addr + size - 1) => a - addr \in 0..255
    BY <1>1, <2>1 DEF Cells
  <2>5. AskedOf(addr, size) \in [Cells -> Content]
    BY <2>4 DEF AskedOf, Content
  <2>6. QED
    BY <1>2, <2>1, <2>2, <2>3, <2>5
<1> HIDE DEF n
<1>4. \A a \in Cells : /\ AskedOf(addr, n)[a] \in Content
                       /\ a \notin addr..(addr + n - 1) => AskedOf(addr, n)[a] = -1
  <2> SUFFICES ASSUME NEW a \in Cells
               PROVE  /\ AskedOf(addr, n)[a] \in Content
                      /\ a \notin addr..(addr + n - 1) => AskedOf(addr, n)[a] = -1
    OBVIOUS
  <2>1. AskedOf(addr, n)[a] = IF a \in addr..(addr + n - 1) THEN a - addr ELSE -1
    BY DEF AskedOf
  <2>2. a \in addr..(addr + n - 1) => a - addr \in 0..255
    BY <1>1 DEF Cells
  <2>3. QED
    BY <2>1, <2>2 DEF Content
<1>5. AskedOf(addr, n) \in [Cells -> Content]
  BY <1>4 DEF AskedOf
<1>6. eeprom' \in [Cells -> Content] /\ \A a \in Cells : eeprom'[a] = -1
  BY <1>1, <1>2 DEF Eeprom!Held, Eeprom!Old, Content
<1>7. /\ GoodPart(pieces', addr, n)
      /\ \A a \in addr..(addr + n - 1) : InPart(pieces', a)
  <2>1. CASE n = 0
    <3>1. pieces' = <<>>
      BY <1>2, <2>1 DEF Eeprom!Pieces
    <3>2. GoodPart(<<>>, addr, n)
      BY DEF GoodPart
    <3>3. addr..(addr + n - 1) = {}
      BY <1>1, <2>1
    <3>4. QED
      BY <3>1, <3>2, <3>3
  <2>2. CASE n # 0
    <3>1. Fits(addr, n)
      BY <1>1, <2>2 DEF Fits
    <3>2. QED
      BY <1>2, <3>1, PiecesOfWrite
  <2>3. QED
    BY <2>1, <2>2
<1>8. /\ pieces' \in Seq(Piece)
      /\ \A k \in 1..Len(pieces') : Good(pieces'[k], Written')
  BY <1>3, <1>7 DEF GoodPart
<1>9. ASSUME NEW a \in Cells
      PROVE  eeprom'[a] = Written'[a] \/ \E k \in 1..Len(pieces') : Covers(pieces'[k], a)
  <2>1. CASE a \in addr..(addr + n - 1)
    BY <1>7, <2>1 DEF InPart
  <2>2. CASE a \notin addr..(addr + n - 1)
    BY <1>3, <1>4, <1>6, <2>2
  <2>3. QED
    BY <2>1, <2>2
<1>10. QED
  BY <1>2, <1>3, <1>5, <1>6, <1>8, <1>9 DEF EepromIInv

\* A call that ends with its program leaves the cells as they are.
LEMMA EepromStops ==
  ASSUME EepromIInv, Eeprom!BusAddDeviceFails
  PROVE  EepromIInv'
<1>1. /\ pieces' = <<>> /\ broken' = TRUE /\ Written' = Written
      /\ UNCHANGED <<eeprom, length, eepromAsked>>
  BY DEF Eeprom!BusAddDeviceFails, Written
<1>2. pieces' \in Seq(Piece) /\ 1..Len(pieces') = {}
  BY <1>1
<1>3. QED
  BY <1>1, <1>2 DEF EepromIInv

LEMMA EepromInductive ==
  ASSUME RealSizes
  PROVE  /\ Init => EepromIInv
         /\ EepromIInv /\ [Next]_allVars => EepromIInv'
<1>1. Init => EepromIInv
  <2> SUFFICES ASSUME Init PROVE EepromIInv
    OBVIOUS
  <2>1. Eeprom!Addresses = Cells
    BY DEF RealSizes, Eeprom!Addresses, Cells
  <2>2. /\ eeprom = [a \in Cells |-> -1] /\ eepromAsked = [a \in Cells |-> -1]
        /\ Written = [a \in Cells |-> -1]
        /\ pieces = <<>> /\ broken = FALSE /\ length = 0
    BY <2>1 DEF Init, Eeprom!Init, Eeprom!Held, Eeprom!Old, Written
  <2>3. /\ eeprom \in [Cells -> Content] /\ Written \in [Cells -> Content]
        /\ eepromAsked \in [Cells -> Content] /\ length \in 0..256
    BY <2>2 DEF Content
  <2>4. pieces \in Seq(Piece) /\ Len(pieces) = 0 /\ 1..Len(pieces) = {}
    BY <2>2
  <2>5. \A a \in Cells : eeprom[a] = -1 /\ Written[a] = -1
    BY <2>2
  <2>6. QED
    BY <2>2, <2>3, <2>4, <2>5 DEF EepromIInv
<1>2. EepromIInv /\ [Next]_allVars => EepromIInv'
  <2> SUFFICES ASSUME EepromIInv, [Next]_allVars PROVE EepromIInv'
    OBVIOUS
  <2>1. CASE Eeprom!Next
    <3>1. CASE \E addr \in Eeprom!Addresses : \E size \in 0..Byte :
                 addr + size <= EepromSize /\ Eeprom!at24c32_write_buf(addr, size)
      BY <3>1, EepromCallStep
    <3>2. CASE Eeprom!at24c32_write_Page
      BY <3>2, EepromPageStep
    <3>3. CASE Eeprom!BusAddDeviceFails
      BY <3>3, EepromStops
    <3>4. QED
      BY <2>1, <3>1, <3>2, <3>3 DEF Eeprom!Next
  <2>2. CASE UNCHANGED eepromVars
    BY <2>2 DEF EepromIInv, eepromVars, Written
  <2>3. QED
    BY <2>1, <2>2 DEF Next, allVars
<1>3. QED
  BY <1>1, <1>2

(***************************************************************************)
(* Of every write of fewer than 256 bytes, at every address, a read of the *)
(* whole EEPROM gives what the call asked for and the old bytes elsewhere, *)
(* when no transfer failed; and at no moment, of these and of calls with   *)
(* 256 bytes, anything else is in a cell.                                  *)
(***************************************************************************)
THEOREM EepromWritesAsAsked ==
  ASSUME RealSizes
  PROVE  Spec => []EepromAsAsked
<1>1. (Init => EepromIInv) /\ (EepromIInv /\ [Next]_allVars => EepromIInv')
  BY EepromInductive
<1>2. EepromIInv => EepromAsAsked
  <2> SUFFICES ASSUME EepromIInv PROVE EepromAsAsked
    OBVIOUS
  <2>1. Eeprom!Addresses = Cells /\ 0..(EepromSize - 1) = Cells
    BY DEF RealSizes, Eeprom!Addresses, Cells
  <2>2. \A a \in Eeprom!Addresses : eeprom[a] \in {Eeprom!Old, eepromAsked[a]}
    BY <2>1 DEF EepromIInv, Eeprom!Old, Written
  <2>3. ASSUME Eeprom!Idle, ~broken, length < Byte
        PROVE  Eeprom!at24c32_read_buf(0, EepromSize) = eepromAsked
    <3>1. \A a \in Cells : eeprom[a] = eepromAsked[a]
      BY <2>3 DEF EepromIInv, Eeprom!Idle, Written, RealSizes
    <3>2. Eeprom!at24c32_read_buf(0, EepromSize) = [a \in Cells |-> eeprom[0 + a]]
      BY <2>1 DEF Eeprom!at24c32_read_buf
    <3>3. \A a \in Cells : 0 + a = a
      BY DEF Cells
    <3>4. QED
      BY <3>1, <3>2, <3>3 DEF EepromIInv
  <2>4. QED
    BY <2>2, <2>3 DEF EepromAsAsked, Eeprom!EepromAsAsked
<1>3. QED
  BY <1>1, <1>2, PTL DEF Spec
------------------------------------------------------------------------------
(***************************************************************************)
(* The types of all three drivers' variables, with the sizes of the code   *)
(* and of the chips: they are parts of the three inductive invariants.     *)
(***************************************************************************)
THEOREM DriversTyped ==
  ASSUME Clock!ClockAssumption, RealSizes, FlashSize \in Nat
  PROVE  Spec => []TypeOK
<1>1. /\ Init => ClockIInv
      /\ ClockIInv /\ [Next]_allVars => ClockIInv'
  BY ClockInductive
<1>2. /\ Init => FlashIInv
      /\ FlashIInv /\ [Next]_allVars => FlashIInv'
  BY FlashInductive DEF RealSizes
<1>3. /\ Init => EepromIInv
      /\ EepromIInv /\ [Next]_allVars => EepromIInv'
  BY EepromInductive
<1>4. ClockIInv => Clock!TypeOK
  <2> SUFFICES ASSUME ClockIInv PROVE Clock!TypeOK
    OBVIOUS
  <2>1. due = Unknown \/ Clock!IsDate(due)
    BY DEF ClockIInv, Due
  <2>2. QED
    BY <2>1 DEF ClockIInv, Clock!TypeOK
<1>5. FlashIInv => Flash!TypeOK
  <2> SUFFICES ASSUME FlashIInv PROVE Flash!TypeOK
    OBVIOUS
  <2>1. ASSUME ~Flash!Idle PROVE piece.Size \in 0..FlashSize
    <3>1. PICK x \in Nat, n \in Nat, b \in Nat, i \in Nat, r \in Nat : Writing(x, n, b, i, r)
      BY <2>1 DEF FlashIInv
    <3>2. NextOf(x, n, b, r) /\ x + n <= FlashSize /\ piece.Size = n - b
      BY <3>1, TurnPiece DEF Writing, Turn, RealSizes
    <3>3. b <= n
      BY <3>2 DEF NextOf
    <3>4. QED
      BY <3>2, <3>3
  <2>2. QED
    BY <2>1 DEF FlashIInv, Flash!TypeOK, FlashCells
<1>6. EepromIInv => Eeprom!TypeOK
  <2> SUFFICES ASSUME EepromIInv PROVE Eeprom!TypeOK
    OBVIOUS
  <2>1. /\ Eeprom!Addresses = Cells /\ {Eeprom!Old} \cup 0..(Byte - 1) = Content
        /\ 0..(Byte - 1) = 0..255 /\ 1..PieceSize = 1..16 /\ 0..Byte = 0..256
    BY DEF Eeprom!Addresses, RealSizes, Cells, Content, Eeprom!Old
  <2>2. pieces \in Seq(Piece)
    BY DEF EepromIInv
  <2>3. \A k \in DOMAIN pieces : pieces[k] \in Piece
    BY <2>2
  <2>4. length \in 0..Byte
    BY <2>1 DEF EepromIInv
  <2>5. {eeprom, eepromAsked} \subseteq [Eeprom!Addresses -> {Eeprom!Old} \cup 0..(Byte - 1)]
    BY <2>1 DEF EepromIInv
  <2>6. Piece = [addr : Eeprom!Addresses, add : 0..(Byte - 1), len : 1..PieceSize]
    BY <2>1 DEF Piece
  <2>7. broken \in BOOLEAN
    BY DEF EepromIInv
  <2>8. QED
    BY <2>3, <2>4, <2>5, <2>6, <2>7 DEF Eeprom!TypeOK
<1>7. ClockIInv /\ FlashIInv /\ EepromIInv => TypeOK
  BY <1>4, <1>5, <1>6 DEF TypeOK
<1>8. QED
  BY <1>1, <1>2, <1>3, <1>7, PTL DEF Spec
==============================================================================
