------------------------------ MODULE Sampling ------------------------------
(***************************************************************************)
(* Sensors_Data_Update (main/main.c) and the drivers it calls: the SHT30   *)
(* and the light sensor on the I2C bus, the battery's ADC, and two probes  *)
(* on single-wire lines of their own.  Every transfer may fail, bytes may  *)
(* arrive changed, and a probe may be plugged, unplugged or shorted at any *)
(* moment.  One boot makes one update; the sensors stay powered between    *)
(* boots.                                                                  *)
(*                                                                         *)
(* Numbers are exact: the floats of the code are counted in fractions of   *)
(* their unit, and ERROR_CODE (and FAILURE of the light sensor) is a value *)
(* outside every range.  Locals lose their values when their function ends. *)
(***************************************************************************)
EXTENDS Crc, Readings, Iic

CONSTANTS
  Worlds,          \* bound: what there is to measure
  Noise,           \* bound: what a changed byte may become
  PowerUp,         \* <<low, high>>: what a probe holds before it converts
  ERROR_CODE,
  NO_OF_SAMPLES,   \* 16
  Retries,         \* 500 polls of the light sensor
  MaxPlug,         \* bound: changes of the lines per update
  MaxFaults,       \* bound: sensors whose transfers fail in one update
  Stamps           \* bound: what Read_UnixTime may return

Probes == {1, 2}
Line == {"open", "probe", "low"}
Raw == Byte \X Byte
World == [temp : Raw, humi : Raw, lux : Nat, mv : Nat \ {0}, probe : [Probes -> Raw]]

ASSUME WorldsAssumption == Worlds \subseteq World /\ PowerUp \in Raw
ASSUME LuxAssumption == \A w \in Worlds : w.lux < 1048576    \* 20 bits
ASSUME NoiseAssumption == Noise \subseteq Byte
ASSUME CountsAssumption == NO_OF_SAMPLES \in Nat \ {0} /\ {Retries, MaxPlug, MaxFaults} \subseteq Nat
ASSUME ErrorAssumption == ERROR_CODE \notin Int

VARIABLES
  pc,              \* where the update is
  sMsg,            \* the time stamp of its readings
  queue,           \* Data_Queue
  lightvalue, retry,
  adc,             \* [raw, voltage: statics; sum, i, cali: locals]
  ext_status,      \* probes whose conversion was started
  temp_value,      \* what ub_dt_p1_get_temp returns
  \* The sensors.
  world,           \* what there is to measure in this update
  ltr,             \* light sensor: [mode, ready, als]
  line,            \* what each probe's line is connected to
  pad,             \* what each probe's scratchpad holds
  converting,      \* probes that are measuring
  \* History, read by no action of the code.
  faulty,          \* sensors that failed or were plugged; "slow": light timed
                   \* out; "data": its reading broke off
  shorted,         \* probes whose line was low in this update
  torn,            \* probes plugged while they sent their temperature
  plugs            \* changes of the lines in this update

code == <<pc, sMsg, queue, lightvalue, retry, adc, ext_status, temp_value>>
sensors == <<world, ltr, line, pad, converting>>
history == <<faulty, shorted, torn, plugs>>
vars == <<code, sensors, history>>

Value == Int \cup {ERROR_CODE}
Probe(p) == IF p = 1 THEN "probe1" ELSE "probe2"

TypeOK ==
  /\ pc \in {"boot", "start", "sht30", "ltr_id", "ltr_setup", "ltr_poll", "ltr_data",
             "ltr_standby", "adc_init", "adc_sample", "start1", "start2", "convert",
             "read1", "read2", "push", "done", "aborted"}
  /\ sMsg \in Stamps \cup {0}
  /\ queue \in Seq([num : {1, 2, 3, 4, 6, 7}, ts : Stamps, val : Int])
  /\ lightvalue \in Value /\ retry \in 0..Retries
  /\ adc \in [raw : Nat, voltage : Nat, sum : Nat, i : 0..NO_OF_SAMPLES, cali : BOOLEAN]
  /\ ext_status \subseteq Probes /\ temp_value \in [Probes -> Value]
  /\ world \in Worlds
  /\ ltr \in [mode : {"standby", "active"}, ready : BOOLEAN, als : Nat]
  /\ line \in [Probes -> Line] /\ pad \in [Probes -> Raw] /\ converting \subseteq Probes
  /\ faulty \subseteq Sensors \cup {"battery", "slow", "data"}
  /\ shorted \subseteq Probes /\ torn \subseteq Probes /\ plugs \in 0..MaxPlug

NoSamples == [raw |-> 0, voltage |-> 0, sum |-> 0, i |-> 0, cali |-> FALSE]

\* Reset clears RAM; a new update begins with no fault.
RamCleared ==
  /\ sMsg' = 0 /\ queue' = <<>> /\ lightvalue' = ERROR_CODE /\ retry' = 0
  /\ adc' = NoSamples
  /\ ext_status' = {} /\ temp_value' = [p \in Probes |-> ERROR_CODE]
  /\ faulty' = {} /\ shorted' = {p \in Probes : line'[p] = "low"} /\ torn' = {} /\ plugs' = 0

Init ==
  /\ pc = "boot" /\ sMsg = 0
  /\ queue = <<>> /\ lightvalue = ERROR_CODE /\ retry = 0
  /\ adc = NoSamples
  /\ ext_status = {} /\ temp_value = [p \in Probes |-> ERROR_CODE]
  /\ world \in Worlds
  /\ ltr = [mode |-> "standby", ready |-> FALSE, als |-> 0]
  /\ line \in [Probes -> Line] /\ pad = [p \in Probes |-> PowerUp] /\ converting = {}
  /\ faulty = {} /\ shorted = {p \in Probes : line[p] = "low"} /\ torn = {} /\ plugs = 0
-----------------------------------------------------------------------------
(* Numbers and frames. *)

Bit(i, weight, b) == IF i \in b THEN weight ELSE 0
Num(b) == Bit(0, 1, b) + Bit(1, 2, b) + Bit(2, 4, b) + Bit(3, 8, b)
            + Bit(4, 16, b) + Bit(5, 32, b) + Bit(6, 64, b) + Bit(7, 128, b)
Word(hi, lo) == 256 * Num(hi) + Num(lo)
Short(n) == IF n >= 32768 THEN n - 65536 ELSE n

\* sht30_SingleShotMeasure, in units of 1/65535 degree and 1/65535 percent.
Celsius(hi, lo) == 175 * Word(hi, lo) - 45 * 65535
Humidity(hi, lo) == 100 * Word(hi, lo)

\* ub_dt_p1_read_one, in sixteenths of a degree.
Sixteenths(lo, hi) ==
  IF Num(hi) > 7 THEN -Short(Word(Bits \ hi, Bits \ lo)) ELSE Short(Word(hi, lo))

\* What sensors append to their bytes, as a polynomial remainder: the message,
\* multiplied by x^8, modulo x^8 + x^5 + x^4 + 1.
Remainder(message, degree) ==
  LET left[i \in 0..(degree - 7)] ==
        IF i = 0 THEN message
        ELSE LET m == left[i - 1]
                 e == degree + 1 - i
             IN  IF e \in m THEN SymDiff(m, {e - 8, e - 4, e - 3, e}) ELSE m
  IN  left[degree - 7]

\* Half of an SHT30 answer: two bytes and their checksum.
ShtFrame(raw) ==
  <<raw[1], raw[2],
    Remainder({i + 16 : i \in Bits \ raw[1]} \cup {i + 8 : i \in raw[2]}, 23)>>

\* A probe's scratchpad: temperature, six bytes nobody looks at, checksum.
ProbeFrame(raw) ==
  LET bytes == <<raw[1], raw[2], Bits, {}, Bits \ {7}, Bits, {}, {4}>>
      message == {71 - 8 * (k - 1) - i : k \in 1..8, i \in Bits}
      sent == {e \in message : (71 - e) % 8 \in bytes[(71 - e) \div 8 + 1]}
  IN  Append(bytes, {7 - e : e \in Remainder(sent, 71)})

\* What may arrive: the frame, or the frame with one byte changed.
Received(f) == {f} \cup {[f EXCEPT ![i] = b] : i \in DOMAIN f, b \in Noise}

Pushed(num, val) == Append(queue, [num |-> num, ts |-> sMsg, val |-> val])
Fault(s, ok) ==
  /\ ok \/ s \in faulty \/ Cardinality(faulty) < MaxFaults
  /\ faulty' = IF ok THEN faulty ELSE faulty \cup {s}

\* A sensor's failure does not end the update.
notSht30 == <<sMsg, lightvalue, retry, adc, ext_status, temp_value, sensors, shorted, torn, plugs>>
notLight == <<sMsg, adc, ext_status, temp_value, world, line, pad, converting, shorted, torn, plugs>>
notAdc == <<sMsg, lightvalue, retry, ext_status, temp_value, sensors, shorted, torn, plugs>>
notProbes == <<sMsg, lightvalue, retry, adc, world, ltr, line, shorted, torn, plugs>>
-----------------------------------------------------------------------------
(* The boot and the start of the update. *)

\* At power-on LightSensor_Init puts the light sensor to standby, if it answers.
Boot ==
  /\ pc = "boot"
  /\ pc' = "start"
  /\ ltr' \in {ltr, [ltr EXCEPT !.mode = "standby"]}
  /\ UNCHANGED <<sMsg, queue, lightvalue, retry, adc, ext_status, temp_value>>
  /\ UNCHANGED <<world, line, pad, converting, history>>

Sensors_Data_Update ==
  /\ pc = "start"
  /\ sMsg' \in Stamps
  /\ pc' = "sht30"
  /\ UNCHANGED <<queue, lightvalue, retry, adc, ext_status, temp_value, sensors, history>>
-----------------------------------------------------------------------------
(* The SHT30. *)

ShtValid(half) == Data_Crc_Check(half) = {}

\* Mutant of ShtReadings: each value is reported on its own.
ShtReadingsApart(t, h) ==
  (IF ShtValid(t) THEN <<[num |-> 1, ts |-> sMsg, val |-> Celsius(t[1], t[2])]>> ELSE <<>>)
    \o (IF ShtValid(h) THEN <<[num |-> 2, ts |-> sMsg, val |-> Humidity(h[1], h[2])]>>
        ELSE <<>>)

\* Both values or none.
ShtReadings(t, h) ==
  IF ShtValid(t) /\ ShtValid(h)
  THEN <<[num |-> 1, ts |-> sMsg, val |-> Celsius(t[1], t[2])],
         [num |-> 2, ts |-> sMsg, val |-> Humidity(h[1], h[2])]>>
  ELSE <<>>

\* The bus fails at one of three calls, or six bytes arrive.
sht30_SingleShotMeasure ==
  /\ pc = "sht30"
  /\ \/ UNCHANGED queue /\ Fault("sht30", FALSE)
     \/ \E t \in Received(ShtFrame(world.temp)), h \in Received(ShtFrame(world.humi)) :
          /\ queue' = queue \o ShtReadings(t, h)
          /\ Fault("sht30", t = ShtFrame(world.temp) /\ h = ShtFrame(world.humi))
  /\ pc' = "ltr_id"
  /\ UNCHANGED notSht30
-----------------------------------------------------------------------------
(* LightSensor_value.  A register that could not be read is whatever was on  *)
(* the stack.                                                                *)

LtrCheckId ==
  /\ pc = "ltr_id"
  /\ \E ok, stack \in BOOLEAN :
       /\ pc' = IF IIC_Read_Reg(TRUE, stack, ok) THEN "ltr_setup" ELSE "adc_init"
       /\ Fault("light", ok)
  /\ UNCHANGED <<notLight, queue, lightvalue, retry, ltr>>

\* Active mode starts a conversion; then the rate and the gain are set.
LtrSetup ==
  /\ pc = "ltr_setup"
  /\ pc' = "ltr_poll"
  /\ \E activated, configured \in BOOLEAN :
       /\ ltr' = [ltr EXCEPT !.mode = IIC_Write_Reg(@, "active", activated),
                             !.ready = IIC_Write_Reg(@, FALSE, activated)]
       /\ Fault("light", activated /\ configured)
  /\ UNCHANGED <<notLight, queue, lightvalue, retry>>

\* Mutant of LtrPoll: the counter is too narrow and wraps before its end.
PollForEver ==
  /\ pc = "ltr_poll"
  /\ \E ok, stack \in BOOLEAN :
       /\ pc' = IF IIC_Read_Reg(ltr.ready, stack, ok) THEN "ltr_data" ELSE "ltr_poll"
       /\ Fault("light", ok)
  /\ retry' = (retry + 1) % (Retries + 1)
  /\ UNCHANGED <<notLight, queue, lightvalue, ltr>>

\* Mutant of LtrPoll: it returns when the time is over.
PollReturns ==
  /\ pc = "ltr_poll"
  /\ IF retry = Retries
     THEN /\ pc' = "adc_init" /\ retry' = retry
          /\ faulty' = faulty \cup {"slow"}
     ELSE \E ok, stack \in BOOLEAN :
          LET flag == IIC_Read_Reg(ltr.ready, stack, ok)
          IN  /\ pc' = IF flag THEN "ltr_data" ELSE "ltr_poll"
              /\ retry' = IF flag THEN retry ELSE retry + 1
              /\ Fault("light", ok)
  /\ UNCHANGED <<notLight, queue, lightvalue, ltr>>

LtrPoll ==
  /\ pc = "ltr_poll"
  /\ IF retry = Retries
     THEN /\ pc' = "ltr_standby" /\ retry' = retry
          /\ faulty' = faulty \cup {"slow"}
     ELSE \E ok, stack \in BOOLEAN :
          LET flag == IIC_Read_Reg(ltr.ready, stack, ok)
          IN  /\ pc' = IF flag THEN "ltr_data" ELSE "ltr_poll"
              /\ retry' = IF flag THEN retry ELSE retry + 1
              /\ Fault("light", ok)
  /\ UNCHANGED <<notLight, queue, lightvalue, ltr>>

\* What is left of the 20 bits when none, one or two of the three bytes arrive.
Partial(als) == {0, als % 256, als % 65536}

\* In twentieths of a lux.  Bytes that could not be read are zero.
LtrData ==
  /\ pc = "ltr_data"
  /\ pc' = "ltr_standby"
  /\ \E ok \in BOOLEAN :
       /\ \E als \in IF ok THEN {ltr.als} ELSE Partial(ltr.als) : lightvalue' = 3 * als
       /\ ltr' = IF ok THEN [ltr EXCEPT !.ready = FALSE] ELSE ltr
       /\ Fault("data", ok)
  /\ UNCHANGED <<notLight, queue, retry>>

LtrStandby ==
  /\ pc = "ltr_standby"
  /\ pc' = "adc_init"
  /\ \E ok \in BOOLEAN :
       /\ ltr' = [ltr EXCEPT !.mode = IIC_Write_Reg(@, "standby", ok)]
       /\ Fault("light", ok)
  /\ queue' = IF lightvalue = ERROR_CODE THEN queue ELSE Pushed(3, lightvalue)
  /\ lightvalue' = ERROR_CODE /\ retry' = 0
  /\ UNCHANGED notLight

LightSensor_value == LtrCheckId \/ LtrSetup \/ LtrPoll \/ LtrData \/ LtrStandby
-----------------------------------------------------------------------------
(* power_adcValue.  No result is looked at; a raw sample is written as the   *)
(* millivolts it stands for.                                                 *)

\* Without a unit the handle is a pointer from the stack: a crash, or not.
AdcInit ==
  /\ pc = "adc_init"
  /\ \E unit, configured, cali \in BOOLEAN :
       /\ adc' = [adc EXCEPT !.sum = 0, !.i = 0, !.cali = cali]
       /\ \/ pc' = "adc_sample"
          \/ ~unit /\ pc' = "aborted"
       /\ Fault("battery", unit /\ configured /\ cali)
  /\ UNCHANGED <<notAdc, queue>>

\* A failed read or conversion leaves the value before it.  After the last
\* sample nothing reads the statics before the reset.
AdcSample ==
  /\ pc = "adc_sample"
  /\ \E read, converted \in BOOLEAN :
       LET raw == IF read THEN world.mv ELSE adc.raw
           voltage == IF adc.cali /\ converted THEN raw ELSE adc.voltage
           sampled == [adc EXCEPT !.raw = raw, !.voltage = voltage, !.i = @ + 1,
                                  !.sum = @ + voltage]
       IN  /\ Fault("battery", read /\ converted)
           /\ IF sampled.i < NO_OF_SAMPLES
              THEN pc' = pc /\ adc' = sampled /\ UNCHANGED queue
              ELSE /\ pc' = "start1"
                   /\ adc' = NoSamples
                   /\ queue' = Pushed(4, sampled.sum)
  /\ UNCHANGED notAdc
-----------------------------------------------------------------------------
(* ub_dt_p1_get_temp: both probes start, 750 ms pass, both are read.         *)

\* ub_dt_p1_reset: a line that is low looks like a presence pulse.
Resets(p, answered) == line[p] = "low" \/ (line[p] = "probe" /\ answered)

\* ub_dt_p1_start_one.  The probe may miss the command after its answer.
Start(p) ==
  \E answered, heard \in BOOLEAN :
    /\ ext_status' = IF Resets(p, answered) THEN ext_status \cup {p} ELSE ext_status
    /\ converting' = IF line[p] = "probe" /\ answered /\ heard
                     THEN converting \cup {p} ELSE converting
    /\ Fault(Probe(p), line[p] # "probe" \/ (answered /\ heard))
    /\ UNCHANGED <<notProbes, queue, temp_value, pad>>

ub_dt_p1_start ==
  \/ pc = "start1" /\ pc' = "start2" /\ Start(1)
  \/ pc = "start2" /\ pc' = "convert" /\ Start(2)

\* The 750 ms are enough.
Convert ==
  /\ pc = "convert"
  /\ pc' = "read1"
  /\ pad' = [p \in Probes |-> IF p \in converting THEN world.probe[p] ELSE pad[p]]
  /\ converting' = {}
  /\ UNCHANGED <<notProbes, queue, ext_status, temp_value, faulty>>

\* Mutant of ProbeValue: no checksum.
ProbeValueUnchecked(f) == Sixteenths(f[1], f[2])

ProbeValue(f) == IF calcrc_bytes(f) = {} THEN Sixteenths(f[1], f[2]) ELSE ERROR_CODE

\* What a probe may hold, and what one that holds raw may be taken to answer.
Held == {PowerUp} \cup {w.probe[p] : w \in Worlds, p \in Probes}
Answers ==
  UNION {{[raw |-> raw, value |-> ProbeValue(f), whole |-> f = ProbeFrame(raw)] :
            f \in Received(ProbeFrame(raw))} : raw \in Held}

\* A line held low reads as nine zero bytes.
Silence == [i \in 1..9 |-> {}]
Zero == ProbeValue(Silence)

\* The line changes after k bits of f: nobody sends the others, and a line that
\* is not low is pulled up.
Torn(f, k, to) ==
  [i \in 1..9 |-> {b \in Bits : IF 8 * (i - 1) + b < k THEN b \in f[i] ELSE to # "low"}]

\* What such a reading may be taken for; early: before the temperature's bytes
\* are over.
Cuts ==
  {[from |-> from, raw |-> raw, to |-> to, early |-> k < 16,
    value |-> ProbeValue(Torn(IF from = "low" THEN Silence ELSE ProbeFrame(raw), k, to))] :
     from \in {"probe", "low"}, raw \in Held, to \in Line, k \in 0..71}

\* ub_dt_p1_read_one, if the probe was started.
Read(p) ==
  /\ IF p \notin ext_status
     THEN /\ Fault(Probe(p), line[p] # "probe")
          /\ UNCHANGED temp_value
     ELSE \/ /\ line[p] # "low"
             /\ Fault(Probe(p), line[p] # "probe")
             /\ UNCHANGED temp_value
          \/ /\ line[p] = "probe"
             /\ \E a \in Answers : /\ a.raw = pad[p]
                                   /\ temp_value' = [temp_value EXCEPT ![p] = a.value]
                                   /\ Fault(Probe(p), a.whole)
          \/ /\ line[p] = "low"
             /\ temp_value' = [temp_value EXCEPT ![p] = Zero]
             /\ UNCHANGED faulty
  /\ UNCHANGED <<notProbes, queue, ext_status, pad, converting>>

\* A probe is plugged, unplugged or shorted.
Change(p) ==
  /\ plugs < MaxPlug /\ plugs' = plugs + 1
  /\ \E to \in Line \ {line[p]} : line' = [line EXCEPT ![p] = to]
  /\ pad' = [pad EXCEPT ![p] = PowerUp]
  /\ converting' = converting \ {p}
  /\ faulty' = faulty \cup {Probe(p)}
  /\ shorted' = shorted \cup {q \in {p} : line'[p] = "low"}

\* ub_dt_p1_read_one, if that happens while the nine bytes are read.
ReadTorn(p) ==
  /\ p \in ext_status /\ line[p] # "open"
  /\ Change(p)
  /\ \E c \in Cuts :
       /\ c.from = line[p] /\ c.raw = pad[p] /\ c.to = line'[p]
       /\ temp_value' = [temp_value EXCEPT ![p] = c.value]
       /\ torn' = torn \cup {q \in {p} : c.early}
  /\ UNCHANGED <<sMsg, queue, lightvalue, retry, adc, ext_status, world, ltr>>

ub_dt_p1_get_temp ==
  \/ pc = "read1" /\ pc' = "read2" /\ (Read(1) \/ ReadTorn(1))
  \/ pc = "read2" /\ pc' = "push" /\ (Read(2) \/ ReadTorn(2))

Probed(p) == IF temp_value[p] = ERROR_CODE THEN <<>>
             ELSE <<[num |-> 5 + p, ts |-> sMsg, val |-> temp_value[p]]>>

\* Mutant of PushProbes: the error code is a reading.
PushProbesUnchecked ==
  /\ pc = "push"
  /\ pc' = "done"
  /\ queue' = queue \o <<[num |-> 6, ts |-> sMsg, val |-> temp_value[1]]>> \o Probed(2)
  /\ UNCHANGED <<notProbes, ext_status, temp_value, pad, converting, faulty>>

PushProbes ==
  /\ pc = "push"
  /\ pc' = "done"
  /\ queue' = queue \o Probed(1) \o Probed(2)
  /\ ext_status' = {} /\ temp_value' = [p \in Probes |-> ERROR_CODE]
  /\ UNCHANGED <<notProbes, pad, converting, faulty>>
-----------------------------------------------------------------------------
(* The sensors. *)

LtrConverts ==
  /\ ltr.mode = "active" /\ ~ltr.ready
  /\ ltr' = [ltr EXCEPT !.ready = TRUE, !.als = world.lux]
  /\ UNCHANGED <<code, world, line, pad, converting, history>>

\* Between two transfers to the probes.
Plug(p) ==
  /\ pc \in {"start1", "start2", "convert", "read1", "read2"}
  /\ Change(p)
  /\ UNCHANGED <<code, world, ltr, torn>>

\* The report, the sleep and the next boot; a probe that stays keeps its value.
NextBoot ==
  /\ pc \in {"done", "aborted"}
  /\ pc' = "boot"
  /\ world' \in Worlds
  /\ line' \in [Probes -> Line]
  /\ pad' = [p \in Probes |-> IF line'[p] = line[p] THEN pad[p] ELSE PowerUp]
  /\ converting' = {}
  /\ RamCleared
  /\ UNCHANGED ltr

Update ==
  \/ Sensors_Data_Update \/ sht30_SingleShotMeasure \/ LightSensor_value
  \/ AdcInit \/ AdcSample
  \/ ub_dt_p1_start \/ Convert \/ ub_dt_p1_get_temp \/ PushProbes

Next ==
  \/ Boot \/ Update
  \/ LtrConverts \/ (\E p \in Probes : Plug(p)) \/ NextBoot

Spec == Init /\ [][Next]_vars

\* The task is scheduled, and every transfer ends or times out.
FairSpec == Spec /\ WF_vars(Update)
-----------------------------------------------------------------------------
Values(num) == {queue[i].val : i \in {j \in DOMAIN queue : queue[j].num = num}}

\* A probe's temperature in sixteenths of a degree, and whether v shows it:
\* exactly from 0 to 128 degrees, within a sixteenth below zero.
Degrees(raw) == Short(Word(raw[2], raw[1]))
Shows(v, raw) ==
  v - Degrees(raw) \in IF 0 <= Degrees(raw) /\ Degrees(raw) < 2048 THEN {0} ELSE {0, 1}

\* An answer sht30dis.c calls abnormal.
AllZero == world.temp = <<{}, {}>> /\ world.humi = <<{}, {}>>

(***************************************************************************)
(* A sensor that did not fail in this update is reported, once and with    *)
(* what it measured, whatever the other sensors do: the conversions are    *)
(* right, a probe that is not there is not reported, and no reading goes   *)
(* under the number of another.  Two cases in which the code does not do   *)
(* what its comments say are left to properties of their own: below zero a *)
(* probe's temperature need only be right within a sixteenth of a degree   *)
(* (ActualTemperature), and nothing is asked of an SHT30 whose bytes are   *)
(* all zero (ZeroIsAbnormal).                                              *)
(***************************************************************************)
ReadingsAreMeasured ==
  pc = "done" =>
    /\ "sht30" \notin faulty /\ ~AllZero =>
         /\ Values(1) = {Celsius(world.temp[1], world.temp[2])}
         /\ Values(2) = {Humidity(world.humi[1], world.humi[2])}
    /\ faulty \cap {"light", "slow", "data"} = {} => Values(3) = {3 * world.lux}
    /\ "battery" \notin faulty => Values(4) = {NO_OF_SAMPLES * world.mv}
    /\ \A p \in Probes : Probe(p) \notin faulty /\ p \notin shorted =>
         IF line[p] = "open" THEN Values(5 + p) = {}
         ELSE \E v \in Values(5 + p) : Values(5 + p) = {v} /\ Shows(v, world.probe[p])

(***************************************************************************)
(* No failure invents a measurement.  A changed byte never gets past the   *)
(* checksums of SHT30 and probes, so a reading of the SHT30 is today's,    *)
(* and a probe's is one of that probe, of today, of an earlier update, or  *)
(* the one it powers up with.  The light is today's, an earlier update's   *)
(* or the 0 of power-on, also if a failed poll was taken for ready data,   *)
(* and the battery is never shown fuller than it is.  Three failures do    *)
(* invent one.  When the data of the light sensor cannot be read, the      *)
(* bytes that did not come count as 0 (LightIsMeasured).  A line shorted   *)
(* to ground reads as 0 degrees, and as nothing else (NoProbeNoReading).   *)
(* When a probe is pulled out or shorted in the first two of its nine      *)
(* bytes, one checksum in 256 fits by chance; later than that, the         *)
(* reading is right or refused.                                            *)
(***************************************************************************)
NothingInvented ==
  /\ Values(1) \subseteq {Celsius(world.temp[1], world.temp[2])}
  /\ Values(2) \subseteq {Humidity(world.humi[1], world.humi[2])}
  /\ "data" \notin faulty => Values(3) \subseteq {0} \cup {3 * w.lux : w \in Worlds}
  /\ \A v \in Values(4) : v <= NO_OF_SAMPLES * world.mv
  /\ \A p \in Probes \ torn : \A v \in Values(5 + p) :
       \/ v = 0 /\ p \in shorted
       \/ \E raw \in {PowerUp} \cup {w.probe[p] : w \in Worlds} : Shows(v, raw)

\* Four statements of the drivers' comments.
\* ub_dt_p1.c:209: the actual temperature of a probe that is there.
ActualTemperature == \A p \in Probes :
  Probe(p) \notin faulty /\ line[p] = "probe" => Values(5 + p) = {Degrees(world.probe[p])}

\* ub_dt_p1.c:68: without a probe, here on a line shorted to ground, the reset
\* fails, and no temperature is reported.
NoProbeNoReading == \A p \in Probes :
  Probe(p) \notin faulty /\ line[p] # "probe" => Values(5 + p) = {}

\* ltr308.c:62: data that is ready is read and returned as lux.
LightIsMeasured == faulty \cap {"light", "slow"} = {} => Values(3) = {3 * world.lux}

\* sht30dis.c:29: temperature and humidity both 0 are abnormal, and not reported.
ZeroIsAbnormal == AllZero => Values(1) = {} /\ Values(2) = {}

(***************************************************************************)
(* The property asks only that at the end of an update one of these four   *)
(* statements holds, so a state that violates it is a counterexample to    *)
(* each of them: a probe below zero is reported a sixteenth of a degree    *)
(* too warm, a shorted line as 0 degrees, light whose reading broke off    *)
(* with its missing bytes as 0, and an SHT30 whose bytes are all zero as   *)
(* -45 degrees.                                                            *)
(***************************************************************************)
SensorsAsDocumented ==
  pc = "done" => ActualTemperature \/ NoProbeNoReading \/ LightIsMeasured \/ ZeroIsAbnormal

(***************************************************************************)
(* The light sensor does not measure through the deep sleep: it is back in *)
(* standby after every update in which its bus worked, also when its time  *)
(* was over, and also when an earlier boot left it measuring.              *)
(***************************************************************************)
LightStandsBy == pc = "done" /\ ltr.mode = "active" => "light" \in faulty

(***************************************************************************)
(* The readings are those module ReportCycle takes for one update: the     *)
(* battery always, each other sensor with all its numbers or none, in this *)
(* order, with one time stamp.                                             *)
(***************************************************************************)
AsReportCycleTakes ==
  pc = "done" =>
    \E failed \in SUBSET Sensors :
      [i \in DOMAIN queue |-> [num |-> queue[i].num, ts |-> queue[i].ts]] = Sampled(failed, sMsg)

(***************************************************************************)
(* Every update ends (or the chip crashes), even if the light sensor never *)
(* has data.                                                               *)
(***************************************************************************)
UpdateEnds == pc = "start" ~> pc \in {"done", "aborted"}
=============================================================================
