# Verification of the UbiBot WS1B firmware

TLA+ models of the firmware under `src/`, checked with TLC and proved about with TLAPS. `PROJECT.json`
maps every definition to the lines it stands for and lists the runs, theorems, findings and hazards.

## The system

The WS1B is a battery-powered sensor node. It boots (after a power-on, a restart or deep sleep), reports
once, and sleeps. RAM is lost on every boot; NVS flash and the clock chip keep their state.

| Component | State | Operations | Interacts with |
|---|---|---|---|
| Provisioning (`main/provisioning.c`) | active configuration in RAM; keys in NVS; the line buffer | `Provision_Init`, `Provision_RunWindow`, three command handlers and their saves | UART host, NVS, read by the main task |
| Server commands (`main/command.c`) | report interval in RAM and NVS | `Command_Init`, `Command_HandleResponse`, save | called by the response parser; read before sleep |
| Sleep and wake-up (`main/power_mgmt.c`) | timer; `sw_wakeup` | `Enter_Sleep`, `WakeUp_Process`, `SW1_Task` | semaphore, pins |
| Button and interrupt (`pinmux.c`, `osi.c`) | the binary semaphore `SW1_Binary` | `gpio_isr_handler`, signal, wait, clear | interrupt, highest-priority task |
| WiFi (`wifi_connect.c`) | bits of `Nets_Group` | `WiFi_Init/_Connect/_Disconnect/_Stop`, `event_handler` | main task and event loop task share the bits and the driver |
| HTTP client (`http_client.c`) | client handles | `HTTP_Post_Method`, `Parse_Response` | sets the clock, runs server commands |
| Main task (`main.c`) | `Data_Queue`, where it is | `app_main`, `Main_Task`, `Sensors_Data_Update` | everything |
| JSON payloads (`json_payload.c`) | none | drain the queue | queue, clock |
| Clock (`PCF8563.c`) | the chip's time | reset, read, set | I2C |
| Sensors and ADC (`sht30dis.c`, `ltr308.c`, `ub_dt_p1.c`, `power_adc.c`, `crc_check.c`) | the devices' registers, which outlive a boot | one measurement each | I2C, single wire; called by the main task |
| Flash and EEPROM (`w25q128.c`, `at24c32.c`) | the chips' cells; the flash's busy bit and power-down | erase, write page by page, read | SPI, I2C; no caller in this firmware |
| Buses, LEDs (`iic.c`, `user_spi.c`, `indicators.c`) | none | one transfer each | I2C, SPI, GPIO |

What is hard here: flash writes that fail or are cut between two keys; RAM and flash that must agree; two
tasks and a driver that race over one connection; edges of a bouncing contact against a task that sleeps;
a time that is sampled before a slow call and used after it; unsigned arithmetic on seconds and
microseconds; writes to chips that break off half-way and are never looked at again; and that each of many
ignored errors still ends in deep sleep.

What makes each component correct:

- *Provisioning*: an ack is a promise, in this boot and in later ones; a failed or cut save, or a failed
  read, leaves no third value and touches no other command's keys. The window never overflows its buffer, never mixes
  lines, never cuts off an active host, always closes.
- *Commands and sleep*: the interval in use, in flash and in the timer is that of the last save that
  succeeded, up to what a failed save or an unreadable NVS leaves until the next one.
- *WiFi*: no reconnection forgotten, no address overlooked, off means off, no wait without an end.
- *Button*: one beep per press, wake-ups are heard, no stale wake-up flag.
- *Sensors*: what is reported was measured, a failure costs its own sensor's readings and no other's, and
  no sensor is left measuring during the sleep.
- *Clock, flash, EEPROM*: what was written is read back, over every boundary of a date, a page and a chip,
  nothing else is touched, and a clock that was half set asks for the time again.
- *Cycle*: no reading lost inside the device, sensible time stamps, WiFi off before sleep, bounded leaks,
  and every cycle ends.

## Modules

| Module | Models | Checked with | Proofs |
|---|---|---|---|
| `ConfigStore` | abstract: what a persistent configuration promises | as `StoreSpec`, `IntervalSpec` | |
| `Provisioning` | configuration, handlers, saves, boot | `MCProvisioning` | `ProvisioningProofs` |
| `ProvisionWindow` | the loop of `Provision_RunWindow` | `MCProvisionWindow` | `ProvisionWindowProofs` |
| `Serial` | `Provisioning` and `ProvisionWindow` as one program, over any number of boots | `MCSerial` | |
| `Command` | interval, its save, restart, `Enter_Sleep`'s timer | `MCCommand` | `CommandProofs` |
| `WifiConnect` | two tasks, driver and network in one boot | `MCWifiConnect` | `WifiConnectProofs` |
| `Button` | contact, interrupt, semaphore, `SW1_Task`, wake-up | `MCButton` | `ButtonProofs` |
| `ReportCycle` | boot, cycle, sleep; extends and composes `Command` and `Readings` | `MCReportCycle` | `ReportCycleProofs` |
| `Readings` | what one `Sensors_Data_Update` queues; the contract of `Sampling` and `ReportCycle` | with both | |
| `Crc` | the two checksums, on bytes as sets of bits | with `Sampling` | `SamplingProofs` |
| `Iic` | the four I2C transfers, with failures that nobody is told of | with `Sampling` and `Rtc` | |
| `Sampling` | `Sensors_Data_Update` and its drivers, sensor by sensor | `MCSampling` | `SamplingProofs` |
| `Rtc` | the driver of the clock, its registers, the calendar | `MCDrivers` | `DriversProofs` |
| `W25q128` | the driver of the flash | `MCDrivers` | `DriversProofs` |
| `At24c32` | the driver of the EEPROM | `MCDrivers` | `DriversProofs` |
| `Drivers` | the three drivers in one specification, one of them called at a time | `MCDrivers` | `DriversProofs` |

`Provisioning` and `ProvisionWindow` split one source file at `prov_handle_line`: the window hands over
lines, the handlers take commands. `Serial` puts them together again: the loop stands still while a handler
runs, and each window starts it anew. `ReportCycle` uses the result of `WifiConnect` (`Connected`,
`NotConnected`, `WifiAbort`) and the actions of `Command` as they are.

### How state and actions correspond to the code

*Provisioning.* `ram` is the six statics, `nvs` the namespace `ubprov`. `pc` walks through the boot
(`uart`, `window`, `running`) and, during a save, from NVS call to NVS call (`open`, `set`, `commit`,
`apply`). A boot reads each key by a call of its own, which may fail (`ReadBack`, `Boot(lost)`). `NvsFail` is
the failing call of a save: it ends in `nvs_close` and `{"c":2}`. NVS has the contract of `nvs.h`: from the
call of `nvs_set_*`, even one that then fails, until `nvs_commit` a key may or may not have reached flash
(`InFlight`), so a failure or `PowerLoss` keeps any subset (`CutShort`). A text is a model value, empty or too
long; a port is counted in halves, because the handler truncates a double. History: `promised` holds the
values last acknowledged, `unacked` those in flash that were not, `inherited` those of them that this boot
started from, `unread` the stored keys it could not read.

*ProvisionWindow.* A byte is its position in the line the host sends, so the buffer shows which part of
which line it holds. `clock` is the time, `now` the loop's copy of it.

*Command.* `mode` walks through `command_save_report_interval`. `Word` stands for 2^32. A conversion of
a double outside `uint32_t` is undefined in C: any value may result. `Enter_Sleep` multiplies in 32 bits.
`agreed`, `unacked` and `inherited` are the history of `Provisioning` for one key; `loaded` says whether this
boot could read NVS, `fresh` whether a save has succeeded in it.

*WifiConnect.* `main` is the main task, `task` the event loop task between `event_handler`'s look at
`WIFI_S` and its call of `esp_wifi_connect`. Driver, DHCP and network act on their own: joining fails or
succeeds at any moment, a link drops at any moment, the address event is posted any time after the answer. `esp_wifi_connect`
may return an error, of which `event_handler` takes no notice; `attempt` is history: how its last call ended.

*Button.* `level` is the pin, `contact` the finger. A rising edge gives the semaphore. The contact
chatters for at most `BounceTicks` after each change. `osi_Sleep(10)` is `10 / portTICK_PERIOD_MS` ticks, one
tick at the default 100 Hz, and ends with the next tick interrupt: the delay of `SW1_Task` takes any time from
none to `DebounceTicks`.

*ReportCycle.* `main` is the program counter of `app_main` and `Main_Task`; each HTTP call fails or
succeeds; a response is any body the parser distinguishes (a time or none, a command of `Responses`).
The clock chip is read and written over I2C without a look at the result: a failed read gives any time
(`ReadClock`), a failed write leaves any time (`Written`). So does a
time the chip cannot keep (`Outside`: not in 2000..2099), such as the 0 of a `"t"` that is no number.

*Sampling.* `pc` walks through `Sensors_Data_Update` from driver to driver, and through `LightSensor_value`,
`power_adcValue` and `ub_dt_p1_get_temp` from transfer to transfer. `world` is what there is to measure, `ltr`, `line`
and `pad` are the sensors. They keep their state while RAM is lost (`NextBoot`). A transfer that fails on the I2C bus
leaves its buffer as it was: zeros or the stack. A read of the light data may break off after any byte (`Partial`).
`Received` is a frame with at most one byte changed by noise, and both routines see every such change (proved, see
below). A probe that is plugged, unplugged or shorted while its nine bytes are read changes all the bits after that
one (`Torn`, `ReadTorn`); the checksums a sensor appends (`Remainder`) are computed by long division, not by the
code's algorithm. The I2C functions are those of `Iic`. Floats are exact multiples of a fraction of their unit, so the
conversions are compared as integers. `faulty`, `shorted` and `torn` are history: which sensors the environment
disturbed, which lines were low, and which probes' lines changed in the two bytes of their temperature. What is
assumed of the devices: entering active mode clears the light sensor's data flag, and 750 ms suffice for a probe.

*Rtc.* `regs` are the chip's registers, `phase` the order in which `app_main` calls the driver. A transfer
writes the first `taken` of its bytes, and the code never learns how many (`IIC_Write_Buf`); a read sees
the unused bits of a register as zeros or as ones (`Seen`). A Unix time is written as the date that
`localtime` and `mktime` make of it, so no number is converted, and `Tick` advances both the registers, by
the chip's calendar, and the date that is due (`due`, history), by ours, up
to the end of 2099: the chip's two digits of the year name no more. `unset` is history: the clock
holds no complete time since its reset. `ticks` and `years` bound the run: the chip counts at most `MaxTicks`
seconds and `MaxYears` ends of a year after a time was written wholly.

*W25q128* and *At24c32.* A memory is kept relative to the start of the last call: a cell is old, or erased,
or shows which byte of the caller's buffer was written into it, so no contents are enumerated and a byte
at a wrong place is seen. Each flash cell is the set of what it is the AND of, as NOR flash programs. The
loops go piece by piece, and a piece may fail or break off. `w25q_WaitCompleted` gives up after about a
minute, which every erase but that of the whole chip meets: then the chip stays `busy`, and takes no
command. History: `asked` is what the cells should hold after the last call, of the size it was called with;
`wholePages` are the cells of the pages that lie wholly inside it, `refused` says that the chip did not take
a command of it, `length` and `broken` that its size was 256 or a transfer failed. `FlashAsAsked` and
`EepromAsAsked` state what holds apart from these cases, and `drivers_documented` that two of the cases break
what the comments say. `i2c_master_bus_add_device` is not checked in `at24c32_write`: when it fails, the
transfer goes through a handle that was never set, which stops the program (`BusAddDeviceFails`) or fails
like any other.

## Runs

| Run | What it asks | Bounds |
|---|---|---|
| `provision` | acks as promises, true acks, port range, refinement of `ConfigStore` | one new value per text and every class of each field; ports absent, 0, 0.5, 1.5, 3.5, 4 with 3 as the highest; a boot reads every stored key, all but one, or none (`FewUnread`; the proofs have any set); 646 thousand states |
| `window` | buffer, cap, activity | buffer 4, lines up to 9 bytes, so one line overflows the buffer twice; cap of several polls |
| `command` | RAM, flash and timer agree; refinement of a one-key `ConfigStore` | word 8, 3 us per second: intervals on both sides of every wrap, half seconds included; 37 thousand states |
| `wifi` | races of the two tasks | none: the protocol bounds its queue, 599 states |
| `button` | bounce against every delay | chatter up to 2 ticks, a delay of 0 to 2, beep 3: the delay ends inside the chatter, with it or after it; 1685 states |
| `cycle` | all failures of a cycle, across boots; every cycle ends, in deep sleep unless interrupted | clock of 3 instants and one it cannot keep, two sensors that may fail (one of two readings), 4 commands; 526 thousand states |
| `sampling` | measured values, no invented ones, light sensor in standby, the contract `Readings` | two worlds with a probe below zero in each, bytes changed to 3 values, 2 samples and 1 poll instead of 16 and 500, one change of the lines and two disturbed sensors per update, a read torn at any of its 72 bits, any number of boots; 361 thousand states |
| `drivers` | what was written is read back, from the clock, the flash and the EEPROM | seven dates: none, before the ends of a day, a short and a long February and a year, and at the end of 32 bits; three seconds and three year ends after each; transfers of 0, 1, 4, 6 or 7 of 7 bytes; a flash of 4 pages of 4 bytes in 2 sectors, an EEPROM of 3 pages of 4 bytes written 2 at a time, every address and size; 406 thousand states |
| `serial_documented` | three statements about the serial port that the code does not keep | two commands, a buffer of one byte and the NUL, lines up to 3 bytes, one unread key a boot; a failing `nvs_set_*` writes nothing here, so that the counterexample rests on the calls before it |
| `command_documented` | three statements about commands and sleep that the code does not keep | as `command`, without numbers whose conversion is undefined |
| `sensors_documented` | four statements about the sensors that the code does not keep | as `sampling`, in one world, all zero for the SHT30 |
| `drivers_documented` | three statements about the drivers that the code does not keep | the smallest chips, one time before 2000, the three drivers called in one behaviour (`TogetherSpec`) |

The bounds are small because nothing in the code counts higher than these cases: the handlers
distinguish classes of values, the buffer its length and one less, the conversions the word and its
neighbours. Where the number matters for every value, the proofs below cover it. The queue has its real
length, 20: a cycle offers it seven readings and `WiFi_Connect` one of these.
`window` and `wifi` do not check deadlock: the window closes and a boot's connection ends.

### Fairness

`Provisioning`, `ProvisionWindow` and `Command` assume none.

- `WifiConnect`: weak fairness of the main task and of the event loop task; FreeRTOS schedules both, and
  the 30 s wait is a timer. Nothing is assumed of driver or network.
- `Button`: weak fairness of time, of `app_main` and of `SW1_Task` (priority 9, the highest). Nothing is
  assumed of the button.
- `ReportCycle`: weak fairness of the main task's steps: `WiFi_Connect` returns (run `wifi`), the HTTP
  client has `timeout_ms = 30000`, the queue is used without waiting. Weak fairness of the boot: the chip
  boots after every reset, and after deep sleep when its timer expires. `SleepsUnlessInterrupted` adds a
  premise instead of fairness: eventually no power cut, no abort of the WiFi driver and no commanded
  reboot. Nothing in the code ends any of the three.
- `Sampling`: weak fairness of the update: every I2C transfer has a timeout, the waits are timers. Nothing
  is assumed of the sensors; the light sensor may never have data.

### Findings

Each of the four runs that are expected to fail collects what the repository says about one part of the system and
the code does not do. Its property asks only that *one* of the statements holds, at the end of an update, when
the device goes to sleep, and so on. The counterexample therefore contradicts every one of them, in a single
behaviour.

`serial_documented`:

1. A SetupWifi answered with `c:2` may have replaced the stored SSID and not the password. The next boot loads a
   pair nobody sent, although the value before was persisted "until re-provisioned" (README.md:26,
   provisioning.c:108).
2. Each of the six `nvs_get_*` is checked by itself (provisioning.c:370-402), and a failed read of a stored key
   counts as a key that was never set: a provisioned SSID with the default password, although a provisioned value
   "takes priority [...] on every subsequent boot" (README.md:26).
3. The comment at provisioning.c:447 promises to drop a long line and "resync on the next newline"; its tail is
   handled as a line.

`command_documented`:

4. `"seconds": 0.5` passes the check for a positive number (command.c:113) and is truncated to an interval of 0.
5. `slp_time * 1000000` wraps in 32 bits (power_mgmt.c:83): two hours become 48 minutes.
6. A call of a save that fails may have written. RAM then keeps the old interval and the next boot takes the new one,
   though command.c:56-60 says a failed write "never leaves RAM and storage disagreeing".

`drivers_documented`:

7. `tm_year-100` in a `uint8_t` (PCF8563.c:114) makes 2066 of 1970, the time set by a `"t"` that is no number
   (http_client.c:109), where PCF8563.c:103 says "the given Unix timestamp" is written.
8. The size of a page is a `uint8_t` (w25q128.c:169), so whole pages of 256 bytes are not written, against :164
   and "data of arbitrary length" at :188.
9. Of 256 bytes, a documented size (at24c32.c:99), nothing is written (:101).

`sensors_documented`:

10. "The actual temperature" of a probe (ub_dt_p1.c:255) is a sixteenth of a degree too high below zero: the
    complement at :237-243 lacks the one.
11. A line shorted to ground passes for "the probe's presence pulse" (ub_dt_p1.c:68, :81), and its nine zero
    bytes, whose checksum is zero, for 0 degrees.
12. "Once ready reads the ALS data registers and converts them" (ltr308.c:61), but a read that fails is converted
    too, as the zeros the buffer began with (:81).
13. SHT30 values that are both 0 are "abnormal" and ERROR_CODE by sht30dis.c:29-30; nothing checks it. The run
    takes the values as they come from the sensor. Converted, the temperature is never exactly 0: no 16-bit
    value gives it.

Each of these cases is an exception that the property of the passing run states by name, so that
everything around it is still checked: `RunningAsPromised` (2, and 1 after a restart), `IntervalAsAgreed` (6),
`ClockKeepsTime` (7), `FlashAsAsked` (8), `EepromAsAsked` (9), `ReadingsAreMeasured` (10, 13), `NothingInvented`
(11, 12). Four exceptions contradict no statement of the repository and are in no finding:

- `BeepAnswersPress` leaves out the chatter of a release that outlasts the delay of `SW1_Task`, which may end at
  once (osi.c:442): such a release beeps.
- `FlashAsAsked` asks of a call the busy or sleeping chip did not take only that it spoils no cell.
  `w25q_WaitCompleted` documents its time-out (w25q128.c:70) and reports it to nobody.
- `AlwaysTrying` leaves out a link that stays idle after `esp_wifi_connect` returned an error.
- `NothingInvented` leaves out a probe whose line changes while it sends its temperature, where one checksum in
  256 fits.

## Proofs

All for every value of the constants, under the named assumptions of the module (`RequestsAssumption`,
`PortAssumption`, ...), which say that the constants have the kind the code gives them. The theorems about
`Drivers` name theirs as hypotheses: `ClockAssumption`, and the sizes of code and chips (`RealSizes`, and
`Byte = 256` for the flash). `BounceAssumption` says that a beep of 200 ms outlasts the chatter of a contact,
so that one press does not beep twice; nothing is assumed of the delay of `SW1_Task`.

- **Provisioning.** `RunningAsPromised` needs `StoreAsPromised` (a boot loads of the store what it can read),
  which needs what holds inside a save: `CommittedIsStored` (between commit and copy, flash has the command's values) and
  `KeysLeft` (commit only after all keys were set). Their conjunction with `TypeOK` is `IInv`; one lemma
  per kind of step (boot, cut, commit, apply) shows it is kept. `OnlyOwnKeysWritten` and `AckIsTrue`
  follow from it.
  Facts about the keys (the groups partition them, what is saved is a value) are lemmas of their own.
- **ProvisionWindow.** `TurnTimes` says how far the time has got at each point of a turn; with
  `ActivityHeard` it gives the cap and the activity property. The buffer properties are inductive together.
- **Command.** `IInv` joins the two agreements with `CommittedIsStored`, as above.
- **WifiConnect.** `AlwaysTrying` needs that events are handled in order and that `WIFI_S` stands for a
  driver that is wanted (`StartedBit`); `AddressNoticed` that a lease, once announced, is known or its event
  is on its way (`LeaseAnnounced`). Nothing bounds the queue of events.
- **ReportCycle.** `CycleRunsCommand`: every step of the cycle is a step or a stutter of `Command`, so its
  invariant holds here, and `SleepUsesLastInterval` follows. For the rest `CycleIInv` says, at each point of
  the cycle, which request was begun (`Begun`), what is held (`Held`), where the readings are and how many
  (`Collected`), and what their stamps are worth (`Stamps`). `ReportComplete` needs `QueueAssumption`, room
  for eight readings; that at most seven are taken from the sensors is `SampledDated`.
- **Drivers, the clock.** `WrittenIsRead` is what the driver's arithmetic promises for every time of the
  century: the digits fit their registers, the masks lose none of them and drop all other bits. `ClockIsRight`
  (`ClockKeepsTime`) adds the seconds since, to the end of the century: the chip's carry from place to place and ours agree
  (`SamePlaceCounts`) because from 2000 to 2099 two digits of the year decide whether it is a leap year.
  `UnsetIsNoticed` (`HalfSetNoticed`) needs one fact about a setting that broke off: the year is the last
  byte written, so a clock that was not wholly set has still the year of its reset, or one that the chip
  counted from there (`UnsetIInv`). Its hypothesis is that fewer year ends pass than lie between 2018 and the
  time `main` compares with; after them, such a clock is rightly not known from a set one.
- **Drivers, the memories.** `FlashWritesAsAsked` (`FlashAsAsked`) holds for a chip of any size. The pieces of
  a write lie each in one page and follow one another without a gap (`TurnPiece`, `EnoughTurns`), so what
  differs from what was asked is what a later turn of the loop covers, a page that the write covers wholly, or
  what the chip refused.
  `EepromWritesAsAsked` is the same for every address and size below 256 of the EEPROM: its pieces cross no boundary
  of 16, so a transfer never starts over at the beginning of a page of the chip (`NoWrap`), and they leave
  no byte out (`PiecesOfWrite`). `DriversTyped` collects the types from the three invariants.
- **Crc.** Both routines go through a table that loses nothing (`CrcTableIsInjective`,
  `MergedTableIsInjective`), so two frames that differ in one byte never meet again (`ChangeStays`):
  `ShtChangeIsSeen`, `ProbeChangeIsSeen`. `RemainderIsChained` says that long division of a message of any
  length is what the loop over its bytes computes; with `ChainMirrored`, by which the routine of the probes
  is the other one with the bits in reverse, a frame that arrives as it was sent is accepted
  (`ShtFrameIsRight`, `ProbeFrameIsRight`). The induction over the bytes is done on sets of numbers: if the
  fact failed for some turn it would for a least one (`Least`, from `WFMin` of the library).
- **Sampling.** One invariant for each sensor, which says at every point of the update what the sensor and
  the driver's variables hold and what is queued: `ShtInv`, `LightInv`, `BatteryInv` (no sum above that of the
  samples taken, which settles what the stale values of failed samples can do), `ProbeInv` (what a scratchpad
  and `temp_value` mean depends on whether the line was shorted or the probe was missed). A reading torn after
  its first two bytes shows what the probe sent or is refused, because the temperature is in those two; torn
  within them it may show anything, which is why `torn` is in the property. `ShapeInv` says
  in which order the readings are queued. That a step for one sensor leaves the readings of the others alone
  is `Kept` and `ValuesStay`. Together with the types they are `IInv`, and `ReadingsMeasured`,
  `FailuresInventNothing`, `LightEndsInStandby` and `UpdateMatchesReport` follow from it at the end of an update.
- **Button.** `HeardMeansOver` carries the argument: when no press is unheard, the chatter still to come
  is that of a release or ends before the task clears the semaphore. It is what `BeepAnswersPress` needs
  without any assumption about the delay.
- **Refinement.** `ProvisioningImplementsConfigStore` and `CommandImplementsConfigStore` show that initial
  states map to initial states and every step to a step or a stutter of `ConfigStore`. The mapping is
  `MayFind`: a key set and not committed may be found old or new. `Void` are the values a boot takes as none:
  none in provisioning, a stored zero in `Command`, which is finding 4 seen from the specification. A boot of
  `ConfigStore` takes for each key a settled value or, if it cannot be read, the default.

`StoreAsPromised`, `OnlyOwnKeysWritten`, `StoreAsAgreed`, `RamFollowsStore` and `WakeFlagConsumed` are steps of
these proofs that say something by themselves; they are proved and no longer listed in a run, since
`StoreSpec`, `IntervalSpec` and `BeepAnswersPress` check the same in the small.

Every invariant and every action property of a run, and both refinements, are so proved. Only model-checked are
the liveness properties (`MainGetsThrough`, `HeldPressBeeps`, `WakeUpBeeps`, `EveryCycleEnds`,
`SleepsUnlessInterrupted`, `UpdateEnds`): they need fairness and ENABLED, which are outside the prover's reach.

## Not modelled

- The branch of `WiFi_Connect` for a WiFi already started: a boot calls it once, with the bits cleared.
- `HTTP_Get_Method` and the accelerometer STK8323: no caller in the firmware, and no promise to check: the
  driver of the accelerometer writes constants to registers.
- The locks, queues with a wait, memory helpers and timers of `osi.c`: no caller, or a wrapper of one call.
- Contents of the flash's status registers; that `mktime` moves a date which does not exist (a register of a
  half-written clock) by up to three days: `HalfSetNoticed` keeps a margin of years. Only the first reset at
  power-on is covered: if that transfer fails too, what the registers hold may pass for a set time.
- Creation of tasks, queue, event group and semaphore is taken to succeed (main.c ignores the results). When
  only one of the two buffers of `Main_Task` can be allocated (main.c:123-133) the other is not freed; the sleep
  that follows clears RAM.
- More than one byte changed by noise in one frame: eight bits of checksum promise nothing then.
- Wording of JSON and logs; the LEDs; the levels and delays on the buses.
- Failures of start-up calls that nothing in the repository makes a promise about: `uart_driver_install`
  aborts (`UartAbort` is a step, but skipping the window for good breaks no statement), and
  `OSI_WAIT_FOREVER` divided by the tick period ends after 49 days (osi.c:132), which no boot lasts.
- What a sensor that was disturbed reports. The code reports some of it: a failed calibration is a battery of
  0 V and a failed sample repeats the last one (power_adc.c:169), a probe that missed its command shows its last
  or its power-up value. The model has these outcomes; `NothingInvented` says which cannot occur,
  `ReadingsAreMeasured` excepts them.

## Plan

Done: provisioning, commands and sleep, the button, WiFi, the cycle, the sensors, the drivers of clock, flash
and EEPROM; proofs of all their safety properties. What could follow:

1. `HttpClient` apart from the cycle: body read failures, redirects, handles.
2. `DutyCycle`, an abstract specification of wake, report and sleep, implemented by `ReportCycle`.
3. The actions of `ReportCycle` and `Sampling` in one specification, which `UpdateMatchesReport` now joins.
