-------------------------- MODULE ReportCycleProofs --------------------------
(***************************************************************************)
(* Proofs about module ReportCycle: a cycle is a behaviour of Command, so  *)
(* what CommandProofs shows holds in the whole device; and its readings,   *)
(* time stamps, WiFi and HTTP clients are as they should be, for every     *)
(* clock, queue that has room, and set of sensors that may fail.           *)
(***************************************************************************)
EXTENDS ReportCycle, CommandProofs, SequenceTheorems

(***************************************************************************)
(* The composition: in a cycle the interval, its store and the timer only  *)
(* move as module Command says.                                            *)
(***************************************************************************)
LEMMA StepIsCommandStep ==
  ASSUME CycleNext
  PROVE  [Next]_vars
<1>1. CASE BootCycle
  BY <1>1 DEF BootCycle, Next
<1>2. CASE WifiAbort
  BY <1>2 DEF WifiAbort, Next
<1>3. ASSUME NEW r \in Body, Parse_Response(r) PROVE [Next]_vars
  BY <1>3 DEF Parse_Response, Body, Next
<1>4. CASE SaveInterval
  BY <1>4 DEF SaveInterval, Next
<1>5. CASE GoToSleep
  BY <1>5 DEF GoToSleep, Next
<1>6. CASE LosePower
  BY <1>6 DEF LosePower, Next
<1>7. CASE AllocBuffers \/ Connected \/ NotConnected \/ CheckClock \/ Sensors_Data_Update
             \/ Sensors_PostData_Read \/ HttpInit \/ HttpOpen \/ HttpWrite
             \/ HttpReadNothing \/ ParseReturns \/ WiFi_Disconnect \/ Tick
  BY <1>7 DEF AllocBuffers, Connected, NotConnected, CheckClock, Sensors_Data_Update,
     Sensors_PostData_Read, HttpInit, HttpOpen, HttpWrite, HttpReadNothing, ParseReturns,
     WiFi_Disconnect, Tick
<1>8. QED
  BY <1>1, <1>2, <1>3, <1>4, <1>5, <1>6, <1>7 DEF CycleNext, MainStep

(***************************************************************************)
(* Every behaviour of the device is one of its commands and its sleep: the *)
(* theorems of CommandProofs hold of the composed system.                  *)
(***************************************************************************)
THEOREM CycleRunsCommand == CycleSpec => Spec
<1>1. CycleInit => Init
  BY DEF CycleInit
<1>2. [CycleNext]_allVars => [Next]_vars
  BY StepIsCommandStep DEF allVars
<1>3. QED
  BY <1>1, <1>2, PTL DEF CycleSpec, Spec

LEMMA CommandInvariance == CycleSpec => []IInv
  BY CycleRunsCommand, Invariance, PTL

(***************************************************************************)
(* A commanded interval governs the very next sleep.                       *)
(***************************************************************************)
THEOREM SleepIsAsAgreed == CycleSpec => SleepUsesLastInterval
<1>1. IInv /\ [CycleNext]_allVars =>
        [main = "sleep" /\ timer' # timer => timer' = Microseconds(IntervalDue)]_allVars
  <2> SUFFICES ASSUME IInv, CycleNext, main = "sleep", timer' # timer
               PROVE  timer' = Microseconds(IntervalDue)
    OBVIOUS
  <2>1. mode = "idle" /\ timer' = Microseconds(interval)
    BY DEF CycleNext, MainStep, BootCycle, AllocBuffers, Connected, NotConnected, WifiAbort,
       CheckClock, Sensors_Data_Update, Sensors_PostData_Read, HttpInit, HttpOpen, HttpWrite,
       HttpReadNothing, Parse_Response, SaveInterval, ParseReturns, WiFi_Disconnect, GoToSleep,
       LosePower, PowerLoss, Tick, Enter_Sleep, Restart, vars
  <2>2. interval = IntervalDue
    BY <2>1 DEF IInv, IntervalAsAgreed
  <2>3. QED
    BY <2>1, <2>2
<1>2. QED
  BY <1>1, CommandInvariance, PTL DEF CycleSpec, SleepUsesLastInterval
------------------------------------------------------------------------------
(* The inductive invariant of the rest.                                      *)

Asking == {"init", "open", "write", "read", "command"}

\* Which requests a cycle has begun at each point.
Begun ==
  /\ main \in {"down", "alloc", "connect", "clock"} => request = "none"
  /\ main \in {"sample", "build"} => request \in {"none", "time"}
  /\ main \in Asking => request \in {"time", "data"}

\* A request leaks its client at most once, and the WiFi is on in between.
Held ==
  /\ request = "none" => handles = 0
  /\ request = "time" => handles <= IF main = "init" THEN 0 ELSE 1
  /\ request = "data" => handles <= IF main = "init" THEN 1 ELSE 2
  /\ main \in Asking \ {"init"} => handles >= 1
  /\ main \in {"down", "alloc", "sleep"} => ~wifi

\* Before the sensors are read there is only the signal strength.
Unsampled ==
  \/ main \in {"down", "alloc", "connect", "clock", "sample"}
  \/ main \in Asking /\ request = "time"

Collected ==
  /\ request # "data" => Len(queue) = taken /\ body = <<>>
  /\ request = "data" => Len(body) = taken /\ queue = <<>>
  /\ main \in {"down", "alloc", "connect"} => taken = 0
  /\ Unsampled => taken <= 1
  /\ main = "build" => taken <= 8

Sound(readings) == \A i \in 1..Len(readings) : readings[i].num # 5 => readings[i].ts >= Synced

Stamps ==
  /\ Unsampled => \A i \in 1..Len(queue) : queue[i].num = 5
  /\ request = "none" => ~synced
  /\ main \in Asking \ {"command"} /\ request = "time" => ~synced
  /\ synced /\ ~misread => /\ request = "time" => rtc >= Synced
                           /\ Sound(queue) /\ Sound(body)

CycleIInv == CycleTypeOK /\ Begun /\ Held /\ Collected /\ Stamps
------------------------------------------------------------------------------
(* The readings of an update: at most seven, all with its time stamp.        *)

Dated(readings, t, most) ==
  /\ readings \in Seq(Reading)
  /\ Len(readings) <= most
  /\ \A i \in 1..Len(readings) : readings[i].ts = t

LEMMA DatedConcat ==
  ASSUME NEW t, NEW m \in Nat, NEW n \in Nat, NEW r, NEW s, Dated(r, t, m), Dated(s, t, n)
  PROVE  Dated(r \o s, t, m + n)
<1> USE DEF Dated
<1>1. /\ r \o s \in Seq(Reading) /\ Len(r \o s) = Len(r) + Len(s)
      /\ \A i \in 1..(Len(r) + Len(s)) :
           (r \o s)[i] = IF i <= Len(r) THEN r[i] ELSE s[i - Len(r)]
  BY ConcatProperties
<1>2. Len(r) \in Nat /\ Len(s) \in Nat
  OBVIOUS
<1>3. ASSUME NEW i \in 1..Len(r \o s) PROVE (r \o s)[i].ts = t
  <2>1. CASE i <= Len(r)
    BY <1>1, <1>2, <2>1
  <2>2. CASE ~(i <= Len(r))
    <3>1. i - Len(r) \in 1..Len(s)
      BY <1>1, <1>2, <2>2
    <3>2. QED
      BY <1>1, <1>2, <2>2, <3>1
  <2>3. QED
    BY <2>1, <2>2
<1>4. QED
  BY <1>1, <1>2, <1>3

LEMMA OneReadingDated ==
  ASSUME NEW n \in 1..7, NEW t \in Time
  PROVE  Dated(<<[num |-> n, ts |-> t]>>, t, 1)
<1>1. [num |-> n, ts |-> t] \in Reading
  BY DEF Reading
<1>2. QED
  BY <1>1 DEF Dated

LEMMA GivenDated ==
  ASSUME NEW sensor, NEW failed, NEW t \in Time, NEW nums \in Seq(1..7)
  PROVE  Dated(Given(sensor, nums, failed, t), t, Len(nums))
<1> DEFINE r == [i \in 1..Len(nums) |-> [num |-> nums[i], ts |-> t]]
<1>1. CASE sensor \in failed
  BY <1>1 DEF Given, Dated
<1>2. CASE sensor \notin failed
  <2>1. Given(sensor, nums, failed, t) = r
    BY <1>2 DEF Given
  <2>2. Len(nums) \in Nat /\ \A i \in 1..Len(nums) : [num |-> nums[i], ts |-> t] \in Reading
    BY DEF Reading
  <2>3. r \in Seq(Reading)
    BY <2>2, IsASeq
  <2>4. Len(r) = Len(nums)
    BY <2>2
  <2>5. QED
    BY <2>1, <2>3, <2>4 DEF Dated
<1>3. QED
  BY <1>1, <1>2

LEMMA SampledDated ==
  ASSUME NEW failed, NEW t \in Time
  PROVE  Dated(Sampled(failed, t), t, 7)
<1> DEFINE sht == Given("sht30", <<1, 2>>, failed, t)
           light == Given("light", <<3>>, failed, t)
           power == <<[num |-> 4, ts |-> t]>>
           one == Given("probe1", <<6>>, failed, t)
           two == Given("probe2", <<7>>, failed, t)
<1> HIDE DEF sht, light, power, one, two
<1>1. Dated(sht, t, 2)
  <2>1. <<1, 2>> \in Seq(1..7) /\ Len(<<1, 2>>) = 2
    OBVIOUS
  <2>2. Dated(Given("sht30", <<1, 2>>, failed, t), t, Len(<<1, 2>>))
    BY <2>1, GivenDated
  <2>3. QED
    BY <2>1, <2>2 DEF sht
<1>2. ASSUME NEW sensor, NEW n \in 1..7 PROVE Dated(Given(sensor, <<n>>, failed, t), t, 1)
  <2>1. <<n>> \in Seq(1..7) /\ Len(<<n>>) = 1
    OBVIOUS
  <2>2. Dated(Given(sensor, <<n>>, failed, t), t, Len(<<n>>))
    BY <2>1, GivenDated
  <2>3. QED
    BY <2>1, <2>2
<1>3. Dated(light, t, 1) /\ Dated(one, t, 1) /\ Dated(two, t, 1)
  BY <1>2 DEF light, one, two
<1>4. Dated(power, t, 1)
  BY OneReadingDated DEF power
<1>5. Dated(sht \o light, t, 3)
  <2>1. Dated(sht \o light, t, 2 + 1)
    BY <1>1, <1>3, DatedConcat
  <2>2. QED
    BY <2>1
<1>6. Dated((sht \o light) \o power, t, 4)
  <2>1. Dated((sht \o light) \o power, t, 3 + 1)
    BY <1>4, <1>5, DatedConcat
  <2>2. QED
    BY <2>1
<1>7. Dated(((sht \o light) \o power) \o one, t, 5)
  <2>1. Dated(((sht \o light) \o power) \o one, t, 4 + 1)
    BY <1>3, <1>6, DatedConcat
  <2>2. QED
    BY <2>1
<1>8. Dated((((sht \o light) \o power) \o one) \o two, t, 7)
  <2>1. Dated((((sht \o light) \o power) \o one) \o two, t, 5 + 1)
    BY <1>3, <1>7, DatedConcat
  <2>2. QED
    BY <2>1 DEF Dated
<1>9. Sampled(failed, t) = (((sht \o light) \o power) \o one) \o two
  BY DEF Sampled, sht, light, power, one, two
<1>10. QED
  BY <1>8, <1>9

(* What fits the queue is queued.                                            *)
LEMMA EnqueuedFits ==
  ASSUME NEW q \in Seq(Reading), NEW r \in Seq(Reading), Len(q) + Len(r) <= QueueLen
  PROVE  Enqueued(q, r) = q \o r
<1>1. q \o r \in Seq(Reading) /\ Len(q \o r) = Len(q) + Len(r) /\ Len(q) + Len(r) \in Nat
  BY ConcatProperties
<1>2. (IF Len(q \o r) < QueueLen THEN Len(q \o r) ELSE QueueLen) = Len(q \o r)
  BY <1>1, QueueAssumption
<1>3. SubSeq(q \o r, 1, Len(q \o r)) = q \o r
  BY <1>1, SubSeqFull
<1>4. QED
  BY <1>2, <1>3 DEF Enqueued

LEMMA Drained ==
  ASSUME NEW q \in Seq(Reading), Len(q) <= QueueLen
  PROVE  LET n == IF Len(q) < QueueLen THEN Len(q) ELSE QueueLen
         IN  SubSeq(q, 1, n) = q /\ SubSeq(q, n + 1, Len(q)) = <<>>
<1>1. Len(q) \in Nat /\ (IF Len(q) < QueueLen THEN Len(q) ELSE QueueLen) = Len(q)
  BY QueueAssumption
<1>2. SubSeq(q, 1, Len(q)) = q
  BY SubSeqFull
<1>3. SubSeq(q, Len(q) + 1, Len(q)) = <<>>
  BY <1>1
<1>4. QED
  BY <1>1, <1>2, <1>3
------------------------------------------------------------------------------
(* The invariant is inductive.                                               *)

LEMMA Initially == CycleInit => CycleIInv
<1> SUFFICES ASSUME CycleInit PROVE CycleIInv
  OBVIOUS
<1> USE DEF CycleInit
<1>1. <<>> \in Seq(Reading) /\ Len(<<>>) = 0 /\ 1..0 = {}
  OBVIOUS
<1>2. CycleTypeOK
  BY <1>1 DEF CycleTypeOK
<1>3. Begun /\ Held
  BY DEF Begun, Held, Asking
<1>4. Collected
  BY <1>1 DEF Collected
<1>5. Stamps
  BY <1>1 DEF Stamps
<1>6. QED
  BY <1>2, <1>3, <1>4, <1>5 DEF CycleIInv

\* However the chip goes down, nothing is left to relate.
LEMMA DownKeeps ==
  ASSUME RamLost, main' = "down", reset' \in {"poweron", "other"}, rtc' \in Time
  PROVE  CycleIInv'
<1> USE DEF RamLost
<1>1. <<>> \in Seq(Reading) /\ Len(<<>>) = 0 /\ 1..0 = {}
  OBVIOUS
<1>2. CycleTypeOK'
  BY <1>1 DEF CycleTypeOK
<1>3. Begun' /\ Held'
  BY DEF Begun, Held, Asking
<1>4. Collected'
  BY <1>1 DEF Collected
<1>5. Stamps'
  BY <1>1 DEF Stamps
<1>6. QED
  BY <1>2, <1>3, <1>4, <1>5 DEF CycleIInv

LEMMA BootKeeps ==
  ASSUME CycleIInv, BootCycle
  PROVE  CycleIInv'
<1>1. rtc' \in Time
  BY ClockAssumption DEF BootCycle, CycleIInv, CycleTypeOK, Written, Time
<1>2. QED
  BY <1>1 DEF BootCycle, CycleIInv, CycleTypeOK, Begun, Held, Collected, Stamps, Unsampled,
     Asking, Sound

\* Steps that neither read the clock, nor touch a reading.
Moves ==
  \/ AllocBuffers \/ NotConnected \/ HttpInit \/ HttpOpen \/ HttpWrite \/ HttpReadNothing
  \/ SaveInterval \/ ParseReturns \/ WiFi_Disconnect

LEMMA MovesKeep ==
  ASSUME CycleIInv, Moves
  PROVE  CycleIInv'
<1> USE DEF CycleIInv, Moves, AllocBuffers, NotConnected, HttpInit, HttpOpen, HttpWrite,
        HttpReadNothing, SaveInterval, ParseReturns, WiFi_Disconnect, Returned, cycle
<1>1. UNCHANGED <<reset, rtc, queue, request, body, taken, synced, misread>>
  OBVIOUS
<1>2. CycleTypeOK'
  <2>1. handles' \in Nat
    BY DEF CycleTypeOK, Held, Asking
  <2>2. wifi' \in BOOLEAN
    <3>1. wifi' \in {wifi, TRUE, FALSE} /\ wifi \in BOOLEAN
      BY DEF CycleTypeOK
    <3>2. QED
      BY <3>1
  <2>3. QED
    BY <1>1, <2>1, <2>2 DEF CycleTypeOK
<1>3. Begun'
  BY DEF CycleTypeOK, Begun, Asking
<1>4. Held'
  BY DEF CycleTypeOK, Begun, Held, Asking
<1>5. Unsampled' => Unsampled
  BY DEF Begun, Unsampled, Asking
<1>6. Collected'
  BY <1>1, <1>5 DEF Collected, Begun, Asking
<1>7. main' \in Asking \ {"command"} => main \in Asking \ {"command"}
  BY DEF Asking
<1>8. Stamps'
  BY <1>1, <1>5, <1>7 DEF Stamps, Sound
<1>9. QED
  BY <1>2, <1>3, <1>4, <1>6, <1>8

LEMMA TickKeeps ==
  ASSUME CycleIInv, Tick
  PROVE  CycleIInv'
<1>1. rtc \in 0..Far /\ rtc' = rtc + 1 /\ rtc' \in Time
  BY ClockAssumption DEF CycleIInv, CycleTypeOK, Tick, Time
<1>2. synced /\ ~misread /\ request = "time" => rtc' >= Synced
  BY <1>1, ClockAssumption DEF CycleIInv, Stamps
<1>3. QED
  BY <1>1, <1>2 DEF Tick, CycleIInv, CycleTypeOK, Begun, Held, Collected, Stamps, Unsampled,
     Asking, Sound

LEMMA CheckClockKeeps ==
  ASSUME CycleIInv, CheckClock
  PROVE  CycleIInv'
<1> USE DEF CycleIInv, CheckClock
<1>1. /\ UNCHANGED <<reset, rtc, queue, body, handles, wifi, taken, synced>>
      /\ \/ main' = "init" /\ request' = "time"
         \/ main' = "sample" /\ request' = request
  OBVIOUS
<1>2. misread' \in BOOLEAN
  <2>1. misread \in BOOLEAN
    BY DEF CycleTypeOK
  <2>2. misread' = misread \/ misread' = TRUE
    BY DEF ReadClock
  <2>3. QED
    BY <2>1, <2>2
<1>3. request = "none" /\ ~synced /\ handles = 0
  BY DEF Begun, Stamps, Held
<1>4. CycleTypeOK' /\ Begun' /\ Held'
  BY <1>1, <1>2, <1>3 DEF CycleTypeOK, Begun, Held, Asking
<1>5. Collected'
  BY <1>1, <1>3 DEF Collected, Unsampled
<1>6. Stamps'
  BY <1>1, <1>3 DEF Stamps, Unsampled
<1>7. QED
  BY <1>4, <1>5, <1>6

\* What a read of the clock returns, and when it can be relied on.
LEMMA ClockRead ==
  ASSUME CycleTypeOK, NEW t \in Time, ReadClock(t)
  PROVE  misread' \in BOOLEAN /\ (~misread' => ~misread /\ t = rtc)
<1>1. misread \in BOOLEAN
  BY DEF CycleTypeOK
<1>2. (misread' = misread /\ t = rtc) \/ misread' = TRUE
  BY DEF ReadClock
<1>3. QED
  BY <1>1, <1>2

LEMMA ConnectedKeeps ==
  ASSUME CycleIInv, Connected
  PROVE  CycleIInv'
<1> USE DEF CycleIInv, Connected
<1>1. PICK t \in Time : ReadClock(t) /\ queue' = Enqueued(queue, <<[num |-> 5, ts |-> t]>>)
  BY DEF CycleTypeOK
<1>2. misread' \in BOOLEAN
  BY <1>1, ClockRead
<1>3. taken = 0 /\ request = "none" /\ ~synced /\ queue \in Seq(Reading) /\ Len(queue) = 0
  BY DEF Collected, Begun, Stamps, CycleTypeOK
<1> DEFINE one == <<[num |-> 5, ts |-> t]>>
<1>4. one \in Seq(Reading) /\ Len(one) = 1 /\ one[1].num = 5
  <2>1. 5 \in 1..7
    OBVIOUS
  <2>2. Dated(one, t, 1)
    BY <2>1, OneReadingDated
  <2>3. QED
    BY <2>2 DEF Dated
<1>5. queue' = Enqueued(queue, one)
  BY <1>1
<1> HIDE DEF one
<1>6. queue' = one
  <2>1. Len(queue) + Len(one) <= QueueLen
    BY <1>3, <1>4, QueueAssumption
  <2>2. queue' = queue \o one
    BY <1>3, <1>4, <1>5, <2>1, EnqueuedFits
  <2>3. queue = <<>>
    BY <1>3, EmptySeq
  <2>4. QED
    BY <1>4, <2>2, <2>3, ConcatEmptySeq
<1>7. queue' \in Seq(Reading) /\ Len(queue') = 1 /\ \A i \in 1..Len(queue') : queue'[i].num = 5
  <2>1. \A i \in 1..1 : i = 1
    OBVIOUS
  <2>2. \A i \in 1..Len(one) : one[i].num = 5
    BY <1>4, <2>1
  <2>3. QED
    BY <1>4, <1>6, <2>2
<1>8. CycleTypeOK'
  BY <1>2, <1>3, <1>7 DEF CycleTypeOK
<1>9. Begun' /\ Held'
  BY <1>3 DEF Begun, Held, Asking
<1>10. Collected'
  BY <1>3, <1>7 DEF Collected, Unsampled
<1>11. Stamps'
  BY <1>3, <1>7 DEF Stamps
<1>12. QED
  BY <1>8, <1>9, <1>10, <1>11

LEMMA SensorsKeep ==
  ASSUME CycleIInv, Sensors_Data_Update
  PROVE  CycleIInv'
<1> USE DEF CycleIInv, Sensors_Data_Update
<1>1. PICK t \in Time, failed \in SUBSET Flaky :
        /\ ReadClock(t)
        /\ queue' = Enqueued(queue, Sampled(failed, t))
        /\ taken' = taken + Len(Sampled(failed, t))
  OBVIOUS
<1>2. misread' \in BOOLEAN /\ (~misread' => ~misread /\ t = rtc)
  BY <1>1, ClockRead
<1>3. request \in {"none", "time"} /\ queue \in Seq(Reading) /\ Len(queue) = taken /\ taken <= 1
      /\ taken \in Nat
  BY DEF Collected, Begun, CycleTypeOK, Unsampled
<1> DEFINE new == Sampled(failed, t)
<1>4. new \in Seq(Reading) /\ Len(new) \in Nat /\ Len(new) <= 7
      /\ \A i \in 1..Len(new) : new[i].ts = t
  BY SampledDated DEF Dated
<1>5. queue' = Enqueued(queue, new) /\ taken' = taken + Len(new)
  BY <1>1
<1> HIDE DEF new
<1>6. queue' = queue \o new
  BY <1>3, <1>4, <1>5, EnqueuedFits, QueueAssumption
<1>7. /\ queue \o new \in Seq(Reading) /\ Len(queue \o new) = Len(queue) + Len(new)
      /\ \A i \in 1..(Len(queue) + Len(new)) :
           (queue \o new)[i] = IF i <= Len(queue) THEN queue[i] ELSE new[i - Len(queue)]
  BY <1>3, <1>4, ConcatProperties
<1>8. queue' \in Seq(Reading) /\ Len(queue') = taken' /\ taken' \in Nat /\ taken' <= 8
  BY <1>3, <1>4, <1>5, <1>6, <1>7
<1>9. synced /\ ~misread' => Sound(queue')
  <2> SUFFICES ASSUME synced, ~misread', NEW i \in 1..Len(queue'), queue'[i].num # 5
               PROVE  queue'[i].ts >= Synced
    BY DEF Sound
  <2>1. t >= Synced
    BY <1>2, <1>3 DEF Stamps
  <2>2. CASE i <= Len(queue)
    <3>1. i \in 1..Len(queue) /\ queue'[i] = queue[i]
      BY <1>3, <1>4, <1>6, <1>7, <2>2
    <3>2. queue[i].num = 5
      BY <3>1 DEF Stamps, Unsampled
    <3>3. QED
      BY <3>1, <3>2
  <2>3. CASE ~(i <= Len(queue))
    <3>1. i - Len(queue) \in 1..Len(new) /\ queue'[i] = new[i - Len(queue)]
      BY <1>3, <1>4, <1>6, <1>7, <2>3
    <3>2. QED
      BY <1>4, <2>1, <3>1
  <2>4. QED
    BY <2>2, <2>3
<1>10. CycleTypeOK'
  BY <1>2, <1>8 DEF CycleTypeOK
<1>11. Begun' /\ Held'
  BY <1>3 DEF Begun, Held, Asking
<1>12. Collected'
  BY <1>3, <1>8 DEF Collected, Unsampled, Asking
<1>13. Stamps'
  <2>1. synced => Sound(body)' /\ (request = "time" => rtc' >= Synced \/ misread)
    <3>1. body = <<>> /\ body' = body /\ 1..Len(<<>>) = {}
      BY <1>3 DEF Collected
    <3>2. QED
      BY <3>1 DEF Sound, Stamps
  <2>2. ~Unsampled' /\ main' \notin Asking
    BY DEF Unsampled, Asking
  <2>3. QED
    BY <1>2, <1>9, <2>1, <2>2 DEF Stamps, Sound
<1>14. QED
  BY <1>10, <1>11, <1>12, <1>13

LEMMA DrainKeeps ==
  ASSUME CycleIInv, Sensors_PostData_Read
  PROVE  CycleIInv'
<1> USE DEF CycleIInv, Sensors_PostData_Read
<1>1. request \in {"none", "time"} /\ queue \in Seq(Reading) /\ Len(queue) = taken /\ taken <= 8
  BY DEF Collected, Begun, CycleTypeOK
<1>2. Len(queue) <= QueueLen
  BY <1>1, QueueAssumption
<1>3. body' = queue /\ queue' = <<>>
  BY <1>1, <1>2, Drained
<1>4. CycleTypeOK'
  BY <1>1, <1>3, EmptySeq DEF CycleTypeOK
<1>5. Begun' /\ Held'
  BY <1>1 DEF Begun, Held, Asking
<1>6. Collected'
  BY <1>1, <1>3 DEF Collected, Unsampled, Asking
<1>7. Stamps'
  <2>1. Sound(queue)'
    <3>1. 1..Len(<<>>) = {}
      OBVIOUS
    <3>2. QED
      BY <1>3, <3>1 DEF Sound
  <2>2. synced /\ ~misread => Sound(body)'
    BY <1>3 DEF Stamps, Sound
  <2>3. ~Unsampled' /\ request' = "data"
    BY DEF Unsampled, Asking
  <2>4. QED
    BY <2>1, <2>2, <2>3 DEF Stamps
<1>8. QED
  BY <1>4, <1>5, <1>6, <1>7

\* The body's time, if any, reaches the clock; the command does not touch the cycle.
LEMMA ParseKeeps ==
  ASSUME CycleIInv, NEW r \in Body, Parse_Response(r)
  PROVE  CycleIInv'
<1> USE DEF CycleIInv
<1>1. PICK failed \in BOOLEAN :
        /\ main = "read"
        /\ rtc' \in IF r.t = Missing THEN {rtc} ELSE Written(r.t, failed)
        /\ \/ main' = "down" /\ reset' = "other" /\ RamLost
           \/ /\ main' = "command"
              /\ synced' = (synced \/ (request = "time" /\ r.t \in Synced..Far))
              /\ misread' = (misread \/ failed)
              /\ UNCHANGED <<reset, queue, request, body, handles, wifi, taken>>
  BY DEF Parse_Response
<1>2. rtc' \in Time
  BY <1>1 DEF CycleTypeOK, Body, Written
<1>3. CASE main' = "down" /\ reset' = "other" /\ RamLost
  BY <1>2, <1>3, DownKeeps
<1>4. CASE /\ main' = "command"
           /\ synced' = (synced \/ (request = "time" /\ r.t \in Synced..Far))
           /\ misread' = (misread \/ failed)
           /\ UNCHANGED <<reset, queue, request, body, handles, wifi, taken>>
  <2>1. synced' \in BOOLEAN /\ misread' \in BOOLEAN
    BY <1>4 DEF CycleTypeOK
  <2>2. CycleTypeOK'
    BY <1>2, <1>4, <2>1 DEF CycleTypeOK
  <2>3. Begun' /\ Held'
    BY <1>1, <1>4 DEF Begun, Held, Asking
  <2>4. Unsampled' => Unsampled
    BY <1>1, <1>4 DEF Unsampled, Asking
  <2>5. Collected'
    BY <1>1, <1>4, <2>4 DEF Collected, Asking
  <2>6. synced' /\ ~misread' /\ request = "time" => rtc' >= Synced
    <3> SUFFICES ASSUME synced', ~misread', request = "time" PROVE rtc' >= Synced
      OBVIOUS
    <3>1. ~synced
      BY <1>1 DEF Stamps, Asking
    <3>2. ~failed /\ r.t \in Synced..Far
      BY <1>4, <3>1
    <3>3. rtc' = r.t
      BY <1>1, <3>2, WordAssumption, ClockAssumption DEF Written
    <3>4. QED
      BY <3>2, <3>3, ClockAssumption
  <2>7. synced' /\ ~misread' => Sound(queue) /\ Sound(body)
    <3>1. CASE request = "time"
      <4>1. body = <<>> /\ 1..Len(<<>>) = {}
        BY <3>1 DEF Collected
      <4>2. \A i \in 1..Len(queue) : queue[i].num = 5
        BY <1>1, <3>1 DEF Stamps, Unsampled, Asking
      <4>3. QED
        BY <4>1, <4>2 DEF Sound
    <3>2. CASE request # "time"
      BY <1>4, <3>2 DEF Stamps
    <3>3. QED
      BY <3>1, <3>2
  <2>8. Stamps'
    <3>1. request # "none"
      BY <1>1 DEF Begun, Asking
    <3>2. QED
      BY <1>4, <2>4, <2>6, <2>7, <3>1 DEF Stamps, Sound
  <2>9. QED
    BY <2>2, <2>3, <2>5, <2>8
<1>5. QED
  BY <1>1, <1>3, <1>4

LEMMA StepKeeps ==
  ASSUME CycleIInv, CycleNext
  PROVE  CycleIInv'
<1>1. CASE BootCycle
  BY <1>1, BootKeeps
<1>2. CASE Moves
  BY <1>2, MovesKeep
<1>3. CASE Connected
  BY <1>3, ConnectedKeeps
<1>4. CASE WifiAbort
  <2>1. rtc' \in Time
    BY <1>4 DEF WifiAbort, CycleIInv, CycleTypeOK
  <2>2. QED
    BY <1>4, <2>1, DownKeeps DEF WifiAbort
<1>5. CASE CheckClock
  BY <1>5, CheckClockKeeps
<1>6. CASE Sensors_Data_Update
  BY <1>6, SensorsKeep
<1>7. CASE Sensors_PostData_Read
  BY <1>7, DrainKeeps
<1>8. ASSUME NEW r \in Body, Parse_Response(r) PROVE CycleIInv'
  BY <1>8, ParseKeeps
<1>9. CASE GoToSleep \/ LosePower
  <2>1. rtc' \in Time /\ main' = "down" /\ RamLost /\ reset' \in {"poweron", "other"}
    BY <1>9 DEF GoToSleep, LosePower, CycleIInv, CycleTypeOK
  <2>2. QED
    BY <2>1, DownKeeps
<1>10. CASE Tick
  BY <1>10, TickKeeps
<1>11. QED
  BY <1>1, <1>2, <1>3, <1>4, <1>5, <1>6, <1>7, <1>8, <1>9, <1>10 DEF CycleNext, MainStep, Moves

LEMMA CycleInvariance == CycleSpec => []CycleIInv
<1>1. CycleIInv /\ UNCHANGED allVars => CycleIInv'
  BY DEF allVars, cycle, CycleIInv, CycleTypeOK, Begun, Held, Collected, Stamps, Unsampled,
     Asking, Sound
<1>2. CycleIInv /\ [CycleNext]_allVars => CycleIInv'
  BY <1>1, StepKeeps
<1>3. QED
  BY <1>2, Initially, PTL DEF CycleSpec
------------------------------------------------------------------------------
(***************************************************************************)
(* Type correctness of the cycle.                                          *)
(***************************************************************************)
THEOREM CycleTypeCorrect == CycleSpec => []CycleTypeOK
<1>1. CycleIInv => CycleTypeOK
  BY DEF CycleIInv
<1>2. QED
  BY <1>1, CycleInvariance, PTL

(***************************************************************************)
(* The queue never refuses a reading, and the report holds every one: from *)
(* QueueAssumption, room for the eight readings a cycle can take.          *)
(***************************************************************************)
THEOREM NoReadingDropped == CycleSpec => []ReportComplete
<1>1. CycleIInv => ReportComplete
  BY DEF CycleIInv, Collected, ReportComplete
<1>2. QED
  BY <1>1, CycleInvariance, PTL

(***************************************************************************)
(* After a time request that set the clock, every sensor's reading carries *)
(* a plausible time.                                                       *)
(***************************************************************************)
THEOREM StampsAreSound == CycleSpec => []SensorsStampedAfterSync
<1>1. ASSUME CycleIInv, synced, ~misread, NEW i \in 1..Len(queue \o body),
             (queue \o body)[i].num # 5
      PROVE  (queue \o body)[i].ts >= Synced
  <2>1. Sound(queue) /\ Sound(body) /\ queue \in Seq(Reading) /\ body \in Seq(Reading)
    BY <1>1 DEF CycleIInv, Stamps, CycleTypeOK
  <2>2. /\ Len(queue) \in Nat /\ Len(body) \in Nat
        /\ Len(queue \o body) = Len(queue) + Len(body)
        /\ (queue \o body)[i] = IF i <= Len(queue) THEN queue[i] ELSE body[i - Len(queue)]
    BY <1>1, <2>1, ConcatProperties
  <2>3. CASE i <= Len(queue)
    <3>1. i \in 1..Len(queue) /\ (queue \o body)[i] = queue[i]
      BY <1>1, <2>2, <2>3
    <3>2. QED
      BY <1>1, <2>1, <3>1 DEF Sound
  <2>4. CASE ~(i <= Len(queue))
    <3>1. i - Len(queue) \in 1..Len(body) /\ (queue \o body)[i] = body[i - Len(queue)]
      BY <1>1, <2>2, <2>4
    <3>2. QED
      BY <1>1, <2>1, <3>1 DEF Sound
  <2>5. QED
    BY <2>3, <2>4
<1>2. CycleIInv => SensorsStampedAfterSync
  BY <1>1 DEF SensorsStampedAfterSync
<1>3. QED
  BY <1>2, CycleInvariance, PTL

(***************************************************************************)
(* The WiFi is off before deep sleep, and a cycle leaks at most one HTTP   *)
(* client a request.                                                       *)
(***************************************************************************)
THEOREM CycleReleases == CycleSpec => []NothingOutlivesCycle
<1>1. CycleIInv => NothingOutlivesCycle
  BY DEF CycleIInv, CycleTypeOK, Begun, Held, Asking, NothingOutlivesCycle
<1>2. QED
  BY <1>1, CycleInvariance, PTL
==============================================================================
