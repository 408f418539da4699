----------------------------- MODULE ReportCycle -----------------------------
(***************************************************************************)
(* The life of the device: boot (app_main), one cycle of Main_Task         *)
(* (main/main.c), deep sleep, and the next boot.  It composes the commands *)
(* and the sleep of module Command with the reading queue, the two HTTP    *)
(* requests (app_driver/net/http_client.c, main/json_payload.c), and the   *)
(* real-time clock that keeps running while the rest sleeps.               *)
(*                                                                         *)
(* The network and the server are external: every call may fail, and a     *)
(* response may be any body the parser can meet.  WiFi_Connect is reduced  *)
(* here to its result (module WifiConnect has its steps), the provisioning *)
(* window to nothing (modules Provisioning and ProvisionWindow).  The      *)
(* sensors are reduced to the readings they may give (module Readings;     *)
(* Sampling has their steps).                                              *)
(***************************************************************************)
EXTENDS Command, Readings

CONSTANTS
  QueueLen,      \* USR_POST_DATA_SUM, 20: room for the eight readings of a cycle
  Synced,        \* 1767196800: a clock below it has not been set
  Far,           \* bound: the clock stops here
  Outside,       \* a time the clock chip cannot keep: not in 2000..2099
  Flaky          \* bound: the sensors that may fail; all of Sensors in the code

ASSUME FlakyAssumption == Flaky \subseteq Sensors
ASSUME QueueAssumption == QueueLen \in Nat /\ QueueLen >= 8
ASSUME ClockAssumption ==
  Synced \in Nat \ {0} /\ Far \in Nat /\ Synced <= Far /\ Outside \notin Nat

VARIABLES
  main,          \* where Main_Task is; "down" before boot and in deep sleep
  reset,         \* reason of the next reset: "poweron" or "other"
  rtc,           \* the clock chip's time; 0 is its reset value
  queue,         \* Data_Queue
  request,       \* the HTTP request in progress: "none", "time" or "data"
  body,          \* the readings in the data report
  handles,       \* HTTP client handles allocated and not cleaned up
  wifi,          \* WiFi has been started and not stopped
  \* History, read by no action.
  taken,         \* readings offered to the queue in this boot
  synced,        \* a time request of this boot set the clock past Synced
  misread        \* the clock could not be read, or set, in this boot

cycle == <<main, reset, rtc, queue, request, body, handles, wifi, taken, synced, misread>>
allVars == <<cycle, vars>>

Time == 0..Far
Reading == [num : 1..7, ts : Time]
Body == [t : Time \cup {Missing, Outside}, cmd : Responses]

CycleTypeOK ==
  /\ main \in {"down", "alloc", "connect", "clock", "init", "open", "write", "read",
               "command", "sample", "build", "disconnect", "sleep"}
  /\ reset \in {"poweron", "other"}
  /\ rtc \in Time
  /\ queue \in Seq(Reading) /\ body \in Seq(Reading)
  /\ request \in {"none", "time", "data"}
  /\ handles \in Nat /\ taken \in Nat
  /\ wifi \in BOOLEAN /\ synced \in BOOLEAN /\ misread \in BOOLEAN

CycleInit ==
  /\ Init
  /\ main = "down" /\ reset = "poweron"
  /\ rtc \in Time
  /\ queue = <<>> /\ body = <<>> /\ request = "none"
  /\ handles = 0 /\ taken = 0
  /\ wifi = FALSE /\ synced = FALSE /\ misread = FALSE

(***************************************************************************)
(* Helpers.  RAM is lost whenever the chip goes down; the clock is not.    *)
(***************************************************************************)
RamLost ==
  /\ queue' = <<>> /\ body' = <<>> /\ request' = "none"
  /\ handles' = 0 /\ taken' = 0
  /\ wifi' = FALSE /\ synced' = FALSE /\ misread' = FALSE

\* osi_MsgQWrite with no wait: what does not fit is dropped.
Enqueued(q, readings) ==
  LET all == q \o readings
  IN  SubSeq(all, 1, IF Len(all) < QueueLen THEN Len(all) ELSE QueueLen)

\* Read_UnixTime converts uninitialised bytes when the I2C read fails.
ReadClock(t) ==
  \/ t = rtc /\ UNCHANGED misread
  \/ t \in Time /\ misread' = TRUE

\* Where the clock may stand after t was written: a transfer that breaks off
\* leaves some of the registers written, and nobody looks at its result; a time
\* outside 2000..2099 is written as another (module Rtc: 96 years later or any),
\* which Main_Task may then take for a clock that has been set.
Written(t, failed) == IF failed \/ t = Outside THEN Time ELSE {t}
-----------------------------------------------------------------------------
(* Boot: app_main up to the creation of Main_Task. *)

BootCycle ==
  /\ main = "down"
  /\ (\E found \in BOOLEAN : Command_Init(found)) \/ Command_InitErased
  /\ IF reset = "poweron"          \* Timer_IC_Reset_Time
     THEN \E failed \in BOOLEAN : rtc' \in Written(0, failed)
     ELSE rtc' = rtc
  /\ main' = "alloc"
  /\ UNCHANGED <<reset, queue, request, body, handles, wifi, taken, synced, misread>>

\* Mutant of AllocBuffers: without the buffers the device restarts.
AllocOrRestart ==
  /\ main = "alloc"
  /\ \/ main' = "connect" /\ UNCHANGED <<reset, queue, request, body, handles, wifi, taken,
                                          synced, misread, vars>>
     \/ main' = "down" /\ reset' = "other" /\ RamLost /\ Restart
  /\ UNCHANGED rtc

\* The two buffers; without them the cycle only sleeps.
AllocBuffers ==
  /\ main = "alloc"
  /\ main' \in {"connect", "sleep"}
  /\ UNCHANGED <<reset, rtc, queue, request, body, handles, wifi, taken, synced, misread>>
  /\ UNCHANGED vars

\* WiFi_Connect: on success the signal strength is the first reading, stamped
\* before the clock is known to be right.
Connected ==
  /\ main = "connect"
  /\ \E t \in Time : ReadClock(t) /\ queue' = Enqueued(queue, <<[num |-> 5, ts |-> t]>>)
  /\ taken' = taken + 1
  /\ wifi' = TRUE
  /\ main' = "clock"
  /\ UNCHANGED <<reset, rtc, request, body, handles, synced>>
  /\ UNCHANGED vars

\* Mutant of NotConnected: WiFi_Disconnect is called on success only.
NotConnectedSleeps ==
  /\ main = "connect"
  /\ wifi' = TRUE
  /\ main' = "sleep"
  /\ UNCHANGED <<reset, rtc, queue, request, body, handles, taken, synced, misread>>
  /\ UNCHANGED vars

NotConnected ==
  /\ main = "connect"
  /\ wifi' = TRUE
  /\ main' = "disconnect"
  /\ UNCHANGED <<reset, rtc, queue, request, body, handles, taken, synced, misread>>
  /\ UNCHANGED vars

\* ESP_ERROR_CHECK in WiFi_Init or WiFi_Connect: abort and restart.
WifiAbort ==
  /\ main = "connect"
  /\ Restart
  /\ main' = "down" /\ reset' = "other"
  /\ RamLost
  /\ UNCHANGED rtc

CheckClock ==
  /\ main = "clock"
  /\ \E t \in Time :
       /\ ReadClock(t)
       /\ IF t < Synced
          THEN main' = "init" /\ request' = "time"
          ELSE main' = "sample" /\ UNCHANGED request
  /\ UNCHANGED <<reset, rtc, queue, body, handles, wifi, taken, synced>>
  /\ UNCHANGED vars

Sensors_Data_Update ==
  /\ main = "sample"
  /\ \E t \in Time, failed \in SUBSET Flaky :
       /\ ReadClock(t)
       /\ queue' = Enqueued(queue, Sampled(failed, t))
       /\ taken' = taken + Len(Sampled(failed, t))
  /\ main' = "build"
  /\ UNCHANGED <<reset, rtc, request, body, handles, wifi, synced>>
  /\ UNCHANGED vars

\* Mutant of Sensors_PostData_Read: the last reading stays in the queue.
LeaveOneReading ==
  /\ main = "build"
  /\ LET n == IF Len(queue) > 0 THEN Len(queue) - 1 ELSE 0
     IN  /\ body' = SubSeq(queue, 1, n)
         /\ queue' = SubSeq(queue, n + 1, Len(queue))
  /\ main' = "init" /\ request' = "data"
  /\ UNCHANGED <<reset, rtc, handles, wifi, taken, synced, misread>>
  /\ UNCHANGED vars

\* Drains at most QueueLen readings into the report.
Sensors_PostData_Read ==
  /\ main = "build"
  /\ LET n == IF Len(queue) < QueueLen THEN Len(queue) ELSE QueueLen
     IN  /\ body' = SubSeq(queue, 1, n)
         /\ queue' = SubSeq(queue, n + 1, Len(queue))
  /\ main' = "init" /\ request' = "data"
  /\ UNCHANGED <<reset, rtc, handles, wifi, taken, synced, misread>>
  /\ UNCHANGED vars
-----------------------------------------------------------------------------
(* HTTP_Post_Method.  Main_Task only logs its result. *)

Returned == IF request = "time" THEN "sample" ELSE "disconnect"

HttpInit ==
  /\ main = "init"
  /\ \/ main' = "open" /\ handles' = handles + 1
     \/ main' = Returned /\ UNCHANGED handles
  /\ UNCHANGED <<reset, rtc, queue, request, body, wifi, taken, synced, misread>>
  /\ UNCHANGED vars

\* esp_http_client_open, then _write: on an error the handle is not cleaned up.
HttpOpen ==
  /\ main = "open"
  /\ main' \in {"write", Returned}
  /\ UNCHANGED <<reset, rtc, queue, request, body, handles, wifi, taken, synced, misread>>
  /\ UNCHANGED vars

HttpWrite ==
  /\ main = "write"
  /\ main' \in {"read", Returned}
  /\ UNCHANGED <<reset, rtc, queue, request, body, handles, wifi, taken, synced, misread>>
  /\ UNCHANGED vars

\* Mutant of HttpReadNothing: the request is repeated until it is answered.
HttpReadAgain ==
  /\ main = "read"
  /\ main' = "init"
  /\ handles' = handles - 1
  /\ UNCHANGED <<reset, rtc, queue, request, body, wifi, taken, synced, misread>>
  /\ UNCHANGED vars

\* No headers, or a body that does not parse: Parse_Response changes nothing.
HttpReadNothing ==
  /\ main = "read"
  /\ main' = Returned
  /\ handles' = handles - 1
  /\ UNCHANGED <<reset, rtc, queue, request, body, wifi, taken, synced, misread>>
  /\ UNCHANGED vars

\* Mutant of Parse_Response: Update_UnixTime is not called.
ParseWithoutTime(r) ==
  /\ main = "read"
  /\ rtc' = rtc
  /\ Command_HandleResponse(r.cmd)
  /\ IF mode' = "down"
     THEN main' = "down" /\ reset' = "other" /\ RamLost
     ELSE /\ main' = "command"
          /\ synced' = (synced \/ (request = "time" /\ r.t \in Synced..Far))
          /\ UNCHANGED <<reset, queue, request, body, handles, wifi, taken, misread>>

\* Parse_Response: the time first, whatever "c" says, then the command.  A
\* reboot does not return; a set_interval is saved (Command's steps) first.
Parse_Response(r) ==
  /\ main = "read"
  /\ Command_HandleResponse(r.cmd)
  /\ \E failed \in BOOLEAN :
       /\ rtc' \in IF r.t = Missing THEN {rtc} ELSE Written(r.t, failed)
       /\ IF mode' = "down"
          THEN main' = "down" /\ reset' = "other" /\ RamLost
          ELSE /\ main' = "command"
               /\ synced' = (synced \/ (request = "time" /\ r.t \in Synced..Far))
               /\ misread' = (misread \/ failed)
               /\ UNCHANGED <<reset, queue, request, body, handles, wifi, taken>>

SaveInterval ==
  /\ main = "command"
  /\ SaveStep
  /\ UNCHANGED cycle

ParseReturns ==
  /\ main = "command" /\ mode = "idle"
  /\ main' = Returned
  /\ handles' = handles - 1
  /\ UNCHANGED <<reset, rtc, queue, request, body, wifi, taken, synced, misread>>
  /\ UNCHANGED vars
-----------------------------------------------------------------------------
(* The end of the cycle. *)

WiFi_Disconnect ==
  /\ main = "disconnect"
  /\ wifi' = FALSE
  /\ main' = "sleep"
  /\ UNCHANGED <<reset, rtc, queue, request, body, handles, taken, synced, misread>>
  /\ UNCHANGED vars

GoToSleep ==
  /\ main = "sleep"
  /\ Enter_Sleep
  /\ main' = "down" /\ reset' = "other"
  /\ RamLost
  /\ UNCHANGED rtc

\* Power goes, in a cycle or in deep sleep: the next boot is a power-on.
LosePower ==
  /\ reset' = "poweron"
  /\ IF main = "down"
     THEN UNCHANGED vars /\ main' = "down"
     ELSE PowerLoss /\ main' = "down"
  /\ RamLost
  /\ UNCHANGED rtc

Tick ==
  /\ rtc < Far
  /\ rtc' = rtc + 1
  /\ UNCHANGED <<main, reset, queue, request, body, handles, wifi, taken, synced, misread>>
  /\ UNCHANGED vars

MainStep ==
  \/ AllocBuffers \/ Connected \/ NotConnected \/ WifiAbort \/ CheckClock
  \/ Sensors_Data_Update \/ Sensors_PostData_Read
  \/ HttpInit \/ HttpOpen \/ HttpWrite \/ HttpReadNothing
  \/ \E r \in Body : Parse_Response(r)
  \/ SaveInterval \/ ParseReturns
  \/ WiFi_Disconnect \/ GoToSleep

CycleNext == BootCycle \/ MainStep \/ LosePower \/ Tick

CycleSpec == CycleInit /\ [][CycleNext]_allVars

\* Main_Task runs, and every call it makes returns: WiFi_Connect waits 30 s at
\* most, the HTTP client's timeout_ms is 30000, the queue is used without wait.
\* A boot follows every reset at once, and deep sleep when the timer expires.
FairCycleSpec == CycleSpec /\ WF_allVars(MainStep) /\ WF_allVars(BootCycle)
-----------------------------------------------------------------------------
(***************************************************************************)
(* No reading is lost inside the device: the queue never refuses one, and  *)
(* the report holds every reading taken in this cycle (Sensors_Data_Update *)
(* ignores the result of osi_MsgQWrite).                                   *)
(***************************************************************************)
ReportComplete ==
  /\ request = "data" => Len(body) = taken
  /\ request # "data" => Len(queue) = taken

(***************************************************************************)
(* If this boot's time request set a plausible time, every reading of a    *)
(* sensor carries one (main.c:110, synchronize, "then successively         *)
(* collects"), unless the clock could not be read or set.  The signal      *)
(* strength, field 5, is taken before the request and is not covered.      *)
(***************************************************************************)
SensorsStampedAfterSync ==
  synced /\ ~misread =>
    \A i \in 1..Len(queue \o body) :
      LET m == (queue \o body)[i] IN m.num # 5 => m.ts >= Synced

(***************************************************************************)
(* Nothing the cycle acquires outlives it, whichever request failed and    *)
(* however the cycle was cut short: the device never sleeps with WiFi on,  *)
(* and the HTTP clients that failed requests leak are at most one per      *)
(* request made, and never the one in use.                                 *)
(***************************************************************************)
NothingOutlivesCycle ==
  /\ main = "sleep" => ~wifi
  /\ handles <= IF request = "data" THEN 2 ELSE 1
  /\ main \in {"open", "write", "read", "command"} => handles >= 1

(***************************************************************************)
(* A commanded interval governs the very next sleep: the save the response *)
(* started is over before the timer is programmed, and the timer gets the  *)
(* interval last saved (README: "applies starting with the next sleep      *)
(* cycle"), as IntervalAsAgreed has it after a failure of NVS, wrapped to  *)
(* 32 bits as Enter_Sleep computes it.                                     *)
(***************************************************************************)
SleepUsesLastInterval ==
  [][main = "sleep" /\ timer' # timer => timer' = Microseconds(IntervalDue)]_allVars

(***************************************************************************)
(* Every cycle ends: whatever the network, the server, the sensors and the *)
(* flash do, the device goes down again, to sleep or to restart, and does  *)
(* not drain its battery.                                                  *)
(***************************************************************************)
EveryCycleEnds == main # "down" ~> main = "down"

(***************************************************************************)
(* And it ends in the deep sleep that was agreed, again and again, unless  *)
(* power keeps failing, the WiFi driver keeps aborting, or the server      *)
(* keeps commanding reboots (command.c:108 obeys every one of them): no    *)
(* failure inside the device can make it restart for ever instead.         *)
(***************************************************************************)
Interrupted ==
  \/ LosePower \/ WifiAbort
  \/ \E r \in Body : r.cmd.action = "reboot" /\ Parse_Response(r)

SleepsUnlessInterrupted == <>[][~Interrupted]_allVars => []<>(main = "sleep")
==============================================================================
