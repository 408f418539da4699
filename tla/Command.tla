------------------------------- MODULE Command -------------------------------
(***************************************************************************)
(* Server-issued commands (main/command.c) and the sleep they set          *)
(* (Enter_Sleep, main/power_mgmt.c): the report interval in RAM, its copy  *)
(* in NVS, Command_Init, Command_HandleResponse with the save it makes one *)
(* NVS call at a time, and the wake-up timer programmed from the interval. *)
(*                                                                         *)
(* A JSON number is a double that the code truncates, so the seconds of a  *)
(* command are counted in halves; 0 stands for every number that is not    *)
(* positive.  uint32_t and unsigned long wrap at Word (2^32 in the code).  *)
(***************************************************************************)
EXTENDS Naturals

CONSTANTS
  Word,          \* unsigned integers are taken modulo Word
  UsPerSecond,   \* 1000000 in the code
  DEFAULT_FN,    \* the interval when no other is known
  Missing,       \* NVS holds no interval; a command has no number in "seconds"
  Responses      \* the commands a response may carry

ASSUME WordAssumption ==
  /\ Word \in Nat /\ UsPerSecond \in Nat \ {0}
  /\ DEFAULT_FN \in 1..(Word - 1)
  /\ Missing \notin Nat

\* "none": no response body, no cmd, a malformed cmd or an unknown action.
IsResponse(r) ==
  \/ r.action \in {"none", "reboot"}
  \/ r.action = "set_interval" /\ r.seconds \in Nat \cup {Missing}

ASSUME ResponsesAssumption == \A r \in Responses : IsResponse(r)

VARIABLES
  mode,          \* "down", "idle", or the step of the save under way
  interval,      \* s_report_interval_s
  store,         \* what the flash holds under report_ivl_s
  saving,        \* the seconds being saved
  timer,         \* microseconds programmed for the timer wake-up, 0 at reset
  \* History, read by no action.
  agreed,        \* the last interval whose save succeeded, DEFAULT_FN before any
  unacked,       \* one that reached flash in a save that did not (yet) succeed
  inherited,     \* unacked when this boot loaded
  loaded,        \* Command_Init could read NVS on this boot
  fresh          \* the interval was set in this boot

code == <<mode, interval, store, saving, timer>>
history == <<agreed, unacked, inherited, loaded, fresh>>
vars == <<mode, interval, store, saving, timer, agreed, unacked, inherited, loaded, fresh>>

Uint32 == 0..(Word - 1)
Saves == {"open", "set", "commit", "apply"}

TypeOK ==
  /\ mode \in {"down", "idle"} \cup Saves
  /\ interval \in Uint32
  /\ store \in Uint32 \cup {Missing}
  /\ saving \in Uint32
  /\ timer \in Uint32
  /\ agreed \in Uint32
  /\ unacked \in Uint32 \cup {Missing} /\ inherited \in Uint32 \cup {Missing}
  /\ loaded \in BOOLEAN /\ fresh \in BOOLEAN

Init ==
  /\ mode = "down"
  /\ interval = 0 /\ store = Missing /\ saving = 0 /\ timer = 0
  /\ agreed = DEFAULT_FN /\ unacked = Missing /\ inherited = Missing
  /\ loaded = FALSE /\ fresh = FALSE

\* Mutant of Effective: a stored zero is taken as it is.
EffectiveZeroToo(found) == IF found \in Uint32 THEN found ELSE DEFAULT_FN

\* Command_Init ignores a stored zero.
Effective(found) == IF found \in Uint32 \ {0} THEN found ELSE DEFAULT_FN

\* "found": nvs_open and, where there is a value, nvs_get_u32 succeed.
Command_Init(found) ==
  /\ mode = "down"
  /\ mode' = "idle"
  /\ interval' = IF found THEN Effective(store) ELSE DEFAULT_FN
  /\ timer' = 0
  /\ loaded' = found /\ inherited' = unacked /\ fresh' = FALSE
  /\ UNCHANGED <<store, saving, agreed, unacked>>

\* nvs_flash_init erased the partition first.
Command_InitErased ==
  /\ mode = "down"
  /\ mode' = "idle"
  /\ store' = Missing
  /\ interval' = DEFAULT_FN
  /\ timer' = 0
  /\ agreed' = DEFAULT_FN /\ unacked' = Missing /\ inherited' = Missing
  /\ loaded' = TRUE /\ fresh' = FALSE
  /\ UNCHANGED saving

\* Mutant of Truncated: the value is not brought to 32 bits.
TruncatedOnly(halves) == {halves \div 2}

\* (uint32_t)valuedouble.  Out of range is undefined: any value may result.
Truncated(halves) == IF halves \div 2 < Word THEN {halves \div 2} ELSE Uint32

\* The chip restarts, on esp_restart or on an abort: RAM is lost.
Restart ==
  /\ mode = "idle"
  /\ mode' = "down"
  /\ interval' = 0
  /\ UNCHANGED <<store, saving, timer, history>>

Reboot(r) == r.action = "reboot" /\ Restart

SetInterval(r) ==
  /\ mode = "idle"
  /\ r.action = "set_interval"
  /\ r.seconds \in Nat \ {0}
  /\ saving' \in Truncated(r.seconds)
  /\ mode' = "open"
  /\ UNCHANGED <<interval, store, timer, history>>

\* Nothing to do: no cmd, an unknown one, or no positive number of seconds.
Ignore(r) ==
  /\ mode = "idle"
  /\ \/ r.action = "none"
     \/ r.action = "set_interval" /\ r.seconds \in {0, Missing}
  /\ UNCHANGED vars

Command_HandleResponse(r) == Reboot(r) \/ SetInterval(r) \/ Ignore(r)

\* command_save_report_interval, one NVS call per step.
NvsOpen ==
  /\ mode = "open"
  /\ mode' = "set"
  /\ UNCHANGED <<interval, store, saving, timer, history>>

NvsSet ==
  /\ mode = "set"
  /\ mode' = "commit"
  /\ UNCHANGED <<interval, store, saving, timer, history>>

\* From the call of nvs_set_u32, even one that then fails, until nvs_commit has
\* returned flash may hold either value.
MayReachFlash == IF mode \in {"set", "commit"} THEN {store, saving} ELSE {store}

\* The save is cut short.
CutShort ==
  /\ store' \in MayReachFlash
  /\ unacked' = IF store' = store THEN unacked ELSE store'
  /\ saving' = 0

\* Mutant of NvsFail: the error is only logged and the RAM copy follows.
NvsFailApplies ==
  /\ mode \in {"open", "set", "commit"}
  /\ CutShort
  /\ interval' = saving
  /\ mode' = "idle"
  /\ UNCHANGED <<timer, agreed, inherited, loaded, fresh>>

\* Mutant of NvsFail: the key is erased on an error.
NvsFailErases ==
  /\ mode \in {"open", "set", "commit"}
  /\ store' = Missing
  /\ saving' = 0
  /\ mode' = "idle"
  /\ UNCHANGED <<interval, timer, history>>

\* The NVS call of this step fails: nvs_close and a warning in the log.
NvsFail ==
  /\ mode \in {"open", "set", "commit"}
  /\ CutShort
  /\ mode' = "idle"
  /\ UNCHANGED <<interval, timer, agreed, inherited, loaded, fresh>>

NvsCommit ==
  /\ mode = "commit"
  /\ store' = saving /\ unacked' = saving
  /\ mode' = "apply"
  /\ UNCHANGED <<interval, saving, timer, agreed, inherited, loaded, fresh>>

\* Only after the commit does the RAM copy follow.
Apply ==
  /\ mode = "apply"
  /\ interval' = saving
  /\ mode' = "idle"
  /\ saving' = 0
  /\ agreed' = saving /\ unacked' = Missing /\ inherited' = Missing
  /\ fresh' = TRUE
  /\ UNCHANGED <<store, timer, loaded>>

\* slp_time * 1000000 is computed in 32 bits before it is widened.
Microseconds(seconds) == (seconds * UsPerSecond) % Word

\* Mutant of Enter_Sleep: Main_Task passes DEFAULT_FN.
Enter_SleepDefault ==
  /\ mode = "idle"
  /\ timer' = Microseconds(DEFAULT_FN)
  /\ mode' = "down"
  /\ interval' = 0
  /\ UNCHANGED <<store, saving, history>>

Enter_Sleep ==
  /\ mode = "idle"
  /\ timer' = Microseconds(interval)
  /\ mode' = "down"
  /\ interval' = 0
  /\ UNCHANGED <<store, saving, history>>

PowerLoss ==
  /\ mode # "down"
  /\ mode' = "down"
  /\ CutShort
  /\ interval' = 0
  /\ UNCHANGED <<timer, agreed, inherited, loaded, fresh>>

SaveStep == NvsOpen \/ NvsSet \/ NvsFail \/ NvsCommit \/ Apply

Next ==
  \/ \E found \in BOOLEAN : Command_Init(found)
  \/ Command_InitErased
  \/ \E r \in Responses : Command_HandleResponse(r)
  \/ SaveStep
  \/ Enter_Sleep
  \/ Restart
  \/ PowerLoss

Spec == Init /\ [][Next]_vars
------------------------------------------------------------------------------
(***************************************************************************)
(* While the device is up it works with the last interval whose save       *)
(* succeeded: command.h, "the most recently commanded value if any,        *)
(* otherwise DEFAULT_FN".  A save of zero counts for the boot it was       *)
(* received in and as no value afterwards.  Two failures show, and only    *)
(* until the next save that succeeds: a boot that cannot read NVS works    *)
(* with DEFAULT_FN, and a boot after a save that failed, or was cut, but   *)
(* had reached flash works with that save's value (CommandsAsDocumented).  *)
(***************************************************************************)
Promise(left) == IF left = Missing THEN agreed ELSE left

IntervalDue ==
  IF fresh THEN agreed
  ELSE IF loaded THEN Effective(Promise(inherited)) ELSE DEFAULT_FN

IntervalAsAgreed == mode # "down" => interval = IntervalDue

(***************************************************************************)
(* The store would give every later boot the last interval whose save      *)
(* succeeded, or that of a save that did not but had reached flash.        *)
(***************************************************************************)
StoreAsAgreed == Effective(store) = Effective(Promise(unacked))

(***************************************************************************)
(* No boot starts with an interval of zero, whatever the store holds: a    *)
(* zero can only have been commanded since.                                *)
(***************************************************************************)
ZeroOnlyUntilSleep == mode # "down" /\ interval = 0 => fresh

(***************************************************************************)
(* A failed or interrupted save never changes the interval in use: the RAM *)
(* copy changes only at boot, when RAM is lost, or together with a store   *)
(* that then agrees with it.                                               *)
(***************************************************************************)
RamFollowsStore ==
  [][interval' # interval => mode = "down" \/ mode' = "down" \/ store' = interval']_vars

(***************************************************************************)
(* The interval is a configuration of one key (ConfigStore), where a boot  *)
(* takes a stored zero as none: what the next boot finds changes only      *)
(* while a save is under way, the interval in use changes only at a boot   *)
(* or when flash is settled on the new one.                                *)
(***************************************************************************)
Interval == INSTANCE ConfigStore WITH
  Key <- {"report_ivl_s"}, Group <- {{"report_ivl_s"}}, Val <- Uint32,
  None <- Missing, Void <- {0}, Default <- [k \in {"report_ivl_s"} |-> DEFAULT_FN],
  on <- mode # "down", active <- [k \in {"report_ivl_s"} |-> interval],
  may <- [k \in {"report_ivl_s"} |-> MayReachFlash]

IntervalSpec == Interval!Spec

(***************************************************************************)
(* Three statements of the code's comments, none of which the code keeps:  *)
(*   power_mgmt.c:78: "Sleep duration for the timer wake-up, in seconds";  *)
(*   command.c:115: only 'a positive "seconds"' is accepted and saved;     *)
(*   command.c:59: "a failed NVS write never leaves RAM and storage        *)
(*   disagreeing".                                                         *)
(* The property asks only that whenever the device goes to sleep one of    *)
(* the three holds, so a step that violates it is a counterexample to each *)
(* of them.  The product of Enter_Sleep wraps; a number between 0 and 1 is *)
(* greater than 0 and is saved as 0; an nvs_commit that fails may have     *)
(* written, and RAM then keeps the old interval.                           *)
(***************************************************************************)
CommandsAsDocumented ==
  [][Enter_Sleep /\ loaded =>
       \/ timer' = interval * UsPerSecond
       \/ store # 0
       \/ Effective(store) = interval]_vars
==============================================================================
