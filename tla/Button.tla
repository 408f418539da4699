-------------------------------- MODULE Button --------------------------------
(***************************************************************************)
(* Button 1: its interrupt (app_driver/power/pinmux.c), the binary         *)
(* semaphore SW1_Binary (main/osi.c), SW1_Task and the wake-up it may have *)
(* caused (main/power_mgmt.c), through boot and deep sleep (main/main.c).  *)
(*                                                                         *)
(* The contact is mechanical: after each press or release its level may    *)
(* chatter for a while, and every rising edge is an interrupt.             *)
(***************************************************************************)
EXTENDS Naturals

CONSTANTS
  BounceTicks,    \* bound: how long the contact chatters
  DebounceTicks,  \* the longest time osi_Sleep(10) takes
  BeepTicks       \* the least time buzzer_on(200) takes

ASSUME BounceAssumption ==
  /\ BounceTicks \in Nat /\ DebounceTicks \in Nat /\ BeepTicks \in Nat
  /\ BounceTicks <= BeepTicks

VARIABLES
  boot,       \* "asleep", "start", "window", "wakeup", "tasks" or "up"
  cause,      \* what started this boot
  sem,        \* the count of SW1_Binary
  sw_wakeup,  \* the flag of that name
  task,       \* SW1_Task
  timer,      \* ticks left of the start-up, or of the delay SW1_Task is in
  contact,    \* the button
  level,      \* gpio_get_level(sw1int_pin)
  bounce,     \* ticks left of the chatter
  \* History, read by no action.
  unheard     \* 1 if the button was pressed, or woke the chip, since the last beep

vars == <<boot, cause, sem, sw_wakeup, task, timer, contact, level, bounce, unheard>>
swVars == <<sem, sw_wakeup, task, timer>>
button == <<contact, level, bounce>>

TypeOK ==
  /\ boot \in {"asleep", "start", "window", "wakeup", "tasks", "up"}
  /\ cause \in {"poweron", "restart", "timer", "ext1"}
  /\ sem \in 0..1 /\ sw_wakeup \in 0..1 /\ level \in 0..1 /\ unheard \in 0..1
  /\ task \in {"none", "wait", "debounce", "beep", "clear"}
  /\ timer \in 0..(DebounceTicks + BeepTicks)
  /\ contact \in {"pressed", "released"}
  /\ bounce \in 0..BounceTicks

Init ==
  /\ boot = "start" /\ cause = "poweron"
  /\ sem = 0 /\ sw_wakeup = 0 /\ task = "none" /\ timer = BounceTicks
  /\ contact = "released" /\ level = 0 /\ bounce = 0
  /\ unheard = 0
-------------------------------------------------------------------------------
(* The button and the interrupt.  PinMuxConfig has installed the handler once *)
(* boot is past "start"; giving a binary semaphore twice is giving it once.   *)

Armed == boot \notin {"asleep", "start"}

Edge == level = 0 /\ level' = 1

\* Mutant of gpio_isr_handler: a counting semaphore.
CountEveryEdge == sem' = IF Armed /\ Edge THEN sem + 1 ELSE sem

gpio_isr_handler == sem' = IF Armed /\ Edge THEN 1 ELSE sem

Press ==
  /\ contact = "released" /\ bounce = 0
  /\ contact' = "pressed" /\ level' = 1 /\ bounce' \in 0..BounceTicks
  /\ gpio_isr_handler
  /\ unheard' = 1
  /\ UNCHANGED <<boot, cause, sw_wakeup, task, timer>>

Release ==
  /\ contact = "pressed" /\ bounce = 0
  /\ contact' = "released" /\ level' = 0 /\ bounce' \in 0..BounceTicks
  /\ UNCHANGED <<boot, cause, swVars, unheard>>

Chatter ==
  /\ bounce > 0
  /\ level' = 1 - level
  /\ gpio_isr_handler
  /\ UNCHANGED <<boot, cause, sw_wakeup, task, timer, contact, bounce, unheard>>

Less(n) == IF n > 0 THEN n - 1 ELSE 0

\* Time passes; when the chatter ends the level is the contact's.
Tick ==
  /\ timer' = Less(timer)
  /\ bounce' = Less(bounce)
  /\ level' = IF bounce' > 0 THEN level ELSE IF contact = "pressed" THEN 1 ELSE 0
  /\ gpio_isr_handler
  /\ UNCHANGED <<boot, cause, sw_wakeup, task, contact, unheard>>
-------------------------------------------------------------------------------
(* app_main. *)

\* The semaphore is created, then the handler installed; only a power-on goes
\* through the provisioning window.  Getting here takes longer than a chatter.
PinMuxConfig ==
  /\ boot = "start" /\ timer = 0
  /\ boot' = IF cause = "poweron" THEN "window" ELSE "wakeup"
  /\ UNCHANGED <<cause, swVars, button, unheard>>

Provision_RunWindow ==
  /\ boot = "window"
  /\ boot' = "wakeup"
  /\ UNCHANGED <<cause, swVars, button, unheard>>

\* Mutant of WakeUp_Process: the signal alone.
WakeUpUnflagged ==
  /\ boot = "wakeup"
  /\ sem' = IF cause = "ext1" THEN 1 ELSE sem
  /\ boot' = "tasks"
  /\ UNCHANGED <<cause, sw_wakeup, task, timer, button, unheard>>

\* The flag before the signal.  A power-on is no EXT1 wake-up, so the test of
\* dev_power_on adds nothing.
WakeUp_Process ==
  /\ boot = "wakeup"
  /\ sw_wakeup' = IF cause = "ext1" THEN 1 ELSE sw_wakeup
  /\ sem' = IF cause = "ext1" THEN 1 ELSE sem
  /\ boot' = "tasks"
  /\ UNCHANGED <<cause, task, timer, button, unheard>>

CreateTasks ==
  /\ boot = "tasks"
  /\ task' = "wait"
  /\ boot' = "up"
  /\ UNCHANGED <<cause, sem, sw_wakeup, timer, button, unheard>>

\* Whatever stops the chip loses the semaphore, the flag and the tasks.
Down ==
  /\ sem' = 0 /\ sw_wakeup' = 0 /\ task' = "none"
  /\ timer' = BounceTicks
  /\ UNCHANGED button

\* Main_Task sleeps without asking what SW1_Task is doing.
Enter_Sleep ==
  /\ boot = "up"
  /\ boot' = "asleep"
  /\ Down
  /\ UNCHANGED <<cause, unheard>>

\* By the timer, or by the level of the pin: a button still held counts again.
WakeUp ==
  /\ boot = "asleep"
  /\ boot' = "start"
  /\ \/ cause' = "timer" /\ UNCHANGED unheard
     \/ cause' = "ext1" /\ level = 1 /\ unheard' = 1
  /\ timer' = BounceTicks
  /\ UNCHANGED <<sem, sw_wakeup, task, button>>

\* A failed ESP_ERROR_CHECK, a commanded reboot, or a power cycle.
Reset ==
  /\ boot # "asleep"
  /\ boot' = "start"
  /\ cause' \in {"restart", "poweron"}
  /\ Down
  /\ UNCHANGED unheard

AppMain == PinMuxConfig \/ Provision_RunWindow \/ WakeUp_Process \/ CreateTasks
-------------------------------------------------------------------------------
(* SW1_Task. *)

\* osi_Sleep(10) is 10 / portTICK_PERIOD_MS ticks, one of the default 100 Hz,
\* and ends with the next tick interrupt: at once, or 10 ms later.
osi_SyncObjWait ==
  /\ task = "wait" /\ sem = 1
  /\ sem' = 0
  /\ task' = "debounce" /\ timer' \in 0..DebounceTicks
  /\ UNCHANGED <<boot, cause, sw_wakeup, button, unheard>>

BuzzerOn ==
  /\ task = "debounce" /\ timer = 0
  /\ level = 1 \/ sw_wakeup = 1
  /\ sw_wakeup' = 0
  /\ task' = "beep" /\ timer' = BeepTicks
  /\ unheard' = 0
  /\ UNCHANGED <<boot, cause, sem, button>>

\* Mutant of NotPressed: only the wake-up flag is looked at.
NotWokenUp ==
  /\ task = "debounce" /\ timer = 0
  /\ sw_wakeup = 0
  /\ task' = "clear"
  /\ UNCHANGED <<boot, cause, sem, sw_wakeup, timer, button, unheard>>

NotPressed ==
  /\ task = "debounce" /\ timer = 0
  /\ level = 0 /\ sw_wakeup = 0
  /\ task' = "clear"
  /\ UNCHANGED <<boot, cause, sem, sw_wakeup, timer, button, unheard>>

BuzzerOff ==
  /\ task = "beep" /\ timer = 0
  /\ task' = "clear"
  /\ UNCHANGED <<boot, cause, sem, sw_wakeup, timer, button, unheard>>

\* Mutant of osi_SyncObjClear: the loop starts over without it.
NoClear ==
  /\ task = "clear"
  /\ task' = "wait"
  /\ UNCHANGED <<boot, cause, sem, sw_wakeup, timer, button, unheard>>

\* Whatever was signalled meanwhile is forgotten.
osi_SyncObjClear ==
  /\ task = "clear"
  /\ sem' = 0
  /\ task' = "wait"
  /\ UNCHANGED <<boot, cause, sw_wakeup, timer, button, unheard>>

SW1_Task == osi_SyncObjWait \/ BuzzerOn \/ NotPressed \/ BuzzerOff \/ osi_SyncObjClear

Next ==
  \/ Press \/ Release \/ Chatter \/ Tick
  \/ AppMain \/ Enter_Sleep \/ WakeUp \/ Reset
  \/ SW1_Task

Spec == Init /\ [][Next]_vars

\* Time passes, and SW1_Task has the highest priority.
FairSpec == Spec /\ WF_vars(Tick) /\ WF_vars(AppMain) /\ WF_vars(SW1_Task)
-------------------------------------------------------------------------------
(***************************************************************************)
(* One beep per press: a beep starts only if the button was pressed, or    *)
(* woke the chip, since the last one, however the press chattered and      *)
(* however long it is held (the second look at the pin and                 *)
(* osi_SyncObjClear).  The exception is the chatter of a release that      *)
(* outlasts SW1_Task's delay.                                              *)
(***************************************************************************)
BeepAnswersPress ==
  [][BuzzerOn => unheard = 1 \/ (contact = "released" /\ bounce > 0)]_vars

(***************************************************************************)
(* The wake-up flag does not outlive its wake-up: while it is set the      *)
(* signal that consumes it is pending or being handled, so it cannot make  *)
(* a later edge beep.                                                      *)
(***************************************************************************)
WakeFlagConsumed ==
  sw_wakeup = 1 => sem = 1 \/ task = "debounce"

(***************************************************************************)
(* A press is heard: one whose contact has settled while its signal is     *)
(* still to be taken, and that is held, beeps unless the chip goes down.   *)
(***************************************************************************)
HeldPressBeeps ==
  task = "wait" /\ sem = 1 /\ unheard = 1 /\ contact = "pressed" /\ bounce = 0
    ~> unheard = 0 \/ contact = "released" \/ boot # "up"

(***************************************************************************)
(* A wake-up by the button is heard even if it was released long before    *)
(* SW1_Task existed.                                                       *)
(***************************************************************************)
WakeUpBeeps ==
  boot = "wakeup" /\ cause = "ext1" ~> task = "beep" \/ boot \in {"asleep", "start"}
===============================================================================
