----------------------------- MODULE ButtonProofs -----------------------------
(***************************************************************************)
(* Proofs about module Button: its types, that the wake-up flag is always  *)
(* consumed, and that every beep answers a press or falls into the chatter *)
(* of a release, for every chatter the beep outlasts and every length of   *)
(* the delay osi_Sleep(10).                                                *)
(***************************************************************************)
EXTENDS Button, TLAPS

(***************************************************************************)
(* What makes BeepAnswersPress inductive.  When no press is unheard, the   *)
(* chatter still to come is that of a release, or ends before SW1_Task     *)
(* clears the semaphore; so a signal the task can take comes from a button *)
(* that is released.                                                       *)
(***************************************************************************)
LevelSettles == bounce = 0 => level = IF contact = "pressed" THEN 1 ELSE 0

WakeUnheard ==
  /\ sw_wakeup = 1 => unheard = 1
  /\ cause = "ext1" /\ boot \in {"start", "window", "wakeup"} => unheard = 1

HeardMeansOver ==
  unheard = 0 /\ contact = "pressed" =>
    /\ task = "none" => sem = 0 /\ bounce <= timer /\ (boot \in {"asleep", "start"} \/ bounce = 0)
    /\ task = "wait" => sem = 0 /\ bounce = 0
    /\ task = "debounce" => FALSE
    /\ task = "beep" => bounce <= timer
    /\ task = "clear" => bounce = 0

TaskRuns == task # "none" => boot = "up"

FlagPending ==
  sw_wakeup = 1 => (task \in {"none", "wait"} /\ sem = 1) \/ task = "debounce"

IInv ==
  /\ TypeOK /\ LevelSettles /\ WakeUnheard /\ HeardMeansOver
  /\ TaskRuns /\ FlagPending

-------------------------------------------------------------------------------
(* The initial states satisfy the invariant.                                 *)
LEMMA InitIInv == Init => IInv
  BY BounceAssumption
     DEF Init, IInv, TypeOK, LevelSettles, WakeUnheard, HeardMeansOver,
         TaskRuns, FlagPending

(* Every step preserves it: one case per action of the button, of app_main,  *)
(* of the sleep, and of SW1_Task.                                            *)
LEMMA StepIInv == IInv /\ [Next]_vars => IInv'
<1> SUFFICES ASSUME IInv, [Next]_vars PROVE IInv'
  OBVIOUS
<1> USE BounceAssumption
    DEF IInv, TypeOK, LevelSettles, WakeUnheard, HeardMeansOver, TaskRuns,
        FlagPending, swVars, button, Armed, Edge, gpio_isr_handler
<1>1. CASE Press
  BY <1>1 DEF Press
<1>2. CASE Release
  BY <1>2 DEF Release
<1>3. CASE Chatter
  BY <1>3 DEF Chatter
<1>4. CASE Tick
  BY <1>4 DEF Tick, Less
<1>5. CASE AppMain
  BY <1>5 DEF AppMain, PinMuxConfig, Provision_RunWindow, WakeUp_Process, CreateTasks
<1>6. CASE Enter_Sleep \/ Reset
  BY <1>6 DEF Enter_Sleep, Reset, Down
<1>7. CASE WakeUp
  BY <1>7 DEF WakeUp
<1>8. CASE osi_SyncObjWait
  BY <1>8 DEF osi_SyncObjWait
<1>9. CASE BuzzerOn
  BY <1>9 DEF BuzzerOn
<1>10. CASE NotPressed \/ BuzzerOff \/ osi_SyncObjClear
  BY <1>10 DEF NotPressed, BuzzerOff, osi_SyncObjClear
<1>11. CASE UNCHANGED vars
  BY <1>11 DEF vars
<1>12. QED
  BY <1>1, <1>2, <1>3, <1>4, <1>5, <1>6, <1>7, <1>8, <1>9, <1>10, <1>11
     DEF Next, SW1_Task

LEMMA Invariance == Spec => []IInv
  BY InitIInv, StepIInv, PTL DEF Spec
-------------------------------------------------------------------------------
(***************************************************************************)
(* Every variable keeps its type: in particular the pending delay and the  *)
(* chatter are never negative and the semaphore is binary.                 *)
(***************************************************************************)
THEOREM TypeCorrect == Spec => []TypeOK
<1>1. IInv => TypeOK
  BY DEF IInv
<1>2. QED
  BY Invariance, <1>1, PTL

(***************************************************************************)
(* The flag WakeUp_Process sets never survives the turn of SW1_Task that   *)
(* its signal starts.                                                      *)
(***************************************************************************)
THEOREM WakeFlagIsConsumed == Spec => []WakeFlagConsumed
<1>1. IInv => WakeFlagConsumed
  BY DEF IInv, FlagPending, WakeFlagConsumed
<1>2. QED
  BY Invariance, <1>1, PTL

(***************************************************************************)
(* No beep without a press or a wake-up of its own but in the chatter of a *)
(* release, for every delay and every chatter that the beep outlasts.      *)
(***************************************************************************)
THEOREM BeepsAnswerPresses == Spec => BeepAnswersPress
<1>1. IInv /\ [Next]_vars =>
        [BuzzerOn => unheard = 1 \/ (contact = "released" /\ bounce > 0)]_vars
  <2> SUFFICES ASSUME IInv, BuzzerOn
               PROVE  unheard = 1 \/ (contact = "released" /\ bounce > 0)
    OBVIOUS
  <2>1. CASE sw_wakeup = 1
    BY <2>1 DEF IInv, WakeUnheard
  <2>2. CASE level = 1 /\ contact = "pressed"
    BY <2>2 DEF IInv, TypeOK, HeardMeansOver, BuzzerOn
  <2>3. CASE level = 1 /\ contact = "released"
    BY <2>3, BounceAssumption DEF IInv, TypeOK, LevelSettles
  <2>4. QED
    BY <2>1, <2>2, <2>3 DEF IInv, TypeOK, BuzzerOn
<1>2. QED
  BY Invariance, <1>1, PTL DEF Spec, BeepAnswersPress
================================================================================
