----------------------------- MODULE CommandProofs -----------------------------
(***************************************************************************)
(* Proofs about module Command: the interval in use and the interval       *)
(* stored are the ones last saved, for every word size, default and set of *)
(* commands.                                                               *)
(***************************************************************************)
EXTENDS Command, TLAPS

\* Between the commit and the copy to RAM, flash holds what is being saved.
CommittedIsStored == mode = "apply" => store = saving

IInv ==
  /\ TypeOK /\ IntervalAsAgreed /\ StoreAsAgreed /\ ZeroOnlyUntilSleep
  /\ CommittedIsStored
--------------------------------------------------------------------------------
LEMMA InitIInv == Init => IInv
<1> SUFFICES ASSUME Init PROVE IInv
  OBVIOUS
<1>1. DEFAULT_FN \in Uint32 \ {0} /\ Missing \notin Uint32 /\ 0 \in Uint32
  BY WordAssumption DEF Uint32
<1>2. TypeOK
  BY <1>1 DEF Init, TypeOK, Saves
<1>3. StoreAsAgreed
  BY <1>1 DEF Init, StoreAsAgreed, Effective, Promise
<1>4. IntervalAsAgreed /\ ZeroOnlyUntilSleep /\ CommittedIsStored
  BY DEF Init, IntervalAsAgreed, ZeroOnlyUntilSleep, CommittedIsStored
<1>5. QED
  BY <1>2, <1>3, <1>4 DEF IInv

LEMMA StepIInv == IInv /\ [Next]_vars => IInv'
<1> SUFFICES ASSUME IInv, [Next]_vars PROVE IInv'
  OBVIOUS
<1>d. DEFAULT_FN \in Uint32 \ {0} /\ Missing \notin Uint32 /\ 0 \in Uint32
  BY WordAssumption DEF Uint32
<1> USE <1>d DEF IInv, TypeOK, IntervalAsAgreed, StoreAsAgreed, ZeroOnlyUntilSleep,
                 IntervalDue, Promise, CommittedIsStored, Saves, history
<1>1. ASSUME NEW found \in BOOLEAN, Command_Init(found) PROVE IInv'
  BY <1>1 DEF Command_Init, Effective
<1>2. CASE Command_InitErased
  BY <1>2 DEF Command_InitErased, Effective
<1>3. ASSUME NEW r \in Responses, Command_HandleResponse(r) PROVE IInv'
  <2>1. CASE Reboot(r)
    BY <2>1 DEF Reboot, Restart
  <2>2. CASE SetInterval(r)
    <3>1. Truncated(r.seconds) \subseteq Uint32
      BY <2>2, WordAssumption DEF SetInterval, Truncated, Uint32
    <3>2. QED
      BY <2>2, <3>1 DEF SetInterval
  <2>3. CASE Ignore(r)
    BY <2>3 DEF Ignore, vars
  <2>4. QED
    BY <1>3, <2>1, <2>2, <2>3 DEF Command_HandleResponse
<1>4. CASE NvsOpen \/ NvsSet
  BY <1>4 DEF NvsOpen, NvsSet
<1>5. CASE NvsFail
  BY <1>5 DEF NvsFail, CutShort, MayReachFlash
<1>6. CASE NvsCommit
  BY <1>6 DEF NvsCommit
<1>7. CASE Apply
  BY <1>7 DEF Apply
<1>8. CASE Enter_Sleep
  <2>1. Microseconds(interval) \in Uint32
    BY WordAssumption DEF Microseconds, Uint32
  <2>2. QED
    BY <1>8, <2>1 DEF Enter_Sleep
<1>9. CASE PowerLoss
  BY <1>9 DEF PowerLoss, CutShort, MayReachFlash
<1>10. CASE Restart
  BY <1>10 DEF Restart
<1>11. CASE UNCHANGED vars
  BY <1>11 DEF vars
<1>12. QED
  BY <1>1, <1>2, <1>3, <1>4, <1>5, <1>6, <1>7, <1>8, <1>9, <1>10, <1>11 DEF Next, SaveStep

LEMMA Invariance == Spec => []IInv
  BY InitIInv, StepIInv, PTL DEF Spec
--------------------------------------------------------------------------------
(***************************************************************************)
(* Every variable keeps its type: no step leaves the range of uint32_t.    *)
(***************************************************************************)
THEOREM TypeCorrect == Spec => []TypeOK
<1>1. IInv => TypeOK
  BY DEF IInv
<1>2. QED
  BY Invariance, <1>1, PTL

(***************************************************************************)
(* The device always works with the last interval whose save succeeded,    *)
(* but for two boots: one that cannot read NVS works with DEFAULT_FN, and  *)
(* one after a save that had reached flash without succeeding works with   *)
(* that save's value; the next save that succeeds ends both.               *)
(***************************************************************************)
THEOREM IntervalIsAsAgreed == Spec => []IntervalAsAgreed
<1>1. IInv => IntervalAsAgreed
  BY DEF IInv
<1>2. QED
  BY Invariance, <1>1, PTL

(***************************************************************************)
(* The flash always gives the last interval whose save succeeded, or that  *)
(* of a later save that failed or was cut after nvs_set_u32 was called.    *)
(***************************************************************************)
THEOREM StoreIsAsAgreed == Spec => []StoreAsAgreed
<1>1. IInv => StoreAsAgreed
  BY DEF IInv
<1>2. QED
  BY Invariance, <1>1, PTL

(***************************************************************************)
(* No boot starts with an interval of zero.                                *)
(***************************************************************************)
THEOREM ZeroIsFresh == Spec => []ZeroOnlyUntilSleep
<1>1. IInv => ZeroOnlyUntilSleep
  BY DEF IInv
<1>2. QED
  BY Invariance, <1>1, PTL

(***************************************************************************)
(* The copy in RAM changes only with the store.                            *)
(***************************************************************************)
THEOREM RamAlwaysFollowsStore == Spec => RamFollowsStore
<1>1. IInv /\ [Next]_vars =>
        [interval' # interval => mode = "down" \/ mode' = "down" \/ store' = interval']_vars
  <2> SUFFICES ASSUME IInv, Next, interval' # interval, mode # "down", mode' # "down"
               PROVE  store' = interval'
    OBVIOUS
  <2>1. Apply
    BY DEF Next, SaveStep, Command_Init, Command_InitErased, Command_HandleResponse,
           Reboot, Restart, SetInterval, Ignore, vars, NvsOpen, NvsSet, NvsFail,
           NvsCommit, Enter_Sleep, PowerLoss, history
  <2>2. QED
    BY <2>1 DEF IInv, CommittedIsStored, Apply
<1>2. QED
  BY Invariance, <1>1, PTL DEF Spec, RamFollowsStore
--------------------------------------------------------------------------------
(* The refinement of ConfigStore.                                             *)

\* RAM is lost with the power.
IntervalLost == mode = "down" => interval = 0

LEMMA IntervalIsLost == Spec => []IntervalLost
<1>1. Init => IntervalLost
  BY DEF Init, IntervalLost
<1>2. IInv /\ IntervalLost /\ [Next]_vars => IntervalLost'
  BY DEF IntervalLost, IInv, TypeOK, Saves, Next, SaveStep, vars, history, Command_Init,
         Command_InitErased, Command_HandleResponse, Reboot, Restart, SetInterval, Ignore,
         NvsOpen, NvsSet, NvsFail, NvsCommit, Apply, Enter_Sleep, PowerLoss
<1>3. QED
  BY <1>1, <1>2, Invariance, PTL DEF Spec

LEMMA StepMaps ==
  ASSUME IInv, IInv', IntervalLost, Next
  PROVE  Interval!Next \/ UNCHANGED Interval!vars
<1> DEFINE K == {"report_ivl_s"}
           on == mode # "down"
           active == [k \in K |-> interval]
           may == [k \in K |-> MayReachFlash]
<1>1. /\ MayReachFlash = IF mode \in {"set", "commit"} THEN {store, saving} ELSE {store}
      /\ MayReachFlash' = IF mode' \in {"set", "commit"} THEN {store', saving'} ELSE {store'}
  BY DEF MayReachFlash
<1>2. active' \in [K -> Uint32] /\ may' \in [K -> Interval!Finds]
  BY <1>1 DEF IInv, TypeOK, Interval!Finds
<1>3. CASE \E found \in BOOLEAN : Command_Init(found)
  <2>1. PICK found \in BOOLEAN : Command_Init(found)
    BY <1>3
  <2>2. ~on /\ on' /\ UNCHANGED may
    BY <2>1, <1>1 DEF Command_Init
  <2>3. interval' = DEFAULT_FN \/ interval' = Interval!Loaded("report_ivl_s", store)
    BY <2>1, WordAssumption
       DEF IInv, TypeOK, Command_Init, Effective, Interval!Loaded, Uint32
  <2>4. \A k \in K : \/ active'[k] = [j \in K |-> DEFAULT_FN][k]
                     \/ \E v \in may[k] : may[k] = {v} /\ active'[k] = Interval!Loaded(k, v)
    BY <1>1, <2>1, <2>3 DEF Command_Init
  <2>5. QED
    BY <1>2, <2>2, <2>4 DEF Interval!Boot, Interval!Next
<1>4. CASE Command_InitErased
  <2>1. active' = [k \in K |-> DEFAULT_FN] /\ may' = [k \in K |-> {Missing}]
    BY <1>1, <1>4 DEF Command_InitErased
  <2>2. QED
    BY <1>2, <1>4, <2>1 DEF Command_InitErased, Interval!Boot, Interval!Next
<1>5. CASE NvsOpen
  <2>1. may'["report_ivl_s"] = may["report_ivl_s"] \cup {saving}
        /\ may' = [may EXCEPT !["report_ivl_s"] = may'["report_ivl_s"]]
    BY <1>1, <1>5 DEF NvsOpen
  <2>2. saving \in Uint32 /\ on /\ on' /\ UNCHANGED active
    BY <1>5 DEF NvsOpen, IInv, TypeOK
  <2>3. Interval!Attempt
    BY <2>1, <2>2 DEF Interval!Attempt
  <2>4. QED
    BY <2>3 DEF Interval!Next
<1>6. CASE NvsFail \/ NvsCommit
  <2>1. MayReachFlash' \subseteq MayReachFlash /\ MayReachFlash' # {}
    BY <1>1, <1>6 DEF NvsFail, NvsCommit, CutShort, MayReachFlash
  <2>2. on /\ on' /\ UNCHANGED active
    BY <1>6 DEF NvsFail, NvsCommit, history
  <2>3. Interval!Settle
    BY <1>2, <2>1, <2>2 DEF Interval!Settle
  <2>4. QED
    BY <2>3 DEF Interval!Next
<1>7. CASE Apply
  <2>1. store = saving /\ interval' = saving /\ UNCHANGED store
    BY <1>7 DEF Apply, IInv, CommittedIsStored
  <2>2. on /\ on' /\ UNCHANGED may
    BY <1>1, <1>7, <2>1 DEF Apply
  <2>3. may["report_ivl_s"] = {active'["report_ivl_s"]}
    BY <1>1, <1>7, <2>1 DEF Apply
  <2>4. Interval!Ack
    BY <1>2, <2>2, <2>3 DEF Interval!Ack
  <2>5. QED
    BY <2>4 DEF Interval!Next
<1>8. CASE Enter_Sleep \/ PowerLoss \/ Restart \/ \E r \in Responses : Reboot(r)
  <2>1. on /\ ~on'
    BY <1>8 DEF Enter_Sleep, PowerLoss, Reboot, Restart
  <2>2. \E v \in MayReachFlash : MayReachFlash' = {v}
    BY <1>1, <1>8 DEF Enter_Sleep, PowerLoss, CutShort, Reboot, Restart, MayReachFlash, history
  <2>3. Interval!Off
    BY <1>2, <2>1, <2>2 DEF Interval!Off
  <2>4. QED
    BY <2>3 DEF Interval!Next
<1>9. CASE NvsSet \/ \E r \in Responses : SetInterval(r) \/ Ignore(r)
  <2>1. UNCHANGED <<interval, store>> /\ mode # "down" /\ mode' # "down"
    BY <1>9 DEF NvsSet, SetInterval, Ignore, vars
  <2>2. UNCHANGED may
    BY <1>1, <1>9 DEF NvsSet, SetInterval, Ignore, vars, history
  <2>3. QED
    BY <2>1, <2>2 DEF Interval!vars
<1>10. QED
  BY <1>3, <1>4, <1>5, <1>6, <1>7, <1>8, <1>9 DEF Next, SaveStep, Command_HandleResponse
--------------------------------------------------------------------------------
(***************************************************************************)
(* The report interval is a configuration in the sense of ConfigStore: it  *)
(* is what the last completed save settled, on this boot and every later.  *)
(***************************************************************************)
THEOREM CommandImplementsConfigStore == Spec => IntervalSpec
<1>1. Init => Interval!Init
  BY WordAssumption DEF Init, Interval!Init, MayReachFlash, Uint32
<1>2. IInv /\ IInv' /\ IntervalLost /\ [Next]_vars => [Interval!Next]_(Interval!vars)
  <2>1. CASE UNCHANGED vars
    BY <2>1 DEF vars, Interval!vars, MayReachFlash
  <2>2. QED
    BY <2>1, StepMaps
<1>3. QED
  BY <1>1, <1>2, Invariance, IntervalIsLost, PTL DEF Spec, IntervalSpec, Interval!Spec
================================================================================
