-------------------------- MODULE ProvisioningProofs --------------------------
(***************************************************************************)
(* Proofs about module Provisioning: the running configuration and the     *)
(* stored one are those last acknowledged, for every set of texts, port    *)
(* range, factory configuration and set of commands.                       *)
(***************************************************************************)
EXTENDS Provisioning, TLAPS

\* Between the commit and the copy to RAM, flash holds the command's values.
CommittedIsStored ==
  pc = "apply" => \A k \in Group[req.cmd] : nvs[k] = Saved(req, k)

\* nvs_set_* is called for a key still to be written, nvs_commit when none is.
KeysLeft ==
  /\ pc = "open" => written = 0
  /\ pc = "set" => written < Len(KeyOrder[req.cmd])
  /\ pc = "commit" => written = Len(KeyOrder[req.cmd])

IInv ==
  /\ TypeOK /\ RunningAsPromised /\ StoreAsPromised /\ CommittedIsStored
  /\ KeysLeft
-------------------------------------------------------------------------------
(* The keys.                                                                 *)

LEMMA KeyOrders ==
  /\ KeyOrder["SetupWifi"] = <<"wifi_ssid", "wifi_pass", "wifi_type">>
  /\ KeyOrder["SetupServer"] = <<"http_host", "http_port">>
  /\ KeyOrder["SetupDevice"] = <<"sn">>
  BY DEF KeyOrder

LEMMA Groups ==
  /\ Group["SetupWifi"] = {"wifi_ssid", "wifi_pass", "wifi_type"}
  /\ Group["SetupServer"] = {"http_host", "http_port"}
  /\ Group["SetupDevice"] = {"sn"}
<1>1. \A c \in Commands : Group[c] = {KeyOrder[c][i] : i \in 1..Len(KeyOrder[c])}
  BY DEF Group
<1>2. Group["SetupWifi"] = {"wifi_ssid", "wifi_pass", "wifi_type"}
  <2>1. Len(KeyOrder["SetupWifi"]) = 3 /\ 1..3 = {1, 2, 3}
    BY KeyOrders
  <2>2. QED
    BY <1>1, <2>1, KeyOrders DEF Commands
<1>3. Group["SetupServer"] = {"http_host", "http_port"}
  <2>1. Len(KeyOrder["SetupServer"]) = 2 /\ 1..2 = {1, 2}
    BY KeyOrders
  <2>2. QED
    BY <1>1, <2>1, KeyOrders DEF Commands
<1>4. Group["SetupDevice"] = {"sn"}
  <2>1. Len(KeyOrder["SetupDevice"]) = 1 /\ 1..1 = {1}
    BY KeyOrders
  <2>2. Group["SetupDevice"] = {KeyOrder["SetupDevice"][i] : i \in {1}}
    BY <1>1, <2>1 DEF Commands
  <2>3. KeyOrder["SetupDevice"][1] = "sn"
    BY KeyOrders
  <2>4. QED
    BY <2>2, <2>3
<1>5. QED
  BY <1>2, <1>3, <1>4

(* Every key is set by one command and no other.                             *)
LEMMA GroupsPartitionKeys ==
  /\ \A c \in Commands : Group[c] \subseteq Keys
  /\ \A c, e \in Commands : c # e => Group[c] \cap Group[e] = {}
  BY Groups DEF Commands, Keys

(* What may be stored under a key is a value.                                *)
LEMMA AcceptsAreValues ==
  ASSUME NEW k \in Keys
  PROVE  Accepts(k) \subseteq Value /\ Accepts(k) \subseteq Stored /\ Missing \notin Accepts(k)
<1>1. 1..MaxPort \subseteq 0..MaxPort
  BY PortAssumption
<1>2. Accepts(k) \subseteq Value
  BY <1>1 DEF Accepts, Value
<1>3. QED
  BY <1>2, MarksAssumption DEF Stored

(* The values an accepted command saves fit their fields.                    *)
LEMMA SavedIsAccepted ==
  ASSUME NEW r \in Requests, Accepted(r), NEW k \in Group[r.cmd]
  PROVE  Saved(r, k) \in Accepts(k)
<1>1. r.cmd \in Commands /\ MaxPort \in Nat
  BY RequestsAssumption, PortAssumption DEF IsRequest
<1>2. CASE r.cmd = "SetupWifi"
  BY <1>2, Groups, MarksAssumption DEF Accepted, WifiAccepted, Saved, Accepts, Value
<1>3. CASE r.cmd = "SetupServer"
  <2>1. CASE k = "http_host"
    BY <1>3, <2>1, MarksAssumption DEF Accepted, ServerAccepted, Saved, Accepts, Value
  <2>2. CASE k = "http_port"
    <3>1. r.arg["http_port"] \in 2..(2 * MaxPort)
      BY <1>3 DEF Accepted, ServerAccepted
    <3>2. r.arg["http_port"] \div 2 \in 1..MaxPort
      BY <3>1, <1>1
    <3>3. QED
      BY <2>2, <3>2 DEF Saved, Accepts, Value
  <2>3. QED
    BY <1>3, <2>1, <2>2, Groups
<1>4. CASE r.cmd = "SetupDevice"
  BY <1>4, Groups, MarksAssumption DEF Accepted, DeviceAccepted, Saved, Accepts, Value
<1>5. QED
  BY <1>1, <1>2, <1>3, <1>4 DEF Commands

LEMMA SavedIsValue ==
  ASSUME NEW r \in Requests, Accepted(r), NEW k \in Group[r.cmd]
  PROVE  k \in Keys /\ Saved(r, k) \in Value /\ Saved(r, k) \in Stored /\ Saved(r, k) # Missing
<1>1. k \in Keys
  BY GroupsPartitionKeys, RequestsAssumption DEF IsRequest
<1>2. QED
  BY <1>1, SavedIsAccepted, AcceptsAreValues

(* A save in progress is of a command, and touches its keys only.            *)
LEMMA SavingFacts ==
  ASSUME TypeOK, KeysLeft, pc \in Saving
  PROVE  /\ req \in Requests /\ Accepted(req) /\ req.cmd \in Commands
         /\ req # NoRequest
         /\ Len(KeyOrder[req.cmd]) \in Nat \ {0}
         /\ written \in 0..Len(KeyOrder[req.cmd])
         /\ InFlight \subseteq Group[req.cmd]
         /\ pc = "commit" => InFlight = Group[req.cmd]
<1>1. req \in Requests /\ Accepted(req) /\ written \in 0..Len(KeyOrder[req.cmd])
  BY DEF TypeOK
<1>2. req.cmd \in Commands
  BY <1>1, RequestsAssumption DEF IsRequest
<1>3. req # NoRequest
  BY <1>2 DEF NoRequest, Commands
<1>4. Group[req.cmd] = {KeyOrder[req.cmd][i] : i \in 1..Len(KeyOrder[req.cmd])}
  BY <1>2 DEF Group
<1>5. Len(KeyOrder[req.cmd]) \in Nat \ {0}
  BY <1>2, KeyOrders DEF Commands
<1>6. CASE pc \notin {"set", "commit"}
  BY <1>1, <1>2, <1>3, <1>5, <1>6 DEF InFlight
<1>7. CASE pc = "set"
  <2>1. InFlight = {KeyOrder[req.cmd][i] : i \in 1..(written + 1)}
    BY <1>7 DEF InFlight
  <2>2. 1..(written + 1) \subseteq 1..Len(KeyOrder[req.cmd])
    BY <1>1, <1>5, <1>7 DEF KeysLeft
  <2>3. QED
    BY <1>1, <1>2, <1>3, <1>4, <1>5, <1>7, <2>1, <2>2
<1>8. CASE pc = "commit"
  <2>1. InFlight = {KeyOrder[req.cmd][i] : i \in 1..written}
    BY <1>8 DEF InFlight
  <2>2. QED
    BY <1>1, <1>2, <1>3, <1>4, <1>5, <1>8, <2>1 DEF KeysLeft
<1>9. QED
  BY <1>6, <1>7, <1>8

LEMMA NothingInFlight == pc \notin Saving => InFlight = {}
  BY DEF InFlight, Saving

(* Factory values are values.                                                *)
LEMMA FactoryIsValue ==
  Factory \in [Keys -> Value] /\ Zeroed \in [Keys -> Value] /\ NoneStored \in [Keys -> Stored]
  BY FactoryAssumption, PortAssumption
     DEF Factory, Zeroed, NoneStored, Value, Stored, Keys

(* What a boot makes of a store of values is a configuration.                *)
LEMMA ReadBackIsValue ==
  ASSUME NEW store \in [Keys -> Stored], NEW lost
  PROVE  ReadBack(store, lost) \in [Keys -> Value]
  BY FactoryIsValue DEF ReadBack, Stored

(* Overwriting keys of the command in progress changes only these.           *)
LEMMA OverwriteFacts ==
  ASSUME TypeOK, KeysLeft, pc \in Saving, NEW keys \in SUBSET Group[req.cmd],
         NEW T \in {Value, Stored}, NEW f \in [Keys -> T]
  PROVE  /\ Overwrite(f, keys) \in [Keys -> T]
         /\ \A k \in keys : Overwrite(f, keys)[k] = Saved(req, k)
         /\ \A k \in Keys \ keys : Overwrite(f, keys)[k] = f[k]
<1>1. \A k \in keys : k \in Keys /\ Saved(req, k) \in Value /\ Saved(req, k) \in Stored
  BY SavingFacts, SavedIsValue
<1>2. QED
  BY <1>1 DEF Overwrite
-------------------------------------------------------------------------------
LEMMA InitIInv == Init => IInv
<1> SUFFICES ASSUME Init PROVE IInv
  OBVIOUS
<1>1. TypeOK
  BY FactoryIsValue DEF Init, TypeOK, NoneStored, Saving, Up
<1>2. RunningAsPromised /\ CommittedIsStored /\ KeysLeft
  BY DEF Init, RunningAsPromised, CommittedIsStored, KeysLeft, Up, Saving
<1>3. StoreAsPromised
  BY DEF Init, StoreAsPromised, Effective, ReadBack, Promise, NoneStored
<1>4. QED
  BY <1>1, <1>2, <1>3 DEF IInv

(* A boot runs with what it can read of the store, which is as promised.     *)
LEMMA BootStep ==
  ASSUME IInv, NEW lost \in SUBSET Keys, Boot(lost)
  PROVE  IInv'
<1> USE DEF IInv, Boot, BootWith
<1>1. pc \notin Saving /\ pc' \in {"uart", "running"} /\ pc' \notin Saving /\ pc' \in Up
  BY DEF Saving, Up
<1>2. TypeOK'
  BY <1>1, ReadBackIsValue DEF TypeOK
<1>3. StoreAsPromised' /\ CommittedIsStored' /\ KeysLeft'
  BY <1>1 DEF StoreAsPromised, CommittedIsStored, KeysLeft, Promise
<1>4. RunningAsPromised'
  <2> SUFFICES ASSUME NEW k \in Keys
               PROVE  ram'[k] = IF k \in lost THEN Factory[k] ELSE Promise(k, unacked)
    BY DEF RunningAsPromised, Promise
  <2>1. Effective(nvs)[k] = Promise(k, unacked)
    BY DEF StoreAsPromised
  <2>2. QED
    BY <2>1 DEF Effective, ReadBack
<1>5. QED
  BY <1>2, <1>3, <1>4

(* A boot that erased the partition runs with the factory configuration.     *)
LEMMA BootErasedStep ==
  ASSUME IInv, BootErased
  PROVE  IInv'
<1> USE DEF IInv, BootErased, BootWith
<1>1. pc \notin Saving /\ pc' \in {"uart", "running"} /\ pc' \notin Saving /\ pc' \in Up
  BY DEF Saving, Up
<1>2. TypeOK'
  <2>1. ReadBack(NoneStored, {}) \in [Keys -> Value]
    BY ReadBackIsValue, FactoryIsValue
  <2>2. \A k \in Keys : NoneStored[k] = Missing
    BY DEF NoneStored
  <2>3. QED
    BY <1>1, <2>1, <2>2, FactoryIsValue DEF TypeOK
<1>3. StoreAsPromised' /\ CommittedIsStored' /\ KeysLeft' /\ RunningAsPromised'
  BY <1>1 DEF StoreAsPromised, RunningAsPromised, CommittedIsStored, KeysLeft, Promise,
              Effective, ReadBack, NoneStored
<1>4. QED
  BY <1>2, <1>3

(* The NVS call fails, or power goes: of the command being saved, any keys   *)
(* in flight may have been written; no other key is touched.                 *)
LEMMA CutStep ==
  ASSUME IInv, NvsFail \/ PowerLoss
  PROVE  IInv'
<1> USE DEF IInv
<1>1. PICK keys \in SUBSET InFlight :
             nvs' = Overwrite(nvs, keys) /\ unacked' = Overwrite(unacked, keys)
  BY DEF NvsFail, PowerLoss, CutShort
<1>2. /\ pc' \in {"window", "off"} /\ pc' \notin Saving
      /\ req' = NoRequest /\ written' = 0 /\ promised' = promised
      /\ reply' \in {"c2", "none"}
  BY DEF NvsFail, PowerLoss, CutShort, Saving
<1>3. /\ nvs' \in [Keys -> Stored] /\ unacked' \in [Keys -> Stored]
      /\ \A k \in keys : /\ k \in Keys /\ nvs'[k] = Saved(req, k)
                         /\ unacked'[k] = Saved(req, k)
                         /\ nvs'[k] # Missing /\ nvs'[k] \in Accepts(k)
      /\ \A k \in Keys \ keys : nvs'[k] = nvs[k] /\ unacked'[k] = unacked[k]
  <2>1. nvs \in [Keys -> Stored] /\ unacked \in [Keys -> Stored]
    BY DEF TypeOK
  <2>2. CASE pc \in Saving
    <3>1. keys \in SUBSET Group[req.cmd] /\ req \in Requests /\ Accepted(req)
      BY <2>2, SavingFacts
    <3>2. /\ nvs' \in [Keys -> Stored]
          /\ \A k \in keys : nvs'[k] = Saved(req, k)
          /\ \A k \in Keys \ keys : nvs'[k] = nvs[k]
      BY <1>1, <2>1, <2>2, <3>1, OverwriteFacts
    <3>3. /\ unacked' \in [Keys -> Stored]
          /\ \A k \in keys : unacked'[k] = Saved(req, k)
          /\ \A k \in Keys \ keys : unacked'[k] = unacked[k]
      BY <1>1, <2>1, <2>2, <3>1, OverwriteFacts
    <3>4. \A k \in keys : k \in Keys /\ Saved(req, k) # Missing /\ Saved(req, k) \in Accepts(k)
      BY <3>1, SavedIsValue, SavedIsAccepted
    <3>5. QED
      BY <3>2, <3>3, <3>4
  <2>3. CASE pc \notin Saving
    BY <1>1, <2>1, <2>3, NothingInFlight DEF Overwrite
  <2>4. QED
    BY <2>2, <2>3
<1>4. TypeOK'
  <2>1. ram' \in [Keys -> Value] /\ inherited' \in [Keys -> Stored] /\ unread' \subseteq Keys
    BY FactoryIsValue DEF NvsFail, PowerLoss, LoseRam, TypeOK
  <2>2. \A k \in Keys : nvs'[k] \in Accepts(k) \cup {Missing}
    BY <1>3 DEF TypeOK
  <2>3. QED
    BY <1>2, <1>3, <2>1, <2>2 DEF TypeOK, Up
<1>5. RunningAsPromised'
  <2>1. CASE NvsFail
    BY <2>1 DEF NvsFail, RunningAsPromised, Promise, Up, Saving
  <2>2. CASE PowerLoss
    BY <2>2 DEF PowerLoss, RunningAsPromised, Up, Saving
  <2>3. QED
    BY <2>1, <2>2
<1>6. CommittedIsStored' /\ KeysLeft'
  BY <1>2 DEF CommittedIsStored, KeysLeft
<1>7. StoreAsPromised'
  BY <1>2, <1>3 DEF StoreAsPromised, Effective, ReadBack, Promise
<1>8. QED
  BY <1>4, <1>5, <1>6, <1>7

(* The commit puts the command's values in flash, and no other.              *)
LEMMA CommitStep ==
  ASSUME IInv, NvsCommit
  PROVE  IInv'
<1> USE DEF IInv, NvsCommit
<1>1. pc \in Saving /\ pc' \in Saving /\ pc' = "apply" /\ pc \in Up /\ pc' \in Up
  BY DEF Saving, Up
<1>2. req.cmd \in Commands /\ req \in Requests /\ Accepted(req)
  BY <1>1, SavingFacts
<1>3. \A k \in Group[req.cmd] : /\ k \in Keys /\ Saved(req, k) # Missing
                                /\ Saved(req, k) \in Accepts(k) \cap Stored
  BY <1>2, SavedIsValue, SavedIsAccepted
<1>4. /\ nvs' \in [Keys -> Stored] /\ unacked' \in [Keys -> Stored]
      /\ \A k \in Group[req.cmd] : nvs'[k] = Saved(req, k) /\ unacked'[k] = Saved(req, k)
      /\ \A k \in Keys \ Group[req.cmd] : nvs'[k] = nvs[k] /\ unacked'[k] = unacked[k]
  <2>1. nvs \in [Keys -> Stored] /\ unacked \in [Keys -> Stored]
    BY DEF TypeOK
  <2>2. /\ nvs' \in [Keys -> Stored]
        /\ \A k \in Group[req.cmd] : nvs'[k] = Saved(req, k)
        /\ \A k \in Keys \ Group[req.cmd] : nvs'[k] = nvs[k]
    BY <1>3, <2>1 DEF Overwrite
  <2>3. /\ unacked' \in [Keys -> Stored]
        /\ \A k \in Group[req.cmd] : unacked'[k] = Saved(req, k)
        /\ \A k \in Keys \ Group[req.cmd] : unacked'[k] = unacked[k]
    BY <1>3, <2>1 DEF Overwrite
  <2>4. QED
    BY <2>2, <2>3
<1>5. TypeOK'
  <2>1. \A k \in Keys : nvs'[k] \in Accepts(k) \cup {Missing}
    BY <1>4, <1>3 DEF TypeOK
  <2>2. QED
    BY <1>1, <1>4, <2>1 DEF TypeOK
<1>6. CommittedIsStored' /\ KeysLeft'
  BY <1>1, <1>4 DEF CommittedIsStored, KeysLeft, Saved
<1>7. RunningAsPromised'
  BY <1>1 DEF RunningAsPromised, Promise
<1>8. StoreAsPromised'
  BY <1>4, <1>3 DEF StoreAsPromised, Effective, ReadBack, Promise
<1>9. QED
  BY <1>5, <1>6, <1>7, <1>8

(* The copy to RAM and the ack, once the values are in flash.                *)
LEMMA ApplyStep ==
  ASSUME IInv, Apply
  PROVE  IInv'
<1> USE DEF IInv, Apply, Acknowledge
<1>1. pc \in Saving /\ pc = "apply" /\ pc' = "window" /\ pc' \notin Saving /\ pc' \in Up /\ pc \in Up
  BY DEF Saving, Up
<1>2. req.cmd \in Commands /\ req \in Requests /\ Accepted(req)
  BY <1>1, SavingFacts
<1>3. \A k \in Group[req.cmd] : k \in Keys /\ Saved(req, k) # Missing /\ Saved(req, k) \in Value
  BY <1>2, SavedIsValue
<1>4. /\ ram' \in [Keys -> Value] /\ promised' \in [Keys -> Value]
      /\ \A k \in Group[req.cmd] : ram'[k] = Saved(req, k) /\ promised'[k] = Saved(req, k)
      /\ \A k \in Keys \ Group[req.cmd] : ram'[k] = ram[k] /\ promised'[k] = promised[k]
  <2>1. ram \in [Keys -> Value] /\ promised \in [Keys -> Value]
    BY DEF TypeOK
  <2>2. /\ ram' \in [Keys -> Value]
        /\ \A k \in Group[req.cmd] : ram'[k] = Saved(req, k)
        /\ \A k \in Keys \ Group[req.cmd] : ram'[k] = ram[k]
    BY <1>3, <2>1 DEF Overwrite
  <2>3. /\ promised' \in [Keys -> Value]
        /\ \A k \in Group[req.cmd] : promised'[k] = Saved(req, k)
        /\ \A k \in Keys \ Group[req.cmd] : promised'[k] = promised[k]
    BY <1>3, <2>1 DEF Overwrite
  <2>4. QED
    BY <2>2, <2>3
<1>5. /\ unacked' \in [Keys -> Stored] /\ inherited' \in [Keys -> Stored]
      /\ \A k \in Group[req.cmd] : unacked'[k] = Missing /\ inherited'[k] = Missing
      /\ \A k \in Keys \ Group[req.cmd] :
           unacked'[k] = unacked[k] /\ inherited'[k] = inherited[k]
  <2>1. unacked \in [Keys -> Stored] /\ inherited \in [Keys -> Stored]
    BY DEF TypeOK
  <2>2. QED
    BY <1>3, <2>1 DEF Clear, Stored
<1>6. TypeOK'
  BY <1>1, <1>4, <1>5 DEF TypeOK
<1>7. CommittedIsStored' /\ KeysLeft'
  BY <1>1 DEF CommittedIsStored, KeysLeft
<1>8. RunningAsPromised'
  <2> SUFFICES ASSUME NEW k \in Keys
               PROVE  ram'[k] = IF k \in unread' THEN Factory[k] ELSE Promise(k, inherited)'
    BY DEF RunningAsPromised
  <2>1. CASE k \in Group[req.cmd]
    BY <1>4, <1>5, <2>1 DEF Promise
  <2>2. CASE k \notin Group[req.cmd]
    <3>1. ram[k] = IF k \in unread THEN Factory[k] ELSE Promise(k, inherited)
      BY <1>1 DEF RunningAsPromised
    <3>2. QED
      BY <1>4, <1>5, <2>2, <3>1 DEF Promise
  <2>3. QED
    BY <2>1, <2>2
<1>9. StoreAsPromised'
  <2> SUFFICES ASSUME NEW k \in Keys
               PROVE  Effective(nvs)[k] = Promise(k, unacked)'
    BY DEF StoreAsPromised, Effective, ReadBack
  <2>1. CASE k \in Group[req.cmd]
    <3>1. nvs[k] = Saved(req, k)
      BY <1>1, <2>1 DEF CommittedIsStored
    <3>2. QED
      BY <1>3, <1>4, <1>5, <2>1, <3>1 DEF Promise, Effective, ReadBack
  <2>2. CASE k \notin Group[req.cmd]
    BY <1>4, <1>5, <2>2 DEF Promise, StoreAsPromised
  <2>3. QED
    BY <2>1, <2>2
<1>10. QED
  BY <1>6, <1>7, <1>8, <1>9

(* A step that leaves RAM, flash and the promises alone.                     *)
LEMMA QuietStep ==
  ASSUME IInv, TypeOK', KeysLeft', pc \in Up \ {"apply"}, pc' \in Up \ {"apply"},
         UNCHANGED <<ram, nvs>>, UNCHANGED history
  PROVE  IInv'
<1> USE DEF history
<1>1. RunningAsPromised'
  BY DEF IInv, RunningAsPromised, Promise
<1>2. StoreAsPromised'
  BY DEF IInv, StoreAsPromised, Promise
<1>3. CommittedIsStored'
  BY DEF CommittedIsStored
<1>4. QED
  BY <1>1, <1>2, <1>3 DEF IInv

(* Sleep and restarts lose RAM only.                                         *)
LEMMA DownStep ==
  ASSUME IInv, UartAbort \/ SleepOrRestart
  PROVE  IInv'
<1> USE DEF IInv, UartAbort, SleepOrRestart, LoseRam
<1>1. TypeOK'
  BY FactoryIsValue DEF TypeOK, Up, Saving
<1>2. RunningAsPromised' /\ StoreAsPromised' /\ CommittedIsStored' /\ KeysLeft'
  BY DEF RunningAsPromised, StoreAsPromised, CommittedIsStored, KeysLeft, Promise, Up, Saving
<1>3. QED
  BY <1>1, <1>2

(* One more key of the command is written.                                   *)
LEMMA NvsSetStep ==
  ASSUME IInv, NvsSet
  PROVE  IInv'
<1> USE DEF NvsSet, history
<1>1. pc \in Saving /\ pc' \in {"set", "commit"} /\ pc' \in Saving
  BY DEF Saving
<1>2. req.cmd \in Commands /\ req \in Requests /\ Accepted(req)
  BY <1>1, SavingFacts DEF IInv
<1>3. Len(KeyOrder[req.cmd]) \in Nat
  BY <1>2, KeyOrders DEF Commands
<1>4. written \in 0..Len(KeyOrder[req.cmd]) /\ written < Len(KeyOrder[req.cmd])
  BY <1>1 DEF IInv, TypeOK, KeysLeft
<1>5. TypeOK'
  BY <1>1, <1>2, <1>3, <1>4 DEF IInv, TypeOK, Up
<1>6. KeysLeft'
  BY <1>3, <1>4 DEF KeysLeft
<1>7. QED
  BY <1>1, <1>5, <1>6, QuietStep DEF Up, Saving

(* The window opens, refuses, accepts, or closes.                            *)
LEMMA WindowStep ==
  ASSUME IInv, \/ OpenWindow \/ CloseWindow \/ NvsOpen
               \/ \E r \in Requests : RefuseLine(r) \/ AcceptLine(r)
  PROVE  IInv'
<1> USE DEF history
<1>1. CASE OpenWindow \/ CloseWindow
  <2>1. TypeOK' /\ KeysLeft'
    BY <1>1 DEF OpenWindow, CloseWindow, IInv, TypeOK, KeysLeft, Up, Saving
  <2>2. QED
    BY <1>1, <2>1, QuietStep DEF OpenWindow, CloseWindow, Up, Saving
<1>2. CASE NvsOpen
  <2>1. pc \in Saving /\ pc' \in Saving /\ pc' = "set"
    BY <1>2 DEF NvsOpen, Saving
  <2>2. req.cmd \in Commands /\ req \in Requests /\ Accepted(req)
    BY <2>1, SavingFacts DEF IInv
  <2>3. Len(KeyOrder[req.cmd]) \in Nat \ {0}
    BY <2>2, KeyOrders DEF Commands
  <2>4. TypeOK'
    BY <1>2, <2>1, <2>2, <2>3 DEF NvsOpen, IInv, TypeOK, Up
  <2>5. KeysLeft'
    BY <1>2, <2>1, <2>3 DEF NvsOpen, IInv, KeysLeft
  <2>6. QED
    BY <1>2, <2>1, <2>4, <2>5, QuietStep DEF NvsOpen, Up
<1>3. ASSUME NEW r \in Requests, RefuseLine(r)
      PROVE  IInv'
  <2>1. TypeOK' /\ KeysLeft'
    BY <1>3 DEF RefuseLine, IInv, TypeOK, KeysLeft, Up, Saving
  <2>2. QED
    BY <1>3, <2>1, QuietStep DEF RefuseLine, Up, Saving
<1>4. ASSUME NEW r \in Requests, AcceptLine(r)
      PROVE  IInv'
  <2>1. r.cmd \in Commands
    BY RequestsAssumption DEF IsRequest
  <2>2. Len(KeyOrder[r.cmd]) \in Nat
    BY <2>1, KeyOrders DEF Commands
  <2>3. written = 0 /\ written' = 0 /\ req' = r /\ pc' = "open" /\ pc' \in Saving
    BY <1>4 DEF AcceptLine, IInv, TypeOK, Saving
  <2>4. TypeOK' /\ KeysLeft'
    BY <1>4, <2>2, <2>3 DEF AcceptLine, IInv, TypeOK, KeysLeft, Up
  <2>5. QED
    BY <1>4, <2>4, QuietStep DEF AcceptLine, Up, Saving
<1>5. QED
  BY <1>1, <1>2, <1>3, <1>4

LEMMA StepIInv == IInv /\ [Next]_vars => IInv'
<1> SUFFICES ASSUME IInv, [Next]_vars PROVE IInv'
  OBVIOUS
<1>1. CASE UNCHANGED vars
  BY <1>1 DEF vars, IInv, TypeOK, RunningAsPromised, StoreAsPromised,
              CommittedIsStored, KeysLeft, Promise, Up, Saving, NoRequest
<1>2. CASE Next
  BY <1>2, BootStep, BootErasedStep, CutStep, CommitStep, ApplyStep, DownStep,
     NvsSetStep, WindowStep DEF Next, SaveStep
<1>3. QED
  BY <1>1, <1>2

LEMMA Invariance == Spec => []IInv
  BY InitIInv, StepIInv, PTL DEF Spec
-------------------------------------------------------------------------------
(***************************************************************************)
(* Every variable keeps its type: in particular RAM and flash only ever    *)
(* hold values that fit their fields.                                      *)
(***************************************************************************)
THEOREM TypeCorrect == Spec => []TypeOK
<1>1. IInv => TypeOK
  BY DEF IInv
<1>2. QED
  BY Invariance, <1>1, PTL

(***************************************************************************)
(* The device runs with the configuration it has acknowledged, through any *)
(* sequence of refused, failed and interrupted commands, sleeps, restarts  *)
(* and power losses, field by field: a field departs from it only if this  *)
(* boot could not read it, and then has its default, or found under it the *)
(* value of an unacknowledged save, and then runs with that.               *)
(***************************************************************************)
THEOREM RunsAsPromised == Spec => []RunningAsPromised
<1>1. IInv => RunningAsPromised
  BY DEF IInv
<1>2. QED
  BY Invariance, <1>1, PTL

(***************************************************************************)
(* The store would load the acknowledged value of every field on every     *)
(* later boot, but where an unacknowledged save has reached flash.         *)
(***************************************************************************)
THEOREM StoresAsPromised == Spec => []StoreAsPromised
<1>1. IInv => StoreAsPromised
  BY DEF IInv
<1>2. QED
  BY Invariance, <1>1, PTL

(***************************************************************************)
(* A save writes the keys of its own command, with the values of the       *)
(* command, however it is cut short; nothing else writes but an erasure of *)
(* the whole partition.                                                    *)
(***************************************************************************)
THEOREM OnlyOwnKeysAreWritten == Spec => OnlyOwnKeysWritten
<1> DEFINE Own == \A k \in Keys : nvs'[k] # nvs[k] =>
                    \/ nvs' = NoneStored /\ pc' \in {"uart", "running"}
                    \/ /\ pc \in Saving /\ k \in Group[req.cmd]
                       /\ nvs'[k] = Saved(req, k)
<1>1. IInv /\ [Next]_vars => [Own]_vars
  <2> SUFFICES ASSUME IInv, Next, NEW k \in Keys, nvs'[k] # nvs[k]
               PROVE  \/ nvs' = NoneStored /\ pc' \in {"uart", "running"}
                      \/ /\ pc \in Saving /\ k \in Group[req.cmd]
                         /\ nvs'[k] = Saved(req, k)
    OBVIOUS
  <2>1. BootErased \/ NvsCommit \/ NvsFail \/ PowerLoss
    BY DEF Next, SaveStep, Boot, BootWith, OpenWindow, UartAbort, RefuseLine, AcceptLine,
           NvsOpen, NvsSet, Apply, CloseWindow, SleepOrRestart
  <2>2. CASE BootErased
    BY <2>2 DEF BootErased, BootWith
  <2>3. CASE NvsCommit \/ NvsFail \/ PowerLoss
    <3>1. PICK keys : /\ nvs' = Overwrite(nvs, keys)
                      /\ \/ keys = Group[req.cmd] /\ pc = "commit"
                         \/ keys \in SUBSET InFlight
      BY <2>3 DEF NvsCommit, NvsFail, PowerLoss, CutShort
    <3>2. k \in keys /\ nvs'[k] = Saved(req, k)
      BY <3>1 DEF Overwrite
    <3>3. pc \in Saving
      BY <3>1, <3>2, NothingInFlight DEF Saving
    <3>4. k \in Group[req.cmd]
      BY <3>1, <3>2, <3>3, SavingFacts DEF IInv
    <3>5. QED
      BY <3>2, <3>3, <3>4
  <2>4. QED
    BY <2>1, <2>2, <2>3
<1>2. QED
  BY Invariance, <1>1, PTL DEF Spec, OnlyOwnKeysWritten

(***************************************************************************)
(* No save ends without an ack but by a power cut, and the ack is true:    *)
(* c:0 only with flash and RAM both holding what was sent, c:2 only with   *)
(* RAM unchanged.                                                          *)
(***************************************************************************)
THEOREM AcksAreTrue == Spec => AckIsTrue
<1> DEFINE Ends == pc \in Saving /\ pc' \notin Saving \cup {"off"}
           Kept == /\ reply' = "c0"
                   /\ \A k \in Group[req.cmd] :
                        ram'[k] = Saved(req, k) /\ nvs'[k] = Saved(req, k)
           Refused == reply' = "c2" /\ ram' = ram
<1>1. IInv /\ [Next]_vars => [Ends => Kept \/ Refused]_vars
  <2> SUFFICES ASSUME IInv, Next, Ends PROVE Kept \/ Refused
    OBVIOUS
  <2>1. NvsFail \/ Apply
    <3>1. pc \in {"open", "set", "commit", "apply"}
          /\ pc' \notin {"open", "set", "commit", "apply", "off"}
      BY DEF Saving
    <3>2. QED
      BY <3>1 DEF Next, SaveStep, Boot, BootErased, OpenWindow, UartAbort, RefuseLine,
         AcceptLine, NvsOpen, NvsSet, NvsCommit, CloseWindow, SleepOrRestart, PowerLoss,
         BootWith, Up, Saving
  <2>2. CASE NvsFail
    BY <2>2 DEF NvsFail
  <2>3. CASE Apply
    <3>1. \A k \in Group[req.cmd] : k \in Keys
      BY <2>3, SavingFacts, GroupsPartitionKeys DEF IInv, Apply, Saving
    <3>2. \A k \in Group[req.cmd] : nvs[k] = Saved(req, k)
      BY <2>3 DEF Apply, IInv, CommittedIsStored
    <3>3. QED
      BY <2>3, <3>1, <3>2 DEF Apply, Acknowledge, Overwrite
  <2>4. QED
    BY <2>1, <2>2, <2>3
<1>2. QED
  BY Invariance, <1>1, PTL DEF Spec, AckIsTrue
-------------------------------------------------------------------------------
(***************************************************************************)
(* Provisioning implements ConfigStore, under the mapping MayFind: every   *)
(* NVS call is an abstract step or a stutter.                              *)
(***************************************************************************)
\* Without power the RAM copy is what reset leaves.
RamLost == pc \notin Up => ram = Zeroed

LEMMA RamIsLost == Spec => []RamLost
<1>1. Init => RamLost
  BY DEF Init, RamLost
<1>2. RamLost /\ [Next]_vars => RamLost'
  BY DEF RamLost, Next, SaveStep, vars, Up, Saving, Boot, BootErased, BootWith, OpenWindow,
         UartAbort, RefuseLine, AcceptLine, NvsOpen, NvsSet, NvsCommit, NvsFail, Apply,
         CloseWindow, SleepOrRestart, PowerLoss, LoseRam, history
<1>3. QED
  BY <1>1, <1>2, PTL DEF Spec
-------------------------------------------------------------------------------
(* When nothing is in flight every key is settled.                           *)
LEMMA MayFindSettled ==
  InFlight = {} => MayFind = [k \in Keys |-> {nvs[k]}]
  BY DEF MayFind

(* What a cut or a commit leaves in flash, a boot might have found before.   *)
LEMMA OverwriteMayBeFound ==
  ASSUME IInv, NEW keys \in SUBSET InFlight, NEW k \in Keys
  PROVE  /\ Overwrite(nvs, keys)[k] \in MayFind[k]
         /\ Overwrite(nvs, keys)[k] \in Stored
<1>1. Overwrite(nvs, keys)[k] = IF k \in keys THEN Saved(req, k) ELSE nvs[k]
  BY DEF Overwrite
<1>2. MayFind[k] = IF k \in InFlight THEN {nvs[k], Saved(req, k)} ELSE {nvs[k]}
  BY DEF MayFind
<1>3. k \in keys => Saved(req, k) \in Stored
  BY NothingInFlight, SavingFacts, SavedIsValue DEF IInv
<1>4. nvs[k] \in Stored
  BY DEF IInv, TypeOK
<1>5. QED
  BY <1>1, <1>2, <1>3, <1>4

LEMMA InitMaps == Init => Store!Init
<1> SUFFICES ASSUME Init PROVE Store!Init
  OBVIOUS
<1>1. MayFind = [k \in Keys |-> {Missing}]
  BY DEF Init, MayFind, InFlight, NoneStored
<1>2. QED
  BY <1>1, FactoryIsValue DEF Init, Store!Init, Up, Saving

(* A boot with what the store holds, with the default where a key cannot be  *)
(* read, or with all defaults after erasing it.                              *)
LEMMA BootMaps ==
  ASSUME IInv, BootErased \/ \E lost \in SUBSET Keys : Boot(lost)
  PROVE  Store!Boot
<1>1. pc \notin Up /\ pc' \in Up /\ pc \notin Saving /\ pc' \notin Saving
  BY DEF BootErased, Boot, BootWith, Up, Saving
<1>2. MayFind = [k \in Keys |-> {nvs[k]}] /\ MayFind' = [k \in Keys |-> {nvs'[k]}]
  BY <1>1 DEF MayFind, InFlight, Saving
<1>3. ram' \in [Keys -> Value]
  BY ReadBackIsValue, FactoryIsValue DEF IInv, TypeOK, BootErased, Boot, BootWith
<1>4. CASE BootErased
  <2>1. ram' = Factory /\ MayFind' = [k \in Keys |-> {Missing}]
    BY <1>2, <1>4, FactoryIsValue DEF BootErased, BootWith, ReadBack, NoneStored
  <2>2. QED
    BY <1>1, <1>3, <2>1 DEF Store!Boot
<1>5. ASSUME NEW lost \in SUBSET Keys, Boot(lost)
      PROVE  Store!Boot
  <2>1. \A k \in Keys : ram'[k] = Factory[k] \/ ram'[k] = Store!Loaded(k, nvs[k])
    BY <1>5 DEF Boot, BootWith, ReadBack, Store!Loaded
  <2>2. UNCHANGED MayFind
    BY <1>2, <1>5 DEF Boot, BootWith
  <2>3. \A k \in Keys :
          \/ ram'[k] = Factory[k]
          \/ \E v \in MayFind[k] : MayFind[k] = {v} /\ ram'[k] = Store!Loaded(k, v)
    BY <1>2, <2>1
  <2>4. QED
    BY <1>1, <1>3, <2>2, <2>3 DEF Store!Boot
<1>6. QED
  BY <1>4, <1>5

(* The call of the next nvs_set_*: a boot may now find its key's new value.  *)
LEMMA NextKeyMaps ==
  ASSUME IInv, pc \in Saving, pc' = "set", UNCHANGED <<ram, nvs, req>>,
         NEW n \in 0..(Len(KeyOrder[req.cmd]) - 1),
         InFlight = {KeyOrder[req.cmd][i] : i \in 1..n}, written' = n
  PROVE  Store!Attempt
<1>1. req \in Requests /\ Accepted(req) /\ req.cmd \in Commands
      /\ Len(KeyOrder[req.cmd]) \in Nat
  BY SavingFacts DEF IInv
<1> DEFINE next == KeyOrder[req.cmd][n + 1]
<1>2. n \in Nat /\ n + 1 \in 1..Len(KeyOrder[req.cmd])
  BY <1>1
<1>3. next \in Group[req.cmd] /\ next \in Keys
  BY <1>1, <1>2, GroupsPartitionKeys DEF Group
<1>4. InFlight' = InFlight \cup {next}
  <2>1. InFlight' = {KeyOrder[req.cmd][i] : i \in 1..(n + 1)}
    BY DEF InFlight
  <2>2. 1..(n + 1) = 1..n \cup {n + 1}
    BY <1>2
  <2>3. QED
    BY <2>1, <2>2
<1>5. Saved(req, next) \in Value
  BY <1>1, <1>3, SavedIsValue
<1>6. /\ MayFind'[next] = MayFind[next] \cup {Saved(req, next)}
      /\ MayFind' = [MayFind EXCEPT ![next] = MayFind'[next]]
  <2>1. MayFind' = [k \in Keys |-> IF k \in InFlight \cup {next}
                                   THEN {nvs[k], Saved(req, k)} ELSE {nvs[k]}]
    BY <1>4 DEF MayFind, Saved
  <2>2. QED
    BY <1>3, <2>1 DEF MayFind
<1>7. pc \in Up /\ pc' \in Up
  BY DEF Up, Saving
<1>8. next \in UNION {Group[c] : c \in Commands}
  BY <1>1, <1>3
<1>9. QED
  BY <1>5, <1>6, <1>7, <1>8 DEF Store!Attempt

(* nvs_open succeeds and the first nvs_set_* is called.                      *)
LEMMA NvsOpenMaps ==
  ASSUME IInv, NvsOpen
  PROVE  Store!Attempt
<1>1. pc \in Saving /\ pc' = "set" /\ InFlight = {} /\ written' = 0
  BY DEF NvsOpen, Saving, InFlight, IInv, KeysLeft
<1>2. Len(KeyOrder[req.cmd]) \in Nat \ {0}
  BY <1>1, SavingFacts DEF IInv
<1>3. InFlight = {KeyOrder[req.cmd][i] : i \in 1..0} /\ 0 \in 0..(Len(KeyOrder[req.cmd]) - 1)
  BY <1>1, <1>2
<1>4. QED
  BY <1>1, <1>3, NextKeyMaps DEF NvsOpen

(* An nvs_set_* succeeds and the next call is made: another nvs_set_*, or    *)
(* nvs_commit.                                                               *)
LEMMA NvsSetMaps ==
  ASSUME IInv, NvsSet
  PROVE  Store!Attempt \/ UNCHANGED Store!vars
<1>1. pc = "set" /\ pc \in Saving /\ pc \in Up /\ pc' \in Up /\ UNCHANGED <<ram, nvs, req>>
      /\ written' = written + 1
  BY DEF NvsSet, Saving, Up
<1>2. Len(KeyOrder[req.cmd]) \in Nat \ {0} /\ written \in Nat
      /\ written + 1 \in 1..Len(KeyOrder[req.cmd])
  BY <1>1, SavingFacts DEF IInv, KeysLeft
<1>3. InFlight = {KeyOrder[req.cmd][i] : i \in 1..(written + 1)}
  BY <1>1 DEF InFlight
<1>4. CASE pc' = "set"
  <2>1. written + 1 \in 0..(Len(KeyOrder[req.cmd]) - 1)
    BY <1>1, <1>2, <1>4 DEF NvsSet
  <2>2. QED
    BY <1>1, <1>3, <1>4, <2>1, NextKeyMaps
<1>5. CASE pc' # "set"
  <2>1. pc' = "commit"
    BY <1>5 DEF NvsSet
  <2>2. InFlight' = InFlight
    BY <1>1, <1>3, <2>1 DEF InFlight
  <2>3. MayFind' = MayFind
    BY <1>1, <2>2 DEF MayFind, Saved
  <2>4. QED
    BY <1>1, <2>3 DEF Store!vars
<1>6. QED
  BY <1>4, <1>5

(* The commit, or a failure: what may be found narrows to what is stored.    *)
LEMMA SettleMaps ==
  ASSUME IInv, NvsCommit \/ NvsFail
  PROVE  Store!Settle
<1>1. pc \in Saving /\ pc \in Up /\ pc' \in Up /\ pc' \notin {"set", "commit"}
  BY DEF NvsCommit, NvsFail, Saving, Up
<1>2. MayFind' = [k \in Keys |-> {nvs'[k]}]
  BY <1>1 DEF MayFind, InFlight
<1>3. UNCHANGED ram
  BY DEF NvsCommit, NvsFail
<1>4. PICK keys \in SUBSET InFlight : nvs' = Overwrite(nvs, keys)
  <2>1. CASE NvsFail
    BY <2>1 DEF NvsFail, CutShort
  <2>2. CASE NvsCommit
    BY <1>1, <2>2, SavingFacts DEF NvsCommit, IInv
  <2>3. QED
    BY <2>1, <2>2
<1>5. \A k \in Keys : nvs'[k] \in MayFind[k] /\ nvs'[k] \in Stored
  BY <1>4, OverwriteMayBeFound
<1>6. MayFind' \in [Keys -> Store!Finds]
  BY <1>2, <1>5 DEF Store!Finds, Stored
<1>7. \A k \in Keys : MayFind'[k] # {} /\ MayFind'[k] \subseteq MayFind[k]
  BY <1>2, <1>5
<1>8. QED
  BY <1>1, <1>3, <1>6, <1>7 DEF Store!Settle

(* The copy to RAM: every key of the command is settled on its new value.    *)
LEMMA ApplyMaps ==
  ASSUME IInv, Apply
  PROVE  Store!Ack
<1>1. pc \in Saving /\ pc \in Up /\ pc' \in Up /\ pc = "apply" /\ pc' = "window"
  BY DEF Apply, Saving, Up
<1>2. req \in Requests /\ Accepted(req) /\ req.cmd \in Commands
  BY <1>1, SavingFacts DEF IInv
<1>3. MayFind = [k \in Keys |-> {nvs[k]}] /\ UNCHANGED MayFind
  BY <1>1 DEF MayFind, InFlight, Apply
<1>4. ram' \in [Keys -> Value]
  BY <1>1, OverwriteFacts DEF Apply, IInv, TypeOK
<1>5. \A k \in Group[req.cmd] : MayFind[k] = {ram'[k]}
  BY <1>1, <1>2, <1>3, SavedIsValue DEF IInv, CommittedIsStored, Apply, Overwrite
<1>6. \A k \in Keys \ Group[req.cmd] : ram'[k] = ram[k]
  BY DEF Apply, Overwrite
<1>7. QED
  BY <1>1, <1>2, <1>3, <1>4, <1>5, <1>6 DEF Store!Ack

(* The device goes down: each key keeps one of the values it may hold.       *)
LEMMA OffMaps ==
  ASSUME IInv, RamLost, UartAbort \/ SleepOrRestart \/ PowerLoss
  PROVE  Store!Off \/ UNCHANGED Store!vars
<1>1. pc' \notin Up /\ pc' \notin Saving /\ ram' = Zeroed
  BY DEF UartAbort, SleepOrRestart, PowerLoss, LoseRam, Up, Saving
<1>2. MayFind' = [k \in Keys |-> {nvs'[k]}]
  BY <1>1 DEF MayFind, InFlight, Saving
<1>3. PICK keys \in SUBSET InFlight : nvs' = Overwrite(nvs, keys)
  <2>1. CASE PowerLoss
    BY <2>1 DEF PowerLoss, CutShort
  <2>2. CASE UartAbort \/ SleepOrRestart
    <3>1. nvs' = Overwrite(nvs, {})
      BY <2>2 DEF UartAbort, SleepOrRestart, IInv, TypeOK, Overwrite
    <3>2. QED
      BY <3>1
  <2>3. QED
    BY <2>1, <2>2
<1>4. \A k \in Keys : nvs'[k] \in MayFind[k] /\ nvs'[k] \in Stored
  BY <1>3, OverwriteMayBeFound
<1>5. CASE pc \notin Up
  <2>1. InFlight = {}
    BY <1>5, NothingInFlight DEF Up
  <2>2. MayFind = [k \in Keys |-> {nvs[k]}]
    BY <2>1, MayFindSettled
  <2>3. \A k \in Keys : nvs'[k] = nvs[k]
    BY <1>4, <2>2
  <2>4. MayFind' = MayFind
    BY <1>2, <2>2, <2>3
  <2>5. QED
    BY <1>1, <1>5, <2>4 DEF RamLost, Store!vars
<1>6. CASE pc \in Up
  <2>1. MayFind' \in [Keys -> Store!Finds]
    BY <1>2, <1>4 DEF Store!Finds, Stored
  <2>2. \A k \in Keys : \E v \in MayFind[k] : MayFind'[k] = {v}
    BY <1>2, <1>4
  <2>3. QED
    BY <1>1, <1>6, <2>1, <2>2, FactoryIsValue DEF Store!Off
<1>7. QED
  BY <1>5, <1>6

(* The window opens, refuses, accepts and closes without the abstract        *)
(* specification noticing.                                                   *)
LEMMA QuietMaps ==
  ASSUME IInv, \/ OpenWindow \/ CloseWindow
               \/ \E r \in Requests : RefuseLine(r) \/ AcceptLine(r)
  PROVE  UNCHANGED Store!vars
<1>1. UNCHANGED <<ram, nvs>> /\ pc \in Up /\ pc' \in Up
      /\ pc \notin {"set", "commit"} /\ pc' \notin {"set", "commit"}
  BY DEF OpenWindow, CloseWindow, RefuseLine, AcceptLine, Up, Saving
<1>2. MayFind = [k \in Keys |-> {nvs[k]}] /\ MayFind' = [k \in Keys |-> {nvs'[k]}]
  BY <1>1 DEF MayFind, InFlight
<1>3. QED
  BY <1>1, <1>2 DEF Store!vars
-------------------------------------------------------------------------------
(***************************************************************************)
(* Provisioning implements ConfigStore: what a boot may find changes only  *)
(* while a command is being saved, and an ack means every key of it is     *)
(* settled on the values now running.                                      *)
(***************************************************************************)
THEOREM ProvisioningImplementsConfigStore == Spec => StoreSpec
<1>1. IInv /\ RamLost /\ [Next]_vars => [Store!Next]_(Store!vars)
  <2> SUFFICES ASSUME IInv, RamLost, [Next]_vars
               PROVE  Store!Next \/ UNCHANGED Store!vars
    OBVIOUS
  <2>1. CASE UNCHANGED vars
    BY <2>1 DEF vars, Store!vars, MayFind, InFlight, Saved
  <2>2. CASE Next
    BY <2>2, BootMaps, NvsOpenMaps, NvsSetMaps, SettleMaps, ApplyMaps, OffMaps, QuietMaps
       DEF Next, SaveStep, Store!Next
  <2>3. QED
    BY <2>1, <2>2
<1>2. QED
  BY InitMaps, Invariance, RamIsLost, <1>1, PTL DEF Spec, StoreSpec, Store!Spec
===============================================================================
