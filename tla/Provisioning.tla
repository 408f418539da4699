---------------------------- MODULE Provisioning ----------------------------
(***************************************************************************)
(* Serial provisioning of the WS1B (main/provisioning.c): the active WiFi, *)
(* server and serial-number configuration in RAM, the copy of it in the    *)
(* NVS flash partition, the handlers of SetupWifi, SetupServer and         *)
(* SetupDevice that write both, and Provision_Init, which rebuilds the RAM *)
(* copy on every boot because deep sleep wipes it.                         *)
(*                                                                         *)
(* A save is one step per NVS call, because each call can fail and power   *)
(* can go between any two.  NVS itself is external, with the contract of   *)
(* nvs.h: a key is replaced whole; after nvs_set_* a value may or may not  *)
(* have reached flash; after nvs_commit it has.                            *)
(***************************************************************************)
EXTENDS Naturals, Sequences

CONSTANTS
  Text,          \* strings that are not empty and fit their buffer
  Empty,         \* the string ""
  TooLong,       \* a string that does not fit its buffer
  Absent,        \* a JSON field that is missing or has another type
  Missing,       \* NVS holds no value under the key
  FactoryText,   \* Kconfig default of each string field
  FactoryPort,   \* Kconfig default of the port
  MaxPort,       \* 65535 in the code
  Requests       \* the commands a technician may send

VARIABLES
  pc,            \* where the boot, or the save in progress, stands
  ram,           \* s_wifi_ssid .. s_sn: the active configuration
  nvs,           \* what the flash holds under each key
  req,           \* the command being handled
  written,       \* how many keys of the command nvs_set_* has accepted
  reply,         \* "c" of the last ack: "c0" saved, "c1" refused, "c2" failed
  \* History, read by no action: what the acks so far promise.
  promised,      \* the values last acknowledged, the default before any ack
  unacked,       \* values that reached flash and are not acknowledged (yet)
  inherited,     \* those of them that this boot found in flash
  unread         \* the stored keys that this boot could not read

code == <<pc, ram, nvs, req, written, reply>>
history == <<promised, unacked, inherited, unread>>
vars == <<pc, ram, nvs, req, written, reply, promised, unacked, inherited, unread>>

KeyOrder ==
  [SetupWifi   |-> <<"wifi_ssid", "wifi_pass", "wifi_type">>,
   SetupServer |-> <<"http_host", "http_port">>,
   SetupDevice |-> <<"sn">>]

Commands == {"SetupWifi", "SetupServer", "SetupDevice"}
Group == [c \in Commands |-> {KeyOrder[c][i] : i \in 1..Len(KeyOrder[c])}]
Keys == {"wifi_ssid", "wifi_pass", "wifi_type", "http_host", "http_port", "sn"}

Value == Text \cup {Empty} \cup (0..MaxPort)
Stored == Value \cup {Missing}
NoneStored == [k \in Keys |-> Missing]

\* What a command may store under k.
Accepts(k) ==
  IF k = "http_port" THEN 1..MaxPort
  ELSE IF k \in {"wifi_pass", "wifi_type"} THEN Text \cup {Empty} ELSE Text

(***************************************************************************)
(* A JSON number is a double and the handler truncates it, so a port on    *)
(* the wire is counted in halves: 3 stands for 1.5, which is stored as 1.  *)
(***************************************************************************)
Inputs == Text \cup {Empty, TooLong, Absent} \cup Nat
IsRequest(r) ==
  /\ r.cmd \in Commands
  /\ DOMAIN r.arg = Group[r.cmd]
  /\ \A k \in Group[r.cmd] : r.arg[k] \in Inputs

NoRequest == [cmd |-> "none"]  \* no handler is running

ASSUME RequestsAssumption == \A r \in Requests : IsRequest(r)
ASSUME PortAssumption == MaxPort \in Nat /\ FactoryPort \in 0..MaxPort
ASSUME FactoryAssumption ==
  FactoryText \in [Keys \ {"http_port"} -> Text \cup {Empty}]
ASSUME MarksAssumption ==
  /\ Missing \notin Value
  /\ Absent \notin Value \cup Nat
  /\ TooLong \notin Text \cup {Empty}

Factory == [k \in Keys |-> IF k = "http_port" THEN FactoryPort ELSE FactoryText[k]]
Zeroed == [k \in Keys |-> IF k = "http_port" THEN 0 ELSE Empty]  \* .bss at reset

(***************************************************************************)
(* Validation.  The order of the checks only chooses the wording of c:1.   *)
(***************************************************************************)
WifiAccepted(a) ==
  /\ a["wifi_ssid"] \in Text
  /\ a["wifi_pass"] \in Text \cup {Empty, Absent}
  /\ a["wifi_type"] \in Text \cup {Empty}

\* Mutant of ServerAccepted: the port has no upper limit.
AnyPortAccepted(a) ==
  /\ a["http_host"] \in Text
  /\ a["http_port"] \in Nat \ {0, 1}

ServerAccepted(a) ==
  /\ a["http_host"] \in Text
  /\ a["http_port"] \in 2..(2 * MaxPort)

DeviceAccepted(a) == a["sn"] \in Text

Accepted(r) ==
  \/ r.cmd = "SetupWifi" /\ WifiAccepted(r.arg)
  \/ r.cmd = "SetupServer" /\ ServerAccepted(r.arg)
  \/ r.cmd = "SetupDevice" /\ DeviceAccepted(r.arg)

\* The value an accepted command saves under k.
Saved(r, k) ==
  IF k = "http_port" THEN r.arg[k] \div 2
  ELSE IF r.arg[k] = Absent THEN Empty ELSE r.arg[k]

(***************************************************************************)
(* What Provision_Init makes of a store: each key it finds overrides the   *)
(* Kconfig default.  The six nvs_get_* fail each on its own; a failed      *)
(* nvs_open reads none.                                                    *)
(***************************************************************************)
ReadBack(store, lost) ==
  [k \in Keys |-> IF store[k] = Missing \/ k \in lost THEN Factory[k] ELSE store[k]]

Effective(store) == ReadBack(store, {})

\* Keys whose nvs_set_* has been called, the one still under way included,
\* and that are not committed: flash may hold either value of each.
InFlight ==
  IF pc \notin {"set", "commit"} THEN {}
  ELSE {KeyOrder[req.cmd][i] : i \in 1..(IF pc = "set" THEN written + 1 ELSE written)}

Overwrite(store, keys) == [k \in Keys |-> IF k \in keys THEN Saved(req, k) ELSE store[k]]
Clear(store, keys) == [k \in Keys |-> IF k \in keys THEN Missing ELSE store[k]]

Saving == {"open", "set", "commit", "apply"}
Up == {"uart", "window", "running"} \cup Saving

TypeOK ==
  /\ pc \in {"off", "asleep"} \cup Up
  /\ ram \in [Keys -> Value]
  /\ nvs \in [Keys -> Stored]
  /\ \A k \in Keys : nvs[k] \in Accepts(k) \cup {Missing}
  /\ IF pc \in Saving
     THEN /\ req \in Requests /\ Accepted(req)
          /\ written \in 0..Len(KeyOrder[req.cmd])
     ELSE req = NoRequest /\ written = 0
  /\ reply \in {"none", "c0", "c1", "c2"}
  /\ promised \in [Keys -> Value]
  /\ unacked \in [Keys -> Stored] /\ inherited \in [Keys -> Stored]
  /\ unread \subseteq Keys

Init ==
  /\ pc = "off"
  /\ ram = Zeroed
  /\ nvs = NoneStored
  /\ req = NoRequest /\ written = 0
  /\ reply = "none"
  /\ promised = Factory
  /\ unacked = NoneStored /\ inherited = NoneStored
  /\ unread = {}

(***************************************************************************)
(* Boot.  nvs_flash_init succeeds, or erases the partition first (no free  *)
(* pages, new version), or fails and every nvs_open of this boot with it.  *)
(* Provision_Init starts from the Kconfig defaults and overrides what it   *)
(* can read.  Only a power-on opens the provisioning window.               *)
(***************************************************************************)
BootWith(store, lost) ==
  /\ pc \in {"off", "asleep"}
  /\ nvs' = store
  /\ ram' = ReadBack(store, lost)
  /\ unread' = lost
  /\ pc' = IF pc = "off" THEN "uart" ELSE "running"
  /\ reply' = "none"
  /\ UNCHANGED <<req, written>>

Boot(lost) ==
  /\ lost \subseteq {k \in Keys : nvs[k] # Missing}
  /\ BootWith(nvs, lost)
  /\ inherited' = unacked
  /\ UNCHANGED <<promised, unacked>>

BootErased ==
  /\ BootWith(NoneStored, {})
  /\ promised' = Factory
  /\ unacked' = NoneStored /\ inherited' = NoneStored

\* Deep sleep, a restart or a power cut: RAM is lost.
LoseRam ==
  /\ ram' = Zeroed
  /\ inherited' = NoneStored
  /\ unread' = {}

\* prov_uart_init: a driver error aborts, and the restart is no power-on.
OpenWindow ==
  /\ pc = "uart"
  /\ pc' = "window"
  /\ UNCHANGED <<ram, nvs, req, written, reply, history>>

UartAbort ==
  /\ pc = "uart"
  /\ pc' = "asleep"
  /\ LoseRam
  /\ UNCHANGED <<nvs, req, written, reply, promised, unacked>>

\* prov_handle_line on anything no handler accepts: an error ack only.
RefuseLine(r) ==
  /\ pc = "window"
  /\ ~Accepted(r)
  /\ reply' = "c1"
  /\ UNCHANGED <<pc, ram, nvs, req, written, history>>

\* A handler accepts the command and enters prov_save_*.
AcceptLine(r) ==
  /\ pc = "window"
  /\ Accepted(r)
  /\ req' = r
  /\ reply' = "none"
  /\ pc' = "open"
  /\ UNCHANGED <<ram, nvs, written, history>>

NvsOpen ==
  /\ pc = "open"
  /\ pc' = "set"
  /\ UNCHANGED <<ram, nvs, req, written, reply, history>>

NvsSet ==
  /\ pc = "set"
  /\ written' = written + 1
  /\ pc' = IF written' = Len(KeyOrder[req.cmd]) THEN "commit" ELSE "set"
  /\ UNCHANGED <<ram, nvs, req, reply, history>>

NvsCommit ==
  /\ pc = "commit"
  /\ nvs' = Overwrite(nvs, Group[req.cmd])
  /\ unacked' = Overwrite(unacked, Group[req.cmd])
  /\ pc' = "apply"
  /\ UNCHANGED <<ram, req, written, reply, promised, inherited, unread>>

\* The save is cut short: each key in flight keeps its value or has the new one.
CutShort ==
  /\ \E keys \in SUBSET InFlight :
       /\ nvs' = Overwrite(nvs, keys)
       /\ unacked' = Overwrite(unacked, keys)
  /\ req' = NoRequest /\ written' = 0

\* Mutant of NvsFail: RAM is updated although the save failed.
NvsFailApplies ==
  /\ pc \in {"open", "set", "commit"}
  /\ ram' = Overwrite(ram, Group[req.cmd])
  /\ CutShort
  /\ reply' = "c2"
  /\ pc' = "window"
  /\ UNCHANGED <<promised, inherited, unread>>

\* Mutant of NvsFail: the handler returns without an ack.
NvsFailSilent ==
  /\ pc \in {"open", "set", "commit"}
  /\ CutShort
  /\ pc' = "window"
  /\ UNCHANGED <<ram, reply, promised, inherited, unread>>

\* The NVS call of this step fails: nvs_close, then {"c":2}.
NvsFail ==
  /\ pc \in {"open", "set", "commit"}
  /\ CutShort
  /\ reply' = "c2"
  /\ pc' = "window"
  /\ UNCHANGED <<ram, promised, inherited, unread>>

\* The ack: what the command saved is promised, and nothing of it is in doubt.
Acknowledge ==
  /\ promised' = Overwrite(promised, Group[req.cmd])
  /\ unacked' = Clear(unacked, Group[req.cmd])
  /\ inherited' = Clear(inherited, Group[req.cmd])
  /\ unread' = unread \ Group[req.cmd]
  /\ req' = NoRequest /\ written' = 0
  /\ reply' = "c0"

\* Mutant of Apply: the password is not copied to RAM.
ApplyButPassword ==
  /\ pc = "apply"
  /\ ram' = Overwrite(ram, Group[req.cmd] \ {"wifi_pass"})
  /\ Acknowledge
  /\ pc' = "window"
  /\ UNCHANGED nvs

\* The save succeeded: the handler copies the values to RAM and acks.
Apply ==
  /\ pc = "apply"
  /\ ram' = Overwrite(ram, Group[req.cmd])
  /\ Acknowledge
  /\ pc' = "window"
  /\ UNCHANGED nvs

CloseWindow ==
  /\ pc = "window"
  /\ pc' = "running"
  /\ reply' = "none"
  /\ UNCHANGED <<ram, nvs, req, written, history>>

\* Deep sleep, or a restart that is not a power-on: RAM is lost.
SleepOrRestart ==
  /\ pc = "running"
  /\ pc' = "asleep"
  /\ LoseRam
  /\ UNCHANGED <<nvs, req, written, reply, promised, unacked>>

\* Power goes, perhaps in the middle of a save.
PowerLoss ==
  /\ pc # "off"
  /\ pc' = "off"
  /\ LoseRam
  /\ CutShort
  /\ reply' = "none"
  /\ UNCHANGED promised

SaveStep == NvsOpen \/ NvsSet \/ NvsCommit \/ NvsFail \/ Apply

Next ==
  \/ \E lost \in SUBSET Keys : Boot(lost)
  \/ BootErased
  \/ OpenWindow
  \/ UartAbort
  \/ \E r \in Requests : RefuseLine(r) \/ AcceptLine(r)
  \/ SaveStep
  \/ CloseWindow
  \/ SleepOrRestart
  \/ PowerLoss

Spec == Init /\ [][Next]_vars
-----------------------------------------------------------------------------
(***************************************************************************)
(* An ack is a promise about this boot: while the device is up every field *)
(* runs with the value last acknowledged for it, whatever was refused,     *)
(* failed or cut since.  Two things break the promise, and only for the    *)
(* fields they touch: a field that NVS holds and this boot could not read  *)
(* runs with its Kconfig default (Provision_Init), and one that a save cut *)
(* short before this boot had already changed in flash runs with that      *)
(* value; module Serial holds both against what the README says.  An ack   *)
(* in this boot ends both.                                                 *)
(***************************************************************************)
Promise(k, left) == IF left[k] = Missing THEN promised[k] ELSE left[k]

RunningAsPromised ==
  pc \in Up => \A k \in Keys :
    ram[k] = IF k \in unread THEN Factory[k] ELSE Promise(k, inherited)

(***************************************************************************)
(* An ack is a promise about every later boot: the store would load the    *)
(* acknowledged value of each key, but for the value of an unacknowledged  *)
(* save that has reached flash under the key (prov_save_* before the RAM   *)
(* copy and the ack).                                                      *)
(***************************************************************************)
StoreAsPromised ==
  \A k \in Keys : Effective(nvs)[k] = Promise(k, unacked)

(***************************************************************************)
(* A save that broke off leaves no third value: each key of the command    *)
(* still holds what it held or holds the new value, and the other          *)
(* commands' keys are untouched (prov_save_* against power loss).          *)
(***************************************************************************)
OnlyOwnKeysWritten ==
  [][\A k \in Keys : nvs'[k] # nvs[k] =>
        \/ nvs' = NoneStored /\ pc' \in {"uart", "running"}
        \/ /\ pc \in Saving /\ k \in Group[req.cmd]
           /\ nvs'[k] = Saved(req, k)]_vars

(***************************************************************************)
(* Provisioning implements ConfigStore.  A key in flight may be found old  *)
(* or new; any other key is settled.                                       *)
(***************************************************************************)
MayFind ==
  [k \in Keys |-> IF k \in InFlight THEN {nvs[k], Saved(req, k)} ELSE {nvs[k]}]

Store == INSTANCE ConfigStore WITH
  Key <- Keys, Group <- {Group[c] : c \in Commands}, Val <- Value,
  None <- Missing, Void <- {}, Default <- Factory,
  on <- pc \in Up, active <- ram, may <- MayFind

StoreSpec == Store!Spec

(***************************************************************************)
(* README: "Each command gets a one-line JSON ack back", and the ack tells *)
(* the truth: c:0 if flash and RAM both hold what was sent, c:2 if the     *)
(* device still runs with what it had, and nothing only if power is lost.  *)
(***************************************************************************)
AckIsTrue ==
  [][(pc \in Saving /\ pc' \notin Saving \cup {"off"}) =>
       \/ /\ reply' = "c0"
          /\ \A k \in Group[req.cmd] : ram'[k] = Saved(req, k) /\ nvs'[k] = Saved(req, k)
       \/ reply' = "c2" /\ ram' = ram]_vars
=============================================================================
