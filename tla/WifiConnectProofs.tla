-------------------------- MODULE WifiConnectProofs --------------------------
(***************************************************************************)
(* Proofs about module WifiConnect: the safety of one connection for every *)
(* length of the event queue and every behaviour of driver and network.    *)
(***************************************************************************)
EXTENDS WifiConnect, SequenceTheorems, TLAPS

(***************************************************************************)
(* WIFI_S is set from before the driver starts until WiFi_Stop clears it,  *)
(* and the driver is down when the main task has stopped it.               *)
(***************************************************************************)
StartedBit ==
  /\ main \in {"start", "started", "wait", "sample", "work", "disconnect", "check"}
       => "WIFI_S" \in bits
  /\ main \in {"stop", "done"} => "WIFI_S" \notin bits
  /\ main = "done" => driver = "stopped"

(***************************************************************************)
(* A lease that lwIP has announced is known, or its event is on its way,   *)
(* whatever became of the link since.                                      *)
(***************************************************************************)
Queued(e) == \E i \in 1..Len(events) : events[i] = e
LeaseAnnounced == lease = "bound" => "CONNECTED" \in bits \/ Queued("GOT_IP")

IInv == TypeOK /\ StartedBit /\ AlwaysTrying /\ LeaseAnnounced
------------------------------------------------------------------------------
(* Queues: what is posted is behind what was there, and taking the first     *)
(* event leaves the others.                                                  *)

LEMMA PostKeeps ==
  ASSUME events \in Seq(Event), NEW new \in Event, events' = Append(events, new)
  PROVE  /\ events' \in Seq(Event)
         /\ \E i \in 1..Len(events') : events'[i] = new
         /\ \A e \in Event : Queued(e) => Queued(e)'
<1>1. /\ events' \in Seq(Event) /\ Len(events') = Len(events) + 1 /\ Len(events) \in Nat
      /\ events'[Len(events) + 1] = new
      /\ \A i \in 1..Len(events) : events'[i] = events[i]
  OBVIOUS
<1>2. QED
  BY <1>1 DEF Queued

LEMMA TakeKeeps ==
  ASSUME events \in Seq(Event), NEW first \in Event, Take(first)
  PROVE  /\ events' \in Seq(Event)
         /\ \A e \in Event \ {first} : Queued(e) => Queued(e)'
<1>1. events # <<>> /\ events[1] = first /\ events' = Tail(events)
  BY DEF Take
<1>2. /\ events' \in Seq(Event) /\ Len(events) \in Nat /\ Len(events') = Len(events) - 1
      /\ \A i \in 1..Len(events') : events'[i] = events[i + 1]
  BY <1>1
<1>3. ASSUME NEW e \in Event \ {first}, Queued(e) PROVE Queued(e)'
  <2>1. PICK i \in 1..Len(events) : events[i] = e
    BY <1>3 DEF Queued
  <2>2. i # 1
    BY <2>1, <1>1
  <2>3. i - 1 \in 1..Len(events') /\ events'[i - 1] = e
    BY <2>1, <2>2, <1>2
  <2>4. QED
    BY <2>3 DEF Queued
<1>4. QED
  BY <1>2, <1>3

LEMMA OneEvent ==
  ASSUME NEW e \in Event
  PROVE  <<e>> \in Seq(Event)
  OBVIOUS

LEMMA LeaveIsEvents == Leave \in Seq(Event)
<1>1. CASE driver \in {"joining", "joined"}
  BY <1>1, OneEvent DEF Leave, Event
<1>2. CASE driver \notin {"joining", "joined"}
  BY <1>2 DEF Leave
<1>3. QED
  BY <1>1, <1>2
------------------------------------------------------------------------------
LEMMA InitIInv == Init => IInv
  BY DEF Init, IInv, TypeOK, StartedBit, AlwaysTrying, LeaseAnnounced, Wanted, Event, Bit

(* A step of the main task ends in a state where WIFI_S is as it should be,  *)
(* and starts the driver only with an event that will connect it.            *)
LEMMA MainKeeps ==
  ASSUME IInv, Main
  PROVE  IInv'
<1> USE DEF IInv, TypeOK, StartedBit, AlwaysTrying, LeaseAnnounced, Wanted, Bit
<1>1. CASE WiFi_Init \/ Abort \/ Configure \/ WaitBits \/ WaitTimeout \/ SampleRssi
             \/ FinishWork \/ WiFi_Stop
  <2>1. UNCHANGED <<events, task, lease>> /\ (Queued("GOT_IP")' <=> Queued("GOT_IP"))
        /\ (ReconnectPending' <=> ReconnectPending)
    BY <1>1 DEF WiFi_Init, Abort, Configure, WaitBits, WaitTimeout, SampleRssi, FinishWork,
                WiFi_Stop, radio, Queued, ReconnectPending
  <2>2. TypeOK' /\ StartedBit'
    <3>1. CASE WiFi_Init
      BY <3>1, <2>1 DEF WiFi_Init, radio
    <3>2. CASE Abort
      BY <3>2, <2>1 DEF Abort, radio
    <3>3. CASE Configure
      BY <3>3, <2>1 DEF Configure, radio
    <3>4. CASE WaitBits
      BY <3>4, <2>1 DEF WaitBits, radio
    <3>5. CASE WaitTimeout
      BY <3>5, <2>1 DEF WaitTimeout, radio
    <3>6. CASE SampleRssi
      BY <3>6, <2>1 DEF SampleRssi, radio
    <3>7. CASE FinishWork
      BY <3>7, <2>1 DEF FinishWork, radio
    <3>8. CASE WiFi_Stop
      BY <3>8, <2>1 DEF WiFi_Stop, radio
    <3>9. QED
      BY <1>1, <3>1, <3>2, <3>3, <3>4, <3>5, <3>6, <3>7, <3>8
  <2>3. AlwaysTrying'
    BY <1>1, <2>1 DEF WiFi_Init, Abort, Configure, WaitBits, WaitTimeout, SampleRssi,
                FinishWork, WiFi_Stop, radio
  <2>4. LeaseAnnounced'
    BY <1>1, <2>1 DEF WiFi_Init, Abort, Configure, WaitBits, WaitTimeout, SampleRssi,
                FinishWork, WiFi_Stop, radio
  <2>5. QED
    BY <2>2, <2>3, <2>4
<1>2. CASE EspWifiStart
  <2>1. /\ events' \in Seq(Event) /\ Queued("STA_START")'
        /\ (Queued("GOT_IP") => Queued("GOT_IP")')
    BY <1>2, PostKeeps DEF EspWifiStart, Event, Queued
  <2>2. QED
    BY <1>2, <2>1 DEF EspWifiStart, ReconnectPending, Queued
<1>3. CASE EspWifiDisconnect \/ EspWifiStop
  <2>1. PICK posted \in Seq(Event) : events' = events \o posted
    <3>1. CASE EspWifiDisconnect
      <4>1. Leave \in Seq(Event) /\ events' = events \o Leave
        BY <3>1, LeaveIsEvents DEF EspWifiDisconnect
      <4>2. QED
        BY <4>1
    <3>2. CASE EspWifiStop
      <4>1. /\ Leave \in Seq(Event) /\ <<"STA_STOP">> \in Seq(Event)
            /\ events' = (events \o Leave) \o <<"STA_STOP">>
        BY <3>2, LeaveIsEvents, OneEvent DEF EspWifiStop, Event
      <4>2. /\ Leave \o <<"STA_STOP">> \in Seq(Event)
            /\ events' = events \o (Leave \o <<"STA_STOP">>)
        BY <4>1, ConcatAssociative, ConcatProperties
      <4>3. QED
        BY <4>2
    <3>3. QED
      BY <1>3, <3>1, <3>2
  <2>2. /\ events' \in Seq(Event) /\ Len(events') >= Len(events) /\ Len(events) \in Nat
        /\ \A i \in 1..Len(events) : events'[i] = events[i]
    BY <2>1
  <2>3. Queued("GOT_IP") => Queued("GOT_IP")'
    BY <2>2 DEF Queued
  <2>4. QED
    BY <1>3, <2>2, <2>3 DEF EspWifiDisconnect, EspWifiStop
<1>4. QED
  BY <1>1, <1>2, <1>3 DEF Main

(* A step of the event loop task takes a START or DISCONNECTED only to call  *)
(* esp_wifi_connect, which gives up only when WiFi is no longer wanted.      *)
LEMMA EventTaskKeeps ==
  ASSUME IInv, EventTask
  PROVE  IInv'
<1> USE DEF IInv, TypeOK, StartedBit, AlwaysTrying, LeaseAnnounced, Wanted, Bit, mainVars, radio
<1>1. CASE OnStart
  <2>1. events' \in Seq(Event) /\ (Queued("GOT_IP") => Queued("GOT_IP")')
    BY <1>1, TakeKeeps DEF OnStart, Event
  <2>2. ReconnectPending'
    BY <1>1 DEF OnStart, ReconnectPending
  <2>3. QED
    BY <1>1, <2>1, <2>2 DEF OnStart
<1>2. CASE OnDisconnected
  <2>1. events' \in Seq(Event)
    BY <1>2, TakeKeeps DEF OnDisconnected, Event
  <2>2. ReconnectPending'
    BY <1>2 DEF OnDisconnected, ReconnectPending
  <2>3. QED
    BY <1>2, <2>1, <2>2 DEF OnDisconnected
<1>3. CASE OnConnected \/ OnGotIp \/ OnOther
  <2>1. task = "idle" /\ task' = "idle" /\ driver' = driver
    BY <1>3 DEF OnConnected, OnGotIp, OnOther, Take
  <2>2. /\ events' \in Seq(Event)
        /\ Queued("STA_START") => Queued("STA_START")'
        /\ Queued("STA_DISCONNECTED") => Queued("STA_DISCONNECTED")'
        /\ ~OnGotIp => (Queued("GOT_IP") => Queued("GOT_IP")')
    <3>1. CASE OnConnected
      BY <3>1, TakeKeeps DEF OnConnected, Event
    <3>2. CASE OnGotIp
      BY <3>2, TakeKeeps DEF OnGotIp, Event
    <3>3. CASE OnOther
      BY <3>3, TakeKeeps DEF OnOther, Event
    <3>4. QED
      BY <1>3, <3>1, <3>2, <3>3
  <2>3. ReconnectPending => ReconnectPending'
    BY <2>1, <2>2 DEF ReconnectPending, Queued
  <2>4. QED
    <3>1. CASE OnConnected
      BY <3>1, <2>1, <2>2, <2>3 DEF OnConnected
    <3>2. CASE OnGotIp
      <4>1. bits' = bits \cup {"CONNECTED"} /\ UNCHANGED <<result, rssi, driver, lease, attempt>>
        BY <3>2 DEF OnGotIp
      <4>2. main' = main \/ (main = "wait" /\ main' = "sample")
        BY <3>2 DEF OnGotIp
      <4>3. TypeOK' /\ StartedBit' /\ LeaseAnnounced'
        BY <4>1, <4>2, <2>1, <2>2
      <4>4. AlwaysTrying'
        BY <4>1, <4>2, <2>3
      <4>5. QED
        BY <4>3, <4>4
    <3>3. CASE OnOther
      <4>1. UNCHANGED <<main, result, rssi, bits, driver, lease, attempt>> /\ ~OnGotIp
        BY <3>3 DEF OnOther, OnGotIp, Take
      <4>2. Queued("GOT_IP") => Queued("GOT_IP")'
        BY <4>1, <2>2
      <4>3. TypeOK' /\ StartedBit' /\ LeaseAnnounced'
        BY <4>1, <4>2, <2>1, <2>2
      <4>4. AlwaysTrying'
        BY <4>1, <2>3
      <4>5. QED
        BY <4>3, <4>4
    <3>4. QED
      BY <1>3, <3>1, <3>2, <3>3
<1>4. CASE CheckStarted \/ EspWifiConnect
  <2>1. UNCHANGED <<events, main, bits, lease>> /\ (Queued("GOT_IP")' <=> Queued("GOT_IP"))
    BY <1>4 DEF CheckStarted, EspWifiConnect, Queued
  <2>2. QED
    BY <1>4, <2>1 DEF CheckStarted, EspWifiConnect, ReconnectPending
<1>5. QED
  BY <1>1, <1>2, <1>3, <1>4 DEF EventTask

(* The network loses a link only with an event.                              *)
LEMMA NetworkKeeps ==
  ASSUME IInv, Network
  PROVE  IInv'
<1> USE DEF IInv, TypeOK, StartedBit, AlwaysTrying, LeaseAnnounced, Wanted, Bit, mainVars
<1>1. CASE JoinOk
  <2>1. events' \in Seq(Event) /\ (Queued("GOT_IP") => Queued("GOT_IP")')
    BY <1>1, PostKeeps DEF JoinOk, Event
  <2>2. QED
    BY <1>1, <2>1 DEF JoinOk
<1>2. CASE LinkLost
  <2>1. /\ events' \in Seq(Event) /\ (Queued("GOT_IP") => Queued("GOT_IP")')
        /\ Queued("STA_DISCONNECTED")'
    BY <1>2, PostKeeps DEF LinkLost, Event, Queued
  <2>2. ReconnectPending'
    BY <2>1 DEF ReconnectPending, Queued
  <2>3. QED
    BY <1>2, <2>1, <2>2 DEF LinkLost
<1>3. CASE DhcpAck
  BY <1>3 DEF DhcpAck, ReconnectPending
<1>4. CASE PostGotIp
  <2>1. /\ events' \in Seq(Event) /\ Queued("GOT_IP")'
        /\ Queued("STA_START") => Queued("STA_START")'
        /\ Queued("STA_DISCONNECTED") => Queued("STA_DISCONNECTED")'
    BY <1>4, PostKeeps DEF PostGotIp, Event, Queued
  <2>2. ReconnectPending => ReconnectPending'
    BY <1>4, <2>1 DEF PostGotIp, ReconnectPending, Queued
  <2>3. QED
    BY <1>4, <2>1, <2>2 DEF PostGotIp
<1>5. QED
  BY <1>1, <1>2, <1>3, <1>4 DEF Network

LEMMA StepIInv == IInv /\ [Next]_vars => IInv'
<1> SUFFICES ASSUME IInv, [Next]_vars PROVE IInv'
  OBVIOUS
<1>1. CASE Main
  BY <1>1, MainKeeps
<1>2. CASE EventTask
  BY <1>2, EventTaskKeeps
<1>3. CASE Network
  BY <1>3, NetworkKeeps
<1>4. CASE UNCHANGED vars
  BY <1>4 DEF vars, IInv, TypeOK, StartedBit, AlwaysTrying, LeaseAnnounced, Wanted,
              ReconnectPending, Queued
<1>5. QED
  BY <1>1, <1>2, <1>3, <1>4 DEF Next

LEMMA Invariance == Spec => []IInv
  BY InitIInv, StepIInv, PTL DEF Spec
------------------------------------------------------------------------------
(***************************************************************************)
(* Every variable keeps its type, and no connection is reported without    *)
(* the sample of its signal strength.                                      *)
(***************************************************************************)
THEOREM TypeCorrect == Spec => []TypeOK
<1>1. IInv => TypeOK
  BY DEF IInv
<1>2. QED
  BY Invariance, <1>1, PTL

(***************************************************************************)
(* A driver that is wanted and idle is on its way to a new attempt, unless *)
(* it failed the last one.                                                 *)
(***************************************************************************)
THEOREM IsAlwaysTrying == Spec => []AlwaysTrying
<1>1. IInv => AlwaysTrying
  BY DEF IInv
<1>2. QED
  BY Invariance, <1>1, PTL

(***************************************************************************)
(* No address is overlooked, in whatever order events are handled.         *)
(***************************************************************************)
THEOREM AddressIsNoticed == Spec => []AddressNoticed
<1>1. IInv => AddressNoticed
  BY DEF IInv, LeaseAnnounced, AddressNoticed, Queued
<1>2. QED
  BY Invariance, <1>1, PTL

(***************************************************************************)
(* WiFi that the main task has stopped stays off, although a late event    *)
(* may still call esp_wifi_connect.                                        *)
(***************************************************************************)
THEOREM StaysOff == Spec => []OffStaysOff
<1>1. IInv => OffStaysOff
  BY DEF IInv, StartedBit, OffStaysOff
<1>2. QED
  BY Invariance, <1>1, PTL
==============================================================================
