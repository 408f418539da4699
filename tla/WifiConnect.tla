----------------------------- MODULE WifiConnect -----------------------------
(***************************************************************************)
(* The WiFi connection of one boot (app_driver/net/wifi_connect.c): the    *)
(* main task in WiFi_Connect and WiFi_Disconnect, the event loop task in   *)
(* event_handler, and between them the bits of Nets_Group.  The driver,    *)
(* the access point, lwIP's DHCP client and the event loop's queue are     *)
(* external, modelled by the calls and events of esp_wifi.h the code uses. *)
(***************************************************************************)
EXTENDS Naturals, Sequences

VARIABLES
  main,          \* where the main task is
  result,        \* what WiFi_Connect returned: "none" before
  bits,          \* Nets_Group
  task,          \* the event loop task: "idle", or inside event_handler
  events,        \* the event loop's queue
  driver,        \* "none", "stopped", "idle", "joining" or "joined"
  lease,         \* DHCP: "none", "asking", "acked" (event not yet posted), "bound"
  rssi,          \* the RSSI sample: "none", "measured" or "garbage"
  attempt        \* history: how the driver took the last call to connect it

vars == <<main, result, bits, task, events, driver, lease, rssi, attempt>>
mainVars == <<main, result, rssi>>
radio == <<driver, lease, attempt>>

Bit == {"CONNECTED", "WIFI_S_I", "WIFI_I", "WIFI_S"}
Event == {"STA_START", "STA_STOP", "STA_CONNECTED", "STA_DISCONNECTED", "GOT_IP"}

TypeOK ==
  /\ main \in {"init", "configure", "start", "started", "wait", "sample", "work",
               "disconnect", "check", "stop", "done", "aborted"}
  /\ result \in {"none", "SUCCESS", "FAILURE"}
  /\ bits \subseteq Bit
  /\ task \in {"idle", "check", "connect"}
  /\ events \in Seq(Event)
  /\ driver \in {"none", "stopped", "idle", "joining", "joined"}
  /\ lease \in {"none", "asking", "acked", "bound"}
  /\ rssi \in {"none", "measured", "garbage"}
  /\ attempt \in {"accepted", "refused"}
  /\ result = "SUCCESS" => rssi # "none"

Init ==
  /\ main = "init" /\ result = "none" /\ rssi = "none"
  /\ bits = {}
  /\ task = "idle" /\ events = <<>>
  /\ driver = "none" /\ lease = "none" /\ attempt = "accepted"

Awake == main \notin {"done", "aborted"}
-----------------------------------------------------------------------------
(* The main task. *)

\* WiFi_Init, once per boot: the bits around it record that it ran.
WiFi_Init ==
  /\ main = "init"
  /\ bits' = bits \cup {"WIFI_S_I", "WIFI_I"}
  /\ driver' = "stopped"
  /\ main' = "configure"
  /\ UNCHANGED <<result, task, events, lease, rssi, attempt>>

\* ESP_ERROR_CHECK on any call of WiFi_Init or WiFi_Connect: the chip restarts.
Abort ==
  /\ main \in {"init", "configure", "start"}
  /\ main' = "aborted"
  /\ UNCHANGED <<result, bits, task, events, radio, rssi>>

\* WIFI_S is set before the driver is configured and started.
Configure ==
  /\ main = "configure"
  /\ bits' = bits \cup {"WIFI_S"}
  /\ main' = "start"
  /\ UNCHANGED <<result, task, events, radio, rssi>>

EspWifiStart ==
  /\ main = "start"
  /\ driver' = "idle"
  /\ events' = Append(events, "STA_START")
  /\ main' = "started"
  /\ UNCHANGED <<result, bits, task, lease, rssi, attempt>>

\* xEventGroupWaitBits returns at once if the bit is there already.
WaitBits ==
  /\ main = "started"
  /\ main' = IF "CONNECTED" \in bits THEN "sample" ELSE "wait"
  /\ UNCHANGED <<result, bits, task, events, radio, rssi>>

\* Mutant of WaitTimeout: the result of the wait is not looked at.
WaitTimeoutIsSuccess ==
  /\ main = "wait"
  /\ "CONNECTED" \notin bits
  /\ result' = "SUCCESS"
  /\ main' = "work"
  /\ UNCHANGED <<bits, task, events, radio, rssi>>

\* Mutant of WaitTimeout: portMAX_DELAY.
WaitForever == FALSE /\ UNCHANGED vars

\* It gives up after 30 s.
WaitTimeout ==
  /\ main = "wait"
  /\ "CONNECTED" \notin bits
  /\ result' = "FAILURE"
  /\ main' = "disconnect"
  /\ UNCHANGED <<bits, task, events, radio, rssi>>

\* esp_wifi_sta_get_ap_info fills wifidata_t only while the station is joined;
\* its result is not checked, and wifidata_t is an uninitialised local.
SampleRssi ==
  /\ main = "sample"
  /\ rssi' \in IF driver = "joined" THEN {"measured"} ELSE {"garbage", "measured"}
  /\ result' = "SUCCESS"
  /\ main' = "work"
  /\ UNCHANGED <<bits, task, events, radio>>

\* The requests of Main_Task, then WiFi_Disconnect.
FinishWork ==
  /\ main = "work"
  /\ main' = "disconnect"
  /\ UNCHANGED <<result, bits, task, events, radio, rssi>>

\* What leaving the network posts.
Leave == IF driver \in {"joining", "joined"} THEN <<"STA_DISCONNECTED">> ELSE <<>>

\* Mutant of EspWifiDisconnect: WiFi_Disconnect does not stop the driver.
EspWifiDisconnectOnly ==
  /\ main = "disconnect"
  /\ driver' = "idle"
  /\ events' = events \o Leave
  /\ main' = "done"
  /\ UNCHANGED <<result, bits, task, lease, rssi, attempt>>

EspWifiDisconnect ==
  /\ main = "disconnect"
  /\ driver' = "idle"
  /\ events' = events \o Leave
  /\ main' = "check"
  /\ UNCHANGED <<result, bits, task, lease, rssi, attempt>>

\* WiFi_Stop: the bit first, then the driver.
WiFi_Stop ==
  /\ main = "check"
  /\ "WIFI_S" \in bits
  /\ bits' = bits \ {"WIFI_S"}
  /\ main' = "stop"
  /\ UNCHANGED <<result, task, events, radio, rssi>>

EspWifiStop ==
  /\ main = "stop"
  /\ driver' = "stopped"
  /\ events' = events \o Leave \o <<"STA_STOP">>
  /\ main' = "done"
  /\ UNCHANGED <<result, bits, task, lease, rssi, attempt>>

Main ==
  \/ WiFi_Init \/ Abort \/ Configure \/ EspWifiStart \/ WaitBits \/ WaitTimeout
  \/ SampleRssi \/ FinishWork \/ EspWifiDisconnect \/ WiFi_Stop \/ EspWifiStop
-----------------------------------------------------------------------------
(***************************************************************************)
(* The event loop task.  event_handler's look at WIFI_S and its call of    *)
(* esp_wifi_connect are two steps: the call blocks on the driver's task,   *)
(* and the main task runs meanwhile.  esp_netif's own handlers, which run  *)
(* before event_handler, start and stop DHCP.                              *)
(***************************************************************************)
Take(e) ==
  /\ task = "idle"
  /\ events # <<>> /\ Head(events) = e
  /\ events' = Tail(events)

OnStart ==
  /\ Take("STA_START")
  /\ task' = "connect"
  /\ UNCHANGED <<mainVars, bits, radio>>

OnConnected ==
  /\ Take("STA_CONNECTED")
  /\ lease' = "asking"
  /\ UNCHANGED <<mainVars, bits, task, driver, attempt>>

OnDisconnected ==
  /\ Take("STA_DISCONNECTED")
  /\ lease' = "none"
  /\ bits' = bits \ {"CONNECTED"}
  /\ task' = "check"
  /\ UNCHANGED <<mainVars, driver, attempt>>

\* Mutant of OnGotIp: the bit is set only for a task that waits already.
OnGotIpIfWaiting ==
  /\ Take("GOT_IP")
  /\ bits' = IF main = "wait" THEN bits \cup {"CONNECTED"} ELSE bits
  /\ main' = IF main = "wait" THEN "sample" ELSE main
  /\ UNCHANGED <<result, task, radio, rssi>>

\* Setting the bit wakes the main task with the bits of this moment.
OnGotIp ==
  /\ Take("GOT_IP")
  /\ bits' = bits \cup {"CONNECTED"}
  /\ main' = IF main = "wait" THEN "sample" ELSE main
  /\ UNCHANGED <<result, task, radio, rssi>>

OnOther ==
  /\ Take("STA_STOP")
  /\ UNCHANGED <<mainVars, bits, task, radio>>

\* Mutant of CheckStarted: it reconnects only what was connected.
CheckConnected ==
  /\ task = "check"
  /\ task' = IF "CONNECTED" \in bits THEN "connect" ELSE "idle"
  /\ UNCHANGED <<mainVars, bits, events, radio>>

CheckStarted ==
  /\ task = "check"
  /\ task' = IF "WIFI_S" \in bits THEN "connect" ELSE "idle"
  /\ UNCHANGED <<mainVars, bits, events, radio>>

\* The driver refuses to connect unless it is started and not yet connecting,
\* and may fail even then: nobody looks at the result, and no event follows.
EspWifiConnect ==
  /\ task = "connect"
  /\ task' = "idle"
  /\ \/ driver = "idle" /\ driver' = "joining" /\ attempt' = "accepted"
     \/ driver = "idle" /\ attempt' = "refused" /\ UNCHANGED driver
     \/ driver # "idle" /\ UNCHANGED <<driver, attempt>>
  /\ UNCHANGED <<mainVars, bits, events, lease>>

EventTask ==
  OnStart \/ OnConnected \/ OnDisconnected \/ OnGotIp \/ OnOther
    \/ CheckStarted \/ EspWifiConnect
-----------------------------------------------------------------------------
(* The driver and the network. *)

JoinOk ==
  /\ driver = "joining"
  /\ driver' = "joined"
  /\ events' = Append(events, "STA_CONNECTED")
  /\ UNCHANGED <<mainVars, bits, task, lease, attempt>>

\* The access point refuses, is not found, or goes away.
LinkLost ==
  /\ driver \in {"joining", "joined"}
  /\ driver' = "idle"
  /\ events' = Append(events, "STA_DISCONNECTED")
  /\ UNCHANGED <<mainVars, bits, task, lease, attempt>>

\* The answer of the DHCP server arrives over the link ...
DhcpAck ==
  /\ lease = "asking" /\ driver = "joined"
  /\ lease' = "acked"
  /\ UNCHANGED <<mainVars, bits, task, events, driver, attempt>>

\* ... and lwIP's thread posts the event some time later.
PostGotIp ==
  /\ lease = "acked"
  /\ lease' = "bound"
  /\ events' = Append(events, "GOT_IP")
  /\ UNCHANGED <<mainVars, bits, task, driver, attempt>>

Network == JoinOk \/ LinkLost \/ DhcpAck \/ PostGotIp

Next == Main \/ (main # "aborted" /\ (EventTask \/ Network))

Spec == Init /\ [][Next]_vars

\* Both tasks are scheduled and the 30 s timer fires; nothing is assumed of
\* the network.
FairSpec == Spec /\ WF_vars(Main) /\ WF_vars(EventTask)
-----------------------------------------------------------------------------
(***************************************************************************)
(* A dropped link is never forgotten: as long as WiFi is wanted, a driver  *)
(* that is neither joined nor joining has an event or a call of the event  *)
(* task on its way to it, unless it failed the last such call: then, as    *)
(* event_handler ignores the result, it may stay idle until the 30 s end.  *)
(***************************************************************************)
Wanted == main \in {"started", "wait", "sample", "work"}
ReconnectPending == task # "idle" \/ \E i \in 1..Len(events) :
                                       events[i] \in {"STA_START", "STA_DISCONNECTED"}

AlwaysTrying == Wanted /\ driver = "idle" /\ attempt # "refused" => ReconnectPending

(***************************************************************************)
(* An address is never overlooked: while the link that got it lasts, the   *)
(* CONNECTED bit is set or the event that sets it is still queued, even if *)
(* an older disconnection is handled after the address was assigned.       *)
(***************************************************************************)
AddressNoticed ==
  Wanted /\ driver = "joined" /\ lease = "bound" =>
    \/ "CONNECTED" \in bits
    \/ \E i \in 1..Len(events) : events[i] = "GOT_IP"

(***************************************************************************)
(* WiFi stays off: after WiFi_Disconnect has returned, no late event makes *)
(* the handler bring the driver up again before the chip sleeps, although  *)
(* esp_wifi_disconnect itself provokes a reconnection.                     *)
(***************************************************************************)
OffStaysOff == main = "done" => driver = "stopped" /\ "WIFI_S" \notin bits

(***************************************************************************)
(* Whatever the network does, the main task gets through to the point      *)
(* where it sleeps (or the chip restarts): no wait is without an end.      *)
(***************************************************************************)
MainGetsThrough == <>(main \in {"done", "aborted"})
=============================================================================
