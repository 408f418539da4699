--------------------------- MODULE MCProvisioning ---------------------------
(* A small instance of Provisioning: one new value of every text, and for    *)
(* each handler inputs on both sides of every check, one field at a time.    *)
EXTENDS Provisioning, FiniteSets

CONSTANTS a, d

MCText == {a, d}
MCFactoryText == [k \in Keys \ {"http_port"} |->
                    IF k = "wifi_type" THEN Empty ELSE d]

WifiRequests ==
  [cmd : {"SetupWifi"},
   arg : {[k \in Group["SetupWifi"] |-> CASE k = "wifi_ssid" -> f[1]
                                          [] k = "wifi_pass" -> f[2]
                                          [] OTHER           -> f[3]] :
          f \in ({a} \X {Absent, TooLong} \X {Empty}) \cup ({Empty, TooLong} \X {a} \X {a})
                 \cup {<<a, a, Absent>>}}]

ServerRequests ==
  [cmd : {"SetupServer"},
   arg : {[k \in Group["SetupServer"] |-> IF k = "http_host" THEN f[1] ELSE f[2]] :
          f \in ({a} \X {0, 1, 3, 2 * MaxPort + 1, 2 * MaxPort + 2, Absent})
                 \cup {<<Absent, 3>>}}]

DeviceRequests ==
  [cmd : {"SetupDevice"}, arg : [{"sn"} -> {a, TooLong, Absent}]]

\* Bound: a boot reads every stored key, or all but one, or none.
FewUnread ==
  \/ unread' \subseteq unread
  \/ Cardinality(unread') = 1
  \/ unread' = {k \in Keys : nvs[k] # Missing}

AllRequests == WifiRequests \cup ServerRequests \cup DeviceRequests
=============================================================================
