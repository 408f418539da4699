---------------------------- MODULE MCWifiConnect ----------------------------
(* One boot of WifiConnect.  The protocol between the tasks bounds the queue, *)
(* so the state space is finite without a bound of ours.                      *)
EXTENDS WifiConnect
==============================================================================
