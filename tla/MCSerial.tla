------------------------------ MODULE MCSerial ------------------------------
(* Serial with two commands and a buffer of one byte and the NUL. *)
EXTENDS Serial

CONSTANTS a, d

MCText == {a, d}
MCFactoryText == [k \in Keys \ {"http_port"} |-> d]
MCRequests ==
  {[cmd |-> c, arg |-> [k \in Group[c] |-> a]] : c \in {"SetupWifi", "SetupDevice"}}

\* Bounds: a boot reads every key but one at most; flash takes what an nvs_set_*
\* accepted, and nothing of one that fails.
OneUnread == \E k \in Keys : unread' \subseteq {k}
FailedSetWritesNothing ==
  pc = "set" /\ pc' = "window" =>
    LET k == KeyOrder[req.cmd][written + 1] IN nvs'[k] = nvs[k]
Bounded == OneUnread /\ FailedSetWritesNothing
=============================================================================
