----------------------------- MODULE ConfigStore -----------------------------
(***************************************************************************)
(* What provisioning promises its users, without saving, handlers or NVS   *)
(* calls: a configuration the device runs with, and for every key the set  *)
(* of values the next boot may find.  A key is settled when that set has   *)
(* one member.  A command is acknowledged only when all its keys are       *)
(* settled on its values, and nothing else changes the running values.     *)
(* Provisioning and Command implement this specification (see there).      *)
(***************************************************************************)
CONSTANTS
  Key,       \* the configuration keys
  Group,     \* the sets of keys one command sets
  Val,       \* the values of the keys
  None,      \* no value is stored
  Void,      \* the values a boot takes as none
  Default    \* the value of each key when none is stored

VARIABLES
  on,        \* the device has booted and still has power
  active,    \* the configuration it runs with
  may        \* the values the next boot may find under each key

vars == <<on, active, may>>

Finds == SUBSET (Val \cup {None})
Loaded(k, v) == IF v \in Void \cup {None} THEN Default[k] ELSE v

Init ==
  /\ on = FALSE
  /\ active \in [Key -> Val]
  /\ may = [k \in Key |-> {None}]

\* A boot runs with the values it finds, but for the keys it cannot read: these
\* get their defaults.  A store that is unusable as a whole is emptied first.
Boot ==
  /\ ~on /\ on' = TRUE
  /\ active' \in [Key -> Val]
  /\ \/ /\ may' = [k \in Key |-> {None}]
        /\ active' = Default
     \/ /\ \A k \in Key :
             \/ active'[k] = Default[k]
             \/ \E v \in may[k] : may[k] = {v} /\ active'[k] = Loaded(k, v)
        /\ UNCHANGED may

\* A key of one command starts to change: a boot may find either value.
Attempt ==
  /\ on
  /\ UNCHANGED <<on, active>>
  /\ \E k \in UNION Group :
       /\ \E v \in Val : may'[k] = may[k] \cup {v}
       /\ may' = [may EXCEPT ![k] = may'[k]]

\* What may be found narrows.
Settle ==
  /\ on
  /\ may' \in [Key -> Finds]
  /\ \A k \in Key : may'[k] # {} /\ may'[k] \subseteq may[k]
  /\ UNCHANGED <<on, active>>

\* The ack: every key of the command is settled on the value now running, and
\* the other commands' keys keep theirs.
Ack ==
  /\ on
  /\ active' \in [Key -> Val]
  /\ \E g \in Group :
       /\ \A k \in g : may[k] = {active'[k]}
       /\ \A k \in Key \ g : active'[k] = active[k]
  /\ UNCHANGED <<on, may>>

\* Power is lost, or the device sleeps: every key is left with one value.
Off ==
  /\ on /\ on' = FALSE
  /\ active' \in [Key -> Val]
  /\ may' \in [Key -> Finds]
  /\ \A k \in Key : \E v \in may[k] : may'[k] = {v}

Next == Boot \/ Attempt \/ Settle \/ Ack \/ Off

Spec == Init /\ [][Next]_vars
==============================================================================
