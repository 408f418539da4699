------------------------------- MODULE Serial -------------------------------
(***************************************************************************)
(* The serial port of a whole boot (main/provisioning.c): the loop that    *)
(* reads lines (ProvisionWindow) and the handlers that save what a line    *)
(* asks for (Provisioning).  The loop stands still while a handler runs,   *)
(* and starts anew with the next window.  Which command a line carries is  *)
(* free: a tail of a line may be one, behind blanks or anything else.      *)
(***************************************************************************)
EXTENDS Provisioning

CONSTANTS LineMax, IdleTicks, MaxTicks, PollTicks, HandleTicks, HostMax

VARIABLES turn, line, now, last_activity, clock, sent, heard

Window == INSTANCE ProvisionWindow WITH pc <- turn

loop == <<turn, line, now, last_activity, clock, sent, heard>>
serialVars == <<vars, loop>>

SerialInit == Init /\ Window!Init

\* The locals of Provision_RunWindow exist only in a window.
NoWindow ==
  /\ turn' = "read" /\ line' = <<>>
  /\ now' = 0 /\ last_activity' = 0 /\ clock' = 0 /\ sent' = 0 /\ heard' = 0

\* A turn of the loop in which no line is complete.
Provision_RunWindow ==
  /\ pc = "window"
  /\ Window!ReadByte \/ Window!ReadNewline \/ Window!ReadNothing \/ Window!Check
  /\ UNCHANGED vars

\* prov_handle_line, up to the ack after which the loop goes on.
prov_handle_line ==
  /\ turn = "handle"
  /\ \/ (\E r \in Requests : RefuseLine(r)) \/ NvsFail \/ Apply
     \/ (\E r \in Requests : AcceptLine(r)) \/ NvsOpen \/ NvsSet \/ NvsCommit
  /\ IF pc' = "window" THEN Window!HandleLine ELSE UNCHANGED loop

WindowCloses == turn = "closed" /\ CloseWindow /\ NoWindow

OutsideWindow ==
  /\ \/ \E lost \in SUBSET Keys : Boot(lost)
     \/ BootErased \/ OpenWindow \/ UartAbort \/ SleepOrRestart \/ PowerLoss
  /\ NoWindow

SerialNext == Provision_RunWindow \/ prov_handle_line \/ WindowCloses \/ OutsideWindow

SerialSpec == SerialInit /\ [][SerialNext]_serialVars
-----------------------------------------------------------------------------
\* README.md:26: a provisioned value "takes priority over the menuconfig default
\* on every subsequent boot".  A failed nvs_get_* leaves the default.
ProvisionedHasPriority ==
  \A k \in Keys : nvs[k] # Missing /\ unacked[k] = Missing => ram[k] = promised[k]

\* README.md:26, "until re-provisioned": a command that failed in this boot changes
\* nothing in the store.  The keys saved before the failing call stay.
FailedSaveKeepsStore ==
  reply = "c2" =>
    \A k \in Keys : inherited[k] = Missing => Effective(nvs)[k] = promised[k]

\* provisioning.c:447, on a line that is too long: "drop it rather than overflow,
\* and resync on the next newline".  Its tail is handled as a line.
OnlyWholeLinesHandled == turn = "handle" => Len(line) = sent

(***************************************************************************)
(* The property asks only that in the window one of these three statements *)
(* holds, so a state that violates it is a counterexample to each of them. *)
(***************************************************************************)
SerialAsDocumented ==
  pc = "window" =>
    ProvisionedHasPriority \/ FailedSaveKeepsStore \/ OnlyWholeLinesHandled
=============================================================================
