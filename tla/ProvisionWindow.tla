--------------------------- MODULE ProvisionWindow ---------------------------
(***************************************************************************)
(* Provision_RunWindow (main/provisioning.c): the loop that assembles      *)
(* lines from UART bytes, hands each to prov_handle_line, and closes the   *)
(* window after a silence or at a hard cap.                                *)
(*                                                                         *)
(* A byte is its position in the line the host is sending (1, 2, ...), so  *)
(* the buffer shows which part of which line it holds.  Time is in ticks   *)
(* from the opening of the window; `clock' is the time, `now' the copy the *)
(* loop took after uart_read_bytes and compares after the handler has run. *)
(***************************************************************************)
EXTENDS Naturals, Sequences

CONSTANTS
  LineMax,       \* sizeof(line): 256 in the code
  IdleTicks,     \* idle_timeout_ms
  MaxTicks,      \* max_total_ms
  PollTicks,     \* how long uart_read_bytes waits for a byte
  HandleTicks,   \* the longest prov_handle_line takes
  HostMax        \* bound: the longest line the host sends

ASSUME SizesAssumption == LineMax \in Nat \ {0} /\ HostMax \in Nat
ASSUME TicksAssumption ==
  /\ IdleTicks \in Nat /\ MaxTicks \in Nat \ {0}
  /\ PollTicks \in Nat \ {0} /\ HandleTicks \in Nat

VARIABLES
  pc,            \* "read", "handle", "check" or "closed"
  line,          \* the bytes in line[0 .. line_len-1]
  now,           \* xTaskGetTickCount() of this turn of the loop
  last_activity, \* the turn that read the last byte
  clock,         \* the time
  \* History, read by no action.
  sent,          \* bytes of the host's current line read so far
  heard          \* when the last byte of any kind was read

vars == <<pc, line, now, last_activity, clock, sent, heard>>

TypeOK ==
  /\ pc \in {"read", "handle", "check", "closed"}
  /\ line \in Seq(Nat)
  /\ now \in Nat /\ last_activity \in Nat /\ clock \in Nat
  /\ last_activity <= now /\ now <= clock
  /\ sent \in 0..HostMax
  /\ heard \in 0..now

Init ==
  /\ pc = "read"
  /\ line = <<>>
  /\ now = 0 /\ last_activity = 0 /\ clock = 0
  /\ sent = 0 /\ heard = 0

\* uart_read_bytes returns after t ticks, with a byte or without.
Wait(t) ==
  /\ pc = "read"
  /\ clock' = clock + t
  /\ now' = clock'

\* Mutant of ReadByte: the last byte of the buffer is used too.
ReadByteFull ==
  /\ \E t \in 0..PollTicks : Wait(t)
  /\ sent < HostMax
  /\ sent' = sent + 1
  /\ line' = IF Len(line) < LineMax THEN Append(line, sent') ELSE <<>>
  /\ last_activity' = now' /\ heard' = now'
  /\ pc' = "check"

\* Mutant of ReadByte: only a newline counts as activity.
ReadByteQuietly ==
  /\ \E t \in 0..PollTicks : Wait(t)
  /\ sent < HostMax
  /\ sent' = sent + 1
  /\ line' = IF Len(line) < LineMax - 1 THEN Append(line, sent') ELSE <<>>
  /\ heard' = now'
  /\ pc' = "check"
  /\ UNCHANGED last_activity

\* A byte of the host's line: stored, or, when the buffer is full, dropped
\* together with everything in the buffer.
ReadByte ==
  /\ \E t \in 0..PollTicks : Wait(t)
  /\ sent < HostMax
  /\ sent' = sent + 1
  /\ line' = IF Len(line) < LineMax - 1 THEN Append(line, sent') ELSE <<>>
  /\ last_activity' = now' /\ heard' = now'
  /\ pc' = "check"

\* CR or LF: a blank line is skipped, any other is handled.
ReadNewline ==
  /\ \E t \in 0..PollTicks : Wait(t)
  /\ last_activity' = now' /\ heard' = now'
  /\ IF line = <<>>
     THEN pc' = "check" /\ sent' = 0
     ELSE pc' = "handle" /\ UNCHANGED sent
  /\ UNCHANGED line

\* No byte within the 200 ms.
ReadNothing ==
  /\ Wait(PollTicks)
  /\ pc' = "check"
  /\ UNCHANGED <<line, last_activity, sent, heard>>

\* Mutant of HandleLine: line_len is not reset.
HandleLineKeeps ==
  /\ pc = "handle"
  /\ \E t \in 0..HandleTicks : clock' = clock + t
  /\ sent' = 0
  /\ pc' = "check"
  /\ UNCHANGED <<line, now, last_activity, heard>>

\* Mutant of HandleLine: the activity is stamped after the handler, so that
\* now - last_activity underflows.
HandleLineStamps ==
  /\ pc = "handle"
  /\ \E t \in 0..HandleTicks : clock' = clock + t
  /\ last_activity' = clock'
  /\ line' = <<>>
  /\ sent' = 0
  /\ pc' = "check"
  /\ UNCHANGED <<now, heard>>

\* prov_handle_line(line) takes its time; then line_len = 0.
HandleLine ==
  /\ pc = "handle"
  /\ \E t \in 0..HandleTicks : clock' = clock + t
  /\ line' = <<>>
  /\ sent' = 0
  /\ pc' = "check"
  /\ UNCHANGED <<now, last_activity, heard>>

\* Mutant of TimedOut: no hard cap.
IdleOnly == now - last_activity >= IdleTicks

TimedOut == now - last_activity >= IdleTicks \/ now >= MaxTicks

Check ==
  /\ pc = "check"
  /\ pc' = IF TimedOut THEN "closed" ELSE "read"
  /\ UNCHANGED <<line, now, last_activity, clock, sent, heard>>

Next == ReadByte \/ ReadNewline \/ ReadNothing \/ HandleLine \/ Check

Spec == Init /\ [][Next]_vars

------------------------------------------------------------------------------
(***************************************************************************)
(* The buffer never mixes lines: it holds the most recent bytes of the     *)
(* line being sent, in order, and always leaves room for the NUL that      *)
(* line[line_len] = '\0' writes.                                           *)
(***************************************************************************)
BufferHoldsTail ==
  /\ Len(line) <= LineMax - 1
  /\ Len(line) <= sent
  /\ \A i \in 1..Len(line) : line[i] = sent - Len(line) + i

(***************************************************************************)
(* A line that fits the buffer reaches prov_handle_line whole, whatever    *)
(* was sent before it: after an overlong line the reader is in step again  *)
(* at the next newline.                                                    *)
(***************************************************************************)
ShortLinesWhole ==
  sent < LineMax => Len(line) = sent

(***************************************************************************)
(* provisioning.h: "Hard cap on the window's total duration regardless of  *)
(* activity".  The comparison comes after the handler but uses the time    *)
(* from before it, so the window may outlive the cap by one wait and two   *)
(* handlers, and never by more.                                            *)
(***************************************************************************)
HardCap == clock < MaxTicks + PollTicks + 2 * HandleTicks

(***************************************************************************)
(* A host that is still sending is not cut off: until the cap is reached,  *)
(* the window closes only when nothing has been read for IdleTicks.        *)
(***************************************************************************)
ActiveHostKeepsWindow ==
  [][pc' = "closed" /\ clock < MaxTicks => clock - heard >= IdleTicks]_vars
==============================================================================
