------------------------------ MODULE MCCommand ------------------------------
(* Command with a word of 8 and a second of 3 microseconds: intervals up to   *)
(* two seconds fit the timer, longer ones wrap.                               *)
EXTENDS Command

Set(halves) == [action |-> "set_interval", seconds |-> halves]

\* Refused; half a second; one and a half; the longest interval that fits the
\* timer; the shortest that wraps; the longest; out of range of uint32_t.
AllResponses ==
  {[action |-> "none"], [action |-> "reboot"]}
    \cup {Set(h) : h \in {Missing, 0, 1, 3, 5, 6, 2 * Word - 1, 2 * Word}}

\* None of which the conversion to uint32_t is undefined.
ResponsesInRange == AllResponses \ {Set(2 * Word)}
==============================================================================
