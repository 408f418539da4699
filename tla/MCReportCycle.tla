---------------------------- MODULE MCReportCycle ----------------------------
(* ReportCycle with a word of 8, a clock of three instants, and commands of   *)
(* no action, a reboot, two seconds, and half a second.                       *)
EXTENDS ReportCycle

MCResponses ==
  {[action |-> "none"], [action |-> "reboot"]}
    \cup {[action |-> "set_interval", seconds |-> h] : h \in {1, 4}}

\* One sensor with two readings and one with one.
MCFlaky == {"sht30", "probe1"}
==============================================================================
