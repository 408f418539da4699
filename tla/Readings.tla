------------------------------ MODULE Readings ------------------------------
(***************************************************************************)
(* What one call of Sensors_Data_Update (main/main.c) puts in the queue:   *)
(* the contract between the sensors (module Sampling) and the report       *)
(* (module ReportCycle).                                                   *)
(***************************************************************************)
EXTENDS Naturals, Sequences

\* The sensors that may be left out of a report.
Sensors == {"sht30", "light", "probe1", "probe2"}

\* What a sensor adds: nothing, or a reading for each of its numbers.
Given(sensor, nums, failed, t) ==
  IF sensor \in failed THEN <<>> ELSE [i \in 1..Len(nums) |-> [num |-> nums[i], ts |-> t]]

\* Mutant of Sampled: the battery keeps the number sMsg was initialised with.
SampledUnnumbered(failed, t) ==
  Given("sht30", <<1, 2>>, failed, t) \o Given("light", <<3>>, failed, t)
    \o <<[num |-> 0, ts |-> t]>>
    \o Given("probe1", <<6>>, failed, t) \o Given("probe2", <<7>>, failed, t)

\* One time stamp for all; a sensor that fails is left out, the battery never is.
Sampled(failed, t) ==
  Given("sht30", <<1, 2>>, failed, t) \o Given("light", <<3>>, failed, t)
    \o <<[num |-> 4, ts |-> t]>>
    \o Given("probe1", <<6>>, failed, t) \o Given("probe2", <<7>>, failed, t)
=============================================================================
