----------------------------- MODULE MCSampling -----------------------------
(* Two worlds, in which every raw value is another one, a probe below zero in *)
(* each; a byte may change to 0, to 255, or to a byte of a probe.             *)
EXTENDS Sampling

B(n) == {i \in Bits : (n \div 2^i) % 2 = 1}

MCWorlds ==
  {[temp |-> <<B(190), B(239)>>, humi |-> <<B(102), B(102)>>, lux |-> 7, mv |-> 3,
    probe |-> <<<<B(33), B(253)>>, <<B(145), B(1)>>>>],
   [temp |-> <<{}, {}>>, humi |-> <<Bits, Bits>>, lux |-> 0, mv |-> 1,
    probe |-> <<<<B(208), B(7)>>, <<{}, B(255)>>>>]}

\* A third world, all zero for the SHT30.
MCZeroWorlds ==
  {[temp |-> <<{}, {}>>, humi |-> <<{}, {}>>, lux |-> 7, mv |-> 3,
    probe |-> <<<<B(33), B(253)>>, <<B(145), B(1)>>>>]}

MCNoise == {{}, Bits, B(145)}
MCPowerUp == <<B(80), B(5)>>      \* 85 degrees
=============================================================================
