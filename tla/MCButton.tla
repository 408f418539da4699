------------------------------ MODULE MCButton ------------------------------
(* Two ticks of chatter, none to two of debouncing, three of beep: a delay    *)
(* ends inside the chatter, with it or after it, and edges fall at the start, *)
(* inside and at the end of each.                                             *)
EXTENDS Button
=============================================================================
