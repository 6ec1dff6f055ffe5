----------------------------- MODULE MCDownlink -----------------------------
(* Every valid frame size; no failure, one failed channel, or the base;     *)
(* watermarks about one packet apart.                                       *)
EXTENDS Downlink

ValidFrameSizes == {120, 240, 480, 960, 1920, 2880}
UnevenLengths   == [c \in 0 .. 15 |-> 1 + (c % 2)]
FewFailures     == {{}, {0, 1, 2, 3}, {8}, {15}}
=============================================================================
