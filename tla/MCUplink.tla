------------------------------ MODULE MCUplink ------------------------------
(* Channel 0 plays the base order and travels in both bundles of a frame. *)
EXTENDS Uplink

TwoCopies == <<{0, 1}, {0}>>
BaseTwice == <<{0, 1}, {0, 2}>>
=============================================================================
