---------------------------- MODULE MCSendPacing ----------------------------
(* Watermarks a few packets apart. *)
EXTENDS SendPacing
=============================================================================
