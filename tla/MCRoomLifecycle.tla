-------------------------- MODULE MCRoomLifecycle --------------------------
(* Two sessions that share a room name; a Room object for each of them.     *)
(* Only the first has a goroutine beside statsLoop: those return on their   *)
(* own and differ in nothing this module sees.                              *)
EXTENDS RoomLifecycle, TLC

CONSTANTS s1, s2, i1, i2, a

TwoSessions == {s1, s2}
SharedRoom  == s1 :> a @@ s2 :> a
OneWorker   == s1 :> 1 @@ s2 :> 0
=============================================================================
