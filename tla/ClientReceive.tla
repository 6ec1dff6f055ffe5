---------------------------- MODULE ClientReceive ---------------------------
(***************************************************************************)
(* The client's receive path from the DataChannel to the loudspeaker: what *)
(* FrameAssembly dispatches is what the worklet of Playback writes.        *)
(***************************************************************************)
EXTENDS FrameAssembly, Playback

vars == <<asmVars, playVars>>

TypeOK == AsmTypeOK /\ PlayTypeOK

Init == AsmInit /\ PlayInit

(* A step of the assembly; a frame it dispatches goes to the worklet. *)
Assemble ==
  /\ AsmNext
  /\ IF out' = out THEN UNCHANGED playVars ELSE WriteFrame(out'.ts * FrameSize)

Play == PlayStep /\ UNCHANGED asmVars

Next == Assemble \/ Play

Spec == Init /\ [][Next]_vars

-----------------------------------------------------------------------------
(* The worklet does not check for frames behind its reader; none ever is:   *)
(* a frame is written where the reader has yet to come, whatever it         *)
(* skipped.  Otherwise it would be heard a lap of the ring later.           *)
LandsAhead ==
  [][out' # out /\ initTs >= 0 => out'.ts * FrameSize >= readTs]_vars
=============================================================================
