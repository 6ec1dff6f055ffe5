---------------------------- MODULE UplinkFrames ----------------------------
(***************************************************************************)
(* What the two ends of an uplink agree on: the channels, how a frame is   *)
(* split into packets, and the frames a client captures, by number.        *)
(***************************************************************************)
EXTENDS Integers, Sequences, FiniteSets

CONSTANTS
  Channels,     (* channel indices                                         *)
  Layout,       (* PlanLayout: the channel set of each bundle of a frame   *)
  MaxFrames     (* bound on the captured frames                            *)

ASSUME FramesAssumption ==
  /\ Channels \subseteq Nat /\ IsFiniteSet(Channels) /\ Cardinality(Channels) > 1
  /\ Layout \in Seq(SUBSET Channels)
  /\ MaxFrames \in Nat

Frame == 1 .. MaxFrames

(* A packet on the wire: which bundle of which frame, and the channels that *)
(* had a payload.                                                           *)
Packet == [frame : Frame, group : DOMAIN Layout, chans : SUBSET Channels]
=============================================================================
