------------------------------ MODULE Downlink ------------------------------
(***************************************************************************)
(* The send stage at work on the bundles of successive frames: what the    *)
(* pacing of SendPacing drops and what the network loses are whole packets *)
(* of BundleLayout, and what it queues in SCTP is their bytes.  A packet   *)
(* that was handed over is settled by the network before the next one.     *)
(***************************************************************************)
EXTENDS SendPacing, Sequences

CONSTANTS FrameSizes, PayloadLen, FailedSets, MaxLost

VARIABLES frameSize, failed, packets, next, lost, received

Bundles == INSTANCE BundleLayout

ASSUME BundleAssumption ==
  /\ FrameSizes \subseteq Nat
  /\ PayloadLen \in [Bundles!Channels -> Nat]
  /\ FailedSets \subseteq SUBSET Bundles!Channels
  /\ MaxLost \in Nat

(* MaxPacket is what the heaviest bundle of any frame weighs. *)
ASSUME WeightAssumption ==
  \A size \in FrameSizes, missing \in FailedSets :
    LET sent == Bundles!SendBundled(Bundles!PlanLayout(size), missing)
    IN \A n \in 1 .. Len(sent) : Len(sent[n].body) \in 1 .. MaxPacket

layoutVars == <<frameSize, failed, packets, next, lost, received>>
allVars    == <<pacingVars, layoutVars>>

DownlinkInit == PacingInit /\ Bundles!Init

(* sendLoop takes a packet; while congested the packet is gone. *)
Take == TakePacket /\ next <= Len(packets) /\ UNCHANGED layoutVars

DropCongested ==
  /\ pc = "idle" /\ congested
  /\ Bundles!Lose
  /\ UNCHANGED pacingVars

Weight == Len(packets[next].body)

SendPacket == next <= Len(packets) /\ HandOver(Weight) /\ (Bundles!Deliver \/ Bundles!Lose)

SendError == SendFails /\ Bundles!Lose

Afterwards == (ReadAmount \/ MarkCongested \/ Network \/ OnBufferedAmountLow) /\ UNCHANGED layoutVars

NewFrame == pc = "idle" /\ Bundles!NextFrame /\ UNCHANGED pacingVars

DownlinkNext == Take \/ DropCongested \/ SendPacket \/ SendError \/ Afterwards \/ NewFrame

DownlinkSpec == DownlinkInit /\ [][DownlinkNext]_allVars

-----------------------------------------------------------------------------
(* Losing one packet of a frame, to the network or to pacing, costs one     *)
(* ambisonic order at most, never the base.  (bundle.go)                    *)
OneLossOneOrder == Bundles!OneLossOneOrder

(* What arrives is what was encoded; only what was lost is missing.         *)
(* (bundle.go)                                                              *)
PayloadsExact == Bundles!PayloadsExact
=============================================================================
