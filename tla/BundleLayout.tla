---------------------------- MODULE BundleLayout ----------------------------
(***************************************************************************)
(* The packetization of one frame (mcu/internal/proto/bundle.go, mirrored  *)
(* by client/bundle.js): which channels travel in which packet, what a     *)
(* packet weighs, and what the far end still has when the network loses    *)
(* some.  The payload of channel c is known by c; an encoder that failed   *)
(* leaves its channel out.  What reaches the receiver is a union, so the   *)
(* packets are settled in the order they were sent.                        *)
(***************************************************************************)
EXTENDS Integers, Sequences, FiniteSets, SequencesExt

CONSTANTS
  FrameSizes,   (* ValidFrameSizes                                         *)
  PayloadLen,   (* the size of each channel's payload, in bytes            *)
  FailedSets,   (* the sets of channels whose encode fails together        *)
  MaxLost       (* bound on the packets of the frame the network loses     *)

Channels         == 0 .. 15

SampleRate       == 48000
BitRate          == 64000
MTUChannelBudget == 1130

(* Bytes a channel takes at a constant bitrate. *)
PayloadBytes(bitrate, frameSize) == (bitrate * frameSize) \div (SampleRate * 8)

Base   == <<0, 1, 2, 3>>
Order2 == <<4, 5, 6, 7, 8>>
Order3 == <<9, 10, 11, 12, 13, 14, 15>>

Clamp(v, lo, hi) == IF v < lo THEN lo ELSE IF v > hi THEN hi ELSE v

(* How many channels fit the budget at the reference bitrate. *)
MaxChannelsPerPacket(frameSize) ==
  LET ref == Clamp(PayloadBytes(BitRate, frameSize), 1, MTUChannelBudget)
  IN Clamp(MTUChannelBudget \div ref, 1, 16)

(* The runs of at most m consecutive members of s. *)
Chunk(s, m) ==
  [g \in 1 .. (Len(s) + m - 1) \div m |->
     SubSeq(s, (g - 1) * m + 1, IF g * m < Len(s) THEN g * m ELSE Len(s))]

(* Deviation: the base travels once. *)
PlanLayout_BaseOnce(frameSize) ==
  LET m == MaxChannelsPerPacket(frameSize)
  IN IF Len(Base \o Order2) <= m
       THEN <<Base \o Order2, Order3>>
       ELSE Chunk(Base, m) \o Chunk(Order2, m) \o Chunk(Order3, m)

(* Two packets that both carry the base, or groups of one order each, base  *)
(* first and last.                                                          *)
PlanLayout(frameSize) ==
  LET m == MaxChannelsPerPacket(frameSize)
  IN IF Len(Base \o Order2) <= m /\ Len(Base \o Order3) <= m
       THEN <<Base \o Order2, Base \o Order3>>
       ELSE Chunk(Base, m) \o Chunk(Order2, m) \o Chunk(Order3, m) \o Chunk(Base, m)

-----------------------------------------------------------------------------
(* MarshalBundle and ParseBundle.  The channels of a packet are in          *)
(* ascending order, the lengths of all but the last travel in the header,   *)
(* the last payload is what is left.                                        *)
Payload(c) == [b \in 1 .. PayloadLen[c] |-> c]

(* The members of a set of channels, as the loop over the mask finds them.  *)
Ascending(chans) ==
  LET idxs[n \in 0 .. 16] ==
        IF n = 0 THEN <<>>
        ELSE IF n - 1 \in chans THEN Append(idxs[n - 1], n - 1) ELSE idxs[n - 1]
  IN idxs[16]

(* The payloads of the channels, one after the other. *)
Joined(sorted) ==
  LET body[n \in 0 .. Len(sorted)] ==
        IF n = 0 THEN <<>> ELSE body[n - 1] \o Payload(sorted[n])
  IN body[Len(sorted)]

(* Where each of the lengths ends, and what they add up to. *)
Ends(lengths) ==
  LET end[n \in 0 .. Len(lengths)] == IF n = 0 THEN 0 ELSE end[n - 1] + lengths[n]
  IN end

Total(lengths) == Ends(lengths)[Len(lengths)]

MarshalBundle(chans) ==
  LET sorted == Ascending(chans)
  IN [mask    |-> chans,
      lengths |-> [n \in 1 .. Len(sorted) - 1 |-> Len(Payload(sorted[n]))],
      body    |-> Joined(sorted)]

(* The length of each payload, the last one implied; in the deviation the   *)
(* implied one is short.                                                    *)
Lengths_Short(pkt) == Append(pkt.lengths, Len(pkt.body) - Total(pkt.lengths) - 1)
Lengths(pkt)       == Append(pkt.lengths, Len(pkt.body) - Total(pkt.lengths))

(* The payloads by channel, or the empty function on a length overrun. *)
ParseBundle(pkt) ==
  LET sorted == Ascending(pkt.mask)
      end    == Ends(Lengths(pkt))
  IN IF Total(pkt.lengths) > Len(pkt.body)
       THEN <<>>
       ELSE [c \in pkt.mask |->
               LET n == CHOOSE k \in DOMAIN sorted : sorted[k] = c
               IN SubSeq(pkt.body, end[n - 1] + 1, end[n])]

-----------------------------------------------------------------------------
VARIABLES
  frameSize,   (* server-authoritative                                     *)
  failed,      (* channels of the frame whose encode failed                *)
  packets,     (* the bundles sendBundled queued for the frame             *)
  next,        (* the next packet the network settles                      *)
  lost,        (* the packets it lost                                      *)
  received     (* the payloads the receiver has, by channel                *)

vars == <<frameSize, failed, packets, next, lost, received>>

TypeOK ==
  /\ frameSize \in FrameSizes
  /\ failed \subseteq Channels
  /\ \A n \in DOMAIN packets : packets[n].mask \subseteq Channels
  /\ next \in 1 .. Len(packets) + 1
  /\ lost \subseteq DOMAIN packets
  /\ DOMAIN received \subseteq Channels

(* sendBundled: a group keeps the channels with a payload, an empty group   *)
(* is skipped.                                                              *)
SendBundled(groups, missing) ==
  LET Kept(n) == Range(groups[n]) \ missing
      queued[n \in 0 .. Len(groups)] ==
        IF n = 0 THEN <<>>
        ELSE IF Kept(n) = {} THEN queued[n - 1]
        ELSE Append(queued[n - 1], MarshalBundle(Kept(n)))
  IN queued[Len(groups)]

Init ==
  /\ frameSize \in FrameSizes
  /\ failed \in FailedSets
  /\ packets  = SendBundled(PlanLayout(frameSize), failed)
  /\ next     = 1
  /\ lost     = {}
  /\ received = <<>>

NextFrame ==
  /\ next > Len(packets)
  /\ failed' \in FailedSets
  /\ packets' = SendBundled(PlanLayout(frameSize), failed')
  /\ next' = 1 /\ lost' = {} /\ received' = <<>>
  /\ UNCHANGED frameSize

(* A channel that is in hand is not taken again (the _rxBundleSeen set). *)
Deliver ==
  /\ next <= Len(packets)
  /\ LET got == ParseBundle(packets[next])
     IN received' = [c \in DOMAIN received \cup DOMAIN got |->
                       IF c \in DOMAIN received THEN received[c] ELSE got[c]]
  /\ next' = next + 1
  /\ UNCHANGED <<frameSize, failed, packets, lost>>

Lose ==
  /\ next <= Len(packets)
  /\ Cardinality(lost) < MaxLost
  /\ lost' = lost \cup {next}
  /\ next' = next + 1
  /\ UNCHANGED <<frameSize, failed, packets, received>>

-----------------------------------------------------------------------------
(* Properties *)

Settled == next > Len(packets)
Missing == (Channels \ failed) \ DOMAIN received

(* Losing any single packet of a frame takes channels of one of the two     *)
(* higher orders only, and so never the first-order soundfield, for every   *)
(* frame size and whichever encoders failed.                                *)
OneLossOneOrder ==
  Settled /\ Cardinality(lost) <= 1 =>
    Missing \subseteq Range(Order2) \/ Missing \subseteq Range(Order3)

(* What arrives is byte for byte what was encoded for that channel, although*)
(* the last length of a packet is implicit; nothing is missing that was     *)
(* neither lost nor failed.                                                 *)
PayloadsExact ==
  /\ \A c \in DOMAIN received : c \notin failed /\ received[c] = Payload(c)
  /\ Settled /\ lost = {} => Missing = {}
=============================================================================
