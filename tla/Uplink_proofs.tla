---------------------------- MODULE Uplink_proofs ---------------------------
(***************************************************************************)
(* The uplink for any channels, layout, queue capacity and number of       *)
(* frames: the gathering at the client, the server's side under any        *)
(* network, then the composition of the two, whose steps are steps of      *)
(* TxSpec and of RxSpec.                                                   *)
(***************************************************************************)
EXTENDS Uplink, NaturalsInduction, WellFoundedInduction, TLAPS

-----------------------------------------------------------------------------
(* The gathering of encoder outputs into frames, whoever receives them. *)

(* What the code does is more than PayloadsAccountedFor asks: nothing that  *)
(* an encoder produced is lost, stragglers included.                        *)
Gathered ==
  /\ Accounted = Emitted
  /\ sent \cap Pending = {}
  /\ (sent \cup Pending) \cap dropped = {}

(* What the invariant rests on: payloads are gathered under a frame number  *)
(* only, which is null when nothing is.                                     *)
GatherInv ==
  /\ TxTypeOK
  /\ bundleTs = 0 => accum = {}
  /\ Gathered

LEMMA InitGatherInv == TxInit => GatherInv
<1> SUFFICES ASSUME TxInit PROVE GatherInv
  OBVIOUS
<1>1. TxTypeOK
  BY FramesAssumption DEF TxInit, TxTypeOK
<1>2. Emitted = {}
  BY FramesAssumption DEF TxInit, Emitted, Payload, Frame
<1>3. Gathered
  BY <1>2 DEF TxInit, Gathered, Accounted, Pending
<1> QED
  BY <1>1, <1>3 DEF TxInit, GatherInv

(* An output event produces one payload nobody has seen before. *)
LEMMA OutputIsNew ==
  ASSUME GatherInv, NEW c \in Channels, NEW n \in Frame, Output(c, n)
  PROVE  /\ emitted' \in [Channels -> 0 .. MaxFrames]
         /\ <<c, n>> \in Payload
         /\ late' \subseteq Payload
         /\ <<c, n>> \notin Accounted
         /\ Emitted' = Emitted \cup {<<c, n>>}
<1>1. n = emitted[c] + 1 /\ emitted' = [emitted EXCEPT ![c] = n] /\ n \in 0 .. MaxFrames
  BY FramesAssumption DEF Output, Frame
<1>2. emitted \in [Channels -> 0 .. MaxFrames]
  BY DEF GatherInv, TxTypeOK
<1>3. <<c, n>> \in Payload
  BY DEF Payload
<1>4. ~(n <= emitted[c])
  BY <1>1, <1>2, FramesAssumption
<1>5. <<c, n>> \notin Accounted
  BY <1>3, <1>4 DEF GatherInv, Gathered, Emitted
<1>6. ASSUME NEW d \in Channels, NEW m \in Frame
      PROVE  m <= emitted'[d] <=> m <= emitted[d] \/ (d = c /\ m = n)
  BY <1>1, <1>2, FramesAssumption DEF Frame
<1>7. Emitted' = Emitted \cup {<<c, n>>}
  BY <1>3, <1>6 DEF Emitted, Payload
<1>8. late' \subseteq Payload
  BY <1>3 DEF Output, GatherInv, TxTypeOK
<1> QED
  BY <1>1, <1>2, <1>3, <1>5, <1>7, <1>8

LEMMA NextGatherInv == GatherInv /\ [TxNext]_txVars => GatherInv'
<1> SUFFICES ASSUME GatherInv, [TxNext]_txVars PROVE GatherInv'
  OBVIOUS
<1>0. TxTypeOK /\ Pending \subseteq Payload
  BY DEF GatherInv, TxTypeOK, Gathered, Accounted, Emitted
<1>1. CASE EncodePlanarFrame
  BY <1>1, FramesAssumption
     DEF EncodePlanarFrame, GatherInv, TxTypeOK, Gathered, Accounted, Emitted, Pending
<1>2. ASSUME NEW c \in Channels, NEW n \in Frame, DropOutput(c, n) PROVE GatherInv'
  <2>1. Output(c, n) /\ dropped' = dropped \cup {<<c, n>>} /\ Pending' = Pending
    BY <1>2 DEF DropOutput, Pending
  <2>2. Gathered'
    BY <1>2, <2>1, OutputIsNew DEF DropOutput, GatherInv, Gathered, Accounted
  <2> QED
    BY <1>0, <1>2, <2>1, <2>2, OutputIsNew DEF DropOutput, GatherInv, TxTypeOK
<1>3. ASSUME NEW c \in Channels, NEW n \in Frame, CompleteFrame(c, n) PROVE GatherInv'
  <2>1. /\ Output(c, n) /\ n = bundleTs /\ accum \cup {c} = Channels
        /\ sent' = sent \cup Channels \X {n} /\ bundleTs' = 0 /\ accum' = {}
    BY <1>3 DEF CompleteFrame, Flushed
  <2>2. sent' = sent \cup Pending \cup {<<c, n>>} /\ Pending' = {}
    BY <2>1 DEF Pending
  <2>3. Gathered'
    <3>1. Emitted' = Emitted \cup {<<c, n>>} /\ <<c, n>> \notin Accounted
      BY <1>3, <2>1, OutputIsNew
    <3>2. dropped' = dropped
      BY <1>3 DEF CompleteFrame
    <3> QED
      BY <2>2, <3>1, <3>2 DEF GatherInv, Gathered, Accounted
  <2>4. sent' \subseteq Payload
    BY <1>0, <1>3, <2>1, <2>2, OutputIsNew, FramesAssumption DEF CompleteFrame, TxTypeOK, Frame
  <2>5. emitted' \in [Channels -> 0 .. MaxFrames] /\ late' \subseteq Payload
    BY <2>1, OutputIsNew
  <2>6. TxTypeOK'
    BY <1>0, <1>3, <2>1, <2>4, <2>5, FramesAssumption DEF CompleteFrame, TxTypeOK
  <2> QED
    BY <2>1, <2>3, <2>6 DEF GatherInv
<1>4. ASSUME NEW c \in Channels, NEW n \in Frame, GatherPayload(c, n) PROVE GatherInv'
  <2>1. /\ Output(c, n) /\ n = bundleTs /\ accum' = accum \cup {c}
        /\ UNCHANGED <<captured, bundleTs, dropped, sent>>
    BY <1>4 DEF GatherPayload
  <2>2. Pending' = Pending \cup {<<c, n>>}
    BY <2>1 DEF Pending
  <2>3. Gathered'
    <3>1. Emitted' = Emitted \cup {<<c, n>>} /\ <<c, n>> \notin Accounted
      BY <2>1, OutputIsNew
    <3> QED
      BY <2>1, <2>2, <3>1 DEF GatherInv, Gathered, Accounted
  <2>4. bundleTs' # 0
    BY <2>1, FramesAssumption DEF Frame
  <2> QED
    BY <1>0, <2>1, <2>3, <2>4, OutputIsNew DEF GatherInv, TxTypeOK
<1>5. ASSUME NEW c \in Channels, NEW n \in Frame, SwitchFrame(c, n) PROVE GatherInv'
  <2>1. /\ Output(c, n)
        /\ sent' = sent \cup Pending
        /\ bundleTs' = n /\ accum' = {c}
        /\ UNCHANGED <<captured, dropped>>
    BY <1>5 DEF SwitchFrame, Flushed, Pending
  <2>2. Pending' = {<<c, n>>}
    BY <2>1 DEF Pending
  <2>3. Gathered'
    <3>1. Emitted' = Emitted \cup {<<c, n>>} /\ <<c, n>> \notin Accounted
      BY <2>1, OutputIsNew
    <3> QED
      BY <2>1, <2>2, <3>1 DEF GatherInv, Gathered, Accounted
  <2>4. sent' \subseteq Payload /\ bundleTs' # 0
    BY <1>0, <1>5, <2>1, FramesAssumption DEF SwitchFrame, TxTypeOK, Frame
  <2>5. emitted' \in [Channels -> 0 .. MaxFrames] /\ late' \subseteq Payload
    BY <2>1, OutputIsNew
  <2>6. TxTypeOK'
    BY <1>0, <2>1, <2>4, <2>5, FramesAssumption DEF TxTypeOK, Frame
  <2> QED
    BY <2>1, <2>3, <2>4, <2>6 DEF GatherInv
<1>6. CASE UNCHANGED txVars
  BY <1>6 DEF txVars, GatherInv, TxTypeOK, Gathered, Accounted, Emitted, Pending
<1> QED
  BY <1>1, <1>2, <1>3, <1>4, <1>5, <1>6 DEF TxNext

(* Every reachable state of the gathering is well typed. *)
THEOREM TypeCorrect == TxSpec => []TxTypeOK
<1>1. GatherInv => TxTypeOK
  BY DEF GatherInv
<1> QED
  BY <1>1, InitGatherInv, NextGatherInv, PTL DEF TxSpec

(* Whatever the order of the encoder events, every payload that came before *)
(* any of its frame was flushed went out, is about to under its own frame,  *)
(* or was refused; no payload is more than one of these.                    *)
THEOREM NothingGoesAstray == TxSpec => []PayloadsAccountedFor
<1>1. GatherInv => PayloadsAccountedFor
  BY DEF GatherInv, Gathered, PayloadsAccountedFor
<1> QED
  BY <1>1, InitGatherInv, NextGatherInv, PTL DEF TxSpec

-----------------------------------------------------------------------------
(* Timestamps and packets. *)

(* The timestamps of the frames do not wrap. *)
NoWrap == MaxFrames * FrameSize < TsMod

LEMMA WireTsNoWrap ==
  ASSUME NoWrap, NEW n \in Frame
  PROVE  WireTs(n) = n * FrameSize /\ n * FrameSize \in 0 .. TsMod - 1
<1>1. n \in Nat /\ n <= MaxFrames /\ MaxFrames \in Nat /\ FrameSize \in Nat /\ TsMod \in Nat
  BY FramesAssumption, UplinkAssumption DEF Frame
<1>2. n * FrameSize \in Nat /\ n * FrameSize <= MaxFrames * FrameSize
  BY <1>1
<1>3. n * FrameSize < TsMod
  BY <1>1, <1>2 DEF NoWrap
<1>4. (n * FrameSize) % TsMod = n * FrameSize
  BY <1>1, <1>2, <1>3
<1> QED
  BY <1>1, <1>2, <1>3, <1>4 DEF WireTs

(* Timestamps are in the order of the frames. *)
LEMMA TsOrder ==
  ASSUME NEW a \in Frame, NEW b \in Frame
  PROVE  /\ a * FrameSize < b * FrameSize => a < b
         /\ a * FrameSize <= b * FrameSize => a <= b
<1>1. a \in Nat /\ b \in Nat /\ FrameSize \in Nat /\ FrameSize > 0
  BY FramesAssumption, UplinkAssumption DEF Frame
<1>2. ASSUME b <= a PROVE b * FrameSize <= a * FrameSize
  BY <1>1, <1>2
<1>3. ASSUME b < a PROVE b * FrameSize < a * FrameSize
  <2>1. b + 1 <= a
    BY <1>1, <1>3
  <2>2. (b + 1) * FrameSize <= a * FrameSize
    BY <1>1, <2>1
  <2>3. (b + 1) * FrameSize = b * FrameSize + FrameSize
    BY <1>1
  <2> QED
    BY <1>1, <2>2, <2>3
<1> QED
  BY <1>1, <1>2, <1>3

LEMMA FirstInSet ==
  ASSUME NEW S \in SUBSET Channels, S # {}
  PROVE  First(S) \in S
<1> DEFINE R == OpToRel(<, Nat)
<1>1. S \subseteq Nat
  BY FramesAssumption
<1>2. R = {ss \in Nat \X Nat : ss[1] < ss[2]}
  BY DEF OpToRel
<1>3. IsWellFoundedOn(R, Nat)
  BY NatLessThanWellFounded
<1> HIDE DEF R
<1>4. PICK c \in S : \A d \in S : ~(<<d, c>> \in R)
  BY <1>1, <1>3, WFMin
<1>5. ASSUME NEW d \in S PROVE c <= d
  <2>1. c \in Nat /\ d \in Nat /\ <<d, c>> \notin R
    BY <1>1, <1>4
  <2>2. ASSUME d < c PROVE <<d, c>> \in R
    BY <1>2, <2>1, <2>2
  <2> QED
    BY <2>1, <2>2
<1> QED
  BY <1>5 DEF First

-----------------------------------------------------------------------------
(* The receiving end: what a decoder's gate remembers is the timestamp of   *)
(* the last frame it was fed, and that is the newest.                       *)
GateInv ==
  \A c \in Channels :
    /\ decInTs[c] = -1 \/ \E n \in DOMAIN fed[c] : decInTs[c] = fed[c][n] * FrameSize
    /\ \A n \in DOMAIN fed[c] : fed[c][n] * FrameSize <= decInTs[c]

RxInv == RxTypeOK /\ NewestInboundKept /\ GateInv /\ DecodersForward

LEMMA InitRxInv == RxInit => RxInv
<1> SUFFICES ASSUME RxInit PROVE RxInv
  OBVIOUS
<1>1. RxTypeOK
  BY FramesAssumption, UplinkAssumption DEF RxInit, RxTypeOK, Item
<1>2. \A c \in Channels : fed[c] = <<>> /\ decInTs[c] = -1
  BY DEF RxInit
<1> QED
  BY <1>1, <1>2 DEF RxInit, RxInv, NewestInboundKept, GateInv, DecodersForward

(* What is left of a packet after one of its channels was enqueued. *)
LEMMA PushType ==
  ASSUME RxTypeOK, pc # "idle", AfterPush
  PROVE  /\ hand' \in [frame : Frame \cup {0}, chans : SUBSET Channels]
         /\ pc' \in {"idle", "try"}
         /\ pc' # "idle" => hand'.frame # 0 /\ hand'.chans # {}
         /\ Item1 \in Item
<1>1. /\ hand \in [frame : Frame \cup {0}, chans : SUBSET Channels]
      /\ hand.frame # 0 /\ hand.chans # {}
  BY DEF RxTypeOK
<1>2. First(hand.chans) \in hand.chans
  BY <1>1, FirstInSet
<1>3. Item1 \in Item
  BY <1>1, <1>2 DEF Item1, Item
<1> QED
  BY <1>1, <1>3 DEF AfterPush

LEMMA DecodeInv == ASSUME NoWrap, RxInv, Decode PROVE RxInv'
<1> DEFINE p == Head(inbound)
<1>1. /\ inbound \in Seq(Item) /\ inbound # <<>> /\ Len(inbound) <= InboundCap
      /\ decInTs \in [Channels -> -1 .. TsMod - 1] /\ fed \in [Channels -> Seq(Frame)]
  BY DEF RxInv, RxTypeOK, Decode
<1>2. p \in Item /\ p.c \in Channels /\ p.frame \in Frame
  <2>1. p \in Item
    BY <1>1
  <2> QED
    BY <2>1 DEF Item
<1>3. /\ inbound' = Tail(inbound)
      /\ decInTs' = [decInTs EXCEPT ![p.c] = WireTs(p.frame)]
      /\ fed' = [fed EXCEPT ![p.c] = Append(fed[p.c], p.frame)]
      /\ UNCHANGED <<net, hand, pc>>
  BY DEF Decode, Gate, recvVars
<1>4. WireTs(p.frame) = p.frame * FrameSize /\ p.frame * FrameSize \in 0 .. TsMod - 1
  BY <1>2, WireTsNoWrap
<1>5. inbound' \in Seq(Item) /\ Len(inbound') = Len(inbound) - 1
  BY <1>1, <1>3
<1>6. p.frame * FrameSize > decInTs[p.c] /\ decInTs[p.c] \in Int /\ TsMod \in Int
  BY <1>1, <1>2, <1>4, UplinkAssumption DEF Decode, Late
<1>7. /\ decInTs' \in [Channels -> -1 .. TsMod - 1]
      /\ fed' \in [Channels -> Seq(Frame)]
  BY <1>1, <1>2, <1>3, <1>4
<1>8. RxTypeOK'
  BY <1>1, <1>3, <1>5, <1>7, UplinkAssumption DEF RxInv, RxTypeOK
<1>9. NewestInboundKept'
  BY <1>1, <1>3, <1>5, UplinkAssumption DEF RxInv, NewestInboundKept
<1>10. ASSUME NEW n \in DOMAIN fed[p.c]
       PROVE  fed[p.c][n] \in Frame /\ fed[p.c][n] < p.frame
              /\ fed[p.c][n] * FrameSize <= p.frame * FrameSize
  <2>1. fed[p.c][n] \in Frame /\ fed[p.c][n] * FrameSize <= decInTs[p.c]
    BY <1>1, <1>2 DEF RxInv, GateInv
  <2>2. fed[p.c][n] * FrameSize < p.frame * FrameSize
    BY <1>6, <1>4, <2>1, FramesAssumption, UplinkAssumption DEF Frame
  <2> QED
    BY <1>2, <1>4, <2>1, <2>2, TsOrder, UplinkAssumption DEF Frame
<1>11. ASSUME NEW c \in Channels, c # p.c PROVE fed'[c] = fed[c] /\ decInTs'[c] = decInTs[c]
  BY <1>1, <1>3, <1>11
<1>12. /\ fed'[p.c] = Append(fed[p.c], p.frame) /\ fed[p.c] \in Seq(Frame)
       /\ decInTs'[p.c] = p.frame * FrameSize
  BY <1>1, <1>2, <1>3, <1>4
<1>13. /\ DOMAIN fed'[p.c] = 1 .. Len(fed[p.c]) + 1
       /\ DOMAIN fed[p.c] = 1 .. Len(fed[p.c])
       /\ Len(fed[p.c]) \in Nat
       /\ \A n \in DOMAIN fed[p.c] : fed'[p.c][n] = fed[p.c][n]
       /\ fed'[p.c][Len(fed[p.c]) + 1] = p.frame
  BY <1>2, <1>12
<1>14. GateInv'
  <2>1. \A n \in DOMAIN fed'[p.c] : fed'[p.c][n] * FrameSize <= decInTs'[p.c]
    <3>1. TAKE n \in DOMAIN fed'[p.c]
    <3>2. CASE n \in DOMAIN fed[p.c]
      BY <1>10, <1>12, <1>13, <3>2
    <3>3. CASE n = Len(fed[p.c]) + 1
      BY <1>4, <1>12, <1>13, <3>3
    <3> QED
      BY <1>13, <3>1, <3>2, <3>3
  <2>2. \E n \in DOMAIN fed'[p.c] : decInTs'[p.c] = fed'[p.c][n] * FrameSize
    <3>1. Len(fed[p.c]) + 1 \in DOMAIN fed'[p.c]
      BY <1>13
    <3> QED
      BY <1>12, <1>13, <3>1
  <2> QED
    BY <1>11, <2>1, <2>2 DEF GateInv, RxInv
<1>15. DecodersForward'
  <2>1. ASSUME NEW m \in DOMAIN fed'[p.c], NEW n \in DOMAIN fed'[p.c], m < n
        PROVE  fed'[p.c][m] < fed'[p.c][n]
    <3>1. m \in DOMAIN fed[p.c]
      BY <1>13, <2>1
    <3>2. CASE n \in DOMAIN fed[p.c]
      BY <1>2, <1>13, <2>1, <3>1, <3>2 DEF RxInv, DecodersForward
    <3>3. CASE n = Len(fed[p.c]) + 1
      BY <1>10, <1>13, <3>1, <3>3
    <3> QED
      BY <1>13, <2>1, <3>2, <3>3
  <2> QED
    BY <1>11, <2>1 DEF DecodersForward, RxInv
<1> QED
  BY <1>8, <1>9, <1>14, <1>15 DEF RxInv

LEMMA NextRxInv == ASSUME NoWrap PROVE RxInv /\ [RxNext]_rxVars => RxInv'
<1> SUFFICES ASSUME RxInv, [RxNext]_rxVars PROVE RxInv'
  OBVIOUS
<1>0. RxTypeOK /\ InboundCap \in Nat \ {0}
  BY UplinkAssumption DEF RxInv
<1>a. ASSUME UNCHANGED <<decInTs, fed>> PROVE GateInv' /\ DecodersForward'
  BY <1>a DEF RxInv, GateInv, DecodersForward
<1>1. ASSUME NEW packets \in SUBSET Packet, Arrive(packets) PROVE RxInv'
  <2>1. RxTypeOK' /\ NewestInboundKept'
    BY <1>0, <1>1 DEF Arrive, RxTypeOK, recvVars, RxInv, NewestInboundKept
  <2> QED
    BY <1>1, <1>a, <2>1 DEF RxInv, Arrive
<1>2. ASSUME NEW p \in net, Lose(p) PROVE RxInv'
  <2>1. RxTypeOK' /\ NewestInboundKept'
    BY <1>0, <1>2 DEF Lose, RxTypeOK, recvVars, RxInv, NewestInboundKept
  <2> QED
    BY <1>2, <1>a, <2>1 DEF RxInv, Lose
<1>3. ASSUME NEW p \in net, HandlePacket(p) PROVE RxInv'
  <2>1. p \in Packet
    BY <1>0 DEF RxTypeOK
  <2>2. p.frame \in Frame /\ p.frame # 0 /\ p.chans \in SUBSET Channels
    BY <2>1, FramesAssumption DEF Packet, Frame
  <2>3. RxTypeOK'
    BY <1>0, <1>3, <2>2 DEF HandlePacket, RxTypeOK
  <2>4. NewestInboundKept'
    BY <1>3 DEF HandlePacket, NewestInboundKept
  <2> QED
    BY <1>3, <1>a, <2>3, <2>4 DEF RxInv, HandlePacket
<1>4. CASE TryPushInbound
  <2>1. UNCHANGED <<net, decInTs, fed>> /\ pc = "try"
    BY <1>4 DEF TryPushInbound
  <2>2. CASE Len(inbound) < InboundCap
    <3>1. AfterPush /\ inbound' = Append(inbound, Item1)
      BY <1>4, <2>2 DEF TryPushInbound
    <3>2. inbound' \in Seq(Item) /\ Len(inbound') <= InboundCap
      BY <1>0, <2>1, <2>2, <3>1, PushType DEF RxTypeOK
    <3>3. RxTypeOK' /\ NewestInboundKept'
      BY <1>0, <2>1, <3>1, <3>2, PushType DEF RxTypeOK, NewestInboundKept
    <3> QED
      BY <2>1, <1>a, <3>3 DEF RxInv
  <2>3. CASE ~(Len(inbound) < InboundCap)
    <3>1. pc' = "evict" /\ UNCHANGED <<inbound, hand>>
      BY <1>4, <2>3 DEF TryPushInbound
    <3>2. RxTypeOK' /\ NewestInboundKept'
      BY <1>0, <2>1, <3>1 DEF RxTypeOK, NewestInboundKept
    <3> QED
      BY <2>1, <1>a, <3>2 DEF RxInv
  <2> QED
    BY <2>2, <2>3
<1>5. CASE EvictInbound
  <2>1. UNCHANGED <<net, hand, decInTs, fed>> /\ pc = "evict" /\ pc' = "retry"
    BY <1>5 DEF EvictInbound
  <2>2. inbound' \in Seq(Item) /\ Len(inbound') < InboundCap
    <3>1. CASE inbound = <<>>
      BY <1>0, <1>5, <3>1 DEF EvictInbound, RxTypeOK
    <3>2. CASE inbound # <<>>
      BY <1>0, <1>5, <3>2 DEF EvictInbound, RxTypeOK
    <3> QED
      BY <3>1, <3>2
  <2>3. RxTypeOK' /\ NewestInboundKept'
    BY <1>0, <2>1, <2>2 DEF RxTypeOK, NewestInboundKept
  <2> QED
    BY <2>1, <1>a, <2>3 DEF RxInv
<1>6. CASE RetryPushInbound
  <2>1. UNCHANGED <<net, decInTs, fed>> /\ pc = "retry" /\ AfterPush
    BY <1>6 DEF RetryPushInbound
  <2>2. inbound' \in Seq(Item) /\ Len(inbound') <= InboundCap
    BY <1>0, <1>6, <2>1, PushType DEF RetryPushInbound, RxTypeOK
  <2>3. RxTypeOK' /\ NewestInboundKept'
    BY <1>0, <2>1, <2>2, PushType DEF RxTypeOK, NewestInboundKept
  <2> QED
    BY <2>1, <1>a, <2>3 DEF RxInv
<1>7. CASE DropLate
  <2>1. UNCHANGED <<net, hand, pc, decInTs, fed>> /\ inbound # <<>> /\ inbound' = Tail(inbound)
    BY <1>7 DEF DropLate, recvVars
  <2>2. inbound' \in Seq(Item) /\ Len(inbound') < Len(inbound) /\ Len(inbound') \in Nat
    BY <1>0, <2>1 DEF RxTypeOK
  <2>3. RxTypeOK' /\ NewestInboundKept'
    BY <1>0, <2>1, <2>2 DEF RxTypeOK, NewestInboundKept, RxInv
  <2> QED
    BY <2>1, <1>a, <2>3 DEF RxInv
<1>8. CASE Decode
  BY <1>8, DecodeInv
<1>9. CASE UNCHANGED rxVars
  <2>1. RxTypeOK' /\ NewestInboundKept'
    BY <1>0, <1>9 DEF rxVars, recvVars, RxTypeOK, NewestInboundKept, RxInv
  <2> QED
    BY <1>9, <1>a, <2>1 DEF RxInv, rxVars
<1> QED
  BY <1>1, <1>2, <1>3, <1>4, <1>5, <1>6, <1>7, <1>8, <1>9 DEF RxNext, Receive

(* Under the invariant the gate drops only what is not newer than something *)
(* its decoder was fed.                                                     *)
LEMMA LateIsLate ==
  ASSUME NoWrap, RxInv, DropLate
  PROVE  LET p == Head(inbound) IN \E n \in DOMAIN fed[p.c] : p.frame <= fed[p.c][n]
<1> DEFINE p == Head(inbound)
<1>1. p \in Item /\ p.c \in Channels /\ p.frame \in Frame
  <2>1. p \in Item
    BY DEF RxInv, RxTypeOK, DropLate
  <2> QED
    BY <2>1 DEF Item
<1>2. p.frame * FrameSize <= decInTs[p.c] /\ p.frame * FrameSize \in Nat
  BY <1>1, WireTsNoWrap DEF DropLate, Late
<1>3. PICK n \in DOMAIN fed[p.c] : decInTs[p.c] = fed[p.c][n] * FrameSize
  BY <1>1, <1>2 DEF RxInv, GateInv
<1>4. fed[p.c][n] \in Frame
  BY <1>1 DEF RxInv, RxTypeOK
<1> QED
  BY <1>1, <1>2, <1>3, <1>4, TsOrder

-----------------------------------------------------------------------------
(* The composition *)

LEMMA ClientStepsServerSteps ==
  [Next]_vars => [TxNext]_txVars /\ [RxNext]_rxVars
<1>1. ASSUME Client PROVE TxNext /\ RxNext
  <2>1. Bundles(sent' \ sent) \in SUBSET Packet
    BY DEF Bundles
  <2> QED
    BY <1>1, <2>1 DEF Client, RxNext
<1> QED
  BY <1>1 DEF Next, Server, RxNext, vars

(* The composition implements its two ends: every step of an uplink is a    *)
(* step of the client or none, and a step of the server's side or none.     *)
THEOREM EndsImplemented == Spec => TxSpec /\ RxSpec
<1>1. Init => TxInit /\ RxInit
  BY DEF Init
<1> QED
  BY <1>1, ClientStepsServerSteps, PTL DEF Spec, TxSpec, RxSpec

LEMMA UplinkInv == ASSUME NoWrap PROVE Spec => [](GatherInv /\ RxInv)
<1>1. Init => GatherInv /\ RxInv
  BY InitGatherInv, InitRxInv DEF Init
<1>2. GatherInv /\ RxInv /\ [Next]_vars => GatherInv' /\ RxInv'
  BY ClientStepsServerSteps, NextGatherInv, NextRxInv
<1> QED
  BY <1>1, <1>2, PTL DEF Spec

(* Every reachable state is well typed, at both ends.                       *)
THEOREM UplinkTypeCorrect == ASSUME NoWrap PROVE Spec => []TypeOK
<1>1. GatherInv /\ RxInv => TypeOK
  BY DEF GatherInv, RxInv, TypeOK
<1> QED
  BY <1>1, UplinkInv, PTL

(* Until timestamps wrap, no decoder is fed a frame twice or backwards,     *)
(* whatever the network does to the two copies of a base channel.           *)
THEOREM FedForward == ASSUME NoWrap PROVE Spec => []DecodersForward
<1>1. RxInv => DecodersForward
  BY DEF RxInv
<1> QED
  BY <1>1, UplinkInv, PTL

(* The second attempt of pushInbound always finds room. *)
THEOREM NewestKept == ASSUME NoWrap PROVE Spec => []NewestInboundKept
<1>1. RxInv => NewestInboundKept
  BY DEF RxInv
<1> QED
  BY <1>1, UplinkInv, PTL

(* Until timestamps wrap, the gate drops no frame newer than all its        *)
(* decoder was fed.                                                         *)
THEOREM GateIsExact == ASSUME NoWrap PROVE Spec => OnlyLateDropped
<1>1. RxInv /\ [RxNext]_rxVars =>
        [DropLate => LET p == Head(inbound)
                     IN \E n \in DOMAIN fed[p.c] : p.frame <= fed[p.c][n]]_rxVars
  BY LateIsLate
<1> QED
  BY <1>1, UplinkInv, EndsImplemented, PTL DEF RxSpec, OnlyLateDropped
-----------------------------------------------------------------------------
(* Whatever is on its way or fed was sent by the client. *)
OnlySent ==
  /\ \A p \in net : \A c \in p.chans : <<c, p.frame>> \in sent
  /\ \A c \in hand.chans : <<c, hand.frame>> \in sent
  /\ \A n \in DOMAIN inbound : <<inbound[n].c, inbound[n].frame>> \in sent
  /\ \A c \in Channels : \A n \in DOMAIN fed[c] : <<c, fed[c][n]>> \in sent

LEMMA ClientOnlySent == ASSUME OnlySent, Client PROVE OnlySent'
<1>1. sent \subseteq sent'
  BY DEF Client, TxNext, EncodePlanarFrame, DropOutput, CompleteFrame, GatherPayload,
         SwitchFrame
<1>2. UNCHANGED <<hand, pc, inbound, fed>> /\ net' = net \cup Bundles(sent' \ sent)
  BY DEF Client, Arrive, recvVars
<1>3. ASSUME NEW p \in Bundles(sent' \ sent), NEW c \in p.chans
      PROVE  <<c, p.frame>> \in sent'
  BY DEF Bundles
<1> QED
  BY <1>1, <1>2, <1>3 DEF OnlySent

LEMMA ServerOnlySent == ASSUME RxInv, OnlySent, Server PROVE OnlySent'
<1>0. /\ inbound \in Seq(Item) /\ fed \in [Channels -> Seq(Frame)] /\ UNCHANGED sent
      /\ pc # "idle" => hand.chans \in SUBSET Channels /\ hand.chans # {}
      /\ hand \in [frame : Frame \cup {0}, chans : SUBSET Channels]
  BY DEF RxInv, RxTypeOK, Server, txVars
<1>1. ASSUME NEW p \in net, Lose(p) PROVE OnlySent'
  BY <1>0, <1>1 DEF OnlySent, Lose, recvVars
<1>2. ASSUME NEW p \in net, HandlePacket(p) PROVE OnlySent'
  BY <1>0, <1>2 DEF OnlySent, HandlePacket
(* Enqueueing one channel of the packet, or giving it up. *)
<1>3. ASSUME pc # "idle", AfterPush, UNCHANGED <<net, fed>>,
             inbound' = Append(inbound, Item1) \/ inbound' = inbound
      PROVE  OnlySent'
  <2>1. First(hand.chans) \in hand.chans
    BY <1>0, <1>3, FirstInSet
  <2>2. hand'.chans \subseteq hand.chans /\ hand'.frame = hand.frame
    BY <1>0, <1>3 DEF AfterPush
  <2>3. Item1 \in Item /\ <<Item1.c, Item1.frame>> \in sent
    BY <1>3, <2>1, PushType DEF RxInv, OnlySent, Item1
  <2>4. ASSUME NEW n \in DOMAIN inbound'
        PROVE  <<inbound'[n].c, inbound'[n].frame>> \in sent
    <3>1. CASE inbound' = inbound
      BY <3>1, <2>4 DEF OnlySent
    <3>2. CASE inbound' = Append(inbound, Item1)
      <4>1. \/ n \in DOMAIN inbound /\ inbound'[n] = inbound[n]
            \/ inbound'[n] = Item1
        BY <1>0, <2>3, <2>4, <3>2
      <4> QED
        BY <2>3, <4>1 DEF OnlySent
    <3> QED
      BY <1>3, <3>1, <3>2
  <2> QED
    BY <1>0, <1>3, <2>2, <2>4 DEF OnlySent
<1>4. CASE TryPushInbound
  <2>1. CASE Len(inbound) < InboundCap
    BY <1>3, <1>4, <2>1 DEF TryPushInbound
  <2>2. CASE ~(Len(inbound) < InboundCap)
    BY <1>0, <1>4, <2>2 DEF TryPushInbound, OnlySent
  <2> QED
    BY <2>1, <2>2
<1>5. CASE RetryPushInbound
  BY <1>3, <1>5 DEF RetryPushInbound
(* Taking the oldest item out of the queue. *)
<1>6. ASSUME inbound # <<>>
      PROVE  /\ Head(inbound) = inbound[1] /\ 1 \in DOMAIN inbound
             /\ \A n \in DOMAIN Tail(inbound) :
                   Tail(inbound)[n] = inbound[n + 1] /\ n + 1 \in DOMAIN inbound
  BY <1>0, <1>6
<1>7. CASE EvictInbound
  <2>1. CASE inbound = <<>>
    BY <1>0, <1>7, <2>1 DEF EvictInbound, OnlySent
  <2>2. CASE inbound # <<>>
    BY <1>0, <1>6, <1>7, <2>2 DEF EvictInbound, OnlySent
  <2> QED
    BY <2>1, <2>2
<1>8. CASE DropLate
  BY <1>0, <1>6, <1>8 DEF DropLate, recvVars, OnlySent
<1>9. CASE Decode
  <2> DEFINE p == Head(inbound)
  <2>1. /\ inbound # <<>> /\ inbound' = Tail(inbound) /\ UNCHANGED <<net, hand>>
        /\ fed' = [fed EXCEPT ![p.c] = Append(fed[p.c], p.frame)]
    BY <1>9 DEF Decode, recvVars
  <2>2. p \in Item
    BY <1>0, <2>1
  <2>3. p.c \in Channels /\ p.frame \in Frame /\ <<p.c, p.frame>> \in sent
    BY <1>6, <2>1, <2>2 DEF Item, OnlySent
  <2>4. ASSUME NEW c \in Channels, NEW n \in DOMAIN fed'[c]
        PROVE  <<c, fed'[c][n]>> \in sent
    <3>1. CASE c # p.c
      BY <1>0, <2>1, <2>4, <3>1 DEF OnlySent
    <3>2. CASE c = p.c
      <4>1. fed'[c] = Append(fed[c], p.frame) /\ fed[c] \in Seq(Frame)
        BY <1>0, <2>1, <3>2
      <4>2. \/ n \in DOMAIN fed[c] /\ fed'[c][n] = fed[c][n]
            \/ fed'[c][n] = p.frame
        BY <2>3, <2>4, <4>1
      <4> QED
        BY <2>3, <3>2, <4>2 DEF OnlySent
    <3> QED
      BY <3>1, <3>2
  <2> QED
    BY <1>0, <1>6, <2>1, <2>4 DEF OnlySent
<1> QED
  BY <1>1, <1>2, <1>4, <1>5, <1>7, <1>8, <1>9 DEF Server, Receive

LEMMA SentIsFiled == GatherInv /\ RxInv /\ OnlySent => NothingMisfiled
<1> SUFFICES ASSUME GatherInv, RxInv, OnlySent, NEW p \in OnTheWay \cup Fed
             PROVE  p[2] <= emitted[p[1]] /\ p \notin dropped
  BY DEF NothingMisfiled
<1>1. p \in sent
  <2>1. CASE p \in UNION {q.chans \X {q.frame} : q \in net}
    <3>1. PICK q \in net : p \in q.chans \X {q.frame}
      BY <2>1
    <3> QED
      BY <3>1 DEF OnlySent
  <2>2. CASE p \in hand.chans \X {hand.frame}
    BY <2>2 DEF OnlySent
  <2>3. CASE p \in {<<inbound[n].c, inbound[n].frame>> : n \in DOMAIN inbound}
    BY <2>3 DEF OnlySent
  <2>4. ASSUME NEW c \in Channels, p \in {<<c, fed[c][n]>> : n \in DOMAIN fed[c]}
        PROVE  p \in sent
    BY <2>4 DEF OnlySent
  <2>5. p \in OnTheWay => p \in sent
    BY <2>1, <2>2, <2>3 DEF OnTheWay
  <2>6. p \in Fed => p \in sent
    BY <2>4 DEF Fed
  <2> QED
    BY <2>5, <2>6
<1>2. sent \subseteq {q \in Payload : q[2] <= emitted[q[1]]} /\ sent \cap dropped = {}
  BY DEF GatherInv, Gathered, Accounted, Emitted
<1> QED
  BY <1>1, <1>2

(* Whatever is on its way to a decoder or was fed to one is a payload of    *)
(* that very channel and frame, produced and not refused: none is filed     *)
(* under another between the encoders and the decoders.                     *)
THEOREM FiledAsEncoded == ASSUME NoWrap PROVE Spec => []NothingMisfiled
<1>1. Init => OnlySent
  BY DEF Init, RxInit, OnlySent
<1>2. RxInv /\ OnlySent /\ [Next]_vars => OnlySent'
  <2>1. ASSUME OnlySent, UNCHANGED vars PROVE OnlySent'
    BY <2>1 DEF vars, txVars, rxVars, recvVars, OnlySent
  <2> QED
    BY <2>1, ClientOnlySent, ServerOnlySent DEF Next
<1> QED
  BY <1>1, <1>2, UplinkInv, SentIsFiled, PTL DEF Spec
=============================================================================
