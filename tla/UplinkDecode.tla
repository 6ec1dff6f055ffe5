---------------------------- MODULE UplinkDecode ----------------------------
(***************************************************************************)
(* The receiving end of one session's uplink: packets cross an unordered   *)
(* DataChannel without retransmission, handlePacket (session.go) splits    *)
(* each into channels on Pion's read goroutine and enqueues them with      *)
(* drop-oldest, decodeLoop (pipeline.go) feeds the stateful Opus decoders  *)
(* and passes what they yield on to the jitter buffer.                     *)
(*                                                                         *)
(* A frame is known by its number at the client; on the wire it carries a  *)
(* sample timestamp of 32 bits, which wraps.  The network may lose, delay  *)
(* and reorder packets.  RxSpec lets any packets be sent at any time; module*)
(* Uplink puts a client there.                                             *)
(***************************************************************************)
EXTENDS UplinkFrames

CONSTANTS
  FrameSize,   (* samples per frame                                        *)
  TsMod,       (* 2^32, the range of a wire timestamp                      *)
  InboundCap   (* capacity of the inbound channel                          *)

ASSUME UplinkAssumption ==
  /\ FrameSize \in Nat \ {0} /\ TsMod \in Nat \ {0} /\ InboundCap \in Nat \ {0}

VARIABLES
  net,         (* packets in flight                                        *)
  hand,        (* the packet handlePacket works on, what is left of it     *)
  pc,          (* the select of pushInbound it is at                       *)
  inbound,
  decInTs,     (* highest timestamp each decoder was fed, -1 at first      *)
  fed          (* history: the frames each decoder was fed, in order       *)

recvVars == <<hand, pc>>
rxVars   == <<net, recvVars, inbound, decInTs, fed>>

WireTs(n) == (n * FrameSize) % TsMod
Item      == [c : Channels, frame : Frame]      \* an inboundPkt

RxTypeOK ==
  /\ net \subseteq Packet
  /\ hand \in [frame : Frame \cup {0}, chans : SUBSET Channels]
  /\ pc \in {"idle", "try", "evict", "retry"}
  /\ pc # "idle" => hand.frame # 0 /\ hand.chans # {}
  /\ inbound \in Seq(Item) /\ Len(inbound) <= InboundCap
  /\ decInTs \in [Channels -> -1 .. TsMod - 1]
  /\ fed \in [Channels -> Seq(Frame)]

RxInit ==
  /\ net     = {}
  /\ hand    = [frame |-> 0, chans |-> {}]
  /\ pc      = "idle"
  /\ inbound = <<>>
  /\ decInTs = [c \in Channels |-> -1]
  /\ fed     = [c \in Channels |-> <<>>]

-----------------------------------------------------------------------------
(* The network *)

(* The bundles of a flush are sent one after the other in one callback. *)
Arrive(packets) ==
  /\ net' = net \cup packets
  /\ UNCHANGED <<recvVars, inbound, decInTs, fed>>

Lose(p) ==
  /\ net' = net \ {p}
  /\ UNCHANGED <<recvVars, inbound, decInTs, fed>>

-----------------------------------------------------------------------------
(* handlePacket: one packet after the other, its channels in ascending      *)
(* order (the order ParseBundle returns them in).                           *)
HandlePacket(p) ==
  /\ pc = "idle"
  /\ net'  = net \ {p}
  /\ hand' = [frame |-> p.frame, chans |-> p.chans]
  /\ pc'   = IF p.chans = {} THEN "idle" ELSE "try"
  /\ UNCHANGED <<inbound, decInTs, fed>>

First(S) == CHOOSE c \in S : \A d \in S : c <= d

(* What pushInbound is about to enqueue. *)
Item1 == [c |-> First(hand.chans), frame |-> hand.frame]

AfterPush ==
  LET rest == hand.chans \ {First(hand.chans)}
  IN /\ hand' = [hand EXCEPT !.chans = rest]
     /\ pc'   = IF rest = {} THEN "idle" ELSE "try"

(* The three selects of pushInbound. *)
TryPushInbound ==
  /\ pc = "try"
  /\ IF Len(inbound) < InboundCap
       THEN /\ inbound' = Append(inbound, Item1)
            /\ AfterPush
       ELSE /\ pc' = "evict"
            /\ UNCHANGED <<inbound, hand>>
  /\ UNCHANGED <<net, decInTs, fed>>

(* Deviation: nothing makes room. *)
EvictInbound_Nothing ==
  /\ pc = "evict"
  /\ pc' = "retry"
  /\ UNCHANGED <<net, hand, inbound, decInTs, fed>>

EvictInbound ==
  /\ pc = "evict"
  /\ pc' = "retry"
  /\ inbound' = IF inbound = <<>> THEN inbound ELSE Tail(inbound)
  /\ UNCHANGED <<net, hand, decInTs, fed>>

RetryPushInbound ==
  /\ pc = "retry"
  /\ inbound' = IF Len(inbound) < InboundCap THEN Append(inbound, Item1) ELSE inbound
  /\ AfterPush
  /\ UNCHANGED <<net, decInTs, fed>>

-----------------------------------------------------------------------------
(* decodeLoop *)

Late_Older(p) == WireTs(p.frame) < decInTs[p.c]      \* deviation
Late(p) == WireTs(p.frame) <= decInTs[p.c]

DropLate ==
  /\ inbound # <<>>
  /\ Late(Head(inbound))
  /\ inbound' = Tail(inbound)
  /\ UNCHANGED <<net, recvVars, decInTs, fed>>

(* Where the gate of a decoder stands after a frame; in the deviation, at   *)
(* its end.                                                                 *)
Gate_FrameEnd(p) == WireTs(p.frame) + FrameSize
Gate(p)          == WireTs(p.frame)

(* The timestamp is taken before the decoder is called, so a decode that    *)
(* fails moves the gate as well; only its samples are missing.              *)
Decode ==
  LET p == Head(inbound)
  IN /\ inbound # <<>>
     /\ ~Late(p)
     /\ inbound' = Tail(inbound)
     /\ decInTs' = [decInTs EXCEPT ![p.c] = Gate(p)]
     /\ fed'     = [fed EXCEPT ![p.c] = Append(@, p.frame)]
     /\ UNCHANGED <<net, recvVars>>

Receive ==
  \/ \E p \in net : Lose(p) \/ HandlePacket(p)
  \/ TryPushInbound \/ EvictInbound \/ RetryPushInbound
  \/ DropLate \/ Decode

RxNext == (\E packets \in SUBSET Packet : Arrive(packets)) \/ Receive

RxSpec == RxInit /\ [][RxNext]_rxVars

-----------------------------------------------------------------------------
(* Properties *)

(* A decoder is stateful: it is fed strictly forward in the client's time,  *)
(* so the second copy of a base channel, a reordered and a delayed packet   *)
(* never reach it.  The gate compares wrapped timestamps, the property true *)
(* frame numbers.                                                           *)
DecodersForward ==
  \A c \in Channels : \A m, n \in DOMAIN fed[c] : m < n => fed[c][m] < fed[c][n]

(* The read goroutine is the only producer of inbound: its second attempt   *)
(* always finds room, so a full queue costs the oldest packet and never the *)
(* one that just arrived.                                                   *)
NewestInboundKept == pc = "retry" => Len(inbound) < InboundCap

(* The gate drops what it is there to drop: a frame that is not newer than  *)
(* all its decoder was fed.  Once timestamps wrap this fails for good; the  *)
(* runs stay below the wrap.                                                *)
OnlyLateDropped ==
  [][DropLate =>
       LET p == Head(inbound)
       IN \E n \in DOMAIN fed[p.c] : p.frame <= fed[p.c][n]]_rxVars
=============================================================================
