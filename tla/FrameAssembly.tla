---------------------------- MODULE FrameAssembly ---------------------------
(***************************************************************************)
(* How the browser client puts the downlink together (client/engine.js):   *)
(* packets of either wire format pass the forward-only gate of each        *)
(* channel and go to its AudioDecoder, with their timestamp in a FIFO      *)
(* beside it; the outputs, independent events per decoder, are collected   *)
(* into frames in a ring of slots; a frame is dispatched when all channels *)
(* are there or when its timer fires, with what is missing concealed.      *)
(*                                                                         *)
(* The page is single-threaded: each callback is one step.  Packets may    *)
(* come in any order, twice or never; decoders keep their own order.  The  *)
(* timestamp of a frame is its number times the frame size.                *)
(***************************************************************************)
EXTENDS Integers, Sequences, FiniteSets

CONSTANTS
  Channels,     (* channel indices                                         *)
  Groups,       (* the channel sets a bundle may carry                     *)
  Formats,      (* subset of BOOLEAN: is the downlink bundled?             *)
  Frames,       (* the frames of the room's mix that may arrive            *)
  Cells,        (* RX_FRAME_POOL_SIZE, the cells of the ring               *)
  QueueCap,     (* TS_QUEUE_CAPACITY                                       *)
  Backlog,      (* bound on the chunks a decoder holds                     *)
  PlcHold,      (* frames short enough to conceal by holding (<= 20 ms)    *)
  MaxHolds      (* PLC_MAX_HOLDS                                           *)

ASSUME AssemblyAssumption ==
  /\ IsFiniteSet(Channels) /\ Cardinality(Channels) > 1
  /\ Groups \subseteq SUBSET Channels /\ Formats \subseteq BOOLEAN
  /\ Frames \subseteq Nat /\ Cells \in Nat \ {0} /\ QueueCap \in Nat \ {0}
  /\ Backlog \in Nat /\ PlcHold \in BOOLEAN /\ MaxHolds \in Nat

VARIABLES
  bundled,      (* the wire format of the session                          *)
  rxBundle,     (* _rxBundleTs and _rxBundleSeen                           *)
  lastDecoded,  (* _lastDecodedTs                                          *)
  tsQueue,      (* _tsQueues                                               *)
  decoding,     (* WebCodecs: the frames in each decoder                   *)
  overflowed,   (* history: a timestamp was pushed out of a full queue     *)
  ring,         (* _frameRing                                              *)
  timers,       (* frames whose timeout is pending                         *)
  lastFlushed,  (* _lastFlushedTs                                          *)
  lastGood,     (* _lastGoodPcm: is there PCM to hold?                     *)
  holdCount,    (* _holdCount                                              *)
  out           (* history: the last frame dispatched to the worklet       *)

gateVars  == <<bundled, rxBundle, lastDecoded>>
slotVars  == <<ring, timers, lastFlushed, lastGood, holdCount, out>>
asmVars   == <<gateVars, tsQueue, decoding, overflowed, slotVars>>

None  == -1
FrameOrNone == Frames \cup {None}

Slot    == [ts : FrameOrNone, pcm : [Channels -> FrameOrNone]]
NoFrame == [ts |-> None, pcm |-> [c \in Channels |-> None]]

(* A plane of a dispatched frame: decoded (from the packet of which frame), *)
(* held from what the channel decoded last, or mute.                        *)
Plane == [kind : {"pcm", "held", "mute"}, src : FrameOrNone]

AsmTypeOK ==
  /\ bundled \in BOOLEAN
  /\ rxBundle \in [ts : FrameOrNone, seen : SUBSET Channels]
  /\ lastDecoded \in [Channels -> FrameOrNone]
  /\ tsQueue  \in [Channels -> Seq(Frames)]
  /\ \A c \in Channels : Len(tsQueue[c]) <= QueueCap /\ Len(tsQueue[c]) <= Len(decoding[c])
  /\ decoding \in [Channels -> Seq(Frames)]
  /\ overflowed \in BOOLEAN
  /\ ring \in [0 .. Cells - 1 -> Slot]
  /\ \A i \in 0 .. Cells - 1 :       \* a frame in the ring has its timer
       ring[i] # NoFrame => ring[i].ts \in timers /\ ring[i].ts % Cells = i
  /\ timers \subseteq Frames
  /\ lastFlushed \in FrameOrNone
  /\ lastGood  \in [Channels -> BOOLEAN]
  /\ holdCount \in [Channels -> 0 .. MaxHolds]
  /\ out \in [ts : FrameOrNone, plane : [Channels -> Plane]]

AsmInit ==
  /\ bundled \in Formats
  /\ rxBundle    = [ts |-> None, seen |-> {}]
  /\ lastDecoded = [c \in Channels |-> None]
  /\ tsQueue     = [c \in Channels |-> <<>>]
  /\ decoding    = [c \in Channels |-> <<>>]
  /\ overflowed  = FALSE
  /\ ring        = [i \in 0 .. Cells - 1 |-> NoFrame]
  /\ timers      = {}
  /\ lastFlushed = None
  /\ lastGood    = [c \in Channels |-> FALSE]
  /\ holdCount   = [c \in Channels |-> 0]
  /\ out = [ts |-> None, plane |-> [c \in Channels |-> [kind |-> "mute", src |-> None]]]

-----------------------------------------------------------------------------
(* Packets *)

(* Deviation: the new timestamp goes to the front. *)
Push_Front(q, n) == IF Len(q) = QueueCap THEN q ELSE <<n>> \o q

(* _pushDecoderTimestamp: a full queue loses its oldest entry. *)
Push(q, n) == Append(IF Len(q) = QueueCap THEN Tail(q) ELSE q, n)

(* _acceptInOrder and the decode of the channels it accepts. *)
Decode(chans, n) ==
  LET accepted == {c \in chans : n > lastDecoded[c]}
      Fed(old, new) == [c \in Channels |-> IF c \in accepted THEN new[c] ELSE old[c]]
  IN /\ \A c \in accepted : Len(decoding[c]) < Backlog
     /\ lastDecoded' = Fed(lastDecoded, [c \in Channels |-> n])
     /\ tsQueue'     = Fed(tsQueue,  [c \in Channels |-> Push(tsQueue[c], n)])
     /\ decoding'    = Fed(decoding, [c \in Channels |-> Append(decoding[c], n)])
     /\ overflowed'  = (overflowed \/ \E c \in accepted : Len(tsQueue[c]) = QueueCap)

(* A bundle: a channel already taken from a packet of this frame is skipped. *)
OnBundle(chans, n) ==
  LET seen == IF rxBundle.ts = n THEN rxBundle.seen ELSE {}
  IN /\ bundled
     /\ n > lastFlushed
     /\ rxBundle' = [ts |-> n, seen |-> seen \cup chans]
     /\ Decode(chans \ seen, n)
     /\ UNCHANGED <<bundled, slotVars>>

(* A packet of the format with one channel each. *)
OnPacket(c, n) ==
  /\ ~bundled
  /\ n > lastFlushed
  /\ n > lastDecoded[c]
  /\ Decode({c}, n)
  /\ UNCHANGED <<bundled, rxBundle, slotVars>>

-----------------------------------------------------------------------------
(* Dispatch *)

Missing(slot) == {c \in Channels : slot.pcm[c] = None}
Holds(c) == PlcHold /\ lastGood[c] /\ holdCount[c] < MaxHolds

(* The planes of a slot, each gap concealed. *)
Planes(slot) ==
  [c \in Channels |->
     IF c \notin Missing(slot) THEN [kind |-> "pcm", src |-> slot.pcm[c]]
     ELSE IF Holds(c) THEN [kind |-> "held", src |-> None]
     ELSE [kind |-> "mute", src |-> None]]

(* Deviation: nothing checks that the frame is not behind. *)
FlushFrame_Any(slot) ==
  /\ lastFlushed' = slot.ts
  /\ out' = [ts |-> slot.ts, plane |-> Planes(slot)]

(* _flushFrame on the frame in a slot: dispatched with its gaps concealed,  *)
(* unless a later frame has been dispatched.                                *)
FlushFrame(slot) ==
  IF slot.ts <= lastFlushed
    THEN UNCHANGED <<lastFlushed, out>>
    ELSE /\ lastFlushed' = slot.ts
         /\ out' = [ts |-> slot.ts, plane |-> Planes(slot)]

(* The hold counters after that; a held channel is one hold further.        *)
HoldCount(slot) ==
  [c \in Channels |->
     IF slot.ts > lastFlushed /\ c \in Missing(slot) /\ Holds(c)
       THEN holdCount[c] + 1 ELSE holdCount[c]]

-----------------------------------------------------------------------------
(* Decoder outputs *)

(* The next output of a decoder: its PCM, and the timestamp it is taken for. *)
Pcm(c)   == Head(decoding[c])
Stamp(c) == IF tsQueue[c] = <<>> THEN None ELSE Head(tsQueue[c])

Output(c) ==
  /\ decoding[c] # <<>>
  /\ decoding' = [decoding EXCEPT ![c] = Tail(@)]
  /\ tsQueue'  = [tsQueue  EXCEPT ![c] = IF @ = <<>> THEN @ ELSE Tail(@)]
  /\ UNCHANGED <<gateVars, overflowed>>

Cell(n) == n % Cells

(* An output is of use if it has a timestamp, of a frame that has not been  *)
(* dealt with, and is the first of its channel for it.                      *)
Wanted(c) ==
  /\ Stamp(c) > lastFlushed
  /\ ring[Cell(Stamp(c))].ts = Stamp(c) => ring[Cell(Stamp(c))].pcm[c] = None

DropOutput(c) ==
  /\ Output(c)
  /\ ~Wanted(c)
  /\ UNCHANGED slotVars

(* The slot of a frame that is being assembled, or a fresh one.             *)
Fresh(n)    == [NoFrame EXCEPT !.ts = n]
SlotOf(n)   == IF ring[Cell(n)] = NoFrame THEN Fresh(n) ELSE ring[Cell(n)]
With(slot, c) == [slot EXCEPT !.pcm[c] = Pcm(c)]

Remember(c, counts) ==
  /\ lastGood'  = IF PlcHold THEN [lastGood EXCEPT ![c] = TRUE] ELSE lastGood
  /\ holdCount' = IF PlcHold THEN [counts EXCEPT ![c] = 0] ELSE counts

(* An output that leaves its frame incomplete; the first of a frame sets    *)
(* its timer.                                                               *)
FillFrame(c) ==
  LET n == Stamp(c)
      slot == With(SlotOf(n), c)
  IN /\ Output(c)
     /\ Wanted(c)
     /\ slot.ts = n
     /\ Missing(slot) # {}
     /\ ring'   = [ring EXCEPT ![Cell(n)] = slot]
     /\ timers' = timers \cup {n}
     /\ Remember(c, holdCount)
     /\ UNCHANGED <<lastFlushed, out>>

(* The last output of a frame: dispatched at once, its timer cleared. *)
CompleteFrame(c) ==
  LET n == Stamp(c)
      slot == With(SlotOf(n), c)
  IN /\ Output(c)
     /\ Wanted(c)
     /\ slot.ts = n
     /\ Missing(slot) = {}
     /\ ring'   = [ring EXCEPT ![Cell(n)] = NoFrame]
     /\ timers' = timers \ {n}
     /\ lastFlushed' = n
     /\ out'    = [ts |-> n, plane |-> Planes(slot)]
     /\ Remember(c, holdCount)

(* The first output of a frame whose cell another frame still holds: that   *)
(* one is flushed (its timer stays, and will find it gone).                 *)
EvictFrame(c) ==
  LET n == Stamp(c)
      old == ring[Cell(n)]
  IN /\ Output(c)
     /\ Wanted(c)
     /\ old # NoFrame /\ old.ts # n
     /\ FlushFrame(old)
     /\ ring'   = [ring EXCEPT ![Cell(n)] = With(Fresh(n), c)]
     /\ timers' = timers \cup {n}
     /\ Remember(c, HoldCount(old))

(* Is the frame of a timer still being assembled? *)
Due(n) == ring[Cell(n)].ts = n

Timeout(n) ==
  /\ n \in timers
  /\ timers' = timers \ {n}
  /\ IF Due(n)
       THEN /\ ring' = [ring EXCEPT ![Cell(n)] = NoFrame]
            /\ FlushFrame(ring[Cell(n)])
            /\ holdCount' = HoldCount(ring[Cell(n)])
       ELSE UNCHANGED <<ring, lastFlushed, out, holdCount>>
  /\ UNCHANGED <<gateVars, tsQueue, decoding, overflowed, lastGood>>

OnOutput(c) ==
  \/ DropOutput(c) \/ FillFrame(c) \/ CompleteFrame(c) \/ EvictFrame(c)

AsmNext ==
  \/ \E n \in Frames :
       \/ \E chans \in Groups : OnBundle(chans, n)
       \/ \E c \in Channels : OnPacket(c, n)
       \/ Timeout(n)
  \/ \E c \in Channels : OnOutput(c)

AsmSpec == AsmInit /\ [][AsmNext]_asmVars

-----------------------------------------------------------------------------
(* Properties *)

(* Frames are handed to the playback worklet strictly forward in time: not  *)
(* one twice, not one behind another, whichever of completion, timers and   *)
(* cell collisions ends their assembly.                                     *)
DispatchForward == [][out' # out => out'.ts > out.ts]_asmVars

(* What is played as channel c of frame n is the decoder output for channel *)
(* c of frame n, although outputs carry no reliable timestamp of their own; *)
(* it holds as long as no timestamp was pushed out of a full queue.         *)
PlanesFiled ==
  ~overflowed =>
    \A c \in Channels : out.plane[c].kind = "pcm" => out.plane[c].src = out.ts
=============================================================================
