------------------------ MODULE ClientReceive_proofs ------------------------
(***************************************************************************)
(* The client's receive path, for any channels, bundles, frames, ring      *)
(* sizes and prebuffers the assumptions allow.                             *)
(***************************************************************************)
EXTENDS ClientReceive, TLAPS

-----------------------------------------------------------------------------
(* Remainders *)

LEMMA DivisionRemainder ==
  ASSUME NEW x \in Int, NEW m \in Nat \ {0}
  PROVE  x = m * (x \div m) + (x % m) /\ x % m \in 0 .. m - 1 /\ x \div m \in Int
  OBVIOUS

(* Two times less than a ring apart are in different slots. *)
LEMMA SlotsDiffer ==
  ASSUME NEW m \in Nat \ {0}, NEW a \in Int, NEW b \in Int,
         a % m = b % m, a - b < m, b - a < m
  PROVE  a = b
<1> DEFINE q == a \div m
           p == b \div m
           r == a % m
<1>1. a = m * q + r /\ b = m * p + r /\ q \in Int /\ p \in Int /\ r \in Int
  BY DivisionRemainder
<1>2. a - b = m * (q - p)
  BY <1>1
<1>3. m * (q - p) < m /\ m * (q - p) > -m
  BY <1>1, <1>2
<1>4. q - p < 1
  BY <1>1, <1>3
<1>5. q - p > -1
  BY <1>1, <1>3
<1> QED
  BY <1>1, <1>4, <1>5

-----------------------------------------------------------------------------
(* Assembly *)

(* The packets on their way through the decoders.  As long as no timestamp  *)
(* was pushed out, those beside a decoder are those of the packets in it.   *)
QueueInv ==
  /\ bundled \in BOOLEAN
  /\ rxBundle \in [ts : FrameOrNone, seen : SUBSET Channels]
  /\ lastDecoded \in [Channels -> FrameOrNone]
  /\ tsQueue  \in [Channels -> Seq(Frames)]
  /\ decoding \in [Channels -> Seq(Frames)]
  /\ \A c \in Channels : Len(tsQueue[c]) <= QueueCap /\ Len(tsQueue[c]) <= Len(decoding[c])
  /\ overflowed \in BOOLEAN
  /\ ~overflowed => tsQueue = decoding

(* The frames being assembled and the last one dispatched.                  *)
SlotType ==
  /\ ring \in [0 .. Cells - 1 -> Slot]
  /\ \A i \in 0 .. Cells - 1 :
       ring[i] # NoFrame => ring[i].ts \in timers /\ ring[i].ts % Cells = i
  /\ timers \subseteq Frames
  /\ lastFlushed \in FrameOrNone
  /\ lastGood  \in [Channels -> BOOLEAN]
  /\ holdCount \in [Channels -> 0 .. MaxHolds]
  /\ out \in [ts : FrameOrNone, plane : [Channels -> Plane]]
  /\ out.ts = lastFlushed

(* As long as no timestamp was pushed out, outputs are with their frames.   *)
SlotsFiled ==
  /\ \A i \in 0 .. Cells - 1, c \in Channels : ring[i].pcm[c] \in {None, ring[i].ts}
  /\ \A c \in Channels : out.plane[c].kind = "pcm" => out.plane[c].src = out.ts

AsmInv ==
  /\ QueueInv
  /\ SlotType
  /\ ~overflowed => SlotsFiled

LEMMA AsmInvTyped == AsmInv => AsmTypeOK
  BY DEF AsmInv, QueueInv, SlotType, AsmTypeOK

LEMMA FramesAreNumbers ==
  /\ \A n \in Frames : n \in Nat
  /\ \A n \in FrameOrNone : n \in Int /\ n >= -1 /\ (n # -1 => n \in Frames)
  /\ None = -1 /\ Cells \in Nat \ {0}
  BY AssemblyAssumption DEF None, FrameOrNone

LEMMA InitAsmInv == AsmInit => AsmInv
<1> SUFFICES ASSUME AsmInit PROVE AsmInv
  OBVIOUS
<1>1. QueueInv
  <2>1. \A c \in Channels : tsQueue[c] = <<>> /\ decoding[c] = <<>>
    BY DEF AsmInit
  <2>2. \A c \in Channels : Len(tsQueue[c]) = 0 /\ Len(decoding[c]) = 0
    BY <2>1
  <2>3. /\ tsQueue \in [Channels -> Seq(Frames)] /\ decoding \in [Channels -> Seq(Frames)]
        /\ tsQueue = decoding
    BY DEF AsmInit
  <2>4. rxBundle \in [ts : FrameOrNone, seen : SUBSET Channels] /\ bundled \in BOOLEAN
    BY AssemblyAssumption DEF AsmInit, FrameOrNone
  <2>5. lastDecoded \in [Channels -> FrameOrNone] /\ overflowed \in BOOLEAN
    BY DEF AsmInit, FrameOrNone
  <2> QED
    BY <2>2, <2>3, <2>4, <2>5, AssemblyAssumption DEF QueueInv
<1>2. NoFrame \in Slot
  BY DEF NoFrame, Slot, FrameOrNone
<1>3. SlotType
  <2>1. out \in [ts : FrameOrNone, plane : [Channels -> Plane]] /\ out.ts = lastFlushed
    BY DEF AsmInit, FrameOrNone, Plane
  <2>2. ring \in [0 .. Cells - 1 -> Slot] /\ \A i \in 0 .. Cells - 1 : ring[i] = NoFrame
    BY <1>2 DEF AsmInit
  <2>3. holdCount \in [Channels -> 0 .. MaxHolds]
    BY AssemblyAssumption DEF AsmInit
  <2> QED
    BY <2>1, <2>2, <2>3 DEF AsmInit, SlotType, FrameOrNone
<1>4. SlotsFiled
  BY DEF AsmInit, SlotsFiled, NoFrame
<1> QED
  BY <1>1, <1>3, <1>4 DEF AsmInv

LEMMA PushType ==
  ASSUME NEW q \in Seq(Frames), Len(q) <= QueueCap, NEW n \in Frames
  PROVE  /\ Push(q, n) \in Seq(Frames)
         /\ Len(Push(q, n)) <= QueueCap
         /\ Len(Push(q, n)) <= Len(q) + 1
         /\ Len(q) # QueueCap => Push(q, n) = Append(q, n)
<1>1. CASE Len(q) = QueueCap
  <2>1. q # <<>>
    BY <1>1, AssemblyAssumption
  <2>2. Tail(q) \in Seq(Frames) /\ Len(Tail(q)) = Len(q) - 1
    BY <2>1
  <2>3. Push(q, n) = Append(Tail(q), n)
    BY <1>1 DEF Push
  <2> QED
    BY <1>1, <2>2, <2>3
<1>2. CASE Len(q) # QueueCap
  <2>1. Push(q, n) = Append(q, n)
    BY <1>2 DEF Push
  <2> QED
    BY <1>2, <2>1, AssemblyAssumption
<1> QED
  BY <1>1, <1>2

(* A packet touches the gates and the decoders only. *)
LEMMA DecodeInv ==
  ASSUME AsmInv, NEW chans \in SUBSET Channels, NEW n \in Frames, Decode(chans, n),
         rxBundle' \in [ts : FrameOrNone, seen : SUBSET Channels],
         UNCHANGED <<bundled, slotVars>>
  PROVE  AsmInv'
<1> DEFINE accepted == {c \in chans : n > lastDecoded[c]}
<1>0. QueueInv /\ SlotType
  BY DEF AsmInv
<1>1. /\ lastDecoded' = [c \in Channels |-> IF c \in accepted THEN n ELSE lastDecoded[c]]
      /\ tsQueue'  = [c \in Channels |-> IF c \in accepted THEN Push(tsQueue[c], n) ELSE tsQueue[c]]
      /\ decoding' = [c \in Channels |-> IF c \in accepted THEN Append(decoding[c], n) ELSE decoding[c]]
      /\ overflowed' = (overflowed \/ \E c \in accepted : Len(tsQueue[c]) = QueueCap)
  BY DEF Decode
<1>2. lastDecoded' \in [Channels -> FrameOrNone]
  BY <1>0, <1>1 DEF QueueInv, FrameOrNone
<1>3. ASSUME NEW c \in Channels
      PROVE  /\ tsQueue'[c] \in Seq(Frames) /\ decoding'[c] \in Seq(Frames)
             /\ Len(tsQueue'[c]) <= QueueCap /\ Len(tsQueue'[c]) <= Len(decoding'[c])
             /\ ~overflowed' => tsQueue'[c] = decoding'[c]
  <2>1. /\ tsQueue[c] \in Seq(Frames) /\ decoding[c] \in Seq(Frames)
        /\ Len(tsQueue[c]) <= QueueCap /\ Len(tsQueue[c]) <= Len(decoding[c])
        /\ ~overflowed => tsQueue[c] = decoding[c]
    BY <1>0 DEF QueueInv
  <2>2. CASE c \in accepted
    <3>1. tsQueue'[c] = Push(tsQueue[c], n) /\ decoding'[c] = Append(decoding[c], n)
      BY <1>1, <2>2
    <3>2. ~overflowed' => ~overflowed /\ Len(tsQueue[c]) # QueueCap
      BY <1>1, <2>2
    <3>3. Len(Append(decoding[c], n)) = Len(decoding[c]) + 1 /\ Append(decoding[c], n) \in Seq(Frames)
      BY <2>1
    <3>4. Len(Push(tsQueue[c], n)) \in Nat /\ Len(tsQueue[c]) \in Nat /\ Len(decoding[c]) \in Nat
      BY <2>1, PushType
    <3>5. /\ Push(tsQueue[c], n) \in Seq(Frames)
          /\ Len(Push(tsQueue[c], n)) <= QueueCap
          /\ Len(Push(tsQueue[c], n)) <= Len(tsQueue[c]) + 1
          /\ Len(tsQueue[c]) # QueueCap => Push(tsQueue[c], n) = Append(tsQueue[c], n)
      BY <2>1, PushType
    <3>6. Len(tsQueue'[c]) <= Len(decoding'[c])
      BY <2>1, <3>1, <3>3, <3>4, <3>5
    <3>7. ~overflowed' => tsQueue'[c] = decoding'[c]
      BY <2>1, <3>1, <3>2, <3>5
    <3> QED
      BY <3>1, <3>3, <3>5, <3>6, <3>7
  <2>3. CASE c \notin accepted
    BY <1>1, <2>1, <2>3
  <2> QED
    BY <2>2, <2>3
<1>4. tsQueue' \in [Channels -> Seq(Frames)] /\ decoding' \in [Channels -> Seq(Frames)]
  BY <1>1, <1>3
<1>5. ~overflowed' => tsQueue' = decoding'
  BY <1>1, <1>3
<1>6. overflowed' \in BOOLEAN /\ bundled' \in BOOLEAN
  BY <1>0, <1>1 DEF QueueInv
<1>7. QueueInv'
  BY <1>2, <1>3, <1>4, <1>5, <1>6 DEF QueueInv
<1>8. SlotType' /\ (~overflowed' => SlotsFiled')
  BY <1>0, <1>1 DEF AsmInv, slotVars, SlotType, SlotsFiled
<1> QED
  BY <1>7, <1>8 DEF AsmInv

LEMMA PacketInv ==
  ASSUME AsmInv, NEW n \in Frames,
         \/ \E chans \in Groups : OnBundle(chans, n)
         \/ \E c \in Channels : OnPacket(c, n)
  PROVE  AsmInv'
<1>0. rxBundle \in [ts : FrameOrNone, seen : SUBSET Channels]
  BY DEF AsmInv, QueueInv
<1>1. ASSUME NEW chans \in Groups, OnBundle(chans, n) PROVE AsmInv'
  <2> DEFINE seen == IF rxBundle.ts = n THEN rxBundle.seen ELSE {}
  <2>1. chans \subseteq Channels /\ seen \subseteq Channels /\ n \in FrameOrNone
    BY <1>0, AssemblyAssumption DEF FrameOrNone
  <2>2. /\ rxBundle' = [ts |-> n, seen |-> seen \cup chans]
        /\ Decode(chans \ seen, n) /\ UNCHANGED <<bundled, slotVars>>
    BY <1>1 DEF OnBundle
  <2> HIDE DEF seen
  <2>3. rxBundle' \in [ts : FrameOrNone, seen : SUBSET Channels]
    BY <2>1, <2>2
  <2>4. chans \ seen \in SUBSET Channels
    BY <2>1
  <2> QED
    BY <2>2, <2>3, <2>4, DecodeInv
<1>2. ASSUME NEW c \in Channels, OnPacket(c, n) PROVE AsmInv'
  <2>1. Decode({c}, n) /\ UNCHANGED <<bundled, rxBundle, slotVars>>
    BY <1>2 DEF OnPacket
  <2>2. {c} \in SUBSET Channels
    OBVIOUS
  <2> QED
    BY <1>0, <2>1, <2>2, DecodeInv
<1> QED
  BY <1>1, <1>2

(* A step of a decoder; what its output is taken for is what it is of, as   *)
(* long as no timestamp was pushed out.                                     *)
LEMMA OutputInv ==
  ASSUME AsmInv, NEW c \in Channels, Output(c)
  PROVE  /\ QueueInv' /\ overflowed' = overflowed
         /\ Pcm(c) \in Frames /\ Stamp(c) \in FrameOrNone
         /\ ~overflowed => Stamp(c) = Pcm(c)
<1>0. QueueInv
  BY DEF AsmInv
<1>1. /\ decoding[c] # <<>> /\ decoding' = [decoding EXCEPT ![c] = Tail(decoding[c])]
      /\ tsQueue' = [tsQueue EXCEPT ![c] = IF tsQueue[c] = <<>> THEN <<>> ELSE Tail(tsQueue[c])]
      /\ UNCHANGED <<bundled, rxBundle, lastDecoded, overflowed>>
  BY DEF Output, gateVars
<1>2. /\ tsQueue[c] \in Seq(Frames) /\ decoding[c] \in Seq(Frames)
      /\ Len(tsQueue[c]) <= QueueCap /\ Len(tsQueue[c]) <= Len(decoding[c])
      /\ ~overflowed => tsQueue[c] = decoding[c]
  BY <1>0 DEF QueueInv
<1>3. /\ Pcm(c) \in Frames /\ Stamp(c) \in FrameOrNone
      /\ ~overflowed => Stamp(c) = Pcm(c)
  BY <1>1, <1>2 DEF Pcm, Stamp, FrameOrNone
<1>4. /\ Tail(decoding[c]) \in Seq(Frames) /\ Len(Tail(decoding[c])) = Len(decoding[c]) - 1
      /\ tsQueue[c] # <<>> =>
           Tail(tsQueue[c]) \in Seq(Frames) /\ Len(Tail(tsQueue[c])) = Len(tsQueue[c]) - 1
  BY <1>1, <1>2
<1>5. /\ tsQueue' \in [Channels -> Seq(Frames)] /\ decoding' \in [Channels -> Seq(Frames)]
      /\ ~overflowed => tsQueue' = decoding'
  BY <1>0, <1>1, <1>2, <1>4 DEF QueueInv
<1>6. Len(tsQueue'[c]) <= QueueCap /\ Len(tsQueue'[c]) <= Len(decoding'[c])
  <2>1. decoding'[c] = Tail(decoding[c]) /\ Len(decoding[c]) \in Nat /\ Len(tsQueue[c]) \in Nat
    BY <1>0, <1>1, <1>2 DEF QueueInv
  <2>2. Len(decoding[c]) > 0
    BY <1>1, <1>2
  <2>3. CASE tsQueue[c] = <<>>
    <3>1. tsQueue'[c] = <<>>
      BY <1>0, <1>1, <2>3 DEF QueueInv
    <3>2. Len(tsQueue'[c]) = 0
      BY <3>1
    <3> QED
      BY <1>4, <2>1, <2>2, <3>2, AssemblyAssumption
  <2>4. CASE tsQueue[c] # <<>>
    <3>1. tsQueue'[c] = Tail(tsQueue[c])
      BY <1>0, <1>1, <2>4 DEF QueueInv
    <3> QED
      BY <1>2, <1>4, <2>1, <2>4, <3>1, AssemblyAssumption
  <2> QED
    BY <2>3, <2>4
<1>7. ASSUME NEW d \in Channels
      PROVE  Len(tsQueue'[d]) <= QueueCap /\ Len(tsQueue'[d]) <= Len(decoding'[d])
  <2>1. CASE d # c
    BY <1>0, <1>1, <2>1 DEF QueueInv
  <2> QED
    BY <1>6, <2>1
<1>8. QueueInv'
  BY <1>0, <1>1, <1>5, <1>7 DEF QueueInv
<1> QED
  BY <1>1, <1>3, <1>8

(* Dispatching a slot. *)
LEMMA PlanesType ==
  ASSUME NEW slot \in Slot
  PROVE  /\ Planes(slot) \in [Channels -> Plane]
         /\ \A c \in Channels : Planes(slot)[c].kind = "pcm" =>
              slot.pcm[c] # None /\ Planes(slot)[c].src = slot.pcm[c]
<1>1. ASSUME NEW c \in Channels
      PROVE  /\ Planes(slot)[c] \in Plane
             /\ Planes(slot)[c].kind = "pcm" =>
                  slot.pcm[c] # None /\ Planes(slot)[c].src = slot.pcm[c]
  <2>1. slot.pcm[c] \in FrameOrNone /\ None \in FrameOrNone
    BY DEF Slot, FrameOrNone
  <2>2. Planes(slot)[c] = IF c \notin Missing(slot) THEN [kind |-> "pcm", src |-> slot.pcm[c]]
                          ELSE IF Holds(c) THEN [kind |-> "held", src |-> None]
                          ELSE [kind |-> "mute", src |-> None]
    BY DEF Planes
  <2>3. c \notin Missing(slot) => slot.pcm[c] # None
    BY DEF Missing
  <2> QED
    BY <2>1, <2>2, <2>3 DEF Plane
<1>2. Planes(slot) = [c \in Channels |-> Planes(slot)[c]]
  BY DEF Planes
<1> QED
  BY <1>1, <1>2

LEMMA FlushFrameInv ==
  ASSUME SlotType, NEW slot \in Slot, FlushFrame(slot)
  PROVE  /\ lastFlushed' \in FrameOrNone
         /\ out' \in [ts : FrameOrNone, plane : [Channels -> Plane]]
         /\ out'.ts = lastFlushed'
         /\ HoldCount(slot) \in [Channels -> 0 .. MaxHolds]
         /\ out' # out => out'.ts > out.ts
         /\ (\A c \in Channels : slot.pcm[c] \in {None, slot.ts}) =>
              \A c \in Channels : out'.plane[c].kind = "pcm" =>
                \/ out' = out
                \/ out'.plane[c].src = out'.ts
<1>1. HoldCount(slot) \in [Channels -> 0 .. MaxHolds]
  BY AssemblyAssumption DEF SlotType, HoldCount, Holds
<1>2. CASE slot.ts <= lastFlushed
  BY <1>1, <1>2 DEF FlushFrame, SlotType
<1>3. CASE ~(slot.ts <= lastFlushed)
  <2>1. lastFlushed' = slot.ts /\ out' = [ts |-> slot.ts, plane |-> Planes(slot)]
    BY <1>3 DEF FlushFrame
  <2>2. slot.ts \in FrameOrNone /\ slot.ts > lastFlushed
    BY <1>3, FramesAreNumbers DEF Slot, SlotType
  <2>3. Planes(slot) \in [Channels -> Plane]
    BY PlanesType
  <2>4. \A c \in Channels : Planes(slot)[c].kind = "pcm" =>
          slot.pcm[c] # None /\ Planes(slot)[c].src = slot.pcm[c]
    BY PlanesType
  <2>5. out'.ts = slot.ts /\ out'.plane = Planes(slot)
    BY <2>1
  <2>6. out'.ts > out.ts
    BY <2>2, <2>5 DEF SlotType
  <2> QED
    BY <1>1, <2>1, <2>2, <2>3, <2>4, <2>5, <2>6
<1> QED
  BY <1>2, <1>3

(* The slot of an output that is wanted. *)
LEMMA SlotOfOutput ==
  ASSUME AsmInv, NEW c \in Channels, Output(c), Stamp(c) > lastFlushed
  PROVE  /\ Stamp(c) \in Frames /\ Cell(Stamp(c)) \in 0 .. Cells - 1
         /\ SlotOf(Stamp(c)) \in Slot /\ Fresh(Stamp(c)) \in Slot
         /\ \A slot \in Slot : With(slot, c) \in Slot /\ With(slot, c).ts = slot.ts
         /\ ~overflowed => \A slot \in Slot :
              /\ slot.ts = Stamp(c)
              /\ \A d \in Channels : slot.pcm[d] \in {None, slot.ts}
              => \A d \in Channels : With(slot, c).pcm[d] \in {None, slot.ts}
         /\ Fresh(Stamp(c)).ts = Stamp(c)
         /\ \A d \in Channels : Fresh(Stamp(c)).pcm[d] = None
         /\ SlotsFiled => \A d \in Channels : SlotOf(Stamp(c)).pcm[d] \in {None, SlotOf(Stamp(c)).ts}
<1> DEFINE n == Stamp(c)
<1>1. /\ Pcm(c) \in Frames /\ n \in FrameOrNone
      /\ ~overflowed => n = Pcm(c)
  BY OutputInv
<1>2. n \in Frames
  <2>1. lastFlushed \in Int /\ lastFlushed >= -1
    BY FramesAreNumbers DEF AsmInv, SlotType
  <2> QED
    BY <1>1, <2>1, FramesAreNumbers
<1>3. Cell(n) \in 0 .. Cells - 1
  <2>1. n \in Int /\ Cells \in Nat \ {0}
    BY <1>2, FramesAreNumbers
  <2>2. n % Cells \in 0 .. Cells - 1
    BY <2>1, DivisionRemainder
  <2> QED
    BY <2>2 DEF Cell
<1>4. Fresh(n) = [ts |-> n, pcm |-> [d \in Channels |-> None]]
  BY DEF Fresh, NoFrame
<1>5. Fresh(n) \in Slot
  BY <1>2, <1>4 DEF Slot, FrameOrNone
<1>6. SlotOf(n) \in Slot
  BY <1>3, <1>5 DEF SlotOf, AsmInv, SlotType
<1>7. ASSUME NEW slot \in Slot
      PROVE  /\ With(slot, c) = [ts |-> slot.ts, pcm |-> [slot.pcm EXCEPT ![c] = Pcm(c)]]
             /\ With(slot, c) \in Slot
  <2>1. With(slot, c) = [ts |-> slot.ts, pcm |-> [slot.pcm EXCEPT ![c] = Pcm(c)]]
    BY DEF With, Slot
  <2>2. [slot.pcm EXCEPT ![c] = Pcm(c)] \in [Channels -> FrameOrNone] /\ slot.ts \in FrameOrNone
    BY <1>1 DEF Slot, FrameOrNone
  <2> QED
    BY <2>1, <2>2 DEF Slot
<1>8. ASSUME ~overflowed, NEW slot \in Slot, slot.ts = n,
             \A d \in Channels : slot.pcm[d] \in {None, slot.ts}, NEW d \in Channels
      PROVE  With(slot, c).pcm[d] \in {None, slot.ts}
  BY <1>1, <1>7, <1>8 DEF Slot
<1>9. SlotsFiled => \A d \in Channels : SlotOf(n).pcm[d] \in {None, SlotOf(n).ts}
  BY <1>3, <1>4 DEF SlotsFiled, SlotOf
<1> QED
  BY <1>2, <1>3, <1>4, <1>5, <1>6, <1>7, <1>8, <1>9

(* One cell of the ring is rewritten. *)
RingType ==
  /\ ring \in [0 .. Cells - 1 -> Slot]
  /\ \A i \in 0 .. Cells - 1 :
       ring[i] # NoFrame => ring[i].ts \in timers /\ ring[i].ts % Cells = i

LEMMA RingUpdate ==
  ASSUME RingType, NEW i \in 0 .. Cells - 1, NEW slot \in Slot,
         ring' = [ring EXCEPT ![i] = slot],
         slot # NoFrame => slot.ts \in timers' /\ slot.ts % Cells = i,
         \A j \in 0 .. Cells - 1 : j # i /\ ring[j] # NoFrame => ring[j].ts \in timers'
  PROVE  RingType'
<1>1. ring' \in [0 .. Cells - 1 -> Slot]
  BY DEF RingType
<1>2. ASSUME NEW j \in 0 .. Cells - 1, ring'[j] # NoFrame
      PROVE  ring'[j].ts \in timers' /\ ring'[j].ts % Cells = j
  <2>1. CASE j = i
    BY <1>2, <2>1 DEF RingType
  <2>2. CASE j # i
    BY <1>2, <2>2 DEF RingType
  <2> QED
    BY <2>1, <2>2
<1> QED
  BY <1>1, <1>2 DEF RingType

LEMMA RingFiled ==
  ASSUME RingType, SlotsFiled, NEW i \in 0 .. Cells - 1, NEW slot \in Slot,
         ring' = [ring EXCEPT ![i] = slot],
         \A d \in Channels : slot.pcm[d] \in {None, slot.ts}
  PROVE  \A j \in 0 .. Cells - 1, d \in Channels : ring'[j].pcm[d] \in {None, ring'[j].ts}
<1> TAKE j \in 0 .. Cells - 1, d \in Channels
<1>1. CASE j = i
  BY <1>1 DEF RingType
<1>2. CASE j # i
  BY <1>2 DEF RingType, SlotsFiled
<1> QED
  BY <1>1, <1>2

(* An output remembered for concealment. *)
LEMMA RememberType ==
  ASSUME SlotType, NEW c \in Channels, NEW counts \in [Channels -> 0 .. MaxHolds],
         Remember(c, counts)
  PROVE  lastGood' \in [Channels -> BOOLEAN] /\ holdCount' \in [Channels -> 0 .. MaxHolds]
  BY AssemblyAssumption DEF Remember, SlotType

(* What every step of the assembly does: the invariant is kept and what is  *)
(* dispatched is later than what was.                                       *)
Kept == AsmInv' /\ (out' # out => out'.ts > out.ts)

LEMMA FillFrameInv ==
  ASSUME AsmInv, NEW c \in Channels, FillFrame(c)
  PROVE  Kept
<1> DEFINE n == Stamp(c)
           slot == With(SlotOf(n), c)
<1>0. SlotType /\ RingType
  BY DEF AsmInv, SlotType, RingType
<1>1. /\ Output(c) /\ n > lastFlushed /\ slot.ts = n
      /\ ring' = [ring EXCEPT ![Cell(n)] = slot] /\ timers' = timers \cup {n}
      /\ Remember(c, holdCount) /\ lastFlushed' = lastFlushed /\ out' = out
  BY DEF FillFrame, Wanted
<1>2. n \in Frames /\ Cell(n) \in 0 .. Cells - 1 /\ SlotOf(n) \in Slot /\ slot \in Slot
      /\ SlotOf(n).ts = n
  BY <1>1, SlotOfOutput
<1>3. QueueInv' /\ overflowed' = overflowed
  BY <1>1, OutputInv
<1>4. n % Cells = Cell(n)
  BY DEF Cell
<1>5. \A j \in 0 .. Cells - 1 : ring[j] # NoFrame => ring[j].ts \in timers'
  BY <1>0, <1>1 DEF RingType
<1>6. RingType'
  <2> HIDE DEF slot, n
  <2> QED
    BY <1>0, <1>1, <1>2, <1>4, <1>5, RingUpdate
<1>7. lastGood' \in [Channels -> BOOLEAN] /\ holdCount' \in [Channels -> 0 .. MaxHolds]
  BY <1>0, <1>1, RememberType DEF SlotType
<1>8. SlotType'
  BY <1>0, <1>1, <1>2, <1>6, <1>7 DEF SlotType, RingType
<1>9. ASSUME ~overflowed PROVE SlotsFiled'
  <2>1. SlotsFiled
    BY <1>9 DEF AsmInv
  <2>2. \A d \in Channels : slot.pcm[d] \in {None, slot.ts}
    BY <1>1, <1>2, <1>9, <2>1, SlotOfOutput
  <2>3. \A j \in 0 .. Cells - 1, d \in Channels : ring'[j].pcm[d] \in {None, ring'[j].ts}
    <3> HIDE DEF slot, n
    <3> QED
      BY <1>0, <1>1, <1>2, <2>1, <2>2, RingFiled
  <2> QED
    BY <1>1, <2>1, <2>3 DEF SlotsFiled
<1> QED
  BY <1>1, <1>3, <1>8, <1>9 DEF AsmInv, Kept

LEMMA CompleteFrameInv ==
  ASSUME AsmInv, NEW c \in Channels, CompleteFrame(c)
  PROVE  Kept
<1> DEFINE n == Stamp(c)
           slot == With(SlotOf(n), c)
<1>0. SlotType /\ RingType
  BY DEF AsmInv, SlotType, RingType
<1>1. /\ Output(c) /\ n > lastFlushed /\ slot.ts = n
      /\ ring' = [ring EXCEPT ![Cell(n)] = NoFrame] /\ timers' = timers \ {n}
      /\ Remember(c, holdCount) /\ lastFlushed' = n
      /\ out' = [ts |-> n, plane |-> Planes(slot)]
  BY DEF CompleteFrame, Wanted
<1>2. n \in Frames /\ Cell(n) \in 0 .. Cells - 1 /\ SlotOf(n) \in Slot /\ slot \in Slot
      /\ SlotOf(n).ts = n
  BY <1>1, SlotOfOutput
<1>3. QueueInv' /\ overflowed' = overflowed
  BY <1>1, OutputInv
<1>4. NoFrame \in Slot /\ \A d \in Channels : NoFrame.pcm[d] = None
  BY DEF NoFrame, Slot, FrameOrNone
<1>5. \A j \in 0 .. Cells - 1 : j # Cell(n) /\ ring[j] # NoFrame => ring[j].ts \in timers'
  BY <1>0, <1>1 DEF RingType, Cell
<1>6. RingType'
  <2> HIDE DEF slot, n
  <2> QED
    BY <1>0, <1>1, <1>2, <1>4, <1>5, RingUpdate
<1>7. lastGood' \in [Channels -> BOOLEAN] /\ holdCount' \in [Channels -> 0 .. MaxHolds]
  BY <1>0, <1>1, RememberType DEF SlotType
<1>8. /\ out' \in [ts : FrameOrNone, plane : [Channels -> Plane]]
      /\ out'.ts = n /\ out'.plane = Planes(slot) /\ n \in FrameOrNone
  BY <1>1, <1>2, PlanesType DEF FrameOrNone
<1>9. SlotType'
  BY <1>0, <1>1, <1>6, <1>7, <1>8 DEF SlotType, RingType
<1>10. ASSUME ~overflowed PROVE SlotsFiled'
  <2>1. SlotsFiled
    BY <1>10 DEF AsmInv
  <2>2. \A d \in Channels : slot.pcm[d] \in {None, n}
    BY <1>1, <1>2, <1>10, <2>1, SlotOfOutput
  <2>3. \A j \in 0 .. Cells - 1, d \in Channels : ring'[j].pcm[d] \in {None, ring'[j].ts}
    <3> HIDE DEF slot, n
    <3> QED
      BY <1>0, <1>1, <1>2, <1>4, <2>1, RingFiled
  <2>4. \A d \in Channels : Planes(slot)[d].kind = "pcm" => Planes(slot)[d].src = n
    BY <1>2, <2>2, PlanesType
  <2> QED
    BY <1>8, <2>3, <2>4 DEF SlotsFiled
<1> QED
  BY <1>0, <1>1, <1>3, <1>8, <1>9, <1>10 DEF AsmInv, Kept, SlotType

LEMMA EvictFrameInv ==
  ASSUME AsmInv, NEW c \in Channels, EvictFrame(c)
  PROVE  Kept
<1> DEFINE n == Stamp(c)
           old == ring[Cell(n)]
           slot == With(Fresh(n), c)
<1>0. SlotType /\ RingType
  BY DEF AsmInv, SlotType, RingType
<1>1. /\ Output(c) /\ n > lastFlushed /\ FlushFrame(old)
      /\ ring' = [ring EXCEPT ![Cell(n)] = slot] /\ timers' = timers \cup {n}
      /\ Remember(c, HoldCount(old))
  BY DEF EvictFrame, Wanted
<1>2. /\ n \in Frames /\ Cell(n) \in 0 .. Cells - 1 /\ slot \in Slot /\ slot.ts = n
      /\ Fresh(n) \in Slot /\ Fresh(n).ts = n /\ \A d \in Channels : Fresh(n).pcm[d] = None
  BY <1>1, SlotOfOutput
<1>3. QueueInv' /\ overflowed' = overflowed
  BY <1>1, OutputInv
<1>4. old \in Slot /\ n % Cells = Cell(n)
  BY <1>0, <1>2 DEF RingType, Cell
<1>5. \A j \in 0 .. Cells - 1 : ring[j] # NoFrame => ring[j].ts \in timers'
  BY <1>0, <1>1 DEF RingType
<1>6. RingType'
  <2> HIDE DEF slot, n
  <2> QED
    BY <1>0, <1>1, <1>2, <1>4, <1>5, RingUpdate
<1>7. /\ lastFlushed' \in FrameOrNone
      /\ out' \in [ts : FrameOrNone, plane : [Channels -> Plane]]
      /\ out'.ts = lastFlushed'
      /\ HoldCount(old) \in [Channels -> 0 .. MaxHolds]
      /\ out' # out => out'.ts > out.ts
      /\ (\A d \in Channels : old.pcm[d] \in {None, old.ts}) =>
           \A d \in Channels : out'.plane[d].kind = "pcm" =>
             out' = out \/ out'.plane[d].src = out'.ts
  <2> HIDE DEF old
  <2> QED
    BY <1>0, <1>1, <1>4, FlushFrameInv
<1>8. lastGood' \in [Channels -> BOOLEAN] /\ holdCount' \in [Channels -> 0 .. MaxHolds]
  BY <1>0, <1>1, <1>7, RememberType
<1>9. SlotType'
  BY <1>0, <1>1, <1>2, <1>6, <1>7, <1>8 DEF SlotType, RingType
<1>10. ASSUME ~overflowed PROVE SlotsFiled'
  <2>1. SlotsFiled
    BY <1>10 DEF AsmInv
  <2>2. \A d \in Channels : slot.pcm[d] \in {None, slot.ts}
    BY <1>1, <1>2, <1>10, SlotOfOutput
  <2>3. \A j \in 0 .. Cells - 1, d \in Channels : ring'[j].pcm[d] \in {None, ring'[j].ts}
    <3> HIDE DEF slot, n
    <3> QED
      BY <1>0, <1>1, <1>2, <2>1, <2>2, RingFiled
  <2>4. \A d \in Channels : old.pcm[d] \in {None, old.ts}
    BY <1>2, <2>1 DEF SlotsFiled
  <2> QED
    BY <1>7, <2>1, <2>3, <2>4 DEF SlotsFiled
<1> QED
  BY <1>3, <1>7, <1>9, <1>10 DEF AsmInv, Kept

LEMMA TimeoutInv ==
  ASSUME AsmInv, NEW n \in Frames, Timeout(n)
  PROVE  Kept
<1> DEFINE old == ring[Cell(n)]
<1>0. SlotType /\ RingType /\ QueueInv
  BY DEF AsmInv, SlotType, RingType
<1>1. timers' = timers \ {n} /\ UNCHANGED <<gateVars, tsQueue, decoding, overflowed, lastGood>>
  BY DEF Timeout
<1>2. QueueInv' /\ overflowed' = overflowed
  BY <1>0, <1>1 DEF QueueInv, gateVars
<1>3. Cell(n) \in 0 .. Cells - 1
  <2>1. n % Cells \in 0 .. Cells - 1
    BY FramesAreNumbers, DivisionRemainder
  <2> QED
    BY <2>1 DEF Cell
<1>4. \A j \in 0 .. Cells - 1 : j # Cell(n) /\ ring[j] # NoFrame => ring[j].ts \in timers'
  BY <1>0, <1>1 DEF RingType, Cell
<1>5. NoFrame \in Slot /\ \A d \in Channels : NoFrame.pcm[d] = None
  BY DEF NoFrame, Slot, FrameOrNone
<1>6. CASE Due(n)
  <2>1. /\ ring' = [ring EXCEPT ![Cell(n)] = NoFrame]
        /\ FlushFrame(old) /\ holdCount' = HoldCount(old)
    BY <1>6 DEF Timeout
  <2>2. RingType'
    BY <1>0, <1>3, <1>4, <1>5, <2>1, RingUpdate
  <2>3. old \in Slot
    BY <1>0, <1>3 DEF RingType
  <2>4. /\ lastFlushed' \in FrameOrNone
        /\ out' \in [ts : FrameOrNone, plane : [Channels -> Plane]]
        /\ out'.ts = lastFlushed'
        /\ HoldCount(old) \in [Channels -> 0 .. MaxHolds]
        /\ out' # out => out'.ts > out.ts
        /\ (\A d \in Channels : old.pcm[d] \in {None, old.ts}) =>
             \A d \in Channels : out'.plane[d].kind = "pcm" =>
               out' = out \/ out'.plane[d].src = out'.ts
    <3> HIDE DEF old
    <3> QED
      BY <1>0, <2>1, <2>3, FlushFrameInv
  <2>5. SlotType'
    BY <1>0, <1>1, <2>1, <2>2, <2>4 DEF SlotType, RingType
  <2>6. ASSUME ~overflowed PROVE SlotsFiled'
    <3>1. SlotsFiled
      BY <2>6 DEF AsmInv
    <3>2. \A j \in 0 .. Cells - 1, d \in Channels : ring'[j].pcm[d] \in {None, ring'[j].ts}
      BY <1>0, <1>3, <1>5, <2>1, <3>1, RingFiled
    <3>3. \A d \in Channels : old.pcm[d] \in {None, old.ts}
      BY <1>3, <3>1 DEF SlotsFiled
    <3> QED
      BY <2>4, <3>1, <3>2, <3>3 DEF SlotsFiled
  <2> QED
    BY <1>2, <2>4, <2>5, <2>6 DEF AsmInv, Kept
<1>7. CASE ~Due(n)
  <2>1. UNCHANGED <<ring, lastFlushed, out, holdCount>>
    BY <1>7 DEF Timeout
  <2>2. \A j \in 0 .. Cells - 1 : ring[j] # NoFrame => ring[j].ts \in timers'
    BY <1>0, <1>1, <1>3, <1>7 DEF RingType, Cell, Due
  <2>3. SlotType' /\ (~overflowed => SlotsFiled')
    BY <1>0, <1>1, <2>1, <2>2 DEF AsmInv, SlotType, SlotsFiled
  <2> QED
    BY <1>2, <2>1, <2>3 DEF AsmInv, Kept
<1> QED
  BY <1>6, <1>7

LEMMA AsmStep == ASSUME AsmInv, [AsmNext]_asmVars PROVE Kept
<1>1. ASSUME UNCHANGED asmVars PROVE Kept
  BY <1>1 DEF asmVars, gateVars, slotVars, AsmInv, QueueInv, SlotType, SlotsFiled, Kept
<1>2. ASSUME NEW n \in Frames, NEW chans \in Groups, OnBundle(chans, n) PROVE Kept
  BY <1>2, PacketInv DEF OnBundle, slotVars, Kept
<1>3. ASSUME NEW n \in Frames, NEW c \in Channels, OnPacket(c, n) PROVE Kept
  BY <1>3, PacketInv DEF OnPacket, slotVars, Kept
<1>4. ASSUME NEW c \in Channels, DropOutput(c) PROVE Kept
  <2>1. QueueInv' /\ overflowed' = overflowed /\ UNCHANGED slotVars
    BY <1>4, OutputInv DEF DropOutput
  <2> QED
    BY <2>1 DEF AsmInv, SlotType, SlotsFiled, slotVars, Kept
<1> QED
  BY <1>1, <1>2, <1>3, <1>4, FillFrameInv, CompleteFrameInv, EvictFrameInv, TimeoutInv
     DEF AsmNext, OnOutput

-----------------------------------------------------------------------------
(* Playback *)

(* The deepest the ring may be filled.                                      *)
MaxDepth == MaxPrebuf + CapFrames * FrameSize

(* Until the next frame anchors the ring it is empty; from then on it is    *)
(* written up to the end of the last frame dispatched.                      *)
PlayInv ==
  /\ PlayTypeOK
  /\ initTs = -1 => readTs = 0 /\ writeTs = 0
  /\ initTs # -1 => out.ts # None /\ writeTs = out.ts * FrameSize + FrameSize
  /\ Depth <= MaxDepth
  /\ FramesIntact

Inv == AsmInv /\ PlayInv

(* The sizes: the ring holds the deepest fill and a frame.                  *)
LEMMA Sizes ==
  /\ FrameSize \in Nat \ {0} /\ Block \in Nat \ {0} /\ BufLen \in Nat \ {0}
  /\ CapFrames * FrameSize \in Nat /\ KeepFrames * FrameSize \in Nat
  /\ KeepFrames * FrameSize <= CapFrames * FrameSize
  /\ MaxDepth + FrameSize <= BufLen
  /\ MaxDepth \in Nat
<1>1. /\ FrameSize \in Nat \ {0} /\ CapFrames \in Nat /\ KeepFrames \in Nat
      /\ KeepFrames <= CapFrames
  BY PlaybackAssumption
<1>2. CapFrames * FrameSize \in Nat /\ KeepFrames * FrameSize \in Nat
  BY <1>1
<1>3. KeepFrames * FrameSize <= CapFrames * FrameSize
  BY <1>1
<1>4. (CapFrames + 1) * FrameSize = CapFrames * FrameSize + FrameSize
  BY <1>1
<1> QED
  BY <1>1, <1>2, <1>3, <1>4, PlaybackAssumption DEF MaxDepth

LEMMA InitPlayInv == PlayInit => PlayInv
<1> SUFFICES ASSUME PlayInit PROVE PlayInv
  OBVIOUS
<1>1. buf \in [0 .. BufLen - 1 -> Int] /\ \A i \in 0 .. BufLen - 1 : buf[i] >= Silence
  BY DEF PlayInit, Empty, Silence
<1>2. Depth = 0
  BY DEF PlayInit, Depth
<1>3. live = {} /\ initTs = -1 /\ readTs = 0 /\ writeTs = 0
  BY DEF PlayInit
<1>4. PlayTypeOK
  <2>1. underrunCount \in 0 .. Threshold + 1
    BY PlaybackAssumption DEF PlayInit
  <2>2. started \in BOOLEAN /\ isUnderrunning \in BOOLEAN /\ prebuffer \in MinPrebuf .. MaxPrebuf
    BY DEF PlayInit
  <2> QED
    BY <1>1, <1>3, <2>1, <2>2 DEF PlayTypeOK
<1> QED
  BY <1>2, <1>3, <1>4, Sizes DEF PlayInv, FramesIntact

(* Where the reader is after a frame. *)
LEMMA SkipBounds ==
  ASSUME NEW from \in Nat, NEW to \in Nat, from <= to, prebuffer \in MinPrebuf .. MaxPrebuf
  PROVE  Skip(from, to) \in from .. to /\ to - Skip(from, to) <= MaxDepth
<1>1. prebuffer \in Nat /\ prebuffer <= MaxPrebuf
  BY PlaybackAssumption
<1> DEFINE cap  == CapFrames * FrameSize
           keep == KeepFrames * FrameSize
<1>2. cap \in Nat /\ keep \in Nat /\ keep <= cap
  BY Sizes
<1>3. /\ Skip(from, to) = IF to - from > prebuffer + cap THEN to - (prebuffer + keep) ELSE from
      /\ MaxDepth = MaxPrebuf + cap
  BY DEF Skip, MaxDepth
<1> HIDE DEF cap, keep
<1>4. MaxPrebuf \in Nat
  BY PlaybackAssumption
<1> QED
  BY <1>1, <1>2, <1>3, <1>4

(* A frame that begins at or after the end of what is written leaves every  *)
(* sample that is yet to be played in its place.                            *)
LEMMA WriteFrameInv ==
  ASSUME PlayInv, NEW n \in Nat, WriteFrame(n * FrameSize),
         initTs # -1 => writeTs <= n * FrameSize
  PROVE  /\ PlayTypeOK' /\ Depth' <= MaxDepth /\ FramesIntact'
         /\ initTs' # -1 /\ writeTs' = n * FrameSize + FrameSize
<1> DEFINE ts == n * FrameSize
           at == [s \in 0 .. FrameSize - 1 |-> (ts + s) % BufLen]
           from == IF initTs < 0 THEN ts ELSE readTs
           to == Larger(IF initTs < 0 THEN ts ELSE writeTs, ts + FrameSize)
           r == Skip(from, to)
<1>0. PlayTypeOK /\ FramesIntact /\ Depth <= MaxDepth
  BY DEF PlayInv
<1>1. ts \in Nat
  BY Sizes
<1>2. /\ buf' = [i \in 0 .. BufLen - 1 |->
                   IF \E s \in DOMAIN at : at[s] = i
                     THEN ts + (CHOOSE s \in DOMAIN at : at[s] = i) ELSE buf[i]]
      /\ initTs' = IF initTs < 0 THEN ts ELSE initTs
      /\ writeTs' = to /\ readTs' = r
      /\ live' = {t \in live \cup ts .. ts + FrameSize - 1 : t >= readTs'}
      /\ started' = (started \/ to - r >= prebuffer)
      /\ UNCHANGED <<prebuffer, isUnderrunning, underrunCount>>
  BY DEF WriteFrame, Positions
<1> HIDE DEF ts
<1>3. /\ initTs \in Int /\ initTs >= -1 /\ readTs \in Nat /\ writeTs \in Nat
      /\ readTs <= writeTs /\ live \subseteq readTs .. writeTs - 1
      /\ initTs < 0 => writeTs = 0
  BY <1>0 DEF PlayTypeOK, PlayInv
<1>4. to = ts + FrameSize /\ to \in Nat /\ from \in Nat /\ from <= to
  BY <1>1, <1>3, Sizes DEF Larger, ts
<1>5. r \in from .. to /\ to - r <= MaxDepth
  <2>1. prebuffer \in MinPrebuf .. MaxPrebuf
    BY <1>0 DEF PlayTypeOK
  <2> HIDE DEF from, to
  <2> QED
    BY <1>4, <2>1, SkipBounds
<1> HIDE DEF from, to, r
<1>6. DOMAIN at = 0 .. FrameSize - 1 /\ \A s \in 0 .. FrameSize - 1 : at[s] = (ts + s) % BufLen
  OBVIOUS
<1> HIDE DEF at
<1>7. buf' \in [0 .. BufLen - 1 -> Int] /\ \A i \in 0 .. BufLen - 1 : buf'[i] >= Silence
  <2>1. ASSUME NEW i \in 0 .. BufLen - 1 PROVE buf'[i] \in Int /\ buf'[i] >= Silence
    <3>1. CASE \E s \in DOMAIN at : at[s] = i
      <4>1. (CHOOSE s \in DOMAIN at : at[s] = i) \in 0 .. FrameSize - 1
        BY <1>6, <3>1
      <4>2. buf'[i] = ts + (CHOOSE s \in DOMAIN at : at[s] = i)
        BY <1>2, <3>1
      <4> QED
        BY <1>1, <4>1, <4>2, Sizes DEF Silence
    <3>2. CASE ~ \E s \in DOMAIN at : at[s] = i
      BY <1>0, <1>2, <3>2 DEF PlayTypeOK
    <3> QED
      BY <3>1, <3>2
  <2> QED
    BY <1>2, <2>1
<1>8. readTs' \in Nat /\ writeTs' \in Nat /\ readTs' <= writeTs' /\ Depth' <= MaxDepth
  BY <1>2, <1>4, <1>5 DEF Depth
<1>9. \A t \in live' : t \in Int /\ t >= readTs' /\ t < writeTs' /\ t >= 0
  BY <1>1, <1>2, <1>3, <1>4, <1>8, Sizes DEF ts
<1>10. ASSUME NEW t \in live' PROVE buf'[t % BufLen] = t
  <2>0. t \in Int /\ t >= readTs' /\ t < writeTs' /\ BufLen \in Nat \ {0}
    BY <1>9, Sizes
  <2>1. t % BufLen \in 0 .. BufLen - 1
    BY <2>0, DivisionRemainder
  <2>2. ASSUME NEW s \in 0 .. FrameSize - 1, (ts + s) % BufLen = t % BufLen
        PROVE  ts + s = t
    <3>1. ts + s \in Int /\ ts + s < writeTs' /\ ts + s >= ts
      BY <1>1, <1>2, <1>4, Sizes
    <3>2. (ts + s) - t < BufLen
      BY <1>2, <1>4, <1>8, <2>0, <3>1, Sizes, SMTT(30) DEF Depth
    <3>3. t - (ts + s) < BufLen
      BY <1>1, <1>2, <1>4, <2>0, Sizes DEF MaxDepth
    <3> QED
      BY <2>0, <2>2, <3>1, <3>2, <3>3, SlotsDiffer
  <2>3. CASE t \in ts .. ts + FrameSize - 1
    <3>1. t - ts \in 0 .. FrameSize - 1 /\ at[t - ts] = t % BufLen
      <4>1. t - ts \in 0 .. FrameSize - 1 /\ ts + (t - ts) = t
        BY <1>1, <2>3, Sizes
      <4> QED
        BY <1>6, <4>1
    <3> DEFINE s0 == CHOOSE s \in DOMAIN at : at[s] = t % BufLen
    <3>2. s0 \in 0 .. FrameSize - 1 /\ at[s0] = t % BufLen
      BY <1>6, <3>1
    <3>3. buf'[t % BufLen] = ts + s0
      BY <1>2, <1>6, <2>1, <3>1
    <3>4. ts + s0 = t
      <4> HIDE DEF s0
      <4> QED
        BY <1>6, <2>2, <3>2
    <3> QED
      BY <3>3, <3>4
  <2>4. CASE t \notin ts .. ts + FrameSize - 1
    <3>1. t \in live
      BY <1>2, <2>4
    <3>2. \A s \in DOMAIN at : at[s] # t % BufLen
      <4>1. ASSUME NEW s \in 0 .. FrameSize - 1, at[s] = t % BufLen PROVE FALSE
        <5>1. ts + s = t
          BY <1>6, <2>2, <4>1
        <5> QED
          BY <1>1, <2>4, <4>1, <5>1, Sizes
      <4> QED
        BY <1>6, <4>1
    <3>3. buf'[t % BufLen] = buf[t % BufLen]
      BY <1>2, <2>1, <3>2
    <3> QED
      BY <1>0, <3>1, <3>3 DEF FramesIntact
  <2> QED
    BY <2>3, <2>4
<1>11. FramesIntact'
  BY <1>10 DEF FramesIntact
<1>12. initTs' \in Int /\ initTs' >= 0 /\ started' \in BOOLEAN
  BY <1>0, <1>1, <1>2, <1>3 DEF PlayTypeOK
<1>13. live' \subseteq readTs' .. writeTs' - 1
  BY <1>8, <1>9
<1>14. PlayTypeOK'
  BY <1>0, <1>2, <1>7, <1>8, <1>12, <1>13 DEF PlayTypeOK
<1> QED
  BY <1>2, <1>4, <1>8, <1>11, <1>12, <1>14 DEF ts

(* A quantum clears what the reader passes and nothing else. *)
LEMMA ProcessInv == ASSUME PlayInv, Process, out' = out PROVE PlayInv'
<1>0. PlayTypeOK /\ FramesIntact /\ Depth <= MaxDepth
  BY DEF PlayInv
<1>1. /\ Depth >= Block /\ buf' = AfterPlay /\ readTs' = readTs + Block
      /\ live' = {t \in live : t >= readTs'} /\ isUnderrunning' = FALSE
      /\ UNCHANGED <<initTs, writeTs, started, prebuffer, underrunCount>>
  BY DEF Process
<1>2. /\ readTs \in Nat /\ writeTs \in Nat /\ live \subseteq readTs .. writeTs - 1
      /\ Block \in Nat \ {0} /\ BufLen \in Nat \ {0} /\ MaxDepth \in Nat
      /\ MaxDepth < BufLen
  BY <1>0, Sizes DEF PlayTypeOK
<1>3. /\ readTs' \in Nat /\ readTs' <= writeTs' /\ Depth' <= MaxDepth /\ Depth \in Int
  BY <1>0, <1>1, <1>2 DEF Depth
<1>4. live' \subseteq readTs' .. writeTs' - 1
  <2>1. ASSUME NEW t \in live' PROVE t \in readTs' .. writeTs' - 1
    <3>1. t \in live /\ t >= readTs'
      BY <1>1, <2>1
    <3>2. t \in Int /\ t <= writeTs - 1
      BY <1>2, <3>1
    <3> QED
      BY <1>1, <1>2, <1>3, <3>1, <3>2
  <2> QED
    BY <2>1
<1>5. buf' \in [0 .. BufLen - 1 -> Int] /\ \A i \in 0 .. BufLen - 1 : buf'[i] >= Silence
  BY <1>0, <1>1 DEF AfterPlay, PlayTypeOK, Silence
<1>6. PlayTypeOK'
  BY <1>0, <1>1, <1>3, <1>4, <1>5 DEF PlayTypeOK
<1>7. ASSUME NEW t \in live' PROVE buf'[t % BufLen] = t
  <2>1. t \in live /\ t \in Int /\ t >= readTs + Block /\ t < writeTs
    BY <1>1, <1>2, <1>4
  <2>2. t % BufLen \in 0 .. BufLen - 1
    BY <1>2, <2>1, DivisionRemainder
  <2>3. ASSUME NEW s \in 0 .. Block - 1, (readTs + s) % BufLen = t % BufLen PROVE FALSE
    <3>1. readTs + s \in Int /\ t - (readTs + s) < BufLen /\ (readTs + s) - t < BufLen
      BY <1>0, <1>2, <2>1 DEF Depth
    <3>2. readTs + s = t
      BY <1>2, <2>1, <2>3, <3>1, SlotsDiffer
    <3> QED
      BY <1>2, <2>1, <3>2
  <2>4. buf'[t % BufLen] = buf[t % BufLen]
    BY <1>1, <2>2, <2>3 DEF AfterPlay
  <2> QED
    BY <1>0, <2>1, <2>4 DEF FramesIntact
<1>8. FramesIntact'
  BY <1>7 DEF FramesIntact
<1>9. /\ initTs' # -1
      /\ out'.ts # None /\ writeTs' = out'.ts * FrameSize + FrameSize
  <2>1. initTs # -1
    BY <1>1, <1>2 DEF PlayInv, Depth
  <2> QED
    BY <1>1, <2>1 DEF PlayInv
<1> QED
  BY <1>3, <1>6, <1>8, <1>9 DEF PlayInv

LEMMA ReanchorInv ==
  ASSUME PlayInv, Reanchor, prebuffer' \in MinPrebuf .. MaxPrebuf,
         underrunCount' \in 0 .. Threshold + 1
  PROVE  PlayInv'
<1>1. /\ buf' = Empty /\ initTs' = -1 /\ readTs' = 0 /\ writeTs' = 0
      /\ started' = FALSE /\ live' = {} /\ isUnderrunning' = FALSE
  BY DEF Reanchor
<1>2. buf' \in [0 .. BufLen - 1 -> Int] /\ \A i \in 0 .. BufLen - 1 : buf'[i] >= Silence
  BY <1>1 DEF Empty, Silence
<1>3. PlayTypeOK'
  <2>1. live' \subseteq readTs' .. writeTs' - 1 /\ initTs' \in Int /\ initTs' >= -1
    BY <1>1
  <2>2. readTs' \in Nat /\ writeTs' \in Nat /\ readTs' <= writeTs'
    BY <1>1
  <2>3. started' \in BOOLEAN /\ isUnderrunning' \in BOOLEAN
    BY <1>1
  <2> QED
    BY <1>2, <2>1, <2>2, <2>3 DEF PlayTypeOK
<1>4. Depth' = 0
  BY <1>1 DEF Depth
<1> QED
  BY <1>1, <1>3, <1>4, Sizes DEF PlayInv, FramesIntact

(* A step that leaves the ring alone. *)
LEMMA RingUntouched ==
  ASSUME PlayInv, UNCHANGED ringVars, out' = out, prebuffer' \in MinPrebuf .. MaxPrebuf,
         underrunCount' \in 0 .. Threshold + 1, isUnderrunning' \in BOOLEAN
  PROVE  PlayInv'
  BY DEF ringVars, PlayInv, PlayTypeOK, Depth, FramesIntact

LEMMA TargetType ==
  ASSUME NEW n \in Int
  PROVE  Within(n) \in MinPrebuf .. MaxPrebuf
  BY PlaybackAssumption DEF Within

LEMMA PlayStepInv == ASSUME PlayInv, PlayStep, out' = out PROVE PlayInv'
<1>0. /\ prebuffer \in MinPrebuf .. MaxPrebuf /\ underrunCount \in 0 .. Threshold + 1
      /\ isUnderrunning \in BOOLEAN /\ Threshold \in Nat /\ MinPrebuf \in Nat
      /\ prebuffer \in Nat /\ FrameSize \in Nat /\ MaxPrebuf \in Nat
  BY PlaybackAssumption DEF PlayInv, PlayTypeOK
<1>1. CASE Underrun
  BY <1>0, <1>1, RingUntouched DEF Underrun
<1>2. CASE Process
  BY <1>2, ProcessInv
<1>3. CASE StartAudio
  BY <1>0, <1>3, ReanchorInv DEF StartAudio
<1>4. ASSUME NEW jitter \in Jitters, Grow(jitter) PROVE PlayInv'
  <2> DEFINE next == Within(Larger(Target(jitter), prebuffer + FrameSize))
  <2>1. Target(jitter) \in Int
    BY <1>0, TargetType, PlaybackAssumption DEF Target
  <2>2. next \in MinPrebuf .. MaxPrebuf
    BY <1>0, <2>1, TargetType DEF Larger
  <2>3. /\ underrunCount' = 0 /\ prebuffer' = next
        /\ \/ Reanchor
           \/ UNCHANGED <<ringVars, isUnderrunning>>
    BY <1>4 DEF Grow
  <2> HIDE DEF next
  <2>4. underrunCount' \in 0 .. Threshold + 1
    BY <1>0, <2>3
  <2> QED
    BY <1>0, <2>2, <2>3, <2>4, ReanchorInv, RingUntouched
<1>5. ASSUME NEW jitter \in Jitters, Settle(jitter) PROVE PlayInv'
  <2>1. jitter + FrameSize \in Int
    BY <1>0, PlaybackAssumption
  <2>2. Target(jitter) \in MinPrebuf .. MaxPrebuf
    BY <2>1, TargetType DEF Target
  <2>3. (FrameSize + 1) \div 2 \in Nat
    BY <1>0
  <2>4. prebuffer' \in MinPrebuf .. MaxPrebuf
    <3>1. prebuffer > Target(jitter) =>
            Larger(Target(jitter), prebuffer - (FrameSize + 1) \div 2) \in MinPrebuf .. MaxPrebuf
      <4> DEFINE half == (FrameSize + 1) \div 2
      <4>1. half \in Nat
        BY <2>3
      <4> HIDE DEF half
      <4>2. prebuffer > Target(jitter) => Larger(Target(jitter), prebuffer - half) \in MinPrebuf .. MaxPrebuf
        BY <1>0, <2>2, <4>1 DEF Larger
      <4> QED
        BY <4>2 DEF half
    <3>2. prebuffer' = IF underrunCount = 0 /\ prebuffer > Target(jitter)
                         THEN Larger(Target(jitter), prebuffer - (FrameSize + 1) \div 2)
                         ELSE prebuffer
      BY <1>5 DEF Settle
    <3> QED
      BY <1>0, <3>1, <3>2
  <2>5. underrunCount' \in 0 .. Threshold + 1 /\ UNCHANGED <<ringVars, isUnderrunning>>
    BY <1>0, <1>5 DEF Settle
  <2> QED
    BY <1>0, <2>4, <2>5, RingUntouched
<1> QED
  BY <1>1, <1>2, <1>3, <1>4, <1>5 DEF PlayStep

-----------------------------------------------------------------------------
(* The composition *)

(* A frame dispatched begins where what is written ends, or later. *)
LEMMA AheadOfWritten ==
  ASSUME Inv, Kept, out' # out
  PROVE  /\ out'.ts \in Nat
         /\ initTs # -1 => writeTs <= out'.ts * FrameSize /\ readTs <= out'.ts * FrameSize
<1>1. /\ out.ts \in Int /\ out.ts >= -1 /\ out'.ts \in Int /\ out'.ts > out.ts
      /\ FrameSize \in Nat \ {0}
  BY FramesAreNumbers, Sizes DEF Inv, Kept, AsmInv, SlotType
<1>2. out'.ts \in Nat
  BY <1>1
<1>3. (out.ts + 1) * FrameSize <= out'.ts * FrameSize
  <2>1. out'.ts - (out.ts + 1) \in Nat
    BY <1>1
  <2>2. (out'.ts - (out.ts + 1)) * FrameSize \in Nat
    BY <1>1, <2>1
  <2>3. (out'.ts - (out.ts + 1)) * FrameSize = out'.ts * FrameSize - (out.ts + 1) * FrameSize
    BY <1>1
  <2> QED
    BY <1>1, <2>2, <2>3
<1>4. (out.ts + 1) * FrameSize = out.ts * FrameSize + FrameSize
  BY <1>1
<1>5. initTs # -1 => writeTs = (out.ts + 1) * FrameSize /\ readTs <= writeTs
                     /\ readTs \in Nat /\ writeTs \in Nat
  BY <1>4 DEF Inv, PlayInv, PlayTypeOK
<1> QED
  BY <1>1, <1>2, <1>3, <1>5

LEMMA InvInit == Init => Inv
  BY InitAsmInv, InitPlayInv DEF Init, Inv

LEMMA InvNext == Inv /\ [Next]_vars => Inv' /\ Kept
<1> SUFFICES ASSUME Inv, [Next]_vars PROVE Inv' /\ Kept
  OBVIOUS
<1>0. AsmInv /\ PlayInv
  BY DEF Inv
<1>1. CASE UNCHANGED vars
  <2>1. UNCHANGED asmVars /\ UNCHANGED playVars
    BY <1>1 DEF vars
  <2>2. Kept
    BY <1>0, <2>1, AsmStep
  <2>3. PlayInv'
    BY <1>0, <2>1 DEF playVars, ringVars, asmVars, slotVars, PlayInv, PlayTypeOK, Depth, FramesIntact
  <2> QED
    BY <2>2, <2>3 DEF Kept, Inv
<1>2. CASE Assemble
  <2>1. Kept
    BY <1>0, <1>2, AsmStep DEF Assemble
  <2>2. CASE out' = out
    <3>1. UNCHANGED playVars
      BY <1>2, <2>2 DEF Assemble
    <3>2. PlayInv'
      BY <1>0, <2>2, <3>1 DEF playVars, ringVars, PlayInv, PlayTypeOK, Depth, FramesIntact
    <3> QED
      BY <2>1, <3>2 DEF Kept, Inv
  <2>3. CASE out' # out
    <3>1. WriteFrame(out'.ts * FrameSize)
      BY <1>2, <2>3 DEF Assemble
    <3>2. /\ out'.ts \in Nat /\ out'.ts # None
          /\ initTs # -1 => writeTs <= out'.ts * FrameSize
      BY <2>1, <2>3, AheadOfWritten DEF None
    <3>3. /\ PlayTypeOK' /\ Depth' <= MaxDepth /\ FramesIntact'
          /\ initTs' # -1 /\ writeTs' = out'.ts * FrameSize + FrameSize
      BY <1>0, <3>1, <3>2, WriteFrameInv
    <3>4. PlayInv'
      BY <3>2, <3>3 DEF PlayInv
    <3> QED
      BY <2>1, <3>4 DEF Kept, Inv
  <2> QED
    BY <2>2, <2>3
<1>3. CASE Play
  <2>1. Kept /\ out' = out
    BY <1>0, <1>3, AsmStep DEF Play, asmVars, slotVars
  <2>2. PlayInv'
    BY <1>0, <1>3, <2>1, PlayStepInv DEF Play
  <2> QED
    BY <2>1, <2>2 DEF Kept, Inv
<1> QED
  BY <1>1, <1>2, <1>3 DEF Next

LEMMA Invariant == Spec => []Inv
  BY InvInit, InvNext, PTL DEF Spec

(* Every reachable state of the receive path is well typed; a frame in the  *)
(* ring always has its timer pending, and the reader is never ahead of what *)
(* is written.                                                              *)
THEOREM TypeCorrect == Spec => []TypeOK
<1>1. Inv => TypeOK
  BY AsmInvTyped DEF Inv, PlayInv, TypeOK
<1> QED
  BY <1>1, Invariant, PTL

(* Outputs are played under the frame and channel they were decoded from,   *)
(* until a timestamp is pushed out of a full queue.                         *)
THEOREM FiledUnderTheirFrame == Spec => []PlanesFiled
<1>1. Inv => PlanesFiled
  BY DEF Inv, AsmInv, SlotsFiled, PlanesFiled
<1> QED
  BY <1>1, Invariant, PTL

(* Completion, timers and collisions hand frames over forward in time only. *)
THEOREM HandedOverForward == Spec => DispatchForward
<1>1. Inv /\ [Next]_vars => [out' # out => out'.ts > out.ts]_asmVars
  BY InvNext DEF Kept
<1> QED
  BY <1>1, Invariant, PTL DEF Spec, DispatchForward

(* The delay never exceeds the cap for the deepest prebuffer.               *)
THEOREM DelayStaysBounded == Spec => []DelayBounded
<1>1. Inv => DelayBounded
  BY DEF Inv, PlayInv, MaxDepth, DelayBounded
<1> QED
  BY <1>1, Invariant, PTL

(* What is written stays in its place until the reader has passed it.       *)
THEOREM WrittenSamplesSurvive == Spec => []FramesIntact
<1>1. Inv => FramesIntact
  BY DEF Inv, PlayInv
<1> QED
  BY <1>1, Invariant, PTL

(* No frame is written behind the reader, although the worklet would.       *)
THEOREM WrittenAhead == Spec => LandsAhead
<1>1. Inv /\ [Next]_vars => [out' # out /\ initTs >= 0 => out'.ts * FrameSize >= readTs]_vars
  <2> SUFFICES ASSUME Inv, [Next]_vars, out' # out, initTs >= 0
               PROVE  out'.ts * FrameSize >= readTs
    OBVIOUS
  <2>1. initTs # -1 /\ readTs \in Nat /\ FrameSize \in Nat
    BY Sizes DEF Inv, PlayInv, PlayTypeOK
  <2>2. out'.ts \in Nat /\ readTs <= out'.ts * FrameSize
    BY <2>1, InvNext, AheadOfWritten
  <2> QED
    BY <2>1, <2>2
<1> QED
  BY <1>1, Invariant, PTL DEF Spec, LandsAhead
=============================================================================
