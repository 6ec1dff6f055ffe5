------------------------ MODULE JitterBuffer_proofs ------------------------
(***************************************************************************)
(* The jitter buffer, for every ring length, frame size and prebuffer the  *)
(* assumptions of module JitterBuffer allow, and any number of channels.   *)
(***************************************************************************)
EXTENDS JitterBuffer, TLAPS

-----------------------------------------------------------------------------
(* Remainders *)

LEMMA DivisionRemainder ==
  ASSUME NEW x \in Int, NEW m \in Nat \ {0}
  PROVE  x = m * (x \div m) + (x % m) /\ x % m \in 0 .. m - 1 /\ x \div m \in Int
  OBVIOUS

LEMMA RemainderUnique ==
  ASSUME NEW m \in Nat \ {0}, NEW q \in Int, NEW r \in 0 .. m - 1
  PROVE  (m * q + r) % m = r
  OBVIOUS

(* Going a whole modulus up keeps the remainder. *)
LEMMA RemainderPeriod ==
  ASSUME NEW x \in Int, NEW m \in Nat \ {0}
  PROVE  (x + m) % m = x % m
<1>1. PICK q \in Int, r \in 0 .. m - 1 : x = m * q + r /\ r = x % m
  BY DivisionRemainder
<1>2. q + 1 \in Int /\ x + m = m * (q + 1) + r
  BY <1>1
<1>3. (m * (q + 1) + r) % m = r
  BY <1>2, RemainderUnique
<1> QED
  BY <1>1, <1>2, <1>3

(* What is left of x without its remainder is a multiple. *)
LEMMA RemainderTaken ==
  ASSUME NEW x \in Int, NEW m \in Nat \ {0}
  PROVE  (x - (x % m)) % m = 0
<1> DEFINE q == x \div m
<1>1. x = m * q + (x % m) /\ q \in Int
  BY DivisionRemainder
<1>2. x - (x % m) = m * q + 0 /\ 0 \in 0 .. m - 1
  BY <1>1, DivisionRemainder
<1> QED
  BY <1>1, <1>2, RemainderUnique

(* Two times less than a ring apart are in different slots. *)
LEMMA SlotsDiffer ==
  ASSUME NEW m \in Nat \ {0}, NEW a \in Int, NEW b \in Int,
         a % m = b % m, a - b < m, b - a < m
  PROVE  a = b
<1> DEFINE q == a \div m
           p == b \div m
           r == a % m
<1>1. a = m * q + r /\ b = m * p + r /\ q \in Int /\ p \in Int /\ r \in Int
  BY DivisionRemainder
<1>2. a - b = m * (q - p)
  BY <1>1
<1>3. m * (q - p) < m /\ m * (q - p) > -m
  BY <1>1, <1>2
<1>4. q - p < 1
  BY <1>1, <1>3
<1>5. q - p > -1
  BY <1>1, <1>3
<1> QED
  BY <1>1, <1>4, <1>5

-----------------------------------------------------------------------------
(* The depths, and what the snap does to the read pointer *)

LEMMA Depths ==
  /\ DrainDepth \in Nat /\ DrainDepth >= Prebuffer + FrameSize
  /\ MaxDepth \in Nat /\ DrainDepth <= MaxDepth
  /\ MaxDepth <= BufLen - FrameSize
<1>1. DrainFrames * FrameSize \in Nat /\ DrainFrames * FrameSize >= FrameSize
  BY SizesAssumption
<1>2. DriftFrames * FrameSize \in Nat
  BY SizesAssumption
<1> QED
  BY <1>1, <1>2, SizesAssumption, DrainAssumption DEF DrainDepth, MaxDepth

LEMMA RoundUpAligns ==
  ASSUME NEW t \in Nat, NEW anchor \in Nat
  PROVE  /\ RoundUp(t, anchor) \in t .. t + FrameSize - 1
         /\ (RoundUp(t, anchor) - anchor) % FrameSize = 0
<1>0. FrameSize \in Nat \ {0}
  BY SizesAssumption
<1>1. PICK d \in Int : d = t - anchor
  OBVIOUS
<1>2. PICK rem \in 0 .. FrameSize - 1 : rem = d % FrameSize
  BY <1>0, DivisionRemainder
<1>3. (d - rem) % FrameSize = 0
  BY <1>0, <1>2, RemainderTaken
<1>4. CASE rem = 0
  <2>1. RoundUp(t, anchor) = t
    BY <1>1, <1>2, <1>4 DEF RoundUp
  <2> QED
    BY <1>0, <1>1, <1>2, <1>4, <2>1
<1>5. CASE rem # 0
  <2>1. RoundUp(t, anchor) = t + FrameSize - rem
    BY <1>1, <1>2, <1>5 DEF RoundUp
  <2>2. RoundUp(t, anchor) - anchor = (d - rem) + FrameSize
    BY <1>0, <1>1, <2>1
  <2>3. d - rem \in Int
    OBVIOUS
  <2>4. ((d - rem) + FrameSize) % FrameSize = 0
    BY <1>0, <1>3, <2>3, RemainderPeriod
  <2> QED
    BY <1>0, <1>5, <2>1, <2>2, <2>4
<1> QED
  BY <1>4, <1>5

(* The snap moves the read pointer forward, to a frame boundary, keeps it   *)
(* behind the frontier and leaves more than a prebuffer to read.            *)
LEMMA SnapBounds ==
  ASSUME NEW read \in Nat, NEW write \in Nat, NEW anchor \in Nat,
         read <= write, (read - anchor) % FrameSize = 0
  PROVE  /\ Snap(read, write, anchor) \in Nat
         /\ Snap(read, write, anchor) >= read
         /\ Snap(read, write, anchor) <= write
         /\ write - Snap(read, write, anchor) <= MaxDepth
         /\ (Snap(read, write, anchor) - anchor) % FrameSize = 0
         /\ Snap(read, write, anchor) # read =>
              /\ write - read > MaxDepth
              /\ write - Snap(read, write, anchor) > Prebuffer
<1>1. CASE write - read > MaxDepth
  <2>1. PICK t \in Nat : t = write - DrainDepth /\ t > read
    BY <1>1, Depths
  <2>2. Snap(read, write, anchor) = RoundUp(t, anchor)
    BY <1>1, <2>1 DEF Snap
  <2>3. PICK s \in t .. t + FrameSize - 1 :
          s = Snap(read, write, anchor) /\ (s - anchor) % FrameSize = 0
    BY <2>2, RoundUpAligns
  <2>4. s \in Nat /\ s > read /\ s <= write /\ write - s <= MaxDepth /\ write - s > Prebuffer
    BY <2>1, Depths, SizesAssumption
  <2> QED
    BY <1>1, <2>3, <2>4
<1>2. CASE ~(write - read > MaxDepth)
  BY <1>2, Depths DEF Snap
<1> QED
  BY <1>1, <1>2

-----------------------------------------------------------------------------
(* The pointers *)

PointerInv ==
  /\ TypeOK
  /\ initTs < 0 => writeTs = 0 /\ readTs = 0 /\ \A c \in Channels : live[c] = {}
  /\ DepthBounded
  /\ FrameAligned

(* What a write that is not entirely in the past does to the pointers. *)
LEMMA WriteMoves ==
  ASSUME PointerInv, NEW ts \in Timestamps, NEW n \in Lengths, ts + n > ReadFrom(ts),
         NEW w, w = Frontier(ts, n), NEW r, r = Snap(ReadFrom(ts), w, Anchor(ts))
  PROVE  /\ ts \in Nat /\ n \in 1 .. FrameSize
         /\ Anchor(ts) \in Nat /\ ReadFrom(ts) \in Nat /\ w \in Nat /\ r \in Nat
         /\ w >= ts + n /\ w >= writeTs /\ w \in {ts + n, writeTs}
         /\ ReadFrom(ts) <= r /\ r <= w /\ w - r <= MaxDepth
         /\ (r - Anchor(ts)) % FrameSize = 0
         /\ r # ReadFrom(ts) => w - ReadFrom(ts) > MaxDepth /\ w - r > Prebuffer
         /\ initTs >= 0 => ReadFrom(ts) = readTs
<1>1. ts \in Nat /\ n \in 1 .. FrameSize
  BY InputsAssumption
<1>2. /\ Anchor(ts) \in Nat /\ ReadFrom(ts) \in Nat /\ w \in Nat
      /\ w >= ts + n /\ w >= writeTs /\ w \in {ts + n, writeTs} /\ ReadFrom(ts) <= w
      /\ initTs >= 0 => ReadFrom(ts) = readTs
  BY <1>1, SizesAssumption DEF PointerInv, TypeOK, DepthBounded, Anchor, ReadFrom, Frontier
<1>3. (ReadFrom(ts) - Anchor(ts)) % FrameSize = 0
  <2>1. CASE initTs < 0
    <3>1. ReadFrom(ts) - Anchor(ts) = FrameSize * 0 + 0 /\ 0 \in 0 .. FrameSize - 1
      BY <1>1, <2>1, SizesAssumption DEF ReadFrom, Anchor
    <3> QED
      BY <3>1, RemainderUnique, SizesAssumption
  <2>2. CASE ~(initTs < 0)
    BY <2>2 DEF ReadFrom, Anchor, PointerInv, TypeOK, FrameAligned
  <2> QED
    BY <2>1, <2>2
<1> QED
  BY <1>1, <1>2, <1>3, SnapBounds

(* The samples of a packet over a ring. *)
LEMMA StoreSlots ==
  ASSUME NEW ring \in [Slots -> Sample], NEW ts \in Nat, NEW n \in 1 .. FrameSize
  PROVE  /\ Store(ring, ts, n) \in [Slots -> Sample]
         /\ \A p \in Slots :
              \/ \E t \in ts .. ts + n - 1 : Slot(t) = p /\ Store(ring, ts, n)[p] = t
              \/ /\ \A t \in ts .. ts + n - 1 : Slot(t) # p
                 /\ Store(ring, ts, n)[p] = ring[p]
<1> DEFINE V(p) == IF \E k \in 0 .. n - 1 : Slot(ts + k) = p
                     THEN CHOOSE t \in ts .. ts + n - 1 : Slot(t) = p
                     ELSE ring[p]
<1>1. ASSUME NEW p \in Slots
      PROVE  /\ V(p) \in Sample
             /\ \/ \E t \in ts .. ts + n - 1 : Slot(t) = p /\ V(p) = t
                \/ (\A t \in ts .. ts + n - 1 : Slot(t) # p) /\ V(p) = ring[p]
  <2>1. CASE \E t \in ts .. ts + n - 1 : Slot(t) = p
    <3>1. \E k \in 0 .. n - 1 : Slot(ts + k) = p
      <4>1. PICK t \in ts .. ts + n - 1 : Slot(t) = p
        BY <2>1
      <4>2. PICK k \in 0 .. n - 1 : t = ts + k
        BY <4>1, SizesAssumption
      <4> QED
        BY <4>1, <4>2
    <3>2. V(p) \in ts .. ts + n - 1 /\ Slot(V(p)) = p
      BY <2>1, <3>1
    <3> QED
      BY <3>2, SizesAssumption DEF Sample
  <2>2. CASE ~ \E t \in ts .. ts + n - 1 : Slot(t) = p
    <3>1. ~ \E k \in 0 .. n - 1 : Slot(ts + k) = p
      <4>1. \A k \in 0 .. n - 1 : ts + k \in ts .. ts + n - 1
        BY SizesAssumption
      <4> QED
        BY <2>2, <4>1
    <3>2. V(p) = ring[p]
      BY <3>1
    <3> QED
      BY <2>2, <3>2
  <2> QED
    BY <2>1, <2>2
<1>2. Store(ring, ts, n) = [p \in Slots |-> V(p)]
  BY DEF Store
<1> QED
  BY <1>1, <1>2

LEMMA InitPointerInv == Init => PointerInv
<1> SUFFICES ASSUME Init PROVE PointerInv
  OBVIOUS
<1>1. TypeOK
  BY DEF Init, TypeOK, Sample, Silence
<1>2. DepthBounded /\ FrameAligned
  BY Depths DEF Init, DepthBounded, FrameAligned
<1> QED
  BY <1>1, <1>2 DEF Init, PointerInv

LEMMA WritePointerInv ==
  ASSUME PointerInv, NEW ts \in Timestamps, NEW c \in Channels, NEW n \in Lengths,
         WriteChannel(ts, c, n)
  PROVE  PointerInv'
<1>1. PICK w : w = Frontier(ts, n)
  OBVIOUS
<1>2. PICK r : r = Snap(ReadFrom(ts), w, Anchor(ts))
  OBVIOUS
<1>3. /\ ts + n > ReadFrom(ts)
      /\ initTs' = Anchor(ts) /\ writeTs' = w /\ readTs' = r
      /\ started' = (started \/ w - r >= Prebuffer)
      /\ buf' = [buf EXCEPT ![c] = Store(@, ts, n)]
      /\ live' = [d \in Channels |->
                    {t \in IF d = c THEN live[d] \cup ts .. ts + n - 1 ELSE live[d] : t >= r}]
  BY <1>1, <1>2 DEF WriteChannel
<1>4. /\ ts \in Nat /\ n \in 1 .. FrameSize
      /\ Anchor(ts) \in Nat /\ w \in Nat /\ r \in Nat
      /\ r <= w /\ w - r <= MaxDepth
      /\ (r - Anchor(ts)) % FrameSize = 0
  BY <1>1, <1>2, <1>3, WriteMoves
<1>5. TypeOK'
  <2>1. buf[c] \in [Slots -> Sample]
    BY DEF PointerInv, TypeOK
  <2>2. Store(buf[c], ts, n) \in [Slots -> Sample]
    BY <1>4, <2>1, StoreSlots
  <2>3. buf' \in [Channels -> [Slots -> Sample]]
    BY <1>3, <2>2 DEF PointerInv, TypeOK
  <2>4. live' \in [Channels -> SUBSET Nat]
    <3>1. ts .. ts + n - 1 \subseteq Nat
      BY <1>4, SizesAssumption
    <3> QED
      BY <1>3, <3>1 DEF PointerInv, TypeOK
  <2>5. started' \in BOOLEAN
    BY <1>3
  <2> QED
    BY <1>3, <1>4, <2>3, <2>4, <2>5 DEF TypeOK
<1>6. DepthBounded' /\ FrameAligned' /\ initTs' >= 0
  BY <1>3, <1>4, Depths DEF DepthBounded, FrameAligned, MaxDepth
<1> QED
  BY <1>4, <1>3, <1>5, <1>6 DEF PointerInv

LEMMA ReadPointerInv ==
  ASSUME PointerInv, ReadFrame
  PROVE  PointerInv'
<1>1. /\ initTs \in Nat /\ readTs \in Nat /\ writeTs \in Nat
      /\ writeTs - readTs >= FrameSize /\ readTs' = readTs + FrameSize
      /\ UNCHANGED <<initTs, writeTs, started>>
  BY SizesAssumption DEF ReadFrame, PointerInv, TypeOK
<1>2. TypeOK'
  <2>1. buf' \in [Channels -> [Slots -> Sample]]
    BY DEF ReadFrame, PointerInv, TypeOK, Sample
  <2>2. live' \in [Channels -> SUBSET Nat]
    BY DEF ReadFrame, PointerInv, TypeOK
  <2> QED
    BY <1>1, <2>1, <2>2, SizesAssumption DEF PointerInv, TypeOK
<1>3. DepthBounded'
  BY <1>1, SizesAssumption, Depths DEF PointerInv, DepthBounded, MaxDepth
<1>4. FrameAligned'
  <2>1. PICK d \in Int : d = readTs - initTs
    BY <1>1
  <2>2. d % FrameSize = 0
    BY <1>1, <2>1 DEF PointerInv, FrameAligned
  <2>3. readTs' - initTs' = d + FrameSize
    BY <1>1, <2>1, SizesAssumption
  <2> QED
    BY <2>2, <2>3, RemainderPeriod, SizesAssumption DEF FrameAligned
<1> QED
  BY <1>1, <1>2, <1>3, <1>4 DEF PointerInv

LEMMA NextPointerInv == PointerInv /\ [Next]_vars => PointerInv'
<1>1. PointerInv /\ UNCHANGED vars => PointerInv'
  BY DEF vars, PointerInv, TypeOK, DepthBounded, FrameAligned
<1> QED
  BY <1>1, WritePointerInv, ReadPointerInv DEF Next

(* Every reachable state of the buffer is well typed. *)
THEOREM TypeCorrect == Spec => []TypeOK
<1>1. PointerInv => TypeOK
  BY DEF PointerInv
<1> QED
  BY <1>1, InitPointerInv, NextPointerInv, PTL DEF Spec

(* The buffered latency stays between zero and the cap. *)
THEOREM LatencyBounded == Spec => []DepthBounded
<1>1. PointerInv => DepthBounded
  BY DEF PointerInv
<1> QED
  BY <1>1, InitPointerInv, NextPointerInv, PTL DEF Spec

(* The read pointer stays on the client's frame boundaries. *)
THEOREM ReadsAligned == Spec => []FrameAligned
<1>1. PointerInv => FrameAligned
  BY DEF PointerInv
<1> QED
  BY <1>1, InitPointerInv, NextPointerInv, PTL DEF Spec

(* An overflow skips forward only, and leaves more than a prebuffer. *)
THEOREM SnapsForward == Spec => SnapForward
<1> DEFINE Forward ==
      initTs >= 0 =>
        /\ readTs' >= readTs
        /\ writeTs' # writeTs /\ readTs' # readTs => writeTs' - readTs' > Prebuffer
<1>1. ASSUME PointerInv, NEW ts \in Timestamps, NEW c \in Channels, NEW n \in Lengths,
             WriteChannel(ts, c, n)
      PROVE  Forward
  <2>1. PICK w : w = Frontier(ts, n)
    OBVIOUS
  <2>2. PICK r : r = Snap(ReadFrom(ts), w, Anchor(ts))
    OBVIOUS
  <2>3. ts + n > ReadFrom(ts) /\ writeTs' = w /\ readTs' = r
    BY <1>1, <2>1, <2>2 DEF WriteChannel
  <2> QED
    BY <1>1, <2>1, <2>2, <2>3, WriteMoves
<1>2. PointerInv /\ ReadFrame => Forward
  BY SizesAssumption DEF ReadFrame, PointerInv, TypeOK
<1>3. PointerInv /\ UNCHANGED vars => Forward
  BY DEF vars, PointerInv, TypeOK
<1>4. PointerInv /\ [Next]_vars => [Forward]_vars
  BY <1>1, <1>2, <1>3 DEF Next
<1> QED
  BY <1>4, InitPointerInv, NextPointerInv, PTL DEF Spec, SnapForward

-----------------------------------------------------------------------------
(* What the ring holds *)

(* Besides the two properties: no slot holds a sample at or beyond the      *)
(* write frontier, so a pending slot nobody wrote this lap is stale.        *)
RingInv ==
  /\ PointerInv
  /\ WindowIntact
  /\ NeverEarly
  /\ \A c \in Channels, p \in Slots : buf[c][p] < writeTs

LEMMA SlotInRing ==
  ASSUME NEW t \in Nat
  PROVE  Slot(t) \in Slots
  BY DivisionRemainder, SizesAssumption DEF Slot, Slots

LEMMA SameSlot ==
  ASSUME NEW u \in Nat, NEW t \in Nat, Slot(u) = Slot(t), u - t < BufLen, t - u < BufLen
  PROVE  u = t
<1>1. BufLen \in Nat \ {0} /\ u \in Int /\ t \in Int /\ u % BufLen = t % BufLen
  BY SizesAssumption DEF Slot
<1> QED
  BY <1>1, SlotsDiffer

(* No sample of a packet that is accepted shares its slot with another time *)
(* of the new window: it may be partly late, but by less than a frame, and  *)
(* the cap leaves a frame of the ring free.                                 *)
LEMMA PacketClear ==
  ASSUME PointerInv, NEW ts \in Timestamps, NEW n \in Lengths, ts + n > ReadFrom(ts),
         NEW w, w = Frontier(ts, n), NEW r, r = Snap(ReadFrom(ts), w, Anchor(ts)),
         NEW u \in ts .. ts + n - 1, NEW t \in r .. w - 1, Slot(u) = Slot(t),
         t < writeTs \/ t <= u
  PROVE  u = t
<1>1. /\ ts \in Nat /\ n \in 1 .. FrameSize
      /\ ReadFrom(ts) \in Nat /\ w \in Nat /\ r \in Nat
      /\ w >= ts + n /\ w >= writeTs /\ w \in {ts + n, writeTs}
      /\ ReadFrom(ts) <= r /\ r <= w /\ w - r <= MaxDepth
      /\ r # ReadFrom(ts) => w - ReadFrom(ts) > MaxDepth
      /\ initTs >= 0 => ReadFrom(ts) = readTs
  BY WriteMoves
<1>2. u \in Nat /\ t \in Nat /\ BufLen \in Nat \ {0} /\ FrameSize \in Nat \ {0}
  BY <1>1, SizesAssumption
<1>3. u - t < BufLen
  BY <1>1, <1>2, Depths
<1>4. CASE t <= u
  BY <1>2, <1>3, <1>4, SameSlot
<1>5. CASE t < writeTs
  <2>1. initTs >= 0 /\ writeTs - readTs <= MaxDepth /\ writeTs \in Nat /\ readTs \in Nat
    BY <1>2, <1>5 DEF PointerInv, TypeOK, DepthBounded
  <2>2. t - u < BufLen
    BY <1>1, <1>2, <1>5, <2>1, Depths
  <2> QED
    BY <1>2, <1>3, <2>2, SameSlot
<1> QED
  BY <1>4, <1>5

LEMMA WriteRingInv ==
  ASSUME RingInv, NEW ts \in Timestamps, NEW c \in Channels, NEW n \in Lengths,
         WriteChannel(ts, c, n)
  PROVE  RingInv'
<1>0. PointerInv /\ PointerInv'
  BY WritePointerInv DEF RingInv
<1>1. PICK w : w = Frontier(ts, n)
  OBVIOUS
<1>2. PICK r : r = Snap(ReadFrom(ts), w, Anchor(ts))
  OBVIOUS
<1>3. /\ ts + n > ReadFrom(ts)
      /\ writeTs' = w /\ readTs' = r
      /\ buf' = [buf EXCEPT ![c] = Store(@, ts, n)]
      /\ live' = [d \in Channels |->
                    {t \in IF d = c THEN live[d] \cup ts .. ts + n - 1 ELSE live[d] : t >= r}]
  BY <1>1, <1>2 DEF WriteChannel
<1>4. /\ ts \in Nat /\ n \in 1 .. FrameSize /\ w \in Nat /\ r \in Nat
      /\ w >= ts + n /\ w >= writeTs /\ ReadFrom(ts) <= r
      /\ initTs >= 0 => ReadFrom(ts) = readTs
  BY <1>0, <1>1, <1>2, <1>3, WriteMoves
<1>5. /\ writeTs \in Nat /\ readTs \in Nat
      /\ \A d \in Channels : live[d] \subseteq Nat /\ buf[d] \in [Slots -> Sample]
  BY <1>0 DEF PointerInv, TypeOK
<1>6. \A d \in Channels : buf'[d] = IF d = c THEN Store(buf[c], ts, n) ELSE buf[d]
  BY <1>0, <1>3 DEF PointerInv, TypeOK
<1>7. \A p \in Slots :
        \/ \E u \in ts .. ts + n - 1 : Slot(u) = p /\ buf'[c][p] = u
        \/ (\A u \in ts .. ts + n - 1 : Slot(u) # p) /\ buf'[c][p] = buf[c][p]
  BY <1>4, <1>5, <1>6, StoreSlots
<1>8. ASSUME NEW d \in Channels, NEW p \in Slots PROVE buf'[d][p] < w
  <2>1. buf[d][p] \in Sample /\ buf[d][p] < writeTs
    BY <1>5 DEF RingInv
  <2>2. buf[d][p] < w
    BY <1>4, <1>5, <2>1 DEF Sample, Silence
  <2>3. \A u \in ts .. ts + n - 1 : u < w
    BY <1>4, SizesAssumption
  <2> QED
    BY <1>6, <1>7, <2>2, <2>3
<1>9. ASSUME NEW d \in Channels, NEW t \in live'[d]
      PROVE  readTs' <= t /\ t < writeTs' /\ buf'[d][Slot(t)] = t
  <2>1. t >= r /\ (t \in live[d] \/ (d = c /\ t \in ts .. ts + n - 1))
    BY <1>3, <1>9
  <2>2. t \in Nat
    BY <1>4, <1>5, <2>1, SizesAssumption
  <2>3. t < w /\ (t \in live[d] => t < writeTs /\ buf[d][Slot(t)] = t)
    BY <1>4, <1>5, <2>1, <2>2, SizesAssumption DEF RingInv, WindowIntact
  <2>4. buf'[d][Slot(t)] = t
    <3>1. CASE d # c
      BY <1>6, <2>1, <2>3, <3>1
    <3>2. CASE d = c
      <4>1. \A u \in ts .. ts + n - 1 : Slot(u) = Slot(t) => u = t
        <5>1. ASSUME NEW u \in ts .. ts + n - 1, Slot(u) = Slot(t) PROVE u = t
          <6>1. t \in r .. w - 1
            BY <1>4, <2>1, <2>2, <2>3
          <6>2. CASE t < writeTs \/ t <= u
            BY <1>0, <1>1, <1>2, <1>3, <5>1, <6>1, <6>2, PacketClear
          <6>3. CASE t > u /\ t \in ts .. ts + n - 1
            <7>1. t - u < BufLen /\ u - t < BufLen /\ u \in Nat
              BY <1>4, <2>2, <6>3, SizesAssumption
            <7> QED
              BY <2>2, <5>1, <7>1, SameSlot
          <6> QED
            BY <1>4, <2>1, <2>2, <2>3, <6>2, <6>3, SizesAssumption
        <5> QED
          BY <5>1
      <4>2. Slot(t) \in Slots
        BY <2>2, SlotInRing
      <4> QED
        BY <1>7, <2>1, <2>3, <3>2, <4>1, <4>2
    <3> QED
      BY <3>1, <3>2
  <2> QED
    BY <1>3, <2>1, <2>3, <2>4
<1>10. ASSUME NEW d \in Channels, NEW t \in r .. w - 1 PROVE buf'[d][Slot(t)] <= t
  <2>1. t \in Nat /\ Slot(t) \in Slots
    BY <1>4, SlotInRing
  <2>2. buf[d][Slot(t)] <= t
    <3>1. buf[d][Slot(t)] \in Sample /\ buf[d][Slot(t)] < writeTs
      BY <1>5, <2>1 DEF RingInv
    <3>2. CASE t < writeTs
      <4>1. initTs >= 0
        BY <1>0, <1>5, <2>1, <3>2 DEF PointerInv, TypeOK
      <4>2. t \in readTs .. writeTs - 1
        BY <1>4, <1>5, <2>1, <3>2, <4>1
      <4> QED
        BY <4>2 DEF RingInv, NeverEarly, Pending
    <3>3. CASE ~(t < writeTs)
      BY <1>5, <2>1, <3>1, <3>3 DEF Sample, Silence
    <3> QED
      BY <3>2, <3>3
  <2>3. \A u \in ts .. ts + n - 1 : Slot(u) = Slot(t) => u <= t
    <3>1. ASSUME NEW u \in ts .. ts + n - 1, Slot(u) = Slot(t), t <= u PROVE u = t
      BY <1>0, <1>1, <1>2, <1>3, <3>1, PacketClear
    <3> QED
      BY <1>4, <2>1, <3>1
  <2> QED
    BY <1>6, <1>7, <2>1, <2>2, <2>3
<1> QED
  BY <1>0, <1>3, <1>8, <1>9, <1>10 DEF RingInv, WindowIntact, NeverEarly, Pending

LEMMA ReadRingInv ==
  ASSUME RingInv, ReadFrame
  PROVE  RingInv'
<1>0. PointerInv /\ PointerInv'
  BY ReadPointerInv DEF RingInv
<1>1. /\ readTs \in Nat /\ writeTs \in Nat /\ BufLen \in Nat \ {0} /\ FrameSize \in Nat \ {0}
      /\ readTs' = readTs + FrameSize /\ writeTs' = writeTs
      /\ writeTs - readTs <= BufLen
      /\ live' = [c \in Channels |-> {t \in live[c] : t >= readTs + FrameSize}]
      /\ \A c \in Channels : live[c] \subseteq Nat /\ buf[c] \in [Slots -> Sample]
  BY <1>0, Depths, SizesAssumption DEF ReadFrame, PointerInv, TypeOK, DepthBounded
<1>2. \A c \in Channels, p \in Slots :
        \/ buf'[c][p] = buf[c][p]
        \/ /\ buf'[c][p] = Silence
           /\ \E k \in 0 .. FrameSize - 1 : Slot(readTs + k) = p
  BY DEF ReadFrame
<1>3. ASSUME NEW t \in readTs + FrameSize .. writeTs - 1, NEW k \in 0 .. FrameSize - 1
      PROVE  Slot(readTs + k) # Slot(t)
  <2>1. readTs + k \in Nat /\ t \in Nat /\ readTs + k # t
    BY <1>1
  <2>2. (readTs + k) - t < BufLen /\ t - (readTs + k) < BufLen
    BY <1>1
  <2> QED
    BY <1>1, <2>1, <2>2, SameSlot
<1>4. ASSUME NEW c \in Channels, NEW t \in live'[c]
      PROVE  readTs' <= t /\ t < writeTs' /\ buf'[c][Slot(t)] = t
  <2>1. t \in live[c] /\ t >= readTs + FrameSize /\ t \in Nat
    BY <1>1
  <2>2. t < writeTs /\ buf[c][Slot(t)] = t
    BY <2>1 DEF RingInv, WindowIntact
  <2>3. t \in readTs + FrameSize .. writeTs - 1 /\ Slot(t) \in Slots
    BY <1>1, <2>1, <2>2, SlotInRing
  <2> QED
    BY <1>1, <1>2, <1>3, <2>1, <2>2, <2>3
<1>5. ASSUME NEW c \in Channels, NEW t \in readTs + FrameSize .. writeTs - 1
      PROVE  buf'[c][Slot(t)] <= t
  <2>1. t \in Nat /\ Slot(t) \in Slots /\ t \in readTs .. writeTs - 1
    BY <1>1, SlotInRing
  <2>2. buf[c][Slot(t)] <= t
    BY <2>1 DEF RingInv, NeverEarly, Pending
  <2> QED
    BY <1>2, <1>3, <2>1, <2>2
<1>6. ASSUME NEW c \in Channels, NEW p \in Slots PROVE buf'[c][p] < writeTs
  BY <1>1, <1>2 DEF RingInv, Silence
<1> QED
  BY <1>0, <1>1, <1>4, <1>5, <1>6 DEF RingInv, WindowIntact, NeverEarly, Pending

LEMMA InitRingInv == Init => RingInv
<1> SUFFICES ASSUME Init PROVE RingInv
  OBVIOUS
<1>1. WindowIntact /\ NeverEarly
  BY DEF Init, WindowIntact, NeverEarly, Pending
<1>2. \A c \in Channels, p \in Slots : buf[c][p] < writeTs
  BY DEF Init, Silence
<1> QED
  BY <1>1, <1>2, InitPointerInv DEF RingInv

LEMMA NextRingInv == RingInv /\ [Next]_vars => RingInv'
<1>1. RingInv /\ UNCHANGED vars => RingInv'
  BY NextPointerInv DEF vars, RingInv, WindowIntact, NeverEarly, Pending
<1> QED
  BY <1>1, WriteRingInv, ReadRingInv DEF Next

(* No accepted sample is overwritten before it is read or skipped. *)
THEOREM AcceptedSamplesSurvive == Spec => []WindowIntact
<1>1. RingInv => WindowIntact
  BY DEF RingInv
<1> QED
  BY <1>1, InitRingInv, NextRingInv, PTL DEF Spec

(* No slot of the window holds a sample recorded later than its time. *)
THEOREM NothingPlaysEarly == Spec => []NeverEarly
<1>1. RingInv => NeverEarly
  BY DEF RingInv
<1> QED
  BY <1>1, InitRingInv, NextRingInv, PTL DEF Spec
=============================================================================
