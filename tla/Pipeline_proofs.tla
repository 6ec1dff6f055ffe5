-------------------------- MODULE Pipeline_proofs ---------------------------
(***************************************************************************)
(* The downlink pipeline for any number of frames, workers and channels,   *)
(* any layout and any capacities: who may touch a frame, what a packet is  *)
(* made of, the order in which packets leave, and the pace at which the    *)
(* send stage hands them over.                                             *)
(***************************************************************************)
EXTENDS EncodePipeline, Downlink, FiniteSetTheorems, SequenceTheorems,
        NaturalsInduction, WellFoundedInduction, TLAPS

LEMMA DivisionRemainder ==
  ASSUME NEW x \in Int, NEW m \in Nat \ {0}
  PROVE  x = m * (x \div m) + (x % m) /\ x % m \in 0 .. m - 1 /\ x \div m \in Int
  OBVIOUS

(* The channels of the workers: ranges in ascending order. *)
LEMMA DivisionMonotone ==
  ASSUME NEW a \in Nat, NEW b \in Nat, NEW m \in Nat \ {0}, a <= b
  PROVE  a \div m <= b \div m /\ a \div m \in Nat
<1> DEFINE p == a \div m
           q == b \div m
<1>1. a = m * p + (a % m) /\ b = m * q + (b % m) /\ p \in Int /\ q \in Int
      /\ a % m \in 0 .. m - 1 /\ b % m \in 0 .. m - 1
  BY DivisionRemainder
<1>2. m * p < m * (q + 1)
  BY <1>1
<1>3. p < q + 1
  BY <1>1, <1>2
<1>4. m * (p + 1) > 0
  BY <1>1
<1>5. p + 1 > 0
  BY <1>1, <1>4
<1> QED
  BY <1>1, <1>3, <1>5

LEMMA DivisionExact ==
  ASSUME NEW a \in Nat, NEW m \in Nat \ {0}
  PROVE  (a * m) \div m = a
OBVIOUS

LEMMA Ranges ==
  /\ \A w \in Workers : Lo(w) \in Nat /\ Hi(w) \in 0 .. C /\ Lo(w) <= Hi(w)
  /\ \A w, v \in Workers : w < v => Hi(w) <= Lo(v)
<1>0. K \in Nat \ {0} /\ C \in Nat \ {0} /\ Workers \subseteq Nat
  BY SizesAssumption DEF Workers
<1>1. ASSUME NEW w \in Workers PROVE Lo(w) \in Nat /\ Hi(w) \in 0 .. C /\ Lo(w) <= Hi(w)
  <2>1. w * C \in Nat /\ (w + 1) * C \in Nat /\ C * K \in Nat /\ w * C <= (w + 1) * C
    BY <1>0
  <2>2. (w + 1) * C <= C * K
    <3>1. w + 1 <= K
      BY <1>0 DEF Workers
    <3> QED
      BY <1>0, <3>1
  <2>4. (C * K) \div K = C
    BY <1>0, DivisionExact
  <2> QED
    BY <1>0, <2>1, <2>2, <2>4, DivisionMonotone DEF Lo, Hi
<1>2. ASSUME NEW w \in Workers, NEW v \in Workers, w < v PROVE Hi(w) <= Lo(v)
  <2>1. w + 1 <= v
    BY <1>0, <1>2
  <2>2. (w + 1) * C \in Nat /\ v * C \in Nat /\ (w + 1) * C <= v * C
    BY <1>0, <2>1
  <2> QED
    BY <1>0, <2>2, DivisionMonotone DEF Lo, Hi
<1> QED
  BY <1>1, <1>2

(* A channel has one worker. *)
LEMMA OneOwner ==
  ASSUME NEW w \in Workers, NEW v \in Workers, NEW c \in Lo(w) .. Hi(w) - 1,
         c \in Lo(v) .. Hi(v) - 1
  PROVE  w = v
<1>1. w < v \/ v < w \/ w = v
  BY SizesAssumption DEF Workers
<1>2. ASSUME w < v PROVE FALSE
  BY <1>2, Ranges
<1>3. ASSUME v < w PROVE FALSE
  BY <1>3, Ranges
<1> QED
  BY <1>1, <1>2, <1>3

(* Queues. *)
LEMMA ElementsAppended ==
  ASSUME NEW S, NEW q \in Seq(S), NEW x \in S
  PROVE  Append(q, x) \in Seq(S) /\ Elements(Append(q, x)) = Elements(q) \cup {x}
<1> DEFINE r == Append(q, x)
<1>1. /\ r \in Seq(S) /\ Len(r) = Len(q) + 1 /\ Len(q) \in Nat
      /\ DOMAIN q = 1 .. Len(q) /\ DOMAIN r = 1 .. Len(q) + 1
      /\ \A n \in 1 .. Len(q) : r[n] = q[n]
      /\ r[Len(q) + 1] = x
  OBVIOUS
<1> HIDE DEF r
<1>2. \A n \in DOMAIN r : n \in DOMAIN q \/ n = Len(q) + 1
  BY <1>1
<1>3. Elements(r) \subseteq Elements(q) \cup {x}
  BY <1>1, <1>2 DEF Elements
<1>4. Elements(q) \cup {x} \subseteq Elements(r)
  BY <1>1 DEF Elements
<1> QED
  BY <1>1, <1>3, <1>4 DEF r

LEMMA ElementsOfTail ==
  ASSUME NEW S, NEW q \in Seq(S), q # <<>>
  PROVE  /\ Tail(q) \in Seq(S) /\ Head(q) \in Elements(q) /\ Head(q) \in S
         /\ Elements(q) = Elements(Tail(q)) \cup {Head(q)}
         /\ Elements(q) \subseteq S
<1> DEFINE r == Tail(q)
<1>1. /\ r \in Seq(S) /\ Len(r) = Len(q) - 1 /\ Len(q) \in Nat /\ Len(q) > 0
      /\ DOMAIN q = 1 .. Len(q) /\ DOMAIN r = 1 .. Len(q) - 1
      /\ \A n \in 1 .. Len(q) - 1 : r[n] = q[n + 1]
      /\ Head(q) = q[1] /\ \A n \in DOMAIN q : q[n] \in S
  OBVIOUS
<1> HIDE DEF r
<1>2. \A n \in DOMAIN q : n = 1 \/ (n - 1 \in DOMAIN r /\ q[n] = r[n - 1])
  BY <1>1
<1>3. Elements(q) \subseteq Elements(r) \cup {Head(q)}
  BY <1>1, <1>2 DEF Elements
<1>4. Elements(r) \cup {Head(q)} \subseteq Elements(q)
  <2>1. \A n \in DOMAIN r : n + 1 \in DOMAIN q /\ r[n] = q[n + 1]
    BY <1>1
  <2> QED
    BY <1>1, <2>1 DEF Elements
<1> QED
  BY <1>1, <1>3, <1>4 DEF r, Elements

(* Frames in the order of their mix times. *)
Increasing(q, ts) == \A m, n \in DOMAIN q : m < n => ts[q[m]] < ts[q[n]]

LEMMA IncreasingTail ==
  ASSUME NEW q \in Seq(Frames), NEW ts, q # <<>>, Increasing(q, ts)
  PROVE  /\ Increasing(Tail(q), ts)
         /\ \A g \in Elements(Tail(q)) : ts[Head(q)] < ts[g]
<1> DEFINE r == Tail(q)
<1>1. /\ Len(q) \in Nat /\ Len(q) > 0
      /\ DOMAIN q = 1 .. Len(q) /\ DOMAIN r = 1 .. Len(q) - 1
      /\ \A n \in 1 .. Len(q) - 1 : r[n] = q[n + 1]
      /\ Head(q) = q[1]
  OBVIOUS
<1> HIDE DEF r
<1>2. \A n \in DOMAIN r : n \in Nat /\ n + 1 \in DOMAIN q /\ 1 \in DOMAIN q /\ 1 < n + 1
  BY <1>1
<1>3. Increasing(r, ts)
  BY <1>1, <1>2 DEF Increasing
<1>4. \A n \in DOMAIN r : ts[Head(q)] < ts[r[n]]
  BY <1>1, <1>2 DEF Increasing
<1> QED
  BY <1>3, <1>4 DEF r, Elements

LEMMA IncreasingAppend ==
  ASSUME NEW q \in Seq(Frames), NEW x \in Frames, NEW ts, Increasing(q, ts),
         \A g \in Elements(q) : ts[g] < ts[x]
  PROVE  Increasing(Append(q, x), ts)
<1> DEFINE r == Append(q, x)
<1>1. /\ Len(q) \in Nat /\ DOMAIN q = 1 .. Len(q) /\ DOMAIN r = 1 .. Len(q) + 1
      /\ \A n \in 1 .. Len(q) : r[n] = q[n]
      /\ r[Len(q) + 1] = x
  OBVIOUS
<1> HIDE DEF r
<1>2. \A n \in DOMAIN q : ts[q[n]] < ts[x]
  BY DEF Elements
<1>3. SUFFICES ASSUME NEW m \in DOMAIN r, NEW n \in DOMAIN r, m < n
               PROVE  ts[r[m]] < ts[r[n]]
  BY DEF Increasing, r
<1>4. CASE n \in DOMAIN q
  BY <1>1, <1>3, <1>4 DEF Increasing
<1>5. CASE n = Len(q) + 1
  BY <1>1, <1>2, <1>3, <1>5
<1> QED
  BY <1>1, <1>4, <1>5

LEMMA SameOrder ==
  ASSUME NEW q, NEW ts, NEW us, Increasing(q, ts), \A f \in Elements(q) : us[f] = ts[f]
  PROVE  Increasing(q, us)
BY DEF Increasing, Elements

-----------------------------------------------------------------------------
(* Who has a frame.  A worker holds one that is queued for it, or about to  *)
(* be, until it is done with it; it owes its reference until it has dropped *)
(* it, after which the last one sends the bundles.                          *)
Pending(w, f) == disp.frame = f /\ disp.next <= w
Holds(w, f)   == Pending(w, f) \/ f \in Elements(jobs[w]) \/ worker[w].frame = f
Sends(w, f)   == worker[w].frame = f /\ worker[w].group > 0
Owes(w, f)    ==
  Pending(w, f) \/ f \in Elements(jobs[w]) \/ (worker[w].frame = f /\ worker[w].group = 0)

Held(f)  == \E w \in Workers : Holds(w, f)
Owing(f) == {w \in Workers : Owes(w, f)}

(* Where each goroutine is tells what it has in hand. *)
ControlInv ==
  /\ clock.pc = "idle" <=> clock.frame = NoFrame
  /\ disp.frame # NoFrame => disp.next < K
  /\ disp.frame = NoFrame => disp.next = 0
  /\ \A w \in Workers :
       /\ worker[w].pc = "idle" <=> worker[w].frame = NoFrame
       /\ worker[w].pc \in {"idle", "encode"} => worker[w].group = 0 /\ worker[w].hand = NoPacket
       /\ worker[w].pc \in {"try", "evict", "retry"} =>
            /\ worker[w].hand # NoPacket
            /\ worker[w].group > 0 <=> bundled

(* Frames are stamped when they are taken from the pool, and later ones     *)
(* later.                                                                   *)
Dated ==
  /\ \A f \in Frames : frameTs[f] <= mixTs
  /\ \A f \in Frames \ pool : frameTs[f] > 0

(* All lines a frame waits in are in the order of mix time: the one from    *)
(* the clock through mixCh and the dispatcher, then each worker's.          *)
ClockOrder ==
  clock.frame # NoFrame =>
    \A f \in Frames : Held(f) \/ f \in Elements(mixCh) => frameTs[f] < frameTs[clock.frame]

QueueOrder ==
  /\ Increasing(mixCh, frameTs)
  /\ \A f \in Frames, g \in Elements(mixCh) : Held(f) => frameTs[f] < frameTs[g]

DispOrder ==
  disp.frame # NoFrame => \A w \in Workers :
    /\ \A f \in Frames : Holds(w, f) => f = disp.frame \/ frameTs[f] < frameTs[disp.frame]
    /\ disp.next <= w => disp.frame \notin Elements(jobs[w]) /\ disp.frame # worker[w].frame

JobsOrder ==
  \A w \in Workers :
    /\ Increasing(jobs[w], frameTs)
    /\ worker[w].frame # NoFrame =>
         \A f \in Elements(jobs[w]) : frameTs[worker[w].frame] < frameTs[f]

(* A worker that is done with a frame others still have is done with all    *)
(* earlier ones.                                                            *)
TurnOrder ==
  \A u, v \in Workers, f, g \in Frames :
    Holds(u, f) /\ Holds(v, g) /\ ~Holds(v, f) => frameTs[f] < frameTs[g]

(* A pooled frame is nobody's. *)
PoolInv == \A f \in pool : clock.frame # f /\ f \notin Elements(mixCh) /\ ~Held(f)

(* The reference count of a frame is the number of workers that owe their   *)
(* reference, and who sends its bundles is the only one that still has it.  *)
RefsInv ==
  /\ \A f \in Frames : refs[f] = Cardinality(Owing(f))
  /\ \A w, v \in Workers, f \in Frames : Sends(w, f) /\ Holds(v, f) => v = w

LinesInv ==
  /\ Dated /\ ClockOrder /\ QueueOrder /\ DispOrder /\ JobsOrder /\ TurnOrder
  /\ PoolInv /\ RefsInv

FramesInv == TypeOK /\ ControlInv /\ LinesInv

(* The types, part by part. *)
FrameTypes ==
  /\ pool \in SUBSET Frames /\ frameTs \in [Frames -> Times \cup {0}]
  /\ refs \in [Frames -> 0 .. K]
  /\ encoded \in [Frames -> [Channels -> Times \cup {Empty}]]

LineTypes ==
  /\ mixCh \in Seq(Frames) /\ Len(mixCh) <= MixCap /\ mixTs \in 0 .. MaxTicks
  /\ clock \in [pc : {"idle", "try", "evict", "retry"}, frame : Frames \cup {NoFrame}]
  /\ disp \in [frame : Frames \cup {NoFrame}, next : 0 .. K]
  /\ jobs \in [Workers -> Seq(Frames)] /\ \A w \in Workers : Len(jobs[w]) <= JobCap

WorkerTypes ==
  /\ worker \in [Workers -> [pc    : {"idle", "encode", "try", "evict", "retry"},
                             frame : Frames \cup {NoFrame},
                             c     : 0 .. C,
                             group : 0 .. Len(Layout),
                             hand  : Packet \cup {NoPacket}]]
  /\ \A w \in Workers : worker[w].c \in Lo(w) .. Hi(w)

SendTypes ==
  /\ encSeq \in [Channels -> Nat]
  /\ sendCh \in Seq(Packet) /\ Len(sendCh) <= SendCap
  /\ sending \in Packet \cup {NoPacket}

SessionTypes == bundled \in Formats /\ done \in BOOLEAN /\ exited \subseteq Goroutines

LEMMA TypeParts ==
  /\ TypeOK => FrameTypes /\ LineTypes /\ WorkerTypes /\ SendTypes /\ SessionTypes
  /\ FrameTypes' /\ LineTypes' /\ WorkerTypes' /\ SendTypes' /\ SessionTypes' => TypeOK'
<1>1. TypeOK => FrameTypes /\ LineTypes /\ WorkerTypes /\ SendTypes /\ SessionTypes
  BY DEF TypeOK, FrameTypes, LineTypes, WorkerTypes, SendTypes, SessionTypes
<1>2. FrameTypes' /\ LineTypes' /\ WorkerTypes' /\ SendTypes' /\ SessionTypes' => TypeOK'
  BY DEF TypeOK, FrameTypes, LineTypes, WorkerTypes, SendTypes, SessionTypes
<1> QED
  BY <1>1, <1>2

LEMMA DatesTyped ==
  ASSUME FramesInv
  PROVE  FrameTypes /\ LineTypes /\ WorkerTypes /\ ControlInv /\ frameTs \in [Frames -> Nat]
<1>1. FrameTypes /\ LineTypes /\ WorkerTypes /\ ControlInv
  BY TypeParts DEF FramesInv
<1>2. Times \cup {0} \subseteq Nat
  BY DEF Times
<1> QED
  BY <1>1, <1>2 DEF FrameTypes

LEMMA FramesInitially == Init => FramesInv
<1> SUFFICES ASSUME Init PROVE FramesInv
  OBVIOUS
<1> USE SizesAssumption DEF Init
<1>0. \A w \in Workers : worker[w] = At("idle", NoFrame, Lo(w), 0, NoPacket)
  BY DEF Idle
<1>1. \A w \in Workers : Lo(w) \in 0 .. C /\ Lo(w) \in Lo(w) .. Hi(w)
  BY Ranges
<1>2. TypeOK
  <2>1. worker \in [Workers -> [pc    : {"idle", "encode", "try", "evict", "retry"},
                                frame : Frames \cup {NoFrame},
                                c     : 0 .. C,
                                group : 0 .. Len(Layout),
                                hand  : Packet \cup {NoPacket}]]
    BY <1>0, <1>1 DEF At
  <2>2. \A w \in Workers : Len(jobs[w]) <= JobCap /\ worker[w].c \in Lo(w) .. Hi(w)
    BY <1>0, <1>1 DEF At
  <2>3. /\ pool \in SUBSET Frames /\ frameTs \in [Frames -> Times \cup {0}]
        /\ refs \in [Frames -> 0 .. K] /\ encoded \in [Frames -> [Channels -> Times \cup {Empty}]]
        /\ mixTs \in 0 .. MaxTicks /\ encSeq \in [Channels -> Nat]
    BY DEF Empty
  <2>4. /\ clock \in [pc : {"idle", "try", "evict", "retry"}, frame : Frames \cup {NoFrame}]
        /\ disp \in [frame : Frames \cup {NoFrame}, next : 0 .. K]
    OBVIOUS
  <2>5. mixCh \in Seq(Frames) /\ Len(mixCh) <= MixCap /\ jobs \in [Workers -> Seq(Frames)]
    OBVIOUS
  <2>6. sendCh \in Seq(Packet) /\ Len(sendCh) <= SendCap /\ sending \in Packet \cup {NoPacket}
    OBVIOUS
  <2>7. bundled \in Formats /\ done \in BOOLEAN /\ exited \subseteq Goroutines
    OBVIOUS
  <2> QED
    BY <2>1, <2>2, <2>3, <2>4, <2>5, <2>6, <2>7 DEF TypeOK
<1>3. ControlInv
  BY <1>0 DEF ControlInv, At
<1>4. \A w \in Workers, f \in Frames : ~Holds(w, f)
  BY <1>0 DEF Holds, Pending, Elements, At
<1>5. Elements(mixCh) = {} /\ \A w \in Workers : Elements(jobs[w]) = {}
  BY DEF Elements
<1>6. RefsInv
  <2>1. \A f \in Frames : Owing(f) = {}
    BY <1>4 DEF Owing, Owes, Holds
  <2>2. \A f \in Frames : refs[f] = Cardinality(Owing(f))
    BY <2>1, FS_EmptySet
  <2> QED
    BY <1>4, <2>2 DEF RefsInv
<1>7. Dated /\ ClockOrder /\ QueueOrder /\ DispOrder /\ JobsOrder /\ TurnOrder /\ PoolInv
  <2>1. Dated /\ ClockOrder /\ DispOrder /\ TurnOrder
    BY <1>4 DEF Dated, ClockOrder, DispOrder, TurnOrder
  <2>2. QueueOrder /\ JobsOrder
    BY <1>5 DEF QueueOrder, JobsOrder, Increasing
  <2>3. PoolInv
    BY <1>4, <1>5 DEF PoolInv, Held
  <2> QED
    BY <2>1, <2>2, <2>3
<1> QED
  BY <1>2, <1>3, <1>6, <1>7 DEF FramesInv, LinesInv

-----------------------------------------------------------------------------
(* What each kind of step does to the lines.  First, none at all. *)
LEMMA LinesRest ==
  ASSUME LinesInv, UNCHANGED <<pool, frameTs, refs, mixCh, mixTs, disp, jobs>>,
         clock'.frame = clock.frame,
         \A w \in Workers : /\ worker'[w].frame = worker[w].frame
                            /\ worker'[w].group = 0 <=> worker[w].group = 0
                            /\ worker'[w].group > 0 <=> worker[w].group > 0
  PROVE  LinesInv'
<1>1. \A w \in Workers : \A f : /\ Holds(w, f)' <=> Holds(w, f)
                                /\ Owes(w, f)' <=> Owes(w, f)
                                /\ Sends(w, f)' <=> Sends(w, f)
  BY DEF Holds, Owes, Sends, Pending
<1>2. \A f : (Held(f)' <=> Held(f)) /\ Owing(f)' = Owing(f)
  BY <1>1 DEF Held, Owing
<1>3. Dated' /\ ClockOrder' /\ QueueOrder' /\ DispOrder' /\ PoolInv' /\ TurnOrder'
  BY <1>1, <1>2 DEF LinesInv, Dated, ClockOrder, QueueOrder, DispOrder, PoolInv, TurnOrder
<1>4. JobsOrder' /\ RefsInv'
  BY <1>1, <1>2 DEF LinesInv, JobsOrder, RefsInv
<1> QED
  BY <1>3, <1>4 DEF LinesInv

(* The dispatcher's frame is held by the worker it goes to next. *)
LEMMA DispatchedIsHeld ==
  ASSUME FramesInv, disp.frame # NoFrame
  PROVE  disp.frame \in Frames /\ disp.next \in Workers /\ Holds(disp.next, disp.frame)
<1>1. disp.frame \in Frames /\ disp.next \in 0 .. K /\ disp.next < K
  BY DEF FramesInv, TypeOK, ControlInv
<1>2. disp.next \in Workers
  BY <1>1, SizesAssumption DEF Workers
<1> QED
  BY <1>1, <1>2, SizesAssumption DEF Holds, Pending, Workers

(* A frame that is taken from the pool is the latest. *)
LEMMA LinesAcquire ==
  ASSUME FramesInv, NEW f \in pool, mixTs' = mixTs + 1, pool' = pool \ {f},
         frameTs' = [frameTs EXCEPT ![f] = mixTs + 1], clock'.frame = f,
         UNCHANGED <<refs, mixCh, disp, jobs, worker>>
  PROVE  LinesInv'
<1> USE SizesAssumption
<1>0. /\ f \in Frames /\ mixTs \in Nat /\ frameTs \in [Frames -> Nat]
      /\ f # NoFrame /\ mixCh \in Seq(Frames) /\ jobs \in [Workers -> Seq(Frames)]
  BY DEF FramesInv, TypeOK, Times
<1>1. \A w \in Workers : \A g : /\ Holds(w, g)' <=> Holds(w, g)
                                /\ Owes(w, g)' <=> Owes(w, g)
                                /\ Sends(w, g)' <=> Sends(w, g)
  BY DEF Holds, Owes, Sends, Pending
<1>2. \A g : (Held(g)' <=> Held(g)) /\ Owing(g)' = Owing(g)
  BY <1>1 DEF Held, Owing
<1>3. ~Held(f) /\ f \notin Elements(mixCh)
  BY DEF FramesInv, LinesInv, PoolInv
<1>4. \A g \in Frames : g # f => frameTs'[g] = frameTs[g]
  BY <1>0
<1>5. Dated'
  BY <1>0 DEF FramesInv, LinesInv, Dated
<1>6. ClockOrder'
  <2>1. \A g \in Frames : Held(g) \/ g \in Elements(mixCh) => frameTs'[g] < mixTs + 1
    BY <1>0, <1>3, <1>4 DEF FramesInv, LinesInv, Dated
  <2> QED
    BY <1>0, <1>2, <2>1 DEF ClockOrder
<1>7. QueueOrder'
  <2>1. Elements(mixCh) \subseteq Frames
    BY <1>0 DEF Elements
  <2>2. \A g \in Elements(mixCh) : frameTs'[g] = frameTs[g]
    BY <1>3, <1>4, <2>1
  <2>3. Increasing(mixCh, frameTs')
    BY <2>2, SameOrder DEF FramesInv, LinesInv, QueueOrder
  <2> QED
    BY <1>2, <1>3, <1>4, <2>1, <2>3 DEF FramesInv, LinesInv, QueueOrder
<1>8. DispOrder'
  <2>1. disp.frame # NoFrame => disp.frame \in Frames /\ disp.frame # f
    BY <1>3, DispatchedIsHeld DEF Held
  <2>2. \A w \in Workers, g \in Frames : Holds(w, g) => g # f
    BY <1>3 DEF Held
  <2> QED
    BY <1>1, <1>4, <2>1, <2>2 DEF FramesInv, LinesInv, DispOrder
<1>9. JobsOrder'
  <2> SUFFICES ASSUME NEW w \in Workers
               PROVE  /\ Increasing(jobs[w], frameTs')
                      /\ worker[w].frame # NoFrame =>
                           \A g \in Elements(jobs[w]) : frameTs'[worker[w].frame] < frameTs'[g]
    BY DEF JobsOrder
  <2>1. \A g \in Elements(jobs[w]) : g \in Frames /\ g # f
    BY <1>0, <1>3 DEF Elements, Held, Holds
  <2>2. worker[w].frame # NoFrame => worker[w].frame \in Frames /\ worker[w].frame # f
    BY <1>3 DEF Held, Holds, FramesInv, TypeOK
  <2>3. Increasing(jobs[w], frameTs')
    <3>1. Increasing(jobs[w], frameTs)
      BY DEF FramesInv, LinesInv, JobsOrder
    <3>2. \A g \in Elements(jobs[w]) : frameTs'[g] = frameTs[g]
      BY <1>4, <2>1
    <3> QED
      BY <3>1, <3>2, SameOrder
  <2> QED
    BY <1>4, <2>1, <2>2, <2>3 DEF FramesInv, LinesInv, JobsOrder
<1>10. TurnOrder'
  BY <1>1, <1>3, <1>4 DEF FramesInv, LinesInv, TurnOrder, Held
<1>11. PoolInv'
  BY <1>2 DEF FramesInv, LinesInv, PoolInv
<1>12. RefsInv'
  BY <1>1, <1>2 DEF FramesInv, LinesInv, RefsInv
<1> QED
  BY <1>5, <1>6, <1>7, <1>8, <1>9, <1>10, <1>11, <1>12 DEF LinesInv

(* The clock's frame joins the queue, or goes back to the pool. *)
LEMMA LinesClock ==
  ASSUME FramesInv, clock.frame # NoFrame, clock'.frame = NoFrame,
         UNCHANGED <<frameTs, mixTs, refs, disp, jobs, worker>>,
         \/ mixCh' = Append(mixCh, clock.frame) /\ UNCHANGED pool
         \/ pool' = pool \cup {clock.frame} /\ UNCHANGED mixCh
  PROVE  LinesInv'
<1> USE SizesAssumption
<1>0. clock.frame \in Frames /\ mixCh \in Seq(Frames) /\ frameTs \in [Frames -> Nat]
  BY DEF FramesInv, TypeOK, Times
<1>1. \A w \in Workers : \A g : /\ Holds(w, g)' <=> Holds(w, g)
                                /\ Owes(w, g)' <=> Owes(w, g)
                                /\ Sends(w, g)' <=> Sends(w, g)
  BY DEF Holds, Owes, Sends, Pending
<1>2. \A g : (Held(g)' <=> Held(g)) /\ Owing(g)' = Owing(g)
  BY <1>1 DEF Held, Owing
<1>3. /\ ~Held(clock.frame) /\ clock.frame \notin Elements(mixCh) /\ clock.frame \notin pool
      /\ \A g \in Frames : Held(g) \/ g \in Elements(mixCh) => frameTs[g] < frameTs[clock.frame]
  BY <1>0 DEF FramesInv, LinesInv, ClockOrder, PoolInv
<1>4. DispOrder' /\ JobsOrder' /\ TurnOrder' /\ RefsInv' /\ ClockOrder'
  <2>1. DispOrder' /\ TurnOrder' /\ ClockOrder'
    BY <1>1 DEF FramesInv, LinesInv, DispOrder, TurnOrder, ClockOrder
  <2>2. JobsOrder' /\ RefsInv'
    BY <1>1, <1>2 DEF FramesInv, LinesInv, JobsOrder, RefsInv
  <2> QED
    BY <2>1, <2>2
<1>5. CASE mixCh' = Append(mixCh, clock.frame) /\ UNCHANGED pool
  <2>1. Elements(mixCh') = Elements(mixCh) \cup {clock.frame}
    BY <1>0, <1>5, ElementsAppended
  <2>2. Increasing(mixCh', frameTs)
    <3>1. Elements(mixCh) \subseteq Frames
      BY <1>0 DEF Elements
    <3> QED
      BY <1>0, <1>3, <1>5, <3>1, IncreasingAppend DEF FramesInv, LinesInv, QueueOrder
  <2>3. QueueOrder'
    BY <1>2, <1>3, <2>1, <2>2 DEF FramesInv, LinesInv, QueueOrder
  <2>4. PoolInv' /\ Dated'
    BY <1>2, <1>3, <1>5, <2>1 DEF FramesInv, LinesInv, PoolInv, Dated, TypeOK
  <2> QED
    BY <1>4, <2>3, <2>4 DEF LinesInv
<1>6. CASE pool' = pool \cup {clock.frame} /\ UNCHANGED mixCh
  <2>1. QueueOrder'
    BY <1>2, <1>6 DEF FramesInv, LinesInv, QueueOrder
  <2>2. PoolInv' /\ Dated'
    BY <1>2, <1>3, <1>6 DEF FramesInv, LinesInv, PoolInv, Dated, TypeOK
  <2> QED
    BY <1>4, <2>1, <2>2 DEF LinesInv
<1> QED
  BY <1>5, <1>6

(* The clock takes the oldest frame out of the queue. *)
LEMMA LinesEvict ==
  ASSUME FramesInv, mixCh # <<>>, mixCh' = Tail(mixCh), pool' = pool \cup {Head(mixCh)},
         clock'.frame = clock.frame,
         UNCHANGED <<frameTs, mixTs, refs, disp, jobs, worker>>
  PROVE  LinesInv'
<1> USE SizesAssumption
<1> DEFINE f == Head(mixCh)
<1>0. mixCh \in Seq(Frames) /\ frameTs \in [Frames -> Nat]
  BY DEF FramesInv, TypeOK, Times
<1>1. /\ f \in Frames /\ Elements(mixCh') \subseteq Elements(mixCh) /\ f \in Elements(mixCh)
      /\ Increasing(mixCh', frameTs) /\ \A g \in Elements(mixCh') : frameTs[f] < frameTs[g]
      /\ Elements(mixCh) \subseteq Frames
  BY <1>0, ElementsOfTail, IncreasingTail DEF FramesInv, LinesInv, QueueOrder
<1> HIDE DEF f
<1>2. \A w \in Workers : \A g : /\ Holds(w, g)' <=> Holds(w, g)
                                /\ Owes(w, g)' <=> Owes(w, g)
                                /\ Sends(w, g)' <=> Sends(w, g)
  BY DEF Holds, Owes, Sends, Pending
<1>3. \A g : (Held(g)' <=> Held(g)) /\ Owing(g)' = Owing(g)
  BY <1>2 DEF Held, Owing
<1>4. f \notin Elements(mixCh') /\ ~Held(f) /\ clock.frame # f
  <2>1. f \notin Elements(mixCh') /\ ~Held(f)
    BY <1>0, <1>1 DEF FramesInv, LinesInv, QueueOrder
  <2>2. clock.frame # f
    BY <1>0, <1>1 DEF FramesInv, LinesInv, ClockOrder
  <2> QED
    BY <2>1, <2>2
<1>5. DispOrder' /\ TurnOrder' /\ JobsOrder' /\ RefsInv'
  BY <1>2, <1>3 DEF FramesInv, LinesInv, DispOrder, TurnOrder, JobsOrder, RefsInv
<1>6. ClockOrder' /\ QueueOrder'
  BY <1>1, <1>3 DEF FramesInv, LinesInv, ClockOrder, QueueOrder
<1>7. PoolInv'
  BY <1>1, <1>3, <1>4 DEF FramesInv, LinesInv, PoolInv, f
<1>8. Dated'
  BY DEF FramesInv, LinesInv, Dated
<1> QED
  BY <1>5, <1>6, <1>7, <1>8 DEF LinesInv

(* The dispatcher takes the oldest frame, which every worker now has to     *)
(* come and holds.                                                          *)
LEMMA LinesTake ==
  ASSUME FramesInv, TakeFrame
  PROVE  LinesInv'
<1> USE SizesAssumption
<1>0. /\ mixCh \in Seq(Frames) /\ frameTs \in [Frames -> Nat] /\ jobs \in [Workers -> Seq(Frames)]
      /\ refs \in [Frames -> 0 .. K]
  BY DEF FramesInv, TypeOK, Times
<1>t. /\ mixCh # <<>> /\ disp.frame = NoFrame /\ mixCh' = Tail(mixCh)
      /\ UNCHANGED <<pool, frameTs, mixTs, clock, jobs, worker>>
  BY DEF TakeFrame, clockVars
<1>w. \A w \in Workers : w \in Nat
  BY DEF Workers
<1>1. PICK f \in Frames :
      /\ f = Head(mixCh)
      /\ Elements(mixCh') \subseteq Elements(mixCh) /\ f \in Elements(mixCh)
      /\ Increasing(mixCh', frameTs) /\ \A g \in Elements(mixCh') : frameTs[f] < frameTs[g]
      /\ Elements(mixCh) \subseteq Frames
  BY <1>0, <1>t, ElementsOfTail, IncreasingTail DEF FramesInv, LinesInv, QueueOrder
<1>2. disp' = [frame |-> f, next |-> 0] /\ refs' = [refs EXCEPT ![f] = K]
  BY <1>1 DEF TakeFrame, Shares
<1>n. f # NoFrame
  OBVIOUS
<1>3. \A w \in Workers, g \in Frames : (Pending(w, g)' <=> g = f) /\ ~Pending(w, g)
  BY <1>t, <1>w, <1>2 DEF Pending
<1>4. \A w \in Workers, g \in Frames :
        /\ Holds(w, g)' <=> Holds(w, g) \/ g = f
        /\ Owes(w, g)' <=> Owes(w, g) \/ g = f
        /\ Sends(w, g)' <=> Sends(w, g)
  BY <1>t, <1>3 DEF Holds, Owes, Sends
<1>5. /\ ~Held(f) /\ \A w \in Workers : ~Holds(w, f)
      /\ \A g \in Frames : Held(g) => frameTs[g] < frameTs[f]
      /\ clock.frame # f
  <2>1. \A g \in Frames : Held(g) => frameTs[g] < frameTs[f]
    BY <1>0, <1>1 DEF FramesInv, LinesInv, QueueOrder
  <2>2. clock.frame # f
    BY <1>0, <1>t, <1>1 DEF FramesInv, LinesInv, ClockOrder
  <2>3. ~Held(f)
    <3>1. frameTs[f] \in Nat
      BY <1>0
    <3> QED
      BY <2>1, <3>1
  <2> QED
    BY <2>1, <2>2, <2>3 DEF Held
<1>6. \A g \in Frames : Held(g)' => Held(g) \/ g = f
  BY <1>4 DEF Held
<1>7. Dated' /\ ClockOrder' /\ QueueOrder'
  <2>1. Dated'
    BY <1>0, <1>t DEF FramesInv, LinesInv, Dated
  <2>2. ClockOrder'
    BY <1>0, <1>t, <1>1, <1>6 DEF FramesInv, LinesInv, ClockOrder
  <2>3. QueueOrder'
    BY <1>0, <1>t, <1>1, <1>6 DEF FramesInv, LinesInv, QueueOrder
  <2> QED
    BY <2>1, <2>2, <2>3
<1>8. DispOrder'
  <2>1. \A w \in Workers, g \in Frames : Holds(w, g)' => g = f \/ frameTs[g] < frameTs[f]
    BY <1>4, <1>5 DEF Held
  <2>2. \A w \in Workers : f \notin Elements(jobs[w]) /\ f # worker[w].frame
    BY <1>5 DEF Holds
  <2> QED
    BY <1>0, <1>t, <1>2, <2>1, <2>2 DEF DispOrder
<1>9. JobsOrder'
  BY <1>0, <1>t DEF FramesInv, LinesInv, JobsOrder
<1>10. TurnOrder'
  <2> SUFFICES ASSUME NEW u \in Workers, NEW v \in Workers, NEW g \in Frames, NEW h \in Frames,
                      Holds(u, g)', Holds(v, h)', ~Holds(v, g)'
               PROVE  frameTs[g] < frameTs[h]
    BY <1>0, <1>t DEF TurnOrder
  <2>1. g # f /\ Holds(u, g) /\ ~Holds(v, g)
    BY <1>4
  <2>2. CASE h = f
    BY <1>5, <2>1, <2>2 DEF Held
  <2>3. CASE h # f
    BY <1>4, <2>1, <2>3 DEF FramesInv, LinesInv, TurnOrder
  <2> QED
    BY <2>2, <2>3
<1>11. PoolInv'
  BY <1>0, <1>t, <1>1, <1>6 DEF FramesInv, LinesInv, PoolInv, TypeOK
<1>12. RefsInv'
  <2>1. Owing(f)' = Workers
    BY <1>1, <1>4 DEF Owing
  <2>2. \A g \in Frames : g # f => Owing(g)' = Owing(g)
    BY <1>4 DEF Owing
  <2>3. Cardinality(Workers) = K
    BY FS_Interval DEF Workers
  <2>4. \A g \in Frames : refs'[g] = Cardinality(Owing(g))'
    BY <1>0, <1>t, <1>1, <1>2, <2>1, <2>2, <2>3 DEF FramesInv, LinesInv, RefsInv
  <2>5. \A w, v \in Workers, g \in Frames : Sends(w, g)' /\ Holds(v, g)' => v = w
    <3>1. \A w \in Workers, g \in Frames : Sends(w, g) => Holds(w, g)
      BY DEF Sends, Holds
    <3>2. \A w \in Workers : ~Sends(w, f)
      BY <1>1, <1>5, <3>1
    <3> QED
      BY <1>1, <1>4, <3>2 DEF FramesInv, LinesInv, RefsInv
  <2> QED
    BY <2>4, <2>5 DEF RefsInv
<1> QED
  BY <1>7, <1>8, <1>9, <1>10, <1>11, <1>12 DEF LinesInv

(* When everybody goes on to hold what they hold, the lines stay in order. *)
LEMMA SameHolders ==
  ASSUME FramesInv, UNCHANGED <<pool, frameTs, refs, mixCh, mixTs, clock>>,
         \A w \in Workers, g \in Frames : /\ Holds(w, g)' <=> Holds(w, g)
                                          /\ Owes(w, g)' <=> Owes(w, g)
                                          /\ Sends(w, g)' <=> Sends(w, g)
  PROVE  Dated' /\ ClockOrder' /\ QueueOrder' /\ TurnOrder' /\ PoolInv' /\ RefsInv'
<1>1. \A g \in Frames : (Held(g)' <=> Held(g)) /\ Owing(g)' = Owing(g)
  BY DEF Held, Owing
<1>2. Dated' /\ ClockOrder' /\ QueueOrder'
  BY <1>1 DEF FramesInv, LinesInv, Dated, ClockOrder, QueueOrder
<1>3. TurnOrder'
  BY DEF FramesInv, LinesInv, TurnOrder
<1>4. PoolInv'
  BY <1>1 DEF FramesInv, LinesInv, PoolInv, TypeOK
<1>5. RefsInv'
  BY <1>1 DEF FramesInv, LinesInv, RefsInv
<1> QED
  BY <1>2, <1>3, <1>4, <1>5

(* The dispatcher queues its frame for a worker that already held it. *)
LEMMA LinesFan ==
  ASSUME FramesInv, FanOut
  PROVE  LinesInv'
<1> USE SizesAssumption
<1>0. /\ frameTs \in [Frames -> Nat] /\ jobs \in [Workers -> Seq(Frames)]
      /\ disp.frame # NoFrame
      /\ jobs' = [jobs EXCEPT ![disp.next] = Append(@, disp.frame)]
      /\ UNCHANGED <<pool, frameTs, refs, mixCh, mixTs, clock, worker>>
  BY DEF FramesInv, TypeOK, Times, FanOut, frameVars, clockVars
<1>1. PICK d \in Frames, n \in Workers : d = disp.frame /\ n = disp.next /\ Holds(n, d)
  BY <1>0, DispatchedIsHeld
<1>2. disp' = IF n + 1 = K THEN [frame |-> NoFrame, next |-> 0]
                           ELSE [frame |-> d, next |-> n + 1]
  BY <1>1 DEF FanOut
<1>3. jobs' = [jobs EXCEPT ![n] = Append(jobs[n], d)]
  BY <1>0, <1>1
<1>4. \A w \in Workers : Elements(jobs'[w]) = IF w = n THEN Elements(jobs[w]) \cup {d}
                                                       ELSE Elements(jobs[w])
  <2>1. Elements(jobs'[n]) = Elements(jobs[n]) \cup {d}
    BY <1>0, <1>3, ElementsAppended
  <2>2. \A w \in Workers : w # n => jobs'[w] = jobs[w]
    BY <1>0, <1>3
  <2> QED
    BY <2>1, <2>2
<1>5. d # NoFrame /\ K \in Nat /\ n \in 0 .. K - 1
  BY DEF Workers
<1>6. \A w \in Workers, g \in Frames :
        /\ Pending(w, g)' <=> g = d /\ n + 1 <= w
        /\ Pending(w, g) <=> g = d /\ n <= w
  <2> SUFFICES ASSUME NEW w \in Workers, NEW g \in Frames
               PROVE  (Pending(w, g)' <=> g = d /\ n + 1 <= w) /\ (Pending(w, g) <=> g = d /\ n <= w)
    OBVIOUS
  <2>1. w \in 0 .. K - 1
    BY DEF Workers
  <2>2. CASE n + 1 = K
    BY <1>1, <1>2, <1>5, <2>1, <2>2 DEF Pending
  <2>3. CASE n + 1 # K
    BY <1>1, <1>2, <1>5, <2>1, <2>3 DEF Pending
  <2> QED
    BY <2>2, <2>3
<1>7. \A w \in Workers, g \in Frames :
        Pending(w, g) \/ g \in Elements(jobs[w]) <=> Pending(w, g)' \/ g \in Elements(jobs'[w])
  <2> SUFFICES ASSUME NEW w \in Workers, NEW g \in Frames
               PROVE  Pending(w, g) \/ g \in Elements(jobs[w])
                        <=> Pending(w, g)' \/ g \in Elements(jobs'[w])
    OBVIOUS
  <2>1. w \in 0 .. K - 1
    BY DEF Workers
  <2>2. n <= w <=> n = w \/ n + 1 <= w
    BY <1>5, <2>1
  <2>3. CASE w = n
    <3>1. Elements(jobs'[w]) = Elements(jobs[w]) \cup {d}
      BY <1>4, <2>3
    <3>2. (Pending(w, g) <=> g = d) /\ (Pending(w, g)' => g = d)
      BY <1>5, <1>6, <2>3
    <3> QED
      BY <3>1, <3>2
  <2>4. CASE w # n
    BY <1>4, <1>6, <2>2, <2>4
  <2> QED
    BY <2>3, <2>4
<1>8. \A w \in Workers, g \in Frames : /\ Holds(w, g)' <=> Holds(w, g)
                                       /\ Owes(w, g)' <=> Owes(w, g)
                                       /\ Sends(w, g)' <=> Sends(w, g)
  BY <1>0, <1>7 DEF Holds, Owes, Sends
<1>9. Dated' /\ ClockOrder' /\ QueueOrder' /\ TurnOrder' /\ PoolInv' /\ RefsInv'
  BY <1>0, <1>8, SameHolders
<1>10. DispOrder'
  <2>0. ASSUME disp'.frame # NoFrame PROVE disp'.frame = d /\ disp'.next = n + 1
    BY <1>2, <2>0
  <2>1. \A w \in Workers, g \in Frames : Holds(w, g)' => g = d \/ frameTs[g] < frameTs[d]
    BY <1>1, <1>5, <1>8 DEF FramesInv, LinesInv, DispOrder
  <2>2. \A w \in Workers : n + 1 <= w => d \notin Elements(jobs'[w]) /\ d # worker[w].frame
    <3> SUFFICES ASSUME NEW w \in Workers, n + 1 <= w
                 PROVE  d \notin Elements(jobs'[w]) /\ d # worker[w].frame
      OBVIOUS
    <3>1. n <= w /\ n # w
      BY <1>5 DEF Workers
    <3> QED
      BY <1>1, <1>4, <1>5, <3>1 DEF FramesInv, LinesInv, DispOrder
  <2> QED
    BY <1>0, <2>0, <2>1, <2>2 DEF DispOrder
<1>11. JobsOrder'
  <2> SUFFICES ASSUME NEW w \in Workers
               PROVE  /\ Increasing(jobs'[w], frameTs)
                      /\ worker[w].frame # NoFrame =>
                           \A g \in Elements(jobs'[w]) : frameTs[worker[w].frame] < frameTs[g]
    BY <1>0 DEF JobsOrder
  <2>1. CASE w # n
    BY <1>0, <1>3, <2>1 DEF FramesInv, LinesInv, JobsOrder
  <2>2. CASE w = n
    <3>1. d \notin Elements(jobs[n]) /\ d # worker[n].frame
      BY <1>0, <1>1, <1>5 DEF FramesInv, LinesInv, DispOrder
    <3>2. \A g \in Frames : Holds(n, g) => g = d \/ frameTs[g] < frameTs[d]
      BY <1>0, <1>1 DEF FramesInv, LinesInv, DispOrder
    <3>3. \A g \in Elements(jobs[n]) : g \in Frames /\ Holds(n, g)
      BY <1>0 DEF Elements, Holds
    <3>4. Increasing(jobs'[n], frameTs)
      BY <1>0, <1>3, <3>1, <3>2, <3>3, IncreasingAppend DEF FramesInv, LinesInv, JobsOrder
    <3>5. worker[n].frame # NoFrame => frameTs[worker[n].frame] < frameTs[d]
      BY <3>1, <3>2 DEF Holds, FramesInv, TypeOK
    <3> QED
      BY <1>4, <2>2, <3>4, <3>5 DEF FramesInv, LinesInv, JobsOrder
  <2> QED
    BY <2>1, <2>2
<1> QED
  BY <1>9, <1>10, <1>11 DEF LinesInv

(* A worker that is idle takes the first frame of its line. *)
LEMMA LinesTakeJob ==
  ASSUME FramesInv, NEW w \in Workers, TakeJob(w)
  PROVE  LinesInv'
<1> USE SizesAssumption
<1>0. /\ frameTs \in [Frames -> Nat] /\ jobs \in [Workers -> Seq(Frames)]
      /\ jobs[w] # <<>> /\ jobs' = [jobs EXCEPT ![w] = Tail(jobs[w])]
      /\ UNCHANGED <<pool, frameTs, refs, mixCh, mixTs, clock, disp>>
  <2>1. LineTypes /\ frameTs \in [Frames -> Nat]
    BY DatesTyped
  <2>2. /\ jobs[w] # <<>> /\ jobs' = [jobs EXCEPT ![w] = Tail(jobs[w])]
        /\ UNCHANGED <<pool, frameTs, refs, mixCh, mixTs, clock, disp>>
    BY DEF TakeJob, frameVars, clockVars
  <2> QED
    BY <2>1, <2>2 DEF LineTypes
<1>1. PICK f \in Frames : f = Head(jobs[w])
  BY <1>0, ElementsOfTail
<1>2. /\ Elements(jobs[w]) = Elements(jobs'[w]) \cup {f}
      /\ Increasing(jobs'[w], frameTs) /\ \A g \in Elements(jobs'[w]) : frameTs[f] < frameTs[g]
  BY <1>0, <1>1, ElementsOfTail, IncreasingTail DEF FramesInv, LinesInv, JobsOrder
<1>3. /\ worker'[w].frame = f /\ worker'[w].group = 0
      /\ \A v \in Workers : v # w => worker'[v] = worker[v] /\ jobs'[v] = jobs[v]
  BY <1>1 DEF TakeJob, At, FramesInv, TypeOK
<1>4. worker[w].frame = NoFrame
  BY DEF TakeJob, FramesInv, ControlInv
<1>5. \A v \in Workers, g \in Frames : /\ Holds(v, g)' <=> Holds(v, g)
                                       /\ Owes(v, g)' <=> Owes(v, g)
                                       /\ Sends(v, g)' <=> Sends(v, g)
  <2> SUFFICES ASSUME NEW v \in Workers, NEW g \in Frames
               PROVE  /\ Holds(v, g)' <=> Holds(v, g)
                      /\ Owes(v, g)' <=> Owes(v, g)
                      /\ Sends(v, g)' <=> Sends(v, g)
    OBVIOUS
  <2>0. Pending(v, g)' <=> Pending(v, g)
    BY <1>0 DEF Pending
  <2>1. CASE v = w
    BY <1>2, <1>3, <1>4, <2>0, <2>1 DEF Holds, Owes, Sends
  <2>2. CASE v # w
    BY <1>3, <2>0, <2>2 DEF Holds, Owes, Sends
  <2> QED
    BY <2>1, <2>2
<1>6. Dated' /\ ClockOrder' /\ QueueOrder' /\ TurnOrder' /\ PoolInv' /\ RefsInv'
  BY <1>0, <1>5, SameHolders
<1>7. DispOrder'
  <2> SUFFICES ASSUME disp.frame # NoFrame, NEW v \in Workers
               PROVE  /\ \A g \in Frames : Holds(v, g)' => g = disp.frame
                                                             \/ frameTs[g] < frameTs[disp.frame]
                      /\ disp.next <= v => disp.frame \notin Elements(jobs'[v])
                                             /\ disp.frame # worker'[v].frame
    BY <1>0 DEF DispOrder
  <2>1. CASE v = w
    BY <1>2, <1>3, <1>5, <2>1 DEF FramesInv, LinesInv, DispOrder
  <2>2. CASE v # w
    BY <1>3, <1>5, <2>2 DEF FramesInv, LinesInv, DispOrder
  <2> QED
    BY <2>1, <2>2
<1>8. JobsOrder'
  BY <1>0, <1>2, <1>3 DEF FramesInv, LinesInv, JobsOrder
<1> QED
  BY <1>6, <1>7, <1>8 DEF LinesInv

(* The frame a worker is at is the first of its line. *)
LEMMA FirstInLine ==
  ASSUME FramesInv, NEW w \in Workers, NEW f \in Frames, worker[w].frame = f
  PROVE  /\ ~Pending(w, f) /\ f \notin Elements(jobs[w])
         /\ \A g \in Frames : Holds(w, g) => g = f \/ frameTs[f] < frameTs[g]
<1> USE SizesAssumption
<1>0. /\ frameTs \in [Frames -> Nat] /\ f # NoFrame /\ Holds(w, f)
  BY DatesTyped DEF Holds
<1>1. ~Pending(w, f)
  BY <1>0 DEF Pending, FramesInv, LinesInv, DispOrder
<1>2. f \notin Elements(jobs[w])
  BY <1>0 DEF FramesInv, LinesInv, JobsOrder
<1>3. ASSUME NEW g \in Frames, Holds(w, g), g # f PROVE frameTs[f] < frameTs[g]
  <2>1. CASE Pending(w, g)
    BY <1>0, <1>3, <2>1 DEF Pending, FramesInv, LinesInv, DispOrder
  <2>2. CASE g \in Elements(jobs[w])
    BY <1>0, <2>2 DEF FramesInv, LinesInv, JobsOrder
  <2> QED
    BY <1>3, <2>1, <2>2 DEF Holds
<1> QED
  BY <1>1, <1>2, <1>3

(* Who drops the last reference, or has dropped it and sends the bundles,   *)
(* is alone with the frame.                                                 *)
LEMMA OnlyHolder ==
  ASSUME FramesInv, NEW w \in Workers, NEW f \in Frames, worker[w].frame = f,
         (refs[f] = 1 /\ worker[w].group = 0) \/ worker[w].group > 0
  PROVE  \A v \in Workers : Holds(v, f) => v = w
<1> USE SizesAssumption
<1>1. CASE worker[w].group > 0
  BY <1>1 DEF FramesInv, LinesInv, RefsInv, Sends
<1>2. CASE refs[f] = 1 /\ worker[w].group = 0
  <2>1. w \in Owing(f) /\ IsFiniteSet(Owing(f)) /\ Cardinality(Owing(f)) = 1
    <3>1. w \in Owing(f)
      BY <1>2 DEF Owing, Owes
    <3>2. IsFiniteSet(Owing(f))
      <4>1. Owing(f) \subseteq 0 .. K - 1
        BY DEF Owing, Workers
      <4>2. IsFiniteSet(0 .. K - 1)
        <5>1. 0 \in Int /\ K - 1 \in Int
          OBVIOUS
        <5> QED
          BY <5>1, FS_Interval
      <4> QED
        BY <4>1, <4>2, FS_Subset
    <3>3. Cardinality(Owing(f)) = 1
      BY <1>2 DEF FramesInv, LinesInv, RefsInv
    <3> QED
      BY <3>1, <3>2, <3>3
  <2>2. Owing(f) = {w}
    BY <2>1, FS_Singleton
  <2>3. ASSUME NEW v \in Workers, Holds(v, f), v # w PROVE FALSE
    <3>1. ~Owes(v, f)
      BY <2>2, <2>3 DEF Owing
    <3>2. Sends(v, f)
      <4>1. worker[v].frame = f /\ worker[v].group # 0
        BY <2>3, <3>1 DEF Holds, Owes
      <4>2. worker[v].group \in 0 .. Len(Layout) /\ Len(Layout) \in Nat
        BY DEF FramesInv, TypeOK
      <4> QED
        BY <4>1, <4>2 DEF Sends
    <3>3. Holds(w, f)
      BY DEF Holds
    <3> QED
      BY <2>3, <3>2, <3>3 DEF FramesInv, LinesInv, RefsInv
  <2> QED
    BY <2>3
<1> QED
  BY <1>1, <1>2

(* A worker drops its reference: one less owes one. *)
LEMMA DropsOne ==
  ASSUME FramesInv, NEW w \in Workers, NEW f \in Frames, worker[w].frame = f, worker[w].group = 0
  PROVE  /\ refs[f] \in 1 .. K
         /\ refs[f] - 1 = Cardinality(Owing(f) \ {w})
<1> USE SizesAssumption
<1>1. w \in Owing(f)
  BY DEF Owing, Owes
<1>2. IsFiniteSet(Owing(f))
  <2>1. Owing(f) \subseteq 0 .. K - 1
    BY DEF Owing, Workers
  <2>2. IsFiniteSet(0 .. K - 1)
    <3>1. 0 \in Int /\ K - 1 \in Int
      OBVIOUS
    <3> QED
      BY <3>1, FS_Interval
  <2> QED
    BY <2>1, <2>2, FS_Subset
<1>3. refs[f] = Cardinality(Owing(f)) /\ refs[f] \in 0 .. K
  BY DEF FramesInv, TypeOK, LinesInv, RefsInv
<1>4. Cardinality(Owing(f) \ {w}) = Cardinality(Owing(f)) - 1
  BY <1>1, <1>2, FS_RemoveElement
<1>5. Cardinality(Owing(f)) # 0
  BY <1>1, <1>2, FS_EmptySet
<1> QED
  BY <1>3, <1>4, <1>5

(* A worker is done with its frame: with a reference left to others, or     *)
(* alone with it, when it gives it back to the pool.                        *)
LEMMA LinesLeave ==
  ASSUME FramesInv, NEW w \in Workers, NEW f \in Frames, worker[w].frame = f,
         worker'[w].frame = NoFrame,
         \A v \in Workers : v # w => worker'[v] = worker[v],
         UNCHANGED <<frameTs, mixCh, mixTs, clock, disp, jobs>>,
         \/ worker[w].group = 0 /\ refs' = [refs EXCEPT ![f] = refs[f] - 1]
         \/ worker[w].group > 0 /\ refs' = refs,
         \/ pool' = pool
         \/ pool' = pool \cup {f} /\ \A v \in Workers : Holds(v, f) => v = w
  PROVE  LinesInv'
<1> USE SizesAssumption
<1>0. /\ frameTs \in [Frames -> Nat] /\ f # NoFrame /\ Holds(w, f) /\ Held(f)
      /\ refs \in [Frames -> 0 .. K] /\ pool \subseteq Frames
  <2>1. FrameTypes /\ frameTs \in [Frames -> Nat]
    BY DatesTyped
  <2>2. Holds(w, f)
    BY DEF Holds
  <2>3. Held(f)
    BY <2>2 DEF Held
  <2> QED
    BY <2>1, <2>2, <2>3 DEF FrameTypes
<1>1. /\ ~Pending(w, f) /\ f \notin Elements(jobs[w])
      /\ \A g \in Frames : Holds(w, g) => g = f \/ frameTs[f] < frameTs[g]
  BY FirstInLine
<1>2. \A v \in Workers, g \in Frames :
        /\ Holds(v, g)' <=> Holds(v, g) /\ ~(v = w /\ g = f)
        /\ Owes(v, g)' => Owes(v, g)
        /\ Owes(v, g) => Owes(v, g)' \/ (v = w /\ g = f)
        /\ Sends(v, g)' => Sends(v, g)
  <2> SUFFICES ASSUME NEW v \in Workers, NEW g \in Frames
               PROVE  /\ Holds(v, g)' <=> Holds(v, g) /\ ~(v = w /\ g = f)
                      /\ Owes(v, g)' => Owes(v, g)
                      /\ Owes(v, g) => Owes(v, g)' \/ (v = w /\ g = f)
                      /\ Sends(v, g)' => Sends(v, g)
    OBVIOUS
  <2>0. Pending(v, g)' <=> Pending(v, g)
    BY DEF Pending
  <2>1. CASE v = w
    BY <1>1, <2>0, <2>1 DEF Holds, Owes, Sends
  <2>2. CASE v # w
    BY <2>0, <2>2 DEF Holds, Owes, Sends
  <2> QED
    BY <2>1, <2>2
<1>3. \A g \in Frames : Held(g)' => Held(g)
  BY <1>2 DEF Held
<1>4. ClockOrder' /\ QueueOrder'
  BY <1>3 DEF FramesInv, LinesInv, ClockOrder, QueueOrder
<1>5. DispOrder'
  <2> SUFFICES ASSUME disp.frame # NoFrame, NEW v \in Workers
               PROVE  /\ \A g \in Frames : Holds(v, g)' => g = disp.frame
                                                             \/ frameTs[g] < frameTs[disp.frame]
                      /\ disp.next <= v => disp.frame \notin Elements(jobs[v])
                                             /\ disp.frame # worker'[v].frame
    BY DEF DispOrder
  <2>1. CASE v = w
    BY <1>2, <2>1 DEF FramesInv, LinesInv, DispOrder
  <2>2. CASE v # w
    BY <1>2, <2>2 DEF FramesInv, LinesInv, DispOrder
  <2> QED
    BY <2>1, <2>2
<1>6. JobsOrder'
  BY DEF FramesInv, LinesInv, JobsOrder
<1>7. TurnOrder'
  <2> SUFFICES ASSUME NEW u \in Workers, NEW v \in Workers, NEW g \in Frames, NEW h \in Frames,
                      Holds(u, g)', Holds(v, h)', ~Holds(v, g)'
               PROVE  frameTs[g] < frameTs[h]
    BY DEF TurnOrder
  <2>1. Holds(u, g) /\ Holds(v, h)
    BY <1>2
  <2>2. CASE ~Holds(v, g)
    BY <2>1, <2>2 DEF FramesInv, LinesInv, TurnOrder
  <2>3. CASE Holds(v, g)
    <3>1. v = w /\ g = f /\ h # f
      BY <1>2, <2>3
    <3> QED
      BY <1>1, <2>1, <3>1
  <2> QED
    BY <2>2, <2>3
<1>8. PoolInv'
  <2>1. f \notin Elements(mixCh) /\ clock.frame # f
    <3>1. f \notin Elements(mixCh)
      BY <1>0 DEF FramesInv, LinesInv, QueueOrder
    <3>2. clock.frame # f
      BY <1>0 DEF FramesInv, LinesInv, ClockOrder
    <3> QED
      BY <3>1, <3>2
  <2>2. (\A v \in Workers : Holds(v, f) => v = w) => ~Held(f)'
    BY <1>2 DEF Held
  <2>3. \A g \in pool : clock.frame # g /\ g \notin Elements(mixCh) /\ ~Held(g)'
    BY <1>0, <1>3 DEF FramesInv, LinesInv, PoolInv
  <2> QED
    BY <2>1, <2>2, <2>3 DEF PoolInv
<1>9. RefsInv'
  <2>1. \A g \in Frames : g # f => Owing(g)' = Owing(g)
    BY <1>2 DEF Owing
  <2>2. \A g \in Frames : g # f => refs'[g] = Cardinality(Owing(g)')
    BY <1>0, <2>1 DEF FramesInv, LinesInv, RefsInv
  <2>3. ~Owes(w, f)'
    BY <1>2 DEF Owes, Holds
  <2>4. CASE worker[w].group = 0 /\ refs' = [refs EXCEPT ![f] = refs[f] - 1]
    <3>1. Owing(f)' = Owing(f) \ {w}
      BY <1>2, <2>3 DEF Owing
    <3>2. refs'[f] = Cardinality(Owing(f)')
      BY <1>0, <2>4, <3>1, DropsOne
    <3>3. \A u, v \in Workers, g \in Frames : Sends(u, g)' /\ Holds(v, g)' => v = u
      BY <1>2 DEF FramesInv, LinesInv, RefsInv
    <3> QED
      BY <2>2, <3>2, <3>3 DEF RefsInv
  <2>5. CASE worker[w].group > 0 /\ refs' = refs
    <3>1. ~Owes(w, f)
      BY <1>1, <2>5 DEF Owes
    <3>2. Owing(f)' = Owing(f)
      BY <1>2, <3>1 DEF Owing
    <3> QED
      BY <1>0, <1>2, <2>2, <2>5, <3>2 DEF FramesInv, LinesInv, RefsInv
  <2> QED
    BY <2>4, <2>5
<1>10. Dated'
  BY <1>0 DEF FramesInv, LinesInv, Dated
<1> QED
  BY <1>4, <1>5, <1>6, <1>7, <1>8, <1>9, <1>10 DEF LinesInv

(* The worker that drops the last reference goes on to send the bundles. *)
LEMMA LinesSend ==
  ASSUME FramesInv, NEW w \in Workers, NEW f \in Frames, worker[w].frame = f,
         worker[w].group = 0, worker'[w].frame = f, worker'[w].group > 0,
         worker'[w].group # 0,
         \A v \in Workers : v # w => worker'[v] = worker[v],
         refs[f] = 1, refs' = [refs EXCEPT ![f] = refs[f] - 1],
         UNCHANGED <<pool, frameTs, mixCh, mixTs, clock, disp, jobs>>
  PROVE  LinesInv'
<1> USE SizesAssumption
<1>0. f # NoFrame /\ refs \in [Frames -> 0 .. K]
  BY DEF FramesInv, TypeOK
<1>1. ~Pending(w, f) /\ f \notin Elements(jobs[w])
  BY FirstInLine
<1>2. \A v \in Workers, g \in Frames :
        /\ Holds(v, g)' <=> Holds(v, g)
        /\ Owes(v, g)' <=> Owes(v, g) /\ ~(v = w /\ g = f)
        /\ Sends(v, g)' <=> Sends(v, g) \/ (v = w /\ g = f)
  <2> SUFFICES ASSUME NEW v \in Workers, NEW g \in Frames
               PROVE  /\ Holds(v, g)' <=> Holds(v, g)
                      /\ Owes(v, g)' <=> Owes(v, g) /\ ~(v = w /\ g = f)
                      /\ Sends(v, g)' <=> Sends(v, g) \/ (v = w /\ g = f)
    OBVIOUS
  <2>0. Pending(v, g)' <=> Pending(v, g)
    BY DEF Pending
  <2>1. CASE v = w
    BY <1>1, <2>0, <2>1 DEF Holds, Owes, Sends
  <2>2. CASE v # w
    BY <2>0, <2>2 DEF Holds, Owes, Sends
  <2> QED
    BY <2>1, <2>2
<1>3. \A g \in Frames : Held(g)' <=> Held(g)
  BY <1>2 DEF Held
<1>4. Dated' /\ ClockOrder' /\ QueueOrder' /\ TurnOrder' /\ PoolInv'
  <2>1. Dated' /\ ClockOrder' /\ QueueOrder'
    BY <1>3 DEF FramesInv, LinesInv, Dated, ClockOrder, QueueOrder
  <2>2. TurnOrder'
    BY <1>2 DEF FramesInv, LinesInv, TurnOrder
  <2>3. PoolInv'
    BY <1>3 DEF FramesInv, LinesInv, PoolInv, TypeOK
  <2> QED
    BY <2>1, <2>2, <2>3
<1>5. DispOrder' /\ JobsOrder'
  <2>0. \A v \in Workers : worker'[v].frame = worker[v].frame
    OBVIOUS
  <2>1. DispOrder'
    BY <1>2, <2>0 DEF FramesInv, LinesInv, DispOrder
  <2>2. JobsOrder'
    BY <2>0 DEF FramesInv, LinesInv, JobsOrder
  <2> QED
    BY <2>1, <2>2
<1>6. RefsInv'
  <2>1. \A g \in Frames : g # f => Owing(g)' = Owing(g)
    BY <1>2 DEF Owing
  <2>2. \A g \in Frames : g # f => refs'[g] = Cardinality(Owing(g)')
    BY <1>0, <2>1 DEF FramesInv, LinesInv, RefsInv
  <2>3. Owing(f)' = Owing(f) \ {w}
    BY <1>2 DEF Owing
  <2>4. refs'[f] = Cardinality(Owing(f)')
    BY <1>0, <2>3, DropsOne
  <2>5. \A v \in Workers : Holds(v, f) => v = w
    BY OnlyHolder
  <2> QED
    BY <1>2, <2>2, <2>4, <2>5 DEF FramesInv, LinesInv, RefsInv
<1> QED
  BY <1>4, <1>5, <1>6 DEF LinesInv

-----------------------------------------------------------------------------
(* A worker moves to a state it can be in: idle, encoding, or pushing. *)
CanBe(w, r) ==
  /\ r \in [pc : {"idle", "encode", "try", "evict", "retry"}, frame : Frames \cup {NoFrame},
            c : 0 .. C, group : 0 .. Len(Layout), hand : Packet \cup {NoPacket}]
  /\ r.c \in Lo(w) .. Hi(w)
  /\ r.pc = "idle" <=> r.frame = NoFrame
  /\ r.pc \in {"idle", "encode"} => r.group = 0 /\ r.hand = NoPacket
  /\ r.pc \in {"try", "evict", "retry"} => r.hand # NoPacket /\ (r.group > 0 <=> bundled)

LEMMA WorkerMoves ==
  ASSUME FramesInv, NEW w \in Workers, NEW r, CanBe(w, r),
         worker' = [worker EXCEPT ![w] = r], UNCHANGED <<clock, disp, bundled>>
  PROVE  /\ WorkerTypes' /\ ControlInv' /\ worker'[w] = r
         /\ \A v \in Workers : v # w => worker'[v] = worker[v]
<1>1. WorkerTypes /\ ControlInv
  BY TypeParts DEF FramesInv
<1>2. worker'[w] = r /\ \A v \in Workers : v # w => worker'[v] = worker[v]
  BY <1>1 DEF WorkerTypes
<1>3. WorkerTypes'
  <2>1. worker' \in [Workers -> [pc : {"idle", "encode", "try", "evict", "retry"},
                                 frame : Frames \cup {NoFrame}, c : 0 .. C,
                                 group : 0 .. Len(Layout), hand : Packet \cup {NoPacket}]]
    BY <1>1 DEF WorkerTypes, CanBe
  <2>2. \A v \in Workers : worker'[v].c \in Lo(v) .. Hi(v)
    BY <1>1, <1>2 DEF WorkerTypes, CanBe
  <2> QED
    BY <2>1, <2>2 DEF WorkerTypes
<1>4. ControlInv'
  <2>1. ASSUME NEW v \in Workers
        PROVE  /\ worker'[v].pc = "idle" <=> worker'[v].frame = NoFrame
               /\ worker'[v].pc \in {"idle", "encode"} =>
                    worker'[v].group = 0 /\ worker'[v].hand = NoPacket
               /\ worker'[v].pc \in {"try", "evict", "retry"} =>
                    worker'[v].hand # NoPacket /\ (worker'[v].group > 0 <=> bundled)
    <3>1. CASE v = w
      BY <1>2, <3>1 DEF CanBe
    <3>2. CASE v # w
      BY <1>1, <1>2, <3>2 DEF ControlInv
    <3> QED
      BY <3>1, <3>2
  <2> QED
    BY <1>1, <2>1 DEF ControlInv
<1> QED
  BY <1>2, <1>3, <1>4

LEMMA WorkerIdles ==
  ASSUME FramesInv, NEW w \in Workers, worker' = [worker EXCEPT ![w] = Idle(w)],
         UNCHANGED <<clock, disp, bundled>>
  PROVE  /\ WorkerTypes' /\ ControlInv' /\ worker'[w].frame = NoFrame
         /\ \A v \in Workers : v # w => worker'[v] = worker[v]
<1>1. CanBe(w, Idle(w))
  BY Ranges, SizesAssumption DEF CanBe, Idle, At
<1>2. Idle(w).frame = NoFrame
  BY DEF Idle, At
<1> QED
  BY <1>1, <1>2, WorkerMoves

LEMMA WorkerEncodes ==
  ASSUME FramesInv, NEW w \in Workers, NEW f \in Frames, NEW c \in Lo(w) .. Hi(w),
         worker' = [worker EXCEPT ![w] = At("encode", f, c, 0, NoPacket)],
         UNCHANGED <<clock, disp, bundled>>
  PROVE  /\ WorkerTypes' /\ ControlInv' /\ worker'[w].frame = f /\ worker'[w].group = 0
         /\ \A v \in Workers : v # w => worker'[v] = worker[v]
<1>1. PICK r : r = At("encode", f, c, 0, NoPacket)
  OBVIOUS
<1>2. CanBe(w, r) /\ r.frame = f /\ r.group = 0
  BY <1>1, Ranges, SizesAssumption DEF CanBe, At
<1> QED
  BY <1>1, <1>2, WorkerMoves

LEMMA WorkerPushes ==
  ASSUME FramesInv, NEW w \in Workers, NEW at \in {"try", "evict", "retry"},
         NEW f \in Frames, NEW c \in Lo(w) .. Hi(w), NEW g \in 0 .. Len(Layout),
         NEW p \in Packet, p # NoPacket, g > 0 => bundled, bundled => g > 0,
         worker' = [worker EXCEPT ![w] = At(at, f, c, g, p)],
         UNCHANGED <<clock, disp, bundled>>
  PROVE  /\ WorkerTypes' /\ ControlInv' /\ worker'[w].frame = f /\ worker'[w].group = g
         /\ \A v \in Workers : v # w => worker'[v] = worker[v]
<1>1. PICK r : r = At(at, f, c, g, p)
  OBVIOUS
<1>2. /\ r.pc = at /\ r.frame = f /\ r.c = c /\ r.group = g /\ r.hand = p
      /\ r \in [pc : {"idle", "encode", "try", "evict", "retry"}, frame : Frames \cup {NoFrame},
                c : 0 .. C, group : 0 .. Len(Layout), hand : Packet \cup {NoPacket}]
  BY <1>1, Ranges, SizesAssumption DEF At
<1>3. CanBe(w, r)
  BY <1>2, SizesAssumption DEF CanBe
<1> QED
  BY <1>1, <1>2, <1>3, WorkerMoves

(* A frame in somebody's hands is not pooled, and stamped. *)
LEMMA HeldIsDated ==
  ASSUME FramesInv, NEW f \in Frames, Held(f) \/ clock.frame = f
  PROVE  f \notin pool /\ frameTs[f] \in Times /\ frameTs[f] > 0
<1>1. f \notin pool
  BY DEF FramesInv, LinesInv, PoolInv
<1>2. frameTs[f] > 0
  BY <1>1 DEF FramesInv, LinesInv, Dated
<1> QED
  BY <1>1, <1>2 DEF FramesInv, TypeOK, Times

LEMMA LeastGroup ==
  ASSUME NEW S \in SUBSET Nat, S # {}
  PROVE  Min(S) \in S
<1> DEFINE R == OpToRel(<, Nat)
<1>1. R = {ss \in Nat \X Nat : ss[1] < ss[2]}
  BY DEF OpToRel
<1>2. IsWellFoundedOn(R, Nat)
  BY NatLessThanWellFounded
<1> HIDE DEF R
<1>3. PICK c \in S : \A d \in S : ~(<<d, c>> \in R)
  BY <1>2, WFMin
<1>4. ASSUME NEW d \in S PROVE c <= d
  <2>1. c \in Nat /\ d \in Nat /\ <<d, c>> \notin R
    BY <1>3
  <2>2. ASSUME d < c PROVE <<d, c>> \in R
    BY <1>1, <2>1, <2>2
  <2> QED
    BY <2>1, <2>2
<1> QED
  BY <1>4 DEF Min

(* sendBundled either has a packet in hand next, or has released the frame. *)
LEMMA SendsLater ==
  ASSUME FramesInv, NEW w \in Workers, NEW f \in Frames, worker[w].frame = f, NEW n \in Nat,
         SendLater(w, n)
  PROVE  \/ /\ pool' = pool
            /\ \E g \in DOMAIN Layout :
                 /\ g > n /\ Bundle(f, g) \in Packet /\ Bundle(f, g) # NoPacket
                 /\ worker' = [worker EXCEPT ![w] = At("try", f, Hi(w), g, Bundle(f, g))]
         \/ pool' = pool \cup {f} /\ worker' = [worker EXCEPT ![w] = Idle(w)]
<1>1. CASE Later(f, n) = {}
  BY <1>1 DEF SendLater
<1>2. CASE Later(f, n) # {}
  <2>1. Layout \in Seq(SUBSET (0 .. C - 1)) /\ DOMAIN Layout \subseteq Nat
    BY SizesAssumption
  <2>2. Later(f, n) \in SUBSET Nat
    BY <2>1 DEF Later
  <2>3. Min(Later(f, n)) \in Later(f, n)
    BY <1>2, <2>2, LeastGroup
  <2>4. PICK g \in DOMAIN Layout : g > n /\ g = Min(Later(f, n))
    BY <2>3 DEF Later
  <2>5. worker' = [worker EXCEPT ![w] = At("try", f, Hi(w), g, Bundle(f, g))] /\ pool' = pool
    BY <1>2, <2>4 DEF SendLater
  <2>6. frameTs[f] \in Times /\ frameTs[f] > 0
    <3>1. Held(f)
      BY DEF Held, Holds
    <3> QED
      BY <3>1, HeldIsDated
  <2>7. Carried(f, g) \in SUBSET Channels
    BY <2>1 DEF Carried, Channels
  <2>8. [c \in Channels |-> IF c \in Carried(f, g) THEN encoded[f][c] ELSE Empty]
          \in [Channels -> Times \cup {Empty}]
    <3>1. \A c \in Channels : encoded[f][c] \in Times \cup {Empty}
      BY DEF FramesInv, TypeOK
    <3> QED
      BY <3>1
  <2>9. Bundle(f, g) \in Packet /\ Bundle(f, g).ts = frameTs[f]
    BY <2>6, <2>7, <2>8 DEF Bundle, Packet
  <2>10. Bundle(f, g) # NoPacket
    BY <2>6, <2>9 DEF NoPacket
  <2> QED
    BY <2>4, <2>5, <2>9, <2>10
<1> QED
  BY <1>1, <1>2

(* How the frames stay in order, step by step: the clock, ... *)
LEMMA ClockKept == ASSUME FramesInv, ClockStep PROVE FramesInv'
<1> USE SizesAssumption
<1>0. /\ FrameTypes /\ LineTypes /\ WorkerTypes /\ SendTypes /\ SessionTypes
      /\ ControlInv /\ LinesInv
  BY TypeParts DEF FramesInv
<1>1. CASE Acquire
  <2>1. PICK f \in pool : /\ clock' = [pc |-> "try", frame |-> f]
                          /\ pool' = pool \ {f}
                          /\ frameTs' = [frameTs EXCEPT ![f] = mixTs + 1]
                          /\ encoded' = [encoded EXCEPT ![f] = Cleared(f)]
    BY <1>1 DEF Acquire
  <2>2. /\ clock.pc = "idle" /\ mixTs < MaxTicks /\ mixTs' = mixTs + 1
        /\ UNCHANGED <<refs, mixCh, disp, jobs, worker, bundled, encSeq, sendCh, sending, done,
                       exited>>
    BY <1>1 DEF Acquire, encVars, sendVars
  <2>3. clock.frame = NoFrame /\ f \in Frames /\ f # NoFrame
    BY <1>0, <2>2 DEF ControlInv, FrameTypes
  <2>4. LinesInv'
    BY <2>1, <2>2, <2>3, LinesAcquire
  <2>5. Cleared(f) \in [Channels -> Times \cup {Empty}]
    BY <1>0, <2>3 DEF Cleared, FrameTypes
  <2>6. FrameTypes'
    BY <1>0, <2>1, <2>2, <2>3, <2>5 DEF FrameTypes, LineTypes, Times
  <2>7. LineTypes' /\ WorkerTypes' /\ SendTypes' /\ SessionTypes'
    BY <1>0, <2>1, <2>2, <2>3 DEF LineTypes, WorkerTypes, SendTypes, SessionTypes
  <2>8. ControlInv'
    BY <1>0, <2>1, <2>2, <2>3 DEF ControlInv
  <2> QED
    BY <2>4, <2>6, <2>7, <2>8, TypeParts DEF FramesInv
<1>2. CASE TryPushFrame
  <2>0. /\ clock.pc = "try" /\ clock.frame \in Frames /\ clock.frame # NoFrame
        /\ UNCHANGED <<pool, frameTs, refs, encoded, mixTs, disp, jobs, worker, bundled, encSeq,
                       sendCh, sending, done, exited>>
    BY <1>0, <1>2 DEF TryPushFrame, encVars, sendVars, frameVars, ControlInv, LineTypes
  <2>1. FrameTypes' /\ WorkerTypes' /\ SendTypes' /\ SessionTypes'
    BY <1>0, <2>0 DEF FrameTypes, WorkerTypes, SendTypes, SessionTypes
  <2>2. CASE Len(mixCh) < MixCap
    <3>1. mixCh' = Append(mixCh, clock.frame) /\ clock' = [pc |-> "idle", frame |-> NoFrame]
      BY <1>2, <2>2 DEF TryPushFrame, ClockIdle
    <3>2. LinesInv'
      BY <2>0, <3>1, LinesClock
    <3>3. mixCh' \in Seq(Frames) /\ Len(mixCh') <= MixCap
      BY <1>0, <2>0, <2>2, <3>1 DEF LineTypes
    <3>4. LineTypes'
      BY <1>0, <2>0, <3>1, <3>3 DEF LineTypes
    <3>5. ControlInv'
      BY <1>0, <2>0, <3>1 DEF ControlInv
    <3> QED
      BY <2>1, <3>2, <3>4, <3>5, TypeParts DEF FramesInv
  <2>3. CASE ~(Len(mixCh) < MixCap)
    <3>1. mixCh' = mixCh /\ clock' = [pc |-> "evict", frame |-> clock.frame]
      BY <1>2, <2>3 DEF TryPushFrame
    <3>2. LinesInv'
      BY <1>0, <2>0, <3>1, LinesRest
    <3>3. LineTypes' /\ ControlInv'
      BY <1>0, <2>0, <3>1 DEF LineTypes, ControlInv
    <3> QED
      BY <2>1, <3>2, <3>3, TypeParts DEF FramesInv
  <2> QED
    BY <2>2, <2>3
<1>3. CASE EvictFrame
  <2>0. /\ clock.pc = "evict" /\ clock.frame \in Frames /\ clock.frame # NoFrame
        /\ clock' = [pc |-> "retry", frame |-> clock.frame]
        /\ UNCHANGED <<frameTs, refs, encoded, mixTs, disp, jobs, worker, bundled, encSeq,
                       sendCh, sending, done, exited>>
    BY <1>0, <1>3 DEF EvictFrame, encVars, sendVars, ControlInv, LineTypes
  <2>1. WorkerTypes' /\ SendTypes' /\ SessionTypes' /\ ControlInv'
    BY <1>0, <2>0 DEF WorkerTypes, SendTypes, SessionTypes, ControlInv
  <2>2. CASE mixCh # <<>>
    <3>1. mixCh' = Tail(mixCh) /\ pool' = pool \cup {Head(mixCh)}
      BY <1>3, <2>2 DEF EvictFrame
    <3>2. LinesInv'
      BY <2>0, <2>2, <3>1, LinesEvict
    <3>3. mixCh' \in Seq(Frames) /\ Len(mixCh') <= MixCap /\ Head(mixCh) \in Frames
      BY <1>0, <2>2, <3>1 DEF LineTypes
    <3>4. LineTypes' /\ FrameTypes'
      BY <1>0, <2>0, <3>1, <3>3 DEF LineTypes, FrameTypes
    <3> QED
      BY <2>1, <3>2, <3>4, TypeParts DEF FramesInv
  <2>3. CASE mixCh = <<>>
    <3>1. mixCh' = mixCh /\ pool' = pool
      BY <1>3, <2>3 DEF EvictFrame
    <3>2. LinesInv'
      BY <1>0, <2>0, <3>1, LinesRest
    <3>3. LineTypes' /\ FrameTypes'
      BY <1>0, <2>0, <3>1 DEF LineTypes, FrameTypes
    <3> QED
      BY <2>1, <3>2, <3>3, TypeParts DEF FramesInv
  <2> QED
    BY <2>2, <2>3
<1>4. CASE RetryPushFrame
  <2>0. /\ clock.pc = "retry" /\ clock.frame \in Frames /\ clock.frame # NoFrame
        /\ clock' = [pc |-> "idle", frame |-> NoFrame]
        /\ UNCHANGED <<frameTs, refs, encoded, mixTs, disp, jobs, worker, bundled, encSeq,
                       sendCh, sending, done, exited>>
    BY <1>0, <1>4 DEF RetryPushFrame, encVars, sendVars, ControlInv, LineTypes, ClockIdle
  <2>1. WorkerTypes' /\ SendTypes' /\ SessionTypes' /\ ControlInv'
    BY <1>0, <2>0 DEF WorkerTypes, SendTypes, SessionTypes, ControlInv
  <2>2. \/ mixCh' = Append(mixCh, clock.frame) /\ pool' = pool /\ Len(mixCh) < MixCap
        \/ pool' = pool \cup {clock.frame} /\ mixCh' = mixCh
    BY <1>4 DEF RetryPushFrame
  <2>3. LinesInv'
    BY <2>0, <2>2, LinesClock
  <2>4. mixCh' \in Seq(Frames) /\ Len(mixCh') <= MixCap
    <3>1. CASE mixCh' = Append(mixCh, clock.frame) /\ Len(mixCh) < MixCap
      BY <1>0, <2>0, <3>1 DEF LineTypes
    <3> QED
      BY <1>0, <2>2, <3>1 DEF LineTypes
  <2>5. LineTypes' /\ FrameTypes'
    BY <1>0, <2>0, <2>2, <2>4 DEF LineTypes, FrameTypes
  <2> QED
    BY <2>1, <2>3, <2>5, TypeParts DEF FramesInv
<1> QED
  BY <1>1, <1>2, <1>3, <1>4 DEF ClockStep

(* ... the dispatcher, ... *)
LEMMA DispatcherKept == ASSUME FramesInv, TakeFrame \/ FanOut PROVE FramesInv'
<1> USE SizesAssumption
<1>0. /\ FrameTypes /\ LineTypes /\ WorkerTypes /\ SendTypes /\ SessionTypes
      /\ ControlInv /\ LinesInv
  BY TypeParts DEF FramesInv
<1>1. CASE TakeFrame
  <2>0. /\ mixCh # <<>> /\ disp.frame = NoFrame /\ mixCh' = Tail(mixCh)
        /\ disp' = [frame |-> Head(mixCh), next |-> 0]
        /\ refs' = [refs EXCEPT ![Head(mixCh)] = K]
        /\ UNCHANGED <<pool, frameTs, encoded, clock, mixTs, jobs, worker, bundled, encSeq,
                       sendCh, sending, done, exited>>
    BY <1>1 DEF TakeFrame, Shares, clockVars, encVars, sendVars
  <2>1. mixCh' \in Seq(Frames) /\ Len(mixCh') <= MixCap /\ Head(mixCh) \in Frames
    BY <1>0, <2>0 DEF LineTypes
  <2>2. LinesInv'
    BY <1>1, LinesTake
  <2>3. FrameTypes' /\ LineTypes'
    BY <1>0, <2>0, <2>1 DEF FrameTypes, LineTypes
  <2>4. WorkerTypes' /\ SendTypes' /\ SessionTypes' /\ ControlInv'
    BY <1>0, <2>0, <2>1 DEF WorkerTypes, SendTypes, SessionTypes, ControlInv
  <2> QED
    BY <2>2, <2>3, <2>4, TypeParts DEF FramesInv
<1>2. CASE FanOut
  <2>0. /\ disp.frame # NoFrame /\ Len(jobs[disp.next]) < JobCap
        /\ jobs' = [jobs EXCEPT ![disp.next] = Append(@, disp.frame)]
        /\ disp' = IF disp.next + 1 = K THEN [frame |-> NoFrame, next |-> 0]
                                        ELSE [frame |-> disp.frame, next |-> disp.next + 1]
        /\ UNCHANGED <<pool, frameTs, refs, encoded, mixCh, clock, mixTs, worker, bundled, encSeq,
                       sendCh, sending, done, exited>>
    BY <1>2 DEF FanOut, frameVars, clockVars, encVars, sendVars
  <2>1. disp.frame \in Frames /\ disp.next \in Workers /\ disp.next \in 0 .. K - 1
    BY <2>0, DispatchedIsHeld DEF Workers
  <2>2. LinesInv'
    BY <1>2, LinesFan
  <2>3. jobs' \in [Workers -> Seq(Frames)] /\ \A w \in Workers : Len(jobs'[w]) <= JobCap
    <3>1. /\ Append(jobs[disp.next], disp.frame) \in Seq(Frames)
          /\ Len(Append(jobs[disp.next], disp.frame)) <= JobCap
      BY <1>0, <2>0, <2>1 DEF LineTypes
    <3> QED
      BY <1>0, <2>0, <2>1, <3>1 DEF LineTypes
  <2>4. disp' \in [frame : Frames \cup {NoFrame}, next : 0 .. K]
    <3>1. CASE disp.next + 1 = K
      BY <2>0, <3>1
    <3>2. CASE disp.next + 1 # K
      BY <2>0, <2>1, <3>2
    <3> QED
      BY <3>1, <3>2
  <2>5. LineTypes' /\ FrameTypes' /\ WorkerTypes' /\ SendTypes' /\ SessionTypes'
    <3>1. LineTypes'
      BY <1>0, <2>0, <2>3, <2>4 DEF LineTypes
    <3> QED
      BY <1>0, <2>0, <3>1 DEF FrameTypes, WorkerTypes, SendTypes, SessionTypes
  <2>6. ControlInv'
    <3>1. (disp'.frame # NoFrame => disp'.next < K) /\ (disp'.frame = NoFrame => disp'.next = 0)
      <4>1. CASE disp.next + 1 = K
        BY <2>0, <4>1
      <4>2. CASE disp.next + 1 # K
        BY <2>0, <2>1, <4>2
      <4> QED
        BY <4>1, <4>2
    <3> QED
      BY <1>0, <2>0, <3>1 DEF ControlInv
  <2> QED
    BY <2>2, <2>5, <2>6, TypeParts DEF FramesInv
<1> QED
  BY <1>1, <1>2

(* ... the workers, ... *)
LEMMA EncodeKept == ASSUME FramesInv, NEW w \in Workers,
                           TakeJob(w) \/ Encode(w) \/ EncodeFails(w)
                    PROVE FramesInv'
<1> USE SizesAssumption
<1>0. /\ FrameTypes /\ LineTypes /\ WorkerTypes /\ SendTypes /\ SessionTypes
      /\ ControlInv /\ LinesInv
  BY TypeParts DEF FramesInv
<1>c. Lo(w) \in Lo(w) .. Hi(w) /\ Hi(w) \in 0 .. C /\ Lo(w) \in Nat
  BY Ranges
<1>1. CASE TakeJob(w)
  <2>0. /\ jobs[w] # <<>> /\ jobs' = [jobs EXCEPT ![w] = Tail(jobs[w])]
        /\ worker' = [worker EXCEPT ![w] = At("encode", Head(jobs[w]), Lo(w), 0, NoPacket)]
        /\ UNCHANGED <<pool, frameTs, refs, encoded, mixCh, clock, mixTs, disp, bundled, encSeq,
                       sendCh, sending, done, exited>>
    BY <1>1 DEF TakeJob, frameVars, clockVars, encVars, sendVars
  <2>1. /\ jobs' \in [Workers -> Seq(Frames)] /\ \A v \in Workers : Len(jobs'[v]) <= JobCap
        /\ Head(jobs[w]) \in Frames
    <3>1. Tail(jobs[w]) \in Seq(Frames) /\ Len(Tail(jobs[w])) <= JobCap /\ Head(jobs[w]) \in Frames
      BY <1>0, <2>0 DEF LineTypes
    <3> QED
      BY <1>0, <2>0, <3>1 DEF LineTypes
  <2>2. PICK f \in Frames : f = Head(jobs[w])
    BY <2>1
  <2>3. worker' = [worker EXCEPT ![w] = At("encode", f, Lo(w), 0, NoPacket)]
    BY <2>0, <2>2
  <2>4. 0 \in 0 .. Len(Layout) /\ f # NoFrame
    OBVIOUS
  <2>5. WorkerTypes' /\ ControlInv'
    BY <1>c, <2>0, <2>3, WorkerEncodes
  <2>6. LineTypes' /\ FrameTypes' /\ SendTypes' /\ SessionTypes'
    BY <1>0, <2>0, <2>1 DEF LineTypes, FrameTypes, SendTypes, SessionTypes
  <2>7. LinesInv'
    BY <1>1, LinesTakeJob
  <2> QED
    BY <2>5, <2>6, <2>7, TypeParts DEF FramesInv
<1>2. ASSUME Encode(w) \/ EncodeFails(w) PROVE FramesInv'
  <2>0. /\ worker[w].pc = "encode" /\ worker[w].c < Hi(w)
        /\ UNCHANGED <<pool, frameTs, refs, mixCh, clock, mixTs, disp, jobs, bundled,
                       sendCh, sending, done, exited>>
    BY <1>2 DEF Encode, EncodeFails, frameVars, clockVars, encVars, sendVars
  <2>1. worker[w].group = 0
    BY <1>0, <2>0 DEF ControlInv
  <2>2. PICK f \in Frames, c \in Lo(w) .. Hi(w) - 1 : f = worker[w].frame /\ c = worker[w].c
    <3>1. worker[w].frame \in Frames /\ worker[w].c \in Lo(w) .. Hi(w)
      BY <1>0, <2>0 DEF ControlInv, WorkerTypes
    <3> QED
      BY <1>c, <2>0, <3>1
  <2>3. c + 1 \in Lo(w) .. Hi(w) /\ c \in Channels /\ 0 \in 0 .. Len(Layout) /\ f # NoFrame
    BY <1>c DEF Channels
  <2>4. frameTs[f] \in Times
    <3>1. Held(f)
      BY <2>2 DEF Held, Holds
    <3> QED
      BY <3>1, HeldIsDated
  <2>5. ASSUME worker' = [worker EXCEPT ![w] = At("encode", f, c + 1, 0, NoPacket)]
        PROVE  WorkerTypes' /\ ControlInv' /\ LinesInv'
    <3>1. /\ WorkerTypes' /\ ControlInv' /\ worker'[w].frame = f /\ worker'[w].group = 0
          /\ \A v \in Workers : v # w => worker'[v] = worker[v]
      BY <2>0, <2>3, <2>5, WorkerEncodes
    <3>2. LinesInv'
      BY <1>0, <2>0, <2>1, <2>2, <3>1, LinesRest
    <3> QED
      BY <3>1, <3>2
  <2>6. CASE EncodeFails(w)
    <3>1. /\ worker' = [worker EXCEPT ![w] = At("encode", f, c + 1, 0, NoPacket)]
          /\ UNCHANGED <<encoded, encSeq>>
      BY <2>2, <2>6 DEF EncodeFails, frameVars, encVars
    <3>2. WorkerTypes' /\ ControlInv' /\ LinesInv'
      BY <2>5, <3>1
    <3>3. LineTypes' /\ FrameTypes' /\ SendTypes' /\ SessionTypes'
      BY <1>0, <2>0, <3>1 DEF LineTypes, FrameTypes, SendTypes, SessionTypes
    <3> QED
      BY <3>2, <3>3, TypeParts DEF FramesInv
  <2>7. CASE Encode(w) /\ bundled
    <3>1. /\ worker' = [worker EXCEPT ![w] = At("encode", f, c + 1, 0, NoPacket)]
          /\ encoded' = [encoded EXCEPT ![f] = [encoded[f] EXCEPT ![c] = frameTs[f]]]
          /\ UNCHANGED encSeq
      BY <1>0, <2>2, <2>3, <2>7 DEF Encode, FrameTypes
    <3>2. WorkerTypes' /\ ControlInv' /\ LinesInv'
      BY <2>5, <3>1
    <3>3. encoded' \in [Frames -> [Channels -> Times \cup {Empty}]]
      <4>1. [encoded[f] EXCEPT ![c] = frameTs[f]] \in [Channels -> Times \cup {Empty}]
        BY <1>0, <2>3, <2>4 DEF FrameTypes
      <4> QED
        BY <1>0, <3>1, <4>1 DEF FrameTypes
    <3>4. LineTypes' /\ FrameTypes' /\ SendTypes' /\ SessionTypes'
      BY <1>0, <2>0, <3>1, <3>3 DEF LineTypes, FrameTypes, SendTypes, SessionTypes
    <3> QED
      BY <3>2, <3>4, TypeParts DEF FramesInv
  <2>8. CASE Encode(w) /\ ~bundled
    <3>1. PICK p : p = [ts |-> frameTs[f], seq |-> encSeq[c], chans |-> {c},
                        made |-> [d \in Channels |-> IF d = c THEN frameTs[f] ELSE Empty]]
      OBVIOUS
    <3>2. /\ worker' = [worker EXCEPT ![w] = At("try", f, c + 1, 0, p)]
          /\ encSeq' = [encSeq EXCEPT ![c] = @ + 1]
          /\ UNCHANGED encoded
      BY <2>2, <2>8, <3>1 DEF Encode
    <3>3. p \in Packet /\ p # NoPacket
      <4>1. encSeq[c] \in Nat
        BY <1>0, <2>3 DEF SendTypes
      <4>2. [d \in Channels |-> IF d = c THEN frameTs[f] ELSE Empty] \in [Channels -> Times \cup {Empty}]
        BY <2>4
      <4>3. p \in Packet /\ p.ts = frameTs[f]
        BY <2>3, <2>4, <3>1, <4>1, <4>2 DEF Packet
      <4>4. frameTs[f] # 0
        BY <2>4 DEF Times
      <4> QED
        BY <4>3, <4>4 DEF NoPacket
    <3>5. /\ WorkerTypes' /\ ControlInv' /\ worker'[w].frame = f /\ worker'[w].group = 0
          /\ \A v \in Workers : v # w => worker'[v] = worker[v]
      <4>1. (0 > 0 => bundled) /\ (bundled => 0 > 0)
        BY <2>8
      <4>2. UNCHANGED <<clock, disp, bundled>>
        BY <2>0
      <4> QED
        BY <2>3, <3>2, <3>3, <4>1, <4>2, WorkerPushes
    <3>6. LinesInv'
      BY <1>0, <2>0, <2>1, <2>2, <3>5, LinesRest
    <3>7. encSeq' \in [Channels -> Nat]
      BY <1>0, <2>3, <3>2 DEF SendTypes
    <3>8. LineTypes' /\ FrameTypes' /\ SendTypes' /\ SessionTypes'
      BY <1>0, <2>0, <3>2, <3>7 DEF LineTypes, FrameTypes, SendTypes, SessionTypes
    <3> QED
      BY <3>5, <3>6, <3>8, TypeParts DEF FramesInv
  <2> QED
    BY <1>2, <2>6, <2>7, <2>8
<1> QED
  BY <1>1, <1>2

LEMMA FinishKept == ASSUME FramesInv, NEW w \in Workers, Finish(w) PROVE FramesInv'
<1> USE SizesAssumption
<1>0. /\ FrameTypes /\ LineTypes /\ WorkerTypes /\ SendTypes /\ SessionTypes
      /\ ControlInv /\ LinesInv
  BY TypeParts DEF FramesInv
<1>1. /\ worker[w].pc = "encode"
      /\ UNCHANGED <<frameTs, encoded, mixCh, clock, mixTs, disp, jobs, bundled, encSeq,
                     sendCh, sending, done, exited>>
  BY DEF Finish, clockVars, encVars, sendVars
<1>2. PICK f \in Frames : f = worker[w].frame /\ worker[w].group = 0
  BY <1>0, <1>1 DEF ControlInv, WorkerTypes
<1>3. /\ refs' = [refs EXCEPT ![f] = refs[f] - 1]
      /\ \/ refs[f] = 1 /\ bundled /\ SendLater(w, 0)
         \/ /\ worker' = [worker EXCEPT ![w] = Idle(w)]
            /\ pool' = pool \/ (refs[f] = 1 /\ pool' = pool \cup {f})
  BY <1>2 DEF Finish, IsLast
<1>4. Lo(w) \in Lo(w) .. Hi(w) /\ Hi(w) \in Lo(w) .. Hi(w) /\ 0 \in 0 .. Len(Layout)
  BY Ranges
<1>5. FrameTypes' \/ ~(pool' = pool \/ pool' = pool \cup {f})
  <2>1. refs[f] - 1 \in 0 .. K
    <3>1. refs[f] \in 1 .. K
      BY <1>2, DropsOne
    <3> QED
      BY <3>1
  <2> QED
    BY <1>0, <1>1, <1>3, <2>1 DEF FrameTypes
<1>6. LineTypes' /\ SendTypes' /\ SessionTypes'
  BY <1>0, <1>1 DEF LineTypes, SendTypes, SessionTypes
<1>7. ASSUME worker' = [worker EXCEPT ![w] = Idle(w)],
             pool' = pool \/ (refs[f] = 1 /\ pool' = pool \cup {f})
      PROVE  FramesInv'
  <2>1. /\ WorkerTypes' /\ ControlInv' /\ worker'[w].frame = NoFrame
        /\ \A v \in Workers : v # w => worker'[v] = worker[v]
    BY <1>1, <1>7, WorkerIdles
  <2>2. pool' = pool \/ (pool' = pool \cup {f} /\ \A v \in Workers : Holds(v, f) => v = w)
    BY <1>2, <1>7, OnlyHolder
  <2>3. LinesInv'
    BY <1>1, <1>2, <1>3, <2>1, <2>2, LinesLeave
  <2> QED
    BY <1>5, <1>6, <1>7, <2>1, <2>3, TypeParts DEF FramesInv
<1>8. ASSUME refs[f] = 1, bundled, SendLater(w, 0) PROVE FramesInv'
  <2>1. CASE pool' = pool \cup {f} /\ worker' = [worker EXCEPT ![w] = Idle(w)]
    BY <1>7, <1>8, <2>1
  <2>2. CASE pool' = pool /\ \E g \in DOMAIN Layout :
               /\ g > 0 /\ Bundle(f, g) \in Packet /\ Bundle(f, g) # NoPacket
               /\ worker' = [worker EXCEPT ![w] = At("try", f, Hi(w), g, Bundle(f, g))]
    <3>1. PICK g \in DOMAIN Layout :
               /\ g > 0 /\ Bundle(f, g) \in Packet /\ Bundle(f, g) # NoPacket
               /\ worker' = [worker EXCEPT ![w] = At("try", f, Hi(w), g, Bundle(f, g))]
      BY <2>2
    <3>2. g \in 0 .. Len(Layout) /\ g > 0 /\ g # 0 /\ f # NoFrame
      BY <3>1
    <3>3. PICK p \in Packet : p = Bundle(f, g)
      BY <3>1
    <3>4. /\ WorkerTypes' /\ ControlInv' /\ worker'[w].frame = f /\ worker'[w].group = g
          /\ \A v \in Workers : v # w => worker'[v] = worker[v]
      BY <1>1, <1>4, <1>8, <3>1, <3>2, <3>3, WorkerPushes
    <3>5. LinesInv'
      BY <1>1, <1>2, <1>3, <1>8, <2>2, <3>2, <3>4, LinesSend
    <3> QED
      BY <1>5, <1>6, <2>2, <3>4, <3>5, TypeParts DEF FramesInv
  <2> QED
    BY <1>2, <1>8, <2>1, <2>2, SendsLater
<1> QED
  BY <1>3, <1>7, <1>8

LEMMA PushKept == ASSUME FramesInv, NEW w \in Workers,
                         TryPushSend(w) \/ EvictSend(w) \/ RetryPushSend(w)
                  PROVE FramesInv'
<1> USE SizesAssumption
<1>0. /\ FrameTypes /\ LineTypes /\ WorkerTypes /\ SendTypes /\ SessionTypes
      /\ ControlInv /\ LinesInv
  BY TypeParts DEF FramesInv
<1>1. /\ worker[w].pc \in {"try", "evict", "retry"}
      /\ UNCHANGED <<frameTs, refs, encoded, mixCh, clock, mixTs, disp, jobs, bundled, encSeq,
                     sending, done, exited>>
  BY DEF TryPushSend, EvictSend, RetryPushSend, frameVars, clockVars, encVars, sendVars
<1>2. PICK f \in Frames, c \in Lo(w) .. Hi(w), g \in 0 .. Len(Layout), p \in Packet :
        /\ f = worker[w].frame /\ c = worker[w].c /\ g = worker[w].group /\ p = worker[w].hand
        /\ p # NoPacket /\ (g > 0 <=> bundled)
  BY <1>0, <1>1 DEF ControlInv, WorkerTypes
<1>3. sendCh' \in Seq(Packet) /\ Len(sendCh') <= SendCap
  <2>1. sendCh \in Seq(Packet) /\ Len(sendCh) <= SendCap /\ SendCap \in Nat
    BY <1>0 DEF SendTypes
  <2>2. \/ sendCh' = sendCh
        \/ Len(sendCh) < SendCap /\ sendCh' = Append(sendCh, p)
        \/ sendCh # <<>> /\ sendCh' = Tail(sendCh)
    BY <1>2 DEF TryPushSend, EvictSend, RetryPushSend
  <2>3. CASE sendCh' = sendCh
    BY <2>1, <2>3
  <2>4. CASE Len(sendCh) < SendCap /\ sendCh' = Append(sendCh, p)
    BY <2>1, <2>4
  <2>5. CASE sendCh # <<>> /\ sendCh' = Tail(sendCh)
    BY <2>1, <2>5
  <2> QED
    BY <2>2, <2>3, <2>4, <2>5
<1>4. LineTypes' /\ SendTypes' /\ SessionTypes'
  BY <1>0, <1>1, <1>3 DEF LineTypes, SendTypes, SessionTypes
<1>5. FrameTypes' \/ ~(pool' = pool \/ pool' = pool \cup {f})
  BY <1>0, <1>1, <1>2 DEF FrameTypes
<1>6. Hi(w) \in Lo(w) .. Hi(w) /\ Lo(w) \in Lo(w) .. Hi(w) /\ f # NoFrame /\ 0 \in 0 .. Len(Layout)
  BY Ranges
<1>7. ASSUME pool' = pool, NEW at \in {"try", "evict", "retry"},
             worker' = [worker EXCEPT ![w] = At(at, f, c, g, p)]
      PROVE  FramesInv'
  <2>1. /\ WorkerTypes' /\ ControlInv' /\ worker'[w].frame = f /\ worker'[w].group = g
        /\ \A v \in Workers : v # w => worker'[v] = worker[v]
    <3>1. (g > 0 => bundled) /\ (bundled => g > 0)
      BY <1>2
    <3>2. UNCHANGED <<clock, disp, bundled>>
      BY <1>1
    <3>3. p # NoPacket
      BY <1>2
    <3> QED
      BY <1>7, <3>1, <3>2, <3>3, WorkerPushes
  <2>2. LinesInv'
    BY <1>0, <1>1, <1>2, <1>7, <2>1, LinesRest
  <2> QED
    BY <1>4, <1>5, <1>7, <2>1, <2>2, TypeParts DEF FramesInv
<1>8. ASSUME AfterPush(w) PROVE FramesInv'
  <2>1. CASE g = 0
    <3>1. pool' = pool /\ worker' = [worker EXCEPT ![w] = At("encode", f, c, 0, NoPacket)]
      BY <1>2, <1>8, <2>1 DEF AfterPush
    <3>2. /\ WorkerTypes' /\ ControlInv' /\ worker'[w].frame = f /\ worker'[w].group = 0
          /\ \A v \in Workers : v # w => worker'[v] = worker[v]
      BY <1>1, <3>1, WorkerEncodes
    <3>3. LinesInv'
      BY <1>0, <1>1, <1>2, <2>1, <3>1, <3>2, LinesRest
    <3> QED
      BY <1>4, <1>5, <3>1, <3>2, <3>3, TypeParts DEF FramesInv
  <2>2. CASE g > 0
    <3>0. g \in Nat /\ SendLater(w, g)
      BY <1>2, <1>8, <2>2 DEF AfterPush
    <3>1. CASE pool' = pool \cup {f} /\ worker' = [worker EXCEPT ![w] = Idle(w)]
      <4>1. /\ WorkerTypes' /\ ControlInv' /\ worker'[w].frame = NoFrame
            /\ \A v \in Workers : v # w => worker'[v] = worker[v]
        BY <1>1, <3>1, WorkerIdles
      <4>2. \A v \in Workers : Holds(v, f) => v = w
        BY <1>2, <2>2, OnlyHolder
      <4>3. LinesInv'
        BY <1>1, <1>2, <2>2, <3>1, <4>1, <4>2, LinesLeave
      <4> QED
        BY <1>4, <1>5, <3>1, <4>1, <4>3, TypeParts DEF FramesInv
    <3>2. CASE pool' = pool /\ \E h \in DOMAIN Layout :
                 /\ h > g /\ Bundle(f, h) \in Packet /\ Bundle(f, h) # NoPacket
                 /\ worker' = [worker EXCEPT ![w] = At("try", f, Hi(w), h, Bundle(f, h))]
      <4>1. PICK h \in DOMAIN Layout :
                 /\ h > g /\ Bundle(f, h) \in Packet /\ Bundle(f, h) # NoPacket
                 /\ worker' = [worker EXCEPT ![w] = At("try", f, Hi(w), h, Bundle(f, h))]
        BY <3>2
      <4>2. h \in 0 .. Len(Layout) /\ h > 0 /\ h # 0
        BY <3>0, <4>1
      <4>3. PICK q \in Packet : q = Bundle(f, h)
        BY <4>1
      <4>4. /\ WorkerTypes' /\ ControlInv' /\ worker'[w].frame = f /\ worker'[w].group = h
            /\ \A v \in Workers : v # w => worker'[v] = worker[v]
        <5>1. (h > 0 => bundled) /\ (bundled => h > 0)
          BY <1>2, <2>2, <4>2
        <5>2. UNCHANGED <<clock, disp, bundled>>
          BY <1>1
        <5> QED
          BY <1>6, <4>1, <4>2, <4>3, <5>1, <5>2, WorkerPushes
      <4>5. LinesInv'
        BY <1>0, <1>1, <1>2, <2>2, <3>2, <4>2, <4>4, LinesRest
      <4> QED
        BY <1>4, <1>5, <3>2, <4>4, <4>5, TypeParts DEF FramesInv
    <3> QED
      BY <1>2, <3>0, <3>1, <3>2, SendsLater
  <2> QED
    BY <1>2, <2>1, <2>2
<1>9. CASE TryPushSend(w)
  <2>1. AfterPush(w) \/ (pool' = pool /\ worker' = [worker EXCEPT ![w] = At("evict", f, c, g, p)])
    BY <1>2, <1>9 DEF TryPushSend
  <2> QED
    BY <1>7, <1>8, <2>1
<1>10. CASE EvictSend(w)
  <2>1. pool' = pool /\ worker' = [worker EXCEPT ![w] = At("retry", f, c, g, p)]
    BY <1>2, <1>10 DEF EvictSend, frameVars
  <2> QED
    BY <1>7, <2>1
<1>11. CASE RetryPushSend(w)
  BY <1>8, <1>11 DEF RetryPushSend
<1> QED
  BY <1>9, <1>10, <1>11

(* ... and everything else, which leaves the frames alone. *)
LEMMA RestKept ==
  ASSUME FramesInv,
         \/ \E w \in Workers : WorkerExits(w)
         \/ DispatcherExits \/ Send \/ SenderExits \/ CloseDone
         \/ UNCHANGED vars
  PROVE  FramesInv'
<1> USE SizesAssumption
<1>0. /\ FrameTypes /\ LineTypes /\ WorkerTypes /\ SendTypes /\ SessionTypes
      /\ ControlInv /\ LinesInv
  BY TypeParts DEF FramesInv
<1>1. UNCHANGED <<pool, frameTs, refs, encoded, mixCh, clock, mixTs, disp, jobs, worker, bundled, encSeq>>
  BY DEF WorkerExits, DispatcherExits, Send, SenderExits, CloseDone, vars,
         frameVars, clockVars, encVars, sendVars
<1>2. LinesInv'
  BY <1>0, <1>1, LinesRest
<1>3. FrameTypes' /\ LineTypes' /\ WorkerTypes' /\ ControlInv'
  BY <1>0, <1>1 DEF FrameTypes, LineTypes, WorkerTypes, ControlInv
<1>4. SendTypes' /\ SessionTypes'
  <2>1. \/ sendCh' = sendCh /\ sending' = sending
        \/ sendCh # <<>> /\ sendCh' = Tail(sendCh) /\ sending' = Head(sendCh)
    BY DEF WorkerExits, DispatcherExits, Send, SenderExits, CloseDone, vars, sendVars
  <2>2. SendTypes'
    <3>1. CASE sendCh' = sendCh /\ sending' = sending
      BY <1>0, <1>1, <3>1 DEF SendTypes
    <3>2. CASE sendCh # <<>> /\ sendCh' = Tail(sendCh) /\ sending' = Head(sendCh)
      <4>1. /\ Tail(sendCh) \in Seq(Packet) /\ Head(sendCh) \in Packet
            /\ Len(Tail(sendCh)) = Len(sendCh) - 1 /\ Len(sendCh) \in Nat
        BY <1>0, <3>2 DEF SendTypes
      <4>2. Len(sendCh') <= SendCap
        BY <1>0, <3>2, <4>1, SizesAssumption DEF SendTypes
      <4> QED
        BY <1>0, <1>1, <3>2, <4>1, <4>2 DEF SendTypes
    <3> QED
      BY <2>1, <3>1, <3>2
  <2>3. done' \in BOOLEAN
    BY <1>0 DEF WorkerExits, DispatcherExits, Send, SenderExits, CloseDone, vars, SessionTypes
  <2>4. exited' \subseteq Goroutines
    BY <1>0 DEF WorkerExits, DispatcherExits, Send, SenderExits, CloseDone, vars, SessionTypes,
                Goroutines, Dispatcher, Sender
  <2> QED
    BY <1>0, <1>1, <2>2, <2>3, <2>4 DEF SessionTypes
<1> QED
  BY <1>2, <1>3, <1>4, TypeParts DEF FramesInv

LEMMA FramesKept == FramesInv /\ [Next]_vars => FramesInv'
<1> SUFFICES ASSUME FramesInv, [Next]_vars PROVE FramesInv'
  OBVIOUS
<1>1. CASE ClockStep
  BY <1>1, ClockKept
<1>2. CASE TakeFrame \/ FanOut
  BY <1>2, DispatcherKept
<1>3. ASSUME NEW w \in Workers, WorkerStep(w) PROVE FramesInv'
  BY <1>3, EncodeKept, FinishKept, PushKept DEF WorkerStep
<1>4. CASE \/ \E w \in Workers : WorkerExits(w)
           \/ DispatcherExits \/ Send \/ SenderExits \/ CloseDone
           \/ UNCHANGED vars
  BY <1>4, RestKept
<1> QED
  BY <1>1, <1>2, <1>3, <1>4 DEF Next

(* TypeOK: for instance no reference count is ever negative or above K, and *)
(* no worker encodes a channel that is not its own.                         *)
(* (pipeline.go:128-203)                                                    *)
THEOREM TypeCorrect == Spec => []TypeOK
<1>1. FramesInv => TypeOK
  BY DEF FramesInv
<1> QED
  BY <1>1, FramesInitially, FramesKept, PTL DEF Spec

(* FrameExclusive, whatever the number of workers: a frame that goes back   *)
(* to the pool, where the next SubmitMix finds it, is nobody else's; and    *)
(* the mix clock and the queue are through with a frame once it is fanned   *)
(* out.  (pipeline.go:67-117, 128-203)                                      *)
THEOREM FramesAreExclusive == Spec => []FrameExclusive
<1>1. FramesInv => FrameExclusive
  <2> SUFFICES ASSUME FramesInv, NEW f \in Frames
               PROVE  /\ f \in pool => ~(WithClock(f) \/ Queued(f) \/ WithDispatcher(f)
                                           \/ InJobs(f) \/ WithWorker(f))
                      /\ WithClock(f) \/ Queued(f) =>
                           ~(WithDispatcher(f) \/ InJobs(f) \/ WithWorker(f))
                      /\ WithClock(f) => ~Queued(f)
    BY DEF FrameExclusive
  <2>0. f # NoFrame /\ frameTs[f] \in Nat
    BY SizesAssumption DEF FramesInv, TypeOK, Times
  <2>1. WithDispatcher(f) \/ InJobs(f) \/ WithWorker(f) => Held(f)
    <3>1. WithDispatcher(f) => Held(f)
      BY <2>0, DispatchedIsHeld DEF WithDispatcher, Held
    <3>2. InJobs(f) \/ WithWorker(f) => Held(f)
      BY DEF InJobs, WithWorker, Held, Holds
    <3> QED
      BY <3>1, <3>2
  <2>2. f \in pool => ~WithClock(f) /\ ~Queued(f) /\ ~Held(f)
    BY DEF FramesInv, LinesInv, PoolInv, WithClock, Queued
  <2>3. WithClock(f) => ~Held(f) /\ ~Queued(f)
    BY <2>0 DEF FramesInv, LinesInv, ClockOrder, WithClock, Queued
  <2>4. Queued(f) => ~Held(f)
    BY <2>0 DEF FramesInv, LinesInv, QueueOrder, Queued
  <2> QED
    BY <2>1, <2>2, <2>3, <2>4
<1> QED
  BY <1>1, FramesInitially, FramesKept, PTL DEF Spec

-----------------------------------------------------------------------------
(* What packets are made of.  In the bundled format a frame's slots hold    *)
(* nothing or what was encoded from it since it was last filled; the packet *)
(* in a worker's hand carries its frame's mix time and, in the other        *)
(* format, the last sequence number of the channel just encoded.            *)
Pushing(w) == worker[w].pc \in {"try", "evict", "retry"}

SlotsFresh ==
  bundled => \A f \in Frames, c \in Channels : encoded[f][c] = Empty \/ encoded[f][c] = frameTs[f]

HandsWhole ==
  \A w \in Workers : Pushing(w) =>
    /\ worker[w].hand.ts = frameTs[worker[w].frame] /\ Whole(worker[w].hand)
    /\ ~bundled => /\ worker[w].c > Lo(w) /\ worker[w].hand.chans = {worker[w].c - 1}
                   /\ worker[w].hand.seq + 1 = encSeq[worker[w].c - 1]

QueueWhole == \A p \in Elements(sendCh) : Whole(p)

PacketInv == FramesInv /\ SlotsFresh /\ HandsWhole /\ QueueWhole

(* One worker moves. *)
LEMMA HandMoves ==
  ASSUME FramesInv, HandsWhole, NEW w \in Workers, NEW at, NEW f, NEW c, NEW g, NEW p,
         at \in {"try", "evict", "retry"} =>
           /\ p.ts = frameTs[f] /\ Whole(p)
           /\ ~bundled => c > Lo(w) /\ p.chans = {c - 1} /\ p.seq + 1 = encSeq'[c - 1],
         worker' = [worker EXCEPT ![w] = At(at, f, c, g, p)],
         UNCHANGED <<frameTs, bundled>>,
         \A v \in Workers, d \in Channels :
           v # w /\ ~bundled /\ d \in Lo(v) .. Hi(v) - 1 => encSeq'[d] = encSeq[d]
  PROVE  HandsWhole'
<1>1. /\ worker'[w].pc = at /\ worker'[w].frame = f /\ worker'[w].c = c /\ worker'[w].hand = p
      /\ \A v \in Workers : v # w => worker'[v] = worker[v]
  BY DEF FramesInv, TypeOK, At
<1>2. SUFFICES ASSUME NEW v \in Workers, worker'[v].pc \in {"try", "evict", "retry"}
               PROVE  /\ worker'[v].hand.ts = frameTs[worker'[v].frame] /\ Whole(worker'[v].hand)
                      /\ ~bundled =>
                           /\ worker'[v].c > Lo(v) /\ worker'[v].hand.chans = {worker'[v].c - 1}
                           /\ worker'[v].hand.seq + 1 = encSeq'[worker'[v].c - 1]
  BY DEF HandsWhole, Pushing
<1>3. CASE v = w
  BY <1>1, <1>2, <1>3
<1>4. CASE v # w
  <2>1. worker'[v] = worker[v]
    BY <1>1, <1>4
  <2>2. /\ worker[v].hand.ts = frameTs[worker[v].frame] /\ Whole(worker[v].hand)
        /\ ~bundled => /\ worker[v].c > Lo(v) /\ worker[v].hand.chans = {worker[v].c - 1}
                       /\ worker[v].hand.seq + 1 = encSeq[worker[v].c - 1]
    BY <1>2, <2>1 DEF HandsWhole, Pushing
  <2>3. ASSUME ~bundled PROVE encSeq'[worker[v].c - 1] = encSeq[worker[v].c - 1]
    <3>1. worker[v].c \in Lo(v) .. Hi(v) /\ Lo(v) \in Nat /\ Hi(v) \in 0 .. C /\ C \in Nat
      BY Ranges, SizesAssumption DEF FramesInv, TypeOK
    <3>2. worker[v].c - 1 \in Lo(v) .. Hi(v) - 1 /\ worker[v].c - 1 \in Channels
      BY <2>2, <2>3, <3>1 DEF Channels
    <3> QED
      BY <1>4, <2>3, <3>2
  <2> QED
    BY <2>1, <2>2, <2>3
<1> QED
  BY <1>3, <1>4

(* sendBundled makes a bundle of slots that are all from one mix time. *)
LEMMA BundlesWhole ==
  ASSUME FramesInv, SlotsFresh, bundled, NEW f \in Frames, NEW g \in DOMAIN Layout
  PROVE  Bundle(f, g).ts = frameTs[f] /\ Whole(Bundle(f, g))
<1>1. Carried(f, g) \subseteq Channels
  BY SizesAssumption DEF Carried, Channels
<1>2. \A c \in Carried(f, g) : encoded[f][c] = frameTs[f]
  BY <1>1 DEF SlotsFresh, Carried
<1> QED
  BY <1>1, <1>2 DEF Bundle, Whole

LEMMA BundleNext ==
  ASSUME FramesInv, SlotsFresh, HandsWhole, bundled, NEW w \in Workers, NEW f \in Frames,
         worker[w].frame = f, NEW n \in Nat, SendLater(w, n), UNCHANGED <<frameTs, bundled>>
  PROVE  HandsWhole'
<1>1. CASE worker' = [worker EXCEPT ![w] = Idle(w)]
  BY <1>1, HandMoves DEF Idle
<1>2. CASE \E g \in DOMAIN Layout :
             worker' = [worker EXCEPT ![w] = At("try", f, Hi(w), g, Bundle(f, g))]
  <2>1. PICK g \in DOMAIN Layout :
             worker' = [worker EXCEPT ![w] = At("try", f, Hi(w), g, Bundle(f, g))]
    BY <1>2
  <2>2. PICK p : p = Bundle(f, g)
    OBVIOUS
  <2>3. p.ts = frameTs[f] /\ Whole(p)
    BY <2>2, BundlesWhole
  <2>4. worker' = [worker EXCEPT ![w] = At("try", f, Hi(w), g, p)]
    BY <2>1, <2>2
  <2> QED
    BY <2>3, <2>4, HandMoves
<1> QED
  BY <1>1, <1>2, SendsLater

(* The only changes of the queue to the DataChannel: a worker appends the   *)
(* packet in its hand, or the oldest is taken.                              *)
LEMMA SendChanges ==
  ASSUME FramesInv, [Next]_vars
  PROVE  \/ sendCh' = sendCh /\ sending' = sending
         \/ \E w \in Workers : /\ Pushing(w) /\ AfterPush(w)
                               /\ sendCh' = Append(sendCh, worker[w].hand)
                               /\ worker[w].hand \in Packet
                               /\ sending' = sending /\ UNCHANGED <<frameTs, encSeq, bundled>>
         \/ /\ sendCh # <<>> /\ sendCh' = Tail(sendCh)
            /\ sending' = sending \/ sending' = Head(sendCh)
<1>1. ASSUME NEW w \in Workers, Pushing(w) PROVE worker[w].hand \in Packet
  BY <1>1 DEF Pushing, FramesInv, TypeOK, ControlInv
<1>2. CASE ClockStep \/ TakeFrame \/ FanOut \/ DispatcherExits \/ SenderExits \/ CloseDone
           \/ UNCHANGED vars
  BY <1>2 DEF ClockStep, Acquire, TryPushFrame, EvictFrame, RetryPushFrame, TakeFrame, FanOut,
              DispatcherExits, SenderExits, CloseDone, vars, sendVars
<1>3. CASE Send
  BY <1>3 DEF Send
<1>4. ASSUME NEW w \in Workers, WorkerStep(w) \/ WorkerExits(w)
      PROVE  \/ sendCh' = sendCh /\ sending' = sending
             \/ /\ Pushing(w) /\ AfterPush(w) /\ sendCh' = Append(sendCh, worker[w].hand)
                /\ sending' = sending /\ UNCHANGED <<frameTs, encSeq, bundled>>
             \/ sendCh # <<>> /\ sendCh' = Tail(sendCh) /\ sending' = sending
  <2>1. CASE TakeJob(w) \/ Encode(w) \/ EncodeFails(w) \/ Finish(w) \/ WorkerExits(w)
    BY <2>1 DEF TakeJob, Encode, EncodeFails, Finish, WorkerExits, sendVars
  <2>2. CASE TryPushSend(w)
    BY <2>2 DEF TryPushSend, Pushing, encVars
  <2>3. CASE EvictSend(w)
    BY <2>3 DEF EvictSend
  <2>4. CASE RetryPushSend(w)
    BY <2>4 DEF RetryPushSend, Pushing, encVars
  <2> QED
    BY <1>4, <2>1, <2>2, <2>3, <2>4 DEF WorkerStep
<1> QED
  BY <1>1, <1>2, <1>3, <1>4 DEF Next

LEMMA QueueStaysWhole == ASSUME PacketInv, [Next]_vars PROVE QueueWhole'
<1>0. FramesInv /\ QueueWhole /\ HandsWhole /\ sendCh \in Seq(Packet)
  BY DEF PacketInv, FramesInv, TypeOK
<1>1. CASE sendCh' = sendCh
  BY <1>0, <1>1 DEF QueueWhole
<1>2. ASSUME NEW w \in Workers, Pushing(w), worker[w].hand \in Packet,
             sendCh' = Append(sendCh, worker[w].hand)
      PROVE  QueueWhole'
  <2>1. Elements(sendCh') = Elements(sendCh) \cup {worker[w].hand}
    BY <1>0, <1>2, ElementsAppended
  <2> QED
    BY <1>0, <1>2, <2>1 DEF QueueWhole, HandsWhole
<1>3. CASE sendCh # <<>> /\ sendCh' = Tail(sendCh)
  <2>1. Elements(sendCh') \subseteq Elements(sendCh)
    BY <1>0, <1>3, ElementsOfTail
  <2> QED
    BY <1>0, <2>1 DEF QueueWhole
<1> QED
  BY <1>0, <1>1, <1>2, <1>3, SendChanges

LEMMA PacketsInitially == Init => PacketInv
<1> SUFFICES ASSUME Init PROVE PacketInv
  OBVIOUS
<1>1. FramesInv
  BY FramesInitially
<1>2. SlotsFresh /\ QueueWhole
  BY DEF Init, SlotsFresh, QueueWhole, Elements, Empty
<1>3. HandsWhole
  BY DEF Init, Idle, At, HandsWhole, Pushing
<1> QED
  BY <1>1, <1>2, <1>3 DEF PacketInv

LEMMA SlotsStayFresh == ASSUME PacketInv, [Next]_vars PROVE SlotsFresh'
<1> USE SizesAssumption
<1>0. /\ FramesInv /\ SlotsFresh /\ FrameTypes /\ WorkerTypes /\ SessionTypes
      /\ ControlInv
  BY TypeParts DEF PacketInv, FramesInv
<1>1. SUFFICES ASSUME bundled' PROVE SlotsFresh'
  BY DEF SlotsFresh
<1>2. bundled
  BY <1>1 DEF Next, ClockStep, Acquire, TryPushFrame, EvictFrame, RetryPushFrame, TakeFrame, FanOut,
              DispatcherExits, WorkerStep, TakeJob, Encode, EncodeFails, Finish, TryPushSend,
              EvictSend, RetryPushSend, WorkerExits, Send, SenderExits, CloseDone, vars, encVars
<1>3. CASE Acquire
  <2>1. PICK f \in Frames : /\ frameTs' = [frameTs EXCEPT ![f] = mixTs + 1]
                            /\ encoded' = [encoded EXCEPT ![f] = Cleared(f)]
    BY <1>0, <1>3 DEF Acquire, FrameTypes
  <2>2. Cleared(f) = [c \in Channels |-> Empty]
    BY <1>2 DEF Cleared
  <2> QED
    BY <1>0, <1>2, <2>1, <2>2 DEF SlotsFresh, FrameTypes
<1>4. ASSUME NEW w \in Workers, Encode(w) PROVE SlotsFresh'
  <2>1. PICK f \in Frames, c \in Channels : f = worker[w].frame /\ c = worker[w].c
    <3>1. /\ worker[w].frame \in Frames /\ worker[w].c \in Lo(w) .. Hi(w) /\ worker[w].c < Hi(w)
      BY <1>0, <1>4 DEF Encode, ControlInv, WorkerTypes
    <3>2. Lo(w) \in Nat /\ Hi(w) \in 0 .. C
      BY Ranges
    <3> QED
      BY <3>1, <3>2 DEF Channels
  <2>2. /\ encoded' = [encoded EXCEPT ![f] = [encoded[f] EXCEPT ![c] = frameTs[f]]]
        /\ frameTs' = frameTs
    BY <1>0, <1>2, <1>4, <2>1 DEF Encode, FrameTypes
  <2>3. SUFFICES ASSUME NEW g \in Frames, NEW d \in Channels
                 PROVE  encoded'[g][d] = Empty \/ encoded'[g][d] = frameTs[g]
    BY <2>2 DEF SlotsFresh
  <2>4. CASE g = f
    BY <1>0, <1>2, <2>2, <2>4 DEF SlotsFresh, FrameTypes
  <2>5. CASE g # f
    BY <1>0, <1>2, <2>2, <2>5 DEF SlotsFresh, FrameTypes
  <2> QED
    BY <2>4, <2>5
<1>5. ASSUME UNCHANGED <<frameTs, encoded>> PROVE SlotsFresh'
  BY <1>0, <1>2, <1>5 DEF SlotsFresh
<1>6. CASE TryPushFrame \/ EvictFrame \/ RetryPushFrame \/ TakeFrame \/ FanOut \/ DispatcherExits
           \/ Send \/ SenderExits \/ CloseDone \/ UNCHANGED vars
  BY <1>5, <1>6 DEF TryPushFrame, EvictFrame, RetryPushFrame, TakeFrame, FanOut, DispatcherExits,
                    Send, SenderExits, CloseDone, vars, frameVars
<1>7. ASSUME NEW w \in Workers, \/ TakeJob(w) \/ EncodeFails(w) \/ Finish(w) \/ TryPushSend(w)
                                \/ EvictSend(w) \/ RetryPushSend(w) \/ WorkerExits(w)
      PROVE  SlotsFresh'
  BY <1>5, <1>7 DEF TakeJob, EncodeFails, Finish, TryPushSend, EvictSend, RetryPushSend, WorkerExits,
                    frameVars
<1> QED
  BY <1>3, <1>4, <1>6, <1>7 DEF Next, ClockStep, WorkerStep

(* Each move of a worker leaves a whole packet in its hand. *)
LEMMA WorkerHands ==
  ASSUME PacketInv, NEW w \in Workers, WorkerStep(w)
  PROVE  HandsWhole'
<1> USE SizesAssumption
<1>0. /\ FramesInv /\ SlotsFresh /\ HandsWhole /\ FrameTypes /\ LineTypes /\ WorkerTypes
      /\ SendTypes /\ ControlInv
  BY TypeParts DEF PacketInv, FramesInv
<1>1. CASE TakeJob(w)
  <2>1. /\ worker' = [worker EXCEPT ![w] = At("encode", Head(jobs[w]), Lo(w), 0, NoPacket)]
        /\ UNCHANGED <<frameTs, encSeq, bundled>>
    BY <1>1 DEF TakeJob, frameVars, encVars
  <2> QED
    BY <1>0, <2>1, HandMoves
<1>2. CASE EncodeFails(w)
  <2>1. /\ worker' = [worker EXCEPT ![w] = At("encode", worker[w].frame, worker[w].c + 1, 0, NoPacket)]
        /\ UNCHANGED <<frameTs, encSeq, bundled>>
    BY <1>2 DEF EncodeFails, frameVars, encVars
  <2> QED
    BY <1>0, <2>1, HandMoves
<1>3. CASE Encode(w)
  <2>0. PICK f, c : f = worker[w].frame /\ c = worker[w].c
    OBVIOUS
  <2>1. CASE bundled
    <3>1. /\ worker' = [worker EXCEPT ![w] = At("encode", f, c + 1, 0, NoPacket)]
          /\ UNCHANGED <<frameTs, encSeq, bundled>>
      BY <1>3, <2>0, <2>1 DEF Encode
    <3> QED
      BY <1>0, <3>1, HandMoves
  <2>2. CASE ~bundled
    <3>1. PICK p : p = [ts |-> frameTs[f], seq |-> encSeq[c], chans |-> {c},
                        made |-> [d \in Channels |-> IF d = c THEN frameTs[f] ELSE Empty]]
      OBVIOUS
    <3>2. /\ worker' = [worker EXCEPT ![w] = At("try", f, c + 1, 0, p)]
          /\ encSeq' = [encSeq EXCEPT ![c] = @ + 1]
          /\ UNCHANGED <<frameTs, bundled>>
      BY <1>3, <2>0, <2>2, <3>1 DEF Encode
    <3>3. c \in Lo(w) .. Hi(w) - 1 /\ Lo(w) \in Nat /\ Hi(w) \in 0 .. C
      <4>1. worker[w].c \in Lo(w) .. Hi(w) /\ worker[w].c < Hi(w)
        BY <1>0, <1>3 DEF Encode, WorkerTypes
      <4> QED
        BY <2>0, <4>1, Ranges
    <3>4. c \in Channels
      BY <3>3 DEF Channels
    <3>5. p.ts = frameTs[f] /\ p.seq = encSeq[c] /\ p.chans = {c} /\ Whole(p)
      BY <3>1, <3>4 DEF Whole
    <3>6. encSeq'[c] = p.seq + 1 /\ c + 1 > Lo(w) /\ (c + 1) - 1 = c
      BY <1>0, <3>2, <3>3, <3>4, <3>5 DEF SendTypes
    <3>7. \A v \in Workers, d \in Channels :
            v # w /\ d \in Lo(v) .. Hi(v) - 1 => encSeq'[d] = encSeq[d]
      BY <1>0, <3>2, <3>3, OneOwner DEF SendTypes
    <3>8. /\ p.ts = frameTs[f] /\ Whole(p)
          /\ c + 1 > Lo(w) /\ p.chans = {(c + 1) - 1} /\ p.seq + 1 = encSeq'[(c + 1) - 1]
      BY <3>5, <3>6
    <3> QED
      BY <1>0, <3>2, <3>7, <3>8, HandMoves
  <2> QED
    BY <2>1, <2>2
<1>4. CASE Finish(w)
  <2>1. PICK f \in Frames : f = worker[w].frame
    BY <1>0, <1>4 DEF Finish, ControlInv, WorkerTypes
  <2>2. UNCHANGED <<frameTs, encSeq, bundled>>
    BY <1>4 DEF Finish, encVars
  <2>3. worker' = [worker EXCEPT ![w] = Idle(w)] \/ (bundled /\ SendLater(w, 0))
    BY <1>4 DEF Finish
  <2>4. CASE worker' = [worker EXCEPT ![w] = Idle(w)]
    BY <1>0, <2>2, <2>4, HandMoves DEF Idle
  <2>5. CASE bundled /\ SendLater(w, 0)
    BY <1>0, <2>1, <2>2, <2>5, BundleNext
  <2> QED
    BY <2>3, <2>4, <2>5
<1>5. CASE TryPushSend(w) \/ EvictSend(w) \/ RetryPushSend(w)
  <2>1. /\ worker[w].pc \in {"try", "evict", "retry"} /\ UNCHANGED <<frameTs, encSeq, bundled>>
        /\ \/ AfterPush(w)
           \/ \E at \in {"evict", "retry"} :
                worker' = [worker EXCEPT ![w] = At(at, worker[w].frame, worker[w].c,
                                                   worker[w].group, worker[w].hand)]
    BY <1>5 DEF TryPushSend, EvictSend, RetryPushSend, frameVars, encVars
  <2>2. PICK f \in Frames, n \in Nat, c \in 0 .. C, p \in Packet \cup {NoPacket} :
          /\ f = worker[w].frame /\ n = worker[w].group /\ c = worker[w].c /\ p = worker[w].hand
          /\ n > 0 <=> bundled
    <3>1. /\ worker[w].frame \in Frames \cup {NoFrame} /\ worker[w].group \in Nat
          /\ worker[w].c \in 0 .. C /\ worker[w].hand \in Packet \cup {NoPacket}
      BY <1>0 DEF WorkerTypes
    <3>2. worker[w].frame # NoFrame
      BY <1>0, <2>1 DEF ControlInv
    <3>3. worker[w].group > 0 <=> bundled
      BY <1>0, <2>1 DEF ControlInv
    <3> QED
      BY <3>1, <3>2, <3>3
  <2>3. ASSUME NEW at \in {"evict", "retry"}, worker' = [worker EXCEPT ![w] = At(at, f, c, n, p)]
        PROVE  HandsWhole'
    <3>1. /\ p.ts = frameTs[f] /\ Whole(p)
          /\ ~bundled => c > Lo(w) /\ p.chans = {c - 1} /\ p.seq + 1 = encSeq[c - 1]
      BY <1>0, <2>1, <2>2 DEF HandsWhole, Pushing
    <3> QED
      BY <1>0, <2>1, <2>3, <3>1, HandMoves
  <2>4. CASE AfterPush(w)
    <3>1. CASE worker' = [worker EXCEPT ![w] = At("encode", f, c, 0, NoPacket)]
      BY <1>0, <2>1, <3>1, HandMoves
    <3>2. CASE n > 0 /\ SendLater(w, n)
      BY <1>0, <2>1, <2>2, <3>2, BundleNext
    <3> QED
      BY <2>2, <2>4, <3>1, <3>2 DEF AfterPush
  <2> QED
    BY <2>1, <2>2, <2>3, <2>4
<1> QED
  BY <1>1, <1>2, <1>3, <1>4, <1>5 DEF WorkerStep

LEMMA PacketsKept == PacketInv /\ [Next]_vars => PacketInv'
<1> SUFFICES ASSUME PacketInv, [Next]_vars PROVE PacketInv'
  OBVIOUS
<1>1. FramesInv' /\ SlotsFresh' /\ QueueWhole'
  BY FramesKept, SlotsStayFresh, QueueStaysWhole DEF PacketInv
<1>2. HandsWhole'
  <2>0. FramesInv /\ HandsWhole /\ FrameTypes /\ WorkerTypes /\ ControlInv
    BY TypeParts DEF PacketInv, FramesInv
  <2>1. CASE Acquire
    <3>1. PICK f \in pool : frameTs' = [frameTs EXCEPT ![f] = mixTs + 1]
      BY <2>1 DEF Acquire
    <3>2. UNCHANGED <<worker, encSeq, bundled>>
      BY <2>1 DEF Acquire, encVars
    <3>3. \A w \in Workers : Pushing(w) => frameTs'[worker[w].frame] = frameTs[worker[w].frame]
      <4> SUFFICES ASSUME NEW w \in Workers, Pushing(w)
                   PROVE  frameTs'[worker[w].frame] = frameTs[worker[w].frame]
        OBVIOUS
      <4>1. worker[w].frame \in Frames
        BY <2>0 DEF Pushing, ControlInv, WorkerTypes
      <4>2. worker[w].frame # f
        <5>1. Holds(w, worker[w].frame)
          BY DEF Holds
        <5> QED
          BY <2>0, <4>1, <5>1 DEF FramesInv, LinesInv, PoolInv, Held
      <4> QED
        BY <2>0, <3>1, <4>1, <4>2 DEF FrameTypes
    <3> QED
      BY <2>0, <3>2, <3>3 DEF HandsWhole, Pushing
  <2>2. ASSUME UNCHANGED <<frameTs, worker, encSeq, bundled>> PROVE HandsWhole'
    BY <2>0, <2>2 DEF HandsWhole, Pushing
  <2>3. CASE TryPushFrame \/ EvictFrame \/ RetryPushFrame \/ TakeFrame \/ FanOut \/ DispatcherExits
             \/ Send \/ SenderExits \/ CloseDone \/ UNCHANGED vars
    BY <2>2, <2>3 DEF TryPushFrame, EvictFrame, RetryPushFrame, TakeFrame, FanOut, DispatcherExits,
                      Send, SenderExits, CloseDone, vars, frameVars, encVars
  <2>4. ASSUME NEW w \in Workers, WorkerStep(w) \/ WorkerExits(w) PROVE HandsWhole'
    <3>1. CASE WorkerStep(w)
      BY <3>1, WorkerHands
    <3>2. CASE WorkerExits(w)
      BY <2>2, <3>2 DEF WorkerExits, frameVars, encVars
    <3> QED
      BY <2>4, <3>1, <3>2
  <2> QED
    BY <2>1, <2>3, <2>4 DEF Next, ClockStep
<1> QED
  BY <1>1, <1>2 DEF PacketInv

(* PacketsWhole, for any layout: no packet mixes two ticks and none carries *)
(* a payload left in a recycled frame, whichever encodes failed.            *)
(* (pipeline.go:84-86, 150-203, 205-223)                                    *)
THEOREM PacketsAreWhole == Spec => []PacketsWhole
<1>1. PacketInv => PacketsWhole
  <2> SUFFICES ASSUME PacketInv PROVE PacketsWhole
    OBVIOUS
  <2>1. \A n \in DOMAIN sendCh : Whole(sendCh[n])
    BY DEF PacketInv, QueueWhole, Elements
  <2>2. ASSUME NEW w \in Workers PROVE Whole(worker[w].hand)
    <3>1. CASE Pushing(w)
      BY <3>1 DEF PacketInv, HandsWhole
    <3>2. CASE ~Pushing(w)
      <4>1. worker[w].hand = NoPacket
        BY <3>2 DEF PacketInv, FramesInv, TypeOK, ControlInv, Pushing
      <4> QED
        BY <4>1 DEF Whole, NoPacket
    <3> QED
      BY <3>1, <3>2
  <2> QED
    BY <2>1, <2>2 DEF PacketsWhole
<1> QED
  BY <1>1, PacketsInitially, PacketsKept, PTL DEF Spec

-----------------------------------------------------------------------------
(* The order in which packets leave.  Ahead of a worker is every frame it   *)
(* is yet to come to or at work on.                                         *)
Ahead(w, g) == clock.frame = g \/ g \in Elements(mixCh) \/ Holds(w, g)

Sent == Elements(sendCh) \cup {sending}

(* Nothing was sent from a later tick than a frame that is still to come:   *)
(* in the bundled format from any frame, ...                                *)
BundlesInOrder ==
  bundled => \A p \in Sent, w \in Workers, g \in Frames : Ahead(w, g) => p.ts <= frameTs[g]

(* ... in the other format on any one channel, where the frame the worker   *)
(* is at may have been sent, if the worker is past the channel; and the     *)
(* packet in its hand is the newest.                                        *)
ChannelsInOrder ==
  ~bundled => \A p \in Sent \ {NoPacket}, w \in Workers : \A c \in Lo(w) .. Hi(w) - 1 :
    p.chans = {c} =>
      /\ p.seq < encSeq[c]
      /\ \A g \in Frames : Ahead(w, g) =>
           p.ts < frameTs[g] \/ (worker[w].frame = g /\ p.ts = frameTs[g] /\ c < worker[w].c)
      /\ Pushing(w) /\ worker[w].c = c + 1 =>
           p.ts < worker[w].hand.ts /\ p.seq < worker[w].hand.seq

NothingFromTheFuture == \A p \in Sent : p.ts <= mixTs

OrderInv ==
  PacketInv /\ BundlesInOrder /\ ChannelsInOrder /\ NothingFromTheFuture /\ SendsInOrder

(* What is ahead of a worker was ahead before, but for a frame that is just *)
(* taken from the pool; and it keeps a frame until it is through with it.   *)
LEMMA AheadShrinks ==
  ASSUME FramesInv, [Next]_vars, ~Acquire, NEW v \in Workers, NEW g \in Frames, Ahead(v, g)'
  PROVE  /\ Ahead(v, g)
         /\ worker[v].frame = g => worker'[v].frame = g /\ worker[v].c <= worker'[v].c
<1> USE SizesAssumption
<1>0. /\ FrameTypes /\ LineTypes /\ WorkerTypes /\ ControlInv /\ LinesInv /\ g # NoFrame
  BY TypeParts DEF FramesInv
<1>v. v \in Nat /\ v <= K - 1 /\ worker[v].c \in Lo(v) .. Hi(v) /\ Lo(v) \in Nat /\ Hi(v) \in 0 .. C
  BY <1>0, Ranges DEF Workers, WorkerTypes
<1>a. ASSUME UNCHANGED <<disp, jobs, worker>>,
             clock'.frame = g => clock.frame = g,
             g \in Elements(mixCh') => g \in Elements(mixCh) \/ clock.frame = g
      PROVE  /\ Ahead(v, g)
             /\ worker[v].frame = g => worker'[v].frame = g /\ worker[v].c <= worker'[v].c
  BY <1>a, <1>v DEF Ahead, Holds, Pending
<1>1. CASE TryPushFrame \/ EvictFrame \/ RetryPushFrame
  <2>1. /\ UNCHANGED <<disp, jobs, worker>>
        /\ clock'.frame = clock.frame \/ clock'.frame = NoFrame
        /\ \/ mixCh' = mixCh
           \/ mixCh' = Append(mixCh, clock.frame) /\ clock.frame # NoFrame
           \/ mixCh # <<>> /\ mixCh' = Tail(mixCh)
    BY <1>0, <1>1 DEF TryPushFrame, EvictFrame, RetryPushFrame, ClockIdle, ControlInv
  <2>2. mixCh \in Seq(Frames) /\ (clock.frame # NoFrame => clock.frame \in Frames)
    BY <1>0 DEF LineTypes
  <2>3. g \in Elements(mixCh') => g \in Elements(mixCh) \/ clock.frame = g
    <3>1. CASE mixCh' = Append(mixCh, clock.frame) /\ clock.frame # NoFrame
      BY <2>2, <3>1, ElementsAppended
    <3>2. CASE mixCh # <<>> /\ mixCh' = Tail(mixCh)
      BY <2>2, <3>2, ElementsOfTail
    <3> QED
      BY <2>1, <3>1, <3>2
  <2> QED
    BY <1>0, <1>a, <2>1, <2>3
<1>2. CASE TakeFrame
  <2>1. /\ mixCh # <<>> /\ mixCh' = Tail(mixCh) /\ disp'.frame = Head(mixCh)
        /\ UNCHANGED <<clock, jobs, worker>> /\ mixCh \in Seq(Frames)
    BY <1>0, <1>2 DEF TakeFrame, LineTypes, clockVars
  <2>2. Elements(mixCh) = Elements(mixCh') \cup {Head(mixCh)}
    BY <2>1, ElementsOfTail
  <2> QED
    BY <1>v, <2>1, <2>2 DEF Ahead, Holds, Pending
<1>3. CASE FanOut
  <2>1. PICK d \in Frames, n \in Workers : d = disp.frame /\ n = disp.next /\ Holds(n, d)
    BY <1>3, DispatchedIsHeld DEF FanOut
  <2>2. /\ UNCHANGED <<clock, mixCh, worker>>
        /\ jobs' = [jobs EXCEPT ![n] = Append(jobs[n], d)]
        /\ disp' = IF n + 1 = K THEN [frame |-> NoFrame, next |-> 0]
                                ELSE [frame |-> d, next |-> n + 1]
    BY <1>3, <2>1 DEF FanOut, clockVars
  <2>3. jobs \in [Workers -> Seq(Frames)] /\ n \in Nat
    BY <1>0 DEF LineTypes, Workers
  <2>4. g \in Elements(jobs'[v]) => g \in Elements(jobs[v]) \/ (v = n /\ g = d)
    BY <2>2, <2>3, ElementsAppended
  <2>5. disp'.frame = g /\ disp'.next <= v => g = d /\ n <= v
    <3>1. CASE n + 1 = K
      BY <1>0, <2>2, <3>1
    <3>2. CASE n + 1 # K
      BY <1>v, <2>2, <2>3, <3>2
    <3> QED
      BY <3>1, <3>2
  <2> QED
    BY <1>v, <2>1, <2>2, <2>4, <2>5 DEF Ahead, Holds, Pending
<1>4. ASSUME NEW w \in Workers, TakeJob(w)
      PROVE  /\ Ahead(v, g)
             /\ worker[v].frame = g => worker'[v].frame = g /\ worker[v].c <= worker'[v].c
  <2>1. /\ jobs[w] # <<>> /\ jobs' = [jobs EXCEPT ![w] = Tail(jobs[w])]
        /\ UNCHANGED <<clock, mixCh, disp>> /\ jobs \in [Workers -> Seq(Frames)]
        /\ worker'[w].frame = Head(jobs[w]) /\ worker[w].frame = NoFrame
        /\ w # v => worker'[v] = worker[v]
    BY <1>0, <1>4 DEF TakeJob, At, LineTypes, WorkerTypes, ControlInv, clockVars
  <2>2. Elements(jobs[w]) = Elements(jobs'[w]) \cup {Head(jobs[w])}
    BY <2>1, ElementsOfTail
  <2>3. CASE v = w
    BY <1>0, <2>1, <2>2, <2>3 DEF Ahead, Holds, Pending
  <2>4. CASE v # w
    BY <1>v, <2>1, <2>4 DEF Ahead, Holds, Pending
  <2> QED
    BY <2>3, <2>4
<1>5. ASSUME NEW w \in Workers, NEW f \in Frames, worker[w].frame = f, UNCHANGED <<clock, mixCh, disp, jobs>>,
             \A u \in Workers : u # w => worker'[u] = worker[u],
             \/ worker'[w].frame = f /\ worker[w].c <= worker'[w].c
             \/ worker'[w].frame = NoFrame
      PROVE  /\ Ahead(v, g)
             /\ worker[v].frame = g => worker'[v].frame = g /\ worker[v].c <= worker'[v].c
  <2>1. Ahead(v, g)
    <3>1. CASE v = w
      BY <1>0, <1>5, <3>1 DEF Ahead, Holds, Pending
    <3>2. CASE v # w
      BY <1>5, <3>2 DEF Ahead, Holds, Pending
    <3> QED
      BY <3>1, <3>2
  <2>2. CASE v # w
    BY <1>5, <1>v, <2>1, <2>2
  <2>3. CASE v = w /\ g = f /\ worker'[w].frame = NoFrame
    <3>1. ~Pending(w, f) /\ f \notin Elements(jobs[w])
      BY <1>5, FirstInLine
    <3>2. ~Holds(w, f)'
      BY <1>0, <1>5, <2>3, <3>1 DEF Holds, Pending
    <3>3. Held(f) /\ frameTs[f] \in Nat
      BY <1>0, <1>5 DEF Held, Holds, FrameTypes, Times
    <3>4. clock.frame # f
      BY <1>0, <3>3 DEF LinesInv, ClockOrder
    <3>5. f \notin Elements(mixCh)
      BY <1>0, <3>3 DEF LinesInv, QueueOrder
    <3> QED
      BY <1>5, <2>3, <3>2, <3>4, <3>5 DEF Ahead
  <2> QED
    BY <1>5, <2>1, <2>2, <2>3
<1>6. ASSUME NEW w \in Workers, \/ Encode(w) \/ EncodeFails(w) \/ Finish(w)
                                \/ TryPushSend(w) \/ EvictSend(w) \/ RetryPushSend(w)
      PROVE  /\ Ahead(v, g)
             /\ worker[v].frame = g => worker'[v].frame = g /\ worker[v].c <= worker'[v].c
  <2>0. UNCHANGED <<clock, mixCh, disp, jobs>> /\ worker[w].pc # "idle"
    BY <1>6 DEF Encode, EncodeFails, Finish, TryPushSend, EvictSend, RetryPushSend, clockVars
  <2>1. PICK f \in Frames, c \in Lo(w) .. Hi(w), n \in Nat :
          f = worker[w].frame /\ c = worker[w].c /\ n = worker[w].group
    BY <1>0, <2>0 DEF ControlInv, WorkerTypes
  <2>2. Lo(w) \in Nat /\ Hi(w) \in 0 .. C /\ c <= Hi(w) /\ c <= c /\ c <= c + 1
    BY Ranges
  <2>3. ASSUME SendLater(w, n) \/ SendLater(w, 0)
        PROVE  \E at, d, m, p : \/ worker' = [worker EXCEPT ![w] = At(at, f, d, m, p)] /\ c <= d
                                \/ worker' = [worker EXCEPT ![w] = At(at, NoFrame, d, m, p)]
    BY <2>1, <2>2, <2>3 DEF SendLater, Idle
  <2>4. \E at, d, m, p : \/ worker' = [worker EXCEPT ![w] = At(at, f, d, m, p)] /\ c <= d
                         \/ worker' = [worker EXCEPT ![w] = At(at, NoFrame, d, m, p)]
    <3>1. CASE Encode(w) \/ EncodeFails(w)
      BY <2>1, <2>2, <3>1 DEF Encode, EncodeFails
    <3>2. CASE Finish(w)
      BY <2>1, <2>3, <3>2 DEF Finish, Idle
    <3>3. CASE EvictSend(w)
      BY <2>1, <2>2, <3>3 DEF EvictSend
    <3>4. CASE AfterPush(w)
      BY <2>1, <2>2, <2>3, <3>4 DEF AfterPush
    <3>5. CASE worker' = [worker EXCEPT ![w] = At("evict", @.frame, @.c, @.group, @.hand)]
      BY <2>1, <2>2, <3>5
    <3> QED
      BY <1>6, <3>1, <3>2, <3>3, <3>4, <3>5 DEF TryPushSend, RetryPushSend
  <2>5. PICK at, d, m, p : \/ worker' = [worker EXCEPT ![w] = At(at, f, d, m, p)] /\ c <= d
                           \/ worker' = [worker EXCEPT ![w] = At(at, NoFrame, d, m, p)]
    BY <2>4
  <2>6. /\ \A u \in Workers : u # w => worker'[u] = worker[u]
        /\ \/ worker'[w].frame = f /\ worker[w].c <= worker'[w].c
           \/ worker'[w].frame = NoFrame
    BY <1>0, <2>1, <2>5 DEF At, WorkerTypes
  <2> QED
    BY <1>5, <2>0, <2>1, <2>6
<1>7. CASE \/ \E w \in Workers : WorkerExits(w)
           \/ DispatcherExits \/ Send \/ SenderExits \/ CloseDone
           \/ UNCHANGED vars
  BY <1>a, <1>7 DEF WorkerExits, DispatcherExits, Send, SenderExits, CloseDone, vars, clockVars
<1> QED
  BY <1>1, <1>2, <1>3, <1>4, <1>6, <1>7 DEF Next, ClockStep, WorkerStep

(* Whoever pushes a packet is at the earliest frame there is: in the        *)
(* bundled format of all frames, otherwise of those it will come to.        *)
LEMMA PushedFirst ==
  ASSUME FramesInv, NEW w \in Workers, NEW f \in Frames, worker[w].frame = f,
         NEW v \in Workers, NEW g \in Frames, Ahead(v, g), v = w \/ worker[w].group > 0
  PROVE  g = f \/ frameTs[f] < frameTs[g]
<1> USE SizesAssumption
<1>0. Holds(w, f) /\ Held(f) /\ g # NoFrame
  BY DEF Held, Holds
<1>1. CASE clock.frame = g
  BY <1>0, <1>1 DEF FramesInv, LinesInv, ClockOrder
<1>2. CASE g \in Elements(mixCh)
  BY <1>0, <1>2 DEF FramesInv, LinesInv, QueueOrder
<1>3. CASE Holds(v, g) /\ v = w
  BY <1>3, FirstInLine
<1>4. CASE Holds(v, g) /\ v # w
  <2>1. ~Holds(v, f)
    BY <1>4, OnlyHolder
  <2> QED
    BY <1>0, <1>4, <2>1 DEF FramesInv, LinesInv, TurnOrder
<1> QED
  BY <1>1, <1>2, <1>3, <1>4 DEF Ahead

LEMMA SentPackets ==
  ASSUME FramesInv
  PROVE  /\ Sent \subseteq Packet \cup {NoPacket}
         /\ \A p \in Sent : p.ts \in Nat /\ p.seq \in Nat
<1>1. Sent \subseteq Packet \cup {NoPacket}
  BY DEF Sent, Elements, FramesInv, TypeOK
<1>2. \A p \in Packet \cup {NoPacket} : p.ts \in Nat /\ p.seq \in Nat
  BY DEF Packet, NoPacket, Times
<1> QED
  BY <1>1, <1>2

LEMMA SentChanges ==
  ASSUME FramesInv, [Next]_vars
  PROVE  \/ Sent' \subseteq Sent
         \/ \E w \in Workers : /\ Pushing(w) /\ AfterPush(w)
                               /\ sendCh' = Append(sendCh, worker[w].hand)
                               /\ worker[w].hand \in Packet
                               /\ sending' = sending /\ UNCHANGED <<frameTs, encSeq, bundled>>
                               /\ Sent' = Sent \cup {worker[w].hand}
<1>0. sendCh \in Seq(Packet)
  BY DEF FramesInv, TypeOK
<1>1. CASE sendCh' = sendCh /\ sending' = sending
  BY <1>1 DEF Sent
<1>2. ASSUME NEW w \in Workers, Pushing(w), AfterPush(w), sendCh' = Append(sendCh, worker[w].hand),
             worker[w].hand \in Packet, sending' = sending
      PROVE  Sent' = Sent \cup {worker[w].hand}
  <2>1. Elements(sendCh') = Elements(sendCh) \cup {worker[w].hand}
    BY <1>0, <1>2, ElementsAppended
  <2> QED
    BY <1>2, <2>1 DEF Sent
<1>3. CASE /\ sendCh # <<>> /\ sendCh' = Tail(sendCh)
           /\ sending' = sending \/ sending' = Head(sendCh)
  <2>1. Elements(sendCh) = Elements(sendCh') \cup {Head(sendCh)}
    BY <1>0, <1>3, ElementsOfTail
  <2> QED
    BY <1>3, <2>1 DEF Sent
<1> QED
  BY <1>1, <1>2, <1>3, SendChanges

LEMMA SameTimes ==
  ASSUME [Next]_vars
  PROVE  bundled' = bundled /\ (~Acquire => frameTs' = frameTs /\ mixTs' = mixTs)
<1>1. CASE ClockStep \/ TakeFrame \/ FanOut \/ DispatcherExits \/ Send \/ SenderExits \/ CloseDone
           \/ UNCHANGED vars
  BY <1>1 DEF ClockStep, Acquire, TryPushFrame, EvictFrame, RetryPushFrame, TakeFrame, FanOut,
              DispatcherExits, Send, SenderExits, CloseDone, vars, frameVars, clockVars, encVars
<1>2. ASSUME NEW w \in Workers, WorkerStep(w) \/ WorkerExits(w)
      PROVE  bundled' = bundled /\ frameTs' = frameTs /\ mixTs' = mixTs
  BY <1>2 DEF WorkerStep, TakeJob, Encode, EncodeFails, Finish, TryPushSend, EvictSend, RetryPushSend,
              WorkerExits, frameVars, clockVars, encVars
<1> QED
  BY <1>1, <1>2 DEF Next

(* The packet in a worker's hand. *)
LEMMA InHand ==
  ASSUME PacketInv, NEW w \in Workers, Pushing(w)
  PROVE  \E f \in Frames, c \in Lo(w) .. Hi(w), n \in Nat :
           /\ worker[w].frame = f /\ worker[w].hand.ts = frameTs[f] /\ frameTs[f] <= mixTs
           /\ frameTs[f] \in Nat /\ mixTs \in Nat
           /\ worker[w].group = n /\ (n > 0 <=> bundled)
           /\ worker[w].c = c
           /\ ~bundled => /\ c - 1 \in Lo(w) .. Hi(w) - 1
                          /\ worker[w].hand.chans = {c - 1}
                          /\ worker[w].hand.seq + 1 = encSeq[c - 1]
<1>0. /\ FramesInv /\ HandsWhole /\ FrameTypes /\ LineTypes /\ WorkerTypes /\ ControlInv
  BY TypeParts DEF PacketInv, FramesInv
<1>1. PICK f \in Frames, c \in Lo(w) .. Hi(w), n \in Nat :
        worker[w].frame = f /\ worker[w].c = c /\ worker[w].group = n /\ (n > 0 <=> bundled)
  BY <1>0 DEF Pushing, WorkerTypes, ControlInv
<1>2. frameTs[f] \in Nat /\ frameTs[f] <= mixTs /\ mixTs \in Nat
  BY <1>0, SizesAssumption DEF FrameTypes, LineTypes, FramesInv, LinesInv, Dated, Times
<1>3. /\ worker[w].hand.ts = frameTs[f]
      /\ ~bundled => /\ c > Lo(w) /\ worker[w].hand.chans = {c - 1}
                     /\ worker[w].hand.seq + 1 = encSeq[c - 1]
  BY <1>0, <1>1 DEF HandsWhole
<1>4. c > Lo(w) => c - 1 \in Lo(w) .. Hi(w) - 1
  BY Ranges
<1> QED
  BY <1>1, <1>2, <1>3, <1>4

LEMMA OrderInitially == Init => OrderInv
<1> SUFFICES ASSUME Init PROVE OrderInv
  OBVIOUS
<1>1. PacketInv
  BY PacketsInitially
<1>2. Sent = {NoPacket} /\ NoPacket.ts = 0
  BY DEF Init, Sent, Elements, NoPacket
<1>3. \A g \in Frames, w \in Workers : ~Ahead(w, g)
  BY SizesAssumption DEF Init, Ahead, Holds, Pending, Elements, Idle, At
<1>4. BundlesInOrder /\ ChannelsInOrder /\ NothingFromTheFuture
  <2>1. BundlesInOrder
    BY <1>3 DEF BundlesInOrder
  <2>2. ChannelsInOrder
    BY <1>2 DEF ChannelsInOrder
  <2>3. NothingFromTheFuture
    BY <1>2 DEF NothingFromTheFuture, Init
  <2> QED
    BY <2>1, <2>2, <2>3
<1>5. SendsInOrder
  BY DEF Init, SendsInOrder
<1> QED
  BY <1>1, <1>4, <1>5 DEF OrderInv

LEMMA FutureKept == ASSUME OrderInv, [Next]_vars PROVE NothingFromTheFuture'
<1>0. PacketInv /\ FramesInv /\ NothingFromTheFuture /\ mixTs \in Nat
  <2>1. PacketInv /\ FramesInv /\ NothingFromTheFuture
    BY DEF OrderInv, PacketInv
  <2> QED
    BY <2>1, DatesTyped, SizesAssumption DEF LineTypes
<1>1. mixTs <= mixTs'
  BY <1>0, SameTimes DEF Acquire
<1>1a. mixTs' \in Nat
  BY <1>0, SameTimes DEF Acquire
<1>2. \A p \in Sent : p.ts <= mixTs'
  BY <1>0, <1>1, <1>1a, SentPackets DEF NothingFromTheFuture
<1>3. ASSUME NEW w \in Workers, Pushing(w) PROVE worker[w].hand.ts <= mixTs'
  BY <1>0, <1>1, <1>1a, <1>3, InHand
<1> QED
  BY <1>0, <1>2, <1>3, SentChanges DEF NothingFromTheFuture

(* A frame that is just taken is later than everything. *)
LEMMA AcquiredIsLast ==
  ASSUME OrderInv, Acquire, NEW v \in Workers, NEW g \in Frames, Ahead(v, g)', NEW p \in Sent
  PROVE  p.ts < frameTs'[g] \/ (Ahead(v, g) /\ frameTs'[g] = frameTs[g])
<1>0. /\ PacketInv /\ FramesInv /\ NothingFromTheFuture /\ FrameTypes
      /\ mixTs \in Nat /\ pool \subseteq Frames
  <2>1. PacketInv /\ FramesInv /\ NothingFromTheFuture
    BY DEF OrderInv, PacketInv
  <2>2. FrameTypes /\ LineTypes
    BY <2>1, TypeParts DEF FramesInv
  <2> QED
    BY <2>1, <2>2, SizesAssumption DEF FrameTypes, LineTypes
<1>1. PICK f \in Frames : /\ f \in pool /\ frameTs' = [frameTs EXCEPT ![f] = mixTs + 1]
                          /\ clock'.frame = f
  <2>1. PICK f \in pool : /\ frameTs' = [frameTs EXCEPT ![f] = mixTs + 1]
                          /\ clock' = [pc |-> "try", frame |-> f]
    BY DEF Acquire
  <2> QED
    BY <1>0, <2>1
<1>2. UNCHANGED <<mixCh, disp, jobs, worker>>
  BY DEF Acquire
<1>3. CASE g = f
  <2>1. frameTs'[g] = mixTs + 1
    BY <1>0, <1>1, <1>3 DEF FrameTypes
  <2> QED
    BY <1>0, <2>1, SentPackets DEF NothingFromTheFuture
<1>4. CASE g # f
  <2>1. Ahead(v, g)
    BY <1>1, <1>2, <1>4 DEF Ahead, Holds, Pending
  <2> QED
    BY <1>0, <1>1, <1>4, <2>1 DEF FrameTypes
<1> QED
  BY <1>3, <1>4

LEMMA BundlesKept == ASSUME OrderInv, [Next]_vars PROVE BundlesInOrder'
<1>0. PacketInv /\ FramesInv /\ BundlesInOrder /\ frameTs \in [Frames -> Nat]
  BY DEF OrderInv, PacketInv, FramesInv, TypeOK, Times
<1>1. SUFFICES ASSUME bundled, NEW p \in Sent', NEW v \in Workers, NEW g \in Frames, Ahead(v, g)'
               PROVE  p.ts <= frameTs'[g]
  BY SameTimes DEF BundlesInOrder
<1>2. CASE Acquire
  <2>1. p \in Sent
    BY <1>2 DEF Acquire, Sent, sendVars
  <2>2. p.ts < frameTs'[g] \/ (Ahead(v, g) /\ frameTs'[g] = frameTs[g])
    BY <1>1, <1>2, <2>1, AcquiredIsLast
  <2>3. frameTs'[g] \in Nat /\ p.ts \in Nat
    <3>1. mixTs + 1 \in Nat
      BY <1>0, SizesAssumption DEF FramesInv, TypeOK
    <3> QED
      BY <1>0, <1>2, <2>1, <3>1, SentPackets DEF Acquire
  <2> QED
    BY <1>0, <1>1, <2>1, <2>2, <2>3 DEF BundlesInOrder
<1>3. CASE ~Acquire
  <2>1. Ahead(v, g) /\ frameTs' = frameTs
    BY <1>0, <1>1, <1>3, AheadShrinks, SameTimes
  <2>2. CASE p \in Sent
    BY <1>0, <1>1, <2>1, <2>2 DEF BundlesInOrder
  <2>3. ASSUME NEW w \in Workers, Pushing(w), p = worker[w].hand PROVE p.ts <= frameTs[g]
    <3>1. PICK f \in Frames : /\ worker[w].frame = f /\ p.ts = frameTs[f]
                              /\ worker[w].group > 0
      BY <1>0, <1>1, <2>3, InHand
    <3>2. g = f \/ frameTs[f] < frameTs[g]
      BY <1>0, <2>1, <3>1, PushedFirst
    <3> QED
      BY <1>0, <3>1, <3>2
  <2> QED
    BY <1>0, <1>1, <2>1, <2>2, <2>3, SentChanges
<1> QED
  BY <1>2, <1>3

(* Without bundles a worker gets a packet in hand by encoding only, and     *)
(* keeps it until it has pushed it.                                         *)
LEMMA HandStays ==
  ASSUME FramesInv, ~bundled, [Next]_vars, NEW v \in Workers, Pushing(v)', ~Encode(v)
  PROVE  Pushing(v) /\ ~AfterPush(v)
         /\ worker'[v].hand = worker[v].hand /\ worker'[v].c = worker[v].c
<1>0. /\ WorkerTypes /\ ControlInv
  BY TypeParts DEF FramesInv
<1>1. ASSUME worker'[v].pc = "encode" \/ worker'[v].pc = "idle" PROVE FALSE
  BY <1>1 DEF Pushing
<1>2. \A at, f, c, g, p : worker' = [worker EXCEPT ![v] = At(at, f, c, g, p)] =>
        /\ worker'[v].pc = at /\ worker'[v].c = c /\ worker'[v].hand = p
  BY <1>0 DEF WorkerTypes, At
<1>3. Pushing(v) => worker[v].group \in Nat /\ ~(worker[v].group > 0)
  BY <1>0 DEF Pushing, WorkerTypes, ControlInv
<1>4. ~(Pushing(v) /\ AfterPush(v))
  BY <1>1, <1>2, <1>3 DEF AfterPush
<1>5. ASSUME worker' = worker
      PROVE  Pushing(v) /\ worker'[v].hand = worker[v].hand /\ worker'[v].c = worker[v].c
  BY <1>5 DEF Pushing
<1>6. CASE \/ ClockStep \/ TakeFrame \/ FanOut \/ DispatcherExits \/ Send \/ SenderExits \/ CloseDone
           \/ UNCHANGED vars
  <2>1. worker' = worker
    BY <1>6 DEF ClockStep, Acquire, TryPushFrame, EvictFrame, RetryPushFrame, TakeFrame, FanOut,
                DispatcherExits, Send, SenderExits, CloseDone, vars
  <2>2. ~AfterPush(v)
    BY <1>4, <1>5, <2>1
  <2> QED
    BY <1>5, <2>1, <2>2
<1>7. ASSUME NEW w \in Workers, w # v, WorkerStep(w) \/ WorkerExits(w)
      PROVE  Pushing(v) /\ worker'[v].hand = worker[v].hand /\ worker'[v].c = worker[v].c
  <2>1. worker' = worker \/ \E r : worker' = [worker EXCEPT ![w] = r]
    BY <1>7 DEF WorkerStep, WorkerExits, TakeJob, Encode, EncodeFails, Finish, TryPushSend, EvictSend,
                RetryPushSend, AfterPush, SendLater
  <2>2. worker'[v] = worker[v]
    BY <1>0, <1>7, <2>1 DEF WorkerTypes
  <2> QED
    BY <2>2 DEF Pushing
<1>8. CASE WorkerStep(v) \/ WorkerExits(v)
  <2>1. CASE WorkerExits(v)
    <3>1. worker' = worker
      BY <2>1 DEF WorkerExits
    <3> QED
      BY <1>4, <1>5, <3>1
  <2>2. CASE TakeJob(v) \/ EncodeFails(v)
    BY <1>1, <1>2, <2>2 DEF TakeJob, EncodeFails
  <2>3. CASE Finish(v)
    <3>1. worker' = [worker EXCEPT ![v] = Idle(v)]
      BY <2>3 DEF Finish
    <3> QED
      BY <1>1, <1>2, <3>1 DEF Idle
  <2>4. CASE EvictSend(v)
    <3>1. /\ Pushing(v)
          /\ worker' = [worker EXCEPT ![v] = At("retry", worker[v].frame, worker[v].c,
                                                worker[v].group, worker[v].hand)]
      BY <2>4 DEF EvictSend, Pushing
    <3>2. worker'[v].hand = worker[v].hand /\ worker'[v].c = worker[v].c
      BY <1>0, <3>1 DEF WorkerTypes, At
    <3> QED
      BY <1>4, <3>1, <3>2
  <2>5. CASE TryPushSend(v) \/ RetryPushSend(v)
    <3>1. Pushing(v)
      BY <2>5 DEF TryPushSend, RetryPushSend, Pushing
    <3>2. worker' = [worker EXCEPT ![v] = At("evict", worker[v].frame, worker[v].c,
                                             worker[v].group, worker[v].hand)]
      BY <1>4, <2>5, <3>1 DEF TryPushSend, RetryPushSend
    <3>3. worker'[v].hand = worker[v].hand /\ worker'[v].c = worker[v].c
      BY <1>0, <3>2 DEF WorkerTypes, At
    <3> QED
      BY <1>4, <3>1, <3>3
  <2> QED
    BY <1>8, <2>1, <2>2, <2>3, <2>4, <2>5 DEF WorkerStep
<1>9. Pushing(v) /\ worker'[v].hand = worker[v].hand /\ worker'[v].c = worker[v].c
  BY <1>6, <1>7, <1>8 DEF Next
<1> QED
  BY <1>4, <1>9

LEMMA SequenceGrows ==
  ASSUME FramesInv, [Next]_vars, NEW d \in Channels
  PROVE  encSeq[d] \in Nat /\ encSeq'[d] \in Nat /\ encSeq[d] <= encSeq'[d]
<1>0. encSeq \in [Channels -> Nat]
  BY DEF FramesInv, TypeOK
<1>1. encSeq' = encSeq \/ \E c : encSeq' = [encSeq EXCEPT ![c] = @ + 1]
  <2>1. CASE ClockStep \/ TakeFrame \/ FanOut \/ DispatcherExits \/ Send \/ SenderExits \/ CloseDone
             \/ UNCHANGED vars
    BY <2>1 DEF ClockStep, Acquire, TryPushFrame, EvictFrame, RetryPushFrame, TakeFrame, FanOut,
                DispatcherExits, Send, SenderExits, CloseDone, vars, encVars
  <2>2. ASSUME NEW w \in Workers, WorkerStep(w) \/ WorkerExits(w)
        PROVE  encSeq' = encSeq \/ \E c : encSeq' = [encSeq EXCEPT ![c] = @ + 1]
    BY <2>2 DEF WorkerStep, TakeJob, Encode, EncodeFails, Finish, TryPushSend, EvictSend, RetryPushSend,
                WorkerExits, encVars
  <2> QED
    BY <2>1, <2>2 DEF Next
<1>2. \A c : encSeq' = [encSeq EXCEPT ![c] = @ + 1] =>
        encSeq'[d] = encSeq[d] \/ encSeq'[d] = encSeq[d] + 1
  BY <1>0
<1>3. encSeq[d] \in Nat /\ (encSeq'[d] = encSeq[d] \/ encSeq'[d] = encSeq[d] + 1)
  BY <1>0, <1>1, <1>2
<1> QED
  BY <1>3

LEMMA ChannelsKept == ASSUME OrderInv, [Next]_vars PROVE ChannelsInOrder'
<1>0. /\ PacketInv /\ FramesInv /\ ChannelsInOrder /\ frameTs \in [Frames -> Nat]
      /\ WorkerTypes /\ ControlInv /\ encSeq \in [Channels -> Nat]
  <2>1. PacketInv /\ FramesInv /\ ChannelsInOrder
    BY DEF OrderInv, PacketInv
  <2>2. SendTypes
    BY <2>1, TypeParts DEF FramesInv
  <2> QED
    BY <2>1, <2>2, DatesTyped DEF SendTypes
<1>1. SUFFICES ASSUME ~bundled, NEW p \in Sent' \ {NoPacket}, NEW v \in Workers,
                      NEW c \in Lo(v) .. Hi(v) - 1, p.chans = {c}
               PROVE  /\ p.seq < encSeq'[c]
                      /\ \A g \in Frames : Ahead(v, g)' =>
                           \/ p.ts < frameTs'[g]
                           \/ worker'[v].frame = g /\ p.ts = frameTs'[g] /\ c < worker'[v].c
                      /\ Pushing(v)' /\ worker'[v].c = c + 1 =>
                           p.ts < worker'[v].hand.ts /\ p.seq < worker'[v].hand.seq
  BY SameTimes DEF ChannelsInOrder
<1>c. c \in Channels /\ c \in Nat /\ Lo(v) \in Nat /\ Hi(v) \in 0 .. C /\ worker[v].c \in Lo(v) .. Hi(v)
  <2>1. Lo(v) \in Nat /\ Hi(v) \in 0 .. C /\ C \in Nat
    BY Ranges, SizesAssumption
  <2> QED
    BY <1>0, <2>1 DEF Channels, WorkerTypes
<1>2. ASSUME p \in Sent
      PROVE  /\ p.seq < encSeq[c]
             /\ \A g \in Frames : Ahead(v, g) =>
                  p.ts < frameTs[g] \/ (worker[v].frame = g /\ p.ts = frameTs[g] /\ c < worker[v].c)
             /\ Pushing(v) /\ worker[v].c = c + 1 =>
                  p.ts < worker[v].hand.ts /\ p.seq < worker[v].hand.seq
             /\ p.ts \in Nat /\ p.seq \in Nat
  BY <1>0, <1>1, <1>2, SentPackets DEF ChannelsInOrder
<1>3. CASE Acquire
  <2>1. p \in Sent
    BY <1>1, <1>3 DEF Acquire, Sent, sendVars
  <2>2. UNCHANGED <<worker, encSeq>>
    BY <1>3 DEF Acquire, encVars
  <2>3. \A g \in Frames : Ahead(v, g)' => p.ts < frameTs'[g] \/ (Ahead(v, g) /\ frameTs'[g] = frameTs[g])
    BY <1>3, <2>1, AcquiredIsLast
  <2> QED
    BY <1>2, <2>1, <2>2, <2>3 DEF Pushing
<1>4. ASSUME ~Acquire, p \in Sent
      PROVE  /\ p.seq < encSeq'[c]
             /\ \A g \in Frames : Ahead(v, g)' =>
                  \/ p.ts < frameTs'[g]
                  \/ worker'[v].frame = g /\ p.ts = frameTs'[g] /\ c < worker'[v].c
             /\ Pushing(v)' /\ worker'[v].c = c + 1 =>
                  p.ts < worker'[v].hand.ts /\ p.seq < worker'[v].hand.seq
  <2>1. p.seq < encSeq'[c]
    BY <1>0, <1>2, <1>4, <1>c, SequenceGrows
  <2>2. ASSUME NEW g \in Frames, Ahead(v, g)'
        PROVE  \/ p.ts < frameTs'[g]
               \/ worker'[v].frame = g /\ p.ts = frameTs'[g] /\ c < worker'[v].c
    <3>1. /\ Ahead(v, g) /\ frameTs' = frameTs
          /\ worker[v].frame = g => worker'[v].frame = g /\ worker[v].c <= worker'[v].c
      BY <1>0, <1>4, <2>2, AheadShrinks, SameTimes
    <3>2. worker'[v].c \in 0 .. C
      <4>1. FramesInv'
        BY <1>0, FramesKept
      <4> QED
        BY <4>1 DEF FramesInv, TypeOK
    <3> QED
      BY <1>2, <1>4, <1>c, <3>1, <3>2
  <2>3. ASSUME Pushing(v)', worker'[v].c = c + 1
        PROVE  p.ts < worker'[v].hand.ts /\ p.seq < worker'[v].hand.seq
    <3>1. CASE Encode(v)
      <4>1. PICK f \in Frames : f = worker[v].frame
        BY <1>0, <3>1 DEF Encode, ControlInv, WorkerTypes
      <4>d. PICK d \in Lo(v) .. Hi(v) : d = worker[v].c
        BY <1>c
      <4>2. PICK q :
                 q = [ts |-> frameTs[f], seq |-> encSeq[d], chans |-> {d},
                      made |-> [e \in Channels |-> IF e = d THEN frameTs[f] ELSE Empty]]
        OBVIOUS
      <4>3. worker' = [worker EXCEPT ![v] = At("try", f, d + 1, 0, q)]
        BY <1>1, <3>1, <4>1, <4>d, <4>2 DEF Encode
      <4>4. worker'[v].hand = q /\ worker'[v].c = d + 1
        BY <1>0, <4>3 DEF WorkerTypes, At
      <4>5. d = c
        BY <1>c, <2>3, <4>4
      <4>6. worker'[v].hand.ts = frameTs[f] /\ worker'[v].hand.seq = encSeq[c] /\ worker[v].c = c
        BY <4>d, <4>2, <4>4, <4>5
      <4>7. Ahead(v, f)
        BY <4>1 DEF Ahead, Holds
      <4> QED
        BY <1>2, <1>4, <1>c, <4>6, <4>7
    <3>2. CASE ~Encode(v)
      <4>1. Pushing(v) /\ worker'[v].hand = worker[v].hand /\ worker'[v].c = worker[v].c
        BY <1>0, <1>1, <2>3, <3>2, HandStays
      <4> QED
        BY <1>2, <1>4, <2>3, <4>1
    <3> QED
      BY <3>1, <3>2
  <2> QED
    BY <2>1, <2>2, <2>3
<1>5. ASSUME ~Acquire, NEW w \in Workers, Pushing(w), AfterPush(w), p = worker[w].hand,
             UNCHANGED <<frameTs, encSeq, bundled>>
      PROVE  /\ p.seq < encSeq'[c]
             /\ \A g \in Frames : Ahead(v, g)' =>
                  \/ p.ts < frameTs'[g]
                  \/ worker'[v].frame = g /\ p.ts = frameTs'[g] /\ c < worker'[v].c
             /\ Pushing(v)' /\ worker'[v].c = c + 1 =>
                  p.ts < worker'[v].hand.ts /\ p.seq < worker'[v].hand.seq
  <2>1. PICK f \in Frames, d \in Lo(w) .. Hi(w) :
          /\ worker[w].frame = f /\ p.ts = frameTs[f] /\ worker[w].c = d
          /\ d - 1 \in Lo(w) .. Hi(w) - 1 /\ p.chans = {d - 1} /\ p.seq + 1 = encSeq[d - 1]
    BY <1>0, <1>1, <1>5, InHand
  <2>2. c = d - 1
    BY <1>1, <2>1
  <2>3. w = v
    BY <2>1, <2>2, OneOwner
  <2>4. p.seq < encSeq'[c]
    <3>1. p.seq \in Nat /\ encSeq[c] \in Nat
      <4>1. p \in Packet
        BY <1>0, <1>5 DEF Pushing, WorkerTypes, ControlInv
      <4> QED
        BY <1>0, <1>c, <4>1 DEF Packet
    <3> QED
      BY <1>5, <2>1, <2>2, <3>1
  <2>5. ASSUME NEW g \in Frames, Ahead(v, g)'
        PROVE  \/ p.ts < frameTs'[g]
               \/ worker'[v].frame = g /\ p.ts = frameTs'[g] /\ c < worker'[v].c
    <3>1. /\ Ahead(v, g)
          /\ worker[v].frame = g => worker'[v].frame = g /\ worker[v].c <= worker'[v].c
      BY <1>0, <1>5, <2>5, AheadShrinks
    <3>2. g = f \/ frameTs[f] < frameTs[g]
      BY <1>0, <2>1, <2>3, <3>1, PushedFirst
    <3>3. worker'[v].c \in 0 .. C /\ c < worker[v].c
      <4>1. FramesInv'
        BY <1>0, FramesKept
      <4>2. worker'[v].c \in 0 .. C
        BY <4>1 DEF FramesInv, TypeOK
      <4> QED
        BY <1>c, <2>1, <2>2, <2>3, <4>2
    <3> QED
      BY <1>5, <1>c, <2>1, <2>3, <3>1, <3>2, <3>3
  <2>6. ~Pushing(v)'
    <3>1. ~Encode(v)
      BY <1>5, <2>3 DEF Pushing, Encode
    <3> QED
      BY <1>0, <1>1, <1>5, <2>3, <3>1, HandStays
  <2> QED
    BY <2>4, <2>5, <2>6
<1> QED
  BY <1>0, <1>1, <1>3, <1>4, <1>5, SentChanges

(* What is pushed comes after everything that was. *)
LEMMA PushedLast ==
  ASSUME OrderInv, NEW w \in Workers, Pushing(w), NEW q \in Sent, q # NoPacket
  PROVE  Before(q, worker[w].hand)
<1>0. PacketInv /\ BundlesInOrder /\ ChannelsInOrder
  BY DEF OrderInv
<1>1. PICK f \in Frames, c \in Lo(w) .. Hi(w) :
        /\ worker[w].frame = f /\ worker[w].hand.ts = frameTs[f] /\ worker[w].c = c
        /\ ~bundled => /\ c - 1 \in Lo(w) .. Hi(w) - 1
                       /\ worker[w].hand.chans = {c - 1}
  BY <1>0, InHand
<1>2. Ahead(w, f)
  BY <1>1 DEF Ahead, Holds
<1>3. CASE bundled
  BY <1>0, <1>1, <1>2, <1>3 DEF BundlesInOrder, Before
<1>4. CASE ~bundled
  <2>1. ASSUME q.chans = worker[w].hand.chans
        PROVE  q.ts < worker[w].hand.ts /\ q.seq < worker[w].hand.seq
    <3>1. PICK d \in Lo(w) .. Hi(w) - 1 : d = c - 1 /\ q.chans = {d} /\ worker[w].c = d + 1
      BY <1>1, <1>4, <2>1, Ranges
    <3> QED
      BY <1>0, <1>4, <3>1 DEF ChannelsInOrder
  <2> QED
    BY <1>4, <2>1 DEF Before
<1> QED
  BY <1>3, <1>4

LEMMA OrderedKept == ASSUME OrderInv, [Next]_vars PROVE SendsInOrder'
<1>0. /\ PacketInv /\ FramesInv /\ SendsInOrder /\ sendCh \in Seq(Packet)
      /\ bundled' = bundled
  BY SameTimes DEF OrderInv, PacketInv, FramesInv, TypeOK
<1>1. \A p, q : Before(p, q)' <=> Before(p, q)
  BY <1>0 DEF Before
<1>2. SUFFICES /\ \A m, n \in DOMAIN sendCh' : m < n => Before(sendCh'[m], sendCh'[n])
               /\ sending' # NoPacket => \A n \in DOMAIN sendCh' : Before(sending', sendCh'[n])
  BY <1>0 DEF SendsInOrder, Before
<1>3. CASE sendCh' = sendCh /\ sending' = sending
  BY <1>0, <1>3 DEF SendsInOrder
<1>4. ASSUME NEW w \in Workers, Pushing(w), sendCh' = Append(sendCh, worker[w].hand),
             worker[w].hand \in Packet, sending' = sending
      PROVE  /\ \A m, n \in DOMAIN sendCh' : m < n => Before(sendCh'[m], sendCh'[n])
             /\ sending' # NoPacket => \A n \in DOMAIN sendCh' : Before(sending', sendCh'[n])
  <2>1. /\ Len(sendCh) \in Nat /\ DOMAIN sendCh = 1 .. Len(sendCh)
        /\ DOMAIN sendCh' = 1 .. Len(sendCh) + 1
        /\ \A n \in DOMAIN sendCh : sendCh'[n] = sendCh[n] /\ sendCh[n] \in Packet
        /\ sendCh'[Len(sendCh) + 1] = worker[w].hand
    BY <1>0, <1>4
  <2>2. \A n \in DOMAIN sendCh : Before(sendCh[n], worker[w].hand)
    <3> SUFFICES ASSUME NEW n \in DOMAIN sendCh PROVE Before(sendCh[n], worker[w].hand)
      OBVIOUS
    <3>1. sendCh[n] \in Sent /\ sendCh[n] # NoPacket
      BY <2>1 DEF Sent, Elements, Packet, NoPacket, Times
    <3> QED
      BY <1>4, <3>1, PushedLast
  <2>3. sending # NoPacket => Before(sending, worker[w].hand)
    BY <1>4, PushedLast DEF Sent
  <2>4. ASSUME NEW m \in DOMAIN sendCh', NEW n \in DOMAIN sendCh', m < n
        PROVE  Before(sendCh'[m], sendCh'[n])
    <3>1. m \in DOMAIN sendCh
      BY <2>1, <2>4
    <3>2. CASE n \in DOMAIN sendCh
      BY <1>0, <2>1, <2>4, <3>1, <3>2 DEF SendsInOrder
    <3>3. CASE n = Len(sendCh) + 1
      BY <2>1, <2>2, <3>1, <3>3
    <3> QED
      BY <2>1, <3>2, <3>3
  <2>5. ASSUME sending' # NoPacket, NEW n \in DOMAIN sendCh' PROVE Before(sending', sendCh'[n])
    <3>1. CASE n \in DOMAIN sendCh
      BY <1>0, <1>4, <2>1, <2>5, <3>1 DEF SendsInOrder
    <3>2. CASE n = Len(sendCh) + 1
      BY <1>4, <2>1, <2>3, <2>5, <3>2
    <3> QED
      BY <2>1, <3>1, <3>2
  <2> QED
    BY <2>4, <2>5
<1>5. ASSUME sendCh # <<>>, sendCh' = Tail(sendCh), sending' = sending \/ sending' = Head(sendCh)
      PROVE  /\ \A m, n \in DOMAIN sendCh' : m < n => Before(sendCh'[m], sendCh'[n])
             /\ sending' # NoPacket => \A n \in DOMAIN sendCh' : Before(sending', sendCh'[n])
  <2>1. /\ Len(sendCh) \in Nat /\ Len(sendCh) > 0 /\ DOMAIN sendCh = 1 .. Len(sendCh)
        /\ DOMAIN sendCh' = 1 .. Len(sendCh) - 1
        /\ \A n \in 1 .. Len(sendCh) - 1 : sendCh'[n] = sendCh[n + 1]
        /\ Head(sendCh) = sendCh[1]
    BY <1>0, <1>5
  <2>2. \A n \in DOMAIN sendCh' : /\ n \in Nat /\ n + 1 \in DOMAIN sendCh /\ 1 \in DOMAIN sendCh
                                  /\ 1 < n + 1 /\ sendCh'[n] = sendCh[n + 1]
    BY <2>1
  <2>3. \A m, n \in DOMAIN sendCh' : m < n => Before(sendCh'[m], sendCh'[n])
    BY <1>0, <2>2 DEF SendsInOrder
  <2>4. sending' # NoPacket => \A n \in DOMAIN sendCh' : Before(sending', sendCh'[n])
    BY <1>0, <1>5, <2>1, <2>2 DEF SendsInOrder
  <2> QED
    BY <2>3, <2>4
<1> QED
  BY <1>0, <1>3, <1>4, <1>5, SendChanges

LEMMA OrderKept == OrderInv /\ [Next]_vars => OrderInv'
<1> SUFFICES ASSUME OrderInv, [Next]_vars PROVE OrderInv'
  OBVIOUS
<1>1. PacketInv'
  BY PacketsKept DEF OrderInv
<1> QED
  BY <1>1, FutureKept, BundlesKept, ChannelsKept, OrderedKept DEF OrderInv

(* SendsInOrder: mix time never goes back on the way to the DataChannel,    *)
(* whichever worker drops the last reference of a frame; without bundles    *)
(* each channel's packets and sequence numbers are in order.                *)
(* (pipeline.go:128-203, 229-250)                                           *)
THEOREM PacketsLeaveInOrder == Spec => []SendsInOrder
<1>1. OrderInv => SendsInOrder
  BY DEF OrderInv
<1> QED
  BY <1>1, OrderInitially, OrderKept, PTL DEF Spec

-----------------------------------------------------------------------------
(* The pace of the send stage *)

(* What is allowed above the high watermark.  A packet is let through when  *)
(* the flag is down: it is down with the buffer above High only after a     *)
(* callback that was already under way cleared it, so a callback still to   *)
(* come costs one packet less.                                              *)
Headroom ==
  (IF lowEvent THEN 0 ELSE MaxPacket)
    + (IF congested \/ pc \in {"check", "mark"} THEN MaxPacket ELSE 0)

PacingInv ==
  /\ PacingTypeOK
  /\ congested => pc = "idle"
  /\ buffered <= High + Headroom

LEMMA PacingInvInitially == PacingInit => PacingInv
<1> SUFFICES ASSUME PacingInit PROVE PacingInv
  OBVIOUS
<1>1. PacingTypeOK /\ ~congested /\ ~lowEvent /\ buffered = 0 /\ pc = "idle"
  BY DEF PacingInit, PacingTypeOK
<1>2. Headroom = MaxPacket
  BY <1>1, WatermarkAssumption DEF Headroom
<1> QED
  BY <1>1, <1>2, WatermarkAssumption DEF PacingInv

LEMMA PacingInvKept == PacingInv /\ [PacingNext]_pacingVars => PacingInv'
<1> SUFFICES ASSUME PacingInv, [PacingNext]_pacingVars PROVE PacingInv'
  OBVIOUS
<1> USE WatermarkAssumption DEF PacingInv, PacingTypeOK, Headroom
<1>1. CASE TakePacket
  BY <1>1 DEF TakePacket
<1>2. ASSUME NEW n \in 1 .. MaxPacket, HandOver(n) PROVE PacingInv'
  BY <1>2 DEF HandOver
<1>3. CASE SendFails
  BY <1>3 DEF SendFails
<1>4. CASE ReadAmount
  BY <1>4 DEF ReadAmount
<1>5. CASE MarkCongested
  BY <1>5 DEF MarkCongested
<1>6. ASSUME NEW n \in 1 .. buffered, Drain(n) PROVE PacingInv'
  BY <1>6 DEF Drain
<1>7. CASE OnBufferedAmountLow
  <2>1. lowEvent /\ ~lowEvent' /\ ~congested' /\ pc' = pc /\ buffered' = buffered
    BY <1>7 DEF OnBufferedAmountLow
  <2>2. Headroom' >= Headroom
    BY <2>1
  <2>3. PacingTypeOK'
    BY <1>7 DEF OnBufferedAmountLow
  <2> QED
    BY <2>1, <2>2, <2>3
<1>8. CASE UNCHANGED pacingVars
  BY <1>8 DEF pacingVars
<1> QED
  BY <1>1, <1>2, <1>3, <1>4, <1>5, <1>6, <1>7, <1>8 DEF PacingNext, SendLoop, Network

(* Every reachable state of the send stage is well typed. *)
THEOREM PacingTypeCorrect == PacingSpec => []PacingTypeOK
<1>1. PacingInv => PacingTypeOK
  BY DEF PacingInv
<1> QED
  BY <1>1, PacingInvInitially, PacingInvKept, PTL DEF PacingSpec

(* However the flag and the callback interleave, SCTP never holds more than *)
(* two packets above the high watermark.  (pipeline.go:238-259)             *)
THEOREM BufferStaysBounded == PacingSpec => []BufferBounded
<1>1. PacingInv => BufferBounded
  BY WatermarkAssumption DEF PacingInv, PacingTypeOK, Headroom, BufferBounded
<1> QED
  BY <1>1, PacingInvInitially, PacingInvKept, PTL DEF PacingSpec

-----------------------------------------------------------------------------
(* The pace of the bundles of real frames *)

(* What sendLoop is fed is what the layout makes of some frame. *)
FedBundles ==
  /\ frameSize \in FrameSizes /\ failed \in FailedSets
  /\ packets = Bundles!SendBundled(Bundles!PlanLayout(frameSize), failed)
  /\ next \in Nat \ {0}

LEMMA BundlesFed == DownlinkSpec => []FedBundles
<1>1. DownlinkInit => FedBundles
  BY DEF DownlinkInit, Bundles!Init, FedBundles
<1>2. FedBundles /\ [DownlinkNext]_allVars => FedBundles'
  <2> SUFFICES ASSUME FedBundles, [DownlinkNext]_allVars PROVE FedBundles'
    OBVIOUS
  <2> USE DEF FedBundles
  <2>1. CASE UNCHANGED layoutVars
    BY <2>1 DEF layoutVars
  <2>2. CASE Bundles!Lose
    BY <2>2 DEF Bundles!Lose
  <2>3. CASE Bundles!Deliver
    BY <2>3 DEF Bundles!Deliver
  <2>4. CASE Bundles!NextFrame
    BY <2>4 DEF Bundles!NextFrame
  <2> QED
    BY <2>1, <2>2, <2>3, <2>4
       DEF DownlinkNext, Take, DropCongested, SendPacket, SendError, Afterwards, NewFrame, allVars
<1> QED
  BY <1>1, <1>2, PTL DEF DownlinkSpec

LEMMA NoBundleTooHeavy ==
  ASSUME FedBundles, next <= Len(packets)
  PROVE  Weight \in 1 .. MaxPacket
<1>1. next \in 1 .. Len(packets)
  BY DEF FedBundles
<1> QED
  BY <1>1, WeightAssumption DEF FedBundles, Weight

(* The send stage at work on the bundles of successive frames is the one of *)
(* SendPacing: a packet taken, sent, refused by the channel or dropped, and *)
(* a new frame, change of it what its own steps change, or nothing.         *)
(* (pipeline.go:205-223, 238-259)                                           *)
THEOREM DownlinkPaces == DownlinkSpec => PacingSpec
<1>1. DownlinkInit => PacingInit
  BY DEF DownlinkInit
<1>2. FedBundles /\ [DownlinkNext]_allVars => [PacingNext]_pacingVars
  <2> SUFFICES ASSUME FedBundles, [DownlinkNext]_allVars PROVE PacingNext \/ UNCHANGED pacingVars
    OBVIOUS
  <2>1. CASE SendPacket
    <3>1. Weight \in 1 .. MaxPacket /\ HandOver(Weight)
      BY <2>1, NoBundleTooHeavy DEF SendPacket
    <3> QED
      BY <3>1 DEF PacingNext, SendLoop
  <2>2. CASE Take \/ SendError \/ Afterwards
    BY <2>2 DEF Take, SendError, Afterwards, PacingNext, SendLoop
  <2>3. CASE DropCongested \/ NewFrame \/ UNCHANGED allVars
    BY <2>3 DEF DropCongested, NewFrame, allVars
  <2> QED
    BY <2>1, <2>2, <2>3 DEF DownlinkNext
<1> QED
  BY <1>1, <1>2, BundlesFed, PTL DEF DownlinkSpec, PacingSpec

(* So the buffer bound holds with real packets, whatever is dropped or lost *)
(* and however the encodes fail.  (pipeline.go:238-259; session.go:294-298) *)
THEOREM DownlinkBufferBounded == DownlinkSpec => []BufferBounded
  BY DownlinkPaces, BufferStaysBounded

-----------------------------------------------------------------------------
(* Induction over an interval, and functions defined along one *)

(* A set of numbers has a least member. *)
LEMMA LeastOfNaturals ==
  ASSUME NEW S \in SUBSET Nat, S # {}
  PROVE  \E c \in S : \A d \in S : c <= d
<1> DEFINE R == OpToRel(<, Nat)
<1>1. R = {ss \in Nat \X Nat : ss[1] < ss[2]}
  BY DEF OpToRel
<1>2. IsWellFoundedOn(R, Nat)
  BY NatLessThanWellFounded
<1> HIDE DEF R
<1>3. PICK c \in S : \A d \in S : ~(<<d, c>> \in R)
  BY <1>2, WFMin
<1>4. ASSUME NEW d \in S PROVE c <= d
  <2>1. c \in Nat /\ d \in Nat /\ <<d, c>> \notin R
    BY <1>3
  <2>2. ASSUME d < c PROVE <<d, c>> \in R
    BY <1>1, <2>1, <2>2
  <2> QED
    BY <2>1, <2>2
<1> QED
  BY <1>4

(* A set that holds 0, and with each number the one after it, has them all. *)
LEMMA UpTo ==
  ASSUME NEW m \in Nat, NEW S, 0 \in S, \A n \in 1 .. m : n - 1 \in S => n \in S
  PROVE  \A n \in 0 .. m : n \in S
<1> DEFINE D == {n \in 0 .. m : n \notin S}
<1>1. CASE D # {}
  <2>1. PICK d \in D : \A i \in D : d <= i
    <3>1. D \in SUBSET Nat
      OBVIOUS
    <3> HIDE DEF D
    <3> QED
      BY <1>1, <3>1, LeastOfNaturals
  <2>2. d # 0 /\ d \in 1 .. m /\ d \notin S
    OBVIOUS
  <2>3. d - 1 \in 0 .. m /\ d - 1 \notin D
    BY <2>1, <2>2
  <2> QED
    BY <2>2, <2>3
<1> QED
  BY <1>1

(* What is defined by a start and a step for each number exists. *)
Stays(S, m, step)         == \A n \in 1 .. m : \A s \in S : step[n][s] \in S
Follows(f, base, m, step) == f[0] = base /\ \A n \in 1 .. m : f[n] = step[n][f[n - 1]]

LEMMA Recursion ==
  ASSUME NEW m \in Nat, NEW S, NEW base \in S, NEW step, Stays(S, m, step)
  PROVE  \E f \in [0 .. m -> S] : Follows(f, base, m, step)
<1> USE DEF Stays, Follows
<1> DEFINE T == {k \in 0 .. m : \E f \in [0 .. k -> S] :
                    f[0] = base /\ \A n \in 1 .. k : f[n] = step[n][f[n - 1]]}
<1>1. 0 \in T
  <2>1. PICK f : f = [n \in 0 .. 0 |-> base]
    OBVIOUS
  <2>2. f \in [0 .. 0 -> S] /\ f[0] = base
    BY <2>1
  <2>3. \A n \in 1 .. 0 : f[n] = step[n][f[n - 1]]
    OBVIOUS
  <2> QED
    BY <2>2, <2>3
<1>2. ASSUME NEW k \in 1 .. m, k - 1 \in T PROVE k \in T
  <2>1. PICK f \in [0 .. k - 1 -> S] :
          f[0] = base /\ \A n \in 1 .. k - 1 : f[n] = step[n][f[n - 1]]
    BY <1>2
  <2> DEFINE g == [n \in 0 .. k |-> IF n = k THEN step[k][f[k - 1]] ELSE f[n]]
  <2>2. k - 1 \in 0 .. k - 1 /\ f[k - 1] \in S /\ step[k][f[k - 1]] \in S
    BY <2>1
  <2>3. g \in [0 .. k -> S]
    BY <2>1, <2>2
  <2>4. g[0] = base
    BY <2>1
  <2>5. ASSUME NEW n \in 1 .. k PROVE g[n] = step[n][g[n - 1]]
    <3>1. n - 1 \in 0 .. k - 1 /\ g[n - 1] = f[n - 1]
      OBVIOUS
    <3>2. n # k => n \in 1 .. k - 1
      OBVIOUS
    <3> QED
      BY <2>1, <3>1, <3>2
  <2> HIDE DEF g
  <2> QED
    BY <2>3, <2>4, <2>5
<1> HIDE DEF T
<1>3. \A k \in 0 .. m : k \in T
  BY <1>1, <1>2, UpTo
<1>4. m \in T
  BY <1>3
<1> QED
  BY <1>4 DEF T

-----------------------------------------------------------------------------
(* The wire format *)

(* The recursive functions of the layout satisfy their equations. *)
LEMMA AscendingSteps ==
  ASSUME NEW chans
  PROVE  \E idxs :
           /\ \A n \in 0 .. 16 : idxs[n] \in Seq(Bundles!Channels)
           /\ idxs[0] = <<>> /\ Bundles!Ascending(chans) = idxs[16]
           /\ \A n \in 1 .. 16 :
                idxs[n] = IF n - 1 \in chans THEN Append(idxs[n - 1], n - 1) ELSE idxs[n - 1]
<1> DEFINE S    == Seq(Bundles!Channels)
           step == [n \in 1 .. 16 |-> [s \in S |-> IF n - 1 \in chans THEN Append(s, n - 1) ELSE s]]
<1>1. <<>> \in S
  OBVIOUS
<1>2. ASSUME NEW n \in 1 .. 16, NEW s \in S
      PROVE  step[n][s] = (IF n - 1 \in chans THEN Append(s, n - 1) ELSE s) /\ step[n][s] \in S
  <2>1. n - 1 \in Bundles!Channels
    BY DEF Bundles!Channels
  <2> QED
    BY <2>1
<1> HIDE DEF S, step
<1>3. PICK f \in [0 .. 16 -> S] : f[0] = <<>> /\ \A n \in 1 .. 16 : f[n] = step[n][f[n - 1]]
  <2>1. 16 \in Nat /\ \A n \in 1 .. 16 : \A s \in S : step[n][s] \in S
    BY <1>2
  <2>2. Stays(S, 16, step)
    BY <2>1 DEF Stays
  <2>3. \E f \in [0 .. 16 -> S] : Follows(f, <<>>, 16, step)
    BY <1>1, <2>1, <2>2, Recursion
  <2> QED
    BY <2>3 DEF Follows
<1>4. ASSUME NEW n \in 1 .. 16
      PROVE  f[n] = IF n - 1 \in chans THEN Append(f[n - 1], n - 1) ELSE f[n - 1]
  <2>1. n - 1 \in 0 .. 16
    OBVIOUS
  <2>2. f[n - 1] \in S
    BY <1>3, <2>1
  <2> QED
    BY <1>2, <1>3, <2>2
<1>5. PICK idxs : idxs = CHOOSE any :
        any = [n \in 0 .. 16 |->
                 IF n = 0 THEN <<>>
                 ELSE IF n - 1 \in chans THEN Append(any[n - 1], n - 1) ELSE any[n - 1]]
  OBVIOUS
<1>6. f = [n \in 0 .. 16 |->
             IF n = 0 THEN <<>>
             ELSE IF n - 1 \in chans THEN Append(f[n - 1], n - 1) ELSE f[n - 1]]
  <2>1. f = [n \in 0 .. 16 |-> f[n]]
    BY <1>3
  <2>2. \A n \in 0 .. 16 : f[n] = 
             IF n = 0 THEN <<>>
             ELSE IF n - 1 \in chans THEN Append(f[n - 1], n - 1) ELSE f[n - 1]
    <3>1. \A n \in 0 .. 16 : n = 0 \/ n \in 1 .. 16
      OBVIOUS
    <3> QED
      BY <1>3, <1>4, <3>1, Zenon
  <2> QED
    BY <2>1, <2>2
<1>7. idxs = [n \in 0 .. 16 |->
                IF n = 0 THEN <<>>
                ELSE IF n - 1 \in chans THEN Append(idxs[n - 1], n - 1) ELSE idxs[n - 1]]
  BY <1>5, <1>6
<1>8. /\ idxs[0] = <<>>
      /\ \A n \in 1 .. 16 :
           idxs[n] = IF n - 1 \in chans THEN Append(idxs[n - 1], n - 1) ELSE idxs[n - 1]
  <2>1. \A n \in 0 .. 16 : idxs[n] = 
             IF n = 0 THEN <<>>
             ELSE IF n - 1 \in chans THEN Append(idxs[n - 1], n - 1) ELSE idxs[n - 1]
    BY <1>7, Zenon
  <2>2. 0 \in 0 .. 16 /\ \A n \in 1 .. 16 : n \in 0 .. 16 /\ n # 0
    OBVIOUS
  <2> QED
    BY <2>1, <2>2, Zenon
<1>9. \A n \in 0 .. 16 : idxs[n] \in S
  <2> DEFINE E == {i \in 0 .. 16 : idxs[i] \in S}
  <2>1. 0 \in E
    BY <1>1, <1>8
  <2>2. ASSUME NEW n \in 1 .. 16, n - 1 \in E PROVE n \in E
    <3>1. n - 1 \in Bundles!Channels
      BY DEF Bundles!Channels
    <3>2. idxs[n - 1] \in S
      BY <2>2
    <3>3. Append(idxs[n - 1], n - 1) \in S
      BY <3>1, <3>2 DEF S
    <3>4. idxs[n] \in S
      BY <1>8, <3>2, <3>3
    <3> QED
      BY <3>4
  <2> HIDE DEF E
  <2>3. \A n \in 0 .. 16 : n \in E
    BY <2>1, <2>2, UpTo
  <2> QED
    BY <2>3 DEF E
<1>11. Bundles!Ascending(chans) = idxs[16]
  BY <1>5 DEF Bundles!Ascending
<1> QED
  BY <1>8, <1>9, <1>11 DEF S

LEMMA EndsSteps ==
  ASSUME NEW lengths \in Seq(Nat)
  PROVE  /\ Bundles!Ends(lengths) \in [0 .. Len(lengths) -> Nat]
         /\ Bundles!Ends(lengths)[0] = 0
         /\ \A n \in 1 .. Len(lengths) :
              Bundles!Ends(lengths)[n] = Bundles!Ends(lengths)[n - 1] + lengths[n]
<1> DEFINE step == [n \in 1 .. Len(lengths) |-> [s \in Nat |-> s + lengths[n]]]
<1>1. Len(lengths) \in Nat /\ \A n \in 1 .. Len(lengths) : lengths[n] \in Nat
  OBVIOUS
<1>2. ASSUME NEW n \in 1 .. Len(lengths), NEW s \in Nat
      PROVE  step[n][s] = s + lengths[n] /\ step[n][s] \in Nat
  BY <1>1
<1> HIDE DEF step
<1>3. PICK f \in [0 .. Len(lengths) -> Nat] : Follows(f, 0, Len(lengths), step)
  <2>1. Stays(Nat, Len(lengths), step)
    BY <1>2 DEF Stays
  <2> QED
    BY <1>1, <2>1, Recursion
<1>4. \A n \in 1 .. Len(lengths) : f[n - 1] \in Nat
  BY <1>1, <1>3
<1>5. f = [n \in 0 .. Len(lengths) |-> IF n = 0 THEN 0 ELSE f[n - 1] + lengths[n]]
  <2>1. f = [n \in 0 .. Len(lengths) |-> f[n]]
    BY <1>3
  <2>2. \A n \in 0 .. Len(lengths) : f[n] = IF n = 0 THEN 0 ELSE f[n - 1] + lengths[n]
    <3>1. \A n \in 0 .. Len(lengths) : n = 0 \/ (n \in 1 .. Len(lengths) /\ n # 0)
      BY <1>1
    <3>2. \A n \in 1 .. Len(lengths) : f[n] = f[n - 1] + lengths[n]
      BY <1>2, <1>3, <1>4 DEF Follows
    <3>3. f[0] = 0
      BY <1>3 DEF Follows
    <3> QED
      BY <3>1, <3>2, <3>3, Zenon
  <2> QED
    BY <2>1, <2>2
<1>6. PICK end : end = CHOOSE any :
        any = [n \in 0 .. Len(lengths) |-> IF n = 0 THEN 0 ELSE any[n - 1] + lengths[n]]
  OBVIOUS
<1>7. end = [n \in 0 .. Len(lengths) |-> IF n = 0 THEN 0 ELSE end[n - 1] + lengths[n]]
  BY <1>5, <1>6
<1>8. end[0] = 0 /\ \A n \in 1 .. Len(lengths) : end[n] = end[n - 1] + lengths[n]
  <2>1. \A n \in 0 .. Len(lengths) : end[n] = IF n = 0 THEN 0 ELSE end[n - 1] + lengths[n]
    BY <1>7, Zenon
  <2>2. 0 \in 0 .. Len(lengths) /\ \A n \in 1 .. Len(lengths) : n \in 0 .. Len(lengths) /\ n # 0
    BY <1>1
  <2> QED
    BY <2>1, <2>2, Zenon
<1>9. \A n \in 0 .. Len(lengths) : end[n] \in Nat
  <2> DEFINE E == {i \in 0 .. Len(lengths) : end[i] \in Nat}
  <2>1. 0 \in E
    BY <1>1, <1>8
  <2>2. ASSUME NEW n \in 1 .. Len(lengths), n - 1 \in E PROVE n \in E
    <3>1. n \in 0 .. Len(lengths) /\ end[n - 1] \in Nat /\ lengths[n] \in Nat
      BY <1>1, <2>2
    <3>2. end[n] = end[n - 1] + lengths[n]
      BY <1>8
    <3> QED
      BY <3>1, <3>2
  <2> HIDE DEF E
  <2>3. \A n \in 0 .. Len(lengths) : n \in E
    BY <1>1, <2>1, <2>2, UpTo
  <2> QED
    BY <2>3 DEF E
<1>10. end \in [0 .. Len(lengths) -> Nat]
  BY <1>7, <1>9
<1>11. Bundles!Ends(lengths) = end
  BY <1>6 DEF Bundles!Ends
<1> QED
  BY <1>8, <1>10, <1>11

(* As far as the lengths agree, so do their ends. *)
LEMMA EndsAgree ==
  ASSUME NEW s \in Seq(Nat), NEW t \in Seq(Nat), NEW m \in Nat, m <= Len(s), m <= Len(t),
         \A n \in 1 .. m : s[n] = t[n]
  PROVE  Bundles!Ends(s)[m] = Bundles!Ends(t)[m]
<1> DEFINE e == Bundles!Ends(s)
           f == Bundles!Ends(t)
           E == {n \in 0 .. m : e[n] = f[n]}
<1>1. e[0] = f[0] /\ \A n \in 1 .. m : e[n] = e[n - 1] + s[n] /\ f[n] = f[n - 1] + t[n]
  <2>1. Len(s) \in Nat /\ Len(t) \in Nat
    OBVIOUS
  <2>2. \A n \in 1 .. m : n \in 1 .. Len(s) /\ n \in 1 .. Len(t)
    BY <2>1
  <2> QED
    BY <2>2, EndsSteps
<1> HIDE DEF e, f
<1>2. 0 \in E /\ \A n \in 1 .. m : n - 1 \in E => n \in E
  BY <1>1
<1> HIDE DEF E
<1>3. \A n \in 0 .. m : n \in E
  BY <1>2, UpTo
<1> QED
  BY <1>3 DEF e, f, E

-----------------------------------------------------------------------------
(* The members of a set, each once. *)
Lists(s, A) ==
  /\ \A i \in 1 .. Len(s) : s[i] \in A
  /\ \A a \in A : \E i \in 1 .. Len(s) : s[i] = a
  /\ \A i, j \in 1 .. Len(s) : s[i] = s[j] => i = j

LEMMA ListsOneMore ==
  ASSUME NEW T, NEW s \in Seq(T), NEW A, Lists(s, A), NEW x \in T, x \notin A
  PROVE  Lists(Append(s, x), A \cup {x})
<1> DEFINE t == Append(s, x)
<1>1. /\ Len(s) \in Nat /\ Len(t) = Len(s) + 1
      /\ \A i \in 1 .. Len(s) : t[i] = s[i]
      /\ t[Len(s) + 1] = x
  OBVIOUS
<1> HIDE DEF t
<1>2. \A i \in 1 .. Len(t) : i \in 1 .. Len(s) \/ i = Len(s) + 1
  BY <1>1
<1>3. \A i \in 1 .. Len(s) : i \in 1 .. Len(t) /\ s[i] \in A
  BY <1>1 DEF Lists
<1>4. Len(s) + 1 \in 1 .. Len(t)
  BY <1>1
<1>5. \A i \in 1 .. Len(t) : t[i] \in A \cup {x}
  BY <1>1, <1>2, <1>3
<1>6. \A a \in A \cup {x} : \E i \in 1 .. Len(t) : t[i] = a
  BY <1>1, <1>3, <1>4 DEF Lists
<1>7. ASSUME NEW i \in 1 .. Len(t), NEW j \in 1 .. Len(t), t[i] = t[j] PROVE i = j
  <2>1. CASE i \in 1 .. Len(s) /\ j \in 1 .. Len(s)
    BY <1>1, <1>7, <2>1 DEF Lists
  <2>2. CASE i \notin 1 .. Len(s) \/ j \notin 1 .. Len(s)
    BY <1>1, <1>2, <1>3, <1>7, <2>2
  <2> QED
    BY <2>1, <2>2
<1> QED
  BY <1>5, <1>6, <1>7 DEF Lists, t

(* What the loop over the mask has found when it comes to channel n. *)
Below(chans, n) == {c \in chans : c < n}

LEMMA BelowOneMore ==
  ASSUME NEW chans \in SUBSET Bundles!Channels
  PROVE  /\ \A c \in Below(chans, 0) : FALSE
         /\ Below(chans, 16) = chans
         /\ \A n \in 1 .. 16 : n - 1 \in chans =>
              Below(chans, n) = Below(chans, n - 1) \cup {n - 1}
         /\ \A n \in 1 .. 16 : n - 1 \notin chans => Below(chans, n) = Below(chans, n - 1)
         /\ \A n \in 1 .. 16 : n - 1 \notin Below(chans, n - 1)
<1>1. \A c \in chans : c \in 0 .. 15
  BY DEF Bundles!Channels
<1>2. \A c \in Below(chans, 0) : FALSE
  BY <1>1 DEF Below
<1>3. Below(chans, 16) = chans
  <2>1. \A c : c \in Below(chans, 16) <=> c \in chans
    BY <1>1 DEF Below
  <2> QED
    BY <2>1
<1>4. ASSUME NEW n \in 1 .. 16, n - 1 \in chans
      PROVE  Below(chans, n) = Below(chans, n - 1) \cup {n - 1}
  <2>1. \A c : c \in Below(chans, n) <=> c \in Below(chans, n - 1) \cup {n - 1}
    BY <1>1, <1>4 DEF Below
  <2> QED
    BY <2>1
<1>5. ASSUME NEW n \in 1 .. 16, n - 1 \notin chans
      PROVE  Below(chans, n) = Below(chans, n - 1)
  <2>1. \A c : c \in Below(chans, n) <=> c \in Below(chans, n - 1)
    BY <1>1, <1>5 DEF Below
  <2> QED
    BY <2>1
<1>6. \A n \in 1 .. 16 : n - 1 \notin Below(chans, n - 1)
  BY DEF Below
<1> QED
  BY <1>2, <1>3, <1>4, <1>5, <1>6

LEMMA AscendingLists ==
  ASSUME NEW chans \in SUBSET Bundles!Channels
  PROVE  /\ Bundles!Ascending(chans) \in Seq(Bundles!Channels)
         /\ Lists(Bundles!Ascending(chans), chans)
<1>1. PICK idxs :
           /\ \A n \in 0 .. 16 : idxs[n] \in Seq(Bundles!Channels)
           /\ idxs[0] = <<>> /\ Bundles!Ascending(chans) = idxs[16]
           /\ \A n \in 1 .. 16 :
                idxs[n] = IF n - 1 \in chans THEN Append(idxs[n - 1], n - 1) ELSE idxs[n - 1]
  BY AscendingSteps
<1> DEFINE E == {n \in 0 .. 16 : Lists(idxs[n], Below(chans, n))}
<1>2. 0 \in E
  <2>1. Len(idxs[0]) = 0
    BY <1>1
  <2>2. \A c \in Below(chans, 0) : FALSE
    BY BelowOneMore
  <2>3. Lists(idxs[0], Below(chans, 0))
    BY <2>1, <2>2 DEF Lists
  <2> QED
    BY <2>3
<1>3. ASSUME NEW n \in 1 .. 16, n - 1 \in E PROVE n \in E
  <2>1. Lists(idxs[n - 1], Below(chans, n - 1)) /\ idxs[n - 1] \in Seq(Bundles!Channels)
    <3>1. n - 1 \in 0 .. 16
      OBVIOUS
    <3> QED
      BY <1>1, <1>3, <3>1
  <2>2. n - 1 \in Bundles!Channels /\ n - 1 \notin Below(chans, n - 1)
    BY BelowOneMore DEF Bundles!Channels
  <2>3. CASE n - 1 \in chans
    <3>1. Below(chans, n) = Below(chans, n - 1) \cup {n - 1}
      BY <2>3, BelowOneMore
    <3>2. idxs[n] = Append(idxs[n - 1], n - 1)
      BY <1>1, <2>3
    <3>3. Lists(idxs[n], Below(chans, n))
      BY <2>1, <2>2, <3>1, <3>2, ListsOneMore
    <3> QED
      BY <3>3
  <2>4. CASE n - 1 \notin chans
    <3>1. Below(chans, n) = Below(chans, n - 1) /\ idxs[n] = idxs[n - 1]
      BY <1>1, <2>4, BelowOneMore
    <3> QED
      BY <2>1, <3>1
  <2> QED
    BY <2>3, <2>4
<1> HIDE DEF E
<1>4. \A n \in 0 .. 16 : n \in E
  BY <1>2, <1>3, UpTo
<1>5. Lists(idxs[16], Below(chans, 16))
  BY <1>4 DEF E
<1>6. Below(chans, 16) = chans
  BY BelowOneMore
<1>7. 16 \in 0 .. 16
  OBVIOUS
<1> QED
  BY <1>1, <1>5, <1>6, <1>7, Zenon

(* Payloads, and what a packet has of them. *)
LEMMA PayloadOf ==
  ASSUME NEW c \in Bundles!Channels
  PROVE  /\ PayloadLen[c] \in Nat /\ Bundles!Payload(c) \in Seq(Bundles!Channels)
         /\ Len(Bundles!Payload(c)) = PayloadLen[c]
         /\ \A b \in 1 .. PayloadLen[c] : Bundles!Payload(c)[b] = c
<1>1. PayloadLen[c] \in Nat
  BY BundleAssumption
<1> QED
  BY <1>1 DEF Bundles!Payload

LEMMA JoinedSteps ==
  ASSUME NEW sorted \in Seq(Bundles!Channels)
  PROVE  \E body :
           /\ \A n \in 0 .. Len(sorted) : body[n] \in Seq(Bundles!Channels)
           /\ body[0] = <<>> /\ Bundles!Joined(sorted) = body[Len(sorted)]
           /\ \A n \in 1 .. Len(sorted) : body[n] = body[n - 1] \o Bundles!Payload(sorted[n])
<1> DEFINE S    == Seq(Bundles!Channels)
           k    == Len(sorted)
           step == [n \in 1 .. k |-> [s \in S |-> s \o Bundles!Payload(sorted[n])]]
<1>1. <<>> \in S /\ k \in Nat /\ \A n \in 1 .. k : sorted[n] \in Bundles!Channels
  OBVIOUS
<1>2. ASSUME NEW n \in 1 .. k, NEW s \in S
      PROVE  s \o Bundles!Payload(sorted[n]) \in S
  BY <1>1, PayloadOf
<1>3. ASSUME NEW n \in 1 .. k, NEW s \in S
      PROVE  step[n][s] = s \o Bundles!Payload(sorted[n]) /\ step[n][s] \in S
  BY <1>2
<1> HIDE DEF S, step, k
<1>4. PICK f \in [0 .. k -> S] : Follows(f, <<>>, k, step)
  <2>1. Stays(S, k, step)
    BY <1>3 DEF Stays
  <2> QED
    BY <1>1, <2>1, Recursion
<1>5. ASSUME NEW n \in 1 .. k PROVE f[n] = f[n - 1] \o Bundles!Payload(sorted[n])
  <2>1. n - 1 \in 0 .. k
    BY <1>1
  <2>2. f[n - 1] \in S
    BY <1>4, <2>1
  <2>3. f[n] = step[n][f[n - 1]]
    BY <1>4 DEF Follows
  <2> QED
    BY <1>3, <2>2, <2>3
<1>6. /\ \A n \in 0 .. k : n = 0 \/ (n \in 1 .. k /\ n # 0)
      /\ 0 \in 0 .. k /\ \A n \in 1 .. k : n \in 0 .. k /\ n # 0
  BY <1>1
<1>7. f = [n \in 0 .. k |-> IF n = 0 THEN <<>> ELSE f[n - 1] \o Bundles!Payload(sorted[n])]
  <2>1. f = [n \in 0 .. k |-> f[n]]
    BY <1>4
  <2>2. \A n \in 0 .. k : f[n] = IF n = 0 THEN <<>> ELSE f[n - 1] \o Bundles!Payload(sorted[n])
    <3>1. f[0] = <<>>
      BY <1>4 DEF Follows
    <3> QED
      BY <1>5, <1>6, <3>1, Zenon
  <2> QED
    BY <2>1, <2>2
<1>8. PICK body : body = CHOOSE any :
        any = [n \in 0 .. k |->
                 IF n = 0 THEN <<>> ELSE any[n - 1] \o Bundles!Payload(sorted[n])]
  OBVIOUS
<1>9. body = [n \in 0 .. k |->
                IF n = 0 THEN <<>> ELSE body[n - 1] \o Bundles!Payload(sorted[n])]
  BY <1>7, <1>8
<1>10. /\ body[0] = <<>>
       /\ \A n \in 1 .. k : body[n] = body[n - 1] \o Bundles!Payload(sorted[n])
  <2>1. \A n \in 0 .. k :
          body[n] = IF n = 0 THEN <<>> ELSE body[n - 1] \o Bundles!Payload(sorted[n])
    BY <1>9, Zenon
  <2> QED
    BY <1>6, <2>1, Zenon
<1>11. \A n \in 0 .. k : body[n] \in S
  <2> DEFINE E == {i \in 0 .. k : body[i] \in S}
  <2>1. 0 \in E
    BY <1>1, <1>10
  <2>2. ASSUME NEW n \in 1 .. k, n - 1 \in E PROVE n \in E
    <3>1. body[n - 1] \in S
      BY <2>2
    <3>2. body[n] \in S
      BY <1>2, <1>10, <3>1
    <3> QED
      BY <3>2
  <2> HIDE DEF E
  <2>3. \A n \in 0 .. k : n \in E
    BY <1>1, <2>1, <2>2, UpTo
  <2> QED
    BY <2>3 DEF E
<1>12. Bundles!Joined(sorted) = body[k]
  BY <1>8 DEF Bundles!Joined, k
<1> QED
  BY <1>10, <1>11, <1>12 DEF S, k

(* The bytes of each payload are where the lengths before it end. *)
LengthsOf(sorted) == [n \in 1 .. Len(sorted) |-> PayloadLen[sorted[n]]]

LEMMA LengthsTyped ==
  ASSUME NEW sorted \in Seq(Bundles!Channels)
  PROVE  /\ LengthsOf(sorted) \in Seq(Nat) /\ Len(LengthsOf(sorted)) = Len(sorted)
         /\ \A n \in 1 .. Len(sorted) :
              sorted[n] \in Bundles!Channels /\ LengthsOf(sorted)[n] = PayloadLen[sorted[n]]
<1>1. Len(sorted) \in Nat /\ \A n \in 1 .. Len(sorted) : sorted[n] \in Bundles!Channels
  OBVIOUS
<1>2. \A n \in 1 .. Len(sorted) : PayloadLen[sorted[n]] \in Nat
  BY <1>1, PayloadOf
<1> QED
  BY <1>1, <1>2 DEF LengthsOf

LEMMA ConcatOf ==
  ASSUME NEW T, NEW s \in Seq(T), NEW p \in Seq(T)
  PROVE  /\ s \o p \in Seq(T) /\ Len(s) \in Nat /\ Len(p) \in Nat
         /\ Len(s \o p) = Len(s) + Len(p)
         /\ \A x \in 1 .. Len(s) : x \in 1 .. Len(s \o p) /\ (s \o p)[x] = s[x]
         /\ \A b \in 1 .. Len(p) :
              Len(s) + b \in 1 .. Len(s \o p) /\ (s \o p)[Len(s) + b] = p[b]
OBVIOUS

LEMMA JoinedHolds ==
  ASSUME NEW sorted \in Seq(Bundles!Channels)
  PROVE  LET end == Bundles!Ends(LengthsOf(sorted))
         IN /\ Bundles!Joined(sorted) \in Seq(Bundles!Channels)
            /\ Len(Bundles!Joined(sorted)) = end[Len(sorted)]
            /\ \A i \in 1 .. Len(sorted) : \A b \in 1 .. PayloadLen[sorted[i]] :
                 /\ end[i - 1] + b \in 1 .. Len(Bundles!Joined(sorted))
                 /\ Bundles!Joined(sorted)[end[i - 1] + b] = sorted[i]
<1> DEFINE end == Bundles!Ends(LengthsOf(sorted))
           k   == Len(sorted)
<1>1. PICK body :
           /\ \A n \in 0 .. k : body[n] \in Seq(Bundles!Channels)
           /\ body[0] = <<>> /\ Bundles!Joined(sorted) = body[k]
           /\ \A n \in 1 .. k : body[n] = body[n - 1] \o Bundles!Payload(sorted[n])
  BY JoinedSteps
<1>2. /\ k \in Nat /\ \A n \in 1 .. k : sorted[n] \in Bundles!Channels
  OBVIOUS
<1>3. /\ end[0] = 0 /\ \A n \in 0 .. k : end[n] \in Nat
      /\ \A n \in 1 .. k : end[n] = end[n - 1] + PayloadLen[sorted[n]]
  <2> DEFINE lengths == LengthsOf(sorted)
  <2>1. /\ lengths \in Seq(Nat) /\ Len(lengths) = k
        /\ \A n \in 1 .. k : lengths[n] = PayloadLen[sorted[n]]
    BY LengthsTyped
  <2> HIDE DEF lengths
  <2>2. /\ Bundles!Ends(lengths) \in [0 .. k -> Nat]
        /\ Bundles!Ends(lengths)[0] = 0
        /\ \A n \in 1 .. k :
             Bundles!Ends(lengths)[n] = Bundles!Ends(lengths)[n - 1] + lengths[n]
    BY <2>1, EndsSteps
  <2> QED
    BY <2>1, <2>2 DEF lengths
<1> HIDE DEF end, k
<1> DEFINE Good(s, n) ==
             /\ Len(s) = end[n]
             /\ \A i \in 1 .. n : \A b \in 1 .. PayloadLen[sorted[i]] :
                  end[i - 1] + b \in 1 .. Len(s) /\ s[end[i - 1] + b] = sorted[i]
           E == {n \in 0 .. k : Good(body[n], n)}
<1>4. 0 \in E
  BY <1>1, <1>2, <1>3
<1>5. ASSUME NEW n \in 1 .. k, n - 1 \in E PROVE n \in E
  <2> DEFINE s == body[n - 1]
             p == Bundles!Payload(sorted[n])
             t == s \o p
  <2>1. Good(s, n - 1) /\ s \in Seq(Bundles!Channels) /\ body[n] = t
    <3>1. n - 1 \in 0 .. k
      BY <1>2
    <3> QED
      BY <1>1, <1>5, <3>1
  <2>2. /\ p \in Seq(Bundles!Channels) /\ Len(p) = PayloadLen[sorted[n]] /\ Len(p) \in Nat
        /\ \A b \in 1 .. PayloadLen[sorted[n]] : p[b] = sorted[n]
    BY <1>2, PayloadOf
  <2> HIDE DEF s, p
  <2>3. s \in Seq(Bundles!Channels) /\ p \in Seq(Bundles!Channels)
    BY <2>1, <2>2
  <2>4. Len(s) \in Nat /\ Len(t) = Len(s) + Len(p)
    BY <2>3, ConcatOf
  <2>5. /\ \A x \in 1 .. Len(s) : x \in 1 .. Len(t) /\ t[x] = s[x]
        /\ \A b \in 1 .. Len(p) : Len(s) + b \in 1 .. Len(t) /\ t[Len(s) + b] = p[b]
    BY <2>3, ConcatOf
  <2> HIDE DEF t
  <2>6. Len(t) = end[n]
    BY <1>3, <2>1, <2>2, <2>4
  <2>7. ASSUME NEW i \in 1 .. n, NEW b \in 1 .. PayloadLen[sorted[i]]
        PROVE  end[i - 1] + b \in 1 .. Len(t) /\ t[end[i - 1] + b] = sorted[i]
    <3>1. CASE i = n
      <4>1. end[i - 1] = Len(s) /\ b \in 1 .. Len(p)
        BY <2>1, <2>2, <3>1
      <4>2. Len(s) + b \in 1 .. Len(t) /\ t[Len(s) + b] = sorted[n]
        BY <2>2, <2>5, <4>1
      <4> QED
        BY <3>1, <4>1, <4>2
    <3>2. CASE i # n
      <4>1. i \in 1 .. n - 1
        BY <1>2, <3>2
      <4>2. end[i - 1] + b \in 1 .. Len(s) /\ s[end[i - 1] + b] = sorted[i]
        BY <2>1, <4>1
      <4> QED
        BY <2>5, <4>2
    <3> QED
      BY <3>1, <3>2
  <2> QED
    BY <2>1, <2>6, <2>7
<1> HIDE DEF E
<1>6. \A n \in 0 .. k : n \in E
  BY <1>2, <1>4, <1>5, UpTo
<1>7. k \in 0 .. k
  BY <1>2
<1>8. Good(body[k], k)
  BY <1>6, <1>7 DEF E
<1> QED
  BY <1>1, <1>7, <1>8 DEF end, k

(* What the parser makes of the header: the lengths of all the payloads, the*)
(* last one as what is left.                                                *)
LEMMA HeaderSound ==
  ASSUME NEW chans \in SUBSET Bundles!Channels, chans # {}
  PROVE  LET pkt    == Bundles!MarshalBundle(chans)
             sorted == Bundles!Ascending(chans)
         IN /\ Bundles!Lengths(pkt) = LengthsOf(sorted)
            /\ ~(Bundles!Total(pkt.lengths) > Len(pkt.body))
<1> DEFINE pkt    == Bundles!MarshalBundle(chans)
           sorted == Bundles!Ascending(chans)
           k      == Len(sorted)
           head   == [n \in 1 .. k - 1 |-> Len(Bundles!Payload(sorted[n]))]
           end    == Bundles!Ends(LengthsOf(sorted))
<1>1. sorted \in Seq(Bundles!Channels) /\ Lists(sorted, chans)
  BY AscendingLists
<1>2. pkt.lengths = head /\ pkt.body = Bundles!Joined(sorted)
  BY DEF Bundles!MarshalBundle
<1> HIDE DEF sorted, pkt
<1>3. k \in Nat \ {0}
  BY <1>1 DEF Lists
<1>4. /\ LengthsOf(sorted) \in Seq(Nat) /\ Len(LengthsOf(sorted)) = k
      /\ \A n \in 1 .. k :
           sorted[n] \in Bundles!Channels /\ LengthsOf(sorted)[n] = PayloadLen[sorted[n]]
  BY <1>1, LengthsTyped
<1>5. /\ head \in Seq(Nat) /\ Len(head) = k - 1
      /\ \A n \in 1 .. k - 1 : head[n] = LengthsOf(sorted)[n]
  <2>1. ASSUME NEW n \in 1 .. k - 1
        PROVE  Len(Bundles!Payload(sorted[n])) = LengthsOf(sorted)[n]
               /\ LengthsOf(sorted)[n] \in Nat
    <3>1. n \in 1 .. k
      BY <1>3
    <3>2. sorted[n] \in Bundles!Channels /\ LengthsOf(sorted)[n] = PayloadLen[sorted[n]]
      BY <1>4, <3>1
    <3> QED
      BY <3>2, PayloadOf
  <2>2. k - 1 \in Nat
    BY <1>3
  <2> QED
    BY <2>1, <2>2
<1> HIDE DEF head
<1>6. Bundles!Ends(head)[k - 1] = end[k - 1]
  <2>1. k - 1 \in Nat /\ k - 1 <= Len(head) /\ k - 1 <= k
    BY <1>3, <1>5
  <2> QED
    BY <1>4, <1>5, <2>1, EndsAgree
<1>7. Bundles!Total(head) = end[k - 1]
  BY <1>5, <1>6 DEF Bundles!Total
<1>8. end[k] = end[k - 1] + LengthsOf(sorted)[k] /\ end[k - 1] \in Nat
      /\ LengthsOf(sorted)[k] \in Nat
  <2>1. k - 1 \in 0 .. k /\ k \in 1 .. k
    BY <1>3
  <2> DEFINE lengths == LengthsOf(sorted)
  <2>2. lengths \in Seq(Nat) /\ Len(lengths) = k /\ lengths[k] \in Nat
    BY <1>4, <2>1
  <2> HIDE DEF lengths
  <2>3. /\ Bundles!Ends(lengths)[k] = Bundles!Ends(lengths)[k - 1] + lengths[k]
        /\ Bundles!Ends(lengths)[k - 1] \in Nat
    BY <2>1, <2>2, EndsSteps
  <2> QED
    BY <2>2, <2>3 DEF lengths
<1>9. Len(pkt.body) = end[k]
  BY <1>1, <1>2, JoinedHolds
<1>10. Bundles!Lengths(pkt) = Append(head, LengthsOf(sorted)[k])
  <2>1. Len(pkt.body) - Bundles!Total(pkt.lengths) = LengthsOf(sorted)[k]
    BY <1>2, <1>7, <1>8, <1>9
  <2> QED
    BY <1>2, <2>1 DEF Bundles!Lengths
<1>11. Append(head, LengthsOf(sorted)[k]) = LengthsOf(sorted)
  <2> DEFINE t == Append(head, LengthsOf(sorted)[k])
  <2>1. /\ t \in Seq(Nat) /\ Len(t) = k
        /\ \A i \in 1 .. k : t[i] = LengthsOf(sorted)[i]
    BY <1>3, <1>5, <1>8
  <2> HIDE DEF t
  <2>2. t = LengthsOf(sorted)
    BY <1>4, <2>1, SeqEqual
  <2> QED
    BY <2>2 DEF t
<1> QED
  BY <1>2, <1>7, <1>8, <1>9, <1>10, <1>11 DEF pkt, sorted

(* The wire format loses nothing: parsing what was marshalled gives every   *)
(* channel its payload, whatever the channels and whatever the payloads     *)
(* weigh, empty ones included.  (bundle.go:68-162)                          *)
THEOREM ParsesBack ==
  ASSUME NEW chans \in SUBSET Bundles!Channels, chans # {}
  PROVE  Bundles!ParseBundle(Bundles!MarshalBundle(chans)) = [c \in chans |-> Bundles!Payload(c)]
<1> DEFINE pkt    == Bundles!MarshalBundle(chans)
           sorted == Bundles!Ascending(chans)
           end    == Bundles!Ends(LengthsOf(sorted))
           Nth(c) == CHOOSE n \in DOMAIN sorted : sorted[n] = c
<1>1. sorted \in Seq(Bundles!Channels) /\ Lists(sorted, chans)
  BY AscendingLists
<1>2. pkt.mask = chans /\ pkt.body = Bundles!Joined(sorted)
  BY DEF Bundles!MarshalBundle
<1>3. Bundles!Lengths(pkt) = LengthsOf(sorted) /\ ~(Bundles!Total(pkt.lengths) > Len(pkt.body))
  BY HeaderSound
<1> HIDE DEF pkt
<1>4. Bundles!ParseBundle(pkt) = [c \in chans |-> SubSeq(pkt.body, end[Nth(c) - 1] + 1, end[Nth(c)])]
  BY <1>2, <1>3 DEF Bundles!ParseBundle
<1> HIDE DEF sorted
<1>5. ASSUME NEW c \in chans
      PROVE  SubSeq(pkt.body, end[Nth(c) - 1] + 1, end[Nth(c)]) = Bundles!Payload(c)
  <2>1. PICK n : n = Nth(c)
    OBVIOUS
  <2>2. DOMAIN sorted = 1 .. Len(sorted) /\ Len(sorted) \in Nat
    BY <1>1
  <2>3. n \in 1 .. Len(sorted) /\ sorted[n] = c
    BY <1>1, <2>1, <2>2 DEF Lists
  <2>4. /\ end[n] = end[n - 1] + PayloadLen[c] /\ end[n - 1] \in Nat /\ end[n] \in Nat
    <3>1. /\ LengthsOf(sorted) \in Seq(Nat) /\ Len(LengthsOf(sorted)) = Len(sorted)
          /\ LengthsOf(sorted)[n] = PayloadLen[c]
      BY <1>1, <2>3, LengthsTyped
    <3>2. n - 1 \in 0 .. Len(sorted) /\ n \in 0 .. Len(sorted)
      BY <2>2, <2>3
    <3> DEFINE lengths == LengthsOf(sorted)
    <3>3. lengths \in Seq(Nat) /\ Len(lengths) = Len(sorted) /\ lengths[n] = PayloadLen[c]
      BY <3>1
    <3> HIDE DEF lengths
    <3>4. /\ Bundles!Ends(lengths)[n] = Bundles!Ends(lengths)[n - 1] + lengths[n]
          /\ Bundles!Ends(lengths)[n - 1] \in Nat /\ Bundles!Ends(lengths)[n] \in Nat
      BY <2>3, <3>2, <3>3, EndsSteps
    <3> QED
      BY <3>3, <3>4 DEF lengths
  <2> HIDE DEF end
  <2>5. /\ pkt.body \in Seq(Bundles!Channels)
        /\ \A b \in 1 .. PayloadLen[c] :
             end[n - 1] + b \in 1 .. Len(pkt.body) /\ pkt.body[end[n - 1] + b] = c
    BY <1>1, <1>2, <2>3, JoinedHolds DEF end
  <2> DEFINE s == SubSeq(pkt.body, end[n - 1] + 1, end[n])
             t == Bundles!Payload(c)
  <2>6. /\ c \in Bundles!Channels /\ PayloadLen[c] \in Nat
        /\ t \in Seq(Bundles!Channels) /\ Len(t) = PayloadLen[c]
        /\ \A b \in 1 .. PayloadLen[c] : t[b] = c
    BY PayloadOf
  <2>7. /\ s \in Seq(Bundles!Channels) /\ Len(s) = PayloadLen[c]
        /\ \A b \in 1 .. PayloadLen[c] : s[b] = c
    <3>1. \A x \in end[n - 1] + 1 .. end[n] : pkt.body[x] \in Bundles!Channels
      <4>1. ASSUME NEW x \in end[n - 1] + 1 .. end[n] PROVE pkt.body[x] = c
        <5>1. x - end[n - 1] \in 1 .. PayloadLen[c] /\ end[n - 1] + (x - end[n - 1]) = x
          BY <2>4, <2>6
        <5> QED
          BY <2>5, <5>1
      <4> QED
        BY <2>6, <4>1
    <3>2. /\ s \in Seq(Bundles!Channels)
          /\ Len(s) = IF end[n - 1] + 1 <= end[n] THEN end[n] - (end[n - 1] + 1) + 1 ELSE 0
          /\ \A b \in 1 .. end[n] - (end[n - 1] + 1) + 1 :
               s[b] = pkt.body[(end[n - 1] + 1) + b - 1]
      BY <2>4, <3>1, SubSeqProperties
    <3> HIDE DEF s
    <3>3. Len(s) = PayloadLen[c]
      BY <2>4, <2>6, <3>2
    <3>4. ASSUME NEW b \in 1 .. PayloadLen[c] PROVE s[b] = c
      <4>1. b \in 1 .. end[n] - (end[n - 1] + 1) + 1
            /\ (end[n - 1] + 1) + b - 1 = end[n - 1] + b
        BY <2>4, <2>6
      <4> QED
        BY <2>5, <3>2, <4>1
    <3> QED
      BY <3>2, <3>3, <3>4
  <2> HIDE DEF s, t
  <2>8. s = t
    BY <2>6, <2>7, SeqEqual
  <2> QED
    BY <2>1, <2>8 DEF s, t
<1> HIDE DEF end
<1>6. Bundles!ParseBundle(pkt) = [c \in chans |-> Bundles!Payload(c)]
  BY <1>4, <1>5
<1> QED
  BY <1>6 DEF pkt

-----------------------------------------------------------------------------
(* The layout *)

(* Cut into runs of at most m, nothing of a sequence is left over and       *)
(* nothing comes in.                                                        *)
LEMMA ChunkCovers ==
  ASSUME NEW T, NEW s \in Seq(T), NEW m \in Nat \ {0}
  PROVE  LET runs == Bundles!Chunk(s, m)
         IN /\ runs \in Seq(Seq(T))
            /\ \A g \in 1 .. Len(runs) :
                 Len(runs[g]) <= m /\ Bundles!Range(runs[g]) \subseteq Bundles!Range(s)
            /\ \A i \in 1 .. Len(s) : \E g \in 1 .. Len(runs) : s[i] \in Bundles!Range(runs[g])
<1> DEFINE runs   == Bundles!Chunk(s, m)
           k      == Len(s)
           N      == (k + m - 1) \div m
           first(g) == (g - 1) * m + 1
           last(g)  == IF g * m < k THEN g * m ELSE k
           run(g) == SubSeq(s, first(g), last(g))
<1>1. k \in Nat /\ DOMAIN s = 1 .. k /\ \A i \in 1 .. k : s[i] \in T
  OBVIOUS
<1>2. /\ N \in Nat /\ k + m - 1 = m * N + ((k + m - 1) % m)
      /\ (k + m - 1) % m \in 0 .. m - 1
  <2>1. k + m - 1 \in Nat
    BY <1>1
  <2>2. /\ k + m - 1 = m * N + ((k + m - 1) % m) /\ (k + m - 1) % m \in 0 .. m - 1
        /\ N \in Int
    <3>1. PICK x \in Int : x = k + m - 1
      BY <2>1
    <3>2. x = m * (x \div m) + (x % m) /\ x % m \in 0 .. m - 1 /\ x \div m \in Int
      BY DivisionRemainder
    <3> QED
      BY <3>1, <3>2
  <2> HIDE DEF N
  <2>3. m * (N + 1) > 0
    BY <2>1, <2>2
  <2>4. N + 1 > 0
    BY <2>2, <2>3
  <2> QED
    BY <2>2, <2>4
<1>3. ASSUME NEW g \in 1 .. N
      PROVE  first(g) \in Nat \ {0} /\ last(g) \in 0 .. k /\ last(g) - first(g) < m
  <2>1. (g - 1) * m \in Nat /\ g * m \in Nat /\ (g - 1) * m + m = g * m
    BY <1>2
  <2>2. PICK x \in Nat, y \in Nat : x = (g - 1) * m /\ y = g * m
    BY <2>1
  <2>3. x + m = y
    BY <2>1, <2>2
  <2>4. PICK n \in Nat : n = k
    BY <1>1
  <2>5. PICK z \in 0 .. n : z <= y /\ z = IF y < n THEN y ELSE n
    OBVIOUS
  <2>6. x + 1 \in Nat \ {0} /\ z - (x + 1) < m
    BY <2>3, <2>5
  <2>7. first(g) = x + 1 /\ last(g) = z /\ z \in 0 .. k
    BY <2>2, <2>4, <2>5
  <2> QED
    BY <2>6, <2>7, Zenon
<1> HIDE DEF first, last
<1>4. ASSUME NEW g \in 1 .. N
      PROVE  /\ run(g) \in Seq(T) /\ Len(run(g)) <= m
             /\ \A j \in 1 .. Len(run(g)) : run(g)[j] \in Bundles!Range(s)
             /\ \A i \in first(g) .. last(g) : s[i] \in Bundles!Range(run(g))
  <2>1. PICK a \in Nat \ {0}, b \in 0 .. k : a = first(g) /\ b = last(g) /\ b - a < m
    BY <1>3
  <2>2. a \in Int /\ b \in Int /\ \A i \in a .. b : i \in 1 .. k
    BY <1>1
  <2> DEFINE r == SubSeq(s, a, b)
  <2>3. /\ r \in Seq(T) /\ Len(r) = IF a <= b THEN b - a + 1 ELSE 0
        /\ \A j \in 1 .. b - a + 1 : r[j] = s[a + j - 1]
    BY <1>1, <2>2, SubSeqProperties
  <2>4. DOMAIN r = 1 .. Len(r) /\ Len(r) \in Nat
    BY <2>3
  <2> HIDE DEF r
  <2>5. Len(r) <= m
    BY <1>1, <2>1, <2>3
  <2>6. ASSUME NEW j \in 1 .. Len(r) PROVE r[j] \in Bundles!Range(s)
    <3>1. a + j - 1 \in 1 .. k /\ r[j] = s[a + j - 1]
      BY <1>1, <2>3
    <3> QED
      BY <1>1, <3>1 DEF Bundles!Range
  <2>7. ASSUME NEW i \in a .. b PROVE s[i] \in Bundles!Range(r)
    <3>1. i - a + 1 \in 1 .. Len(r) /\ a + (i - a + 1) - 1 = i /\ i - a + 1 \in 1 .. b - a + 1
      BY <1>1, <2>3
    <3>2. r[i - a + 1] = s[i]
      BY <2>3, <3>1
    <3> QED
      BY <2>4, <3>1, <3>2 DEF Bundles!Range
  <2> QED
    BY <2>1, <2>3, <2>6, <2>7, <2>5 DEF r
<1>5. runs = [g \in 1 .. N |-> run(g)]
  BY DEF Bundles!Chunk, first, last
<1> HIDE DEF run
<1>6. /\ runs \in Seq(Seq(T)) /\ Len(runs) = N
      /\ \A g \in 1 .. N : runs[g] = run(g) /\ run(g) \in Seq(T)
  <2>1. \A g \in 1 .. N : run(g) \in Seq(T)
    BY <1>4
  <2> HIDE DEF N, runs
  <2> QED
    BY <1>2, <1>5, <2>1
<1>7. ASSUME NEW g \in 1 .. N
      PROVE  Len(runs[g]) <= m /\ Bundles!Range(runs[g]) \subseteq Bundles!Range(s)
  <2>1. PICK r \in Seq(T) : r = run(g)
    BY <1>6
  <2>2. DOMAIN r = 1 .. Len(r)
    OBVIOUS
  <2>3. \A j \in DOMAIN r : r[j] \in Bundles!Range(s)
    BY <1>4, <2>1, <2>2
  <2>4. runs[g] = r /\ Len(r) <= m
    BY <1>4, <1>6, <2>1
  <2> QED
    BY <2>3, <2>4 DEF Bundles!Range
<1>8. ASSUME NEW i \in 1 .. k PROVE \E g \in 1 .. N : s[i] \in Bundles!Range(runs[g])
  <2> DEFINE q == (i - 1) \div m
  <2>1. i - 1 \in Nat /\ i \in Nat /\ i <= k
    BY <1>1
  <2>2. i - 1 = m * q + ((i - 1) % m) /\ (i - 1) % m \in 0 .. m - 1 /\ q \in Int
    <3>1. PICK x \in Int : x = i - 1
      BY <2>1
    <3>2. x = m * (x \div m) + (x % m) /\ x % m \in 0 .. m - 1 /\ x \div m \in Int
      BY DivisionRemainder
    <3> QED
      BY <3>1, <3>2
  <2> HIDE DEF q, N
  <2>3. m * (q + 1) > 0
    BY <2>1, <2>2
  <2>4. q + 1 > 0
    BY <2>2, <2>3
  <2>5. q \in Nat /\ m * q <= i - 1 /\ i <= m * (q + 1)
    BY <2>1, <2>2, <2>4
  <2>6. m * (q + 1) < m * (N + 1)
    BY <1>1, <1>2, <2>1, <2>5
  <2>7. q + 1 < N + 1
    BY <1>2, <2>5, <2>6
  <2>8. q + 1 \in 1 .. N
    BY <1>2, <2>5, <2>7
  <2>9. i \in first(q + 1) .. last(q + 1)
    <3>1. (q + 1 - 1) * m = m * q /\ (q + 1) * m = m * (q + 1)
      BY <2>5
    <3> QED
      BY <1>1, <2>1, <2>5, <3>1 DEF first, last
  <2>10. s[i] \in Bundles!Range(run(q + 1))
    BY <1>4, <2>8, <2>9
  <2> QED
    BY <1>6, <2>8, <2>10
<1> QED
  BY <1>6, <1>7, <1>8

(* A packet has room for one channel at least. *)
LEMMA PacketTakesSome ==
  ASSUME NEW size \in Nat
  PROVE  Bundles!MaxChannelsPerPacket(size) \in Nat \ {0}
<1>1. ASSUME NEW v \in Int, NEW lo \in Nat \ {0}, NEW hi \in Nat \ {0}
      PROVE  Bundles!Clamp(v, lo, hi) \in Nat \ {0}
  BY DEF Bundles!Clamp
<1>2. Bundles!PayloadBytes(Bundles!BitRate, size) \in Int
  BY DEF Bundles!PayloadBytes, Bundles!BitRate, Bundles!SampleRate
<1> DEFINE ref == Bundles!Clamp(Bundles!PayloadBytes(Bundles!BitRate, size), 1, Bundles!MTUChannelBudget)
<1>3. ref \in Nat \ {0}
  BY <1>1, <1>2 DEF Bundles!MTUChannelBudget
<1> HIDE DEF ref
<1>4. Bundles!MTUChannelBudget \div ref \in Int
  BY <1>3 DEF Bundles!MTUChannelBudget
<1>5. Bundles!Clamp(Bundles!MTUChannelBudget \div ref, 1, 16) \in Nat \ {0}
  BY <1>1, <1>4
<1> QED
  BY <1>5 DEF Bundles!MaxChannelsPerPacket, ref

LEMMA OrdersAre ==
  /\ Bundles!Base \in Seq(Bundles!Channels) /\ Bundles!Order2 \in Seq(Bundles!Channels)
  /\ Bundles!Order3 \in Seq(Bundles!Channels)
  /\ Bundles!Range(Bundles!Base) = 0 .. 3
  /\ Bundles!Range(Bundles!Order2) = 4 .. 8
  /\ Bundles!Range(Bundles!Order3) = 9 .. 15
BY DEF Bundles!Base, Bundles!Order2, Bundles!Order3, Bundles!Range, Bundles!Channels

(* A group carries channels of one of the two higher orders at most, every  *)
(* channel has a group and the base has two.                                *)
OneOrderOnly(chans) == chans \subseteq 0 .. 8 \/ chans \subseteq (0 .. 3) \cup (9 .. 15)

PlanSound(plan) ==
  /\ plan \in Seq(Seq(Bundles!Channels))
  /\ \A g \in 1 .. Len(plan) : OneOrderOnly(Bundles!Range(plan[g]))
  /\ \A c \in Bundles!Channels : \E g \in 1 .. Len(plan) : c \in Bundles!Range(plan[g])
  /\ \A c \in 0 .. 3 : \E g, h \in 1 .. Len(plan) :
       g # h /\ c \in Bundles!Range(plan[g]) /\ c \in Bundles!Range(plan[h])

(* The groups of one order. *)
LEMMA OrderCut ==
  ASSUME NEW s \in Seq(Bundles!Channels), NEW m \in Nat \ {0}, NEW A, Bundles!Range(s) = A
  PROVE  LET runs == Bundles!Chunk(s, m)
         IN /\ runs \in Seq(Seq(Bundles!Channels)) /\ Len(runs) \in Nat
            /\ \A g \in 1 .. Len(runs) :
                 Len(runs[g]) <= m /\ Bundles!Range(runs[g]) \subseteq A
            /\ \A c \in A : \E g \in 1 .. Len(runs) : c \in Bundles!Range(runs[g])
<1> DEFINE runs == Bundles!Chunk(s, m)
<1>1. /\ runs \in Seq(Seq(Bundles!Channels))
      /\ \A g \in 1 .. Len(runs) : Len(runs[g]) <= m /\ Bundles!Range(runs[g]) \subseteq A
      /\ \A i \in 1 .. Len(s) : \E g \in 1 .. Len(runs) : s[i] \in Bundles!Range(runs[g])
  BY ChunkCovers
<1> HIDE DEF runs
<1>2. DOMAIN s = 1 .. Len(s)
  OBVIOUS
<1>3. \A c \in A : \E i \in 1 .. Len(s) : s[i] = c
  BY <1>2 DEF Bundles!Range
<1>4. ASSUME NEW c \in A PROVE \E g \in 1 .. Len(runs) : c \in Bundles!Range(runs[g])
  <2>1. PICK i \in 1 .. Len(s) : s[i] = c
    BY <1>3
  <2>2. PICK g \in 1 .. Len(runs) : s[i] \in Bundles!Range(runs[g])
    BY <1>1
  <2> QED
    BY <2>1, <2>2
<1>5. Len(runs) \in Nat
  BY <1>1
<1> QED
  BY <1>1, <1>4, <1>5 DEF runs

(* Four sequences, one after the other. *)
InRow(all, s1, s2, s3, s4) ==
  /\ Len(all) = Len(s1) + Len(s2) + Len(s3) + Len(s4)
  /\ \A x \in 1 .. Len(s1) : all[x] = s1[x]
  /\ \A x \in 1 .. Len(s2) : all[Len(s1) + x] = s2[x]
  /\ \A x \in 1 .. Len(s3) : all[Len(s1) + Len(s2) + x] = s3[x]
  /\ \A x \in 1 .. Len(s4) : all[Len(s1) + Len(s2) + Len(s3) + x] = s4[x]

LEMMA FourInRow ==
  ASSUME NEW T, NEW s1 \in Seq(T), NEW s2 \in Seq(T), NEW s3 \in Seq(T), NEW s4 \in Seq(T)
  PROVE  /\ s1 \o s2 \o s3 \o s4 \in Seq(T)
         /\ InRow(s1 \o s2 \o s3 \o s4, s1, s2, s3, s4)
<1> DEFINE a == s1 \o s2
           b == a \o s3
           c == b \o s4
<1>1. Len(s1) \in Nat /\ Len(s2) \in Nat /\ Len(s3) \in Nat /\ Len(s4) \in Nat
  OBVIOUS
<1>2. /\ a \in Seq(T) /\ Len(a) = Len(s1) + Len(s2)
      /\ \A x \in 1 .. Len(s1) : a[x] = s1[x]
      /\ \A x \in 1 .. Len(s2) : a[Len(s1) + x] = s2[x]
  OBVIOUS
<1> HIDE DEF a
<1>3. /\ b \in Seq(T) /\ Len(b) = Len(a) + Len(s3)
      /\ \A x \in 1 .. Len(a) : b[x] = a[x]
      /\ \A x \in 1 .. Len(s3) : b[Len(a) + x] = s3[x]
  <2>1. a \in Seq(T)
    BY <1>2
  <2> QED
    BY <2>1
<1> HIDE DEF b
<1>4. /\ c \in Seq(T) /\ Len(c) = Len(b) + Len(s4)
      /\ \A x \in 1 .. Len(b) : c[x] = b[x]
      /\ \A x \in 1 .. Len(s4) : c[Len(b) + x] = s4[x]
  <2>1. b \in Seq(T)
    BY <1>3
  <2> QED
    BY <2>1
<1> HIDE DEF c
<1>5. \A x \in 1 .. Len(s1) : x \in 1 .. Len(a) /\ x \in 1 .. Len(b)
  BY <1>1, <1>2, <1>3
<1>6. \A x \in 1 .. Len(s2) : Len(s1) + x \in 1 .. Len(a) /\ Len(s1) + x \in 1 .. Len(b)
  BY <1>1, <1>2, <1>3
<1>7. \A x \in 1 .. Len(s3) : Len(a) + x \in 1 .. Len(b)
  BY <1>1, <1>2, <1>3
<1>8. /\ \A x \in 1 .. Len(s1) : c[x] = s1[x]
      /\ \A x \in 1 .. Len(s2) : c[Len(s1) + x] = s2[x]
      /\ \A x \in 1 .. Len(s3) : c[Len(a) + x] = s3[x]
  BY <1>2, <1>3, <1>4, <1>5, <1>6, <1>7
<1>9. InRow(c, s1, s2, s3, s4)
  BY <1>2, <1>3, <1>4, <1>8 DEF InRow
<1> QED
  BY <1>4, <1>9 DEF a, b, c

(* Whatever the frame size, two packets that share the base or groups of one*)
(* order each: the layout is sound.  (bundle.go:164-236)                    *)
THEOREM PlanIsSound ==
  ASSUME NEW size \in Nat
  PROVE  /\ PlanSound(Bundles!PlanLayout(size))
         /\ \A g \in 1 .. Len(Bundles!PlanLayout(size)) :
              Len(Bundles!PlanLayout(size)[g]) <= Bundles!MaxChannelsPerPacket(size)
<1> DEFINE m    == Bundles!MaxChannelsPerPacket(size)
           S    == Seq(Bundles!Channels)
           base == Bundles!Chunk(Bundles!Base, m)
           two  == Bundles!Chunk(Bundles!Order2, m)
           three == Bundles!Chunk(Bundles!Order3, m)
           plan == Bundles!PlanLayout(size)
<1>1. m \in Nat \ {0}
  BY PacketTakesSome
<1> HIDE DEF m
<1>2. CASE /\ Len(Bundles!Base \o Bundles!Order2) <= m
           /\ Len(Bundles!Base \o Bundles!Order3) <= m
  <2> DEFINE low == Bundles!Base \o Bundles!Order2
             high == Bundles!Base \o Bundles!Order3
  <2>1. plan = <<low, high>>
    BY <1>2 DEF Bundles!PlanLayout, m
  <2>2. /\ low \in S /\ high \in S
        /\ Bundles!Range(low) = 0 .. 8 /\ Bundles!Range(high) = (0 .. 3) \cup (9 .. 15)
    BY DEF Bundles!Base, Bundles!Order2, Bundles!Order3, Bundles!Range, Bundles!Channels
  <2> HIDE DEF low, high, plan, S
  <2>3. plan \in Seq(S) /\ Len(plan) = 2 /\ plan[1] = low /\ plan[2] = high
    BY <2>1, <2>2
  <2>4. \A g \in 1 .. Len(plan) : OneOrderOnly(Bundles!Range(plan[g])) /\ Len(plan[g]) <= m
    <3>1. Len(low) <= m /\ Len(high) <= m
      BY <1>2 DEF low, high
    <3>2. \A g \in 1 .. Len(plan) : plan[g] = low \/ plan[g] = high
      BY <2>3
    <3>3. OneOrderOnly(Bundles!Range(low)) /\ OneOrderOnly(Bundles!Range(high))
      BY <2>2 DEF OneOrderOnly
    <3> QED
      BY <3>1, <3>2, <3>3
  <2>5. 1 \in 1 .. Len(plan) /\ 2 \in 1 .. Len(plan) /\ 1 # 2
    BY <2>3
  <2>6. \A c \in 0 .. 3 : c \in Bundles!Range(plan[1]) /\ c \in Bundles!Range(plan[2])
    BY <2>2, <2>3
  <2>7. \A c \in Bundles!Channels : c \in Bundles!Range(plan[1]) \/ c \in Bundles!Range(plan[2])
    BY <2>2, <2>3 DEF Bundles!Channels
  <2> QED
    BY <2>3, <2>4, <2>5, <2>6, <2>7 DEF PlanSound, S, plan, m
<1>3. CASE ~(/\ Len(Bundles!Base \o Bundles!Order2) <= m
             /\ Len(Bundles!Base \o Bundles!Order3) <= m)
  <2>1. plan = base \o two \o three \o base
    BY <1>3 DEF Bundles!PlanLayout, m
  <2>2. /\ base \in Seq(S) /\ Len(base) \in Nat
        /\ \A g \in 1 .. Len(base) : Len(base[g]) <= m /\ Bundles!Range(base[g]) \subseteq 0 .. 3
        /\ \A c \in 0 .. 3 : \E g \in 1 .. Len(base) : c \in Bundles!Range(base[g])
    BY <1>1, OrderCut, OrdersAre
  <2>3. /\ two \in Seq(S) /\ Len(two) \in Nat
        /\ \A g \in 1 .. Len(two) : Len(two[g]) <= m /\ Bundles!Range(two[g]) \subseteq 4 .. 8
        /\ \A c \in 4 .. 8 : \E g \in 1 .. Len(two) : c \in Bundles!Range(two[g])
    BY <1>1, OrderCut, OrdersAre
  <2>4. /\ three \in Seq(S) /\ Len(three) \in Nat
        /\ \A g \in 1 .. Len(three) : Len(three[g]) <= m /\ Bundles!Range(three[g]) \subseteq 9 .. 15
        /\ \A c \in 9 .. 15 : \E g \in 1 .. Len(three) : c \in Bundles!Range(three[g])
    BY <1>1, OrderCut, OrdersAre
  <2> HIDE DEF base, two, three, plan, S
  <2> DEFINE b == Len(base)
             t == Len(two)
             h == Len(three)
  <2>5. /\ plan \in Seq(S) /\ Len(plan) = b + t + h + b
        /\ \A g \in 1 .. b : plan[g] = base[g]
        /\ \A g \in 1 .. t : plan[b + g] = two[g]
        /\ \A g \in 1 .. h : plan[b + t + g] = three[g]
        /\ \A g \in 1 .. b : plan[b + t + h + g] = base[g]
    <3>1. plan \in Seq(S) /\ InRow(plan, base, two, three, base)
      BY <2>1, <2>2, <2>3, <2>4, FourInRow
    <3> QED
      BY <3>1 DEF InRow
  <2>6. b \in Nat /\ t \in Nat /\ h \in Nat
    BY <2>2, <2>3, <2>4
  <2> HIDE DEF b, t, h
  <2>7. ASSUME NEW g \in 1 .. Len(plan)
        PROVE  \/ g \in 1 .. b
               \/ \E x \in 1 .. t : g = b + x
               \/ \E x \in 1 .. h : g = b + t + x
               \/ \E x \in 1 .. b : g = b + t + h + x
    <3>1. g \in 1 .. b + t + h + b
      BY <2>5
    <3>2. CASE g > b /\ g <= b + t
      <4>1. g - b \in 1 .. t /\ g = b + (g - b)
        BY <2>6, <3>1, <3>2
      <4> QED
        BY <4>1
    <3>3. CASE g > b + t /\ g <= b + t + h
      <4>1. g - (b + t) \in 1 .. h /\ g = b + t + (g - (b + t))
        BY <2>6, <3>1, <3>3
      <4> QED
        BY <4>1
    <3>4. CASE g > b + t + h
      <4>1. g - (b + t + h) \in 1 .. b /\ g = b + t + h + (g - (b + t + h))
        BY <2>6, <3>1, <3>4
      <4> QED
        BY <4>1
    <3> QED
      BY <2>6, <3>1, <3>2, <3>3, <3>4
  <2>8. /\ \A g \in 1 .. b : Len(base[g]) <= m /\ Bundles!Range(base[g]) \subseteq 0 .. 3
        /\ \A g \in 1 .. t : Len(two[g]) <= m /\ Bundles!Range(two[g]) \subseteq 4 .. 8
        /\ \A g \in 1 .. h : Len(three[g]) <= m /\ Bundles!Range(three[g]) \subseteq 9 .. 15
    BY <2>2, <2>3, <2>4 DEF b, t, h
  <2>9. ASSUME NEW g \in 1 .. Len(plan)
        PROVE  OneOrderOnly(Bundles!Range(plan[g])) /\ Len(plan[g]) <= m
    <3>1. /\ Len(plan[g]) <= m
          /\ \/ Bundles!Range(plan[g]) \subseteq 0 .. 3
             \/ Bundles!Range(plan[g]) \subseteq 4 .. 8
             \/ Bundles!Range(plan[g]) \subseteq 9 .. 15
      <4>1. CASE g \in 1 .. b
        BY <2>5, <2>8, <4>1
      <4>2. CASE \E x \in 1 .. t : g = b + x
        <5>1. PICK x \in 1 .. t : g = b + x
          BY <4>2
        <5> QED
          BY <2>5, <2>8, <5>1
      <4>3. CASE \E x \in 1 .. h : g = b + t + x
        <5>1. PICK x \in 1 .. h : g = b + t + x
          BY <4>3
        <5> QED
          BY <2>5, <2>8, <5>1
      <4>4. CASE \E x \in 1 .. b : g = b + t + h + x
        <5>1. PICK x \in 1 .. b : g = b + t + h + x
          BY <4>4
        <5> QED
          BY <2>5, <2>8, <5>1
      <4> QED
        BY <2>7, <4>1, <4>2, <4>3, <4>4
    <3> QED
      BY <3>1 DEF OneOrderOnly
  <2>10. /\ \A x \in 1 .. b : x \in 1 .. Len(plan) /\ b + t + h + x \in 1 .. Len(plan)
         /\ \A x \in 1 .. t : b + x \in 1 .. Len(plan)
         /\ \A x \in 1 .. h : b + t + x \in 1 .. Len(plan)
         /\ \A x, y \in 1 .. b : x # b + t + h + y
    <3>1. Len(plan) = b + t + h + b
      BY <2>5
    <3>2. \A x \in 1 .. b : x \in 1 .. Len(plan) /\ b + t + h + x \in 1 .. Len(plan)
      BY <2>6, <3>1
    <3>3. \A x \in 1 .. t : b + x \in 1 .. Len(plan)
      BY <2>6, <3>1
    <3>4. \A x \in 1 .. h : b + t + x \in 1 .. Len(plan)
      BY <2>6, <3>1
    <3>5. \A x, y \in 1 .. b : x # b + t + h + y
      BY <2>6
    <3> QED
      BY <3>2, <3>3, <3>4, <3>5
  <2>11. ASSUME NEW c \in 0 .. 3
         PROVE  \E g, i \in 1 .. Len(plan) :
                  g # i /\ c \in Bundles!Range(plan[g]) /\ c \in Bundles!Range(plan[i])
    <3>1. PICK x \in 1 .. b : c \in Bundles!Range(base[x])
      BY <2>2 DEF b
    <3>2. c \in Bundles!Range(plan[x]) /\ c \in Bundles!Range(plan[b + t + h + x])
      BY <2>5, <3>1
    <3>3. x # b + t + h + x /\ x \in 1 .. Len(plan) /\ b + t + h + x \in 1 .. Len(plan)
      BY <2>10
    <3> QED
      BY <3>2, <3>3
  <2>12. ASSUME NEW c \in Bundles!Channels
         PROVE  \E g \in 1 .. Len(plan) : c \in Bundles!Range(plan[g])
    <3>1. c \in 0 .. 3 \/ c \in 4 .. 8 \/ c \in 9 .. 15
      BY DEF Bundles!Channels
    <3>2. CASE c \in 0 .. 3
      BY <2>11, <3>2
    <3>3. CASE c \in 4 .. 8
      <4>1. PICK x \in 1 .. t : c \in Bundles!Range(two[x])
        BY <2>3, <3>3 DEF t
      <4> QED
        BY <2>5, <2>10, <4>1
    <3>4. CASE c \in 9 .. 15
      <4>1. PICK x \in 1 .. h : c \in Bundles!Range(three[x])
        BY <2>4, <3>4 DEF h
      <4> QED
        BY <2>5, <2>10, <4>1
    <3> QED
      BY <3>1, <3>2, <3>3, <3>4
  <2> QED
    BY <2>5, <2>9, <2>11, <2>12 DEF PlanSound, S, plan, m
<1> QED
  BY <1>2, <1>3

(* A packet keeps the MTU budget at the reference bitrate, whatever the     *)
(* frame size, as long as a single payload does.  (bundle.go:164-202)       *)
THEOREM GroupsFitBudget ==
  ASSUME NEW size \in Nat,
         Bundles!PayloadBytes(Bundles!BitRate, size) <= Bundles!MTUChannelBudget,
         NEW g \in 1 .. Len(Bundles!PlanLayout(size))
  PROVE  Len(Bundles!PlanLayout(size)[g]) * Bundles!PayloadBytes(Bundles!BitRate, size)
           <= Bundles!MTUChannelBudget
<1> DEFINE bytes == Bundles!PayloadBytes(Bundles!BitRate, size)
           ref   == Bundles!Clamp(bytes, 1, Bundles!MTUChannelBudget)
           m     == Bundles!MaxChannelsPerPacket(size)
           group == Bundles!PlanLayout(size)[g]
<1>1. bytes \in Int
  BY DEF Bundles!PayloadBytes, Bundles!BitRate, Bundles!SampleRate
<1>2. Bundles!MTUChannelBudget = 1130 /\ bytes <= 1130
  BY DEF Bundles!MTUChannelBudget
<1>3. m = Bundles!Clamp(Bundles!MTUChannelBudget \div ref, 1, 16)
  BY DEF Bundles!MaxChannelsPerPacket
<1>4. Len(group) <= m /\ Len(group) \in Nat
  <2>1. /\ PlanSound(Bundles!PlanLayout(size))
        /\ \A i \in 1 .. Len(Bundles!PlanLayout(size)) : Len(Bundles!PlanLayout(size)[i]) <= m
    BY PlanIsSound
  <2>2. Bundles!PlanLayout(size) \in Seq(Seq(Bundles!Channels))
    BY <2>1 DEF PlanSound
  <2>3. group \in Seq(Bundles!Channels)
    BY <2>2
  <2> QED
    BY <2>1, <2>3
<1> HIDE DEF bytes, m, group
<1>5. ref \in 1 .. 1130 /\ bytes <= ref
  BY <1>1, <1>2 DEF Bundles!Clamp
<1> HIDE DEF ref
<1>6. PICK q \in Int : q = 1130 \div ref /\ ref * q <= 1130 /\ 1130 < ref * (q + 1)
  <2>1. /\ 1130 = ref * (1130 \div ref) + (1130 % ref) /\ 1130 % ref \in 0 .. ref - 1
        /\ 1130 \div ref \in Int
    <3>1. PICK x \in Int : x = 1130
      OBVIOUS
    <3>2. ref \in Nat \ {0}
      BY <1>5
    <3>3. x = ref * (x \div ref) + (x % ref) /\ x % ref \in 0 .. ref - 1 /\ x \div ref \in Int
      BY <3>2, DivisionRemainder
    <3> QED
      BY <3>1, <3>3
  <2> QED
    BY <1>5, <2>1
<1>7. q >= 1
  <2>1. ref * (q + 1) > ref * 1
    BY <1>5, <1>6
  <2>2. q + 1 > 1
    BY <1>5, <2>1
  <2> QED
    BY <2>2
<1>8. m <= q /\ m \in Nat
  BY <1>2, <1>3, <1>6, <1>7 DEF Bundles!Clamp
<1>9. Len(group) * bytes <= q * ref
  <2>1. PICK n \in Nat : n = Len(group) /\ n <= q
    BY <1>4, <1>8
  <2>2. PICK a \in Int, b \in Nat : a = bytes /\ b = ref /\ a <= b
    BY <1>1, <1>5
  <2>3. n * a <= n * b
    BY <2>2
  <2>4. n * b <= q * b
    BY <2>1
  <2>5. n * a \in Int /\ n * b \in Int /\ q * b \in Int
    OBVIOUS
  <2>6. n * a <= q * b
    BY <2>3, <2>4, <2>5
  <2> QED
    BY <2>1, <2>2, <2>6
<1>10. Len(group) * bytes \in Int /\ q * ref = ref * q
  BY <1>1, <1>4, <1>5
<1>11. Len(group) * bytes <= 1130
  BY <1>5, <1>6, <1>9, <1>10
<1> QED
  BY <1>2, <1>11 DEF bytes, group

-----------------------------------------------------------------------------
(* What is queued *)

(* What a group still carries when encodes failed, and the groups that do.  *)
Kept(groups, missing, n) == Bundles!Range(groups[n]) \ missing

Bearing(groups, missing) ==
  {n \in 1 .. Len(groups) : Kept(groups, missing, n) # {}}

LEMMA QueuedSteps ==
  ASSUME NEW groups, Len(groups) \in Nat, NEW missing
  PROVE  LET X == {Bundles!MarshalBundle(Kept(groups, missing, n)) : n \in Bearing(groups, missing)}
         IN \E queued :
              /\ \A n \in 0 .. Len(groups) : queued[n] \in Seq(X)
              /\ queued[0] = <<>> /\ Bundles!SendBundled(groups, missing) = queued[Len(groups)]
              /\ \A n \in 1 .. Len(groups) :
                   queued[n] = IF n \notin Bearing(groups, missing) THEN queued[n - 1]
                               ELSE Append(queued[n - 1],
                                           Bundles!MarshalBundle(Kept(groups, missing, n)))
<1> DEFINE X    == {Bundles!MarshalBundle(Kept(groups, missing, n)) : n \in Bearing(groups, missing)}
           S    == Seq(X)
           k    == Len(groups)
           P(n) == Bundles!MarshalBundle(Kept(groups, missing, n))
           step == [n \in 1 .. k |-> [s \in S |->
                      IF n \notin Bearing(groups, missing) THEN s ELSE Append(s, P(n))]]
<1>1. <<>> \in S
  OBVIOUS
<1>2. ASSUME NEW n \in Bearing(groups, missing), NEW s \in S PROVE Append(s, P(n)) \in S
  <2>1. P(n) \in X
    OBVIOUS
  <2> HIDE DEF X, P
  <2> QED
    BY <2>1
<1> HIDE DEF S
<1>3. ASSUME NEW n \in 1 .. k, NEW s \in S
      PROVE  /\ step[n][s] = IF n \notin Bearing(groups, missing) THEN s ELSE Append(s, P(n))
             /\ step[n][s] \in S
  <2> HIDE DEF P
  <2> QED
    BY <1>2
<1> HIDE DEF step, k, P, X
<1>4. k \in Nat
  BY DEF k
<1>5. PICK f \in [0 .. k -> S] : Follows(f, <<>>, k, step)
  <2>1. Stays(S, k, step)
    BY <1>3 DEF Stays
  <2> QED
    BY <1>1, <1>4, <2>1, Recursion
<1>6. ASSUME NEW n \in 1 .. k
      PROVE  f[n] = IF n \notin Bearing(groups, missing) THEN f[n - 1] ELSE Append(f[n - 1], P(n))
  <2>1. n - 1 \in 0 .. k
    BY <1>4
  <2>2. f[n - 1] \in S
    BY <1>5, <2>1
  <2>3. f[n] = step[n][f[n - 1]]
    BY <1>5 DEF Follows
  <2> QED
    BY <1>3, <2>2, <2>3
<1>7. /\ \A n \in 0 .. k : n = 0 \/ (n \in 1 .. k /\ n # 0)
      /\ 0 \in 0 .. k /\ \A n \in 1 .. k : n \in 0 .. k /\ n # 0
  BY <1>4
<1>8. f = [n \in 0 .. k |->
             IF n = 0 THEN <<>>
             ELSE IF n \notin Bearing(groups, missing) THEN f[n - 1] ELSE Append(f[n - 1], P(n))]
  <2>1. f = [n \in 0 .. k |-> f[n]]
    BY <1>5
  <2>2. \A n \in 0 .. k :
          f[n] = IF n = 0 THEN <<>>
                 ELSE IF n \notin Bearing(groups, missing) THEN f[n - 1] ELSE Append(f[n - 1], P(n))
    <3>1. f[0] = <<>>
      BY <1>5 DEF Follows
    <3> QED
      BY <1>6, <1>7, <3>1, Zenon
  <2> QED
    BY <2>1, <2>2
<1>9. \A any :
         [n \in 0 .. k |->
            IF n = 0 THEN <<>>
            ELSE IF n \notin Bearing(groups, missing) THEN any[n - 1] ELSE Append(any[n - 1], P(n))]
       = [n \in 0 .. Len(groups) |->
            IF n = 0 THEN <<>>
            ELSE IF Bundles!Range(groups[n]) \ missing = {} THEN any[n - 1]
            ELSE Append(any[n - 1], Bundles!MarshalBundle(Bundles!Range(groups[n]) \ missing))]
  <2>1. \A n \in 0 .. k : n # 0 =>
          (n \notin Bearing(groups, missing) <=> Bundles!Range(groups[n]) \ missing = {})
    BY <1>4 DEF Bearing, Kept, k
  <2> QED
    BY <2>1, Zenon DEF P, Kept, k
<1>10. PICK queued : queued = CHOOSE any :
         any = [n \in 0 .. Len(groups) |->
                 IF n = 0 THEN <<>>
                 ELSE IF Bundles!Range(groups[n]) \ missing = {} THEN any[n - 1]
                 ELSE Append(any[n - 1], Bundles!MarshalBundle(Bundles!Range(groups[n]) \ missing))]
  OBVIOUS
<1>11. queued = [n \in 0 .. k |->
                   IF n = 0 THEN <<>>
                   ELSE IF n \notin Bearing(groups, missing)
                          THEN queued[n - 1] ELSE Append(queued[n - 1], P(n))]
  <2>1. \E any : any = [n \in 0 .. Len(groups) |->
                 IF n = 0 THEN <<>>
                 ELSE IF Bundles!Range(groups[n]) \ missing = {} THEN any[n - 1]
                 ELSE Append(any[n - 1], Bundles!MarshalBundle(Bundles!Range(groups[n]) \ missing))]
    <3>1. f = [n \in 0 .. Len(groups) |->
                 IF n = 0 THEN <<>>
                 ELSE IF Bundles!Range(groups[n]) \ missing = {} THEN f[n - 1]
                 ELSE Append(f[n - 1], Bundles!MarshalBundle(Bundles!Range(groups[n]) \ missing))]
      BY <1>8, <1>9
    <3> QED
      BY <3>1
  <2>2. queued = [n \in 0 .. Len(groups) |->
                 IF n = 0 THEN <<>>
                 ELSE IF Bundles!Range(groups[n]) \ missing = {} THEN queued[n - 1]
                 ELSE Append(queued[n - 1], Bundles!MarshalBundle(Bundles!Range(groups[n]) \ missing))]
    BY <1>10, <2>1
  <2> QED
    BY <1>9, <2>2
<1>12. /\ queued[0] = <<>>
       /\ \A n \in 1 .. k :
            queued[n] = IF n \notin Bearing(groups, missing)
                          THEN queued[n - 1] ELSE Append(queued[n - 1], P(n))
  <2>1. \A n \in 0 .. k :
          queued[n] = IF n = 0 THEN <<>>
                      ELSE IF n \notin Bearing(groups, missing)
                             THEN queued[n - 1] ELSE Append(queued[n - 1], P(n))
    BY <1>11, Zenon
  <2> QED
    BY <1>7, <2>1, Zenon
<1>13. \A n \in 0 .. k : queued[n] \in S
  <2> DEFINE E == {i \in 0 .. k : queued[i] \in S}
  <2>1. 0 \in E
    BY <1>1, <1>4, <1>12
  <2>2. ASSUME NEW n \in 1 .. k, n - 1 \in E PROVE n \in E
    <3>1. queued[n - 1] \in S
      BY <2>2
    <3>2. queued[n] \in S
      BY <1>2, <1>12, <3>1
    <3> QED
      BY <3>2
  <2> HIDE DEF E
  <2>3. \A n \in 0 .. k : n \in E
    BY <1>4, <2>1, <2>2, UpTo
  <2> QED
    BY <2>3 DEF E
<1>14. Bundles!SendBundled(groups, missing) = queued[k]
  BY <1>10 DEF Bundles!SendBundled, k
<1> QED
  BY <1>12, <1>13, <1>14 DEF S, X, P, k

(* Each group that has something to carry is a packet of its own, and there *)
(* are no others.                                                           *)
LEMMA QueuedApart ==
  ASSUME NEW groups, Len(groups) \in Nat, NEW missing
  PROVE  LET sent == Bundles!SendBundled(groups, missing)
             P(n) == Bundles!MarshalBundle(Kept(groups, missing, n))
         IN /\ Len(sent) \in Nat
            /\ \A j \in 1 .. Len(sent) : \E n \in Bearing(groups, missing) : sent[j] = P(n)
            /\ \E at :
                 /\ \A n \in Bearing(groups, missing) :
                      at[n] \in 1 .. Len(sent) /\ sent[at[n]] = P(n)
                 /\ \A n, i \in Bearing(groups, missing) : n # i => at[n] # at[i]
<1> DEFINE B    == Bearing(groups, missing)
           P(n) == Bundles!MarshalBundle(Kept(groups, missing, n))
           X    == {P(n) : n \in B}
           k    == Len(groups)
           sent == Bundles!SendBundled(groups, missing)
<1>1. PICK queued :
        /\ \A n \in 0 .. k : queued[n] \in Seq(X)
        /\ queued[0] = <<>> /\ sent = queued[k]
        /\ \A n \in 1 .. k :
             queued[n] = IF n \notin B THEN queued[n - 1] ELSE Append(queued[n - 1], P(n))
  BY QueuedSteps
<1>2. k \in Nat
  OBVIOUS
<1>3. \A n \in B : n \in 1 .. k
  BY DEF Bearing
<1>4. \A n \in B : P(n) \in X
  OBVIOUS
<1>5. \A p \in X : \E n \in B : p = P(n)
  OBVIOUS
<1> HIDE DEF B, X, k, P, sent
<1> DEFINE Good(n) ==
             /\ \A i \in B : i <= n =>
                  Len(queued[i]) \in 1 .. Len(queued[n]) /\ queued[n][Len(queued[i])] = P(i)
             /\ \A i, j \in B : i < j /\ j <= n => Len(queued[i]) < Len(queued[j])
           E == {n \in 0 .. k : Good(n)}
<1>6. 0 \in E
  <2>1. \A i \in B : ~(i <= 0)
    BY <1>2, <1>3
  <2>2. \A i, j \in B : ~(i < j /\ j <= 0)
    BY <2>1
  <2> QED
    BY <1>2, <2>1, <2>2
<1>7. ASSUME NEW n \in 1 .. k, n - 1 \in E PROVE n \in E
  <2> DEFINE s == queued[n - 1]
             t == queued[n]
  <2>1. Good(n - 1) /\ n - 1 \in 0 .. k
    BY <1>7
  <2>2. s \in Seq(X)
    BY <1>1, <2>1
  <2>3. CASE n \notin B
    <3>1. t = s
      BY <1>1, <2>3
    <3>2. \A i \in B : i <= n => i <= n - 1
      BY <1>2, <1>3, <2>3
    <3>3. Good(n)
      BY <2>1, <3>1, <3>2
    <3> QED
      BY <3>3
  <2>4. CASE n \in B
    <3>1. t = Append(s, P(n)) /\ P(n) \in X
      BY <1>1, <1>4, <2>4
    <3> HIDE DEF s, t
    <3>2. /\ Len(s) \in Nat /\ Len(t) = Len(s) + 1 /\ t[Len(s) + 1] = P(n)
          /\ \A x \in 1 .. Len(s) : t[x] = s[x]
      BY <2>2, <3>1
    <3>3. ASSUME NEW i \in B, i <= n - 1
          PROVE  /\ Len(queued[i]) \in 1 .. Len(s) /\ Len(queued[i]) \in 1 .. Len(t)
                 /\ t[Len(queued[i])] = P(i)
      <4>1. Len(queued[i]) \in 1 .. Len(s) /\ s[Len(queued[i])] = P(i)
        BY <2>1, <3>3 DEF s
      <4> QED
        BY <3>2, <4>1
    <3>4. Len(queued[n]) = Len(s) + 1 /\ Len(queued[n]) \in 1 .. Len(t) /\ t[Len(queued[n])] = P(n)
      BY <3>2 DEF t
    <3>5. \A i \in B : i \in Int /\ (i <= n => i <= n - 1 \/ i = n)
      BY <1>2, <1>3
    <3>6. ASSUME NEW i \in B, i <= n
          PROVE  Len(queued[i]) \in 1 .. Len(queued[n]) /\ queued[n][Len(queued[i])] = P(i)
      BY <3>3, <3>4, <3>5, <3>6 DEF t
    <3>7. ASSUME NEW i \in B, NEW j \in B, i < j, j <= n
          PROVE  Len(queued[i]) < Len(queued[j])
      <4>1. CASE j = n
        <5>1. i <= n - 1
          BY <3>5, <3>7, <4>1
        <5> QED
          BY <3>2, <3>3, <3>4, <4>1, <5>1
      <4>2. CASE j # n
        <5>1. j <= n - 1
          BY <3>5, <3>7, <4>2
        <5> QED
          BY <2>1, <3>7, <5>1
      <4> QED
        BY <4>1, <4>2
    <3>8. Good(n)
      BY <3>6, <3>7
    <3> QED
      BY <3>8
  <2> QED
    BY <2>3, <2>4
<1> HIDE DEF E
<1>8. \A n \in 0 .. k : n \in E
  BY <1>2, <1>6, <1>7, UpTo
<1>9. Good(k) /\ k \in 0 .. k
  BY <1>2, <1>8 DEF E
<1>10. sent \in Seq(X)
  BY <1>1, <1>9
<1>11. Len(sent) \in Nat /\ \A j \in 1 .. Len(sent) : sent[j] \in X
  BY <1>10
<1> DEFINE at == [n \in B |-> Len(queued[n])]
<1>12. \A n \in B : at[n] \in 1 .. Len(sent) /\ sent[at[n]] = P(n)
  BY <1>1, <1>2, <1>3, <1>9
<1>13. \A n, i \in B : n < i => at[n] < at[i]
  BY <1>2, <1>3, <1>9
<1>14. \A n, i \in B : n # i => at[n] # at[i]
  <2>1. \A n, i \in B : n # i => n < i \/ i < n
    BY <1>2, <1>3
  <2>2. \A n \in B : at[n] \in Int
    BY <1>11, <1>12
  <2> HIDE DEF at
  <2> QED
    BY <1>13, <2>1, <2>2
<1> HIDE DEF at, Good
<1>15. \A j \in 1 .. Len(sent) : \E n \in B : sent[j] = P(n)
  BY <1>5, <1>11
<1> QED
  BY <1>11, <1>12, <1>14, <1>15 DEF B, P, sent

(* The packets of a frame: what they say of their channels and where each   *)
(* channel is.                                                              *)
Mask(packet) == packet.mask

PacketsSound(sent, missing) ==
  /\ Len(sent) \in Nat
  /\ \A j \in 1 .. Len(sent) :
       /\ Mask(sent[j]) \subseteq Bundles!Channels \ missing
       /\ OneOrderOnly(Mask(sent[j]))
       /\ Bundles!ParseBundle(sent[j]) = [c \in Mask(sent[j]) |-> Bundles!Payload(c)]
  /\ \A c \in Bundles!Channels \ missing : \E j \in 1 .. Len(sent) : c \in Mask(sent[j])
  /\ \A c \in (0 .. 3) \ missing : \E i, j \in 1 .. Len(sent) :
       i # j /\ c \in Mask(sent[i]) /\ c \in Mask(sent[j])

(* And so are the packets of every frame. *)
LEMMA FrameIsSound ==
  ASSUME NEW size \in Nat, NEW missing
  PROVE  PacketsSound(Bundles!SendBundled(Bundles!PlanLayout(size), missing), missing)
<1> DEFINE plan == Bundles!PlanLayout(size)
           sent == Bundles!SendBundled(plan, missing)
           B    == Bearing(plan, missing)
<1>1. /\ plan \in Seq(Seq(Bundles!Channels))
      /\ \A g \in 1 .. Len(plan) : OneOrderOnly(Bundles!Range(plan[g]))
      /\ \A c \in Bundles!Channels : \E g \in 1 .. Len(plan) : c \in Bundles!Range(plan[g])
      /\ \A c \in 0 .. 3 : \E g, h \in 1 .. Len(plan) :
           g # h /\ c \in Bundles!Range(plan[g]) /\ c \in Bundles!Range(plan[h])
  BY PlanIsSound DEF PlanSound
<1> HIDE DEF plan
<1>2. Len(plan) \in Nat /\ \A g \in 1 .. Len(plan) : plan[g] \in Seq(Bundles!Channels)
  <2>1. plan \in Seq(Seq(Bundles!Channels))
    BY <1>1
  <2> QED
    BY <2>1
<1>3. \A g \in 1 .. Len(plan) : Bundles!Range(plan[g]) \subseteq Bundles!Channels
  <2> SUFFICES ASSUME NEW g \in 1 .. Len(plan)
               PROVE  Bundles!Range(plan[g]) \subseteq Bundles!Channels
    OBVIOUS
  <2>1. PICK s \in Seq(Bundles!Channels) : s = plan[g]
    BY <1>2
  <2>2. \A i \in DOMAIN s : s[i] \in Bundles!Channels
    OBVIOUS
  <2> QED
    BY <2>1, <2>2 DEF Bundles!Range
<1>4. /\ Len(sent) \in Nat
      /\ \A j \in 1 .. Len(sent) : \E n \in B :
           sent[j] = Bundles!MarshalBundle(Kept(plan, missing, n))
  BY <1>2, QueuedApart
<1>5. PICK at :
        /\ \A n \in B :
             at[n] \in 1 .. Len(sent) /\ sent[at[n]] = Bundles!MarshalBundle(Kept(plan, missing, n))
        /\ \A n, i \in B : n # i => at[n] # at[i]
  BY <1>2, QueuedApart
<1> HIDE DEF sent
<1>6. ASSUME NEW n \in B
      PROVE  /\ n \in 1 .. Len(plan) /\ Kept(plan, missing, n) # {}
             /\ Kept(plan, missing, n) \in SUBSET Bundles!Channels
             /\ Kept(plan, missing, n) \subseteq Bundles!Channels \ missing
             /\ OneOrderOnly(Kept(plan, missing, n))
  <2>1. n \in 1 .. Len(plan) /\ Kept(plan, missing, n) # {}
    BY DEF Bearing
  <2>2. /\ OneOrderOnly(Bundles!Range(plan[n]))
        /\ Bundles!Range(plan[n]) \subseteq Bundles!Channels
    BY <1>1, <1>3, <2>1
  <2> QED
    BY <2>1, <2>2 DEF Kept, OneOrderOnly
<1>7. ASSUME NEW g \in 1 .. Len(plan), NEW c \in Bundles!Range(plan[g]), c \notin missing
      PROVE  g \in B /\ c \in Kept(plan, missing, g)
  BY <1>7 DEF Bearing, Kept
<1>8. \A chans : Mask(Bundles!MarshalBundle(chans)) = chans
  BY DEF Mask, Bundles!MarshalBundle
<1> HIDE DEF B
<1>9. ASSUME NEW j \in 1 .. Len(sent)
      PROVE  /\ Mask(sent[j]) \subseteq Bundles!Channels \ missing
             /\ OneOrderOnly(Mask(sent[j]))
             /\ Bundles!ParseBundle(sent[j]) = [c \in Mask(sent[j]) |-> Bundles!Payload(c)]
  <2>1. PICK n \in B : sent[j] = Bundles!MarshalBundle(Kept(plan, missing, n))
    BY <1>4
  <2>2. Mask(sent[j]) = Kept(plan, missing, n)
    BY <1>8, <2>1
  <2>3. Bundles!ParseBundle(sent[j]) = [c \in Kept(plan, missing, n) |-> Bundles!Payload(c)]
    BY <1>6, <2>1, ParsesBack
  <2> QED
    BY <1>6, <2>2, <2>3
<1>10. ASSUME NEW c \in Bundles!Channels \ missing
       PROVE  \E j \in 1 .. Len(sent) : c \in Mask(sent[j])
  <2>1. PICK g \in 1 .. Len(plan) : c \in Bundles!Range(plan[g])
    BY <1>1
  <2>2. g \in B /\ c \in Kept(plan, missing, g)
    BY <1>7, <2>1
  <2> QED
    BY <1>5, <1>8, <2>2
<1>11. ASSUME NEW c \in (0 .. 3) \ missing
       PROVE  \E i, j \in 1 .. Len(sent) : i # j /\ c \in Mask(sent[i]) /\ c \in Mask(sent[j])
  <2>1. PICK g \in 1 .. Len(plan), h \in 1 .. Len(plan) :
          g # h /\ c \in Bundles!Range(plan[g]) /\ c \in Bundles!Range(plan[h])
    BY <1>1
  <2>2. g \in B /\ c \in Kept(plan, missing, g) /\ h \in B /\ c \in Kept(plan, missing, h)
    BY <1>7, <2>1
  <2>3. /\ at[g] \in 1 .. Len(sent) /\ at[h] \in 1 .. Len(sent) /\ at[g] # at[h]
        /\ c \in Mask(sent[at[g]]) /\ c \in Mask(sent[at[h]])
    BY <1>5, <1>8, <2>1, <2>2
  <2> QED
    BY <2>3
<1> QED
  BY <1>4, <1>9, <1>10, <1>11 DEF PacketsSound, sent, plan

-----------------------------------------------------------------------------
(* What arrives *)

(* Every packet that was settled and not lost is in hand, byte for byte, and*)
(* nothing else is.                                                         *)
ArrivalInv ==
  /\ frameSize \in FrameSizes /\ failed \in FailedSets
  /\ PacketsSound(packets, failed)
  /\ next \in 1 .. Len(packets) + 1
  /\ lost \subseteq 1 .. next - 1
  /\ \A c \in DOMAIN received :
       c \in Bundles!Channels \ failed /\ received[c] = Bundles!Payload(c)
  /\ \A j \in 1 .. next - 1 : j \notin lost => Mask(packets[j]) \subseteq DOMAIN received

LEMMA NewFrameSound ==
  ASSUME NEW size \in FrameSizes, NEW missing \in FailedSets
  PROVE  PacketsSound(Bundles!SendBundled(Bundles!PlanLayout(size), missing), missing)
BY FrameIsSound, BundleAssumption

LEMMA ArrivalInitially == DownlinkInit => ArrivalInv
<1> SUFFICES ASSUME Bundles!Init PROVE ArrivalInv
  BY DEF DownlinkInit
<1>1. PacketsSound(packets, failed) /\ frameSize \in FrameSizes /\ failed \in FailedSets
  BY NewFrameSound DEF Bundles!Init
<1>2. next = 1 /\ lost = {} /\ received = <<>>
  BY DEF Bundles!Init
<1>3. next \in 1 .. Len(packets) + 1 /\ 1 .. next - 1 = {}
  BY <1>1, <1>2 DEF PacketsSound
<1>4. DOMAIN received = {}
  BY <1>2
<1> QED
  BY <1>1, <1>2, <1>3, <1>4 DEF ArrivalInv

LEMMA ArrivalAfterFrame ==
  ASSUME ArrivalInv, Bundles!NextFrame
  PROVE  ArrivalInv'
<1>1. PacketsSound(packets', failed') /\ frameSize' \in FrameSizes /\ failed' \in FailedSets
  <2>1. /\ frameSize \in FrameSizes /\ frameSize' = frameSize /\ failed' \in FailedSets
        /\ packets' = Bundles!SendBundled(Bundles!PlanLayout(frameSize), failed')
    BY DEF Bundles!NextFrame, ArrivalInv
  <2> QED
    BY <2>1, NewFrameSound
<1>2. next' = 1 /\ lost' = {} /\ received' = <<>>
  BY DEF Bundles!NextFrame
<1>3. next' \in 1 .. Len(packets') + 1 /\ 1 .. next' - 1 = {}
  BY <1>1, <1>2 DEF PacketsSound
<1>4. DOMAIN received' = {}
  BY <1>2
<1> QED
  BY <1>1, <1>2, <1>3, <1>4 DEF ArrivalInv

LEMMA ArrivalAfterLoss ==
  ASSUME ArrivalInv, Bundles!Lose
  PROVE  ArrivalInv'
<1> USE DEF ArrivalInv
<1>1. /\ next <= Len(packets) /\ lost' = lost \cup {next} /\ next' = next + 1
      /\ UNCHANGED <<frameSize, failed, packets, received>>
  BY DEF Bundles!Lose
<1>2. next \in Nat \ {0} /\ Len(packets) \in Nat
  BY DEF PacketsSound
<1>3. next' \in 1 .. Len(packets') + 1 /\ lost' \subseteq 1 .. next' - 1
  BY <1>1, <1>2
<1>4. \A j \in 1 .. next' - 1 : j \notin lost' => j \in 1 .. next - 1 /\ j \notin lost
  BY <1>1, <1>2
<1> QED
  BY <1>1, <1>3, <1>4

LEMMA ArrivalAfterDelivery ==
  ASSUME ArrivalInv, Bundles!Deliver
  PROVE  ArrivalInv'
<1> DEFINE got == Bundles!ParseBundle(packets[next])
<1>1. /\ next <= Len(packets) /\ next' = next + 1
      /\ received' = [c \in DOMAIN received \cup DOMAIN got |->
                        IF c \in DOMAIN received THEN received[c] ELSE got[c]]
      /\ UNCHANGED <<frameSize, failed, packets, lost>>
  BY DEF Bundles!Deliver
<1>2. next \in 1 .. Len(packets) /\ next \in Nat /\ Len(packets) \in Nat
  BY <1>1 DEF ArrivalInv, PacketsSound
<1>3. /\ Mask(packets[next]) \subseteq Bundles!Channels \ failed
      /\ got = [c \in Mask(packets[next]) |-> Bundles!Payload(c)]
  BY <1>2 DEF ArrivalInv, PacketsSound
<1> HIDE DEF got
<1>4. /\ DOMAIN got = Mask(packets[next])
      /\ \A c \in DOMAIN got : got[c] = Bundles!Payload(c)
  BY <1>3
<1>5. /\ DOMAIN received' = DOMAIN received \cup DOMAIN got
      /\ \A c \in DOMAIN received' :
           received'[c] = IF c \in DOMAIN received THEN received[c] ELSE got[c]
  BY <1>1
<1>6. \A c \in DOMAIN received' :
        c \in Bundles!Channels \ failed' /\ received'[c] = Bundles!Payload(c)
  BY <1>1, <1>3, <1>4, <1>5 DEF ArrivalInv
<1>7. next' \in 1 .. Len(packets') + 1 /\ lost' \subseteq 1 .. next' - 1
  BY <1>1, <1>2 DEF ArrivalInv
<1>8. ASSUME NEW j \in 1 .. next' - 1, j \notin lost'
      PROVE  Mask(packets'[j]) \subseteq DOMAIN received'
  <2>1. j \in 1 .. next - 1 \/ j = next
    BY <1>1, <1>2
  <2> QED
    BY <1>1, <1>4, <1>5, <1>8, <2>1 DEF ArrivalInv
<1>9. /\ frameSize' \in FrameSizes /\ failed' \in FailedSets /\ PacketsSound(packets', failed')
  BY <1>1 DEF ArrivalInv
<1> QED
  BY <1>6, <1>7, <1>8, <1>9 DEF ArrivalInv

LEMMA ArrivalKept == ArrivalInv /\ [DownlinkNext]_allVars => ArrivalInv'
<1> SUFFICES ASSUME ArrivalInv, [DownlinkNext]_allVars PROVE ArrivalInv'
  OBVIOUS
<1>1. CASE UNCHANGED layoutVars
  BY <1>1 DEF layoutVars, ArrivalInv
<1>2. CASE Bundles!Lose
  BY <1>2, ArrivalAfterLoss
<1>3. CASE Bundles!Deliver
  BY <1>3, ArrivalAfterDelivery
<1>4. CASE Bundles!NextFrame
  BY <1>4, ArrivalAfterFrame
<1> QED
  BY <1>1, <1>2, <1>3, <1>4
     DEF DownlinkNext, Take, DropCongested, SendPacket, SendError, Afterwards, NewFrame, allVars

LEMMA AtMostOne ==
  ASSUME NEW S, IsFiniteSet(S), Cardinality(S) <= 1, NEW x \in S, NEW y \in S
  PROVE  x = y
<1> SUFFICES ASSUME x # y PROVE FALSE
  OBVIOUS
<1>1. IsFiniteSet({x}) /\ Cardinality({x}) = 1
  BY FS_Singleton
<1>2. IsFiniteSet({x} \cup {y}) /\ Cardinality({x} \cup {y}) = 2
  <2>1. y \notin {x}
    OBVIOUS
  <2> DEFINE A == {x}
  <2>2. IsFiniteSet(A) /\ Cardinality(A) = 1 /\ y \notin A
    BY <1>1, <2>1
  <2> HIDE DEF A
  <2>3. IsFiniteSet(A \cup {y}) /\ Cardinality(A \cup {y}) = 2
    BY <2>2, FS_AddElement
  <2> QED
    BY <2>3 DEF A
<1>3. {x} \cup {y} \in SUBSET S
  OBVIOUS
<1>4. Cardinality({x} \cup {y}) <= Cardinality(S) /\ Cardinality(S) \in Nat
  BY <1>3, FS_Subset, FS_CardinalityType
<1> QED
  BY <1>2, <1>4

(* For every frame size, whichever encoders failed and whatever the payloads*)
(* weigh: a single packet lost, to the network or to pacing, costs channels *)
(* of one higher order, never the first-order soundfield.  (bundle.go)      *)
THEOREM LossCostsOneOrder == DownlinkSpec => []OneLossOneOrder
<1>1. ArrivalInv => OneLossOneOrder
  <2> SUFFICES ASSUME ArrivalInv, Bundles!Settled, Cardinality(lost) <= 1
               PROVE  \/ Bundles!Missing \subseteq 4 .. 8
                      \/ Bundles!Missing \subseteq 9 .. 15
    <3>1. /\ Bundles!Range(Bundles!Order2) = 4 .. 8
          /\ Bundles!Range(Bundles!Order3) = 9 .. 15
      BY OrdersAre
    <3>2. Bundles!Cardinality(lost) = Cardinality(lost)
      BY DEF Bundles!Cardinality, Cardinality
    <3> QED
      BY <3>1, <3>2 DEF OneLossOneOrder, Bundles!OneLossOneOrder
  <2>1. next - 1 = Len(packets) /\ Len(packets) \in Nat /\ lost \subseteq 1 .. Len(packets)
    BY DEF ArrivalInv, PacketsSound, Bundles!Settled
  <2>2. IsFiniteSet(lost)
    <3>1. IsFiniteSet(1 .. Len(packets))
      BY <2>1, FS_Interval
    <3>2. lost \in SUBSET (1 .. Len(packets))
      BY <2>1
    <3> QED
      BY <3>1, <3>2, FS_Subset
  <2>3. ASSUME NEW c \in Bundles!Missing, NEW j \in 1 .. Len(packets), c \in Mask(packets[j])
        PROVE  j \in lost
    BY <2>1, <2>3 DEF ArrivalInv, Bundles!Missing
  <2>4. ASSUME NEW c \in Bundles!Missing
        PROVE  c \notin 0 .. 3 /\ \E j \in lost : c \in Mask(packets[j])
    <3>1. c \in Bundles!Channels \ failed
      BY DEF Bundles!Missing
    <3>2. ASSUME c \in 0 .. 3 PROVE FALSE
      <4>1. PICK i \in 1 .. Len(packets), j \in 1 .. Len(packets) :
              i # j /\ c \in Mask(packets[i]) /\ c \in Mask(packets[j])
        BY <3>1, <3>2 DEF ArrivalInv, PacketsSound
      <4>2. i \in lost /\ j \in lost
        BY <2>3, <4>1
      <4> QED
        BY <2>2, <4>1, <4>2, AtMostOne
    <3>3. PICK j \in 1 .. Len(packets) : c \in Mask(packets[j])
      BY <3>1 DEF ArrivalInv, PacketsSound
    <3> QED
      BY <2>3, <3>2, <3>3
  <2>5. CASE lost = {}
    BY <2>4, <2>5
  <2>6. CASE lost # {}
    <3>1. PICK j \in lost : TRUE
      BY <2>6
    <3>2. \A i \in lost : i = j
      BY <2>2, AtMostOne
    <3>3. OneOrderOnly(Mask(packets[j]))
      BY <2>1 DEF ArrivalInv, PacketsSound
    <3>4. \A c \in Bundles!Missing : c \notin 0 .. 3 /\ c \in Mask(packets[j])
      BY <2>4, <3>2
    <3>5. CASE Mask(packets[j]) \subseteq 0 .. 8
      <4>1. \A c \in 0 .. 8 : c \notin 0 .. 3 => c \in 4 .. 8
        OBVIOUS
      <4> QED
        BY <3>4, <3>5, <4>1
    <3>6. CASE Mask(packets[j]) \subseteq (0 .. 3) \cup (9 .. 15)
      BY <3>4, <3>6
    <3> QED
      BY <3>3, <3>5, <3>6 DEF OneOrderOnly
  <2> QED
    BY <2>5, <2>6
<1> QED
  BY <1>1, ArrivalInitially, ArrivalKept, PTL DEF DownlinkSpec

(* Whatever is lost, delayed by pacing or failed to encode, a channel that  *)
(* arrives is byte for byte what was encoded, and a frame of which nothing  *)
(* was lost arrives whole.  (bundle.go:68-162)                              *)
THEOREM ArrivesAsEncoded == DownlinkSpec => []PayloadsExact
<1>1. ArrivalInv => PayloadsExact
  <2> SUFFICES ASSUME ArrivalInv PROVE PayloadsExact
    OBVIOUS
  <2>1. \A c \in DOMAIN received : c \notin failed /\ received[c] = Bundles!Payload(c)
    BY DEF ArrivalInv
  <2>2. ASSUME Bundles!Settled, lost = {} PROVE Bundles!Missing = {}
    <3>1. next - 1 = Len(packets)
      BY <2>2 DEF ArrivalInv, PacketsSound, Bundles!Settled
    <3>2. \A c \in Bundles!Channels \ failed : c \in DOMAIN received
      BY <2>2, <3>1 DEF ArrivalInv, PacketsSound
    <3> QED
      BY <3>2 DEF Bundles!Missing
  <2> QED
    BY <2>1, <2>2 DEF PayloadsExact, Bundles!PayloadsExact
<1> QED
  BY <1>1, ArrivalInitially, ArrivalKept, PTL DEF DownlinkSpec
=============================================================================
