---------------------------- MODULE JitterBuffer ----------------------------
(***************************************************************************)
(* The per-client jitter buffer (mcu/internal/audio/jitter.go): a ring of  *)
(* samples indexed by absolute timestamp modulo its length, written one    *)
(* channel at a time by the decode goroutine and read one whole frame at a *)
(* time by the room's mix clock.  One mutex makes each call one step.      *)
(*                                                                         *)
(* A sample is abstracted to the absolute time it was recorded for, so a   *)
(* slot that holds the wrong sample is seen to hold it.  The two telemetry *)
(* counters are left out.  A call that returns without touching the state  *)
(* (a late frame, a read while prebuffering, an underrun, which holds the  *)
(* read pointer) is a stuttering step.                                     *)
(***************************************************************************)
EXTENDS Integers, FiniteSets

CONSTANTS
  Channels,     (* channel indices                                          *)
  FrameSize,    (* samples per frame                                        *)
  BufLen,       (* ring capacity in samples per channel                     *)
  Prebuffer,    (* prefill depth in samples                                 *)
  DriftFrames,  (* latency tolerated above the prebuffer (6 in the code)    *)
  DrainFrames,  (* what an overflow leaves above the prebuffer (2)          *)
  Timestamps,   (* the frame timestamps a client can send                   *)
  Lengths       (* the number of samples a packet can decode to             *)

(* Deviation: no room is left for a frame that is partly late. *)
MaxDepth_WholeRing ==
  LET tol == Prebuffer + DriftFrames * FrameSize
  IN IF tol > BufLen THEN BufLen ELSE tol

(* The latency cap: a drift tolerance above the prebuffer, one frame short  *)
(* of the ring at most.                                                     *)
MaxDepth ==
  LET cap == BufLen - FrameSize
      tol == Prebuffer + DriftFrames * FrameSize
  IN IF tol > cap THEN cap ELSE tol

(* The depth an overflow drains to, before it is rounded to a frame. *)
DrainDepth == Prebuffer + DrainFrames * FrameSize

ASSUME SizesAssumption ==
  /\ FrameSize \in Nat \ {0}
  /\ BufLen \in Nat /\ BufLen > FrameSize
  /\ Prebuffer \in Nat
  /\ DriftFrames \in Nat
  /\ DrainFrames \in Nat \ {0}

(* What the session's constants add to what NewJitterBuffer enforces: the   *)
(* drain target is below the latency cap, the ring is long enough.          *)
ASSUME DrainAssumption == DrainDepth <= MaxDepth

(* A packet decodes to at most one frame of the server's frame size. *)
ASSUME InputsAssumption ==
  /\ Timestamps \subseteq Nat
  /\ Lengths \subseteq 1 .. FrameSize

Silence == -1
Slots   == 0 .. BufLen - 1
Slot(t) == t % BufLen

VARIABLES
  buf,      (* buf[c][slot]: the sample in the ring                         *)
  initTs,   (* first timestamp seen, -1 until then                          *)
  writeTs,  (* end of the newest sample written                             *)
  readTs,   (* next sample to read                                          *)
  started,  (* the prebuffer has been reached once                          *)
  live      (* history: times of the samples accepted and not yet passed by *)
            (* the read pointer, per channel                                *)

vars == <<buf, initTs, writeTs, readTs, started, live>>

Sample == Nat \cup {Silence}

TypeOK ==
  /\ buf     \in [Channels -> [Slots -> Sample]]
  /\ initTs  \in Nat \cup {-1}
  /\ writeTs \in Nat
  /\ readTs  \in Nat
  /\ started \in BOOLEAN
  /\ live    \in [Channels -> SUBSET Nat]

Init ==
  /\ buf     = [c \in Channels |-> [p \in Slots |-> Silence]]
  /\ initTs  = -1
  /\ writeTs = 0
  /\ readTs  = 0
  /\ started = FALSE
  /\ live    = [c \in Channels |-> {}]

-----------------------------------------------------------------------------
(* The first write anchors the three pointers at its timestamp. *)
Anchor(ts)   == IF initTs < 0 THEN ts ELSE initTs
ReadFrom(ts) == IF initTs < 0 THEN ts ELSE readTs
Frontier(ts, n) ==
  LET w == IF initTs < 0 THEN ts ELSE writeTs
  IN IF ts + n > w THEN ts + n ELSE w

(* Deviation: not rounded. *)
RoundUp_Not(t, anchor) == t

(* Round a read position up to a frame boundary counted from the anchor. *)
RoundUp(t, anchor) ==
  LET rem == (t - anchor) % FrameSize
  IN IF rem # 0 THEN t + FrameSize - rem ELSE t

(* Deviation: latency grows with every burst. *)
Snap_Never(read, write, anchor) == read

(* Where the read pointer is after the latency bound has been applied. *)
Snap(read, write, anchor) ==
  IF write - read > MaxDepth THEN RoundUp(write - DrainDepth, anchor) ELSE read

(* The samples ts .. ts + n - 1 laid over one channel of the ring. *)
Store(ring, ts, n) ==
  [p \in Slots |->
     IF \E k \in 0 .. n - 1 : Slot(ts + k) = p
       THEN CHOOSE t \in ts .. ts + n - 1 : Slot(t) = p
       ELSE ring[p]]

WriteChannel(ts, c, n) ==
  LET write == Frontier(ts, n)
      read  == Snap(ReadFrom(ts), write, Anchor(ts))
  IN /\ ts + n > ReadFrom(ts)          \* not entirely in the past
     /\ initTs'  = Anchor(ts)
     /\ buf'     = [buf EXCEPT ![c] = Store(@, ts, n)]
     /\ writeTs' = write
     /\ readTs'  = read
     /\ started' = (started \/ write - read >= Prebuffer)
     /\ live'    = [d \in Channels |->
                      {t \in IF d = c THEN live[d] \cup ts .. ts + n - 1 ELSE live[d] :
                         t >= read}]

(* A read that finds a whole frame copies the slots of readTs onwards to its *)
(* caller, clears them and advances.                                         *)
ReadFrame ==
  /\ started
  /\ writeTs - readTs >= FrameSize
  /\ buf' = [c \in Channels |->
               [p \in Slots |->
                  IF \E k \in 0 .. FrameSize - 1 : Slot(readTs + k) = p
                    THEN Silence
                    ELSE buf[c][p]]]
  /\ readTs' = readTs + FrameSize
  /\ live'   = [c \in Channels |-> {t \in live[c] : t >= readTs + FrameSize}]
  /\ UNCHANGED <<initTs, writeTs, started>>

Next ==
  \/ \E ts \in Timestamps, c \in Channels, n \in Lengths : WriteChannel(ts, c, n)
  \/ ReadFrame

Spec == Init /\ [][Next]_vars

-----------------------------------------------------------------------------
(* Properties *)

(* The buffered latency never exceeds the cap, and the read pointer never   *)
(* overtakes the write frontier: no burst, jump or reordering accumulates   *)
(* delay.                                                                   *)
DepthBounded == 0 <= writeTs - readTs /\ writeTs - readTs <= MaxDepth

(* Every sample accepted for a time the reader has not passed is still in   *)
(* the ring: no write, however late or far ahead, lands on a slot that a    *)
(* pending sample occupies.  The cap of bufLen - frameSize is what makes    *)
(* the slots of a partly late frame miss the window.                        *)
WindowIntact ==
  \A c \in Channels : \A t \in live[c] :
    /\ readTs <= t /\ t < writeTs
    /\ buf[c][Slot(t)] = t

(* Nothing pending for a time t was recorded later than t: the ring never   *)
(* plays a sample of its next lap early.                                    *)
Pending == readTs .. writeTs - 1

NeverEarly == \A c \in Channels : \A t \in Pending : buf[c][Slot(t)] <= t

(* Whole-frame reads stay aligned to the client's frames: the read pointer  *)
(* is always a whole number of frames from the anchor.                      *)
FrameAligned == initTs >= 0 => (readTs - initTs) % FrameSize = 0

(* An overflow skips forward only, and leaves enough to read at once that   *)
(* the next tick cannot underrun.                                           *)
SnapForward ==
  [][initTs >= 0 =>
       /\ readTs' >= readTs
       /\ writeTs' # writeTs /\ readTs' # readTs => writeTs' - readTs' > Prebuffer]_vars
=============================================================================
