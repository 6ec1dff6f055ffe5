------------------------------ MODULE Playback ------------------------------
(***************************************************************************)
(* The client's playback: the ring buffer of the receiver worklet          *)
(* (client/worklet-receiver.js) and the loop on the page that adapts its   *)
(* depth (_startPrebufAdaptation in client/engine.js).  Frames and         *)
(* settings reach the worklet through its message port, in order, and      *)
(* between two render quanta; taking a message late is posting it late, so *)
(* posting and taking it are one step here.                                *)
(*                                                                         *)
(* All channels of a frame are written and read together: a position of    *)
(* the ring holds one sample, known by the time it was recorded for.       *)
(***************************************************************************)
EXTENDS Integers

CONSTANTS
  FrameSize,    (* samples per frame                                       *)
  Block,        (* samples per render quantum                              *)
  BufLen,       (* samples in the ring                                     *)
  CapFrames,    (* frames above the prebuffer at which the reader skips: 6 *)
  KeepFrames,   (* frames above the prebuffer it skips to: 2               *)
  MinPrebuf, MaxPrebuf,   (* limits of the prebuffer: 1.5 and 6 frames     *)
  Jitters,      (* values of the measured jitter, times PREBUF_JITTER_K    *)
  Threshold     (* PREBUF_UNDERRUN_THRESHOLD                               *)

ASSUME PlaybackAssumption ==
  /\ FrameSize \in Nat \ {0} /\ Block \in Nat \ {0} /\ BufLen \in Nat
  /\ CapFrames \in Nat /\ KeepFrames \in 0 .. CapFrames
  /\ MinPrebuf \in Nat /\ MaxPrebuf \in Nat /\ MinPrebuf <= MaxPrebuf
  /\ MaxPrebuf + (CapFrames + 1) * FrameSize <= BufLen
  /\ Jitters \subseteq Nat /\ Threshold \in Nat

VARIABLES
  buf,          (* _buf: the time of each sample, Silence for a zero       *)
  initTs, readTs, writeTs, started,
  prebuffer,    (* _prebuffer of the worklet and _dynPrebuffer of the page *)
  isUnderrunning,
  underrunCount,(* of this adaptation window, counted up to Threshold + 1  *)
  live          (* history: times written and not yet passed by the reader *)

ringVars == <<buf, initTs, readTs, writeTs, started, live>>
playVars == <<ringVars, prebuffer, isUnderrunning, underrunCount>>

Silence == -1
Depth   == writeTs - readTs

PlayTypeOK ==
  /\ buf \in [0 .. BufLen - 1 -> Int] /\ \A i \in 0 .. BufLen - 1 : buf[i] >= Silence
  /\ initTs \in Int /\ initTs >= -1
  /\ readTs \in Nat /\ writeTs \in Nat /\ readTs <= writeTs
  /\ started \in BOOLEAN
  /\ prebuffer \in MinPrebuf .. MaxPrebuf
  /\ isUnderrunning \in BOOLEAN
  /\ underrunCount \in 0 .. Threshold + 1
  /\ live \subseteq readTs .. writeTs - 1

Empty == [i \in 0 .. BufLen - 1 |-> Silence]

PlayInit ==
  /\ buf     = Empty
  /\ initTs  = -1
  /\ readTs  = 0
  /\ writeTs = 0
  /\ started = FALSE
  /\ live    = {}
  /\ prebuffer \in MinPrebuf .. MaxPrebuf
  /\ isUnderrunning = FALSE
  /\ underrunCount  = 0

-----------------------------------------------------------------------------
(* The worklet *)

Larger(a, b) == IF a > b THEN a ELSE b

(* Deviation: the reader is left where it is. *)
Skip_Never(from, to) == from

(* Where the reader stands after a frame: above the cap it skips ahead. *)
Skip(from, to) == IF to - from > prebuffer + CapFrames * FrameSize
                    THEN to - (prebuffer + KeepFrames * FrameSize) ELSE from

(* The positions of a frame's samples. *)
Positions(ts) == [s \in 0 .. FrameSize - 1 |-> (ts + s) % BufLen]

WriteFrame(ts) ==
  LET at   == Positions(ts)
      from == IF initTs < 0 THEN ts ELSE readTs
      to   == Larger(IF initTs < 0 THEN ts ELSE writeTs, ts + FrameSize)
  IN /\ buf' = [i \in 0 .. BufLen - 1 |->
                  IF \E s \in DOMAIN at : at[s] = i
                    THEN ts + (CHOOSE s \in DOMAIN at : at[s] = i) ELSE buf[i]]
     /\ initTs'  = IF initTs < 0 THEN ts ELSE initTs
     /\ writeTs' = to
     /\ readTs'  = Skip(from, to)
     /\ live'    = {t \in live \cup ts .. ts + FrameSize - 1 : t >= readTs'}
     /\ started' = (started \/ to - Skip(from, to) >= prebuffer)
     /\ UNCHANGED <<prebuffer, isUnderrunning, underrunCount>>

(* A quantum with too little buffered: silence, reported once per underrun. *)
Underrun ==
  /\ started
  /\ Depth < Block
  /\ ~isUnderrunning
  /\ isUnderrunning' = TRUE
  /\ underrunCount'  = IF underrunCount > Threshold THEN underrunCount ELSE underrunCount + 1
  /\ UNCHANGED <<ringVars, prebuffer>>

(* Deviation: the loop that zeroes what was played runs once too often. *)
AfterPlay_OneMore ==
  [i \in 0 .. BufLen - 1 |->
     IF \E s \in 0 .. Block : (readTs + s) % BufLen = i THEN Silence ELSE buf[i]]

(* The ring after a quantum: what was played is zeroed. *)
AfterPlay ==
  [i \in 0 .. BufLen - 1 |->
     IF \E s \in 0 .. Block - 1 : (readTs + s) % BufLen = i THEN Silence ELSE buf[i]]

Process ==
  /\ started
  /\ Depth >= Block
  /\ buf'    = AfterPlay
  /\ readTs' = readTs + Block
  /\ live'   = {t \in live : t >= readTs'}
  /\ isUnderrunning' = FALSE
  /\ UNCHANGED <<initTs, writeTs, started, prebuffer, underrunCount>>

-----------------------------------------------------------------------------
(* The page *)

(* The reanchor message: the next frame is a fresh origin. *)
Reanchor ==
  /\ buf'     = Empty
  /\ initTs'  = -1
  /\ readTs'  = 0
  /\ writeTs' = 0
  /\ started' = FALSE
  /\ live'    = {}
  /\ isUnderrunning' = FALSE

(* startAudio: the user presses Play. *)
StartAudio ==
  /\ Reanchor
  /\ UNCHANGED <<prebuffer, underrunCount>>

Within(n) == IF n < MinPrebuf THEN MinPrebuf ELSE IF n > MaxPrebuf THEN MaxPrebuf ELSE n
Target(jitter) == Within(jitter + FrameSize)

(* A window with too many underruns: deeper, and anchored anew. *)
Grow(jitter) ==
  LET next == Within(Larger(Target(jitter), prebuffer + FrameSize))
  IN /\ underrunCount > Threshold
     /\ underrunCount' = 0
     /\ prebuffer' = next
     /\ IF next # prebuffer
          THEN Reanchor
          ELSE UNCHANGED <<ringVars, isUnderrunning>>

(* A window with few underruns: steady; one without: half a frame towards   *)
(* the target.                                                              *)
Settle(jitter) ==
  /\ underrunCount <= Threshold
  /\ underrunCount' = 0
  /\ prebuffer' = IF underrunCount = 0 /\ prebuffer > Target(jitter)
                    THEN Larger(Target(jitter), prebuffer - (FrameSize + 1) \div 2)
                    ELSE prebuffer
  /\ UNCHANGED <<ringVars, isUnderrunning>>

PlayStep ==
  \/ Underrun \/ Process \/ StartAudio
  \/ \E jitter \in Jitters : Grow(jitter) \/ Settle(jitter)

-----------------------------------------------------------------------------
(* Properties *)

(* A sample that was written is in its place until the reader has passed    *)
(* it: no later frame, a lap ahead, overwrites it.                          *)
FramesIntact == \A t \in live : buf[t % BufLen] = t

(* What is buffered, and so the delay, never exceeds the cap for the        *)
(* deepest prebuffer.                                                       *)
DelayBounded == Depth <= MaxPrebuf + CapFrames * FrameSize

=============================================================================
