------------------------------ MODULE MixTick ------------------------------
(***************************************************************************)
(* The arithmetic of a room's mix clock: Room.mixClock with accumulate,    *)
(* subtractAndSaturate and Session.ReadInputFrame (with its VAD gate).     *)
(*                                                                         *)
(* The clock owns one input buffer per roster position and reuses it from  *)
(* tick to tick, while the roster it works on is a snapshot taken in map   *)
(* order: position n may hold what another participant left there.  A      *)
(* frame is abstracted to one sample of channel 0, the channel the VAD     *)
(* looks at.  Which clock runs when is the business of RoomLifecycle.      *)
(***************************************************************************)
EXTENDS Integers, Sequences, FiniteSets, SequencesExt

CONSTANTS
  Participants,
  None,
  Samples,      (* the samples a jitter buffer can yield                    *)
  Limit,        (* largest output sample (32767)                            *)
  Threshold,    (* vadGate.threshold, 0 disables the gate                   *)
  Hangover,     (* vadGate.hangover                                         *)
  FrameSize,
  TsMod         (* 2^32, the range of mixTs                                 *)

ASSUME MixAssumption ==
  /\ Samples \subseteq Int /\ 0 \in Samples
  /\ Limit \in Nat /\ Threshold \in Nat /\ Hangover \in Nat
  /\ FrameSize \in Nat \ {0} /\ TsMod \in Nat \ {0}
  /\ None \notin Nat

VARIABLES
  roster,     (* Room.members                                               *)
  order,      (* the snapshot of this tick                                  *)
  phase,
  next,       (* next position of the snapshot                              *)
  acc,        (* the unsaturated sum                                        *)
  inbufs,     (* the input buffers, one per position ever needed            *)
  mixTs,
  remaining,  (* vadGate.remaining of each participant                      *)
  lastTs,     (* history: timestamp of the last mix each was handed         *)
  contrib,    (* history: what each contributed to the current tick         *)
  quiet       (* history: frames since the last loud one, per participant   *)

tickVars == <<order, phase, next, acc, inbufs, mixTs>>
vars     == <<roster, tickVars, remaining, lastTs, contrib, quiet>>

TypeOK ==
  /\ roster \subseteq Participants
  /\ order \in Seq(Participants)
  /\ phase \in {"wait", "accumulate", "submit"}
  /\ next \in Nat /\ acc \in Int
  /\ inbufs \in Seq(Samples)
  /\ mixTs \in 0 .. TsMod - 1
  /\ remaining \in [Participants -> 0 .. Hangover]
  /\ lastTs  \in [Participants -> (0 .. TsMod - 1) \cup {None}]
  /\ contrib \in [Participants -> Samples]
  /\ quiet   \in [Participants -> 0 .. Hangover + 1]

Init ==
  /\ roster    = {}
  /\ order     = <<>>
  /\ phase     = "wait"
  /\ next      = 1
  /\ acc       = 0
  /\ inbufs    = <<>>
  /\ mixTs     = 0
  /\ remaining = [p \in Participants |-> 0]
  /\ lastTs    = [p \in Participants |-> None]
  /\ contrib   = [p \in Participants |-> 0]
  /\ quiet     = [p \in Participants |-> Hangover + 1]

-----------------------------------------------------------------------------
(* A new participant comes with a fresh VAD gate. *)
Join(p) ==
  /\ p \notin roster
  /\ p \notin Range(order)          \* its id is new, no snapshot knows it
  /\ roster'    = roster \cup {p}
  /\ remaining' = [remaining EXCEPT ![p] = 0]
  /\ quiet'     = [quiet EXCEPT ![p] = Hangover + 1]
  /\ lastTs'    = [lastTs EXCEPT ![p] = None]
  /\ UNCHANGED <<tickVars, contrib>>

Leave(p) ==
  /\ p \in roster
  /\ roster' = roster \ {p}
  /\ UNCHANGED <<tickVars, remaining, lastTs, contrib, quiet>>

(* The timer fires: snapshot the roster, grow inbufs to its size, zero acc. *)
Tick ==
  /\ phase = "wait"
  /\ roster # {}
  /\ \E s \in SetToSeqs(roster) : order' = s
  /\ phase'   = "accumulate"
  /\ next'    = 1
  /\ acc'     = 0
  /\ inbufs'  = inbufs \o [n \in 1 .. Cardinality(roster) - Len(inbufs) |-> 0]
  /\ contrib' = [p \in Participants |-> 0]
  /\ UNCHANGED <<roster, mixTs, remaining, lastTs, quiet>>

(* Next position of the loop; the loop that is done hands over to the other. *)
Advance(to) ==
  IF next = Len(order) THEN /\ next'  = 1
                            /\ phase' = to
                       ELSE /\ next'  = next + 1
                            /\ UNCHANGED phase

Loud(v) == v >= Threshold \/ -v >= Threshold

(* The buffer of a position that contributes nothing; in the deviation it   *)
(* keeps what the last tick left.                                           *)
Zeroed_Not(n) == inbufs
Zeroed(n)     == [inbufs EXCEPT ![n] = 0]

(* A member that is still prebuffering: its buffer is zeroed. *)
ReadNothing ==
  /\ phase = "accumulate"
  /\ inbufs' = Zeroed(next)
  /\ Advance("submit")
  /\ UNCHANGED <<roster, order, acc, mixTs, remaining, lastTs, contrib, quiet>>

(* vadGate: the frames the gate stays open for; the deviation does not      *)
(* count a frame of the hangover.                                           *)
Hold_OnlyLoud(p, v) == IF Loud(v) THEN Hangover ELSE remaining[p]
Hold(p, v) ==
  IF Threshold = 0 THEN remaining[p] ELSE IF Loud(v) THEN Hangover ELSE remaining[p] - 1

(* A member whose frame passes the VAD gate: loud, in its hangover, or the  *)
(* gate is off.                                                             *)
ReadActive(v) ==
  LET p == order[next]
  IN /\ phase = "accumulate"
     /\ Loud(v) \/ remaining[p] > 0
     /\ inbufs'    = [inbufs EXCEPT ![next] = v]
     /\ acc'       = acc + v
     /\ contrib'   = [contrib EXCEPT ![p] = v]
     /\ remaining' = [remaining EXCEPT ![p] = Hold(p, v)]
     /\ quiet'     = [quiet EXCEPT ![p] = IF Loud(v) THEN 0 ELSE @ + 1]
     /\ Advance("submit")
     /\ UNCHANGED <<roster, order, mixTs, lastTs>>

(* A member gated as silent: the frame was read into its buffer, which      *)
(* accumulate zeroes because ReadInputFrame returned false.                 *)
ReadGated(v) ==
  LET p == order[next]
  IN /\ phase = "accumulate"
     /\ ~Loud(v) /\ remaining[p] = 0
     /\ inbufs' = Zeroed(next)
     /\ quiet'  = [quiet EXCEPT ![p] = Hangover + 1]
     /\ Advance("submit")
     /\ UNCHANGED <<roster, order, acc, mixTs, remaining, lastTs, contrib>>

Saturate(v) == IF v > Limit THEN Limit ELSE IF v < -Limit - 1 THEN -Limit - 1 ELSE v

(* What the member at a position is handed. *)
MinusOne(n) == Saturate(acc - inbufs[n])

(* Mix time after a tick; in the deviation it stands still on a silent one. *)
NextMixTs_IfHeard == IF acc = 0 THEN mixTs ELSE (mixTs + FrameSize) % TsMod
NextMixTs         == (mixTs + FrameSize) % TsMod

(* SubmitMix of the next member; mix time advances after the last one. *)
Submit ==
  /\ phase = "submit"
  /\ lastTs' = [lastTs EXCEPT ![order[next]] = mixTs]
  /\ Advance("wait")
  /\ IF next = Len(order)
       THEN /\ mixTs' = NextMixTs
            /\ order' = <<>>
       ELSE UNCHANGED <<mixTs, order>>
  /\ UNCHANGED <<roster, acc, inbufs, remaining, contrib, quiet>>

Next ==
  \/ \E p \in Participants : Join(p) \/ Leave(p)
  \/ Tick
  \/ ReadNothing
  \/ \E v \in Samples : ReadActive(v) \/ ReadGated(v)
  \/ Submit

Spec == Init /\ [][Next]_vars

-----------------------------------------------------------------------------
(* Properties *)

(* Everybody hears the saturated sum of what the OTHERS contributed to this *)
(* tick, whoever used its buffer before and whether or not it contributed   *)
(* itself: subtracting one's own buffer from the unsaturated sum is exact.  *)
SumOfOthers(n) ==
  LET sum[i \in 0 .. Len(order)] ==
        IF i = 0 THEN 0 ELSE sum[i - 1] + (IF i = n THEN 0 ELSE contrib[order[i]])
  IN sum[Len(order)]

HearsOthers ==
  phase = "submit" => \A n \in DOMAIN order : MinusOne(n) = Saturate(SumOfOthers(n))

(* The gate closes only after Hangover quiet frames in a row, and does      *)
(* close then: whoever contributed was loud at most Hangover frames ago.    *)
HangoverExact ==
  Threshold > 0 =>
    \A p \in Participants : remaining[p] + quiet[p] \in {Hangover, Hangover + 1}

(* The mixes a participant is handed are one frame apart in mix time, from  *)
(* its first one to its last: no tick skips it and none serves it twice.    *)
MixTimeContiguous ==
  [][Submit => lastTs[order[next]] \in {None, (mixTs - FrameSize) % TsMod}]_vars
=============================================================================
