--------------------------- MODULE MixTick_proofs ---------------------------
(***************************************************************************)
(* The mix clock's arithmetic for any participants, samples, gate, frame   *)
(* size and range of the mix time.                                         *)
(***************************************************************************)
EXTENDS MixTick, FiniteSetTheorems, WellFoundedInduction, TLAPS

Positions == 1 .. Len(order)

(* Every step is one of these. *)
LEMMA StepCases ==
  ASSUME [Next]_vars, NEW P,
         \A p \in Participants : (Join(p) => P) /\ (Leave(p) => P),
         Tick => P, ReadNothing => P,
         \A v \in Samples : (ReadActive(v) => P) /\ (ReadGated(v) => P),
         Submit => P, UNCHANGED vars => P
  PROVE  P
BY DEF Next

-----------------------------------------------------------------------------
(* The snapshot *)

SnapshotInv ==
  /\ IsFiniteSet(roster)
  /\ phase = "wait" => order = <<>>
  /\ phase # "wait" => next \in Positions /\ Len(order) <= Len(inbufs)
  /\ \A i, j \in Positions : order[i] = order[j] => i = j

(* What one loop over the positions of the snapshot does with its index. *)
LEMMA Advanced ==
  ASSUME TypeOK, SnapshotInv, phase # "wait", NEW to, Advance(to)
  PROVE  /\ next \in Positions /\ order[next] \in Participants
         /\ \/ next = Len(order) /\ next' = 1 /\ phase' = to
            \/ next < Len(order) /\ next' = next + 1 /\ phase' = phase /\ next' \in Positions
<1>1. next \in 1 .. Len(order) /\ Len(order) \in Nat
  BY DEF TypeOK, SnapshotInv, Positions
<1>2. order[next] \in Participants
  BY <1>1 DEF TypeOK
<1>3. \/ next = Len(order) /\ next' = 1 /\ phase' = to
      \/ next < Len(order) /\ next' = next + 1 /\ phase' = phase /\ next + 1 \in 1 .. Len(order)
  BY <1>1 DEF Advance
<1> QED
  BY <1>1, <1>2, <1>3 DEF Positions

(* The snapshot has every member of the roster, each once, whatever the     *)
(* order of the map.                                                        *)
LEMMA Snapshot ==
  ASSUME TypeOK, SnapshotInv, Tick
  PROVE  /\ order' \in Seq(Participants) /\ Len(order') = Cardinality(roster)
         /\ Len(order') \in Nat \ {0}
         /\ \A i \in 1 .. Len(order') : order'[i] \in roster
         /\ \A i, j \in 1 .. Len(order') : order'[i] = order'[j] => i = j
         /\ \A p \in roster : \E i \in 1 .. Len(order') : order'[i] = p
<1>1. PICK n \in Nat : n = Cardinality(roster)
  BY FS_CardinalityType DEF SnapshotInv
<1>2. n # 0
  BY <1>1, FS_EmptySet DEF Tick, SnapshotInv
<1>3. PICK s \in [1 .. n -> roster] :
        order' = s /\ \A i, j \in 1 .. n : i # j => s[i] # s[j]
  BY <1>1 DEF Tick, SetToSeqs
<1>4. s \in Seq(Participants) /\ Len(s) = n
  BY <1>3 DEF TypeOK
<1>5. s \in Injection(1 .. n, roster)
  BY <1>3 DEF Injection, IsInjective
<1>6. IsFiniteSet(1 .. n) /\ Cardinality(1 .. n) = n
  <2>1. 1 \in Int /\ n \in Int
    BY <1>1
  <2> QED
    BY <1>2, <2>1, FS_Interval
<1>7. s \in Surjection(1 .. n, roster)
  BY <1>1, <1>5, <1>6, FS_Injection DEF SnapshotInv
<1>8. \A p \in roster : \E i \in 1 .. n : s[i] = p
  BY <1>7 DEF Surjection
<1> QED
  BY <1>1, <1>2, <1>3, <1>4, <1>8

LEMMA SnapshotKept ==
  ASSUME TypeOK, SnapshotInv, [Next]_vars
  PROVE  SnapshotInv'
<1>1. ASSUME NEW p \in Participants PROVE Join(p) => SnapshotInv'
  <2> SUFFICES ASSUME Join(p) PROVE SnapshotInv'
    OBVIOUS
  <2>1. IsFiniteSet(roster \cup {p})
    BY FS_AddElement DEF SnapshotInv
  <2> QED
    BY <2>1 DEF Join, tickVars, SnapshotInv, Positions
<1>2. ASSUME NEW p \in Participants PROVE Leave(p) => SnapshotInv'
  <2> SUFFICES ASSUME Leave(p) PROVE SnapshotInv'
    OBVIOUS
  <2>1. IsFiniteSet(roster \ {p})
    BY FS_Subset DEF SnapshotInv
  <2> QED
    BY <2>1 DEF Leave, tickVars, SnapshotInv, Positions
<1>3. Tick => SnapshotInv'
  <2> SUFFICES ASSUME Tick PROVE SnapshotInv'
    OBVIOUS
  <2>1. PICK k \in Int : k = Cardinality(roster) - Len(inbufs)
    BY FS_CardinalityType DEF TypeOK, SnapshotInv
  <2>2. PICK z : z = [n \in 1 .. k |-> 0]
    OBVIOUS
  <2>3. z \in Seq({0}) /\ Len(z) >= k
    <3>1. CASE k >= 0
      BY <2>2, <3>1
    <3>2. CASE k < 0
      <4>1. z = [n \in 1 .. 0 |-> 0]
        <5>1. 1 .. k = 1 .. 0
          BY <3>2
        <5> QED
          BY <2>2, <5>1
      <4> QED
        BY <3>2, <4>1
    <3> QED
      BY <3>1, <3>2
  <2>4. inbufs' = inbufs \o z
    BY <2>1, <2>2 DEF Tick
  <2>5. Len(inbufs') >= Cardinality(roster)
    <3>1. inbufs \in Seq(Samples) /\ Len(inbufs') = Len(inbufs) + Len(z)
      BY <2>3, <2>4 DEF TypeOK
    <3> QED
      BY <2>1, <2>3, <3>1, FS_CardinalityType DEF SnapshotInv
  <2>6. phase' = "accumulate" /\ next' = 1 /\ roster' = roster
    BY DEF Tick
  <2> QED
    BY <2>5, <2>6, Snapshot DEF SnapshotInv, Positions
<1>4. ASSUME NEW to, to \in {"submit", "wait"}, phase # "wait", Advance(to), UNCHANGED roster,
             Len(inbufs') = Len(inbufs),
             order' = IF next = Len(order) /\ to = "wait" THEN <<>> ELSE order
      PROVE  SnapshotInv'
  <2>1. CASE next = Len(order) /\ to = "wait"
    BY <1>4, <2>1 DEF Advance, SnapshotInv, Positions
  <2>2. CASE ~(next = Len(order) /\ to = "wait")
    <3>1. order' = order /\ Positions' = Positions
      BY <1>4, <2>2 DEF Positions
    <3>2. next' \in Positions /\ phase' # "wait"
      BY <1>4, <2>2, Advanced DEF Positions, TypeOK
    <3> QED
      BY <1>4, <3>1, <3>2 DEF SnapshotInv
  <2> QED
    BY <2>1, <2>2
<1>5. ASSUME NEW v \in Samples, NEW n \in Positions, phase # "wait"
      PROVE  Len([inbufs EXCEPT ![n] = v]) = Len(inbufs)
  BY DEF TypeOK
<1>6. ReadNothing => SnapshotInv'
  BY <1>4, <1>5, MixAssumption DEF ReadNothing, Zeroed, SnapshotInv
<1>7. ASSUME NEW v \in Samples PROVE (ReadActive(v) => SnapshotInv') /\ (ReadGated(v) => SnapshotInv')
  BY <1>4, <1>5, MixAssumption DEF ReadActive, ReadGated, Zeroed, SnapshotInv
<1>8. Submit => SnapshotInv'
  BY <1>4 DEF Submit
<1>9. UNCHANGED vars => SnapshotInv'
  BY DEF vars, tickVars, SnapshotInv, Positions
<1> QED
  BY <1>1, <1>2, <1>3, <1>6, <1>7, <1>8, <1>9, StepCases

-----------------------------------------------------------------------------
(* Types, and the gate *)

MixInv == TypeOK /\ SnapshotInv /\ HangoverExact

(* A frame that is not loud means that there is a gate.                     *)
LEMMA QuietMeansGated ==
  ASSUME NEW v \in Samples, ~Loud(v)
  PROVE  Threshold > 0
BY MixAssumption DEF Loud

LEMMA HangoverKept ==
  ASSUME TypeOK, SnapshotInv, HangoverExact, [Next]_vars
  PROVE  HangoverExact'
<1>0. /\ Hangover \in Nat
      /\ remaining \in [Participants -> 0 .. Hangover]
      /\ quiet \in [Participants -> 0 .. Hangover + 1]
  BY MixAssumption DEF TypeOK
<1>1. ASSUME NEW p \in Participants,
             \A o \in Participants \ {p} : remaining'[o] = remaining[o] /\ quiet'[o] = quiet[o],
             Threshold > 0 => remaining'[p] + quiet'[p] \in {Hangover, Hangover + 1}
      PROVE  HangoverExact'
  BY <1>1 DEF HangoverExact
<1>2. UNCHANGED <<remaining, quiet>> => HangoverExact'
  BY DEF HangoverExact
<1>3. ASSUME NEW p \in Participants PROVE (Join(p) => HangoverExact') /\ (Leave(p) => HangoverExact')
  <2>1. ASSUME Join(p) PROVE HangoverExact'
    <3>1. /\ remaining'[p] = 0 /\ quiet'[p] = Hangover + 1
          /\ \A o \in Participants \ {p} : remaining'[o] = remaining[o] /\ quiet'[o] = quiet[o]
      BY <1>0, <2>1 DEF Join
    <3> QED
      BY <1>0, <1>1, <3>1
  <2> QED
    BY <1>2, <2>1 DEF Leave
<1>4. (Tick => HangoverExact') /\ (ReadNothing => HangoverExact') /\ (Submit => HangoverExact')
      /\ (UNCHANGED vars => HangoverExact')
  BY <1>2 DEF Tick, ReadNothing, Submit, vars
<1>5. ASSUME NEW v \in Samples, ReadActive(v) PROVE HangoverExact'
  <2>1. PICK p \in Participants : p = order[next]
    BY <1>5, Advanced DEF ReadActive
  <2>2. /\ remaining' = [remaining EXCEPT ![p] = Hold(p, v)]
        /\ quiet' = [quiet EXCEPT ![p] = IF Loud(v) THEN 0 ELSE quiet[p] + 1]
        /\ Loud(v) \/ remaining[p] > 0
    BY <1>5, <2>1 DEF ReadActive
  <2>5. /\ remaining'[p] = Hold(p, v) /\ quiet'[p] = IF Loud(v) THEN 0 ELSE quiet[p] + 1
        /\ \A o \in Participants \ {p} : remaining'[o] = remaining[o] /\ quiet'[o] = quiet[o]
    BY <1>0, <2>2
  <2>3. CASE Loud(v)
    <3>1. Threshold > 0 => Hold(p, v) = Hangover
      BY <2>3, MixAssumption DEF Hold
    <3>2. Threshold > 0 => remaining'[p] + quiet'[p] \in {Hangover, Hangover + 1}
      BY <1>0, <2>3, <2>5, <3>1
    <3> QED
      BY <1>1, <2>5, <3>2
  <2>4. CASE ~Loud(v)
    <3>1. Threshold > 0 /\ Hold(p, v) = remaining[p] - 1
      BY <2>4, QuietMeansGated, MixAssumption DEF Hold
    <3>2. remaining[p] + quiet[p] \in {Hangover, Hangover + 1}
      BY <3>1 DEF HangoverExact
    <3>3. remaining[p] \in Int /\ quiet[p] \in Int
      BY <1>0
    <3>4. remaining'[p] + quiet'[p] \in {Hangover, Hangover + 1}
      BY <2>4, <2>5, <3>1, <3>2, <3>3
    <3> QED
      BY <1>1, <2>5, <3>4
  <2> QED
    BY <2>3, <2>4
<1>6. ASSUME NEW v \in Samples, ReadGated(v) PROVE HangoverExact'
  <2>1. PICK p \in Participants : p = order[next]
    BY <1>6, Advanced DEF ReadGated
  <2>2. remaining[p] = 0 /\ quiet' = [quiet EXCEPT ![p] = Hangover + 1] /\ remaining' = remaining
    BY <1>6, <2>1 DEF ReadGated
  <2>3. /\ remaining'[p] = 0 /\ quiet'[p] = Hangover + 1
        /\ \A o \in Participants \ {p} : remaining'[o] = remaining[o] /\ quiet'[o] = quiet[o]
    BY <1>0, <2>2
  <2> QED
    BY <1>0, <1>1, <2>3
<1> QED
  BY <1>3, <1>4, <1>5, <1>6, StepCases

LEMMA TypeKept ==
  ASSUME TypeOK, SnapshotInv, HangoverExact, [Next]_vars
  PROVE  TypeOK'
<1>0. /\ Hangover \in Nat /\ 0 \in Samples /\ Samples \subseteq Int
      /\ FrameSize \in Nat \ {0} /\ TsMod \in Nat \ {0}
      /\ 0 .. Hangover \subseteq Int
  BY MixAssumption
<1>1. ASSUME NEW n \in Positions, NEW v \in Samples, phase # "wait"
      PROVE  [inbufs EXCEPT ![n] = v] \in Seq(Samples)
  <2>1. inbufs \in Seq(Samples) /\ n \in 1 .. Len(inbufs)
    BY <1>1 DEF TypeOK, SnapshotInv, Positions
  <2> QED
    BY <2>1
<1>2. ASSUME NEW p \in Participants PROVE (Join(p) => TypeOK') /\ (Leave(p) => TypeOK')
  <2>1. ASSUME Join(p) PROVE TypeOK'
    <3>1. /\ remaining' \in [Participants -> 0 .. Hangover]
          /\ quiet' \in [Participants -> 0 .. Hangover + 1]
      BY <1>0, <2>1 DEF Join, TypeOK
    <3>2. lastTs' \in [Participants -> (0 .. TsMod - 1) \cup {None}]
      BY <2>1 DEF Join, TypeOK
    <3> QED
      BY <2>1, <3>1, <3>2 DEF Join, tickVars, TypeOK
  <2>2. ASSUME Leave(p) PROVE TypeOK'
    BY <2>2 DEF Leave, tickVars, TypeOK
  <2> QED
    BY <2>1, <2>2
<1>3. Tick => TypeOK'
  <2> SUFFICES ASSUME Tick PROVE TypeOK'
    OBVIOUS
  <2>1. inbufs' \in Seq(Samples)
    <3>1. PICK k \in Int : k = Cardinality(roster) - Len(inbufs)
      BY FS_CardinalityType DEF TypeOK, SnapshotInv
    <3>2. [n \in 1 .. k |-> 0] \in Seq(Samples)
      <4>1. CASE k >= 0
        BY <1>0, <4>1
      <4>2. CASE k < 0
        <5>1. 1 .. k = 1 .. 0
          BY <4>2
        <5>2. [n \in 1 .. 0 |-> 0] \in Seq(Samples)
          BY <1>0
        <5> QED
          BY <5>1, <5>2
      <4> QED
        BY <4>1, <4>2
    <3> QED
      BY <3>1, <3>2 DEF Tick, TypeOK
  <2>2. contrib' \in [Participants -> Samples]
    BY <1>0 DEF Tick
  <2> QED
    <3>1. /\ order' \in Seq(Participants) /\ phase' = "accumulate" /\ next' = 1 /\ acc' = 0
          /\ UNCHANGED <<roster, mixTs, remaining, lastTs, quiet>>
      BY Snapshot DEF Tick
    <3> QED
      BY <2>1, <2>2, <3>1 DEF TypeOK
<1>4. ReadNothing => TypeOK'
  <2> SUFFICES ASSUME ReadNothing PROVE TypeOK'
    OBVIOUS
  <2>1. next \in Positions /\ next' \in Nat /\ phase' \in {"accumulate", "submit"}
    <3>1. phase = "accumulate" /\ Advance("submit")
      BY DEF ReadNothing
    <3>2. next \in Nat
      BY DEF TypeOK
    <3> QED
      BY <3>1, <3>2, Advanced
  <2>2. inbufs' \in Seq(Samples)
    BY <1>0, <1>1, <2>1 DEF ReadNothing, Zeroed
  <2> QED
    BY <2>1, <2>2 DEF ReadNothing, TypeOK
<1>5. ASSUME NEW v \in Samples, ReadActive(v) PROVE TypeOK'
  <2>1. /\ next \in Positions /\ next' \in Nat /\ phase' \in {"accumulate", "submit"}
        /\ order[next] \in Participants
    <3>1. phase = "accumulate" /\ Advance("submit")
      BY <1>5 DEF ReadActive
    <3>2. next \in Nat
      BY DEF TypeOK
    <3> QED
      BY <3>1, <3>2, Advanced
  <2>2. inbufs' \in Seq(Samples)
    BY <1>1, <1>5, <2>1 DEF ReadActive
  <2>3. acc' \in Int /\ contrib' \in [Participants -> Samples]
    BY <1>0, <1>5, <2>1 DEF ReadActive, TypeOK
  <2>4. PICK p \in Participants : p = order[next]
    BY <2>1
  <2>5. /\ remaining' = [remaining EXCEPT ![p] = Hold(p, v)]
        /\ quiet' = [quiet EXCEPT ![p] = IF Loud(v) THEN 0 ELSE quiet[p] + 1]
        /\ Loud(v) \/ remaining[p] > 0
        /\ remaining[p] \in 0 .. Hangover /\ quiet[p] \in 0 .. Hangover + 1
    BY <1>5, <2>4 DEF ReadActive, TypeOK
  <2>6. Hold(p, v) \in 0 .. Hangover /\ (~Loud(v) => quiet[p] + 1 \in 0 .. Hangover + 1)
    <3>1. CASE Loud(v)
      BY <1>0, <2>5, <3>1 DEF Hold
    <3>2. CASE ~Loud(v)
      <4>1. Threshold > 0 /\ Hold(p, v) = remaining[p] - 1
        BY <3>2, QuietMeansGated, MixAssumption DEF Hold
      <4>2. remaining[p] + quiet[p] \in {Hangover, Hangover + 1}
        BY <4>1 DEF HangoverExact
      <4> QED
        BY <1>0, <2>5, <3>2, <4>1, <4>2
    <3> QED
      BY <3>1, <3>2
  <2>7. remaining' \in [Participants -> 0 .. Hangover] /\ quiet' \in [Participants -> 0 .. Hangover + 1]
    BY <1>0, <2>5, <2>6 DEF TypeOK
  <2> QED
    BY <1>5, <2>1, <2>2, <2>3, <2>7 DEF ReadActive, TypeOK
<1>6. ASSUME NEW v \in Samples, ReadGated(v) PROVE TypeOK'
  <2>1. next \in Positions /\ next' \in Nat /\ phase' \in {"accumulate", "submit"}
    BY <1>6, Advanced DEF ReadGated, Positions, TypeOK
  <2>2. inbufs' \in Seq(Samples)
    BY <1>0, <1>1, <1>6, <2>1 DEF ReadGated, Zeroed
  <2>3. quiet' \in [Participants -> 0 .. Hangover + 1]
    <3>1. quiet' = [quiet EXCEPT ![order[next]] = Hangover + 1] /\ Hangover + 1 \in 0 .. Hangover + 1
      BY <1>0, <1>6 DEF ReadGated
    <3> QED
      BY <3>1 DEF TypeOK
  <2>4. UNCHANGED <<roster, order, acc, mixTs, remaining, lastTs, contrib>>
    BY <1>6 DEF ReadGated
  <2> QED
    BY <2>1, <2>2, <2>3, <2>4 DEF TypeOK
<1>7. Submit => TypeOK'
  <2> SUFFICES ASSUME Submit PROVE TypeOK'
    OBVIOUS
  <2>1. next \in Positions /\ next' \in Nat /\ phase' \in {"submit", "wait"}
    BY Advanced DEF Submit, Positions, TypeOK
  <2>2. mixTs' \in 0 .. TsMod - 1
    <3>1. mixTs + FrameSize \in Int
      BY <1>0 DEF TypeOK
    <3>2. (mixTs + FrameSize) % TsMod \in 0 .. TsMod - 1
      BY <1>0, <3>1
    <3> QED
      BY <3>2 DEF Submit, NextMixTs, TypeOK
  <2>4. order' \in Seq(Participants)
    <3>1. <<>> \in Seq(Participants) /\ order \in Seq(Participants)
      BY DEF TypeOK
    <3>2. order' = <<>> \/ order' = order
      BY DEF Submit
    <3> QED
      BY <3>1, <3>2
  <2>3. lastTs' \in [Participants -> (0 .. TsMod - 1) \cup {None}]
    BY DEF Submit, TypeOK
  <2> QED
    BY <2>1, <2>2, <2>3, <2>4 DEF Submit, TypeOK
<1>8. UNCHANGED vars => TypeOK'
  BY DEF vars, tickVars, TypeOK
<1> QED
  BY <1>2, <1>3, <1>4, <1>5, <1>6, <1>7, <1>8, StepCases

LEMMA MixInvariant == Spec => []MixInv
<1>1. Init => MixInv
  <2> SUFFICES ASSUME Init PROVE MixInv
    OBVIOUS
  <2>1. SnapshotInv
    BY FS_EmptySet DEF Init, SnapshotInv, Positions
  <2>2. HangoverExact
    BY MixAssumption DEF Init, HangoverExact
  <2>3. order \in Seq(Participants) /\ inbufs \in Seq(Samples)
    BY DEF Init
  <2>4. /\ remaining \in [Participants -> 0 .. Hangover]
        /\ quiet \in [Participants -> 0 .. Hangover + 1]
        /\ contrib \in [Participants -> Samples] /\ mixTs \in 0 .. TsMod - 1
    BY MixAssumption DEF Init
  <2>5. lastTs \in [Participants -> (0 .. TsMod - 1) \cup {None}]
    BY DEF Init
  <2>6. TypeOK
    BY <2>3, <2>4, <2>5 DEF Init, TypeOK
  <2> QED
    BY <2>1, <2>2, <2>6 DEF MixInv
<1>2. MixInv /\ [Next]_vars => MixInv'
  BY SnapshotKept, HangoverKept, TypeKept DEF MixInv
<1> QED
  BY <1>1, <1>2, PTL DEF Spec

(* Every reachable state of the mix clock has its types: the gate never     *)
(* counts below zero, the index stays in the snapshot and the snapshot has  *)
(* a buffer for each of its positions.  (room.go:209-213, 274-303)          *)
THEOREM MixTyped == Spec => []TypeOK
<1>1. MixInv => TypeOK
  BY DEF MixInv
<1> QED
  BY <1>1, MixInvariant, PTL

(* For any threshold and hangover: the gate closes after exactly Hangover   *)
(* quiet frames in a row.                                                   *)
THEOREM GateHoldsExactly == Spec => []HangoverExact
<1>1. MixInv => HangoverExact
  BY DEF MixInv
<1> QED
  BY <1>1, MixInvariant, PTL

-----------------------------------------------------------------------------
(* Mix time *)

LEMMA DivisionRemainder ==
  ASSUME NEW x \in Int, NEW m \in Nat \ {0}
  PROVE  x = m * (x \div m) + (x % m) /\ x % m \in 0 .. m - 1 /\ x \div m \in Int
  OBVIOUS

LEMMA RemainderUnique ==
  ASSUME NEW m \in Nat \ {0}, NEW q \in Int, NEW r \in 0 .. m - 1
  PROVE  (m * q + r) % m = r
  OBVIOUS

(* A frame forward and a frame back, on a counter that wraps. *)
LEMMA ThereAndBack ==
  ASSUME NEW m \in Nat \ {0}, NEW x \in 0 .. m - 1, NEW f \in Int
  PROVE  (((x + f) % m) - f) % m = x
<1>0. PICK z \in Int : z = x + f
  OBVIOUS
<1>1. PICK q \in Int, r \in 0 .. m - 1 : x + f = m * q + r /\ r = (x + f) % m
  <2>1. z = m * (z \div m) + (z % m) /\ z % m \in 0 .. m - 1 /\ z \div m \in Int
    BY DivisionRemainder
  <2> QED
    BY <1>0, <2>1
<1>2. r - f = m * (-q) + x /\ (-q) \in Int
  BY <1>1
<1>3. (m * (-q) + x) % m = x
  BY <1>2, RemainderUnique
<1> QED
  BY <1>1, <1>2, <1>3

Before == (mixTs - FrameSize) % TsMod
Served == IF phase = "submit" THEN next - 1 ELSE 0

(* Of the snapshot, the positions the submit loop has passed have this      *)
(* tick's mix and the others the one before, if any; a member the snapshot  *)
(* does not know has had none.                                              *)
TimeInv ==
  /\ \A i \in Positions :
       IF i <= Served THEN lastTs[order[i]] = mixTs ELSE lastTs[order[i]] \in {None, Before}
  /\ \A p \in roster : (\A i \in Positions : order[i] # p) =>
       lastTs[p] = None \/ (phase = "wait" /\ lastTs[p] = Before)

LEMMA SubmitTime ==
  ASSUME TypeOK, SnapshotInv, TimeInv, Submit
  PROVE  TimeInv'
<1>1. PICK p \in Participants : p = order[next] /\ next \in Positions
  BY Advanced DEF Submit
<1>2. /\ lastTs'[p] = mixTs
      /\ \A o \in Participants \ {p} : lastTs'[o] = lastTs[o]
      /\ roster' = roster /\ phase = "submit" /\ Served = next - 1
  BY <1>1 DEF Submit, TypeOK, Served
<1>3. \A i \in Positions : order[i] \in Participants /\ (order[i] = p => i = next)
  BY <1>1 DEF SnapshotInv, Positions, TypeOK
<1>4. CASE next = Len(order)
  <2>1. order' = <<>> /\ phase' = "wait" /\ mixTs' = (mixTs + FrameSize) % TsMod
    BY <1>4 DEF Submit, Advance, NextMixTs
  <2>2. Before' = mixTs
    <3>1. TsMod \in Nat \ {0} /\ mixTs \in 0 .. TsMod - 1 /\ FrameSize \in Int
      BY MixAssumption DEF TypeOK
    <3>2. (((mixTs + FrameSize) % TsMod) - FrameSize) % TsMod = mixTs
      BY <3>1, ThereAndBack
    <3> QED
      BY <2>1, <3>2 DEF Before
  <2>3. \A i \in Positions : lastTs'[order[i]] = mixTs
    <3>1. \A i \in Positions \ {next} : i <= Served /\ order[i] # p
      BY <1>2, <1>3, <1>4 DEF Positions, TypeOK
    <3>2. \A i \in Positions \ {next} : lastTs[order[i]] = mixTs
      BY <3>1 DEF TimeInv
    <3> QED
      BY <1>1, <1>2, <1>3, <3>1, <3>2
  <2>4. ASSUME NEW o \in roster PROVE lastTs'[o] \in {None, mixTs}
    <3>1. CASE \E i \in Positions : order[i] = o
      BY <2>3, <3>1
    <3>2. CASE \A i \in Positions : order[i] # o
      <4>1. lastTs[o] = None /\ o # p /\ o \in Participants
        BY <1>1, <1>2, <3>2 DEF TimeInv, TypeOK
      <4> QED
        BY <1>2, <4>1
    <3> QED
      BY <3>1, <3>2
  <2> QED
    <3>1. Positions' = {}
      BY <2>1 DEF Positions
    <3>2. \A o \in roster' : lastTs'[o] = None \/ lastTs'[o] = Before'
      BY <1>2, <2>2, <2>4
    <3>3. /\ \A i \in Positions' :
               IF i <= Served' THEN lastTs'[order'[i]] = mixTs'
                               ELSE lastTs'[order'[i]] \in {None, Before'}
          /\ \A o \in roster' : (\A i \in Positions' : order'[i] # o) =>
               lastTs'[o] = None \/ (phase' = "wait" /\ lastTs'[o] = Before')
      BY <2>1, <3>1, <3>2
    <3> QED
      BY <3>3 DEF TimeInv
<1>5. CASE next # Len(order)
  <2>1. /\ order' = order /\ phase' = "submit" /\ mixTs' = mixTs /\ next' = next + 1
        /\ Positions' = Positions /\ Before' = Before /\ Served' = next
    <3>1. order' = order /\ phase' = "submit" /\ mixTs' = mixTs /\ next' = next + 1
      BY <1>2, <1>5 DEF Submit, Advance
    <3>2. next \in Nat
      BY DEF TypeOK
    <3> QED
      BY <3>1, <3>2 DEF Positions, Before, Served
  <2>2. ASSUME NEW i \in Positions
        PROVE  IF i <= next THEN lastTs'[order[i]] = mixTs
                            ELSE lastTs'[order[i]] \in {None, Before}
    <3>1. CASE i = next
      BY <1>1, <1>2, <2>2, <3>1 DEF Positions, TypeOK
    <3>2. CASE i # next
      <4>1. lastTs'[order[i]] = lastTs[order[i]]
        BY <1>2, <1>3, <3>2
      <4>2. i <= next <=> i <= Served
        BY <1>1, <1>2, <3>2 DEF Positions, TypeOK
      <4> QED
        BY <4>1, <4>2 DEF TimeInv
    <3> QED
      BY <3>1, <3>2
  <2>3. \A o \in roster : (\A i \in Positions : order[i] # o) => lastTs'[o] = None
    BY <1>1, <1>2 DEF TimeInv, TypeOK
  <2> QED
    BY <1>2, <2>1, <2>2, <2>3 DEF TimeInv
<1> QED
  BY <1>4, <1>5

LEMMA TimeKept ==
  ASSUME TypeOK, SnapshotInv, TimeInv, [Next]_vars
  PROVE  TimeInv'
<1>1. ASSUME NEW p \in Participants, Join(p) PROVE TimeInv'
  <2>1. /\ \A i \in Positions : order[i] \in Participants /\ order[i] # p
        /\ Positions' = Positions /\ order' = order /\ Before' = Before /\ Served' = Served
        /\ phase' = phase /\ mixTs' = mixTs /\ roster' = roster \cup {p}
        /\ lastTs'[p] = None /\ \A o \in Participants \ {p} : lastTs'[o] = lastTs[o]
    <3>1. \A i \in Positions : order[i] \in Participants /\ order[i] # p
      BY <1>1 DEF Join, Range, Positions, TypeOK
    <3> QED
      BY <1>1, <3>1 DEF Join, tickVars, Positions, Before, Served, TypeOK
  <2>2. \A o \in roster' : o = p \/ (lastTs'[o] = lastTs[o] /\ o \in roster)
    <3>1. roster' \subseteq Participants
      BY <2>1 DEF TypeOK
    <3> QED
      BY <2>1, <3>1
  <2>3. ASSUME NEW i \in Positions'
        PROVE  IF i <= Served' THEN lastTs'[order'[i]] = mixTs'
                               ELSE lastTs'[order'[i]] \in {None, Before'}
    <3>1. lastTs'[order'[i]] = lastTs[order[i]]
      BY <2>1
    <3> QED
      BY <2>1, <3>1 DEF TimeInv
  <2>4. ASSUME NEW o \in roster', \A i \in Positions' : order'[i] # o
        PROVE  lastTs'[o] = None \/ (phase' = "wait" /\ lastTs'[o] = Before')
    <3>1. CASE o = p
      BY <2>1, <3>1
    <3>2. CASE o # p
      <4>1. lastTs'[o] = lastTs[o] /\ o \in roster /\ \A i \in Positions : order[i] # o
        BY <2>1, <2>2, <2>4, <3>2
      <4> QED
        BY <2>1, <4>1 DEF TimeInv
    <3> QED
      BY <3>1, <3>2
  <2> QED
    BY <2>3, <2>4 DEF TimeInv
<1>2. ASSUME NEW p \in Participants, Leave(p) PROVE TimeInv'
  BY <1>2 DEF Leave, tickVars, TimeInv, Positions, Before, Served
<1>3. ASSUME Tick PROVE TimeInv'
  <2>1. /\ Served' = 0 /\ Before' = Before /\ lastTs' = lastTs /\ roster' = roster
        /\ phase' = "accumulate"
    BY <1>3 DEF Tick, Served, Before
  <2>2. \A p \in roster : lastTs[p] \in {None, Before}
    <3>1. Positions = {}
      BY <1>3 DEF Tick, SnapshotInv, Positions
    <3> QED
      BY <3>1 DEF TimeInv
  <2>3. /\ \A i \in Positions' : i > 0 /\ order'[i] \in roster
        /\ \A p \in roster : \E i \in Positions' : order'[i] = p
    BY <1>3, Snapshot DEF Positions
  <2>4. \A i \in Positions' : ~(i <= Served') /\ lastTs'[order'[i]] \in {None, Before'}
    <3>1. \A i \in Positions' : i \in Int
      BY DEF Positions
    <3> QED
      BY <2>1, <2>2, <2>3, <3>1
  <2>5. \A p \in roster' : \E i \in Positions' : order'[i] = p
    BY <2>1, <2>3
  <2> QED
    BY <2>4, <2>5 DEF TimeInv
<1>4. ASSUME phase = "accumulate", Advance("submit"), UNCHANGED <<roster, order, mixTs, lastTs>>
      PROVE  TimeInv'
  <2>1. Served = 0 /\ Served' = 0 /\ Before' = Before /\ Positions' = Positions /\ phase' # "wait"
    BY <1>4 DEF Advance, Served, Before, Positions
  <2>2. \A i \in Positions : ~(i <= 0)
    BY DEF Positions
  <2> QED
    BY <1>4, <2>1, <2>2 DEF TimeInv
<1>5. ReadNothing => TimeInv'
  BY <1>4 DEF ReadNothing
<1>6. ASSUME NEW v \in Samples PROVE (ReadActive(v) => TimeInv') /\ (ReadGated(v) => TimeInv')
  BY <1>4 DEF ReadActive, ReadGated
<1>7. UNCHANGED vars => TimeInv'
  BY DEF vars, tickVars, TimeInv, Positions, Before, Served
<1> QED
  BY <1>1, <1>2, <1>3, <1>5, <1>6, <1>7, SubmitTime, StepCases

(* For any comings and goings, any frame size and across the wrap of mix    *)
(* time: the mixes a participant is handed are one frame apart.             *)
THEOREM EveryTickOnce == Spec => MixTimeContiguous
<1>1. Init => TimeInv
  BY DEF Init, TimeInv, Positions
<1>2. MixInv /\ TimeInv /\ [Next]_vars => TimeInv'
  BY TimeKept DEF MixInv
<1>3. MixInv /\ TimeInv /\ [Next]_vars =>
        [Submit => lastTs[order[next]] \in {None, (mixTs - FrameSize) % TsMod}]_vars
  <2> SUFFICES ASSUME MixInv, TimeInv, Submit
               PROVE  lastTs[order[next]] \in {None, Before}
    BY DEF Before
  <2>1. next \in Positions /\ Served = next - 1 /\ next \in Int
    BY Advanced DEF Submit, Served, MixInv, TypeOK
  <2>2. ~(next <= Served)
    BY <2>1
  <2> QED
    BY <2>1, <2>2 DEF TimeInv
<1> QED
  BY <1>1, <1>2, <1>3, MixInvariant, PTL DEF Spec, MixTimeContiguous

-----------------------------------------------------------------------------
(* Sums *)

(* s is what the first m values of g add up to.                             *)
AddsUp(g, m, s) ==
  \E f \in [0 .. m -> Int] :
    /\ f[0] = 0 /\ f[m] = s
    /\ \A i \in 1 .. m : f[i] = f[i - 1] + g[i]

LEMMA OneMore ==
  ASSUME NEW m \in Nat, NEW g, NEW h, NEW s, AddsUp(g, m, s),
         \A i \in 1 .. m : h[i] = g[i], h[m + 1] \in Int
  PROVE  AddsUp(h, m + 1, s + h[m + 1])
<1>1. PICK f \in [0 .. m -> Int] :
        f[0] = 0 /\ f[m] = s /\ \A i \in 1 .. m : f[i] = f[i - 1] + g[i]
  BY DEF AddsUp
<1> DEFINE e == [i \in 0 .. m + 1 |-> IF i = m + 1 THEN s + h[m + 1] ELSE f[i]]
<1>2. s \in Int
  BY <1>1
<1>3. e \in [0 .. m + 1 -> Int] /\ e[0] = 0 /\ e[m + 1] = s + h[m + 1]
  BY <1>1, <1>2
<1>4. \A i \in 1 .. m + 1 : e[i] = e[i - 1] + h[i]
  <2> SUFFICES ASSUME NEW i \in 1 .. m + 1 PROVE e[i] = e[i - 1] + h[i]
    OBVIOUS
  <2>1. CASE i = m + 1
    BY <1>1, <2>1
  <2>2. CASE i # m + 1
    BY <1>1, <2>2
  <2> QED
    BY <2>1, <2>2
<1> HIDE DEF e
<1> QED
  BY <1>3, <1>4 DEF AddsUp

(* Leaving out the n-th value takes just that much off.                     *)
LEMMA WithoutOne ==
  ASSUME NEW m \in Nat, NEW n \in 1 .. m, NEW g, NEW s, AddsUp(g, m, s),
         \A i \in 1 .. m : g[i] \in Int
  PROVE  AddsUp([i \in 1 .. m |-> IF i = n THEN 0 ELSE g[i]], m, s - g[n])
<1>1. PICK f \in [0 .. m -> Int] :
        f[0] = 0 /\ f[m] = s /\ \A i \in 1 .. m : f[i] = f[i - 1] + g[i]
  BY DEF AddsUp
<1> DEFINE h == [i \in 1 .. m |-> IF i = n THEN 0 ELSE g[i]]
           e == [i \in 0 .. m |-> IF i >= n THEN f[i] - g[n] ELSE f[i]]
<1>2. e \in [0 .. m -> Int] /\ e[0] = 0 /\ e[m] = s - g[n]
  BY <1>1
<1>3. \A i \in 1 .. m : e[i] = e[i - 1] + h[i]
  <2> SUFFICES ASSUME NEW i \in 1 .. m PROVE e[i] = e[i - 1] + h[i]
    OBVIOUS
  <2>0. i - 1 \in 0 .. m /\ f[i] = f[i - 1] + g[i] /\ f[i] \in Int /\ f[i - 1] \in Int
    BY <1>1
  <2>1. CASE i = n
    BY <2>0, <2>1
  <2>2. CASE i < n
    BY <2>0, <2>2
  <2>3. CASE i > n
    <3>1. e[i] = f[i] - g[n] /\ e[i - 1] = f[i - 1] - g[n] /\ h[i] = g[i] /\ i - 1 >= n
      BY <2>0, <2>3
    <3> QED
      BY <2>0, <3>1
  <2> QED
    BY <2>1, <2>2, <2>3
<1> HIDE DEF e
<1> QED
  BY <1>2, <1>3 DEF AddsUp

LEMMA LeastOfNaturals ==
  ASSUME NEW S \in SUBSET Nat, S # {}
  PROVE  \E c \in S : \A d \in S : c <= d
<1> DEFINE R == OpToRel(<, Nat)
<1>1. R = {ss \in Nat \X Nat : ss[1] < ss[2]}
  BY DEF OpToRel
<1>2. IsWellFoundedOn(R, Nat)
  BY NatLessThanWellFounded
<1> HIDE DEF R
<1>3. PICK c \in S : \A d \in S : ~(<<d, c>> \in R)
  BY <1>2, WFMin
<1>4. ASSUME NEW d \in S PROVE c <= d
  <2>1. c \in Nat /\ d \in Nat /\ <<d, c>> \notin R
    BY <1>3
  <2>2. ASSUME d < c PROVE <<d, c>> \in R
    BY <1>1, <2>1, <2>2
  <2> QED
    BY <2>1, <2>2
<1> QED
  BY <1>4

(* A function defined by adding one value after the other ends at the sum.  *)
LEMMA RecursiveSum ==
  ASSUME NEW m \in Nat, NEW g, NEW s, AddsUp(g, m, s), NEW sum,
         sum = [i \in 0 .. m |-> IF i = 0 THEN 0 ELSE sum[i - 1] + g[i]]
  PROVE  sum[m] = s
<1>1. PICK f \in [0 .. m -> Int] :
        f[0] = 0 /\ f[m] = s /\ \A i \in 1 .. m : f[i] = f[i - 1] + g[i]
  BY DEF AddsUp
<1> DEFINE D == {i \in 0 .. m : sum[i] # f[i]}
<1>2. CASE D = {}
  <2>1. \A i \in 0 .. m : sum[i] = f[i]
    BY <1>2
  <2>2. sum[m] = f[m]
    BY <2>1
  <2> QED
    BY <1>1, <2>2
<1>3. CASE D # {}
  <2>1. PICK d \in D : \A i \in D : d <= i
    <3>1. D \in SUBSET Nat
      OBVIOUS
    <3> HIDE DEF D
    <3> QED
      BY <1>3, <3>1, LeastOfNaturals
  <2>2. d # 0
    BY <1>1
  <2>3. d - 1 \in 0 .. m /\ d - 1 \notin D
    BY <2>1, <2>2
  <2>4. sum[d] = f[d]
    BY <1>1, <2>2, <2>3
  <2> QED
    BY <2>4
<1> QED
  BY <1>2, <1>3

(* and there is one. *)
LEMMA RecursiveSumExists ==
  ASSUME NEW m \in Nat, NEW g, NEW s, AddsUp(g, m, s)
  PROVE  \E sum : sum = [i \in 0 .. m |-> IF i = 0 THEN 0 ELSE sum[i - 1] + g[i]]
<1>1. PICK f \in [0 .. m -> Int] :
        f[0] = 0 /\ f[m] = s /\ \A i \in 1 .. m : f[i] = f[i - 1] + g[i]
  BY DEF AddsUp
<1>2. f = [i \in 0 .. m |-> f[i]]
  OBVIOUS
<1>3. \A i \in 0 .. m : f[i] = IF i = 0 THEN 0 ELSE f[i - 1] + g[i]
  BY <1>1
<1>4. f = [i \in 0 .. m |-> IF i = 0 THEN 0 ELSE f[i - 1] + g[i]]
  BY <1>2, <1>3
<1> QED
  BY <1>4

-----------------------------------------------------------------------------
(* What everybody hears *)

Counted == IF phase = "submit" THEN Len(order) ELSE next - 1

Part == [i \in Positions |-> contrib[order[i]]]

(* The positions the accumulation has passed have in their buffers what     *)
(* their members contributed, whoever used the buffer before; the others    *)
(* have contributed nothing yet; acc is the sum.                            *)
SumInv ==
  phase # "wait" =>
    /\ \A i \in Positions : IF i <= Counted THEN inbufs[i] = Part[i] ELSE Part[i] = 0
    /\ AddsUp(Part, Counted, acc)

(* One position further: its buffer holds its contribution, acc grows by it.*)
LEMMA AccumulatedOne ==
  ASSUME TypeOK, SnapshotInv, SumInv, phase = "accumulate", Advance("submit"),
         order' = order, NEW v \in Int,
         inbufs' = [inbufs EXCEPT ![next] = v], acc' = acc + v,
         \/ contrib' = contrib /\ v = 0
         \/ contrib' = [contrib EXCEPT ![order[next]] = v]
  PROVE  SumInv'
<1>1. /\ next \in Positions /\ order[next] \in Participants /\ next \in Nat
      /\ Len(order) \in Nat /\ Len(order) <= Len(inbufs)
  BY Advanced DEF TypeOK, SnapshotInv
<1>2. Positions' = Positions /\ Counted = next - 1 /\ Counted' = next
  BY <1>1, Advanced DEF Positions, Counted
<1>3. /\ Part'[next] = v
      /\ \A i \in Positions \ {next} : Part'[i] = Part[i]
  <2>1. \A i \in Positions : order[i] \in Participants /\ Part[i] = contrib[order[i]]
    BY DEF Part, Positions, TypeOK
  <2>2. \A i \in Positions : Part'[i] = contrib'[order[i]]
    BY <1>2 DEF Part
  <2>3. \A i \in Positions \ {next} : order[i] # order[next]
    BY <1>1 DEF SnapshotInv
  <2>4. contrib' = contrib => contrib[order[next]] = 0
    <3>1. ~(next <= Counted)
      BY <1>1, <1>2
    <3> QED
      BY <1>1, <2>1, <3>1 DEF SumInv
  <2>5. CASE contrib' = contrib /\ v = 0
    BY <1>1, <2>1, <2>2, <2>4, <2>5
  <2>6. CASE contrib' = [contrib EXCEPT ![order[next]] = v]
    <3>1. /\ contrib'[order[next]] = v
          /\ \A p \in Participants : p # order[next] => contrib'[p] = contrib[p]
      BY <1>1, <2>6 DEF TypeOK
    <3> QED
      BY <1>1, <2>1, <2>2, <2>3, <3>1
  <2> QED
    BY <2>5, <2>6
<1>4. /\ inbufs'[next] = v
      /\ \A i \in Positions \ {next} : inbufs'[i] = inbufs[i]
  <2>1. inbufs \in Seq(Samples) /\ next \in 1 .. Len(inbufs)
    BY <1>1 DEF TypeOK, Positions
  <2> QED
    BY <2>1
<1>5. \A i \in Positions : IF i <= next THEN inbufs'[i] = Part'[i] ELSE Part'[i] = 0
  <2> SUFFICES ASSUME NEW i \in Positions
               PROVE  IF i <= next THEN inbufs'[i] = Part'[i] ELSE Part'[i] = 0
    OBVIOUS
  <2>1. i <= next <=> i = next \/ i <= Counted
    BY <1>1, <1>2 DEF Positions
  <2> QED
    BY <1>3, <1>4, <2>1 DEF SumInv
<1>6. AddsUp(Part', next, acc')
  <2>1. PICK m \in Nat : m = next - 1 /\ m + 1 = next
    BY <1>1 DEF Positions
  <2>2. AddsUp(Part, m, acc)
    BY <1>2, <2>1 DEF SumInv
  <2>3. \A i \in 1 .. m : Part'[i] = Part[i]
    BY <1>1, <1>3, <2>1 DEF Positions
  <2>4. Part'[m + 1] \in Int
    BY <1>3, <2>1
  <2>5. AddsUp(Part', m + 1, acc + Part'[m + 1])
    BY <2>2, <2>3, <2>4, OneMore
  <2> QED
    BY <1>3, <2>1, <2>5
<1> QED
  BY <1>2, <1>5, <1>6 DEF SumInv

LEMMA SumKept ==
  ASSUME TypeOK, SnapshotInv, SumInv, [Next]_vars
  PROVE  SumInv'
<1>1. ASSUME UNCHANGED <<order, phase, next, acc, inbufs, contrib>> PROVE SumInv'
  BY <1>1 DEF SumInv, Positions, Counted, Part
<1>2. ASSUME NEW p \in Participants PROVE (Join(p) => SumInv') /\ (Leave(p) => SumInv')
  BY <1>1 DEF Join, Leave, tickVars
<1>3. ASSUME Tick PROVE SumInv'
  <2>1. /\ Len(order') \in Nat \ {0} /\ \A i \in 1 .. Len(order') : order'[i] \in Participants
        /\ Counted' = 0 /\ acc' = 0 /\ contrib' = [p \in Participants |-> 0]
    BY <1>3, Snapshot DEF Tick, TypeOK, Counted
  <2>2. \A i \in Positions' : ~(i <= 0) /\ Part'[i] = 0
    BY <2>1 DEF Positions, Part
  <2>3. AddsUp(Part', 0, 0)
    <3>1. PICK f : f = [i \in 0 .. 0 |-> 0]
      OBVIOUS
    <3>2. f \in [0 .. 0 -> Int] /\ f[0] = 0
      BY <3>1
    <3>3. \A i \in 1 .. 0 : f[i] = f[i - 1] + Part'[i]
      OBVIOUS
    <3> QED
      BY <3>2, <3>3 DEF AddsUp
  <2> QED
    BY <2>1, <2>2, <2>3 DEF SumInv
<1>4. ASSUME ReadNothing PROVE SumInv'
  <2>1. /\ acc' = acc + 0 /\ 0 \in Int /\ contrib' = contrib /\ order' = order
        /\ inbufs' = [inbufs EXCEPT ![next] = 0] /\ phase = "accumulate" /\ Advance("submit")
    BY <1>4 DEF ReadNothing, Zeroed, TypeOK
  <2> QED
    BY <2>1, AccumulatedOne
<1>5. ASSUME NEW v \in Samples, ReadActive(v) PROVE SumInv'
  BY <1>5, AccumulatedOne, MixAssumption DEF ReadActive
<1>6. ASSUME NEW v \in Samples, ReadGated(v) PROVE SumInv'
  <2>1. /\ acc' = acc + 0 /\ 0 \in Int /\ contrib' = contrib /\ order' = order
        /\ inbufs' = [inbufs EXCEPT ![next] = 0] /\ phase = "accumulate" /\ Advance("submit")
    BY <1>6 DEF ReadGated, Zeroed, TypeOK
  <2> QED
    BY <2>1, AccumulatedOne
<1>7. ASSUME Submit PROVE SumInv'
  <2>1. CASE next = Len(order)
    BY <1>7, <2>1 DEF Submit, Advance, SumInv
  <2>2. CASE next # Len(order)
    <3>1. phase' = phase /\ order' = order /\ Positions' = Positions /\ Part' = Part /\ Counted' = Counted
      BY <1>7, <2>2 DEF Submit, Advance, Positions, Part, Counted
    <3> QED
      BY <1>7, <3>1 DEF Submit, SumInv
  <2> QED
    BY <2>1, <2>2
<1>8. UNCHANGED vars => SumInv'
  BY <1>1 DEF vars, tickVars
<1> QED
  BY <1>2, <1>3, <1>4, <1>5, <1>6, <1>7, <1>8, StepCases

(* For any number of participants in any order, any samples and whatever    *)
(* the buffers were used for before: everybody is handed the saturated sum  *)
(* of what the others contributed to the tick.                              *)
THEOREM EverybodyHearsTheOthers == Spec => []HearsOthers
<1>1. Init => SumInv
  BY DEF Init, SumInv
<1>2. MixInv /\ SumInv /\ [Next]_vars => SumInv'
  BY SumKept DEF MixInv
<1>3. MixInv /\ SumInv => HearsOthers
  <2> SUFFICES ASSUME MixInv, SumInv, phase = "submit", NEW n \in DOMAIN order
               PROVE  MinusOne(n) = Saturate(SumOfOthers(n))
    BY DEF HearsOthers
  <2>1. PICK m \in Nat : m = Len(order) /\ Counted = m
    BY DEF Counted, MixInv, TypeOK
  <2>2. DOMAIN order = 1 .. m /\ Positions = 1 .. m /\ n \in 1 .. m
    BY <2>1 DEF Positions, MixInv, TypeOK
  <2>3. /\ inbufs[n] = Part[n] /\ AddsUp(Part, m, acc)
    BY <2>1, <2>2 DEF SumInv
  <2>4. \A i \in 1 .. m : Part[i] = contrib[order[i]] /\ Part[i] \in Int
    <3>1. \A i \in 1 .. m : order[i] \in Participants
      BY <2>1 DEF MixInv, TypeOK
    <3> QED
      BY <2>2, <3>1, MixAssumption DEF Part, MixInv, TypeOK
  <2> DEFINE g == [i \in 1 .. m |-> IF i = n THEN 0 ELSE Part[i]]
  <2>5. AddsUp(g, m, acc - inbufs[n])
    BY <2>2, <2>3, <2>4, WithoutOne
  <2>6. PICK sum : sum = CHOOSE any :
          any = [i \in 0 .. Len(order) |->
                   IF i = 0 THEN 0 ELSE any[i - 1] + (IF i = n THEN 0 ELSE contrib[order[i]])]
    OBVIOUS
  <2>7. \A any : [i \in 0 .. m |-> IF i = 0 THEN 0 ELSE any[i - 1] + g[i]]
                   = [i \in 0 .. Len(order) |->
                        IF i = 0 THEN 0 ELSE any[i - 1] + (IF i = n THEN 0 ELSE contrib[order[i]])]
    BY <2>1, <2>4
  <2> HIDE DEF g
  <2>8. \E any : any = [i \in 0 .. m |-> IF i = 0 THEN 0 ELSE any[i - 1] + g[i]]
    BY <2>5, RecursiveSumExists
  <2>9. sum = [i \in 0 .. m |-> IF i = 0 THEN 0 ELSE sum[i - 1] + g[i]]
    <3>1. \E any : any = [i \in 0 .. Len(order) |->
                            IF i = 0 THEN 0
                            ELSE any[i - 1] + (IF i = n THEN 0 ELSE contrib[order[i]])]
      BY <2>7, <2>8
    <3>2. sum = [i \in 0 .. Len(order) |->
                   IF i = 0 THEN 0 ELSE sum[i - 1] + (IF i = n THEN 0 ELSE contrib[order[i]])]
      BY <2>6, <3>1
    <3> QED
      BY <2>7, <3>2
  <2>10. sum[m] = acc - inbufs[n]
    BY <2>5, <2>9, RecursiveSum
  <2>11. SumOfOthers(n) = sum[m]
    BY <2>1, <2>6 DEF SumOfOthers
  <2> QED
    BY <2>10, <2>11 DEF MinusOne
<1> QED
  BY <1>1, <1>2, <1>3, MixInvariant, PTL DEF Spec
=============================================================================
