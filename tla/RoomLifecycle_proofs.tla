------------------------ MODULE RoomLifecycle_proofs ------------------------
(***************************************************************************)
(* Rooms, rosters and mix clocks, for any number of sessions, room names   *)
(* and Room objects.                                                       *)
(***************************************************************************)
EXTENDS RoomLifecycle, TLAPS

USE RoomOfAssumption, NoRoomAssumption, GoroutinesAssumption

-----------------------------------------------------------------------------
(* Type correctness *)

LEMMA InitTypeOK == Init => TypeOK
  BY DEF Init, TypeOK, Stage

LEMMA NextTypeOK == TypeOK /\ [Next]_vars => TypeOK'
<1> SUFFICES ASSUME TypeOK, [Next]_vars PROVE TypeOK'
  OBVIOUS
<1> USE DEF TypeOK, Stage, vars, roomVars, clockVars, sessionVars
<1>1. ASSUME NEW s \in Sessions, DataChannelOpens(s) PROVE TypeOK'
  BY <1>1 DEF DataChannelOpens
<1>2. ASSUME NEW s \in Sessions, StartPipeline(s) PROVE TypeOK'
  <2>1. CASE startOnce[s]
    BY <1>2, <2>1 DEF StartPipeline
  <2>2. CASE ~startOnce[s]
    <3>1. /\ open'      = [open EXCEPT ![s] = "launched"]
          /\ startOnce' = [startOnce EXCEPT ![s] = TRUE]
          /\ wg'        = [wg EXCEPT ![s] = Goroutines[s]]
          /\ stats'     = [stats EXCEPT ![s] = "sending"]
          /\ UNCHANGED <<roomVars, clockVars, sig>>
      BY <1>2, <2>2 DEF StartPipeline
    <3>2. wg' \in [Sessions -> Nat] /\ \A t \in Sessions : wg'[t] <= Goroutines[t]
      BY <3>1
    <3>3. startOnce' \in [Sessions -> BOOLEAN]
      BY <3>1
    <3>4. open' \in [Sessions -> {"none", "pending", "launched"}]
      BY <3>1
    <3>5. stats' \in [Sessions -> {"none", "sending", "select", "ended"}]
      BY <3>1
    <3> QED
      BY <3>1, <3>2, <3>3, <3>4, <3>5
  <2> QED
    BY <2>1, <2>2
<1>3. ASSUME NEW s \in Sessions, Join(s) PROVE TypeOK'
  <2> DEFINE r == RoomOf[s]
  <2>1. ASSUME NEW i \in Instances, Add(i, s)
        PROVE  /\ members' \in [Instances -> SUBSET Sessions]
               /\ clockOn' \in [Instances -> BOOLEAN]
               /\ phase'   \in [Instances -> {"off", "wait", "read", "submit", "ended"}]
    BY <2>1 DEF Add
  <2>2. CASE rooms[r] # NoRoom /\ Add(rooms[r], s) /\ UNCHANGED rooms
    BY <1>3, <2>1, <2>2 DEF Join
  <2>3. ASSUME NEW i \in Unused, Add(i, s), rooms' = [rooms EXCEPT ![r] = i]
        PROVE  TypeOK'
    <3>1. i \in Instances
      BY DEF Unused
    <3>2. rooms' \in [RoomIds -> Instances \cup {NoRoom}]
      BY <2>3, <3>1
    <3> QED
      BY <1>3, <2>1, <2>3, <3>1, <3>2 DEF Join
  <2> QED
    BY <1>3, <2>2, <2>3 DEF Join
<1>4. ASSUME NEW s \in Sessions, Leave(s) PROVE TypeOK'
  <2> DEFINE r == RoomOf[s]
             i == rooms[r]
  <2>1. CASE i = NoRoom
    BY <1>4, <2>1 DEF Leave
  <2>2. CASE i # NoRoom
    <3>1. i \in Instances /\ members' = [members EXCEPT ![i] = @ \ {s}]
      BY <1>4, <2>2 DEF Leave
    <3>2. rooms' \in [RoomIds -> Instances \cup {NoRoom}]
      BY <1>4, <2>2 DEF Leave, Destroy
    <3>3. closed' \in [Instances -> BOOLEAN]
      BY <1>4, <2>2 DEF Leave, Destroy
    <3> QED
      BY <1>4, <3>1, <3>2, <3>3 DEF Leave
  <2> QED
    BY <2>1, <2>2
<1>5. ASSUME NEW s \in Sessions, CloseDone(s) PROVE TypeOK'
  BY <1>5 DEF CloseDone
<1>6. ASSUME NEW s \in Sessions, ClosePeer(s) PROVE TypeOK'
  BY <1>6 DEF ClosePeer
<1>7. ASSUME NEW s \in Sessions, WaitReturns(s) PROVE TypeOK'
  BY <1>7 DEF WaitReturns
<1>8. ASSUME NEW s \in Sessions, GoroutineExits(s) PROVE TypeOK'
  BY <1>8 DEF GoroutineExits
<1>9. ASSUME NEW i \in Instances, Tick(i) PROVE TypeOK'
  BY <1>9 DEF Tick
<1>10. ASSUME NEW i \in Instances, ClockStops(i) PROVE TypeOK'
  BY <1>10 DEF ClockStops
<1>11. ASSUME NEW i \in Instances, NEW s \in Sessions, ReadInputFrame(i, s)
       PROVE  TypeOK'
  BY <1>11 DEF ReadInputFrame
<1>12. ASSUME NEW i \in Instances, NEW s \in Sessions, SubmitMix(i, s)
       PROVE  TypeOK'
  BY <1>12 DEF SubmitMix
<1>13. ASSUME NEW s \in Sessions, StatsLoop(s) PROVE TypeOK'
  BY <1>13 DEF StatsLoop, SendRoomStats, SendReturns, StatsLoopExits
<1>14. CASE UNCHANGED vars
  BY <1>14
<1> QED
  BY <1>1, <1>2, <1>3, <1>4, <1>5, <1>6, <1>7, <1>8, <1>9, <1>10, <1>11, <1>12, <1>13,
     <1>14 DEF Next, Callback, Close, Clock

(* Every reachable state of the rooms and sessions is well typed. *)
THEOREM TypeCorrect == Spec => []TypeOK
  BY InitTypeOK, NextTypeOK, PTL DEF Spec

-----------------------------------------------------------------------------
(* The manager's map and the rooms *)

(* LiveRooms is not inductive by itself: that a new room is fresh, and that *)
(* a room with a name has not been shut down, needs how clockOn, the clock  *)
(* and the done channel of an object go together.                           *)
ClockInv ==
  \A i \in Instances :
    /\ phase[i] = "off" <=> clockOn[i] = FALSE
    /\ phase[i] = "ended" => closed[i] = TRUE
    /\ closed[i] = TRUE => clockOn[i] = TRUE

Named    == \A i \in Instances : Registered(i) <=> members[i] # {}
Alive    == \A i \in Instances : Registered(i) => /\ closed[i] = FALSE
                                                  /\ phase[i] \notin {"off", "ended"}
Injected == \A r, q \in RoomIds : rooms[r] = rooms[q] /\ rooms[r] # NoRoom => r = q

RoomInv == TypeOK /\ ClockInv /\ Named /\ Alive /\ Injected

LEMMA InitRoomInv == Init => RoomInv
<1> SUFFICES ASSUME Init PROVE RoomInv
  OBVIOUS
<1>1. \A i \in Instances : ~Registered(i)
  BY DEF Init, Registered
<1> QED
  BY <1>1, InitTypeOK DEF Init, RoomInv, ClockInv, Named, Alive, Injected

(* A step of the mix clocks changes no roster, no name and no done channel, *)
(* and moves a running clock between its stages.                            *)
LEMMA ClockKeepsRooms ==
  ASSUME RoomInv, TypeOK', UNCHANGED roomVars,
         \A j \in Instances :
           \/ phase'[j] = phase[j]
           \/ phase[j] # "off" /\ phase'[j] \notin {"off", "ended"}
           \/ closed[j] = TRUE /\ phase[j] # "off" /\ phase'[j] = "ended"
  PROVE  RoomInv'
<1>1. \A j \in Instances : Registered(j)' <=> Registered(j)
  BY DEF roomVars, Registered
<1> QED
  BY <1>1 DEF RoomInv, ClockInv, Named, Alive, Injected, roomVars

LEMMA JoinRoomInv ==
  ASSUME RoomInv, TypeOK', NEW s \in Sessions, Join(s)
  PROVE  RoomInv'
<1> DEFINE r == RoomOf[s]
<1> USE DEF RoomInv, ClockInv, Named, Alive, Injected, TypeOK
<1>1. r \in RoomIds /\ UNCHANGED <<closed, roster, todo>>
  BY DEF Join
<1>2. CASE rooms[r] # NoRoom /\ Add(rooms[r], s) /\ UNCHANGED rooms
  <2> DEFINE i == rooms[r]
  <2>1. i \in Instances /\ Registered(i)
    BY <1>1, <1>2 DEF Registered
  <2>2. clockOn[i] = TRUE
    BY <2>1
  <2>3. /\ members' = [members EXCEPT ![i] = @ \cup {s}]
        /\ clockOn' = clockOn
        /\ phase' = phase
    BY <1>2, <2>1, <2>2 DEF Add
  <2>4. \A j \in Instances : Registered(j)' <=> Registered(j)
    BY <1>2 DEF Registered
  <2> QED
    BY <1>1, <1>2, <2>1, <2>3, <2>4
<1>3. ASSUME rooms[r] = NoRoom, NEW i \in Unused, Add(i, s),
             rooms' = [rooms EXCEPT ![r] = i]
      PROVE  RoomInv'
  <2>1. i \in Instances /\ clockOn[i] = FALSE /\ phase[i] = "off" /\ closed[i] = FALSE
    BY <1>3 DEF Unused
  <2>2. ~Registered(i)
    BY <2>1
  <2>3. /\ members' = [members EXCEPT ![i] = @ \cup {s}]
        /\ clockOn' = [clockOn EXCEPT ![i] = TRUE]
        /\ phase'   = [phase EXCEPT ![i] = "wait"]
    BY <1>3, <2>1 DEF Add
  <2>4. \A j \in Instances : Registered(j)' <=> Registered(j) \/ j = i
    BY <1>1, <1>3, <2>1 DEF Registered
  <2>5. ClockInv'
    BY <1>1, <2>1, <2>3
  <2>6. Named'
    BY <2>1, <2>3, <2>4
  <2>7. Alive'
    BY <1>1, <2>1, <2>3, <2>4
  <2>8. Injected'
    BY <1>1, <1>3, <2>1, <2>2 DEF Registered
  <2> QED
    BY <2>5, <2>6, <2>7, <2>8
<1> QED
  BY <1>2, <1>3 DEF Join

LEMMA LeaveRoomInv ==
  ASSUME RoomInv, TypeOK', NEW s \in Sessions, Leave(s)
  PROVE  RoomInv'
<1> DEFINE r == RoomOf[s]
           i == rooms[r]
<1> USE DEF RoomInv, ClockInv, Named, Alive, Injected, TypeOK
<1>1. r \in RoomIds /\ UNCHANGED <<clockOn, clockVars>>
  BY DEF Leave
<1>2. CASE i = NoRoom
  <2>1. UNCHANGED <<rooms, members, closed>>
    BY <1>2 DEF Leave
  <2>2. \A j \in Instances : Registered(j)' <=> Registered(j)
    BY <2>1 DEF Registered
  <2> QED
    BY <1>1, <2>1, <2>2 DEF clockVars
<1>3. CASE i # NoRoom
  <2>1. i \in Instances /\ Registered(i) /\ members' = [members EXCEPT ![i] = @ \ {s}]
    BY <1>1, <1>3 DEF Leave, Registered
  <2>2. CASE members[i] \subseteq {s}
    <3>1. closed' = [closed EXCEPT ![i] = TRUE] /\ rooms' = [rooms EXCEPT ![r] = NoRoom]
      BY <1>3, <2>2 DEF Leave, Destroy
    <3>2. \A j \in Instances : Registered(j)' <=> Registered(j) /\ j # i
      BY <1>1, <1>3, <3>1 DEF Registered
    <3>3. members'[i] = {} /\ \A j \in Instances : j # i => members'[j] = members[j]
      BY <2>1, <2>2
    <3>4. ClockInv'
      BY <1>1, <2>1, <3>1 DEF clockVars
    <3>5. Named'
      BY <2>1, <3>2, <3>3
    <3>6. Alive'
      BY <1>1, <3>1, <3>2 DEF clockVars
    <3>7. Injected'
      BY <1>1, <3>1
    <3> QED
      BY <3>4, <3>5, <3>6, <3>7
  <2>3. CASE ~(members[i] \subseteq {s})
    <3>1. UNCHANGED <<closed, rooms>>
      BY <1>3, <2>3 DEF Leave
    <3>2. \A j \in Instances : Registered(j)' <=> Registered(j)
      BY <3>1 DEF Registered
    <3>3. members'[i] # {} /\ \A j \in Instances : j # i => members'[j] = members[j]
      BY <2>1, <2>3
    <3> QED
      BY <1>1, <2>1, <3>1, <3>2, <3>3 DEF clockVars
  <2> QED
    BY <2>2, <2>3
<1> QED
  BY <1>2, <1>3

LEMMA NextRoomInv == RoomInv /\ [Next]_vars => RoomInv'
<1> SUFFICES ASSUME RoomInv, [Next]_vars PROVE RoomInv'
  OBVIOUS
<1>0. TypeOK'
  BY NextTypeOK DEF RoomInv
<1>1. ASSUME NEW s \in Sessions, Callback(s) PROVE RoomInv'
  <2>1. CASE Join(s)
    BY <1>0, <2>1, JoinRoomInv
  <2>2. CASE DataChannelOpens(s) \/ StartPipeline(s)
    <3>1. UNCHANGED <<roomVars, clockVars>>
      BY <2>2 DEF DataChannelOpens, StartPipeline
    <3> QED
      BY <1>0, <3>1, ClockKeepsRooms DEF clockVars
  <2> QED
    BY <1>1, <2>1, <2>2 DEF Callback
<1>2. ASSUME NEW s \in Sessions, Close(s) PROVE RoomInv'
  <2>1. CASE Leave(s)
    BY <1>0, <2>1, LeaveRoomInv
  <2>2. CASE CloseDone(s) \/ ClosePeer(s) \/ WaitReturns(s)
    <3>1. UNCHANGED <<roomVars, clockVars>>
      BY <2>2 DEF CloseDone, ClosePeer, WaitReturns
    <3> QED
      BY <1>0, <3>1, ClockKeepsRooms DEF clockVars
  <2> QED
    BY <1>2, <2>1, <2>2 DEF Close
<1>3. ASSUME NEW s \in Sessions, GoroutineExits(s) \/ StatsLoop(s) PROVE RoomInv'
  <2>1. UNCHANGED <<roomVars, clockVars>>
    BY <1>3 DEF GoroutineExits, StatsLoop, SendRoomStats, SendReturns, StatsLoopExits
  <2> QED
    BY <1>0, <2>1, ClockKeepsRooms DEF clockVars
<1>4. ASSUME NEW i \in Instances, Clock(i) PROVE RoomInv'
  <2>1. CASE Tick(i)
    BY <1>0, <2>1, ClockKeepsRooms DEF Tick, RoomInv, TypeOK
  <2>2. CASE ClockStops(i)
    BY <1>0, <2>2, ClockKeepsRooms DEF ClockStops, RoomInv, TypeOK
  <2>3. ASSUME NEW s \in Sessions, ReadInputFrame(i, s) PROVE RoomInv'
    <3>1. phase \in [Instances -> {"off", "wait", "read", "submit", "ended"}]
      BY <1>0 DEF RoomInv, TypeOK
    <3>2. /\ UNCHANGED roomVars
          /\ phase[i] # "off"
          /\ phase' = phase \/ phase' = [phase EXCEPT ![i] = "submit"]
      BY <2>3 DEF ReadInputFrame
    <3> QED
      BY <1>0, <3>1, <3>2, ClockKeepsRooms
  <2>4. ASSUME NEW s \in Sessions, SubmitMix(i, s) PROVE RoomInv'
    <3>1. phase \in [Instances -> {"off", "wait", "read", "submit", "ended"}]
      BY <1>0 DEF RoomInv, TypeOK
    <3>2. /\ UNCHANGED roomVars
          /\ phase[i] # "off"
          /\ phase' = phase \/ phase' = [phase EXCEPT ![i] = "wait"]
      BY <2>4 DEF SubmitMix
    <3> QED
      BY <1>0, <3>1, <3>2, ClockKeepsRooms
  <2> QED
    BY <1>4, <2>1, <2>2, <2>3, <2>4 DEF Clock
<1>5. CASE UNCHANGED vars
  BY <1>0, <1>5, ClockKeepsRooms DEF vars, clockVars
<1> QED
  BY <1>1, <1>2, <1>3, <1>4, <1>5 DEF Next

(* The manager's map names exactly the rooms with somebody in them, each    *)
(* with a running clock and an open done channel.                           *)
THEOREM RoomsAreLive == Spec => []LiveRooms
<1>1. RoomInv => LiveRooms
  BY DEF RoomInv, Named, Alive, Injected, LiveRooms
<1> QED
  BY <1>1, InitRoomInv, NextRoomInv, PTL DEF Spec

-----------------------------------------------------------------------------
(* One mix clock per session *)

(* A session joins a room once, because the launches and the Join that ends *)
(* them run once: wherever it is still to be found, in a roster or in the   *)
(* snapshot a clock took of one, it is the same Room object, and there is   *)
(* no Join to come.                                                         *)
Present(i, s) == s \in members[i] \cup roster[i] \cup todo[i]

MixerInv ==
  /\ TypeOK
  /\ \A s \in Sessions, i, j \in Instances : Present(i, s) /\ Present(j, s) => i = j
  /\ \A s \in Sessions, i \in Instances :
       Present(i, s) => startOnce[s] = TRUE /\ open[s] # "launched"
  /\ \A s \in Sessions : open[s] = "launched" => startOnce[s] = TRUE

LEMMA InitMixerInv == Init => MixerInv
  BY InitTypeOK DEF Init, MixerInv, Present

(* A step that brings nobody anywhere and leaves the callbacks alone. *)
LEMMA FewerPresent ==
  ASSUME MixerInv, TypeOK', UNCHANGED <<open, startOnce>>,
         \A s \in Sessions, i \in Instances : Present(i, s)' => Present(i, s)
  PROVE  MixerInv'
  BY DEF MixerInv

LEMMA NextMixerInv == MixerInv /\ [Next]_vars => MixerInv'
<1> SUFFICES ASSUME MixerInv, [Next]_vars PROVE MixerInv'
  OBVIOUS
<1>0. TypeOK /\ TypeOK'
  BY NextTypeOK DEF MixerInv
<1>1. ASSUME NEW s \in Sessions, DataChannelOpens(s) \/ StartPipeline(s) PROVE MixerInv'
  <2>1. \A t \in Sessions, i \in Instances : Present(i, t)' <=> Present(i, t)
    BY <1>1 DEF DataChannelOpens, StartPipeline, Present, roomVars, clockVars
  <2>2. \A t \in Sessions : t # s => open'[t] = open[t] /\ startOnce'[t] = startOnce[t]
    BY <1>0, <1>1 DEF DataChannelOpens, StartPipeline, TypeOK
  <2>3. \/ startOnce'[s] = startOnce[s] /\ open'[s] # "launched"
        \/ startOnce[s] = FALSE /\ startOnce'[s] = TRUE
    <3>1. CASE DataChannelOpens(s)
      BY <1>0, <3>1 DEF DataChannelOpens, TypeOK
    <3>2. CASE StartPipeline(s) /\ startOnce[s]
      BY <1>0, <3>2 DEF StartPipeline, TypeOK
    <3>3. CASE StartPipeline(s) /\ ~startOnce[s]
      BY <1>0, <3>3 DEF StartPipeline, TypeOK
    <3> QED
      BY <1>1, <3>1, <3>2, <3>3
  <2> QED
    BY <1>0, <2>1, <2>2, <2>3 DEF MixerInv
<1>2. ASSUME NEW s \in Sessions, Join(s) PROVE MixerInv'
  <2>1. /\ open[s] = "launched"
        /\ open' = [open EXCEPT ![s] = "none"]
        /\ UNCHANGED <<roster, todo, startOnce>>
    BY <1>2 DEF Join
  <2>2. PICK i \in Instances : Add(i, s)
    BY <1>0, <1>2 DEF Join, Unused, TypeOK
  <2>3. members' = [members EXCEPT ![i] = @ \cup {s}]
    BY <2>2 DEF Add
  <2>4. \A t \in Sessions, j \in Instances :
          Present(j, t)' <=> Present(j, t) \/ (j = i /\ t = s)
    BY <1>0, <2>1, <2>2, <2>3 DEF Present, TypeOK
  <2>5. \A j \in Instances : ~Present(j, s)
    BY <2>1 DEF MixerInv
  <2>6. open'[s] = "none" /\ \A t \in Sessions : t # s => open'[t] = open[t]
    BY <1>0, <2>1 DEF TypeOK
  <2> QED
    BY <1>0, <2>1, <2>4, <2>5, <2>6 DEF MixerInv
<1>3. ASSUME NEW s \in Sessions, Close(s) \/ GoroutineExits(s) \/ StatsLoop(s)
      PROVE  MixerInv'
  <2>1. CASE Leave(s)
    <3>1. \A i \in Instances : members'[i] \subseteq members[i]
      <4> DEFINE k == rooms[RoomOf[s]]
      <4>1. members \in [Instances -> SUBSET Sessions]
        BY <1>0 DEF TypeOK
      <4>2. CASE k = NoRoom
        BY <2>1, <4>2 DEF Leave
      <4>3. CASE k # NoRoom
        <5>1. members' = [members EXCEPT ![k] = @ \ {s}]
          BY <2>1, <4>3 DEF Leave
        <5> HIDE DEF k
        <5> QED
          BY <4>1, <5>1
      <4> QED
        BY <4>2, <4>3
    <3> QED
      BY <1>0, <2>1, <3>1, FewerPresent DEF Leave, Present, clockVars
  <2>2. CASE CloseDone(s) \/ ClosePeer(s) \/ WaitReturns(s) \/ GoroutineExits(s)
    <3>1. UNCHANGED <<members, roster, todo, open, startOnce>>
      BY <2>2 DEF CloseDone, ClosePeer, WaitReturns, GoroutineExits, roomVars, clockVars
    <3> QED
      BY <1>0, <3>1, FewerPresent DEF Present
  <2>3. CASE StatsLoop(s)
    <3>1. UNCHANGED <<members, roster, todo, open, startOnce>>
      BY <2>3 DEF StatsLoop, SendRoomStats, SendReturns, StatsLoopExits, roomVars, clockVars
    <3> QED
      BY <1>0, <3>1, FewerPresent DEF Present
  <2> QED
    BY <1>3, <2>1, <2>2, <2>3 DEF Close
<1>4. ASSUME NEW i \in Instances, Clock(i) PROVE MixerInv'
  <2>1. UNCHANGED <<members, open, startOnce>>
    BY <1>4 DEF Clock, Tick, ClockStops, ReadInputFrame, SubmitMix, roomVars, sessionVars
  <2>2. \A j \in Instances :
          roster'[j] \cup todo'[j] \subseteq members[j] \cup roster[j] \cup todo[j]
    <3>1. CASE Tick(i)
      BY <1>0, <3>1 DEF Tick, TypeOK
    <3>2. CASE ClockStops(i)
      BY <1>0, <3>2 DEF ClockStops, TypeOK
    <3>3. ASSUME NEW s \in Sessions, ReadInputFrame(i, s)
          PROVE  \A j \in Instances : roster'[j] \cup todo'[j] \subseteq roster[j] \cup todo[j]
      BY <1>0, <3>3 DEF ReadInputFrame, TypeOK
    <3>4. ASSUME NEW s \in Sessions, SubmitMix(i, s)
          PROVE  \A j \in Instances : roster'[j] \cup todo'[j] \subseteq roster[j] \cup todo[j]
      BY <1>0, <3>4 DEF SubmitMix, TypeOK
    <3> QED
      BY <1>4, <3>1, <3>2, <3>3, <3>4 DEF Clock
  <2> QED
    BY <1>0, <2>1, <2>2, FewerPresent DEF Present
<1>5. CASE UNCHANGED vars
  BY <1>0, <1>5, FewerPresent DEF Present, vars, roomVars, clockVars, sessionVars
<1> QED
  BY <1>1, <1>2, <1>3, <1>4, <1>5 DEF Next, Callback

(* A session is touched by one mix clock at a time, whichever rooms came    *)
(* and went meanwhile.                                                      *)
THEOREM MixersAreSingle == Spec => []OneMixer
<1>1. MixerInv => OneMixer
  BY DEF MixerInv, OneMixer, Touches, Present
<1> QED
  BY <1>1, InitMixerInv, NextMixerInv, PTL DEF Spec
=============================================================================
