--------------------------- MODULE RoomLifecycle ---------------------------
(***************************************************************************)
(* Who is in which room, and which mix clock touches whom.                 *)
(*                                                                         *)
(* Three kinds of goroutine meet here:                                     *)
(*   - the signaling goroutine of a session, which ends in Session.Close;  *)
(*   - the Pion goroutine that runs the DataChannel's OnOpen callback,     *)
(*     which starts the pipeline and joins the room;                       *)
(*   - the mix clock of each Room object, which copies the roster under    *)
(*     the room's lock and then calls every participant without it.        *)
(* What Close waits for are the goroutines of the pipeline.  All of them    *)
(* wait in selects with a done case, statsLoop also for a write to the      *)
(* signaling connection, so it has a state of its own.                      *)
(*                                                                         *)
(* Manager.Join and Manager.Leave hold the manager's lock from end to end  *)
(* and no other code takes that lock to write, so each is one step.  A     *)
(* Room object is a member of Instances: the manager's map forgets a room  *)
(* when it empties and a later Join allocates a new object, while the mix  *)
(* clock of the old one may still be running.                              *)
(***************************************************************************)
EXTENDS Naturals, FiniteSets

CONSTANTS
  Sessions,    (* session ids                                              *)
  RoomIds,     (* room names, the keys of Manager.rooms                    *)
  RoomOf,      (* Session.roomID, fixed when the session is created        *)
  Instances,   (* the Room objects that can be allocated                   *)
  NoRoom,      (* a missing key of Manager.rooms                           *)
  Goroutines   (* what a session launches, statsLoop aside: decodeLoop,    *)
               (* encodeDispatcher, sendLoop and encWorkers encodeWorkers  *)

ASSUME RoomOfAssumption     == RoomOf \in [Sessions -> RoomIds]
ASSUME NoRoomAssumption     == NoRoom \notin Instances
ASSUME GoroutinesAssumption == Goroutines \in [Sessions -> Nat]

VARIABLES
  rooms,      (* Manager.rooms                                             *)
  members,    (* Room.members of each object                               *)
  clockOn,    (* Room.clockOn of each object                               *)
  closed,     (* the object's done channel is closed                       *)
  phase,      (* where the object's mixClock goroutine is                  *)
  roster,     (* the snapshot the current tick works on                    *)
  todo,       (* the part of the snapshot the current loop has not met     *)
  sig,        (* how far the session's signaling goroutine got             *)
  open,       (* the OnOpen callback: none, pending, or past the launches  *)
  startOnce,  (* Session.startOnce has fired                               *)
  wg,         (* those of Goroutines the WaitGroup still counts            *)
  stats       (* statsLoop, which it counts too: where it is               *)

roomVars    == <<rooms, members, clockOn, closed>>
clockVars   == <<phase, roster, todo>>
sessionVars == <<sig, open, startOnce, wg, stats>>
vars        == <<roomVars, clockVars, sessionVars>>

(* The stages of Session.Close, in the order the statements run. *)
Stage == {"up", "left", "signalled", "pcClosed", "closed"}

TypeOK ==
  /\ rooms     \in [RoomIds -> Instances \cup {NoRoom}]
  /\ members   \in [Instances -> SUBSET Sessions]
  /\ clockOn   \in [Instances -> BOOLEAN]
  /\ closed    \in [Instances -> BOOLEAN]
  /\ phase     \in [Instances -> {"off", "wait", "read", "submit", "ended"}]
  /\ roster    \in [Instances -> SUBSET Sessions]
  /\ todo      \in [Instances -> SUBSET Sessions]
  /\ sig       \in [Sessions -> Stage]
  /\ open      \in [Sessions -> {"none", "pending", "launched"}]
  /\ startOnce \in [Sessions -> BOOLEAN]
  /\ wg        \in [Sessions -> Nat] /\ \A s \in Sessions : wg[s] <= Goroutines[s]
  /\ stats     \in [Sessions -> {"none", "sending", "select", "ended"}]

Init ==
  /\ rooms     = [r \in RoomIds |-> NoRoom]
  /\ members   = [i \in Instances |-> {}]
  /\ clockOn   = [i \in Instances |-> FALSE]
  /\ closed    = [i \in Instances |-> FALSE]
  /\ phase     = [i \in Instances |-> "off"]
  /\ roster    = [i \in Instances |-> {}]
  /\ todo      = [i \in Instances |-> {}]
  /\ sig       = [s \in Sessions |-> "up"]
  /\ open      = [s \in Sessions |-> "none"]
  /\ startOnce = [s \in Sessions |-> FALSE]
  /\ wg        = [s \in Sessions |-> 0]
  /\ stats     = [s \in Sessions |-> "none"]

-----------------------------------------------------------------------------
(* The OnOpen callback. *)

(* Pion opens the DataChannel and hands the callback to a goroutine of its  *)
(* own; it cannot do so once the PeerConnection is closed.                  *)
DataChannelOpens(s) ==
  /\ sig[s] \in {"up", "left", "signalled"}
  /\ open[s] = "none"
  /\ open' = [open EXCEPT ![s] = "pending"]
  /\ UNCHANGED <<roomVars, clockVars, sig, startOnce, wg, stats>>

(* Deviation: the callback launches the goroutines every time it runs. *)
StartPipeline_EveryTime(s) ==
  /\ open[s] = "pending"
  /\ open' = [open EXCEPT ![s] = "launched"]
  /\ wg'   = [wg EXCEPT ![s] = @ + Goroutines[s]]
  /\ UNCHANGED <<roomVars, clockVars, sig, startOnce, stats>>

(* The callback's startOnce.Do: launch the goroutines, or find them started. *)
StartPipeline(s) ==
  /\ open[s] = "pending"
  /\ IF startOnce[s]
       THEN /\ open' = [open EXCEPT ![s] = "none"]
            /\ UNCHANGED <<startOnce, wg, stats>>
       ELSE /\ open'      = [open EXCEPT ![s] = "launched"]
            /\ startOnce' = [startOnce EXCEPT ![s] = TRUE]
            /\ wg'        = [wg EXCEPT ![s] = Goroutines[s]]
            /\ stats'     = [stats EXCEPT ![s] = "sending"]
  /\ UNCHANGED <<roomVars, clockVars, sig>>

(* Deviation: the first participant does not start the clock. *)
Add_NoClock(i, s) ==
  /\ members' = [members EXCEPT ![i] = @ \cup {s}]
  /\ clockOn' = [clockOn EXCEPT ![i] = TRUE]
  /\ UNCHANGED phase

(* Room.Add: enter the roster; the first participant starts the clock. *)
Add(i, s) ==
  /\ members' = [members EXCEPT ![i] = @ \cup {s}]
  /\ clockOn' = [clockOn EXCEPT ![i] = TRUE]
  /\ phase'   = [phase EXCEPT ![i] = IF clockOn[i] THEN @ ELSE "wait"]

(* A Room object nobody has been added to yet: what NewRoom returns. *)
Unused == {i \in Instances : ~clockOn[i]}

(* Manager.Join, the last statement of startPipeline. *)
Join(s) ==
  /\ open[s] = "launched"
  /\ open' = [open EXCEPT ![s] = "none"]
  /\ LET r == RoomOf[s]
     IN \/ /\ rooms[r] # NoRoom
           /\ Add(rooms[r], s)
           /\ UNCHANGED rooms
        \/ /\ rooms[r] = NoRoom
           /\ \E i \in Unused : /\ Add(i, s)
                                /\ rooms' = [rooms EXCEPT ![r] = i]
  /\ UNCHANGED <<closed, roster, todo, sig, startOnce, wg, stats>>

-----------------------------------------------------------------------------
(* Session.Close, run by the signaling goroutine, one statement at a time. *)

(* Deviation: the room is closed and keeps its name. *)
Destroy_KeepsName(r, i) ==
  /\ closed' = [closed EXCEPT ![i] = TRUE]
  /\ UNCHANGED rooms

(* Room.Close, and the manager forgets the room. *)
Destroy(r, i) ==
  /\ closed' = [closed EXCEPT ![i] = TRUE]
  /\ rooms'  = [rooms EXCEPT ![r] = NoRoom]

(* Manager.Leave: Room.Remove, and an empty room is destroyed. *)
Leave(s) ==
  /\ sig[s] = "up"
  /\ sig' = [sig EXCEPT ![s] = "left"]
  /\ LET r == RoomOf[s]
         i == rooms[r]
     IN IF i = NoRoom
          THEN UNCHANGED <<rooms, members, closed>>
          ELSE /\ members' = [members EXCEPT ![i] = @ \ {s}]
               /\ IF members[i] \subseteq {s}
                    THEN Destroy(r, i)
                    ELSE UNCHANGED <<closed, rooms>>
  /\ UNCHANGED <<clockOn, clockVars, open, startOnce, wg, stats>>

(* No goroutine of the pipeline is left for the WaitGroup to count. *)
PipelineOver(s) == wg[s] = 0 /\ stats[s] \in {"none", "ended"}

(* Deviation: Close waits for the goroutines before it tells them. *)
CloseDone_AfterWait(s) ==
  /\ sig[s] = "left"
  /\ PipelineOver(s)
  /\ sig' = [sig EXCEPT ![s] = "signalled"]
  /\ UNCHANGED <<roomVars, clockVars, open, startOnce, wg, stats>>

(* closeOnce.Do(close(done)) *)
CloseDone(s) ==
  /\ sig[s] = "left"
  /\ sig' = [sig EXCEPT ![s] = "signalled"]
  /\ UNCHANGED <<roomVars, clockVars, open, startOnce, wg, stats>>

DoneClosed(s) == sig[s] \notin {"up", "left"}

(* pc.Close() *)
ClosePeer(s) ==
  /\ sig[s] = "signalled"
  /\ sig' = [sig EXCEPT ![s] = "pcClosed"]
  /\ UNCHANGED <<roomVars, clockVars, open, startOnce, wg, stats>>

(* wg.Wait() returns and Close with it; only then ServeHTTP's other         *)
(* deferred call closes the signaling connection.                           *)
WaitReturns(s) ==
  /\ sig[s] = "pcClosed"
  /\ PipelineOver(s)
  /\ sig' = [sig EXCEPT ![s] = "closed"]
  /\ UNCHANGED <<roomVars, clockVars, open, startOnce, wg, stats>>

(* A pipeline goroutine other than statsLoop sees the closed done channel   *)
(* and returns.  Between its selects it waits for nothing: decoding and     *)
(* encoding compute, pushSend has defaults, dc.Send only queues.  What the  *)
(* dispatcher and the workers have in hand is in module EncodePipeline.     *)
GoroutineExits(s) ==
  /\ wg[s] > 0
  /\ DoneClosed(s)
  /\ wg' = [wg EXCEPT ![s] = @ - 1]
  /\ UNCHANGED <<roomVars, clockVars, sig, open, startOnce, stats>>

-----------------------------------------------------------------------------
(* statsLoop *)

(* sendRoomStats on a tick: the manager still names the room, and what it   *)
(* says of it is written to the signaling connection.  (Otherwise nothing   *)
(* happens.)  StartPipeline leaves the loop in its first sendRoomStats.     *)
SendRoomStats(s) ==
  /\ stats[s] = "select"
  /\ rooms[RoomOf[s]] # NoRoom
  /\ stats' = [stats EXCEPT ![s] = "sending"]
  /\ UNCHANGED <<roomVars, clockVars, sig, open, startOnce, wg>>

(* sendRoomStats returns, whether the write succeeded or failed.  A write   *)
(* has no deadline: when it returns is up to whoever holds writeMu and to   *)
(* the other end of the connection.                                         *)
SendReturns(s) ==
  /\ stats[s] = "sending"
  /\ stats' = [stats EXCEPT ![s] = "select"]
  /\ UNCHANGED <<roomVars, clockVars, sig, open, startOnce, wg>>

(* The done case of its select. *)
StatsLoopExits(s) ==
  /\ stats[s] = "select"
  /\ DoneClosed(s)
  /\ stats' = [stats EXCEPT ![s] = "ended"]
  /\ UNCHANGED <<roomVars, clockVars, sig, open, startOnce, wg>>

-----------------------------------------------------------------------------
(* Room.mixClock *)

(* The timer case of the select, then snapshot().  On an empty roster the   *)
(* tick changes nothing this module sees.  Nothing stops the timer case     *)
(* from winning against a done channel that is closed as well.              *)
Tick(i) ==
  /\ phase[i] = "wait"
  /\ members[i] # {}
  /\ phase'  = [phase EXCEPT ![i] = "read"]
  /\ roster' = [roster EXCEPT ![i] = members[i]]
  /\ todo'   = [todo EXCEPT ![i] = members[i]]
  /\ UNCHANGED <<roomVars, sessionVars>>

(* accumulate calls ReadInputFrame on the next member of the snapshot (the  *)
(* roster is a map, so in any order).                                       *)
ReadInputFrame(i, s) ==
  /\ phase[i] = "read"
  /\ s \in todo[i]
  /\ IF todo[i] = {s}
       THEN /\ phase' = [phase EXCEPT ![i] = "submit"]
            /\ todo'  = [todo EXCEPT ![i] = roster[i]]
       ELSE /\ todo'  = [todo EXCEPT ![i] = @ \ {s}]
            /\ UNCHANGED phase
  /\ UNCHANGED <<roomVars, roster, sessionVars>>

(* The minus-one mix of the next member is handed to it. *)
SubmitMix(i, s) ==
  /\ phase[i] = "submit"
  /\ s \in todo[i]
  /\ todo' = [todo EXCEPT ![i] = @ \ {s}]
  /\ IF todo[i] = {s}
       THEN /\ phase'  = [phase EXCEPT ![i] = "wait"]
            /\ roster' = [roster EXCEPT ![i] = {}]
       ELSE UNCHANGED <<phase, roster>>
  /\ UNCHANGED <<roomVars, sessionVars>>

(* Deviation: an empty roster skips the select. *)
ClockStops_IfManned(i) ==
  /\ phase[i] = "wait"
  /\ closed[i]
  /\ members[i] # {}
  /\ phase' = [phase EXCEPT ![i] = "ended"]
  /\ UNCHANGED <<roomVars, roster, todo, sessionVars>>

(* The done case of the select: the clock goroutine returns. *)
ClockStops(i) ==
  /\ phase[i] = "wait"
  /\ closed[i]
  /\ phase' = [phase EXCEPT ![i] = "ended"]
  /\ UNCHANGED <<roomVars, roster, todo, sessionVars>>

-----------------------------------------------------------------------------
Callback(s)  == DataChannelOpens(s) \/ StartPipeline(s) \/ Join(s)
Close(s)     == Leave(s) \/ CloseDone(s) \/ ClosePeer(s) \/ WaitReturns(s)
StatsLoop(s) == SendRoomStats(s) \/ SendReturns(s) \/ StatsLoopExits(s)
Clock(i)     == \/ Tick(i) \/ ClockStops(i)
                \/ \E s \in Sessions : ReadInputFrame(i, s) \/ SubmitMix(i, s)

Next ==
  \/ \E s \in Sessions  : Callback(s) \/ Close(s) \/ GoroutineExits(s) \/ StatsLoop(s)
  \/ \E i \in Instances : Clock(i)

Spec == Init /\ [][Next]_vars

(* A write to a connection this end has closed fails at once. *)
SendFails(s) == sig[s] = "closed" /\ SendReturns(s)

(* Goroutines are scheduled: a callback that was handed over runs, Close    *)
(* goes on once Leave ran, pipeline goroutines reach their select, the      *)
(* clock's timer fires, and a select that is reached again and again takes  *)
(* its done case (Go picks at random among the ready ones).                 *)
(* Nobody owes us an open DataChannel or a Close, and nobody a write on a   *)
(* connection that is open.                                                 *)
Fairness ==
  /\ \A s \in Sessions :
       /\ WF_vars(StartPipeline(s) \/ Join(s))
       /\ WF_vars(CloseDone(s) \/ ClosePeer(s) \/ WaitReturns(s))
       /\ WF_vars(GoroutineExits(s))
       /\ WF_vars(SendFails(s)) /\ SF_vars(StatsLoopExits(s))
  /\ \A i \in Instances :
       /\ WF_vars(Tick(i))
       /\ WF_vars(ClockStops(i))
       /\ \A s \in Sessions : WF_vars(ReadInputFrame(i, s) \/ SubmitMix(i, s))

FairSpec == Spec /\ Fairness

-----------------------------------------------------------------------------
(* Properties *)

(* The manager's map holds exactly the rooms with somebody in them, no      *)
(* Room object is under two names, each of them has a running mix clock and *)
(* an open done channel.  A Join that found a room already shut down would  *)
(* leave its session in a conference nobody mixes.                          *)
Registered(i) == \E r \in RoomIds : rooms[r] = i

LiveRooms ==
  /\ \A i \in Instances : Registered(i) <=> members[i] # {}
  /\ \A i \in Instances : Registered(i) => /\ ~closed[i]
                                           /\ phase[i] \notin {"off", "ended"}
  /\ \A r, q \in RoomIds : rooms[r] = rooms[q] /\ rooms[r] # NoRoom => r = q

(* A session is touched by one mix clock at a time: ReadInputFrame keeps    *)
(* the VAD hangover and SubmitMix relies on a single producer, both without *)
(* a lock, and an old room's clock can outlive the room.                    *)
Touches(i, s) == s \in todo[i] \/ (phase[i] = "read" /\ s \in roster[i])

OneMixer ==
  \A s \in Sessions : \A i, j \in Instances :
    Touches(i, s) /\ Touches(j, s) => i = j

(* The clock of a room that was torn down stops, whatever tick it was in. *)
ClosedClockStops == \A i \in Instances : closed[i] ~> phase[i] = "ended"

(* Whoever is in a room is handed a mix, unless it leaves first. *)
InRoom(s)  == \E i \in Instances : s \in members[i]
OfferMix(s) == \E i \in Instances : phase[i] = "submit" /\ s \in todo[i]

MembersAreMixed == \A s \in Sessions : InRoom(s) ~> (OfferMix(s) \/ ~InRoom(s))

(* Once Close has begun it returns and no pipeline goroutine is left, one   *)
(* that was started after done was closed included, unless Close is held up *)
(* for good: by a send of the room stats, which only the peer can end or    *)
(* conn.Close, and that comes after Close.  Nothing else that Close waits   *)
(* for waits, directly or in a circle, for what Close has yet to do.        *)
TornDown(s) == sig[s] = "closed" /\ open[s] # "pending" /\ PipelineOver(s)
HeldUp(s)   == sig[s] = "pcClosed" /\ stats[s] = "sending"

CloseReturns ==
  \A s \in Sessions : []<>~HeldUp(s) => (sig[s] = "left" ~> TornDown(s))

(* What Close and the manager promise together: a session that has been     *)
(* closed is in no room, so a room is destroyed when its last one leaves.   *)
ClosedSessionsAreOut == \A s \in Sessions : sig[s] = "closed" => ~InRoom(s)
=============================================================================
