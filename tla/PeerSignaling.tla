--------------------------- MODULE PeerSignaling ---------------------------
(***************************************************************************)
(* The signaling server for calls between two parties.                     *)
(*                                                                         *)
(* Rooms come in two families: in a mono room the client names its role,   *)
(* in a bidirectional room the server gives it one.  A room is an object   *)
(* with one property per role, a socket carries the place it joined last   *)
(* (ws.roomType, ws.room, ws.role).  The server is single-threaded, so an  *)
(* event handler is a step.  Between the moment a socket stops being OPEN  *)
(* and its close event, other sockets' events may be handled.              *)
(***************************************************************************)
EXTENDS Naturals, FiniteSets

CONSTANTS
  Sockets,   (* the WebSocket connections                                  *)
  RoomIds,   (* the room names clients ask for, in either family           *)
  NoSocket,  (* an absent property of a room object                        *)
  NoPlace,   (* a socket that joined nothing                               *)
  MaxJoins   (* bound: how often one socket is let into a room             *)

ASSUME NoSocketAssumption == NoSocket \notin Sockets
ASSUME MaxJoinsAssumption == MaxJoins \in Nat

Families == {"mono", "bidirectional"}
Keys     == Families \X RoomIds

(* The one that must create the offer, and the one it is made to. *)
MakerRole   == [f \in Families |-> IF f = "mono" THEN "sender" ELSE "offerer"]
PartnerRole == [f \in Families |-> IF f = "mono" THEN "receiver" ELSE "answerer"]
Roles(f)    == {MakerRole[f], PartnerRole[f]}
Places      == {p \in Keys \X UNION {Roles(f) : f \in Families} : p[2] \in Roles(p[1][1])}

Maker(k)    == <<k, MakerRole[k[1]]>>
Partner(k)  == <<k, PartnerRole[k[1]]>>
Opposite(p) == IF p = Maker(p[1]) THEN Partner(p[1]) ELSE Maker(p[1])

ASSUME NoPlaceAssumption == NoPlace \notin Places

VARIABLES
  ready,    (* readyState: open, closing (no longer OPEN), closed          *)
  at,       (* ws.roomType, ws.room and ws.role                            *)
  slot,     (* the properties of the room objects                          *)
  rooms,    (* the keys of monoRooms and bidirectionalRooms                *)
  joins,    (* how often the socket was let in (bounded)                   *)
  met,      (* history: <<room, maker, partner>> when peer_ready was sent  *)
  told,     (* history: <<room, socket, who left>> of peer_disconnected    *)
  evicted,  (* history: places emptied under a live holder                 *)
  relayed   (* the message just relayed: {<<from, to>>}, or {}             *)

sigVars == <<ready, at, slot, rooms, joins, met, told, evicted, relayed>>

SigInit ==
  /\ ready   = [s \in Sockets |-> "open"]
  /\ at      = [s \in Sockets |-> NoPlace]
  /\ slot    = [p \in Places |-> NoSocket]
  /\ rooms   = {}
  /\ joins   = [s \in Sockets |-> 0]
  /\ met     = {}
  /\ told    = {}
  /\ evicted = {}
  /\ relayed = {}

IsOpen(s) == s # NoSocket /\ ready[s] = "open"

-----------------------------------------------------------------------------
(* The two introductions: whoever comes second, the maker is sent          *)
(* peer_ready if the other is there.  What happened to s in this room      *)
(* before it came in again is history no longer.                           *)
Introduces_ToWaitingMakerOnly(p) == IsOpen(slot[Opposite(p)]) /\ p = Partner(p[1])
Introduces(p) == IsOpen(slot[Opposite(p)])

Enter(s, p) ==
  LET k     == p[1]
      other == slot[Opposite(p)]
      pair  == IF p = Maker(k) THEN <<k, s, other>> ELSE <<k, other, s>>
  IN /\ slot'  = [slot EXCEPT ![p] = s]
     /\ rooms' = rooms \cup {k}
     /\ at'    = [at EXCEPT ![s] = p]
     /\ joins' = [joins EXCEPT ![s] = @ + 1]
     /\ met'   = {m \in met : m[1] # k \/ s \notin {m[2], m[3]}}
                   \cup (IF Introduces(p) THEN {pair} ELSE {})
     /\ told'  = {t \in told : t[1] # k \/ s # t[2]}
     /\ relayed' = {}
     /\ UNCHANGED <<ready, evicted>>

(* A role is free when nobody holds it or its holder is no longer OPEN. *)
Free_Always(p) == p \in Places
Free(p) == ~IsOpen(slot[p])

(* "join": let in, or refused with an error, which changes nothing. *)
Join(s, r, role) ==
  LET p == <<<<"mono", r>>, role>>
  IN /\ IsOpen(s) /\ joins[s] < MaxJoins
     /\ Free(p)
     /\ Enter(s, p)

(* "join_node": the offerer's place first, then the answerer's. *)
JoinNode(s, r) ==
  LET k == <<"bidirectional", r>>
  IN /\ IsOpen(s) /\ joins[s] < MaxJoins
     /\ \/ Free(Maker(k)) /\ Enter(s, Maker(k))
        \/ ~Free(Maker(k)) /\ Free(Partner(k)) /\ Enter(s, Partner(k))

(* A socket whose room object is gone, or that never joined, gets nowhere. *)
InRoom(s) == at[s] # NoPlace /\ at[s][1] \in rooms

(* "offer", "answer" and "ice" go to whoever holds the opposite role of the *)
(* sender's room, if it is OPEN; otherwise the sender is sent an error.     *)
RelayTarget(s) == {t \in {slot[Opposite(at[s])]} : IsOpen(t)}

Relay(s) ==
  /\ IsOpen(s) /\ InRoom(s)
  /\ RelayTarget(s) # {}
  /\ relayed' = {<<s, t>> : t \in RelayTarget(s)}
  /\ UNCHANGED <<ready, at, slot, rooms, joins, met, told, evicted>>

(* The connection goes down; the close event is yet to come. *)
GoDown(s) ==
  /\ IsOpen(s)
  /\ ready' = [ready EXCEPT ![s] = "closing"]
  /\ relayed' = {}
  /\ UNCHANGED <<at, slot, rooms, joins, met, told, evicted>>

(* What the close handler deletes: the property of the role, whoever holds  *)
(* it by then.                                                             *)
Vacated(s) == {at[s]}

(* Whom it tells: the holder of the opposite role. *)
Notified_OfMaker(s) == {o \in {slot[Opposite(at[s])]} : IsOpen(o) /\ at[s] = Maker(at[s][1])}
Notified(s) == {o \in {slot[Opposite(at[s])]} : IsOpen(o)}

(* The room objects that have lost their last property. *)
Emptied_Never(s) == {k \in {at[s][1]} : at[s] = NoPlace}
Emptied(s) == {k \in {at[s][1]} : \A p \in Places : p[1] = k => p \in Vacated(s) \/ slot[p] = NoSocket}

CloseEvent(s) ==
  /\ ready[s] = "closing"
  /\ ready' = [ready EXCEPT ![s] = "closed"]
  /\ \/ /\ ~InRoom(s)
        /\ UNCHANGED <<slot, rooms, told, evicted>>
     \/ /\ InRoom(s)
        /\ slot'    = [p \in Places |-> IF p \in Vacated(s) THEN NoSocket ELSE slot[p]]
        /\ rooms'   = rooms \ Emptied(s)
        /\ told'    = told \cup {<<at[s][1], o, s>> : o \in Notified(s)}
        /\ evicted' = evicted \cup {p \in Vacated(s) : IsOpen(slot[p])}
  /\ relayed' = {}
  /\ UNCHANGED <<at, joins, met>>

SigNext ==
  \E s \in Sockets :
    \/ \E r \in RoomIds, role \in Roles("mono") : Join(s, r, role)
    \/ \E r \in RoomIds : JoinNode(s, r)
    \/ Relay(s)
    \/ GoDown(s)
    \/ CloseEvent(s)

-----------------------------------------------------------------------------
SigTypeOK ==
  /\ ready   \in [Sockets -> {"open", "closing", "closed"}]
  /\ at      \in [Sockets -> Places \cup {NoPlace}]
  /\ slot    \in [Places -> Sockets \cup {NoSocket}]
  /\ rooms   \subseteq Keys
  /\ joins   \in [Sockets -> 0 .. MaxJoins]
  /\ met     \subseteq Keys \X Sockets \X Sockets
  /\ told    \subseteq Keys \X Sockets \X Sockets
  /\ evicted \subseteq Places
  /\ relayed \subseteq Sockets \X Sockets

(* Two live sockets that hold the two roles of a room have been introduced: *)
(* peer_ready was sent to the one that makes the offer, after the second of *)
(* them joined, whichever that was and whatever happened in the room before. *)
(* Without it both wait for ever.  (server.js:109-117, 151-159)             *)
PairsIntroduced ==
  \A k \in Keys :
    LET a == slot[Maker(k)]
        b == slot[Partner(k)]
    IN IsOpen(a) /\ IsOpen(b) => <<k, a, b>> \in met

(* Whoever was introduced to a socket that has closed was told so, if it    *)
(* still holds its role; a socket that joined a second room is reported     *)
(* only there.  (server.js:193-196)                                         *)
DepartureTold ==
  \A m \in met : \A p \in {Maker(m[1]), Partner(m[1])} :
    LET s    == IF p = Maker(m[1]) THEN m[2] ELSE m[3]
        gone == IF p = Maker(m[1]) THEN m[3] ELSE m[2]
    IN (slot[p] = s /\ IsOpen(s) /\ ready[gone] = "closed" /\ joins[gone] = 1)
         => <<m[1], s, gone>> \in told

(* A message reaches only a socket that its sender was introduced to in the *)
(* room they share, except where the close of a replaced socket emptied the *)
(* place of the sender: then somebody else may hold that place and have     *)
(* been introduced instead.  (server.js:92, 135-136, 190, 275-286)          *)
RelayedToPeer ==
  \A m \in relayed :
    LET k == at[m[1]][1]
    IN {<<k, m[1], m[2]>>, <<k, m[2], m[1]>>} \cap met # {} \/ at[m[1]] \in evicted

(* A room object lives exactly as long as one of its roles is held, and a   *)
(* socket whose close was handled holds one only if it joined more than     *)
(* once, which leaves its earlier places behind.  (server.js:88, 190-201)   *)
RoomsReclaimed ==
  /\ rooms = {p[1] : p \in {q \in Places : slot[q] # NoSocket}}
  /\ \A p \in Places : (slot[p] # NoSocket /\ ready[slot[p]] = "closed") => joins[slot[p]] > 1
=============================================================================
