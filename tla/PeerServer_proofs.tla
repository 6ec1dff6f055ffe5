-------------------------- MODULE PeerServer_proofs --------------------------
(* What server.js promises, for any number of sockets, rooms and requests   *)
(* and any lifetimes: every pair is introduced, and every credential served *)
(* still works.                                                             *)
EXTENDS PeerServer, TLAPS

(* Places and roles: the opposite of a place is the other one of its room. *)
LEMMA OppositePlaces ==
  ASSUME NEW k \in Keys
  PROVE  /\ Maker(k) # Partner(k)
         /\ Opposite(Maker(k)) = Partner(k)
         /\ Opposite(Partner(k)) = Maker(k)
         /\ Maker(k)[1] = k /\ Partner(k)[1] = k
         /\ Maker(k) \in Places /\ Partner(k) \in Places
<1>0. k[1] \in Families
  BY DEF Keys
<1>1. MakerRole[k[1]] # PartnerRole[k[1]]
  BY <1>0 DEF MakerRole, PartnerRole, Families
<1>2. Maker(k)[1] = k /\ Partner(k)[1] = k
  BY DEF Maker, Partner
<1>3. Maker(k) # Partner(k)
  BY <1>1 DEF Maker, Partner
<1>4. Opposite(Maker(k)) = Partner(k) /\ Opposite(Partner(k)) = Maker(k)
  BY <1>2, <1>3 DEF Opposite
<1>5. {MakerRole[k[1]], PartnerRole[k[1]]} \subseteq UNION {Roles(f) : f \in Families}
  BY <1>0 DEF Roles
<1>6. Maker(k) \in Places /\ Partner(k) \in Places
  BY <1>0, <1>5 DEF Places, Maker, Partner, Roles
<1> QED
  BY <1>2, <1>3, <1>4, <1>6

(* Every place is one of the two of its room. *)
LEMMA PlacesOfRooms ==
  ASSUME NEW p \in Places
  PROVE  /\ p[1] \in Keys
         /\ p = Maker(p[1]) \/ p = Partner(p[1])
BY DEF Places, Maker, Partner, Roles

(* The places that can be asked for. *)
LEMMA JoinPlaces ==
  ASSUME NEW r \in RoomIds
  PROVE  /\ \A role \in Roles("mono") : <<<<"mono", r>>, role>> \in Places
         /\ Maker(<<"bidirectional", r>>) \in Places
         /\ Partner(<<"bidirectional", r>>) \in Places
<1>1. \A role \in Roles("mono") : <<<<"mono", r>>, role>> \in Places
  BY DEF Places, Keys, Roles, Families
<1>2. <<"bidirectional", r>> \in Keys
  BY DEF Keys, Families
<1> QED
  BY <1>1, <1>2, OppositePlaces

-----------------------------------------------------------------------------
(* The rooms.  An invariant of its own: who is introduced is decided in the *)
(* very step that completes the pair.                                       *)
SlotsTyped ==
  /\ slot \in [Places -> Sockets \cup {NoSocket}]
  /\ ready \in [Sockets -> {"open", "closing", "closed"}]

RoomsInv == SlotsTyped /\ PairsIntroduced

LEMMA RoomsInitially == Init => RoomsInv
<1> SUFFICES ASSUME Init PROVE RoomsInv
  OBVIOUS
<1>1. SlotsTyped
  BY DEF Init, SigInit, SlotsTyped
<1>2. PairsIntroduced
  BY OppositePlaces DEF Init, SigInit, PairsIntroduced, IsOpen
<1> QED
  BY <1>1, <1>2 DEF RoomsInv

(* A socket that takes a place completes at most the pair of its own room. *)
LEMMA EnterKeeps ==
  ASSUME RoomsInv, NEW s \in Sockets, NEW p \in Places, IsOpen(s), Enter(s, p)
  PROVE  RoomsInv'
<1> USE DEF RoomsInv
<1>1. SlotsTyped'
  BY DEF SlotsTyped, Enter
<1>2. ASSUME NEW k \in Keys, IsOpen(slot[Maker(k)])', IsOpen(slot[Partner(k)])'
      PROVE  <<k, slot'[Maker(k)], slot'[Partner(k)]>> \in met'
  <2>0. ready' = ready /\ slot' = [slot EXCEPT ![p] = s]
    BY DEF Enter
  <2>1. CASE k # p[1]
    <3>1. Maker(k) # p /\ Partner(k) # p
      BY <2>1, OppositePlaces
    <3>2. slot'[Maker(k)] = slot[Maker(k)] /\ slot'[Partner(k)] = slot[Partner(k)]
      BY <2>0, <3>1, OppositePlaces DEF SlotsTyped
    <3>3. <<k, slot[Maker(k)], slot[Partner(k)]>> \in met
      BY <1>2, <2>0, <3>2 DEF PairsIntroduced, IsOpen
    <3> QED
      BY <2>1, <3>2, <3>3 DEF Enter
  <2>2. CASE k = p[1] /\ p = Maker(k)
    <3>1. slot'[Maker(k)] = s /\ slot'[Partner(k)] = slot[Partner(k)]
      BY <2>0, <2>2, OppositePlaces DEF SlotsTyped
    <3>2. Opposite(p) = Partner(k)
      BY <2>2, OppositePlaces
    <3>3. Introduces(p)
      BY <1>2, <2>0, <3>1, <3>2 DEF Introduces, IsOpen
    <3>4. <<p[1], s, slot[Opposite(p)]>> \in met'
      BY <2>2, <3>3 DEF Enter
    <3> QED
      BY <2>2, <3>1, <3>2, <3>4
  <2>3. CASE k = p[1] /\ p = Partner(k)
    <3>1. slot'[Partner(k)] = s /\ slot'[Maker(k)] = slot[Maker(k)]
      BY <2>0, <2>3, OppositePlaces DEF SlotsTyped
    <3>2. Opposite(p) = Maker(k) /\ p # Maker(k)
      BY <2>3, OppositePlaces
    <3>3. Introduces(p)
      BY <1>2, <2>0, <3>1, <3>2 DEF Introduces, IsOpen
    <3>4. <<p[1], slot[Opposite(p)], s>> \in met'
      BY <2>3, <3>2, <3>3 DEF Enter
    <3> QED
      BY <2>3, <3>1, <3>2, <3>4
  <2> QED
    BY <2>1, <2>2, <2>3, PlacesOfRooms
<1> QED
  BY <1>1, <1>2 DEF PairsIntroduced

(* A step that opens no socket, fills no place and forgets no meeting. *)
LEMMA NobodyNew ==
  ASSUME RoomsInv, SlotsTyped',
         \A x \in Sockets : IsOpen(x)' => IsOpen(x),
         \A p \in Places : slot'[p] = slot[p] \/ slot'[p] = NoSocket,
         met' = met
  PROVE  RoomsInv'
<1>1. ASSUME NEW k \in Keys, IsOpen(slot[Maker(k)])', IsOpen(slot[Partner(k)])'
      PROVE  <<k, slot'[Maker(k)], slot'[Partner(k)]>> \in met'
  <2>1. slot'[Maker(k)] = slot[Maker(k)] /\ slot'[Partner(k)] = slot[Partner(k)]
    BY <1>1, OppositePlaces DEF IsOpen
  <2>2. slot[Maker(k)] \in Sockets /\ slot[Partner(k)] \in Sockets
    BY <1>1, <2>1, OppositePlaces DEF RoomsInv, SlotsTyped, IsOpen
  <2>3. IsOpen(slot[Maker(k)]) /\ IsOpen(slot[Partner(k)])
    BY <1>1, <2>1, <2>2 DEF IsOpen
  <2> QED
    BY <2>1, <2>3 DEF RoomsInv, PairsIntroduced
<1> QED
  BY <1>1 DEF RoomsInv, PairsIntroduced

LEMMA RoomsKept == RoomsInv /\ [Next]_vars => RoomsInv'
<1> SUFFICES ASSUME RoomsInv, [Next]_vars PROVE RoomsInv'
  OBVIOUS
<1>1. CASE Rooms
  <2> SUFFICES ASSUME NEW s \in Sockets,
                      \/ \E r \in RoomIds, role \in Roles("mono") : Join(s, r, role)
                      \/ \E r \in RoomIds : JoinNode(s, r)
                      \/ Relay(s) \/ GoDown(s) \/ CloseEvent(s)
               PROVE  RoomsInv'
    BY <1>1 DEF Rooms, SigNext
  <2>1. CASE \E r \in RoomIds, role \in Roles("mono") : Join(s, r, role)
    BY <2>1, JoinPlaces, EnterKeeps DEF Join
  <2>2. CASE \E r \in RoomIds : JoinNode(s, r)
    BY <2>2, JoinPlaces, EnterKeeps DEF JoinNode
  <2>3. CASE Relay(s)
    BY <2>3, NobodyNew DEF Relay, RoomsInv, SlotsTyped, IsOpen
  <2>4. CASE GoDown(s)
    <3>1. SlotsTyped' /\ \A x \in Sockets : IsOpen(x)' => IsOpen(x)
      BY <2>4 DEF GoDown, RoomsInv, SlotsTyped, IsOpen
    <3> QED
      BY <2>4, <3>1, NobodyNew DEF GoDown
  <2>5. CASE CloseEvent(s)
    <3>1. /\ slot' \in [Places -> Sockets \cup {NoSocket}]
          /\ \A p \in Places : slot'[p] = slot[p] \/ slot'[p] = NoSocket
      BY <2>5 DEF CloseEvent, RoomsInv, SlotsTyped
    <3>2. SlotsTyped' /\ \A x \in Sockets : IsOpen(x)' => IsOpen(x)
      BY <2>5, <3>1 DEF CloseEvent, RoomsInv, SlotsTyped, IsOpen
    <3> QED
      BY <2>5, <3>1, <3>2, NobodyNew DEF CloseEvent
  <2> QED
    BY <2>1, <2>2, <2>3, <2>4, <2>5
<1>2. CASE Turn
  BY <1>2, NobodyNew DEF Turn, sigVars, RoomsInv, SlotsTyped, IsOpen
<1>3. CASE UNCHANGED vars
  BY <1>3, NobodyNew DEF vars, sigVars, RoomsInv, SlotsTyped, IsOpen
<1> QED
  BY <1>1, <1>2, <1>3 DEF Next

(* For any sockets and rooms: two live sockets that hold the two roles of a *)
(* room have been introduced to one another.  (server.js:109-117, 151-159)  *)
THEOREM EveryPairIntroduced == Spec => []PairsIntroduced
<1>1. RoomsInv => PairsIntroduced
  BY DEF RoomsInv
<1> QED
  BY <1>1, RoomsInitially, RoomsKept, PTL DEF Spec

-----------------------------------------------------------------------------
(* Types.  A socket in a room is at one of its places. *)
LEMMA SigTypedInitially == Init => SigTypeOK
BY MaxJoinsAssumption DEF Init, SigInit, SigTypeOK

LEMMA EnterTyped ==
  ASSUME SigTypeOK, NEW s \in Sockets, NEW p \in Places, IsOpen(s), joins[s] < MaxJoins,
         Enter(s, p)
  PROVE  SigTypeOK'
<1>1. p[1] \in Keys /\ Opposite(p) \in Places
  BY PlacesOfRooms, OppositePlaces
<1>2. ready' \in [Sockets -> {"open", "closing", "closed"}] /\ evicted' \subseteq Places
  BY DEF Enter, SigTypeOK
<1>3. /\ at' \in [Sockets -> Places \cup {NoPlace}]
      /\ slot' \in [Places -> Sockets \cup {NoSocket}]
      /\ rooms' \subseteq Keys
  BY <1>1 DEF Enter, SigTypeOK
<1>4. joins' \in [Sockets -> 0 .. MaxJoins]
  BY MaxJoinsAssumption DEF Enter, SigTypeOK
<1>5. met' \subseteq Keys \X Sockets \X Sockets
  <2>1. Introduces(p) => slot[Opposite(p)] \in Sockets
    BY <1>1 DEF Introduces, IsOpen, SigTypeOK
  <2>2. Introduces(p) => /\ <<p[1], s, slot[Opposite(p)]>> \in Keys \X Sockets \X Sockets
                         /\ <<p[1], slot[Opposite(p)], s>> \in Keys \X Sockets \X Sockets
    BY <1>1, <2>1
  <2> QED
    BY <2>2 DEF Enter, SigTypeOK
<1>6. told' \subseteq Keys \X Sockets \X Sockets /\ relayed' \subseteq Sockets \X Sockets
  BY DEF Enter, SigTypeOK
<1> QED
  BY <1>2, <1>3, <1>4, <1>5, <1>6 DEF SigTypeOK

(* Of the other steps, a close and a relay name whoever holds the opposite  *)
(* place.                                                                   *)
LEMMA CloseTyped ==
  ASSUME SigTypeOK, NEW s \in Sockets, CloseEvent(s)
  PROVE  SigTypeOK'
<1>1. ready' \in [Sockets -> {"open", "closing", "closed"}]
  BY DEF CloseEvent, SigTypeOK
<1>2. CASE ~InRoom(s)
  BY <1>1, <1>2 DEF CloseEvent, SigTypeOK
<1>3. CASE InRoom(s)
  <2>1. at[s] \in Places /\ at[s][1] \in Keys /\ Opposite(at[s]) \in Places
    BY <1>3, PlacesOfRooms, OppositePlaces DEF InRoom, SigTypeOK
  <2>2. \A o \in Notified(s) : o \in Sockets
    BY <2>1 DEF Notified, IsOpen, SigTypeOK
  <2>3. told' \subseteq Keys \X Sockets \X Sockets
    <3>1. told' = told \cup {<<at[s][1], o, s>> : o \in Notified(s)}
      BY <1>3 DEF CloseEvent
    <3> QED
      BY <2>1, <2>2, <3>1 DEF SigTypeOK
  <2>4. slot' \in [Places -> Sockets \cup {NoSocket}]
    BY <1>3 DEF CloseEvent, SigTypeOK
  <2>5. evicted' \subseteq Places
    BY <1>3, <2>1 DEF CloseEvent, Vacated, SigTypeOK
  <2>6. rooms' \subseteq Keys /\ UNCHANGED <<at, joins, met>> /\ relayed' = {}
    BY <1>3 DEF CloseEvent, SigTypeOK
  <2> QED
    BY <1>1, <2>3, <2>4, <2>5, <2>6 DEF SigTypeOK
<1> QED
  BY <1>2, <1>3

LEMMA RelayTyped ==
  ASSUME SigTypeOK, NEW s \in Sockets, Relay(s)
  PROVE  SigTypeOK'
<1>1. Opposite(at[s]) \in Places
  BY PlacesOfRooms, OppositePlaces DEF Relay, InRoom, SigTypeOK
<1>2. RelayTarget(s) \subseteq Sockets
  BY <1>1 DEF RelayTarget, IsOpen, SigTypeOK
<1> QED
  BY <1>2 DEF Relay, SigTypeOK

LEMMA SigTypedKept == SigTypeOK /\ [SigNext]_sigVars => SigTypeOK'
<1> SUFFICES ASSUME SigTypeOK, [SigNext]_sigVars PROVE SigTypeOK'
  OBVIOUS
<1>1. ASSUME NEW s \in Sockets, NEW r \in RoomIds, NEW role \in Roles("mono"), Join(s, r, role)
      PROVE  SigTypeOK'
  BY <1>1, JoinPlaces, EnterTyped DEF Join
<1>2. ASSUME NEW s \in Sockets, NEW r \in RoomIds, JoinNode(s, r) PROVE SigTypeOK'
  BY <1>2, JoinPlaces, EnterTyped DEF JoinNode
<1>3. ASSUME NEW s \in Sockets, GoDown(s) PROVE SigTypeOK'
  BY <1>3 DEF GoDown, SigTypeOK
<1>4. CASE UNCHANGED sigVars
  BY <1>4 DEF sigVars, SigTypeOK
<1> QED
  BY <1>1, <1>2, <1>3, <1>4, CloseTyped, RelayTyped DEF SigNext

-----------------------------------------------------------------------------
(* Who is where.  A place belongs to the socket that joined it last, and    *)
(* only one that joined again may have left it behind.                      *)
Staying ==
  \A p \in Places : slot[p] # NoSocket =>
    /\ joins[slot[p]] > 0
    /\ at[slot[p]] = p \/ joins[slot[p]] > 1

(* The two parties of a meeting, by their places. *)
Member(m, p) == IF p = Maker(m[1]) THEN m[2] ELSE m[3]

(* Whoever met somebody as a member of a room is at that place of it, unless *)
(* it joined again.                                                         *)
MeetingPlaces ==
  \A m \in met : \A p \in {Maker(m[1]), Partner(m[1])} :
    /\ joins[Member(m, p)] > 0
    /\ joins[Member(m, p)] = 1 => at[Member(m, p)] = p

(* A live socket holds the place it joined last, unless it was emptied under *)
(* it.                                                                      *)
Holding ==
  \A s \in Sockets : IsOpen(s) /\ at[s] # NoPlace => slot[at[s]] = s \/ at[s] \in evicted

(* DepartureTold, with the parties of a meeting named by their places. *)
Told(m, p) ==
  LET s    == Member(m, p)
      gone == Member(m, Opposite(p))
  IN slot[p] = s /\ IsOpen(s) /\ ready[gone] = "closed" /\ joins[gone] = 1
       => <<m[1], s, gone>> \in told

AllTold == \A m \in met : \A p \in {Maker(m[1]), Partner(m[1])} : Told(m, p)

CallsInv ==
  /\ SigTypeOK /\ PairsIntroduced
  /\ RoomsReclaimed /\ Staying
  /\ Holding /\ RelayedToPeer
  /\ MeetingPlaces /\ AllTold

LEMMA ToldByPlace ==
  ASSUME SigTypeOK PROVE AllTold <=> DepartureTold
<1> SUFFICES ASSUME NEW m \in met
             PROVE  /\ Member(m, Maker(m[1])) = m[2]
                    /\ Member(m, Partner(m[1])) = m[3]
                    /\ Opposite(Maker(m[1])) = Partner(m[1])
                    /\ Opposite(Partner(m[1])) = Maker(m[1])
                    /\ Maker(m[1]) # Partner(m[1])
  BY DEF AllTold, Told, DepartureTold
<1>1. m[1] \in Keys
  BY DEF SigTypeOK
<1> QED
  BY <1>1, OppositePlaces DEF Member

LEMMA CallsInitially == Init => CallsInv
<1> SUFFICES ASSUME Init PROVE CallsInv
  OBVIOUS
<1>1. SigTypeOK /\ PairsIntroduced
  BY SigTypedInitially, RoomsInitially DEF RoomsInv
<1>2. RoomsReclaimed /\ Staying /\ MeetingPlaces /\ AllTold /\ Holding /\ RelayedToPeer
  BY DEF Init, SigInit, RoomsReclaimed, Staying, MeetingPlaces, AllTold, Holding, RelayedToPeer
<1> QED
  BY <1>1, <1>2 DEF CallsInv

(* A join: the rooms and who is where. *)
LEMMA EnterReclaims ==
  ASSUME CallsInv, NEW s \in Sockets, NEW p \in Places, IsOpen(s), Enter(s, p)
  PROVE  RoomsReclaimed' /\ Staying'
<1> USE NoSocketAssumption DEF CallsInv, SigTypeOK
<1>1. slot' = [slot EXCEPT ![p] = s] /\ rooms' = rooms \cup {p[1]} /\ ready' = ready
  BY DEF Enter
<1>2. joins' = [joins EXCEPT ![s] = @ + 1] /\ at' = [at EXCEPT ![s] = p]
  BY DEF Enter
<1>3. {q[1] : q \in {x \in Places : slot'[x] # NoSocket}}
        = {q[1] : q \in {x \in Places : slot[x] # NoSocket}} \cup {p[1]}
  BY <1>1
<1>4. Staying'
  <2> SUFFICES ASSUME NEW q \in Places, slot'[q] # NoSocket
               PROVE  /\ joins'[slot'[q]] > 0
                      /\ at'[slot'[q]] = q \/ joins'[slot'[q]] > 1
    BY DEF Staying
  <2>1. CASE q = p
    BY <1>1, <1>2, <2>1
  <2>2. CASE q # p
    <3>1. slot'[q] = slot[q] /\ slot[q] \in Sockets
      BY <1>1, <2>2
    <3>2. joins[slot[q]] > 0 /\ (at[slot[q]] = q \/ joins[slot[q]] > 1)
      BY <3>1 DEF Staying
    <3> QED
      BY <1>2, <3>1, <3>2
  <2> QED
    BY <2>1, <2>2
<1>5. \A q \in Places : slot'[q] # NoSocket /\ ready'[slot'[q]] = "closed" => joins'[slot'[q]] > 1
  <2> SUFFICES ASSUME NEW q \in Places, slot'[q] # NoSocket, ready'[slot'[q]] = "closed"
               PROVE  joins'[slot'[q]] > 1
    OBVIOUS
  <2>1. slot'[q] # s
    BY <1>1 DEF IsOpen
  <2>2. slot'[q] = slot[q] /\ slot[q] \in Sockets
    BY <1>1, <2>1
  <2> QED
    BY <1>1, <1>2, <2>1, <2>2 DEF RoomsReclaimed
<1> QED
  BY <1>1, <1>3, <1>4, <1>5 DEF RoomsReclaimed

(* A join: whoever met somebody is still where it met it. *)
LEMMA EnterMeets ==
  ASSUME CallsInv, NEW s \in Sockets, NEW p \in Places, IsOpen(s), Free(p), Enter(s, p)
  PROVE  Holding' /\ MeetingPlaces'
<1> USE NoSocketAssumption DEF CallsInv, SigTypeOK
<1>1. slot' = [slot EXCEPT ![p] = s] /\ ready' = ready /\ evicted' = evicted
  BY DEF Enter
<1>2. joins' = [joins EXCEPT ![s] = @ + 1] /\ at' = [at EXCEPT ![s] = p]
  BY DEF Enter
<1>3. Holding'
  <2> SUFFICES ASSUME NEW x \in Sockets, IsOpen(x), at'[x] # NoPlace
               PROVE  slot'[at'[x]] = x \/ at'[x] \in evicted
    BY <1>1 DEF Holding, IsOpen
  <2>1. CASE x = s
    BY <1>1, <1>2, <2>1
  <2>2. CASE x # s
    BY <1>1, <1>2, <2>2 DEF Holding, Free, IsOpen
  <2> QED
    BY <2>1, <2>2
<1>4. MeetingPlaces'
  <2> SUFFICES ASSUME NEW m \in met', NEW q \in {Maker(m[1]), Partner(m[1])}
               PROVE  /\ joins'[Member(m, q)] > 0
                      /\ joins'[Member(m, q)] = 1 => at'[Member(m, q)] = q
    BY DEF MeetingPlaces, Member, Maker, Partner
  <2>1. CASE m \in met
    <3>1. m[2] \in Sockets /\ m[3] \in Sockets
      BY <2>1
    <3>2. Member(m, q) \in Sockets
      BY <3>1 DEF Member
    <3>3. joins[Member(m, q)] > 0 /\ (joins[Member(m, q)] = 1 => at[Member(m, q)] = q)
      BY <2>1 DEF MeetingPlaces
    <3> QED
      BY <1>2, <3>2, <3>3
  <2>2. CASE m \notin met
    <3> DEFINE o == slot[Opposite(p)]
    <3>0. Opposite(p) \in Places /\ p[1] \in Keys
      BY PlacesOfRooms, OppositePlaces
    <3>1. /\ Introduces(p)
          /\ m = IF p = Maker(p[1]) THEN <<p[1], s, o>> ELSE <<p[1], o, s>>
      BY <2>2 DEF Enter
    <3>2. o \in Sockets /\ joins[o] > 0 /\ (at[o] = Opposite(p) \/ joins[o] > 1)
      BY <3>0, <3>1 DEF Introduces, IsOpen, Staying
    <3>3. m[1] = p[1]
      BY <3>1
    <3>4. (q = p /\ Member(m, q) = s) \/ (q = Opposite(p) /\ Member(m, q) = o)
      <4>1. CASE p = Maker(p[1])
        BY <3>0, <3>1, <3>3, <4>1, OppositePlaces DEF Member
      <4>2. CASE p = Partner(p[1])
        BY <3>0, <3>1, <3>3, <4>2, OppositePlaces DEF Member
      <4> QED
        BY <4>1, <4>2, PlacesOfRooms
    <3>5. joins'[s] > 0 /\ at'[s] = p
      BY <1>2
    <3>6. joins'[o] > 0 /\ (joins'[o] = 1 => o # s /\ at[o] = Opposite(p))
      BY <1>2, <3>2
    <3> QED
      BY <1>2, <3>2, <3>4, <3>5, <3>6
  <2> QED
    BY <2>1, <2>2
<1> QED
  BY <1>3, <1>4

(* A join forgets what s was told in the room, and whom it had met there. *)
LEMMA EnterTells ==
  ASSUME CallsInv, NEW s \in Sockets, NEW p \in Places, IsOpen(s), Enter(s, p)
  PROVE  AllTold'
<1> USE NoSocketAssumption DEF CallsInv, SigTypeOK
<1> SUFFICES ASSUME NEW m \in met', NEW q \in {Maker(m[1]), Partner(m[1])}
             PROVE  Told(m, q)'
  BY DEF AllTold
<1> SUFFICES ASSUME slot'[q] = Member(m, q), IsOpen(Member(m, q))',
                    ready'[Member(m, Opposite(q))] = "closed",
                    joins'[Member(m, Opposite(q))] = 1
             PROVE  <<m[1], Member(m, q), Member(m, Opposite(q))>> \in told'
  BY DEF Told
<1>1. ready' = ready /\ slot' = [slot EXCEPT ![p] = s] /\ joins' = [joins EXCEPT ![s] = @ + 1]
  BY DEF Enter
<1>2. CASE m \in met
  <2>1. m[1] \in Keys /\ m[2] \in Sockets /\ m[3] \in Sockets
    BY <1>2
  <2>2. m[1] # p[1] \/ s \notin {m[2], m[3]}
    <3>1. CASE m \in {x \in met : x[1] # p[1] \/ s \notin {x[2], x[3]}}
      BY <3>1
    <3>2. CASE Introduces(p) /\ m = IF p = Maker(p[1]) THEN <<p[1], s, slot[Opposite(p)]>>
                                                      ELSE <<p[1], slot[Opposite(p)], s>>
      <4>1. Member(m, Opposite(q)) \in {s, slot[Opposite(p)]}
        BY <3>2 DEF Member
      <4> QED
        BY <1>1, <3>2, <4>1 DEF Introduces, IsOpen
    <3> QED
      BY <3>1, <3>2 DEF Enter
  <2>3. q # p
    <3>1. CASE q = p
      <4>1. p[1] = m[1] /\ Member(m, q) = s
        BY <1>1, <2>1, <3>1, OppositePlaces
      <4> QED
        BY <2>2, <4>1 DEF Member
    <3> QED
      BY <3>1
  <2>4. q \in Places /\ slot[q] = Member(m, q)
    BY <1>1, <2>1, <2>3, OppositePlaces
  <2>5. Member(m, Opposite(q)) # s /\ Member(m, Opposite(q)) \in Sockets
    BY <1>1, <2>1 DEF IsOpen, Member
  <2>6. <<m[1], Member(m, q), Member(m, Opposite(q))>> \in told
    BY <1>1, <1>2, <2>4, <2>5 DEF AllTold, Told, IsOpen
  <2>7. m[1] # p[1] \/ s # Member(m, q)
    BY <2>2 DEF Member
  <2> QED
    BY <2>6, <2>7 DEF Enter
<1>3. CASE m \notin met
  <2>1. Introduces(p) /\ (m = <<p[1], s, slot[Opposite(p)]>> \/ m = <<p[1], slot[Opposite(p)], s>>)
    BY <1>3 DEF Enter
  <2>2. Member(m, Opposite(q)) \in {s, slot[Opposite(p)]}
    BY <2>1 DEF Member
  <2> QED
    BY <1>1, <2>1, <2>2 DEF Introduces, IsOpen
<1> QED
  BY <1>2, <1>3

(* A close: what was emptied, and who left a place behind. *)
LEMMA CloseReclaims ==
  ASSUME CallsInv, NEW s \in Sockets, CloseEvent(s)
  PROVE  RoomsReclaimed' /\ Staying' /\ Holding'
<1> USE NoSocketAssumption, NoPlaceAssumption DEF CallsInv, SigTypeOK
<1>1. /\ ready[s] = "closing" /\ ready' = [ready EXCEPT ![s] = "closed"]
      /\ at' = at /\ joins' = joins
  BY DEF CloseEvent
<1>2. \A q \in Places : slot'[q] = slot[q] \/ slot'[q] = NoSocket
  BY DEF CloseEvent
<1>3. Staying'
  BY <1>1, <1>2 DEF Staying
<1>4. \A x \in Sockets : IsOpen(x)' => IsOpen(x)
  BY <1>1 DEF IsOpen
<1>5. CASE ~InRoom(s)
  <2>1. slot' = slot /\ rooms' = rooms /\ evicted' = evicted
    BY <1>5 DEF CloseEvent
  <2>2. \A q \in Places : slot[q] = s => joins[s] > 1
    <3>1. \A q \in Places : slot[q] = s => q[1] \in rooms
      BY DEF RoomsReclaimed
    <3> QED
      BY <1>5, <3>1 DEF InRoom, Staying
  <2>3. RoomsReclaimed'
    BY <1>1, <2>1, <2>2 DEF RoomsReclaimed
  <2>4. Holding'
    BY <1>1, <1>4, <2>1 DEF Holding
  <2> QED
    BY <1>3, <2>3, <2>4
<1>6. CASE InRoom(s)
  <2>0. at[s] \in Places
    BY <1>6 DEF InRoom
  <2>1. /\ slot' = [q \in Places |-> IF q = at[s] THEN NoSocket ELSE slot[q]]
        /\ rooms' = rooms \ Emptied(s)
        /\ evicted' = evicted \cup {q \in {at[s]} : IsOpen(slot[q])}
    BY <1>6 DEF CloseEvent, Vacated
  <2>2. rooms' = {q[1] : q \in {x \in Places : slot'[x] # NoSocket}}
    <3>1. rooms = {q[1] : q \in {x \in Places : slot[x] # NoSocket}}
      BY DEF RoomsReclaimed
    <3>2. ASSUME NEW k PROVE k \in Emptied(s) <=>
            k = at[s][1] /\ \A q \in Places : q[1] = k => slot'[q] = NoSocket
      BY <2>1 DEF Emptied, Vacated
    <3>3. ASSUME NEW k \in rooms' PROVE \E q \in Places : slot'[q] # NoSocket /\ q[1] = k
      BY <2>1, <3>1, <3>2
    <3>4. ASSUME NEW q \in Places, slot'[q] # NoSocket PROVE q[1] \in rooms'
      BY <2>1, <3>1, <3>2, <3>4
    <3> QED
      BY <3>3, <3>4
  <2>3. \A q \in Places : slot'[q] # NoSocket /\ ready'[slot'[q]] = "closed" => joins'[slot'[q]] > 1
    <3> SUFFICES ASSUME NEW q \in Places, slot'[q] # NoSocket, ready'[slot'[q]] = "closed"
                 PROVE  joins'[slot'[q]] > 1
      OBVIOUS
    <3>1. q # at[s] /\ slot'[q] = slot[q] /\ slot[q] \in Sockets
      BY <2>1
    <3>2. CASE slot[q] = s
      BY <1>1, <3>1, <3>2 DEF Staying
    <3>3. CASE slot[q] # s
      BY <1>1, <3>1, <3>3 DEF RoomsReclaimed
    <3> QED
      BY <3>2, <3>3
  <2>4. Holding'
    <3> SUFFICES ASSUME NEW x \in Sockets, IsOpen(x)', at[x] # NoPlace
                 PROVE  slot'[at[x]] = x \/ at[x] \in evicted'
      BY <1>1 DEF Holding
    <3>1. at[x] \in Places /\ (slot[at[x]] = x \/ at[x] \in evicted) /\ IsOpen(x)
      BY <1>4 DEF Holding
    <3> QED
      BY <2>1, <3>1
  <2> QED
    BY <1>3, <2>2, <2>3, <2>4 DEF RoomsReclaimed
<1> QED
  BY <1>5, <1>6

(* A close: the one who leaves was at the place it was met at, so the other  *)
(* one of that room is told.                                                *)
LEMMA CloseTells ==
  ASSUME CallsInv, NEW s \in Sockets, CloseEvent(s)
  PROVE  AllTold'
<1> USE NoSocketAssumption, NoPlaceAssumption DEF CallsInv, SigTypeOK
<1>1. /\ ready[s] = "closing" /\ ready' = [ready EXCEPT ![s] = "closed"]
      /\ at' = at /\ joins' = joins /\ met' = met /\ told \subseteq told'
  BY DEF CloseEvent
<1>2. \A q \in Places : slot'[q] = slot[q] \/ slot'[q] = NoSocket
  BY DEF CloseEvent
<1> SUFFICES ASSUME NEW m \in met, NEW q \in {Maker(m[1]), Partner(m[1])}
             PROVE  Told(m, q)'
  BY <1>1 DEF AllTold
<1> SUFFICES ASSUME slot'[q] = Member(m, q), IsOpen(Member(m, q))',
                    ready'[Member(m, Opposite(q))] = "closed",
                    joins[Member(m, Opposite(q))] = 1
             PROVE  <<m[1], Member(m, q), Member(m, Opposite(q))>> \in told'
  BY <1>1 DEF Told, IsOpen
<1>3. m[1] \in Keys /\ m[2] \in Sockets /\ m[3] \in Sockets
  OBVIOUS
<1>4. Member(m, q) \in Sockets /\ Member(m, Opposite(q)) \in Sockets
  BY <1>3 DEF Member
<1>5. q \in Places /\ slot[q] = Member(m, q) /\ IsOpen(Member(m, q))
  BY <1>1, <1>2, <1>3, <1>4, OppositePlaces DEF IsOpen
<1>6. CASE Member(m, Opposite(q)) # s
  <2>1. ready[Member(m, Opposite(q))] = "closed"
    BY <1>1, <1>4, <1>6
  <2> QED
    BY <1>1, <1>5, <2>1 DEF AllTold, Told
<1>7. CASE Member(m, Opposite(q)) = s
  <2>1. /\ Opposite(q) \in {Maker(m[1]), Partner(m[1])} /\ Opposite(Opposite(q)) = q
        /\ q[1] = m[1] /\ Opposite(q)[1] = m[1] /\ Opposite(q) \in Places
    BY <1>3, OppositePlaces
  <2>2. at[s] = Opposite(q)
    BY <1>7, <2>1 DEF MeetingPlaces
  <2>3. InRoom(s)
    <3>1. q[1] \in rooms
      BY <1>5 DEF RoomsReclaimed, IsOpen
    <3> QED
      BY <2>1, <2>2, <3>1 DEF InRoom
  <2>4. told' = told \cup {<<at[s][1], o, s>> : o \in Notified(s)}
    BY <2>3 DEF CloseEvent
  <2>5. Member(m, q) \in Notified(s)
    BY <1>5, <2>1, <2>2 DEF Notified
  <2> QED
    BY <1>7, <2>1, <2>2, <2>4, <2>5
<1> QED
  BY <1>6, <1>7

(* A relay: its sender holds its place, unless that was emptied under it, so *)
(* the one it reaches has been introduced to it.                            *)
LEMMA RelayReaches ==
  ASSUME CallsInv, NEW s \in Sockets, Relay(s)
  PROVE  RelayedToPeer'
<1> USE NoSocketAssumption, NoPlaceAssumption DEF CallsInv, SigTypeOK
<1> DEFINE k == at[s][1]
           t == slot[Opposite(at[s])]
<1>1. /\ IsOpen(s) /\ InRoom(s) /\ UNCHANGED <<at, met, evicted>>
      /\ relayed' = {<<s, x>> : x \in RelayTarget(s)}
  BY DEF Relay
<1>2. at[s] \in Places /\ k \in Keys /\ (at[s] = Maker(k) \/ at[s] = Partner(k))
  BY <1>1, PlacesOfRooms DEF InRoom
<1>3. SUFFICES ASSUME IsOpen(t), at[s] \notin evicted
               PROVE  <<k, s, t>> \in met \/ <<k, t, s>> \in met
  <2>1. \A m \in relayed' : m = <<s, t>> /\ IsOpen(t)
    BY <1>1 DEF RelayTarget
  <2> QED
    BY <1>1, <1>3, <2>1 DEF RelayedToPeer
<1>4. slot[at[s]] = s
  BY <1>1, <1>2, <1>3 DEF Holding
<1>5. <<k, slot[Maker(k)], slot[Partner(k)]>> \in met
  <2>1. IsOpen(slot[Maker(k)]) /\ IsOpen(slot[Partner(k)])
    BY <1>1, <1>2, <1>3, <1>4, OppositePlaces
  <2> QED
    BY <1>2, <2>1 DEF PairsIntroduced
<1> QED
  BY <1>2, <1>4, <1>5, OppositePlaces

LEMMA CallsKept == CallsInv /\ [Next]_vars => CallsInv'
<1> SUFFICES ASSUME CallsInv, [Next]_vars PROVE CallsInv'
  OBVIOUS
<1>0. [SigNext]_sigVars
  BY DEF Next, Rooms, Turn, vars
<1>1. SigTypeOK' /\ PairsIntroduced'
  <2>1. RoomsInv
    BY DEF CallsInv, SigTypeOK, RoomsInv, SlotsTyped
  <2> QED
    BY <1>0, <2>1, SigTypedKept, RoomsKept DEF CallsInv, RoomsInv
<1>2. ASSUME NEW s \in Sockets, NEW p \in Places, IsOpen(s), Free(p), Enter(s, p)
      PROVE  CallsInv'
  <2>1. RelayedToPeer'
    BY <1>2 DEF Enter, RelayedToPeer
  <2> QED
    BY <1>1, <1>2, <2>1, EnterReclaims, EnterMeets, EnterTells DEF CallsInv
<1>3. ASSUME NEW s \in Sockets, NEW r \in RoomIds, NEW role \in Roles("mono"), Join(s, r, role)
      PROVE  CallsInv'
  BY <1>2, <1>3, JoinPlaces DEF Join
<1>4. ASSUME NEW s \in Sockets, NEW r \in RoomIds, JoinNode(s, r) PROVE CallsInv'
  BY <1>2, <1>4, JoinPlaces DEF JoinNode
<1>5. ASSUME NEW s \in Sockets, CloseEvent(s) PROVE CallsInv'
  <2>1. MeetingPlaces' /\ RelayedToPeer'
    BY <1>5 DEF CallsInv, CloseEvent, MeetingPlaces, RelayedToPeer, Member
  <2> QED
    BY <1>1, <1>5, <2>1, CloseReclaims, CloseTells DEF CallsInv
<1>6. ASSUME NEW s \in Sockets, Relay(s) PROVE CallsInv'
  <2>1. RoomsReclaimed' /\ Staying' /\ Holding' /\ MeetingPlaces' /\ AllTold'
    BY <1>6 DEF CallsInv, Relay, RoomsReclaimed, Staying, Holding, MeetingPlaces, AllTold,
                Told, Member, IsOpen
  <2> QED
    BY <1>1, <1>6, <2>1, RelayReaches DEF CallsInv
<1>7. ASSUME NEW s \in Sockets, GoDown(s) PROVE CallsInv'
  <2>1. /\ \A x \in Sockets : /\ IsOpen(x)' => IsOpen(x)
                              /\ ready'[x] = "closed" <=> ready[x] = "closed"
        /\ UNCHANGED <<at, slot, rooms, joins, met, told, evicted>> /\ relayed' = {}
    BY <1>7 DEF GoDown, IsOpen, CallsInv, SigTypeOK
  <2>2. RoomsReclaimed' /\ Staying' /\ Holding' /\ MeetingPlaces' /\ RelayedToPeer'
    BY <2>1 DEF CallsInv, SigTypeOK, RoomsReclaimed, Staying, Holding, MeetingPlaces,
                RelayedToPeer, Member
  <2>3. AllTold'
    <3> SUFFICES ASSUME NEW m \in met, NEW p \in {Maker(m[1]), Partner(m[1])}, Told(m, p)
                 PROVE  Told(m, p)'
      BY <2>1 DEF AllTold, CallsInv
    <3>1. Member(m, p) \in Sockets /\ Member(m, Opposite(p)) \in Sockets
      BY DEF Member, CallsInv, SigTypeOK
    <3>2. Member(m, p)' = Member(m, p) /\ Member(m, Opposite(p))' = Member(m, Opposite(p))
      BY DEF Member
    <3> QED
      BY <2>1, <3>1, <3>2 DEF Told
  <2> QED
    BY <1>1, <2>2, <2>3 DEF CallsInv
<1>8. CASE UNCHANGED sigVars
  BY <1>1, <1>8 DEF sigVars, CallsInv, RoomsReclaimed, Staying, Holding, MeetingPlaces,
                    AllTold, Told, Member, IsOpen, RelayedToPeer
<1> QED
  BY <1>0, <1>3, <1>4, <1>5, <1>6, <1>7, <1>8 DEF SigNext

(* For any sockets, rooms and number of joins: the server's objects have    *)
(* the types its handlers rely on.  (server.js:52-57, 67-70)                *)
THEOREM SignalingTyped == Spec => []SigTypeOK
<1>1. CallsInv => SigTypeOK
  BY DEF CallsInv
<1> QED
  BY <1>1, CallsInitially, CallsKept, PTL DEF Spec

(* For any sockets and rooms, joined any number of times: who was introduced *)
(* to a socket that has closed, having joined nowhere else, was told so if  *)
(* it still holds its role.  (server.js:193-196)                            *)
THEOREM EveryDepartureTold == Spec => []DepartureTold
<1>1. CallsInv => DepartureTold
  BY ToldByPlace DEF CallsInv
<1> QED
  BY <1>1, CallsInitially, CallsKept, PTL DEF Spec

(* For any sockets and rooms: an offer, an answer or a candidate reaches    *)
(* only a socket its sender was introduced to, unless the sender's place was *)
(* emptied under it.  (server.js:92, 135-136, 190, 275-286)                 *)
THEOREM RelaysBetweenPeers == Spec => []RelayedToPeer
<1>1. CallsInv => RelayedToPeer
  BY DEF CallsInv
<1> QED
  BY <1>1, CallsInitially, CallsKept, PTL DEF Spec

(* For any sockets and rooms: the room objects are those with a role held,  *)
(* and only a socket that joined more than once holds one after its close.  *)
(* (server.js:88, 190-201)                                                  *)
THEOREM RoomsAreReclaimed == Spec => []RoomsReclaimed
<1>1. CallsInv => RoomsReclaimed
  BY DEF CallsInv
<1> QED
  BY <1>1, CallsInitially, CallsKept, PTL DEF Spec

-----------------------------------------------------------------------------
(* The credential cache.  A request is given up before credentials made for *)
(* it can expire, and an expiry is dated from before they were made.        *)
Waiting(r) == req[r].waits => /\ req[r].asked <= clock
                              /\ clock <= req[r].asked + FetchMax
                              /\ req[r].minted # 0 => req[r].minted >= req[r].asked + Ttl

TurnInv ==
  /\ clock \in Nat
  /\ cache \in [real : Nat, expires : Nat] /\ cache.expires <= cache.real
  /\ req \in [Requests -> [asked : Nat, minted : Nat, waits : BOOLEAN]]
  /\ \A r \in Requests : Waiting(r)
  /\ served \in [when : Nat, creds : [real : Nat, expires : Nat]]
  /\ ServedWork

LEMMA TurnInitially == Init => TurnInv
BY TtlAssumption DEF Init, TurnInit, None, Idle, TurnInv, Waiting, ServedWork

LEMMA TurnKept == TurnInv /\ [Next]_vars => TurnInv'
<1> SUFFICES ASSUME TurnInv, [Next]_vars PROVE TurnInv'
  OBVIOUS
<1> USE TtlAssumption DEF TurnInv
<1>1. CASE Turn
  <2>1. CASE Pass
    <3>1. ASSUME NEW r \in Requests PROVE Waiting(r)'
      BY <2>1, <3>1 DEF Pass, Waiting
    <3> QED
      BY <2>1, <3>1 DEF Pass, ServedWork
  <2>2. ASSUME NEW r \in Requests, CacheHit(r) PROVE TurnInv'
    BY <2>2 DEF CacheHit, Fresh, Answer, Waiting, ServedWork
  <2>3. ASSUME NEW r \in Requests, Ask(r) PROVE TurnInv'
    <3>1. \A q \in Requests : Waiting(q)'
      BY <2>3 DEF Ask, Waiting
    <3> QED
      BY <2>3, <3>1 DEF Ask, ServedWork
  <2>4. ASSUME NEW r \in Requests, Mint(r) PROVE TurnInv'
    <3>1. \A q \in Requests : Waiting(q)'
      BY <2>4 DEF Mint, Waiting
    <3>2. req' \in [Requests -> [asked : Nat, minted : Nat, waits : BOOLEAN]]
      BY <2>4 DEF Mint
    <3> QED
      BY <2>4, <3>1, <3>2 DEF Mint, ServedWork
  <2>5. ASSUME NEW r \in Requests, Store(r) PROVE TurnInv'
    <3>1. Waiting(r) /\ req[r].waits /\ req[r].minted # 0
      BY <2>5 DEF Store
    <3>2. /\ req[r].minted > clock
          /\ req[r].asked + Ttl <= req[r].minted
          /\ req[r].minted \in Nat /\ req[r].asked + Ttl \in Nat
      BY <3>1 DEF Waiting
    <3>3. \A q \in Requests : Waiting(q)'
      BY <2>5 DEF Store, Waiting, Idle
    <3>4. req' \in [Requests -> [asked : Nat, minted : Nat, waits : BOOLEAN]]
      BY <2>5 DEF Store, Idle
    <3> QED
      BY <2>5, <3>2, <3>3, <3>4 DEF Store, Fetched, Answer, ServedWork
  <2>6. ASSUME NEW r \in Requests, Fallback(r) PROVE TurnInv'
    <3>1. \A q \in Requests : Waiting(q)'
      BY <2>6 DEF Fallback, Waiting, Idle
    <3>2. req' \in [Requests -> [asked : Nat, minted : Nat, waits : BOOLEAN]]
      BY <2>6 DEF Fallback, Idle
    <3>3. CASE Usable /\ Answer(cache)
      BY <2>6, <3>1, <3>2, <3>3 DEF Fallback, Usable, Answer, ServedWork
    <3>4. CASE UNCHANGED served
      BY <2>6, <3>1, <3>2, <3>4 DEF Fallback, ServedWork
    <3> QED
      BY <2>6, <3>3, <3>4 DEF Fallback
  <2> QED
    BY <1>1, <2>1, <2>2, <2>3, <2>4, <2>5, <2>6 DEF Turn, TurnNext
<1>2. CASE Rooms \/ UNCHANGED vars
  <2>1. UNCHANGED turnVars
    BY <1>2 DEF Rooms, vars
  <2> QED
    BY <2>1 DEF turnVars, Waiting, ServedWork
<1> QED
  BY <1>1, <1>2 DEF Next

(* For any number of overlapping requests, any lifetime and any time limit  *)
(* shorter than it: what is served has not expired, and is not announced to *)
(* live longer than it does.  (server.js:293-323, 328)                      *)
THEOREM ServedCredentialsWork == Spec => []ServedWork
<1>1. TurnInv => ServedWork
  BY DEF TurnInv
<1> QED
  BY <1>1, TurnInitially, TurnKept, PTL DEF Spec
=============================================================================
