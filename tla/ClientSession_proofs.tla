------------------------ MODULE ClientSession_proofs ------------------------
(***************************************************************************)
(* The negotiation of a call, for any candidates of the two ends and any   *)
(* number of transient disconnections; and the page, for any number of     *)
(* attempts and recordings.                                                *)
(***************************************************************************)
EXTENDS ClientSession, TLAPS

(* Every step is one of these, of the negotiation or of the page alone. *)
LEMMA StepCases ==
  ASSUME [Next]_vars, NEW P,
         SetLocalDescription => P, SendOffer => P, HandleAnswer => P, AddRemoteICE => P,
         ServerCloses => P, HandleOffer => P, HandleIce => P, SetRemoteDescription => P,
         DrainOne => P, DrainDone => P, CreateAnswer => P, SendAnswer => P,
         \A c \in ServerCandidates : OnICECandidate(c) => P,
         \A c \in ClientCandidates : LocalCandidate(c) => P,
         TransportUp => P, ChannelOpens => P, ChannelCloses => P,
         \A s \in {"disconnected", "failed"} : TransportDown(s) => P,
         Destroy => P, LinkBreaks => P, UNCHANGED negVars => P
  PROVE  P
<1>1. CASE InNegotiation /\ NegNext
  BY <1>1 DEF NegNext, ServerSteps, ClientSteps
<1>2. CASE InPage \/ UNCHANGED vars
  BY <1>2 DEF InPage, vars
<1> QED
  BY <1>1, <1>2 DEF Next

-----------------------------------------------------------------------------
(* Types *)

Messages == {Offer, Answer} \cup {Ice(c) : c \in Candidates}

LEMMA Written ==
  ASSUME NEW e \in Ends, NEW m \in Messages, NegTypeOK, Write(e, m)
  PROVE  wire' \in [Ends -> Seq(Messages)]
<1>1. wire \in [Ends -> Seq(Messages)]
  BY DEF NegTypeOK, Messages
<1>2. Append(wire[e], m) \in Seq(Messages)
  BY <1>1
<1> QED
  BY <1>1, <1>2 DEF Write

LEMMA Received ==
  ASSUME NEW e \in Ends, NegTypeOK, Receive(e)
  PROVE  /\ wire' \in [Ends -> Seq(Messages)] /\ e \notin closed
         /\ wire[e] \in Seq(Messages) /\ wire[e] # <<>>
         /\ wire' = [wire EXCEPT ![e] = Tail(wire[e])]
<1>1. wire \in [Ends -> Seq(Messages)]
  BY DEF NegTypeOK, Messages
<1>2. Tail(wire[e]) \in Seq(Messages)
  BY <1>1 DEF Receive
<1> QED
  BY <1>1, <1>2 DEF Receive, Live

LEMMA KeptTyped ==
  ASSUME NegTypeOK, NEW e \in Ends
  PROVE  kept[e] \in Seq(Candidates) /\ Range(kept[e]) \subseteq Candidates
<1>1. kept[e] \in Seq(Candidates)
  BY DEF NegTypeOK
<1> QED
  BY <1>1 DEF Range

LEMMA TakenTyped ==
  ASSUME NEW e \in Ends, NegTypeOK, TakeCandidate(e)
  PROVE  NegTypeOK'
<1>1. PICK c \in Candidates :
        /\ Receive(e)
        /\ heard' = [heard EXCEPT ![e] = heard[e] \cup {c}]
        /\ \/ applied' = [applied EXCEPT ![e] = applied[e] \cup {c}] /\ kept' = kept
           \/ kept' = [kept EXCEPT ![e] = Append(kept[e], c)] /\ applied' = applied
        /\ UNCHANGED <<described, closed, gathered, stage, serverStage, link, transportVars>>
  BY DEF TakeCandidate
<1>2. wire' \in [Ends -> Seq(Messages)]
  BY <1>1, Received
<1>3. heard' \in [Ends -> SUBSET Candidates] /\ applied' \in [Ends -> SUBSET Candidates]
  BY <1>1 DEF NegTypeOK
<1>4. kept' \in [Ends -> Seq(Candidates)]
  <2>1. Append(kept[e], c) \in Seq(Candidates)
    BY DEF NegTypeOK
  <2> QED
    BY <1>1, <2>1 DEF NegTypeOK
<1> QED
  BY <1>1, <1>2, <1>3, <1>4 DEF NegTypeOK, Messages, transportVars

(* The loop of the offer handler finds a first kept candidate to apply. *)
LEMMA FirstRemains ==
  ASSUME NegTypeOK, DrainOne
  PROVE  \E c \in Range(kept["client"]) \ applied["client"] :
           applied' = [applied EXCEPT !["client"] = applied["client"] \cup {c}]
<1>1. kept["client"] \in Seq(Candidates)
  BY DEF NegTypeOK, Ends
<1>2. PICK i \in 1 .. Len(kept["client"]) :
        /\ kept["client"][i] \notin applied["client"]
        /\ applied' = [applied EXCEPT !["client"] = applied["client"] \cup {kept["client"][i]}]
  BY DEF DrainOne, Remaining
<1>3. i \in DOMAIN kept["client"]
  BY <1>1
<1> QED
  BY <1>2, <1>3 DEF Range

LEMMA NegTyped == NegTypeOK /\ [Next]_vars => NegTypeOK'
<1> SUFFICES ASSUME NegTypeOK, [Next]_vars PROVE NegTypeOK'
  OBVIOUS
<1> USE DEF iceVars, signalVars, transportVars
<1>0. "client" \in Ends /\ "server" \in Ends
      /\ Offer \in Messages /\ Answer \in Messages
      /\ (\A c \in Candidates : Ice(c) \in Messages)
      /\ ServerCandidates \subseteq Candidates /\ ClientCandidates \subseteq Candidates
      /\ <<>> \in Seq(Candidates) /\ <<>> \in Seq(Messages)
  BY DEF Ends, Messages, Candidates
<1>1. SetLocalDescription => NegTypeOK'
  BY DEF SetLocalDescription, NegTypeOK
<1>2. SendOffer => NegTypeOK'
  <2> SUFFICES ASSUME SendOffer PROVE NegTypeOK'
    OBVIOUS
  <2>1. wire' \in [Ends -> Seq(Messages)]
    BY <1>0, Written DEF SendOffer
  <2> QED
    BY <2>1 DEF SendOffer, NegTypeOK, Messages
<1>3. HandleAnswer => NegTypeOK'
  <2> SUFFICES ASSUME HandleAnswer PROVE NegTypeOK'
    OBVIOUS
  <2>1. wire' \in [Ends -> Seq(Messages)]
    BY <1>0, Received DEF HandleAnswer
  <2>2. Drained \subseteq Candidates
    BY <1>0, KeptTyped DEF Drained
  <2>3. applied' \in [Ends -> SUBSET Candidates]
    BY <1>0, <2>2 DEF HandleAnswer, NegTypeOK
  <2> QED
    BY <1>0, <2>1, <2>3 DEF HandleAnswer, NegTypeOK, Messages
<1>4. AddRemoteICE => NegTypeOK'
  BY <1>0, TakenTyped DEF AddRemoteICE
<1>5. ServerCloses => NegTypeOK'
  BY <1>0 DEF ServerCloses, NegTypeOK
<1>6. HandleOffer => NegTypeOK'
  <2> SUFFICES ASSUME HandleOffer PROVE NegTypeOK'
    OBVIOUS
  <2>1. wire' \in [Ends -> Seq(Messages)]
    BY <1>0, Received DEF HandleOffer
  <2> QED
    BY <2>1 DEF HandleOffer, NegTypeOK, Messages
<1>7. HandleIce => NegTypeOK'
  BY <1>0, TakenTyped DEF HandleIce
<1>8. SetRemoteDescription => NegTypeOK'
  BY <1>0 DEF SetRemoteDescription, NegTypeOK
<1>9. DrainOne => NegTypeOK'
  <2> SUFFICES ASSUME DrainOne PROVE NegTypeOK'
    OBVIOUS
  <2>1. PICK c \in Candidates : applied' = [applied EXCEPT !["client"] = applied["client"] \cup {c}]
    BY <1>0, FirstRemains, KeptTyped
  <2>2. applied' \in [Ends -> SUBSET Candidates]
    BY <1>0, <2>1 DEF NegTypeOK
  <2> QED
    BY <2>2 DEF DrainOne, NegTypeOK
<1>10. DrainDone => NegTypeOK'
  BY <1>0 DEF DrainDone, NegTypeOK
<1>11. CreateAnswer => NegTypeOK'
  BY DEF CreateAnswer, NegTypeOK
<1>12. SendAnswer => NegTypeOK'
  <2> SUFFICES ASSUME SendAnswer PROVE NegTypeOK'
    OBVIOUS
  <2>1. wire' \in [Ends -> Seq(Messages)]
    BY <1>0, Written DEF SendAnswer
  <2> QED
    BY <2>1 DEF SendAnswer, NegTypeOK, Messages
<1>13. ASSUME NEW c \in ServerCandidates PROVE OnICECandidate(c) => NegTypeOK'
  <2> SUFFICES ASSUME OnICECandidate(c) PROVE NegTypeOK'
    OBVIOUS
  <2>1. wire' \in [Ends -> Seq(Messages)]
    BY <1>0, Written DEF OnICECandidate
  <2> QED
    BY <1>0, <2>1 DEF OnICECandidate, NegTypeOK, Messages
<1>14. ASSUME NEW c \in ClientCandidates PROVE LocalCandidate(c) => NegTypeOK'
  <2> SUFFICES ASSUME LocalCandidate(c) PROVE NegTypeOK'
    OBVIOUS
  <2>1. wire' \in [Ends -> Seq(Messages)]
    BY <1>0, Written DEF LocalCandidate
  <2> QED
    BY <1>0, <2>1 DEF LocalCandidate, NegTypeOK, Messages
<1>15. TransportUp => NegTypeOK'
  BY DEF TransportUp, Recovers, NegTypeOK
<1>16. ChannelOpens => NegTypeOK'
  BY DEF ChannelOpens, NegTypeOK
<1>17. ChannelCloses => NegTypeOK'
  BY DEF ChannelCloses, NegTypeOK
<1>18. ASSUME NEW s \in {"disconnected", "failed"} PROVE TransportDown(s) => NegTypeOK'
  <2> SUFFICES ASSUME TransportDown(s) PROVE NegTypeOK'
    OBVIOUS
  <2>1. blips' \in 0 .. MaxBlips
    BY BlipsAssumption DEF TransportDown, NegTypeOK
  <2> QED
    BY <2>1 DEF TransportDown, NegTypeOK
<1>19. Destroy => NegTypeOK'
  BY <1>0 DEF Destroy, NegTypeOK, Messages
<1>20. LinkBreaks => NegTypeOK'
  BY <1>0 DEF LinkBreaks, NegTypeOK, Messages
<1>21. UNCHANGED negVars => NegTypeOK'
  BY DEF negVars, NegTypeOK
<1> HIDE DEF iceVars, signalVars, transportVars
<1> QED
  BY <1>1, <1>2, <1>3, <1>4, <1>5, <1>6, <1>7, <1>8, <1>9, <1>10, <1>11, <1>12, <1>13,
     <1>14, <1>15, <1>16, <1>17, <1>18, <1>19, <1>20, <1>21, StepCases

LEMMA NegTypedInitially == NegInit => NegTypeOK
<1> SUFFICES ASSUME NegInit PROVE NegTypeOK
  OBVIOUS
<1>1. /\ heard \in [Ends -> SUBSET Candidates] /\ applied \in [Ends -> SUBSET Candidates]
      /\ gathered \in [Ends -> SUBSET Candidates]
  BY DEF NegInit
<1>2. kept \in [Ends -> Seq(Candidates)] /\ wire \in [Ends -> Seq(Messages)]
  <2>1. <<>> \in Seq(Candidates) /\ <<>> \in Seq(Messages)
    OBVIOUS
  <2>2. kept = [e \in Ends |-> <<>>] /\ wire = [e \in Ends |-> <<>>]
    BY DEF NegInit
  <2> QED
    BY <2>1, <2>2
<1>3. blips \in 0 .. MaxBlips
  BY BlipsAssumption DEF NegInit
<1> QED
  BY <1>1, <1>2, <1>3 DEF NegInit, NegTypeOK, Messages

(* Every reachable state of a call has its types: the stages of the two     *)
(* handlers, the messages under way, the candidates either end keeps.       *)
(* (engine.js:1595-1634; session.go:380-437)                                *)
THEOREM NegotiationTyped == Spec => []NegTypeOK
<1>1. Init => NegTypeOK
  BY NegTypedInitially DEF Init
<1> QED
  BY <1>1, NegTyped, PTL DEF Spec

-----------------------------------------------------------------------------
(* The flag *)

(* For any number of blips, in any order with the opening of the channel:   *)
(* the engine takes itself for connected whenever the channel is open on a  *)
(* connected transport, and never on a failed or closed one.                *)
(* (engine.js:1510-1527, 1538-1545)                                         *)
THEOREM FlagFollowsTransport == Spec => []FlagTracksTransport
<1> DEFINE IInv == NegTypeOK /\ FlagTracksTransport
<1>1. Init => IInv
  BY NegTypedInitially DEF Init, NegInit, FlagTracksTransport
<1>2. IInv /\ [Next]_vars => IInv'
  <2> SUFFICES ASSUME IInv, [Next]_vars PROVE IInv'
    OBVIOUS
  <2>0. NegTypeOK' /\ connected \in BOOLEAN /\ channelOpen \in BOOLEAN
    BY NegTyped DEF NegTypeOK
  <2>1. UNCHANGED transportVars => FlagTracksTransport'
    BY DEF transportVars, FlagTracksTransport
  <2>2. TransportUp => FlagTracksTransport'
    BY <2>0 DEF TransportUp, Recovers, FlagTracksTransport
  <2>3. ChannelOpens => FlagTracksTransport'
    BY DEF ChannelOpens, FlagTracksTransport
  <2>4. ChannelCloses => FlagTracksTransport'
    BY <2>0 DEF ChannelCloses, FlagTracksTransport
  <2>5. ASSUME NEW s \in {"disconnected", "failed"}
        PROVE  TransportDown(s) => FlagTracksTransport'
    BY DEF TransportDown, FlagTracksTransport
  <2>6. Destroy => FlagTracksTransport'
    BY DEF Destroy, FlagTracksTransport
  <2>7. /\ SetLocalDescription \/ SendOffer \/ HandleAnswer \/ AddRemoteICE \/ ServerCloses
             \/ HandleOffer \/ HandleIce \/ SetRemoteDescription \/ DrainOne \/ DrainDone
             \/ CreateAnswer \/ SendAnswer \/ LinkBreaks \/ UNCHANGED negVars
           => UNCHANGED transportVars
        /\ \A c \in ServerCandidates : OnICECandidate(c) => UNCHANGED transportVars
        /\ \A c \in ClientCandidates : LocalCandidate(c) => UNCHANGED transportVars
    BY DEF SetLocalDescription, SendOffer, HandleAnswer, AddRemoteICE, ServerCloses, HandleOffer,
           HandleIce, SetRemoteDescription, DrainOne, DrainDone, CreateAnswer, SendAnswer,
           OnICECandidate, LocalCandidate, LinkBreaks, TakeCandidate, negVars
  <2> QED
    BY <2>0, <2>1, <2>2, <2>3, <2>4, <2>5, <2>6, <2>7, StepCases
<1>3. IInv => FlagTracksTransport
  OBVIOUS
<1> QED
  BY <1>1, <1>2, <1>3, PTL DEF Spec

-----------------------------------------------------------------------------
(* Candidates under way *)

Other(e) == IF e = "client" THEN "server" ELSE "client"

(* The candidates in s were gathered by the other end, have not arrived     *)
(* before, and are there once.                                              *)
Fresh(s, arrived, all) ==
  \A i \in 1 .. Len(s), c \in Candidates : s[i] = Ice(c) =>
    /\ c \in all \ arrived
    /\ \A j \in 1 .. Len(s) : s[j] = Ice(c) => j = i

Arrivals ==
  \A e \in Ends :
    /\ heard[e] \subseteq gathered[Other(e)]
    /\ Fresh(wire[e], heard[e], gathered[Other(e)])

LEMMA MessagesDiffer ==
  /\ \A c, d \in Candidates : Ice(c) = Ice(d) => c = d
  /\ \A c \in Candidates : Ice(c) # Offer /\ Ice(c) # Answer
<1>1. ASSUME NEW c \in Candidates, NEW d \in Candidates, Ice(c) = Ice(d) PROVE c = d
  <2>1. Ice(c).candidate = Ice(d).candidate
    BY <1>1
  <2> QED
    BY <2>1 DEF Ice
<1>2. ASSUME NEW c \in Candidates PROVE Ice(c).type # Offer.type /\ Ice(c).type # Answer.type
  BY DEF Ice, Offer, Answer
<1> QED
  BY <1>1, <1>2

LEMMA FreshTail ==
  ASSUME NEW s \in Seq(Messages), s # <<>>, NEW arrived, NEW all, Fresh(s, arrived, all)
  PROVE  /\ Fresh(Tail(s), arrived, all)
         /\ \A c \in Candidates : Head(s) = Ice(c) =>
              c \in all \ arrived /\ Fresh(Tail(s), arrived \cup {c}, all)
<1>1. /\ Len(Tail(s)) = Len(s) - 1 /\ Len(s) \in Nat \ {0} /\ Head(s) = s[1]
      /\ \A i \in 1 .. Len(s) - 1 : Tail(s)[i] = s[i + 1]
  OBVIOUS
<1>2. ASSUME NEW i \in 1 .. Len(Tail(s)), NEW c \in Candidates, Tail(s)[i] = Ice(c)
      PROVE  /\ c \in all \ arrived /\ Head(s) # Ice(c)
             /\ \A j \in 1 .. Len(Tail(s)) : Tail(s)[j] = Ice(c) => j = i
  <2>1. i + 1 \in 1 .. Len(s) /\ s[i + 1] = Ice(c) /\ 1 \in 1 .. Len(s) /\ i + 1 # 1
    BY <1>1, <1>2
  <2>2. c \in all \ arrived /\ \A j \in 1 .. Len(s) : s[j] = Ice(c) => j = i + 1
    BY <2>1 DEF Fresh
  <2>3. Head(s) # Ice(c)
    BY <1>1, <2>1, <2>2
  <2>4. ASSUME NEW j \in 1 .. Len(Tail(s)), Tail(s)[j] = Ice(c) PROVE j = i
    <3>1. j + 1 \in 1 .. Len(s) /\ s[j + 1] = Ice(c)
      BY <1>1, <2>4
    <3>2. j + 1 = i + 1
      BY <2>2, <3>1
    <3> QED
      BY <1>1, <3>2
  <2> QED
    BY <2>2, <2>3, <2>4
<1>3. Fresh(Tail(s), arrived, all)
  BY <1>2 DEF Fresh
<1>4. ASSUME NEW c \in Candidates, Head(s) = Ice(c)
      PROVE  c \in all \ arrived /\ Fresh(Tail(s), arrived \cup {c}, all)
  <2>1. c \in all \ arrived
    BY <1>1, <1>4 DEF Fresh
  <2>2. \A i \in 1 .. Len(Tail(s)), d \in Candidates : Tail(s)[i] = Ice(d) => d # c
    BY <1>2, <1>4
  <2> QED
    BY <1>2, <2>1, <2>2 DEF Fresh
<1> QED
  BY <1>3, <1>4

LEMMA FreshAppend ==
  ASSUME NEW s \in Seq(Messages), NEW arrived, NEW all, arrived \subseteq all,
         Fresh(s, arrived, all)
  PROVE  /\ \A m \in {Offer, Answer} : Fresh(Append(s, m), arrived, all)
         /\ \A c \in Candidates \ all :
              /\ Fresh(s, arrived, all \cup {c})
              /\ Fresh(Append(s, Ice(c)), arrived, all \cup {c})
<1>0. ASSUME NEW m PROVE /\ Len(Append(s, m)) = Len(s) + 1 /\ Len(s) \in Nat
                         /\ Append(s, m)[Len(s) + 1] = m
                         /\ \A i \in 1 .. Len(s) : Append(s, m)[i] = s[i]
  OBVIOUS
<1>1. ASSUME NEW m \in {Offer, Answer} PROVE Fresh(Append(s, m), arrived, all)
  <2>1. ASSUME NEW i \in 1 .. Len(Append(s, m)), NEW c \in Candidates, Append(s, m)[i] = Ice(c)
        PROVE  i \in 1 .. Len(s) /\ s[i] = Ice(c)
    BY <1>0, <1>1, <2>1, MessagesDiffer
  <2> QED
    BY <2>1 DEF Fresh
<1>2. ASSUME NEW c \in Candidates \ all PROVE Fresh(Append(s, Ice(c)), arrived, all \cup {c})
  <2> DEFINE t == Append(s, Ice(c))
  <2>1. ASSUME NEW i \in 1 .. Len(t), NEW d \in Candidates, t[i] = Ice(d)
        PROVE  /\ d \in (all \cup {c}) \ arrived
               /\ \A j \in 1 .. Len(t) : t[j] = Ice(d) => j = i
    <3>1. CASE d = c
      <4>1. ASSUME NEW j \in 1 .. Len(t), t[j] = Ice(c) PROVE j = Len(s) + 1
        <5>1. j \in 1 .. Len(s) => s[j] = Ice(c)
          BY <1>0, <4>1
        <5>2. j \notin 1 .. Len(s)
          BY <1>2, <5>1 DEF Fresh
        <5> QED
          BY <1>0, <4>1, <5>2
      <4>2. c \notin arrived
        BY <1>2
      <4> QED
        BY <2>1, <3>1, <4>1, <4>2
    <3>2. CASE d # c
      <4>1. ASSUME NEW j \in 1 .. Len(t), t[j] = Ice(d) PROVE j \in 1 .. Len(s) /\ s[j] = Ice(d)
        BY <1>0, <3>2, <4>1, MessagesDiffer
      <4> QED
        BY <2>1, <4>1 DEF Fresh
    <3> QED
      BY <3>1, <3>2
  <2> QED
    BY <2>1 DEF Fresh
<1>3. ASSUME NEW c \in Candidates \ all PROVE Fresh(s, arrived, all \cup {c})
  BY DEF Fresh
<1> QED
  BY <1>1, <1>2, <1>3

LEMMA Sides ==
  /\ "client" \in Ends /\ "server" \in Ends
  /\ Other("client") = "server" /\ Other("server") = "client"
  /\ \A e \in Ends : Other(e) \in Ends /\ Other(Other(e)) = e
BY DEF Ends, Other

(* Writing a description, or a candidate not reported before. *)
LEMMA WrittenFresh ==
  ASSUME NegTypeOK, Arrivals, NEW e \in Ends, UNCHANGED heard,
         \/ \E m \in {Offer, Answer} : Write(e, m) /\ UNCHANGED gathered
         \/ \E c \in Candidates \ gathered[Other(e)] :
              /\ Write(e, Ice(c))
              /\ gathered' = [gathered EXCEPT ![Other(e)] = gathered[Other(e)] \cup {c}]
  PROVE  Arrivals'
<1>0. /\ wire \in [Ends -> Seq(Messages)] /\ gathered \in [Ends -> SUBSET Candidates]
      /\ Other(e) \in Ends /\ Other(Other(e)) = e /\ \A f \in Ends : Other(f) \in Ends
  BY Sides DEF NegTypeOK, Messages
<1>1. /\ heard[e] \subseteq gathered[Other(e)]
      /\ Fresh(wire[e], heard[e], gathered[Other(e)])
  BY DEF Arrivals
<1>2. CASE \E m \in {Offer, Answer} : Write(e, m) /\ UNCHANGED gathered
  <2>1. Fresh(wire'[e], heard[e], gathered[Other(e)]) /\ gathered' = gathered
        /\ \A f \in Ends \ {e} : wire'[f] = wire[f]
    BY <1>0, <1>1, <1>2, FreshAppend DEF Write
  <2> QED
    BY <2>1 DEF Arrivals
<1>3. CASE \E c \in Candidates \ gathered[Other(e)] :
              /\ Write(e, Ice(c))
              /\ gathered' = [gathered EXCEPT ![Other(e)] = gathered[Other(e)] \cup {c}]
  <2>1. PICK c \in Candidates \ gathered[Other(e)] :
          /\ Write(e, Ice(c))
          /\ gathered' = [gathered EXCEPT ![Other(e)] = gathered[Other(e)] \cup {c}]
    BY <1>3
  <2>2. /\ gathered'[Other(e)] = gathered[Other(e)] \cup {c}
        /\ \A f \in Ends \ {e} : gathered'[Other(f)] = gathered[Other(f)] /\ wire'[f] = wire[f]
    <3>1. \A f \in Ends \ {e} : Other(f) # Other(e)
      BY <1>0, Sides
    <3> QED
      BY <1>0, <2>1, <3>1 DEF Write
  <2>3. Fresh(wire'[e], heard[e], gathered[Other(e)] \cup {c})
    BY <1>0, <1>1, <2>1, FreshAppend DEF Write
  <2> QED
    BY <1>1, <2>2, <2>3 DEF Arrivals
<1> QED
  BY <1>2, <1>3

(* Taking a message, and with a candidate having heard it. *)
LEMMA ReceivedFresh ==
  ASSUME NegTypeOK, Arrivals, NEW e \in Ends, Receive(e), UNCHANGED gathered,
         \/ UNCHANGED heard
         \/ \E c \in Candidates : /\ Head(wire[e]) = Ice(c)
                                  /\ heard' = [heard EXCEPT ![e] = heard[e] \cup {c}]
  PROVE  Arrivals'
<1>0. heard \in [Ends -> SUBSET Candidates] /\ wire \in [Ends -> Seq(Messages)]
  BY DEF NegTypeOK, Messages
<1>1. /\ heard[e] \subseteq gathered[Other(e)]
      /\ Fresh(wire[e], heard[e], gathered[Other(e)])
  BY DEF Arrivals
<1>2. wire[e] \in Seq(Messages) /\ wire[e] # <<>> /\ wire' = [wire EXCEPT ![e] = Tail(wire[e])]
  BY Received
<1>3. /\ Fresh(Tail(wire[e]), heard[e], gathered[Other(e)])
      /\ \A c \in Candidates : Head(wire[e]) = Ice(c) =>
           /\ c \in gathered[Other(e)] \ heard[e]
           /\ Fresh(Tail(wire[e]), heard[e] \cup {c}, gathered[Other(e)])
  <2>1. PICK s \in Seq(Messages), arrived \in SUBSET Candidates, all \in SUBSET Candidates :
          s = wire[e] /\ arrived = heard[e] /\ all = gathered[Other(e)]
    BY <1>0, <1>2, Sides DEF NegTypeOK
  <2>2. s # <<>> /\ Fresh(s, arrived, all)
    BY <1>1, <1>2, <2>1
  <2>3. /\ Fresh(Tail(s), arrived, all)
        /\ \A c \in Candidates : Head(s) = Ice(c) =>
             c \in all \ arrived /\ Fresh(Tail(s), arrived \cup {c}, all)
    BY <2>2, FreshTail
  <2> QED
    BY <2>1, <2>3
<1>4. /\ wire'[e] = Tail(wire[e])
      /\ \A f \in Ends \ {e} : wire'[f] = wire[f] /\ heard'[f] = heard[f]
  BY <1>0, <1>2
<1>5. heard'[e] \subseteq gathered[Other(e)] /\ Fresh(wire'[e], heard'[e], gathered[Other(e)])
  BY <1>0, <1>1, <1>3, <1>4
<1> QED
  BY <1>4, <1>5 DEF Arrivals

LEMMA EmptiedFresh ==
  ASSUME NegTypeOK, Arrivals, UNCHANGED <<heard, gathered>>,
         \A e \in Ends : wire'[e] \in {wire[e], <<>>}
  PROVE  Arrivals'
<1>1. \A arrived, all : Fresh(<<>>, arrived, all)
  BY DEF Fresh
<1> QED
  BY <1>1 DEF Arrivals

LEMMA ArrivalsKept ==
  ASSUME NegTypeOK, Arrivals, [Next]_vars
  PROVE  Arrivals'
<1> USE DEF iceVars, signalVars, transportVars
<1>1. SetLocalDescription => Arrivals'
  BY EmptiedFresh DEF SetLocalDescription
<1>2. SendOffer => Arrivals'
  BY WrittenFresh, Sides DEF SendOffer
<1>3. HandleAnswer => Arrivals'
  BY ReceivedFresh, Sides DEF HandleAnswer
<1>4. AddRemoteICE => Arrivals'
  BY ReceivedFresh, Sides DEF AddRemoteICE, TakeCandidate
<1>5. ServerCloses => Arrivals'
  BY EmptiedFresh DEF ServerCloses
<1>6. HandleOffer => Arrivals'
  BY ReceivedFresh, Sides DEF HandleOffer
<1>7. HandleIce => Arrivals'
  BY ReceivedFresh, Sides DEF HandleIce, TakeCandidate
<1>8. SetRemoteDescription => Arrivals'
  BY EmptiedFresh DEF SetRemoteDescription
<1>9. DrainOne => Arrivals'
  BY EmptiedFresh DEF DrainOne
<1>10. DrainDone => Arrivals'
  BY EmptiedFresh DEF DrainDone
<1>11. CreateAnswer => Arrivals'
  BY EmptiedFresh DEF CreateAnswer
<1>12. SendAnswer => Arrivals'
  BY WrittenFresh, Sides DEF SendAnswer
<1>13. ASSUME NEW c \in ServerCandidates PROVE OnICECandidate(c) => Arrivals'
  <2>1. c \in Candidates
    BY DEF Candidates
  <2> QED
    BY <2>1, WrittenFresh, Sides DEF OnICECandidate
<1>14. ASSUME NEW c \in ClientCandidates PROVE LocalCandidate(c) => Arrivals'
  <2>1. c \in Candidates
    BY DEF Candidates
  <2> QED
    BY <2>1, WrittenFresh, Sides DEF LocalCandidate
<1>15. TransportUp => Arrivals'
  BY EmptiedFresh DEF TransportUp
<1>16. ChannelOpens => Arrivals'
  BY EmptiedFresh DEF ChannelOpens
<1>17. ChannelCloses => Arrivals'
  BY EmptiedFresh DEF ChannelCloses
<1>18. ASSUME NEW s \in {"disconnected", "failed"} PROVE TransportDown(s) => Arrivals'
  BY EmptiedFresh DEF TransportDown
<1>19. Destroy => Arrivals'
  <2> SUFFICES ASSUME Destroy PROVE Arrivals'
    OBVIOUS
  <2>1. \A e \in Ends : wire'[e] \in {wire[e], <<>>}
    BY DEF Destroy, NegTypeOK
  <2> QED
    BY <2>1, EmptiedFresh DEF Destroy
<1>20. LinkBreaks => Arrivals'
  BY EmptiedFresh DEF LinkBreaks
<1>21. UNCHANGED negVars => Arrivals'
  BY EmptiedFresh DEF negVars
<1> HIDE DEF iceVars, signalVars, transportVars
<1> QED
  BY <1>1, <1>2, <1>3, <1>4, <1>5, <1>6, <1>7, <1>8, <1>9, <1>10, <1>11, <1>12, <1>13,
     <1>14, <1>15, <1>16, <1>17, <1>18, <1>19, <1>20, <1>21, StepCases

-----------------------------------------------------------------------------
(* Candidates kept *)

(* What an end has heard it has applied or keeps; it keeps nothing once its *)
(* handler is past the point where the kept candidates are applied.         *)
Holding ==
  /\ \A e \in Ends :
       /\ applied[e] \subseteq heard[e]
       /\ e \notin described => applied[e] = {}
       /\ e \notin closed => heard[e] = applied[e] \cup Range(kept[e])
  /\ "server" \in described => kept["server"] = <<>>
  /\ stage \in {"drain", "createAnswer", "setLocal", "answered"} => "client" \in described
  /\ stage \in {"createAnswer", "setLocal", "answered"} => kept["client"] = <<>>

holdingVars == <<described, heard, applied, closed, kept, stage>>

LEMMA RangeFacts ==
  /\ Range(<<>>) = {}
  /\ \A s \in Seq(Candidates), c \in Candidates : Range(Append(s, c)) = Range(s) \cup {c}
<1>1. Range(<<>>) = {}
  BY DEF Range
<1>2. ASSUME NEW s \in Seq(Candidates), NEW c \in Candidates
      PROVE  Range(Append(s, c)) = Range(s) \cup {c}
  <2>1. /\ DOMAIN Append(s, c) = 1 .. Len(s) + 1 /\ DOMAIN s = 1 .. Len(s) /\ Len(s) \in Nat
        /\ Append(s, c)[Len(s) + 1] = c /\ \A i \in 1 .. Len(s) : Append(s, c)[i] = s[i]
    OBVIOUS
  <2>2. 1 .. Len(s) + 1 = (1 .. Len(s)) \cup {Len(s) + 1}
    BY <2>1
  <2> QED
    BY <2>1, <2>2 DEF Range
<1> QED
  BY <1>1, <1>2

(* How a candidate that arrives is taken, and one that was kept applied.    *)
LEMMA Taken ==
  ASSUME NegTypeOK, NEW e \in Ends, TakeCandidate(e)
  PROVE  \E c \in Candidates :
           /\ Receive(e) /\ Head(wire[e]) = Ice(c)
           /\ heard' = [heard EXCEPT ![e] = heard[e] \cup {c}]
           /\ \/ /\ e \in described
                 /\ applied' = [applied EXCEPT ![e] = applied[e] \cup {c}]
                 /\ UNCHANGED kept
              \/ /\ e \notin described
                 /\ kept' = [kept EXCEPT ![e] = Append(kept[e], c)]
                 /\ UNCHANGED applied
           /\ UNCHANGED <<described, closed, stage>>
BY DEF TakeCandidate, MayAdd

LEMMA TakenHeld ==
  ASSUME NegTypeOK, Holding, NEW e \in Ends, TakeCandidate(e)
  PROVE  Holding'
<1>1. PICK c \in Candidates :
        /\ Receive(e) /\ Head(wire[e]) = Ice(c)
        /\ heard' = [heard EXCEPT ![e] = heard[e] \cup {c}]
        /\ \/ /\ e \in described
              /\ applied' = [applied EXCEPT ![e] = applied[e] \cup {c}]
              /\ UNCHANGED kept
           \/ /\ e \notin described
              /\ kept' = [kept EXCEPT ![e] = Append(kept[e], c)]
              /\ UNCHANGED applied
        /\ UNCHANGED <<described, closed, stage>>
  BY Taken
<1>2. e \notin closed
  BY <1>1 DEF Receive, Live
<1>3. \A f \in Ends \ {e} : heard'[f] = heard[f] /\ applied'[f] = applied[f] /\ kept'[f] = kept[f]
  BY <1>1 DEF NegTypeOK
<1>4. heard'[e] = heard[e] \cup {c}
  BY <1>1 DEF NegTypeOK
<1>5. CASE e \in described
  <2>1. applied'[e] = applied[e] \cup {c} /\ kept' = kept
    BY <1>1, <1>5 DEF NegTypeOK
  <2> QED
    BY <1>1, <1>2, <1>3, <1>4, <1>5, <2>1 DEF Holding
<1>6. CASE e \notin described
  <2>1. applied' = applied /\ kept'[e] = Append(kept[e], c)
    BY <1>1, <1>6 DEF NegTypeOK
  <2>2. Range(kept'[e]) = Range(kept[e]) \cup {c}
    BY <2>1, RangeFacts, KeptTyped
  <2>3. \A f \in Ends :
          /\ applied'[f] \subseteq heard'[f]
          /\ f \notin described' => applied'[f] = {}
          /\ f \notin closed' => heard'[f] = applied'[f] \cup Range(kept'[f])
    BY <1>1, <1>2, <1>3, <1>4, <2>1, <2>2 DEF Holding
  <2>4. /\ "server" \in described' => kept'["server"] = <<>>
        /\ stage' \in {"drain", "createAnswer", "setLocal", "answered"} => "client" \in described'
        /\ stage' \in {"createAnswer", "setLocal", "answered"} => kept'["client"] = <<>>
    BY <1>1, <1>3, <1>6, Sides DEF Holding
  <2> QED
    BY <2>3, <2>4 DEF Holding
<1> QED
  BY <1>5, <1>6

LEMMA AnswerHeld ==
  ASSUME NegTypeOK, Holding, HandleAnswer
  PROVE  Holding'
<1>1. /\ applied'["server"] = applied["server"] \cup Range(kept["server"])
      /\ kept'["server"] = <<>> /\ "server" \notin closed
      /\ \A f \in Ends \ {"server"} : applied'[f] = applied[f] /\ kept'[f] = kept[f]
  BY Sides DEF HandleAnswer, Drained, NegTypeOK, Receive, Live
<1>2. described' = described \cup {"server"} /\ UNCHANGED <<heard, closed, stage>>
  BY DEF HandleAnswer
<1>3. \A f \in Ends :
        /\ applied'[f] \subseteq heard'[f]
        /\ f \notin described' => applied'[f] = {}
        /\ f \notin closed' => heard'[f] = applied'[f] \cup Range(kept'[f])
  BY <1>1, <1>2, RangeFacts DEF Holding
<1>4. kept'["client"] = kept["client"]
  BY <1>1, Sides
<1> QED
  BY <1>1, <1>2, <1>3, <1>4 DEF Holding

LEMMA DrainHeld ==
  ASSUME NegTypeOK, Holding, DrainOne \/ DrainDone
  PROVE  Holding'
<1>0. "client" \notin closed /\ "client" \in described /\ stage = "drain"
  BY DEF DrainOne, DrainDone, Live, Holding
<1>1. CASE DrainOne
  <2>1. PICK c \in Range(kept["client"]) :
          applied' = [applied EXCEPT !["client"] = applied["client"] \cup {c}]
    BY <1>1, FirstRemains
  <2>2. applied'["client"] = applied["client"] \cup {c} /\ applied'["server"] = applied["server"]
    BY <2>1, Sides DEF NegTypeOK
  <2>3. UNCHANGED <<described, heard, closed, kept, stage>>
    BY <1>1 DEF DrainOne, signalVars
  <2> QED
    BY <1>0, <2>2, <2>3 DEF Holding, Ends
<1>2. CASE DrainDone
  <2>1. Range(kept["client"]) \subseteq applied["client"]
    <3>1. kept["client"] \in Seq(Candidates)
      BY Sides, KeptTyped
    <3>2. \A i \in 1 .. Len(kept["client"]) : kept["client"][i] \in applied["client"]
      BY <1>2 DEF DrainDone, Remaining
    <3> QED
      BY <3>1, <3>2 DEF Range
  <2>2. kept'["client"] = <<>> /\ kept'["server"] = kept["server"]
    BY <1>2, Sides DEF DrainDone, NegTypeOK
  <2>3. UNCHANGED <<described, heard, applied, closed>> /\ stage' = "createAnswer"
    BY <1>2 DEF DrainDone, iceVars
  <2> QED
    BY <1>0, <2>1, <2>2, <2>3, RangeFacts DEF Holding, Ends
<1> QED
  BY <1>1, <1>2

LEMMA HoldingKept ==
  ASSUME NegTypeOK, Holding, [Next]_vars
  PROVE  Holding'
<1> USE DEF iceVars, signalVars
<1>1. UNCHANGED holdingVars => Holding'
  BY DEF holdingVars, Holding
<1>2. HandleAnswer => Holding'
  BY AnswerHeld
<1>3. AddRemoteICE \/ HandleIce => Holding'
  BY TakenHeld, Sides DEF AddRemoteICE, HandleIce
<1>4. ServerCloses => Holding'
  BY DEF ServerCloses, Holding
<1>5. HandleOffer => Holding'
  BY DEF HandleOffer, Holding
<1>6. SetRemoteDescription => Holding'
  BY DEF SetRemoteDescription, Holding
<1>7. DrainOne \/ DrainDone => Holding'
  BY DrainHeld
<1>8. CreateAnswer => Holding'
  BY DEF CreateAnswer, Holding
<1>9. SendAnswer => Holding'
  BY DEF SendAnswer, MayAnswer, Holding
<1>10. Destroy => Holding'
  <2> SUFFICES ASSUME Destroy PROVE Holding'
    OBVIOUS
  <2>1. kept'["client"] = <<>> /\ kept'["server"] = kept["server"]
        /\ closed' = closed \cup {"client"} /\ UNCHANGED <<described, heard, applied, stage>>
    BY Sides DEF Destroy, NegTypeOK
  <2> QED
    BY <2>1 DEF Holding, Ends
<1>11. /\ SetLocalDescription \/ SendOffer \/ TransportUp \/ ChannelOpens \/ ChannelCloses
            \/ LinkBreaks \/ UNCHANGED negVars
          => UNCHANGED holdingVars
       /\ \A c \in ServerCandidates : OnICECandidate(c) => UNCHANGED holdingVars
       /\ \A c \in ClientCandidates : LocalCandidate(c) => UNCHANGED holdingVars
       /\ \A s \in {"disconnected", "failed"} : TransportDown(s) => UNCHANGED holdingVars
  BY DEF SetLocalDescription, SendOffer, TransportUp, ChannelOpens, ChannelCloses, LinkBreaks,
         OnICECandidate, LocalCandidate, TransportDown, negVars, holdingVars
<1> HIDE DEF iceVars, signalVars
<1> QED
  BY <1>1, <1>2, <1>3, <1>4, <1>5, <1>6, <1>7, <1>8, <1>9, <1>10, <1>11, StepCases

CallInv == NegTypeOK /\ Arrivals /\ Holding

LEMMA CallInvariant == Spec => []CallInv
<1>1. Init => CallInv
  <2> SUFFICES ASSUME NegInit PROVE CallInv
    BY DEF Init
  <2>1. \A e \in Ends : wire[e] = <<>> /\ kept[e] = <<>> /\ heard[e] = {} /\ applied[e] = {}
    BY DEF NegInit
  <2>2. Arrivals
    BY <2>1 DEF Arrivals, Fresh
  <2>3. Holding
    BY <2>1, RangeFacts DEF NegInit, Holding
  <2> QED
    BY <2>2, <2>3, NegTypedInitially DEF CallInv
<1>2. CallInv /\ [Next]_vars => CallInv'
  BY NegTyped, ArrivalsKept, HoldingKept DEF CallInv
<1> QED
  BY <1>1, <1>2, PTL DEF Spec

(* No ICE agent is given a candidate before the remote description.  A      *)
(* session that has taken the answer, and an engine past the loop over what *)
(* it kept, have applied every candidate that ever reached them, however    *)
(* the candidates came in between the steps of the two handlers.            *)
(* (engine.js:1601-1621, 1908-1934; session.go:401-437)                     *)
NothingForgotten ==
  /\ \A e \in Ends : applied[e] # {} => e \in described
  /\ "server" \in described \ closed => applied["server"] = heard["server"]
  /\ stage \in {"createAnswer", "setLocal", "answered"} /\ "client" \notin closed
       => applied["client"] = heard["client"]

THEOREM CandidatesApplied == Spec => []NothingForgotten
<1>1. CallInv => NothingForgotten
  BY RangeFacts, Sides DEF CallInv, Holding, NothingForgotten
<1> QED
  BY <1>1, CallInvariant, PTL

-----------------------------------------------------------------------------
(* Refinement *)

LEMMA TakenIsHeard ==
  ASSUME CallInv, NEW e \in Ends, TakeCandidate(e)
  PROVE  \E c \in Candidates : ICE!Hear(e, c)
<1>1. PICK c \in Candidates :
        /\ Receive(e) /\ Head(wire[e]) = Ice(c)
        /\ heard' = [heard EXCEPT ![e] = heard[e] \cup {c}]
        /\ \/ /\ e \in described
              /\ applied' = [applied EXCEPT ![e] = applied[e] \cup {c}]
              /\ UNCHANGED kept
           \/ /\ e \notin described
              /\ kept' = [kept EXCEPT ![e] = Append(kept[e], c)]
              /\ UNCHANGED applied
        /\ UNCHANGED <<described, closed, stage>>
  BY Taken DEF CallInv
<1>2. wire[e] \in Seq(Messages) /\ wire[e] # <<>> /\ e \notin closed
  BY <1>1, Received DEF CallInv
<1>3. Head(wire[e]) = wire[e][1] /\ 1 \in 1 .. Len(wire[e])
  BY <1>2
<1>4. c \notin heard[e]
  BY <1>1, <1>3 DEF CallInv, Arrivals, Fresh
<1> QED
  BY <1>1, <1>2, <1>4 DEF ICE!Hear

(* The safety half of Trickles, step by step: an answer, or the remote      *)
(* description at the client, is Describe; a candidate taken is Hear; an    *)
(* iteration of the drain loop is Apply; the end of an engine or a session  *)
(* is Close; every other step of the program changes nothing of it.         *)
(* (engine.js:1595-1621, 1908-1934; session.go:401-437)                     *)
THEOREM TricklesSafely == Spec => ICE!Safety
<1>1. Init => ICE!Init
  BY DEF Init, NegInit, ICE!Init
<1>2. CallInv /\ [Next]_vars => [ICE!Next]_ICE!vars
  <2> SUFFICES ASSUME CallInv, [Next]_vars PROVE [ICE!Next]_ICE!vars
    OBVIOUS
  <2>1. UNCHANGED iceVars => UNCHANGED ICE!vars
    BY DEF iceVars, ICE!vars
  <2>2. HandleAnswer => [ICE!Next]_ICE!vars
    <3> SUFFICES ASSUME HandleAnswer PROVE ICE!Next \/ UNCHANGED ICE!vars
      OBVIOUS
    <3>1. /\ "server" \notin closed /\ described' = described \cup {"server"}
          /\ applied' = [applied EXCEPT !["server"] = applied["server"] \cup Range(kept["server"])]
          /\ UNCHANGED <<heard, closed>>
      BY DEF HandleAnswer, Receive, Live, Drained
    <3>2. CASE "server" \in described
      <4>1. kept["server"] = <<>>
        BY <3>2 DEF CallInv, Holding
      <4>2. applied' = applied
        BY <3>1, <4>1, RangeFacts, Sides DEF CallInv, NegTypeOK
      <4> QED
        BY <3>1, <3>2, <4>2 DEF ICE!vars
    <3>3. CASE "server" \notin described
      <4>1. applied["server"] \cup Range(kept["server"]) \in SUBSET heard["server"]
        BY <3>1, Sides DEF CallInv, Holding
      <4>2. ICE!Describe("server")
        BY <3>1, <3>3, <4>1 DEF ICE!Describe
      <4> QED
        BY <4>2, Sides DEF ICE!Next
    <3> QED
      BY <3>2, <3>3
  <2>3. AddRemoteICE \/ HandleIce => [ICE!Next]_ICE!vars
    BY TakenIsHeard, Sides DEF AddRemoteICE, HandleIce, ICE!Next
  <2>4. ServerCloses => [ICE!Next]_ICE!vars
    BY Sides DEF ServerCloses, Live, ICE!Close, ICE!Next
  <2>5. SetRemoteDescription => [ICE!Next]_ICE!vars
    <3> SUFFICES ASSUME SetRemoteDescription PROVE ICE!Next \/ UNCHANGED ICE!vars
      OBVIOUS
    <3>1. /\ "client" \notin closed /\ described' = described \cup {"client"}
          /\ UNCHANGED <<heard, applied, closed>>
      BY DEF SetRemoteDescription, Live
    <3>2. CASE "client" \in described
      BY <3>1, <3>2 DEF ICE!vars
    <3>3. CASE "client" \notin described
      <4>1. applied["client"] \in SUBSET heard["client"]
            /\ applied' = [applied EXCEPT !["client"] = applied["client"]]
        BY <3>1, Sides DEF CallInv, Holding, NegTypeOK
      <4>2. ICE!Describe("client")
        BY <3>1, <3>3, <4>1 DEF ICE!Describe
      <4> QED
        BY <4>2, Sides DEF ICE!Next
    <3> QED
      BY <3>2, <3>3
  <2>6. DrainOne => [ICE!Next]_ICE!vars
    <3> SUFFICES ASSUME DrainOne PROVE ICE!Next
      OBVIOUS
    <3>1. PICK c \in Range(kept["client"]) \ applied["client"] :
            applied' = [applied EXCEPT !["client"] = applied["client"] \cup {c}]
      BY FirstRemains DEF CallInv
    <3>2. "client" \in described /\ "client" \notin closed /\ c \in heard["client"]
      BY <3>1, Sides DEF DrainOne, Live, CallInv, Holding
    <3>3. c \in Candidates
      BY KeptTyped, Sides DEF CallInv
    <3>4. ICE!Apply("client", c)
      BY <3>1, <3>2 DEF DrainOne, ICE!Apply
    <3> QED
      BY <3>3, <3>4, Sides DEF ICE!Next
  <2>7. Destroy => [ICE!Next]_ICE!vars
    BY Sides DEF Destroy, Live, ICE!Close, ICE!Next
  <2>8. /\ SetLocalDescription \/ SendOffer \/ HandleOffer \/ DrainDone \/ CreateAnswer
             \/ SendAnswer \/ TransportUp \/ ChannelOpens \/ ChannelCloses \/ LinkBreaks
             \/ UNCHANGED negVars
           => UNCHANGED iceVars
        /\ \A c \in ServerCandidates : OnICECandidate(c) => UNCHANGED iceVars
        /\ \A c \in ClientCandidates : LocalCandidate(c) => UNCHANGED iceVars
        /\ \A s \in {"disconnected", "failed"} : TransportDown(s) => UNCHANGED iceVars
    BY DEF SetLocalDescription, SendOffer, HandleOffer, DrainDone, CreateAnswer, SendAnswer,
           TransportUp, ChannelOpens, ChannelCloses, LinkBreaks, OnICECandidate, LocalCandidate,
           TransportDown, negVars
  <2> QED
    BY <2>1, <2>2, <2>3, <2>4, <2>5, <2>6, <2>7, <2>8, StepCases
<1> QED
  BY <1>1, <1>2, CallInvariant, PTL DEF Spec, ICE!Safety
-----------------------------------------------------------------------------
(* The page *)

Places     == {"none", "fetching", "socket", "racing", "media", "over"}
Sockets    == {"none", "connecting", "open", "closed"}
Lives      == {"none", "alive", "closing", "gone"}
Contexts   == 0 .. 2 * MaxAttempts
AttemptRecord ==
  [at : Places, socket : Sockets, offered : BOOLEAN,
   webrtcConnected : BOOLEAN, graphReady : BOOLEAN, audioStarted : BOOLEAN]
EngineRecord ==
  [life : Lives, ctx : Contexts, pc : BOOLEAN,
   transport : {"new", "connected", "disconnected", "failed"}, connected : BOOLEAN,
   connecting : BOOLEAN, started : BOOLEAN, graph : {"none", "loading", "ready"},
   rec : 0 .. MaxArms, timer : 0 .. MaxArms]

UiRecord   == [connect : BOOLEAN, stop : BOOLEAN, record : BOOLEAN]
PageRecord == [node : 0 .. MaxAttempts, socket : 0 .. MaxAttempts, ctx : 0 .. MaxAttempts]
ArmsRecord == [clicks : 0 .. MaxArms, timers : Nat]

PageShape ==
  /\ ui \in UiRecord /\ page \in PageRecord /\ arms \in ArmsRecord
  /\ attempt \in [Attempts -> AttemptRecord]
  /\ engine  \in [Attempts -> EngineRecord]
  /\ dead \in SUBSET (1 .. 2 * MaxAttempts)
  /\ exports \in Nat

LEMMA PageCases ==
  ASSUME [Next]_vars, NEW P,
         StopClick => P, RecordClick => P, Armed => P, RecordingComplete => P,
         \A n \in Attempts : ConnectClick(n) => P, \A n \in Attempts : CreateSocket(n) => P,
         \A n \in Attempts : BadUrl(n) => P, \A n \in Attempts : SocketOpens(n) => P,
         \A n \in Attempts : StartMedia(n) => P, \A n \in Attempts : OfferArrives(n) => P,
         \A n \in Attempts : MediaReady(n) => P, \A n \in Attempts : MediaFails(n) => P,
         \A n \in Attempts : BridgeMismatch(n) => P, \A n \in Attempts : SocketEnds(n) => P,
         \A n \in Attempts : ContextClosed(n) => P, \A n \in Attempts : PipelineBuilt(n) => P,
         \A n \in Attempts : GraphReady(n) => P, \A n \in Attempts : Connected(n) => P,
         \A n \in Attempts : Disconnected(n) => P, \A n \in Attempts : Failed(n) => P,
         \A n \in Attempts : LastFrame(n) => P, \A n \in Attempts : RecordingTimeout(n) => P,
         UNCHANGED pageVars => P
  PROVE  P
<1>1. CASE InPage /\ PageNext
  BY <1>1 DEF PageNext
<1>2. CASE InNegotiation \/ UNCHANGED vars
  BY <1>2 DEF InNegotiation, vars
<1> QED
  BY <1>1, <1>2 DEF Next

LEMMA Numbers ==
  /\ MaxAttempts \in Nat \ {0} /\ MaxArms \in Nat
  /\ Attempts \subseteq 1 .. MaxAttempts /\ None = 0 /\ None \notin Attempts
  /\ \A m \in 0 .. MaxAttempts : m # None => m \in Attempts
  /\ \A n \in Attempts : /\ n \in 1 .. 2 * MaxAttempts /\ OwnContext(n) \in 1 .. 2 * MaxAttempts
                         /\ OwnContext(n) \notin Attempts /\ OwnContext(n) # None
BY PageBoundsAssumption DEF Attempts, None, OwnContext

(* What destroy leaves of an engine. *)
LEMMA ShutShape ==
  ASSUME NEW e \in EngineRecord, NEW life \in Lives
  PROVE  /\ Shut(e, life) \in EngineRecord
         /\ Shut(e, life).life = life /\ Shut(e, life).ctx = e.ctx
<1>1. /\ e.graph \in {"none", "loading", "ready"} /\ 0 \in 0 .. MaxArms
      /\ (IF e.graph = "ready" THEN "none" ELSE e.graph) \in {"none", "loading", "ready"}
  BY Numbers DEF EngineRecord
<1> QED
  BY <1>1 DEF Shut, EngineRecord

(* The three outcomes of stopAudio. *)
LEMMA Stopped ==
  ASSUME PageShape, NEW engines \in [Attempts -> EngineRecord], StopAudio(engines)
  PROVE  /\ engine' \in [Attempts -> EngineRecord]
         /\ \A n \in Attempts : engine'[n].ctx = engines[n].ctx
         /\ \A n \in Attempts : n # page.node => engine'[n] = engines[n]
         /\ \/ /\ page.node = None
               /\ engine' = engines /\ UNCHANGED <<ui, page, dead>>
            \/ /\ page.node \in Attempts
               /\ \/ engine'[page.node].life = engines[page.node].life
                  \/ engines[page.node].life = "alive" /\ engine'[page.node].life = "gone"
               /\ page' = Vacant /\ ui' = IdleUi(FALSE) /\ UNCHANGED dead
            \/ /\ page.node \in Attempts
               /\ engines[page.node].life = "alive" /\ engines[page.node].ctx \in 1 .. 2 * MaxAttempts
               /\ engine'[page.node].life =
                    IF engines[page.node].ctx \in dead THEN "gone" ELSE "closing"
               /\ ui' = [ui EXCEPT !.stop = FALSE]
               /\ dead' = dead \cup {engines[page.node].ctx}
               /\ UNCHANGED page
<1> DEFINE m == page.node
           c == engines[m].ctx
<1>1. m \in 0 .. MaxAttempts
  BY DEF PageShape, PageRecord
<1>2. CASE m = None
  <2>1. engine' = engines /\ UNCHANGED <<ui, page, dead>>
    BY <1>2 DEF StopAudio
  <2> QED
    BY <2>1, <1>2
<1>3. CASE m # None
  <2>1. m \in Attempts
    BY <1>1, <1>3, Numbers
  <2>2. engines[m] \in EngineRecord /\ c \in 0 .. 2 * MaxAttempts /\ engines[m].life \in Lives
    BY <2>1 DEF EngineRecord, Contexts
  <2>3. CASE engines[m].life # "alive" \/ c = None
    <3> DEFINE to == IF engines[m].life = "alive" THEN "gone" ELSE engines[m].life
    <3>1. engine' = [engines EXCEPT ![m] = Shut(engines[m], to)]
          /\ page' = Vacant /\ ui' = IdleUi(FALSE) /\ UNCHANGED dead
      BY <1>3, <2>3 DEF StopAudio
    <3>2. to \in Lives
      BY <2>2 DEF Lives
    <3> HIDE DEF to
    <3>3. /\ Shut(engines[m], to) \in EngineRecord
          /\ Shut(engines[m], to).life = to /\ Shut(engines[m], to).ctx = c
      BY <3>2, <2>2, ShutShape
    <3>4. /\ engine' \in [Attempts -> EngineRecord] /\ engine'[m] = Shut(engines[m], to)
          /\ \A n \in Attempts : n # m => engine'[n] = engines[n]
      BY <3>1, <3>3, <2>1
    <3>5. to = engines[m].life \/ (engines[m].life = "alive" /\ to = "gone")
      BY DEF to
    <3> QED
      BY <3>1, <3>3, <3>4, <3>5, <2>1
  <2>4. CASE ~(engines[m].life # "alive" \/ c = None)
    <3> DEFINE to == IF c \in dead THEN "gone" ELSE "closing"
    <3>1. engine' = [engines EXCEPT ![m] = Shut(engines[m], to)]
          /\ ui' = [ui EXCEPT !.stop = FALSE] /\ dead' = dead \cup {c} /\ UNCHANGED page
      BY <1>3, <2>4 DEF StopAudio
    <3>2. to \in Lives
      BY DEF Lives
    <3>3. to = IF c \in dead THEN "gone" ELSE "closing"
      OBVIOUS
    <3> HIDE DEF to
    <3>4. /\ Shut(engines[m], to) \in EngineRecord
          /\ Shut(engines[m], to).life = to /\ Shut(engines[m], to).ctx = c
      BY <3>2, <2>2, ShutShape
    <3>5. /\ engine' \in [Attempts -> EngineRecord] /\ engine'[m] = Shut(engines[m], to)
          /\ \A n \in Attempts : n # m => engine'[n] = engines[n]
      BY <3>1, <3>4, <2>1
    <3>6. c \in 1 .. 2 * MaxAttempts
      BY <2>2, <2>4, Numbers
    <3> QED
      BY <3>1, <3>3, <3>4, <3>5, <3>6, <2>1, <2>4
  <2> QED
    BY <2>3, <2>4
<1> QED
  BY <1>2, <1>3

LEMMA StopShape ==
  ASSUME PageShape, NEW engines \in [Attempts -> EngineRecord], StopAudio(engines)
  PROVE  /\ ui' \in UiRecord
         /\ page' \in PageRecord
         /\ engine' \in [Attempts -> EngineRecord]
         /\ dead' \in SUBSET (1 .. 2 * MaxAttempts)
<1>1. Vacant \in PageRecord
  BY Numbers DEF Vacant, None, PageRecord
<1>2. IdleUi(FALSE) \in UiRecord
  BY DEF IdleUi, UiRecord
<1>3. [ui EXCEPT !.stop = FALSE] \in UiRecord
  BY DEF PageShape, UiRecord
<1>4. engine' \in [Attempts -> EngineRecord]
  BY Stopped
<1>5. \/ UNCHANGED <<ui, page, dead>>
      \/ page' = Vacant /\ ui' = IdleUi(FALSE) /\ UNCHANGED dead
      \/ /\ engines[page.node].ctx \in 1 .. 2 * MaxAttempts
         /\ ui' = [ui EXCEPT !.stop = FALSE] /\ dead' = dead \cup {engines[page.node].ctx}
         /\ UNCHANGED page
  BY Stopped
<1> QED
  BY <1>1, <1>2, <1>3, <1>4, <1>5 DEF PageShape

LEMMA PageShapeInitially == PageInit => PageShape
BY Numbers DEF PageInit, PageShape, AttemptRecord, EngineRecord, UiRecord, PageRecord, ArmsRecord,
               Places, Sockets, Lives, Contexts, None

(* A handler that replaces one engine, or one attempt. *)
LEMMA EngineReplaced ==
  ASSUME PageShape, NEW m \in Attempts, NEW e \in EngineRecord, engine' = [engine EXCEPT ![m] = e]
  PROVE  /\ engine' \in [Attempts -> EngineRecord] /\ engine'[m] = e
         /\ \A k \in Attempts : k # m => engine'[k] = engine[k]
BY DEF PageShape

LEMMA AttemptReplaced ==
  ASSUME PageShape, NEW n \in Attempts, NEW a \in AttemptRecord, attempt' = [attempt EXCEPT ![n] = a]
  PROVE  /\ attempt' \in [Attempts -> AttemptRecord] /\ attempt'[n] = a
         /\ \A k \in Attempts : k # n => attempt'[k] = attempt[k]
BY DEF PageShape

-----------------------------------------------------------------------------
(* The user is not left alone: while neither Connect nor Stop is enabled,   *)
(* an attempt is before the point where it enables Stop, and will get there *)
(* or enable Connect, or a context is being closed, whose end enables       *)
(* Connect.  (app-mcu.js:87-98, 454-456, 635-664, 763-792)                  *)
Underway == \E n \in Attempts :
  attempt[n].at \in {"fetching", "socket", "racing"} \/ engine[n].life = "closing"
SomebodyReturns == ~ui.connect /\ ~ui.stop => Underway

(* Where contexts come from: an attempt's own click, or the engine itself;  *)
(* none is closed before it exists, and none that the page still uses,      *)
(* unless the engine that had it is closing: so close() can reject, and     *)
(* leave the form as it is, only while another stop is under way.           *)
ContextsTold ==
  /\ page.ctx # None => ~At(page.ctx, "none")
  /\ \A n \in Attempts :
       /\ engine[n].ctx = None \/ engine[n].ctx \in Attempts \/ engine[n].ctx = OwnContext(n)
       /\ engine[n].ctx \in Attempts => ~At(engine[n].ctx, "none")
       /\ attempt[n].at \in {"none", "fetching"} => engine[n].life = "none"
       /\ engine[n].life = "none" => engine[n].ctx = None
       /\ n \in dead => ~At(n, "none")
       /\ OwnContext(n) \in dead => engine[n].ctx = OwnContext(n)

SomebodyCloses == \E n \in Attempts : engine[n].life = "closing"
ClosedNotInUse ==
  /\ page.ctx \in dead => SomebodyCloses
  /\ Alive(page.node) /\ engine[page.node].ctx \in dead => SomebodyCloses

SocketAwaited == \A n \in Attempts : At(n, "socket") => attempt[n].socket = "connecting"

FormInv == ContextsTold /\ ClosedNotInUse /\ SocketAwaited /\ SomebodyReturns

LEMMA FormInitially == PageInit => FormInv
BY Numbers DEF PageInit, FormInv, ContextsTold, ClosedNotInUse, SocketAwaited, SomebodyReturns,
               At, Alive, None

(* What an attempt does when it neither begins nor ends its wait. *)
Onward(n) ==
  \/ attempt'[n].at = attempt[n].at /\ (At(n, "socket") => attempt'[n].socket = attempt[n].socket)
  \/ At(n, "socket") /\ attempt'[n].at = "racing"
  \/ At(n, "media") /\ attempt'[n].at = "over"

SameEngine(k, e) == e.life = engine[k].life /\ e.ctx = engine[k].ctx

LEMMA OnwardKeeps ==
  ASSUME NEW n \in Attempts, Onward(n)
  PROVE  /\ At(n, "none")' <=> At(n, "none")
         /\ attempt'[n].at \in {"none", "fetching"} => attempt[n].at \in {"none", "fetching"}
         /\ (attempt[n].at \in {"fetching", "socket", "racing"}) =>
              attempt'[n].at \in {"fetching", "socket", "racing"}
         /\ (At(n, "socket") => attempt[n].socket = "connecting") =>
              (At(n, "socket") => attempt[n].socket = "connecting")'
BY DEF Onward, At

(* Contexts are told as before if nobody gets one. *)
LEMMA ToldKept ==
  ASSUME PageShape, ContextsTold,
         page'.ctx = page.ctx \/ page'.ctx = None,
         \A n \in Attempts :
           /\ engine'[n].ctx = engine[n].ctx
           /\ engine'[n].life = "none" <=> engine[n].life = "none"
           /\ attempt'[n].at = "none" <=> attempt[n].at = "none"
           /\ attempt'[n].at \in {"none", "fetching"} => attempt[n].at \in {"none", "fetching"}
           /\ n \in dead' => attempt'[n].at # "none"
           /\ OwnContext(n) \in dead' => engine'[n].ctx = OwnContext(n)
  PROVE  ContextsTold'
<1>1. (page.ctx # None => ~At(page.ctx, "none"))'
  <2>1. page.ctx # None => page.ctx \in Attempts
    BY Numbers DEF PageShape, PageRecord
  <2> QED
    BY <2>1 DEF ContextsTold, At
<1>2. ASSUME NEW n \in Attempts
      PROVE  /\ engine'[n].ctx = None \/ engine'[n].ctx \in Attempts \/ engine'[n].ctx = OwnContext(n)
             /\ engine'[n].ctx \in Attempts => ~At(engine[n].ctx, "none")'
             /\ attempt'[n].at \in {"none", "fetching"} => engine'[n].life = "none"
             /\ engine'[n].life = "none" => engine'[n].ctx = None
  BY DEF ContextsTold, At
<1> QED
  BY <1>1, <1>2 DEF ContextsTold, At, OwnContext

(* Steps that only report or record. *)
LEMMA FormQuiet ==
  ASSUME PageShape, FormInv, \A n \in Attempts : Onward(n),
         \A k \in Attempts : SameEngine(k, engine'[k]),
         page' = page, dead' = dead, ui'.connect = ui.connect, ui'.stop = ui.stop
  PROVE  FormInv'
<1>1. page.node \in 0 .. MaxAttempts /\ page.ctx \in 0 .. MaxAttempts
  BY DEF PageShape, PageRecord
<1>2. ContextsTold'
  <2>1. \A n \in Attempts :
          /\ attempt'[n].at = "none" <=> attempt[n].at = "none"
          /\ attempt'[n].at \in {"none", "fetching"} => attempt[n].at \in {"none", "fetching"}
    BY OnwardKeeps DEF At
  <2>2. \A n \in Attempts : /\ n \in dead => attempt[n].at # "none"
                            /\ OwnContext(n) \in dead => engine[n].ctx = OwnContext(n)
    BY DEF FormInv, ContextsTold, At
  <2> QED
    BY <2>1, <2>2, ToldKept DEF FormInv, SameEngine
<1>3. SomebodyCloses' <=> SomebodyCloses
  BY DEF SomebodyCloses, SameEngine
<1>4. ClosedNotInUse'
  BY <1>1, <1>3, Numbers DEF FormInv, ClosedNotInUse, Alive, SameEngine
<1>5. SocketAwaited'
  BY OnwardKeeps DEF FormInv, SocketAwaited
<1>6. SomebodyReturns'
  BY OnwardKeeps DEF FormInv, SomebodyReturns, Underway, SameEngine
<1> QED
  BY <1>2, <1>4, <1>5, <1>6 DEF FormInv

(* stopAudio: what becomes closed was not, or is being closed already. *)
LEMMA FormStopped ==
  ASSUME PageShape, FormInv, \A n \in Attempts : Onward(n),
         NEW engines \in [Attempts -> EngineRecord],
         \A k \in Attempts : SameEngine(k, engines[k]), StopAudio(engines)
  PROVE  FormInv'
<1> DEFINE m == page.node
<1>1. m \in 0 .. MaxAttempts /\ page.ctx \in 0 .. MaxAttempts
  BY DEF PageShape, PageRecord
<1>2. /\ \A n \in Attempts : engine'[n].ctx = engine[n].ctx
      /\ \A n \in Attempts : n # m => engine'[n].life = engine[n].life
  BY Stopped DEF SameEngine
<1>3. SocketAwaited'
  BY OnwardKeeps DEF FormInv, SocketAwaited
<1>4. CASE m = None
  <2>1. engine' = engines /\ UNCHANGED <<ui, page, dead>>
    BY <1>4, Stopped, Numbers
  <2> QED
    BY <2>1, FormQuiet
<1>5. CASE /\ m \in Attempts
           /\ engine'[m].life = engines[m].life
                \/ (engines[m].life = "alive" /\ engine'[m].life = "gone")
           /\ page' = Vacant /\ ui' = IdleUi(FALSE) /\ UNCHANGED dead
  <2>1. page'.ctx = None /\ page'.node = None /\ ui'.connect = TRUE
    BY <1>5 DEF Vacant, IdleUi
  <2>2. \A n \in Attempts : engine'[n].life = "none" <=> engine[n].life = "none"
    BY <1>2, <1>5 DEF SameEngine
  <2>3. ContextsTold'
    <3>1. \A n \in Attempts :
            /\ attempt'[n].at = "none" <=> attempt[n].at = "none"
            /\ attempt'[n].at \in {"none", "fetching"} => attempt[n].at \in {"none", "fetching"}
      BY OnwardKeeps DEF At
    <3>2. \A n \in Attempts : /\ n \in dead => attempt[n].at # "none"
                              /\ OwnContext(n) \in dead => engine[n].ctx = OwnContext(n)
      BY DEF FormInv, ContextsTold, At
    <3> QED
      BY <1>2, <1>5, <2>1, <2>2, <3>1, <3>2, ToldKept DEF FormInv
  <2>4. None \notin dead
    BY Numbers DEF PageShape
  <2>5. ClosedNotInUse' /\ SomebodyReturns'
    BY <1>5, <2>1, <2>4 DEF ClosedNotInUse, SomebodyReturns, Alive
  <2> QED
    BY <2>3, <2>5, <1>3 DEF FormInv
<1>6. CASE /\ m \in Attempts
           /\ engines[m].life = "alive" /\ engines[m].ctx \in 1 .. 2 * MaxAttempts
           /\ engine'[m].life = IF engines[m].ctx \in dead THEN "gone" ELSE "closing"
           /\ ui' = [ui EXCEPT !.stop = FALSE] /\ dead' = dead \cup {engines[m].ctx}
           /\ UNCHANGED page
  <2>1. /\ engine[m].life = "alive" /\ dead' = dead \cup {engine[m].ctx}
        /\ engine[m].ctx # None
        /\ engine'[m].life = IF engine[m].ctx \in dead THEN "gone" ELSE "closing"
    BY <1>6, Numbers DEF SameEngine
  <2>2. \A n \in Attempts : engine'[n].life = "none" <=> engine[n].life = "none"
    BY <1>2, <2>1
  <2>3. engine[m].ctx \in Attempts \/ engine[m].ctx = OwnContext(m)
    BY <2>1, <1>6 DEF FormInv, ContextsTold
  <2>4. \A n \in Attempts : OwnContext(n) = OwnContext(m) => n = m
    BY <1>6, Numbers DEF OwnContext
  <2>5. ContextsTold'
    <3>1. \A n \in Attempts : n \in dead' => ~At(n, "none")'
      BY <2>1, <2>3, <1>6, OnwardKeeps, Numbers DEF FormInv, ContextsTold
    <3>2. \A n \in Attempts : OwnContext(n) \in dead' => engine'[n].ctx = OwnContext(n)
      BY <1>2, <2>1, <2>3, <2>4, Numbers DEF FormInv, ContextsTold
    <3> QED
      BY <1>1, <1>2, <1>6, <2>2, <3>1, <3>2, OnwardKeeps, Numbers DEF FormInv, ContextsTold
  <2>6. SomebodyCloses'
    <3>1. CASE engine[m].ctx \in dead
      <4>1. SomebodyCloses
        BY <3>1, <2>1, <1>6, Numbers DEF FormInv, ClosedNotInUse, Alive
      <4>2. PICK k \in Attempts : engine[k].life = "closing"
        BY <4>1 DEF SomebodyCloses
      <4> QED
        BY <4>2, <2>1, <1>2 DEF SomebodyCloses
    <3>2. CASE engine[m].ctx \notin dead
      BY <3>2, <2>1, <1>6 DEF SomebodyCloses
    <3> QED
      BY <3>1, <3>2
  <2>7. ClosedNotInUse' /\ SomebodyReturns'
    BY <2>6 DEF ClosedNotInUse, SomebodyReturns, SomebodyCloses, Underway
  <2> QED
    BY <2>5, <2>7, <1>3 DEF FormInv
<1> QED
  BY <1>1, <1>4, <1>5, <1>6, Stopped, Numbers

(* resetConnectUi, and an attempt that is over. *)
LEMMA FormReset ==
  ASSUME PageShape, FormInv, page' \in PageRecord,
         \A k \in Attempts : SameEngine(k, engine'[k]),
         \A n \in Attempts : Onward(n) \/ (attempt'[n].at = "over" /\ ~At(n, "none")),
         ui'.connect = TRUE, page'.node = page.node,
         \/ page'.ctx = page.ctx /\ dead' = dead
         \/ page.node = None /\ page.ctx # None /\ page'.ctx = None /\ dead' = dead \cup {page.ctx}
  PROVE  FormInv'
<1>1. page.node \in 0 .. MaxAttempts /\ page.ctx \in 0 .. MaxAttempts
  BY DEF PageShape, PageRecord
<1>2. \A n \in Attempts :
        /\ At(n, "none")' <=> At(n, "none")
        /\ attempt'[n].at \in {"none", "fetching"} => attempt[n].at \in {"none", "fetching"}
  BY OnwardKeeps DEF At
<1>3. ContextsTold'
  <2>1. \A n \in Attempts : n \in dead' => ~At(n, "none")'
    BY <1>2 DEF FormInv, ContextsTold
  <2>2. \A n \in Attempts : OwnContext(n) \in dead' => OwnContext(n) \in dead
    BY <1>1, Numbers
  <2> QED
    BY <1>2, <2>1, <2>2, ToldKept DEF FormInv, ContextsTold, SameEngine, At
<1>4. SocketAwaited'
  BY OnwardKeeps DEF FormInv, SocketAwaited, At
<1>5. ClosedNotInUse'
  <2>1. SomebodyCloses' <=> SomebodyCloses
    BY DEF SomebodyCloses, SameEngine
  <2>2. CASE page'.ctx = page.ctx /\ dead' = dead
    BY <1>1, <2>1, <2>2, Numbers DEF FormInv, ClosedNotInUse, Alive, SameEngine
  <2>3. CASE page.node = None /\ page.ctx # None /\ page'.ctx = None /\ dead' = dead \cup {page.ctx}
    <3>1. None \notin dead'
      BY <1>1, <2>3, Numbers DEF PageShape
    <3> QED
      BY <2>3, <3>1 DEF ClosedNotInUse, Alive
  <2> QED
    BY <2>2, <2>3
<1> QED
  BY <1>3, <1>4, <1>5 DEF FormInv, SomebodyReturns

(* An engine that keeps its life and its context, whatever else it reports. *)
LEMMA OneReports ==
  ASSUME PageShape, FormInv, NEW m \in Attempts, NEW e \in EngineRecord, SameEngine(m, e),
         engine' = [engine EXCEPT ![m] = e],
         \A n \in Attempts : Onward(n),
         page' = page, dead' = dead, ui'.connect = ui.connect, ui'.stop = ui.stop
  PROVE  FormInv' /\ engine' \in [Attempts -> EngineRecord]
<1>1. /\ engine' \in [Attempts -> EngineRecord] /\ engine'[m] = e
      /\ \A k \in Attempts : k # m => engine'[k] = engine[k]
  BY EngineReplaced
<1>2. \A k \in Attempts : SameEngine(k, engine'[k])
  BY <1>1 DEF SameEngine
<1> QED
  BY <1>1, <1>2, FormQuiet

LEMMA Resting ==
  /\ attempt' = attempt => \A n \in Attempts : Onward(n)
  /\ engine' = engine => \A k \in Attempts : SameEngine(k, engine'[k])
  /\ \A k \in Attempts : SameEngine(k, engine[k])
BY DEF Onward, SameEngine

LEMMA AutoStarted ==
  ASSUME PageShape, NEW n \in Attempts, NEW a \in AttemptRecord,
         a.at = attempt[n].at, a.socket = attempt[n].socket,
         NEW engines, MaybeAutoStart(n, a, engines)
  PROVE  /\ attempt' \in [Attempts -> AttemptRecord] /\ \A k \in Attempts : Onward(k)
         /\ ui' \in UiRecord /\ ui'.connect = ui.connect /\ ui'.stop = ui.stop
<1>1. [a EXCEPT !.audioStarted = TRUE] \in AttemptRecord
      /\ [a EXCEPT !.audioStarted = TRUE].at = a.at
      /\ [a EXCEPT !.audioStarted = TRUE].socket = a.socket
  BY DEF AttemptRecord
<1>2. PICK b \in AttemptRecord :
        /\ b.at = attempt[n].at /\ b.socket = attempt[n].socket
        /\ attempt' = [attempt EXCEPT ![n] = b]
  BY <1>1 DEF MaybeAutoStart
<1>3. ui' = ui \/ ui' = [ui EXCEPT !.record = TRUE]
  BY DEF MaybeAutoStart
<1>4. ui' \in UiRecord /\ ui'.connect = ui.connect /\ ui'.stop = ui.stop
  <2>1. ui \in UiRecord
    BY DEF PageShape
  <2> QED
    BY <1>3, <2>1 DEF UiRecord
<1>5. attempt' \in [Attempts -> AttemptRecord] /\ \A k \in Attempts : Onward(k)
  BY <1>2, AttemptReplaced DEF Onward
<1> QED
  BY <1>4, <1>5

PageInv == PageShape /\ FormInv

LEMMA ConnectBegins ==
  ASSUME PageInv, NEW n \in Attempts, ConnectClick(n)
  PROVE  PageInv'
<1> DEFINE a == [attempt[n] EXCEPT !.at = "fetching"]
<1>1. PageShape /\ FormInv
  BY DEF PageInv
<1>2. a \in AttemptRecord /\ attempt[n] \in AttemptRecord /\ a.at = "fetching"
  <2>1. attempt[n] \in AttemptRecord /\ "fetching" \in Places
    BY <1>1 DEF PageShape, Places
  <2> QED
    BY <2>1 DEF AttemptRecord
<1>3. attempt' = [attempt EXCEPT ![n] = a] /\ UNCHANGED <<engine, dead, arms, exports>> /\ At(n, "none")
  BY DEF ConnectClick
<1> HIDE DEF a
<1>4. /\ attempt' \in [Attempts -> AttemptRecord] /\ attempt'[n] = a
      /\ \A k \in Attempts : k # n => attempt'[k] = attempt[k]
  BY <1>1, <1>2, <1>3, AttemptReplaced
<1>5. page' = page \/ (page.ctx = None /\ page' = [page EXCEPT !.ctx = n])
  BY <1>1 DEF ConnectClick, PageShape, PageRecord
<1>6. n \in 0 .. MaxAttempts /\ page \in PageRecord
  BY <1>1, Numbers DEF PageShape
<1>7. page' \in PageRecord /\ page'.node = page.node
      /\ (page'.ctx = page.ctx \/ (page'.ctx = n /\ page.ctx = None))
  BY <1>5, <1>6 DEF PageRecord
<1>8. PageShape'
  <2>1. ui' \in UiRecord
    BY <1>1 DEF ConnectClick, PageShape, UiRecord
  <2> QED
    BY <1>1, <1>3, <1>4, <1>7, <2>1 DEF PageShape
<1>9. ContextsTold'
  <2>1. \A k \in Attempts : At(k, "none")' => At(k, "none")
    BY <1>2, <1>4 DEF At
  <2>2. (page.ctx # None => ~At(page.ctx, "none"))'
    <3>1. page'.ctx # None => page'.ctx \in Attempts
      BY <1>7, Numbers DEF PageRecord
    <3>2. CASE page'.ctx = page.ctx
      BY <3>1, <3>2, <2>1, <1>1 DEF FormInv, ContextsTold, At
    <3>3. CASE page'.ctx = n
      BY <3>3, <1>2, <1>4 DEF At
    <3> QED
      BY <3>2, <3>3, <1>7
  <2>3. ASSUME NEW k \in Attempts
        PROVE  /\ engine'[k].ctx = None \/ engine'[k].ctx \in Attempts \/ engine'[k].ctx = OwnContext(k)
               /\ engine'[k].ctx \in Attempts => ~At(engine[k].ctx, "none")'
               /\ attempt'[k].at \in {"none", "fetching"} => engine'[k].life = "none"
               /\ engine'[k].life = "none" => engine'[k].ctx = None
               /\ k \in dead' => ~At(k, "none")'
               /\ OwnContext(k) \in dead' => engine'[k].ctx = OwnContext(k)
    BY <1>1, <1>2, <1>3, <1>4, <2>1 DEF FormInv, ContextsTold, At
  <2> QED
    BY <2>2, <2>3 DEF ContextsTold, At, OwnContext
<1>10. ClosedNotInUse'
  <2>1. SomebodyCloses' <=> SomebodyCloses
    BY <1>3 DEF SomebodyCloses
  <2>2. page'.ctx = page.ctx \/ page'.ctx \notin dead
    BY <1>1, <1>3, <1>7 DEF FormInv, ContextsTold
  <2> QED
    BY <1>1, <1>3, <1>7, <2>1, <2>2 DEF FormInv, ClosedNotInUse, Alive
<1>11. SocketAwaited'
  BY <1>1, <1>2, <1>4 DEF FormInv, SocketAwaited, At
<1>12. Underway'
  BY <1>2, <1>4 DEF Underway
<1> QED
  BY <1>8, <1>9, <1>10, <1>11, <1>12 DEF PageInv, FormInv, SomebodyReturns

LEMMA SocketCreated ==
  ASSUME PageInv, NEW n \in Attempts, CreateSocket(n)
  PROVE  PageInv'
<1> DEFINE a == [attempt[n] EXCEPT !.at = "socket", !.socket = "connecting"]
           e == [engine[n] EXCEPT !.life = "alive", !.ctx = page.ctx]
<1>1. PageShape /\ FormInv /\ At(n, "fetching")
  BY DEF PageInv, CreateSocket
<1>2. /\ page.ctx \in 0 .. MaxAttempts /\ page.ctx \in Contexts /\ n \in 0 .. MaxAttempts
      /\ page \in PageRecord /\ engine[n] \in EngineRecord /\ attempt[n] \in AttemptRecord
  BY <1>1, Numbers DEF PageShape, PageRecord, Contexts
<1>3. a \in AttemptRecord /\ a.at = "socket" /\ a.socket = "connecting"
  <2>1. "socket" \in Places /\ "connecting" \in Sockets
    BY DEF Places, Sockets
  <2> QED
    BY <1>2, <2>1 DEF AttemptRecord
<1>4. e \in EngineRecord /\ e.life = "alive" /\ e.ctx = page.ctx
  <2>1. "alive" \in Lives
    BY DEF Lives
  <2> QED
    BY <1>2, <2>1 DEF EngineRecord
<1>5. /\ attempt' = [attempt EXCEPT ![n] = a] /\ engine' = [engine EXCEPT ![n] = e]
      /\ page' = [page EXCEPT !.node = n, !.socket = n]
      /\ UNCHANGED <<ui, dead, arms, exports>>
  BY <1>1 DEF CreateSocket, PageShape
<1> HIDE DEF a, e
<1>6. /\ attempt' \in [Attempts -> AttemptRecord] /\ attempt'[n] = a
      /\ \A k \in Attempts : k # n => attempt'[k] = attempt[k]
  BY <1>1, <1>3, <1>5, AttemptReplaced
<1>7. /\ engine' \in [Attempts -> EngineRecord] /\ engine'[n] = e
      /\ \A k \in Attempts : k # n => engine'[k] = engine[k]
  BY <1>1, <1>4, <1>5, EngineReplaced
<1>8. page' \in PageRecord /\ page'.node = n /\ page'.ctx = page.ctx
  BY <1>2, <1>5 DEF PageRecord
<1>9. PageShape'
  BY <1>1, <1>5, <1>6, <1>7, <1>8 DEF PageShape
<1>10. engine[n].life = "none" /\ engine[n].ctx = None
  BY <1>1 DEF FormInv, ContextsTold, At
<1>11. \A k \in Attempts : At(k, "none")' => At(k, "none")
  BY <1>3, <1>6 DEF At
<1>12. page.ctx # None => page.ctx \in Attempts
  BY <1>2, Numbers
<1>13. ContextsTold'
  <2>1. (page.ctx # None => ~At(page.ctx, "none"))'
    BY <1>1, <1>8, <1>11, <1>12 DEF FormInv, ContextsTold, At
  <2>2. ASSUME NEW k \in Attempts
        PROVE  /\ engine'[k].ctx = None \/ engine'[k].ctx \in Attempts \/ engine'[k].ctx = OwnContext(k)
               /\ engine'[k].ctx \in Attempts => ~At(engine[k].ctx, "none")'
               /\ attempt'[k].at \in {"none", "fetching"} => engine'[k].life = "none"
               /\ engine'[k].life = "none" => engine'[k].ctx = None
               /\ k \in dead' => ~At(k, "none")'
               /\ OwnContext(k) \in dead' => engine'[k].ctx = OwnContext(k)
    <3>1. CASE k = n
      <4>1. OwnContext(n) \notin dead
        BY <1>1, <1>10, Numbers DEF FormInv, ContextsTold
      <4> QED
        BY <3>1, <4>1, <1>1, <1>3, <1>4, <1>5, <1>6, <1>7, <1>8, <1>11, <1>12, <2>1, Numbers
           DEF FormInv, ContextsTold, At
    <3>2. CASE k # n
      BY <3>2, <1>1, <1>5, <1>6, <1>7, <1>11 DEF FormInv, ContextsTold, At
    <3> QED
      BY <3>1, <3>2
  <2> QED
    BY <2>1, <2>2 DEF ContextsTold, At, OwnContext
<1>14. SomebodyCloses => SomebodyCloses'
  BY <1>7, <1>10 DEF SomebodyCloses
<1>15. ClosedNotInUse'
  BY <1>1, <1>4, <1>5, <1>7, <1>8, <1>14 DEF FormInv, ClosedNotInUse, Alive
<1>16. SocketAwaited'
  BY <1>1, <1>3, <1>6 DEF FormInv, SocketAwaited, At
<1>17. Underway'
  BY <1>3, <1>6 DEF Underway
<1> QED
  BY <1>9, <1>13, <1>15, <1>16, <1>17 DEF PageInv, FormInv, SomebodyReturns

(* An attempt that goes on to `to', or stays, with its socket as it is. *)
LEMMA AttemptMoves ==
  ASSUME PageShape, NEW n \in Attempts, NEW to \in Places,
         attempt' = [attempt EXCEPT ![n].at = to],
         \/ At(n, "socket") /\ to = "racing"
         \/ At(n, "media") /\ to = "over"
  PROVE  attempt' \in [Attempts -> AttemptRecord] /\ \A k \in Attempts : Onward(k)
<1> DEFINE a == [attempt[n] EXCEPT !.at = to]
<1>1. a \in AttemptRecord /\ a.at = to
  BY DEF PageShape, AttemptRecord
<1>2. attempt' = [attempt EXCEPT ![n] = a]
  OBVIOUS
<1> HIDE DEF a
<1> QED
  BY <1>1, <1>2, AttemptReplaced DEF Onward, At

(* An attempt that is over. *)
LEMMA AttemptEnds ==
  ASSUME PageShape, NEW n \in Attempts, ~At(n, "none"), NEW s \in Sockets,
         \/ attempt' = [attempt EXCEPT ![n].at = "over"]
         \/ attempt' = [attempt EXCEPT ![n].at = "over", ![n].socket = s]
  PROVE  /\ attempt' \in [Attempts -> AttemptRecord]
         /\ \A k \in Attempts : Onward(k) \/ (attempt'[k].at = "over" /\ ~At(k, "none"))
<1> DEFINE a == [attempt[n] EXCEPT !.at = "over"]
           b == [attempt[n] EXCEPT !.at = "over", !.socket = s]
<1>1. attempt[n] \in AttemptRecord /\ "over" \in Places
  BY DEF PageShape, Places
<1>2. a \in AttemptRecord /\ a.at = "over" /\ b \in AttemptRecord /\ b.at = "over"
  BY <1>1 DEF AttemptRecord
<1>3. attempt' = [attempt EXCEPT ![n] = a] \/ attempt' = [attempt EXCEPT ![n] = b]
  BY DEF PageShape
<1> HIDE DEF a, b
<1>4. CASE attempt' = [attempt EXCEPT ![n] = a]
  BY <1>2, <1>4, AttemptReplaced DEF Onward
<1>5. CASE attempt' = [attempt EXCEPT ![n] = b]
  BY <1>2, <1>5, AttemptReplaced DEF Onward
<1> QED
  BY <1>3, <1>4, <1>5

LEMMA ResetKept ==
  ASSUME PageInv, ResetConnectUi, attempt' \in [Attempts -> AttemptRecord],
         \A k \in Attempts : Onward(k) \/ (attempt'[k].at = "over" /\ ~At(k, "none")),
         UNCHANGED <<engine, arms, exports>>
  PROVE  PageInv'
<1>1. PageShape /\ FormInv /\ ui \in UiRecord /\ page \in PageRecord /\ 0 \in 0 .. MaxAttempts
  BY Numbers DEF PageInv, PageShape
<1>2. ui' \in UiRecord /\ ui'.connect = TRUE
  BY <1>1 DEF ResetConnectUi, UiRecord
<1>3. \/ page' = page /\ dead' = dead
      \/ page.node = None /\ page.ctx # None /\ page' = [page EXCEPT !.ctx = 0] /\ dead' = dead \cup {page.ctx}
  BY DEF ResetConnectUi, None
<1>4. page' \in PageRecord /\ page'.node = page.node
      /\ \/ page'.ctx = page.ctx /\ dead' = dead
         \/ page.node = None /\ page.ctx # None /\ page'.ctx = 0 /\ dead' = dead \cup {page.ctx}
  BY <1>1, <1>3 DEF PageRecord
<1>5. dead' \in SUBSET (1 .. 2 * MaxAttempts)
  BY <1>1, <1>4, Numbers DEF PageShape, PageRecord
<1>6. PageShape'
  BY <1>1, <1>2, <1>4, <1>5 DEF PageShape
<1>7. FormInv'
  BY <1>1, <1>2, <1>4, FormReset, Resting, Numbers
<1> QED
  BY <1>6, <1>7 DEF PageInv

LEMMA StopKept ==
  ASSUME PageInv, NEW engines \in [Attempts -> EngineRecord],
         \A k \in Attempts : SameEngine(k, engines[k]), StopAudio(engines),
         attempt' \in [Attempts -> AttemptRecord], \A n \in Attempts : Onward(n),
         UNCHANGED <<arms, exports>>
  PROVE  PageInv'
<1>1. PageShape /\ FormInv
  BY DEF PageInv
<1>2. PageShape'
  BY <1>1, StopShape DEF PageShape
<1>3. FormInv'
  BY <1>1, FormStopped
<1> QED
  BY <1>2, <1>3 DEF PageInv

LEMMA SocketOpenKept ==
  ASSUME PageInv, NEW n \in Attempts, SocketOpens(n)
  PROVE  PageInv'
<1>1. PageShape /\ FormInv /\ At(n, "socket") /\ UNCHANGED <<arms, exports>> /\ "open" \in Sockets
  BY DEF PageInv, SocketOpens, Sockets
<1>2. CASE /\ Alive(page.node)
           /\ attempt' = [attempt EXCEPT ![n].at = "racing", ![n].socket = "open"]
           /\ engine' = [engine EXCEPT ![page.node].pc = TRUE]
           /\ UNCHANGED <<ui, page, dead>>
  <2> DEFINE a == [attempt[n] EXCEPT !.at = "racing", !.socket = "open"]
             e == [engine[page.node] EXCEPT !.pc = TRUE]
  <2>1. page.node \in Attempts
    BY <1>1, <1>2, Numbers DEF PageShape, PageRecord, Alive
  <2>2. a \in AttemptRecord /\ a.at = "racing"
    <3>1. attempt[n] \in AttemptRecord /\ "racing" \in Places
      BY <1>1 DEF PageShape, Places
    <3> QED
      BY <1>1, <3>1 DEF AttemptRecord
  <2>3. e \in EngineRecord /\ SameEngine(page.node, e)
    <3>1. engine[page.node] \in EngineRecord
      BY <1>1, <2>1 DEF PageShape
    <3> QED
      BY <3>1 DEF EngineRecord, SameEngine
  <2>4. attempt' = [attempt EXCEPT ![n] = a] /\ engine' = [engine EXCEPT ![page.node] = e]
    BY <1>1, <1>2 DEF PageShape
  <2> HIDE DEF a, e
  <2>5. attempt' \in [Attempts -> AttemptRecord] /\ \A k \in Attempts : Onward(k)
    BY <1>1, <2>2, <2>4, AttemptReplaced DEF Onward
  <2>6. FormInv' /\ engine' \in [Attempts -> EngineRecord]
    BY <1>1, <1>2, <2>1, <2>3, <2>4, <2>5, OneReports
  <2> QED
    BY <1>1, <1>2, <2>5, <2>6 DEF PageInv, PageShape
<1>3. CASE /\ attempt' = [attempt EXCEPT ![n].at = "over", ![n].socket = "open"]
           /\ ResetConnectUi /\ UNCHANGED engine
  <2>1. ~At(n, "none")
    BY <1>1 DEF At
  <2> QED
    BY <1>1, <1>3, <2>1, AttemptEnds, ResetKept
<1> QED
  BY <1>2, <1>3 DEF SocketOpens

LEMMA StartKept ==
  ASSUME PageInv, NEW n \in Attempts, StartMedia(n)
  PROVE  PageInv'
<1> DEFINE to == IF page.node = None THEN "over" ELSE "media"
<1>1. PageShape /\ FormInv /\ At(n, "racing") /\ UNCHANGED <<page, engine, dead, arms, exports>>
  BY DEF PageInv, StartMedia, RaceOver
<1>2. to \in {"over", "media"} /\ to \in Places
  BY DEF Places
<1>3. attempt' = [attempt EXCEPT ![n].at = to]
  BY DEF StartMedia
<1> HIDE DEF to
<1>4. /\ attempt' \in [Attempts -> AttemptRecord] /\ attempt'[n].at = to
      /\ \A k \in Attempts : k # n => attempt'[k] = attempt[k]
  <2> DEFINE a == [attempt[n] EXCEPT !.at = to]
  <2>1. a \in AttemptRecord /\ a.at = to
    BY <1>1, <1>2 DEF PageShape, AttemptRecord
  <2>2. attempt' = [attempt EXCEPT ![n] = a]
    BY <1>3
  <2> HIDE DEF a
  <2> QED
    BY <1>1, <2>1, <2>2, AttemptReplaced
<1>5. ui' \in UiRecord /\ ui'.stop = TRUE
  BY <1>1 DEF StartMedia, PageShape, UiRecord
<1>6. ContextsTold'
  <2>1. \A k \in Attempts : attempt'[k].at \in {"none", "fetching"} <=> attempt[k].at \in {"none", "fetching"}
    BY <1>1, <1>2, <1>4 DEF At
  <2>2. \A k \in Attempts : attempt'[k].at = "none" <=> attempt[k].at = "none"
    BY <1>1, <1>2, <1>4 DEF At
  <2> QED
    BY <1>1, <2>1, <2>2, ToldKept DEF FormInv, ContextsTold, At
<1>7. ClosedNotInUse'
  BY <1>1 DEF FormInv, ClosedNotInUse, SomebodyCloses, Alive
<1>8. SocketAwaited'
  BY <1>1, <1>2, <1>4 DEF FormInv, SocketAwaited, At
<1> QED
  BY <1>1, <1>4, <1>5, <1>6, <1>7, <1>8 DEF PageInv, FormInv, PageShape, SomebodyReturns

(* An engine that was given no context makes one that nobody has closed. *)
LEMMA MediaKept ==
  ASSUME PageInv, NEW n \in Attempts, MediaReady(n)
  PROVE  PageInv'
<1>1. /\ PageShape /\ FormInv /\ At(n, "media") /\ "over" \in Places
      /\ attempt' = [attempt EXCEPT ![n].at = "over"]
      /\ UNCHANGED <<ui, page, dead, arms, exports>>
  BY DEF PageInv, MediaReady, Places
<1>2. attempt' \in [Attempts -> AttemptRecord] /\ \A k \in Attempts : Onward(k)
  BY <1>1, AttemptMoves
<1>3. CASE ~Alive(page.node)
  <2>1. engine' = engine
    BY <1>3 DEF MediaReady
  <2>2. FormInv'
    BY <1>1, <1>2, <2>1, Resting, FormQuiet
  <2> QED
    BY <1>1, <1>2, <2>1, <2>2 DEF PageInv, PageShape
<1>4. CASE Alive(page.node)
  <2> DEFINE m == page.node
             c == IF engine[m].ctx = None THEN OwnContext(m) ELSE engine[m].ctx
             e == [engine[m] EXCEPT !.connecting = TRUE, !.ctx = c]
  <2>1. m \in Attempts /\ engine[m] \in EngineRecord
    BY <1>1, <1>4, Numbers DEF PageShape, PageRecord, Alive
  <2>2. engine[m].life = "alive" /\ engine[m].ctx \in Contexts
    BY <1>4, <2>1 DEF Alive, EngineRecord
  <2>3. /\ c \in Contexts
        /\ c = engine[m].ctx \/ (engine[m].ctx = None /\ c = OwnContext(m))
    <3>1. OwnContext(m) \in Contexts
      BY <2>1, PageBoundsAssumption DEF Contexts, Attempts, OwnContext
    <3>2. CASE engine[m].ctx = None
      BY <3>1, <3>2
    <3>3. CASE engine[m].ctx # None
      BY <3>3, <2>2
    <3> QED
      BY <3>2, <3>3
  <2>4. engine' = [engine EXCEPT ![m] = e]
    BY <1>1, <1>4, <2>1 DEF MediaReady, PageShape
  <2> HIDE DEF c
  <2>5. e \in EngineRecord /\ e.life = "alive" /\ e.ctx = c
    BY <2>1, <2>2, <2>3 DEF EngineRecord
  <2> HIDE DEF e
  <2>6. /\ engine' \in [Attempts -> EngineRecord] /\ engine'[m] = e
        /\ \A k \in Attempts : k # m => engine'[k] = engine[k]
    BY <1>1, <2>1, <2>4, <2>5, EngineReplaced
  <2>7. CASE c = engine[m].ctx
    <3>1. \A k \in Attempts : SameEngine(k, engine'[k])
      BY <2>2, <2>5, <2>6, <2>7 DEF SameEngine
    <3>2. FormInv'
      BY <1>1, <1>2, <3>1, FormQuiet
    <3> QED
      BY <1>1, <1>2, <2>6, <3>2 DEF PageInv, PageShape
  <2>8. CASE engine[m].ctx = None /\ c = OwnContext(m)
    <3>1. OwnContext(m) \notin dead
      BY <1>1, <2>1, <2>8, Numbers DEF FormInv, ContextsTold
    <3>2. \A k \in Attempts : At(k, "none")' <=> At(k, "none")
      BY <1>2, OnwardKeeps
    <3>3. \A k \in Attempts :
            attempt'[k].at \in {"none", "fetching"} => attempt[k].at \in {"none", "fetching"}
      BY <1>2, OnwardKeeps
    <3>4. ContextsTold'
      <4>1. (page.ctx # None => ~At(page.ctx, "none"))'
        <5>1. page.ctx # None => page.ctx \in Attempts
          BY <1>1, Numbers DEF PageShape, PageRecord
        <5> QED
          BY <5>1, <1>1, <3>2 DEF FormInv, ContextsTold, At
      <4>2. ASSUME NEW k \in Attempts
            PROVE  /\ engine'[k].ctx = None \/ engine'[k].ctx \in Attempts \/ engine'[k].ctx = OwnContext(k)
                   /\ engine'[k].ctx \in Attempts => ~At(engine[k].ctx, "none")'
                   /\ attempt'[k].at \in {"none", "fetching"} => engine'[k].life = "none"
                   /\ engine'[k].life = "none" => engine'[k].ctx = None
                   /\ k \in dead' => ~At(k, "none")'
                   /\ OwnContext(k) \in dead' => engine'[k].ctx = OwnContext(k)
        <5>1. CASE k = m
          BY <5>1, <1>1, <2>2, <2>5, <2>6, <2>8, <3>1, <3>2, <3>3, Numbers DEF FormInv, ContextsTold, At
        <5>2. CASE k # m
          BY <5>2, <1>1, <2>6, <3>2, <3>3 DEF FormInv, ContextsTold, At
        <5> QED
          BY <5>1, <5>2
      <4> QED
        BY <4>1, <4>2 DEF ContextsTold, At, OwnContext
    <3>5. \A k \in Attempts : engine'[k].life = engine[k].life
      BY <2>2, <2>5, <2>6
    <3>6. ClosedNotInUse'
      BY <1>1, <2>1, <2>5, <2>6, <2>8, <3>1, <3>5 DEF FormInv, ClosedNotInUse, SomebodyCloses, Alive
    <3>7. SocketAwaited'
      BY <1>1, <1>2, OnwardKeeps DEF FormInv, SocketAwaited
    <3>8. SomebodyReturns'
      BY <1>1, <1>2, <3>5, OnwardKeeps DEF FormInv, SomebodyReturns, Underway
    <3> QED
      BY <1>1, <1>2, <2>6, <3>4, <3>6, <3>7, <3>8 DEF PageInv, FormInv, PageShape
  <2> QED
    BY <2>3, <2>7, <2>8
<1> QED
  BY <1>3, <1>4

(* A socket that ends: the form is reset, or only the socket forgotten. *)
LEMMA SocketEndKept ==
  ASSUME PageInv, NEW n \in Attempts, SocketEnds(n)
  PROVE  PageInv'
<1> DEFINE to     == IF attempt[n].at = "socket" THEN "over" ELSE attempt[n].at
           a      == [attempt[n] EXCEPT !.socket = "closed", !.at = to]
           forget == IF page.socket = n THEN [page EXCEPT !.socket = None] ELSE page
<1>1. PageShape /\ FormInv /\ attempt[n] \in AttemptRecord /\ page \in PageRecord /\ ui \in UiRecord
  BY DEF PageInv, PageShape
<1>2. to \in Places /\ "closed" \in Sockets
  BY <1>1 DEF Places, Sockets, AttemptRecord
<1>3. attempt' = [attempt EXCEPT ![n] = a] /\ UNCHANGED <<engine, arms, exports>>
  BY <1>1 DEF SocketEnds, PageShape
<1>4. a \in AttemptRecord /\ a.at = to
  BY <1>1, <1>2 DEF AttemptRecord
<1>5. (At(n, "socket") /\ to = "over") \/ (~At(n, "socket") /\ to = attempt[n].at)
  BY DEF At
<1> HIDE DEF a, to
<1>6. /\ attempt' \in [Attempts -> AttemptRecord] /\ attempt'[n] = a
      /\ \A k \in Attempts : k # n => attempt'[k] = attempt[k]
  BY <1>1, <1>3, <1>4, AttemptReplaced
<1>7. forget \in PageRecord /\ forget.node = page.node /\ forget.ctx = page.ctx
  BY <1>1, Numbers DEF PageRecord, None
<1>8. \A k \in Attempts : Onward(k) \/ (attempt'[k].at = "over" /\ ~At(k, "none"))
  BY <1>4, <1>5, <1>6 DEF Onward, At
<1>9. CASE /\ ui' = [ui EXCEPT !.connect = TRUE]
           /\ IF page.node = None /\ page.ctx # None
              THEN dead' = dead \cup {page.ctx} /\ page' = [forget EXCEPT !.ctx = None]
              ELSE page' = forget /\ UNCHANGED dead
  <2> HIDE DEF forget
  <2>1. ui' \in UiRecord /\ ui'.connect = TRUE
    BY <1>1, <1>9 DEF UiRecord
  <2>2. /\ page' \in PageRecord /\ page'.node = page.node
        /\ \/ page'.ctx = page.ctx /\ dead' = dead
           \/ page.node = None /\ page.ctx # None /\ page'.ctx = None /\ dead' = dead \cup {page.ctx}
    BY <1>7, <1>9, Numbers DEF PageRecord, None
  <2>3. dead' \in SUBSET (1 .. 2 * MaxAttempts)
    BY <1>1, <2>2, Numbers DEF PageShape, PageRecord
  <2>4. FormInv'
    BY <1>1, <1>3, <1>8, <2>1, <2>2, Resting, FormReset
  <2> QED
    BY <1>1, <1>3, <1>6, <2>1, <2>2, <2>3, <2>4 DEF PageInv, PageShape
<1>10. CASE attempt[n].socket = "open" /\ page' = forget /\ UNCHANGED <<ui, dead>>
  <2> HIDE DEF forget
  <2>1. ~At(n, "socket")
    BY <1>1, <1>10 DEF FormInv, SocketAwaited
  <2>2. \A k \in Attempts : Onward(k)
    BY <1>4, <1>5, <1>6, <2>1 DEF Onward
  <2>3. FormInv'
    <3>1. ContextsTold'
      <4>1. \A k \in Attempts : attempt'[k].at = attempt[k].at
        BY <1>4, <1>5, <1>6, <2>1
      <4> QED
        BY <1>1, <1>3, <1>7, <1>10, <4>1, ToldKept DEF FormInv, ContextsTold, At
    <3>2. ClosedNotInUse'
      BY <1>1, <1>3, <1>7, <1>10 DEF FormInv, ClosedNotInUse, SomebodyCloses, Alive
    <3>3. SocketAwaited'
      BY <1>1, <2>2, OnwardKeeps DEF FormInv, SocketAwaited
    <3>4. SomebodyReturns'
      BY <1>1, <1>3, <1>10, <2>2, OnwardKeeps DEF FormInv, SomebodyReturns, Underway
    <3> QED
      BY <3>1, <3>2, <3>3, <3>4 DEF FormInv
  <2> QED
    BY <1>1, <1>3, <1>6, <1>7, <1>10, <2>3 DEF PageInv, PageShape
<1> QED
  BY <1>9, <1>10 DEF SocketEnds

LEMMA ContextClosedKept ==
  ASSUME PageInv, NEW n \in Attempts, ContextClosed(n)
  PROVE  PageInv'
<1> DEFINE e == [engine[n] EXCEPT !.life = "gone"]
<1>1. /\ PageShape /\ FormInv /\ engine[n] \in EngineRecord /\ engine[n].life = "closing"
      /\ UNCHANGED <<attempt, dead, arms, exports>>
  BY DEF PageInv, PageShape, ContextClosed
<1>2. page' = Vacant /\ page' \in PageRecord /\ page'.node = None /\ page'.ctx = None
  BY Numbers DEF ContextClosed, Vacant, PageRecord, None
<1>3. ui' \in UiRecord /\ ui'.connect = TRUE
  BY <1>1 DEF ContextClosed, IdleUi, UiRecord, PageShape
<1>4. e \in EngineRecord /\ e.life = "gone" /\ e.ctx = engine[n].ctx
  BY <1>1 DEF EngineRecord, Lives
<1>5. engine' = [engine EXCEPT ![n] = e]
  BY DEF ContextClosed
<1> HIDE DEF e
<1>6. /\ engine' \in [Attempts -> EngineRecord] /\ engine'[n] = e
      /\ \A k \in Attempts : k # n => engine'[k] = engine[k]
  BY <1>1, <1>4, <1>5, EngineReplaced
<1>7. ContextsTold'
  <2>1. \A k \in Attempts : /\ engine'[k].ctx = engine[k].ctx
                            /\ engine'[k].life = "none" <=> engine[k].life = "none"
    BY <1>1, <1>4, <1>6
  <2> QED
    BY <1>1, <1>2, <2>1, ToldKept DEF FormInv, ContextsTold, At
<1>8. ClosedNotInUse'
  <2>1. None \notin dead
    BY <1>1, Numbers DEF PageShape
  <2> QED
    BY <1>1, <1>2, <2>1 DEF ClosedNotInUse, Alive
<1>9. SocketAwaited'
  BY <1>1 DEF FormInv, SocketAwaited, At
<1> QED
  BY <1>1, <1>2, <1>3, <1>6, <1>7, <1>8, <1>9 DEF PageInv, FormInv, PageShape, SomebodyReturns

(* An engine that reports: its life and its context are what they were. *)
LEMMA ReportKept ==
  ASSUME PageInv, NEW m \in Attempts, NEW e \in EngineRecord, SameEngine(m, e),
         engine' = [engine EXCEPT ![m] = e],
         attempt' \in [Attempts -> AttemptRecord], \A n \in Attempts : Onward(n),
         ui' \in UiRecord, ui'.connect = ui.connect, ui'.stop = ui.stop,
         arms' \in ArmsRecord, exports' \in Nat, UNCHANGED <<page, dead>>
  PROVE  PageInv'
<1>1. PageShape /\ FormInv
  BY DEF PageInv
<1>2. FormInv' /\ engine' \in [Attempts -> EngineRecord]
  BY <1>1, OneReports
<1> QED
  BY <1>1, <1>2 DEF PageInv, PageShape

(* And a step that touches no engine at all. *)
LEMMA EnginesRest ==
  ASSUME PageInv, attempt' \in [Attempts -> AttemptRecord], \A n \in Attempts : Onward(n),
         ui' \in UiRecord, ui'.connect = ui.connect, ui'.stop = ui.stop,
         arms' \in ArmsRecord, exports' \in Nat, UNCHANGED <<page, engine, dead>>
  PROVE  PageInv'
<1>1. PageShape /\ FormInv
  BY DEF PageInv
<1>2. FormInv'
  BY <1>1, Resting, FormQuiet
<1> QED
  BY <1>1, <1>2 DEF PageInv, PageShape

LEMMA PageInvKept == PageInv /\ [Next]_vars => PageInv'
<1> SUFFICES ASSUME PageInv, [Next]_vars PROVE PageInv'
  OBVIOUS
<1>0. /\ PageShape /\ FormInv /\ ui \in UiRecord /\ page \in PageRecord /\ arms \in ArmsRecord
      /\ attempt \in [Attempts -> AttemptRecord] /\ engine \in [Attempts -> EngineRecord]
      /\ exports \in Nat
      /\ \A n \in Attempts : engine[n] \in EngineRecord /\ attempt[n] \in AttemptRecord
  BY DEF PageInv, PageShape
<1>1. StopClick => PageInv'
  BY <1>0, Resting, StopKept DEF StopClick
<1>2. RecordClick => PageInv'
  <2> SUFFICES ASSUME RecordClick PROVE PageInv'
    OBVIOUS
  <2>1. arms' \in ArmsRecord
    BY <1>0, Numbers DEF RecordClick, ArmsRecord
  <2>2. ui' \in UiRecord /\ ui'.connect = ui.connect /\ ui'.stop = ui.stop
    BY <1>0 DEF RecordClick, UiRecord
  <2> QED
    BY <1>0, <2>1, <2>2, Resting, EnginesRest DEF RecordClick
<1>3. Armed => PageInv'
  <2> SUFFICES ASSUME Armed PROVE PageInv'
    OBVIOUS
  <2>1. arms' \in ArmsRecord /\ arms.clicks \in 0 .. MaxArms
    BY <1>0, Numbers DEF Armed, ArmsRecord
  <2>2. CASE MayRecord(page.node)
    <3> DEFINE e == [engine[page.node] EXCEPT !.rec = arms.clicks, !.timer = arms.clicks]
    <3>1. page.node \in Attempts /\ engine[page.node] \in EngineRecord
      BY <1>0, <2>2, Numbers DEF MayRecord, PageRecord
    <3>2. e \in EngineRecord /\ SameEngine(page.node, e)
      BY <2>1, <3>1 DEF EngineRecord, SameEngine
    <3>3. engine' = [engine EXCEPT ![page.node] = e] /\ UNCHANGED <<ui, page, attempt, dead, exports>>
      BY <1>0, <2>2, <3>1 DEF Armed
    <3> HIDE DEF e
    <3> QED
      BY <1>0, <2>1, <3>1, <3>2, <3>3, Resting, ReportKept
  <2>3. CASE ~MayRecord(page.node)
    <3>1. ui' \in UiRecord /\ ui'.connect = ui.connect /\ ui'.stop = ui.stop
      BY <1>0, <2>3 DEF Armed, UiRecord
    <3>2. UNCHANGED <<engine, page, attempt, dead, exports>>
      BY <2>3 DEF Armed
    <3> QED
      BY <1>0, <2>1, <3>1, <3>2, Resting, EnginesRest
  <2> QED
    BY <2>2, <2>3
<1>4. RecordingComplete => PageInv'
  <2> SUFFICES ASSUME RecordingComplete PROVE PageInv'
    OBVIOUS
  <2>1. ui' \in UiRecord /\ ui'.connect = ui.connect /\ ui'.stop = ui.stop /\ exports' \in Nat
    <3>1. ui' \in UiRecord /\ ui'.connect = ui.connect /\ ui'.stop = ui.stop
      BY <1>0 DEF RecordingComplete, UiRecord
    <3>2. exports' \in Nat
      BY <1>0 DEF RecordingComplete
    <3> QED
      BY <3>1, <3>2
  <2> QED
    BY <1>0, <2>1, Resting, EnginesRest DEF RecordingComplete
<1>5. ASSUME NEW n \in Attempts, ConnectClick(n) PROVE PageInv'
  BY <1>5, ConnectBegins
<1>6. ASSUME NEW n \in Attempts, CreateSocket(n) PROVE PageInv'
  BY <1>6, SocketCreated
<1>7. ASSUME NEW n \in Attempts, BadUrl(n) PROVE PageInv'
  <2>1. ~At(n, "none") /\ "open" \in Sockets
    BY <1>7 DEF BadUrl, At, Sockets
  <2> QED
    BY <1>0, <1>7, <2>1, AttemptEnds, ResetKept DEF BadUrl
<1>8. ASSUME NEW n \in Attempts, SocketOpens(n) PROVE PageInv'
  BY <1>8, SocketOpenKept
<1>9. ASSUME NEW n \in Attempts, StartMedia(n) PROVE PageInv'
  BY <1>9, StartKept
<1>10. ASSUME NEW n \in Attempts, OfferArrives(n) PROVE PageInv'
  <2> DEFINE a == [attempt[n] EXCEPT !.offered = TRUE]
  <2>1. a \in AttemptRecord /\ a.at = attempt[n].at /\ a.socket = attempt[n].socket
    BY <1>0 DEF AttemptRecord
  <2>2. attempt' = [attempt EXCEPT ![n] = a]
    BY <1>10 DEF OfferArrives
  <2> HIDE DEF a
  <2>3. attempt' \in [Attempts -> AttemptRecord] /\ \A k \in Attempts : Onward(k)
    BY <1>0, <2>1, <2>2, AttemptReplaced DEF Onward
  <2> QED
    BY <1>0, <1>10, <2>3, EnginesRest DEF OfferArrives
<1>11. ASSUME NEW n \in Attempts, MediaReady(n) PROVE PageInv'
  BY <1>11, MediaKept
<1>12. ASSUME NEW n \in Attempts, MediaFails(n) PROVE PageInv'
  <2>1. attempt' \in [Attempts -> AttemptRecord] /\ \A k \in Attempts : Onward(k)
    BY <1>0, <1>12, AttemptMoves DEF MediaFails, Places
  <2> QED
    BY <1>0, <1>12, <2>1, EnginesRest DEF MediaFails
<1>13. ASSUME NEW n \in Attempts, BridgeMismatch(n) PROVE PageInv'
  <2>1. attempt' \in [Attempts -> AttemptRecord] /\ \A k \in Attempts : Onward(k)
    BY <1>0, <1>13, AttemptMoves DEF BridgeMismatch, Places
  <2> QED
    BY <1>0, <1>13, <2>1, Resting, StopKept DEF BridgeMismatch
<1>14. ASSUME NEW n \in Attempts, SocketEnds(n) PROVE PageInv'
  BY <1>14, SocketEndKept
<1>15. ASSUME NEW n \in Attempts, ContextClosed(n) PROVE PageInv'
  BY <1>15, ContextClosedKept
<1>16. ASSUME NEW n \in Attempts, PipelineBuilt(n) PROVE PageInv'
  <2> DEFINE d == [engine[n] EXCEPT !.connecting = FALSE, !.started = TRUE, !.graph = "loading"]
             e == [engine[n] EXCEPT !.connecting = FALSE]
  <2>1. d \in EngineRecord /\ SameEngine(n, d) /\ e \in EngineRecord /\ SameEngine(n, e)
    BY <1>0 DEF EngineRecord, SameEngine
  <2>2. /\ engine' = [engine EXCEPT ![n] = d] \/ engine' = [engine EXCEPT ![n] = e]
        /\ UNCHANGED <<ui, page, attempt, dead, arms, exports>>
    BY <1>0, <1>16 DEF PipelineBuilt
  <2> HIDE DEF d, e
  <2> QED
    BY <1>0, <2>1, <2>2, Resting, ReportKept
<1>17. ASSUME NEW n \in Attempts, GraphReady(n) PROVE PageInv'
  <2> DEFINE e == [engine[n] EXCEPT !.graph = "ready"]
             a == [attempt[n] EXCEPT !.graphReady = TRUE]
  <2>1. e \in EngineRecord /\ SameEngine(n, e)
    BY <1>0 DEF EngineRecord, SameEngine
  <2>2. a \in AttemptRecord /\ a.at = attempt[n].at /\ a.socket = attempt[n].socket
    BY <1>0 DEF AttemptRecord
  <2>3. engine' = [engine EXCEPT ![n] = e] /\ MaybeAutoStart(n, a, engine')
        /\ UNCHANGED <<page, dead, arms, exports>>
    BY <1>17 DEF GraphReady
  <2> HIDE DEF a, e
  <2> QED
    BY <1>0, <2>1, <2>2, <2>3, AutoStarted, ReportKept
<1>18. ASSUME NEW n \in Attempts, Connected(n) PROVE PageInv'
  <2> DEFINE e == [engine[n] EXCEPT !.transport = "connected", !.connected = TRUE]
             a == [attempt[n] EXCEPT !.webrtcConnected = TRUE]
  <2>1. e \in EngineRecord /\ SameEngine(n, e)
    BY <1>0 DEF EngineRecord, SameEngine
  <2>2. a \in AttemptRecord /\ a.at = attempt[n].at /\ a.socket = attempt[n].socket
    BY <1>0 DEF AttemptRecord
  <2>3. engine' = [engine EXCEPT ![n] = e] /\ MaybeAutoStart(n, a, engine')
        /\ UNCHANGED <<page, dead, arms, exports>>
    BY <1>0, <1>18 DEF Connected
  <2> HIDE DEF a, e
  <2> QED
    BY <1>0, <2>1, <2>2, <2>3, AutoStarted, ReportKept
<1>19. ASSUME NEW n \in Attempts, Disconnected(n) PROVE PageInv'
  <2> DEFINE e == [engine[n] EXCEPT !.transport = "disconnected", !.connected = FALSE]
  <2>1. e \in EngineRecord /\ SameEngine(n, e)
    BY <1>0 DEF EngineRecord, SameEngine
  <2>2. engine' = [engine EXCEPT ![n] = e] /\ UNCHANGED <<ui, page, attempt, dead, arms, exports>>
    BY <1>0, <1>19 DEF Disconnected
  <2> HIDE DEF e
  <2> QED
    BY <1>0, <2>1, <2>2, Resting, ReportKept
<1>20. ASSUME NEW n \in Attempts, Failed(n) PROVE PageInv'
  <2> DEFINE e       == [engine[n] EXCEPT !.transport = "failed", !.connected = FALSE]
             engines == [engine EXCEPT ![n] = e]
  <2>1. e \in EngineRecord /\ SameEngine(n, e)
    BY <1>0 DEF EngineRecord, SameEngine
  <2>2. engines = [engine EXCEPT ![n].transport = "failed", ![n].connected = FALSE]
    BY <1>0
  <2>3. StopAudio(engines) /\ UNCHANGED <<attempt, arms, exports>>
    BY <1>20, <2>2 DEF Failed
  <2> HIDE DEF e
  <2>4. /\ engines \in [Attempts -> EngineRecord]
        /\ \A k \in Attempts : SameEngine(k, engines[k])
    BY <1>0, <2>1 DEF SameEngine
  <2> HIDE DEF engines
  <2> QED
    BY <1>0, <2>3, <2>4, Resting, StopKept
<1>21. ASSUME NEW n \in Attempts, LastFrame(n) PROVE PageInv'
  <2> DEFINE e == [engine[n] EXCEPT !.rec = 0, !.timer = 0]
  <2>1. e \in EngineRecord /\ SameEngine(n, e)
    <3>1. engine[n] \in EngineRecord /\ 0 \in 0 .. MaxArms
      BY <1>0, PageBoundsAssumption
    <3> QED
      BY <3>1 DEF EngineRecord, SameEngine
  <2>2. engine' = [engine EXCEPT ![n] = e] /\ UNCHANGED <<ui, page, attempt, dead, arms>>
    BY <1>0, <1>21 DEF LastFrame
  <2>3. exports' \in Nat
    BY <1>0, <1>21 DEF LastFrame
  <2> HIDE DEF e
  <2> QED
    BY <1>0, <2>1, <2>2, <2>3, Resting, ReportKept
<1>22. ASSUME NEW n \in Attempts, RecordingTimeout(n) PROVE PageInv'
  <2> DEFINE e == [engine[n] EXCEPT !.rec = 0, !.timer = 0]
  <2>1. e \in EngineRecord /\ SameEngine(n, e)
    <3>1. engine[n] \in EngineRecord /\ 0 \in 0 .. MaxArms
      BY <1>0, PageBoundsAssumption
    <3> QED
      BY <3>1 DEF EngineRecord, SameEngine
  <2>2. engine' = [engine EXCEPT ![n] = e] /\ UNCHANGED <<ui, page, attempt, dead, arms>>
    BY <1>0, <1>22 DEF RecordingTimeout
  <2>3. exports' \in Nat
    BY <1>0, <1>22 DEF RecordingTimeout, Expired
  <2> HIDE DEF e
  <2> QED
    BY <1>0, <2>1, <2>2, <2>3, Resting, ReportKept
<1>23. UNCHANGED pageVars => PageInv'
  BY <1>0, Resting, EnginesRest DEF pageVars
<1> QED
  BY <1>1, <1>2, <1>3, <1>4, <1>5, <1>6, <1>7, <1>8, <1>9, <1>10, <1>11, <1>12, <1>13, <1>14,
     <1>15, <1>16, <1>17, <1>18, <1>19, <1>20, <1>21, <1>22, <1>23, PageCases

LEMMA PageInvariant == Spec => []PageInv
<1>1. Init => PageInv
  BY PageShapeInitially, FormInitially DEF Init, PageInv
<1> QED
  BY <1>1, PageInvKept, PTL DEF Spec

(* The user is never stuck in a form with Connect and Stop both disabled    *)
(* and nothing under way that will enable one of them, whatever the         *)
(* callbacks of earlier attempts do to the page's globals.                  *)
(* (app-mcu.js:87-98, 454-456, 635-664, 763-792)                            *)
THEOREM FormIsNeverStuck == Spec => []SomebodyReturns
BY PageInvariant, PTL DEF PageInv, FormInv

(* stopAudio finds the context closed before only while another stop is     *)
(* still under way, whose end resets the form that this one leaves as it    *)
(* is.  (app-mcu.js:763-792)                                                *)
THEOREM ClosedContextsAreNotUsed == Spec => []ClosedNotInUse
BY PageInvariant, PTL DEF PageInv, FormInv

(* The page's variables have their types.                                   *)
THEOREM PageTyped == Spec => []PageTypeOK
<1>1. PageInv => PageTypeOK
  <2> SUFFICES ASSUME PageInv PROVE PageTypeOK
    OBVIOUS
  <2>1. /\ PageShape
        /\ \A n \in Attempts : attempt[n] \in AttemptRecord /\ engine[n] \in EngineRecord
    BY DEF PageInv, PageShape
  <2>2. ASSUME NEW n \in Attempts
        PROVE  /\ attempt[n].at \in Places /\ attempt[n].socket \in Sockets
               /\ engine[n].life \in Lives
               /\ engine[n].rec \in 0 .. MaxArms /\ engine[n].timer \in 0 .. MaxArms
    BY <2>1 DEF AttemptRecord, EngineRecord
  <2> QED
    BY <2>1, <2>2 DEF PageTypeOK, PageShape, UiRecord, PageRecord, Places, Sockets, Lives
<1> QED
  BY <1>1, PageInvariant, PTL
=============================================================================
