---------------------------- MODULE Negotiation ----------------------------
(***************************************************************************)
(* One call between the client engine, which answers, and the MCU session, *)
(* which offers: SDP and trickled ICE over a WebSocket, then the transport *)
(* as the client sees it.                                                  *)
(*                                                                         *)
(* The page's JavaScript runs one task at a time, but a message handler    *)
(* stops at each await and other messages are handled meanwhile.  On the   *)
(* server one goroutine reads the socket and applies what it reads; Pion   *)
(* reports local candidates from a goroutine of its own.                   *)
(***************************************************************************)
EXTENDS Naturals, Sequences, FiniteSets, SequencesExt

CONSTANTS
  ClientCandidates, ServerCandidates,   (* what the two ICE agents gather  *)
  MaxBlips                              (* bound: transient disconnections *)

ASSUME CandidatesAssumption ==
  /\ IsFiniteSet(ClientCandidates) /\ IsFiniteSet(ServerCandidates)
  /\ ClientCandidates \cap ServerCandidates = {}
ASSUME BlipsAssumption == MaxBlips \in Nat

Ends       == {"client", "server"}
Candidates == ClientCandidates \cup ServerCandidates

VARIABLES
  described, heard, applied, closed,   (* as in TrickleICE: remote         *)
               (* description set, candidates in, candidates added, closed *)
  kept,        (* _pendingIceCandidates, pendingCandidates                 *)
  gathered,    (* local candidates reported so far                         *)
  stage,       (* where _tryStartNegotiation waits                         *)
  serverStage, (* what Start has done                                      *)
  link,        (* the WebSocket connection: up or down                     *)
  wire,        (* messages under way, in order, by the end they go to      *)
  transport,   (* pc.connectionState of the client, as last reported       *)
  channelOpen, (* its DataChannel is open                                  *)
  connected,   (* _connected                                               *)
  blips        (* how often the transport was disconnected (bounded)       *)

iceVars       == <<described, heard, applied, closed>>
signalVars    == <<kept, gathered, stage, serverStage, link, wire>>
transportVars == <<transport, channelOpen, connected, blips>>
negVars       == <<iceVars, signalVars, transportVars>>

Offer  == [type |-> "offer"]
Answer == [type |-> "answer"]
Ice(c) == [type |-> "ice", candidate |-> c]

NegInit ==
  /\ described = {} /\ closed = {}
  /\ heard = [e \in Ends |-> {}] /\ applied = heard /\ gathered = heard
  /\ kept = [e \in Ends |-> <<>>] /\ wire = kept
  /\ stage = "idle" /\ serverStage = "new" /\ link = "up"
  /\ transport = "new" /\ channelOpen = FALSE /\ connected = FALSE /\ blips = 0

Live(e) == e \notin closed

(* A message written to a connection that is down is lost. *)
Write(e, m) == wire' = IF link = "up" THEN [wire EXCEPT ![e] = Append(@, m)] ELSE wire

Receive(e) ==
  /\ Live(e) /\ wire[e] # <<>>
  /\ wire' = [wire EXCEPT ![e] = Tail(@)]

-----------------------------------------------------------------------------
(* The server: Start sets the local description, which starts gathering,    *)
(* and only then sends the offer.                                           *)
SetLocalDescription ==
  /\ Live("server") /\ serverStage = "new"
  /\ serverStage' = "described"
  /\ UNCHANGED <<iceVars, kept, gathered, stage, link, wire, transportVars>>

SendOffer ==
  /\ Live("server") /\ serverStage = "described"
  /\ serverStage' = "offered"
  /\ Write("client", Offer)
  /\ UNCHANGED <<iceVars, kept, gathered, stage, link, transportVars>>

OnICECandidate(c) ==
  /\ Live("server") /\ serverStage # "new" /\ c \notin gathered["server"]
  /\ gathered' = [gathered EXCEPT !["server"] = @ \cup {c}]
  /\ Write("client", Ice(c))
  /\ UNCHANGED <<iceVars, kept, stage, serverStage, link, transportVars>>

Drained_ButTheFirst == {c \in Candidates : \E i \in 2 .. Len(kept["server"]) : kept["server"][i] = c}
Drained == Range(kept["server"])

HandleAnswer ==
  /\ serverStage = "offered"
  /\ Receive("server") /\ Head(wire["server"]) = Answer
  /\ described' = described \cup {"server"}
  /\ applied'   = [applied EXCEPT !["server"] = @ \cup Drained]
  /\ kept'      = [kept EXCEPT !["server"] = <<>>]
  /\ UNCHANGED <<heard, closed, gathered, stage, serverStage, link, transportVars>>

(* Either end, given a candidate: add it, or keep it for the description. *)
MayAdd(e) == e \in described

TakeCandidate(e) ==
  \E c \in Candidates :
    /\ Receive(e) /\ Head(wire[e]) = Ice(c)
    /\ heard' = [heard EXCEPT ![e] = @ \cup {c}]
    /\ IF MayAdd(e)
       THEN /\ applied' = [applied EXCEPT ![e] = @ \cup {c}]
            /\ UNCHANGED kept
       ELSE /\ kept' = [kept EXCEPT ![e] = Append(@, c)]
            /\ UNCHANGED applied
    /\ UNCHANGED <<described, closed, gathered, stage, serverStage, link, transportVars>>

AddRemoteICE == serverStage = "offered" /\ TakeCandidate("server")

(* The read loop ends with the connection, and the session with the loop. *)
ServerCloses ==
  /\ Live("server") /\ serverStage = "offered"
  /\ link = "down" /\ wire["server"] = <<>>
  /\ closed' = closed \cup {"server"}
  /\ UNCHANGED <<described, heard, applied, signalVars, transportVars>>

-----------------------------------------------------------------------------
(* The client.  The offer handler, from await to await: the remote          *)
(* description; the kept candidates, one at a time; createAnswer;           *)
(* setLocalDescription; then the answer is sent.  Once the PeerConnection   *)
(* is closed no await of it returns, or the next use of this._pc throws:    *)
(* either way the handler goes no further.                                  *)
HandleOffer ==
  /\ Receive("client") /\ Head(wire["client"]) = Offer
  /\ stage' = "setRemote"
  /\ UNCHANGED <<iceVars, kept, gathered, serverStage, link, transportVars>>

HandleIce == TakeCandidate("client")

SetRemoteDescription ==
  /\ Live("client") /\ stage = "setRemote"
  /\ described' = described \cup {"client"}
  /\ stage' = "drain"
  /\ UNCHANGED <<heard, applied, closed, kept, gathered, serverStage, link, wire, transportVars>>

(* One iteration of the loop; the list is emptied when the loop is done. *)
Remaining == {i \in 1 .. Len(kept["client"]) : kept["client"][i] \notin applied["client"]}

DrainOne ==
  /\ Live("client") /\ stage = "drain"
  /\ \E first \in Remaining :
       /\ \A i \in Remaining : first <= i
       /\ applied' = [applied EXCEPT !["client"] = @ \cup {kept["client"][first]}]
  /\ UNCHANGED <<described, heard, closed, signalVars, transportVars>>

DrainDone ==
  /\ Live("client") /\ stage = "drain" /\ Remaining = {}
  /\ kept' = [kept EXCEPT !["client"] = <<>>]
  /\ stage' = "createAnswer"
  /\ UNCHANGED <<iceVars, gathered, serverStage, link, wire, transportVars>>

CreateAnswer ==
  /\ Live("client") /\ stage = "createAnswer"
  /\ stage' = "setLocal"
  /\ UNCHANGED <<iceVars, kept, gathered, serverStage, link, wire, transportVars>>

(* Trickle ICE: the answer does not wait for the candidates. *)
MayAnswer_Gathered == stage = "setLocal" /\ gathered["client"] = ClientCandidates
MayAnswer == stage = "setLocal"

SendAnswer ==
  /\ Live("client") /\ MayAnswer
  /\ stage' = "answered"
  /\ Write("server", Answer)
  /\ UNCHANGED <<iceVars, kept, gathered, serverStage, link, transportVars>>

(* setLocalDescription starts the client's gathering. *)
LocalCandidate(c) ==
  /\ Live("client") /\ stage \in {"setLocal", "answered"} /\ c \notin gathered["client"]
  /\ gathered' = [gathered EXCEPT !["client"] = @ \cup {c}]
  /\ Write("server", Ice(c))
  /\ UNCHANGED <<iceVars, kept, stage, serverStage, link, transportVars>>

(* Connectivity needs both descriptions and a candidate at either end.      *)
Reachable ==
  /\ stage = "answered" /\ "server" \in described /\ Live("server")
  /\ applied["client"] \cup applied["server"] # {}

(* connectionState becomes connected, for the first time or after a blip:   *)
(* then the channel, which never closed, will not open again.               *)
Recovers_Never == FALSE
Recovers == ~connected /\ channelOpen

TransportUp ==
  /\ Live("client") /\ transport \in {"new", "disconnected"} /\ Reachable
  /\ transport' = "connected"
  /\ connected' = (connected \/ Recovers)
  /\ UNCHANGED <<iceVars, signalVars, channelOpen, blips>>

(* The open event may be reported between a blip and its recovery. *)
ChannelOpens ==
  /\ Live("client") /\ ~channelOpen
  /\ transport \in {"connected", "disconnected"} /\ Reachable
  /\ channelOpen' = TRUE /\ connected' = TRUE
  /\ UNCHANGED <<iceVars, signalVars, transport, blips>>

(* The other end has gone: dc.onclose only logs. *)
ChannelCloses ==
  /\ Live("client") /\ channelOpen /\ ~Live("server")
  /\ channelOpen' = FALSE
  /\ UNCHANGED <<iceVars, signalVars, transport, connected, blips>>

TransportDown(state) ==
  /\ Live("client")
  /\ \/ state = "disconnected" /\ transport = "connected" /\ blips < MaxBlips
     \/ state = "failed" /\ transport \in {"new", "disconnected"} /\ "client" \in described
  /\ transport' = state
  /\ connected' = FALSE
  /\ blips' = IF state = "disconnected" THEN blips + 1 ELSE blips
  /\ UNCHANGED <<iceVars, signalVars, channelOpen>>

(* destroy(): the socket is closed, the candidates are dropped and the      *)
(* PeerConnection is closed, whatever the handlers are waiting for.         *)
Destroy ==
  /\ Live("client")
  /\ closed' = closed \cup {"client"}
  /\ kept' = [kept EXCEPT !["client"] = <<>>]
  /\ link' = "down" /\ wire' = [wire EXCEPT !["client"] = <<>>]
  /\ connected' = FALSE /\ channelOpen' = FALSE /\ transport' = "closed"
  /\ UNCHANGED <<described, heard, applied, gathered, stage, serverStage, blips>>

(* The connection breaks, with what is under way. *)
LinkBreaks ==
  /\ link = "up"
  /\ link' = "down" /\ wire' = [e \in Ends |-> <<>>]
  /\ UNCHANGED <<iceVars, kept, gathered, stage, serverStage, transportVars>>

-----------------------------------------------------------------------------
ServerSteps == SetLocalDescription \/ SendOffer \/ HandleAnswer \/ AddRemoteICE \/ ServerCloses
ClientSteps ==
  \/ HandleOffer \/ HandleIce \/ SetRemoteDescription \/ DrainOne \/ DrainDone
  \/ CreateAnswer \/ SendAnswer

NegNext ==
  \/ ServerSteps \/ ClientSteps
  \/ \E c \in ServerCandidates : OnICECandidate(c)
  \/ \E c \in ClientCandidates : LocalCandidate(c)
  \/ TransportUp \/ ChannelOpens \/ ChannelCloses
  \/ \E s \in {"disconnected", "failed"} : TransportDown(s)
  \/ Destroy \/ LinkBreaks

NegTypeOK ==
  /\ described \subseteq Ends /\ closed \subseteq Ends
  /\ heard    \in [Ends -> SUBSET Candidates]
  /\ applied  \in [Ends -> SUBSET Candidates]
  /\ gathered \in [Ends -> SUBSET Candidates]
  /\ kept     \in [Ends -> Seq(Candidates)]
  /\ wire     \in [Ends -> Seq({Offer, Answer} \cup {Ice(c) : c \in Candidates})]
  /\ stage \in {"idle", "setRemote", "drain", "createAnswer", "setLocal", "answered"}
  /\ serverStage \in {"new", "described", "offered"}
  /\ link \in {"up", "down"}
  /\ transport \in {"new", "connected", "disconnected", "failed", "closed"}
  /\ channelOpen \in BOOLEAN /\ connected \in BOOLEAN
  /\ blips \in 0 .. MaxBlips

ICE == INSTANCE TrickleICE
         WITH Ends <- Ends, Candidates <- Candidates, described <- described,
              heard <- heard, applied <- applied, closed <- closed

(* Both ends keep what TrickleICE promises: no candidate reaches an ICE     *)
(* agent before the remote description, and each one that arrived, however  *)
(* early, during whichever await, reaches it in the end.                    *)
(* (engine.js:1595-1601, 1908-1934; session.go:401-437)                     *)
Trickles == ICE!Spec

(* An offer that was sent is answered and the answer applied, unless one of *)
(* the two ends is closed: no order of candidates and descriptions blocks   *)
(* the exchange.  (engine.js:1606-1634; session.go:380-419)                 *)
Answered == (serverStage = "offered") ~> ("server" \in described \/ closed # {})

(* The engine takes itself for connected whenever its channel is open on a  *)
(* connected transport, however often that was lost and came back before or *)
(* after the channel opened, and never on one that failed or was closed.    *)
(* (engine.js:1510-1527, 1538-1545)                                         *)
FlagTracksTransport ==
  /\ channelOpen /\ transport = "connected" => connected
  /\ transport \in {"failed", "closed"} => ~connected
=============================================================================
