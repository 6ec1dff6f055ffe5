---------------------------- MODULE ClientPage -----------------------------
(***************************************************************************)
(* The page of the multi-user client: what the buttons do, what each       *)
(* connect attempt waits for, and what the asynchronous continuations of   *)
(* one attempt do to the page's globals while another one is under way.    *)
(* The engine appears as far as the page drives it: its lifecycle, the     *)
(* transport state it reports, and the sender's recording.                 *)
(*                                                                         *)
(* An attempt and the engine instance it creates have the same number; a   *)
(* continuation uses the global ambisonicsNode, which may by then belong   *)
(* to another attempt, or be null (None).                                  *)
(***************************************************************************)
EXTENDS Naturals, FiniteSets

CONSTANTS
  MaxAttempts,   (* bound: clicks on Connect                               *)
  MaxArms        (* bound: clicks on Record                                *)

ASSUME PageBoundsAssumption == MaxAttempts \in Nat \ {0} /\ MaxArms \in Nat

Attempts == 1 .. MaxAttempts
None     == 0

VARIABLES
  ui,       (* which of Connect, Stop and Record are enabled               *)
  page,     (* ambisonicsNode, signalingSocket, prewarmedCtx               *)
  attempt,  (* per attempt: where connectNode stands, its socket, and the  *)
            (* variables its callbacks close over                          *)
  engine,   (* per engine instance                                         *)
  dead,     (* the AudioContexts that were closed                          *)
  arms,     (* clicks on Record so far, and arming timers that still run   *)
  exports   (* deferred export callbacks of finished recordings            *)

pageVars == <<ui, page, attempt, engine, dead, arms, exports>>

PageInit ==
  /\ ui   = [connect |-> TRUE, stop |-> FALSE, record |-> FALSE]
  /\ page = [node |-> None, socket |-> None, ctx |-> None]
  /\ attempt = [n \in Attempts |->
       [at |-> "none", socket |-> "none", offered |-> FALSE,
        webrtcConnected |-> FALSE, graphReady |-> FALSE, audioStarted |-> FALSE]]
  /\ engine = [n \in Attempts |->
       [life |-> "none", ctx |-> None, pc |-> FALSE, transport |-> "new", connected |-> FALSE,
        connecting |-> FALSE, started |-> FALSE, graph |-> "none", rec |-> 0, timer |-> 0]]
  /\ dead = {} /\ exports = 0
  /\ arms = [clicks |-> 0, timers |-> 0]

At(n, place) == attempt[n].at = place
Alive(m)     == m # None /\ engine[m].life = "alive"

-----------------------------------------------------------------------------
(* resetConnectUi: without an engine the prewarmed context is closed too. *)
ResetConnectUi ==
  /\ ui' = [ui EXCEPT !.connect = TRUE]
  /\ IF page.node = None /\ page.ctx # None
     THEN /\ dead' = dead \cup {page.ctx}
          /\ page' = [page EXCEPT !.ctx = None]
     ELSE UNCHANGED <<dead, page>>

(* destroy(), up to its await: flags, timers and recording are reset. *)
Shut(e, life) ==
  [e EXCEPT !.life = life, !.connected = FALSE, !.started = FALSE, !.rec = 0, !.timer = 0,
            !.graph = IF @ = "ready" THEN "none" ELSE @]

(* What stopAudio does after the await. *)
Vacant  == [node |-> None, socket |-> None, ctx |-> None]
IdleUi(stop) == [connect |-> TRUE, stop |-> stop, record |-> FALSE]

(* stopAudio on the global engine, given the engines as they are by then.   *)
(* A second call finds the engine destroyed and goes through at once; if    *)
(* the context was closed before, close() rejects and nothing is reset.     *)
StopAudio(engines) ==
  LET m == page.node
      c == engines[m].ctx
  IN IF m = None
     THEN engine' = engines /\ UNCHANGED <<ui, page, dead>>
     ELSE IF engines[m].life # "alive" \/ c = None
     THEN /\ engine' = [engines EXCEPT ![m] = Shut(@, IF @.life = "alive" THEN "gone" ELSE @.life)]
          /\ page' = Vacant /\ ui' = IdleUi(FALSE)
          /\ UNCHANGED dead
     ELSE /\ engine' = [engines EXCEPT ![m] = Shut(@, IF c \in dead THEN "gone" ELSE "closing")]
          /\ ui' = [ui EXCEPT !.stop = FALSE]
          /\ dead' = dead \cup {c}
          /\ UNCHANGED page

(* The stop button, and the end of its await. *)
StopClick ==
  /\ ui.stop
  /\ StopAudio(engine)
  /\ UNCHANGED <<attempt, arms, exports>>

ContextClosed(m) ==
  /\ engine[m].life = "closing"
  /\ engine' = [engine EXCEPT ![m].life = "gone"]
  /\ page' = Vacant /\ ui' = IdleUi(ui.stop)
  /\ UNCHANGED <<attempt, dead, arms, exports>>

-----------------------------------------------------------------------------
(* connectNode, from await to await. *)
ConnectClick(n) ==
  /\ ui.connect
  /\ At(n, "none") /\ \A k \in Attempts : k < n => ~At(k, "none")
  /\ \A k \in Attempts : page.socket = k => attempt[k].socket # "connecting"
  /\ ui' = [ui EXCEPT !.connect = FALSE]
  /\ page' = [page EXCEPT !.ctx = IF @ = None THEN n ELSE @]
  /\ attempt' = [attempt EXCEPT ![n].at = "fetching"]
  /\ UNCHANGED <<engine, dead, arms, exports>>

(* fetchIceServers came back, empty-handed after 4 s at the latest. *)
CreateSocket(n) ==
  /\ At(n, "fetching")
  /\ attempt' = [attempt EXCEPT ![n].at = "socket", ![n].socket = "connecting"]
  /\ page' = [page EXCEPT !.node = n, !.socket = n]
  /\ engine' = [engine EXCEPT ![n].life = "alive", ![n].ctx = page.ctx]
  /\ UNCHANGED <<ui, dead, arms, exports>>

BadUrl(n) ==
  /\ At(n, "fetching")
  /\ attempt' = [attempt EXCEPT ![n].at = "over"]
  /\ ResetConnectUi
  /\ UNCHANGED <<engine, arms, exports>>

SocketOpens(n) ==
  /\ At(n, "socket") /\ attempt[n].socket = "connecting"
  /\ \/ /\ Alive(page.node)
        /\ attempt' = [attempt EXCEPT ![n].at = "racing", ![n].socket = "open"]
        /\ engine' = [engine EXCEPT ![page.node].pc = TRUE]
        /\ UNCHANGED <<ui, page, dead>>
     \/ (* initWebRTC throws *)
        /\ ~Alive(page.node)
        /\ attempt' = [attempt EXCEPT ![n].at = "over", ![n].socket = "open"]
        /\ ResetConnectUi
        /\ UNCHANGED engine
  /\ UNCHANGED <<arms, exports>>

OfferArrives(n) ==
  /\ attempt[n].socket = "open" /\ ~attempt[n].offered
  /\ attempt' = [attempt EXCEPT ![n].offered = TRUE]
  /\ UNCHANGED <<ui, page, engine, dead, arms, exports>>

(* The race of the offer against five seconds: time always wins in the end. *)
RaceOver_OfferOnly(n) == At(n, "racing") /\ attempt[n].offered
RaceOver(n) == At(n, "racing")

StartMedia(n) ==
  /\ RaceOver(n)
  /\ ui' = [ui EXCEPT !.stop = TRUE]
  /\ attempt' = [attempt EXCEPT ![n].at = IF page.node = None THEN "over" ELSE "media"]
  /\ UNCHANGED <<page, engine, dead, arms, exports>>

(* An engine that was given no context makes its own. *)
OwnContext(m) == MaxAttempts + m

(* The microphone is granted, the bridge has said its frame size, or there  *)
(* is no source; connect() throws on a destroyed engine.                    *)
MediaReady(n) ==
  /\ At(n, "media")
  /\ attempt' = [attempt EXCEPT ![n].at = "over"]
  /\ engine' = IF Alive(page.node)
               THEN [engine EXCEPT ![page.node].connecting = TRUE,
                                   ![page.node].ctx = IF @ = None THEN OwnContext(page.node) ELSE @]
               ELSE engine
  /\ UNCHANGED <<ui, page, dead, arms, exports>>

MediaFails(n) ==
  /\ At(n, "media")
  /\ attempt' = [attempt EXCEPT ![n].at = "over"]
  /\ UNCHANGED <<ui, page, engine, dead, arms, exports>>

(* The bridge runs at another frame size than the offer said. *)
BridgeMismatch(n) ==
  /\ At(n, "media") /\ attempt[n].offered
  /\ attempt' = [attempt EXCEPT ![n].at = "over"]
  /\ StopAudio(engine)
  /\ UNCHANGED <<arms, exports>>

(* An error event resets the form unless this attempt ever was connected;   *)
(* a close event alone only forgets the socket.                             *)
SocketEnds(n) ==
  /\ attempt[n].socket \in {"connecting", "open"}
  /\ attempt' = [attempt EXCEPT ![n].socket = "closed",
                                ![n].at = IF @ = "socket" THEN "over" ELSE @]
  /\ LET forget == IF page.socket = n THEN [page EXCEPT !.socket = None] ELSE page
     IN \/ /\ ~attempt[n].webrtcConnected
           /\ ui' = [ui EXCEPT !.connect = TRUE]
           /\ IF page.node = None /\ page.ctx # None
              THEN dead' = dead \cup {page.ctx} /\ page' = [forget EXCEPT !.ctx = None]
              ELSE page' = forget /\ UNCHANGED dead
        \/ /\ attempt[n].socket = "open"
           /\ page' = forget
           /\ UNCHANGED <<ui, dead>>
  /\ UNCHANGED <<engine, arms, exports>>

-----------------------------------------------------------------------------
(* connect() goes on after its await, destroyed or not; it throws when a    *)
(* worklet does not load, or the context is gone by then.                   *)
PipelineBuilt(m) ==
  /\ engine[m].connecting
  /\ \/ engine' = [engine EXCEPT ![m].connecting = FALSE, ![m].started = TRUE, ![m].graph = "loading"]
     \/ engine' = [engine EXCEPT ![m].connecting = FALSE]
  /\ UNCHANGED <<ui, page, attempt, dead, arms, exports>>

(* maybeAutoStart of attempt n: once both its transport and its graph have  *)
(* been reported; startAudio, on the global engine, throws unless that one  *)
(* is alive with its graph ready.                                           *)
MaybeAutoStart(n, a, engines) ==
  LET m    == page.node
      goes == /\ a.webrtcConnected /\ a.graphReady /\ ~a.audioStarted
              /\ m # None
              /\ engines[m].life = "alive" /\ engines[m].graph = "ready"
  IN /\ attempt' = [attempt EXCEPT ![n] = IF goes THEN [a EXCEPT !.audioStarted = TRUE] ELSE a]
     /\ ui' = IF goes THEN [ui EXCEPT !.record = TRUE] ELSE ui

GraphReady(m) ==
  /\ engine[m].graph = "loading"
  /\ engine' = [engine EXCEPT ![m].graph = "ready"]
  /\ MaybeAutoStart(m, [attempt[m] EXCEPT !.graphReady = TRUE], engine')
  /\ UNCHANGED <<page, dead, arms, exports>>

(* The engine reports its transport; see Negotiation. *)
Connected(m) ==
  /\ Alive(m) /\ engine[m].pc /\ attempt[m].offered
  /\ engine[m].transport \in {"new", "disconnected"}
  /\ engine' = [engine EXCEPT ![m].transport = "connected", ![m].connected = TRUE]
  /\ MaybeAutoStart(m, [attempt[m] EXCEPT !.webrtcConnected = TRUE], engine')
  /\ UNCHANGED <<page, dead, arms, exports>>

Disconnected(m) ==
  /\ Alive(m) /\ engine[m].transport = "connected"
  /\ engine' = [engine EXCEPT ![m].transport = "disconnected", ![m].connected = FALSE]
  /\ UNCHANGED <<ui, page, attempt, dead, arms, exports>>

(* "failed" stops the session, which is the one of the global engine. *)
Failed(m) ==
  /\ Alive(m) /\ attempt[m].offered /\ engine[m].pc
  /\ engine[m].transport \in {"new", "disconnected"}
  /\ StopAudio([engine EXCEPT ![m].transport = "failed", ![m].connected = FALSE])
  /\ UNCHANGED <<attempt, arms, exports>>

-----------------------------------------------------------------------------
(* Recording: a second of arming, then startRecording on the global engine. *)
RecordClick ==
  /\ ui.record /\ page.node # None
  /\ arms.clicks < MaxArms
  /\ arms' = [clicks |-> arms.clicks + 1, timers |-> arms.timers + 1]
  /\ ui' = [ui EXCEPT !.record = FALSE]
  /\ UNCHANGED <<page, attempt, engine, dead, exports>>

MayRecord(m) == m # None /\ engine[m].connected /\ engine[m].started /\ engine[m].rec = 0

Armed ==
  /\ arms.timers > 0
  /\ arms' = [arms EXCEPT !.timers = @ - 1]
  /\ IF MayRecord(page.node)
     THEN /\ engine' = [engine EXCEPT ![page.node].rec = arms.clicks, ![page.node].timer = arms.clicks]
          /\ UNCHANGED ui
     ELSE /\ ui' = [ui EXCEPT !.record = TRUE]
          /\ UNCHANGED engine
  /\ UNCHANGED <<page, attempt, dead, exports>>

(* The last of the frames was captured: the safety timer is cleared. *)
LastFrame(m) ==
  /\ engine[m].rec # 0 /\ engine[m].started
  /\ engine' = [engine EXCEPT ![m].rec = 0, ![m].timer = 0]
  /\ exports' = exports + 1
  /\ UNCHANGED <<ui, page, attempt, dead, arms>>

(* No audio came: the safety timer ends the recording. *)
Expired_WithAudioOnly(e) == 0
Expired(e) == IF e.rec # 0 THEN 1 ELSE 0

RecordingTimeout(m) ==
  /\ engine[m].timer # 0
  /\ engine' = [engine EXCEPT ![m].rec = 0, ![m].timer = 0]
  /\ exports' = exports + Expired(engine[m])
  /\ UNCHANGED <<ui, page, attempt, dead, arms>>

RecordingComplete ==
  /\ exports > 0
  /\ exports' = exports - 1
  /\ ui' = [ui EXCEPT !.record = TRUE]
  /\ UNCHANGED <<page, attempt, engine, dead, arms>>

-----------------------------------------------------------------------------
ConnectSteps(n) ==
  \/ CreateSocket(n) \/ BadUrl(n) \/ SocketOpens(n) \/ StartMedia(n)
  \/ (At(n, "socket") /\ SocketEnds(n))

PageNext ==
  \/ StopClick \/ RecordClick \/ Armed \/ RecordingComplete
  \/ \E n \in Attempts :
       \/ ConnectClick(n) \/ CreateSocket(n) \/ BadUrl(n) \/ SocketOpens(n) \/ StartMedia(n)
       \/ OfferArrives(n) \/ MediaReady(n) \/ MediaFails(n) \/ BridgeMismatch(n) \/ SocketEnds(n)
       \/ ContextClosed(n) \/ PipelineBuilt(n) \/ GraphReady(n)
       \/ Connected(n) \/ Disconnected(n) \/ Failed(n)
       \/ LastFrame(n) \/ RecordingTimeout(n)

PageTypeOK ==
  /\ ui   \in [connect : BOOLEAN, stop : BOOLEAN, record : BOOLEAN]
  /\ page \in [node : 0 .. MaxAttempts, socket : 0 .. MaxAttempts, ctx : 0 .. MaxAttempts]
  /\ \A n \in Attempts :
       /\ attempt[n].at \in {"none", "fetching", "socket", "racing", "media", "over"}
       /\ attempt[n].socket \in {"none", "connecting", "open", "closed"}
       /\ engine[n].life \in {"none", "alive", "closing", "gone"}
       /\ {engine[n].rec, engine[n].timer} \subseteq 0 .. MaxArms
  /\ dead \subseteq 1 .. 2 * MaxAttempts

(* The user is never left without a way on: whenever Connect and Stop are   *)
(* both disabled, one of them becomes enabled again, whatever the MCU, the  *)
(* network and an earlier attempt's callbacks do.                           *)
(* (app-mcu.js:87-98, 454-456, 635-664, 763-792)                            *)
UserCanAct == (~ui.connect /\ ~ui.stop) ~> (ui.connect \/ ui.stop)

(* Once armed, recording gives the Record button back, unless the session   *)
(* is stopped: with audio flowing or not, connected or not.                 *)
(* (app-mcu.js:417-448, 537-545; engine.js:516-548)                         *)
RecordReturns == (arms.timers > 0) ~> (ui.record \/ page.node = None)
=============================================================================
