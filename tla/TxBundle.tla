------------------------------ MODULE TxBundle ------------------------------
(***************************************************************************)
(* The bundled uplink of the browser client (client/engine.js): one        *)
(* AudioEncoder per channel, fed the same frames at the same time, whose   *)
(* outputs come back as independent events and are gathered into frames by *)
(* _accumulateBundle.  The page is single-threaded, so each callback is    *)
(* one step; an encoder keeps its own outputs in order, nothing orders the *)
(* outputs of two encoders.                                                *)
(***************************************************************************)
EXTENDS UplinkFrames

VARIABLES
  captured,   (* frames handed to the encoders                             *)
  emitted,    (* outputs each encoder has produced                         *)
  bundleTs,   (* _txBundleTs, as a frame number; 0 stands for null         *)
  accum,      (* the channels with a payload in _txBundleAccum             *)
  dropped,    (* history: payloads refused by the guards of the callback   *)
  sent,       (* history: payloads that went out, <<channel, frame>>       *)
  late        (* history: payloads of a frame that had been flushed before *)

txVars == <<captured, emitted, bundleTs, accum, dropped, sent, late>>

Payload == Channels \X Frame

TxTypeOK ==
  /\ captured \in 0 .. MaxFrames
  /\ emitted  \in [Channels -> 0 .. MaxFrames]
  /\ bundleTs \in 0 .. MaxFrames
  /\ accum    \subseteq Channels
  /\ dropped  \subseteq Payload
  /\ sent     \subseteq Payload
  /\ late     \subseteq Payload

TxInit ==
  /\ captured = 0
  /\ emitted  = [c \in Channels |-> 0]
  /\ bundleTs = 0
  /\ accum    = {}
  /\ dropped  = {}
  /\ sent     = {}
  /\ late     = {}

(* _encodePlanarFrame hands a captured frame to every encoder. *)
EncodePlanarFrame ==
  /\ captured < MaxFrames
  /\ captured' = captured + 1
  /\ UNCHANGED <<emitted, bundleTs, accum, dropped, sent, late>>

(* The next output event of an encoder is for this frame: a straggler, if   *)
(* some of the frame has gone out already.                                  *)
Output(c, n) ==
  /\ emitted[c] < captured
  /\ n = emitted[c] + 1
  /\ emitted' = [emitted EXCEPT ![c] = n]
  /\ late'    = IF \E d \in Channels : <<d, n>> \in sent THEN late \cup {<<c, n>>} ELSE late

(* _onEncoderOutput with the channel closed or its buffer over the limit. *)
DropOutput(c, n) ==
  /\ Output(c, n)
  /\ dropped' = dropped \cup {<<c, n>>}
  /\ UNCHANGED <<captured, bundleTs, accum, sent>>

(* Deviation: the flush sends every channel, gathered or not. *)
Flushed_All(chans, n) == Channels \X {n}

(* _flushBundle: all channels gathered for a frame leave, per the layout. *)
Flushed(chans, n) == chans \X {n}

(* A payload that completes its frame: gathered, and the frame is flushed. *)
CompleteFrame(c, n) ==
  /\ Output(c, n)
  /\ n = bundleTs
  /\ accum \cup {c} = Channels
  /\ sent'     = sent \cup Flushed(Channels, n)
  /\ bundleTs' = 0
  /\ accum'    = {}
  /\ UNCHANGED <<captured, dropped>>

(* A payload of the frame being gathered. *)
GatherPayload(c, n) ==
  /\ Output(c, n)
  /\ n = bundleTs
  /\ accum \cup {c} # Channels
  /\ accum' = accum \cup {c}
  /\ UNCHANGED <<captured, bundleTs, dropped, sent>>

(* Deviation: the frame that was being gathered is forgotten. *)
SwitchFrame_Forgets(c, n) ==
  /\ Output(c, n)
  /\ n # bundleTs
  /\ bundleTs' = n
  /\ accum'    = {c}
  /\ UNCHANGED <<captured, dropped, sent>>

(* A payload of another frame, newer or older: flush what is there (nothing *)
(* after a complete frame) and start gathering its frame.                   *)
SwitchFrame(c, n) ==
  /\ Output(c, n)
  /\ n # bundleTs
  /\ sent'     = sent \cup Flushed(accum, bundleTs)
  /\ bundleTs' = n
  /\ accum'    = {c}
  /\ UNCHANGED <<captured, dropped>>

TxNext ==
  \/ EncodePlanarFrame
  \/ \E c \in Channels, n \in Frame :
       DropOutput(c, n) \/ CompleteFrame(c, n) \/ GatherPayload(c, n) \/ SwitchFrame(c, n)

TxSpec == TxInit /\ [][TxNext]_txVars

-----------------------------------------------------------------------------
(* Properties *)

Pending == accum \X {bundleTs}

(* Whatever the order of the encoder events, every payload an encoder       *)
(* produced in time, before any of its frame had been flushed, is gathered  *)
(* in the frame it belongs to: it went out, is about to, or was refused by  *)
(* the guards.  No payload, in time or not, is more than one of the three,  *)
(* and none that was not produced is any.                                   *)
Emitted   == {p \in Payload : p[2] <= emitted[p[1]]}
Accounted == sent \cup Pending \cup dropped

PayloadsAccountedFor ==
  /\ Emitted \ late \subseteq Accounted
  /\ Accounted \subseteq Emitted
  /\ sent \cap Pending = {}
  /\ (sent \cup Pending) \cap dropped = {}

(* "Stragglers of an already-flushed frame are dropped", says the comment   *)
(* above _accumulateBundle: no payload goes out that came after its frame.  *)
StragglersDropped == late \cap sent = {}
=============================================================================
