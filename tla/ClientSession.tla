--------------------------- MODULE ClientSession ---------------------------
(***************************************************************************)
(* The client program: its page, over any number of connect attempts, and  *)
(* the negotiation of one engine with the MCU.  ClientPage sees of an      *)
(* engine only what it reports; a step here is a step of one of the two,   *)
(* and a behaviour shows one of them at work while the other rests, since  *)
(* no property speaks of both.                                             *)
(***************************************************************************)
EXTENDS Negotiation, ClientPage

VARIABLE part

vars == <<negVars, pageVars, part>>

Init ==
  /\ NegInit /\ PageInit
  /\ part \in {"negotiation", "page"}

InNegotiation == part = "negotiation" /\ UNCHANGED <<pageVars, part>>
InPage        == part = "page" /\ UNCHANGED <<negVars, part>>

Next ==
  \/ InNegotiation /\ NegNext
  \/ InPage /\ PageNext

Spec == Init /\ [][Next]_vars

(* Fairness to the part that is at work.  The goroutine that reads the      *)
(* signaling socket and the page's event loop go on; timers fire, a socket  *)
(* opens or fails, a context closes, a deferred call runs.  Nothing is      *)
(* assumed of the user, the microphone, the bridge, the gathering of        *)
(* candidates, the transport or the network.                                *)
FairSpec ==
  /\ Spec
  /\ WF_vars(InNegotiation /\ ServerSteps)
  /\ WF_vars(InNegotiation /\ ClientSteps)
  /\ WF_vars(InPage /\ Armed)
  /\ WF_vars(InPage /\ RecordingComplete)
  /\ \A n \in Attempts :
       /\ WF_vars(InPage /\ ConnectSteps(n))
       /\ WF_vars(InPage /\ ContextClosed(n))
       /\ WF_vars(InPage /\ RecordingTimeout(n))
=============================================================================
