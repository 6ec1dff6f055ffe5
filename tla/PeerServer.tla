---------------------------- MODULE PeerServer -----------------------------
(* server.js as one program: its rooms and its credential cache.  The two   *)
(* share no state and no property speaks of both, so a behaviour shows one  *)
(* of them at work while the other rests.                                   *)
EXTENDS PeerSignaling, TurnCache

VARIABLE part

vars == <<sigVars, turnVars, part>>

Init ==
  /\ SigInit /\ TurnInit
  /\ part \in {"rooms", "turn"}

Rooms == part = "rooms" /\ SigNext /\ UNCHANGED <<turnVars, part>>
Turn  == part = "turn" /\ TurnNext /\ UNCHANGED <<sigVars, part>>

Next == Rooms \/ Turn

Spec == Init /\ [][Next]_vars
=============================================================================
