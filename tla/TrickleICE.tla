---------------------------- MODULE TrickleICE -----------------------------
(***************************************************************************)
(* What each end of a call promises about the ICE candidates that trickle  *)
(* in over the signaling connection, at any moment before or after the     *)
(* remote description: none is applied before the description, and none is *)
(* forgotten while the end lives.                                          *)
(***************************************************************************)
CONSTANTS Ends, Candidates

VARIABLES
  described,   (* ends that have a remote description                      *)
  heard,       (* the candidates delivered to an end                       *)
  applied,     (* the candidates handed to its ICE agent                   *)
  closed       (* ends that have been shut down                            *)

vars == <<described, heard, applied, closed>>

Init ==
  /\ described = {}
  /\ heard     = [e \in Ends |-> {}]
  /\ applied   = [e \in Ends |-> {}]
  /\ closed    = {}

(* With the description an end may apply some of what it has kept. *)
Describe(e) ==
  /\ e \notin described \cup closed
  /\ described' = described \cup {e}
  /\ \E some \in SUBSET heard[e] : applied' = [applied EXCEPT ![e] = some]
  /\ UNCHANGED <<heard, closed>>

(* A candidate arrives; it is kept, or applied at once if that is allowed. *)
Hear(e, c) ==
  /\ e \notin closed /\ c \notin heard[e]
  /\ heard' = [heard EXCEPT ![e] = @ \cup {c}]
  /\ \/ UNCHANGED applied
     \/ e \in described /\ applied' = [applied EXCEPT ![e] = @ \cup {c}]
  /\ UNCHANGED <<described, closed>>

Apply(e, c) ==
  /\ e \in described \ closed
  /\ c \in heard[e] \ applied[e]
  /\ applied' = [applied EXCEPT ![e] = @ \cup {c}]
  /\ UNCHANGED <<described, heard, closed>>

Close(e) ==
  /\ e \notin closed
  /\ closed' = closed \cup {e}
  /\ UNCHANGED <<described, heard, applied>>

Next ==
  \E e \in Ends :
    \/ Describe(e) \/ Close(e)
    \/ \E c \in Candidates : Hear(e, c) \/ Apply(e, c)

Safety == Init /\ [][Next]_vars

Spec ==
  /\ Safety
  /\ \A e \in Ends, c \in Candidates : WF_vars(Apply(e, c))
=============================================================================
