------------------------------- MODULE Uplink -------------------------------
(***************************************************************************)
(* One uplink from end to end: the browser's encoders and the gathering of *)
(* their outputs (TxBundle), the bundles of each flush on the network, and *)
(* the server's side of it (UplinkDecode).                                 *)
(***************************************************************************)
EXTENDS TxBundle, UplinkDecode

vars == <<txVars, rxVars>>

TypeOK == TxTypeOK /\ RxTypeOK

Init == TxInit /\ RxInit

(* The bundles that carry some payloads: one per group of the layout, of    *)
(* the channels that have one; a group with none is skipped.                *)
Bundles(payloads) ==
  {p \in Packet : /\ p.chans = {c \in Layout[p.group] : <<c, p.frame>> \in payloads}
                  /\ p.chans # {}}

(* A step of the client; what it flushes is sent. *)
Client ==
  /\ TxNext
  /\ Arrive(Bundles(sent' \ sent))

Server == Receive /\ UNCHANGED txVars

Next == Client \/ Server

Spec == Init /\ [][Next]_vars

-----------------------------------------------------------------------------
(* Everything on its way to a decoder, or fed to one, is a payload that     *)
(* encoder produced for that very frame and the client did not refuse:      *)
(* gathering, bundling, splitting and queueing file nothing under another   *)
(* channel or frame.                                                        *)
OnTheWay ==
  (UNION {p.chans \X {p.frame} : p \in net})
    \cup hand.chans \X {hand.frame}
    \cup {<<inbound[n].c, inbound[n].frame>> : n \in DOMAIN inbound}
Fed == UNION {{<<c, fed[c][n]>> : n \in DOMAIN fed[c]} : c \in Channels}

NothingMisfiled ==
  \A p \in OnTheWay \cup Fed : p[2] <= emitted[p[1]] /\ p \notin dropped
=============================================================================
