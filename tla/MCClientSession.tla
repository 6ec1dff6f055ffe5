-------------------------- MODULE MCClientSession --------------------------
(* Two candidates each way; two attempts, so that one may outlive the other. *)
EXTENDS ClientSession, TLC

CONSTANTS a1, a2, b1, b2
=============================================================================
