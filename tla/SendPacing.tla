----------------------------- MODULE SendPacing -----------------------------
(***************************************************************************)
(* The send stage of a session against the DataChannel it paces: sendLoop  *)
(* (pipeline.go) raises the congested flag when the SCTP buffer is above   *)
(* the high watermark, the OnBufferedAmountLow callback (session.go)       *)
(* clears it.  The flag is a lone atomic: nothing orders reading the       *)
(* buffered amount and storing the flag with respect to the callback.      *)
(*                                                                         *)
(* The DataChannel is external: a send adds to the buffered amount, the    *)
(* network drains it, and the read that takes it from above the low        *)
(* watermark to it or below calls the callback before it goes on.          *)
(***************************************************************************)
EXTENDS Naturals

CONSTANTS
  High,        (* sendHighWater                                            *)
  Low,         (* sendLowWater                                             *)
  MaxPacket    (* bound on the size of one packet                          *)

ASSUME WatermarkAssumption ==
  /\ High \in Nat /\ Low \in Nat /\ Low < High
  /\ MaxPacket \in Nat \ {0}

VARIABLES
  buffered,    (* dc.BufferedAmount()                                      *)
  congested,   (* Session.congested                                        *)
  pc,          (* sendLoop: idle, send (flag seen down), check (packet     *)
               (* handed over), mark (amount seen above High)              *)
  lowEvent     (* the callback has been called and has not stored yet      *)

pacingVars == <<buffered, congested, pc, lowEvent>>

PacingTypeOK ==
  /\ buffered  \in Nat
  /\ congested \in BOOLEAN
  /\ pc \in {"idle", "send", "check", "mark"}
  /\ lowEvent  \in BOOLEAN

PacingInit ==
  /\ buffered  = 0
  /\ congested = FALSE
  /\ pc        = "idle"
  /\ lowEvent  = FALSE

(* Deviation: the flag is not consulted. *)
TakePacket_Unpaced ==
  /\ pc = "idle"
  /\ pc' = "send"
  /\ UNCHANGED <<buffered, congested, lowEvent>>

(* A packet from sendCh; while congested it is dropped, a stuttering step. *)
TakePacket ==
  /\ pc = "idle"
  /\ ~congested
  /\ pc' = "send"
  /\ UNCHANGED <<buffered, congested, lowEvent>>

HandOver(n) ==
  /\ pc = "send"
  /\ buffered' = buffered + n
  /\ pc' = "check"
  /\ UNCHANGED <<congested, lowEvent>>

(* dc.Send returns an error: on to the next packet. *)
SendFails ==
  /\ pc = "send"
  /\ pc' = "idle"
  /\ UNCHANGED <<buffered, congested, lowEvent>>

ReadAmount ==
  /\ pc = "check"
  /\ pc' = IF buffered > High THEN "mark" ELSE "idle"
  /\ UNCHANGED <<buffered, congested, lowEvent>>

MarkCongested ==
  /\ pc = "mark"
  /\ congested' = TRUE
  /\ pc' = "idle"
  /\ UNCHANGED <<buffered, lowEvent>>

(* The network takes n bytes. *)
Drain(n) ==
  /\ ~lowEvent
  /\ n <= buffered
  /\ buffered' = buffered - n
  /\ lowEvent' = (buffered > Low /\ buffered - n <= Low)
  /\ UNCHANGED <<congested, pc>>

OnBufferedAmountLow ==
  /\ lowEvent
  /\ congested' = FALSE
  /\ lowEvent'  = FALSE
  /\ UNCHANGED <<buffered, pc>>

SendLoop == \/ TakePacket \/ SendFails \/ ReadAmount \/ MarkCongested
            \/ \E n \in 1 .. MaxPacket : HandOver(n)
Network  == \E n \in 1 .. buffered : Drain(n)

PacingNext == SendLoop \/ Network \/ OnBufferedAmountLow

PacingSpec == PacingInit /\ [][PacingNext]_pacingVars

(* The goroutine runs, the network drains, the callback is called. *)
FairPacing == /\ PacingSpec
              /\ WF_pacingVars(SendLoop) /\ WF_pacingVars(Network) /\ WF_pacingVars(OnBufferedAmountLow)

-----------------------------------------------------------------------------
(* Pacing bounds the latency queued in SCTP: whatever the order of flag and *)
(* callback, the buffer never holds more than two packets above the high    *)
(* watermark: the one that crossed it, and one let through by a callback    *)
(* that was under way when the flag went up.                                *)
BufferBounded == buffered <= High + 2 * MaxPacket

(* What the comment on sendLoop says: a congested session resumes once      *)
(* OnBufferedAmountLow clears the flag.  The network never stops draining.  *)
Resumes == congested ~> ~congested
=============================================================================
