--------------------------- MODULE MCJitterBuffer ---------------------------
(* One client: a ring of three frames of two samples, any packet order. *)
EXTENDS JitterBuffer

CONSTANTS MaxTs      \* the newest timestamp of the run

SentTimes == 0 .. MaxTs
=============================================================================
