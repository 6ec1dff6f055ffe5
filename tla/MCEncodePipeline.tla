-------------------------- MODULE MCEncodePipeline --------------------------
(* Two workers, two channels; channel 0 plays the base order, sent twice. *)
EXTENDS EncodePipeline

CONSTANTS f1, f2

TwoBundles == <<{0}, {0, 1}>>
=============================================================================
