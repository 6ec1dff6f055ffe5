----------------------------- MODULE MCMixTick -----------------------------
(* Participants come and go; samples are silent, quiet or loud. *)
EXTENDS MixTick, TLC

CONSTANTS p1, p2, p3

SampleValues == {-3, 0, 1}
Symmetric    == Permutations(Participants)
=============================================================================
