---------------------------- MODULE MCTranscoder ----------------------------
(* Small instances of Transcoder for TLC. *)
EXTENDS TranscoderInv, TLC

Symmetry == Permutations(Xids)
=============================================================================
