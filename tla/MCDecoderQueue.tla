--------------------------- MODULE MCDecoderQueue ---------------------------
(* Instances of DecoderQueue for TLC.  Producers, consumers and workers are *)
(* interchangeable, so the runs of safety properties reduce by symmetry.    *)
EXTENDS DecoderQueue, TLC

Symmetry == Permutations(Producers) \cup Permutations(Consumers) \cup Permutations(Workers)
=============================================================================
