--------------------------- MODULE MCInferredTimes ----------------------------
(* InferredTimes with a clock that may be set back before t0, and whose     *)
(* readings before and after t0 are of different turns of the 32 bits.      *)
EXTENDS InferredTimes

MCClocks == {-1, 1, 2}
=============================================================================
