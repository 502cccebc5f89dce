------------------------------ MODULE SamplerMC ------------------------------
(***************************************************************************)
(* Small instances of Sampler for TLC.                                     *)
(***************************************************************************)
EXTENDS Sampler

MCLogits == {-4, 0, 4}

\* A step of 4 in the scores, and all that penalties make of it, is told apart.
MCExp(d) == IF d < -20 THEN 0 ELSE 2^(20 + d)

ASSUME MCExpAssumption == ExpGrowsOn(-40..0)
=============================================================================
