------------------------------ MODULE MCOverlap ------------------------------
(***************************************************************************)
(* Overlap, and with it ForgeVod, for TLC.  Videos and workers are         *)
(* interchangeable.                                                        *)
(***************************************************************************)
EXTENDS Overlap, TLC

Symmetry == Permutations(Video) \cup Permutations(Worker)
==============================================================================
