------------------------------ MODULE MCAiJobs ------------------------------
(***************************************************************************)
(* Instances of AiJobs for TLC.                                            *)
(***************************************************************************)
EXTENDS AiJobs, TLC

Symmetry == Permutations(Handlers) \cup Permutations(Jobs)
==============================================================================
