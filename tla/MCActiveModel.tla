--------------------------- MODULE MCActiveModel ---------------------------
(***************************************************************************)
(* Instances of ActiveModel for TLC.                                       *)
(***************************************************************************)
EXTENDS ActiveModel, TLC

Symmetry == Permutations(Handlers) \cup Permutations(Processes)
==============================================================================
