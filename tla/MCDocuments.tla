----------------------------- MODULE MCDocuments -----------------------------
(***************************************************************************)
(* Instances of Documents for TLC.                                         *)
(***************************************************************************)
EXTENDS Documents, TLC

CONSTANTS d1, d2, d3

\* d1 has more text than d2; d3 is a smaller file with no text in it.
MCSizeOf == [d \in Docs |-> IF d = d3 THEN 1 ELSE 2]
MCChunksOf == [d \in Docs |-> IF d = d1 THEN 2 ELSE IF d = d2 THEN 1 ELSE 0]

Symmetry == Permutations(Clients) \cup Permutations(Workers)
==============================================================================
