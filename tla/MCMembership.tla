---------------------------- MODULE MCMembership ----------------------------
(***************************************************************************)
(* Instances of Membership for TLC: the founder and two others.            *)
(***************************************************************************)
EXTENDS Membership, TLC

Symmetry == Permutations(Users \ {Founder}) \cup Permutations(Handlers)
=============================================================================
