------------------------------ MODULE MCRaftChain ------------------------------
(* Instances of RaftChain for TLC. *)
EXTENDS RaftChain, TLC

Symmetry == Permutations(Node)
=============================================================================
