---------------------------- MODULE MCGossipState ----------------------------
(* Two peers to ask: both with all blocks, or one that was started from a snapshot. *)
EXTENDS GossipState

CONSTANTS p1, p2

MCHeights == [p \in Peer |-> IF p = p1 THEN {4, 5} ELSE {5}]
SameHeights == [p \in Peer |-> {MaxBlock + 1}]
AllBlocks == [p \in Peer |-> 0]
OneFromSnapshot == [p \in Peer |-> IF p = p1 THEN 2 ELSE 0]
=============================================================================
