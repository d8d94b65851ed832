------------------------ MODULE MCShardCoordination ------------------------
(* Symmetry of the gateway nodes, for the safety run. *)
EXTENDS ShardCoordination, TLC

Symmetry == Permutations(Nodes)
=============================================================================
