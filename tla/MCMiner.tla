------------------------------ MODULE MCMiner ------------------------------
(* Miner on the block tree of MCTree.                                      *)
EXTENDS Miner, MCTree

=============================================================================
