---------------------------- MODULE MCBlockChain ----------------------------
(* BlockChain and its properties on the block tree of MCTree.              *)
EXTENDS BlockChainProps, MCTree

=============================================================================
