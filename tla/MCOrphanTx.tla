----------------------------- MODULE MCOrphanTx -----------------------------
(* OrphanTx on the block tree of MCTree, with its transactions and those   *)
(* that peers send.                                                        *)
EXTENDS OrphanTx, BlockChainProps, MCTree

MCLooseTx == {"p", "q", "r", "w", "x", "v", "u"}

MCTxs == MCLooseTx \cup UNION {{MCVtx[b][i] : i \in DOMAIN MCVtx[b]} : b \in MCOrphanTx}

=============================================================================
