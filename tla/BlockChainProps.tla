-------------------------- MODULE BlockChainProps --------------------------
(***************************************************************************)
(* What BlockChain must keep true, said with the declarative chain rules   *)
(* of ChainRules.                                                          *)
(***************************************************************************)
EXTENDS BlockChain, ChainRules

BranchWork ==
  [b \in Block |-> SumFunction([i \in DOMAIN ChainOf[b] |-> GetBlockWork[ChainOf[b][i]]])]

-----------------------------------------------------------------------------
(* The transaction index on disk is that of the chain that ends in the     *)
(* best block on disk, after every commit of ConnectBlock, DisconnectBlock *)
(* and Reorganize: nothing of a disconnected branch is left in it, nothing *)
(* of the connected one is missing.                                        *)
LedgerMatchesChain == dbTx = IndexOf(ChainOf[dbBest])

(* However blocks were connected and disconnected, the unspent outputs of  *)
(* the index are worth no more than the subsidies of the blocks of the     *)
(* best chain: fees and spends never create money.                         *)
NoInflation == Unspent(dbTx) <= Subsidies(ChainOf[dbBest])

(* When ProcessBlock has returned, the best block in memory is that of the *)
(* database, and pnext and hashNext lead from the genesis block to it and  *)
(* are null on every other block.                                          *)
NextOnBestChain(b) ==
  LET c == ChainOf[pindexBest] IN
  IF \E i \in 1..Len(c) - 1 : c[i] = b
  THEN c[(CHOOSE i \in 1..Len(c) - 1 : c[i] = b) + 1]
  ELSE Null

LinksFollowBest ==
  pc = "idle" =>
    /\ pindexBest = dbBest
    /\ \A b \in mapBlockIndex :
         pnext[b] = NextOnBestChain(b) /\ dbNext[b] = NextOnBestChain(b)

(* An orphan block whose parent is in the index waits for nothing that     *)
(* will come; only descendants of an invalid block are left in this        *)
(* position by ProcessBlock.                                               *)
StuckOrphansAreInvalid ==
  pc = "idle" =>
    \A o \in mapOrphanBlocks :
      hashPrevBlock[o] \in mapBlockIndex => ~ValidChain[hashPrevBlock[o]]

(* No transaction of the pool is in a block of the best chain, after any   *)
(* sequence of blocks, reorganizations and submissions.                    *)
PoolNotMined == pc = "idle" => mapTx \cap DOMAIN dbTx = {}

(* ProcessBlock as a whole learns of one block after another and makes a   *)
(* block the best one exactly when its chain is valid and has more work    *)
(* than the best chain: the node's index and best block implement          *)
(* ChainSelection.  The block at work becomes known when AcceptBlock       *)
(* returns.                                                                *)
Selection ==
  INSTANCE ChainSelection WITH
    known <- IF pc \in {"idle", "orphans", "accepted", "rejected", "accept"}
             THEN mapBlockIndex ELSE mapBlockIndex \ {pblock},
    best <- pindexBest,
    ChainWork <- BranchWork

ImplementsChainSelection == Selection!SelectionSpec

(* Once every block has reached the node, in any order, the best block is  *)
(* that of the valid chain with the most work of all.                      *)
EventuallyHeaviest ==
  <>[](\A b \in Block : ValidChain[b] => BranchWork[b] <= BranchWork[pindexBest])

-----------------------------------------------------------------------------
(* What comments in main.cpp say and BlockChain violates.                  *)

(* SetBestChain, main.cpp:1644, "errors now are not fatal, we still did a  *)
(* reorganisation to a new chain in a valid way": the best block in memory *)
(* is then the valid one the database was reorganized to.                  *)
ReorganisedInAValidWay == pc = "idle" => pindexBest = dbBest

(* DisconnectInputs, main.cpp:1061, "This is only possible if this         *)
(* transaction was completely spent, so erasing it would be a no-op        *)
(* anyway": disconnecting the tip gives the index from before it.          *)
DisconnectRestores ==
  dbBest # Genesis =>
    DisconnectBlock([ok |-> TRUE, idx |-> dbTx], dbBest).idx
      = IndexOf(ChainOf[hashPrevBlock[dbBest]])

=============================================================================
