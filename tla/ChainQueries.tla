---------------------------- MODULE ChainQueries ----------------------------
(***************************************************************************)
(* What a node answers about its chain while reorganizations change it:    *)
(* FindBlockByHeight with its cache, the locators of other nodes, and the  *)
(* depth of a wallet transaction with its merkle branch.  Blocks are valid *)
(* or not, and heavier or not, as in ChainSelection; but a heavier block   *)
(* is made the best one in the steps of SetBestChain, because ConnectBlock *)
(* tells the wallets of a block before its transaction is committed: any   *)
(* of the steps may fail, and the node may stop between two of them.       *)
(*                                                                         *)
(* The handler holds cs_main, so queries come when it is done.  The links  *)
(* pnext are then those of the best chain, as LinksFollowBest shows of     *)
(* BlockChain.  After a postponed block has failed they are not, and all   *)
(* but a restart is left to BlockChain.                                    *)
(***************************************************************************)
EXTENDS ChainSelection, BlockLocator, MerkleTree

CONSTANTS
  WalletTx,        \* a transaction of the wallet
  HeaderLimit,     \* the most headers in an answer; 2000 in the code
  MaxInterrupted   \* bound on the activations that an error or a crash ends

ASSUME QueriesAssumption == WalletTx \in Tx /\ HeaderLimit \in Nat \ {0}

VARIABLES
  dbBest,                            \* hashBestChain on disk
  pindexNew,                         \* the block SetBestChain works for
  pindex,                            \* the last block connected for it
  interrupted,                       \* blocks for which an error or a crash ended it
  pblockindexFBBHLast,               \* the cache of FindBlockByHeight
  hashBlock, nIndex, vMerkleBranch,  \* the CMerkleTx of WalletTx
  fMerkleVerified

merkleVars == <<hashBlock, nIndex, vMerkleBranch, fMerkleVerified>>
activationVars == <<dbBest, pindexNew, pindex, interrupted>>
queryVars == <<selectionVars, activationVars, pblockindexFBBHLast, merkleVars>>

QueriesTypeOK ==
  /\ known \subseteq Block
  /\ best \in known /\ dbBest \in known
  /\ IF pindexNew = Null THEN pindex = Null
     ELSE pindexNew \in known /\ pindex \in ToSet(ChainOf[pindexNew])
  /\ interrupted \subseteq known
  /\ pblockindexFBBHLast \in known \cup {Null}
  /\ hashBlock \in known \cup {Null}
  /\ nIndex \in IF hashBlock = Null THEN {-1} ELSE 0..Len(vtx[hashBlock]) - 1
  /\ Len(vMerkleBranch) = IF hashBlock = Null THEN 0 ELSE Depth(Len(vtx[hashBlock]))
  /\ fMerkleVerified \in BOOLEAN

QueriesInit ==
  /\ SelectionInit
  /\ dbBest = Genesis
  /\ pindexNew = Null
  /\ pindex = Null
  /\ interrupted = {}
  /\ pblockindexFBBHLast = Null
  /\ hashBlock = Null
  /\ nIndex = -1
  /\ vMerkleBranch = <<>>
  /\ fMerkleVerified = FALSE

AtRest == pindexNew = Null /\ dbBest = best

-----------------------------------------------------------------------------
(* The block index.                                                        *)

MainChain == ChainOf[best]

IsInMainChain(b) == \E i \in DOMAIN MainChain : MainChain[i] = b

Distance(g, h) == IF g < h THEN h - g ELSE g - h

\* The nearest of the genesis block or the best one, and the last block found.
StartOfSearch(h) ==
  LET near == IF h < nHeight(best) \div 2 THEN Genesis ELSE best IN
  IF /\ pblockindexFBBHLast # Null
     /\ Distance(h, nHeight(near)) > Distance(h, nHeight(pblockindexFBBHLast))
  THEN pblockindexFBBHLast ELSE near

\* Following pprev.
WayDown(b, h) == IF nHeight(b) > h THEN ChainOf[b][h + 1] ELSE b

\* Following pnext, which is a null pointer on a block off the main chain.
WayUp(b, h) ==
  IF nHeight(b) >= h THEN b ELSE IF IsInMainChain(b) THEN MainChain[h + 1] ELSE Null

Search(h) == WayUp(WayDown(StartOfSearch(h), h), h)

MutantSkipsOne(have, hashStop) ==
  LET n == nHeight(GetBlockIndex(have, MainChain)) + 3
  IN SubSeq(MainChain, n, Min({n + HeaderLimit - 1, Len(MainChain)}))

\* The headers sent for a locator: from the block after the last common one along
\* pnext, up to the limit or to hashStop; for an empty locator just hashStop.
GetHeaders(have, hashStop) ==
  LET last == FirstInMain(have, MainChain)
      from == IF have = <<>> THEN <<hashStop>>
              ELSE SubSeq(MainChain, nHeight(have[last]) + 2, Len(MainChain))
      ends == {i \in DOMAIN from : i = HeaderLimit \/ from[i] = hashStop}
  IN IF ends = {} THEN from ELSE SubSeq(from, 1, Min(ends))

-----------------------------------------------------------------------------
(* The wallet transaction.                                                 *)

MutantCountsFromOne(b) ==
  LET i == CHOOSE j \in DOMAIN vtx[b] : vtx[b][j] = WalletTx IN
  /\ hashBlock' = b
  /\ nIndex' = i
  /\ vMerkleBranch' = GetMerkleBranch(vtx[b], i - 1)
  /\ UNCHANGED fMerkleVerified

\* SetMerkleBranch, of the entry of WalletTx in the wallet, as ConnectBlock has it called:
\* with the block at hand, which holds the transaction.
SetMerkleBranch(b) ==
  LET i == CHOOSE j \in DOMAIN vtx[b] : vtx[b][j] = WalletTx IN
  /\ hashBlock' = b
  /\ nIndex' = i - 1
  /\ vMerkleBranch' = GetMerkleBranch(vtx[b], i - 1)
  /\ UNCHANGED fMerkleVerified

\* Whether GetDepthInMainChain gets as far as the merkle branch.
InMainChain(b) == b \in known /\ IsInMainChain(b)

BranchLeadsToRoot ==
  CheckMerkleBranch(<<WalletTx>>, vMerkleBranch, nIndex) = hashMerkleRoot(vtx[hashBlock])

GetDepthInMainChain ==
  IF /\ hashBlock # Null
     /\ nIndex # -1
     /\ InMainChain(hashBlock)
     /\ fMerkleVerified \/ BranchLeadsToRoot
  THEN nHeight(best) - nHeight(hashBlock) + 1
  ELSE 0

Holds(b) == WalletTx \in ToSet(vtx[b])

MutantSyncTip(b) ==
  IF b = pindexNew /\ Holds(b) THEN SetMerkleBranch(b) ELSE UNCHANGED merkleVars

SyncWithWallets(b) ==
  IF Holds(b) THEN SetMerkleBranch(b) ELSE UNCHANGED merkleVars

-----------------------------------------------------------------------------
(* The activation of a block.                                              *)

MutantLonger(b) == nHeight(b) > nHeight(best)

IsHeavier(b) == ChainWork[b] > ChainWork[best]

\* The block that Reorganize finds both branches on.
ForkBlock(b) == ChainOf[b][CommonLen(MainChain, ChainOf[b])]

AddToBlockIndex(b) ==
  /\ AtRest
  /\ b \notin known
  /\ hashPrevBlock[b] \in known
  /\ known' = known \cup {b}
  /\ IF IsHeavier(b) THEN pindexNew' = b /\ pindex' = ForkBlock(b)
     ELSE UNCHANGED <<pindexNew, pindex>>
  /\ UNCHANGED <<best, dbBest, interrupted, pblockindexFBBHLast, merkleVars>>

\* A transaction ends at the first block of the branch with more work than the best
\* one, and at each block after it.
CommitIsNext == pindexNew # Null /\ ChainWork[pindex] > ChainWork[dbBest]

ConnectIsNext == pindexNew \notin {Null, pindex} /\ ~CommitIsNext

NextBlock == ChainOf[pindexNew][nHeight(pindex) + 2]

\* The database changes are not committed, yet the wallet is changed for good.
ConnectNextBlock ==
  /\ ConnectIsNext
  /\ ValidChain[NextBlock]
  /\ pindex' = NextBlock
  /\ SyncWithWallets(NextBlock)
  /\ UNCHANGED <<selectionVars, dbBest, pindexNew, interrupted, pblockindexFBBHLast>>

TxnCommit ==
  /\ CommitIsNext
  /\ dbBest' = pindex
  /\ UNCHANGED <<selectionVars, pindexNew, pindex, interrupted, pblockindexFBBHLast, merkleVars>>

MutantCacheStays == UNCHANGED pblockindexFBBHLast

CacheForgotten == pblockindexFBBHLast' = Null

\* The end of SetBestChain.
NewBestBlock ==
  /\ best' = pindexNew
  /\ CacheForgotten

BlockActivated ==
  /\ pindexNew # Null
  /\ dbBest = pindexNew
  /\ NewBestBlock
  /\ pindexNew' = Null
  /\ pindex' = Null
  /\ UNCHANGED <<known, dbBest, interrupted, merkleVars>>

\* Before the first commit the best block stays.  After it "errors now are not fatal":
\* the loop ends, and pindexNew becomes the best block although it is not connected.
GiveUp ==
  /\ IF dbBest = best THEN UNCHANGED <<best, pblockindexFBBHLast>> ELSE NewBestBlock
  /\ pindexNew' = Null
  /\ pindex' = Null
  /\ UNCHANGED <<known, dbBest, merkleVars>>

InvalidBlock ==
  /\ ConnectIsNext
  /\ ~ValidChain[NextBlock]
  /\ GiveUp
  /\ UNCHANGED interrupted

\* A begin, a read, a write or a commit fails, before or after the wallets were told.
DatabaseError ==
  /\ pindexNew \notin {Null, dbBest}
  /\ Cardinality(interrupted) < MaxInterrupted
  /\ interrupted' = interrupted \cup {pindexNew}
  /\ GiveUp

-----------------------------------------------------------------------------
(* Queries.                                                                *)

FindBlockByHeight(h) ==
  /\ AtRest
  /\ h <= nHeight(best)
  /\ pblockindexFBBHLast' = Search(h)
  /\ UNCHANGED <<selectionVars, activationVars, merkleVars>>

\* GetDepthInMainChain remembers that the branch was right.
VerifyMerkleBranch ==
  /\ AtRest
  /\ GetDepthInMainChain > 0
  /\ fMerkleVerified' = TRUE
  /\ UNCHANGED <<selectionVars, activationVars, pblockindexFBBHLast,
                 hashBlock, nIndex, vMerkleBranch>>

\* The chain and the wallet are read back from disk, the caches are not on it.
Restart ==
  /\ best' = dbBest
  /\ pindexNew' = Null
  /\ pindex' = Null
  /\ interrupted' = interrupted \cup ({pindexNew} \ {Null, dbBest})
  /\ Cardinality(interrupted') <= MaxInterrupted
  /\ pblockindexFBBHLast' = Null
  /\ fMerkleVerified' = FALSE
  /\ UNCHANGED <<known, dbBest, hashBlock, nIndex, vMerkleBranch>>

Heights == {nHeight(b) : b \in Block}

QueriesNext ==
  \/ \E b \in Block \ {Genesis} : AddToBlockIndex(b)
  \/ ConnectNextBlock
  \/ TxnCommit
  \/ BlockActivated
  \/ InvalidBlock
  \/ DatabaseError
  \/ \E h \in Heights : FindBlockByHeight(h)
  \/ VerifyMerkleBranch
  \/ Restart

QueriesSpec == QueriesInit /\ [][QueriesNext]_queryVars

-----------------------------------------------------------------------------
(* Whatever block the last search ended on, and whatever was learned       *)
(* since, the next search finds the block of the best chain at its height: *)
(* it never starts on a block that a reorganization took off the best      *)
(* chain, from which pnext leads nowhere.                                  *)
SearchByHeightIsRight ==
  AtRest => \A h \in 0..nHeight(best) : Search(h) = MainChain[h + 1]

(* The comment on CBlockLocator (main.h:1259): another node "can find a    *)
(* recent common trunk.  The further back it is, the further before the    *)
(* fork it may be".  The block found for the locator of any branch is on   *)
(* both branches, and less far before the fork than the fork is behind     *)
(* the dense entries.                                                      *)
LocatorFindsTrunk ==
  AtRest => \A b \in known :
    LET branch == ChainOf[b]
        trunk == GetBlockIndex(vHave(branch), MainChain)
        fork == CommonLen(branch, MainChain) - 1
        behind == nHeight(b) - fork
    IN /\ branch[nHeight(trunk) + 1] = trunk
       /\ nHeight(trunk) <= fork
       /\ fork - nHeight(trunk) <= Max({0, behind - LocatorDense - 1})

(* GetDistanceBack counts, from the number of entries it skips, how far    *)
(* back the block was in the sender's branch.  It agrees with the entries  *)
(* Set chose, but for the genesis block added at the end, where it says    *)
(* too much.                                                               *)
DistanceBackIsTrue ==
  AtRest => \A b \in known :
    LET have == vHave(ChainOf[b])
        trunk == GetBlockIndex(have, MainChain)
        d == GetDistanceBack(have, MainChain)
    IN IF FirstInMain(have, MainChain) = Len(have)
       THEN d > nHeight(b)
       ELSE d = nHeight(b) - nHeight(trunk)

(* The headers answered to a node on any branch continue what it has: the  *)
(* first one follows a block of its branch, each follows the one before,   *)
(* and they end at the limit, at the block it named or at the best block.  *)
HeadersLinkUp ==
  AtRest => \A b \in known, stop \in known \cup {Null} :
    LET have == vHave(ChainOf[b])
        headers == GetHeaders(have, stop)
    IN IF headers = <<>> THEN GetBlockIndex(have, MainChain) = best
       ELSE /\ hashPrevBlock[headers[1]] \in ToSet(ChainOf[b])
            /\ \A i \in 2..Len(headers) : hashPrevBlock[headers[i]] = headers[i - 1]
            /\ headers[Len(headers)] \in {stop, best} \/ Len(headers) = HeaderLimit
            /\ Len(headers) <= HeaderLimit

(* A wallet transaction is never said to be confirmed unless it is in the  *)
(* block at that depth of the best chain, and its branch is never found    *)
(* wrong when it is: the remembered verification is not stale, whatever    *)
(* blocks the transaction moved between.                                   *)
WalletDepthIsTrue ==
  AtRest =>
  IF hashBlock # Null /\ IsInMainChain(hashBlock)
  THEN /\ WalletTx \in ToSet(vtx[hashBlock])
       /\ GetDepthInMainChain > 0
       /\ MainChain[Len(MainChain) + 1 - GetDepthInMainChain] = hashBlock
  ELSE GetDepthInMainChain = 0

(* AddToBlockIndex tries a block only once.  Whatever fails and whenever   *)
(* the node stops, a valid block that the node knows and that has more     *)
(* work than the best one is one whose own activation an error or a crash  *)
(* ended; without those the best block is the heaviest.                    *)
HeavierOnlyInterrupted ==
  AtRest => \A b \in known :
    ValidChain[b] /\ ChainWork[b] > ChainWork[best] => b \in interrupted

(* ConnectBlock tells the wallets of a block before the transaction it is  *)
(* part of is committed.  A transaction that is in the best chain looks    *)
(* confirmed for the wallet, unless the block that the wallet was last     *)
(* told of is on the branch of one that never became the best: an invalid  *)
(* one, or one whose activation an error or a crash ended.                 *)
ConfirmedTxLooksConfirmed ==
  AtRest /\ (\E b \in ToSet(MainChain) \ {Genesis} : Holds(b)) =>
    \/ GetDepthInMainChain > 0
    \/ \E b \in known : /\ ~ValidChain[b] \/ b \in interrupted
                        /\ hashBlock \in ToSet(ChainOf[b])

=============================================================================
