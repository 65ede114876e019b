----------------------------- MODULE BlockChain -----------------------------
(***************************************************************************)
(* The block chain of one node: ProcessBlock, AcceptBlock, AddToBlockIndex,*)
(* SetBestChain, Reorganize and SetBestChainInner of main.cpp with the     *)
(* block index, the orphan blocks, the memory pool and the database they   *)
(* change.                                                                 *)
(*                                                                         *)
(* ProcessBlock runs under cs_main, so no second handler starts while pc   *)
(* is not "idle".  It is cut into steps where a crash leaves a different   *)
(* database: at each commit of a database transaction, and at each block   *)
(* or transaction a loop handles.                                          *)
(***************************************************************************)
EXTENDS TxMemPool

CONSTANTS
  LooseTx,       \* the transactions peers and wallets offer to the pool
  Checkpoint,    \* the blocks that are checkpoints
  BelowMinWork,  \* blocks older than, or with too little work after, a checkpoint
  FaultKind,     \* the error paths taken: "file", "index", "begin", "read", "write", "commit"
  MaxFaults,     \* bound on the errors of the disk or the database
  MaxCrashes     \* bound on the crashes

ASSUME BoundAssumption == MaxFaults \in Nat /\ MaxCrashes \in Nat /\ LooseTx \subseteq Tx

VARIABLES
  mapBlockIndex,          \* blocks in the index
  bnChainWork,            \* CBlockIndex.bnChainWork, of the blocks in the index
  pnext,                  \* CBlockIndex.pnext
  pindexBest,             \* with it go hashBestChain, nBestHeight, bnBestChainWork
  bnBestInvalidWork,
  mapOrphanBlocks,
  mapOrphanBlocksByPrev,  \* pairs <<parent, orphan>>
  dbIndex,                \* on disk: blocks with a CDiskBlockIndex
  dbNext,                 \* on disk: CDiskBlockIndex.hashNext
  dbBest,                 \* on disk: hashBestChain
  dbTx,                   \* on disk: the transaction index
  pc,                     \* where the handler is
  pblock,                 \* the block AcceptBlock works on
  vWorkQueue,             \* ProcessBlock's accepted blocks whose orphans come next
  pindexIntermediate,     \* SetBestChain: the block to reorganize to
  vpindexSecondary,       \* SetBestChain: the blocks to connect after it, lowest first
  vResurrect, vDelete,    \* transactions still to go into, or out of, the pool
  nFaults, nCrashes

memVars == <<mapBlockIndex, bnChainWork, pnext, pindexBest>>
orphanVars == <<mapOrphanBlocks, mapOrphanBlocksByPrev>>
dbVars == <<dbIndex, dbNext, dbBest, dbTx>>
branchVars == <<pindexIntermediate, vpindexSecondary>>
queueVars == <<vResurrect, vDelete>>
countVars == <<nFaults, nCrashes>>
vars == <<mapTx, mapNextTx, mapBlockIndex, bnChainWork, pnext, pindexBest,
          bnBestInvalidWork, mapOrphanBlocks, mapOrphanBlocksByPrev,
          dbIndex, dbNext, dbBest, dbTx, pc, pblock, vWorkQueue,
          pindexIntermediate, vpindexSecondary, vResurrect, vDelete,
          nFaults, nCrashes>>

PC == {"idle", "accept", "activate", "reorganize", "mempool",
       "accepted", "rejected", "orphans"}

TypeOK ==
  /\ PoolTypeOK
  /\ mapBlockIndex \subseteq Block
  /\ bnChainWork \in [Block -> Nat]
  /\ pnext \in [Block -> Block \cup {Null}]
  /\ pindexBest \in mapBlockIndex
  /\ bnBestInvalidWork \in Nat
  /\ mapOrphanBlocks \subseteq Block
  /\ mapOrphanBlocksByPrev \subseteq Block \X Block
  /\ dbIndex \subseteq Block
  /\ dbNext \in [Block -> Block \cup {Null}]
  /\ dbBest \in Block
  /\ pc \in PC
  /\ pblock \in Block
  /\ vWorkQueue \in Seq(Block)
  /\ pindexIntermediate \in Block
  /\ vpindexSecondary \in Seq(Block)
  /\ nFaults \in 0..MaxFaults
  /\ nCrashes \in 0..MaxCrashes

Init ==
  /\ PoolEmpty
  /\ mapBlockIndex = {Genesis}
  /\ bnChainWork = [b \in Block |-> IF b = Genesis THEN GetBlockWork[b] ELSE 0]
  /\ pnext = [b \in Block |-> Null]
  /\ pindexBest = Genesis
  /\ bnBestInvalidWork = 0
  /\ mapOrphanBlocks = {}
  /\ mapOrphanBlocksByPrev = {}
  /\ dbIndex = {Genesis}
  /\ dbNext = [b \in Block |-> Null]
  /\ dbBest = Genesis
  /\ dbTx = <<>>      \* the genesis coinbase is never indexed
  /\ pc = "idle"
  /\ pblock = Genesis
  /\ vWorkQueue = <<>>
  /\ pindexIntermediate = Genesis
  /\ vpindexSecondary = <<>>
  /\ vResurrect = <<>>
  /\ vDelete = <<>>
  /\ nFaults = 0
  /\ nCrashes = 0

\* An error of the disk or the database, of a kind this instance takes.
Fault(kinds) ==
  /\ kinds \cap FaultKind # {}
  /\ nFaults < MaxFaults
  /\ nFaults' = nFaults + 1
  /\ UNCHANGED nCrashes

NoFault == UNCHANGED countVars

\* ECDSA signatures are skipped before the last checkpoint.
fVerify == nHeight(pindexBest) >= TotalBlocksEstimate

InvalidChainFound(b) ==
  bnBestInvalidWork' =
    IF bnChainWork[b] > bnBestInvalidWork THEN bnChainWork[b] ELSE bnBestInvalidWork

-----------------------------------------------------------------------------
(* ProcessBlock, up to its call of AcceptBlock.                            *)

IsDuplicate(b) == b \in mapBlockIndex \/ b \in mapOrphanBlocks

\* Away from the best chain, a block must be newer than the last checkpoint and
\* show the work that the time since then asks for.
LooksBogus(b) ==
  /\ Checkpoint \cap mapBlockIndex # {}
  /\ hashPrevBlock[b] # pindexBest
  /\ b \in BelowMinWork

\* ProcessBlock returns early.
RejectBlock(b) ==
  /\ pc = "idle"
  /\ IsDuplicate(b) \/ ~CheckBlock(b) \/ LooksBogus(b)
  /\ UNCHANGED vars

\* A peer sent a block whose parent is not in the index.
AddOrphanBlock(b) ==
  /\ pc = "idle"
  /\ ~IsDuplicate(b)
  /\ CheckBlock(b)
  /\ ~LooksBogus(b)
  /\ hashPrevBlock[b] \notin mapBlockIndex
  /\ mapOrphanBlocks' = mapOrphanBlocks \cup {b}
  /\ mapOrphanBlocksByPrev' = mapOrphanBlocksByPrev \cup {<<hashPrevBlock[b], b>>}
  /\ UNCHANGED <<poolVars, memVars, bnBestInvalidWork, dbVars, pc, pblock, vWorkQueue,
                 branchVars, queueVars, countVars>>

ProcessBlock(b) ==
  /\ pc = "idle"
  /\ ~IsDuplicate(b)
  /\ CheckBlock(b)
  /\ ~LooksBogus(b)
  /\ hashPrevBlock[b] \in mapBlockIndex
  /\ pc' = "accept"
  /\ pblock' = b
  /\ UNCHANGED <<poolVars, memVars, bnBestInvalidWork, orphanVars, dbVars, vWorkQueue,
                 branchVars, queueVars, countVars>>

-----------------------------------------------------------------------------
(* AcceptBlock and AddToBlockIndex.                                        *)

Acceptable(b) ==
  /\ b \notin mapBlockIndex
  /\ hashPrevBlock[b] \in mapBlockIndex
  /\ b \notin BadContext

\* AcceptBlock returns false before it changes anything but the block file.
AcceptBlockFails ==
  /\ pc = "accept"
  /\ \/ ~Acceptable(pblock) /\ NoFault
     \/ Acceptable(pblock) /\ Fault({"file"})
  /\ pc' = "rejected"
  /\ UNCHANGED <<poolVars, memVars, bnBestInvalidWork, orphanVars, dbVars, pblock,
                 vWorkQueue, branchVars, queueVars>>

MutantIndexNotUpdated(b) ==
  /\ bnChainWork' =
       [bnChainWork EXCEPT ![b] = bnChainWork[hashPrevBlock[b]] + GetBlockWork[b]]
  /\ pnext' = [pnext EXCEPT ![b] = Null]
  /\ UNCHANGED <<mapBlockIndex, pindexBest>>

InsertBlockIndex(b) ==
  /\ mapBlockIndex' = mapBlockIndex \cup {b}
  /\ bnChainWork' =
       [bnChainWork EXCEPT ![b] = bnChainWork[hashPrevBlock[b]] + GetBlockWork[b]]
  /\ pnext' = [pnext EXCEPT ![b] = Null]
  /\ UNCHANGED pindexBest

MutantTieBeatsBest(b) == bnChainWork'[b] >= bnChainWork[pindexBest]

\* Of two branches with the same work the first one seen stays the best.
BeatsBest(b) == bnChainWork'[b] > bnChainWork[pindexBest]

MutantNotWritten(b) == dbIndex

\* The CDiskBlockIndex records once that of b is committed.
WithDiskBlockIndex(b) == dbIndex \cup {b}

AddToBlockIndex ==
  /\ pc = "accept"
  /\ Acceptable(pblock)
  /\ InsertBlockIndex(pblock)
  /\ dbIndex' = WithDiskBlockIndex(pblock)
  /\ dbNext' = [dbNext EXCEPT ![pblock] = Null]
  /\ pc' = IF BeatsBest(pblock) THEN "activate" ELSE "accepted"
  /\ NoFault
  /\ UNCHANGED <<poolVars, bnBestInvalidWork, orphanVars, dbBest, dbTx, pblock,
                 vWorkQueue, branchVars, queueVars>>

\* The transaction that writes the CDiskBlockIndex fails: the block stays in
\* mapBlockIndex and is not on disk.
AddToBlockIndexFails ==
  /\ pc = "accept"
  /\ Acceptable(pblock)
  /\ Fault({"index"})
  /\ InsertBlockIndex(pblock)
  /\ pc' = "rejected"
  /\ UNCHANGED <<poolVars, bnBestInvalidWork, orphanVars, dbVars, pblock, vWorkQueue,
                 branchVars, queueVars>>

-----------------------------------------------------------------------------
(* SetBestChain.  pc = "activate" is its start.                            *)

\* AddToBlockIndex returns false because SetBestChain did.
ActivationFails ==
  /\ pc' = "rejected"
  /\ UNCHANGED <<poolVars, memVars, orphanVars, dbVars, pblock, vWorkQueue, branchVars,
                 queueVars>>

\* TxnBegin fails.
SetBestChainFails ==
  /\ pc = "activate"
  /\ Fault({"begin"})
  /\ ActivationFails
  /\ UNCHANGED bnBestInvalidWork

Connected(b) == ConnectBlock([ok |-> TRUE, idx |-> dbTx], b, fVerify)

\* SetBestChainInner commits b on top of the best block of the database.
SetBestChainInner(b) ==
  /\ Connected(b).ok
  /\ dbIndex' = dbIndex \cup {hashPrevBlock[b]}
  /\ dbNext' = [dbNext EXCEPT ![hashPrevBlock[b]] = b]
  /\ dbBest' = b
  /\ dbTx' = Connected(b).idx
  /\ pnext' = [pnext EXCEPT ![hashPrevBlock[b]] = b]
  /\ vDelete' = vtx[b]
  /\ pc' = "mempool"
  /\ NoFault
  /\ UNCHANGED <<mapBlockIndex, bnChainWork, pindexBest>>

\* The new block extends the best chain.
ExtendBestChain ==
  /\ pc = "activate"
  /\ hashPrevBlock[pblock] = pindexBest
  /\ SetBestChainInner(pblock)
  /\ UNCHANGED <<poolVars, bnBestInvalidWork, orphanVars, pblock, vWorkQueue, branchVars,
                 vResurrect>>

ExtendBestChainFails ==
  /\ pc = "activate"
  /\ hashPrevBlock[pblock] = pindexBest
  /\ \/ ~Connected(pblock).ok /\ NoFault /\ InvalidChainFound(pblock)
     \/ Connected(pblock).ok /\ Fault({"write"}) /\ InvalidChainFound(pblock)
     \/ Connected(pblock).ok /\ Fault({"commit"}) /\ UNCHANGED bnBestInvalidWork
  /\ ActivationFails

\* The new block is on another branch.
SwitchBranch ==
  /\ pc = "activate"
  /\ hashPrevBlock[pblock] # pindexBest
  /\ pindexIntermediate' = pblock
  /\ pc' = "reorganize"
  /\ UNCHANGED <<poolVars, memVars, bnBestInvalidWork, orphanVars, dbVars, pblock,
                 vWorkQueue, vpindexSecondary, queueVars, countVars>>

\* Blocks whose parent alone would beat the best chain are connected afterwards.
CanPostpone ==
  /\ pindexIntermediate # Genesis
  /\ bnChainWork[hashPrevBlock[pindexIntermediate]] > bnChainWork[pindexBest]

MutantPostponedReversed(b) == Append(vpindexSecondary, b)

\* The walk goes down the branch; the blocks are connected going up.
Postponed(b) == <<b>> \o vpindexSecondary

PostponeConnect ==
  /\ pc = "reorganize"
  /\ CanPostpone
  /\ vpindexSecondary' = Postponed(pindexIntermediate)
  /\ pindexIntermediate' = hashPrevBlock[pindexIntermediate]
  /\ UNCHANGED <<poolVars, memVars, bnBestInvalidWork, orphanVars, dbVars, pc, pblock,
                 vWorkQueue, queueVars, countVars>>

Reorganized == ReorganizeIndex(dbTx, pindexBest, pindexIntermediate, fVerify)

MutantOldLinksStay(next, off, on) ==
  [b \in Block |->
     IF \E c \in on : hashPrevBlock[c] = b THEN CHOOSE c \in on : hashPrevBlock[c] = b
     ELSE next[b]]

\* The links to the next block after the blocks of off left the main chain and
\* those of on joined it.
Relink(next, off, on) ==
  [b \in Block |->
     IF \E c \in on : hashPrevBlock[c] = b THEN CHOOSE c \in on : hashPrevBlock[c] = b
     ELSE IF \E c \in off : hashPrevBlock[c] = b THEN Null
     ELSE next[b]]

MutantTxsOfLastBlock(blocks) ==
  IF blocks = <<>> THEN <<>> ELSE vtx[blocks[Len(blocks)]]

TxsOf(blocks) == FlattenSeq([i \in DOMAIN blocks |-> vtx[blocks[i]]])

\* Coinbases of disconnected blocks are lost.
NotCoinBases(txs) ==
  FlattenSeq([i \in DOMAIN txs |-> IF IsCoinBase(txs[i]) THEN <<>> ELSE <<txs[i]>>])

Reorganize ==
  LET off == vDisconnect(pindexBest, pindexIntermediate)
      on  == vConnect(pindexBest, pindexIntermediate)
      blocksOff == {b \in mapBlockIndex : \E i \in DOMAIN off : off[i] = b}
      blocksOn  == {b \in mapBlockIndex : \E i \in DOMAIN on : on[i] = b}
  IN
  /\ pc = "reorganize"
  /\ ~CanPostpone
  /\ Reorganized.ok
  /\ dbIndex' = dbIndex \cup {b \in mapBlockIndex :
                                \E c \in blocksOff \cup blocksOn : hashPrevBlock[c] = b}
  /\ dbNext' = Relink(dbNext, blocksOff, blocksOn)
  /\ dbBest' = pindexIntermediate
  /\ dbTx' = Reorganized.idx
  /\ pnext' = Relink(pnext, blocksOff, blocksOn)
  /\ vResurrect' = NotCoinBases(TxsOf(off))
  /\ vDelete' = TxsOf(on)
  /\ pc' = "mempool"
  /\ NoFault
  /\ UNCHANGED <<poolVars, mapBlockIndex, bnChainWork, pindexBest, bnBestInvalidWork,
                 orphanVars, pblock, vWorkQueue, branchVars>>

ReorganizeFails ==
  /\ pc = "reorganize"
  /\ ~CanPostpone
  /\ \/ ~Reorganized.ok /\ NoFault
     \/ Reorganized.ok /\ Fault({"read", "write", "commit"})
  /\ InvalidChainFound(pblock)
  /\ pc' = "rejected"
  /\ pindexIntermediate' = Genesis
  /\ vpindexSecondary' = <<>>
  /\ UNCHANGED <<poolVars, memVars, orphanVars, dbVars, pblock, vWorkQueue, queueVars>>

\* After a commit, transactions of disconnected blocks go back to the pool and
\* those of connected blocks leave it.
ResurrectTx ==
  /\ pc = "mempool"
  /\ vResurrect # <<>>
  /\ \E t \in Tx : t = Head(vResurrect) /\ Resurrect(t)
  /\ vResurrect' = Tail(vResurrect)
  /\ UNCHANGED <<memVars, bnBestInvalidWork, orphanVars, dbVars, pc, pblock, vWorkQueue,
                 branchVars, vDelete, countVars>>

DeleteTx ==
  /\ pc = "mempool"
  /\ vResurrect = <<>>
  /\ vDelete # <<>>
  /\ \E t \in Tx : t = Head(vDelete) /\ remove(t)
  /\ vDelete' = Tail(vDelete)
  /\ UNCHANGED <<memVars, bnBestInvalidWork, orphanVars, dbVars, pc, pblock, vWorkQueue,
                 branchVars, vResurrect, countVars>>

PoolUpdated == pc = "mempool" /\ vResurrect = <<>> /\ vDelete = <<>>

ConnectSecondary ==
  /\ PoolUpdated
  /\ vpindexSecondary # <<>>
  /\ SetBestChainInner(Head(vpindexSecondary))
  /\ vpindexSecondary' = Tail(vpindexSecondary)
  /\ UNCHANGED <<poolVars, bnBestInvalidWork, orphanVars, pblock, vWorkQueue,
                 pindexIntermediate, vResurrect>>

\* "errors now are not fatal": the loop ends and SetBestChain goes on.
ConnectSecondaryFails ==
  /\ PoolUpdated
  /\ vpindexSecondary # <<>>
  /\ LET b == Head(vpindexSecondary) IN
     \/ ~Connected(b).ok /\ NoFault /\ InvalidChainFound(b)
     \/ Connected(b).ok /\ Fault({"write"}) /\ InvalidChainFound(b)
     \/ Connected(b).ok /\ Fault({"read", "begin", "commit"}) /\ UNCHANGED bnBestInvalidWork
  /\ vpindexSecondary' = <<>>
  /\ UNCHANGED <<poolVars, memVars, orphanVars, dbVars, pc, pblock, vWorkQueue,
                 pindexIntermediate, queueVars>>

NewBestBlock ==
  /\ PoolUpdated
  /\ vpindexSecondary = <<>>
  /\ pindexBest' = pblock
  /\ pc' = "accepted"
  /\ pindexIntermediate' = Genesis
  /\ UNCHANGED <<poolVars, mapBlockIndex, bnChainWork, pnext, bnBestInvalidWork, orphanVars,
                 dbVars, pblock, vWorkQueue, vpindexSecondary, queueVars, countVars>>

-----------------------------------------------------------------------------
(* The rest of ProcessBlock: the orphans of the accepted blocks.  An empty *)
(* vWorkQueue tells that AcceptBlock ran for the received block.           *)

MutantOrphansOfOrphansForgotten(b) ==
  IF vWorkQueue = <<>> THEN <<b>> ELSE vWorkQueue

\* The orphans of an accepted block, an orphan itself or not, are next.
Queued(b) == Append(vWorkQueue, b)

BlockAccepted ==
  /\ pc = "accepted"
  /\ vWorkQueue' = Queued(pblock)
  /\ mapOrphanBlocks' = mapOrphanBlocks \ {pblock}
  /\ pblock' = Genesis
  /\ pc' = "orphans"
  /\ UNCHANGED <<poolVars, memVars, bnBestInvalidWork, mapOrphanBlocksByPrev, dbVars,
                 branchVars, queueVars, countVars>>

BlockRejected ==
  /\ pc = "rejected"
  /\ mapOrphanBlocks' = mapOrphanBlocks \ {pblock}
  /\ pblock' = Genesis
  /\ pc' = IF vWorkQueue = <<>> THEN "idle" ELSE "orphans"
  /\ UNCHANGED <<poolVars, memVars, bnBestInvalidWork, mapOrphanBlocksByPrev, dbVars,
                 vWorkQueue, branchVars, queueVars, countVars>>

\* Orphans of the block at the head of the queue that are still to be accepted.
Waiting == {o \in mapOrphanBlocks : <<Head(vWorkQueue), o>> \in mapOrphanBlocksByPrev}

AcceptOrphan ==
  /\ pc = "orphans"
  /\ \E o \in Waiting : pblock' = o
  /\ pc' = "accept"
  /\ UNCHANGED <<poolVars, memVars, bnBestInvalidWork, orphanVars, dbVars, vWorkQueue,
                 branchVars, queueVars, countVars>>

MutantByPrevNotErased(h) == mapOrphanBlocksByPrev

ErasedByPrev(h) == {e \in mapOrphanBlocksByPrev : e[1] # h}

OrphansDone ==
  /\ pc = "orphans"
  /\ Waiting = {}
  /\ mapOrphanBlocksByPrev' = ErasedByPrev(Head(vWorkQueue))
  /\ vWorkQueue' = Tail(vWorkQueue)
  /\ pc' = IF vWorkQueue' = <<>> THEN "idle" ELSE "orphans"
  /\ UNCHANGED <<poolVars, memVars, bnBestInvalidWork, mapOrphanBlocks, dbVars, pblock,
                 branchVars, queueVars, countVars>>

-----------------------------------------------------------------------------
\* A peer, a wallet or the RPC server offers a transaction.
AcceptToMemoryPool(t) ==
  /\ pc = "idle"
  /\ AcceptLoose(dbTx, pindexBest, t)
  /\ UNCHANGED <<memVars, bnBestInvalidWork, orphanVars, dbVars, pc, pblock, vWorkQueue,
                 branchVars, queueVars, countVars>>

\* LoadBlockIndex can read the database: the best block and all parents are there.
\* (A failed "index" write can leave a database of which this is not true.)
DatabaseLoads ==
  /\ dbBest \in dbIndex
  /\ \A b \in dbIndex \ {Genesis} : hashPrevBlock[b] \in dbIndex

\* The process dies and LoadBlockIndex reads the database back.  The work of the
\* loaded blocks is computed again and comes out the same.
CrashRestart ==
  /\ DatabaseLoads
  /\ nCrashes < MaxCrashes
  /\ nCrashes' = nCrashes + 1
  /\ mapTx' = {}
  /\ mapNextTx' = [p \in OutPoint |-> Null]
  /\ mapBlockIndex' = dbIndex
  /\ pnext' = dbNext
  /\ pindexBest' = dbBest
  /\ mapOrphanBlocks' = {}
  /\ mapOrphanBlocksByPrev' = {}
  /\ pc' = "idle"
  /\ pblock' = Genesis
  /\ vWorkQueue' = <<>>
  /\ pindexIntermediate' = Genesis
  /\ vpindexSecondary' = <<>>
  /\ vResurrect' = <<>>
  /\ vDelete' = <<>>
  /\ UNCHANGED <<bnChainWork, bnBestInvalidWork, dbVars, nFaults>>

\* A step of the handler that runs.
HandlerStep ==
  \/ AcceptBlockFails \/ AddToBlockIndex \/ AddToBlockIndexFails
  \/ SetBestChainFails \/ ExtendBestChain \/ ExtendBestChainFails \/ SwitchBranch
  \/ PostponeConnect \/ Reorganize \/ ReorganizeFails
  \/ ResurrectTx \/ DeleteTx
  \/ ConnectSecondary \/ ConnectSecondaryFails \/ NewBestBlock
  \/ BlockAccepted \/ BlockRejected \/ AcceptOrphan \/ OrphansDone

ReceiveBlock(b) == RejectBlock(b) \/ AddOrphanBlock(b) \/ ProcessBlock(b)

Next ==
  \/ \E b \in Block \ {Genesis} : ReceiveBlock(b)
  \/ HandlerStep
  \/ \E t \in LooseTx : AcceptToMemoryPool(t)
  \/ CrashRestart

Spec == Init /\ [][Next]_vars

\* WF_vars(HandlerStep), spelled out: a step is enabled wherever pc is not "idle"
\* (a run without deadlock shows it), and TLC need not compute ENABLED.
HandlerProgress == []<>(pc = "idle") \/ []<><<HandlerStep>>_vars

\* The message thread finishes the handler it is in, and every block reaches the
\* node in the end: peers announce it, and the node asks again for what it lacks.
FairSpec ==
  /\ Spec
  /\ HandlerProgress
  /\ \A b \in Block \ {Genesis} : WF_vars(AddOrphanBlock(b) \/ ProcessBlock(b))

-----------------------------------------------------------------------------
(* mapOrphanBlocksByPrev points at exactly the blocks of mapOrphanBlocks,  *)
(* each under its parent: ProcessBlock, which deletes orphans in the loop  *)
(* over the one map and erases the other afterwards, leaves no pointer to  *)
(* a deleted block and no block that cannot be found.  No indexed block is *)
(* held as an orphan.                                                      *)
OrphanMapsAgree ==
  pc = "idle" =>
    /\ mapOrphanBlocksByPrev = {<<hashPrevBlock[o], o>> : o \in mapOrphanBlocks}
    /\ mapOrphanBlocks \cap mapBlockIndex = {}

(* Wherever the process dies, LoadBlockIndex finds the best block and the  *)
(* parent of every block: AddToBlockIndex commits the record of a block    *)
(* before SetBestChain commits that it is the best.  Only an error of that *)
(* first commit, after which the block stays in memory, can break it.      *)
RestartPossible == "index" \notin FaultKind => DatabaseLoads

(* The best block on disk is only ever replaced with one of more work,     *)
(* whatever step of a reorganization fails and wherever the process dies;  *)
(* so is the best block in memory, but for a restart.                      *)
BestWorkGrows ==
  [][/\ dbBest' # dbBest => bnChainWork'[dbBest'] > bnChainWork[dbBest]
     /\ \/ pindexBest' = pindexBest
        \/ bnChainWork'[pindexBest'] > bnChainWork[pindexBest]
        \/ nCrashes' > nCrashes]_vars

=============================================================================
