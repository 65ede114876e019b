-------------------------- MODULE BlockChain_proofs ---------------------------
(***************************************************************************)
(* Safety of the memory pool and of the block chain, for every block tree, *)
(* every set of transactions, every bound on faults and crashes.           *)
(*                                                                         *)
(* The first part looks at the indexes, the orphan maps and the branch     *)
(* SetBestChain works on, whatever ConnectBlock and Reorganize compute.    *)
(* The second part is about what they compute: the index on disk is that   *)
(* of the best chain.  It rests on Ledger_proofs and on two hypotheses     *)
(* that the code does not give, because without either it is false:        *)
(* DuplicatesStayUnspent (the run duplicate_coinbase) and, of a behaviour, *)
(* MemoryMatchesDisk (the run postponed_connect).                          *)
(* The third part is about what follows from both: the pool holds no mined *)
(* transaction, the orphan blocks that stay are invalid or wait for a      *)
(* block that is not there, and the node implements ChainSelection.  The   *)
(* last also takes OnlyFileErrors, SignaturesChecked and CrashesAreSafe as *)
(* hypotheses.                                                             *)
(***************************************************************************)
EXTENDS BlockChainProps, Ledger_proofs

-----------------------------------------------------------------------------
(* The memory pool.                                                        *)

PoolInv == PoolTypeOK /\ NextTxIsInverse

-----------------------------------------------------------------------------
LEMMA EmptyPoolInv == PoolEmpty => PoolInv
  BY TxAssumption DEF PoolEmpty, PoolInv, PoolTypeOK, NextTxIsInverse

\* The inputs of a transaction are outpoints.
LEMMA InputsAreOutPoints ==
  ASSUME NEW t \in Tx
  PROVE  vin[t] \subseteq OutPoint
  BY DEF OutPoint

\* addUnchecked keeps the inverse of a pool without t or a conflict with it: a
\* transaction that spends an input of t would be in conflict.
LEMMA AddKeepsInverse ==
  ASSUME PoolInv, NEW t \in Tx, Admissible(t), addUnchecked(t)
  PROVE  PoolInv'
<1>1. PoolTypeOK'
  BY DEF PoolInv, PoolTypeOK, addUnchecked
<1>2. ASSUME NEW p \in OutPoint, NEW u \in Tx
      PROVE  mapNextTx'[p] = u <=> u \in mapTx' /\ p \in vin[u]
  <2>1. CASE p \in vin[t]
    <3>1. mapNextTx'[p] = t
      BY <2>1 DEF addUnchecked
    <3>2. mapNextTx[p] = Null
      BY <2>1 DEF Admissible, Conflicts
    <3>3. ~(u \in mapTx /\ p \in vin[u])
      BY <3>2, TxAssumption DEF PoolInv, NextTxIsInverse
    <3> QED
      BY <2>1, <3>1, <3>3 DEF addUnchecked
  <2>2. CASE p \notin vin[t]
    <3>1. mapNextTx'[p] = mapNextTx[p]
      BY <2>2 DEF addUnchecked
    <3> QED
      BY <2>2, <3>1 DEF addUnchecked, PoolInv, NextTxIsInverse
  <2> QED
    BY <2>1, <2>2
<1> QED
  BY <1>1, <1>2 DEF PoolInv, NextTxIsInverse

LEMMA ResurrectKeepsInverse ==
  ASSUME PoolInv, NEW t \in Tx, Resurrect(t)
  PROVE  PoolInv'
<1>1. CASE Admissible(t)
  BY <1>1, AddKeepsInverse DEF Resurrect
<1>2. CASE ~Admissible(t)
  BY <1>2 DEF Resurrect, poolVars, PoolInv, PoolTypeOK, NextTxIsInverse
<1> QED
  BY <1>1, <1>2

\* remove erases the entries of t only: no other pooled transaction spends what
\* t spends.
LEMMA RemoveKeepsInverse ==
  ASSUME PoolInv, NEW t \in Tx, remove(t)
  PROVE  PoolInv'
<1>1. CASE t \in mapTx
  <2>1. PoolTypeOK'
    BY <1>1 DEF PoolInv, PoolTypeOK, remove
  <2>2. ASSUME NEW p \in OutPoint, NEW u \in Tx
        PROVE  mapNextTx'[p] = u <=> u \in mapTx' /\ p \in vin[u]
    <3>1. CASE p \in vin[t]
      <4>1. mapNextTx[p] = t
        BY <1>1, <3>1 DEF PoolInv, NextTxIsInverse
      <4>2. mapNextTx'[p] = Null
        BY <1>1, <3>1 DEF remove
      <4>3. u \in mapTx /\ p \in vin[u] => u = t
        BY <4>1 DEF PoolInv, NextTxIsInverse
      <4> QED
        BY <1>1, <4>2, <4>3, TxAssumption DEF remove
    <3>2. CASE p \notin vin[t]
      <4>1. mapNextTx'[p] = mapNextTx[p]
        BY <1>1, <3>2 DEF remove
      <4> QED
        BY <1>1, <3>2, <4>1 DEF remove, PoolInv, NextTxIsInverse
    <3> QED
      BY <3>1, <3>2
  <2> QED
    BY <2>1, <2>2 DEF PoolInv, NextTxIsInverse
<1>2. CASE t \notin mapTx
  BY <1>2 DEF remove, poolVars, PoolInv, PoolTypeOK, NextTxIsInverse
<1> QED
  BY <1>1, <1>2

-----------------------------------------------------------------------------
(* What NextTxIsInverse is for: two transactions of the pool never spend   *)
(* the same output, so that accept's test of mapNextTx finds every         *)
(* conflict.                                                               *)
THEOREM PooledTxsDoNotConflict ==
  ASSUME NextTxIsInverse, NEW t \in Tx, NEW u \in Tx, t \in mapTx, u \in mapTx, t # u
  PROVE  vin[t] \cap vin[u] = {}
<1> SUFFICES ASSUME NEW p \in vin[t], p \in vin[u] PROVE FALSE
  OBVIOUS
<1>1. p \in OutPoint
  BY InputsAreOutPoints
<1> QED
  BY <1>1 DEF NextTxIsInverse

-----------------------------------------------------------------------------
(* The inductive invariant, in four parts.                                 *)

AtWork == {"accept", "activate", "reorganize", "mempool", "accepted", "rejected"}

\* The orphan maps while ProcessBlock works on the queue: an entry without an
\* orphan is one of the head of the queue, and only the block at work may be
\* held as an orphan and indexed.
OrphanInv ==
  /\ \A o \in mapOrphanBlocks :
       o # Genesis /\ <<hashPrevBlock[o], o>> \in mapOrphanBlocksByPrev
  /\ \A e \in mapOrphanBlocksByPrev :
       /\ e = <<hashPrevBlock[e[2]], e[2]>>
       /\ e[2] \in mapOrphanBlocks \/ (vWorkQueue # <<>> /\ e[1] = Head(vWorkQueue))
  /\ mapOrphanBlocks \cap mapBlockIndex \subseteq {pblock}
  /\ pc = "idle" => vWorkQueue = <<>>
  /\ pc = "orphans" => vWorkQueue # <<>>
  /\ pc \in {"idle", "orphans"} => pblock = Genesis
  /\ pc \in AtWork =>
       IF vWorkQueue = <<>> THEN pblock \notin mapOrphanBlocks
       ELSE hashPrevBlock[pblock] = Head(vWorkQueue)

\* Chain work adds up along the index, and the index on disk is part of it.
IndexInv ==
  /\ Genesis \in dbIndex
  /\ dbIndex \subseteq mapBlockIndex
  /\ dbBest \in mapBlockIndex
  /\ \A b \in mapBlockIndex \ {Genesis} :
       /\ hashPrevBlock[b] \in mapBlockIndex
       /\ bnChainWork[b] = bnChainWork[hashPrevBlock[b]] + GetBlockWork[b]

\* The blocks still to connect lead from b up, to no more work than pblock has.
LeadsUpFrom(b) ==
  \A i \in DOMAIN vpindexSecondary :
    /\ vpindexSecondary[i] \in mapBlockIndex \ {Genesis}
    /\ hashPrevBlock[vpindexSecondary[i]] = IF i = 1 THEN b ELSE vpindexSecondary[i - 1]
    /\ bnChainWork[vpindexSecondary[i]] <= bnChainWork[pblock]

\* SetBestChain only works for a block that beats the best one, and the database
\* is ahead of memory only until pindexBest is set.
BranchInv ==
  /\ pc \in {"activate", "reorganize", "mempool"} =>
       /\ pblock \in mapBlockIndex \ {Genesis}
       /\ bnChainWork[pindexBest] < bnChainWork[pblock]
  /\ pc = "reorganize" =>
       /\ pindexIntermediate \in mapBlockIndex
       /\ bnChainWork[pindexBest] < bnChainWork[pindexIntermediate]
       /\ bnChainWork[pindexIntermediate] <= bnChainWork[pblock]
       /\ LeadsUpFrom(pindexIntermediate)
  /\ pc = "mempool" =>
       /\ bnChainWork[dbBest] <= bnChainWork[pblock]
       /\ LeadsUpFrom(dbBest)
  /\ pc # "mempool" => bnChainWork[dbBest] <= bnChainWork[pindexBest]
  /\ pc \notin {"reorganize", "mempool"} => vpindexSecondary = <<>>

IInv == TypeOK /\ NextTxIsInverse /\ OrphanInv /\ IndexInv /\ BranchInv

-----------------------------------------------------------------------------
(* The initial states.                                                     *)

LEMMA InitInv == Init => IInv
<1> SUFFICES ASSUME Init PROVE IInv
  OBVIOUS
<1> USE BlockAssumption, BoundAssumption
<1>1. PoolInv
  BY EmptyPoolInv DEF Init
<1>2. TypeOK
  BY <1>1 DEF Init, TypeOK, PoolInv, PC
<1>3. OrphanInv
  BY DEF Init, OrphanInv, AtWork
<1>4. IndexInv
  BY DEF Init, IndexInv
<1>5. BranchInv
  BY DEF Init, BranchInv
<1> QED
  BY <1>1, <1>2, <1>3, <1>4, <1>5 DEF IInv, PoolInv

-----------------------------------------------------------------------------
(* The pool.                                                               *)

LEMMA PoolStep ==
  ASSUME IInv, [Next]_vars
  PROVE  PoolInv'
<1>1. PoolInv
  BY DEF IInv, TypeOK, PoolInv
<1>2. CASE UNCHANGED poolVars
  BY <1>1, <1>2 DEF poolVars, PoolInv, PoolTypeOK, NextTxIsInverse
<1>3. CASE ResurrectTx
  BY <1>1, <1>3, ResurrectKeepsInverse DEF ResurrectTx
<1>4. CASE DeleteTx
  BY <1>1, <1>4, RemoveKeepsInverse DEF DeleteTx
<1>5. ASSUME NEW t \in LooseTx, AcceptToMemoryPool(t)
      PROVE  PoolInv'
  BY <1>1, <1>5, AddKeepsInverse, BoundAssumption DEF AcceptToMemoryPool, AcceptLoose
<1>6. CASE CrashRestart
  BY <1>6, TxAssumption
  DEF CrashRestart, PoolInv, PoolTypeOK, NextTxIsInverse
<1> QED
  BY <1>2, <1>3, <1>4, <1>5, <1>6
  DEF Next, vars, ReceiveBlock, RejectBlock, AddOrphanBlock, ProcessBlock, HandlerStep,
      poolVars, AcceptBlockFails, AddToBlockIndex, AddToBlockIndexFails,
      SetBestChainFails, ExtendBestChain, ExtendBestChainFails, ActivationFails,
      SwitchBranch, PostponeConnect, Reorganize, ReorganizeFails, ConnectSecondary,
      ConnectSecondaryFails, NewBestBlock, BlockAccepted, BlockRejected, AcceptOrphan,
      OrphansDone

-----------------------------------------------------------------------------
(* The index.                                                              *)

\* A block that AcceptBlock puts into the index is new and its parent is old.
LEMMA InsertKeepsWork ==
  ASSUME IInv, NEW b \in Block, Acceptable(b), InsertBlockIndex(b)
  PROVE  /\ b # Genesis
         /\ mapBlockIndex' = mapBlockIndex \cup {b}
         /\ \A c \in mapBlockIndex : bnChainWork'[c] = bnChainWork[c]
         /\ \A c \in mapBlockIndex' \ {Genesis} :
              /\ hashPrevBlock[c] \in mapBlockIndex'
              /\ bnChainWork'[c] = bnChainWork'[hashPrevBlock[c]] + GetBlockWork[c]
  BY DEF IInv, TypeOK, IndexInv, Acceptable, InsertBlockIndex

LEMMA IndexStep ==
  ASSUME IInv, [Next]_vars
  PROVE  IndexInv'
<1> USE BlockAssumption DEF IInv, TypeOK, IndexInv
<1>1. CASE UNCHANGED <<mapBlockIndex, bnChainWork, dbIndex, dbBest>>
  BY <1>1
<1>2. CASE AddToBlockIndex
  BY <1>2, InsertKeepsWork DEF AddToBlockIndex, WithDiskBlockIndex
<1>3. CASE AddToBlockIndexFails
  BY <1>3, InsertKeepsWork DEF AddToBlockIndexFails, dbVars
<1>4. CASE ExtendBestChain
  BY <1>4 DEF ExtendBestChain, SetBestChainInner, BranchInv
<1>5. CASE Reorganize
  BY <1>5 DEF Reorganize, BranchInv
<1>6. CASE ConnectSecondary
  <2>1. Head(vpindexSecondary) = vpindexSecondary[1] /\ 1 \in DOMAIN vpindexSecondary
    BY <1>6 DEF ConnectSecondary
  <2>2. /\ Head(vpindexSecondary) \in mapBlockIndex
        /\ hashPrevBlock[Head(vpindexSecondary)] \in mapBlockIndex
    BY <1>6, <2>1 DEF ConnectSecondary, PoolUpdated, BranchInv, LeadsUpFrom
  <2> QED
    BY <1>6, <2>2 DEF ConnectSecondary, SetBestChainInner
<1>7. CASE CrashRestart
  BY <1>7 DEF CrashRestart, DatabaseLoads, dbVars
<1> QED
  BY <1>1, <1>2, <1>3, <1>4, <1>5, <1>6, <1>7
  DEF Next, vars, memVars, dbVars, ReceiveBlock, RejectBlock, AddOrphanBlock,
      ProcessBlock, HandlerStep, AcceptBlockFails, SetBestChainFails, ActivationFails,
      ExtendBestChainFails, SwitchBranch, PostponeConnect, ReorganizeFails, ResurrectTx,
      DeleteTx, ConnectSecondaryFails, NewBestBlock, BlockAccepted, BlockRejected,
      AcceptOrphan, OrphansDone, AcceptToMemoryPool

-----------------------------------------------------------------------------
(* The orphan maps.                                                        *)

\* The steps of AcceptBlock leave the orphan maps alone.
LEMMA AtWorkKeepsOrphans ==
  ASSUME OrphanInv, pc \in AtWork, pc' \in AtWork,
         mapBlockIndex' \subseteq mapBlockIndex \cup {pblock},
         UNCHANGED <<orphanVars, pblock, vWorkQueue>>
  PROVE  OrphanInv'
  BY DEF OrphanInv, AtWork, orphanVars

LEMMA OrphanStep ==
  ASSUME IInv, [Next]_vars
  PROVE  OrphanInv'
<1> USE BlockAssumption
<1>a. OrphanInv /\ TypeOK /\ Genesis \in mapBlockIndex
  BY DEF IInv, IndexInv
<1>1. CASE UNCHANGED vars
  BY <1>a, <1>1 DEF vars, OrphanInv
<1>2. ASSUME NEW b \in Block \ {Genesis}, RejectBlock(b)
      PROVE  OrphanInv'
  BY <1>a, <1>2 DEF RejectBlock, vars, OrphanInv
<1>3. ASSUME NEW b \in Block \ {Genesis}, AddOrphanBlock(b)
      PROVE  OrphanInv'
  BY <1>a, <1>3 DEF AddOrphanBlock, IsDuplicate, memVars, OrphanInv, AtWork
<1>4. ASSUME NEW b \in Block \ {Genesis}, ProcessBlock(b)
      PROVE  OrphanInv'
  BY <1>a, <1>4 DEF ProcessBlock, IsDuplicate, memVars, orphanVars, OrphanInv, AtWork
<1>5. CASE AcceptBlockFails \/ AddToBlockIndex \/ AddToBlockIndexFails
  BY <1>a, <1>5, AtWorkKeepsOrphans
  DEF AcceptBlockFails, AddToBlockIndex, AddToBlockIndexFails, InsertBlockIndex, memVars,
      AtWork
<1>6. CASE SetBestChainFails \/ ExtendBestChain \/ ExtendBestChainFails \/ SwitchBranch
  BY <1>a, <1>6, AtWorkKeepsOrphans
  DEF SetBestChainFails, ExtendBestChain, ExtendBestChainFails, SwitchBranch,
      ActivationFails, SetBestChainInner, memVars, AtWork
<1>7. CASE PostponeConnect \/ Reorganize \/ ReorganizeFails
  BY <1>a, <1>7, AtWorkKeepsOrphans
  DEF PostponeConnect, Reorganize, ReorganizeFails, memVars, AtWork
<1>8. CASE \/ ResurrectTx \/ DeleteTx \/ ConnectSecondary \/ ConnectSecondaryFails
           \/ NewBestBlock
  BY <1>a, <1>8, AtWorkKeepsOrphans
  DEF ResurrectTx, DeleteTx, ConnectSecondary, ConnectSecondaryFails, NewBestBlock,
      PoolUpdated, SetBestChainInner, memVars, AtWork
<1>9. CASE BlockAccepted
  <2>1. /\ vWorkQueue' # <<>>
        /\ vWorkQueue # <<>> => Head(vWorkQueue') = Head(vWorkQueue)
    BY <1>a, <1>9 DEF BlockAccepted, Queued, TypeOK
  <2> QED
    BY <1>a, <1>9, <2>1 DEF BlockAccepted, memVars, OrphanInv, AtWork
<1>10. CASE BlockRejected
  BY <1>a, <1>10 DEF BlockRejected, memVars, OrphanInv, AtWork
<1>11. CASE AcceptOrphan
  BY <1>a, <1>11 DEF AcceptOrphan, Waiting, memVars, orphanVars, OrphanInv, AtWork
<1>12. CASE OrphansDone
  BY <1>a, <1>12
  DEF OrphansDone, Waiting, ErasedByPrev, memVars, OrphanInv, AtWork, TypeOK
<1>13. ASSUME NEW t \in LooseTx, AcceptToMemoryPool(t)
       PROVE  OrphanInv'
  BY <1>a, <1>13 DEF AcceptToMemoryPool, memVars, orphanVars, OrphanInv, AtWork
<1>14. CASE CrashRestart
  BY <1>14 DEF CrashRestart, OrphanInv, AtWork
<1> QED
  BY <1>1, <1>2, <1>3, <1>4, <1>5, <1>6, <1>7, <1>8, <1>9, <1>10, <1>11, <1>12, <1>13,
     <1>14
  DEF Next, ReceiveBlock, HandlerStep

-----------------------------------------------------------------------------
(* The branch that SetBestChain connects.                                  *)

\* A step that leaves the branch, the work and both best blocks alone.
LEMMA SameBranch ==
  ASSUME BranchInv, mapBlockIndex' = mapBlockIndex,
         UNCHANGED <<bnChainWork, pindexBest, dbBest, pblock, branchVars, pc>>
  PROVE  BranchInv'
  BY DEF BranchInv, LeadsUpFrom, branchVars

\* A step between two states in which no branch is at work.
LEMMA NoBranch ==
  ASSUME IInv, UNCHANGED <<mapBlockIndex, bnChainWork, pindexBest, dbBest>>,
         vpindexSecondary' = <<>>, pc # "mempool",
         pc' \notin {"activate", "reorganize", "mempool"}
  PROVE  BranchInv'
  BY DEF IInv, BranchInv

\* A block that is connected on top of dbBest has more work than it.
LEMMA ChildHasMoreWork ==
  ASSUME IInv, NEW b \in mapBlockIndex \ {Genesis}
  PROVE  bnChainWork[hashPrevBlock[b]] < bnChainWork[b]
<1>1. /\ hashPrevBlock[b] \in mapBlockIndex
      /\ bnChainWork[b] = bnChainWork[hashPrevBlock[b]] + GetBlockWork[b]
      /\ mapBlockIndex \subseteq Block
      /\ bnChainWork \in [Block -> Nat]
  BY DEF IInv, TypeOK, IndexInv
<1>2. bnChainWork[hashPrevBlock[b]] \in Nat
  BY <1>1
<1>3. GetBlockWork[b] \in Nat \ {0}
  BY <1>1, BlockAssumption
<1> QED
  BY <1>1, <1>2, <1>3

\* The first of the blocks still to connect, and what is left after it.
LEMMA NextSecondary ==
  ASSUME IInv, PoolUpdated, vpindexSecondary # <<>>
  PROVE  /\ Head(vpindexSecondary) \in mapBlockIndex \ {Genesis}
         /\ hashPrevBlock[Head(vpindexSecondary)] = dbBest
         /\ bnChainWork[Head(vpindexSecondary)] <= bnChainWork[pblock]
         /\ \A i \in DOMAIN Tail(vpindexSecondary) :
              /\ Tail(vpindexSecondary)[i] = vpindexSecondary[i + 1]
              /\ i + 1 \in DOMAIN vpindexSecondary
<1>1. LeadsUpFrom(dbBest) /\ vpindexSecondary \in Seq(Block)
  BY DEF IInv, TypeOK, BranchInv, PoolUpdated
<1>2. Head(vpindexSecondary) = vpindexSecondary[1] /\ 1 \in DOMAIN vpindexSecondary
  BY <1>1
<1>3. \A i \in DOMAIN Tail(vpindexSecondary) :
        /\ Tail(vpindexSecondary)[i] = vpindexSecondary[i + 1]
        /\ i + 1 \in DOMAIN vpindexSecondary
  BY <1>1
<1> QED
  BY <1>1, <1>2, <1>3 DEF LeadsUpFrom

LEMMA BranchStep ==
  ASSUME IInv, [Next]_vars
  PROVE  BranchInv'
<1> USE BlockAssumption
<1>a. BranchInv /\ TypeOK /\ IndexInv
  BY DEF IInv
<1>1. CASE UNCHANGED vars
  BY <1>a, <1>1, SameBranch DEF vars, branchVars
<1>2. ASSUME NEW b \in Block \ {Genesis}, ReceiveBlock(b)
      PROVE  BranchInv'
  BY <1>a, <1>2, NoBranch
  DEF ReceiveBlock, RejectBlock, AddOrphanBlock, ProcessBlock, vars, memVars, dbVars,
      branchVars, BranchInv
<1>3. CASE AcceptBlockFails
  BY <1>a, <1>3, NoBranch DEF AcceptBlockFails, memVars, dbVars, branchVars, BranchInv
<1>4. CASE AddToBlockIndex
  <2>1. /\ vpindexSecondary' = <<>>
        /\ pblock' = pblock /\ pindexBest' = pindexBest /\ dbBest' = dbBest
        /\ pc' = IF BeatsBest(pblock) THEN "activate" ELSE "accepted"
        /\ bnChainWork[dbBest] <= bnChainWork[pindexBest]
    BY <1>a, <1>4 DEF AddToBlockIndex, InsertBlockIndex, branchVars, BranchInv
  <2>2. /\ pblock # Genesis
        /\ pblock \in mapBlockIndex'
        /\ bnChainWork'[dbBest] = bnChainWork[dbBest]
        /\ bnChainWork'[pindexBest] = bnChainWork[pindexBest]
    BY <1>a, <1>4, InsertKeepsWork DEF AddToBlockIndex, TypeOK, IndexInv
  <2> QED
    BY <2>1, <2>2 DEF BranchInv, BeatsBest
<1>5. CASE AddToBlockIndexFails
  <2>1. /\ vpindexSecondary' = <<>>
        /\ pindexBest' = pindexBest /\ dbBest' = dbBest /\ pc' = "rejected"
        /\ bnChainWork[dbBest] <= bnChainWork[pindexBest]
    BY <1>a, <1>5
    DEF AddToBlockIndexFails, InsertBlockIndex, dbVars, branchVars, BranchInv
  <2>2. /\ bnChainWork'[dbBest] = bnChainWork[dbBest]
        /\ bnChainWork'[pindexBest] = bnChainWork[pindexBest]
    BY <1>a, <1>5, InsertKeepsWork DEF AddToBlockIndexFails, TypeOK, IndexInv
  <2> QED
    BY <2>1, <2>2 DEF BranchInv
<1>6. CASE SetBestChainFails \/ ExtendBestChainFails
  BY <1>a, <1>6, NoBranch
  DEF SetBestChainFails, ExtendBestChainFails, ActivationFails, memVars, dbVars,
      branchVars, BranchInv
<1>7. CASE ExtendBestChain
  BY <1>a, <1>7
  DEF ExtendBestChain, SetBestChainInner, branchVars, BranchInv, LeadsUpFrom, TypeOK
<1>8. CASE SwitchBranch
  BY <1>a, <1>8 DEF SwitchBranch, memVars, dbVars, BranchInv, LeadsUpFrom, TypeOK
<1>9. CASE PostponeConnect
  <2> DEFINE b == pindexIntermediate
  <2>1. /\ b \in mapBlockIndex \ {Genesis}
        /\ hashPrevBlock[b] \in mapBlockIndex
        /\ bnChainWork[pindexBest] < bnChainWork[hashPrevBlock[b]]
        /\ bnChainWork[hashPrevBlock[b]] \in Nat /\ bnChainWork[b] \in Nat
        /\ bnChainWork[pblock] \in Nat
        /\ bnChainWork[b] <= bnChainWork[pblock]
        /\ LeadsUpFrom(b)
        /\ vpindexSecondary \in Seq(Block)
    BY <1>a, <1>9 DEF PostponeConnect, CanPostpone, BranchInv, TypeOK, IndexInv
  <2>2. bnChainWork[hashPrevBlock[b]] <= bnChainWork[pblock]
    BY <2>1, ChildHasMoreWork
  <2>3. /\ vpindexSecondary' = <<b>> \o vpindexSecondary
        /\ pindexIntermediate' = hashPrevBlock[b]
        /\ UNCHANGED <<mapBlockIndex, bnChainWork, pindexBest, dbBest, pblock, pc>>
        /\ pc = "reorganize"
    BY <1>9 DEF PostponeConnect, Postponed, memVars, dbVars
  <2>4. ASSUME NEW i \in DOMAIN vpindexSecondary'
        PROVE  /\ vpindexSecondary'[i] \in mapBlockIndex \ {Genesis}
               /\ hashPrevBlock[vpindexSecondary'[i]]
                    = IF i = 1 THEN hashPrevBlock[b] ELSE vpindexSecondary'[i - 1]
               /\ bnChainWork[vpindexSecondary'[i]] <= bnChainWork[pblock]
    <3>1. CASE i = 1
      <4>1. vpindexSecondary'[i] = b
        BY <2>1, <2>3, <3>1
      <4> QED
        BY <2>1, <3>1, <4>1
    <3>2. CASE i # 1
      <4>1. /\ i - 1 \in DOMAIN vpindexSecondary
            /\ vpindexSecondary'[i] = vpindexSecondary[i - 1]
            /\ vpindexSecondary'[i - 1]
                 = IF i - 1 = 1 THEN b ELSE vpindexSecondary[i - 1 - 1]
        BY <2>1, <2>3, <3>2
      <4> QED
        BY <2>1, <3>2, <4>1 DEF LeadsUpFrom
    <3> QED
      BY <3>1, <3>2
  <2> QED
    BY <1>a, <2>1, <2>2, <2>3, <2>4 DEF BranchInv, LeadsUpFrom
<1>10. CASE Reorganize
  BY <1>a, <1>10 DEF Reorganize, branchVars, BranchInv, LeadsUpFrom, TypeOK
<1>11. CASE ReorganizeFails
  BY <1>a, <1>11, NoBranch DEF ReorganizeFails, memVars, dbVars
<1>12. CASE ResurrectTx \/ DeleteTx
  BY <1>a, <1>12, SameBranch DEF ResurrectTx, DeleteTx, memVars, dbVars
<1>13. CASE ConnectSecondary
  <2>1. /\ dbBest' = Head(vpindexSecondary)
        /\ vpindexSecondary' = Tail(vpindexSecondary)
        /\ UNCHANGED <<mapBlockIndex, bnChainWork, pindexBest, pblock>>
        /\ pc = "mempool" /\ pc' = "mempool"
        /\ PoolUpdated /\ vpindexSecondary # <<>>
    BY <1>13 DEF ConnectSecondary, SetBestChainInner, PoolUpdated
  <2>2. vpindexSecondary \in Seq(Block) /\ LeadsUpFrom(dbBest)
    BY <1>a, <2>1 DEF TypeOK, BranchInv
  <2>3. LeadsUpFrom(dbBest)'
    <3> SUFFICES ASSUME NEW i \in DOMAIN Tail(vpindexSecondary)
                 PROVE  /\ Tail(vpindexSecondary)[i] \in mapBlockIndex \ {Genesis}
                        /\ hashPrevBlock[Tail(vpindexSecondary)[i]]
                             = IF i = 1 THEN Head(vpindexSecondary)
                               ELSE Tail(vpindexSecondary)[i - 1]
                        /\ bnChainWork[Tail(vpindexSecondary)[i]] <= bnChainWork[pblock]
      BY <2>1 DEF LeadsUpFrom
    <3>1. /\ Tail(vpindexSecondary)[i] = vpindexSecondary[i + 1]
          /\ i + 1 \in DOMAIN vpindexSecondary
          /\ i \in Nat /\ i >= 1
      BY <2>1, <2>2, NextSecondary
    <3>2. vpindexSecondary[i] = IF i = 1 THEN Head(vpindexSecondary)
                                ELSE Tail(vpindexSecondary)[i - 1]
      BY <2>1, <2>2, <3>1
    <3>3. /\ vpindexSecondary[i + 1] \in mapBlockIndex \ {Genesis}
          /\ hashPrevBlock[vpindexSecondary[i + 1]] = vpindexSecondary[i]
          /\ bnChainWork[vpindexSecondary[i + 1]] <= bnChainWork[pblock]
      <4>1. i + 1 # 1 /\ (i + 1) - 1 = i
        BY <3>1
      <4> QED
        BY <2>2, <3>1, <4>1 DEF LeadsUpFrom
    <3> QED
      BY <3>1, <3>2, <3>3
  <2> QED
    BY <1>a, <2>1, <2>3, NextSecondary DEF BranchInv
<1>14. CASE ConnectSecondaryFails
  BY <1>a, <1>14
  DEF ConnectSecondaryFails, PoolUpdated, memVars, dbVars, BranchInv, LeadsUpFrom
<1>15. CASE NewBestBlock
  BY <1>a, <1>15 DEF NewBestBlock, PoolUpdated, dbVars, BranchInv
<1>16. CASE BlockAccepted \/ BlockRejected \/ AcceptOrphan \/ OrphansDone
  BY <1>a, <1>16, NoBranch
  DEF BlockAccepted, BlockRejected, AcceptOrphan, OrphansDone, memVars, dbVars,
      branchVars, BranchInv
<1>17. ASSUME NEW t \in LooseTx, AcceptToMemoryPool(t)
       PROVE  BranchInv'
  BY <1>a, <1>17, SameBranch DEF AcceptToMemoryPool, memVars, dbVars
<1>18. CASE CrashRestart
  BY <1>a, <1>18 DEF CrashRestart, dbVars, BranchInv, TypeOK
<1> QED
  BY <1>1, <1>2, <1>3, <1>4, <1>5, <1>6, <1>7, <1>8, <1>9, <1>10, <1>11, <1>12, <1>13,
     <1>14, <1>15, <1>16, <1>17, <1>18
  DEF Next, HandlerStep

-----------------------------------------------------------------------------
(* Types.                                                                  *)

LEMMA FaultCounted ==
  ASSUME TypeOK, NEW kinds, Fault(kinds)
  PROVE  nFaults' \in 0..MaxFaults /\ nCrashes' \in 0..MaxCrashes
  BY BoundAssumption DEF TypeOK, Fault

LEMMA TypeStep ==
  ASSUME IInv, [Next]_vars
  PROVE  TypeOK'
<1> USE BlockAssumption, BoundAssumption
<1>a. TypeOK /\ PoolTypeOK'
  BY PoolStep DEF IInv, PoolInv
<1>1. CASE UNCHANGED vars
  BY <1>a, <1>1 DEF vars, TypeOK
<1>2. ASSUME NEW b \in Block \ {Genesis}, ReceiveBlock(b)
      PROVE  TypeOK'
  BY <1>a, <1>2, SMTT(30)
  DEF ReceiveBlock, RejectBlock, AddOrphanBlock, ProcessBlock, vars, memVars, orphanVars,
      dbVars, branchVars, countVars, TypeOK, PC
<1>3. CASE AcceptBlockFails
  BY <1>a, <1>3, SMTT(30)
  DEF AcceptBlockFails, Fault, NoFault, memVars, orphanVars, dbVars, branchVars,
      countVars, TypeOK, PC
<1>4. CASE AddToBlockIndex \/ AddToBlockIndexFails
  <2>1. bnChainWork[hashPrevBlock[pblock]] + GetBlockWork[pblock] \in Nat
    BY <1>a, <1>4 DEF AddToBlockIndex, AddToBlockIndexFails, Acceptable, TypeOK
  <2>2. /\ mapBlockIndex' \subseteq Block
        /\ bnChainWork' \in [Block -> Nat]
        /\ pnext' \in [Block -> Block \cup {Null}]
        /\ pindexBest' \in mapBlockIndex'
    <3>1. InsertBlockIndex(pblock) /\ pblock \in Block
      BY <1>a, <1>4 DEF AddToBlockIndex, AddToBlockIndexFails, TypeOK
    <3> QED
      BY <1>a, <2>1, <3>1 DEF InsertBlockIndex, TypeOK
  <2>3. CASE AddToBlockIndex
    BY <1>a, <2>2, <2>3
    DEF AddToBlockIndex, WithDiskBlockIndex, NoFault, orphanVars, branchVars, countVars,
        TypeOK, PC
  <2>4. CASE AddToBlockIndexFails
    <3>1. nFaults' \in 0..MaxFaults /\ nCrashes' \in 0..MaxCrashes
      BY <1>a, <2>4, FaultCounted DEF AddToBlockIndexFails
    <3> QED
      BY <1>a, <2>2, <2>4, <3>1
      DEF AddToBlockIndexFails, orphanVars, dbVars, branchVars, TypeOK, PC
  <2> QED
    BY <1>4, <2>3, <2>4
<1>5. CASE SetBestChainFails \/ ExtendBestChainFails
  <2>1. nFaults' \in 0..MaxFaults /\ nCrashes' \in 0..MaxCrashes
    BY <1>a, <1>5, FaultCounted
    DEF SetBestChainFails, ExtendBestChainFails, NoFault, countVars, TypeOK
  <2>2. bnBestInvalidWork' \in Nat
    BY <1>a, <1>5
    DEF SetBestChainFails, ExtendBestChainFails, InvalidChainFound, TypeOK
  <2>3. ActivationFails
    BY <1>5 DEF SetBestChainFails, ExtendBestChainFails
  <2> QED
    BY <1>a, <2>1, <2>2, <2>3
    DEF ActivationFails, memVars, orphanVars, dbVars, branchVars, TypeOK, PC
<1>6. CASE ExtendBestChain
  BY <1>a, <1>6
  DEF ExtendBestChain, SetBestChainInner, NoFault, orphanVars, branchVars, countVars,
      TypeOK, PC
<1>7. CASE SwitchBranch
  BY <1>a, <1>7
  DEF SwitchBranch, memVars, orphanVars, dbVars, countVars, TypeOK, PC
<1>8. CASE PostponeConnect
  BY <1>a, <1>8, SMTT(30)
  DEF PostponeConnect, CanPostpone, Postponed, memVars, orphanVars, dbVars, countVars,
      TypeOK
<1>9. CASE Reorganize
  BY <1>a, <1>9
  DEF Reorganize, Relink, NoFault, orphanVars, branchVars, countVars, TypeOK, PC
<1>10. CASE ReorganizeFails
  <2>1. nFaults' \in 0..MaxFaults /\ nCrashes' \in 0..MaxCrashes
    BY <1>a, <1>10, FaultCounted DEF ReorganizeFails, NoFault, countVars, TypeOK
  <2>2. bnBestInvalidWork' \in Nat
    BY <1>a, <1>10 DEF ReorganizeFails, InvalidChainFound, TypeOK
  <2> QED
    BY <1>a, <1>10, <2>1, <2>2, SMTT(30)
    DEF ReorganizeFails, memVars, orphanVars, dbVars, TypeOK, PC
<1>11. CASE ResurrectTx \/ DeleteTx
  BY <1>a, <1>11
  DEF ResurrectTx, DeleteTx, memVars, orphanVars, dbVars, branchVars, countVars, TypeOK
<1>12. CASE ConnectSecondary
  BY <1>a, <1>12, NextSecondary, SMTT(30)
  DEF ConnectSecondary, SetBestChainInner, NoFault, orphanVars, countVars, TypeOK, PC,
      IInv, IndexInv
<1>13. CASE ConnectSecondaryFails
  <2>1. Head(vpindexSecondary) \in Block
    BY <1>a, <1>13 DEF ConnectSecondaryFails, TypeOK
  <2>2. bnBestInvalidWork' \in Nat
    BY <1>a, <1>13, <2>1 DEF ConnectSecondaryFails, InvalidChainFound, TypeOK
  <2>3. nFaults' \in 0..MaxFaults /\ nCrashes' \in 0..MaxCrashes
    BY <1>a, <1>13, SMTT(30) DEF ConnectSecondaryFails, Fault, NoFault, countVars, TypeOK
  <2> QED
    BY <1>a, <1>13, <2>2, <2>3, SMTT(30)
    DEF ConnectSecondaryFails, memVars, orphanVars, dbVars, TypeOK
<1>14. CASE NewBestBlock
  BY <1>a, <1>14
  DEF NewBestBlock, PoolUpdated, orphanVars, dbVars, countVars, TypeOK, PC, IInv,
      BranchInv
<1>15. CASE BlockAccepted \/ BlockRejected \/ AcceptOrphan \/ OrphansDone
  <2>1. CASE BlockAccepted
    BY <1>a, <2>1
    DEF BlockAccepted, Queued, memVars, dbVars, branchVars, countVars, TypeOK, PC
  <2>2. CASE BlockRejected \/ AcceptOrphan
    BY <1>a, <2>2
    DEF BlockRejected, AcceptOrphan, Waiting, memVars, orphanVars, dbVars, branchVars,
        countVars, TypeOK, PC
  <2>3. CASE OrphansDone
    <3>1. vWorkQueue' \in Seq(Block)
      BY <1>a, <2>3 DEF OrphansDone, TypeOK, IInv, OrphanInv
    <3> QED
      BY <1>a, <2>3, <3>1
      DEF OrphansDone, ErasedByPrev, memVars, dbVars, branchVars, countVars, TypeOK, PC
  <2> QED
    BY <1>15, <2>1, <2>2, <2>3
<1>16. ASSUME NEW t \in LooseTx, AcceptToMemoryPool(t)
       PROVE  TypeOK'
  BY <1>a, <1>16
  DEF AcceptToMemoryPool, memVars, orphanVars, dbVars, branchVars, countVars, TypeOK
<1>17. CASE CrashRestart
  BY <1>a, <1>17 DEF CrashRestart, DatabaseLoads, dbVars, TypeOK, PC
<1> QED
  BY <1>1, <1>2, <1>3, <1>4, <1>5, <1>6, <1>7, <1>8, <1>9, <1>10, <1>11, <1>12, <1>13,
     <1>14, <1>15, <1>16, <1>17
  DEF Next, HandlerStep

-----------------------------------------------------------------------------
THEOREM Invariance == Spec => []IInv
<1>1. Init => IInv
  BY InitInv
<1>2. IInv /\ [Next]_vars => IInv'
  BY TypeStep, PoolStep, OrphanStep, IndexStep, BranchStep DEF IInv, PoolInv
<1> QED
  BY <1>1, <1>2, PTL DEF Spec

(* Every reachable state has the type the code gives it.                   *)
THEOREM TypeCorrect == Spec => []TypeOK
<1>1. IInv => TypeOK
  BY DEF IInv
<1> QED
  BY <1>1, Invariance, PTL

(* Through any sequence of submissions, reorganizations and restarts       *)
(* mapNextTx stays the inverse of the inputs of the pool.                  *)
THEOREM PoolConsistent == Spec => []NextTxIsInverse
<1>1. IInv => NextTxIsInverse
  BY DEF IInv
<1> QED
  BY <1>1, Invariance, PTL

(* When ProcessBlock returns, whichever orphans it accepted or rejected,   *)
(* the two orphan maps agree and no indexed block is held.                 *)
THEOREM OrphanMapsConsistent == Spec => []OrphanMapsAgree
<1>1. IInv => OrphanMapsAgree
  BY DEF IInv, OrphanInv, OrphanMapsAgree
<1> QED
  BY <1>1, Invariance, PTL

-----------------------------------------------------------------------------
(* The best block, on disk and in memory.                                  *)

\* The best block on disk changes in three steps only.
LEMMA DiskBestGrows ==
  ASSUME IInv, [Next]_vars, dbBest' # dbBest
  PROVE  bnChainWork'[dbBest'] > bnChainWork[dbBest]
<1>a. TypeOK /\ IndexInv /\ BranchInv
  BY DEF IInv
<1>1. ExtendBestChain \/ Reorganize \/ ConnectSecondary
  BY DEF Next, vars, memVars, dbVars, ReceiveBlock, RejectBlock, AddOrphanBlock,
      ProcessBlock, HandlerStep, AcceptBlockFails, AddToBlockIndex, AddToBlockIndexFails,
      SetBestChainFails, ActivationFails, ExtendBestChainFails, SwitchBranch,
      PostponeConnect, ReorganizeFails, ResurrectTx, DeleteTx, ConnectSecondaryFails,
      NewBestBlock, BlockAccepted, BlockRejected, AcceptOrphan, OrphansDone,
      AcceptToMemoryPool, CrashRestart
<1>2. CASE ExtendBestChain
  BY <1>a, <1>2 DEF ExtendBestChain, SetBestChainInner, BranchInv, TypeOK
<1>3. CASE Reorganize
  BY <1>a, <1>3 DEF Reorganize, BranchInv, TypeOK
<1>4. CASE ConnectSecondary
  BY <1>4, NextSecondary, ChildHasMoreWork DEF ConnectSecondary, SetBestChainInner
<1> QED
  BY <1>1, <1>2, <1>3, <1>4

LEMMA MemoryBestGrows ==
  ASSUME IInv, [Next]_vars, pindexBest' # pindexBest
  PROVE  \/ bnChainWork'[pindexBest'] > bnChainWork[pindexBest]
         \/ nCrashes' > nCrashes
<1>a. TypeOK /\ BranchInv
  BY DEF IInv
<1>1. NewBestBlock \/ CrashRestart
  BY DEF Next, vars, memVars, ReceiveBlock, RejectBlock, AddOrphanBlock, ProcessBlock,
      HandlerStep, AcceptBlockFails, AddToBlockIndex, AddToBlockIndexFails,
      InsertBlockIndex, SetBestChainFails, ActivationFails, ExtendBestChain,
      ExtendBestChainFails, SetBestChainInner, SwitchBranch, PostponeConnect, Reorganize,
      ReorganizeFails, ResurrectTx, DeleteTx, ConnectSecondary, ConnectSecondaryFails,
      BlockAccepted, BlockRejected, AcceptOrphan, OrphansDone, AcceptToMemoryPool
<1>2. CASE NewBestBlock
  BY <1>a, <1>2 DEF NewBestBlock, PoolUpdated, BranchInv, TypeOK
<1>3. CASE CrashRestart
  BY <1>a, <1>3 DEF CrashRestart, TypeOK
<1> QED
  BY <1>1, <1>2, <1>3

(* No step of ProcessBlock, and no error or crash in the middle of it,     *)
(* ever exchanges the best block for one of as much work or less.          *)
THEOREM BestWorkNeverShrinks == Spec => BestWorkGrows
<1> DEFINE Grows ==
      /\ dbBest' # dbBest => bnChainWork'[dbBest'] > bnChainWork[dbBest]
      /\ \/ pindexBest' = pindexBest
         \/ bnChainWork'[pindexBest'] > bnChainWork[pindexBest]
         \/ nCrashes' > nCrashes
<1>1. IInv /\ [Next]_vars => [Grows]_vars
  BY DiskBestGrows, MemoryBestGrows
<1> QED
  BY <1>1, Invariance, PTL DEF Spec, BestWorkGrows

-----------------------------------------------------------------------------
(* What is on disk at a crash.                                             *)

\* Without an error of the commit that adds a block, disk and memory agree.
DiskIndexComplete == "index" \notin FaultKind => dbIndex = mapBlockIndex

LEMMA DiskIndexStep ==
  ASSUME IInv, DiskIndexComplete, [Next]_vars
  PROVE  DiskIndexComplete'
<1> USE DEF DiskIndexComplete
<1>a. TypeOK /\ IndexInv /\ IndexInv' /\ BranchInv
  BY IndexStep DEF IInv
<1>1. CASE UNCHANGED <<mapBlockIndex, dbIndex>>
  BY <1>1
<1>2. CASE AddToBlockIndex
  BY <1>2 DEF AddToBlockIndex, InsertBlockIndex, WithDiskBlockIndex
<1>3. CASE AddToBlockIndexFails
  BY <1>3 DEF AddToBlockIndexFails, Fault
<1>4. CASE ExtendBestChain \/ Reorganize \/ ConnectSecondary
  <2>1. mapBlockIndex' = mapBlockIndex /\ dbIndex \subseteq dbIndex'
    BY <1>4 DEF ExtendBestChain, Reorganize, ConnectSecondary, SetBestChainInner
  <2> QED
    BY <1>a, <2>1 DEF IndexInv
<1>5. CASE CrashRestart
  BY <1>5 DEF CrashRestart, dbVars
<1> QED
  BY <1>1, <1>2, <1>3, <1>4, <1>5
  DEF Next, vars, memVars, dbVars, ReceiveBlock, RejectBlock, AddOrphanBlock,
      ProcessBlock, HandlerStep, AcceptBlockFails, SetBestChainFails, ActivationFails,
      ExtendBestChainFails, SwitchBranch, PostponeConnect, ReorganizeFails, ResurrectTx,
      DeleteTx, ConnectSecondaryFails, NewBestBlock, BlockAccepted, BlockRejected,
      AcceptOrphan, OrphansDone, AcceptToMemoryPool

(* At every point at which the process may die it can start again from     *)
(* what is on disk.                                                        *)
THEOREM RestartAlwaysPossible == Spec => []RestartPossible
<1>1. Init => DiskIndexComplete
  BY DEF Init, DiskIndexComplete
<1>2. IInv /\ DiskIndexComplete /\ [Next]_vars => DiskIndexComplete'
  BY DiskIndexStep
<1>3. IInv /\ DiskIndexComplete => RestartPossible
  BY DEF IInv, IndexInv, DiskIndexComplete, RestartPossible, DatabaseLoads
<1> QED
  BY <1>1, <1>2, <1>3, Invariance, PTL DEF Spec

-----------------------------------------------------------------------------
(* Hypothesis of what follows about the database: the best block in memory *)
(* is the one on disk, but while SetBestChain commits blocks.  By itself   *)
(* Spec does not give it: the run postponed_connect shows how an error of  *)
(* the blocks connected last breaks it.  MemoryIsDisk says that nothing    *)
(* else does.                                                              *)
MemoryMatchesDisk == pc # "mempool" => pindexBest = dbBest

-----------------------------------------------------------------------------
(* Memory and disk.                                                        *)

\* The blocks still to connect after b end in pblock.
EndsInBlock(b) ==
  IF vpindexSecondary = <<>> THEN b = pblock
  ELSE vpindexSecondary[Len(vpindexSecondary)] = pblock

\* Where SetBestChain is on its way from the one best block to the other.
MemoryInv ==
  /\ MemoryMatchesDisk
  /\ pc = "reorganize" => EndsInBlock(pindexIntermediate)
  /\ pc = "mempool" => EndsInBlock(dbBest)

LEMMA MemoryStep ==
  ASSUME IInv, MemoryInv, [Next]_vars, ~ConnectSecondaryFails \/ UNCHANGED vars
  PROVE  MemoryInv'
<1> USE DEF MemoryMatchesDisk
<1>a. TypeOK /\ BranchInv
  BY DEF IInv
<1>1. CASE UNCHANGED vars
  BY <1>1 DEF vars, MemoryInv, EndsInBlock
<1>2. CASE UNCHANGED <<pindexBest, dbBest>> /\ pc \notin {"reorganize", "mempool"}
           /\ pc' \notin {"reorganize", "mempool"}
  BY <1>2 DEF MemoryInv
<1>3. CASE ExtendBestChain
  BY <1>a, <1>3 DEF ExtendBestChain, SetBestChainInner, branchVars, BranchInv, MemoryInv,
                    EndsInBlock
<1>4. CASE SwitchBranch
  BY <1>a, <1>4 DEF SwitchBranch, memVars, dbVars, BranchInv, MemoryInv, EndsInBlock
<1>5. CASE PostponeConnect
  <2>1. PICK s, b : s = vpindexSecondary /\ b = pindexIntermediate /\ s \in Seq(Block)
    BY <1>a DEF TypeOK
  <2>2. vpindexSecondary' = <<b>> \o s /\ b \in Block
    BY <1>a, <1>5, <2>1 DEF PostponeConnect, Postponed, TypeOK
  <2>3. PICK u : u = <<b>> \o s
    OBVIOUS
  <2>4. /\ u # <<>> /\ Len(u) = Len(s) + 1
        /\ u[Len(u)] = IF s = <<>> THEN b ELSE s[Len(s)]
    BY <2>1, <2>2, <2>3
  <2>5. pc = "reorganize" /\ UNCHANGED <<pc, pblock, pindexBest, dbBest>>
    BY <1>5 DEF PostponeConnect, memVars, dbVars
  <2> QED
    BY <2>1, <2>2, <2>3, <2>4, <2>5 DEF MemoryInv, EndsInBlock
<1>6. CASE Reorganize
  BY <1>6 DEF Reorganize, branchVars, MemoryInv, EndsInBlock
<1>7. CASE ReorganizeFails
  BY <1>7 DEF ReorganizeFails, memVars, dbVars, MemoryInv
<1>8. CASE ResurrectTx \/ DeleteTx
  BY <1>8 DEF ResurrectTx, DeleteTx, memVars, dbVars, branchVars, MemoryInv, EndsInBlock
<1>9. CASE ConnectSecondary
  <2>1. PICK s : s = vpindexSecondary /\ s \in Seq(Block) /\ s # <<>>
    BY <1>a, <1>9 DEF TypeOK, ConnectSecondary
  <2>2. /\ vpindexSecondary' = Tail(s) /\ dbBest' = Head(s)
        /\ UNCHANGED <<pblock, pindexBest>> /\ pc = "mempool" /\ pc' = "mempool"
    BY <1>9, <2>1 DEF ConnectSecondary, SetBestChainInner, PoolUpdated
  <2>3. s[Len(s)] = pblock
    BY <2>1, <2>2 DEF MemoryInv, EndsInBlock
  <2>4. IF Tail(s) = <<>> THEN Head(s) = s[Len(s)] ELSE Tail(s)[Len(Tail(s))] = s[Len(s)]
    <3>1. PICK l \in Nat \ {0} : l = Len(s)
      BY <2>1
    <3>2. PICK u : u = Tail(s)
      OBVIOUS
    <3>3. /\ u \in Seq(Block) /\ Len(u) = l - 1 /\ Head(s) = s[1]
          /\ \A i \in 1..Len(u) : u[i] = s[i + 1]
      BY <2>1, <3>1, <3>2, HeadTailProperties
    <3>4. CASE l = 1
      <4>1. u = <<>>
        BY <3>3, <3>4, EmptySeq
      <4> QED
        BY <3>1, <3>2, <3>3, <3>4, <4>1
    <3>5. CASE l # 1
      <4>1. Len(u) = l - 1 /\ l - 1 \in 1..Len(u) /\ (l - 1) + 1 = l /\ u # <<>>
        BY <3>1, <3>3, <3>5
      <4>2. u[l - 1] = s[l]
        BY <3>3, <4>1
      <4> QED
        BY <3>1, <3>2, <4>1, <4>2
    <3> QED
      BY <3>4, <3>5
  <2> QED
    BY <2>2, <2>3, <2>4 DEF MemoryInv, EndsInBlock
<1>10. CASE NewBestBlock
  BY <1>10 DEF NewBestBlock, PoolUpdated, dbVars, MemoryInv, EndsInBlock
<1>11. CASE CrashRestart
  BY <1>11 DEF CrashRestart, dbVars, MemoryInv
<1> QED
  BY <1>1, <1>2, <1>3, <1>4, <1>5, <1>6, <1>7, <1>8, <1>9, <1>10, <1>11
  DEF Next, memVars, dbVars, ReceiveBlock, RejectBlock, AddOrphanBlock, ProcessBlock,
      HandlerStep, AcceptBlockFails, AddToBlockIndex, AddToBlockIndexFails,
      InsertBlockIndex, SetBestChainFails, ActivationFails, ExtendBestChainFails,
      BlockAccepted, BlockRejected, AcceptOrphan, OrphansDone, AcceptToMemoryPool

(* SetBestChain goes on after an error of the blocks it connects last      *)
(* (main.cpp:1644).  If that never happens, the best block in memory is    *)
(* the one on disk whenever ProcessBlock is not in the middle of           *)
(* connecting: through reorganizations, their errors, and restarts.        *)
THEOREM MemoryIsDisk == Spec /\ [][~ConnectSecondaryFails]_vars => []MemoryMatchesDisk
<1>1. Init => MemoryInv
  BY DEF Init, MemoryInv, MemoryMatchesDisk
<1>2. IInv /\ MemoryInv /\ [Next]_vars /\ [~ConnectSecondaryFails]_vars => MemoryInv'
  BY MemoryStep
<1>3. MemoryInv => MemoryMatchesDisk
  BY DEF MemoryInv
<1> QED
  BY <1>1, <1>2, <1>3, Invariance, PTL DEF Spec

-----------------------------------------------------------------------------
(* The transaction index.                                                  *)
\* The chain on disk obeys the rules, signatures aside, and the index is its own.
LedgerInv == SoundChain(ChainOf[dbBest]) /\ LedgerMatchesChain

LEMMA EmptyLedger == Init => LedgerInv
<1> SUFFICES ASSUME Init PROVE LedgerInv
  OBVIOUS
<1>1. PICK c : c = ChainOf[Genesis] /\ c = ChainOf[dbBest]
  BY DEF Init
<1>2. Places(c) = {} /\ Len(c) = 1
  <2>1. c = <<Genesis>>
    BY <1>1, ChainEquation, BlockAssumption
  <2>2. Len(c) = 1
    BY <2>1
  <2> QED
    BY <1>1, <2>2, GenesisPlaces
<1>3. SoundChain(c)
  <2>1. 2..1 = {}
    OBVIOUS
  <2> QED
    BY <1>2, <2>1 DEF SoundChain
<1>4. IndexOf(c) = <<>>
  <2>1. PICK P : P = {At(c, o) : o \in Places(c)}
    OBVIOUS
  <2>2. P = {}
    BY <1>2, <2>1
  <2> QED
    BY <2>1, <2>2 DEF IndexOf
<1> QED
  BY <1>1, <1>3, <1>4 DEF LedgerInv, LedgerMatchesChain, Init

LEMMA LedgerStep ==
  ASSUME DuplicatesStayUnspent, IInv, MemoryMatchesDisk, LedgerInv, [Next]_vars
  PROVE  LedgerInv'
<1>a. /\ mapBlockIndex \subseteq Block /\ dbBest \in Block /\ pblock \in Block
      /\ SoundChain(ChainOf[dbBest]) /\ dbTx = IndexOf(ChainOf[dbBest])
  BY DEF IInv, TypeOK, LedgerInv, LedgerMatchesChain
<1>1. CASE UNCHANGED <<dbBest, dbTx>>
  BY <1>1 DEF LedgerInv, LedgerMatchesChain
<1>2. ASSUME NEW b \in Block \ {Genesis}, hashPrevBlock[b] = dbBest, SetBestChainInner(b)
      PROVE  LedgerInv'
  <2>1. PICK r : r = Connected(b)
    OBVIOUS
  <2>2. r = ConnectBlock(OnChain(ChainOf[hashPrevBlock[b]]), b, fVerify)
    BY <1>2, <1>a, <2>1 DEF Connected, OnChain
  <2>3. r.ok /\ dbTx' = r.idx /\ dbBest' = b
    BY <1>2, <2>1 DEF SetBestChainInner
  <2>4. PICK c, d : /\ c = ChainOf[b] /\ d = ChainOf[hashPrevBlock[b]] /\ SoundChain(d)
    BY <1>2, <1>a
  <2>5. PICK f : f = fVerify
    OBVIOUS
  <2>6. r = ConnectBlock(OnChain(d), b, f)
    BY <2>2, <2>4, <2>5
  <2>7. SoundChain(c) /\ r = OnChain(c)
    <3>1. /\ r.ok <=> SoundChain(c) /\ (f => Signed(b))
          /\ r.ok => r = OnChain(c)
      BY <1>2, <2>4, <2>6, ConnectSound
    <3> QED
      BY <2>3, <3>1
  <2> QED
    BY <2>3, <2>4, <2>7 DEF OnChain, LedgerInv, LedgerMatchesChain
<1>3. CASE ExtendBestChain
  <2>1. pblock \in Block \ {Genesis} /\ hashPrevBlock[pblock] = dbBest
    BY <1>3, <1>a DEF IInv, BranchInv, ExtendBestChain, MemoryMatchesDisk
  <2> QED
    BY <1>2, <1>3, <2>1 DEF ExtendBestChain
<1>4. CASE Reorganize
  <2>1. PICK from, to, f :
          /\ from = pindexBest /\ to = pindexIntermediate /\ f = fVerify
          /\ from = dbBest /\ from \in Block /\ to \in Block
    BY <1>4, <1>a DEF IInv, TypeOK, MemoryMatchesDisk, Reorganize
  <2>2. PICK r, n : /\ r = ReorganizeIndex(IndexOf(ChainOf[from]), from, to, f)
                    /\ n = CommonLen(ChainOf[from], ChainOf[to])
    OBVIOUS
  <2>3. r.ok /\ dbTx' = r.idx /\ dbBest' = to
    BY <1>4, <1>a, <2>1, <2>2 DEF Reorganize, Reorganized
  <2>4. Connectable(to, n, f) /\ r.idx = IndexOf(ChainOf[to])
    BY <1>a, <2>1, <2>2, <2>3, ReorganizeSound
  <2> QED
    BY <2>3, <2>4 DEF Connectable, LedgerInv, LedgerMatchesChain
<1>5. CASE ConnectSecondary
  <2>1. PICK b : b = Head(vpindexSecondary) /\ SetBestChainInner(b)
    BY <1>5 DEF ConnectSecondary
  <2>2. b \in Block \ {Genesis} /\ hashPrevBlock[b] = dbBest
    BY <1>5, <1>a, <2>1, NextSecondary DEF ConnectSecondary
  <2> QED
    BY <1>2, <2>1, <2>2
<1> QED
  BY <1>1, <1>3, <1>4, <1>5
  DEF Next, vars, dbVars, ReceiveBlock, RejectBlock, AddOrphanBlock, ProcessBlock,
      HandlerStep, AcceptBlockFails, AddToBlockIndex, AddToBlockIndexFails,
      SetBestChainFails, ActivationFails, ExtendBestChainFails, SwitchBranch,
      PostponeConnect, ReorganizeFails, ResurrectTx, DeleteTx, ConnectSecondaryFails,
      NewBestBlock, BlockAccepted, BlockRejected, AcceptOrphan, OrphansDone,
      AcceptToMemoryPool, CrashRestart

(* The invariant of the transaction index, in every behaviour in which     *)
(* the best block in memory stays the one on disk.                         *)
THEOREM LedgerInvariance ==
  ASSUME DuplicatesStayUnspent
  PROVE  Spec /\ []MemoryMatchesDisk => []LedgerInv
<1>1. Init => LedgerInv
  BY EmptyLedger
<1>2. IInv /\ MemoryMatchesDisk /\ LedgerInv /\ [Next]_vars => LedgerInv'
  BY LedgerStep
<1> QED
  BY <1>1, <1>2, Invariance, PTL DEF Spec

(* Whatever blocks ConnectBlock, DisconnectBlock and Reorganize worked on, *)
(* and wherever they failed or the process died, the index on disk is that *)
(* of the chain that ends in the best block on disk.                       *)
THEOREM LedgerAlwaysMatches ==
  ASSUME DuplicatesStayUnspent
  PROVE  Spec /\ []MemoryMatchesDisk => []LedgerMatchesChain
<1>1. LedgerInv => LedgerMatchesChain
  BY DEF LedgerInv
<1> QED
  BY <1>1, LedgerInvariance, PTL

(* DisconnectBlock of the tip always gives the index from before it: what  *)
(* the comment in DisconnectInputs claims, where no coinbase comes twice.  *)
THEOREM DisconnectAlwaysRestores ==
  ASSUME DuplicatesStayUnspent
  PROVE  Spec /\ []MemoryMatchesDisk => []DisconnectRestores
<1>1. IInv /\ LedgerInv => DisconnectRestores
  <2> SUFFICES ASSUME IInv, LedgerInv, dbBest # Genesis
               PROVE  DisconnectBlock([ok |-> TRUE, idx |-> dbTx], dbBest).idx
                        = IndexOf(ChainOf[hashPrevBlock[dbBest]])
    BY DEF DisconnectRestores
  <2>1. PICK b, c, d : /\ b = dbBest /\ b \in Block \ {Genesis}
                       /\ c = ChainOf[b] /\ d = ChainOf[hashPrevBlock[b]]
                       /\ SoundChain(c) /\ dbTx = IndexOf(c)
    BY DEF IInv, TypeOK, LedgerInv, LedgerMatchesChain
  <2>2. DisconnectBlock(OnChain(c), b) = OnChain(d)
    BY <2>1, DisconnectSound
  <2> QED
    BY <2>1, <2>2 DEF OnChain
<1> QED
  BY <1>1, LedgerInvariance, Invariance, PTL

(* The unspent outputs of the index on disk are worth no more than the     *)
(* subsidies of the blocks of the best chain, under the same two           *)
(* hypotheses: no sequence of connected and disconnected blocks creates    *)
(* money, and no fee is counted twice.                                     *)
THEOREM NeverInflated ==
  ASSUME DuplicatesStayUnspent
  PROVE  Spec /\ []MemoryMatchesDisk => []NoInflation
<1>1. IInv /\ LedgerInv => NoInflation
  <2> SUFFICES ASSUME IInv, LedgerInv PROVE NoInflation
    OBVIOUS
  <2>1. PICK a : a = dbBest /\ a \in Block /\ SoundChain(ChainOf[a]) /\ dbTx = IndexOf(ChainOf[a])
    BY DEF IInv, TypeOK, LedgerInv, LedgerMatchesChain
  <2>2. Unspent(IndexOf(ChainOf[a])) <= Subsidies(ChainOf[a])
    BY <2>1, NoMoreThanSubsidies
  <2> QED
    BY <2>1, <2>2 DEF NoInflation
<1> QED
  BY <1>1, LedgerInvariance, Invariance, PTL

-----------------------------------------------------------------------------
(* The links to the next block.                                            *)

\* next leads from the genesis block along the chain c, and nowhere from other blocks.
Linked(next, c) ==
  /\ next \in [Block -> Block \cup {Null}]
  /\ \A i \in 1..Len(c) - 1 : next[c[i]] = c[i + 1]
  /\ \A b \in Block : (\A i \in 1..Len(c) - 1 : c[i] # b) => next[b] = Null

LinksInv == Linked(pnext, ChainOf[dbBest]) /\ Linked(dbNext, ChainOf[dbBest])

\* Every block on the way to an indexed one is in the index.
LEMMA ChainInIndex ==
  ASSUME IInv, NEW b \in mapBlockIndex, NEW i \in 1..Len(ChainOf[b])
  PROVE  ChainOf[b][i] \in mapBlockIndex
<1>1. PICK c, l : c = ChainOf[b] /\ l = Len(c)
  OBVIOUS
<1>2. b \in Block /\ \A a \in mapBlockIndex \ {Genesis} : hashPrevBlock[a] \in mapBlockIndex
  BY DEF IInv, TypeOK, IndexInv
<1>3. /\ l \in Nat \ {0} /\ c[l] = b
      /\ \A j \in 2..l : c[j] # Genesis /\ hashPrevBlock[c[j]] = c[j - 1]
  BY <1>1, <1>2, ChainFacts
<1> DEFINE Fails == {j \in 0..l : j # 0 /\ c[j] \notin mapBlockIndex}
<1>4. Fails = {}
  <2> SUFFICES ASSUME Fails # {} PROVE FALSE
    OBVIOUS
  <2>1. PICK m \in Fails : \A k \in Fails : k <= m
    <3>1. Fails \subseteq 0..l
      OBVIOUS
    <3> HIDE DEF Fails
    <3> QED
      BY <1>3, <3>1, GreatestExists
  <2>2. m \in 1..l /\ c[m] \notin mapBlockIndex /\ m # l
    BY <1>3, <2>1
  <2>3. PICK k : k = m + 1 /\ k \in 2..l /\ k - 1 = m /\ k \in 0..l /\ k # 0 /\ ~(k <= m)
    BY <1>3, <2>2
  <2>4. c[k] \in mapBlockIndex
    BY <2>1, <2>3
  <2>5. c[k] # Genesis /\ hashPrevBlock[c[k]] = c[m]
    BY <1>3, <2>3
  <2> QED
    BY <1>2, <2>2, <2>4, <2>5
<1> QED
  BY <1>1, <1>3, <1>4

\* A block after the last one.
LEMMA LinkExtends ==
  ASSUME NEW b \in Block \ {Genesis}, NEW c, NEW d, NEW next,
         c = ChainOf[b], d = ChainOf[hashPrevBlock[b]], Linked(next, d)
  PROVE  Linked([next EXCEPT ![hashPrevBlock[b]] = b], c)
<1>1. PICK p, n, l : p = hashPrevBlock[b] /\ n = [next EXCEPT ![p] = b] /\ l = Len(d)
  OBVIOUS
<1>2. /\ p \in Block /\ l \in Nat \ {0} /\ d[l] = p
  BY <1>1, ParentChain, ChainFacts
<1>3. Len(c) = l + 1 /\ c[l + 1] = b /\ \A i \in 1..l : c[i] = d[i]
  BY <1>1, ParentChain
<1>4. n \in [Block -> Block \cup {Null}] /\ n[p] = b /\ \A a \in Block \ {p} : n[a] = next[a]
  BY <1>1, <1>2 DEF Linked
<1>5. ASSUME NEW i \in 1..l PROVE n[c[i]] = c[i + 1]
  <2>1. CASE i = l
    BY <1>2, <1>3, <1>4, <2>1
  <2>2. CASE i # l
    <3>1. i \in 1..l - 1 /\ i + 1 \in 1..l /\ l \in 1..l
      BY <1>2, <2>2
    <3>2. d[i] # p
      BY <1>1, <1>2, <2>2, <3>1, BlocksDiffer
    <3>3. d[i] \in Block
      BY <1>1, <1>2, <3>1, PartLength
    <3>4. next[d[i]] = d[i + 1]
      BY <1>1, <3>1 DEF Linked
    <3> QED
      BY <1>3, <1>4, <3>1, <3>2, <3>3, <3>4
  <2> QED
    BY <2>1, <2>2
<1>6. ASSUME NEW a \in Block, \A i \in 1..l : c[i] # a PROVE n[a] = Null
  <2>1. a # p
    BY <1>2, <1>3, <1>6
  <2>2. \A i \in 1..l - 1 : d[i] # a
    BY <1>2, <1>3, <1>6
  <2>3. next[a] = Null
    BY <1>1, <2>2 DEF Linked
  <2> QED
    BY <1>4, <2>1, <2>3
<1>7. Len(c) - 1 = l
  BY <1>2, <1>3
<1> QED
  BY <1>1, <1>4, <1>5, <1>6, <1>7 DEF Linked

\* Another branch from a fork on.
LEMMA LinkSwitches ==
  ASSUME NEW from \in Block, NEW to \in Block, NEW next, NEW off, NEW on, NEW c, NEW d, NEW n,
         c = ChainOf[from], d = ChainOf[to], n = CommonLen(c, d), Linked(next, c),
         off = {c[i] : i \in n + 1..Len(c)}, on = {d[i] : i \in n + 1..Len(d)}
  PROVE  Linked(Relink(next, off, on), d)
<1>1. PICK k, l, x : k = Len(c) /\ l = Len(d) /\ x = Relink(next, off, on)
  OBVIOUS
<1>2. /\ k \in Nat \ {0} /\ l \in Nat \ {0}
      /\ n \in 1..k /\ n \in 1..l /\ \A i \in 1..n : c[i] = d[i]
  <2>1. k \in Nat \ {0} /\ l \in Nat \ {0}
    BY <1>1, ChainFacts
  <2>2. n \in 1..Len(c) /\ n \in 1..Len(d) /\ \A i \in 1..n : c[i] = d[i]
    BY ForkFacts
  <2> QED
    BY <1>1, <2>1, <2>2
<1>3. /\ \A i \in 1..k : c[i] \in Block
      /\ \A i, j \in 1..k : c[i] = c[j] => i = j
      /\ \A i \in 2..k : hashPrevBlock[c[i]] = c[i - 1]
  <2>1. \A i \in 1..k : c[i] \in Block
    BY <1>1, PartLength
  <2>2. \A i, j \in 1..k : c[i] = c[j] => i = j
    BY <1>1, BlocksDiffer
  <2>3. \A i \in 2..k : hashPrevBlock[c[i]] = c[i - 1]
    BY <1>1, ChainFacts
  <2> QED
    BY <2>1, <2>2, <2>3
<1>4. /\ \A i \in 1..l : d[i] \in Block
      /\ \A i, j \in 1..l : d[i] = d[j] => i = j
      /\ \A i \in 2..l : hashPrevBlock[d[i]] = d[i - 1]
  <2>1. \A i \in 1..l : d[i] \in Block
    BY <1>1, PartLength
  <2>2. \A i, j \in 1..l : d[i] = d[j] => i = j
    BY <1>1, BlocksDiffer
  <2>3. \A i \in 2..l : hashPrevBlock[d[i]] = d[i - 1]
    BY <1>1, ChainFacts
  <2> QED
    BY <2>1, <2>2, <2>3
<1>5. /\ next \in [Block -> Block \cup {Null}]
      /\ \A i \in 1..k - 1 : next[c[i]] = c[i + 1]
      /\ \A b \in Block : (\A i \in 1..k - 1 : c[i] # b) => next[b] = Null
  BY <1>1 DEF Linked
<1>6. \A b \in Block :
        x[b] = IF \E a \in on : hashPrevBlock[a] = b THEN CHOOSE a \in on : hashPrevBlock[a] = b
               ELSE IF \E a \in off : hashPrevBlock[a] = b THEN Null
               ELSE next[b]
  BY <1>1 DEF Relink
<1>7. ASSUME NEW b
      PROVE  (\E a \in off : hashPrevBlock[a] = b) <=> \E j \in n..k - 1 : c[j] = b
  <2>1. ASSUME NEW a \in off, hashPrevBlock[a] = b PROVE \E j \in n..k - 1 : c[j] = b
    <3>1. PICK i \in n + 1..k : a = c[i]
      BY <1>1
    <3>2. i \in 2..k /\ i - 1 \in n..k - 1
      BY <1>2, <3>1
    <3> QED
      BY <1>3, <2>1, <3>1, <3>2
  <2>2. ASSUME NEW j \in n..k - 1, c[j] = b PROVE \E a \in off : hashPrevBlock[a] = b
    <3>1. PICK i : i = j + 1 /\ i \in n + 1..k /\ i \in 2..k /\ i - 1 = j
      BY <1>2
    <3>2. c[i] \in off
      BY <1>1, <3>1
    <3> QED
      BY <1>3, <2>2, <3>1, <3>2
  <2> QED
    BY <2>1, <2>2
<1>8. ASSUME NEW b
      PROVE  (\E a \in on : hashPrevBlock[a] = b) <=> \E j \in n..l - 1 : d[j] = b
  <2>1. ASSUME NEW a \in on, hashPrevBlock[a] = b PROVE \E j \in n..l - 1 : d[j] = b
    <3>1. PICK i \in n + 1..l : a = d[i]
      BY <1>1
    <3>2. i \in 2..l /\ i - 1 \in n..l - 1
      BY <1>2, <3>1
    <3> QED
      BY <1>4, <2>1, <3>1, <3>2
  <2>2. ASSUME NEW j \in n..l - 1, d[j] = b PROVE \E a \in on : hashPrevBlock[a] = b
    <3>1. PICK i : i = j + 1 /\ i \in n + 1..l /\ i \in 2..l /\ i - 1 = j
      BY <1>2
    <3>2. d[i] \in on
      BY <1>1, <3>1
    <3> QED
      BY <1>4, <2>2, <3>1, <3>2
  <2> QED
    BY <2>1, <2>2
<1>9. ASSUME NEW i \in 1..l - 1 PROVE x[d[i]] = d[i + 1]
  <2>1. d[i] \in Block
    BY <1>2, <1>4
  <2>2. CASE i >= n
    <3>1. i \in n..l - 1 /\ i + 1 \in n + 1..l /\ i \in 1..l
      BY <1>2, <2>2
    <3>2. PICK a : a = CHOOSE z \in on : hashPrevBlock[z] = d[i]
      OBVIOUS
    <3>3. a \in on /\ hashPrevBlock[a] = d[i]
      BY <1>8, <3>1, <3>2
    <3>4. PICK j \in n + 1..l : a = d[j]
      BY <1>1, <3>3
    <3>5. j \in 2..l /\ j - 1 \in 1..l
      BY <1>2
    <3>6. d[j - 1] = d[i]
      BY <1>4, <3>3, <3>4, <3>5
    <3>7. j - 1 = i
      BY <1>4, <3>1, <3>5, <3>6
    <3>8. j = i + 1
      BY <1>2, <3>7
    <3>9. x[d[i]] = a
      BY <1>6, <2>1, <3>2, <3>3
    <3> QED
      BY <3>4, <3>8, <3>9
  <2>3. CASE i < n
    <3>1. i \in 1..n /\ i + 1 \in 1..n /\ i \in 1..l /\ i \in 1..k /\ i \in 1..k - 1
      BY <1>2, <2>3
    <3>2. ~\E j \in n..l - 1 : d[j] = d[i]
      BY <1>2, <1>4, <2>3, <3>1
    <3>3. ~\E j \in n..k - 1 : c[j] = c[i]
      BY <1>2, <1>3, <2>3, <3>1
    <3>4. c[i] = d[i] /\ c[i + 1] = d[i + 1]
      BY <1>2, <3>1
    <3>5. PICK b : b = d[i] /\ b \in Block /\ b = c[i]
      BY <2>1, <3>4
    <3>6. ~\E a \in on : hashPrevBlock[a] = b
      BY <1>8, <3>2, <3>5
    <3>7. ~\E a \in off : hashPrevBlock[a] = b
      BY <1>7, <3>3, <3>5
    <3>8. x[d[i]] = next[d[i]]
      BY <1>6, <3>5, <3>6, <3>7
    <3> QED
      BY <1>5, <3>1, <3>4, <3>8
  <2> QED
    BY <1>2, <2>2, <2>3
<1>10. ASSUME NEW b \in Block, \A i \in 1..l - 1 : d[i] # b PROVE x[b] = Null
  <2>1. ~\E j \in n..l - 1 : d[j] = b
    BY <1>2, <1>10
  <2>2. CASE \E j \in n..k - 1 : c[j] = b
    BY <1>6, <1>7, <1>8, <2>1, <2>2
  <2>3. CASE ~\E j \in n..k - 1 : c[j] = b
    <3>1. ASSUME NEW j \in 1..k - 1 PROVE c[j] # b
      <4>1. CASE j >= n
        BY <1>2, <2>3, <4>1
      <4>2. CASE j < n
        <5>1. j \in 1..n /\ j \in 1..l - 1
          BY <1>2, <4>2
        <5> QED
          BY <1>2, <1>10, <5>1
      <4> QED
        BY <1>2, <4>1, <4>2
    <3>2. next[b] = Null
      BY <1>5, <3>1
    <3>3. x[b] = next[b]
      BY <1>6, <1>7, <1>8, <2>1, <2>3
    <3> QED
      BY <3>2, <3>3
  <2> QED
    BY <2>2, <2>3
<1>11. x \in [Block -> Block \cup {Null}]
  <2>1. ASSUME NEW b \in Block PROVE x[b] \in Block \cup {Null}
    <3>1. CASE \E i \in 1..l - 1 : d[i] = b
      <4>1. PICK i \in 1..l - 1 : d[i] = b
        BY <3>1
      <4>2. i + 1 \in 1..l
        BY <1>2
      <4> QED
        BY <1>4, <1>9, <4>1, <4>2
    <3>2. CASE ~\E i \in 1..l - 1 : d[i] = b
      BY <1>10, <3>2
    <3> QED
      BY <3>1, <3>2
  <2>2. x = [b \in Block |-> x[b]]
    BY <1>1 DEF Relink
  <2> HIDE <1>6
  <2> QED
    BY <2>1, <2>2
<1> QED
  BY <1>1, <1>9, <1>10, <1>11 DEF Linked

LEMMA LinksInit == Init => LinksInv
<1> SUFFICES ASSUME Init PROVE LinksInv
  OBVIOUS
<1>1. PICK c, next : c = ChainOf[Genesis] /\ next = [b \in Block |-> Null]
  OBVIOUS
<1>2. Len(c) - 1 = 0
  <2>1. c = <<Genesis>>
    BY <1>1, ChainEquation, BlockAssumption
  <2> QED
    BY <2>1
<1>3. 1..0 = {}
  OBVIOUS
<1>4. Linked(next, c)
  BY <1>1, <1>2, <1>3 DEF Linked
<1> QED
  BY <1>1, <1>4 DEF Init, LinksInv

\* A block that is not on the chain loses its link.
LEMMA LinkCleared ==
  ASSUME NEW c, NEW next, Linked(next, c), NEW b, \A i \in 1..Len(c) : c[i] # b,
         Len(c) \in Nat
  PROVE  Linked([next EXCEPT ![b] = Null], c)
<1>1. PICK n : n = [next EXCEPT ![b] = Null]
  OBVIOUS
<1>2. /\ n \in [Block -> Block \cup {Null}]
      /\ \A a \in Block : n[a] = IF a = b THEN Null ELSE next[a]
  BY <1>1 DEF Linked
<1>3. \A i \in 1..Len(c) - 1 : c[i] # b
  OBVIOUS
<1>4. ASSUME NEW i \in 1..Len(c) - 1 PROVE n[c[i]] = c[i + 1]
  <2>1. next[c[i]] = c[i + 1] /\ c[i] # b
    BY <1>3 DEF Linked
  <2> QED
    BY <1>1, <2>1 DEF Linked
<1>5. ASSUME NEW a \in Block, \A i \in 1..Len(c) - 1 : c[i] # a PROVE n[a] = Null
  BY <1>2, <1>5 DEF Linked
<1> QED
  BY <1>1, <1>2, <1>4, <1>5 DEF Linked

LEMMA LinksStep ==
  ASSUME IInv, MemoryMatchesDisk, LinksInv, [Next]_vars
  PROVE  LinksInv'
<1>a. /\ mapBlockIndex \subseteq Block /\ dbBest \in mapBlockIndex /\ pblock \in Block
      /\ Linked(pnext, ChainOf[dbBest]) /\ Linked(dbNext, ChainOf[dbBest])
  BY DEF IInv, TypeOK, IndexInv, LinksInv
<1>1. CASE UNCHANGED <<dbBest, pnext, dbNext>>
  BY <1>1 DEF LinksInv
<1>2. ASSUME Acceptable(pblock), UNCHANGED dbBest,
             pnext' = [pnext EXCEPT ![pblock] = Null],
             UNCHANGED dbNext \/ dbNext' = [dbNext EXCEPT ![pblock] = Null]
      PROVE  LinksInv'
  <2>1. PICK b, c, n, m : b = pblock /\ c = ChainOf[dbBest] /\ n = pnext /\ m = dbNext
    OBVIOUS
  <2>2. \A i \in 1..Len(c) : c[i] # b
    <3>1. b \notin mapBlockIndex
      BY <1>2, <2>1 DEF Acceptable
    <3> QED
      BY <1>a, <2>1, <3>1, ChainInIndex
  <2>3. Linked(n, c) /\ Linked(m, c) /\ Len(c) \in Nat
    BY <1>a, <2>1, ChainFacts
  <2>4. Linked([n EXCEPT ![b] = Null], c) /\ Linked([m EXCEPT ![b] = Null], c)
    BY <2>2, <2>3, LinkCleared
  <2>5. c = ChainOf[dbBest'] /\ pnext' = [n EXCEPT ![b] = Null]
    BY <1>2, <2>1
  <2>6. dbNext' = m \/ dbNext' = [m EXCEPT ![b] = Null]
    BY <1>2, <2>1
  <2>7. Linked(dbNext', c)
    BY <2>3, <2>4, <2>6
  <2> QED
    BY <2>4, <2>5, <2>7 DEF LinksInv
<1>3. ASSUME NEW b \in Block \ {Genesis}, hashPrevBlock[b] = dbBest, SetBestChainInner(b)
      PROVE  LinksInv'
  <2>1. PICK c, d, n, m : /\ c = ChainOf[b] /\ d = ChainOf[hashPrevBlock[b]]
                          /\ n = pnext /\ m = dbNext
    OBVIOUS
  <2>2. Linked(n, d) /\ Linked(m, d)
    BY <1>a, <1>3, <2>1
  <2>3. /\ Linked([n EXCEPT ![hashPrevBlock[b]] = b], c)
        /\ Linked([m EXCEPT ![hashPrevBlock[b]] = b], c)
    BY <2>1, <2>2, LinkExtends
  <2>4. /\ pnext' = [n EXCEPT ![hashPrevBlock[b]] = b]
        /\ dbNext' = [m EXCEPT ![hashPrevBlock[b]] = b]
        /\ c = ChainOf[dbBest']
    BY <1>3, <2>1 DEF SetBestChainInner
  <2> QED
    BY <2>3, <2>4 DEF LinksInv
<1>4. CASE AddToBlockIndex
  BY <1>2, <1>4 DEF AddToBlockIndex, InsertBlockIndex
<1>5. CASE AddToBlockIndexFails
  BY <1>2, <1>5 DEF AddToBlockIndexFails, InsertBlockIndex, dbVars
<1>6. CASE ExtendBestChain
  <2>1. pblock \in Block \ {Genesis} /\ hashPrevBlock[pblock] = dbBest
    BY <1>6, <1>a DEF IInv, BranchInv, ExtendBestChain, MemoryMatchesDisk
  <2> QED
    BY <1>3, <1>6, <2>1 DEF ExtendBestChain
<1>7. CASE ConnectSecondary
  <2>1. PICK b : b = Head(vpindexSecondary) /\ SetBestChainInner(b)
    BY <1>7 DEF ConnectSecondary
  <2>2. b \in Block \ {Genesis} /\ hashPrevBlock[b] = dbBest
    BY <1>7, <1>a, <2>1, NextSecondary DEF ConnectSecondary
  <2> QED
    BY <1>3, <2>1, <2>2
<1>8. CASE Reorganize
  <2>1. PICK from, to, c, d : /\ from = pindexBest /\ to = pindexIntermediate
                              /\ c = ChainOf[from] /\ d = ChainOf[to]
    OBVIOUS
  <2>2. /\ from \in mapBlockIndex /\ to \in mapBlockIndex /\ from = dbBest
        /\ from \in Block /\ to \in Block
    BY <1>8, <1>a, <2>1 DEF IInv, TypeOK, BranchInv, MemoryMatchesDisk, Reorganize
  <2>3. PICK n, k, l : n = CommonLen(c, d) /\ k = Len(c) /\ l = Len(d)
    OBVIOUS
  <2>4. k \in Nat \ {0} /\ l \in Nat \ {0} /\ n \in 1..k /\ n \in 1..l
    <3>1. k \in Nat \ {0} /\ l \in Nat \ {0}
      BY <2>1, <2>2, <2>3, ChainFacts
    <3>2. n \in 1..k /\ n \in 1..l
      BY <2>1, <2>2, <2>3, ForkFacts
    <3> QED
      BY <3>1, <3>2
  <2>5. PICK s, u : s = vDisconnect(from, to) /\ u = vConnect(from, to)
    OBVIOUS
  <2>6. s \in Seq(Block) /\ Len(s) = k - n /\ \A j \in 1..k - n : s[j] = c[k + 1 - j]
    <3>1. /\ from \in Block /\ to \in Block /\ c = ChainOf[from]
          /\ n = CommonLen(ChainOf[from], ChainOf[to]) /\ k = Len(c) /\ s = vDisconnect(from, to)
      BY <2>1, <2>2, <2>3, <2>5
    <3> QED
      BY <3>1, DisconnectList, SMTT(30)
  <2>7. u \in Seq(Block) /\ Len(u) = l - n /\ \A j \in 1..l - n : u[j] = d[n + j]
    <3>1. /\ from \in Block /\ to \in Block /\ d = ChainOf[to]
          /\ n = CommonLen(ChainOf[from], ChainOf[to]) /\ l = Len(d) /\ u = vConnect(from, to)
      BY <2>1, <2>2, <2>3, <2>5
    <3> QED
      BY <3>1, ConnectList, SMTT(30)
  <2>8. PICK off, on : /\ off = {b \in mapBlockIndex : \E i \in DOMAIN s : s[i] = b}
                       /\ on = {b \in mapBlockIndex : \E i \in DOMAIN u : u[i] = b}
    OBVIOUS
  <2>9. off = {c[i] : i \in n + 1..k}
    <3>1. ASSUME NEW b \in off PROVE \E i \in n + 1..k : b = c[i]
      <4>1. PICK j \in 1..k - n : s[j] = b
        BY <2>6, <2>8
      <4>2. k + 1 - j \in n + 1..k
        BY <2>4
      <4> QED
        BY <2>6, <4>1, <4>2
    <3>2. ASSUME NEW i \in n + 1..k PROVE c[i] \in off
      <4>1. PICK j : j = k + 1 - i
        OBVIOUS
      <4>2. j \in 1..k - n /\ k + 1 - j = i /\ i \in 1..k
        BY <2>4, <4>1
      <4>3. s[j] = c[i] /\ j \in DOMAIN s
        BY <2>6, <4>2
      <4>4. c[i] \in mapBlockIndex
        BY <2>1, <2>2, <2>3, <4>2, ChainInIndex
      <4> QED
        BY <2>8, <4>3, <4>4
    <3> QED
      BY <3>1, <3>2
  <2>10. on = {d[i] : i \in n + 1..l}
    <3>1. ASSUME NEW b \in on PROVE \E i \in n + 1..l : b = d[i]
      <4>1. PICK j \in 1..l - n : u[j] = b
        BY <2>7, <2>8
      <4>2. n + j \in n + 1..l
        BY <2>4
      <4> QED
        BY <2>7, <4>1, <4>2
    <3>2. ASSUME NEW i \in n + 1..l PROVE d[i] \in on
      <4>1. PICK j : j = i - n
        OBVIOUS
      <4>2. j \in 1..l - n /\ n + j = i /\ i \in 1..l
        BY <2>4, <4>1
      <4>3. u[j] = d[i] /\ j \in DOMAIN u
        BY <2>7, <4>2
      <4>4. d[i] \in mapBlockIndex
        BY <2>1, <2>2, <2>3, <4>2, ChainInIndex
      <4> QED
        BY <2>8, <4>3, <4>4
    <3> QED
      BY <3>1, <3>2
  <2>11. PICK x, y : x = pnext /\ y = dbNext
    OBVIOUS
  <2>12. Linked(x, c) /\ Linked(y, c)
    BY <1>a, <2>1, <2>2, <2>11
  <2>13. Linked(Relink(x, off, on), d) /\ Linked(Relink(y, off, on), d)
    <3>1. /\ from \in Block /\ to \in Block /\ c = ChainOf[from] /\ d = ChainOf[to]
          /\ n = CommonLen(c, d)
          /\ off = {c[i] : i \in n + 1..Len(c)} /\ on = {d[i] : i \in n + 1..Len(d)}
      BY <2>1, <2>2, <2>3, <2>9, <2>10
    <3>2. Linked(x, c)
      BY <2>12
    <3>3. Linked(y, c)
      BY <2>12
    <3>4. Linked(Relink(x, off, on), d)
      BY <3>1, <3>2, LinkSwitches
    <3>5. Linked(Relink(y, off, on), d)
      BY <3>1, <3>3, LinkSwitches
    <3> QED
      BY <3>4, <3>5
  <2>14. pnext' = Relink(x, off, on) /\ dbNext' = Relink(y, off, on) /\ dbBest' = to
    BY <1>8, <2>1, <2>5, <2>8, <2>11 DEF Reorganize
  <2> QED
    BY <2>1, <2>13, <2>14 DEF LinksInv
<1>9. CASE CrashRestart
  BY <1>9, <1>a DEF CrashRestart, dbVars, LinksInv
<1> QED
  BY <1>1, <1>4, <1>5, <1>6, <1>7, <1>8, <1>9
  DEF Next, vars, memVars, dbVars, ReceiveBlock, RejectBlock, AddOrphanBlock, ProcessBlock,
      HandlerStep, AcceptBlockFails,
      SetBestChainFails, ActivationFails, ExtendBestChainFails, SwitchBranch,
      PostponeConnect, ReorganizeFails, ResurrectTx, DeleteTx, ConnectSecondaryFails,
      NewBestBlock, BlockAccepted, BlockRejected, AcceptOrphan, OrphansDone,
      AcceptToMemoryPool

\* NextOnBestChain is what Linked says.
LEMMA LinkedIsNext ==
  ASSUME IInv, NEW next, Linked(next, ChainOf[pindexBest]), NEW b \in Block
  PROVE  next[b] = NextOnBestChain(b)
<1>1. PICK c : c = ChainOf[pindexBest]
  OBVIOUS
<1>2. pindexBest \in Block
  BY DEF IInv, TypeOK
<1>3. NextOnBestChain(b) =
        IF \E i \in 1..Len(c) - 1 : c[i] = b
        THEN c[(CHOOSE i \in 1..Len(c) - 1 : c[i] = b) + 1] ELSE Null
  BY <1>1 DEF NextOnBestChain
<1>4. CASE \E i \in 1..Len(c) - 1 : c[i] = b
  <2>1. PICK j : j = CHOOSE i \in 1..Len(c) - 1 : c[i] = b
    OBVIOUS
  <2>2. j \in 1..Len(c) - 1 /\ c[j] = b
    BY <1>4, <2>1
  <2>3. next[c[j]] = c[j + 1]
    BY <1>1, <2>2 DEF Linked
  <2> QED
    BY <1>3, <1>4, <2>1, <2>2, <2>3
<1>5. CASE ~\E i \in 1..Len(c) - 1 : c[i] = b
  BY <1>1, <1>3, <1>5 DEF Linked
<1> QED
  BY <1>4, <1>5

(* The links to the next block, in memory and on disk, lead along the best *)
(* chain and nowhere else whenever ProcessBlock has returned: whatever was *)
(* disconnected, whichever write failed, and wherever the process died,    *)
(* so long as SetBestChain does not go on after an error.                  *)
THEOREM LinksAlwaysFollow == Spec /\ []MemoryMatchesDisk => []LinksFollowBest
<1>1. IInv /\ MemoryMatchesDisk /\ LinksInv => LinksFollowBest
  <2> SUFFICES ASSUME IInv, MemoryMatchesDisk, LinksInv, pc = "idle"
               PROVE  /\ pindexBest = dbBest
                      /\ \A b \in mapBlockIndex :
                           pnext[b] = NextOnBestChain(b) /\ dbNext[b] = NextOnBestChain(b)
    BY DEF LinksFollowBest
  <2>1. pindexBest = dbBest /\ mapBlockIndex \subseteq Block
    BY DEF MemoryMatchesDisk, IInv, TypeOK
  <2>2. Linked(pnext, ChainOf[pindexBest]) /\ Linked(dbNext, ChainOf[pindexBest])
    BY <2>1 DEF LinksInv
  <2>3. PICK x, y : x = pnext /\ y = dbNext
    OBVIOUS
  <2>4. \A b \in Block : x[b] = NextOnBestChain(b) /\ y[b] = NextOnBestChain(b)
    BY <2>2, <2>3, LinkedIsNext
  <2> QED
    BY <2>1, <2>3, <2>4
<1>2. IInv /\ MemoryMatchesDisk /\ LinksInv /\ [Next]_vars => LinksInv'
  BY LinksStep
<1> QED
  BY LinksInit, <1>1, <1>2, Invariance, PTL DEF Spec

-----------------------------------------------------------------------------
(* The lists of transactions that leave or go back to the pool.            *)

\* g gives the concatenations of the first members of ss.
Flattens(g, ss, n) == g = [i \in 1..n |-> IF i = 1 THEN ss[i] ELSE g[i - 1] \o ss[i]]

LEMMA FlattenExists ==
  ASSUME NEW ss, NEW n \in Nat
  PROVE  \E g : Flattens(g, ss, n)
<1> DEFINE Fails == {k \in Nat : ~\E g : Flattens(g, ss, k)}
<1> SUFFICES ASSUME Fails # {} PROVE FALSE
  OBVIOUS
<1>1. PICK k \in Fails : \A j \in Fails : k <= j
  <2> Fails \subseteq Nat
    OBVIOUS
  <2> HIDE DEF Fails
  <2> QED
    BY LeastExists
<1>2. k # 0
  <2>1. Flattens(<<>>, ss, 0)
    <3>1. 1..0 = {}
      OBVIOUS
    <3>2. PICK g : g = [i \in 1..0 |-> ss[i]]
      OBVIOUS
    <3>3. g = <<>>
      BY <3>1, <3>2
    <3>4. <<>> = [i \in 1..0 |-> IF i = 1 THEN ss[i] ELSE g[i - 1] \o ss[i]]
      BY <3>1
    <3> QED
      BY <3>3, <3>4 DEF Flattens
  <2> QED
    BY <2>1
<1>3. k - 1 \in Nat /\ k - 1 \notin Fails /\ (k - 1) + 1 = k
  BY <1>1, <1>2
<1>4. PICK g : Flattens(g, ss, k - 1)
  BY <1>3
<1>5. \E h : Flattens(h, ss, k)
  <2> DEFINE h == [i \in 1..k |-> IF i \in 1..k - 1 THEN g[i]
                                  ELSE IF i = 1 THEN ss[i] ELSE g[i - 1] \o ss[i]]
  <2>1. ASSUME NEW i \in 1..k PROVE h[i] = IF i = 1 THEN ss[i] ELSE h[i - 1] \o ss[i]
    <3>1. i # 1 => i - 1 \in 1..k - 1 /\ i - 1 \in 1..k
      BY <1>3
    <3>2. i # 1 => h[i - 1] = g[i - 1]
      BY <3>1
    <3>3. CASE i \in 1..k - 1
      <4>1. h[i] = g[i]
        BY <3>3
      <4>2. g[i] = IF i = 1 THEN ss[i] ELSE g[i - 1] \o ss[i]
        BY <1>4, <3>3 DEF Flattens
      <4> QED
        BY <3>2, <4>1, <4>2
    <3>4. CASE i \notin 1..k - 1
      BY <3>2, <3>4
    <3> QED
      BY <3>3, <3>4
  <2>2. h = [i \in 1..k |-> h[i]]
    OBVIOUS
  <2> HIDE DEF h
  <2>3. Flattens(h, ss, k)
    BY <2>1, <2>2, Zenon DEF Flattens
  <2> QED
    BY <2>3
<1> QED
  BY <1>5

LEMMA JoinedSequence ==
  ASSUME NEW S, NEW x \in Seq(S), NEW y \in Seq(S)
  PROVE  x \o y \in Seq(S) /\ ToSet(x \o y) = ToSet(x) \cup ToSet(y)
<1>1. PICK a \in Nat, b \in Nat : a = Len(x) /\ b = Len(y)
  OBVIOUS
<1>2. PICK z : z = x \o y
  OBVIOUS
<1>3. /\ z \in Seq(S) /\ Len(z) = a + b
      /\ \A j \in 1..a : z[j] = x[j]
      /\ \A j \in 1..b : z[j + a] = y[j]
  <2>1. z \in Seq(S) /\ Len(z) = a + b
    BY <1>1, <1>2
  <2>2. \A j \in 1..a + b : z[j] = IF j <= a THEN x[j] ELSE y[j - a]
    BY <1>1, <1>2
  <2>3. \A j \in 1..a : j \in 1..a + b /\ j <= a
    OBVIOUS
  <2>4. \A j \in 1..b : j + a \in 1..a + b /\ ~(j + a <= a) /\ (j + a) - a = j
    OBVIOUS
  <2> QED
    BY <2>1, <2>2, <2>3, <2>4
<1>4. DOMAIN z = 1..a + b /\ DOMAIN x = 1..a /\ DOMAIN y = 1..b
  BY <1>1, <1>3
<1>5. \A j \in 1..a + b : j \in 1..a \/ (j - a \in 1..b /\ (j - a) + a = j)
  OBVIOUS
<1>6. ToSet(z) \subseteq ToSet(x) \cup ToSet(y)
  <2> SUFFICES ASSUME NEW j \in 1..a + b PROVE z[j] \in ToSet(x) \cup ToSet(y)
    BY <1>4 DEF ToSet
  <2>1. CASE j \in 1..a
    BY <1>3, <1>4, <2>1 DEF ToSet
  <2>2. CASE j \notin 1..a
    <3>1. PICK i \in 1..b : i + a = j
      BY <1>5, <2>2
    <3> QED
      BY <1>3, <1>4, <3>1 DEF ToSet
  <2> QED
    BY <2>1, <2>2
<1>7. ToSet(x) \subseteq ToSet(z)
  <2>1. \A j \in 1..a : j \in 1..a + b
    OBVIOUS
  <2> QED
    BY <1>3, <1>4, <2>1 DEF ToSet
<1>8. ToSet(y) \subseteq ToSet(z)
  <2>1. \A j \in 1..b : j + a \in 1..a + b
    OBVIOUS
  <2> QED
    BY <1>3, <1>4, <2>1 DEF ToSet
<1> QED
  BY <1>2, <1>3, <1>6, <1>7, <1>8

\* FlattenSeq keeps what is in the sequences it concatenates.
LEMMA FlattenFacts ==
  ASSUME NEW S, NEW ss \in Seq(Seq(S)), NEW f, f = FlattenSeq(ss)
  PROVE  /\ f \in Seq(S)
         /\ ToSet(f) = UNION {ToSet(ss[i]) : i \in DOMAIN ss}
<1>1. PICK n \in Nat : n = Len(ss) /\ DOMAIN ss = 1..n /\ \A i \in 1..n : ss[i] \in Seq(S)
  OBVIOUS
<1>2. CASE n = 0
  <2>1. f = <<>> /\ ss = <<>>
    BY <1>1, <1>2 DEF FlattenSeq
  <2> QED
    BY <2>1 DEF ToSet
<1>3. CASE n # 0
  <2>1. PICK g : Flattens(g, ss, n) /\ f = g[n]
    <3>1. PICK g : g = CHOOSE h : Flattens(h, ss, n)
      OBVIOUS
    <3>2. Flattens(g, ss, n)
      BY <3>1, FlattenExists
    <3>3. f = g[n]
      BY <1>1, <1>3, <3>1 DEF FlattenSeq, Flattens
    <3> QED
      BY <3>2, <3>3
  <2> DEFINE Right(i) == g[i] \in Seq(S) /\ ToSet(g[i]) = UNION {ToSet(ss[j]) : j \in 1..i}
             Fails == {i \in 1..n : ~Right(i)}
  <2>2. Right(1)
    <3>1. g[1] = ss[1] /\ 1 \in 1..n
      BY <1>1, <1>3, <2>1 DEF Flattens
    <3>2. 1..1 = {1}
      OBVIOUS
    <3> QED
      BY <1>1, <3>1, <3>2
  <2>3. ASSUME NEW i \in 2..n, Right(i - 1) PROVE Right(i)
    <3>1. g[i] = g[i - 1] \o ss[i]
      <4>1. i \in 1..n /\ i # 1
        OBVIOUS
      <4>2. g[i] = IF i = 1 THEN ss[i] ELSE g[i - 1] \o ss[i]
        BY <2>1, <4>1, Zenon DEF Flattens
      <4> QED
        BY <4>1, <4>2
    <3>2. PICK x, y : x = g[i - 1] /\ y = ss[i] /\ x \in Seq(S) /\ y \in Seq(S)
      BY <1>1, <2>3
    <3>3. x \o y \in Seq(S) /\ ToSet(x \o y) = ToSet(x) \cup ToSet(y)
      BY <3>2, JoinedSequence
    <3>4. 1..i = (1..i - 1) \cup {i}
      OBVIOUS
    <3>5. UNION {ToSet(ss[j]) : j \in 1..i}
            = (UNION {ToSet(ss[j]) : j \in 1..i - 1}) \cup ToSet(ss[i])
      BY <3>4
    <3> QED
      BY <2>3, <3>1, <3>2, <3>3, <3>5
  <2>4. Fails = {}
    <3> SUFFICES ASSUME Fails # {} PROVE FALSE
      OBVIOUS
    <3>1. PICK k \in Fails : \A j \in Fails : k <= j
      <4> Fails \subseteq Nat
        OBVIOUS
      <4> HIDE DEF Fails
      <4> QED
        BY LeastExists
    <3>2. k # 1 /\ k \in 1..n /\ ~Right(k)
      BY <2>2
    <3>3. k \in 2..n /\ k - 1 \in 1..n /\ ~(k <= k - 1)
      BY <3>2
    <3>4. Right(k - 1)
      <4>1. k - 1 \notin Fails
        BY <3>1, <3>3
      <4> QED
        BY <3>3, <4>1
    <3> HIDE DEF Right
    <3> QED
      BY <2>3, <3>2, <3>3, <3>4
  <2>5. Right(n)
    <3>1. n \in 1..n
      BY <1>3
    <3>2. n \notin Fails
      BY <2>4
    <3> QED
      BY <3>1, <3>2
  <2> QED
    BY <1>1, <2>1, <2>5
<1> QED
  BY <1>2, <1>3

LEMMA TxsOfFacts ==
  ASSUME NEW blocks \in Seq(Block), NEW f, f = TxsOf(blocks)
  PROVE  /\ f \in Seq(Tx)
         /\ ToSet(f) = UNION {ToSet(vtx[blocks[i]]) : i \in DOMAIN blocks}
<1>1. PICK ss : ss = [i \in DOMAIN blocks |-> vtx[blocks[i]]]
  OBVIOUS
<1>2. ss \in Seq(Seq(Tx)) /\ DOMAIN ss = DOMAIN blocks
  <2>1. PICK n \in Nat : n = Len(blocks) /\ DOMAIN blocks = 1..n /\ \A i \in 1..n : blocks[i] \in Block
    OBVIOUS
  <2>2. \A i \in 1..n : vtx[blocks[i]] \in Seq(Tx)
    BY <2>1, BlockAssumption
  <2> QED
    BY <1>1, <2>1, <2>2
<1>3. f = FlattenSeq(ss)
  BY <1>1 DEF TxsOf
<1>4. f \in Seq(Tx) /\ ToSet(f) = UNION {ToSet(ss[i]) : i \in DOMAIN ss}
  BY <1>2, <1>3, FlattenFacts
<1> QED
  BY <1>1, <1>2, <1>4

LEMMA NotCoinBasesFacts ==
  ASSUME NEW txs \in Seq(Tx), NEW f, f = NotCoinBases(txs)
  PROVE  f \in Seq(Tx) /\ ToSet(f) \subseteq ToSet(txs)
<1>1. PICK ss : ss = [i \in DOMAIN txs |-> IF IsCoinBase(txs[i]) THEN <<>> ELSE <<txs[i]>>]
  OBVIOUS
<1>2. ss \in Seq(Seq(Tx)) /\ DOMAIN ss = DOMAIN txs
  <2>1. PICK n \in Nat : n = Len(txs) /\ DOMAIN txs = 1..n /\ \A i \in 1..n : txs[i] \in Tx
    OBVIOUS
  <2>2. \A i \in 1..n : ss[i] \in Seq(Tx)
    BY <1>1, <2>1
  <2> QED
    BY <1>1, <2>1, <2>2
<1>3. f = FlattenSeq(ss)
  BY <1>1 DEF NotCoinBases
<1>4. f \in Seq(Tx) /\ ToSet(f) = UNION {ToSet(ss[i]) : i \in DOMAIN ss}
  BY <1>2, <1>3, FlattenFacts
<1>5. ASSUME NEW i \in DOMAIN txs PROVE ToSet(ss[i]) \subseteq ToSet(txs)
  <2>1. CASE IsCoinBase(txs[i])
    BY <1>1, <2>1 DEF ToSet
  <2>2. CASE ~IsCoinBase(txs[i])
    <3>1. ss[i] = <<txs[i]>>
      BY <1>1, <2>2
    <3>2. ToSet(ss[i]) = {txs[i]}
      BY <3>1 DEF ToSet
    <3> QED
      BY <3>2 DEF ToSet
  <2> QED
    BY <2>1, <2>2
<1> QED
  BY <1>2, <1>4, <1>5

-----------------------------------------------------------------------------
(* The transactions that the index holds.                                  *)

\* The transactions of the chain that ends in b.
Mined(b) == TxsAt(ChainOf[b], Places(ChainOf[b]))

LEMMA IndexDomain ==
  ASSUME NEW b
  PROVE  DOMAIN IndexOf(ChainOf[b]) = Mined(b)
  BY DEF IndexOf, Mined, TxsAt

LEMMA MinedInBlocks ==
  ASSUME NEW b \in Block, NEW c, c = ChainOf[b], NEW t
  PROVE  t \in Mined(b) <=> \E h \in 2..Len(c) : t \in ToSet(vtx[c[h]])
<1>1. /\ c \in Seq(Block) /\ Len(c) \in Nat
      /\ \A h \in 2..Len(c) : c[h] \in Block
  BY ChainFacts
<1>2. \A h \in 2..Len(c) : DOMAIN vtx[c[h]] = 1..Len(vtx[c[h]])
  BY <1>1, BlockAssumption
<1>3. ASSUME NEW h \in 2..Len(c), t \in ToSet(vtx[c[h]]) PROVE t \in Mined(b)
  <2>1. PICK k \in 1..Len(vtx[c[h]]) : t = vtx[c[h]][k]
    BY <1>2, <1>3 DEF ToSet
  <2>2. PICK o : o = [h |-> h, k |-> k]
    OBVIOUS
  <2>3. o \in Places(c)
    BY <1>1, <2>2, PlaceIs
  <2>4. At(c, o) = t
    BY <2>1, <2>2 DEF At
  <2> QED
    BY <2>3, <2>4 DEF Mined, TxsAt
<1>4. ASSUME t \in Mined(b) PROVE \E h \in 2..Len(c) : t \in ToSet(vtx[c[h]])
  <2>1. PICK o \in Places(c) : t = At(c, o)
    BY <1>4 DEF Mined, TxsAt
  <2>2. o.h \in 2..Len(c) /\ o.k \in 1..Len(vtx[c[o.h]])
    BY <1>1, <2>1, PlaceFacts
  <2> QED
    BY <1>2, <2>1, <2>2 DEF At, ToSet
<1> QED
  BY <1>3, <1>4

LEMMA MinedByBlock ==
  ASSUME NEW b \in Block \ {Genesis}, NEW a, a = hashPrevBlock[b]
  PROVE  Mined(b) = Mined(a) \cup ToSet(vtx[b])
<1>1. PICK c, d : c = ChainOf[b] /\ d = ChainOf[a]
  OBVIOUS
<1>2. /\ a \in Block /\ Len(d) \in Nat \ {0} /\ Len(c) = Len(d) + 1 /\ c[Len(c)] = b
      /\ \A i \in 1..Len(d) : c[i] = d[i]
  BY <1>1, ParentChain, ChainFacts
<1>3. ASSUME NEW t PROVE t \in Mined(b) <=> t \in Mined(a) \/ t \in ToSet(vtx[b])
  <2>1. t \in Mined(b) <=> \E h \in 2..Len(c) : t \in ToSet(vtx[c[h]])
    BY <1>1, MinedInBlocks
  <2>2. t \in Mined(a) <=> \E h \in 2..Len(d) : t \in ToSet(vtx[d[h]])
    BY <1>1, <1>2, MinedInBlocks
  <2>3. Len(c) \in 2..Len(c) /\ \A h \in 2..Len(c) : h = Len(c) \/ h \in 2..Len(d)
    BY <1>2
  <2>4. \A h \in 2..Len(d) : h \in 2..Len(c) /\ c[h] = d[h]
    BY <1>2
  <2> QED
    BY <1>2, <2>1, <2>2, <2>3, <2>4
<1> QED
  BY <1>3

\* What a reorganization mines and what it gives back.
LEMMA MinedByBranch ==
  ASSUME NEW from \in Block, NEW to \in Block, SoundChain(ChainOf[from]),
         NEW off, NEW on, off = TxsOf(vDisconnect(from, to)), on = TxsOf(vConnect(from, to))
  PROVE  /\ off \in Seq(Tx) /\ on \in Seq(Tx)
         /\ Mined(to) \subseteq Mined(from) \cup ToSet(on)
         /\ ToSet(off) \cap Mined(to) \subseteq ToSet(on)
<1>1. PICK n : n = CommonLen(ChainOf[from], ChainOf[to])
  OBVIOUS
<1>2. PICK c, d, s, r : /\ c = ChainOf[from] /\ d = ChainOf[to]
                        /\ s = vDisconnect(from, to) /\ r = vConnect(from, to)
  OBVIOUS
<1>3. PICK l, m : l = Len(c) /\ m = Len(d) /\ l \in Nat /\ m \in Nat
  BY <1>2, ChainFacts
<1>4. /\ n \in 1..l /\ n \in 1..m /\ c \in Seq(Block) /\ d \in Seq(Block)
      /\ \A i \in 1..n : c[i] = d[i]
  <2>1. n \in 1..l /\ n \in 1..m
    BY <1>1, <1>2, <1>3, ForkFacts
  <2>2. \A i \in 1..n : c[i] = d[i]
    BY <1>1, <1>2, <1>3, ForkFacts
  <2>3. c \in Seq(Block) /\ d \in Seq(Block)
    BY <1>2, ChainFacts
  <2> QED
    BY <2>1, <2>2, <2>3
<1>5. s \in Seq(Block) /\ Len(s) = l - n /\ \A k \in 1..l - n : s[k] = c[l + 1 - k]
  <2>1. /\ c = ChainOf[from] /\ n = CommonLen(ChainOf[from], ChainOf[to]) /\ l = Len(c)
        /\ s = vDisconnect(from, to)
    BY <1>1, <1>2, <1>3
  <2> QED
    BY <2>1, DisconnectList
<1>6. r \in Seq(Block) /\ Len(r) = m - n /\ \A k \in 1..m - n : r[k] = d[n + k]
  BY <1>1, <1>2, <1>3, ConnectList
<1>7. off \in Seq(Tx) /\ ToSet(off) = UNION {ToSet(vtx[s[i]]) : i \in DOMAIN s}
  BY <1>2, <1>5, TxsOfFacts
<1>8. on \in Seq(Tx) /\ ToSet(on) = UNION {ToSet(vtx[r[i]]) : i \in DOMAIN r}
  BY <1>2, <1>6, TxsOfFacts
<1>9. ASSUME NEW t, t \in Mined(to), t \notin ToSet(on)
      PROVE  \E h \in 2..n : t \in ToSet(vtx[c[h]])
  <2>1. PICK h \in 2..m : t \in ToSet(vtx[d[h]])
    BY <1>2, <1>3, <1>9, MinedInBlocks
  <2>2. CASE h <= n
    BY <1>4, <2>1, <2>2
  <2>3. CASE ~(h <= n)
    <3>1. h - n \in 1..m - n /\ n + (h - n) = h
      BY <1>3, <1>4, <2>3
    <3>2. r[h - n] = d[h] /\ h - n \in DOMAIN r
      BY <1>6, <3>1
    <3> QED
      BY <1>8, <1>9, <2>1, <3>2
  <2> QED
    BY <2>2, <2>3
<1>10. Mined(to) \subseteq Mined(from) \cup ToSet(on)
  <2> SUFFICES ASSUME NEW t \in Mined(to), t \notin ToSet(on) PROVE t \in Mined(from)
    OBVIOUS
  <2>1. PICK h \in 2..n : t \in ToSet(vtx[c[h]])
    BY <1>9
  <2>2. h \in 2..l
    BY <1>3, <1>4
  <2> QED
    BY <1>2, <1>3, <2>1, <2>2, MinedInBlocks
<1>11. ToSet(off) \cap Mined(to) \subseteq ToSet(on)
  <2> SUFFICES ASSUME NEW t \in Mined(to), t \in ToSet(off), t \notin ToSet(on) PROVE FALSE
    OBVIOUS
  <2>1. PICK h \in 2..n : t \in ToSet(vtx[c[h]])
    BY <1>9
  <2>2. PICK g \in n + 1..l : t \in ToSet(vtx[c[g]])
    <3>1. PICK i \in 1..l - n : t \in ToSet(vtx[s[i]])
      BY <1>5, <1>7
    <3>2. l + 1 - i \in n + 1..l
      BY <1>3, <1>4
    <3> QED
      BY <1>5, <3>1, <3>2
  <2>3. h \in 2..l /\ g \in 2..l /\ h # g
    BY <1>3, <1>4
  <2>4. \A i \in 2..l : c[i] \in Block /\ DOMAIN vtx[c[i]] = 1..Len(vtx[c[i]])
    BY <1>3, <1>4, BlockAssumption
  <2>5. PICK j \in 1..Len(vtx[c[h]]), k \in 1..Len(vtx[c[g]]) : t = vtx[c[h]][j] /\ t = vtx[c[g]][k]
    BY <2>1, <2>2, <2>3, <2>4 DEF ToSet
  <2>6. PICK o, q : o = [h |-> h, k |-> j] /\ q = [h |-> g, k |-> k]
    OBVIOUS
  <2>7. o \in Places(c) /\ q \in Places(c)
    BY <1>3, <1>4, <2>3, <2>5, <2>6, PlaceIs
  <2>8. At(c, o) = t /\ At(c, q) = t /\ o # q
    BY <2>3, <2>5, <2>6 DEF At
  <2>9. Good(c, Places(c))
    BY <1>2, SoundIsGood
  <2> QED
    BY <2>7, <2>8, <2>9 DEF Good
<1> QED
  BY <1>7, <1>8, <1>10, <1>11

-----------------------------------------------------------------------------
(* The pool and the index on disk.                                         *)

\* After a commit the pool may hold mined transactions, and the list of those to
\* go back may name some, that are all still to be deleted.
MinedInv ==
  /\ vDelete \in Seq(Tx) /\ vResurrect \in Seq(Tx)
  /\ mapTx \cap DOMAIN dbTx \subseteq ToSet(vDelete)
  /\ ToSet(vResurrect) \cap DOMAIN dbTx \subseteq ToSet(vDelete)
  /\ pc # "mempool" => vDelete = <<>> /\ vResurrect = <<>>

\* Taking the first of a list leaves the others.
LEMMA ToSetTail ==
  ASSUME NEW S, NEW s \in Seq(S), s # <<>>
  PROVE  /\ Tail(s) \in Seq(S) /\ ToSet(s) = {Head(s)} \cup ToSet(Tail(s))
<1>1. PICK n \in Nat \ {0} : n = Len(s)
  OBVIOUS
<1>2. PICK u : u = Tail(s)
  OBVIOUS
<1>3. /\ u \in Seq(S) /\ Len(u) = n - 1 /\ Head(s) = s[1]
      /\ \A i \in 1..n - 1 : u[i] = s[i + 1]
  BY <1>1, <1>2, HeadTailProperties
<1>4. DOMAIN s = 1..n /\ DOMAIN u = 1..n - 1
  BY <1>1, <1>3
<1>5. \A i \in 1..n : i = 1 \/ (i - 1 \in 1..n - 1 /\ (i - 1) + 1 = i)
  OBVIOUS
<1>6. 1 \in 1..n /\ \A i \in 1..n - 1 : i + 1 \in 1..n
  OBVIOUS
<1>7. ASSUME NEW x \in ToSet(s) PROVE x \in {Head(s)} \cup ToSet(u)
  <2>1. PICK i \in 1..n : x = s[i]
    BY <1>4 DEF ToSet
  <2>2. CASE i = 1
    BY <1>3, <2>1, <2>2
  <2>3. CASE i # 1
    <3>1. PICK j \in 1..n - 1 : j + 1 = i
      BY <1>5, <2>3
    <3> QED
      BY <1>3, <1>4, <2>1, <3>1 DEF ToSet
  <2> QED
    BY <2>2, <2>3
<1>8. ASSUME NEW x \in {Head(s)} \cup ToSet(u) PROVE x \in ToSet(s)
  <2>1. CASE x = Head(s)
    BY <1>3, <1>4, <1>6, <2>1 DEF ToSet
  <2>2. CASE x \in ToSet(u)
    <3>1. PICK i \in 1..n - 1 : x = u[i]
      BY <1>4, <2>2 DEF ToSet
    <3> QED
      BY <1>3, <1>4, <1>6, <3>1 DEF ToSet
  <2> QED
    BY <2>1, <2>2
<1> QED
  BY <1>2, <1>3, <1>7, <1>8

LEMMA NothingListed == ToSet(<<>>) = {}
  BY DEF ToSet

\* Committing one block on top of the best one.
LEMMA InnerKeepsMined ==
  ASSUME IInv, LedgerInv, LedgerInv', MinedInv, vDelete = <<>>, vResurrect = <<>>,
         NEW b \in Block \ {Genesis}, hashPrevBlock[b] = dbBest, SetBestChainInner(b),
         UNCHANGED <<mapTx, vResurrect>>
  PROVE  MinedInv'
<1>1. PICK a : a = hashPrevBlock[b] /\ a = dbBest
  OBVIOUS
<1>2. dbBest' = b /\ vDelete' = vtx[b] /\ pc' = "mempool"
  BY DEF SetBestChainInner
<1>3. DOMAIN dbTx = Mined(a)
  BY <1>1, IndexDomain DEF LedgerInv, LedgerMatchesChain
<1>4. DOMAIN dbTx' = Mined(b)
  BY <1>2, IndexDomain DEF LedgerInv, LedgerMatchesChain
<1>5. Mined(b) = Mined(a) \cup ToSet(vtx[b])
  BY <1>1, MinedByBlock
<1>6. vtx[b] \in Seq(Tx)
  BY BlockAssumption
<1>7. mapTx \cap Mined(a) = {}
  BY <1>3, NothingListed DEF MinedInv
<1>8. PICK M, N : M = Mined(a) /\ N = Mined(b)
  OBVIOUS
<1>9. mapTx' \cap N \subseteq ToSet(vDelete')
  BY <1>2, <1>5, <1>7, <1>8
<1>10. vResurrect' = <<>>
  OBVIOUS
<1> QED
  BY <1>2, <1>4, <1>6, <1>8, <1>9, <1>10, NothingListed DEF MinedInv

LEMMA MinedStep ==
  ASSUME IInv, MemoryMatchesDisk, LedgerInv, LedgerInv', MinedInv, [Next]_vars
  PROVE  MinedInv'
<1>1. CASE UNCHANGED <<mapTx, dbTx, vDelete, vResurrect>> /\ (pc = "mempool" => pc' = "mempool")
  BY <1>1 DEF MinedInv
<1>2. CASE ExtendBestChain
  <2>1. pblock \in Block \ {Genesis} /\ hashPrevBlock[pblock] = dbBest
    BY <1>2 DEF IInv, TypeOK, BranchInv, ExtendBestChain, MemoryMatchesDisk
  <2>2. vDelete = <<>> /\ vResurrect = <<>> /\ UNCHANGED <<mapTx, vResurrect>>
    BY <1>2 DEF ExtendBestChain, MinedInv, poolVars
  <2>3. SetBestChainInner(pblock)
    BY <1>2 DEF ExtendBestChain
  <2> QED
    BY <2>1, <2>2, <2>3, InnerKeepsMined
<1>3. CASE ConnectSecondary
  <2>1. PICK b : b = Head(vpindexSecondary) /\ SetBestChainInner(b)
    BY <1>3 DEF ConnectSecondary
  <2>2. b \in Block \ {Genesis} /\ hashPrevBlock[b] = dbBest
    BY <1>3, <2>1, NextSecondary DEF ConnectSecondary, IInv, TypeOK
  <2>3. vDelete = <<>> /\ vResurrect = <<>> /\ UNCHANGED <<mapTx, vResurrect>>
    BY <1>3 DEF ConnectSecondary, PoolUpdated, poolVars
  <2> QED
    BY <2>1, <2>2, <2>3, InnerKeepsMined
<1>4. CASE Reorganize
  <2>1. PICK from, to, s, r, off, on :
          /\ from = pindexBest /\ to = pindexIntermediate
          /\ s = vDisconnect(from, to) /\ r = vConnect(from, to)
          /\ off = TxsOf(s) /\ on = TxsOf(r)
    OBVIOUS
  <2>2. from = dbBest /\ from \in Block /\ to \in Block /\ SoundChain(ChainOf[from])
    BY <1>4, <2>1 DEF IInv, TypeOK, MemoryMatchesDisk, Reorganize, LedgerInv
  <2>3. /\ off \in Seq(Tx) /\ on \in Seq(Tx)
        /\ Mined(to) \subseteq Mined(from) \cup ToSet(on)
        /\ ToSet(off) \cap Mined(to) \subseteq ToSet(on)
    BY <2>1, <2>2, MinedByBranch
  <2>4. /\ dbBest' = to /\ vDelete' = on /\ vResurrect' = NotCoinBases(off)
        /\ pc # "mempool" /\ pc' = "mempool" /\ mapTx' = mapTx
    BY <1>4, <2>1 DEF Reorganize, poolVars
  <2>5. vResurrect' \in Seq(Tx) /\ ToSet(vResurrect') \subseteq ToSet(off)
    BY <2>3, <2>4, NotCoinBasesFacts
  <2>6. DOMAIN dbTx = Mined(from)
    BY <2>2, IndexDomain DEF LedgerInv, LedgerMatchesChain
  <2>7. DOMAIN dbTx' = Mined(to)
    BY <2>4, IndexDomain DEF LedgerInv, LedgerMatchesChain
  <2>8. mapTx \cap Mined(from) = {}
    BY <2>4, <2>6, NothingListed DEF MinedInv
  <2> QED
    BY <2>3, <2>4, <2>5, <2>7, <2>8 DEF MinedInv
<1>5. CASE ResurrectTx
  <2>1. PICK t : t = Head(vResurrect) /\ Resurrect(t)
    BY <1>5 DEF ResurrectTx
  <2>2. mapTx' \subseteq mapTx \cup {t}
    BY <2>1 DEF Resurrect, addUnchecked, poolVars
  <2>3. /\ vResurrect # <<>> /\ vResurrect' = Tail(vResurrect)
        /\ UNCHANGED <<dbTx, vDelete>> /\ pc = "mempool" /\ pc' = "mempool"
    BY <1>5 DEF ResurrectTx, dbVars
  <2>4. vResurrect' \in Seq(Tx) /\ ToSet(vResurrect) = {t} \cup ToSet(vResurrect')
    BY <2>1, <2>3, ToSetTail DEF MinedInv
  <2> QED
    BY <2>2, <2>3, <2>4 DEF MinedInv
<1>6. CASE DeleteTx
  <2>1. PICK t : t = Head(vDelete) /\ remove(t)
    BY <1>6 DEF DeleteTx
  <2>2. mapTx' = mapTx \ {t}
    BY <2>1 DEF remove, poolVars
  <2>3. /\ vDelete # <<>> /\ vDelete' = Tail(vDelete) /\ vResurrect = <<>>
        /\ UNCHANGED <<dbTx, vResurrect>> /\ pc = "mempool" /\ pc' = "mempool"
    BY <1>6 DEF DeleteTx, dbVars
  <2>4. vDelete' \in Seq(Tx) /\ ToSet(vDelete) = {t} \cup ToSet(vDelete')
    BY <2>1, <2>3, ToSetTail DEF MinedInv
  <2> QED
    BY <2>2, <2>3, <2>4, NothingListed DEF MinedInv
<1>7. CASE NewBestBlock
  BY <1>7 DEF NewBestBlock, PoolUpdated, poolVars, dbVars, queueVars, MinedInv
<1>8. ASSUME NEW t \in LooseTx, AcceptToMemoryPool(t)
      PROVE  MinedInv'
  <2>1. t \notin DOMAIN dbTx /\ mapTx' = mapTx \cup {t}
    BY <1>8 DEF AcceptToMemoryPool, AcceptLoose, InputsAccepted, addUnchecked
  <2>2. UNCHANGED <<dbTx, vDelete, vResurrect, pc>>
    BY <1>8 DEF AcceptToMemoryPool, dbVars, queueVars
  <2> QED
    BY <2>1, <2>2 DEF MinedInv
<1>9. CASE CrashRestart
  <2>1. mapTx' = {} /\ vDelete' = <<>> /\ vResurrect' = <<>>
    BY <1>9 DEF CrashRestart
  <2> QED
    BY <2>1, NothingListed DEF MinedInv
<1> QED
  BY <1>1, <1>2, <1>3, <1>4, <1>5, <1>6, <1>7, <1>8, <1>9
  DEF Next, vars, poolVars, dbVars, queueVars, ReceiveBlock, RejectBlock, AddOrphanBlock,
      ProcessBlock, HandlerStep, AcceptBlockFails, AddToBlockIndex, AddToBlockIndexFails,
      SetBestChainFails, ActivationFails, ExtendBestChainFails, SwitchBranch,
      PostponeConnect, ReorganizeFails, ConnectSecondaryFails, BlockAccepted,
      BlockRejected, AcceptOrphan, OrphansDone

(* Whenever ProcessBlock has returned, no transaction of the pool is in    *)
(* the index on disk: the lists that Reorganize and SetBestChainInner make *)
(* name every pooled transaction a commit put into a block, and none that  *)
(* goes back to the pool was mined on the other branch as well.            *)
THEOREM PoolNeverMined ==
  ASSUME DuplicatesStayUnspent
  PROVE  Spec /\ []MemoryMatchesDisk => []PoolNotMined
<1>1. Init => MinedInv
  BY NothingListed DEF Init, PoolEmpty, MinedInv
<1>2. IInv /\ MemoryMatchesDisk /\ LedgerInv /\ LedgerInv' /\ MinedInv /\ [Next]_vars => MinedInv'
  BY MinedStep
<1>3. MinedInv => PoolNotMined
  BY NothingListed DEF MinedInv, PoolNotMined
<1> QED
  BY <1>1, <1>2, <1>3, Invariance, LedgerInvariance, PTL DEF Spec

-----------------------------------------------------------------------------
(* What SetBestChain refuses.                                              *)

\* A block that does not connect on top of the best chain ends no valid chain.
LEMMA NotConnectedIsInvalid ==
  ASSUME DuplicatesStayUnspent, LedgerInv, NEW b \in Block \ {Genesis},
         hashPrevBlock[b] = dbBest, ~Connected(b).ok
  PROVE  ~ValidChain[b]
<1>1. PICK c, d, f : c = ChainOf[b] /\ d = ChainOf[hashPrevBlock[b]] /\ f = fVerify
  OBVIOUS
<1>2. SoundChain(d) /\ dbTx = IndexOf(d)
  BY <1>1 DEF LedgerInv, LedgerMatchesChain
<1>3. PICK r : r = ConnectBlock(OnChain(d), b, f)
  OBVIOUS
<1>4. ~r.ok
  BY <1>1, <1>2, <1>3 DEF Connected, OnChain
<1>5. r.ok <=> SoundChain(c) /\ (f => Signed(b))
  BY <1>1, <1>2, <1>3, ConnectSound
<1>6. Len(c) \in 2..Len(c) /\ c[Len(c)] = b
  BY <1>1, ParentChain, ChainFacts
<1>7. ASSUME ValidChain[b] PROVE SoundChain(c) /\ Signed(b)
  BY <1>1, <1>6, <1>7, ValidIsSound
<1> QED
  BY <1>4, <1>5, <1>7

\* Nor does one that Reorganize fails to connect with its branch.
LEMMA NotReorganizedIsInvalid ==
  ASSUME DuplicatesStayUnspent, LedgerInv, NEW to \in Block, NEW from \in Block,
         to = pindexIntermediate, from = pindexBest, from = dbBest, ~Reorganized.ok
  PROVE  ~ValidChain[to]
<1>1. PICK d, n, f : d = ChainOf[to] /\ n = CommonLen(ChainOf[from], ChainOf[to]) /\ f = fVerify
  OBVIOUS
<1>2. SoundChain(ChainOf[from]) /\ dbTx = IndexOf(ChainOf[from])
  BY DEF LedgerInv, LedgerMatchesChain
<1>3. PICK r : r = ReorganizeIndex(IndexOf(ChainOf[from]), from, to, f)
  OBVIOUS
<1>4. ~r.ok
  BY <1>1, <1>2, <1>3 DEF Reorganized
<1>5. r.ok <=> Connectable(to, n, f)
  BY <1>1, <1>2, <1>3, ReorganizeSound
<1>6. ASSUME ValidChain[to] PROVE Connectable(to, n, f)
  <2>1. SoundChain(d) /\ \A h \in 2..Len(d) : Signed(d[h])
    BY <1>1, <1>6, ValidIsSound
  <2>2. n \in 1..Len(d) /\ Len(d) \in Nat
    <3>1. n \in 1..Len(ChainOf[to])
      BY <1>1, ForkFacts
    <3> QED
      BY <1>1, <3>1, ChainFacts
  <2>3. \A i \in n + 1..Len(d) : i \in 2..Len(d)
    BY <2>2
  <2> QED
    BY <1>1, <2>1, <2>3 DEF Connectable
<1> QED
  BY <1>4, <1>5, <1>6

-----------------------------------------------------------------------------
(* Orphans that stay.                                                      *)

\* An orphan with an indexed parent has its turn still to come, or none.
StuckInv ==
  /\ \A o \in mapOrphanBlocks : hashPrevBlock[o] \in mapBlockIndex =>
       \/ ~ValidChain[hashPrevBlock[o]]
       \/ hashPrevBlock[o] \in ToSet(vWorkQueue)
       \/ pc \in AtWork \ {"rejected"} /\ hashPrevBlock[o] = pblock
  /\ pc = "accept" => pblock \notin mapBlockIndex
  /\ pc = "reorganize" =>
       \E i \in 1..Len(ChainOf[pblock]) : ChainOf[pblock][i] = pindexIntermediate

\* The only error that does not leave a good block indexed and rejected.
OnlyFileErrors == FaultKind \subseteq {"file"}

LEMMA NoOtherFault ==
  ASSUME OnlyFileErrors, NEW kinds, Fault(kinds)
  PROVE  "file" \in kinds
  BY DEF OnlyFileErrors, Fault

\* A step of the machine on a block, that ends in no rejection.
LEMMA WorkKeepsStuck ==
  ASSUME StuckInv, pc \in AtWork \ {"rejected"}, pc' \in AtWork \ {"rejected"},
         pc' \notin {"accept", "reorganize"},
         mapBlockIndex' \subseteq mapBlockIndex \cup {pblock},
         UNCHANGED <<orphanVars, pblock, vWorkQueue>>
  PROVE  StuckInv'
  BY DEF StuckInv, orphanVars

\* One that ends in the rejection of a block that is not indexed, or not valid.
LEMMA RejectionKeepsStuck ==
  ASSUME StuckInv, pblock \notin mapBlockIndex \/ ~ValidChain[pblock], pc' = "rejected",
         UNCHANGED <<mapBlockIndex, orphanVars, pblock, vWorkQueue>>
  PROVE  StuckInv'
  BY DEF StuckInv, orphanVars

LEMMA StuckStep ==
  ASSUME DuplicatesStayUnspent, OnlyFileErrors, IInv, MemoryMatchesDisk, LedgerInv,
         StuckInv, [Next]_vars
  PROVE  StuckInv'
<1> USE BlockAssumption
<1>a. OrphanInv /\ TypeOK /\ BranchInv
  BY DEF IInv
<1>1. CASE UNCHANGED vars
  BY <1>1 DEF vars, StuckInv
<1>2. ASSUME NEW b \in Block \ {Genesis}, AddOrphanBlock(b)
      PROVE  StuckInv'
  BY <1>2 DEF AddOrphanBlock, memVars, StuckInv, AtWork
<1>3. ASSUME NEW b \in Block \ {Genesis}, ProcessBlock(b)
      PROVE  StuckInv'
  BY <1>3 DEF ProcessBlock, IsDuplicate, memVars, orphanVars, StuckInv, AtWork
<1>4. CASE AcceptBlockFails
  BY <1>4, RejectionKeepsStuck DEF AcceptBlockFails, memVars, StuckInv
<1>5. CASE AddToBlockIndex
  BY <1>5, WorkKeepsStuck DEF AddToBlockIndex, InsertBlockIndex, AtWork
<1>6. CASE AddToBlockIndexFails \/ SetBestChainFails
  BY <1>6, NoOtherFault DEF AddToBlockIndexFails, SetBestChainFails
<1>7. CASE ExtendBestChain
  BY <1>7, WorkKeepsStuck DEF ExtendBestChain, SetBestChainInner, AtWork
<1>8. CASE ExtendBestChainFails
  <2>1. ~Connected(pblock).ok
    BY <1>8, NoOtherFault DEF ExtendBestChainFails
  <2>2. pblock \in Block \ {Genesis} /\ hashPrevBlock[pblock] = dbBest
    BY <1>a, <1>8 DEF ExtendBestChainFails, TypeOK, BranchInv, MemoryMatchesDisk
  <2>3. ~ValidChain[pblock]
    BY <2>1, <2>2, NotConnectedIsInvalid
  <2> QED
    BY <1>8, <2>3, RejectionKeepsStuck
    DEF ExtendBestChainFails, ActivationFails, memVars
<1>9. CASE SwitchBranch
  <2>1. PICK c, n : c = ChainOf[pblock] /\ n = Len(c)
    OBVIOUS
  <2>2. n \in 1..Len(c) /\ c[n] = pblock
    BY <1>a, <2>1, ChainFacts DEF TypeOK
  <2> QED
    BY <1>9, <2>1, <2>2 DEF SwitchBranch, memVars, orphanVars, StuckInv, AtWork
<1>10. CASE PostponeConnect
  <2>1. PICK c, i : /\ c = ChainOf[pblock] /\ i \in 1..Len(c) /\ c[i] = pindexIntermediate
    BY <1>10 DEF PostponeConnect, StuckInv
  <2>2. c[i] # Genesis /\ pindexIntermediate' = hashPrevBlock[c[i]]
    BY <1>10, <2>1 DEF PostponeConnect, CanPostpone
  <2>3. Len(c) \in Nat /\ c[1] = Genesis /\ \A j \in 2..Len(c) : hashPrevBlock[c[j]] = c[j - 1]
    BY <1>a, <2>1, ChainFacts DEF TypeOK
  <2>4. i \in 2..Len(c) /\ i - 1 \in 1..Len(c)
    BY <2>1, <2>2, <2>3
  <2>5. i - 1 \in 1..Len(c) /\ c[i - 1] = pindexIntermediate'
    BY <2>2, <2>3, <2>4
  <2>6. /\ UNCHANGED <<mapBlockIndex, orphanVars, pc, pblock, vWorkQueue>> /\ pc = "reorganize"
    BY <1>10 DEF PostponeConnect, memVars
  <2> QED
    BY <2>1, <2>5, <2>6 DEF StuckInv, orphanVars
<1>11. CASE Reorganize
  BY <1>11, WorkKeepsStuck DEF Reorganize, AtWork
<1>12. CASE ReorganizeFails
  <2>1. ~Reorganized.ok /\ pc = "reorganize"
    BY <1>12, NoOtherFault DEF ReorganizeFails
  <2>2. PICK from, to : /\ from = pindexBest /\ to = pindexIntermediate
                        /\ from \in Block /\ to \in Block /\ from = dbBest
    BY <1>a, <2>1 DEF TypeOK, MemoryMatchesDisk
  <2>3. ~ValidChain[to]
    BY <2>1, <2>2, NotReorganizedIsInvalid
  <2>4. PICK i \in 1..Len(ChainOf[pblock]) : ChainOf[pblock][i] = to
    BY <2>1, <2>2 DEF StuckInv
  <2>5. ~ValidChain[pblock]
    BY <1>a, <2>3, <2>4, ValidPart DEF TypeOK
  <2> QED
    BY <1>12, <2>5, RejectionKeepsStuck DEF ReorganizeFails, memVars
<1>13. CASE \/ ResurrectTx \/ DeleteTx \/ ConnectSecondary \/ ConnectSecondaryFails
            \/ NewBestBlock
  BY <1>13, WorkKeepsStuck
  DEF ResurrectTx, DeleteTx, ConnectSecondary, ConnectSecondaryFails, NewBestBlock,
      PoolUpdated, SetBestChainInner, memVars, AtWork
<1>14. CASE BlockAccepted
  <2>1. PICK q, u : q = vWorkQueue /\ q \in Seq(Block) /\ u = Append(q, pblock) /\ pblock \in Block
    BY <1>a DEF TypeOK
  <2>2. ToSet(q) \cup {pblock} \subseteq ToSet(u)
    <3>1. PICK n \in Nat : n = Len(q) /\ DOMAIN q = 1..n
      BY <2>1
    <3>2. DOMAIN u = 1..n + 1 /\ u[n + 1] = pblock /\ \A i \in 1..n : u[i] = q[i]
      BY <2>1, <3>1
    <3>3. n + 1 \in 1..n + 1 /\ \A i \in 1..n : i \in 1..n + 1
      OBVIOUS
    <3> QED
      BY <3>1, <3>2, <3>3 DEF ToSet
  <2>3. /\ vWorkQueue' = u /\ mapOrphanBlocks' = mapOrphanBlocks \ {pblock}
        /\ pc' = "orphans" /\ mapBlockIndex' = mapBlockIndex
    BY <1>14, <2>1 DEF BlockAccepted, Queued, memVars
  <2> QED
    BY <2>1, <2>2, <2>3 DEF StuckInv
<1>15. CASE BlockRejected
  BY <1>15 DEF BlockRejected, memVars, StuckInv
<1>16. CASE AcceptOrphan
  <2>1. PICK o \in mapOrphanBlocks : pblock' = o
    BY <1>16 DEF AcceptOrphan, Waiting
  <2>2. pc = "orphans" /\ pc' = "accept" /\ UNCHANGED <<mapBlockIndex, orphanVars, vWorkQueue>>
    BY <1>16 DEF AcceptOrphan, memVars
  <2>3. o \notin mapBlockIndex
    BY <1>a, <2>1, <2>2 DEF OrphanInv
  <2> QED
    BY <2>1, <2>2, <2>3 DEF StuckInv, orphanVars, AtWork
<1>17. CASE OrphansDone
  <2>1. PICK q : q = vWorkQueue /\ q \in Seq(Block) /\ q # <<>>
    BY <1>a, <1>17 DEF TypeOK, OrphanInv, OrphansDone
  <2>2. ToSet(q) = {Head(q)} \cup ToSet(Tail(q))
    BY <2>1, ToSetTail
  <2>3. \A o \in mapOrphanBlocks : hashPrevBlock[o] # Head(q)
    BY <1>a, <1>17, <2>1 DEF OrphansDone, Waiting, OrphanInv
  <2>4. /\ vWorkQueue' = Tail(q) /\ UNCHANGED <<mapBlockIndex, mapOrphanBlocks, pblock>>
        /\ pc = "orphans" /\ pc' \in {"idle", "orphans"}
    BY <1>17, <2>1 DEF OrphansDone, memVars
  <2> QED
    BY <2>1, <2>2, <2>3, <2>4 DEF StuckInv, AtWork
<1>18. ASSUME NEW t \in LooseTx, AcceptToMemoryPool(t)
       PROVE  StuckInv'
  BY <1>18 DEF AcceptToMemoryPool, memVars, orphanVars, branchVars, StuckInv
<1>19. CASE CrashRestart
  BY <1>19 DEF CrashRestart, StuckInv
<1> QED
  BY <1>1, <1>2, <1>3, <1>4, <1>5, <1>6, <1>7, <1>8, <1>9, <1>10, <1>11, <1>12, <1>13,
     <1>14, <1>15, <1>16, <1>17, <1>18, <1>19
  DEF Next, ReceiveBlock, RejectBlock, HandlerStep

(* An orphan whose parent is in the index has an invalid parent: a valid   *)
(* block that is accepted takes its orphans with it, and no step of        *)
(* SetBestChain refuses a valid one.  An error of the database can, so     *)
(* none is assumed to happen; crashes are allowed.                         *)
THEOREM StuckOrphansAlwaysInvalid ==
  ASSUME DuplicatesStayUnspent, OnlyFileErrors
  PROVE  Spec /\ []MemoryMatchesDisk => []StuckOrphansAreInvalid
<1>1. Init => StuckInv
  BY DEF Init, StuckInv
<1>2. IInv /\ MemoryMatchesDisk /\ LedgerInv /\ StuckInv /\ [Next]_vars => StuckInv'
  BY StuckStep
<1>3. IInv /\ StuckInv => StuckOrphansAreInvalid
  BY NothingListed DEF IInv, OrphanInv, StuckInv, StuckOrphansAreInvalid, AtWork
<1> QED
  BY <1>1, <1>2, <1>3, Invariance, LedgerInvariance, PTL DEF Spec

-----------------------------------------------------------------------------
(* ProcessBlock implements ChainSelection.                                 *)

\* The tree, and the sums, of ChainSelection are the same ones.
LEMMA SameSums ==
  /\ \A f : Selection!SumFunction(f) = SumFunction(f)
  /\ Selection!ChainOf = ChainOf
<1>1. Selection!ChainOf = ChainOf
  BY DEF ChainOf, Selection!ChainOf
<1>2. ASSUME NEW f PROVE Selection!SumFunction(f) = SumFunction(f)
  BY DEF SumFunction, Selection!SumFunction, SumFunctionOnSet, Selection!SumFunctionOnSet,
     FoldFunctionOnSet, Selection!FoldFunctionOnSet, MapThenFoldSet, Selection!MapThenFoldSet
<1> QED
  BY <1>1, <1>2

LEMMA SameRules == Selection!ValidChain = ValidChain
<1>1. \A c : Selection!Places(c) = Places(c)
  BY DEF Places, Selection!Places
<1>2. \A c, o : Selection!At(c, o) = At(c, o)
  BY DEF At, Selection!At
<1>3. \A t : /\ Selection!GetValueIn(t) = GetValueIn(t)
             /\ Selection!GetValueOut(t) = GetValueOut(t)
             /\ Selection!IsCoinBase(t) = IsCoinBase(t)
  BY SameSums DEF GetValueIn, Selection!GetValueIn, GetValueOut, Selection!GetValueOut,
     IsCoinBase, Selection!IsCoinBase
<1>4. \A b : Selection!Fees(b) = Fees(b)
  BY SameSums, <1>3 DEF Fees, Selection!Fees
<1>5. \A b : Selection!CheckBlock(b) <=> CheckBlock(b)
  BY DEF CheckBlock, Selection!CheckBlock, CheckTransaction, Selection!CheckTransaction,
     IsCoinBase, Selection!IsCoinBase
<1>6. \A c : Selection!InputsExist(c) <=> InputsExist(c)
  BY DEF InputsExist, Selection!InputsExist, Places, Selection!Places, At, Selection!At, Before,
     Selection!Before, IsCoinBase, Selection!IsCoinBase
<1>7. \A c : Selection!NoDoubleSpend(c) <=> NoDoubleSpend(c)
  BY DEF NoDoubleSpend, Selection!NoDoubleSpend, Places, Selection!Places, At, Selection!At
<1>8. \A h, f : Selection!GetBlockValue(h, f) = GetBlockValue(h, f)
  BY DEF GetBlockValue, Selection!GetBlockValue, Subsidy, Selection!Subsidy
<1>9. \A c : Selection!IsValidChain(c) <=> IsValidChain(c)
  BY <1>1, <1>2, <1>3, <1>4, <1>5, <1>6, <1>7, <1>8 DEF IsValidChain, Selection!IsValidChain
<1> QED
  BY SameSums, <1>9 DEF ValidChain, Selection!ValidChain

-----------------------------------------------------------------------------
(* ProcessBlock as a whole.                                                *)

\* On the test network, or with good signatures alone, none goes unchecked.
SignaturesChecked == TotalBlocksEstimate = 0 \/ \A b \in Block : Signed(b)

\* BranchWork adds up along the branch, the way bnChainWork is computed.
LEMMA BranchWorkAdds ==
  ASSUME NEW b \in Block
  PROVE  /\ b = Genesis => BranchWork[b] = GetBlockWork[b]
         /\ b # Genesis =>
              BranchWork[b] = BranchWork[hashPrevBlock[b]] + GetBlockWork[b]
<1>1. PICK c, n : /\ c = ChainOf[b] /\ n = Len(c) /\ n \in Nat \ {0} /\ c[n] = b
                  /\ c \in Seq(Block) /\ DOMAIN c = 1..n
  <2>1. PICK c, n : c = ChainOf[b] /\ n = Len(c)
    OBVIOUS
  <2>2. n \in Nat \ {0} /\ c[n] = b /\ c \in Seq(Block)
    BY <2>1, ChainFacts
  <2> QED
    BY <2>1, <2>2
<1>2. PICK f : f = [i \in 1..n |-> GetBlockWork[c[i]]]
  OBVIOUS
<1>3. f \in [1..n -> Int] /\ f[n] = GetBlockWork[b] /\ n \in 1..n /\ IsFiniteSet(1..n)
  <2>1. \A i \in 1..n : c[i] \in Block
    BY <1>1
  <2>2. f \in [1..n -> Int]
    BY <1>2, <2>1, BlockAssumption
  <2>3. n \in 1..n /\ 1 \in Int /\ n \in Int
    BY <1>1
  <2>4. f[n] = GetBlockWork[b]
    BY <1>1, <1>2, <2>3
  <2> QED
    BY <2>2, <2>3, <2>4, FS_Interval
<1>4. BranchWork[b] = SumFunction(f)
  BY <1>1, <1>2 DEF BranchWork
<1>5. PICK g : g = [i \in (1..n) \ {n} |-> f[i]]
  OBVIOUS
<1>6. SumFunction(f) = f[n] + SumFunction(g) /\ SumFunction(g) \in Int
  <2>1. PICK S : S = 1..n
    OBVIOUS
  <2>2. IsFiniteSet(S) /\ f \in [S -> Int] /\ n \in S
    BY <1>3, <2>1
  <2>3. g = [i \in S \ {n} |-> f[i]]
    BY <1>5, <2>1
  <2> QED
    BY <2>2, <2>3, SumWithout
<1>7. CASE b = Genesis
  <2>1. n = 1
    <3>1. c = <<b>>
      BY <1>1, <1>7, ChainEquation
    <3> QED
      BY <1>1, <3>1
  <2>2. DOMAIN g = {}
    BY <1>5, <2>1
  <2>3. SumFunction(g) = 0 /\ GetBlockWork[b] \in Int
    BY <2>2, SumOfNone, BlockAssumption
  <2> QED
    BY <1>3, <1>4, <1>6, <1>7, <2>3
<1>8. CASE b # Genesis
  <2>1. PICK a, d : a = hashPrevBlock[b] /\ d = ChainOf[a] /\ a \in Block
    BY <1>8, BlockAssumption
  <2>2. /\ n = Len(d) + 1 /\ d \in Seq(Block) /\ \A i \in 1..Len(d) : c[i] = d[i]
    BY <1>1, <1>8, <2>1, ParentChain, ChainFacts
  <2>3. DOMAIN d = (1..n) \ {n} /\ \A i \in DOMAIN d : i \in 1..n /\ c[i] = d[i]
    <3>1. PICK m : m = Len(d) /\ m \in Nat /\ DOMAIN d = 1..m /\ n = m + 1
      BY <2>2
    <3>2. 1..m = (1..n) \ {n} /\ \A i \in 1..m : i \in 1..n
      BY <3>1
    <3> QED
      BY <2>2, <3>1, <3>2
  <2>4. g = [i \in DOMAIN d |-> GetBlockWork[d[i]]]
    BY <1>2, <1>5, <2>3
  <2>5. BranchWork[a] = SumFunction(g)
    BY <2>1, <2>4 DEF BranchWork
  <2>6. GetBlockWork[b] \in Int
    BY BlockAssumption
  <2> QED
    BY <1>3, <1>4, <1>6, <1>8, <2>1, <2>5, <2>6
<1> QED
  BY <1>7, <1>8

\* Indexed blocks have passed AcceptBlock and carry the work of their branch, and
\* the signatures of the best chain are right.
SelectInv ==
  /\ \A b \in mapBlockIndex : bnChainWork[b] = BranchWork[b]
  /\ \A b \in mapBlockIndex \ {Genesis} : b \notin BadContext
  /\ \A i \in 2..Len(ChainOf[dbBest]) : Signed(ChainOf[dbBest][i])

LEMMA SelectInit == Init => SelectInv
<1> SUFFICES ASSUME Init PROVE SelectInv
  OBVIOUS
<1>1. mapBlockIndex = {Genesis} /\ dbBest = Genesis /\ Genesis \in Block
  BY BlockAssumption DEF Init
<1>2. bnChainWork[Genesis] = BranchWork[Genesis]
  BY <1>1, BranchWorkAdds DEF Init
<1>3. ChainOf[Genesis] = <<Genesis>>
  BY <1>1, ChainEquation
<1>4. 2..Len(ChainOf[dbBest]) = {}
  BY <1>1, <1>3
<1> QED
  BY <1>1, <1>2, <1>4 DEF SelectInv

\* A new block gets the work of its branch.
LEMMA InsertAddsWork ==
  ASSUME IInv, SelectInv, NEW b \in Block, Acceptable(b), InsertBlockIndex(b)
  PROVE  /\ \A a \in mapBlockIndex' : bnChainWork'[a] = BranchWork[a]
         /\ \A a \in mapBlockIndex' \ {Genesis} : a \notin BadContext
<1>1. /\ b # Genesis /\ mapBlockIndex' = mapBlockIndex \cup {b}
      /\ \A a \in mapBlockIndex : bnChainWork'[a] = bnChainWork[a]
      /\ b \in mapBlockIndex' \ {Genesis}
      /\ bnChainWork'[b] = bnChainWork'[hashPrevBlock[b]] + GetBlockWork[b]
  BY InsertKeepsWork
<1>2. hashPrevBlock[b] \in mapBlockIndex /\ b \notin BadContext
  BY DEF Acceptable
<1>3. BranchWork[b] = BranchWork[hashPrevBlock[b]] + GetBlockWork[b]
  BY <1>1, BranchWorkAdds
<1> QED
  BY <1>1, <1>2, <1>3 DEF SelectInv

\* With SignaturesChecked, a block that connects has good signatures.
LEMMA ConnectingChecks ==
  ASSUME SignaturesChecked, IInv, NEW S \in SUBSET Block, fVerify => \A b \in S : Signed(b)
  PROVE  \A b \in S : Signed(b)
<1>1. CASE TotalBlocksEstimate = 0
  <2>1. nHeight(pindexBest) \in Nat
    <3>1. pindexBest \in Block
      BY DEF IInv, TypeOK
    <3>2. Len(ChainOf[pindexBest]) \in Nat \ {0}
      BY <3>1, ChainFacts
    <3> QED
      BY <3>2 DEF nHeight
  <2>2. fVerify
    BY <1>1, <2>1 DEF fVerify
  <2> QED
    BY <2>2
<1> QED
  BY <1>1 DEF SignaturesChecked

LEMMA SelectStep ==
  ASSUME DuplicatesStayUnspent, SignaturesChecked, IInv, MemoryMatchesDisk, LedgerInv,
         SelectInv, [Next]_vars
  PROVE  SelectInv'
<1>a. /\ mapBlockIndex \subseteq Block /\ dbBest \in Block /\ pblock \in Block
      /\ dbIndex \subseteq mapBlockIndex
      /\ SoundChain(ChainOf[dbBest]) /\ dbTx = IndexOf(ChainOf[dbBest])
  BY DEF IInv, TypeOK, IndexInv, LedgerInv, LedgerMatchesChain
<1>1. CASE UNCHANGED <<mapBlockIndex, bnChainWork, dbBest>>
  BY <1>1 DEF SelectInv
<1>2. CASE AddToBlockIndex \/ AddToBlockIndexFails
  <2>1. dbBest' = dbBest
    BY <1>2 DEF AddToBlockIndex, AddToBlockIndexFails, dbVars
  <2>2. Acceptable(pblock) /\ InsertBlockIndex(pblock)
    BY <1>2 DEF AddToBlockIndex, AddToBlockIndexFails
  <2> QED
    BY <1>a, <2>1, <2>2, InsertAddsWork DEF SelectInv
<1>3. ASSUME NEW b \in Block \ {Genesis}, hashPrevBlock[b] = dbBest, SetBestChainInner(b)
      PROVE  SelectInv'
  <2>1. PICK c, d, f : /\ c = ChainOf[b] /\ d = ChainOf[hashPrevBlock[b]] /\ f = fVerify
                       /\ SoundChain(d) /\ d = ChainOf[dbBest]
    BY <1>3, <1>a
  <2>2. ConnectBlock(OnChain(d), b, f).ok
    BY <1>3, <1>a, <2>1 DEF SetBestChainInner, Connected, OnChain
  <2>3. f => Signed(b)
    BY <1>3, <2>1, <2>2, ConnectSound
  <2>4. Signed(b)
    <3>1. \A a \in {b} : Signed(a)
      BY <2>1, <2>3, ConnectingChecks
    <3> QED
      BY <3>1
  <2>5. /\ Len(c) = Len(d) + 1 /\ c[Len(c)] = b /\ Len(d) \in Nat
        /\ \A i \in 1..Len(d) : c[i] = d[i]
    BY <1>3, <1>a, <2>1, ParentChain, ChainFacts
  <2>6. \A i \in 2..Len(c) : i = Len(c) \/ (i \in 2..Len(d) /\ i \in 1..Len(d))
    BY <2>5
  <2>7. \A i \in 2..Len(d) : Signed(d[i])
    BY <2>1 DEF SelectInv
  <2>8. \A i \in 2..Len(c) : Signed(c[i])
    BY <2>4, <2>5, <2>6, <2>7
  <2>9. dbBest' = b /\ UNCHANGED <<mapBlockIndex, bnChainWork>>
    BY <1>3 DEF SetBestChainInner
  <2> QED
    BY <2>1, <2>8, <2>9 DEF SelectInv
<1>4. CASE ExtendBestChain
  <2>1. pblock \in Block \ {Genesis} /\ hashPrevBlock[pblock] = dbBest
    BY <1>4, <1>a DEF IInv, BranchInv, ExtendBestChain, MemoryMatchesDisk
  <2> QED
    BY <1>3, <1>4, <2>1 DEF ExtendBestChain
<1>5. CASE Reorganize
  <2>1. PICK from, to, f :
          /\ from = pindexBest /\ to = pindexIntermediate /\ f = fVerify
          /\ from = dbBest /\ from \in Block /\ to \in Block
    BY <1>5, <1>a DEF IInv, TypeOK, MemoryMatchesDisk, Reorganize
  <2>2. PICK r, n : /\ r = ReorganizeIndex(IndexOf(ChainOf[from]), from, to, f)
                    /\ n = CommonLen(ChainOf[from], ChainOf[to])
    OBVIOUS
  <2>3. r.ok /\ dbBest' = to /\ UNCHANGED <<mapBlockIndex, bnChainWork>>
    BY <1>5, <1>a, <2>1, <2>2 DEF Reorganize, Reorganized
  <2>4. Connectable(to, n, f)
    BY <1>a, <2>1, <2>2, <2>3, ReorganizeSound
  <2>5. PICK c, d : c = ChainOf[to] /\ d = ChainOf[from]
    OBVIOUS
  <2>6. /\ c \in Seq(Block) /\ n \in 1..Len(d) /\ n \in 1..Len(c)
        /\ \A i \in 1..n : c[i] = d[i]
    <3>1. c \in Seq(Block)
      BY <2>1, <2>5, ChainFacts
    <3>2. n \in 1..Len(ChainOf[from]) /\ n \in 1..Len(ChainOf[to])
      BY <2>1, <2>2, ForkFacts
    <3>3. \A i \in 1..n : ChainOf[from][i] = ChainOf[to][i]
      BY <2>1, <2>2, ForkFacts
    <3> QED
      BY <2>5, <3>1, <3>2, <3>3
  <2>7. \A i \in n + 1..Len(c) : Signed(c[i])
    <3>1. PICK S : S = {c[i] : i \in n + 1..Len(c)}
      OBVIOUS
    <3>2. \A i \in n + 1..Len(c) : i \in 1..Len(c)
      BY <2>6
    <3>3. S \in SUBSET Block
      BY <2>6, <3>1, <3>2
    <3>4. fVerify => \A b \in S : Signed(b)
      BY <2>1, <2>4, <2>5, <3>1 DEF Connectable
    <3>5. \A b \in S : Signed(b)
      BY <3>3, <3>4, ConnectingChecks
    <3> QED
      BY <3>1, <3>5
  <2>8. \A i \in 2..Len(d) : Signed(d[i])
    BY <2>1, <2>5 DEF SelectInv
  <2>9. \A i \in 2..Len(c) : i \in n + 1..Len(c) \/ (i \in 1..n /\ i \in 2..Len(d))
    BY <2>6
  <2>10. \A i \in 2..Len(c) : Signed(c[i])
    BY <2>6, <2>7, <2>8, <2>9
  <2> QED
    BY <2>3, <2>5, <2>10 DEF SelectInv
<1>6. CASE ConnectSecondary
  <2>1. PICK b : b = Head(vpindexSecondary) /\ SetBestChainInner(b)
    BY <1>6 DEF ConnectSecondary
  <2>2. b \in Block \ {Genesis} /\ hashPrevBlock[b] = dbBest
    BY <1>6, <1>a, <2>1, NextSecondary DEF ConnectSecondary
  <2> QED
    BY <1>3, <2>1, <2>2
<1>7. CASE CrashRestart
  <2>1. mapBlockIndex' = dbIndex /\ UNCHANGED <<bnChainWork, dbBest>>
    BY <1>7 DEF CrashRestart, dbVars
  <2> QED
    BY <1>a, <2>1 DEF SelectInv
<1> QED
  BY <1>1, <1>2, <1>4, <1>5, <1>6, <1>7
  DEF Next, vars, memVars, dbVars, ReceiveBlock, RejectBlock, AddOrphanBlock, ProcessBlock,
      HandlerStep, AcceptBlockFails,
      SetBestChainFails, ActivationFails, ExtendBestChainFails, SwitchBranch,
      PostponeConnect, ReorganizeFails, ResurrectTx, DeleteTx, ConnectSecondaryFails,
      NewBestBlock, BlockAccepted, BlockRejected, AcceptOrphan, OrphansDone,
      AcceptToMemoryPool

\* The best block on disk ends a valid chain.
LEMMA DiskBestIsValid ==
  ASSUME IInv, LedgerInv, SelectInv
  PROVE  ValidChain[dbBest]
<1>1. PICK b, c : b = dbBest /\ c = ChainOf[b] /\ b \in mapBlockIndex /\ b \in Block
  BY DEF IInv, TypeOK, IndexInv
<1>2. SoundChain(c) /\ \A i \in 2..Len(c) : Signed(c[i])
  BY <1>1 DEF LedgerInv, SelectInv
<1>3. Len(c) \in Nat /\ \A i \in 2..Len(c) : c[i] # Genesis
  BY <1>1, ChainFacts
<1>4. ASSUME NEW i \in 2..Len(c) PROVE c[i] \notin BadContext
  <2>1. i \in 1..Len(c)
    BY <1>3
  <2>2. c[i] \in mapBlockIndex
    BY <1>1, <2>1, ChainInIndex
  <2> QED
    BY <1>3, <2>2 DEF SelectInv
<1>5. ValidChain[b]
  BY <1>1, <1>2, <1>4, ValidIsSound
<1> QED
  BY <1>1, <1>5

-----------------------------------------------------------------------------
(* The refinement.                                                         *)

\* The variable known of ChainSelection.
KnownBlocks ==
  IF pc \in {"idle", "orphans", "accepted", "rejected", "accept"}
  THEN mapBlockIndex ELSE mapBlockIndex \ {pblock}

Selects == [Selection!SelectionNext]_(Selection!selectionVars)

LEMMA Stutters ==
  ASSUME KnownBlocks' = KnownBlocks, pindexBest' = pindexBest
  PROVE  Selects
  BY DEF Selects, Selection!selectionVars, KnownBlocks

LEMMA Learns ==
  ASSUME NEW b \in Block \ {Genesis}, b \notin KnownBlocks, hashPrevBlock[b] \in KnownBlocks,
         KnownBlocks' = KnownBlocks \cup {b},
         pindexBest' = IF ValidChain[b] /\ BranchWork[b] > BranchWork[pindexBest]
                       THEN b ELSE pindexBest
  PROVE  Selects
<1>1. Selection!Learn(b)
  BY SameRules DEF Selection!Learn, KnownBlocks
<1> QED
  BY <1>1 DEF Selects, Selection!SelectionNext

\* The block at work was refused for good.
LEMMA RefusalLearns ==
  ASSUME IInv, ~ValidChain[pblock], pc \in {"activate", "reorganize"}, pc' = "rejected",
         UNCHANGED <<mapBlockIndex, pindexBest>>
  PROVE  Selects
<1>1. PICK b : /\ b = pblock /\ b \in mapBlockIndex /\ b \in Block \ {Genesis}
               /\ hashPrevBlock[b] \in mapBlockIndex
               /\ bnChainWork[b] = bnChainWork[hashPrevBlock[b]] + GetBlockWork[b]
               /\ bnChainWork[hashPrevBlock[b]] \in Nat
  BY DEF IInv, TypeOK, IndexInv, BranchInv
<1>2. GetBlockWork[b] \in Nat \ {0}
  BY <1>1, BlockAssumption
<1>3. hashPrevBlock[b] # b
  BY <1>1, <1>2
<1>4. KnownBlocks = mapBlockIndex \ {b} /\ KnownBlocks' = mapBlockIndex
  BY <1>1 DEF KnownBlocks
<1> QED
  BY <1>1, <1>3, <1>4, Learns

\* Reorganize is not reached with a valid block while others are postponed.
PostponedInv ==
  /\ pc = "reorganize" /\ vpindexSecondary # <<>> => pindexIntermediate # pblock
  /\ pc = "mempool" => vpindexSecondary = <<>>

\* The index in memory is the one on disk.
IndexSaved == dbIndex = mapBlockIndex

(* Hypothesis: no crash falls between the record of a block in the index   *)
(* and the commit that connects it.  After such a crash the node comes up  *)
(* with a block that it knows and will not try again, whatever its work,   *)
(* because LoadBlockIndex takes hashBestChain as it is.                    *)
SafeCrash == CrashRestart => pc \notin {"activate", "reorganize"}

CrashesAreSafe == [][SafeCrash]_vars

\* The block at work is connected, and becomes the best one.
LEMMA BestLearns ==
  ASSUME IInv, LedgerInv, SelectInv, pc = "mempool", dbBest = pblock,
         pc' \in {"accepted", "idle"}, mapBlockIndex' = mapBlockIndex, pindexBest' = dbBest
  PROVE  Selects
<1>a. TypeOK /\ BranchInv
  BY DEF IInv
<1>1. PICK b : b = pblock /\ b = dbBest
  OBVIOUS
<1>2. b \in mapBlockIndex /\ b \in Block \ {Genesis}
  BY <1>a, <1>1 DEF TypeOK, BranchInv
<1>3. ValidChain[b]
  BY <1>1, DiskBestIsValid
<1>4. BranchWork[b] > BranchWork[pindexBest]
  <2>1. bnChainWork[pindexBest] < bnChainWork[b] /\ bnChainWork \in [Block -> Nat]
    BY <1>a, <1>1 DEF BranchInv, TypeOK
  <2>2. bnChainWork[b] = BranchWork[b] /\ bnChainWork[pindexBest] = BranchWork[pindexBest]
    BY <1>a, <1>2 DEF SelectInv, TypeOK
  <2> QED
    BY <1>2, <2>1, <2>2
<1>5. hashPrevBlock[b] \in mapBlockIndex \ {b}
  <2>1. /\ hashPrevBlock[b] \in mapBlockIndex /\ bnChainWork[hashPrevBlock[b]] \in Nat
        /\ bnChainWork[b] = bnChainWork[hashPrevBlock[b]] + GetBlockWork[b]
    BY <1>2 DEF IInv, TypeOK, IndexInv
  <2>2. GetBlockWork[b] \in Nat \ {0}
    BY <1>2, BlockAssumption
  <2> QED
    BY <1>2, <2>1, <2>2
<1>6. KnownBlocks = mapBlockIndex \ {b} /\ KnownBlocks' = mapBlockIndex
  BY <1>1 DEF KnownBlocks
<1> QED
  BY <1>1, <1>2, <1>3, <1>4, <1>5, <1>6, Learns

LEMMA SelectionStep ==
  ASSUME DuplicatesStayUnspent, OnlyFileErrors,
         IInv, MemoryInv, MemoryMatchesDisk', LedgerInv, StuckInv, PostponedInv, IndexSaved,
         SelectInv, SelectInv', [Next]_vars, [SafeCrash]_vars
  PROVE  Selects
<1> USE BlockAssumption
<1>a. OrphanInv /\ TypeOK /\ BranchInv /\ MemoryMatchesDisk
  BY DEF IInv, MemoryInv
<1>1. CASE UNCHANGED vars
  BY <1>1, Stutters DEF vars, KnownBlocks
<1>2. ASSUME NEW b \in Block \ {Genesis}, AddOrphanBlock(b) \/ ProcessBlock(b)
      PROVE  Selects
  BY <1>2, Stutters DEF AddOrphanBlock, ProcessBlock, memVars, KnownBlocks
<1>3. CASE \/ AcceptBlockFails \/ BlockAccepted \/ BlockRejected \/ AcceptOrphan
           \/ OrphansDone
  BY <1>3, Stutters
  DEF AcceptBlockFails, BlockAccepted, BlockRejected, AcceptOrphan, OrphansDone, memVars,
      KnownBlocks
<1>4. CASE AddToBlockIndex
  <2>1. /\ Acceptable(pblock) /\ InsertBlockIndex(pblock) /\ pc = "accept"
        /\ pc' = (IF BeatsBest(pblock) THEN "activate" ELSE "accepted")
        /\ UNCHANGED <<pblock, pindexBest>>
    BY <1>4 DEF AddToBlockIndex, InsertBlockIndex
  <2>2. PICK b : b = pblock /\ b \in Block
    BY <1>a DEF TypeOK
  <2>3. /\ b \notin mapBlockIndex /\ hashPrevBlock[b] \in mapBlockIndex
        /\ b # Genesis /\ mapBlockIndex' = mapBlockIndex \cup {b}
    BY <2>1, <2>2, InsertKeepsWork DEF Acceptable
  <2>4. CASE BeatsBest(pblock)
    <3>1. KnownBlocks' = KnownBlocks
      BY <2>1, <2>2, <2>3, <2>4 DEF KnownBlocks
    <3> QED
      BY <2>1, <3>1, Stutters
  <2>5. CASE ~BeatsBest(pblock)
    <3>1. KnownBlocks = mapBlockIndex /\ KnownBlocks' = KnownBlocks \cup {b}
      BY <2>1, <2>2, <2>3, <2>5 DEF KnownBlocks
    <3>2. bnChainWork'[b] = BranchWork[b] /\ bnChainWork[pindexBest] = BranchWork[pindexBest]
      BY <1>a, <2>3 DEF SelectInv, TypeOK
    <3>3. ~(BranchWork[b] > BranchWork[pindexBest])
      BY <2>2, <2>5, <3>2 DEF BeatsBest
    <3> QED
      BY <2>1, <2>2, <2>3, <3>1, <3>3, Learns
  <2> QED
    BY <2>4, <2>5
<1>5. CASE AddToBlockIndexFails \/ SetBestChainFails
  BY <1>5, NoOtherFault DEF AddToBlockIndexFails, SetBestChainFails
<1>6. CASE ExtendBestChainFails
  <2>1. ~Connected(pblock).ok
    BY <1>6, NoOtherFault DEF ExtendBestChainFails
  <2>2. pblock \in Block \ {Genesis} /\ hashPrevBlock[pblock] = dbBest
    BY <1>a, <1>6 DEF ExtendBestChainFails, TypeOK, BranchInv, MemoryMatchesDisk
  <2>3. ~ValidChain[pblock]
    BY <2>1, <2>2, NotConnectedIsInvalid
  <2> QED
    BY <1>6, <2>3, RefusalLearns DEF ExtendBestChainFails, ActivationFails, memVars
<1>7. CASE ReorganizeFails
  <2>1. ~Reorganized.ok /\ pc = "reorganize"
    BY <1>7, NoOtherFault DEF ReorganizeFails
  <2>2. PICK from, to : /\ from = pindexBest /\ to = pindexIntermediate
                        /\ from \in Block /\ to \in Block /\ from = dbBest
    BY <1>a, <2>1 DEF TypeOK, MemoryMatchesDisk
  <2>3. ~ValidChain[to]
    BY <2>1, <2>2, NotReorganizedIsInvalid
  <2>4. PICK i \in 1..Len(ChainOf[pblock]) : ChainOf[pblock][i] = to
    BY <2>1, <2>2 DEF StuckInv
  <2>5. ~ValidChain[pblock]
    BY <1>a, <2>3, <2>4, ValidPart DEF TypeOK
  <2> QED
    BY <1>7, <2>5, RefusalLearns DEF ReorganizeFails, memVars
<1>8. CASE \/ ExtendBestChain \/ SwitchBranch \/ PostponeConnect \/ Reorganize
           \/ ResurrectTx \/ DeleteTx \/ ConnectSecondary \/ ConnectSecondaryFails
  BY <1>8, Stutters
  DEF ExtendBestChain, SwitchBranch, PostponeConnect, Reorganize, ResurrectTx, DeleteTx,
      ConnectSecondary, ConnectSecondaryFails, PoolUpdated, SetBestChainInner, memVars,
      KnownBlocks
<1>9. CASE NewBestBlock
  <2>1. dbBest = pblock /\ pc' = "accepted"
    BY <1>9 DEF NewBestBlock, MemoryMatchesDisk, dbVars
  <2> QED
    BY <1>9, <2>1, BestLearns DEF NewBestBlock, PoolUpdated
<1>10. ASSUME NEW t \in LooseTx, AcceptToMemoryPool(t)
       PROVE  Selects
  BY <1>10, Stutters DEF AcceptToMemoryPool, memVars, KnownBlocks
<1>11. CASE CrashRestart
  <2>1. mapBlockIndex' = mapBlockIndex /\ pc' = "idle" /\ pindexBest' = dbBest
    BY <1>11 DEF CrashRestart, IndexSaved
  <2>2. CASE pc = "mempool"
    <3>1. dbBest = pblock
      BY <2>2 DEF MemoryInv, EndsInBlock, PostponedInv
    <3> QED
      BY <2>1, <2>2, <3>1, BestLearns
  <2>3. CASE pc # "mempool"
    <3>1. pc \notin {"activate", "reorganize", "mempool"}
      <4>1. nCrashes' # nCrashes
        BY <1>a, <1>11, BoundAssumption DEF CrashRestart, TypeOK
      <4>2. SafeCrash
        BY <4>1 DEF vars
      <4> QED
        BY <1>11, <2>3, <4>2 DEF SafeCrash
    <3>2. KnownBlocks = mapBlockIndex /\ KnownBlocks' = mapBlockIndex
      BY <1>a, <2>1, <3>1 DEF KnownBlocks, TypeOK, PC
    <3>3. pindexBest' = pindexBest
      BY <2>1, <2>3 DEF MemoryInv, MemoryMatchesDisk
    <3> QED
      BY <3>2, <3>3, Stutters
  <2> QED
    BY <2>2, <2>3
<1> QED
  BY <1>1, <1>2, <1>3, <1>4, <1>5, <1>6, <1>7, <1>8, <1>9, <1>10, <1>11
  DEF Next, ReceiveBlock, RejectBlock, HandlerStep

-----------------------------------------------------------------------------
(* Memory and disk, when crashes are safe.                                 *)

\* No known valid block has more work than the best one.
HeaviestInv ==
  \A b \in KnownBlocks : ValidChain[b] => BranchWork[b] <= BranchWork[pindexBest]

\* All that a step needs to know of the one before.
SteadyInv ==
  /\ MemoryInv /\ LedgerInv /\ StuckInv /\ SelectInv
  /\ HeaviestInv /\ PostponedInv /\ IndexSaved

LEMMA HeaviestStep ==
  ASSUME IInv, IInv', SelectInv, SelectInv', HeaviestInv, Selects
  PROVE  HeaviestInv'
<1>1. PICK p, q, w : p = pindexBest /\ q = pindexBest' /\ w = BranchWork
  OBVIOUS
<1>2. w[p] \in Nat /\ w[q] \in Nat /\ \A b \in KnownBlocks' : w[b] \in Nat
  <2>1. \A b \in mapBlockIndex : w[b] \in Nat
    BY <1>1 DEF IInv, TypeOK, SelectInv
  <2>2. \A b \in mapBlockIndex' : w[b] \in Nat
    BY <1>1 DEF IInv, TypeOK, SelectInv
  <2>3. p \in mapBlockIndex /\ q \in mapBlockIndex' /\ KnownBlocks' \subseteq mapBlockIndex'
    BY <1>1 DEF IInv, TypeOK, KnownBlocks
  <2> QED
    BY <2>1, <2>2, <2>3
<1>3. CASE KnownBlocks' = KnownBlocks /\ q = p
  BY <1>1, <1>3 DEF HeaviestInv
<1>4. ASSUME NEW b \in Block \ {Genesis}, KnownBlocks' = KnownBlocks \cup {b},
             q = IF ValidChain[b] /\ w[b] > w[p] THEN b ELSE p
      PROVE  HeaviestInv'
  <2>1. w[b] \in Nat
    BY <1>2, <1>4
  <2>2. w[p] <= w[q] /\ (ValidChain[b] => w[b] <= w[q])
    BY <1>2, <1>4, <2>1
  <2>3. ASSUME NEW a \in KnownBlocks', ValidChain[a] PROVE w[a] <= w[q]
    <3>1. CASE a = b
      BY <2>2, <2>3, <3>1
    <3>2. CASE a # b
      <4>1. w[a] <= w[p]
        BY <1>1, <1>4, <2>3, <3>2 DEF HeaviestInv
      <4> QED
        BY <1>2, <2>2, <2>3, <4>1
    <3> QED
      BY <3>1, <3>2
  <2> QED
    BY <1>1, <2>3 DEF HeaviestInv
<1>5. \/ KnownBlocks' = KnownBlocks /\ q = p
      \/ \E b \in Block \ {Genesis} :
           /\ KnownBlocks' = KnownBlocks \cup {b}
           /\ q = IF ValidChain[b] /\ w[b] > w[p] THEN b ELSE p
  BY <1>1, SameRules
  DEF Selects, Selection!SelectionNext, Selection!selectionVars, Selection!Learn, KnownBlocks
<1> QED
  BY <1>3, <1>4, <1>5

\* A block that is postponed on is known, has more work than the best one, and is
\* therefore invalid.
LEMMA NothingPostponed ==
  ASSUME IInv, IInv', LedgerInv', SelectInv, SelectInv', HeaviestInv, PostponedInv, Reorganize
  PROVE  vpindexSecondary = <<>>
<1> SUFFICES ASSUME vpindexSecondary # <<>> PROVE FALSE
  OBVIOUS
<1>1. PICK b : b = pindexIntermediate
  OBVIOUS
<1>2. /\ b \in mapBlockIndex /\ bnChainWork[pindexBest] < bnChainWork[b]
      /\ pindexBest \in mapBlockIndex /\ pc = "reorganize" /\ b # pblock
  BY <1>1 DEF Reorganize, IInv, TypeOK, BranchInv, PostponedInv
<1>3. dbBest' = b /\ ValidChain[dbBest']
  <2>1. ValidChain[dbBest]'
    BY DiskBestIsValid, PTL
  <2> QED
    BY <1>1, <2>1 DEF Reorganize
<1>4. b \in KnownBlocks
  BY <1>2 DEF KnownBlocks
<1>5. BranchWork[b] <= BranchWork[pindexBest]
  BY <1>3, <1>4 DEF HeaviestInv
<1>6. BranchWork[b] = bnChainWork[b] /\ BranchWork[pindexBest] = bnChainWork[pindexBest]
  BY <1>2 DEF SelectInv
<1>7. bnChainWork[b] \in Nat /\ bnChainWork[pindexBest] \in Nat
  BY <1>2 DEF IInv, TypeOK
<1> QED
  BY <1>2, <1>5, <1>6, <1>7

LEMMA PostponedStep ==
  ASSUME IInv, IInv', LedgerInv', SelectInv, SelectInv', HeaviestInv, PostponedInv,
         [Next]_vars
  PROVE  PostponedInv'
<1>a. TypeOK /\ BranchInv /\ IndexInv
  BY DEF IInv
<1>1. CASE UNCHANGED <<pc, pblock, branchVars>>
  BY <1>1 DEF PostponedInv, branchVars
<1>2. CASE pc' \notin {"reorganize", "mempool"}
  BY <1>2 DEF PostponedInv
<1>3. CASE ExtendBestChain \/ SwitchBranch
  BY <1>a, <1>3
  DEF ExtendBestChain, SetBestChainInner, SwitchBranch, branchVars, BranchInv, PostponedInv
<1>4. CASE PostponeConnect
  <2>1. PICK b, w : b = pindexIntermediate /\ w = bnChainWork
    OBVIOUS
  <2>2. /\ pc = "reorganize" /\ b \in mapBlockIndex \ {Genesis}
        /\ pindexIntermediate' = hashPrevBlock[b] /\ UNCHANGED <<pc, pblock>>
    BY <1>a, <1>4, <2>1 DEF PostponeConnect, CanPostpone, BranchInv
  <2>3. w[b] <= w[pblock] /\ w[hashPrevBlock[b]] < w[b]
    BY <1>a, <2>1, <2>2, ChildHasMoreWork DEF BranchInv
  <2>4. w[b] \in Nat /\ w[hashPrevBlock[b]] \in Nat /\ w[pblock] \in Nat
    BY <1>a, <2>1, <2>2, BlockAssumption DEF TypeOK
  <2>5. hashPrevBlock[b] # pblock
    BY <2>3, <2>4
  <2> QED
    BY <2>2, <2>5 DEF PostponedInv
<1>5. CASE Reorganize
  BY <1>5, NothingPostponed DEF Reorganize, branchVars, PostponedInv
<1>6. CASE ResurrectTx \/ DeleteTx
  BY <1>6, <1>1 DEF ResurrectTx, DeleteTx
<1>7. CASE ConnectSecondary \/ ConnectSecondaryFails
  BY <1>7 DEF ConnectSecondary, ConnectSecondaryFails, PoolUpdated, PostponedInv
<1> QED
  BY <1>1, <1>2, <1>3, <1>4, <1>5, <1>6, <1>7
  DEF Next, vars, branchVars, ReceiveBlock, RejectBlock, AddOrphanBlock, ProcessBlock,
      HandlerStep, AcceptBlockFails, AddToBlockIndex, AddToBlockIndexFails,
      SetBestChainFails, ActivationFails, ExtendBestChainFails, ReorganizeFails,
      NewBestBlock, BlockAccepted, BlockRejected, AcceptOrphan, OrphansDone,
      AcceptToMemoryPool, CrashRestart

LEMMA IndexSavedStep ==
  ASSUME OnlyFileErrors, IInv, IInv', IndexSaved, [Next]_vars
  PROVE  IndexSaved'
<1>1. mapBlockIndex' \subseteq dbIndex'
  <2>1. CASE UNCHANGED mapBlockIndex /\ dbIndex \subseteq dbIndex'
    BY <2>1 DEF IndexSaved
  <2>2. CASE AddToBlockIndex
    BY <2>2 DEF AddToBlockIndex, InsertBlockIndex, WithDiskBlockIndex, IndexSaved
  <2>3. CASE AddToBlockIndexFails
    BY <2>3, NoOtherFault DEF AddToBlockIndexFails
  <2>4. CASE CrashRestart
    BY <2>4 DEF CrashRestart, dbVars
  <2>5. CASE ExtendBestChain \/ ConnectSecondary \/ Reorganize
    BY <2>1, <2>5 DEF ExtendBestChain, ConnectSecondary, SetBestChainInner, Reorganize
  <2> QED
    BY <2>1, <2>2, <2>3, <2>4, <2>5
    DEF Next, vars, memVars, dbVars, ReceiveBlock, RejectBlock, AddOrphanBlock, ProcessBlock,
        HandlerStep, AcceptBlockFails, SetBestChainFails, ActivationFails,
        ExtendBestChainFails, SwitchBranch, PostponeConnect, ReorganizeFails, ResurrectTx,
        DeleteTx, ConnectSecondaryFails, NewBestBlock, BlockAccepted, BlockRejected,
        AcceptOrphan, OrphansDone, AcceptToMemoryPool
<1>2. dbIndex' \subseteq mapBlockIndex'
  BY DEF IInv, IndexInv
<1> QED
  BY <1>1, <1>2 DEF IndexSaved

LEMMA SteadyStep ==
  ASSUME DuplicatesStayUnspent, SignaturesChecked, OnlyFileErrors,
         IInv, IInv', SteadyInv, [Next]_vars, [SafeCrash]_vars
  PROVE  SteadyInv'
<1>1. /\ MemoryInv /\ LedgerInv /\ StuckInv /\ SelectInv /\ HeaviestInv /\ PostponedInv
      /\ IndexSaved /\ MemoryMatchesDisk
  BY DEF SteadyInv, MemoryInv
<1>2. LedgerInv'
  BY <1>1, LedgerStep
<1>3. StuckInv'
  BY <1>1, StuckStep
<1>4. SelectInv'
  BY <1>1, SelectStep
<1>5. PostponedInv'
  BY <1>1, <1>2, <1>4, PostponedStep
<1>6. MemoryInv'
  <2>1. ~ConnectSecondaryFails
    BY <1>1 DEF PostponedInv, ConnectSecondaryFails, PoolUpdated
  <2> QED
    BY <1>1, <2>1, MemoryStep
<1>7. MemoryMatchesDisk'
  BY <1>6 DEF MemoryInv
<1>8. Selects
  BY <1>1, <1>4, <1>7, SelectionStep
<1>9. HeaviestInv'
  BY <1>1, <1>4, <1>8, HeaviestStep
<1>10. IndexSaved'
  BY <1>1, IndexSavedStep
<1> QED
  BY <1>2, <1>3, <1>4, <1>5, <1>6, <1>9, <1>10 DEF SteadyInv

LEMMA SteadyInit == Init => SteadyInv
<1> SUFFICES ASSUME Init PROVE SteadyInv
  OBVIOUS
<1>1. LedgerInv /\ SelectInv
  BY EmptyLedger, SelectInit
<1>2. MemoryInv /\ StuckInv /\ PostponedInv /\ IndexSaved
  BY DEF Init, MemoryInv, MemoryMatchesDisk, StuckInv, PostponedInv, IndexSaved
<1>3. HeaviestInv
  <2>1. KnownBlocks = {Genesis} /\ pindexBest = Genesis /\ bnChainWork[Genesis] = GetBlockWork[Genesis]
    BY BlockAssumption DEF Init, KnownBlocks
  <2>2. BranchWork[Genesis] \in Nat
    BY BranchWorkAdds, BlockAssumption
  <2> QED
    BY <2>1, <2>2 DEF HeaviestInv
<1> QED
  BY <1>1, <1>2, <1>3 DEF SteadyInv

LEMMA SteadyInvariance ==
  ASSUME DuplicatesStayUnspent, SignaturesChecked, OnlyFileErrors
  PROVE  Spec /\ CrashesAreSafe => [](IInv /\ SteadyInv)
<1>1. IInv /\ IInv' /\ SteadyInv /\ [Next]_vars /\ [SafeCrash]_vars => SteadyInv'
  BY SteadyStep
<1> QED
  BY <1>1, SteadyInit, Invariance, PTL DEF Spec, CrashesAreSafe

(* The best block in memory is the one on disk, whatever blocks come in    *)
(* whatever order.  Of a branch with postponed blocks the lower part is    *)
(* better than the best chain as well; the node knew it and had refused    *)
(* it, so that Reorganize fails before any of them is connected.  Only an  *)
(* error of the database or a crash before the block is connected leaves a *)
(* good block refused, as in the run postponed_connect.  A crash anywhere  *)
(* else loses the orphans and the pool, and nothing of the chain.          *)
THEOREM MemoryFollowsDisk ==
  ASSUME DuplicatesStayUnspent, SignaturesChecked, OnlyFileErrors
  PROVE  Spec /\ CrashesAreSafe => []MemoryMatchesDisk
<1>1. SteadyInv => MemoryMatchesDisk
  BY DEF SteadyInv, MemoryInv
<1> QED
  BY <1>1, SteadyInvariance, PTL

(* Hence all that was proved from MemoryMatchesDisk holds of every such    *)
(* behaviour: the database is that of the best chain, creates no money,    *)
(* and can be taken back block by block; the links follow the best chain;  *)
(* the pool holds nothing mined; the orphans left behind are invalid.      *)
THEOREM DatabaseFollowsChain ==
  ASSUME DuplicatesStayUnspent, SignaturesChecked, OnlyFileErrors
  PROVE  Spec /\ CrashesAreSafe =>
           [](/\ LedgerMatchesChain /\ NoInflation /\ DisconnectRestores
              /\ LinksFollowBest /\ PoolNotMined /\ StuckOrphansAreInvalid)
<1>1. Spec /\ CrashesAreSafe => []MemoryMatchesDisk
  BY MemoryFollowsDisk
<1>2. Spec /\ []MemoryMatchesDisk => []LedgerMatchesChain /\ []NoInflation
  BY LedgerAlwaysMatches, NeverInflated
<1>3. Spec /\ []MemoryMatchesDisk => []DisconnectRestores /\ []LinksFollowBest
  BY DisconnectAlwaysRestores, LinksAlwaysFollow
<1>4. Spec /\ []MemoryMatchesDisk => []PoolNotMined /\ []StuckOrphansAreInvalid
  BY PoolNeverMined, StuckOrphansAlwaysInvalid
<1> QED
  BY <1>1, <1>2, <1>3, <1>4, PTL

(* ProcessBlock, with its orphans, reorganizations and postponed blocks,   *)
(* implements ChainSelection: the node learns of one block after another   *)
(* and makes one the best exactly when its chain is valid and has more     *)
(* work.  So between two blocks the best one ends the valid chain with the *)
(* most work (HeaviestTheorem).  A database error, or a crash between      *)
(* AddToBlockIndex and SetBestChain, leaves a better block known that is   *)
(* not the best, so neither is assumed to happen; a crash after the commit *)
(* is the step at which the new block becomes known and the best.          *)
THEOREM SelectionImplemented ==
  ASSUME DuplicatesStayUnspent, SignaturesChecked, OnlyFileErrors
  PROVE  Spec /\ CrashesAreSafe => ImplementsChainSelection
<1>1. Init => Selection!SelectionInit
  BY DEF Init, Selection!SelectionInit
<1>2. IInv /\ SteadyInv /\ (IInv /\ SteadyInv)' /\ [Next]_vars /\ [SafeCrash]_vars => Selects
  BY SelectionStep DEF SteadyInv, MemoryInv
<1> QED
  BY <1>1, <1>2, SteadyInvariance, PTL
  DEF Spec, CrashesAreSafe, ImplementsChainSelection, Selection!SelectionSpec, Selects

=============================================================================
