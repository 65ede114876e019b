------------------------------- MODULE Miner -------------------------------
(***************************************************************************)
(* The miner threads of one node: BitcoinMiner, CreateNewBlock and         *)
(* CheckWork of main.cpp, beside the chain and the pool of BlockChain.     *)
(*                                                                         *)
(* A thread reads pindexBest twice without cs_main, once in BitcoinMiner   *)
(* (pindexPrev) and once in CreateNewBlock (the parent of the template),   *)
(* then fills the template under cs_main and mempool.cs, and searches      *)
(* without a lock.  A block that is found is one of Block: those bound     *)
(* what can be mined.                                                      *)
(***************************************************************************)
EXTENDS BlockChain

CONSTANTS Miners     \* the threads

VARIABLES
  pcMiner,       \* "start", "create", "lock", "fill", "search", "submit" or "dead", per thread
  pindexPrev,    \* pindexPrev of BitcoinMiner, per thread
  template,      \* the block a thread works on
  scanned,       \* the thread has scanned the nonces at least once
  vecPriority,   \* CreateNewBlock, which one thread at a time is in: transactions
                 \* that wait for none of the pool
  setDependsOn,  \* pairs <<transaction of the pool, what it waits for>>
  mapDependers,  \* pairs <<transaction of the pool, what waits for it>>
  mapTestPool    \* the index with the template's transactions

fillVars == <<vecPriority, setDependsOn, mapDependers, mapTestPool>>
threadVars == <<pcMiner, pindexPrev, template, scanned>>
minerVars == <<threadVars, fillVars>>
allVars == <<vars, minerVars>>

NoTemplate == [prev |-> Genesis, vtx |-> <<>>, nHeight |-> 0]

NothingFilled ==
  /\ vecPriority' = {}
  /\ setDependsOn' = {}
  /\ mapDependers' = {}
  /\ mapTestPool' = <<>>

MinerInit ==
  /\ Init
  /\ pcMiner = [m \in Miners |-> "start"]
  /\ pindexPrev = [m \in Miners |-> Genesis]
  /\ template = [m \in Miners |-> NoTemplate]
  /\ scanned = [m \in Miners |-> FALSE]
  /\ vecPriority = {}
  /\ setDependsOn = {}
  /\ mapDependers = {}
  /\ mapTestPool = <<>>

GoTo(m, label) == pcMiner' = [pcMiner EXCEPT ![m] = label]

\* No thread holds cs_main.
Unlocked == pc = "idle" /\ \A m \in Miners : pcMiner[m] # "fill"

-----------------------------------------------------------------------------
(* CreateNewBlock.                                                         *)

\* BitcoinMiner notes the best block, at any time.
ReadBest(m) ==
  /\ pcMiner[m] = "start"
  /\ pindexPrev' = [pindexPrev EXCEPT ![m] = pindexBest]
  /\ GoTo(m, "create")
  /\ UNCHANGED <<vars, template, scanned, fillVars>>

\* So does CreateNewBlock, again.
CreateNewBlock(m) ==
  /\ pcMiner[m] = "create"
  /\ template' = [template EXCEPT ![m].prev = pindexBest]
  /\ GoTo(m, "lock")
  /\ UNCHANGED <<vars, pindexPrev, scanned, fillVars>>

\* ReadFromDisk finds the output.
OnDisk(p) == p.hash \in DOMAIN dbTx /\ p.n \in DOMAIN dbTx[p.hash].vSpent

\* The parents in the pool that t waits for.
PoolParents(t) == {p.hash : p \in {o \in vin[t] : ~OnDisk(o) /\ o.hash \in mapTx}}

LacksInput(t) == \E p \in vin[t] : ~OnDisk(p) /\ p.hash \notin mapTx

\* A transaction that lacks an input is left out and its COrphan popped; of the
\* inputs before that one, mapDependers keeps those from the pool.
Fill(m) ==
  /\ Unlocked
  /\ pcMiner[m] = "lock"
  /\ GoTo(m, "fill")
  /\ LET sound == {t \in mapTx : ~LacksInput(t)} IN
     /\ vecPriority' = {t \in sound : PoolParents(t) = {}}
     /\ setDependsOn' = UNION {{t} \X PoolParents(t) : t \in sound}
     /\ \E dangling \in SUBSET UNION {PoolParents(t) \X {t} : t \in mapTx \ sound} :
          mapDependers' = (UNION {PoolParents(t) \X {t} : t \in sound}) \cup dangling
  /\ mapTestPool' = dbTx
  /\ UNCHANGED <<vars, pindexPrev, template, scanned>>

MutantConnectsUnchecked(t, prev) == FetchInputs(mapTestPool, t)

\* FetchInputs and ConnectInputs for the miner: the pool is not looked at.
Connects(t, prev) ==
  /\ FetchInputs(mapTestPool, t)
  /\ ConnectInputs(mapTestPool, t, ImmatureBlocks(prev), TRUE)

\* What waits for t and nothing else; a popped COrphan is freed memory, which
\* may look either way.
Released(t) ==
  {u \in Tx : <<u, t>> \in setDependsOn /\ \A h \in Tx \ {t} : <<u, h>> \notin setDependsOn}

Popped(t) ==
  {u \in Tx : <<t, u>> \in mapDependers /\ \A h \in Tx : <<u, h>> \notin setDependsOn}

AddToTemplate(m, t) ==
  /\ pcMiner[m] = "fill"
  /\ t \in vecPriority
  /\ Connects(t, template[m].prev)
  /\ template' = [template EXCEPT ![m].vtx = Append(@, t)]
  /\ mapTestPool' = With(MarkInputs(mapTestPool, t, template[m].prev), t, CTxIndex(t, Null))
  /\ \E garbage \in SUBSET Popped(t) :
       vecPriority' = (vecPriority \ {t}) \cup Released(t) \cup garbage
  /\ setDependsOn' = setDependsOn \ (Tx \X {t})
  /\ UNCHANGED <<vars, pcMiner, pindexPrev, scanned, mapDependers>>

\* The limits on the size, the signature operations and the free transactions of
\* a block may keep any transaction out.
SkipTx(m, t) ==
  /\ pcMiner[m] = "fill"
  /\ t \in vecPriority
  /\ vecPriority' = vecPriority \ {t}
  /\ UNCHANGED <<vars, threadVars, setDependsOn, mapDependers, mapTestPool>>

\* The COINBASE_MATURITY blocks that end in a block on top of prev.
ImmatureAbove(prev) ==
  {b \in ImmatureBlocks(prev) : nHeight(prev) + 1 - nHeight(b) < COINBASE_MATURITY}

\* ConnectBlock with fJustCheck, on the database.
TemplateConnects(prev, txs) ==
  LET Step(acc, t) == ConnectTx(dbTx, prev, ImmatureAbove(prev), fVerify, acc, t) IN
  FoldLeft(Step, [ok |-> TRUE, idx |-> dbTx, fees |-> 0], txs).ok

\* IncrementExtraNonce is handed the block BitcoinMiner noted.
CoinbaseHeight(m) == nHeight(pindexPrev[m]) + 1

\* A template that does not connect makes CreateNewBlock throw, and the thread ends.
FinishTemplate(m) ==
  /\ pcMiner[m] = "fill"
  /\ vecPriority = {}
  /\ IF TemplateConnects(template[m].prev, template[m].vtx)
     THEN /\ template' = [template EXCEPT ![m].nHeight = CoinbaseHeight(m)]
          /\ GoTo(m, "search")
     ELSE /\ GoTo(m, "dead")
          /\ UNCHANGED template
  /\ NothingFilled
  /\ UNCHANGED <<vars, pindexPrev, scanned>>

-----------------------------------------------------------------------------
(* The search.                                                             *)

Forget(m) ==
  /\ pindexPrev' = [pindexPrev EXCEPT ![m] = Genesis]
  /\ template' = [template EXCEPT ![m] = NoTemplate]
  /\ scanned' = [scanned EXCEPT ![m] = FALSE]

\* The nonces ran out, the pool changed a minute ago, there is no peer, or the
\* best block is another one.
Rebuild(m) ==
  /\ pcMiner[m] = "search"
  /\ GoTo(m, "start")
  /\ Forget(m)
  /\ UNCHANGED <<vars, fillVars>>

MutantNoRebuild(m) == TRUE

MayKeepSearching(m) == pindexPrev[m] = pindexBest

KeepSearching(m) ==
  /\ pcMiner[m] = "search"
  /\ MayKeepSearching(m)
  /\ scanned' = [scanned EXCEPT ![m] = TRUE]
  /\ UNCHANGED <<vars, pcMiner, pindexPrev, template, fillVars>>

\* nFees of CreateNewBlock.
FeesOf(txs) ==
  FoldLeft(LAMBDA fees, t : fees + GetValueIn(t) - GetValueOut(t), 0, txs)

\* The first transaction is the coinbase CreateNewBlock made.
StartsWithCoinBase(b) ==
  vtx[b] # <<>> /\ IsCoinBase(vtx[b][1]) /\ CheckTransaction(vtx[b][1])

\* The block b is the template with a nonce that makes its hash small enough.
\* AcceptBlock does not accept it with another height than its own in the coinbase.
MinedAs(m, b) ==
  /\ hashPrevBlock[b] = template[m].prev
  /\ b \notin BadBlock
  /\ StartsWithCoinBase(b)
  /\ Tail(vtx[b]) = template[m].vtx
  /\ GetValueOut(vtx[b][1]) = GetBlockValue(nHeight(b), FeesOf(template[m].vtx))
  /\ b \in BadContext <=> template[m].nHeight # nHeight(b)

MutantNoStaleTest(m) == FALSE

IsStale(m) == template[m].prev # pindexBest

\* CheckWork: a stale block is dropped, another one is processed as if a peer had
\* sent it.
CheckWork(m, b) ==
  /\ Unlocked
  /\ pcMiner[m] = "search"
  /\ MinedAs(m, b)
  /\ Forget(m)
  /\ IF IsStale(m)
     THEN GoTo(m, "start") /\ UNCHANGED vars
     ELSE GoTo(m, "submit") /\ ReceiveBlock(b)
  /\ UNCHANGED fillVars

\* ProcessBlock returns to the thread.
Submitted(m) ==
  /\ pcMiner[m] = "submit"
  /\ pc = "idle"
  /\ GoTo(m, "start")
  /\ UNCHANGED <<vars, pindexPrev, template, scanned, fillVars>>

-----------------------------------------------------------------------------
CreateSteps(m) ==
  \/ ReadBest(m) \/ CreateNewBlock(m) \/ Fill(m)
  \/ \E t \in vecPriority : AddToTemplate(m, t) \/ SkipTx(m, t)
  \/ FinishTemplate(m)

SearchSteps(m) ==
  \/ Rebuild(m) \/ KeepSearching(m) \/ Submitted(m)
  \/ \E b \in Block \ {Genesis} : CheckWork(m, b)

\* Blocks and transactions from elsewhere.
ChainStep ==
  /\ \A m \in Miners : pcMiner[m] # "fill"
  /\ \/ \E b \in Block \ {Genesis} : ReceiveBlock(b)
     \/ HandlerStep
     \/ \E t \in LooseTx : AcceptToMemoryPool(t)
  /\ UNCHANGED minerVars

Restart ==
  /\ CrashRestart
  /\ pcMiner' = [m \in Miners |-> "start"]
  /\ pindexPrev' = [m \in Miners |-> Genesis]
  /\ template' = [m \in Miners |-> NoTemplate]
  /\ scanned' = [m \in Miners |-> FALSE]
  /\ NothingFilled

MinerNext ==
  \/ \E m \in Miners : CreateSteps(m) \/ SearchSteps(m)
  \/ ChainStep
  \/ Restart

MinerSpec == MinerInit /\ [][MinerNext]_allVars

\* ProcessBlock and the threads run on, but the nonces need never run out and a
\* block need never be found.
MinerFairSpec ==
  /\ MinerSpec
  /\ HandlerProgress
  /\ \A m \in Miners :
       /\ WF_allVars(CreateSteps(m))
       /\ WF_allVars(Rebuild(m) /\ ~MayKeepSearching(m))
       /\ WF_allVars(Submitted(m))

-----------------------------------------------------------------------------
(* However blocks, reorganizations and transactions change the pool and    *)
(* the best block while a template waits for the lock, the transactions    *)
(* CreateNewBlock picks connect: it never throws out of BitcoinMiner,      *)
(* which would end the thread.                                             *)
NoThreadDies == \A m \in Miners : pcMiner[m] # "dead"

(* A template whose coinbase has the height for another parent, read       *)
(* before the best block changed, is given up after one scan: BitcoinMiner *)
(* compares the block it noted first with the best one, which cannot come  *)
(* back.                                                                   *)
RightHeightAfterScan ==
  \A m \in Miners :
    pcMiner[m] = "search" /\ scanned[m] =>
      /\ template[m].prev = pindexPrev[m]
      /\ template[m].nHeight = nHeight(template[m].prev) + 1

(* A block that CheckWork does not call stale connects to the best block,  *)
(* although pool, database and best block changed since its template was   *)
(* made: a template made with the index of another block than its parent   *)
(* stays stale forever.                                                    *)
MinedBlockConnects ==
  pc = "idle" =>
    \A m \in Miners, b \in Block \ {Genesis} :
      pcMiner[m] = "search" /\ ~IsStale(m) /\ MinedAs(m, b)
        => ConnectBlock([ok |-> TRUE, idx |-> dbTx], b, fVerify).ok

(* Once no more blocks come, every thread ends up on the best block.       *)
EventuallyMinesOnBest ==
  <>[](\A m \in Miners : pcMiner[m] = "search" => template[m].prev = pindexBest)

-----------------------------------------------------------------------------
(* What comments in main.cpp say and Miner violates.                       *)

(* IncrementExtraNonce, main.cpp:3664, "Height first in coinbase required  *)
(* for block.version=2": the height in the coinbase of a block that is     *)
(* searched for is the block's.                                            *)
HeightFirstInCoinbase ==
  \A m \in Miners :
    pcMiner[m] = "search" => template[m].nHeight = nHeight(template[m].prev) + 1

(* CreateNewBlock, main.cpp:3461, "list memory doesn't move": a pointer of *)
(* mapDependers leads to a COrphan of vOrphan.                             *)
DependersInList ==
  \A m \in Miners, e \in mapDependers :
    pcMiner[m] = "fill" =>
      e[1] \in ToSet(template[m].vtx) \/ <<e[2], e[1]>> \in setDependsOn

=============================================================================
