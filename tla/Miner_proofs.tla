---------------------------- MODULE Miner_proofs ----------------------------
(***************************************************************************)
(* The miner threads, for every number of them: they leave the chain to    *)
(* ProcessBlock, a template with the height of another parent in its       *)
(* coinbase does not survive a scan, every template that is finished       *)
(* connects, and so does every block that is found before another one      *)
(* takes the place of its parent.                                          *)
(***************************************************************************)
EXTENDS Miner, BlockChain_proofs

-----------------------------------------------------------------------------
(* The node without miner threads.                                         *)

\* A thread changes the chain only when it hands ProcessBlock a block.
LEMMA MinerStepIsChainStep == [MinerNext]_allVars => [Next]_vars
<1> SUFFICES ASSUME [MinerNext]_allVars PROVE [Next]_vars
  OBVIOUS
<1>1. ASSUME NEW m \in Miners, CreateSteps(m) PROVE UNCHANGED vars
  BY <1>1 DEF CreateSteps, ReadBest, CreateNewBlock, Fill, AddToTemplate, SkipTx,
              FinishTemplate
<1>2. ASSUME NEW m \in Miners, NEW b \in Block \ {Genesis}, CheckWork(m, b) PROVE [Next]_vars
  BY <1>2 DEF CheckWork, Next
<1>3. ASSUME NEW m \in Miners, Rebuild(m) \/ KeepSearching(m) \/ Submitted(m)
      PROVE  UNCHANGED vars
  BY <1>3 DEF Rebuild, KeepSearching, Submitted
<1>4. CASE ChainStep \/ Restart
  BY <1>4 DEF ChainStep, Restart, Next
<1>5. CASE UNCHANGED allVars
  BY <1>5 DEF allVars
<1> QED
  BY <1>1, <1>2, <1>3, <1>4, <1>5 DEF MinerNext, SearchSteps

(* The node with miner threads implements the one of BlockChain: a mined   *)
(* block reaches the chain as a block of a peer does, and no other step of *)
(* a thread touches chain, pool or database.                               *)
THEOREM MinerImplementsBlockChain == MinerSpec => Spec
<1>1. MinerInit => Init
  BY DEF MinerInit
<1> QED
  BY <1>1, MinerStepIsChainStep, PTL DEF MinerSpec, Spec

-----------------------------------------------------------------------------
(* Old best blocks do not come back.                                       *)

Beats(a, b) == a = b \/ bnChainWork[b] < bnChainWork[a]

\* What a thread noted and what it took as the parent were best blocks, in this
\* order.
ThreadInv(m) ==
  /\ pindexPrev[m] \in mapBlockIndex
  /\ template[m].prev \in mapBlockIndex
  /\ DOMAIN template[m] = {"prev", "vtx", "nHeight"}
  /\ pcMiner[m] \in {"create", "lock", "fill", "search"} => Beats(pindexBest, pindexPrev[m])
  /\ pcMiner[m] \in {"lock", "fill", "search"} =>
       Beats(template[m].prev, pindexPrev[m]) /\ Beats(pindexBest, template[m].prev)
  /\ pcMiner[m] = "search" => template[m].nHeight = nHeight(pindexPrev[m]) + 1
  /\ IF pcMiner[m] = "search" THEN scanned[m] => template[m].prev = pindexPrev[m]
     ELSE ~scanned[m]

MInv ==
  /\ DOMAIN pcMiner = Miners /\ DOMAIN pindexPrev = Miners
  /\ DOMAIN template = Miners /\ DOMAIN scanned = Miners
  /\ \A m \in Miners : ThreadInv(m)

\* But for a restart, a step keeps the index and its work, and what the best
\* block beats.
LEMMA IndexKeepsWork ==
  ASSUME IInv, [Next]_vars, ~(nCrashes' > nCrashes)
  PROVE  \A b \in mapBlockIndex : b \in mapBlockIndex' /\ bnChainWork'[b] = bnChainWork[b]
<1>1. CASE UNCHANGED <<mapBlockIndex, bnChainWork>>
  BY <1>1
<1>2. CASE AddToBlockIndex \/ AddToBlockIndexFails
  BY <1>2, InsertKeepsWork DEF AddToBlockIndex, AddToBlockIndexFails, IInv, TypeOK
<1>3. CASE CrashRestart
  BY <1>3, BoundAssumption DEF CrashRestart, IInv, TypeOK
<1> QED
  BY <1>1, <1>2, <1>3
  DEF Next, vars, memVars, ReceiveBlock, RejectBlock, AddOrphanBlock, ProcessBlock,
      HandlerStep, AcceptBlockFails, SetBestChainFails, ActivationFails, ExtendBestChain,
      ExtendBestChainFails, SetBestChainInner, SwitchBranch, PostponeConnect, Reorganize,
      ReorganizeFails, ResurrectTx, DeleteTx, ConnectSecondary, ConnectSecondaryFails,
      NewBestBlock, PoolUpdated, BlockAccepted, BlockRejected, AcceptOrphan, OrphansDone,
      AcceptToMemoryPool

\* A step of the chain leaves a thread's invariant alone: a new best block beats
\* all that the old one did.
LEMMA ChainKeepsThread ==
  ASSUME IInv, [Next]_vars, ~(nCrashes' > nCrashes), NEW m \in Miners, ThreadInv(m),
         pcMiner'[m] = pcMiner[m], pindexPrev'[m] = pindexPrev[m],
         template'[m] = template[m], scanned'[m] = scanned[m]
  PROVE  ThreadInv(m)'
<1>1. /\ pindexBest \in mapBlockIndex /\ bnChainWork \in [Block -> Nat]
      /\ mapBlockIndex \subseteq Block
  BY DEF IInv, TypeOK
<1>2. /\ pindexPrev[m] \in mapBlockIndex /\ template[m].prev \in mapBlockIndex
  BY DEF ThreadInv
<1>3. \A b \in mapBlockIndex : b \in mapBlockIndex' /\ bnChainWork'[b] = bnChainWork[b]
  BY IndexKeepsWork
<1>4. pindexBest' = pindexBest \/ bnChainWork'[pindexBest'] > bnChainWork[pindexBest]
  BY MemoryBestGrows
<1>5. bnChainWork'[pindexBest'] \in Nat
  BY TypeStep DEF TypeOK
<1>6. \A b \in mapBlockIndex : Beats(pindexBest, b) => Beats(pindexBest, b)'
  <2> SUFFICES ASSUME NEW b \in mapBlockIndex, Beats(pindexBest, b)
               PROVE  Beats(pindexBest, b)'
    OBVIOUS
  <2>1. bnChainWork'[b] = bnChainWork[b] /\ bnChainWork[b] \in Nat /\ bnChainWork[pindexBest] \in Nat
    BY <1>1, <1>3
  <2>2. bnChainWork[b] <= bnChainWork[pindexBest]
    BY <2>1 DEF Beats
  <2>3. CASE pindexBest' = pindexBest
    BY <1>1, <1>3, <2>3 DEF Beats
  <2>4. CASE bnChainWork'[pindexBest'] > bnChainWork[pindexBest]
    BY <1>5, <2>1, <2>2, <2>4 DEF Beats
  <2> QED
    BY <1>4, <2>3, <2>4
<1>7. Beats(template[m].prev, pindexPrev[m]) => Beats(template[m].prev, pindexPrev[m])'
  BY <1>2, <1>3 DEF Beats
<1> QED
  BY <1>2, <1>3, <1>6, <1>7 DEF ThreadInv

\* So does a step of another thread.
LEMMA SameThread ==
  ASSUME UNCHANGED vars, NEW m \in Miners, ThreadInv(m),
         pcMiner'[m] = pcMiner[m], pindexPrev'[m] = pindexPrev[m],
         template'[m] = template[m], scanned'[m] = scanned[m]
  PROVE  ThreadInv(m)'
  BY DEF vars, ThreadInv, Beats

\* A thread that gives up its template remembers nothing.
LEMMA ForgetfulThread ==
  ASSUME IInv', NEW m \in Miners, pcMiner'[m] \in {"start", "submit"},
         pindexPrev'[m] = Genesis, template'[m] = NoTemplate, scanned'[m] = FALSE
  PROVE  ThreadInv(m)'
<1>1. Genesis \in mapBlockIndex'
  BY DEF IInv, IndexInv
<1> QED
  BY <1>1 DEF ThreadInv, NoTemplate

-----------------------------------------------------------------------------
(* The steps of a thread.                                                  *)

LEMMA CreateStepsKeep ==
  ASSUME IInv, MInv, NEW m \in Miners, CreateSteps(m)
  PROVE  MInv'
<1>1. pindexBest \in mapBlockIndex /\ UNCHANGED vars
  BY DEF IInv, TypeOK, CreateSteps, ReadBest, CreateNewBlock, Fill, AddToTemplate, SkipTx,
         FinishTemplate
<1>2. UNCHANGED <<pindexBest, mapBlockIndex, bnChainWork>>
  BY <1>1 DEF vars
<1>3. ThreadInv(m)
  BY DEF MInv
<1>4. \A n \in Miners \ {m} :
        /\ pcMiner'[n] = pcMiner[n] /\ pindexPrev'[n] = pindexPrev[n]
        /\ template'[n] = template[n] /\ scanned'[n] = scanned[n]
  BY DEF MInv, CreateSteps, ReadBest, CreateNewBlock, Fill, AddToTemplate, SkipTx,
         FinishTemplate, GoTo, threadVars
<1>5. /\ DOMAIN pcMiner' = Miners /\ DOMAIN pindexPrev' = Miners
      /\ DOMAIN template' = Miners /\ DOMAIN scanned' = Miners
  BY DEF MInv, CreateSteps, ReadBest, CreateNewBlock, Fill, AddToTemplate, SkipTx,
         FinishTemplate, GoTo, threadVars
<1>6. ThreadInv(m)'
  <2> USE DEF MInv, ThreadInv, Beats, GoTo
  <2>1. CASE ReadBest(m)
    BY <1>1, <1>2, <1>3, <2>1 DEF ReadBest
  <2>2. CASE CreateNewBlock(m)
    BY <1>1, <1>2, <1>3, <2>2 DEF CreateNewBlock
  <2>3. CASE Fill(m)
    BY <1>2, <1>3, <2>3 DEF Fill
  <2>4. ASSUME NEW t \in vecPriority, AddToTemplate(m, t) PROVE ThreadInv(m)'
    BY <1>2, <1>3, <2>4 DEF AddToTemplate
  <2>5. ASSUME NEW t \in vecPriority, SkipTx(m, t) PROVE ThreadInv(m)'
    BY <1>2, <1>3, <2>5 DEF SkipTx, threadVars
  <2>6. CASE FinishTemplate(m)
    BY <1>2, <1>3, <2>6 DEF FinishTemplate, CoinbaseHeight
  <2> QED
    BY <2>1, <2>2, <2>3, <2>4, <2>5, <2>6 DEF CreateSteps
<1>7. \A n \in Miners \ {m} : ThreadInv(n)'
  BY <1>1, <1>4, SameThread DEF MInv
<1> QED
  BY <1>5, <1>6, <1>7 DEF MInv

LEMMA NoCrash ==
  ASSUME IInv, HandlerStep \/ (\E b \in Block : ReceiveBlock(b))
                 \/ (\E t \in LooseTx : AcceptToMemoryPool(t)) \/ UNCHANGED vars
  PROVE  ~(nCrashes' > nCrashes)
<1>1. nCrashes \in Nat
  BY BoundAssumption DEF IInv, TypeOK
<1>2. nCrashes' = nCrashes
  BY DEF vars, countVars, NoFault, Fault, ReceiveBlock, RejectBlock, AddOrphanBlock,
      ProcessBlock, HandlerStep, AcceptBlockFails, AddToBlockIndex, AddToBlockIndexFails,
      SetBestChainFails, ActivationFails, ExtendBestChain, ExtendBestChainFails,
      SetBestChainInner, SwitchBranch, PostponeConnect, Reorganize, ReorganizeFails,
      ResurrectTx, DeleteTx, ConnectSecondary, ConnectSecondaryFails, NewBestBlock,
      PoolUpdated, BlockAccepted, BlockRejected, AcceptOrphan, OrphansDone,
      AcceptToMemoryPool
<1> QED
  BY <1>1, <1>2

LEMMA StepInv ==
  ASSUME IInv, [Next]_vars
  PROVE  IInv'
  BY TypeStep, PoolStep, OrphanStep, IndexStep, BranchStep DEF IInv, PoolInv

\* The block a thread noted first is the best one again only if no better one
\* came in between, so that the template has it for a parent.
LEMMA StillBest ==
  ASSUME IInv, NEW m \in Miners, ThreadInv(m), pcMiner[m] = "search",
         pindexPrev[m] = pindexBest
  PROVE  template[m].prev = pindexPrev[m]
<1>1. /\ Beats(template[m].prev, pindexPrev[m]) /\ Beats(pindexBest, template[m].prev)
      /\ pindexPrev[m] \in mapBlockIndex /\ template[m].prev \in mapBlockIndex
  BY DEF ThreadInv
<1>2. bnChainWork[pindexPrev[m]] \in Nat /\ bnChainWork[template[m].prev] \in Nat
  BY <1>1 DEF IInv, TypeOK
<1> QED
  BY <1>1, <1>2 DEF Beats

LEMMA SearchStepsKeep ==
  ASSUME IInv, MInv, NEW m \in Miners, SearchSteps(m)
  PROVE  MInv'
<1>1. ThreadInv(m)
  BY DEF MInv
<1>2. \A n \in Miners \ {m} :
        /\ pcMiner'[n] = pcMiner[n] /\ pindexPrev'[n] = pindexPrev[n]
        /\ template'[n] = template[n] /\ scanned'[n] = scanned[n]
  BY DEF MInv, SearchSteps, Rebuild, KeepSearching, Submitted, CheckWork, Forget, GoTo
<1>3. /\ DOMAIN pcMiner' = Miners /\ DOMAIN pindexPrev' = Miners
      /\ DOMAIN template' = Miners /\ DOMAIN scanned' = Miners
  BY DEF MInv, SearchSteps, Rebuild, KeepSearching, Submitted, CheckWork, Forget, GoTo
<1>4. [Next]_vars /\ ~(nCrashes' > nCrashes)
  <2>1. CASE UNCHANGED vars
    BY <2>1, NoCrash
  <2>2. ASSUME NEW b \in Block \ {Genesis}, ReceiveBlock(b)
        PROVE  [Next]_vars /\ ~(nCrashes' > nCrashes)
    BY <2>2, NoCrash DEF Next
  <2> QED
    BY <2>1, <2>2 DEF SearchSteps, Rebuild, KeepSearching, Submitted, CheckWork
<1>5. IInv'
  BY <1>4, StepInv
<1>6. ThreadInv(m)'
  <2>1. CASE Rebuild(m)
    BY <1>5, <2>1, ForgetfulThread DEF Rebuild, Forget, GoTo, MInv
  <2>2. CASE KeepSearching(m)
    <3>1. template[m].prev = pindexPrev[m]
      BY <1>1, <2>2, StillBest DEF KeepSearching, MayKeepSearching
    <3> QED
      BY <1>1, <2>2, <3>1 DEF KeepSearching, MInv, ThreadInv, Beats, vars
  <2>3. CASE Submitted(m)
    BY <1>1, <2>3 DEF Submitted, GoTo, MInv, ThreadInv, vars
  <2>4. ASSUME NEW b \in Block \ {Genesis}, CheckWork(m, b) PROVE ThreadInv(m)'
    <3>1. /\ pcMiner'[m] \in {"start", "submit"} /\ pindexPrev'[m] = Genesis
          /\ template'[m] = NoTemplate /\ scanned'[m] = FALSE
      BY <2>4 DEF CheckWork, Forget, GoTo, MInv
    <3> QED
      BY <1>5, <3>1, ForgetfulThread
  <2> QED
    BY <2>1, <2>2, <2>3, <2>4 DEF SearchSteps
<1>7. \A n \in Miners \ {m} : ThreadInv(n)'
  BY <1>2, <1>4, ChainKeepsThread DEF MInv
<1> QED
  BY <1>3, <1>6, <1>7 DEF MInv

-----------------------------------------------------------------------------
LEMMA MinerInitInv == MinerInit => MInv
  BY InitInv DEF MinerInit, MInv, ThreadInv, NoTemplate, IInv, IndexInv

LEMMA MinerStep == IInv /\ MInv /\ [MinerNext]_allVars => MInv'
<1> SUFFICES ASSUME IInv, MInv, [MinerNext]_allVars PROVE MInv'
  OBVIOUS
<1>1. CASE ChainStep \/ UNCHANGED allVars
  <2>1. [Next]_vars /\ ~(nCrashes' > nCrashes)
    BY <1>1, NoCrash, MinerStepIsChainStep DEF ChainStep, allVars
  <2>2. UNCHANGED <<pcMiner, pindexPrev, template, scanned>>
    BY <1>1 DEF ChainStep, allVars, minerVars, threadVars
  <2> QED
    BY <2>1, <2>2, ChainKeepsThread DEF MInv
<1>2. CASE Restart
  <2>1. IInv'
    BY <1>2, StepInv DEF Restart, Next
  <2> QED
    BY <1>2, <2>1, ForgetfulThread DEF Restart, MInv
<1> QED
  BY <1>1, <1>2, CreateStepsKeep, SearchStepsKeep DEF MinerNext

(* For every number of threads and every block tree, a template that is    *)
(* searched through once and kept has the height of its own parent: what   *)
(* BitcoinMiner noted is compared with the best block, and a best block    *)
(* that was given up does not come back.                                   *)
THEOREM HeightRightAfterScan == MinerSpec => []RightHeightAfterScan
<1>1. MInv => RightHeightAfterScan
  BY DEF MInv, ThreadInv, RightHeightAfterScan
<1> QED
  BY <1>1, MinerInitInv, MinerStep, MinerImplementsBlockChain, Invariance, PTL DEF MinerSpec

-----------------------------------------------------------------------------
(* The index with the transactions of a template.                          *)

\* ConnectBlock with fJustCheck, on an index old.
Start(old) == [ok |-> TRUE, idx |-> old, fees |-> 0]

Filled(old, prev, v, txs) ==
  LET Step(acc, t) == ConnectTx(old, prev, ImmatureAbove(prev), v, acc, t) IN
  FoldLeft(Step, Start(old), txs)

TemplateSteps(step, old, prev, v, txs) ==
  /\ step[0] = Start(old)
  /\ \A k \in 1..Len(txs) :
       step[k] = ConnectTx(old, prev, ImmatureAbove(prev), v, step[k - 1], txs[k])
  /\ Filled(old, prev, v, txs) = step[Len(txs)]

LEMMA FilledSteps ==
  ASSUME NEW old, NEW prev, NEW v, NEW txs \in Seq(Tx)
  PROVE  \E step : TemplateSteps(step, old, prev, v, txs)
<1>1. PICK e, base, im :
        /\ im = ImmatureAbove(prev) /\ base = Start(old)
        /\ e = [op |-> "ConnectTx", idx |-> old, b |-> prev, immature |-> im, fVerify |-> v]
  OBVIOUS
<1>2. \A acc, t : Folded(e, acc, t) = ConnectTx(old, prev, im, v, acc, t)
  BY <1>1 DEF Folded
<1>3. \A g : FoldsTo(g, e, base, txs, Len(txs)) <=>
            g = [X \in SUBSET (1..Len(txs)) |->
                 IF X = {} THEN base
                 ELSE ConnectTx(old, prev, im, v, g[X \ {Max(X)}], txs[Max(X)])]
  BY <1>2 DEF FoldsTo
<1>4. PICK g :
        g = CHOOSE h :
            h = [X \in SUBSET (1..Len(txs)) |->
                 IF X = {} THEN base
                 ELSE ConnectTx(old, prev, im, v, h[X \ {Max(X)}], txs[Max(X)])]
  OBVIOUS
<1>5. FoldsTo(g, e, base, txs, Len(txs))
  BY <1>3, <1>4, FoldResult
<1>6. FoldLeft(LAMBDA acc, t : ConnectTx(old, prev, im, v, acc, t), base, txs) = g[1..Len(txs)]
  BY <1>4, FoldResult DEF FoldLeft, MapThenFoldSet
<1>7. PICK step : Steps(step, e, base, txs) /\ g[1..Len(txs)] = step[Len(txs)]
  BY <1>5, FoldSteps
<1>8. Filled(old, prev, v, txs) = step[Len(txs)]
  BY <1>1, <1>6, <1>7 DEF Filled, FoldLeft, MapThenFoldSet
<1> QED
  BY <1>1, <1>2, <1>7, <1>8 DEF Steps, TemplateSteps

LEMMA FilledNone ==
  ASSUME NEW old, NEW prev, NEW v
  PROVE  Filled(old, prev, v, <<>>) = Start(old)
<1>1. PICK txs : txs = <<>>
  OBVIOUS
<1>2. txs \in Seq(Tx) /\ Len(txs) = 0
  BY <1>1
<1>3. PICK step : TemplateSteps(step, old, prev, v, txs)
  BY <1>2, FilledSteps
<1>4. step[0] = Start(old) /\ Filled(old, prev, v, txs) = step[Len(txs)]
  BY <1>3 DEF TemplateSteps
<1> QED
  BY <1>1, <1>2, <1>4

\* One transaction more is one step more.
LEMMA FilledAppend ==
  ASSUME NEW old, NEW prev, NEW v, NEW txs \in Seq(Tx), NEW t \in Tx
  PROVE  Filled(old, prev, v, Append(txs, t))
           = ConnectTx(old, prev, ImmatureAbove(prev), v, Filled(old, prev, v, txs), t)
<1>1. Len(txs) \in Nat
  OBVIOUS
<1>2. PICK n, more : n \in Nat /\ n = Len(txs) /\ more = Append(txs, t)
  BY <1>1
<1>3. /\ more \in Seq(Tx) /\ Len(more) = n + 1 /\ more[n + 1] = t
      /\ \A k \in 1..n : more[k] = txs[k]
  BY <1>2
<1>4. PICK x : TemplateSteps(x, old, prev, v, txs)
  BY FilledSteps
<1>5. PICK y : TemplateSteps(y, old, prev, v, more)
  BY <1>3, FilledSteps
<1>6. /\ x[0] = y[0]
      /\ \A k \in 1..n : x[k] = ConnectTx(old, prev, ImmatureAbove(prev), v, x[k - 1], txs[k])
      /\ Filled(old, prev, v, txs) = x[n]
  BY <1>2, <1>4, <1>5 DEF TemplateSteps
<1>7. /\ \A k \in 1..n : y[k] = ConnectTx(old, prev, ImmatureAbove(prev), v, y[k - 1], txs[k])
      /\ y[n + 1] = ConnectTx(old, prev, ImmatureAbove(prev), v, y[n], t)
      /\ Filled(old, prev, v, more) = y[n + 1]
  <2>1. (n + 1) - 1 = n /\ n + 1 \in 1..n + 1 /\ \A k \in 1..n : k \in 1..n + 1
    BY <1>2
  <2> QED
    BY <1>3, <1>5, <2>1 DEF TemplateSteps
<1>8. x[n] = y[n]
  <2> DEFINE Differ == {k \in 0..n : x[k] # y[k]}
  <2> SUFFICES ASSUME Differ # {} PROVE FALSE
    BY <1>2
  <2>1. PICK k \in Differ : \A j \in Differ : k <= j
    <3> Differ \subseteq Nat
      OBVIOUS
    <3> HIDE DEF Differ
    <3> QED
      BY LeastExists
  <2>2. k \in 0..n /\ x[k] # y[k] /\ k # 0
    BY <1>6, <2>1
  <2>3. k \in 1..n /\ k - 1 \in 0..n /\ k - 1 < k
    BY <1>2, <2>2
  <2>4. x[k - 1] = y[k - 1]
    BY <2>1, <2>3
  <2> QED
    BY <1>6, <1>7, <2>2, <2>3, <2>4
<1> QED
  BY <1>2, <1>6, <1>7, <1>8

\* A step that is not refused.
LEMMA ConnectTxPasses ==
  ASSUME NEW old, NEW b, NEW im, NEW v, NEW acc, NEW t, ~IsCoinBase(t)
  PROVE  LET r == ConnectTx(old, b, im, v, acc, t) IN
         IF /\ acc.ok /\ ~Overwrites(old, t)
            /\ FetchInputs(acc.idx, t) /\ ConnectInputs(acc.idx, t, im, v)
         THEN /\ r.ok
              /\ r.idx = With(MarkInputs(acc.idx, t, b), t, CTxIndex(t, b))
              /\ r.fees = acc.fees + GetValueIn(t) - GetValueOut(t)
         ELSE "ok" \in DOMAIN acc => r.ok = FALSE
  BY DEF ConnectTx

\* The index after a transaction that is looked at with its inputs marked.
Added(idx, t, mark, pos) == With(MarkInputs(idx, t, mark), t, CTxIndex(t, pos))

\* w is idx with an entry for t and the inputs of t marked.
Gains(w, idx, T, t, mark, pos) ==
  /\ IsIndex(w, T \cup {t})
  /\ w[t].pos = pos
  /\ \A n \in DOMAIN vout[t] : w[t].vSpent[n] = Null
  /\ \A u \in T \ {t} :
       /\ w[u].pos = idx[u].pos
       /\ \A n \in DOMAIN vout[u] :
            w[u].vSpent[n] = IF [hash |-> u, n |-> n] \in vin[t] THEN mark ELSE idx[u].vSpent[n]

LEMMA EntryAdded ==
  ASSUME NEW T, NEW idx, IsIndex(idx, T), NEW t, NEW mark \in Holder, NEW pos \in Holder,
         NEW w, w = Added(idx, t, mark, pos)
  PROVE  Gains(w, idx, T, t, mark, pos)
<1>1. PICK m, e : m = MarkInputs(idx, t, mark) /\ e = CTxIndex(t, pos)
  OBVIOUS
<1>2. /\ IsIndex(m, T)
      /\ \A u \in T :
           /\ m[u].pos = idx[u].pos
           /\ \A n \in DOMAIN vout[u] :
                m[u].vSpent[n] = IF [hash |-> u, n |-> n] \in vin[t] THEN mark ELSE idx[u].vSpent[n]
  BY <1>1, MarkedEntry
<1>3. DOMAIN m = T
  BY <1>2 DEF IsIndex
<1>4. w = [u \in T \cup {t} |-> IF u = t THEN e ELSE m[u]]
  BY <1>1, <1>3 DEF Added, With
<1>5. /\ e \in EntryOf(t) /\ e.pos = pos
      /\ \A n \in DOMAIN vout[t] : e.vSpent[n] = Null
  <2>1. PICK f : f = [n \in DOMAIN vout[t] |-> Null]
    OBVIOUS
  <2>2. e = [pos |-> pos, vSpent |-> f]
    BY <1>1, <2>1 DEF CTxIndex
  <2>3. f \in [DOMAIN vout[t] -> Holder]
    BY <2>1 DEF Holder
  <2> QED
    BY <2>1, <2>2, <2>3 DEF EntryOf
<1>6. \A u \in T : m[u] \in EntryOf(u)
  BY <1>2 DEF IsIndex
<1>7. /\ w = [u \in T \cup {t} |-> w[u]]
      /\ \A u \in T \cup {t} : w[u] \in EntryOf(u)
  BY <1>4, <1>5, <1>6
<1>8. IsIndex(w, T \cup {t})
  BY <1>7 DEF IsIndex
<1>9. w[t] = e /\ \A u \in T \ {t} : w[u] = m[u]
  BY <1>4
<1> QED
  BY <1>2, <1>5, <1>8, <1>9 DEF Gains

\* An entry has a place for every output.
LEMMA EntryShape ==
  ASSUME NEW T, NEW idx, IsIndex(idx, T)
  PROVE  /\ DOMAIN idx = T
         /\ \A u \in T : DOMAIN idx[u].vSpent = DOMAIN vout[u]
<1>1. DOMAIN idx = T
  BY DEF IsIndex
<1>2. ASSUME NEW u \in T PROVE DOMAIN idx[u].vSpent = DOMAIN vout[u]
  <2>1. idx[u] \in [pos : Holder, vSpent : [DOMAIN vout[u] -> Holder]]
    BY DEF IsIndex, EntryOf
  <2>2. idx[u].vSpent \in [DOMAIN vout[u] -> Holder]
    BY <2>1
  <2> QED
    BY <2>2
<1> QED
  BY <1>1, <1>2

\* Whatever is unspent in y is so in x, and no coinbase is elsewhere.
Sees(x, y) ==
  /\ IsIndex(x, DOMAIN x) /\ IsIndex(y, DOMAIN y)
  /\ DOMAIN y \subseteq DOMAIN x
  /\ \A u \in DOMAIN y :
       /\ IsCoinBase(u) => x[u].pos = y[u].pos
       /\ \A n \in DOMAIN vout[u] : y[u].vSpent[n] = Null => x[u].vSpent[n] = Null

LEMMA SeesAdded ==
  ASSUME NEW x, NEW y, Sees(x, y), NEW t, ~IsCoinBase(t),
         NEW a \in Holder, NEW b \in Holder, b # Null, NEW i \in Holder, NEW j \in Holder
  PROVE  Sees(Added(x, t, a, i), Added(y, t, b, j))
<1>1. PICK v, w, X, Y : /\ v = Added(x, t, a, i) /\ w = Added(y, t, b, j)
                        /\ X = DOMAIN x /\ Y = DOMAIN y
  OBVIOUS
<1>2. IsIndex(x, X) /\ IsIndex(y, Y) /\ Y \subseteq X
  BY <1>1 DEF Sees
<1>3. Gains(v, x, X, t, a, i) /\ Gains(w, y, Y, t, b, j)
  BY <1>1, <1>2, EntryAdded
<1>4. IsIndex(v, X \cup {t}) /\ IsIndex(w, Y \cup {t})
  BY <1>3 DEF Gains
<1>5. DOMAIN v = X \cup {t} /\ DOMAIN w = Y \cup {t}
  BY <1>4, EntryShape
<1>6. ASSUME NEW u \in Y \cup {t}
      PROVE  /\ IsCoinBase(u) => v[u].pos = w[u].pos
             /\ \A n \in DOMAIN vout[u] : w[u].vSpent[n] = Null => v[u].vSpent[n] = Null
  <2>1. CASE u = t
    BY <1>3, <2>1 DEF Gains
  <2>2. CASE u \in Y \ {t}
    <3>1. /\ IsCoinBase(u) => x[u].pos = y[u].pos
          /\ \A n \in DOMAIN vout[u] : y[u].vSpent[n] = Null => x[u].vSpent[n] = Null
      BY <1>1, <2>2 DEF Sees
    <3> QED
      BY <1>2, <1>3, <2>2, <3>1 DEF Gains
  <2> QED
    BY <2>1, <2>2
<1> QED
  BY <1>1, <1>2, <1>3, <1>4, <1>5, <1>6 DEF Sees

\* What passes the tests on y passes them on x.
LEMMA SeesPasses ==
  ASSUME NEW x, NEW y, Sees(x, y), NEW t, NEW im, NEW jm, NEW v, NEW w, v => w,
         FetchInputs(y, t), ConnectInputs(y, t, jm, w),
         \A p \in vin[t] : /\ IsCoinBase(p.hash)
                           /\ y[p.hash].pos \notin jm
                           => y[p.hash].pos \notin im
  PROVE  FetchInputs(x, t) /\ ConnectInputs(x, t, im, v)
<1>1. PICK X, Y : X = DOMAIN x /\ Y = DOMAIN y
  OBVIOUS
<1>2. IsIndex(x, X) /\ IsIndex(y, Y) /\ Y \subseteq X
  BY <1>1 DEF Sees
<1>3. /\ \A u \in X : DOMAIN x[u].vSpent = DOMAIN vout[u]
      /\ \A u \in Y : DOMAIN y[u].vSpent = DOMAIN vout[u]
  BY <1>2, EntryShape
<1>4. \A p \in vin[t] : /\ p.hash \in Y /\ p.n \in DOMAIN vout[p.hash]
                        /\ y[p.hash].vSpent[p.n] = Null
  BY <1>1, <1>3 DEF FetchInputs, InputsFound, ConnectInputs
<1>5. \A p \in vin[t] : /\ IsCoinBase(p.hash) => x[p.hash].pos = y[p.hash].pos
                        /\ x[p.hash].vSpent[p.n] = Null
  BY <1>1, <1>4 DEF Sees
<1>6. FetchInputs(x, t)
  BY <1>1, <1>2, <1>3, <1>4 DEF FetchInputs, InputsFound
<1>7. \A p \in vin[t] : IsCoinBase(p.hash) => x[p.hash].pos \notin im
  BY <1>5 DEF ConnectInputs
<1>8. (v => t \notin BadSignature) /\ GetValueIn(t) >= GetValueOut(t)
  BY DEF ConnectInputs
<1> QED
  BY <1>5, <1>6, <1>7, <1>8 DEF ConnectInputs

-----------------------------------------------------------------------------
(* A transaction added to a template.                                      *)

Distinct(txs) == \A i, j \in DOMAIN txs : txs[i] = txs[j] => i = j

\* The output p is there and spent.
Taken(y, p) ==
  /\ p.hash \in DOMAIN y
  /\ p.n \in DOMAIN vout[p.hash]
  /\ y[p.hash].vSpent[p.n] # Null

\* The transactions txs connect to old one after another, and y, the index
\* CreateNewBlock keeps of them, offers no output that they leave spent.
Fits(old, prev, txs, y) ==
  /\ \A v \in BOOLEAN : /\ Filled(old, prev, v, txs).ok
                        /\ Sees(Filled(old, prev, v, txs).idx, y)
  /\ DOMAIN y = DOMAIN old \cup ToSet(txs)
  /\ \A t \in ToSet(txs) : \A p \in vin[t] : Taken(y, p)
  /\ Distinct(txs)

LEMMA ToSetAppend ==
  ASSUME NEW S, NEW s \in Seq(S), NEW x \in S
  PROVE  /\ ToSet(Append(s, x)) = ToSet(s) \cup {x}
         /\ x \notin ToSet(s) /\ Distinct(s) => Distinct(Append(s, x))
<1>1. Len(s) \in Nat
  OBVIOUS
<1>2. PICK n, u : n \in Nat /\ n = Len(s) /\ u = Append(s, x)
  BY <1>1
<1>3. /\ DOMAIN s = 1..n /\ DOMAIN u = 1..n + 1
      /\ u[n + 1] = x /\ \A k \in 1..n : u[k] = s[k]
  BY <1>2
<1>4. 1..n + 1 = (1..n) \cup {n + 1} /\ n + 1 \notin 1..n
  BY <1>2
<1>5. ToSet(u) = ToSet(s) \cup {x}
  BY <1>3, <1>4 DEF ToSet
<1>6. ASSUME x \notin ToSet(s), Distinct(s) PROVE Distinct(u)
  BY <1>3, <1>4, <1>6 DEF ToSet, Distinct
<1> QED
  BY <1>2, <1>5, <1>6

LEMMA InputIs ==
  ASSUME NEW t \in Tx, NEW p \in vin[t]
  PROVE  p = [hash |-> p.hash, n |-> p.n]
<1>1. p \in OutPoint
  BY InputsAreOutPoints
<1>2. p \in [hash : Tx, n : Nat \ {0}]
  BY <1>1, TxAssumption
<1> QED
  BY <1>2

LEMMA TemplateGrows ==
  ASSUME NEW old, NEW prev \in Block, NEW txs \in Seq(Tx), NEW y, Fits(old, prev, txs, y),
         NEW t \in Tx, ~IsCoinBase(t), t \notin DOMAIN old,
         FetchInputs(y, t), ConnectInputs(y, t, ImmatureBlocks(prev), TRUE)
  PROVE  Fits(old, prev, Append(txs, t), Added(y, t, prev, Null))
<1>1. PICK more, w : more = Append(txs, t) /\ w = Added(y, t, prev, Null)
  OBVIOUS
<1>2. IsIndex(y, DOMAIN y)
  BY DEF Fits, Sees
<1>3. \A p \in vin[t] : /\ p.hash \in DOMAIN y /\ p.n \in DOMAIN vout[p.hash]
                        /\ y[p.hash].vSpent[p.n] = Null
  BY <1>2, EntryShape DEF FetchInputs, InputsFound, ConnectInputs
<1>4. t \notin ToSet(txs)
  BY <1>3 DEF Fits, Taken, IsCoinBase
<1>5. t \notin DOMAIN y
  BY <1>4 DEF Fits
<1>6. ToSet(more) = ToSet(txs) \cup {t} /\ Distinct(more)
  <2>1. Distinct(txs)
    BY DEF Fits
  <2> QED
    BY <1>1, <1>4, <2>1, ToSetAppend
<1>7. prev \in Holder /\ Null \in Holder /\ prev # Null
  BY BlockAssumption DEF Holder
<1>8. Gains(w, y, DOMAIN y, t, prev, Null)
  BY <1>1, <1>2, <1>7, EntryAdded
<1>9. DOMAIN w = DOMAIN y \cup {t}
  <2>1. IsIndex(w, DOMAIN y \cup {t})
    BY <1>8 DEF Gains
  <2> QED
    BY <2>1, EntryShape
<1>10. DOMAIN w = DOMAIN old \cup ToSet(more)
  <2>1. DOMAIN y = DOMAIN old \cup ToSet(txs)
    BY DEF Fits
  <2> QED
    BY <1>6, <1>9, <2>1
<1>11. ASSUME NEW u \in ToSet(more), NEW p \in vin[u] PROVE Taken(w, p)
  <2>1. CASE u = t
    <3>1. p = [hash |-> p.hash, n |-> p.n]
      BY <2>1, InputIs
    <3>2. p.hash \in DOMAIN y \ {t} /\ p.n \in DOMAIN vout[p.hash]
      BY <1>3, <1>5, <2>1
    <3>3. w[p.hash].vSpent[p.n] = prev
      BY <1>8, <2>1, <3>1, <3>2 DEF Gains
    <3> QED
      BY <1>7, <1>9, <3>2, <3>3 DEF Taken
  <2>2. CASE u \in ToSet(txs)
    <3>1. Taken(y, p)
      BY <2>2 DEF Fits
    <3>2. p.hash \in DOMAIN y \ {t} /\ p.n \in DOMAIN vout[p.hash] /\ y[p.hash].vSpent[p.n] # Null
      BY <1>5, <3>1 DEF Taken
    <3>3. w[p.hash].vSpent[p.n] # Null
      BY <1>7, <1>8, <3>2 DEF Gains
    <3> QED
      BY <1>9, <3>2, <3>3 DEF Taken
  <2> QED
    BY <1>6, <2>1, <2>2
<1>12. ASSUME NEW v \in BOOLEAN
       PROVE  Filled(old, prev, v, more).ok /\ Sees(Filled(old, prev, v, more).idx, w)
  <2>1. PICK r, q, im : /\ r = Filled(old, prev, v, txs) /\ q = Filled(old, prev, v, more)
                        /\ im = ImmatureAbove(prev)
    OBVIOUS
  <2>2. r.ok /\ Sees(r.idx, y)
    BY <2>1 DEF Fits
  <2>3. q = ConnectTx(old, prev, im, v, r, t)
    BY <1>1, <2>1, FilledAppend
  <2>4. \A p \in vin[t] : y[p.hash].pos \notin ImmatureBlocks(prev) => y[p.hash].pos \notin im
    BY <2>1 DEF ImmatureAbove
  <2>5. PICK x : x = r.idx
    OBVIOUS
  <2>6. FetchInputs(x, t) /\ ConnectInputs(x, t, im, v)
    <3>1. v => TRUE
      OBVIOUS
    <3>2. Sees(x, y)
      BY <2>2, <2>5
    <3> QED
      BY <2>4, <3>1, <3>2, SeesPasses
  <2>7. ~Overwrites(old, t)
    BY DEF Overwrites
  <2>8. q.ok /\ q.idx = Added(x, t, prev, prev)
    BY <2>2, <2>3, <2>5, <2>6, <2>7, ConnectTxPasses DEF Added
  <2>9. Sees(q.idx, w)
    <3>1. Sees(x, y)
      BY <2>2, <2>5
    <3> QED
      BY <1>1, <1>7, <2>8, <3>1, SeesAdded
  <2> QED
    BY <2>1, <2>8, <2>9
<1> QED
  BY <1>1, <1>6, <1>10, <1>11, <1>12 DEF Fits

\* An empty template fits.
LEMMA EmptyFits ==
  ASSUME NEW old, NEW prev, IsIndex(old, DOMAIN old)
  PROVE  Fits(old, prev, <<>>, old)
<1>1. PICK e : e = <<>>
  OBVIOUS
<1>2. \A v : Filled(old, prev, v, e) = [ok |-> TRUE, idx |-> old, fees |-> 0]
  BY <1>1, FilledNone DEF Start
<1>3. \A v \in BOOLEAN : Filled(old, prev, v, e).ok /\ Sees(Filled(old, prev, v, e).idx, old)
  BY <1>2 DEF Sees
<1>4. ToSet(e) = {} /\ Distinct(e)
  BY <1>1 DEF ToSet, Distinct
<1>5. Fits(old, prev, e, old)
  BY <1>3, <1>4 DEF Fits
<1> QED
  BY <1>1, <1>5

-----------------------------------------------------------------------------
(* The templates of the threads.                                           *)

\* CTxMemPool::accept refuses coinbases and what CheckTransaction refuses.
PooledInv == \A t \in mapTx : ~IsCoinBase(t) /\ CheckTransaction(t)

LEMMA PooledStep ==
  ASSUME PooledInv, [Next]_vars
  PROVE  PooledInv'
<1>1. CASE mapTx' \subseteq mapTx
  BY <1>1 DEF PooledInv
<1>2. CASE ResurrectTx
  BY <1>2 DEF ResurrectTx, Resurrect, Admissible, addUnchecked, poolVars, PooledInv
<1>3. ASSUME NEW t \in LooseTx, AcceptToMemoryPool(t) PROVE PooledInv'
  BY <1>3 DEF AcceptToMemoryPool, AcceptLoose, Admissible, addUnchecked, PooledInv
<1>4. CASE DeleteTx
  BY <1>4, <1>1 DEF DeleteTx, remove, poolVars
<1>5. CASE CrashRestart
  BY <1>5, <1>1 DEF CrashRestart
<1> QED
  BY <1>1, <1>2, <1>3, <1>4, <1>5
  DEF Next, vars, poolVars, ReceiveBlock, RejectBlock, AddOrphanBlock, ProcessBlock,
      HandlerStep, AcceptBlockFails, AddToBlockIndex, AddToBlockIndexFails,
      SetBestChainFails, ActivationFails, ExtendBestChain, ExtendBestChainFails,
      SwitchBranch, PostponeConnect, Reorganize, ReorganizeFails, ConnectSecondary,
      ConnectSecondaryFails, NewBestBlock, PoolUpdated, BlockAccepted, BlockRejected,
      AcceptOrphan, OrphansDone

\* What m fills its template from; nothing changes it meanwhile.
FromPool(m) ==
  /\ pc = "idle"
  /\ \A n \in Miners : pcMiner[n] = "fill" => n = m
  /\ vecPriority \subseteq mapTx
  /\ setDependsOn \subseteq mapTx \X Tx
  /\ mapDependers \subseteq Tx \X mapTx
  /\ ToSet(template[m].vtx) \subseteq mapTx

\* txs are fit for a block on prev.
Ready(prev, txs) ==
  /\ \A v \in BOOLEAN : Filled(IndexOf(ChainOf[prev]), prev, v, txs).ok
  /\ \A t \in ToSet(txs) : ~IsCoinBase(t) /\ CheckTransaction(t)
  /\ Distinct(txs)

\* The template of m connects, as far as it is filled; when it is done it goes on to
\* connect as long as its parent is the best block.
TemplateInv(m) ==
  /\ pcMiner[m] # "dead"
  /\ template[m].vtx \in Seq(Tx)
  /\ pcMiner[m] \in {"start", "create", "lock", "submit"} => template[m].vtx = <<>>
  /\ pcMiner[m] = "fill" =>
       FromPool(m) /\ Fits(dbTx, template[m].prev, template[m].vtx, mapTestPool)
  /\ pcMiner[m] = "search" /\ template[m].prev = pindexBest =>
       Ready(template[m].prev, template[m].vtx)

TemplatesInv == \A m \in Miners : TemplateInv(m)

\* What the node around the threads is like.
ChainInv == IInv /\ MemoryMatchesDisk /\ LedgerInv /\ PoolNotMined /\ PooledInv

LEMMA IndexShape ==
  ASSUME IInv, LedgerInv
  PROVE  IsIndex(dbTx, DOMAIN dbTx)
<1>1. PICK c : c = ChainOf[dbBest] /\ dbTx = IndexOf(c)
  BY DEF LedgerInv, LedgerMatchesChain
<1>2. dbBest \in Block
  BY DEF IInv, TypeOK
<1>3. Good(c, Places(c))
  BY <1>1, <1>2, SoundIsGood DEF LedgerInv
<1>4. Describes(dbTx, c, Places(c))
  BY <1>1, <1>3, IndexOfDescribes
<1>5. PICK T : IsIndex(dbTx, T)
  BY <1>4 DEF Describes
<1> QED
  BY <1>5, EntryShape

\* A thread that does nothing and holds no lock.
LEMMA TemplateWaits ==
  ASSUME NEW m \in Miners, TemplateInv(m), pcMiner[m] # "fill",
         pcMiner'[m] = pcMiner[m], template'[m] = template[m],
         pcMiner[m] = "search" /\ template[m].prev = pindexBest'
           => template[m].prev = pindexBest
  PROVE  TemplateInv(m)'
  BY DEF TemplateInv

\* The one that holds the lock.
LEMMA TemplateUndisturbed ==
  ASSUME NEW m \in Miners, TemplateInv(m), pcMiner[m] = "fill",
         pcMiner'[m] = pcMiner[m], template'[m] = template[m],
         \A n \in Miners : pcMiner'[n] = "fill" => pcMiner[n] = "fill",
         UNCHANGED <<vars, fillVars>>
  PROVE  TemplateInv(m)'
<1>1. UNCHANGED <<pc, mapTx, dbTx, vecPriority, setDependsOn, mapDependers, mapTestPool>>
  BY DEF vars, poolVars, dbVars, fillVars
<1>2. FromPool(m) /\ Fits(dbTx, template[m].prev, template[m].vtx, mapTestPool)
  BY DEF TemplateInv
<1>3. FromPool(m)'
  BY <1>1, <1>2 DEF FromPool
<1>4. Fits(dbTx, template[m].prev, template[m].vtx, mapTestPool)'
  BY <1>1, <1>2
<1> QED
  BY <1>3, <1>4 DEF TemplateInv

\* Nothing of the chain changes, and the others do nothing.
LEMMA OthersKeepTemplates ==
  ASSUME MInv, TemplatesInv, NEW m \in Miners, UNCHANGED vars,
         pcMiner' = [pcMiner EXCEPT ![m] = pcMiner'[m]],
         \A n \in Miners \ {m} : template'[n] = template[n],
         pcMiner'[m] # "fill",
         pcMiner[m] = "fill" \/ UNCHANGED fillVars
  PROVE  \A n \in Miners \ {m} : TemplateInv(n)'
<1> SUFFICES ASSUME NEW n \in Miners \ {m} PROVE TemplateInv(n)'
  OBVIOUS
<1>1. TemplateInv(n) /\ template'[n] = template[n]
  BY DEF TemplatesInv
<1>2. \A k \in Miners \ {m} : pcMiner'[k] = pcMiner[k]
  <2>1. PICK l : l = pcMiner'[m]
    OBVIOUS
  <2>2. pcMiner' = [pcMiner EXCEPT ![m] = l] /\ DOMAIN pcMiner = Miners
    BY <2>1 DEF MInv
  <2> QED
    BY <2>2
<1>3. CASE pcMiner[n] # "fill"
  <2>1. pindexBest' = pindexBest
    BY DEF vars
  <2> QED
    BY <1>1, <1>2, <1>3, <2>1, TemplateWaits
<1>4. CASE pcMiner[n] = "fill"
  <2>1. FromPool(n)
    BY <1>1, <1>4 DEF TemplateInv
  <2>2. UNCHANGED fillVars
    BY <2>1 DEF FromPool
  <2>3. \A k \in Miners : pcMiner'[k] = "fill" => pcMiner[k] = "fill"
    BY <1>2
  <2>4. UNCHANGED <<vars, fillVars>>
    BY <2>2
  <2> QED
    BY <1>1, <1>2, <1>4, <2>3, <2>4, TemplateUndisturbed
<1> QED
  BY <1>3, <1>4

LEMMA FillKeepsTemplates ==
  ASSUME ChainInv, MInv, TemplatesInv, NEW m \in Miners, Fill(m)
  PROVE  TemplatesInv'
<1>1. /\ pc = "idle" /\ pcMiner[m] = "lock" /\ UNCHANGED vars
      /\ \A n \in Miners : pcMiner[n] # "fill"
      /\ template' = template
      /\ pcMiner' = [pcMiner EXCEPT ![m] = "fill"]
      /\ mapTestPool' = dbTx
  BY DEF Fill, Unlocked, GoTo
<1>2. UNCHANGED <<pc, mapTx, dbTx, pindexBest>>
  BY <1>1 DEF vars
<1>3. DOMAIN pcMiner = Miners
  BY DEF MInv
<1>4. \A n \in Miners \ {m} : TemplateInv(n)'
  <2> SUFFICES ASSUME NEW n \in Miners \ {m} PROVE TemplateInv(n)'
    OBVIOUS
  <2>1. TemplateInv(n) /\ pcMiner'[n] = pcMiner[n] /\ template'[n] = template[n]
    BY <1>1, <1>3 DEF TemplatesInv
  <2> QED
    BY <1>1, <1>2, <2>1, TemplateWaits
<1>5. mapTx \subseteq Tx
  BY DEF ChainInv, IInv, TypeOK, PoolTypeOK
<1>6. template[m].vtx = <<>> /\ pcMiner'[m] = "fill"
  BY <1>1, <1>3 DEF TemplatesInv, TemplateInv
<1>7. FromPool(m)'
  <2>1. \A t : PoolParents(t) \subseteq mapTx
    BY DEF PoolParents
  <2>2. vecPriority' \subseteq mapTx
    BY DEF Fill
  <2>3. setDependsOn' \subseteq mapTx \X Tx
    <3>1. PICK S : S \subseteq mapTx /\ setDependsOn' = UNION {{t} \X PoolParents(t) : t \in S}
      BY DEF Fill
    <3> QED
      BY <1>5, <2>1, <3>1
  <2>4. mapDependers' \subseteq Tx \X mapTx
    <3>1. PICK S, D : /\ S \subseteq mapTx
                      /\ D \subseteq UNION {PoolParents(t) \X {t} : t \in mapTx \ S}
                      /\ mapDependers' = (UNION {PoolParents(t) \X {t} : t \in S}) \cup D
      BY DEF Fill
    <3> QED
      BY <1>5, <2>1, <3>1
  <2>5. \A n \in Miners : pcMiner'[n] = "fill" => n = m
    BY <1>1, <1>3
  <2>6. ToSet(template'[m].vtx) \subseteq mapTx'
    BY <1>1, <1>6, NothingListed
  <2> QED
    BY <1>1, <1>2, <2>2, <2>3, <2>4, <2>5, <2>6 DEF FromPool
<1>8. Fits(dbTx, template[m].prev, template[m].vtx, mapTestPool)'
  <2>1. IsIndex(dbTx, DOMAIN dbTx)
    BY IndexShape DEF ChainInv
  <2>2. Fits(dbTx, template[m].prev, <<>>, dbTx)
    BY <2>1, EmptyFits
  <2> QED
    BY <1>1, <1>2, <1>6, <2>2
<1>9. TemplateInv(m)'
  BY <1>1, <1>6, <1>7, <1>8 DEF TemplateInv
<1> QED
  BY <1>4, <1>9 DEF TemplatesInv

LEMMA AddKeepsTemplates ==
  ASSUME ChainInv, MInv, TemplatesInv, NEW m \in Miners, NEW t \in vecPriority,
         AddToTemplate(m, t)
  PROVE  TemplatesInv'
<1>1. PICK prev, txs, y :
        prev = template[m].prev /\ txs = template[m].vtx /\ y = mapTestPool
  OBVIOUS
<1>2. /\ pcMiner[m] = "fill" /\ UNCHANGED vars /\ pcMiner' = pcMiner
      /\ FetchInputs(y, t) /\ ConnectInputs(y, t, ImmatureBlocks(prev), TRUE)
      /\ template' = [template EXCEPT ![m].vtx = Append(@, t)]
      /\ mapTestPool' = Added(y, t, prev, Null)
  BY <1>1 DEF AddToTemplate, Connects, Added
<1>3. /\ UNCHANGED <<pc, mapTx, dbTx, pindexBest>>
      /\ UNCHANGED mapDependers
  BY <1>2 DEF vars, AddToTemplate
<1>4. FromPool(m) /\ txs \in Seq(Tx) /\ Fits(dbTx, prev, txs, y)
  BY <1>1, <1>2 DEF TemplatesInv, TemplateInv
<1>5. /\ DOMAIN template = Miners /\ DOMAIN template[m] = {"prev", "vtx", "nHeight"}
      /\ prev \in mapBlockIndex
  BY <1>1 DEF MInv, ThreadInv
<1>6. /\ template'[m].prev = prev /\ template'[m].vtx = Append(txs, t)
      /\ \A n \in Miners \ {m} : template'[n] = template[n]
  BY <1>1, <1>2, <1>5
<1>7. mapTx \subseteq Tx /\ prev \in Block
  BY <1>5 DEF ChainInv, IInv, TypeOK, PoolTypeOK
<1>8. t \in mapTx /\ t \in Tx /\ ~IsCoinBase(t) /\ t \notin DOMAIN dbTx
  BY <1>4, <1>7 DEF FromPool, ChainInv, PooledInv, PoolNotMined
<1>9. Fits(dbTx, prev, Append(txs, t), Added(y, t, prev, Null))
  BY <1>2, <1>4, <1>7, <1>8, TemplateGrows
<1>10. Append(txs, t) \in Seq(Tx) /\ ToSet(Append(txs, t)) = ToSet(txs) \cup {t}
  BY <1>4, <1>8, ToSetAppend
<1>11. FromPool(m)'
  <2>1. Released(t) \subseteq mapTx /\ Popped(t) \subseteq mapTx
    BY <1>4 DEF FromPool, Released, Popped
  <2>2. vecPriority' \subseteq mapTx
    <3>1. PICK garbage \in SUBSET Popped(t) :
            vecPriority' = (vecPriority \ {t}) \cup Released(t) \cup garbage
      BY DEF AddToTemplate
    <3> QED
      BY <1>4, <2>1, <3>1 DEF FromPool
  <2>3. setDependsOn' \subseteq mapTx \X Tx
    BY <1>4 DEF FromPool, AddToTemplate
  <2>4. ToSet(template'[m].vtx) \subseteq mapTx
    BY <1>1, <1>4, <1>6, <1>8, <1>10 DEF FromPool
  <2> QED
    BY <1>2, <1>3, <1>4, <2>2, <2>3, <2>4 DEF FromPool
<1>12. TemplateInv(m)'
  BY <1>2, <1>3, <1>6, <1>9, <1>10, <1>11 DEF TemplateInv
<1>13. ASSUME NEW n \in Miners \ {m} PROVE TemplateInv(n)'
  <2>1. pcMiner[n] # "fill" /\ TemplateInv(n)
    BY <1>4 DEF FromPool, TemplatesInv
  <2> QED
    BY <1>2, <1>3, <1>6, <2>1, TemplateWaits
<1> QED
  BY <1>12, <1>13 DEF TemplatesInv

LEMMA SkipKeepsTemplates ==
  ASSUME MInv, TemplatesInv, NEW m \in Miners, NEW t \in vecPriority, SkipTx(m, t)
  PROVE  TemplatesInv'
<1>1. /\ pcMiner[m] = "fill" /\ UNCHANGED vars /\ pcMiner' = pcMiner /\ template' = template
      /\ vecPriority' \subseteq vecPriority
      /\ UNCHANGED <<setDependsOn, mapDependers, mapTestPool>>
  BY DEF SkipTx, threadVars
<1>2. UNCHANGED <<pc, mapTx, dbTx, pindexBest>>
  BY <1>1 DEF vars
<1>3. TemplateInv(m) /\ FromPool(m)
  BY <1>1 DEF TemplatesInv, TemplateInv
<1>4. FromPool(m)'
  BY <1>1, <1>2, <1>3 DEF FromPool
<1>5. Fits(dbTx, template[m].prev, template[m].vtx, mapTestPool)'
  BY <1>1, <1>2, <1>3 DEF TemplateInv
<1>6. TemplateInv(m)'
  BY <1>1, <1>3, <1>4, <1>5 DEF TemplateInv
<1>7. ASSUME NEW n \in Miners \ {m} PROVE TemplateInv(n)'
  <2>1. pcMiner[n] # "fill" /\ TemplateInv(n)
    BY <1>3 DEF FromPool, TemplatesInv
  <2> QED
    BY <1>1, <1>2, <2>1, TemplateWaits
<1> QED
  BY <1>6, <1>7 DEF TemplatesInv

\* A template that is finished connects: no thread dies.
LEMMA FinishKeepsTemplates ==
  ASSUME ChainInv, MInv, TemplatesInv, NEW m \in Miners, FinishTemplate(m)
  PROVE  TemplatesInv'
<1>1. PICK prev, txs : prev = template[m].prev /\ txs = template[m].vtx
  OBVIOUS
<1>2. pcMiner[m] = "fill" /\ UNCHANGED vars
  BY DEF FinishTemplate
<1>3. FromPool(m) /\ txs \in Seq(Tx) /\ Fits(dbTx, prev, txs, mapTestPool)
  BY <1>1, <1>2 DEF TemplatesInv, TemplateInv
<1>4. \A v \in BOOLEAN : Filled(dbTx, prev, v, txs).ok
  BY <1>3 DEF Fits
<1>5. TemplateConnects(prev, txs)
  <2>1. TemplateConnects(prev, txs) = Filled(dbTx, prev, fVerify, txs).ok
    BY DEF TemplateConnects, Filled, Start
  <2>2. fVerify \in BOOLEAN
    BY DEF fVerify
  <2> QED
    BY <1>4, <2>1, <2>2
<1>6. /\ pcMiner' = [pcMiner EXCEPT ![m] = "search"]
      /\ template' = [template EXCEPT ![m].nHeight = CoinbaseHeight(m)]
  BY <1>1, <1>5 DEF FinishTemplate, GoTo
<1>7. /\ DOMAIN template = Miners /\ DOMAIN template[m] = {"prev", "vtx", "nHeight"}
      /\ DOMAIN pcMiner = Miners
  BY DEF MInv, ThreadInv
<1>8. /\ template'[m].prev = prev /\ template'[m].vtx = txs /\ pcMiner'[m] = "search"
      /\ \A n \in Miners \ {m} : template'[n] = template[n]
  BY <1>1, <1>6, <1>7
<1>9. pindexBest' = pindexBest
  BY <1>2 DEF vars
<1>10. ASSUME prev = pindexBest PROVE Ready(prev, txs)
  <2>1. dbTx = IndexOf(ChainOf[prev])
    BY <1>3, <1>10 DEF FromPool, ChainInv, MemoryMatchesDisk, LedgerInv, LedgerMatchesChain
  <2>2. \A t \in ToSet(txs) : ~IsCoinBase(t) /\ CheckTransaction(t)
    BY <1>1, <1>3 DEF FromPool, ChainInv, PooledInv
  <2>3. Distinct(txs)
    BY <1>3 DEF Fits
  <2>4. \A v \in BOOLEAN : Filled(IndexOf(ChainOf[prev]), prev, v, txs).ok
    BY <1>4, <2>1
  <2> QED
    BY <2>2, <2>3, <2>4 DEF Ready
<1>11. TemplateInv(m)'
  BY <1>3, <1>8, <1>9, <1>10 DEF TemplateInv
<1>12. \A n \in Miners \ {m} : TemplateInv(n)'
  BY <1>2, <1>6, <1>8, OthersKeepTemplates
<1> QED
  BY <1>11, <1>12 DEF TemplatesInv

LEMMA CreateKeepsTemplates ==
  ASSUME ChainInv, MInv, TemplatesInv, NEW m \in Miners, CreateSteps(m)
  PROVE  TemplatesInv'
<1>1. CASE ReadBest(m)
  <2>1. /\ pcMiner[m] = "start" /\ pcMiner' = [pcMiner EXCEPT ![m] = "create"]
        /\ template' = template /\ UNCHANGED <<vars, fillVars>>
    BY <1>1 DEF ReadBest, GoTo
  <2>2. pcMiner'[m] = "create"
    BY <2>1 DEF MInv
  <2>3. TemplateInv(m)'
    BY <2>1, <2>2 DEF TemplatesInv, TemplateInv
  <2>4. \A n \in Miners \ {m} : TemplateInv(n)'
    BY <2>1, <2>2, OthersKeepTemplates
  <2> QED
    BY <2>3, <2>4 DEF TemplatesInv
<1>2. CASE CreateNewBlock(m)
  <2>1. /\ pcMiner[m] = "create" /\ pcMiner' = [pcMiner EXCEPT ![m] = "lock"]
        /\ template' = [template EXCEPT ![m].prev = pindexBest]
        /\ UNCHANGED <<vars, fillVars>>
    BY <1>2 DEF CreateNewBlock, GoTo
  <2>2. pcMiner'[m] = "lock"
    BY <2>1 DEF MInv
  <2>3. /\ template'[m].vtx = template[m].vtx
        /\ \A n \in Miners \ {m} : template'[n] = template[n]
    BY <2>1 DEF MInv, ThreadInv
  <2>4. TemplateInv(m)'
    BY <2>1, <2>2, <2>3 DEF TemplatesInv, TemplateInv
  <2>5. \A n \in Miners \ {m} : TemplateInv(n)'
    BY <2>1, <2>2, <2>3, OthersKeepTemplates
  <2> QED
    BY <2>4, <2>5 DEF TemplatesInv
<1> QED
  BY <1>1, <1>2, FillKeepsTemplates, AddKeepsTemplates, SkipKeepsTemplates,
     FinishKeepsTemplates DEF CreateSteps

\* A best block that was beaten stays beaten.
LEMMA StaysStale ==
  ASSUME IInv, MInv, NEW m \in Miners, pcMiner[m] = "search", [Next]_vars,
         ~(nCrashes' > nCrashes), template[m].prev = pindexBest'
  PROVE  template[m].prev = pindexBest
<1>1. /\ pindexBest \in mapBlockIndex /\ bnChainWork \in [Block -> Nat]
      /\ mapBlockIndex \subseteq Block
  BY DEF IInv, TypeOK
<1>2. PICK b : b = template[m].prev
  OBVIOUS
<1>3. b \in mapBlockIndex /\ Beats(pindexBest, b)
  BY <1>2 DEF MInv, ThreadInv
<1>4. bnChainWork'[b] = bnChainWork[b]
  BY <1>3, IndexKeepsWork
<1>5. pindexBest' = pindexBest \/ bnChainWork'[pindexBest'] > bnChainWork[pindexBest]
  BY MemoryBestGrows
<1>6. bnChainWork[b] \in Nat /\ bnChainWork[pindexBest] \in Nat
  BY <1>1, <1>3
<1>7. bnChainWork[b] <= bnChainWork[pindexBest]
  BY <1>3, <1>6 DEF Beats
<1>8. b = pindexBest'
  BY <1>2
<1>9. CASE bnChainWork'[pindexBest'] > bnChainWork[pindexBest]
  BY <1>4, <1>6, <1>7, <1>8, <1>9
<1> QED
  BY <1>2, <1>5, <1>8, <1>9

\* A thread without a template.
LEMMA NoTemplateYet ==
  ASSUME NEW m \in Miners, pcMiner'[m] \in {"start", "submit"}, template'[m] = NoTemplate
  PROVE  TemplateInv(m)'
<1>1. NoTemplate.vtx = <<>> /\ <<>> \in Seq(Tx)
  BY DEF NoTemplate
<1> QED
  BY <1>1 DEF TemplateInv

LEMMA SearchKeepsTemplates ==
  ASSUME ChainInv, MInv, TemplatesInv, NEW m \in Miners, SearchSteps(m)
  PROVE  TemplatesInv'
<1> USE DEF GoTo, Forget
<1>1. DOMAIN pcMiner = Miners /\ DOMAIN template = Miners
  BY DEF MInv
<1>2. CASE Rebuild(m)
  <2>1. /\ pcMiner[m] = "search" /\ pcMiner' = [pcMiner EXCEPT ![m] = "start"]
        /\ template' = [template EXCEPT ![m] = NoTemplate]
        /\ UNCHANGED <<vars, fillVars>>
    BY <1>2 DEF Rebuild
  <2>2. /\ pcMiner'[m] = "start" /\ template'[m] = NoTemplate
        /\ \A n \in Miners \ {m} : template'[n] = template[n]
    BY <1>1, <2>1
  <2>3. \A n \in Miners \ {m} : TemplateInv(n)'
    BY <2>1, <2>2, OthersKeepTemplates
  <2> QED
    BY <2>2, <2>3, NoTemplateYet DEF TemplatesInv
<1>3. CASE KeepSearching(m)
  <2>1. /\ pcMiner[m] = "search" /\ pcMiner' = pcMiner /\ template' = template
        /\ UNCHANGED <<vars, fillVars>>
    BY <1>3 DEF KeepSearching
  <2>2. pindexBest' = pindexBest
    BY <2>1 DEF vars
  <2> QED
    BY <2>1, <2>2, TemplateWaits, TemplateUndisturbed DEF TemplatesInv
<1>4. CASE Submitted(m)
  <2>1. /\ pcMiner[m] = "submit" /\ pcMiner' = [pcMiner EXCEPT ![m] = "start"]
        /\ template' = template /\ UNCHANGED <<vars, fillVars>>
    BY <1>4 DEF Submitted
  <2>2. pcMiner'[m] = "start"
    BY <1>1, <2>1
  <2>3. TemplateInv(m)'
    BY <2>1, <2>2 DEF TemplatesInv, TemplateInv
  <2>4. \A n \in Miners \ {m} : TemplateInv(n)'
    BY <2>1, <2>2, OthersKeepTemplates
  <2> QED
    BY <2>3, <2>4 DEF TemplatesInv
<1>5. ASSUME NEW b \in Block \ {Genesis}, CheckWork(m, b) PROVE TemplatesInv'
  <2>1. /\ pcMiner[m] = "search" /\ \A n \in Miners : pcMiner[n] # "fill"
        /\ template' = [template EXCEPT ![m] = NoTemplate]
        /\ \/ pcMiner' = [pcMiner EXCEPT ![m] = "start"] /\ UNCHANGED vars
           \/ pcMiner' = [pcMiner EXCEPT ![m] = "submit"] /\ ReceiveBlock(b)
    BY <1>5 DEF CheckWork, Unlocked
  <2>2. /\ pcMiner'[m] \in {"start", "submit"} /\ template'[m] = NoTemplate
        /\ \A n \in Miners \ {m} : template'[n] = template[n] /\ pcMiner'[n] = pcMiner[n]
    BY <1>1, <2>1
  <2>3. IInv /\ [Next]_vars /\ ~(nCrashes' > nCrashes)
    BY <2>1, NoCrash DEF ChainInv, Next
  <2>4. ASSUME NEW n \in Miners \ {m} PROVE TemplateInv(n)'
    <3>1. pcMiner[n] = "search" /\ template[n].prev = pindexBest' => template[n].prev = pindexBest
      BY <2>3, StaysStale
    <3>2. TemplateInv(n)
      BY DEF TemplatesInv
    <3> QED
      BY <2>1, <2>2, <3>1, <3>2, TemplateWaits
  <2> QED
    BY <2>2, <2>4, NoTemplateYet DEF TemplatesInv
<1> QED
  BY <1>2, <1>3, <1>4, <1>5 DEF SearchSteps

LEMMA TemplatesStep ==
  ASSUME ChainInv, MInv, TemplatesInv, [MinerNext]_allVars
  PROVE  TemplatesInv'
<1>1. CASE ChainStep
  <2>1. IInv /\ [Next]_vars /\ ~(nCrashes' > nCrashes)
    BY <1>1, NoCrash, MinerStepIsChainStep DEF ChainStep, ChainInv
  <2>2. /\ \A n \in Miners : pcMiner[n] # "fill"
        /\ pcMiner' = pcMiner /\ template' = template
    BY <1>1 DEF ChainStep, minerVars, threadVars
  <2>3. ASSUME NEW n \in Miners PROVE TemplateInv(n)'
    <3>1. pcMiner[n] = "search" /\ template[n].prev = pindexBest' => template[n].prev = pindexBest
      BY <2>1, StaysStale
    <3>2. TemplateInv(n)
      BY DEF TemplatesInv
    <3> QED
      BY <2>2, <3>1, <3>2, TemplateWaits
  <2> QED
    BY <2>3 DEF TemplatesInv
<1>2. CASE Restart
  BY <1>2, NoTemplateYet DEF Restart, TemplatesInv
<1>3. CASE UNCHANGED allVars
  <2>1. pcMiner' = pcMiner /\ template' = template /\ UNCHANGED <<vars, fillVars>>
    BY <1>3 DEF allVars, minerVars, threadVars
  <2>2. pindexBest' = pindexBest
    BY <2>1 DEF vars
  <2> QED
    BY <2>1, <2>2, TemplateWaits, TemplateUndisturbed DEF TemplatesInv
<1> QED
  BY <1>1, <1>2, <1>3, CreateKeepsTemplates, SearchKeepsTemplates DEF MinerNext

LEMMA PooledInvariance == Spec => []PooledInv
<1>1. Init => PooledInv
  BY DEF Init, PoolEmpty, PooledInv
<1>2. PooledInv /\ [Next]_vars => PooledInv'
  BY PooledStep
<1> QED
  BY <1>1, <1>2, PTL DEF Spec

LEMMA TemplatesInvariance ==
  ASSUME DuplicatesStayUnspent
  PROVE  MinerSpec /\ []MemoryMatchesDisk => [](ChainInv /\ MInv /\ TemplatesInv)
<1>1. MinerInit => TemplatesInv
  <2>1. NoTemplate.vtx = <<>> /\ <<>> \in Seq(Tx)
    BY DEF NoTemplate
  <2> QED
    BY <2>1 DEF MinerInit, TemplatesInv, TemplateInv
<1>2. ChainInv /\ MInv /\ TemplatesInv /\ [MinerNext]_allVars => TemplatesInv'
  BY TemplatesStep
<1>3. Spec /\ []MemoryMatchesDisk => []LedgerInv /\ []PoolNotMined
  BY LedgerInvariance, PoolNeverMined, PTL
<1>4. IInv /\ MemoryMatchesDisk /\ LedgerInv /\ PoolNotMined /\ PooledInv => ChainInv
  BY DEF ChainInv
<1> QED
  BY <1>1, <1>2, <1>3, <1>4, MinerInitInv, MinerStep, MinerImplementsBlockChain, Invariance,
     PooledInvariance, PTL DEF MinerSpec

(* However blocks, reorganizations and transactions change the pool and    *)
(* the best block while templates wait for the lock, every transaction     *)
(* CreateNewBlock picks connects after those it picked before: the         *)
(* database and the pool it looks at are those ConnectBlock looks at, and  *)
(* what the pool's own index offers the database still offers.             *)
THEOREM ThreadsSurvive ==
  ASSUME DuplicatesStayUnspent
  PROVE  MinerSpec /\ []MemoryMatchesDisk => []NoThreadDies
<1>1. TemplatesInv => NoThreadDies
  BY DEF TemplatesInv, TemplateInv, NoThreadDies
<1> QED
  BY <1>1, TemplatesInvariance, PTL

-----------------------------------------------------------------------------
(* A block that is found.                                                  *)

\* No coinbase comes twice on a branch: what the height in the coinbase is for.
CoinbasesDiffer ==
  \A b \in Block : \A o, q \in Places(ChainOf[b]) :
    o # q /\ IsCoinBase(At(ChainOf[b], o)) => At(ChainOf[b], o) # At(ChainOf[b], q)

LEMMA DifferentStayUnspent == CoinbasesDiffer => DuplicatesStayUnspent
  BY DEF CoinbasesDiffer, DuplicatesStayUnspent

\* CreateNewBlock adds up the fees one transaction after another.
FeeSteps(step, txs) ==
  /\ step[0] = 0
  /\ \A k \in 1..Len(txs) : step[k] = step[k - 1] + GetValueIn(txs[k]) - GetValueOut(txs[k])
  /\ FeesOf(txs) = step[Len(txs)]

LEMMA FeesOfSteps ==
  ASSUME NEW txs \in Seq(Tx)
  PROVE  \E step : FeeSteps(step, txs)
<1>1. PICK e : e = [op |-> "Fees"]
  OBVIOUS
<1>2. \A acc, t : Folded(e, acc, t) = acc + GetValueIn(t) - GetValueOut(t)
  BY <1>1 DEF Folded
<1>3. \A g : FoldsTo(g, e, 0, txs, Len(txs)) <=>
            g = [X \in SUBSET (1..Len(txs)) |->
                 IF X = {} THEN 0
                 ELSE g[X \ {Max(X)}] + GetValueIn(txs[Max(X)]) - GetValueOut(txs[Max(X)])]
  BY <1>2 DEF FoldsTo
<1>4. PICK g :
        g = CHOOSE h :
            h = [X \in SUBSET (1..Len(txs)) |->
                 IF X = {} THEN 0
                 ELSE h[X \ {Max(X)}] + GetValueIn(txs[Max(X)]) - GetValueOut(txs[Max(X)])]
  OBVIOUS
<1>5. FoldsTo(g, e, 0, txs, Len(txs))
  BY <1>3, <1>4, FoldResult
<1>6. FoldLeft(LAMBDA fees, t : fees + GetValueIn(t) - GetValueOut(t), 0, txs) = g[1..Len(txs)]
  BY <1>4, FoldResult DEF FoldLeft, MapThenFoldSet
<1>7. PICK step : Steps(step, e, 0, txs) /\ g[1..Len(txs)] = step[Len(txs)]
  BY <1>5, FoldSteps
<1>8. FeesOf(txs) = step[Len(txs)]
  BY <1>6, <1>7 DEF FeesOf
<1> QED
  BY <1>2, <1>7, <1>8 DEF Steps, FeeSteps

\* A fold that has failed stays failed.
LEMMA StaysOk ==
  ASSUME NEW old, NEW prev, NEW v, NEW txs \in Seq(Tx), NEW s,
         TemplateSteps(s, old, prev, v, txs), Filled(old, prev, v, txs).ok
  PROVE  \A k \in 0..Len(txs) : "ok" \in DOMAIN s[k] /\ s[k].ok
<1>1. PICK n \in Nat : n = Len(txs)
  OBVIOUS
<1>2. PICK im : im = ImmatureAbove(prev)
  OBVIOUS
<1>3. /\ s[0] = [ok |-> TRUE, idx |-> old, fees |-> 0]
      /\ \A k \in 1..n : s[k] = ConnectTx(old, prev, im, v, s[k - 1], txs[k])
      /\ s[n].ok
  BY <1>1, <1>2 DEF TemplateSteps, Start
<1>4. \A acc, t : "ok" \in DOMAIN acc =>
         /\ "ok" \in DOMAIN ConnectTx(old, prev, im, v, acc, t)
         /\ ~acc.ok => ~ConnectTx(old, prev, im, v, acc, t).ok
  BY DEF ConnectTx
<1>5. \A k \in 0..n : "ok" \in DOMAIN s[k]
  <2> DEFINE Fails == {k \in 0..n : "ok" \notin DOMAIN s[k]}
  <2> SUFFICES ASSUME Fails # {} PROVE FALSE
    OBVIOUS
  <2>1. PICK k \in Fails : \A j \in Fails : k <= j
    <3> Fails \subseteq Nat
      OBVIOUS
    <3> HIDE DEF Fails
    <3> QED
      BY LeastExists
  <2>2. k # 0
    BY <1>3, <2>1
  <2>3. k \in 1..n /\ k - 1 \in 0..n /\ k - 1 < k
    BY <2>1, <2>2
  <2>4. "ok" \in DOMAIN s[k - 1]
    BY <2>1, <2>3
  <2> QED
    BY <1>3, <1>4, <2>1, <2>3, <2>4
<1>6. \A k \in 0..n : s[k].ok
  <2> DEFINE Fails == {k \in 0..n : ~s[k].ok}
  <2> SUFFICES ASSUME Fails # {} PROVE FALSE
    OBVIOUS
  <2>1. PICK k \in Fails : \A j \in Fails : j <= k
    <3> Fails \subseteq 0..n
      OBVIOUS
    <3> HIDE DEF Fails
    <3> QED
      BY GreatestExists
  <2>2. k # n
    BY <1>3, <2>1
  <2>3. k + 1 \in 1..n /\ k + 1 \in 0..n /\ (k + 1) - 1 = k /\ k + 1 > k
    BY <2>1, <2>2
  <2>4. ~s[k + 1].ok
    <3>1. s[k + 1] = ConnectTx(old, prev, im, v, s[k], txs[k + 1])
      BY <1>3, <2>3
    <3> QED
      BY <1>4, <1>5, <2>1, <3>1
  <2> QED
    BY <2>1, <2>3, <2>4
<1> QED
  BY <1>1, <1>5, <1>6

\* The coinbases that are too young in b are b's own and those too young on its parent.
LEMMA ImmatureInChild ==
  ASSUME NEW b \in Block \ {Genesis}
  PROVE  ImmatureBlocks(b) \subseteq ImmatureAbove(hashPrevBlock[b]) \cup {b}
<1>1. PICK prev, c, d, l, mat :
        /\ prev = hashPrevBlock[b] /\ c = ChainOf[b] /\ d = ChainOf[prev]
        /\ l = Len(d) /\ mat = COINBASE_MATURITY
  OBVIOUS
<1>2. /\ prev \in Block /\ l \in Nat \ {0} /\ Len(c) = l + 1 /\ c[l + 1] = b
      /\ \A i \in 1..l : c[i] = d[i]
      /\ mat \in Nat
  BY <1>1, ParentChain, ChainFacts, TxAssumption
<1>3. ASSUME NEW x \in ImmatureBlocks(b), x # b PROVE x \in ImmatureAbove(prev)
  <2>1. PICK i \in 1..l + 1 : x = c[i] /\ (l + 1) - i < mat
    BY <1>1, <1>2 DEF ImmatureBlocks
  <2>2. i \in 1..l /\ x = d[i] /\ l - i < mat
    BY <1>2, <1>3, <2>1
  <2>3. x \in ImmatureBlocks(prev)
    BY <1>1, <2>2 DEF ImmatureBlocks
  <2>4. nHeight(x) = i - 1
    BY <1>1, <1>2, <2>2, PartLength DEF nHeight
  <2>5. nHeight(prev) = l - 1
    BY <1>1 DEF nHeight
  <2>6. nHeight(prev) + 1 - nHeight(x) < mat
    <3>1. (l - 1) + 1 - (i - 1) = (l + 1) - i
      BY <1>2, <2>1
    <3> QED
      BY <2>1, <2>4, <2>5, <3>1
  <2> QED
    BY <1>1, <2>3, <2>6 DEF ImmatureAbove
<1> QED
  BY <1>1, <1>3

\* The block b is the template txs on the best chain, whose index is old.
FoundBlock(b, prev, old, txs, cb, n) ==
  /\ b \in Block \ {Genesis} /\ prev = hashPrevBlock[b] /\ prev \in Block
  /\ old = IndexOf(ChainOf[prev]) /\ SoundChain(ChainOf[prev])
  /\ txs \in Seq(Tx) /\ n \in Nat /\ n = Len(txs) /\ Ready(prev, txs)
  /\ cb \in Tx /\ IsCoinBase(cb) /\ CheckTransaction(cb) /\ b \notin BadBlock
  /\ vtx[b] \in Seq(Tx) /\ Len(vtx[b]) = n + 1 /\ vtx[b][1] = cb
  /\ \A k \in 1..n : vtx[b][k + 1] = txs[k]

LEMMA FoundIsChecked ==
  ASSUME NEW b, NEW prev, NEW old, NEW txs, NEW cb, NEW n, FoundBlock(b, prev, old, txs, cb, n)
  PROVE  CheckBlock(b)
<1>1. /\ n \in Nat /\ n = Len(txs) /\ b \notin BadBlock /\ IsCoinBase(cb) /\ CheckTransaction(cb)
      /\ Len(vtx[b]) = n + 1 /\ vtx[b][1] = cb /\ vtx[b] \in Seq(Tx) /\ txs \in Seq(Tx)
      /\ \A k \in 1..n : vtx[b][k + 1] = txs[k]
  BY DEF FoundBlock
<1>2. PICK u : u = vtx[b]
  OBVIOUS
<1>3. DOMAIN u = 1..n + 1 /\ DOMAIN txs = 1..n /\ u # <<>>
  BY <1>1, <1>2
<1>4. ASSUME NEW i \in 1..n + 1, i # 1 PROVE i - 1 \in 1..n /\ u[i] = txs[i - 1]
  <2>1. i - 1 \in 1..n /\ (i - 1) + 1 = i
    BY <1>1, <1>4
  <2> QED
    BY <1>1, <1>2, <2>1
<1>5. \A k \in 1..n : ~IsCoinBase(txs[k]) /\ CheckTransaction(txs[k])
  BY <1>3 DEF FoundBlock, Ready, ToSet
<1>6. \A i, j \in 1..n : txs[i] = txs[j] => i = j
  BY <1>3 DEF FoundBlock, Ready, Distinct
<1>7. 1 \in 1..n + 1 /\ u[1] = cb
  BY <1>1, <1>2
<1>8. \A i \in 1..n + 1 : (IsCoinBase(u[i]) <=> i = 1) /\ CheckTransaction(u[i])
  BY <1>1, <1>4, <1>5, <1>7
<1>9. ASSUME NEW i \in 1..n + 1, NEW j \in 1..n + 1, u[i] = u[j] PROVE i = j
  <2>1. CASE i = 1 \/ j = 1
    BY <1>8, <1>9, <2>1
  <2>2. CASE i # 1 /\ j # 1
    <3>1. i - 1 \in 1..n /\ j - 1 \in 1..n /\ txs[i - 1] = txs[j - 1]
      BY <1>4, <1>9, <2>2
    <3>2. i - 1 = j - 1
      BY <1>6, <3>1
    <3> QED
      BY <1>1, <3>2
  <2> QED
    BY <2>1, <2>2
<1> QED
  BY <1>1, <1>2, <1>3, <1>8, <1>9 DEF CheckBlock

\* The index on which it is found: the coinbase is not in it, nor b.
LEMMA FoundOnIndex ==
  ASSUME CoinbasesDiffer,
         NEW b \in Block \ {Genesis}, NEW prev, NEW old, NEW txs, NEW cb, NEW n,
         FoundBlock(b, prev, old, txs, cb, n)
  PROVE  /\ cb \notin DOMAIN old
         /\ IsIndex(old, DOMAIN old)
         /\ \A u \in DOMAIN old : old[u].pos # b
<1>1. PICK c, d : c = ChainOf[b] /\ d = ChainOf[prev]
  OBVIOUS
<1>2. /\ b \in Block \ {Genesis} /\ prev = hashPrevBlock[b] /\ prev \in Block
      /\ old = IndexOf(d) /\ SoundChain(d) /\ n \in Nat /\ IsCoinBase(cb)
      /\ Len(vtx[b]) = n + 1 /\ vtx[b][1] = cb
  BY <1>1 DEF FoundBlock
<1>3. Good(d, Places(d))
  BY <1>1, <1>2, SoundIsGood
<1>4. Describes(old, d, Places(d))
  BY <1>2, <1>3, IndexOfDescribes
<1>5. DOMAIN old = TxsAt(d, Places(d)) /\ \A q \in Places(d) : old[At(d, q)].pos = d[q.h]
  BY <1>3, <1>4, IndexTells
<1>6. PICK T : IsIndex(old, T)
  BY <1>4 DEF Describes
<1>7. IsIndex(old, DOMAIN old)
  BY <1>6, EntryShape
<1>8. /\ Len(c) \in Nat /\ Len(c) = Len(d) + 1 /\ Len(d) \in Nat /\ c[Len(c)] = b
      /\ Places(d) \subseteq Places(c)
      /\ \A o \in Places(d) : o.h \in 2..Len(d) /\ c[o.h] = d[o.h] /\ At(c, o) = At(d, o)
  <2>1. c = ChainOf[b] /\ d = ChainOf[hashPrevBlock[b]]
    BY <1>1, <1>2
  <2>2. Len(c) \in Nat /\ Len(c) = Len(d) + 1 /\ c[Len(c)] = b
    BY <2>1, OldPlaces
  <2>3. Len(d) \in Nat /\ Places(d) \subseteq Places(c)
    BY <2>1, OldPlaces
  <2>4. \A o \in Places(d) : o.h \in 2..Len(d) /\ c[o.h] = d[o.h] /\ At(c, o) = At(d, o)
    BY <2>1, OldPlaces
  <2> QED
    BY <2>2, <2>3, <2>4
<1>9. PICK o : /\ o = OwnPlace(b, 1) /\ o \in Places(c) /\ At(c, o) = cb /\ o.h = Len(c)
  <2>1. 1 \in 1..Len(vtx[b])
    BY <1>2
  <2> QED
    BY <1>1, <1>2, <2>1, NewPlaces
<1>10. cb \notin DOMAIN old
  <2> SUFFICES ASSUME cb \in DOMAIN old PROVE FALSE
    OBVIOUS
  <2>1. PICK q \in Places(d) : cb = At(d, q)
    BY <1>5 DEF TxsAt
  <2>2. q \in Places(c) /\ At(c, q) = cb /\ q # o
    BY <1>8, <1>9, <2>1
  <2> QED
    BY <1>1, <1>2, <1>9, <2>2 DEF CoinbasesDiffer
<1>11. ASSUME NEW u \in DOMAIN old PROVE old[u].pos # b
  <2>1. PICK q \in Places(d) : u = At(d, q)
    BY <1>5 DEF TxsAt
  <2>2. old[u].pos = c[q.h] /\ q.h \in 1..Len(c) /\ q.h # Len(c)
    BY <1>5, <1>8, <2>1
  <2>3. Len(c) \in 1..Len(c)
    BY <1>8
  <2>4. c[q.h] # c[Len(c)]
    BY <1>1, <1>2, <2>2, <2>3, BlocksDiffer
  <2> QED
    BY <1>8, <2>2, <2>4
<1> QED
  BY <1>7, <1>10, <1>11

\* A template with a coinbase in front connects as the template does.
LEMMA FoundConnects ==
  ASSUME CoinbasesDiffer,
         NEW b \in Block \ {Genesis}, NEW prev, NEW old, NEW txs, NEW cb, NEW n,
         FoundBlock(b, prev, old, txs, cb, n), NEW v \in BOOLEAN,
         GetValueOut(cb) = GetBlockValue(nHeight(b), FeesOf(txs))
  PROVE  ConnectBlock([ok |-> TRUE, idx |-> old], b, v).ok
<1>1. PICK r, am, im : /\ r = [ok |-> TRUE, idx |-> old]
                       /\ am = ImmatureAbove(prev) /\ im = ImmatureBlocks(b)
  OBVIOUS
<1>0. r.ok = TRUE /\ r.idx = old
  BY <1>1
<1>2. /\ prev = hashPrevBlock[b] /\ prev \in Block /\ old = IndexOf(ChainOf[prev])
      /\ txs \in Seq(Tx) /\ n \in Nat /\ n = Len(txs) /\ Ready(prev, txs)
      /\ cb \in Tx /\ IsCoinBase(cb) /\ Len(vtx[b]) = n + 1 /\ vtx[b][1] = cb
      /\ \A k \in 1..n : vtx[b][k + 1] = txs[k]
  BY DEF FoundBlock
<1>3. CheckBlock(b)
  BY FoundIsChecked
<1>4. /\ cb \notin DOMAIN old /\ IsIndex(old, DOMAIN old)
      /\ \A u \in DOMAIN old : old[u].pos # b
  BY FoundOnIndex
<1>5. PICK s : TemplateSteps(s, old, prev, v, txs)
  BY <1>2, FilledSteps
<1>6. PICK f : FeeSteps(f, txs)
  BY <1>2, FeesOfSteps
<1>7. PICK x : TxSteps(x, r, b, v)
  BY ConnectBlockSteps
<1>8. /\ s[0] = [ok |-> TRUE, idx |-> old, fees |-> 0]
      /\ \A k \in 1..n : s[k] = ConnectTx(old, prev, am, v, s[k - 1], txs[k])
  BY <1>1, <1>2, <1>5 DEF TemplateSteps, Start
<1>9. \A k \in 0..n : "ok" \in DOMAIN s[k] /\ s[k].ok
  <2>1. Filled(old, prev, v, txs).ok
    BY <1>2 DEF Ready
  <2> QED
    BY <1>2, <1>5, <2>1, StaysOk
<1>10. /\ f[0] = 0 /\ f[n] = FeesOf(txs)
       /\ \A k \in 1..n : f[k] = f[k - 1] + GetValueIn(txs[k]) - GetValueOut(txs[k])
  BY <1>2, <1>6 DEF FeeSteps
<1>11. /\ x[0] = [ok |-> TRUE, idx |-> old, fees |-> 0]
       /\ x[1] = ConnectTx(old, b, im, v, x[0], cb)
       /\ \A k \in 1..n : x[k + 1] = ConnectTx(old, b, im, v, x[k], txs[k])
       /\ ConnectBlock(r, b, v).ok = (x[n + 1].ok /\ ~CoinbasePaysTooMuch(b, x[n + 1].fees))
  <2>1. /\ x[0] = [ok |-> TRUE, idx |-> old, fees |-> 0]
        /\ \A k \in 1..n + 1 : x[k] = ConnectTx(old, b, im, v, x[k - 1], vtx[b][k])
        /\ ConnectBlock(r, b, v)
             = [ok  |-> x[n + 1].ok /\ ~CoinbasePaysTooMuch(b, x[n + 1].fees),
                idx |-> x[n + 1].idx]
    BY <1>0, <1>1, <1>2, <1>3, <1>7 DEF TxSteps
  <2>2. x[1] = ConnectTx(old, b, im, v, x[0], cb)
    <3>1. 1 \in 1..n + 1 /\ 1 - 1 = 0
      BY <1>2
    <3> QED
      BY <1>2, <2>1, <3>1
  <2>3. ASSUME NEW k \in 1..n PROVE x[k + 1] = ConnectTx(old, b, im, v, x[k], txs[k])
    <3>1. k + 1 \in 1..n + 1 /\ (k + 1) - 1 = k
      BY <1>2
    <3> QED
      BY <1>2, <2>1, <3>1
  <2> QED
    BY <2>1, <2>2, <2>3
<1>12. b \in Holder /\ prev \in Holder /\ prev # Null
  BY <1>2, BlockAssumption DEF Holder
<1>13. x[1].ok /\ x[1].idx = Added(old, cb, b, b) /\ x[1].fees = 0
  <2>1. ~Overwrites(old, cb)
    BY <1>4 DEF Overwrites
  <2>2. FetchInputs(old, cb)
    BY <1>2 DEF IsCoinBase, FetchInputs, InputsFound
  <2> QED
    BY <1>2, <1>11, <2>1, <2>2 DEF ConnectTx, Added
<1> DEFINE Alike(k) ==
      /\ x[k + 1].ok /\ Sees(x[k + 1].idx, s[k].idx)
      /\ x[k + 1].fees = f[k] /\ s[k].fees = f[k]
      /\ \A u \in DOMAIN s[k].idx : IsCoinBase(u) => s[k].idx[u].pos # b
<1>14. Alike(0)
  <2>1. PICK w, D : w = Added(old, cb, b, b) /\ D = DOMAIN old
    OBVIOUS
  <2>2. Gains(w, old, D, cb, b, b)
    BY <1>4, <1>12, <2>1, EntryAdded
  <2>3. DOMAIN w = D \cup {cb}
    <3>1. IsIndex(w, D \cup {cb})
      BY <2>2 DEF Gains
    <3> QED
      BY <3>1, EntryShape
  <2>4. \A u \in D : /\ w[u].pos = old[u].pos
                     /\ \A m \in DOMAIN vout[u] : w[u].vSpent[m] = old[u].vSpent[m]
    BY <1>2, <1>4, <2>1, <2>2 DEF Gains, IsCoinBase
  <2>5. IsIndex(w, DOMAIN w)
    BY <2>2, <2>3 DEF Gains
  <2>6. Sees(w, old)
    BY <1>4, <2>1, <2>3, <2>4, <2>5 DEF Sees
  <2>7. s[0].idx = old /\ s[0].fees = 0 /\ 0 + 1 = 1
    BY <1>8
  <2> QED
    BY <1>4, <1>10, <1>13, <2>1, <2>6, <2>7
<1>15. ASSUME NEW k \in 1..n, Alike(k - 1) PROVE Alike(k)
  <2>1. PICK y, z, p, q, t : /\ y = s[k - 1] /\ z = x[k] /\ p = s[k] /\ q = x[k + 1]
                             /\ t = txs[k]
    OBVIOUS
  <2>2. k \in 0..n /\ k - 1 \in 0..n /\ (k - 1) + 1 = k
    BY <1>2
  <2>3. /\ z.ok /\ Sees(z.idx, y.idx) /\ z.fees = f[k - 1] /\ y.fees = f[k - 1]
        /\ \A u \in DOMAIN y.idx : IsCoinBase(u) => y.idx[u].pos # b
    BY <1>15, <2>1, <2>2
  <2>4. /\ p = ConnectTx(old, prev, am, v, y, t) /\ q = ConnectTx(old, b, im, v, z, t)
        /\ f[k] = f[k - 1] + GetValueIn(t) - GetValueOut(t)
        /\ p.ok /\ y.ok /\ "ok" \in DOMAIN y
    BY <1>8, <1>9, <1>10, <1>11, <2>1, <2>2
  <2>5. ~IsCoinBase(t)
    <3>1. t \in ToSet(txs)
      BY <1>2, <2>1 DEF ToSet
    <3> QED
      BY <1>2, <3>1 DEF Ready
  <2>6. /\ ~Overwrites(old, t) /\ FetchInputs(y.idx, t) /\ ConnectInputs(y.idx, t, am, v)
        /\ p.idx = Added(y.idx, t, prev, prev)
        /\ p.fees = y.fees + GetValueIn(t) - GetValueOut(t)
    BY <2>4, <2>5, ConnectTxPasses DEF Added
  <2>7. PICK i, j : i = z.idx /\ j = y.idx
    OBVIOUS
  <2>8. FetchInputs(i, t) /\ ConnectInputs(i, t, im, v)
    <3>1. Sees(i, j) /\ FetchInputs(j, t) /\ ConnectInputs(j, t, am, v)
      BY <2>3, <2>6, <2>7
    <3>2. \A o \in vin[t] : IsCoinBase(o.hash) /\ j[o.hash].pos \notin am
                              => j[o.hash].pos \notin im
      <4>1. \A o \in vin[t] : o.hash \in DOMAIN j
        BY <3>1 DEF FetchInputs, InputsFound
      <4>2. im \subseteq am \cup {b}
        BY <1>1, <1>2, ImmatureInChild
      <4> QED
        BY <2>3, <2>7, <4>1, <4>2
    <3>3. v => v
      OBVIOUS
    <3> QED
      BY <3>1, <3>2, <3>3, SeesPasses
  <2>9. /\ q.ok /\ q.idx = Added(i, t, b, b)
        /\ q.fees = z.fees + GetValueIn(t) - GetValueOut(t)
    BY <2>3, <2>4, <2>5, <2>6, <2>7, <2>8, ConnectTxPasses DEF Added
  <2>10. Sees(q.idx, p.idx)
    <3>1. Sees(i, j) /\ q.idx = Added(i, t, b, b) /\ p.idx = Added(j, t, prev, prev)
      BY <2>3, <2>6, <2>7, <2>9
    <3>2. Sees(Added(i, t, b, b), Added(j, t, prev, prev))
      BY <1>12, <2>5, <3>1, SeesAdded
    <3> QED
      BY <3>1, <3>2
  <2>11. q.fees = f[k] /\ p.fees = f[k]
    BY <2>3, <2>4, <2>6, <2>9
  <2>12. \A u \in DOMAIN p.idx : IsCoinBase(u) => p.idx[u].pos # b
    <3>1. PICK w, D : w = p.idx /\ D = DOMAIN j
      OBVIOUS
    <3>2. IsIndex(j, D) /\ w = Added(j, t, prev, prev)
      BY <2>3, <2>6, <2>7, <3>1 DEF Sees
    <3>3. Gains(w, j, D, t, prev, prev)
      BY <1>12, <3>2, EntryAdded
    <3>4. DOMAIN w = D \cup {t}
      <4>1. IsIndex(w, D \cup {t})
        BY <3>3 DEF Gains
      <4> QED
        BY <4>1, EntryShape
    <3>5. \A u \in D \ {t} : w[u].pos = j[u].pos
      BY <3>3 DEF Gains
    <3> QED
      BY <2>3, <2>5, <2>7, <3>1, <3>4, <3>5
  <2> QED
    BY <2>1, <2>9, <2>10, <2>11, <2>12
<1>16. Alike(n)
  <2> DEFINE Fails == {k \in 0..n : ~Alike(k)}
  <2> SUFFICES ASSUME Fails # {} PROVE FALSE
    BY <1>2
  <2> HIDE DEF Alike
  <2>1. PICK k \in Fails : \A j \in Fails : k <= j
    <3> Fails \subseteq Nat
      BY <1>2
    <3> HIDE DEF Fails
    <3> QED
      BY LeastExists
  <2>2. k # 0
    BY <1>14, <2>1
  <2>3. k \in 1..n /\ k - 1 \in 0..n /\ k - 1 < k
    BY <1>2, <2>1, <2>2
  <2>4. Alike(k - 1)
    BY <2>1, <2>3
  <2> QED
    BY <1>15, <2>1, <2>3, <2>4
<1>17. x[n + 1].ok /\ x[n + 1].fees = FeesOf(txs)
  BY <1>10, <1>16
<1>18. ~CoinbasePaysTooMuch(b, x[n + 1].fees)
  <2>1. PICK g \in Int : g = GetValueOut(cb)
    BY <1>2, ValuesAreInt
  <2>2. GetBlockValue(nHeight(b), x[n + 1].fees) = g
    BY <1>17, <2>1
  <2> QED
    BY <1>2, <2>1, <2>2 DEF CoinbasePaysTooMuch
<1> QED
  BY <1>1, <1>11, <1>17, <1>18

LEMMA FoundIsTemplate ==
  ASSUME ChainInv, MInv, TemplatesInv, pc = "idle",
         NEW m \in Miners, NEW b \in Block \ {Genesis},
         pcMiner[m] = "search", ~IsStale(m), MinedAs(m, b)
  PROVE  FoundBlock(b, template[m].prev, dbTx, template[m].vtx, vtx[b][1], Len(template[m].vtx))
<1>1. PICK prev, txs, cb : prev = template[m].prev /\ txs = template[m].vtx /\ cb = vtx[b][1]
  OBVIOUS
<1>2. PICK u : u = vtx[b]
  OBVIOUS
<1>3. /\ hashPrevBlock[b] = prev /\ b \notin BadBlock
      /\ u # <<>> /\ cb = u[1] /\ IsCoinBase(cb) /\ CheckTransaction(cb) /\ Tail(u) = txs
  BY <1>1, <1>2 DEF MinedAs, StartsWithCoinBase
<1>4. u \in Seq(Tx) /\ prev \in Block
  BY <1>2, <1>3, BlockAssumption, ParentChain
<1>5. prev = dbBest
  <2>1. dbBest = pindexBest
    BY DEF ChainInv, MemoryMatchesDisk
  <2> QED
    BY <1>1, <2>1 DEF IsStale
<1>6. dbTx = IndexOf(ChainOf[prev]) /\ SoundChain(ChainOf[prev])
  BY <1>5 DEF ChainInv, LedgerInv, LedgerMatchesChain
<1>7. txs \in Seq(Tx) /\ Ready(prev, txs)
  <2>1. TemplateInv(m)
    BY DEF TemplatesInv
  <2>2. prev = pindexBest
    BY <1>1 DEF IsStale
  <2> QED
    BY <1>1, <2>1, <2>2 DEF TemplateInv
<1>8. PICK n \in Nat : n = Len(txs)
  BY <1>7
<1>9. Len(u) = n + 1 /\ \A k \in 1..n : u[k + 1] = txs[k]
  BY <1>3, <1>4, <1>8
<1>10. cb \in Tx
  BY <1>3, <1>4
<1>11. FoundBlock(b, prev, dbTx, txs, cb, n)
  BY <1>2, <1>3, <1>4, <1>6, <1>7, <1>8, <1>9, <1>10 DEF FoundBlock
<1> QED
  BY <1>1, <1>8, <1>11

(* A block that is found on the best chain connects: its transactions      *)
(* connected when the template was made, to the same index, and with the   *)
(* coinbase in front of them they connect again, the coinbases that are    *)
(* too young being the template's and the new one; the coinbase is paid    *)
(* what CreateNewBlock added up.  A coinbase that the branch already has   *)
(* would overwrite another one.                                            *)
THEOREM MinedBlocksConnect ==
  ASSUME CoinbasesDiffer
  PROVE  MinerSpec /\ []MemoryMatchesDisk => []MinedBlockConnects
<1>1. ChainInv /\ MInv /\ TemplatesInv => MinedBlockConnects
  <2> SUFFICES ASSUME ChainInv, MInv, TemplatesInv, pc = "idle",
                      NEW m \in Miners, NEW b \in Block \ {Genesis},
                      pcMiner[m] = "search", ~IsStale(m), MinedAs(m, b)
               PROVE  ConnectBlock([ok |-> TRUE, idx |-> dbTx], b, fVerify).ok
    BY DEF MinedBlockConnects
  <2>1. FoundBlock(b, template[m].prev, dbTx, template[m].vtx, vtx[b][1], Len(template[m].vtx))
    BY FoundIsTemplate
  <2>2. GetValueOut(vtx[b][1]) = GetBlockValue(nHeight(b), FeesOf(template[m].vtx))
    BY DEF MinedAs
  <2>3. fVerify \in BOOLEAN
    BY DEF fVerify
  <2> QED
    BY <2>1, <2>2, <2>3, FoundConnects
<1>2. MinerSpec /\ []MemoryMatchesDisk => [](ChainInv /\ MInv /\ TemplatesInv)
  BY DifferentStayUnspent, TemplatesInvariance
<1> QED
  BY <1>1, <1>2, PTL

=============================================================================
