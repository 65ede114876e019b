-------------------------- MODULE OrphanTx_proofs --------------------------
(***************************************************************************)
(* Safety of the orphan transactions, for every block tree, every set of   *)
(* transactions and every limit on the orphans, and the proof that the     *)
(* node with orphan transactions implements BlockChain, so that what       *)
(* BlockChain_proofs shows holds of it too.                                *)
(***************************************************************************)
EXTENDS OrphanTx, BlockChain_proofs, FiniteSetTheorems

-----------------------------------------------------------------------------
(* The inductive invariant.                                                *)

\* The two maps hold the same pairs of a parent and an orphan.
Agree(held, byPrev) ==
  \A h, t \in Tx : t \in Waiters(byPrev, h) <=> t \in held /\ h \in PrevHashes(t)

OInv ==
  /\ OrphanTxTypeOK
  /\ IsFiniteSet(mapOrphanTransactions)
  /\ OrphanTxMapsAgree
  /\ OrphanTxsBounded
  /\ pcTx = "work" => pc = "idle"

-----------------------------------------------------------------------------
(* The operations on the maps.                                             *)

LEMMA PrevHashesAreTx ==
  ASSUME NEW t \in Tx
  PROVE  PrevHashes(t) \subseteq Tx
  BY TxAssumption DEF PrevHashes, OutPoint

\* AddOrphanTx enters t under each of its parents, and nothing else.
LEMMA AddKeepsAgreement ==
  ASSUME OrphanTxMapsAgree, NEW t \in Tx
  PROVE  Agree(HeldWith(t), ByPrevWith(t))
<1> SUFFICES ASSUME NEW h \in Tx, NEW u \in Tx
             PROVE  u \in Waiters(ByPrevWith(t), h) <=> u \in HeldWith(t) /\ h \in PrevHashes(u)
  BY DEF Agree
<1>1. u \in Waiters(mapOrphanTransactionsByPrev, h)
        <=> u \in mapOrphanTransactions /\ h \in PrevHashes(u)
  BY DEF OrphanTxMapsAgree
<1>2. u \in Waiters(ByPrevWith(t), h)
        <=> u \in Waiters(mapOrphanTransactionsByPrev, h) \/ (h \in PrevHashes(t) /\ u = t)
  BY DEF Waiters, ByPrevWith
<1> QED
  BY <1>1, <1>2 DEF HeldWith

\* EraseOrphanTx takes a transaction from under each of its parents, and no
\* other one: a key only goes when no orphan is left under it.
LEMMA EraseKeepsAgreement ==
  ASSUME NEW held, NEW byPrev, NEW S, Agree(held, byPrev)
  PROVE  Agree(held \ S, ByPrevErased(held, byPrev, S))
<1> DEFINE touched == UNION {PrevHashes(t) : t \in S \cap held}
<1> SUFFICES ASSUME NEW h \in Tx, NEW u \in Tx
             PROVE  u \in Waiters(ByPrevErased(held, byPrev, S), h)
                      <=> u \in held \ S /\ h \in PrevHashes(u)
  BY DEF Agree
<1>1. u \in Waiters(byPrev, h) <=> u \in held /\ h \in PrevHashes(u)
  BY DEF Agree
<1>2. u \in Waiters(ByPrevErased(held, byPrev, S), h)
        <=> u \in Waiters(byPrev, h) /\ (h \in touched => u \notin S)
  BY DEF Waiters, ByPrevErased
<1>3. u \in held /\ u \in S /\ h \in PrevHashes(u) => h \in touched
  OBVIOUS
<1> QED
  BY <1>1, <1>2, <1>3

\* LimitOrphanTxSize leaves no more than the limit.
LEMMA EvictionKeepsBound ==
  ASSUME NEW held, IsFiniteSet(held),
         NEW evicted \in kSubset(Surplus(Cardinality(held)), held)
  PROVE  /\ IsFiniteSet(held \ evicted)
         /\ Cardinality(held \ evicted) <= MAX_ORPHAN_TRANSACTIONS
<1>1. evicted \subseteq held /\ Cardinality(evicted) = Surplus(Cardinality(held))
  BY DEF kSubset
<1>2. /\ IsFiniteSet(held \ evicted)
      /\ Cardinality(held \ evicted) = Cardinality(held) - Cardinality(held \cap evicted)
  BY FS_Difference, Zenon
<1>3. held \cap evicted = evicted
  BY <1>1
<1>4. Cardinality(held \ evicted) = Cardinality(held) - Surplus(Cardinality(held))
  BY <1>1, <1>2, <1>3
<1>5. Cardinality(held) \in Nat
  BY FS_CardinalityType
<1>6. \A n \in Nat : n - Surplus(n) <= MAX_ORPHAN_TRANSACTIONS
  BY OrphanTxAssumption DEF Surplus
<1> QED
  BY <1>2, <1>4, <1>5, <1>6

-----------------------------------------------------------------------------
LEMMA OrphanTxInitInv == OrphanTxInit => OInv
<1> SUFFICES ASSUME OrphanTxInit PROVE OInv
  OBVIOUS
<1>1. mapOrphanTransactions = {} /\ DOMAIN mapOrphanTransactionsByPrev = {}
  BY DEF OrphanTxInit
<1>2. IsFiniteSet(mapOrphanTransactions) /\ Cardinality(mapOrphanTransactions) = 0
  BY <1>1, FS_EmptySet
<1>3. OrphanTxMapsAgree
  BY <1>1 DEF OrphanTxMapsAgree, Waiters
<1>4. OrphanTxsBounded
  BY <1>2, OrphanTxAssumption DEF OrphanTxsBounded
<1> QED
  BY <1>1, <1>2, <1>3, <1>4 DEF OrphanTxInit, OInv, OrphanTxTypeOK

\* A transaction without its parents is held, or evicts another one.
LEMMA HoldTxStep ==
  ASSUME OInv, NEW t \in LooseTx, HoldTx(t)
  PROVE  OInv'
<1>1. pc' = pc
  BY DEF HoldTx, vars
<1>2. CASE UNCHANGED orphanMaps
  BY <1>1, <1>2
  DEF OInv, OrphanTxTypeOK, HoldTx, orphanMaps, OrphanTxMapsAgree, OrphanTxsBounded, Waiters
<1>3. ASSUME NEW evicted \in kSubset(Surplus(Cardinality(HeldWith(t))), HeldWith(t)),
             mapOrphanTransactions' = HeldWith(t) \ evicted,
             mapOrphanTransactionsByPrev' =
               ByPrevErased(HeldWith(t), ByPrevWith(t), evicted)
      PROVE  OInv'
  <2>1. t \in Tx /\ LooseTx \subseteq Tx
    BY BoundAssumption
  <2>2. IsFiniteSet(HeldWith(t)) /\ HeldWith(t) \subseteq LooseTx
    BY FS_AddElement DEF OInv, OrphanTxTypeOK, HeldWith
  <2>3. IsFiniteSet(mapOrphanTransactions') /\ OrphanTxsBounded'
    BY <1>3, <2>2, EvictionKeepsBound DEF OrphanTxsBounded
  <2>4. OrphanTxMapsAgree'
    BY <1>3, <2>1, AddKeepsAgreement, EraseKeepsAgreement
    DEF OInv, OrphanTxMapsAgree, Agree
  <2>5. /\ DOMAIN ByPrevWith(t) \subseteq Tx
        /\ \A h \in DOMAIN ByPrevWith(t) : ByPrevWith(t)[h] \subseteq LooseTx
    BY <2>1, PrevHashesAreTx DEF OInv, OrphanTxTypeOK, ByPrevWith, Waiters
  <2>6. /\ DOMAIN mapOrphanTransactionsByPrev' \subseteq Tx
        /\ \A h \in DOMAIN mapOrphanTransactionsByPrev' :
             mapOrphanTransactionsByPrev'[h] \subseteq LooseTx
    BY <1>3, <2>5 DEF ByPrevErased
  <2> QED
    BY <1>1, <1>3, <2>2, <2>3, <2>4, <2>6 DEF OInv, OrphanTxTypeOK, HoldTx
<1> QED
  BY <1>2, <1>3 DEF HoldTx, AddOrphanTx

\* Looking up the orphans of a transaction may add an empty key.
LEMMA NextInQueueStep ==
  ASSUME OInv, NextInQueue
  PROVE  OInv'
<1>1. /\ vTxQueue \in Seq(LooseTx) /\ LooseTx \subseteq Tx
      /\ iTx \in DOMAIN vTxQueue /\ iTx \in Nat
  BY BoundAssumption DEF OInv, OrphanTxTypeOK, NextInQueue
<1>2. vTxQueue[iTx] \in LooseTx /\ iTx' \in 1..Len(vTxQueue') + 1
  BY <1>1 DEF NextInQueue
<1>3. \A h : Waiters(mapOrphanTransactionsByPrev', h) = Waiters(mapOrphanTransactionsByPrev, h)
  BY DEF NextInQueue, Waiters
<1>4. OrphanTxMapsAgree' /\ OrphanTxsBounded'
  BY <1>3 DEF OInv, NextInQueue, OrphanTxMapsAgree, OrphanTxsBounded
<1>5. \A h : Waiters(mapOrphanTransactionsByPrev, h) \subseteq LooseTx
  BY DEF OInv, OrphanTxTypeOK, Waiters
<1>6. /\ DOMAIN mapOrphanTransactionsByPrev' \subseteq Tx
      /\ \A h \in DOMAIN mapOrphanTransactionsByPrev' :
           mapOrphanTransactionsByPrev'[h] \subseteq LooseTx
  BY <1>1, <1>2, <1>5 DEF OInv, OrphanTxTypeOK, NextInQueue
<1>7. vToTry' \subseteq LooseTx
  BY <1>5 DEF NextInQueue
<1> QED
  BY <1>2, <1>4, <1>6, <1>7 DEF OInv, OrphanTxTypeOK, NextInQueue, vars

LEMMA EraseOrphanTxsStep ==
  ASSUME OInv, EraseOrphanTxs
  PROVE  OInv'
<1>1. OrphanTxMapsAgree'
  BY EraseKeepsAgreement DEF OInv, EraseOrphanTxs, OrphanTxMapsAgree, Agree
<1>2. IsFiniteSet(mapOrphanTransactions') /\ OrphanTxsBounded'
  <2>1. mapOrphanTransactions' \in SUBSET mapOrphanTransactions
    BY DEF EraseOrphanTxs
  <2>2. /\ IsFiniteSet(mapOrphanTransactions')
        /\ Cardinality(mapOrphanTransactions') <= Cardinality(mapOrphanTransactions)
    BY <2>1, FS_Subset DEF OInv
  <2>3. Cardinality(mapOrphanTransactions) \in Nat /\ Cardinality(mapOrphanTransactions') \in Nat
    BY <2>2, FS_CardinalityType DEF OInv
  <2> QED
    BY <2>2, <2>3, OrphanTxAssumption DEF OInv, OrphanTxsBounded
<1>3. /\ DOMAIN mapOrphanTransactionsByPrev' \subseteq Tx
      /\ \A h \in DOMAIN mapOrphanTransactionsByPrev' :
           mapOrphanTransactionsByPrev'[h] \subseteq LooseTx
  BY DEF OInv, OrphanTxTypeOK, EraseOrphanTxs, ByPrevErased
<1> QED
  BY <1>1, <1>2, <1>3 DEF OInv, OrphanTxTypeOK, EraseOrphanTxs, vars

LEMMA OrphanTxStep == OInv /\ [OrphanTxNext]_allVars => OInv'
<1> SUFFICES ASSUME OInv, [OrphanTxNext]_allVars PROVE OInv'
  OBVIOUS
<1> USE DEF OInv, OrphanTxTypeOK, OrphanTxMapsAgree, OrphanTxsBounded
<1>1. ASSUME NEW t \in LooseTx, AcceptTx(t) PROVE OInv'
  BY <1>1 DEF AcceptTx, Idle, chainVars, orphanMaps
<1>2. ASSUME NEW t \in LooseTx, HoldTx(t) PROVE OInv'
  BY <1>2, HoldTxStep
<1>3. ASSUME NEW t \in vToTry, AcceptOrphanTx(t) PROVE OInv'
  BY <1>3 DEF AcceptOrphanTx, Enqueue, chainVars, orphanMaps
<1>4. ASSUME NEW t \in vToTry, KeepOrphanTx(t) \/ RejectOrphanTx(t) PROVE OInv'
  BY <1>4 DEF KeepOrphanTx, RejectOrphanTx, vars, orphanMaps
<1>5. CASE ChainStep
  BY <1>5 DEF ChainStep, orphanTxVars, orphanMaps
<1>6. CASE Restart
  <2>1. pc' = "idle"
    BY <1>6 DEF Restart, CrashRestart
  <2>2. /\ mapOrphanTransactions' = {} /\ vToTry' = {} /\ vTxQueue' = <<>> /\ pcTx' = "idle"
        /\ DOMAIN mapOrphanTransactionsByPrev' = {} /\ iTx' = 1 /\ vEraseQueue' = {}
    BY <1>6 DEF Restart
  <2>3. IsFiniteSet(mapOrphanTransactions') /\ Cardinality(mapOrphanTransactions') = 0
    BY <2>2, FS_EmptySet
  <2> QED
    BY <2>1, <2>2, <2>3, OrphanTxAssumption DEF Waiters
<1>7. CASE UNCHANGED allVars
  BY <1>7 DEF allVars, vars, orphanTxVars, orphanMaps
<1> QED
  BY <1>1, <1>2, <1>3, <1>4, <1>5, <1>6, <1>7, NextInQueueStep, EraseOrphanTxsStep
  DEF OrphanTxNext, TxHandlerStep, ReceiveTx, RefuseTx

THEOREM OrphanTxInvariance == OrphanTxSpec => []OInv
  BY OrphanTxInitInv, OrphanTxStep, PTL DEF OrphanTxSpec

(* Whatever transactions, blocks and restarts come, the two orphan         *)
(* transaction maps agree, so that EraseOrphanTx frees no message that one *)
(* of them still points at.                                                *)
THEOREM OrphanTxMapsConsistent == OrphanTxSpec => []OrphanTxMapsAgree
<1>1. OInv => OrphanTxMapsAgree
  BY DEF OInv
<1> QED
  BY <1>1, OrphanTxInvariance, PTL

(* The orphan transactions never exceed MAX_ORPHAN_TRANSACTIONS, for every *)
(* such limit.                                                             *)
THEOREM OrphanTxsStayBounded == OrphanTxSpec => []OrphanTxsBounded
<1>1. OInv => OrphanTxsBounded
  BY DEF OInv
<1> QED
  BY <1>1, OrphanTxInvariance, PTL

-----------------------------------------------------------------------------
(* What the handler does with the orphans it tries.                        *)

Found(t) == InputsFound(InputView(dbTx, mapTx), t)

\* The orphans of t are still to be looked up.
ToLookUp(t) == \E i \in iTx..Len(vTxQueue) : vTxQueue[i] = t

\* What is to be erased does not wait for a parent; and an orphan that has its
\* inputs thanks to an accepted transaction will be tried, or has been.
TriedInv ==
  /\ \A t \in vEraseQueue : ~MissingInputs(t)
  /\ pcTx = "work" =>
       \A t \in mapOrphanTransactions \ vEraseQueue :
         /\ PrevHashes(t) \cap ToSet(vTxQueue) # {}
         /\ Found(t)
         => t \in vToTry \/ \E h \in PrevHashes(t) : ToLookUp(h)

\* One more transaction in the pool: inputs stay found, a conflict stays, and an
\* input is only found now if the transaction holds it.
LEMMA PoolGrows ==
  ASSUME NEW t, AcceptLoose(dbTx, pindexBest, t), dbTx' = dbTx, mapTx \subseteq Tx, t \in Tx
  PROVE  \A u \in Tx :
           /\ Found(u) => Found(u)'
           /\ Found(u)' => Found(u) \/ t \in PrevHashes(u)
           /\ Admissible(u)' => Admissible(u)
           /\ ~Admissible(t)'
<1> SUFFICES ASSUME NEW u \in Tx
             PROVE  /\ Found(u) => Found(u)'
                    /\ Found(u)' => Found(u) \/ t \in PrevHashes(u)
                    /\ Admissible(u)' => Admissible(u)
                    /\ ~Admissible(t)'
  OBVIOUS
<1>1. /\ mapTx' = mapTx \cup {t}
      /\ mapNextTx' = [p \in OutPoint |-> IF p \in vin[t] THEN t ELSE mapNextTx[p]]
  BY DEF AcceptLoose, addUnchecked
<1>2. Found(u) <=> \A p \in vin[u] : p.hash \in DOMAIN dbTx \cup mapTx
  BY DEF Found, InputsFound, InputView
<1>3. Found(u)' <=> \A p \in vin[u] : p.hash \in DOMAIN dbTx \cup mapTx \cup {t}
  BY <1>1 DEF Found, InputsFound, InputView
<1>4. Conflicts(u) => Conflicts(u)'
  BY <1>1, TxAssumption DEF Conflicts, OutPoint
<1>5. Admissible(u)' => Admissible(u)
  BY <1>1, <1>4 DEF Admissible
<1>6. ~Admissible(t)'
  BY <1>1 DEF Admissible
<1> QED
  BY <1>2, <1>3, <1>5, <1>6 DEF PrevHashes

LEMMA AcceptTxTried ==
  ASSUME OInv, NEW t \in LooseTx, AcceptTx(t)
  PROVE  TriedInv'
<1>1. /\ vTxQueue' = <<t>> /\ iTx' = 1 /\ vEraseQueue' = {t} /\ t \in Tx
  BY BoundAssumption DEF OInv, OrphanTxTypeOK, AcceptTx, Idle
<1>2. ~Admissible(t)'
  BY DEF AcceptTx, AcceptLoose, addUnchecked, Admissible
<1>3. ToLookUp(t)'
  BY <1>1 DEF ToLookUp
<1>4. ToSet(vTxQueue') = {t}
  BY <1>1 DEF ToSet
<1> QED
  BY <1>1, <1>2, <1>3, <1>4 DEF TriedInv, MissingInputs

\* The orphans under the hash looked up are tried now, those under the next ones
\* of the queue later.
LEMMA NextInQueueTried ==
  ASSUME OInv, TriedInv, NextInQueue
  PROVE  TriedInv'
<1>1. \A t : (MissingInputs(t)' <=> MissingInputs(t)) /\ (Found(t)' <=> Found(t))
  BY DEF NextInQueue, vars, MissingInputs, Found, Admissible, Conflicts, InputsFound, InputView
<1>2. ASSUME NEW t \in mapOrphanTransactions \ vEraseQueue,
             PrevHashes(t) \cap ToSet(vTxQueue) # {}, Found(t)
      PROVE  t \in vToTry' \/ \E h \in PrevHashes(t) : ToLookUp(h)'
  <2>1. PICK h \in PrevHashes(t), i \in iTx..Len(vTxQueue) : vTxQueue[i] = h
    BY <1>2 DEF TriedInv, NextInQueue, ToLookUp
  <2>2. iTx \in Nat /\ Len(vTxQueue) \in Nat
    BY DEF OInv, OrphanTxTypeOK
  <2>3. CASE i = iTx
    <3>1. t \in Tx /\ h \in Tx
      BY <2>1, PrevHashesAreTx, BoundAssumption DEF OInv, OrphanTxTypeOK
    <3>2. t \in Waiters(mapOrphanTransactionsByPrev, h)
      BY <2>1, <3>1 DEF OInv, OrphanTxMapsAgree
    <3> QED
      BY <2>1, <2>3, <3>2 DEF NextInQueue
  <2>4. CASE i # iTx
    <3>1. i \in iTx'..Len(vTxQueue')
      BY <2>1, <2>2, <2>4 DEF NextInQueue
    <3> QED
      BY <2>1, <3>1 DEF ToLookUp, NextInQueue
  <2> QED
    BY <2>3, <2>4
<1> QED
  BY <1>1, <1>2 DEF TriedInv, NextInQueue

\* An orphan that gets its last input from the accepted one is below it, and the
\* accepted one is in the queue.
LEMMA AcceptOrphanTxTried ==
  ASSUME OInv, TypeOK, TriedInv, NEW t \in vToTry, AcceptOrphanTx(t)
  PROVE  TriedInv'
<1>1. /\ t \in Tx /\ LooseTx \subseteq Tx /\ mapTx \subseteq Tx
      /\ dbTx' = dbTx /\ AcceptLoose(dbTx, pindexBest, t)
  BY BoundAssumption DEF OInv, OrphanTxTypeOK, TypeOK, PoolTypeOK, AcceptOrphanTx, chainVars, dbVars
<1>2. /\ vTxQueue' = Append(vTxQueue, t) /\ vEraseQueue' = vEraseQueue \cup {t}
      /\ vToTry' = vToTry \ {t} /\ UNCHANGED <<mapOrphanTransactions, pcTx, iTx>>
  BY DEF AcceptOrphanTx, Enqueue, orphanMaps
<1>3. /\ vTxQueue \in Seq(LooseTx) /\ t \in LooseTx /\ iTx \in 1..Len(vTxQueue) + 1
      /\ vEraseQueue \subseteq LooseTx /\ mapOrphanTransactions \subseteq LooseTx
  BY DEF OInv, OrphanTxTypeOK
<1>4. Len(vTxQueue') = Len(vTxQueue) + 1 /\ vTxQueue'[Len(vTxQueue) + 1] = t
  BY <1>2, <1>3
<1>5. \A i \in 1..Len(vTxQueue) : vTxQueue'[i] = vTxQueue[i]
  BY <1>2, <1>3
<1>6. ToLookUp(t)' /\ \A h : ToLookUp(h) => ToLookUp(h)'
  BY <1>2, <1>3, <1>4, <1>5 DEF ToLookUp
<1>7. ToSet(vTxQueue') = ToSet(vTxQueue) \cup {t}
  BY <1>2, <1>3, <1>4, <1>5 DEF ToSet
<1>8. \A u \in vEraseQueue' : ~MissingInputs(u)'
  BY <1>1, <1>2, <1>3, PoolGrows DEF TriedInv, MissingInputs, Found
<1>9. ASSUME NEW u \in mapOrphanTransactions \ vEraseQueue', pcTx = "work",
             PrevHashes(u) \cap ToSet(vTxQueue') # {}, Found(u)'
      PROVE  u \in vToTry' \/ \E h \in PrevHashes(u) : ToLookUp(h)'
  <2>1. CASE t \in PrevHashes(u)
    BY <2>1, <1>6
  <2>2. CASE t \notin PrevHashes(u)
    <3>1. Found(u)
      BY <1>1, <1>3, <1>9, <2>2, PoolGrows
    <3>2. PrevHashes(u) \cap ToSet(vTxQueue) # {}
      BY <1>7, <1>9, <2>2
    <3>3. u \in vToTry \/ \E h \in PrevHashes(u) : ToLookUp(h)
      BY <1>2, <1>9, <3>1, <3>2 DEF TriedInv
    <3> QED
      BY <1>2, <1>6, <1>9, <3>3
  <2> QED
    BY <2>1, <2>2
<1> QED
  BY <1>2, <1>8, <1>9 DEF TriedInv

LEMMA KeepOrRejectTried ==
  ASSUME OInv, TriedInv, NEW t \in vToTry, KeepOrphanTx(t) \/ RejectOrphanTx(t)
  PROVE  TriedInv'
<1>1. \A u : /\ MissingInputs(u)' <=> MissingInputs(u)
             /\ Found(u)' <=> Found(u)
             /\ ToLookUp(u)' <=> ToLookUp(u)
  BY DEF KeepOrphanTx, RejectOrphanTx, vars, MissingInputs, Found, Admissible, Conflicts,
         InputsFound, InputView, ToLookUp
<1>2. CASE KeepOrphanTx(t)
  <2>1. ~Found(t)
    BY <1>2 DEF KeepOrphanTx, MissingInputs, Found
  <2> QED
    BY <1>1, <1>2, <2>1 DEF KeepOrphanTx, orphanMaps, TriedInv
<1>3. CASE RejectOrphanTx(t)
  <2>1. ~MissingInputs(t)
    BY <1>3 DEF RejectOrphanTx, Refused
  <2> QED
    BY <1>1, <1>3, <2>1 DEF RejectOrphanTx, orphanMaps, TriedInv
<1> QED
  BY <1>2, <1>3

LEMMA TriedStep == OInv /\ TypeOK /\ TriedInv /\ [OrphanTxNext]_allVars => TriedInv'
<1> SUFFICES ASSUME OInv, TypeOK, TriedInv, [OrphanTxNext]_allVars PROVE TriedInv'
  OBVIOUS
<1>1. vEraseQueue' = {} /\ pcTx' = "idle" => TriedInv'
  BY DEF TriedInv
<1>2. pcTx = "idle" => vEraseQueue = {}
  BY DEF OInv, OrphanTxTypeOK
<1>3. ASSUME NEW t \in LooseTx, HoldTx(t) PROVE TriedInv'
  BY <1>1, <1>2, <1>3 DEF HoldTx, Idle
<1>4. CASE EraseOrphanTxs
  BY <1>1, <1>4 DEF EraseOrphanTxs
<1>5. CASE ChainStep
  BY <1>1, <1>2, <1>5 DEF ChainStep, orphanTxVars
<1>6. CASE Restart
  BY <1>1, <1>6 DEF Restart
<1>7. CASE UNCHANGED allVars
  <2>1. \A u : /\ MissingInputs(u)' <=> MissingInputs(u)
               /\ Found(u)' <=> Found(u)
               /\ ToLookUp(u)' <=> ToLookUp(u)
    BY <1>7 DEF allVars, orphanTxVars, vars, MissingInputs, Found, Admissible, Conflicts,
                InputsFound, InputView, ToLookUp
  <2> QED
    BY <1>7, <2>1 DEF allVars, orphanTxVars, orphanMaps, TriedInv
<1> QED
  BY <1>3, <1>4, <1>5, <1>6, <1>7, AcceptTxTried, NextInQueueTried, AcceptOrphanTxTried,
     KeepOrRejectTried
  DEF OrphanTxNext, TxHandlerStep, ReceiveTx, RefuseTx

-----------------------------------------------------------------------------
(* The node without orphan transactions.                                   *)

\* A transaction the handler accepts is one the pool is offered while no block
\* is at work; its other steps change nothing of the chain or the pool.
LEMMA OrphanTxStepIsChainStep == OInv /\ [OrphanTxNext]_allVars => [Next]_vars
<1> SUFFICES ASSUME OInv, [OrphanTxNext]_allVars PROVE [Next]_vars
  OBVIOUS
<1>1. ASSUME NEW t \in LooseTx, AcceptTx(t) PROVE Next
  <2>1. AcceptToMemoryPool(t)
    BY <1>1 DEF AcceptTx, Idle, AcceptToMemoryPool, chainVars, memVars, orphanVars, dbVars,
                branchVars, queueVars, countVars
  <2> QED
    BY <2>1 DEF Next
<1>2. ASSUME NEW t \in vToTry, AcceptOrphanTx(t) PROVE Next
  <2>1. t \in LooseTx /\ pc = "idle"
    BY DEF OInv, OrphanTxTypeOK
  <2>2. AcceptToMemoryPool(t)
    BY <1>2, <2>1 DEF AcceptOrphanTx, AcceptToMemoryPool, chainVars, memVars, orphanVars,
                      dbVars, branchVars, queueVars, countVars
  <2> QED
    BY <2>1, <2>2 DEF Next
<1>3. CASE ChainStep
  BY <1>3 DEF ChainStep, Next
<1>4. CASE Restart
  BY <1>4 DEF Restart, Next
<1>5. ASSUME NEW t \in LooseTx, HoldTx(t) \/ RefuseTx(t) PROVE UNCHANGED vars
  BY <1>5 DEF HoldTx, RefuseTx, allVars
<1>6. ASSUME NEW t \in vToTry, KeepOrphanTx(t) \/ RejectOrphanTx(t) PROVE UNCHANGED vars
  BY <1>6 DEF KeepOrphanTx, RejectOrphanTx
<1>7. CASE NextInQueue \/ EraseOrphanTxs
  BY <1>7 DEF NextInQueue, EraseOrphanTxs
<1>8. CASE UNCHANGED allVars
  BY <1>8 DEF allVars
<1> QED
  BY <1>1, <1>2, <1>3, <1>4, <1>5, <1>6, <1>7, <1>8
  DEF OrphanTxNext, TxHandlerStep, ReceiveTx

(* The node with orphan transactions implements the one of BlockChain,     *)
(* where transactions come with their parents or not at all: the handler   *)
(* of "tx" gives the pool and the chain no behaviour they lacked.          *)
THEOREM OrphanTxImplementsBlockChain == OrphanTxSpec => Spec
<1>1. OrphanTxInit => Init
  BY DEF OrphanTxInit
<1> QED
  BY <1>1, OrphanTxStepIsChainStep, OrphanTxInvariance, PTL DEF OrphanTxSpec, Spec

(* mapNextTx stays the inverse of the inputs of the pool when orphans      *)
(* enter it.                                                               *)
THEOREM OrphanTxPoolConsistent == OrphanTxSpec => []NextTxIsInverse
  BY OrphanTxImplementsBlockChain, PoolConsistent, PTL

-----------------------------------------------------------------------------
(* The handler's work, beside a chain of the right type.                   *)

LEMMA TriedInvariance == OrphanTxSpec => [](OInv /\ TypeOK /\ TriedInv)
<1>1. OrphanTxInit => TriedInv
  BY DEF OrphanTxInit, TriedInv
<1> QED
  BY <1>1, TriedStep, OrphanTxInvariance, OrphanTxImplementsBlockChain, TypeCorrect, PTL
  DEF OrphanTxSpec

(* In whatever order a transaction and its descendants come, the handler   *)
(* that accepts it ends with no descendant held that it could accept.      *)
THEOREM NoOrphanTxLeftBehind == OrphanTxSpec => []NoneLeftBehind
<1>1. OInv /\ TriedInv => NoneLeftBehind
  <2> SUFFICES ASSUME OInv, TriedInv, pcTx = "work", iTx > Len(vTxQueue), vToTry = {},
                      NEW t \in mapOrphanTransactions \ vEraseQueue,
                      PrevHashes(t) \cap ToSet(vTxQueue) # {}, Found(t)
               PROVE  FALSE
    BY DEF NoneLeftBehind, Found
  <2>1. PICK h \in PrevHashes(t) : ToLookUp(h)
    BY DEF TriedInv
  <2>2. iTx \in Nat /\ Len(vTxQueue) \in Nat
    BY DEF OInv, OrphanTxTypeOK
  <2> QED
    BY <2>1, <2>2 DEF ToLookUp
<1> QED
  BY <1>1, TriedInvariance, PTL

\* The map was full when an orphan is evicted.
LEMMA EvictedWhenFull ==
  ASSUME OInv, NEW t \in LooseTx, HoldTx(t),
         NEW u \in mapOrphanTransactions \ mapOrphanTransactions'
  PROVE  Cardinality(mapOrphanTransactions) = MAX_ORPHAN_TRANSACTIONS
<1> DEFINE n == Cardinality(mapOrphanTransactions)
<1>1. PICK evicted \in kSubset(Surplus(Cardinality(HeldWith(t))), HeldWith(t)) : u \in evicted
  BY DEF HoldTx, AddOrphanTx, orphanMaps, HeldWith
<1>2. /\ IsFiniteSet(HeldWith(t))
      /\ Cardinality(HeldWith(t)) = IF t \in mapOrphanTransactions THEN n ELSE n + 1
  BY FS_AddElement DEF OInv, HeldWith
<1>3. evicted \subseteq HeldWith(t) /\ Cardinality(evicted) = Surplus(Cardinality(HeldWith(t)))
  BY <1>1 DEF kSubset
<1>4. IsFiniteSet(evicted)
  BY <1>2, <1>3, FS_Subset
<1>5. Cardinality(evicted) # 0
  BY <1>1, <1>4, FS_EmptySet
<1>6. n \in Nat /\ n <= MAX_ORPHAN_TRANSACTIONS
  BY FS_CardinalityType DEF OInv, OrphanTxsBounded
<1> QED
  BY <1>2, <1>3, <1>5, <1>6, OrphanTxAssumption DEF Surplus

(* An orphan that still waits for a parent is dropped by an eviction or a  *)
(* restart, never by the handler that accepts one of its parents.          *)
THEOREM WaitingOrphansStay == OrphanTxSpec => WaitingOrphansKept
<1> DEFINE Kept ==
      \A t \in mapOrphanTransactions \ mapOrphanTransactions' :
        \/ ~MissingInputs(t)
        \/ Cardinality(mapOrphanTransactions) = MAX_ORPHAN_TRANSACTIONS /\ pcTx = "idle"
        \/ nCrashes' > nCrashes
<1>1. OInv /\ TypeOK /\ TriedInv /\ [OrphanTxNext]_allVars => [Kept]_allVars
  <2> SUFFICES ASSUME OInv, TypeOK, TriedInv, OrphanTxNext PROVE Kept
    BY DEF allVars
  <2>1. mapOrphanTransactions' = mapOrphanTransactions => Kept
    OBVIOUS
  <2>2. ASSUME NEW t \in LooseTx, HoldTx(t) PROVE Kept
    BY <2>2, EvictedWhenFull DEF HoldTx, Idle
  <2>3. CASE EraseOrphanTxs
    BY <2>3 DEF EraseOrphanTxs, TriedInv
  <2>4. CASE Restart
    <3>1. nCrashes' > nCrashes
      BY <2>4, BoundAssumption DEF Restart, CrashRestart, TypeOK
    <3> QED
      BY <3>1
  <2>5. ASSUME NEW t \in LooseTx, AcceptTx(t) \/ RefuseTx(t) PROVE Kept
    BY <2>1, <2>5 DEF AcceptTx, RefuseTx, allVars, orphanTxVars, orphanMaps
  <2>6. CASE ChainStep \/ NextInQueue
    BY <2>1, <2>6 DEF ChainStep, NextInQueue, orphanTxVars, orphanMaps
  <2>7. ASSUME NEW t \in vToTry, AcceptOrphanTx(t) \/ KeepOrphanTx(t) \/ RejectOrphanTx(t)
        PROVE  Kept
    BY <2>1, <2>7 DEF AcceptOrphanTx, KeepOrphanTx, RejectOrphanTx, orphanMaps
  <2> QED
    BY <2>2, <2>3, <2>4, <2>5, <2>6, <2>7 DEF OrphanTxNext, TxHandlerStep, ReceiveTx
<1> QED
  BY <1>1, TriedInvariance, PTL DEF OrphanTxSpec, WaitingOrphansKept

=============================================================================
