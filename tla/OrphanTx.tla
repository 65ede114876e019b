------------------------------ MODULE OrphanTx ------------------------------
(***************************************************************************)
(* Transactions of peers: the "tx" message of ProcessMessage, with the     *)
(* transactions held in mapOrphanTransactions until their parents come,    *)
(* beside the chain and the pool of BlockChain.                            *)
(*                                                                         *)
(* The handler runs under cs_main, as ProcessBlock does, so one of pc and  *)
(* pcTx is always "idle".  It is cut into steps at the orphans it tries:   *)
(* the order of the map they are kept in is that of their hashes, hence    *)
(* any order.                                                              *)
(***************************************************************************)
EXTENDS BlockChain

CONSTANTS
  BigTx,                    \* longer than 5000 bytes
  FreeTx,                   \* pay less than MIN_RELAY_TX_FEE
  MAX_ORPHAN_TRANSACTIONS

ASSUME OrphanTxAssumption == MAX_ORPHAN_TRANSACTIONS \in Nat

VARIABLES
  mapOrphanTransactions,
  mapOrphanTransactionsByPrev,  \* the orphans per parent; a key stays when operator[] made it
  pcTx,                         \* "idle", or "work" while the handler tries orphans
  vTxQueue, iTx,                \* vWorkQueue: accepted, whose orphans come; and its index
  vToTry,                       \* the rest of the loop over the orphans of one parent
  vEraseQueue                   \* orphans to erase when the handler is done

orphanMaps == <<mapOrphanTransactions, mapOrphanTransactionsByPrev>>
orphanTxVars == <<orphanMaps, pcTx, vTxQueue, iTx, vToTry, vEraseQueue>>
chainVars == <<mapBlockIndex, bnChainWork, pnext, pindexBest, bnBestInvalidWork,
               orphanVars, dbVars, pc, pblock, vWorkQueue, branchVars, queueVars,
               countVars>>
allVars == <<vars, orphanTxVars>>

OrphanTxTypeOK ==
  /\ mapOrphanTransactions \subseteq LooseTx
  /\ DOMAIN mapOrphanTransactionsByPrev \subseteq Tx
  /\ \A h \in DOMAIN mapOrphanTransactionsByPrev :
       mapOrphanTransactionsByPrev[h] \subseteq LooseTx
  /\ pcTx \in {"idle", "work"}
  /\ vTxQueue \in Seq(LooseTx)
  /\ iTx \in 1..Len(vTxQueue) + 1
  /\ vToTry \subseteq LooseTx
  /\ vEraseQueue \subseteq LooseTx
  /\ pcTx = "idle" => vTxQueue = <<>> /\ vToTry = {} /\ vEraseQueue = {}

OrphanTxInit ==
  /\ Init
  /\ mapOrphanTransactions = {}
  /\ mapOrphanTransactionsByPrev = <<>>
  /\ pcTx = "idle"
  /\ vTxQueue = <<>>
  /\ iTx = 1
  /\ vToTry = {}
  /\ vEraseQueue = {}

-----------------------------------------------------------------------------
(* The two maps.                                                           *)

PrevHashes(t) == {p.hash : p \in vin[t]}

\* mapOrphanTransactionsByPrev[h], which is empty for a hash without a key.
Waiters(byPrev, h) == IF h \in DOMAIN byPrev THEN byPrev[h] ELSE {}

\* AddOrphanTx.
HeldWith(t) == mapOrphanTransactions \cup {t}

ByPrevWith(t) ==
  [h \in DOMAIN mapOrphanTransactionsByPrev \cup PrevHashes(t) |->
     Waiters(mapOrphanTransactionsByPrev, h) \cup (IF h \in PrevHashes(t) THEN {t} ELSE {})]

MutantKeysErased(held, byPrev, S) ==
  [h \in DOMAIN byPrev \ UNION {PrevHashes(t) : t \in S \cap held} |-> byPrev[h]]

\* EraseOrphanTx of every transaction of S that is held: the keys of its parents
\* go when no other orphan waits for them.
ByPrevErased(held, byPrev, S) ==
  LET touched == UNION {PrevHashes(t) : t \in S \cap held} IN
  [h \in {k \in DOMAIN byPrev : k \in touched => byPrev[k] \ S # {}} |->
     IF h \in touched THEN byPrev[h] \ S ELSE byPrev[h]]

MutantSurplusOfOneStays(n) ==
  IF n > MAX_ORPHAN_TRANSACTIONS + 1 THEN n - MAX_ORPHAN_TRANSACTIONS ELSE 0

\* How many of n orphans LimitOrphanTxSize evicts.
Surplus(n) ==
  IF n > MAX_ORPHAN_TRANSACTIONS THEN n - MAX_ORPHAN_TRANSACTIONS ELSE 0

\* AddOrphanTx and LimitOrphanTxSize; a random orphan is evicted, the new one
\* included.
AddOrphanTx(t) ==
  IF t \in mapOrphanTransactions \/ t \in BigTx
  THEN UNCHANGED orphanMaps
  ELSE \E evicted \in kSubset(Surplus(Cardinality(HeldWith(t))), HeldWith(t)) :
         /\ mapOrphanTransactions' = HeldWith(t) \ evicted
         /\ mapOrphanTransactionsByPrev' =
              ByPrevErased(HeldWith(t), ByPrevWith(t), evicted)

-----------------------------------------------------------------------------
(* The "tx" message.                                                       *)

\* accept fails and sets fMissingInputs.
MissingInputs(t) ==
  /\ Admissible(t)
  /\ t \notin DOMAIN dbTx
  /\ ~InputsFound(InputView(dbTx, mapTx), t)

MutantMissingIgnored(t) ==
  ~Admissible(t) \/ ~InputsAccepted(dbTx, pindexBest, t) \/ t \in FreeTx

\* accept fails otherwise; the rate limiter may refuse any free transaction.
Refused(t) ==
  /\ ~MissingInputs(t)
  /\ \/ ~Admissible(t)
     \/ ~InputsAccepted(dbTx, pindexBest, t)
     \/ t \in FreeTx

Idle == pc = "idle" /\ pcTx = "idle"

AcceptTx(t) ==
  /\ Idle
  /\ AcceptLoose(dbTx, pindexBest, t)
  /\ pcTx' = "work"
  /\ vTxQueue' = <<t>>
  /\ vEraseQueue' = {t}
  /\ UNCHANGED <<chainVars, orphanMaps, iTx, vToTry>>

HoldTx(t) ==
  /\ Idle
  /\ MissingInputs(t)
  /\ AddOrphanTx(t)
  /\ UNCHANGED <<vars, pcTx, vTxQueue, iTx, vToTry, vEraseQueue>>

RefuseTx(t) ==
  /\ Idle
  /\ Refused(t)
  /\ UNCHANGED allVars

\* mapOrphanTransactionsByPrev[hashPrev] adds a key when there is none.
NextInQueue ==
  /\ pcTx = "work"
  /\ vToTry = {}
  /\ iTx <= Len(vTxQueue)
  /\ iTx' = iTx + 1
  /\ vToTry' = Waiters(mapOrphanTransactionsByPrev, vTxQueue[iTx])
  /\ mapOrphanTransactionsByPrev' =
       [h \in DOMAIN mapOrphanTransactionsByPrev \cup {vTxQueue[iTx]} |->
          Waiters(mapOrphanTransactionsByPrev, h)]
  /\ UNCHANGED <<vars, mapOrphanTransactions, pcTx, vTxQueue, vEraseQueue>>

MutantNotQueued(t) == UNCHANGED vTxQueue

\* An accepted orphan may be the parent of others.
Enqueue(t) == vTxQueue' = Append(vTxQueue, t)

AcceptOrphanTx(t) ==
  /\ t \in vToTry
  /\ AcceptLoose(dbTx, pindexBest, t)
  /\ Enqueue(t)
  /\ vToTry' = vToTry \ {t}
  /\ vEraseQueue' = vEraseQueue \cup {t}
  /\ UNCHANGED <<chainVars, orphanMaps, pcTx, iTx>>

\* The orphan still waits for another parent.
KeepOrphanTx(t) ==
  /\ t \in vToTry
  /\ MissingInputs(t)
  /\ vToTry' = vToTry \ {t}
  /\ UNCHANGED <<vars, orphanMaps, pcTx, vTxQueue, iTx, vEraseQueue>>

\* An invalid orphan; one that the pool or the chain already has counts as such.
RejectOrphanTx(t) ==
  /\ t \in vToTry
  /\ Refused(t)
  /\ vToTry' = vToTry \ {t}
  /\ vEraseQueue' = vEraseQueue \cup {t}
  /\ UNCHANGED <<vars, orphanMaps, pcTx, vTxQueue, iTx>>

EraseOrphanTxs ==
  /\ pcTx = "work"
  /\ vToTry = {}
  /\ iTx > Len(vTxQueue)
  /\ vTxQueue' = <<>>
  /\ iTx' = 1
  /\ mapOrphanTransactions' = mapOrphanTransactions \ vEraseQueue
  /\ mapOrphanTransactionsByPrev' =
       ByPrevErased(mapOrphanTransactions, mapOrphanTransactionsByPrev, vEraseQueue)
  /\ vEraseQueue' = {}
  /\ pcTx' = "idle"
  /\ UNCHANGED <<vars, vToTry>>

-----------------------------------------------------------------------------
ReceiveTx(t) == AcceptTx(t) \/ HoldTx(t) \/ RefuseTx(t)

TxHandlerStep ==
  \/ NextInQueue
  \/ \E t \in vToTry : AcceptOrphanTx(t) \/ KeepOrphanTx(t) \/ RejectOrphanTx(t)
  \/ EraseOrphanTxs

\* Blocks, and the transactions of the node's own wallet, whose orphans nobody
\* looks up.
ChainStep ==
  /\ pcTx = "idle"
  /\ \/ \E b \in Block \ {Genesis} : ReceiveBlock(b)
     \/ HandlerStep
     \/ \E t \in LooseTx : AcceptToMemoryPool(t)
  /\ UNCHANGED orphanTxVars

Restart ==
  /\ CrashRestart
  /\ mapOrphanTransactions' = {}
  /\ mapOrphanTransactionsByPrev' = <<>>
  /\ pcTx' = "idle"
  /\ vTxQueue' = <<>>
  /\ iTx' = 1
  /\ vToTry' = {}
  /\ vEraseQueue' = {}

OrphanTxNext ==
  \/ \E t \in LooseTx : ReceiveTx(t)
  \/ TxHandlerStep
  \/ ChainStep
  \/ Restart

OrphanTxSpec == OrphanTxInit /\ [][OrphanTxNext]_allVars

-----------------------------------------------------------------------------
(* The two maps agree whenever a message has been handled or an orphan is  *)
(* tried: the orphans under a parent hash are exactly the held             *)
(* transactions that spend from it.  EraseOrphanTx frees the message both  *)
(* maps point at, so that an entry left in one of them would dangle.       *)
OrphanTxMapsAgree ==
  \A h, t \in Tx :
    t \in Waiters(mapOrphanTransactionsByPrev, h)
      <=> t \in mapOrphanTransactions /\ h \in PrevHashes(t)

(* However many transactions without parents come, no more than            *)
(* MAX_ORPHAN_TRANSACTIONS of them are held; that is what                  *)
(* LimitOrphanTxSize after AddOrphanTx is for.                             *)
OrphanTxsBounded == Cardinality(mapOrphanTransactions) <= MAX_ORPHAN_TRANSACTIONS

(* When the handler has worked off its queue, none of the orphans it keeps *)
(* could be accepted because of a transaction it accepted: in whatever     *)
(* order a transaction, its children and their children came, no orphan    *)
(* with a parent accepted in this run has all its inputs now.              *)
NoneLeftBehind ==
  pcTx = "work" /\ iTx > Len(vTxQueue) /\ vToTry = {} =>
    \A t \in mapOrphanTransactions \ vEraseQueue :
      PrevHashes(t) \cap ToSet(vTxQueue) # {} => ~InputsFound(InputView(dbTx, mapTx), t)

(* The handler drops no orphan that still waits for a parent and would be  *)
(* admitted with it: an orphan with two parents survives the arrival of    *)
(* one.  Only LimitOrphanTxSize, when the map is full, and a restart drop  *)
(* such an orphan.                                                         *)
WaitingOrphansKept ==
  [][\A t \in mapOrphanTransactions \ mapOrphanTransactions' :
       \/ ~MissingInputs(t)
       \/ Cardinality(mapOrphanTransactions) = MAX_ORPHAN_TRANSACTIONS /\ pcTx = "idle"
       \/ nCrashes' > nCrashes]_allVars

=============================================================================
