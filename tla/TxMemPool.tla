----------------------------- MODULE TxMemPool -----------------------------
(***************************************************************************)
(* CTxMemPool: the transactions that wait for a block (mapTx) and, per     *)
(* outpoint, the pooled transaction that spends it (mapNextTx; Null where  *)
(* the map has no entry).  The operations are those of main.cpp; they are  *)
(* called with cs_main held, by the machine in BlockChain.                 *)
(***************************************************************************)
EXTENDS Ledger

VARIABLES mapTx, mapNextTx

poolVars == <<mapTx, mapNextTx>>

PoolTypeOK ==
  /\ mapTx \subseteq Tx
  /\ mapNextTx \in [OutPoint -> Tx \cup {Null}]

PoolEmpty ==
  /\ mapTx = {}
  /\ mapNextTx = [p \in OutPoint |-> Null]

-----------------------------------------------------------------------------
Conflicts(t) == \E p \in vin[t] : mapNextTx[p] # Null

\* What CTxMemPool::accept tests before it looks at the inputs.
Admissible(t) ==
  /\ CheckTransaction(t)
  /\ ~IsCoinBase(t)
  /\ t \notin NonStandard
  /\ t \notin mapTx
  /\ ~Conflicts(t)

\* What it tests on top of that when fCheckInputs is set: idx is the transaction
\* index on disk, tip is pindexBest.
InputsAccepted(idx, tip, t) ==
  LET view == InputView(idx, mapTx) IN
  /\ t \notin DOMAIN idx
  /\ FetchInputs(view, t)
  /\ t \notin NonRelayable
  /\ ConnectInputs(view, t, ImmatureBlocks(tip), TRUE)

addUnchecked(t) ==
  /\ mapTx' = mapTx \cup {t}
  /\ mapNextTx' = [p \in OutPoint |-> IF p \in vin[t] THEN t ELSE mapNextTx[p]]

\* AcceptToMemoryPool(txdb, TRUE): the transaction came from a peer or a wallet.
AcceptLoose(idx, tip, t) ==
  /\ Admissible(t)
  /\ InputsAccepted(idx, tip, t)
  /\ addUnchecked(t)

\* AcceptToMemoryPool(txdb, FALSE): the transaction was in a disconnected block.
Resurrect(t) ==
  IF Admissible(t) THEN addUnchecked(t) ELSE UNCHANGED poolVars

MutantRemoveKeepsNext(t) ==
  mapTx' = mapTx \ {t} /\ UNCHANGED mapNextTx

remove(t) ==
  IF t \in mapTx
  THEN /\ mapTx' = mapTx \ {t}
       /\ mapNextTx' = [p \in OutPoint |-> IF p \in vin[t] THEN Null ELSE mapNextTx[p]]
  ELSE UNCHANGED poolVars

-----------------------------------------------------------------------------
(* mapNextTx is the exact inverse of the inputs of the pooled              *)
(* transactions: no entry is left behind when a transaction goes, none is  *)
(* taken from another one, so that no two pooled transactions spend the    *)
(* same output.  It relates addUnchecked, remove and the conflict test of  *)
(* accept.                                                                 *)
NextTxIsInverse ==
  \A p \in OutPoint, t \in Tx : mapNextTx[p] = t <=> t \in mapTx /\ p \in vin[t]

=============================================================================
