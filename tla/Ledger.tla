------------------------------- MODULE Ledger -------------------------------
(***************************************************************************)
(* Blocks, transactions and the transaction index (CTxIndex records kept   *)
(* in the CTxDB) of main.cpp, as values: what CheckBlock, FetchInputs,     *)
(* ConnectInputs, ConnectBlock, DisconnectInputs and DisconnectBlock       *)
(* compute.  The state machine that calls them is in BlockChain.           *)
(*                                                                         *)
(* A block or a transaction is identified with its hash.  A transaction    *)
(* index maps the hash of every indexed transaction to the block that      *)
(* holds it (CTxIndex.pos) and, per output, to the block that spends it or *)
(* to Null (CTxIndex.vSpent).  The offset inside the block that a          *)
(* CDiskTxPos also carries is determined by the block and the transaction. *)
(***************************************************************************)
EXTENDS Integers, Sequences, FiniteSets, FiniteSetsExt, SequencesExt

CONSTANTS
  Block, Tx, Null,
  Genesis,
  hashPrevBlock,       \* the parent of every block but Genesis
  vtx,                 \* the transactions of a block, in order
  GetBlockWork,        \* the work a block's nBits stand for
  vin,                 \* the outpoints a transaction spends, {} for a coinbase
  vout,                \* the values of a transaction's outputs
  BadBlock,            \* fail a context-free test: size, proof of work, merkle root
  BadContext,          \* fail AcceptBlock: nBits, median time, finality, version
  BadTx,               \* fail CheckTransaction
  BadSignature,        \* fail VerifySignature on some input
  NonStandard,         \* fail IsStandard
  NonRelayable,        \* fail AreInputsStandard, or pay less than GetMinFee asks
  COINBASE_MATURITY,
  InitialSubsidy, HalvingInterval,
  TotalBlocksEstimate  \* Checkpoints::GetTotalBlocksEstimate()

\* The outputs that some transaction spends; n counts from 1.
OutPoint == UNION {vin[t] : t \in Tx}

ASSUME BlockAssumption ==
  /\ Genesis \in Block
  /\ Null \notin Block
  /\ \A b \in Block \ {Genesis} : hashPrevBlock[b] \in Block
  /\ \A b \in Block : GetBlockWork[b] \in Nat \ {0}
  /\ \A b \in Block : vtx[b] \in Seq(Tx)

\* A block contains the hash of its parent, so that no block is its own ancestor:
\* of any blocks, one has a parent that is none of them.
ASSUME AcyclicAssumption ==
  \A S \in SUBSET (Block \ {Genesis}) : S # {} => \E b \in S : hashPrevBlock[b] \notin S

ASSUME TxAssumption ==
  /\ Null \notin Tx
  /\ \A t \in Tx : vout[t] \in Seq(Int) /\ IsFiniteSet(vin[t])
  /\ OutPoint \subseteq [hash : Tx, n : Nat \ {0}]
  /\ COINBASE_MATURITY \in Nat

-----------------------------------------------------------------------------
(* The block tree.                                                         *)

\* The branch from the genesis block to b, following pprev.
ChainOf[b \in Block] ==
  IF b = Genesis THEN <<b>> ELSE Append(ChainOf[hashPrevBlock[b]], b)

nHeight(b) == Len(ChainOf[b]) - 1

\* The length of what two branches have in common: the fork is its last block.
CommonLen(c, d) ==
  Max({i \in 1..Len(c) : i <= Len(d) /\ c[i] = d[i]})

\* Blocks to disconnect, tip first, and to connect, lowest first, in order to
\* get from one tip to another.
vDisconnect(from, to) ==
  LET c == ChainOf[from] IN
  Reverse(SubSeq(c, CommonLen(c, ChainOf[to]) + 1, Len(c)))

vConnect(from, to) ==
  LET c == ChainOf[to] IN
  SubSeq(c, CommonLen(ChainOf[from], c) + 1, Len(c))

\* The COINBASE_MATURITY blocks that end in b: a coinbase held by one of them
\* is immature for a spender in b.
ImmatureBlocks(b) ==
  LET c == ChainOf[b] IN
  {c[i] : i \in {j \in 1..Len(c) : Len(c) - j < COINBASE_MATURITY}}

-----------------------------------------------------------------------------
(* Transactions and context-free checks.                                   *)

IsCoinBase(t) == vin[t] = {}

GetValueOut(t) == SumFunction(vout[t])

GetValueIn(t) == SumFunction([p \in vin[t] |-> vout[p.hash][p.n]])

CheckTransaction(t) == t \notin BadTx

CheckBlock(b) ==
  /\ b \notin BadBlock
  /\ vtx[b] # <<>>
  /\ \A i \in DOMAIN vtx[b] : IsCoinBase(vtx[b][i]) <=> i = 1
  /\ \A i \in DOMAIN vtx[b] : CheckTransaction(vtx[b][i])
  /\ \A i, j \in DOMAIN vtx[b] : vtx[b][i] = vtx[b][j] => i = j

\* 50 coins, halved every HalvingInterval blocks.
Subsidy(height) == InitialSubsidy \div 2^(height \div HalvingInterval)

GetBlockValue(height, fees) == Subsidy(height) + fees

ASSUME SubsidyAssumption == \A b \in Block : Subsidy(nHeight(b)) \in Nat

-----------------------------------------------------------------------------
(* The transaction index.                                                  *)

CTxIndex(t, b) == [pos |-> b, vSpent |-> [n \in DOMAIN vout[t] |-> Null]]

\* idx after the outputs that t spends have been marked with mark: the block of
\* the spender, or Null to release them.
MarkInputs(idx, t, mark) ==
  [u \in DOMAIN idx |->
     [idx[u] EXCEPT !.vSpent =
        [n \in DOMAIN @ |-> IF [hash |-> u, n |-> n] \in vin[t] THEN mark ELSE @[n]]]]

MutantNotErased(idx, t) == idx

Without(idx, t) == [u \in DOMAIN idx \ {t} |-> idx[u]]

With(idx, t, entry) ==
  [u \in DOMAIN idx \cup {t} |-> IF u = t THEN entry ELSE idx[u]]

\* What FetchInputs reads: the entries of idx, and an unspent one for every
\* transaction of pool that idx lacks.
InputView(idx, pool) ==
  [u \in DOMAIN idx \cup pool |-> IF u \in DOMAIN idx THEN idx[u] ELSE CTxIndex(u, Null)]

InputsFound(view, t) == \A p \in vin[t] : p.hash \in DOMAIN view

FetchInputs(view, t) ==
  /\ InputsFound(view, t)
  /\ \A p \in vin[t] : p.n \in DOMAIN view[p.hash].vSpent

\* The tests of ConnectInputs for a spender that may not spend the coinbases of
\* the immature blocks; its effect is MarkInputs.
ConnectInputs(view, t, immature, fVerify) ==
  /\ \A p \in vin[t] : IsCoinBase(p.hash) => view[p.hash].pos \notin immature
  /\ \A p \in vin[t] : view[p.hash].vSpent[p.n] = Null
  /\ fVerify => t \notin BadSignature
  /\ GetValueIn(t) >= GetValueOut(t)

\* BIP30: an indexed transaction may come again once all its outputs are spent.
Overwrites(idx, t) ==
  t \in DOMAIN idx /\ \E n \in DOMAIN idx[t].vSpent : idx[t].vSpent[n] = Null

\* One transaction of ConnectBlock: acc holds the index as written so far
\* (mapQueuedChanges over the database idx) and the fees, while ok.
ConnectTx(idx, b, immature, fVerify, acc, t) ==
  IF \/ ~acc.ok
     \/ Overwrites(idx, t)
     \/ ~FetchInputs(acc.idx, t)
     \/ ~IsCoinBase(t) /\ ~ConnectInputs(acc.idx, t, immature, fVerify)
  THEN [acc EXCEPT !.ok = FALSE]
  ELSE [ok   |-> TRUE,
        idx  |-> With(MarkInputs(acc.idx, t, b), t, CTxIndex(t, b)),
        fees |-> IF IsCoinBase(t) THEN acc.fees
                 ELSE acc.fees + GetValueIn(t) - GetValueOut(t)]

MutantNoSubsidyLimit(b, fees) == FALSE

\* The coinbase may take the subsidy and the fees.
CoinbasePaysTooMuch(b, fees) == GetValueOut(vtx[b][1]) > GetBlockValue(nHeight(b), fees)

\* The outcome of connecting b: whether it is valid on top of r.idx, and the
\* index with b in it.
ConnectBlock(r, b, fVerify) ==
  LET Step(acc, t) == ConnectTx(r.idx, b, ImmatureBlocks(b), fVerify, acc, t)
      done == FoldLeft(Step, [ok |-> r.ok /\ CheckBlock(b), idx |-> r.idx, fees |-> 0],
                       vtx[b])
  IN [ok |-> done.ok /\ ~CoinbasePaysTooMuch(b, done.fees), idx |-> done.idx]

\* Releases what t spent and forgets t; fails when an entry is missing.
DisconnectInputs(r, t) ==
  IF r.ok /\ FetchInputs(r.idx, t)
  THEN [ok |-> TRUE, idx |-> Without(MarkInputs(r.idx, t, Null), t)]
  ELSE [r EXCEPT !.ok = FALSE]

MutantForwardDisconnect(r, b) == FoldLeft(DisconnectInputs, r, vtx[b])

\* The transactions of a block are disconnected last to first.
DisconnectBlock(r, b) == FoldLeft(DisconnectInputs, r, Reverse(vtx[b]))

\* Reorganize, on the index: disconnect the shorter branch, connect the longer.
ReorganizeIndex(idx, from, to, fVerify) ==
  LET Connect(r, b) == ConnectBlock(r, b, fVerify) IN
  FoldLeft(Connect,
           FoldLeft(DisconnectBlock, [ok |-> TRUE, idx |-> idx], vDisconnect(from, to)),
           vConnect(from, to))

=============================================================================
