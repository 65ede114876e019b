----------------------------- MODULE ChainRules -----------------------------
(***************************************************************************)
(* What a valid chain is and what its transaction index holds, defined on  *)
(* the whole chain at once and not the way main.cpp computes them, one     *)
(* block at a time over a database.  BlockChain is checked against these   *)
(* definitions.  A chain is a sequence of blocks from Genesis on; the      *)
(* transactions of Genesis are not part of it (they are never indexed).    *)
(***************************************************************************)
EXTENDS Ledger

\* The places of a chain's transactions: the k-th of the block at index h.
Places(c) == UNION {{[h |-> h, k |-> k] : k \in DOMAIN vtx[c[h]]} : h \in 2..Len(c)}

At(c, o) == vtx[c[o.h]][o.k]

Before(o, q) == o.h < q.h \/ (o.h = q.h /\ o.k < q.k)

Fees(b) ==
  SumFunction([k \in 2..Len(vtx[b]) |-> GetValueIn(vtx[b][k]) - GetValueOut(vtx[b][k])])

\* Every input spends an output created before it, a mature one if a coinbase.
InputsExist(c) ==
  \A o \in Places(c) : \A p \in vin[At(c, o)] :
    \E q \in Places(c) :
      /\ At(c, q) = p.hash
      /\ Before(q, o)
      /\ p.n \in DOMAIN vout[p.hash]
      /\ IsCoinBase(p.hash) => o.h - q.h >= COINBASE_MATURITY

\* No output is spent twice and no transaction comes twice.
NoDoubleSpend(c) ==
  \A o, q \in Places(c) :
    o # q => At(c, o) # At(c, q) /\ vin[At(c, o)] \cap vin[At(c, q)] = {}

IsValidChain(c) ==
  /\ \A h \in 2..Len(c) : CheckBlock(c[h]) /\ c[h] \notin BadContext
  /\ InputsExist(c)
  /\ NoDoubleSpend(c)
  /\ \A o \in Places(c) :
       ~IsCoinBase(At(c, o)) =>
         /\ At(c, o) \notin BadSignature
         /\ GetValueIn(At(c, o)) >= GetValueOut(At(c, o))
  /\ \A h \in 2..Len(c) : GetValueOut(vtx[c[h]][1]) <= GetBlockValue(h - 1, Fees(c[h]))

\* Whether the branch that ends in a block is valid.
ValidChain == [b \in Block |-> IsValidChain(ChainOf[b])]

\* The transaction index of a valid chain.
IndexOf(c) ==
  LET Holder(t) == CHOOSE o \in Places(c) : At(c, o) = t
      Spenders(p) == {o \in Places(c) : p \in vin[At(c, o)]}
      SpentAt(p) == IF Spenders(p) = {} THEN Null ELSE c[(CHOOSE o \in Spenders(p) : TRUE).h]
  IN [t \in {At(c, o) : o \in Places(c)} |->
        [pos |-> c[Holder(t).h],
         vSpent |-> [n \in DOMAIN vout[t] |-> SpentAt([hash |-> t, n |-> n])]]]

\* The value of all unspent outputs of an index.
Unspent(idx) ==
  SumFunction([t \in DOMAIN idx |->
    SumFunction([n \in {n \in DOMAIN vout[t] : idx[t].vSpent[n] = Null} |-> vout[t][n]])])

\* What the blocks of a chain may have created.
Subsidies(c) == SumFunction([h \in 2..Len(c) |-> Subsidy(h - 1)])

=============================================================================
