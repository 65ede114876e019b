---------------------------- MODULE Ledger_proofs -----------------------------
(***************************************************************************)
(* The transaction index of Ledger is the one ChainRules defines, for      *)
(* every block tree and every set of transactions.                         *)
(*                                                                         *)
(* Ledger computes it one transaction after another: ConnectBlock,         *)
(* DisconnectBlock and Reorganize are folds over the transactions of a     *)
(* block and the blocks of a branch.  ChainRules defines what a chain's    *)
(* index holds on the whole chain at once.  What connects the two is       *)
(* Describes(idx, c, P): idx is right for the transactions at the places P *)
(* of the chain c.  A transaction that passes the tests of ConnectBlock    *)
(* adds its place to P (IndexAdds, TxTests), one that is disconnected      *)
(* removes it (IndexRemoves), and an index that describes all places of a  *)
(* chain is its IndexOf (IndexIsUnique).  From this follow, for a block    *)
(* (ConnectSound, DisconnectSound) and for a reorganization                *)
(* (ReorganizeSound), that they fail just when the new chain breaks a rule *)
(* and otherwise give its index; and that the outputs left unspent are     *)
(* worth no more than the subsidies (NoMoreThanSubsidies).                 *)
(***************************************************************************)
EXTENDS ChainRules, Sums, SequenceTheorems

-----------------------------------------------------------------------------
(* The branches of the block tree.                                         *)

\* s leads from the genesis block to b, following pprev backwards.
Leads(s, b) ==
  /\ s \in Seq(Block)
  /\ Len(s) \in Nat \ {0}
  /\ s[1] = Genesis
  /\ s[Len(s)] = b
  /\ \A i \in 2..Len(s) : s[i] # Genesis /\ hashPrevBlock[s[i]] = s[i - 1]

LEMMA LeadsToGenesis == Leads(<<Genesis>>, Genesis)
  BY BlockAssumption DEF Leads

LEMMA LeadsFurther ==
  ASSUME NEW b \in Block \ {Genesis}, NEW s, Leads(s, hashPrevBlock[b])
  PROVE  Leads(Append(s, b), b)
<1> DEFINE t == Append(s, b)
<1>1. /\ s \in Seq(Block) /\ Len(s) \in Nat \ {0} /\ s[1] = Genesis
      /\ s[Len(s)] = hashPrevBlock[b]
      /\ \A i \in 2..Len(s) : s[i] # Genesis /\ hashPrevBlock[s[i]] = s[i - 1]
  BY DEF Leads
<1>2. /\ t \in Seq(Block) /\ Len(t) = Len(s) + 1 /\ t[Len(s) + 1] = b
      /\ \A i \in 1..Len(s) : t[i] = s[i]
  BY <1>1
<1>3. Len(t) \in Nat \ {0} /\ t[1] = Genesis /\ t[Len(t)] = b
  BY <1>1, <1>2
<1>4. ASSUME NEW i \in 2..Len(t)
      PROVE  t[i] # Genesis /\ hashPrevBlock[t[i]] = t[i - 1]
  <2> HIDE DEF t
  <2>1. CASE i = Len(t)
    <3>1. i - 1 = Len(s) /\ i = Len(s) + 1
      BY <1>1, <1>2, <2>1
    <3> QED
      BY <1>1, <1>2, <3>1
  <2>2. CASE i # Len(t)
    <3>1. i \in 2..Len(s) /\ i \in 1..Len(s) /\ i - 1 \in 1..Len(s)
      BY <1>1, <1>2, <2>2
    <3> QED
      BY <1>1, <1>2, <3>1
  <2> QED
    BY <2>1, <2>2
<1> QED
  BY <1>2, <1>3, <1>4 DEF Leads

\* The part of a branch up to a block leads to that block.
LEMMA LeadsToPart ==
  ASSUME NEW b, NEW s, Leads(s, b), NEW i \in 1..Len(s)
  PROVE  Leads(SubSeq(s, 1, i), s[i])
<1> DEFINE t == SubSeq(s, 1, i)
<1>1. /\ s \in Seq(Block) /\ Len(s) \in Nat \ {0} /\ s[1] = Genesis
      /\ \A j \in 2..Len(s) : s[j] # Genesis /\ hashPrevBlock[s[j]] = s[j - 1]
  BY DEF Leads
<1>2. t \in Seq(Block) /\ Len(t) = i /\ \A j \in 1..i : t[j] = s[j]
  BY <1>1
<1> HIDE DEF t
<1>3. ASSUME NEW j \in 2..Len(t)
      PROVE  t[j] # Genesis /\ hashPrevBlock[t[j]] = t[j - 1]
  <2>1. j \in 2..Len(s) /\ j \in 1..i /\ j - 1 \in 1..i
    BY <1>1, <1>2
  <2> QED
    BY <1>1, <1>2, <2>1
<1>4. Leads(t, s[i])
  BY <1>1, <1>2, <1>3 DEF Leads
<1> QED
  BY <1>4 DEF t

LEMMA BranchExists == \A b \in Block : \E s : Leads(s, b)
<1> DEFINE Lost == {b \in Block : ~\E s : Leads(s, b)}
<1> SUFFICES ASSUME Lost # {} PROVE FALSE
  OBVIOUS
<1>1. Lost \in SUBSET (Block \ {Genesis})
  BY LeadsToGenesis
<1>2. PICK b \in Lost : hashPrevBlock[b] \notin Lost
  <2> HIDE DEF Lost
  <2> QED
    BY <1>1, AcyclicAssumption
<1>3. b \in Block \ {Genesis} /\ hashPrevBlock[b] \in Block
  BY <1>1, BlockAssumption
<1>4. PICK s : Leads(s, hashPrevBlock[b])
  BY <1>2, <1>3
<1>5. Leads(Append(s, b), b)
  BY <1>3, <1>4, LeadsFurther
<1> QED
  BY <1>5

\* What a branch to a block other than the genesis block is made of.
LEMMA BranchEnds ==
  ASSUME NEW b \in Block, NEW s, Leads(s, b)
  PROVE  /\ b = Genesis => s = <<Genesis>>
         /\ b # Genesis => /\ Leads(SubSeq(s, 1, Len(s) - 1), hashPrevBlock[b])
                           /\ s = Append(SubSeq(s, 1, Len(s) - 1), b)
<1>1. /\ s \in Seq(Block) /\ Len(s) \in Nat \ {0} /\ s[1] = Genesis
      /\ s[Len(s)] = b
      /\ \A j \in 2..Len(s) : s[j] # Genesis /\ hashPrevBlock[s[j]] = s[j - 1]
  BY DEF Leads
<1>2. CASE Len(s) = 1
  BY <1>1, <1>2
<1>3. CASE Len(s) # 1
  <2>1. Len(s) \in 2..Len(s) /\ Len(s) - 1 \in 1..Len(s)
    <3>1. PICK n \in Nat \ {0} : n = Len(s) /\ n # 1
      BY <1>1, <1>3
    <3>2. n \in 2..n /\ n - 1 \in 1..n
      BY <3>1
    <3> QED
      BY <3>1, <3>2
  <2>2. b # Genesis /\ hashPrevBlock[b] = s[Len(s) - 1]
    BY <1>1, <2>1
  <2>3. Leads(SubSeq(s, 1, Len(s) - 1), hashPrevBlock[b])
    BY <2>1, <2>2, LeadsToPart
  <2>4. s = Append(SubSeq(s, 1, Len(s) - 1), b)
    <3>1. PICK t : t = SubSeq(s, 1, Len(s) - 1)
      OBVIOUS
    <3>2. t \in Seq(Block) /\ Len(t) = Len(s) - 1 /\ \A i \in 1..Len(s) - 1 : t[i] = s[i]
      BY <1>1, <2>1, <3>1
    <3>3. PICK u : u = Append(t, b)
      OBVIOUS
    <3>4. /\ u \in Seq(Block) /\ Len(u) = Len(s) /\ u[Len(s)] = b
          /\ \A i \in 1..Len(s) - 1 : u[i] = s[i]
      BY <1>1, <3>2, <3>3
    <3>5. u = s
      BY <1>1, <3>4, SeqEqual, SMTT(30)
    <3> QED
      BY <3>1, <3>3, <3>5
  <2> QED
    BY <2>2, <2>3, <2>4
<1> QED
  BY <1>2, <1>3

LEMMA BranchIsUnique ==
  \A b \in Block : \A s, t : Leads(s, b) /\ Leads(t, b) => s = t
<1> DEFINE Torn == {b \in Block : \E s, t : Leads(s, b) /\ Leads(t, b) /\ s # t}
<1> SUFFICES ASSUME Torn # {} PROVE FALSE
  OBVIOUS
<1>1. Torn \in SUBSET (Block \ {Genesis})
  BY BranchEnds
<1>2. PICK b \in Torn : hashPrevBlock[b] \notin Torn
  <2> HIDE DEF Torn
  <2> QED
    BY <1>1, AcyclicAssumption
<1>3. b \in Block \ {Genesis} /\ hashPrevBlock[b] \in Block
  BY <1>1, BlockAssumption
<1>4. PICK s, t : Leads(s, b) /\ Leads(t, b) /\ s # t
  BY <1>2
<1>5. /\ Leads(SubSeq(s, 1, Len(s) - 1), hashPrevBlock[b])
      /\ s = Append(SubSeq(s, 1, Len(s) - 1), b)
  BY <1>3, <1>4, BranchEnds
<1>6. /\ Leads(SubSeq(t, 1, Len(t) - 1), hashPrevBlock[b])
      /\ t = Append(SubSeq(t, 1, Len(t) - 1), b)
  BY <1>3, <1>4, BranchEnds, SMTT(30)
<1>7. SubSeq(s, 1, Len(s) - 1) = SubSeq(t, 1, Len(t) - 1)
  BY <1>2, <1>3, <1>5, <1>6
<1> QED
  BY <1>4, <1>5, <1>6, <1>7

\* The recursive definition of ChainOf has a solution, the branches.
LEMMA ChainEquation ==
  \A b \in Block :
    ChainOf[b] = IF b = Genesis THEN <<b>> ELSE Append(ChainOf[hashPrevBlock[b]], b)
<1> DEFINE f == [b \in Block |-> CHOOSE s : Leads(s, b)]
<1>1. \A b \in Block : Leads(f[b], b)
  BY BranchExists
<1>2. ASSUME NEW b \in Block
      PROVE  f[b] = IF b = Genesis THEN <<b>> ELSE Append(f[hashPrevBlock[b]], b)
  <2> HIDE DEF f
  <2>1. CASE b = Genesis
    BY <1>1, <2>1, LeadsToGenesis, BranchIsUnique
  <2>2. CASE b # Genesis
    <3>1. Leads(Append(f[hashPrevBlock[b]], b), b)
      BY <1>1, <2>2, LeadsFurther, BlockAssumption
    <3> QED
      BY <1>1, <2>2, <3>1, BranchIsUnique
  <2> QED
    BY <2>1, <2>2
<1>3. f = [b \in Block |-> f[b]]
  OBVIOUS
<1> HIDE DEF f
<1>4. f = [b \in Block |-> IF b = Genesis THEN <<b>> ELSE Append(f[hashPrevBlock[b]], b)]
  BY <1>2, <1>3, Zenon
<1>5. ChainOf = [b \in Block |-> IF b = Genesis THEN <<b>>
                                 ELSE Append(ChainOf[hashPrevBlock[b]], b)]
  BY <1>4, Zenon DEF ChainOf
<1> QED
  BY <1>5, Zenon

LEMMA ChainLeads == \A b \in Block : Leads(ChainOf[b], b)
<1> DEFINE Lost == {b \in Block : ~Leads(ChainOf[b], b)}
<1> SUFFICES ASSUME Lost # {} PROVE FALSE
  OBVIOUS
<1>1. Lost \in SUBSET (Block \ {Genesis})
  BY LeadsToGenesis, ChainEquation, BlockAssumption
<1>2. PICK b \in Lost : hashPrevBlock[b] \notin Lost
  <2> HIDE DEF Lost
  <2> QED
    BY <1>1, AcyclicAssumption
<1>3. b \in Block \ {Genesis} /\ hashPrevBlock[b] \in Block
  BY <1>1, BlockAssumption
<1>4. Leads(Append(ChainOf[hashPrevBlock[b]], b), b)
  BY <1>2, <1>3, LeadsFurther
<1> QED
  BY <1>3, <1>4, ChainEquation

-----------------------------------------------------------------------------
(* Facts about branches.                                                   *)

LEMMA ChainFacts ==
  ASSUME NEW b \in Block
  PROVE  /\ ChainOf[b] \in Seq(Block) /\ Len(ChainOf[b]) \in Nat \ {0}
         /\ ChainOf[b][1] = Genesis /\ ChainOf[b][Len(ChainOf[b])] = b
         /\ \A i \in 1..Len(ChainOf[b]) : ChainOf[ChainOf[b][i]] = SubSeq(ChainOf[b], 1, i)
         /\ \A i \in 2..Len(ChainOf[b]) :
              /\ ChainOf[b][i] \in Block \ {Genesis}
              /\ hashPrevBlock[ChainOf[b][i]] = ChainOf[b][i - 1]
<1>1. PICK c : c = ChainOf[b] /\ Leads(c, b)
  BY ChainLeads
<1>2. ASSUME NEW i \in 1..Len(c) PROVE ChainOf[c[i]] = SubSeq(c, 1, i)
  <2>1. Leads(SubSeq(c, 1, i), c[i]) /\ c[i] \in Block
    BY <1>1, LeadsToPart DEF Leads
  <2>2. Leads(ChainOf[c[i]], c[i])
    BY <2>1, ChainLeads
  <2> QED
    BY <2>1, <2>2, BranchIsUnique
<1>3. \A i \in 2..Len(c) : c[i] \in Block \ {Genesis} /\ hashPrevBlock[c[i]] = c[i - 1]
  BY <1>1 DEF Leads
<1>4. c \in Seq(Block) /\ Len(c) \in Nat \ {0} /\ c[1] = Genesis /\ c[Len(c)] = b
  BY <1>1 DEF Leads
<1> QED
  BY <1>1, <1>2, <1>3, <1>4, Zenon

\* The length of the branch of every block on the way.
LEMMA PartLength ==
  ASSUME NEW b \in Block, NEW i \in 1..Len(ChainOf[b])
  PROVE  /\ ChainOf[b][i] \in Block
         /\ Len(ChainOf[ChainOf[b][i]]) = i
         /\ \A j \in 1..i : ChainOf[ChainOf[b][i]][j] = ChainOf[b][j]
<1>1. PICK c : c = ChainOf[b]
  OBVIOUS
<1>2. c \in Seq(Block) /\ ChainOf[c[i]] = SubSeq(c, 1, i) /\ i \in 1..Len(c)
  BY <1>1, ChainFacts
<1>3. PICK d : d = SubSeq(c, 1, i)
  OBVIOUS
<1>4. c[i] \in Block /\ Len(d) = i /\ \A j \in 1..i : d[j] = c[j]
  BY <1>2, <1>3
<1> QED
  BY <1>1, <1>2, <1>3, <1>4

\* No block comes twice on a branch.
LEMMA BlocksDiffer ==
  ASSUME NEW b \in Block, NEW i \in 1..Len(ChainOf[b]), NEW j \in 1..Len(ChainOf[b]),
         ChainOf[b][i] = ChainOf[b][j]
  PROVE  i = j
  BY PartLength

LEMMA ParentChain ==
  ASSUME NEW b \in Block \ {Genesis}
  PROVE  /\ hashPrevBlock[b] \in Block
         /\ ChainOf[b] = Append(ChainOf[hashPrevBlock[b]], b)
         /\ Len(ChainOf[b]) = Len(ChainOf[hashPrevBlock[b]]) + 1
         /\ ChainOf[b][Len(ChainOf[b])] = b
         /\ \A i \in 1..Len(ChainOf[hashPrevBlock[b]]) :
              ChainOf[b][i] = ChainOf[hashPrevBlock[b]][i]
<1>1. hashPrevBlock[b] \in Block
  BY BlockAssumption
<1>2. PICK d : d = ChainOf[hashPrevBlock[b]] /\ d \in Seq(Block)
  BY <1>1, ChainFacts
<1>3. PICK c : c = ChainOf[b] /\ c = Append(d, b)
  BY <1>2, ChainEquation
<1>4. Len(c) = Len(d) + 1 /\ c[Len(c)] = b /\ \A i \in 1..Len(d) : c[i] = d[i]
  BY <1>2, <1>3
<1> QED
  BY <1>1, <1>2, <1>3, <1>4

\* Two branches agree up to their fork and nowhere after it.
LEMMA ForkFacts ==
  ASSUME NEW a \in Block, NEW b \in Block
  PROVE  LET c == ChainOf[a]
             d == ChainOf[b]
             n == CommonLen(c, d)
         IN  /\ n \in 1..Len(c) /\ n \in 1..Len(d)
             /\ \A i \in 1..n : c[i] = d[i]
             /\ \A i \in 1..Len(c) : i <= Len(d) /\ c[i] = d[i] => i <= n
<1>1. PICK c, d : c = ChainOf[a] /\ d = ChainOf[b]
  OBVIOUS
<1>2. Len(c) \in Nat \ {0} /\ Len(d) \in Nat \ {0} /\ c[1] = Genesis /\ d[1] = Genesis
  BY <1>1, ChainFacts
<1> DEFINE Shared == {i \in 1..Len(c) : i <= Len(d) /\ c[i] = d[i]}
<1>3. PICK n \in Shared : \A i \in Shared : i <= n
  <2>1. PICK l : l = Len(c) /\ l \in Nat
    BY <1>2
  <2>2. Shared \subseteq 0..l /\ 1 \in Shared
    BY <1>2, <2>1
  <2> HIDE DEF Shared
  <2> QED
    BY <2>1, <2>2, GreatestExists
<1>4. CommonLen(c, d) = n
  <2>1. CommonLen(c, d) \in Shared /\ \A i \in Shared : CommonLen(c, d) >= i
    BY <1>3 DEF CommonLen, Max
  <2> QED
    BY <1>3, <2>1
<1>5. ASSUME NEW i \in 1..n PROVE c[i] = d[i]
  <2>1. n \in 1..Len(c) /\ n \in 1..Len(d) /\ c[n] = d[n]
    BY <1>2, <1>3
  <2> QED
    BY <1>1, <2>1, PartLength
<1>6. n \in 1..Len(c) /\ n \in 1..Len(d)
  BY <1>2, <1>3
<1>7. \A i \in 1..Len(c) : i <= Len(d) /\ c[i] = d[i] => i <= n
  BY <1>3
<1> QED
  BY <1>1, <1>4, <1>5, <1>6, <1>7

-----------------------------------------------------------------------------
(* The transaction index of a set of places.                               *)

\* What an entry says of who spends the output p.
SpentRight(v, c, P, p) ==
  \/ v = Null /\ \A q \in P : p \notin vin[At(c, q)]
  \/ \E q \in P : p \in vin[At(c, q)] /\ v = c[q.h]

Holder == Block \cup {Null}

EntryOf(t) == [pos : Holder, vSpent : [DOMAIN vout[t] -> Holder]]

\* idx has the shape of an index of the transactions T.
IsIndex(idx, T) == idx = [t \in T |-> idx[t]] /\ \A t \in T : idx[t] \in EntryOf(t)

\* idx is the index of the transactions at the places P of c.
Describes(idx, c, P) ==
  /\ IsIndex(idx, {At(c, o) : o \in P})
  /\ \A o \in P : idx[At(c, o)].pos = c[o.h]
  /\ \A o \in P : \A n \in DOMAIN vout[At(c, o)] :
       SpentRight(idx[At(c, o)].vSpent[n], c, P, [hash |-> At(c, o), n |-> n])

\* Two indexes with the same entries are the same.
LEMMA SameIndex ==
  ASSUME NEW T, NEW x, NEW y, IsIndex(x, T), IsIndex(y, T),
         \A t \in T : /\ x[t].pos = y[t].pos
                      /\ \A n \in DOMAIN vout[t] : x[t].vSpent[n] = y[t].vSpent[n]
  PROVE  x = y
<1>1. ASSUME NEW t \in T PROVE x[t] = y[t]
  <2>1. PICK e, f : e = x[t] /\ f = y[t]
    OBVIOUS
  <2>2. /\ e \in [pos : Holder, vSpent : [DOMAIN vout[t] -> Holder]]
        /\ f \in [pos : Holder, vSpent : [DOMAIN vout[t] -> Holder]]
    BY <2>1 DEF IsIndex, EntryOf
  <2>3. e.pos = f.pos /\ e.vSpent = f.vSpent
    BY <2>1, <2>2
  <2>4. e = f
    BY <2>2, <2>3
  <2> QED
    BY <2>1, <2>4
<1>2. x = [t \in T |-> x[t]] /\ y = [t \in T |-> y[t]]
  BY DEF IsIndex
<1> QED
  BY <1>1, <1>2

LEMMA MarkedEntry ==
  ASSUME NEW T, NEW idx, IsIndex(idx, T), NEW t, NEW mark \in Holder
  PROVE  /\ IsIndex(MarkInputs(idx, t, mark), T)
         /\ \A u \in T :
              /\ MarkInputs(idx, t, mark)[u].pos = idx[u].pos
              /\ \A n \in DOMAIN vout[u] :
                   MarkInputs(idx, t, mark)[u].vSpent[n]
                     = IF [hash |-> u, n |-> n] \in vin[t] THEN mark ELSE idx[u].vSpent[n]
<1>1. PICK m : m = MarkInputs(idx, t, mark)
  OBVIOUS
<1>2. DOMAIN idx = T
  BY DEF IsIndex
<1>3. m = [u \in T |->
             [idx[u] EXCEPT !.vSpent =
                [n \in DOMAIN @ |-> IF [hash |-> u, n |-> n] \in vin[t] THEN mark ELSE @[n]]]]
  BY <1>1, <1>2 DEF MarkInputs
<1>4. ASSUME NEW u \in T
      PROVE  /\ m[u] \in EntryOf(u)
             /\ m[u].pos = idx[u].pos
             /\ \A n \in DOMAIN vout[u] :
                  m[u].vSpent[n] = IF [hash |-> u, n |-> n] \in vin[t] THEN mark ELSE idx[u].vSpent[n]
  <2>1. PICK e : e = idx[u] /\ e \in [pos : Holder, vSpent : [DOMAIN vout[u] -> Holder]]
    BY DEF IsIndex, EntryOf
  <2>2. m[u] = [e EXCEPT !.vSpent =
                 [n \in DOMAIN @ |-> IF [hash |-> u, n |-> n] \in vin[t] THEN mark ELSE @[n]]]
    BY <1>3, <2>1
  <2>3. PICK g : g = [n \in DOMAIN e.vSpent |-> IF [hash |-> u, n |-> n] \in vin[t] THEN mark ELSE e.vSpent[n]]
    OBVIOUS
  <2>4. m[u] = [e EXCEPT !.vSpent = g]
    BY <2>2, <2>3
  <2>5. g \in [DOMAIN vout[u] -> Holder]
    BY <2>1, <2>3
  <2>6. m[u].pos = e.pos /\ m[u].vSpent = g /\ m[u] \in [pos : Holder, vSpent : [DOMAIN vout[u] -> Holder]]
    BY <2>1, <2>4, <2>5
  <2> QED
    BY <2>1, <2>3, <2>6 DEF EntryOf
<1>5. IsIndex(m, T)
  <2>1. m = [u \in T |-> m[u]]
    BY <1>3
  <2> QED
    BY <1>4, <2>1 DEF IsIndex
<1> QED
  BY <1>1, <1>4, <1>5

TxsAt(c, P) == {At(c, o) : o \in P}

\* One more transaction in the index, whose outputs nobody spends yet.
LEMMA IndexAdds ==
  ASSUME NEW c, NEW P, NEW idx, Describes(idx, c, P),
         NEW o, c[o.h] \in Block,
         At(c, o) \notin TxsAt(c, P),
         \A q \in P : vin[At(c, q)] \cap vin[At(c, o)] = {},
         \A q \in P \cup {o} : \A n : [hash |-> At(c, o), n |-> n] \notin vin[At(c, q)]
  PROVE  Describes(With(MarkInputs(idx, At(c, o), c[o.h]), At(c, o), CTxIndex(At(c, o), c[o.h])),
                   c, P \cup {o})
<1>1. PICK t, b, T, m : /\ t = At(c, o) /\ b = c[o.h] /\ T = TxsAt(c, P)
                        /\ m = MarkInputs(idx, t, b)
  OBVIOUS
<1>2. /\ IsIndex(idx, T) /\ t \notin T /\ b \in Holder
      /\ \A q \in P : At(c, q) \in T
      /\ TxsAt(c, P \cup {o}) = T \cup {t}
  BY <1>1 DEF Describes, TxsAt, Holder
<1>3. /\ IsIndex(m, T)
      /\ \A u \in T :
           /\ m[u].pos = idx[u].pos
           /\ \A n \in DOMAIN vout[u] :
                m[u].vSpent[n] = IF [hash |-> u, n |-> n] \in vin[t] THEN b ELSE idx[u].vSpent[n]
  BY <1>1, <1>2, MarkedEntry
<1>4. PICK w, e : w = With(m, t, e) /\ e = CTxIndex(t, b)
  OBVIOUS
<1>5. DOMAIN m = T
  BY <1>3 DEF IsIndex
<1>6. w = [u \in T \cup {t} |-> IF u = t THEN e ELSE m[u]]
  BY <1>4, <1>5 DEF With
<1>7. /\ e \in EntryOf(t) /\ e.pos = b
      /\ \A n \in DOMAIN vout[t] : e.vSpent[n] = Null
  <2>1. PICK f : f = [n \in DOMAIN vout[t] |-> Null]
    OBVIOUS
  <2>2. e = [pos |-> b, vSpent |-> f] /\ f \in [DOMAIN vout[t] -> Holder]
    BY <1>4, <2>1 DEF CTxIndex, Holder
  <2> QED
    BY <1>2, <2>1, <2>2 DEF EntryOf
<1>8. IsIndex(w, T \cup {t})
  <2>1. w = [u \in T \cup {t} |-> w[u]] /\ \A u \in T \cup {t} : w[u] = IF u = t THEN e ELSE m[u]
    BY <1>6
  <2> QED
    BY <1>3, <1>7, <2>1 DEF IsIndex
<1>9. w[t] = e /\ \A u \in T : w[u] = m[u]
  BY <1>2, <1>6
<1>10. ASSUME NEW q \in P \cup {o} PROVE w[At(c, q)].pos = c[q.h]
  <2>1. CASE q \in P
    BY <1>1, <1>2, <1>3, <1>9, <2>1 DEF Describes
  <2>2. CASE q = o
    BY <1>1, <1>7, <1>9, <2>2
  <2> QED
    BY <2>1, <2>2
<1>11. ASSUME NEW q \in P \cup {o}, NEW n \in DOMAIN vout[At(c, q)]
       PROVE  SpentRight(w[At(c, q)].vSpent[n], c, P \cup {o}, [hash |-> At(c, q), n |-> n])
  <2>1. CASE q = o
    <3>1. w[At(c, q)].vSpent[n] = Null
      BY <1>1, <1>7, <1>9, <2>1
    <3> QED
      BY <2>1, <3>1 DEF SpentRight
  <2>2. CASE q \in P
    <3>1. PICK u, p : u = At(c, q) /\ p = [hash |-> u, n |-> n]
      OBVIOUS
    <3>2. /\ w[u].vSpent[n] = IF p \in vin[t] THEN b ELSE idx[u].vSpent[n]
          /\ SpentRight(idx[u].vSpent[n], c, P, p)
      BY <1>2, <1>3, <1>9, <2>2, <3>1 DEF Describes
    <3>3. CASE p \in vin[t]
      BY <1>1, <3>1, <3>2, <3>3 DEF SpentRight
    <3>4. CASE p \notin vin[t]
      BY <1>1, <3>1, <3>2, <3>4 DEF SpentRight
    <3> QED
      BY <3>3, <3>4
  <2> QED
    BY <2>1, <2>2
<1>12. Describes(w, c, P \cup {o})
  BY <1>2, <1>8, <1>10, <1>11 DEF Describes, TxsAt
<1> QED
  BY <1>1, <1>4, <1>12

\* The last transaction leaves the index and releases what it spent.
LEMMA IndexRemoves ==
  ASSUME NEW c, NEW P, NEW o, NEW idx, Describes(idx, c, P \cup {o}),
         At(c, o) \notin TxsAt(c, P),
         \A q \in P : vin[At(c, q)] \cap vin[At(c, o)] = {}
  PROVE  Describes(Without(MarkInputs(idx, At(c, o), Null), At(c, o)), c, P)
<1>1. PICK t, T, m : t = At(c, o) /\ T = TxsAt(c, P) /\ m = MarkInputs(idx, t, Null)
  OBVIOUS
<1>2. /\ IsIndex(idx, T \cup {t}) /\ t \notin T /\ Null \in Holder
      /\ \A q \in P : At(c, q) \in T
  <2>1. TxsAt(c, P \cup {o}) = T \cup {t}
    BY <1>1 DEF TxsAt
  <2> QED
    BY <1>1, <2>1 DEF Describes, TxsAt, Holder
<1>3. /\ IsIndex(m, T \cup {t})
      /\ \A u \in T :
           /\ m[u].pos = idx[u].pos
           /\ \A n \in DOMAIN vout[u] :
                m[u].vSpent[n] = IF [hash |-> u, n |-> n] \in vin[t] THEN Null ELSE idx[u].vSpent[n]
  <2>1. PICK U : U = T \cup {t}
    OBVIOUS
  <2>2. /\ IsIndex(m, U)
        /\ \A u \in U :
           /\ m[u].pos = idx[u].pos
           /\ \A n \in DOMAIN vout[u] :
                m[u].vSpent[n] = IF [hash |-> u, n |-> n] \in vin[t] THEN Null ELSE idx[u].vSpent[n]
    BY <1>1, <1>2, <2>1, MarkedEntry
  <2> QED
    BY <2>1, <2>2
<1>4. PICK w : w = Without(m, t)
  OBVIOUS
<1>5. (DOMAIN m) \ {t} = T
  BY <1>2, <1>3 DEF IsIndex
<1>6. w = [u \in T |-> m[u]]
  BY <1>4, <1>5 DEF Without
<1>7. IsIndex(w, T)
  BY <1>3, <1>6 DEF IsIndex
<1>8. ASSUME NEW q \in P PROVE w[At(c, q)].pos = c[q.h]
  BY <1>2, <1>3, <1>6 DEF Describes
<1>9. ASSUME NEW q \in P, NEW n \in DOMAIN vout[At(c, q)]
       PROVE  SpentRight(w[At(c, q)].vSpent[n], c, P, [hash |-> At(c, q), n |-> n])
  <2>1. PICK u, p : u = At(c, q) /\ p = [hash |-> u, n |-> n]
    OBVIOUS
  <2>2. /\ w[u].vSpent[n] = IF p \in vin[t] THEN Null ELSE idx[u].vSpent[n]
        /\ SpentRight(idx[u].vSpent[n], c, P \cup {o}, p)
    BY <1>2, <1>3, <1>6, <2>1 DEF Describes
  <2>3. CASE p \in vin[t]
    BY <1>1, <2>1, <2>2, <2>3 DEF SpentRight
  <2>4. CASE p \notin vin[t]
    BY <1>1, <2>1, <2>2, <2>4 DEF SpentRight
  <2> QED
    BY <2>3, <2>4
<1>10. Describes(w, c, P)
  BY <1>1, <1>7, <1>8, <1>9 DEF Describes, TxsAt
<1> QED
  BY <1>1, <1>4, <1>10

-----------------------------------------------------------------------------
(* What the folds of Ledger compute, one element after another.            *)

\* The operations that are folded; e tells which one and what else it takes.  The
\* fees are those a miner adds up.
Folded(e, acc, x) ==
  CASE e.op = "ConnectTx" -> ConnectTx(e.idx, e.b, e.immature, e.fVerify, acc, x)
    [] e.op = "DisconnectInputs" -> DisconnectInputs(acc, x)
    [] e.op = "ConnectBlock" -> ConnectBlock(acc, x, e.fVerify)
    [] e.op = "Fees" -> acc + GetValueIn(x) - GetValueOut(x)
    [] OTHER -> DisconnectBlock(acc, x)

\* g gives the result of folding over every set of the first n indices of s.
FoldsTo(g, e, base, s, n) ==
  g = [X \in SUBSET (1..n) |->
         IF X = {} THEN base ELSE Folded(e, g[X \ {Max(X)}], s[Max(X)])]

\* step gives the results of folding over the initial segments of s.
Steps(step, e, base, s) ==
  /\ step[0] = base
  /\ \A k \in 1..Len(s) : step[k] = Folded(e, step[k - 1], s[k])

LEMMA MaxIs ==
  ASSUME NEW S \in SUBSET Int, NEW m \in S, \A x \in S : x <= m
  PROVE  Max(S) = m
<1>1. m \in S /\ \A x \in S : m >= x
  OBVIOUS
<1>2. PICK k : k = CHOOSE j \in S : \A x \in S : j >= x
  OBVIOUS
<1>3. k \in S /\ \A x \in S : k >= x
  BY <1>1, <1>2
<1>4. Max(S) = k
  BY <1>2 DEF Max
<1> QED
  BY <1>1, <1>3, <1>4

LEMMA FoldGrows ==
  ASSUME NEW e, NEW base, NEW s, NEW n \in Nat, NEW g, FoldsTo(g, e, base, s, n)
  PROVE  \E h : FoldsTo(h, e, base, s, n + 1)
<1> DEFINE h == [X \in SUBSET (1..n + 1) |->
                   IF n + 1 \in X THEN Folded(e, g[X \ {n + 1}], s[n + 1]) ELSE g[X]]
<1>1. ASSUME NEW X \in SUBSET (1..n + 1)
      PROVE  h[X] = IF X = {} THEN base ELSE Folded(e, h[X \ {Max(X)}], s[Max(X)])
  <2>1. CASE n + 1 \in X
    <3>1. Max(X) = n + 1
      BY <2>1, MaxIs
    <3>2. X \ {n + 1} \in SUBSET (1..n + 1) /\ n + 1 \notin X \ {n + 1}
      OBVIOUS
    <3>3. h[X \ {n + 1}] = g[X \ {n + 1}]
      BY <3>2
    <3>4. h[X] = Folded(e, g[X \ {n + 1}], s[n + 1])
      BY <2>1
    <3> QED
      BY <2>1, <3>1, <3>3, <3>4
  <2>2. CASE n + 1 \notin X
    <3>1. X \in SUBSET (1..n)
      BY <2>2
    <3>2. h[X] = g[X]
      BY <2>2
    <3>3. h[X \ {Max(X)}] = g[X \ {Max(X)}]
      BY <2>2
    <3>4. g[X] = IF X = {} THEN base ELSE Folded(e, g[X \ {Max(X)}], s[Max(X)])
      BY <3>1 DEF FoldsTo
    <3> QED
      BY <3>2, <3>3, <3>4
  <2> QED
    BY <2>1, <2>2
<1>2. h = [X \in SUBSET (1..n + 1) |-> h[X]]
  OBVIOUS
<1> HIDE DEF h
<1>3. FoldsTo(h, e, base, s, n + 1)
  BY <1>1, <1>2, Zenon DEF FoldsTo
<1> QED
  BY <1>3

LEMMA FoldExists ==
  ASSUME NEW e, NEW base, NEW s, NEW n \in Nat
  PROVE  \E g : FoldsTo(g, e, base, s, n)
<1> DEFINE Fails == {k \in Nat : ~\E g : FoldsTo(g, e, base, s, k)}
<1> SUFFICES ASSUME Fails # {} PROVE FALSE
  OBVIOUS
<1>1. PICK k \in Fails : \A j \in Fails : k <= j
  <2> Fails \subseteq Nat
    OBVIOUS
  <2> HIDE DEF Fails
  <2> QED
    BY LeastExists
<1>2. k # 0
  <2>1. FoldsTo([X \in SUBSET (1..0) |-> base], e, base, s, 0)
    <3>1. SUBSET (1..0) = {{}}
      OBVIOUS
    <3>2. PICK g : g = [X \in SUBSET (1..0) |-> base]
      OBVIOUS
    <3>3. \A X \in SUBSET (1..0) : base = IF X = {} THEN base ELSE Folded(e, g[X \ {Max(X)}], s[Max(X)])
      BY <3>1
    <3>4. g = [X \in SUBSET (1..0) |-> IF X = {} THEN base ELSE Folded(e, g[X \ {Max(X)}], s[Max(X)])]
      BY <3>2, <3>3, Zenon
    <3> QED
      BY <3>2, <3>4 DEF FoldsTo
  <2> QED
    BY <2>1
<1>3. k - 1 \in Nat /\ k - 1 \notin Fails /\ (k - 1) + 1 = k
  BY <1>1, <1>2
<1>4. PICK g : FoldsTo(g, e, base, s, k - 1)
  BY <1>3
<1>5. \E h : FoldsTo(h, e, base, s, (k - 1) + 1)
  BY <1>3, <1>4, FoldGrows
<1> QED
  BY <1>3, <1>5

LEMMA FoldSteps ==
  ASSUME NEW e, NEW base, NEW S, NEW s \in Seq(S), NEW g, FoldsTo(g, e, base, s, Len(s))
  PROVE  \E step : Steps(step, e, base, s) /\ g[1..Len(s)] = step[Len(s)]
<1>1. PICK n \in Nat : n = Len(s)
  OBVIOUS
<1> DEFINE step == [k \in 0..n |-> g[1..k]]
<1>2. \A X \in SUBSET (1..n) :
        g[X] = IF X = {} THEN base ELSE Folded(e, g[X \ {Max(X)}], s[Max(X)])
  BY <1>1 DEF FoldsTo
<1>3. step[0] = base
  <2>1. 1..0 = {}
    OBVIOUS
  <2>2. PICK X : X = {}
    OBVIOUS
  <2>3. X \in SUBSET (1..n)
    BY <2>2
  <2>4. g[X] = base
    BY <1>2, <2>2, <2>3, Zenon
  <2>5. step[0] = g[1..0]
    OBVIOUS
  <2> QED
    BY <2>1, <2>2, <2>4, <2>5
<1>4. ASSUME NEW k \in 1..n PROVE step[k] = Folded(e, step[k - 1], s[k])
  <2>1. Max(1..k) = k
    <3>1. PICK X : X = 1..k
      OBVIOUS
    <3>2. X \in SUBSET Int /\ k \in X /\ \A x \in X : x <= k
      BY <3>1
    <3> QED
      BY <3>1, <3>2, MaxIs
  <2>2. (1..k) \ {k} = 1..k - 1
    OBVIOUS
  <2>3. g[1..k] = Folded(e, g[(1..k) \ {Max(1..k)}], s[Max(1..k)])
    <3>1. PICK X : X = 1..k
      OBVIOUS
    <3>2. X \in SUBSET (1..n) /\ 1 \in X
      BY <3>1
    <3>3. X # {}
      BY <3>2
    <3> QED
      BY <1>2, <3>1, <3>2, <3>3
  <2>4. g[1..k] = Folded(e, g[1..k - 1], s[k])
    BY <2>1, <2>2, <2>3
  <2> QED
    BY <2>4
<1>5. step[n] = g[1..n]
  OBVIOUS
<1>6. Steps(step, e, base, s)
  <2> HIDE DEF step
  <2> QED
    BY <1>1, <1>3, <1>4 DEF Steps
<1> QED
  BY <1>1, <1>5, <1>6

LEMMA FoldResult ==
  ASSUME NEW e, NEW base, NEW S, NEW s \in Seq(S)
  PROVE  /\ \E g : FoldsTo(g, e, base, s, Len(s))
         /\ DOMAIN s = 1..Len(s)
<1>1. Len(s) \in Nat /\ DOMAIN s = 1..Len(s)
  OBVIOUS
<1> QED
  BY <1>1, FoldExists

\* ConnectBlock handles the transactions of the block one after another.
TxSteps(step, r, b, fVerify) ==
  /\ step[0] = [ok |-> r.ok /\ CheckBlock(b), idx |-> r.idx, fees |-> 0]
  /\ \A k \in 1..Len(vtx[b]) :
       step[k] = ConnectTx(r.idx, b, ImmatureBlocks(b), fVerify, step[k - 1], vtx[b][k])
  /\ ConnectBlock(r, b, fVerify)
       = [ok  |-> /\ step[Len(vtx[b])].ok
                  /\ ~CoinbasePaysTooMuch(b, step[Len(vtx[b])].fees),
          idx |-> step[Len(vtx[b])].idx]

LEMMA ConnectBlockSteps ==
  ASSUME NEW r, NEW b \in Block, NEW fVerify
  PROVE  \E step : TxSteps(step, r, b, fVerify)
<1>1. PICK e, base, im, x, s :
        /\ im = ImmatureBlocks(b) /\ x = r.idx /\ s = vtx[b]
        /\ e = [op |-> "ConnectTx", idx |-> x, b |-> b, immature |-> im, fVerify |-> fVerify]
        /\ base = [ok |-> r.ok /\ CheckBlock(b), idx |-> x, fees |-> 0]
  OBVIOUS
<1>2. s \in Seq(Tx)
  BY <1>1, BlockAssumption
<1>3. \A acc, t : Folded(e, acc, t) = ConnectTx(x, b, im, fVerify, acc, t)
  BY <1>1 DEF Folded
<1>4. \A g : FoldsTo(g, e, base, s, Len(s)) <=>
            g = [X \in SUBSET (1..Len(s)) |->
                 IF X = {} THEN base ELSE ConnectTx(x, b, im, fVerify, g[X \ {Max(X)}], s[Max(X)])]
  BY <1>3 DEF FoldsTo
<1>5. PICK g :
        g = CHOOSE h :
            h = [X \in SUBSET (1..Len(s)) |->
                 IF X = {} THEN base ELSE ConnectTx(x, b, im, fVerify, h[X \ {Max(X)}], s[Max(X)])]
  OBVIOUS
<1>6. FoldsTo(g, e, base, s, Len(s))
  BY <1>2, <1>4, <1>5, FoldResult
<1>7. FoldLeft(LAMBDA acc, t : ConnectTx(x, b, im, fVerify, acc, t), base, s) = g[1..Len(s)]
  BY <1>2, <1>5, FoldResult DEF FoldLeft, MapThenFoldSet
<1>8. PICK step : Steps(step, e, base, s) /\ g[1..Len(s)] = step[Len(s)]
  BY <1>2, <1>6, FoldSteps
<1>9. ConnectBlock(r, b, fVerify)
        = [ok  |-> step[Len(s)].ok /\ ~CoinbasePaysTooMuch(b, step[Len(s)].fees),
           idx |-> step[Len(s)].idx]
  BY <1>1, <1>7, <1>8 DEF ConnectBlock, FoldLeft, MapThenFoldSet
<1>10. /\ step[0] = base
       /\ \A k \in 1..Len(s) : step[k] = ConnectTx(x, b, im, fVerify, step[k - 1], s[k])
  BY <1>3, <1>8 DEF Steps
<1> QED
  BY <1>1, <1>9, <1>10 DEF TxSteps

\* DisconnectBlock handles them last to first.
BackSteps(step, r, b) ==
  /\ step[0] = r
  /\ \A k \in 1..Len(vtx[b]) :
       step[k] = DisconnectInputs(step[k - 1], vtx[b][Len(vtx[b]) + 1 - k])
  /\ DisconnectBlock(r, b) = step[Len(vtx[b])]

LEMMA DisconnectBlockSteps ==
  ASSUME NEW r, NEW b \in Block
  PROVE  \E step : BackSteps(step, r, b)
<1>1. PICK e, v, s : e = [op |-> "DisconnectInputs"] /\ v = vtx[b] /\ s = Reverse(v)
  OBVIOUS
<1>2. v \in Seq(Tx)
  BY <1>1, BlockAssumption
<1>3. s \in Seq(Tx) /\ Len(s) = Len(v) /\ \A k \in 1..Len(v) : s[k] = v[Len(v) + 1 - k]
  BY <1>1, <1>2 DEF Reverse
<1>4. \A acc, t : Folded(e, acc, t) = DisconnectInputs(acc, t)
  BY <1>1 DEF Folded
<1>5. \A g : FoldsTo(g, e, r, s, Len(s)) <=>
            g = [X \in SUBSET (1..Len(s)) |->
                 IF X = {} THEN r ELSE DisconnectInputs(g[X \ {Max(X)}], s[Max(X)])]
  BY <1>4 DEF FoldsTo
<1>6. PICK g :
        g = CHOOSE h :
            h = [X \in SUBSET (1..Len(s)) |->
                 IF X = {} THEN r ELSE DisconnectInputs(h[X \ {Max(X)}], s[Max(X)])]
  OBVIOUS
<1>7. FoldsTo(g, e, r, s, Len(s))
  BY <1>3, <1>5, <1>6, FoldResult
<1>8. FoldLeft(DisconnectInputs, r, s) = g[1..Len(s)]
  BY <1>3, <1>6, FoldResult DEF FoldLeft, MapThenFoldSet
<1>9. PICK step : Steps(step, e, r, s) /\ g[1..Len(s)] = step[Len(s)]
  BY <1>3, <1>7, FoldSteps
<1>10. DisconnectBlock(r, b) = step[Len(s)]
  BY <1>1, <1>8, <1>9 DEF DisconnectBlock, FoldLeft, MapThenFoldSet
<1>11. step[0] = r /\ \A k \in 1..Len(s) : step[k] = DisconnectInputs(step[k - 1], s[k])
  BY <1>4, <1>9 DEF Steps
<1> QED
  BY <1>1, <1>3, <1>10, <1>11 DEF BackSteps

\* The two loops of Reorganize.
DisconnectAll(r, s) == FoldLeft(DisconnectBlock, r, s)

ConnectAll(r, s, fVerify) == FoldLeft(LAMBDA acc, b : ConnectBlock(acc, b, fVerify), r, s)

BlocksOff(step, r, s) ==
  /\ step[0] = r
  /\ \A k \in 1..Len(s) : step[k] = DisconnectBlock(step[k - 1], s[k])
  /\ DisconnectAll(r, s) = step[Len(s)]

LEMMA DisconnectSteps ==
  ASSUME NEW r, NEW s \in Seq(Block)
  PROVE  \E step : BlocksOff(step, r, s)
<1>1. PICK e : e = [op |-> "DisconnectBlock"]
  OBVIOUS
<1>2. \A acc, t : Folded(e, acc, t) = DisconnectBlock(acc, t)
  BY <1>1 DEF Folded
<1>3. \A g : FoldsTo(g, e, r, s, Len(s)) <=>
            g = [X \in SUBSET (1..Len(s)) |->
                 IF X = {} THEN r ELSE DisconnectBlock(g[X \ {Max(X)}], s[Max(X)])]
  BY <1>2 DEF FoldsTo
<1>4. PICK g :
        g = CHOOSE h :
            h = [X \in SUBSET (1..Len(s)) |->
                 IF X = {} THEN r ELSE DisconnectBlock(h[X \ {Max(X)}], s[Max(X)])]
  OBVIOUS
<1>5. FoldsTo(g, e, r, s, Len(s))
  BY <1>3, <1>4, FoldResult
<1>6. DisconnectAll(r, s) = g[1..Len(s)]
  BY <1>4, FoldResult DEF DisconnectAll, FoldLeft, MapThenFoldSet
<1>7. PICK step : Steps(step, e, r, s) /\ g[1..Len(s)] = step[Len(s)]
  BY <1>5, FoldSteps
<1> QED
  BY <1>2, <1>6, <1>7 DEF Steps, BlocksOff

BlocksOn(step, r, s, fVerify) ==
  /\ step[0] = r
  /\ \A k \in 1..Len(s) : step[k] = ConnectBlock(step[k - 1], s[k], fVerify)
  /\ ConnectAll(r, s, fVerify) = step[Len(s)]

LEMMA ConnectSteps ==
  ASSUME NEW r, NEW s \in Seq(Block), NEW fVerify
  PROVE  \E step : BlocksOn(step, r, s, fVerify)
<1>1. PICK e : e = [op |-> "ConnectBlock", fVerify |-> fVerify]
  OBVIOUS
<1>2. \A acc, t : Folded(e, acc, t) = ConnectBlock(acc, t, fVerify)
  BY <1>1 DEF Folded
<1>3. \A g : FoldsTo(g, e, r, s, Len(s)) <=>
            g = [X \in SUBSET (1..Len(s)) |->
                 IF X = {} THEN r ELSE ConnectBlock(g[X \ {Max(X)}], s[Max(X)], fVerify)]
  BY <1>2 DEF FoldsTo
<1>4. PICK g :
        g = CHOOSE h :
            h = [X \in SUBSET (1..Len(s)) |->
                 IF X = {} THEN r ELSE ConnectBlock(h[X \ {Max(X)}], s[Max(X)], fVerify)]
  OBVIOUS
<1>5. FoldsTo(g, e, r, s, Len(s))
  BY <1>3, <1>4, FoldResult
<1>6. ConnectAll(r, s, fVerify) = g[1..Len(s)]
  BY <1>4, FoldResult DEF ConnectAll, FoldLeft, MapThenFoldSet
<1>7. PICK step : Steps(step, e, r, s) /\ g[1..Len(s)] = step[Len(s)]
  BY <1>5, FoldSteps
<1> QED
  BY <1>2, <1>6, <1>7 DEF Steps, BlocksOn

LEMMA ReorganizeLoops ==
  ASSUME NEW idx, NEW from, NEW to, NEW fVerify
  PROVE  ReorganizeIndex(idx, from, to, fVerify)
           = ConnectAll(DisconnectAll([ok |-> TRUE, idx |-> idx], vDisconnect(from, to)),
                        vConnect(from, to), fVerify)
  BY DEF ReorganizeIndex, ConnectAll, DisconnectAll

-----------------------------------------------------------------------------
(* The places of a chain, block by block.                                  *)

OwnPlace(b, k) == [h |-> Len(ChainOf[b]), k |-> k]

\* The places before the block b and the first k of its own.
Upto(b, k) == Places(ChainOf[hashPrevBlock[b]]) \cup {OwnPlace(b, j) : j \in 1..k}

LEMMA PlaceFacts ==
  ASSUME NEW c \in Seq(Block), NEW o \in Places(c)
  PROVE  /\ o.h \in 2..Len(c)
         /\ o.k \in 1..Len(vtx[c[o.h]])
         /\ o = [h |-> o.h, k |-> o.k]
         /\ c[o.h] \in Block
         /\ At(c, o) \in Tx
<1>1. PICK h \in 2..Len(c) : \E k \in DOMAIN vtx[c[h]] : o = [h |-> h, k |-> k]
  BY DEF Places
<1>2. PICK k \in DOMAIN vtx[c[h]] : o = [h |-> h, k |-> k]
  BY <1>1
<1>3. Len(c) \in Nat /\ h \in 1..Len(c) /\ c[h] \in Block
  BY <1>1
<1>4. PICK v : v = vtx[c[h]] /\ v \in Seq(Tx)
  BY <1>3, BlockAssumption
<1>5. k \in 1..Len(v) /\ v[k] \in Tx
  BY <1>4
<1> QED
  BY <1>2, <1>3, <1>4, <1>5 DEF At

LEMMA PlaceIs ==
  ASSUME NEW c \in Seq(Block), NEW h \in 2..Len(c),
         NEW k \in 1..Len(vtx[c[h]])
  PROVE  [h |-> h, k |-> k] \in Places(c)
<1>1. h \in 1..Len(c) /\ c[h] \in Block
  OBVIOUS
<1>2. vtx[c[h]] \in Seq(Tx)
  BY <1>1, BlockAssumption
<1>3. k \in DOMAIN vtx[c[h]]
  BY <1>2
<1> QED
  BY <1>3 DEF Places

LEMMA GenesisPlaces == Places(ChainOf[Genesis]) = {}
<1>1. PICK c : c = ChainOf[Genesis] /\ c = <<Genesis>>
  BY ChainEquation, BlockAssumption
<1>2. c \in Seq(Block) /\ Len(c) = 1
  BY <1>1, BlockAssumption
<1>3. \A o \in Places(c) : o.h \in 2..1
  BY <1>2, PlaceFacts
<1> QED
  BY <1>1, <1>3

\* The same place in a chain and in the chain of the parent.
LEMMA OldPlaces ==
  ASSUME NEW b \in Block \ {Genesis}, NEW c, NEW d,
         c = ChainOf[b], d = ChainOf[hashPrevBlock[b]]
  PROVE  /\ c \in Seq(Block) /\ d \in Seq(Block) /\ Len(c) \in Nat /\ Len(c) = Len(d) + 1
         /\ Len(d) \in Nat \ {0}
         /\ c[Len(c)] = b
         /\ Places(d) \subseteq Places(c)
         /\ \A o \in Places(d) : /\ o.h \in 2..Len(d)
                                 /\ c[o.h] = d[o.h]
                                 /\ At(c, o) = At(d, o)
         /\ \A o \in Places(c) : o.h # Len(c) => o \in Places(d)
<1>1. /\ hashPrevBlock[b] \in Block
      /\ c \in Seq(Block) /\ d \in Seq(Block) /\ Len(c) \in Nat /\ Len(c) = Len(d) + 1
      /\ Len(d) \in Nat \ {0}
      /\ c[Len(c)] = b
      /\ \A i \in 1..Len(d) : c[i] = d[i]
  BY ParentChain, ChainFacts
<1>2. PICK n \in Nat \ {0} : n = Len(d) /\ Len(c) = n + 1
  BY <1>1
<1>3. ASSUME NEW o \in Places(d)
      PROVE  /\ o.h \in 2..n /\ c[o.h] = d[o.h] /\ At(c, o) = At(d, o) /\ o \in Places(c)
  <2>1. /\ o.h \in 2..n /\ o.k \in 1..Len(vtx[d[o.h]]) /\ o = [h |-> o.h, k |-> o.k]
    BY <1>1, <1>2, PlaceFacts
  <2>2. o.h \in 1..n /\ o.h \in 2..n + 1
    BY <2>1
  <2>3. c[o.h] = d[o.h]
    BY <1>1, <1>2, <2>2
  <2>4. o \in Places(c)
    BY <1>1, <1>2, <2>1, <2>2, <2>3, PlaceIs
  <2> QED
    BY <2>1, <2>3, <2>4 DEF At
<1>4. ASSUME NEW o \in Places(c), o.h # Len(c)
      PROVE  o \in Places(d)
  <2>1. /\ o.h \in 2..n + 1 /\ o.k \in 1..Len(vtx[c[o.h]]) /\ o = [h |-> o.h, k |-> o.k]
    BY <1>1, <1>2, PlaceFacts
  <2>2. o.h \in 2..n /\ o.h \in 1..n
    BY <1>2, <1>4, <2>1
  <2>3. c[o.h] = d[o.h]
    BY <1>1, <1>2, <2>2
  <2> QED
    BY <1>1, <1>2, <2>1, <2>2, <2>3, PlaceIs
<1> QED
  BY <1>1, <1>2, <1>3, <1>4

\* The places of a block, one after another.
LEMMA NewPlaces ==
  ASSUME NEW b \in Block \ {Genesis}, NEW c, NEW d, NEW m,
         c = ChainOf[b], d = ChainOf[hashPrevBlock[b]], m = Len(vtx[b])
  PROVE  /\ m \in Nat
         /\ Places(c) = Upto(b, m)
         /\ Upto(b, 0) = Places(d)
         /\ \A k \in 1..m : /\ Upto(b, k) = Upto(b, k - 1) \cup {OwnPlace(b, k)}
                            /\ Upto(b, k) \subseteq Places(c)
                            /\ At(c, OwnPlace(b, k)) = vtx[b][k]
                            /\ vtx[b][k] \in Tx
                            /\ c[OwnPlace(b, k).h] = b
                            /\ OwnPlace(b, k).h = Len(c)
                            /\ OwnPlace(b, k).k = k
                            /\ OwnPlace(b, k) \in Places(c)
                            /\ OwnPlace(b, k) \notin Upto(b, k - 1)
         /\ \A k \in 0..m : \A o \in Upto(b, k) :
              o \in Places(d) \/ \E j \in 1..k : o = OwnPlace(b, j)
<1>1. /\ c \in Seq(Block) /\ d \in Seq(Block) /\ Len(c) \in Nat /\ Len(c) = Len(d) + 1
      /\ Len(d) \in Nat \ {0}
      /\ c[Len(c)] = b
      /\ Places(d) \subseteq Places(c)
      /\ \A o \in Places(d) : o.h \in 2..Len(d)
      /\ \A o \in Places(c) : o.h # Len(c) => o \in Places(d)
  BY OldPlaces, ZenonT(60)
<1>2. PICK l \in Nat \ {0, 1} : l = Len(c)
  BY <1>1
<1>3. vtx[b] \in Seq(Tx) /\ m \in Nat
  BY BlockAssumption
<1>4. \A k : OwnPlace(b, k) = [h |-> l, k |-> k]
  BY <1>2 DEF OwnPlace
<1>5. ASSUME NEW k \in 1..m
      PROVE  OwnPlace(b, k) \in Places(c)
  <2>1. l \in 2..Len(c) /\ k \in 1..Len(vtx[c[l]])
    BY <1>1, <1>2
  <2> QED
    BY <1>1, <1>4, <2>1, PlaceIs
<1>6. ASSUME NEW o \in Places(c), o \notin Places(d)
      PROVE  \E k \in 1..m : o = OwnPlace(b, k)
  <2>1. o.h = l /\ o.k \in 1..Len(vtx[c[o.h]]) /\ o = [h |-> o.h, k |-> o.k]
    BY <1>1, <1>2, <1>6, PlaceFacts
  <2> QED
    BY <1>1, <1>2, <1>4, <2>1
<1>7. Places(c) = Upto(b, m)
  BY <1>1, <1>5, <1>6 DEF Upto
<1>8. Upto(b, 0) = Places(d)
  <2>1. 1..0 = {}
    OBVIOUS
  <2> QED
    BY <2>1 DEF Upto
<1>9. ASSUME NEW k \in 1..m
      PROVE  /\ Upto(b, k) = Upto(b, k - 1) \cup {OwnPlace(b, k)}
             /\ Upto(b, k) \subseteq Places(c)
             /\ OwnPlace(b, k) \notin Upto(b, k - 1)
  <2>1. 1..k = (1..k - 1) \cup {k} /\ k \notin 1..k - 1 /\ 1..k \subseteq 1..m
    BY <1>3
  <2>2. Upto(b, k) = Upto(b, k - 1) \cup {OwnPlace(b, k)}
    BY <2>1 DEF Upto
  <2>3. Upto(b, k) \subseteq Places(c)
    BY <1>1, <1>5, <2>1 DEF Upto
  <2>4. OwnPlace(b, k) \notin Places(d)
    BY <1>1, <1>2, <1>4
  <2>5. OwnPlace(b, k) \notin Upto(b, k - 1)
    <3>1. ASSUME NEW j \in 1..k - 1 PROVE OwnPlace(b, j) # OwnPlace(b, k)
      <4>1. j # k
        BY <2>1
      <4>2. OwnPlace(b, j).k = j /\ OwnPlace(b, k).k = k
        BY <1>4
      <4> QED
        BY <4>1, <4>2
    <3> QED
      BY <2>4, <3>1 DEF Upto
  <2> QED
    BY <2>2, <2>3, <2>5
<1>10. ASSUME NEW k \in 1..m
       PROVE  /\ At(c, OwnPlace(b, k)) = vtx[b][k]
              /\ vtx[b][k] \in Tx
              /\ c[OwnPlace(b, k).h] = b
              /\ OwnPlace(b, k).h = Len(c)
              /\ OwnPlace(b, k).k = k
  <2>1. OwnPlace(b, k).h = l /\ OwnPlace(b, k).k = k
    BY <1>4
  <2> QED
    BY <1>1, <1>2, <1>3, <2>1 DEF At
<1>11. \A k \in 0..m : \A o \in Upto(b, k) :
         o \in Places(d) \/ \E j \in 1..k : o = OwnPlace(b, j)
  BY DEF Upto
<1> QED
  BY <1>3, <1>5, <1>7, <1>8, <1>9, <1>10, <1>11, Zenon

-----------------------------------------------------------------------------
(* The chain rules, one transaction after another.                         *)

Earlier(c, o) == {q \in Places(c) : Before(q, o)}

\* The transaction at o may follow those at the places P.
Joins(c, P, o) ==
  /\ At(c, o) \notin TxsAt(c, P)
  /\ \A p \in vin[At(c, o)] :
       \E q \in P : /\ At(c, q) = p.hash
                    /\ p.n \in DOMAIN vout[p.hash]
                    /\ IsCoinBase(p.hash) => o.h - q.h >= COINBASE_MATURITY
  /\ \A q \in P : vin[At(c, q)] \cap vin[At(c, o)] = {}
  /\ ~IsCoinBase(At(c, o)) => GetValueIn(At(c, o)) >= GetValueOut(At(c, o))

\* What ConnectBlock asks of a chain, signatures aside.
SoundChain(c) ==
  /\ \A h \in 2..Len(c) : CheckBlock(c[h]) /\ ~CoinbasePaysTooMuch(c[h], Fees(c[h]))
  /\ \A o \in Places(c) : Joins(c, Earlier(c, o), o)

Signed(b) ==
  \A k \in 1..Len(vtx[b]) : ~IsCoinBase(vtx[b][k]) => vtx[b][k] \notin BadSignature

\* Of two places one comes first.
LEMMA PlacesInOrder ==
  ASSUME NEW c \in Seq(Block), NEW o \in Places(c), NEW q \in Places(c)
  PROVE  /\ o # q => Before(o, q) \/ Before(q, o)
         /\ Before(o, q) => ~Before(q, o) /\ o # q
<1>1. /\ o.h \in Int /\ o.k \in Int /\ o = [h |-> o.h, k |-> o.k]
      /\ q.h \in Int /\ q.k \in Int /\ q = [h |-> q.h, k |-> q.k]
  <2>1. Len(c) \in Nat
    OBVIOUS
  <2>2. /\ o.h \in 2..Len(c) /\ o.k \in 1..Len(vtx[c[o.h]]) /\ o = [h |-> o.h, k |-> o.k]
        /\ q.h \in 2..Len(c) /\ q.k \in 1..Len(vtx[c[q.h]]) /\ q = [h |-> q.h, k |-> q.k]
        /\ c[o.h] \in Block /\ c[q.h] \in Block
    BY PlaceFacts
  <2>3. /\ vtx[c[o.h]] \in Seq(Tx) /\ vtx[c[q.h]] \in Seq(Tx)
    BY <2>2, BlockAssumption
  <2>4. Len(vtx[c[o.h]]) \in Nat /\ Len(vtx[c[q.h]]) \in Nat
    BY <2>3
  <2> QED
    BY <2>1, <2>2, <2>4
<1>2. PICK a, e, i, j \in Int : a = o.h /\ e = o.k /\ i = q.h /\ j = q.k
  BY <1>1
<1>3. o # q => (a < i \/ (a = i /\ e < j)) \/ (i < a \/ (i = a /\ j < e))
  BY <1>1, <1>2
<1>4. (a < i \/ (a = i /\ e < j)) => ~(i < a \/ (i = a /\ j < e)) /\ o # q
  BY <1>2
<1> QED
  BY <1>2, <1>3, <1>4 DEF Before

\* The transaction rules of ChainRules say that each transaction may follow the
\* earlier ones.
LEMMA RulesInOrder ==
  ASSUME NEW c \in Seq(Block)
  PROVE  (\A o \in Places(c) : Joins(c, Earlier(c, o), o)) <=>
           /\ InputsExist(c)
           /\ NoDoubleSpend(c)
           /\ \A o \in Places(c) : ~IsCoinBase(At(c, o)) =>
                GetValueIn(At(c, o)) >= GetValueOut(At(c, o))
<1>1. ASSUME \A o \in Places(c) : Joins(c, Earlier(c, o), o)
      PROVE  /\ InputsExist(c)
             /\ NoDoubleSpend(c)
             /\ \A o \in Places(c) : ~IsCoinBase(At(c, o)) =>
                  GetValueIn(At(c, o)) >= GetValueOut(At(c, o))
  <2>1. InputsExist(c)
    BY <1>1 DEF Joins, Earlier, InputsExist
  <2>2. ASSUME NEW o \in Places(c), NEW q \in Places(c), Before(q, o)
        PROVE  At(c, o) # At(c, q) /\ vin[At(c, o)] \cap vin[At(c, q)] = {}
    <3>1. q \in Earlier(c, o) /\ At(c, q) \in TxsAt(c, Earlier(c, o))
      BY <2>2 DEF Earlier, TxsAt
    <3>2. At(c, o) \notin TxsAt(c, Earlier(c, o))
      BY <1>1 DEF Joins
    <3>3. vin[At(c, q)] \cap vin[At(c, o)] = {}
      BY <1>1, <3>1 DEF Joins
    <3> QED
      BY <3>1, <3>2, <3>3
  <2>3. NoDoubleSpend(c)
    BY <2>2, PlacesInOrder DEF NoDoubleSpend
  <2> QED
    BY <1>1, <2>1, <2>3 DEF Joins
<1>2. ASSUME InputsExist(c), NoDoubleSpend(c), NEW o \in Places(c),
             ~IsCoinBase(At(c, o)) => GetValueIn(At(c, o)) >= GetValueOut(At(c, o))
      PROVE  Joins(c, Earlier(c, o), o)
  <2>1. \A q \in Earlier(c, o) : q \in Places(c) /\ q # o
    BY PlacesInOrder DEF Earlier
  <2>2. /\ At(c, o) \notin TxsAt(c, Earlier(c, o))
        /\ \A q \in Earlier(c, o) : vin[At(c, q)] \cap vin[At(c, o)] = {}
    BY <1>2, <2>1 DEF NoDoubleSpend, TxsAt
  <2>3. \A p \in vin[At(c, o)] :
          \E q \in Earlier(c, o) : /\ At(c, q) = p.hash
                                   /\ p.n \in DOMAIN vout[p.hash]
                                   /\ IsCoinBase(p.hash) => o.h - q.h >= COINBASE_MATURITY
    BY <1>2 DEF InputsExist, Earlier
  <2> QED
    BY <1>2, <2>2, <2>3 DEF Joins
<1> QED
  BY <1>1, <1>2

\* What comes before a transaction of the last block, and before an older one.
LEMMA EarlierInBlock ==
  ASSUME NEW b \in Block \ {Genesis}, NEW c, c = ChainOf[b], NEW k \in 1..Len(vtx[b])
  PROVE  Earlier(c, OwnPlace(b, k)) = Upto(b, k - 1)
<1>1. PICK d, m, o : d = ChainOf[hashPrevBlock[b]] /\ m = Len(vtx[b]) /\ o = OwnPlace(b, k)
  OBVIOUS
<1>2. /\ c \in Seq(Block) /\ Len(c) \in Nat /\ Len(d) \in Nat /\ Len(c) = Len(d) + 1
      /\ Places(d) \subseteq Places(c)
      /\ \A q \in Places(d) : q.h \in 2..Len(d)
      /\ \A q \in Places(c) : q.h # Len(c) => q \in Places(d)
  <2>1. d = ChainOf[hashPrevBlock[b]]
    BY <1>1
  <2>2. c \in Seq(Block) /\ Len(c) \in Nat /\ Len(c) = Len(d) + 1
    BY <2>1, OldPlaces
  <2>3. Len(d) \in Nat /\ Places(d) \subseteq Places(c)
    BY <2>1, OldPlaces
  <2>4. \A q \in Places(d) : q.h \in 2..Len(d)
    BY <2>1, OldPlaces
  <2>5. \A q \in Places(c) : q.h # Len(c) => q \in Places(d)
    BY <2>1, OldPlaces
  <2> QED
    BY <2>2, <2>3, <2>4, <2>5
<1>3. /\ m \in Nat /\ k \in 1..m /\ Places(c) = Upto(b, m)
      /\ o.h = Len(c) /\ o.k = k
      /\ \A j \in 1..m : OwnPlace(b, j).h = Len(c) /\ OwnPlace(b, j).k = j /\ OwnPlace(b, j) \in Places(c)
      /\ \A q \in Places(c) : q \in Places(d) \/ \E j \in 1..m : q = OwnPlace(b, j)
  <2>1. m \in Nat /\ Places(c) = Upto(b, m)
    BY <1>1, NewPlaces
  <2>2. \A j \in 1..m : OwnPlace(b, j).h = Len(c) /\ OwnPlace(b, j).k = j /\ OwnPlace(b, j) \in Places(c)
    BY <1>1, NewPlaces
  <2>3. k \in 1..m /\ o.h = Len(c) /\ o.k = k
    BY <1>1, <2>2
  <2>4. \A i \in 0..m : \A q \in Upto(b, i) : q \in Places(d) \/ \E j \in 1..i : q = OwnPlace(b, j)
    BY <1>1, NewPlaces
  <2>5. m \in 0..m
    BY <2>1
  <2>6. \A q \in Upto(b, m) : q \in Places(d) \/ \E j \in 1..m : q = OwnPlace(b, j)
    BY <2>4, <2>5
  <2> QED
    BY <2>1, <2>2, <2>3, <2>6
<1>4. PICK l \in Nat : l = Len(c) /\ Len(d) = l - 1
  BY <1>2
<1>5. ASSUME NEW q \in Places(d)
      PROVE  Before(q, o)
  BY <1>2, <1>3, <1>4 DEF Before
<1>6. ASSUME NEW j \in 1..m
      PROVE  Before(OwnPlace(b, j), o) <=> j \in 1..k - 1
  BY <1>3, <1>4 DEF Before
<1>7. 1..k - 1 \subseteq 1..m
  BY <1>3
<1>8. ASSUME NEW q \in Upto(b, k - 1) PROVE q \in Earlier(c, o)
  BY <1>1, <1>2, <1>3, <1>5, <1>6, <1>7 DEF Upto, Earlier
<1>9. ASSUME NEW q \in Earlier(c, o) PROVE q \in Upto(b, k - 1)
  BY <1>1, <1>3, <1>6 DEF Upto, Earlier
<1> QED
  BY <1>1, <1>8, <1>9

LEMMA EarlierInChain ==
  ASSUME NEW b \in Block \ {Genesis}, NEW c, NEW d,
         c = ChainOf[b], d = ChainOf[hashPrevBlock[b]], NEW o \in Places(d)
  PROVE  Earlier(c, o) = Earlier(d, o)
<1>1. /\ c \in Seq(Block) /\ Len(c) \in Nat /\ Len(d) \in Nat /\ Len(c) = Len(d) + 1
      /\ Places(d) \subseteq Places(c)
      /\ \A q \in Places(d) : q.h \in 2..Len(d)
      /\ \A q \in Places(c) : q.h # Len(c) => q \in Places(d)
  BY OldPlaces, ZenonT(60)
<1>2. ASSUME NEW q \in Places(c), Before(q, o)
      PROVE  q \in Places(d)
  <2>1. PICK l \in Nat : l = Len(c) /\ Len(d) = l - 1 /\ o.h \in 2..l - 1
    BY <1>1
  <2>2. ~(l < o.h \/ l = o.h)
    BY <2>1
  <2>3. q.h # l
    BY <1>2, <2>2 DEF Before
  <2> QED
    BY <1>1, <2>1, <2>3
<1> QED
  BY <1>1, <1>2 DEF Earlier

\* A chain is sound if that of the parent is, and the last block may follow it.
LEMMA SoundStep ==
  ASSUME NEW b \in Block \ {Genesis}, NEW c, NEW d,
         c = ChainOf[b], d = ChainOf[hashPrevBlock[b]]
  PROVE  SoundChain(c) <=>
           /\ SoundChain(d)
           /\ CheckBlock(b)
           /\ \A k \in 1..Len(vtx[b]) : Joins(c, Upto(b, k - 1), OwnPlace(b, k))
           /\ ~CoinbasePaysTooMuch(b, Fees(b))
<1>1. /\ c \in Seq(Block) /\ Len(c) \in Nat /\ Len(d) \in Nat \ {0} /\ Len(c) = Len(d) + 1
      /\ Places(d) \subseteq Places(c)
      /\ c[Len(c)] = b
      /\ \A o \in Places(d) : o.h \in 2..Len(d) /\ c[o.h] = d[o.h] /\ At(c, o) = At(d, o)
  BY OldPlaces, SMTT(30)
<1>2. \A i \in 1..Len(d) : c[i] = d[i]
  BY ParentChain
<1>3. (\A h \in 2..Len(c) : CheckBlock(c[h]) /\ ~CoinbasePaysTooMuch(c[h], Fees(c[h]))) <=>
        /\ \A h \in 2..Len(d) : CheckBlock(d[h]) /\ ~CoinbasePaysTooMuch(d[h], Fees(d[h]))
        /\ CheckBlock(b) /\ ~CoinbasePaysTooMuch(b, Fees(b))
  <2>1. PICK n \in Nat \ {0} : n = Len(d) /\ Len(c) = n + 1
    BY <1>1
  <2>2. 2..n + 1 = (2..n) \cup {n + 1} /\ 2..n \subseteq 1..n
    BY <2>1
  <2>3. c[n + 1] = b /\ \A h \in 2..n : c[h] = d[h]
    BY <1>1, <1>2, <2>1, <2>2
  <2> QED
    BY <2>1, <2>2, <2>3
<1>4. ASSUME NEW o \in Places(d)
      PROVE  Joins(c, Earlier(c, o), o) <=> Joins(d, Earlier(d, o), o)
  <2>1. PICK P : P = Earlier(d, o)
    OBVIOUS
  <2>2. P \subseteq Places(d) /\ Earlier(c, o) = P
    BY <2>1, EarlierInChain DEF Earlier
  <2>3. TxsAt(c, P) = TxsAt(d, P)
    BY <1>1, <2>2 DEF TxsAt
  <2>4. Joins(c, P, o) <=> Joins(d, P, o)
    BY <1>1, <2>2, <2>3 DEF Joins
  <2> QED
    BY <2>1, <2>2, <2>4
<1>5. /\ \A o \in Places(c) : o \in Places(d) \/ \E k \in 1..Len(vtx[b]) : o = OwnPlace(b, k)
      /\ \A k \in 1..Len(vtx[b]) : OwnPlace(b, k) \in Places(c)
  <2>1. PICK m : m = Len(vtx[b])
    OBVIOUS
  <2>2. /\ m \in Nat /\ Places(c) = Upto(b, m)
        /\ \A k \in 1..m : OwnPlace(b, k) \in Places(c)
        /\ \A o \in Upto(b, m) : o \in Places(d) \/ \E j \in 1..m : o = OwnPlace(b, j)
    BY <2>1, NewPlaces
  <2> QED
    BY <2>1, <2>2
<1>6. (\A o \in Places(c) : Joins(c, Earlier(c, o), o)) <=>
        /\ \A o \in Places(d) : Joins(d, Earlier(d, o), o)
        /\ \A k \in 1..Len(vtx[b]) : Joins(c, Upto(b, k - 1), OwnPlace(b, k))
  <2>1. \A k \in 1..Len(vtx[b]) : Earlier(c, OwnPlace(b, k)) = Upto(b, k - 1)
    BY EarlierInBlock
  <2> QED
    BY <1>1, <1>4, <1>5, <2>1
<1> QED
  BY <1>3, <1>6 DEF SoundChain

-----------------------------------------------------------------------------
(* Places whose transactions obey the rules.                               *)

\* Every input is one of P's outputs, and nothing comes or is spent twice.
Good(c, P) ==
  /\ \A o \in P : c[o.h] \in Block /\ At(c, o) \in Tx
  /\ \A o \in P : \A p \in vin[At(c, o)] : /\ p.hash \in TxsAt(c, P)
                                           /\ p.n \in DOMAIN vout[p.hash]
  /\ \A o, q \in P :
       o # q => At(c, o) # At(c, q) /\ vin[At(c, o)] \cap vin[At(c, q)] = {}

LEMMA GoodGrows ==
  ASSUME NEW c, NEW P, Good(c, P), NEW o, c[o.h] \in Block, At(c, o) \in Tx,
         Joins(c, P, o)
  PROVE  /\ Good(c, P \cup {o})
         /\ \A q \in P \cup {o} : \A n : [hash |-> At(c, o), n |-> n] \notin vin[At(c, q)]
<1>1. PICK Q : Q = P \cup {o}
  OBVIOUS
<1>2. TxsAt(c, P) \subseteq TxsAt(c, Q)
  BY <1>1 DEF TxsAt
<1>3. ASSUME NEW q \in Q, NEW p \in vin[At(c, q)]
      PROVE  p.hash \in TxsAt(c, P) /\ p.n \in DOMAIN vout[p.hash]
  <2>1. CASE q \in P
    BY <1>3, <2>1 DEF Good
  <2>2. CASE q = o
    BY <1>3, <2>2 DEF Joins, TxsAt
  <2> QED
    BY <1>1, <2>1, <2>2
<1>4. At(c, o) \notin TxsAt(c, P)
  BY DEF Joins
<1>5. \A q \in P : At(c, q) # At(c, o)
  BY <1>4 DEF TxsAt
<1>6. \A q, r \in Q : q # r => At(c, q) # At(c, r) /\ vin[At(c, q)] \cap vin[At(c, r)] = {}
  BY <1>1, <1>5 DEF Good, Joins
<1>7. Good(c, Q)
  <2>1. \A q \in Q : c[q.h] \in Block /\ At(c, q) \in Tx
    BY <1>1 DEF Good
  <2> QED
    BY <1>2, <1>3, <1>6, <2>1 DEF Good
<1>8. ASSUME NEW q \in Q, NEW n, [hash |-> At(c, o), n |-> n] \in vin[At(c, q)]
      PROVE  FALSE
  <2>1. PICK p : p = [hash |-> At(c, o), n |-> n]
    OBVIOUS
  <2>2. p.hash \in TxsAt(c, P) /\ p.hash = At(c, o)
    BY <1>3, <1>8, <2>1
  <2> QED
    BY <1>4, <2>2
<1> QED
  BY <1>1, <1>7, <1>8

\* The places of the parent's chain, seen in the longer chain.
LEMMA GoodInBlock ==
  ASSUME NEW b \in Block \ {Genesis}, NEW c, NEW d,
         c = ChainOf[b], d = ChainOf[hashPrevBlock[b]]
  PROVE  /\ Good(d, Places(d)) <=> Good(c, Places(d))
         /\ TxsAt(c, Places(d)) = TxsAt(d, Places(d))
         /\ \A idx : Describes(idx, d, Places(d)) <=> Describes(idx, c, Places(d))
<1>1. PICK P : P = Places(d)
  OBVIOUS
<1>2. \A o \in P : c[o.h] = d[o.h] /\ At(c, o) = At(d, o)
  BY <1>1, OldPlaces, SMTT(30)
<1>3. TxsAt(c, P) = TxsAt(d, P)
  BY <1>2 DEF TxsAt
<1>4. Good(d, P) <=> Good(c, P)
  BY <1>2, <1>3 DEF Good
<1>5. ASSUME NEW idx
      PROVE  Describes(idx, d, P) <=> Describes(idx, c, P)
  <2>1. \A v, p : SpentRight(v, c, P, p) <=> SpentRight(v, d, P, p)
    BY <1>2 DEF SpentRight
  <2> QED
    BY <1>2, <1>3, <2>1 DEF Describes, TxsAt
<1> QED
  BY <1>1, <1>3, <1>4, <1>5

LEMMA GoodInBlocks ==
  ASSUME NEW b \in Block \ {Genesis}, NEW c, NEW d,
         c = ChainOf[b], d = ChainOf[hashPrevBlock[b]],
         Good(d, Places(d)), NEW k \in 0..Len(vtx[b]),
         \A j \in 1..k : Joins(c, Upto(b, j - 1), OwnPlace(b, j))
  PROVE  Good(c, Upto(b, k))
<1>1. PICK m \in Nat : m = Len(vtx[b])
  BY BlockAssumption
<1>2. /\ Upto(b, 0) = Places(d)
      /\ \A j \in 1..m : /\ Upto(b, j) = Upto(b, j - 1) \cup {OwnPlace(b, j)}
                         /\ At(c, OwnPlace(b, j)) \in Tx
                         /\ c[OwnPlace(b, j).h] \in Block
  BY <1>1, NewPlaces
<1> DEFINE Fails == {j \in Nat : j <= k /\ ~Good(c, Upto(b, j))}
<1> SUFFICES ASSUME Fails # {} PROVE FALSE
  BY <1>1
<1>3. PICK j \in Fails : \A i \in Fails : j <= i
  <2>1. Fails \subseteq Nat
    OBVIOUS
  <2> HIDE DEF Fails
  <2> QED
    BY <2>1, LeastExists
<1>4. j # 0
  BY <1>2, GoodInBlock
<1>5. j \in 1..k /\ j \in 1..m /\ j - 1 \in Nat /\ j - 1 <= k /\ j - 1 \notin Fails
  BY <1>1, <1>3, <1>4
<1>6. Good(c, Upto(b, j - 1)) /\ Joins(c, Upto(b, j - 1), OwnPlace(b, j))
  BY <1>5
<1>7. Good(c, Upto(b, j - 1) \cup {OwnPlace(b, j)})
  BY <1>2, <1>5, <1>6, GoodGrows
<1> QED
  BY <1>2, <1>3, <1>5, <1>7

LEMMA SoundIsGood ==
  \A b \in Block : SoundChain(ChainOf[b]) => Good(ChainOf[b], Places(ChainOf[b]))
<1> DEFINE Fails == {b \in Block : SoundChain(ChainOf[b]) /\ ~Good(ChainOf[b], Places(ChainOf[b]))}
<1> SUFFICES ASSUME Fails # {} PROVE FALSE
  OBVIOUS
<1>1. Fails \in SUBSET (Block \ {Genesis})
  BY GenesisPlaces DEF Good
<1>2. PICK b \in Fails : hashPrevBlock[b] \notin Fails
  <2> HIDE DEF Fails
  <2> QED
    BY <1>1, AcyclicAssumption
<1>3. b \in Block \ {Genesis} /\ hashPrevBlock[b] \in Block
  BY <1>1, BlockAssumption
<1>4. PICK c, d : c = ChainOf[b] /\ d = ChainOf[hashPrevBlock[b]]
  OBVIOUS
<1>5. SoundChain(d) /\ \A k \in 1..Len(vtx[b]) : Joins(c, Upto(b, k - 1), OwnPlace(b, k))
  BY <1>2, <1>3, <1>4, SoundStep
<1>6. Good(d, Places(d))
  BY <1>2, <1>3, <1>4, <1>5
<1>7. PICK m \in Nat : m = Len(vtx[b]) /\ m \in 0..m
  BY <1>3, BlockAssumption
<1>8. Good(c, Upto(b, m))
  BY <1>3, <1>4, <1>5, <1>6, <1>7, GoodInBlocks
<1>9. Upto(b, m) = Places(c)
  BY <1>3, <1>4, <1>7, NewPlaces
<1> QED
  BY <1>2, <1>4, <1>8, <1>9

-----------------------------------------------------------------------------
(* What an index tells of its transactions.                                *)

LEMMA IndexTells ==
  ASSUME NEW c, NEW P, Good(c, P), NEW idx, Describes(idx, c, P)
  PROVE  /\ DOMAIN idx = TxsAt(c, P)
         /\ \A t \in TxsAt(c, P) : DOMAIN idx[t].vSpent = DOMAIN vout[t]
         /\ \A q \in P : idx[At(c, q)].pos = c[q.h]
         /\ \A t \in TxsAt(c, P) : \A n \in DOMAIN vout[t] :
              idx[t].vSpent[n] = Null <=>
                \A q \in P : [hash |-> t, n |-> n] \notin vin[At(c, q)]
<1>1. IsIndex(idx, TxsAt(c, P))
  BY DEF Describes, TxsAt
<1>2. DOMAIN idx = TxsAt(c, P)
  BY <1>1 DEF IsIndex
<1>3. \A t \in TxsAt(c, P) : idx[t] \in [pos : Holder, vSpent : [DOMAIN vout[t] -> Holder]]
  BY <1>1 DEF IsIndex, EntryOf
<1>4. \A t \in TxsAt(c, P) : DOMAIN idx[t].vSpent = DOMAIN vout[t]
  <2>1. ASSUME NEW t \in TxsAt(c, P) PROVE DOMAIN idx[t].vSpent = DOMAIN vout[t]
    <3>1. idx[t].vSpent \in [DOMAIN vout[t] -> Holder]
      BY <1>3
    <3> QED
      BY <3>1
  <2> QED
    BY <2>1
<1>5. \A q \in P : idx[At(c, q)].pos = c[q.h]
  BY DEF Describes
<1>6. ASSUME NEW t \in TxsAt(c, P), NEW n \in DOMAIN vout[t]
      PROVE  idx[t].vSpent[n] = Null <=>
                \A q \in P : [hash |-> t, n |-> n] \notin vin[At(c, q)]
  <2>1. SpentRight(idx[t].vSpent[n], c, P, [hash |-> t, n |-> n])
    BY DEF Describes, TxsAt
  <2>2. \A q \in P : c[q.h] # Null
    BY BlockAssumption DEF Good
  <2> QED
    BY <2>1, <2>2 DEF SpentRight
<1> QED
  BY <1>2, <1>4, <1>5, <1>6

\* There is one index of good places.
LEMMA IndexIsUnique ==
  ASSUME NEW c, NEW P, Good(c, P), NEW x, NEW y, Describes(x, c, P), Describes(y, c, P)
  PROVE  x = y
<1>1. PICK T : T = TxsAt(c, P)
  OBVIOUS
<1>2. IsIndex(x, T) /\ IsIndex(y, T)
  BY <1>1 DEF Describes, TxsAt
<1>3. ASSUME NEW t \in T
      PROVE  /\ x[t].pos = y[t].pos
             /\ \A n \in DOMAIN vout[t] : x[t].vSpent[n] = y[t].vSpent[n]
  <2>1. PICK o \in P : t = At(c, o)
    BY <1>1 DEF TxsAt
  <2>2. x[t].pos = y[t].pos
    BY <2>1 DEF Describes
  <2>3. ASSUME NEW n \in DOMAIN vout[t]
        PROVE  x[t].vSpent[n] = y[t].vSpent[n]
    <3>1. PICK p, u, v : p = [hash |-> t, n |-> n] /\ u = x[t].vSpent[n] /\ v = y[t].vSpent[n]
      OBVIOUS
    <3>2. SpentRight(u, c, P, p) /\ SpentRight(v, c, P, p)
      BY <2>1, <2>3, <3>1 DEF Describes
    <3>3. \A q, r \in P : p \in vin[At(c, q)] /\ p \in vin[At(c, r)] => q = r
      BY DEF Good
    <3>4. u = v
      BY <3>2, <3>3 DEF SpentRight
    <3> QED
      BY <3>1, <3>4
  <2> QED
    BY <2>2, <2>3
<1> QED
  BY <1>2, <1>3, SameIndex

\* IndexOf is that index.
LEMMA IndexOfDescribes ==
  ASSUME NEW c, Good(c, Places(c))
  PROVE  Describes(IndexOf(c), c, Places(c))
<1>1. PICK P, T, x : P = Places(c) /\ T = TxsAt(c, P) /\ x = IndexOf(c)
  OBVIOUS
<1> DEFINE Held(t) == CHOOSE o \in P : At(c, o) = t
           Spenders(p) == {o \in P : p \in vin[At(c, o)]}
           SpentAt(p) == IF Spenders(p) = {} THEN Null
                         ELSE c[(CHOOSE o \in Spenders(p) : TRUE).h]
           f(t) == [n \in DOMAIN vout[t] |-> SpentAt([hash |-> t, n |-> n])]
<1>2. x = [t \in T |-> [pos |-> c[Held(t).h], vSpent |-> f(t)]]
  BY <1>1 DEF IndexOf, TxsAt
<1>3. \A o \in P : c[o.h] \in Holder
  BY <1>1 DEF Good, Holder
<1>4. ASSUME NEW p
      PROVE  SpentAt(p) \in Holder /\ SpentRight(SpentAt(p), c, P, p)
  <2>1. CASE Spenders(p) = {}
    BY <2>1 DEF SpentRight, Holder
  <2>2. CASE Spenders(p) # {}
    <3>1. PICK o : o = CHOOSE q \in Spenders(p) : TRUE
      OBVIOUS
    <3>2. o \in Spenders(p) /\ SpentAt(p) = c[o.h]
      BY <2>2, <3>1
    <3> QED
      BY <1>3, <3>2 DEF SpentRight
  <2> QED
    BY <2>1, <2>2
<1>5. ASSUME NEW t \in T
      PROVE  Held(t) \in P /\ At(c, Held(t)) = t
  <2>1. \E o \in P : At(c, o) = t
    BY <1>1 DEF TxsAt
  <2> QED
    BY <2>1
<1>6. \A o \in P : At(c, o) \in T /\ Held(At(c, o)) = o
  BY <1>1, <1>5 DEF Good, TxsAt
<1>7. ASSUME NEW t
      PROVE  f(t) \in [DOMAIN vout[t] -> Holder] /\ \A n \in DOMAIN vout[t] : f(t)[n] = SpentAt([hash |-> t, n |-> n])
  <2> HIDE DEF SpentAt
  <2> QED
    BY <1>4
<1>8. \A t \in T : c[Held(t).h] \in Holder
  BY <1>3, <1>5
<1> HIDE DEF Held, SpentAt, f
<1>9. ASSUME NEW t \in T
      PROVE  x[t].pos = c[Held(t).h] /\ x[t].vSpent = f(t) /\ x[t] \in EntryOf(t)
  <2>1. x[t] = [pos |-> c[Held(t).h], vSpent |-> f(t)]
    BY <1>2
  <2>2. f(t) \in [DOMAIN vout[t] -> Holder] /\ c[Held(t).h] \in Holder
    BY <1>7, <1>8
  <2> QED
    BY <2>1, <2>2 DEF EntryOf
<1>10. x = [t \in T |-> x[t]]
  BY <1>2
<1>11. IsIndex(x, T)
  BY <1>9, <1>10 DEF IsIndex
<1>12. \A o \in P : x[At(c, o)].pos = c[o.h]
  BY <1>6, <1>9
<1>13. \A o \in P : \A n \in DOMAIN vout[At(c, o)] :
         SpentRight(x[At(c, o)].vSpent[n], c, P, [hash |-> At(c, o), n |-> n])
  BY <1>4, <1>6, <1>7, <1>9
<1>14. Describes(x, c, P)
  BY <1>1, <1>11, <1>12, <1>13 DEF Describes, TxsAt
<1> QED
  BY <1>1, <1>14

-----------------------------------------------------------------------------
(* Values.                                                                 *)

LEMMA ValuesAreInt ==
  ASSUME NEW t \in Tx
  PROVE  /\ GetValueOut(t) \in Int
         /\ (\A p \in vin[t] : p.n \in DOMAIN vout[p.hash]) => GetValueIn(t) \in Int
<1>1. GetValueOut(t) \in Int
  <2>1. PICK v : v = vout[t] /\ v \in Seq(Int)
    BY TxAssumption
  <2>2. v \in [1..Len(v) -> Int] /\ Len(v) \in Nat
    BY <2>1
  <2>3. IsFiniteSet(1..Len(v))
    BY <2>2, FS_Interval
  <2>4. SumFunction(v) \in Int
    BY <2>2, <2>3, SumIsInt
  <2> QED
    BY <2>1, <2>4 DEF GetValueOut
<1>2. ASSUME \A p \in vin[t] : p.n \in DOMAIN vout[p.hash]
      PROVE  GetValueIn(t) \in Int
  <2>1. ASSUME NEW p \in vin[t] PROVE vout[p.hash][p.n] \in Int
    <3>1. p \in OutPoint
      BY DEF OutPoint
    <3>2. p.hash \in Tx
      BY <3>1, TxAssumption
    <3>3. vout[p.hash] \in Seq(Int) /\ p.n \in DOMAIN vout[p.hash]
      BY <1>2, <3>2, TxAssumption
    <3> QED
      BY <3>3
  <2>2. PICK f : f = [p \in vin[t] |-> vout[p.hash][p.n]]
    OBVIOUS
  <2>3. f \in [vin[t] -> Int] /\ IsFiniteSet(vin[t])
    BY <2>1, <2>2, TxAssumption
  <2>4. SumFunction(f) \in Int
    BY <2>3, SumIsInt
  <2> QED
    BY <2>2, <2>4 DEF GetValueIn
<1> QED
  BY <1>1, <1>2

\* The fees of the first k transactions of a block.
FeesUpto(b, k) ==
  SumFunction([j \in 2..k |-> GetValueIn(vtx[b][j]) - GetValueOut(vtx[b][j])])

LEMMA FeesGrow ==
  ASSUME NEW b, NEW k \in Nat \ {0},
         \A j \in 2..k : GetValueIn(vtx[b][j]) \in Int /\ GetValueOut(vtx[b][j]) \in Int
  PROVE  /\ FeesUpto(b, k) \in Int
         /\ FeesUpto(b, k) =
              IF k = 1 THEN 0
              ELSE FeesUpto(b, k - 1) + GetValueIn(vtx[b][k]) - GetValueOut(vtx[b][k])
         /\ FeesUpto(b, k - 1) \in Int
<1>1. PICK f : f = [j \in 2..k |-> GetValueIn(vtx[b][j]) - GetValueOut(vtx[b][j])]
  OBVIOUS
<1>2. f \in [2..k -> Int] /\ IsFiniteSet(2..k) /\ IsFiniteSet(2..k - 1)
  <2>1. k - 1 \in Int /\ k \in Int /\ 2 \in Int
    OBVIOUS
  <2>2. IsFiniteSet(2..k) /\ IsFiniteSet(2..k - 1)
    BY <2>1, FS_Interval
  <2>3. f \in [2..k -> Int]
    BY <1>1
  <2> QED
    BY <2>2, <2>3
<1>3. PICK g : g = [j \in 2..k - 1 |-> GetValueIn(vtx[b][j]) - GetValueOut(vtx[b][j])]
  OBVIOUS
<1>4. SumFunction(f) = FeesUpto(b, k) /\ SumFunction(g) = FeesUpto(b, k - 1)
  BY <1>1, <1>3 DEF FeesUpto
<1>5. g \in [2..k - 1 -> Int]
  <2>1. \A j \in 2..k - 1 : j \in 2..k
    OBVIOUS
  <2> QED
    BY <1>3, <2>1
<1>6. FeesUpto(b, k) \in Int /\ FeesUpto(b, k - 1) \in Int
  BY <1>2, <1>4, <1>5, SumIsInt
<1>7. CASE k = 1
  <2>1. DOMAIN f = {}
    BY <1>1, <1>7
  <2> QED
    BY <1>4, <1>6, <1>7, <2>1, SumOfNone
<1>8. CASE k # 1
  <2>1. k \in 2..k /\ 2..k - 1 = (2..k) \ {k}
    BY <1>8
  <2>2. g = [j \in (2..k) \ {k} |-> f[j]]
    BY <1>1, <1>3, <2>1
  <2>3. SumFunction(f) = f[k] + SumFunction(g)
    BY <1>2, <2>1, <2>2, SumWithout, ZenonT(60)
  <2>4. PICK u, v, w \in Int : /\ u = GetValueIn(vtx[b][k]) /\ v = GetValueOut(vtx[b][k])
                               /\ w = SumFunction(g)
    BY <1>4, <1>6, <2>1
  <2>5. f[k] = u - v
    BY <1>1, <2>1, <2>4
  <2>6. (u - v) + w = w + u - v
    OBVIOUS
  <2> QED
    BY <1>4, <1>6, <1>8, <2>3, <2>4, <2>5, <2>6
<1> QED
  BY <1>7, <1>8

-----------------------------------------------------------------------------
(* ConnectBlock.                                                           *)

\* On every branch, a coinbase that comes twice has an output that nothing on the
\* branch spends.  BIP30 lets one come again when all of its outputs are spent.
DuplicatesStayUnspent ==
  \A b \in Block : \A o, q \in Places(ChainOf[b]) :
    /\ o # q
    /\ At(ChainOf[b], o) = At(ChainOf[b], q)
    /\ IsCoinBase(At(ChainOf[b], o))
    => \E n \in DOMAIN vout[At(ChainOf[b], o)] : \A r \in Places(ChainOf[b]) :
         [hash |-> At(ChainOf[b], o), n |-> n] \notin vin[At(ChainOf[b], r)]

\* The blocks that are too near for their coinbases to be spent.
LEMMA Immature ==
  ASSUME NEW b \in Block, NEW c, c = ChainOf[b], NEW h \in 1..Len(c)
  PROVE  c[h] \notin ImmatureBlocks(b) <=> Len(c) - h >= COINBASE_MATURITY
<1>1. PICK l \in Nat : l = Len(c)
  BY ChainFacts
<1>2. \A i \in 1..l : c[i] = c[h] => i = h
  BY <1>1, BlocksDiffer
<1>3. ImmatureBlocks(b) = {c[i] : i \in {j \in 1..l : l - j < COINBASE_MATURITY}}
  BY <1>1 DEF ImmatureBlocks
<1>4. PICK mat \in Nat : mat = COINBASE_MATURITY
  BY TxAssumption
<1>5. h \in 1..l
  BY <1>1
<1>6. c[h] \in ImmatureBlocks(b) <=> l - h < mat
  BY <1>2, <1>3, <1>4, <1>5
<1> QED
  BY <1>1, <1>4, <1>5, <1>6

\* The tests of ConnectBlock on a transaction; old is the index in the database.
Passes(old, x, b, t, fVerify) ==
  /\ ~Overwrites(old, t)
  /\ FetchInputs(x, t)
  /\ ~IsCoinBase(t) => ConnectInputs(x, t, ImmatureBlocks(b), fVerify)

\* The tests that ConnectBlock makes of one transaction are the chain rules.
\* The k-th transaction t of b is reached with x for the index; old is that of the database.
TxReached(b, k, c, d, t, P, old, x) ==
  /\ b \in Block \ {Genesis}
  /\ CheckBlock(b)
  /\ c = ChainOf[b] /\ d = ChainOf[hashPrevBlock[b]]
  /\ k \in 1..Len(vtx[b]) /\ t = vtx[b][k]
  /\ P = Upto(b, k - 1)
  /\ Good(c, Places(d)) /\ Good(c, P)
  /\ Describes(old, c, Places(d))
  /\ Describes(x, c, P)

LEMMA TxTests ==
  ASSUME DuplicatesStayUnspent,
         NEW b, NEW k, NEW c, NEW d, NEW t, NEW P, NEW old, NEW x, NEW fVerify,
         TxReached(b, k, c, d, t, P, old, x)
  PROVE  Passes(old, x, b, t, fVerify)
         <=> /\ Joins(c, P, OwnPlace(b, k))
             /\ fVerify /\ ~IsCoinBase(t) => t \notin BadSignature
<1> USE DEF TxReached
<1>1. PICK o, D, m : o = OwnPlace(b, k) /\ D = Places(d) /\ m = Len(vtx[b])
  OBVIOUS
<1>2. /\ m \in Nat /\ k \in 1..m /\ Places(c) = Upto(b, m) /\ Upto(b, 0) = D
      /\ At(c, o) = t /\ t \in Tx /\ o.h = Len(c) /\ o \in Places(c) /\ o \notin P
      /\ Upto(b, k) = P \cup {o} /\ Upto(b, k) \subseteq Places(c)
  BY <1>1, NewPlaces
<1>3. /\ c \in Seq(Block) /\ Len(c) \in Nat /\ D \subseteq Places(c)
  BY <1>1, OldPlaces
<1>4. D \subseteq P /\ P \subseteq Places(c)
  BY <1>1, <1>2 DEF Upto
<1>5. \A q \in P : q \in D \/ \E j \in 1..k - 1 : q = OwnPlace(b, j)
  BY <1>1 DEF Upto
<1>6. \A p \in vin[t] : p = [hash |-> p.hash, n |-> p.n] /\ p \in OutPoint
  BY <1>2, TxAssumption DEF OutPoint
<1>7. /\ DOMAIN x = TxsAt(c, P)
      /\ \A u \in TxsAt(c, P) : DOMAIN x[u].vSpent = DOMAIN vout[u]
      /\ \A q \in P : x[At(c, q)].pos = c[q.h]
      /\ \A u \in TxsAt(c, P) : \A n \in DOMAIN vout[u] :
           x[u].vSpent[n] = Null <=> \A q \in P : [hash |-> u, n |-> n] \notin vin[At(c, q)]
  BY IndexTells
<1>8. /\ DOMAIN old = TxsAt(c, D)
      /\ \A u \in TxsAt(c, D) : DOMAIN old[u].vSpent = DOMAIN vout[u]
      /\ \A u \in TxsAt(c, D) : \A n \in DOMAIN vout[u] :
           old[u].vSpent[n] = Null <=> \A q \in D : [hash |-> u, n |-> n] \notin vin[At(c, q)]
  BY <1>1, IndexTells
<1>9. FetchInputs(x, t) <=>
        \A p \in vin[t] : p.hash \in TxsAt(c, P) /\ p.n \in DOMAIN vout[p.hash]
  BY <1>7 DEF FetchInputs, InputsFound
<1>10. ASSUME NEW p \in vin[t], p.hash \in TxsAt(c, P), p.n \in DOMAIN vout[p.hash]
       PROVE  x[p.hash].vSpent[p.n] = Null <=> \A q \in P : p \notin vin[At(c, q)]
  BY <1>6, <1>7, <1>10
<1>11. ASSUME NEW q \in P
       PROVE  x[At(c, q)].pos \notin ImmatureBlocks(b) <=> o.h - q.h >= COINBASE_MATURITY
  <2>1. q.h \in 1..Len(c)
    <3>1. q.h \in 2..Len(c)
      BY <1>3, <1>4, PlaceFacts
    <3> QED
      BY <1>3, <3>1
  <2> QED
    BY <1>2, <1>7, <2>1, Immature
<1>12. ASSUME FetchInputs(x, t), ~IsCoinBase(t) => ConnectInputs(x, t, ImmatureBlocks(b), fVerify),
              ~Overwrites(old, t)
       PROVE  t \notin TxsAt(c, P)
  <2>1. SUFFICES ASSUME NEW q \in P, At(c, q) = t PROVE FALSE
    BY DEF TxsAt
  <2>2. q \in D
    <3>1. SUFFICES ASSUME NEW j \in 1..k - 1, q = OwnPlace(b, j) PROVE FALSE
      BY <1>5
    <3>2. j \in 1..m /\ j # k
      BY <1>2
    <3>3. At(c, OwnPlace(b, j)) = vtx[b][j]
      BY <1>1, <3>2, NewPlaces
    <3>4. vtx[b] \in Seq(Tx) /\ j \in DOMAIN vtx[b] /\ k \in DOMAIN vtx[b]
      <4>1. vtx[b] \in Seq(Tx)
        BY BlockAssumption
      <4> QED
        BY <1>1, <1>2, <3>2, <4>1
    <3> QED
      BY <2>1, <3>1, <3>2, <3>3, <3>4 DEF CheckBlock
  <2>3. t \in TxsAt(c, D) /\ t \in TxsAt(c, P)
    BY <1>4, <2>1, <2>2 DEF TxsAt
  <2>4. CASE IsCoinBase(t)
    <3>1. PICK n \in DOMAIN vout[t] : \A r \in Places(c) : [hash |-> t, n |-> n] \notin vin[At(c, r)]
      <4>1. q \in Places(c) /\ o # q /\ b \in Block
        BY <1>2, <1>4
      <4> QED
        BY <1>2, <2>1, <2>4, <4>1 DEF DuplicatesStayUnspent
    <3>2. old[t].vSpent[n] = Null
      BY <1>3, <1>8, <2>3, <3>1
    <3> QED
      BY <1>8, <1>12, <2>3, <3>2 DEF Overwrites
  <2>5. CASE ~IsCoinBase(t)
    <3>1. PICK p : p \in vin[t]
      BY <2>5 DEF IsCoinBase
    <3>2. x[p.hash].vSpent[p.n] = Null
      BY <1>12, <2>5, <3>1 DEF ConnectInputs
    <3> QED
      BY <1>9, <1>10, <1>12, <2>1, <3>1, <3>2
  <2> QED
    BY <2>4, <2>5
<1>13. ASSUME Joins(c, P, o), fVerify /\ ~IsCoinBase(t) => t \notin BadSignature
       PROVE  /\ ~Overwrites(old, t)
              /\ FetchInputs(x, t)
              /\ ~IsCoinBase(t) => ConnectInputs(x, t, ImmatureBlocks(b), fVerify)
  <2>1. t \notin TxsAt(c, D)
    BY <1>2, <1>4, <1>13 DEF Joins, TxsAt
  <2>2. ~Overwrites(old, t)
    BY <1>8, <2>1 DEF Overwrites
  <2>3. FetchInputs(x, t)
    BY <1>2, <1>9, <1>13 DEF Joins, TxsAt
  <2>4. ASSUME NEW p \in vin[t]
        PROVE  /\ x[p.hash].vSpent[p.n] = Null
               /\ IsCoinBase(p.hash) => x[p.hash].pos \notin ImmatureBlocks(b)
    <3>1. PICK q \in P : /\ At(c, q) = p.hash
                         /\ p.n \in DOMAIN vout[p.hash]
                         /\ IsCoinBase(p.hash) => o.h - q.h >= COINBASE_MATURITY
      BY <1>2, <1>13 DEF Joins
    <3>2. p.hash \in TxsAt(c, P)
      BY <3>1 DEF TxsAt
    <3>3. \A r \in P : p \notin vin[At(c, r)]
      BY <1>2, <1>13 DEF Joins
    <3> QED
      BY <1>10, <1>11, <3>1, <3>2, <3>3
  <2>5. ~IsCoinBase(t) => GetValueIn(t) >= GetValueOut(t)
    BY <1>2, <1>13 DEF Joins
  <2>6. ~IsCoinBase(t) => ConnectInputs(x, t, ImmatureBlocks(b), fVerify)
    BY <1>13, <2>4, <2>5 DEF ConnectInputs
  <2> QED
    BY <2>2, <2>3, <2>6
<1>14. ASSUME FetchInputs(x, t), ~IsCoinBase(t) => ConnectInputs(x, t, ImmatureBlocks(b), fVerify),
              ~Overwrites(old, t)
       PROVE  Joins(c, P, o) /\ (fVerify /\ ~IsCoinBase(t) => t \notin BadSignature)
  <2>1. t \notin TxsAt(c, P)
    BY <1>12, <1>14
  <2>2. ASSUME NEW p \in vin[t]
        PROVE  /\ \E q \in P : /\ At(c, q) = p.hash
                               /\ p.n \in DOMAIN vout[p.hash]
                               /\ IsCoinBase(p.hash) => o.h - q.h >= COINBASE_MATURITY
               /\ \A q \in P : p \notin vin[At(c, q)]
    <3>1. ~IsCoinBase(t)
      BY DEF IsCoinBase
    <3>2. p.hash \in TxsAt(c, P) /\ p.n \in DOMAIN vout[p.hash]
      BY <1>9, <1>14
    <3>3. PICK q \in P : At(c, q) = p.hash
      BY <3>2 DEF TxsAt
    <3>4. /\ x[p.hash].vSpent[p.n] = Null
          /\ IsCoinBase(p.hash) => x[p.hash].pos \notin ImmatureBlocks(b)
      BY <1>14, <3>1 DEF ConnectInputs
    <3> QED
      BY <1>10, <1>11, <3>2, <3>3, <3>4
  <2>3. \A q \in P : vin[At(c, q)] \cap vin[t] = {}
    BY <2>2
  <2>4. ~IsCoinBase(t) => GetValueIn(t) >= GetValueOut(t) /\ (fVerify => t \notin BadSignature)
    BY <1>14 DEF ConnectInputs
  <2> QED
    BY <1>2, <2>1, <2>2, <2>3, <2>4 DEF Joins
<1> QED
  BY <1>1, <1>13, <1>14 DEF Passes

-----------------------------------------------------------------------------
(* One block.                                                              *)

\* What ConnectBlock makes of a block on top of the index of its parent's chain.
LEMMA BlockConnects ==
  ASSUME DuplicatesStayUnspent,
         NEW b \in Block \ {Genesis}, NEW fVerify,
         NEW c, NEW d, c = ChainOf[b], d = ChainOf[hashPrevBlock[b]],
         Good(d, Places(d)), NEW x, Describes(x, d, Places(d)),
         NEW r, r = [ok |-> TRUE, idx |-> x]
  PROVE  /\ ConnectBlock(r, b, fVerify).ok \in BOOLEAN
         /\ ConnectBlock(r, b, fVerify).ok <=>
              /\ CheckBlock(b)
              /\ \A k \in 1..Len(vtx[b]) : Joins(c, Upto(b, k - 1), OwnPlace(b, k))
              /\ ~CoinbasePaysTooMuch(b, Fees(b))
              /\ fVerify => Signed(b)
         /\ ConnectBlock(r, b, fVerify).ok =>
              /\ Good(c, Places(c))
              /\ Describes(ConnectBlock(r, b, fVerify).idx, c, Places(c))
<1>1. PICK m \in Nat : m = Len(vtx[b])
  BY BlockAssumption
<1>2. PICK step :
        /\ step[0] = [ok |-> CheckBlock(b), idx |-> x, fees |-> 0]
        /\ \A k \in 1..m :
             step[k] = ConnectTx(x, b, ImmatureBlocks(b), fVerify, step[k - 1], vtx[b][k])
        /\ ConnectBlock(r, b, fVerify)
             = [ok  |-> step[m].ok /\ ~CoinbasePaysTooMuch(b, step[m].fees),
                idx |-> step[m].idx]
  <2>1. r.ok = TRUE /\ r.idx = x /\ b \in Block
    OBVIOUS
  <2>2. PICK step : TxSteps(step, r, b, fVerify)
    BY <2>1, ConnectBlockSteps
  <2>3. (r.ok /\ CheckBlock(b)) = CheckBlock(b)
    BY <2>1 DEF CheckBlock
  <2> QED
    BY <1>1, <2>1, <2>2, <2>3 DEF TxSteps
<1> DEFINE Right(k) == /\ Joins(c, Upto(b, k - 1), OwnPlace(b, k))
                       /\ fVerify /\ ~IsCoinBase(vtx[b][k]) => vtx[b][k] \notin BadSignature
           Holds(k) == /\ step[k].ok \in BOOLEAN
                       /\ \E u, v, w : step[k] = [ok |-> u, idx |-> v, fees |-> w]
                       /\ step[k].ok <=> CheckBlock(b) /\ \A j \in 1..k : Right(j)
                       /\ step[k].ok => /\ Describes(step[k].idx, c, Upto(b, k))
                                        /\ step[k].fees = FeesUpto(b, k)
<1>3. /\ Upto(b, 0) = Places(d) /\ Upto(b, m) = Places(c)
      /\ \A k \in 1..m : /\ Upto(b, k) = Upto(b, k - 1) \cup {OwnPlace(b, k)}
                         /\ At(c, OwnPlace(b, k)) = vtx[b][k]
                         /\ vtx[b][k] \in Tx
                         /\ c[OwnPlace(b, k).h] = b
  BY <1>1, NewPlaces
<1>4. Good(c, Places(d)) /\ Describes(x, c, Places(d))
  BY GoodInBlock
<1>5. ASSUME NEW k \in 0..m, \A j \in 1..k : Right(j)
      PROVE  Good(c, Upto(b, k))
  BY <1>1, <1>5, GoodInBlocks
<1>6. Holds(0)
  <2>1. 1..0 = {}
    OBVIOUS
  <2>2. FeesUpto(b, 0) = 0
    <3>1. PICK f : f = [j \in 2..0 |-> GetValueIn(vtx[b][j]) - GetValueOut(vtx[b][j])]
      OBVIOUS
    <3>2. DOMAIN f = {}
      BY <3>1
    <3> QED
      BY <3>1, <3>2, SumOfNone DEF FeesUpto
  <2>3. CheckBlock(b) \in BOOLEAN
    BY DEF CheckBlock
  <2>4. step[0].ok = CheckBlock(b) /\ step[0].idx = x /\ step[0].fees = 0
    BY <1>2
  <2> QED
    BY <1>2, <1>3, <1>4, <2>1, <2>2, <2>3, <2>4
<1>7. ASSUME NEW k \in 1..m, Holds(k - 1)
      PROVE  Holds(k)
  <2>1. PICK a, t, P : a = step[k - 1] /\ t = vtx[b][k] /\ P = Upto(b, k - 1)
    OBVIOUS
  <2>2. /\ step[k] = ConnectTx(x, b, ImmatureBlocks(b), fVerify, a, t)
        /\ 1..k = (1..k - 1) \cup {k}
    BY <1>2, <2>1
  <2>3. PICK u, v, w : a = [ok |-> u, idx |-> v, fees |-> w]
    BY <1>7, <2>1
  <2>4. /\ a.ok = u /\ a.idx = v /\ a.fees = w /\ u \in BOOLEAN
        /\ u <=> CheckBlock(b) /\ \A j \in 1..k - 1 : Right(j)
        /\ u => Describes(v, c, P) /\ w = FeesUpto(b, k - 1)
    BY <1>7, <2>1, <2>3
  <2>5. CASE ~u
    <3>1. step[k] = [a EXCEPT !.ok = FALSE]
      BY <2>2, <2>4, <2>5 DEF ConnectTx
    <3>2. step[k] = [ok |-> FALSE, idx |-> v, fees |-> w]
      BY <2>3, <3>1
    <3>3. step[k].ok = FALSE
      BY <3>2
    <3> QED
      BY <2>2, <2>4, <2>5, <3>2, <3>3
  <2>6. CASE u
    <3> DEFINE Tests == Passes(x, v, b, t, fVerify)
    <3>1. Good(c, P) /\ Describes(v, c, P) /\ CheckBlock(b)
      <4>1. k - 1 \in 0..m
        BY <1>1
      <4> QED
        BY <1>5, <2>1, <2>4, <2>6, <4>1
    <3>2. Tests <=> Right(k)
      <4>1. k \in 1..Len(vtx[b])
        BY <1>1
      <4>2. Tests <=> /\ Joins(c, P, OwnPlace(b, k))
                      /\ fVerify /\ ~IsCoinBase(t) => t \notin BadSignature
        <5>1. TxReached(b, k, c, d, t, P, x, v)
          BY <1>4, <2>1, <3>1, <4>1 DEF TxReached
        <5> HIDE DEF Right, Holds, Tests
        <5>2. Passes(x, v, b, t, fVerify)
              <=> /\ Joins(c, P, OwnPlace(b, k))
                  /\ fVerify /\ ~IsCoinBase(t) => t \notin BadSignature
          BY <5>1, TxTests
        <5> QED
          BY <5>2 DEF Tests
      <4> QED
        BY <2>1, <4>2
    <3>3. CASE ~Tests
      <4>1. step[k] = [a EXCEPT !.ok = FALSE]
        BY <2>2, <2>4, <3>3 DEF ConnectTx, Passes
      <4>2. step[k] = [ok |-> FALSE, idx |-> v, fees |-> w]
        BY <2>3, <4>1
      <4>3. step[k].ok = FALSE
        BY <4>2
      <4>4. ~Right(k)
        BY <3>2, <3>3
      <4> QED
        BY <2>2, <4>2, <4>3, <4>4
    <3>4. CASE Tests
      <4>1. PICK y, z : /\ y = With(MarkInputs(v, t, b), t, CTxIndex(t, b))
                        /\ z = IF IsCoinBase(t) THEN w ELSE w + GetValueIn(t) - GetValueOut(t)
        OBVIOUS
      <4>2. step[k] = [ok |-> TRUE, idx |-> y, fees |-> z]
        BY <2>2, <2>4, <2>6, <3>4, <4>1 DEF ConnectTx, Passes
      <4>3. Describes(y, c, Upto(b, k))
        <5>1. PICK o : o = OwnPlace(b, k)
          OBVIOUS
        <5>2. /\ Joins(c, P, o) /\ At(c, o) = t /\ t \in Tx /\ c[o.h] = b
              /\ Upto(b, k) = P \cup {o}
          BY <1>3, <2>1, <3>2, <3>4, <5>1
        <5>3. /\ \A q \in P \cup {o} : \A n : [hash |-> At(c, o), n |-> n] \notin vin[At(c, q)]
              /\ c[o.h] \in Block
          BY <3>1, <5>2, GoodGrows
        <5>4. /\ At(c, o) \notin TxsAt(c, P)
              /\ \A q \in P : vin[At(c, q)] \cap vin[At(c, o)] = {}
          BY <5>2 DEF Joins
        <5>5. Describes(With(MarkInputs(v, At(c, o), c[o.h]), At(c, o), CTxIndex(At(c, o), c[o.h])),
                        c, P \cup {o})
          BY <3>1, <5>3, <5>4, IndexAdds
        <5> QED
          BY <4>1, <5>2, <5>5
      <4>4. z = FeesUpto(b, k)
        <5>1. \A j \in 1..k : Right(j)
          BY <2>2, <2>4, <2>6, <3>2, <3>4
        <5>2. \A j \in 2..k : /\ GetValueIn(vtx[b][j]) \in Int /\ GetValueOut(vtx[b][j]) \in Int
          <6>1. ASSUME NEW j \in 1..k
                PROVE  GetValueIn(vtx[b][j]) \in Int /\ GetValueOut(vtx[b][j]) \in Int
            <7>1. /\ vtx[b][j] \in Tx /\ At(c, OwnPlace(b, j)) = vtx[b][j]
                  /\ Joins(c, Upto(b, j - 1), OwnPlace(b, j))
              BY <1>3, <5>1
            <7>2. \A p \in vin[vtx[b][j]] : p.n \in DOMAIN vout[p.hash]
              BY <7>1 DEF Joins
            <7> QED
              BY <7>1, <7>2, ValuesAreInt
          <6> QED
            BY <6>1
        <5>3. k \in Nat \ {0}
          OBVIOUS
        <5>4. /\ FeesUpto(b, k) = IF k = 1 THEN 0
                ELSE FeesUpto(b, k - 1) + GetValueIn(vtx[b][k]) - GetValueOut(vtx[b][k])
          BY <5>2, <5>3, FeesGrow
        <5>5. IsCoinBase(t) <=> k = 1
          <6>1. PICK s : s = vtx[b] /\ s \in Seq(Tx)
            BY BlockAssumption
          <6>2. k \in DOMAIN s
            BY <1>1, <6>1
          <6> QED
            BY <2>1, <3>1, <6>1, <6>2 DEF CheckBlock
        <5>6. k = 1 => FeesUpto(b, k - 1) = 0
          <6>1. ASSUME k = 1 PROVE FeesUpto(b, k - 1) = 0
            <7>1. PICK f : f = [j \in 2..0 |-> GetValueIn(vtx[b][j]) - GetValueOut(vtx[b][j])]
              OBVIOUS
            <7>2. DOMAIN f = {}
              BY <7>1
            <7>3. SumFunction(f) = 0
              BY <7>2, SumOfNone
            <7>4. FeesUpto(b, 0) = 0
              BY <7>1, <7>3 DEF FeesUpto
            <7> QED
              BY <6>1, <7>4
          <6> QED
            BY <6>1
        <5> QED
          BY <2>1, <2>4, <2>6, <4>1, <5>4, <5>5, <5>6
      <4>5. step[k].ok = TRUE /\ step[k].idx = y /\ step[k].fees = z
        BY <4>2
      <4> QED
        BY <2>2, <2>4, <2>6, <3>2, <3>4, <4>2, <4>3, <4>4, <4>5
    <3> QED
      BY <3>3, <3>4
  <2> QED
    BY <2>4, <2>5, <2>6
<1>8. Holds(m)
  <2> HIDE DEF Holds
  <2> DEFINE Fails == {k \in Nat : k <= m /\ ~Holds(k)}
  <2>1. SUFFICES ASSUME Fails # {} PROVE FALSE
    OBVIOUS
  <2>2. PICK k \in Fails : \A i \in Fails : k <= i
    <3>1. Fails \subseteq Nat
      OBVIOUS
    <3> HIDE DEF Fails
    <3> QED
      BY <2>1, <3>1, LeastExists
  <2>3. k # 0
    BY <1>6
  <2>4. k \in 1..m /\ k - 1 \in Nat /\ k - 1 <= m /\ k - 1 \notin Fails
    BY <2>2, <2>3
  <2>5. Holds(k - 1)
    BY <2>4
  <2> QED
    BY <1>7, <2>2, <2>4, <2>5
<1>9. FeesUpto(b, m) = Fees(b)
  BY <1>1 DEF FeesUpto, Fees
<1>10. PICK u, v, w : /\ step[m].ok = u /\ step[m].idx = v /\ step[m].fees = w /\ u \in BOOLEAN
                      /\ u <=> CheckBlock(b) /\ \A j \in 1..m : Right(j)
                      /\ u => Describes(v, c, Places(c)) /\ w = Fees(b)
  BY <1>3, <1>8, <1>9
<1>11. /\ ConnectBlock(r, b, fVerify).ok = (u /\ ~CoinbasePaysTooMuch(b, w))
       /\ ConnectBlock(r, b, fVerify).idx = v
  BY <1>2, <1>10
<1>12. (\A j \in 1..m : Right(j)) <=>
         /\ \A k \in 1..m : Joins(c, Upto(b, k - 1), OwnPlace(b, k))
         /\ fVerify => Signed(b)
  BY <1>1 DEF Signed
<1>13. (\A j \in 1..m : Right(j)) => Good(c, Places(c))
  <2>1. m \in 0..m
    OBVIOUS
  <2> QED
    BY <1>3, <1>5, <2>1
<1> QED
  BY <1>1, <1>10, <1>11, <1>12, <1>13

\* The state of a chain's index, and what is left when a block has failed.
OnChain(c) == [ok |-> TRUE, idx |-> IndexOf(c)]

\* A block connects to a sound chain just when the chain with it is sound and, if
\* they are looked at, its signatures are good.
LEMMA ConnectSound ==
  ASSUME DuplicatesStayUnspent,
         NEW b \in Block \ {Genesis}, NEW fVerify,
         NEW c, NEW d, c = ChainOf[b], d = ChainOf[hashPrevBlock[b]], SoundChain(d)
  PROVE  /\ ConnectBlock(OnChain(d), b, fVerify).ok <=>
              SoundChain(c) /\ (fVerify => Signed(b))
         /\ ConnectBlock(OnChain(d), b, fVerify).ok =>
              ConnectBlock(OnChain(d), b, fVerify) = OnChain(c)
         /\ ConnectBlock(OnChain(d), b, fVerify).ok \in BOOLEAN
<1>1. PICK x, r : x = IndexOf(d) /\ r = [ok |-> TRUE, idx |-> x] /\ r = OnChain(d)
  BY DEF OnChain
<1>2. hashPrevBlock[b] \in Block
  BY BlockAssumption
<1>3. Good(d, Places(d)) /\ Describes(x, d, Places(d))
  BY <1>1, <1>2, SoundIsGood, IndexOfDescribes
<1>4. PICK y : y = ConnectBlock(r, b, fVerify)
  OBVIOUS
<1>5. /\ y.ok \in BOOLEAN
      /\ y.ok <=> /\ CheckBlock(b)
                  /\ \A k \in 1..Len(vtx[b]) : Joins(c, Upto(b, k - 1), OwnPlace(b, k))
                  /\ ~CoinbasePaysTooMuch(b, Fees(b))
                  /\ fVerify => Signed(b)
      /\ y.ok => Good(c, Places(c)) /\ Describes(y.idx, c, Places(c))
  BY <1>1, <1>3, <1>4, BlockConnects, ZenonT(60)
<1>6. y.ok <=> SoundChain(c) /\ (fVerify => Signed(b))
  BY <1>5, SoundStep
<1>7. ASSUME y.ok PROVE y = OnChain(c)
  <2>1. y.idx = IndexOf(c)
    BY <1>5, <1>7, IndexOfDescribes, IndexIsUnique
  <2>2. PICK u, v : y = [ok |-> u, idx |-> v]
    <3>1. PICK step : TxSteps(step, r, b, fVerify)
      BY ConnectBlockSteps
    <3> QED
      BY <1>4, <3>1 DEF TxSteps
  <2>3. u = TRUE /\ v = IndexOf(c)
    BY <1>5, <1>7, <2>1, <2>2
  <2> QED
    BY <2>2, <2>3 DEF OnChain
<1> QED
  BY <1>1, <1>4, <1>5, <1>6, <1>7

\* Once a block has failed, the blocks after it fail.
LEMMA ConnectFailed ==
  ASSUME NEW r, r.ok = FALSE, NEW b \in Block, NEW fVerify
  PROVE  ConnectBlock(r, b, fVerify).ok = FALSE
<1>1. PICK step : TxSteps(step, r, b, fVerify)
  BY ConnectBlockSteps
<1>2. PICK m \in Nat : m = Len(vtx[b])
  BY BlockAssumption
<1> DEFINE Failed(k) == \E v, w : step[k] = [ok |-> FALSE, idx |-> v, fees |-> w]
           Fails == {k \in Nat : k <= m /\ ~Failed(k)}
<1>3. Failed(0)
  BY <1>1 DEF TxSteps
<1>4. ASSUME NEW k \in 1..m, Failed(k - 1) PROVE Failed(k)
  <2>1. PICK a, v, w : a = step[k - 1] /\ a = [ok |-> FALSE, idx |-> v, fees |-> w]
    BY <1>4
  <2>2. step[k] = ConnectTx(r.idx, b, ImmatureBlocks(b), fVerify, a, vtx[b][k])
    BY <1>1, <1>2, <2>1 DEF TxSteps
  <2>3. step[k] = [a EXCEPT !.ok = FALSE]
    BY <2>1, <2>2 DEF ConnectTx
  <2>4. step[k] = [ok |-> FALSE, idx |-> v, fees |-> w]
    <3>1. PICK z : z = step[k]
      OBVIOUS
    <3>2. z = [a EXCEPT !.ok = FALSE] /\ a = [ok |-> FALSE, idx |-> v, fees |-> w]
      BY <2>1, <2>3, <3>1
    <3>3. z = [ok |-> FALSE, idx |-> v, fees |-> w]
      BY <3>2
    <3> QED
      BY <3>1, <3>3
  <2> QED
    BY <2>4
<1>5. Failed(m)
  <2> HIDE DEF Failed
  <2>1. SUFFICES ASSUME Fails # {} PROVE FALSE
    OBVIOUS
  <2>2. PICK k \in Fails : \A i \in Fails : k <= i
    <3>1. Fails \subseteq Nat
      OBVIOUS
    <3> HIDE DEF Fails
    <3> QED
      BY <2>1, <3>1, LeastExists
  <2>3. k # 0
    BY <1>3
  <2>4. k \in 1..m /\ k - 1 \in Nat /\ k - 1 <= m /\ k - 1 \notin Fails
    BY <2>2, <2>3
  <2> QED
    BY <1>4, <2>2, <2>4
<1>6. step[m].ok = FALSE
  BY <1>5
<1>7. ConnectBlock(r, b, fVerify).ok = (step[m].ok /\ ~CoinbasePaysTooMuch(b, step[m].fees))
  <2>1. PICK z, f : z = ConnectBlock(r, b, fVerify) /\ f = step[m]
    OBVIOUS
  <2>2. z = [ok |-> f.ok /\ ~CoinbasePaysTooMuch(b, f.fees), idx |-> f.idx]
    BY <1>1, <1>2, <2>1 DEF TxSteps
  <2>3. z.ok = (f.ok /\ ~CoinbasePaysTooMuch(b, f.fees))
    BY <2>2
  <2> QED
    BY <2>1, <2>3
<1> QED
  BY <1>6, <1>7

\* Disconnecting the last block of a sound chain leaves the index of the chain before it.
LEMMA DisconnectSound ==
  ASSUME NEW b \in Block \ {Genesis},
         NEW c, NEW d, c = ChainOf[b], d = ChainOf[hashPrevBlock[b]], SoundChain(c)
  PROVE  DisconnectBlock(OnChain(c), b) = OnChain(d)
<1>1. PICK m : m = Len(vtx[b])
  OBVIOUS
<1>2. /\ m \in Nat /\ Upto(b, 0) = Places(d) /\ Upto(b, m) = Places(c)
      /\ \A k \in 1..m : /\ Upto(b, k) = Upto(b, k - 1) \cup {OwnPlace(b, k)}
                         /\ At(c, OwnPlace(b, k)) = vtx[b][k]
  BY <1>1, NewPlaces
<1>3. hashPrevBlock[b] \in Block
  BY BlockAssumption
<1>4. SoundChain(d) /\ \A k \in 1..m : Joins(c, Upto(b, k - 1), OwnPlace(b, k))
  BY <1>1, SoundStep
<1>5. /\ Good(d, Places(d)) /\ Describes(IndexOf(d), d, Places(d))
      /\ Good(c, Places(c)) /\ Describes(IndexOf(c), c, Places(c))
  BY <1>3, <1>4, SoundIsGood, IndexOfDescribes
<1>6. Good(c, Places(d)) /\ Describes(IndexOf(d), c, Places(d))
  BY <1>5, GoodInBlock
<1>7. \A k \in 0..m : Good(c, Upto(b, k))
  <2>1. ASSUME NEW k \in 0..m PROVE Good(c, Upto(b, k))
    <3>1. \A j \in 1..k : Joins(c, Upto(b, j - 1), OwnPlace(b, j))
      BY <1>2, <1>4
    <3> QED
      BY <1>1, <1>5, <2>1, <3>1, GoodInBlocks
  <2> QED
    BY <2>1
<1>8. PICK step :
        /\ step[0] = OnChain(c)
        /\ \A k \in 1..m : step[k] = DisconnectInputs(step[k - 1], vtx[b][m + 1 - k])
        /\ DisconnectBlock(OnChain(c), b) = step[m]
  <2>1. PICK step : BackSteps(step, OnChain(c), b)
    <3>1. PICK r : r = OnChain(c)
      OBVIOUS
    <3>2. \E step : BackSteps(step, r, b)
      BY DisconnectBlockSteps
    <3> QED
      BY <3>1, <3>2
  <2> QED
    BY <1>1, <2>1 DEF BackSteps
<1> DEFINE Holds(k) == \E v : /\ step[k] = [ok |-> TRUE, idx |-> v]
                              /\ Describes(v, c, Upto(b, m - k))
           Fails == {k \in Nat : k <= m /\ ~Holds(k)}
<1>9. Holds(0)
  <2>1. step[0] = [ok |-> TRUE, idx |-> IndexOf(c)]
    BY <1>8 DEF OnChain
  <2>2. m - 0 = m
    BY <1>2
  <2>3. Describes(IndexOf(c), c, Upto(b, m - 0))
    BY <1>2, <1>5, <2>2
  <2> QED
    BY <2>1, <2>3
<1>10. ASSUME NEW k \in 1..m, Holds(k - 1) PROVE Holds(k)
  <2>1. PICK j \in 1..m : j = m + 1 - k /\ m - (k - 1) = j /\ m - k = j - 1
    BY <1>2
  <2>2. PICK a, t, v, P, o :
          /\ a = step[k - 1] /\ a = [ok |-> TRUE, idx |-> v] /\ t = vtx[b][j]
          /\ P = Upto(b, j - 1) /\ o = OwnPlace(b, j) /\ Describes(v, c, Upto(b, j))
    <3>1. PICK a, v : a = step[k - 1] /\ a = [ok |-> TRUE, idx |-> v] /\ Describes(v, c, Upto(b, j))
      BY <1>10, <2>1
    <3> QED
      BY <3>1
  <2>3. /\ Upto(b, j) = P \cup {o} /\ At(c, o) = t /\ Joins(c, P, o)
        /\ Good(c, P \cup {o}) /\ Describes(v, c, P \cup {o})
        /\ step[k] = DisconnectInputs(a, t)
    <3>1. j \in 0..m
      OBVIOUS
    <3>2. Upto(b, j) = P \cup {o} /\ At(c, o) = t /\ Joins(c, P, o)
      BY <1>2, <1>4, <2>2
    <3>3. Good(c, P \cup {o}) /\ Describes(v, c, P \cup {o})
      BY <1>7, <2>2, <3>1, <3>2
    <3>4. step[k] = DisconnectInputs(step[k - 1], vtx[b][m + 1 - k])
      BY <1>8
    <3> QED
      BY <2>1, <2>2, <3>2, <3>3, <3>4
  <2>4. FetchInputs(v, t)
    <3>1. /\ DOMAIN v = TxsAt(c, P \cup {o})
          /\ \A u \in TxsAt(c, P \cup {o}) : DOMAIN v[u].vSpent = DOMAIN vout[u]
      <4>1. PICK Q : Q = P \cup {o} /\ Good(c, Q) /\ Describes(v, c, Q)
        BY <2>3
      <4> HIDE DEF Holds, Fails
      <4>2. Good(c, Q) /\ Describes(v, c, Q)
        BY <4>1
      <4>3. DOMAIN v = TxsAt(c, Q) /\ \A u \in TxsAt(c, Q) : DOMAIN v[u].vSpent = DOMAIN vout[u]
        BY <4>2, IndexTells
      <4> QED
        BY <4>1, <4>3
    <3>2. \A p \in vin[t] : p.hash \in TxsAt(c, P \cup {o}) /\ p.n \in DOMAIN vout[p.hash]
      BY <2>3 DEF Good
    <3> QED
      BY <3>1, <3>2 DEF FetchInputs, InputsFound
  <2>5. PICK y : y = Without(MarkInputs(v, t, Null), t)
    OBVIOUS
  <2>6. step[k] = [ok |-> TRUE, idx |-> y]
    BY <2>2, <2>3, <2>4, <2>5 DEF DisconnectInputs
  <2>7. Describes(y, c, P)
    <3>1. /\ At(c, o) \notin TxsAt(c, P)
          /\ \A q \in P : vin[At(c, q)] \cap vin[At(c, o)] = {}
      BY <2>3 DEF Joins
    <3>2. Describes(Without(MarkInputs(v, At(c, o), Null), At(c, o)), c, P)
      BY <2>3, <3>1, IndexRemoves
    <3> QED
      BY <2>3, <2>5, <3>2
  <2> QED
    BY <2>1, <2>2, <2>6, <2>7
<1>11. Holds(m)
  <2> HIDE DEF Holds
  <2>1. SUFFICES ASSUME Fails # {} PROVE FALSE
    BY <1>2
  <2>2. PICK k \in Fails : \A i \in Fails : k <= i
    <3>1. Fails \subseteq Nat
      OBVIOUS
    <3> HIDE DEF Fails
    <3> QED
      BY <2>1, <3>1, LeastExists
  <2>3. k # 0
    BY <1>9
  <2>4. k \in 1..m /\ k - 1 \in Nat /\ k - 1 <= m /\ k - 1 \notin Fails
    BY <1>2, <2>2, <2>3
  <2> QED
    BY <1>10, <2>2, <2>4
<1>12. PICK v : step[m] = [ok |-> TRUE, idx |-> v] /\ Describes(v, c, Places(d))
  <2>1. m - m = 0
    BY <1>2
  <2> QED
    BY <1>2, <1>11, <2>1
<1>13. v = IndexOf(d)
  BY <1>6, <1>12, IndexIsUnique
<1> QED
  BY <1>8, <1>12, <1>13 DEF OnChain

-----------------------------------------------------------------------------
(* One branch for another.                                                 *)

\* The branch below a sound chain's block is sound.
LEMMA SoundPart ==
  ASSUME NEW b \in Block, SoundChain(ChainOf[b]), NEW i \in 1..Len(ChainOf[b])
  PROVE  SoundChain(ChainOf[ChainOf[b][i]])
<1>1. PICK c : c = ChainOf[b]
  OBVIOUS
<1>2. PICK l \in Nat \ {0} : l = Len(c)
  BY <1>1, ChainFacts
<1> DEFINE Fails == {j \in 0..l : j >= i /\ j # 0 /\ ~SoundChain(ChainOf[c[j]])}
           Holds(j) == SoundChain(ChainOf[c[j]])
<1>3. Holds(l)
  BY <1>1, <1>2, ChainFacts
<1>4. ASSUME NEW j \in 2..l, Holds(j) PROVE Holds(j - 1)
  <2>1. c[j] \in Block \ {Genesis} /\ hashPrevBlock[c[j]] = c[j - 1]
    BY <1>1, <1>2, ChainFacts
  <2>2. PICK a, p : a = c[j] /\ p = c[j - 1] /\ a \in Block \ {Genesis} /\ hashPrevBlock[a] = p
    BY <2>1
  <2>3. PICK ca, cp : ca = ChainOf[a] /\ cp = ChainOf[hashPrevBlock[a]]
    OBVIOUS
  <2>4. SoundChain(cp)
    BY <1>4, <2>2, <2>3, SoundStep
  <2> QED
    BY <2>2, <2>3, <2>4
<1>5. Holds(i)
  <2>1. SUFFICES ASSUME ~Holds(i) PROVE FALSE
    OBVIOUS
  <2>2. PICK B : B = {j \in 0..l : j >= i /\ ~Holds(j)}
    OBVIOUS
  <2>3. i \in B /\ B \subseteq 0..l
    BY <1>1, <1>2, <2>1, <2>2
  <2>4. PICK j \in B : \A k \in B : k <= j
    BY <1>2, <2>3, GreatestExists
  <2>5. j # l /\ j \in 0..l /\ j >= i /\ ~Holds(j)
    BY <1>3, <2>2, <2>4
  <2>6. j + 1 \in 2..l /\ j + 1 \notin B /\ (j + 1) - 1 = j
    BY <1>1, <1>2, <2>4, <2>5
  <2>7. Holds(j + 1)
    BY <1>1, <1>2, <2>2, <2>5, <2>6
  <2>8. Holds((j + 1) - 1)
    BY <1>4, <2>6, <2>7
  <2> QED
    BY <2>5, <2>6, <2>8
<1> QED
  BY <1>1, <1>5

\* The blocks that a reorganization disconnects, and those that it connects.
LEMMA DisconnectList ==
  ASSUME NEW from \in Block, NEW to \in Block,
         NEW c, NEW n, c = ChainOf[from], n = CommonLen(ChainOf[from], ChainOf[to]),
         NEW l, l = Len(c), NEW s, s = vDisconnect(from, to)
  PROVE  s \in Seq(Block) /\ Len(s) = l - n /\ \A k \in 1..l - n : s[k] = c[l + 1 - k]
<1>1. l \in Nat \ {0} /\ n \in 1..l /\ c \in Seq(Block)
  BY ForkFacts, ChainFacts
<1>2. PICK u : u = SubSeq(c, n + 1, l) /\ s = Reverse(u)
  BY DEF vDisconnect
<1>3. u \in Seq(Block) /\ Len(u) = l - n /\ \A k \in 1..l - n : u[k] = c[n + k]
  BY <1>1, <1>2, SMTT(30)
<1>4. PICK e \in Nat : e = l - n
  BY <1>1
<1>5. u \in Seq(Block) /\ Len(u) = e
  BY <1>3, <1>4
<1>6. s = [k \in 1..e |-> u[e - k + 1]]
  BY <1>2, <1>5 DEF Reverse
<1>7. \A k \in 1..e : e - k + 1 \in 1..e /\ n + (e - k + 1) = l + 1 - k
  BY <1>1, <1>4
<1>8. s \in Seq(Block) /\ Len(s) = e
  <2>1. \A k \in 1..e : u[e - k + 1] \in Block
    BY <1>5, <1>7
  <2>2. s \in [1..e -> Block]
    BY <1>6, <2>1
  <2> QED
    BY <1>4, <2>2
<1>9. ASSUME NEW k \in 1..e PROVE s[k] = c[l + 1 - k]
  <2>1. PICK j \in 1..e : j = e - k + 1 /\ n + j = l + 1 - k
    BY <1>7
  <2>2. s[k] = u[j] /\ u[j] = c[n + j]
    BY <1>3, <1>4, <1>6, <2>1
  <2> QED
    BY <2>1, <2>2
<1> QED
  BY <1>4, <1>8, <1>9

LEMMA ConnectList ==
  ASSUME NEW from \in Block, NEW to \in Block,
         NEW d, NEW n, d = ChainOf[to], n = CommonLen(ChainOf[from], ChainOf[to]),
         NEW l, l = Len(d), NEW s, s = vConnect(from, to)
  PROVE  s \in Seq(Block) /\ Len(s) = l - n /\ \A k \in 1..l - n : s[k] = d[n + k]
<1>1. l \in Nat \ {0} /\ n \in 1..l /\ d \in Seq(Block)
  BY ForkFacts, ChainFacts
<1>2. s = SubSeq(d, n + 1, l)
  BY DEF vConnect
<1> QED
  BY <1>1, <1>2, SMTT(30)

\* The loop over vDisconnect ends with the index of the chain up to the fork.
LEMMA DisconnectsToFork ==
  ASSUME NEW from \in Block, NEW to \in Block, SoundChain(ChainOf[from]),
         NEW n, n = CommonLen(ChainOf[from], ChainOf[to])
  PROVE  /\ DisconnectAll(OnChain(ChainOf[from]), vDisconnect(from, to))
              = OnChain(ChainOf[ChainOf[from][n]])
         /\ vDisconnect(from, to) \in Seq(Block)
<1>1. PICK c, s : c = ChainOf[from] /\ s = vDisconnect(from, to)
  OBVIOUS
<1>2. PICK l \in Nat \ {0} : l = Len(c)
  BY <1>1, ChainFacts
<1>3. n \in 1..l /\ c \in Seq(Block)
  BY <1>1, <1>2, ForkFacts, ChainFacts
<1>4. s \in Seq(Block) /\ Len(s) = l - n /\ \A k \in 1..l - n : s[k] = c[l + 1 - k]
  BY <1>1, <1>2, DisconnectList, SMTT(30)
<1>5. PICK step :
        /\ step[0] = OnChain(c)
        /\ \A k \in 1..l - n : step[k] = DisconnectBlock(step[k - 1], s[k])
        /\ DisconnectAll(OnChain(c), s) = step[l - n]
  <2>1. PICK step : BlocksOff(step, OnChain(c), s)
    <3>1. PICK r : r = OnChain(c)
      OBVIOUS
    <3>2. \E step : BlocksOff(step, r, s)
      BY <1>4, DisconnectSteps
    <3> QED
      BY <3>1, <3>2
  <2> QED
    BY <1>4, <2>1 DEF BlocksOff
<1> DEFINE Holds(k) == step[k] = OnChain(ChainOf[c[l - k]])
           Fails == {k \in Nat : k <= l - n /\ ~Holds(k)}
<1>6. Holds(0)
  <2>1. l - 0 = l /\ ChainOf[c[l]] = c
    BY <1>1, <1>2, ChainFacts
  <2> QED
    BY <1>5, <2>1
<1>7. ASSUME NEW k \in 1..l - n, Holds(k - 1) PROVE Holds(k)
  <2>1. PICK j \in 2..l : j = l + 1 - k /\ l - (k - 1) = j /\ l - k = j - 1
    <3>1. l \in Nat /\ n \in Nat /\ k \in Nat /\ n >= 1 /\ k >= 1 /\ k <= l - n
      BY <1>2, <1>3
    <3>2. l + 1 - k \in 2..l /\ l - (k - 1) = l + 1 - k /\ l - k = (l + 1 - k) - 1
      BY <3>1
    <3> QED
      BY <3>2
  <2>2. /\ c[j] \in Block \ {Genesis} /\ hashPrevBlock[c[j]] = c[j - 1]
        /\ SoundChain(ChainOf[c[j]])
    BY <1>1, <1>2, <2>1, ChainFacts, SoundPart
  <2>3. PICK b : b = c[j] /\ b \in Block \ {Genesis} /\ hashPrevBlock[b] = c[j - 1]
    BY <2>2
  <2>4. PICK cb, d : cb = ChainOf[b] /\ d = ChainOf[hashPrevBlock[b]] /\ SoundChain(cb)
    BY <2>2, <2>3
  <2>5. DisconnectBlock(OnChain(cb), b) = OnChain(d)
    BY <2>3, <2>4, DisconnectSound
  <2>6. step[k] = DisconnectBlock(step[k - 1], s[k]) /\ s[k] = b /\ step[k - 1] = OnChain(cb)
    BY <1>4, <1>5, <1>7, <2>1, <2>3, <2>4
  <2> QED
    BY <2>1, <2>3, <2>4, <2>5, <2>6
<1>8. Holds(l - n)
  <2> HIDE DEF Holds
  <2>1. SUFFICES ASSUME Fails # {} PROVE FALSE
    BY <1>2, <1>3
  <2>2. PICK k \in Fails : \A i \in Fails : k <= i
    <3>1. Fails \subseteq Nat
      OBVIOUS
    <3> HIDE DEF Fails
    <3> QED
      BY <2>1, <3>1, LeastExists
  <2>3. k # 0
    BY <1>6
  <2>4. k \in 1..l - n /\ k - 1 \in Nat /\ k - 1 <= l - n /\ k - 1 \notin Fails
    BY <1>2, <1>3, <2>2, <2>3
  <2> QED
    BY <1>7, <2>2, <2>4
<1>9. l - (l - n) = n
  BY <1>2, <1>3
<1> QED
  BY <1>1, <1>4, <1>5, <1>8, <1>9

\* The blocks of to's chain after the n-th may be connected.
Connectable(to, n, fVerify) ==
  /\ SoundChain(ChainOf[to])
  /\ fVerify => \A i \in n + 1..Len(ChainOf[to]) : Signed(ChainOf[to][i])

\* The loop over vConnect, from the index of the chain up to the fork.
LEMMA ConnectsFromFork ==
  ASSUME DuplicatesStayUnspent,
         NEW from \in Block, NEW to \in Block, NEW fVerify, SoundChain(ChainOf[from]),
         NEW n, n = CommonLen(ChainOf[from], ChainOf[to]),
         NEW r, r = ConnectAll(OnChain(ChainOf[ChainOf[from][n]]), vConnect(from, to), fVerify)
  PROVE  /\ r.ok \in BOOLEAN
         /\ r.ok <=> Connectable(to, n, fVerify)
         /\ r.ok => r = OnChain(ChainOf[to])
<1>1. PICK d, s : d = ChainOf[to] /\ s = vConnect(from, to)
  OBVIOUS
<1>2. PICK l \in Nat \ {0} : l = Len(d)
  BY <1>1, ChainFacts
<1>3. /\ n \in 1..l /\ d \in Seq(Block) /\ n \in 1..Len(ChainOf[from])
      /\ ChainOf[from][n] = d[n]
  <2>1. PICK c : c = ChainOf[from]
    OBVIOUS
  <2>2. n \in 1..l /\ n \in 1..Len(c) /\ \A i \in 1..n : c[i] = d[i]
    BY <1>1, <1>2, <2>1, ForkFacts
  <2>3. n \in 1..n
    BY <1>2, <2>2
  <2> QED
    BY <1>1, <2>1, <2>2, <2>3, ChainFacts
<1>4. s \in Seq(Block) /\ Len(s) = l - n /\ \A k \in 1..l - n : s[k] = d[n + k]
  BY <1>1, <1>2, ConnectList
<1>5. PICK step :
        /\ step[0] = OnChain(ChainOf[d[n]])
        /\ \A k \in 1..l - n : step[k] = ConnectBlock(step[k - 1], s[k], fVerify)
        /\ r = step[l - n]
  <2>1. PICK q : q = OnChain(ChainOf[d[n]])
    OBVIOUS
  <2>2. PICK step : BlocksOn(step, q, s, fVerify)
    BY <1>4, ConnectSteps
  <2> QED
    BY <1>1, <1>3, <1>4, <2>1, <2>2 DEF BlocksOn
<1> DEFINE Right(k) == /\ SoundChain(ChainOf[d[n + k]])
                       /\ fVerify => \A i \in n + 1..n + k : Signed(d[i])
           Holds(k) == /\ step[k].ok \in BOOLEAN
                       /\ step[k].ok <=> Right(k)
                       /\ step[k].ok => step[k] = OnChain(ChainOf[d[n + k]])
           Fails == {k \in Nat : k <= l - n /\ ~Holds(k)}
<1>6. Holds(0)
  <2>1. n + 0 = n /\ n + 1..n = {}
    BY <1>3
  <2>2. SoundChain(ChainOf[d[n]])
    BY <1>3, SoundPart
  <2>3. step[0].ok = TRUE
    BY <1>5 DEF OnChain
  <2> QED
    BY <1>5, <2>1, <2>2, <2>3
<1>7. ASSUME NEW k \in 1..l - n, Holds(k - 1) PROVE Holds(k)
  <2>1. PICK j \in 2..l : j = n + k /\ n + (k - 1) = j - 1
    BY <1>2, <1>3
  <2>2. d[j] \in Block \ {Genesis} /\ hashPrevBlock[d[j]] = d[j - 1]
    <3>1. \A i \in 2..Len(d) : d[i] \in Block \ {Genesis} /\ hashPrevBlock[d[i]] = d[i - 1]
      BY <1>1, ChainFacts
    <3>2. j \in 2..Len(d)
      BY <1>2, <2>1
    <3> QED
      BY <3>1, <3>2
  <2>3. PICK b, c, e : /\ b = d[j] /\ c = ChainOf[b] /\ e = ChainOf[hashPrevBlock[b]]
                       /\ b \in Block \ {Genesis} /\ hashPrevBlock[b] = d[j - 1]
    BY <2>2
  <2>4. PICK q : q = step[k - 1]
    OBVIOUS
  <2>5. step[k] = ConnectBlock(q, b, fVerify)
    BY <1>4, <1>5, <2>1, <2>3, <2>4
  <2>6. PICK y : y = ConnectBlock(q, b, fVerify)
    OBVIOUS
  <2>7. SoundChain(c) => SoundChain(e)
    BY <2>3, SoundStep
  <2>8. /\ q.ok \in BOOLEAN
        /\ q.ok <=> /\ SoundChain(e)
                    /\ fVerify => \A i \in n + 1..j - 1 : Signed(d[i])
        /\ q.ok => q = OnChain(e)
    BY <1>7, <2>1, <2>3, <2>4
  <2>9. n + 1..j = (n + 1..j - 1) \cup {j}
    <3>1. n \in Nat /\ j \in Nat /\ j >= n + 1
      BY <1>2, <1>3, <2>1, SMTT(30)
    <3> QED
      BY <3>1
  <2>10. /\ y.ok \in BOOLEAN
         /\ y.ok <=> /\ SoundChain(c)
                     /\ fVerify => \A i \in n + 1..j : Signed(d[i])
         /\ y.ok => y = OnChain(c)
    <3>1. CASE ~q.ok
      <4>1. y.ok = FALSE
        BY <2>3, <2>6, <2>8, <3>1, ConnectFailed
      <4> QED
        BY <2>7, <2>8, <2>9, <3>1, <4>1
    <3>2. CASE q.ok
      <4>1. SoundChain(e) /\ y = ConnectBlock(OnChain(e), b, fVerify)
        BY <2>6, <2>8, <3>2
      <4>2. /\ y.ok \in BOOLEAN
            /\ y.ok <=> SoundChain(c) /\ (fVerify => Signed(b))
            /\ y.ok => y = OnChain(c)
        BY <2>3, <4>1, ConnectSound
      <4> QED
        BY <2>3, <2>8, <2>9, <3>2, <4>2
    <3> QED
      BY <3>1, <3>2
  <2> QED
    BY <2>1, <2>3, <2>5, <2>6, <2>10
<1>8. Holds(l - n)
  <2> HIDE DEF Holds
  <2>1. SUFFICES ASSUME Fails # {} PROVE FALSE
    BY <1>2, <1>3
  <2>2. PICK k \in Fails : \A i \in Fails : k <= i
    <3>1. Fails \subseteq Nat
      OBVIOUS
    <3> HIDE DEF Fails
    <3> QED
      BY <2>1, <3>1, LeastExists
  <2>3. k # 0
    BY <1>6
  <2>4. k \in 1..l - n /\ k - 1 \in Nat /\ k - 1 <= l - n /\ k - 1 \notin Fails
    BY <1>2, <1>3, <2>2, <2>3
  <2> QED
    BY <1>7, <2>2, <2>4
<1>9. n + (l - n) = l /\ d[l] = to
  BY <1>1, <1>2, <1>3, ChainFacts
<1> QED
  BY <1>1, <1>2, <1>5, <1>8, <1>9 DEF Connectable

(* Reorganize on the transaction index, from the index of the chain it     *)
(* leaves: it succeeds just when the chain it goes to is sound and, where  *)
(* they are looked at, the signatures of its blocks are good, and it ends  *)
(* with the index of that chain.                                           *)
THEOREM ReorganizeSound ==
  ASSUME DuplicatesStayUnspent,
         NEW from \in Block, NEW to \in Block, NEW fVerify, SoundChain(ChainOf[from]),
         NEW n, n = CommonLen(ChainOf[from], ChainOf[to]),
         NEW r, r = ReorganizeIndex(IndexOf(ChainOf[from]), from, to, fVerify)
  PROVE  /\ r.ok \in BOOLEAN
         /\ r.ok <=> Connectable(to, n, fVerify)
         /\ r.ok => r.idx = IndexOf(ChainOf[to])
<1>1. r = ConnectAll(DisconnectAll(OnChain(ChainOf[from]), vDisconnect(from, to)),
                     vConnect(from, to), fVerify)
  BY ReorganizeLoops DEF OnChain
<1>2. r = ConnectAll(OnChain(ChainOf[ChainOf[from][n]]), vConnect(from, to), fVerify)
  BY <1>1, DisconnectsToFork
<1>3. r.ok => r = OnChain(ChainOf[to])
  BY <1>2, ConnectsFromFork
<1>4. r.ok => r.idx = IndexOf(ChainOf[to])
  BY <1>3 DEF OnChain
<1>5. r.ok \in BOOLEAN /\ (r.ok <=> Connectable(to, n, fVerify))
  BY <1>2, ConnectsFromFork
<1> QED
  BY <1>4, <1>5

-----------------------------------------------------------------------------
(* What the outputs on a chain are worth.                                  *)

Outs(t) == {[hash |-> t, n |-> n] : n \in DOMAIN vout[t]}

Worth(A) == SumFunction([p \in A |-> vout[p.hash][p.n]])

Valued(A) == IsFiniteSet(A) /\ \A p \in A : vout[p.hash][p.n] \in Int

\* The outputs of the transactions at P that none of them spends.
Open(c, P) ==
  {p \in UNION {Outs(t) : t \in TxsAt(c, P)} : \A q \in P : p \notin vin[At(c, q)]}

LEMMA WorthAdds ==
  ASSUME NEW A, NEW B, Valued(A), Valued(B), A \cap B = {}
  PROVE  Worth(A \cup B) = Worth(A) + Worth(B) /\ Worth(A) \in Int /\ Worth(B) \in Int
<1>1. PICK S, f : S = A \cup B /\ f = [p \in S |-> vout[p.hash][p.n]]
  OBVIOUS
<1>2. IsFiniteSet(S) /\ A \in SUBSET S /\ B \in SUBSET S
  BY <1>1, FS_Union DEF Valued
<1>3. f \in [S -> Int]
  BY <1>1 DEF Valued
<1>4. ASSUME NEW U \in SUBSET S PROVE Total(f, U) = Worth(U)
  <2>1. [x \in U |-> f[x]] = [p \in U |-> vout[p.hash][p.n]]
    BY <1>1
  <2> QED
    BY <2>1 DEF Total, Worth
<1>5. Total(f, A \cup B) = Total(f, A) + Total(f, B)
  BY <1>2, <1>3, TotalOfUnion
<1>6. Total(f, A) \in Int /\ Total(f, B) \in Int
  BY <1>2, <1>3, TotalIsInt
<1>7. Total(f, A) = Worth(A) /\ Total(f, B) = Worth(B) /\ Total(f, S) = Worth(S)
  BY <1>2, <1>4
<1> QED
  BY <1>1, <1>5, <1>6, <1>7

LEMMA WorthOfNone == Worth({}) = 0
<1>1. PICK f : f = [p \in {} |-> vout[p.hash][p.n]]
  OBVIOUS
<1>2. DOMAIN f = {}
  BY <1>1
<1> QED
  BY <1>1, <1>2, SumOfNone DEF Worth

\* Some of the outputs of a transaction.
LEMMA WorthOfOuts ==
  ASSUME NEW t \in Tx, NEW N, N \subseteq DOMAIN vout[t]
  PROVE  /\ Valued({[hash |-> t, n |-> n] : n \in N})
         /\ Worth({[hash |-> t, n |-> n] : n \in N}) = SumFunction([n \in N |-> vout[t][n]])
<1>1. PICK h : h = [n \in N |-> [hash |-> t, n |-> n]]
  OBVIOUS
<1>2. PICK S : S = {h[n] : n \in N}
  OBVIOUS
<1>3. S = {[hash |-> t, n |-> n] : n \in N}
  BY <1>1, <1>2
<1>4. IsFiniteSet(N)
  <2>1. vout[t] \in Seq(Int)
    BY TxAssumption
  <2>2. DOMAIN vout[t] = 1..Len(vout[t]) /\ Len(vout[t]) \in Nat
    BY <2>1
  <2>3. IsFiniteSet(DOMAIN vout[t])
    BY <2>2, FS_Interval
  <2> QED
    BY <2>3, FS_Subset
<1>5. IsFiniteSet(S)
  BY <1>2, <1>4, FiniteImage
<1>6. PICK f : f = [p \in S |-> vout[p.hash][p.n]]
  OBVIOUS
<1>7. ASSUME NEW n \in N PROVE f[h[n]] = vout[t][n] /\ h[n] \in S /\ vout[t][n] \in Int
  <2>1. vout[t][n] \in Int
    BY TxAssumption
  <2> QED
    BY <1>1, <1>2, <1>6, <2>1
<1>8. \A p \in S : vout[p.hash][p.n] \in Int
  BY <1>3, <1>7
<1>9. f \in [S -> Int]
  BY <1>6, <1>8
<1>10. h \in [N -> S] /\ \A m, n \in N : h[m] = h[n] => m = n
  BY <1>1, <1>7
<1>11. SumFunction([n \in N |-> f[h[n]]]) = Total(f, {h[n] : n \in N})
  BY <1>4, <1>5, <1>9, <1>10, TotalOfImage
<1>12. [n \in N |-> f[h[n]]] = [n \in N |-> vout[t][n]]
  BY <1>7
<1>13. Total(f, S) = Worth(S)
  <2>1. [x \in S |-> f[x]] = [p \in S |-> vout[p.hash][p.n]]
    BY <1>6
  <2> QED
    BY <2>1 DEF Total, Worth
<1>14. Worth(S) = SumFunction([n \in N |-> vout[t][n]])
  BY <1>2, <1>11, <1>12, <1>13
<1>15. Valued(S)
  BY <1>5, <1>8 DEF Valued
<1> QED
  BY <1>3, <1>14, <1>15

LEMMA WorthOfTx ==
  ASSUME NEW t \in Tx
  PROVE  Valued(Outs(t)) /\ Worth(Outs(t)) = GetValueOut(t)
<1>1. PICK N : N = DOMAIN vout[t]
  OBVIOUS
<1>2. Outs(t) = {[hash |-> t, n |-> n] : n \in N}
  BY <1>1 DEF Outs
<1>3. vout[t] = [n \in N |-> vout[t][n]]
  <2>1. vout[t] \in Seq(Int)
    BY TxAssumption
  <2> QED
    BY <1>1, <2>1
<1>4. Valued({[hash |-> t, n |-> n] : n \in N})
  BY <1>1, WorthOfOuts
<1>5. Worth({[hash |-> t, n |-> n] : n \in N}) = SumFunction([n \in N |-> vout[t][n]])
  BY <1>1, WorthOfOuts
<1> QED
  BY <1>2, <1>3, <1>4, <1>5 DEF GetValueOut

\* The places of a chain are finitely many.
LEMMA PlacesFinite ==
  ASSUME NEW c \in Seq(Block)
  PROVE  IsFiniteSet(Places(c))
<1>1. PICK f : f = [h \in 2..Len(c) |-> {[h |-> h, k |-> k] : k \in DOMAIN vtx[c[h]]}]
  OBVIOUS
<1>2. PICK S : S = 2..Len(c) /\ IsFiniteSet(S)
  BY FS_Interval
<1>3. ASSUME NEW h \in S PROVE IsFiniteSet(f[h])
  <2>1. PICK T, g : T = DOMAIN vtx[c[h]] /\ g = [k \in T |-> [h |-> h, k |-> k]]
    OBVIOUS
  <2>2. c[h] \in Block
    BY <1>2
  <2>3. vtx[c[h]] \in Seq(Tx)
    BY <2>2, BlockAssumption
  <2>4. T = 1..Len(vtx[c[h]]) /\ Len(vtx[c[h]]) \in Nat
    BY <2>1, <2>3
  <2>5. IsFiniteSet(T)
    BY <2>4, FS_Interval
  <2>6. IsFiniteSet({g[k] : k \in T})
    BY <2>5, FiniteImage
  <2>7. {g[k] : k \in T} = {[h |-> h, k |-> k] : k \in DOMAIN vtx[c[h]]}
    BY <2>1
  <2> QED
    BY <1>1, <1>2, <2>6, <2>7
<1>4. PICK F : F = {f[h] : h \in S}
  OBVIOUS
<1>5. IsFiniteSet(F)
  BY <1>2, <1>4, FiniteImage
<1>6. \A A \in F : IsFiniteSet(A)
  BY <1>3, <1>4
<1>7. IsFiniteSet(UNION F)
  BY <1>5, <1>6, FS_UNION
<1>8. UNION F = Places(c)
  BY <1>1, <1>2, <1>4 DEF Places
<1> QED
  BY <1>7, <1>8

LEMMA OpenIsValued ==
  ASSUME NEW c, NEW P, IsFiniteSet(P), \A o \in P : At(c, o) \in Tx
  PROVE  /\ Valued(Open(c, P))
         /\ IsFiniteSet(TxsAt(c, P))
         /\ Valued(UNION {Outs(t) : t \in TxsAt(c, P)})
<1>1. PICK T, f : T = TxsAt(c, P) /\ f = [o \in P |-> At(c, o)]
  OBVIOUS
<1>2. T = {f[o] : o \in P} /\ T \subseteq Tx
  BY <1>1 DEF TxsAt
<1>3. IsFiniteSet(T)
  BY <1>2, FiniteImage
<1>4. PICK g, F : g = [t \in T |-> Outs(t)] /\ F = {g[t] : t \in T}
  OBVIOUS
<1>5. IsFiniteSet(F)
  BY <1>3, <1>4, FiniteImage
<1>6. \A A \in F : Valued(A)
  BY <1>2, <1>4, WorthOfTx
<1>7. IsFiniteSet(UNION F)
  BY <1>5, <1>6, FS_UNION DEF Valued
<1>8. Valued(UNION F)
  BY <1>6, <1>7 DEF Valued
<1>9. UNION F = UNION {Outs(t) : t \in TxsAt(c, P)}
  BY <1>1, <1>4
<1>10. Open(c, P) \subseteq UNION F
  BY <1>9 DEF Open
<1>11. Valued(Open(c, P))
  BY <1>8, <1>10, FS_Subset DEF Valued
<1> QED
  BY <1>1, <1>3, <1>8, <1>9, <1>11

\* The value of all unspent outputs of an index that is right.
LEMMA UnspentIsWorth ==
  ASSUME NEW c, NEW P, IsFiniteSet(P), Good(c, P), NEW idx, Describes(idx, c, P)
  PROVE  Unspent(idx) = Worth(Open(c, P))
<1>1. \A o \in P : At(c, o) \in Tx
  BY DEF Good
<1>2. PICK T : T = TxsAt(c, P)
  OBVIOUS
<1>3. DOMAIN idx = T
  BY <1>2, IndexTells
<1>4. \A t \in T : \A n \in DOMAIN vout[t] :
        idx[t].vSpent[n] = Null <=> \A q \in P : [hash |-> t, n |-> n] \notin vin[At(c, q)]
  BY <1>2, IndexTells
<1>5. PICK S : S = UNION {Outs(t) : t \in T}
  OBVIOUS
<1>6. Valued(S) /\ IsFiniteSet(T)
  BY <1>1, <1>2, <1>5, OpenIsValued
<1>7. PICK f : f = [p \in S |-> vout[p.hash][p.n]]
  OBVIOUS
<1>8. f \in [S -> Int] /\ IsFiniteSet(S)
  BY <1>6, <1>7 DEF Valued
<1>9. PICK part : part = [t \in T |-> {p \in Outs(t) : \A q \in P : p \notin vin[At(c, q)]}]
  OBVIOUS
<1>10. part \in [T -> SUBSET S] /\ \A t, u \in T : t # u => part[t] \cap part[u] = {}
  BY <1>5, <1>9 DEF Outs
<1>11. SumFunction([t \in T |-> Total(f, part[t])]) = Total(f, UNION {part[t] : t \in T})
  BY <1>6, <1>8, <1>10, TotalOfParts
<1>12. UNION {part[t] : t \in T} = Open(c, P)
  BY <1>2, <1>5, <1>9 DEF Open
<1>13. Total(f, Open(c, P)) = Worth(Open(c, P))
  <2>1. PICK A : A = Open(c, P)
    OBVIOUS
  <2>2. A \subseteq S
    BY <1>2, <1>5, <2>1 DEF Open
  <2>3. [x \in A |-> f[x]] = [p \in A |-> vout[p.hash][p.n]]
    BY <1>7, <2>2
  <2> QED
    BY <2>1, <2>3 DEF Total, Worth
<1>14. ASSUME NEW t \in T
       PROVE  SumFunction([n \in {n \in DOMAIN vout[t] : idx[t].vSpent[n] = Null} |-> vout[t][n]])
                = Total(f, part[t])
  <2>1. t \in Tx
    BY <1>1, <1>2 DEF TxsAt
  <2>2. PICK N : N = {n \in DOMAIN vout[t] : idx[t].vSpent[n] = Null}
    OBVIOUS
  <2>3. N \subseteq DOMAIN vout[t]
    BY <2>2
  <2>4. Worth({[hash |-> t, n |-> n] : n \in N}) = SumFunction([n \in N |-> vout[t][n]])
    BY <2>1, <2>3, WorthOfOuts
  <2>5. PICK A : A = part[t]
    OBVIOUS
  <2>6. A = {[hash |-> t, n |-> n] : n \in N}
    <3>1. A = {p \in Outs(t) : \A q \in P : p \notin vin[At(c, q)]}
      BY <1>9, <2>5
    <3>2. ASSUME NEW p \in A PROVE p \in {[hash |-> t, n |-> n] : n \in N}
      <4>1. PICK n \in DOMAIN vout[t] : p = [hash |-> t, n |-> n]
        BY <3>1 DEF Outs
      <4>2. n \in N
        BY <1>4, <2>2, <3>1, <4>1
      <4> QED
        BY <4>1, <4>2
    <3>3. ASSUME NEW n \in N PROVE [hash |-> t, n |-> n] \in A
      <4>1. n \in DOMAIN vout[t] /\ idx[t].vSpent[n] = Null
        BY <2>2
      <4>2. [hash |-> t, n |-> n] \in Outs(t)
        BY <4>1 DEF Outs
      <4> QED
        BY <1>4, <3>1, <4>1, <4>2
    <3> QED
      BY <3>2, <3>3
  <2>7. A \subseteq S
    BY <1>10, <2>5
  <2>8. [x \in A |-> f[x]] = [p \in A |-> vout[p.hash][p.n]]
    BY <1>7, <2>7
  <2>9. Total(f, A) = Worth(A)
    BY <2>8 DEF Total, Worth
  <2> QED
    BY <2>2, <2>4, <2>5, <2>6, <2>9
<1>15. Unspent(idx) = SumFunction([t \in T |-> Total(f, part[t])])
  <2>1. Unspent(idx) = SumFunction([t \in T |->
          SumFunction([n \in {n \in DOMAIN vout[t] : idx[t].vSpent[n] = Null} |-> vout[t][n]])])
    BY <1>3 DEF Unspent
  <2>2. [t \in T |->
          SumFunction([n \in {n \in DOMAIN vout[t] : idx[t].vSpent[n] = Null} |-> vout[t][n]])]
        = [t \in T |-> Total(f, part[t])]
    BY <1>14
  <2> QED
    BY <2>1, <2>2
<1> QED
  BY <1>11, <1>12, <1>13, <1>15

\* One transaction more.
LEMMA OpenGrows ==
  ASSUME NEW c, NEW P, IsFiniteSet(P), Good(c, P), NEW o, c[o.h] \in Block,
         At(c, o) \in Tx, Joins(c, P, o), NEW t, t = At(c, o)
  PROVE  /\ Worth(Open(c, P)) \in Int
         /\ Worth(Open(c, P \cup {o}))
              = Worth(Open(c, P)) - GetValueIn(t) + GetValueOut(t)
         /\ GetValueIn(t) \in Int /\ GetValueOut(t) \in Int
<1>1. PICK A, B : A = Open(c, P) \ vin[t] /\ B = vin[t]
  OBVIOUS
<1>2. \A q \in P : At(c, q) \in Tx
  BY DEF Good
<1>3. Valued(Open(c, P))
  BY <1>2, OpenIsValued
<1>4. B \subseteq Open(c, P)
  <2>1. SUFFICES ASSUME NEW p \in vin[t] PROVE p \in Open(c, P)
    BY <1>1
  <2>2. p \in OutPoint
    BY DEF OutPoint
  <2>3. p = [hash |-> p.hash, n |-> p.n]
    BY <2>2, TxAssumption
  <2>4. p.n \in DOMAIN vout[p.hash] /\ p.hash \in TxsAt(c, P)
    BY DEF Joins, TxsAt
  <2>5. p \in Outs(p.hash)
    BY <2>3, <2>4 DEF Outs
  <2>6. \A q \in P : p \notin vin[At(c, q)]
    BY DEF Joins
  <2> QED
    BY <2>4, <2>5, <2>6 DEF Open
<1>5. Valued(A) /\ Valued(B) /\ A \cap B = {} /\ Open(c, P) = A \cup B
  BY <1>1, <1>3, <1>4, FS_Subset DEF Valued
<1>6. Worth(Open(c, P)) = Worth(A) + Worth(B) /\ Worth(A) \in Int /\ Worth(B) \in Int
  BY <1>5, WorthAdds
<1>7. Worth(B) = GetValueIn(t)
  BY <1>1 DEF Worth, GetValueIn
<1>8. PICK C : C = Outs(t)
  OBVIOUS
<1>9. Valued(C) /\ Worth(C) = GetValueOut(t)
  BY <1>8, WorthOfTx
<1>10. A \cap C = {}
  <2>1. t \notin TxsAt(c, P)
    BY DEF Joins
  <2>2. ASSUME NEW p \in A PROVE p \notin C
    <3>1. PICK u \in TxsAt(c, P) : p \in Outs(u)
      BY <1>1 DEF Open
    <3>2. p.hash = u /\ \A x \in C : x.hash = t
      BY <1>8, <3>1 DEF Outs
    <3> QED
      BY <2>1, <3>1, <3>2
  <2> QED
    BY <2>2
<1>11. Open(c, P \cup {o}) = A \cup C
  <2>1. \A q \in P \cup {o} : \A n : [hash |-> t, n |-> n] \notin vin[At(c, q)]
    <3>1. \A q \in P \cup {o} : \A n : [hash |-> At(c, o), n |-> n] \notin vin[At(c, q)]
      BY GoodGrows
    <3> QED
      BY <3>1
  <2>2. TxsAt(c, P \cup {o}) = TxsAt(c, P) \cup {t}
    BY DEF TxsAt
  <2>3. ASSUME NEW p PROVE p \in Open(c, P \cup {o}) <=> p \in A \cup C
    <3>1. p \in Open(c, P \cup {o}) <=>
            /\ p \in UNION {Outs(u) : u \in TxsAt(c, P)} \/ p \in C
            /\ (\A q \in P : p \notin vin[At(c, q)]) /\ p \notin vin[t]
      BY <1>8, <2>2 DEF Open
    <3>2. p \in C => (\A q \in P : p \notin vin[At(c, q)]) /\ p \notin vin[t]
      <4>1. HAVE p \in C
      <4>2. PICK n \in DOMAIN vout[t] : p = [hash |-> t, n |-> n]
        BY <1>8, <4>1 DEF Outs
      <4> QED
        BY <2>1, <4>2
    <3>3. p \in A <=> /\ p \in UNION {Outs(u) : u \in TxsAt(c, P)}
                      /\ (\A q \in P : p \notin vin[At(c, q)]) /\ p \notin vin[t]
      BY <1>1 DEF Open
    <3> QED
      BY <3>1, <3>2, <3>3
  <2> QED
    BY <2>3
<1>12. Worth(A \cup C) = Worth(A) + Worth(C) /\ Worth(C) \in Int
  BY <1>5, <1>9, <1>10, WorthAdds
<1>13. PICK e, f, x, y, z : /\ e = Worth(Open(c, P)) /\ f = Worth(Open(c, P \cup {o}))
                            /\ x = Worth(A) /\ y = GetValueIn(t) /\ z = GetValueOut(t)
  OBVIOUS
<1>14. e = x + y /\ f = x + z /\ x \in Int /\ y \in Int /\ z \in Int
  BY <1>6, <1>7, <1>9, <1>11, <1>12, <1>13
<1>15. e \in Int /\ f = e - y + z
  BY <1>14
<1> QED
  BY <1>13, <1>14, <1>15

\* One block more.
LEMMA BlockWorth ==
  ASSUME NEW b \in Block \ {Genesis}, NEW c, NEW d,
         c = ChainOf[b], d = ChainOf[hashPrevBlock[b]], SoundChain(c)
  PROVE  /\ Worth(Open(c, Places(c))) \in Int /\ Worth(Open(d, Places(d))) \in Int
         /\ GetValueOut(vtx[b][1]) \in Int /\ Fees(b) \in Int
         /\ Worth(Open(c, Places(c)))
              = Worth(Open(d, Places(d))) + GetValueOut(vtx[b][1]) - Fees(b)
<1>1. PICK m : m = Len(vtx[b])
  OBVIOUS
<1>2. /\ SoundChain(d) /\ CheckBlock(b)
      /\ \A k \in 1..m : Joins(c, Upto(b, k - 1), OwnPlace(b, k))
  BY <1>1, SoundStep
<1>3. m \in Nat \ {0} /\ \A k \in 1..m : IsCoinBase(vtx[b][k]) <=> k = 1
  <2>1. vtx[b] \in Seq(Tx) /\ vtx[b] # <<>> /\ \A k \in DOMAIN vtx[b] : IsCoinBase(vtx[b][k]) <=> k = 1
    BY <1>2, BlockAssumption DEF CheckBlock
  <2>2. m \in Nat /\ DOMAIN vtx[b] = 1..m
    BY <1>1, <2>1
  <2>3. m # 0
    BY <1>1, <2>1, EmptySeq
  <2> QED
    BY <2>1, <2>2, <2>3
<1>4. Good(d, Places(d))
  <2>1. hashPrevBlock[b] \in Block
    BY BlockAssumption
  <2> QED
    BY <1>2, <2>1, SoundIsGood
<1>5. ASSUME NEW k \in 0..m PROVE Good(c, Upto(b, k))
  <2>1. \A j \in 1..k : Joins(c, Upto(b, j - 1), OwnPlace(b, j))
    BY <1>2, <1>3
  <2> QED
    BY <1>1, <1>4, <2>1, GoodInBlocks
<1>6. /\ Places(c) = Upto(b, m)
      /\ Upto(b, 0) = Places(d)
      /\ \A k \in 1..m : /\ Upto(b, k) = Upto(b, k - 1) \cup {OwnPlace(b, k)}
                         /\ At(c, OwnPlace(b, k)) = vtx[b][k]
                         /\ vtx[b][k] \in Tx
                         /\ c[OwnPlace(b, k).h] = b
                         /\ Upto(b, k) \subseteq Places(c)
  BY <1>1, NewPlaces
<1>7. c \in Seq(Block) /\ d \in Seq(Block) /\ Places(d) \subseteq Places(c)
  BY OldPlaces
<1>8. ASSUME NEW k \in 0..m PROVE IsFiniteSet(Upto(b, k))
  <2>1. Upto(b, k) \subseteq Places(c)
    <3>1. CASE k = 0
      BY <1>6, <1>7, <3>1
    <3>2. CASE k # 0
      <4>1. k \in 1..m
        BY <1>3, <3>2
      <4> QED
        BY <1>6, <4>1
    <3> QED
      BY <3>1, <3>2
  <2> QED
    BY <1>7, <2>1, PlacesFinite, FS_Subset
<1>9. PICK w : w = [k \in 0..m |-> Worth(Open(c, Upto(b, k)))]
  OBVIOUS
<1>10. ASSUME NEW k \in 1..m
       PROVE  /\ w[k - 1] \in Int
              /\ w[k] = w[k - 1] - GetValueIn(vtx[b][k]) + GetValueOut(vtx[b][k])
              /\ GetValueIn(vtx[b][k]) \in Int /\ GetValueOut(vtx[b][k]) \in Int
  <2>1. k - 1 \in 0..m /\ k \in 0..m
    BY <1>3
  <2>2. PICK P, o, t : P = Upto(b, k - 1) /\ o = OwnPlace(b, k) /\ t = vtx[b][k]
    OBVIOUS
  <2>3. Good(c, P) /\ IsFiniteSet(P)
    BY <1>5, <1>8, <2>1, <2>2
  <2>4. c[o.h] \in Block /\ At(c, o) \in Tx /\ t = At(c, o) /\ Upto(b, k) = P \cup {o}
    BY <1>6, <2>2
  <2>5. Joins(c, P, o)
    BY <1>2, <2>2
  <2>6. /\ Worth(Open(c, P)) \in Int
        /\ Worth(Open(c, P \cup {o})) = Worth(Open(c, P)) - GetValueIn(t) + GetValueOut(t)
        /\ GetValueIn(t) \in Int /\ GetValueOut(t) \in Int
    BY <2>3, <2>4, <2>5, OpenGrows
  <2>7. w[k - 1] = Worth(Open(c, P)) /\ w[k] = Worth(Open(c, P \cup {o}))
    BY <1>9, <2>1, <2>2, <2>4
  <2> QED
    BY <2>2, <2>6, <2>7
<1>11. PICK v : v = GetValueOut(vtx[b][1]) /\ v \in Int
  <2>1. 1 \in 1..m
    BY <1>3
  <2> QED
    BY <1>10, <2>1
<1>12. w[0] \in Int
  <2>1. 1 \in 1..m /\ 1 - 1 = 0
    BY <1>3
  <2> QED
    BY <1>10, <2>1
<1>13. w[1] = w[0] + v
  <2>1. 1 \in 1..m /\ 1 - 1 = 0
    BY <1>3
  <2>2. GetValueIn(vtx[b][1]) = 0
    <3>1. vin[vtx[b][1]] = {}
      BY <1>3, <2>1 DEF IsCoinBase
    <3>2. GetValueIn(vtx[b][1]) = Worth({})
      BY <3>1 DEF GetValueIn, Worth
    <3> QED
      BY <3>2, WorthOfNone
  <2>3. w[1] = w[0] - 0 + v
    BY <1>10, <1>11, <2>1, <2>2
  <2> QED
    BY <1>11, <1>12, <2>3
<1>14. ASSUME NEW k \in 1..m
       PROVE  /\ FeesUpto(b, k) \in Int
              /\ FeesUpto(b, k) =
                   IF k = 1 THEN 0
                   ELSE FeesUpto(b, k - 1) + GetValueIn(vtx[b][k]) - GetValueOut(vtx[b][k])
              /\ FeesUpto(b, k - 1) \in Int
  <2>1. \A j \in 2..k : GetValueIn(vtx[b][j]) \in Int /\ GetValueOut(vtx[b][j]) \in Int
    <3>1. ASSUME NEW j \in 2..k PROVE j \in 1..m
      BY <1>3
    <3> QED
      BY <1>10, <3>1
  <2>2. k \in Nat \ {0}
    BY <1>3
  <2> QED
    BY <2>1, <2>2, FeesGrow
<1> DEFINE Fails == {k \in Nat : k \in 1..m /\ w[k] # w[0] + v - FeesUpto(b, k)}
<1>15. Fails = {}
  <2> SUFFICES ASSUME Fails # {} PROVE FALSE
    OBVIOUS
  <2>1. PICK k \in Fails : \A j \in Fails : k <= j
    <3>1. Fails \subseteq Nat
      OBVIOUS
    <3> HIDE DEF Fails
    <3> QED
      BY <3>1, LeastExists
  <2>2. k \in 1..m /\ w[k] # w[0] + v - FeesUpto(b, k)
    BY <2>1
  <2>3. k # 1
    <3>1. SUFFICES ASSUME k = 1 PROVE FALSE
      OBVIOUS
    <3>2. FeesUpto(b, 1) = 0
      BY <1>14, <2>2, <3>1
    <3> QED
      BY <1>11, <1>12, <1>13, <2>2, <3>1, <3>2
  <2>4. k - 1 \in 1..m /\ k - 1 \in Nat /\ ~(k <= k - 1)
    BY <1>3, <2>2, <2>3
  <2>5. PICK j : j = k - 1 /\ j \in 1..m
    BY <2>4
  <2>6. w[j] = w[0] + v - FeesUpto(b, j)
    BY <2>1, <2>4, <2>5
  <2>7. PICK x, y : x = GetValueIn(vtx[b][k]) /\ y = GetValueOut(vtx[b][k])
    OBVIOUS
  <2>8. x \in Int /\ y \in Int /\ w[k] = w[j] - x + y /\ w[j] \in Int
    BY <1>10, <2>2, <2>5, <2>7
  <2>9. FeesUpto(b, k) = FeesUpto(b, j) + x - y /\ FeesUpto(b, j) \in Int /\ FeesUpto(b, k) \in Int
    BY <1>14, <2>2, <2>3, <2>5, <2>7
  <2> HIDE DEF Fails
  <2>10. PICK e, f : e = FeesUpto(b, j) /\ f = FeesUpto(b, k)
    OBVIOUS
  <2>11. e \in Int /\ f = e + x - y /\ w[j] = w[0] + v - e /\ w[k] # w[0] + v - f
    BY <2>2, <2>6, <2>9, <2>10
  <2> QED
    BY <1>11, <1>12, <2>8, <2>11
<1>16. w[m] = w[0] + v - FeesUpto(b, m) /\ FeesUpto(b, m) = Fees(b)
  <2>1. m \in 1..m /\ m \in Nat
    BY <1>3
  <2>2. FeesUpto(b, m) = Fees(b)
    BY <1>1 DEF FeesUpto, Fees
  <2> QED
    BY <1>15, <2>1, <2>2
<1>17. w[m] = Worth(Open(c, Places(c))) /\ w[0] = Worth(Open(c, Places(d)))
  BY <1>3, <1>6, <1>9
<1>18. Open(c, Places(d)) = Open(d, Places(d))
  <2>1. TxsAt(c, Places(d)) = TxsAt(d, Places(d))
    BY GoodInBlock
  <2>2. \A q \in Places(d) : At(c, q) = At(d, q)
    BY OldPlaces
  <2> QED
    BY <2>1, <2>2 DEF Open
<1>19. FeesUpto(b, m) \in Int
  BY <1>3, <1>14
<1>20. w[m] \in Int
  BY <1>11, <1>12, <1>16, <1>19
<1> QED
  BY <1>11, <1>12, <1>16, <1>17, <1>18, <1>19, <1>20

(* The outputs that the index of a sound chain leaves unspent are worth no *)
(* more than the subsidies of its blocks: a spend moves value, the fees it *)
(* leaves are what the coinbase of its block may take besides the subsidy. *)
THEOREM NoMoreThanSubsidies ==
  ASSUME NEW a \in Block, SoundChain(ChainOf[a])
  PROVE  Unspent(IndexOf(ChainOf[a])) <= Subsidies(ChainOf[a])
<1> DEFINE Holds(b) == LET c == ChainOf[b] IN
             /\ Worth(Open(c, Places(c))) \in Int /\ Subsidies(c) \in Int
             /\ Worth(Open(c, Places(c))) <= Subsidies(c)
           Fails == {b \in Block \ {Genesis} : SoundChain(ChainOf[b]) /\ ~Holds(b)}
<1>1. Holds(Genesis)
  <2>1. PICK c : c = ChainOf[Genesis]
    OBVIOUS
  <2>2. c = <<Genesis>> /\ Places(c) = {}
    BY <2>1, ChainEquation, GenesisPlaces, BlockAssumption
  <2>3. Open(c, Places(c)) = {}
    BY <2>2 DEF Open, TxsAt
  <2>4. Subsidies(c) = 0
    <3>1. PICK f : f = [h \in 2..Len(c) |-> Subsidy(h - 1)]
      OBVIOUS
    <3>2. Len(c) = 1
      BY <2>2
    <3>3. DOMAIN f = {}
      BY <3>1, <3>2
    <3> QED
      BY <3>1, <3>3, SumOfNone DEF Subsidies
  <2>5. Worth(Open(c, Places(c))) = 0
    BY <2>3, WorthOfNone
  <2> QED
    BY <2>1, <2>4, <2>5
<1>2. ASSUME NEW b \in Block \ {Genesis}, SoundChain(ChainOf[b]), Holds(hashPrevBlock[b])
      PROVE  Holds(b)
  <2>1. PICK c, d : c = ChainOf[b] /\ d = ChainOf[hashPrevBlock[b]]
    OBVIOUS
  <2>2. SoundChain(c)
    BY <1>2, <2>1
  <2>3. /\ Worth(Open(c, Places(c))) \in Int /\ Worth(Open(d, Places(d))) \in Int
        /\ GetValueOut(vtx[b][1]) \in Int /\ Fees(b) \in Int
        /\ Worth(Open(c, Places(c)))
             = Worth(Open(d, Places(d))) + GetValueOut(vtx[b][1]) - Fees(b)
    BY <2>1, <2>2, BlockWorth
  <2>4. PICK n : n = Len(d) /\ n \in Nat \ {0}
    BY <2>1, OldPlaces
  <2>5. Len(c) = n + 1 /\ nHeight(b) = n /\ n + 1 \in 2..Len(c)
    <3>1. Len(c) = n + 1
      BY <2>1, <2>4, OldPlaces
    <3>2. nHeight(b) = (n + 1) - 1
      BY <2>1, <3>1 DEF nHeight
    <3> QED
      BY <2>4, <3>1, <3>2
  <2>6. Subsidy(n) \in Nat
    BY <2>5, SubsidyAssumption
  <2>7. GetValueOut(vtx[b][1]) <= Subsidy(n) + Fees(b)
    <3>1. ~CoinbasePaysTooMuch(b, Fees(b))
      BY <2>1, <2>2, SoundStep
    <3>2. ~(GetValueOut(vtx[b][1]) > Subsidy(n) + Fees(b))
      BY <2>5, <3>1 DEF CoinbasePaysTooMuch, GetBlockValue
    <3>3. PICK u, v, w : u = GetValueOut(vtx[b][1]) /\ v = Subsidy(n) /\ w = Fees(b)
      OBVIOUS
    <3>4. u \in Int /\ v \in Int /\ w \in Int /\ ~(u > v + w)
      BY <2>3, <2>6, <3>2, <3>3
    <3>5. u <= v + w
      BY <3>4
    <3> QED
      BY <3>3, <3>5
  <2>8. Subsidies(c) = Subsidy(n) + Subsidies(d) /\ Subsidies(d) \in Int
    <3>1. PICK S, f : S = 2..n + 1 /\ f = [h \in S |-> Subsidy(h - 1)]
      OBVIOUS
    <3>2. ASSUME NEW h \in S PROVE f[h] \in Int
      <4>1. h \in 1..Len(ChainOf[b])
        BY <2>1, <2>4, <2>5, <3>1
      <4>2. c[h] \in Block /\ Len(ChainOf[c[h]]) = h
        BY <2>1, <4>1, PartLength
      <4>3. nHeight(c[h]) = h - 1
        BY <4>2 DEF nHeight
      <4>4. Subsidy(h - 1) \in Nat
        BY <4>2, <4>3, SubsidyAssumption
      <4> QED
        BY <3>1, <4>4
    <3>3. f \in [S -> Int]
      BY <3>1, <3>2
    <3>4. IsFiniteSet(S) /\ n + 1 \in S
      <4>1. n + 1 \in Int
        BY <2>4
      <4>2. IsFiniteSet(S)
        BY <3>1, <4>1, FS_Interval
      <4> QED
        BY <2>4, <3>1, <4>2
    <3>5. PICK x : x = n + 1
      OBVIOUS
    <3>6. /\ SumFunction(f) = f[x] + SumFunction([y \in S \ {x} |-> f[y]])
          /\ SumFunction([y \in S \ {x} |-> f[y]]) \in Int
      BY <3>3, <3>4, <3>5, SumWithout
    <3>7. SumFunction(f) = Subsidies(c)
      BY <2>5, <3>1 DEF Subsidies
    <3>8. f[x] = Subsidy(n)
      <4>1. x - 1 = n
        BY <2>4, <3>5
      <4> QED
        BY <3>1, <3>4, <3>5, <4>1
    <3>9. [y \in S \ {x} |-> f[y]] = [h \in 2..Len(d) |-> Subsidy(h - 1)]
      <4>1. S \ {x} = 2..n
        BY <2>4, <3>1, <3>5
      <4>2. [y \in 2..n |-> f[y]] = [h \in 2..n |-> Subsidy(h - 1)]
        BY <3>1, <4>1
      <4> QED
        BY <2>4, <4>1, <4>2
    <3>10. SumFunction([y \in S \ {x} |-> f[y]]) = Subsidies(d)
      BY <3>9 DEF Subsidies
    <3> QED
      BY <3>6, <3>7, <3>8, <3>10
  <2>9. Worth(Open(d, Places(d))) <= Subsidies(d)
    BY <1>2, <2>1
  <2>10. PICK w, x, u, v, y, s, z :
           /\ w = Worth(Open(c, Places(c))) /\ x = Worth(Open(d, Places(d)))
           /\ u = GetValueOut(vtx[b][1]) /\ v = Fees(b) /\ y = Subsidy(n)
           /\ s = Subsidies(d) /\ z = Subsidies(c)
    OBVIOUS
  <2>11. /\ w \in Int /\ x \in Int /\ u \in Int /\ v \in Int /\ y \in Int /\ s \in Int
         /\ w = x + u - v /\ u <= y + v /\ z = y + s /\ x <= s
    BY <2>3, <2>6, <2>7, <2>8, <2>9, <2>10
  <2>12. z \in Int /\ w <= z
    BY <2>11
  <2> QED
    BY <2>1, <2>10, <2>11, <2>12
<1>3. Fails = {}
  <2> SUFFICES ASSUME Fails # {} PROVE FALSE
    OBVIOUS
  <2>1. PICK b \in Fails : hashPrevBlock[b] \notin Fails
    <3>1. Fails \in SUBSET (Block \ {Genesis})
      OBVIOUS
    <3> HIDE DEF Fails
    <3> QED
      BY <3>1, AcyclicAssumption
  <2>2. b \in Block \ {Genesis} /\ SoundChain(ChainOf[b]) /\ ~Holds(b)
    BY <2>1
  <2>3. hashPrevBlock[b] \in Block
    BY <2>2, BlockAssumption
  <2> HIDE DEF Holds
  <2>4. PICK c, d : c = ChainOf[b] /\ d = ChainOf[hashPrevBlock[b]]
    OBVIOUS
  <2>5. SoundChain(c) /\ b \in Block \ {Genesis}
    BY <2>2, <2>4
  <2>6. SoundChain(d)
    BY <2>4, <2>5, SoundStep
  <2>7. Holds(hashPrevBlock[b])
    BY <1>1, <2>1, <2>3, <2>4, <2>6
  <2> QED
    BY <1>2, <2>2, <2>7
<1>4. Holds(a)
  BY <1>1, <1>3
<1>5. PICK c : c = ChainOf[a]
  OBVIOUS
<1>6. IsFiniteSet(Places(c)) /\ Good(c, Places(c))
  <2>1. c \in Seq(Block)
    BY <1>5, ChainFacts
  <2> QED
    BY <1>5, <2>1, PlacesFinite, SoundIsGood
<1>7. PICK P, idx : P = Places(c) /\ idx = IndexOf(c)
  OBVIOUS
<1>8. IsFiniteSet(P) /\ Good(c, P) /\ Describes(idx, c, P)
  BY <1>6, <1>7, IndexOfDescribes
<1>9. Unspent(idx) = Worth(Open(c, P))
  BY <1>8, UnspentIsWorth
<1> QED
  BY <1>4, <1>5, <1>7, <1>9

-----------------------------------------------------------------------------
(* A chain is valid if and only if it is sound, its blocks pass            *)
(* AcceptBlock, and its signatures are right.                              *)

LEMMA FeesAreInt ==
  ASSUME NEW c \in Seq(Block), InputsExist(c), NEW h \in 2..Len(c)
  PROVE  Fees(c[h]) \in Int
<1>1. PICK b \in Block : b = c[h]
  OBVIOUS
<1>2. PICK m \in Nat : m = Len(vtx[b]) /\ \A k \in 1..m : vtx[b][k] \in Tx
  BY BlockAssumption
<1>3. ASSUME NEW j \in 2..m
      PROVE  GetValueIn(vtx[b][j]) \in Int /\ GetValueOut(vtx[b][j]) \in Int
  <2>1. PICK o : o = [h |-> h, k |-> j]
    OBVIOUS
  <2>2. j \in 1..m
    OBVIOUS
  <2>3. o \in Places(c) /\ At(c, o) = vtx[b][j] /\ vtx[b][j] \in Tx
    BY <1>1, <1>2, <2>1, <2>2, PlaceIs DEF At
  <2>4. \A p \in vin[vtx[b][j]] : p.n \in DOMAIN vout[p.hash]
    BY <2>3 DEF InputsExist
  <2> QED
    BY <2>3, <2>4, ValuesAreInt
<1>4. Fees(b) = FeesUpto(b, m)
  BY <1>2 DEF Fees, FeesUpto
<1>5. CASE m = 0
  <2>1. FeesUpto(b, 1) \in Int /\ FeesUpto(b, 1 - 1) \in Int
    <3>1. 2..1 = {} /\ 1 \in Nat \ {0}
      OBVIOUS
    <3>2. \A j \in 2..1 : GetValueIn(vtx[b][j]) \in Int /\ GetValueOut(vtx[b][j]) \in Int
      BY <3>1
    <3> QED
      BY <3>1, <3>2, FeesGrow
  <2> QED
    BY <1>1, <1>4, <1>5, <2>1
<1>6. CASE m # 0
  <2>1. m \in Nat \ {0}
    BY <1>6
  <2> QED
    BY <1>1, <1>3, <1>4, <2>1, FeesGrow
<1> QED
  BY <1>5, <1>6

LEMMA ValidIsSound ==
  ASSUME NEW b \in Block, NEW c, c = ChainOf[b]
  PROVE  ValidChain[b] <=>
           /\ SoundChain(c)
           /\ \A h \in 2..Len(c) : c[h] \notin BadContext /\ Signed(c[h])
<1>1. /\ c \in Seq(Block) /\ Len(c) \in Nat \ {0}
      /\ \A h \in 2..Len(c) : c[h] \in Block /\ nHeight(c[h]) = h - 1
  <2>1. c \in Seq(Block) /\ Len(c) \in Nat \ {0}
    BY ChainFacts
  <2>2. ASSUME NEW h \in 2..Len(c) PROVE c[h] \in Block /\ nHeight(c[h]) = h - 1
    <3>1. h \in 1..Len(c)
      BY <2>1
    <3>2. c[h] \in Block /\ Len(ChainOf[c[h]]) = h
      BY <3>1, PartLength
    <3> QED
      BY <3>2 DEF nHeight
  <2> QED
    BY <2>1, <2>2
<1>2. ValidChain[b] = IsValidChain(c)
  BY DEF ValidChain
<1>3. (\A o \in Places(c) : Joins(c, Earlier(c, o), o)) <=>
           /\ InputsExist(c)
           /\ NoDoubleSpend(c)
           /\ \A o \in Places(c) : ~IsCoinBase(At(c, o)) =>
                GetValueIn(At(c, o)) >= GetValueOut(At(c, o))
  BY <1>1, RulesInOrder
<1>4. (\A o \in Places(c) : ~IsCoinBase(At(c, o)) => At(c, o) \notin BadSignature)
        <=> \A h \in 2..Len(c) : Signed(c[h])
  <2>1. ASSUME NEW h \in 2..Len(c), NEW k \in 1..Len(vtx[c[h]])
        PROVE  \E o \in Places(c) : At(c, o) = vtx[c[h]][k]
    <3>1. [h |-> h, k |-> k] \in Places(c)
      BY <1>1, PlaceIs
    <3> QED
      BY <3>1 DEF At
  <2>2. ASSUME NEW o \in Places(c)
        PROVE  \E h \in 2..Len(c) : \E k \in 1..Len(vtx[c[h]]) : At(c, o) = vtx[c[h]][k]
    <3>1. o.h \in 2..Len(c) /\ o.k \in 1..Len(vtx[c[o.h]])
      BY <1>1, PlaceFacts
    <3> QED
      BY <3>1 DEF At
  <2> QED
    BY <2>1, <2>2 DEF Signed
<1>5. ASSUME InputsExist(c), NEW h \in 2..Len(c), CheckBlock(c[h])
      PROVE  GetValueOut(vtx[c[h]][1]) <= GetBlockValue(h - 1, Fees(c[h]))
               <=> ~CoinbasePaysTooMuch(c[h], Fees(c[h]))
  <2>1. PICK a, f, v, w : /\ a = c[h] /\ f = Fees(a) /\ v = GetValueOut(vtx[a][1])
                          /\ w = GetBlockValue(h - 1, f)
    OBVIOUS
  <2>2. f \in Int
    BY <1>1, <1>5, <2>1, FeesAreInt
  <2>3. vtx[a][1] \in Tx
    <3>1. a \in Block /\ vtx[a] # <<>> /\ vtx[a] \in Seq(Tx)
      BY <1>1, <1>5, <2>1, BlockAssumption DEF CheckBlock
    <3> QED
      BY <3>1
  <2>4. v \in Int
    BY <2>1, <2>3, ValuesAreInt
  <2>5. Subsidy(h - 1) \in Int
    BY <1>1, <2>1, SubsidyAssumption
  <2>6. w \in Int
    BY <2>1, <2>2, <2>5 DEF GetBlockValue
  <2>7. CoinbasePaysTooMuch(a, f) <=> v > w
    BY <1>1, <2>1 DEF CoinbasePaysTooMuch
  <2>8. v <= w <=> ~(v > w)
    BY <2>4, <2>6
  <2> QED
    BY <2>1, <2>7, <2>8
<1>6. IsValidChain(c) =>
           /\ SoundChain(c)
           /\ \A h \in 2..Len(c) : c[h] \notin BadContext /\ Signed(c[h])
  BY <1>3, <1>4, <1>5 DEF IsValidChain, SoundChain
<1>7. /\ SoundChain(c)
      /\ \A h \in 2..Len(c) : c[h] \notin BadContext /\ Signed(c[h])
      => IsValidChain(c)
  BY <1>3, <1>4, <1>5 DEF IsValidChain, SoundChain
<1> QED
  BY <1>2, <1>6, <1>7

\* The part of a valid chain below one of its blocks is valid.
LEMMA ValidPart ==
  ASSUME NEW b \in Block, ValidChain[b], NEW i \in 1..Len(ChainOf[b])
  PROVE  ValidChain[ChainOf[b][i]]
<1>1. PICK c, a, d : c = ChainOf[b] /\ a = ChainOf[b][i] /\ d = ChainOf[a]
  OBVIOUS
<1>2. Len(c) \in Nat
  BY <1>1, ChainFacts
<1>3. a \in Block /\ Len(d) = i /\ \A j \in 1..i : d[j] = c[j]
  BY <1>1, PartLength
<1>4. SoundChain(c) /\ \A h \in 2..Len(c) : c[h] \notin BadContext /\ Signed(c[h])
  BY <1>1, ValidIsSound
<1>5. SoundChain(d)
  BY <1>1, <1>4, SoundPart
<1>6. \A h \in 2..Len(d) : h \in 2..Len(c) /\ h \in 1..i
  BY <1>1, <1>2, <1>3
<1>7. \A h \in 2..Len(d) : d[h] \notin BadContext /\ Signed(d[h])
  BY <1>3, <1>4, <1>6
<1>8. ValidChain[a]
  BY <1>1, <1>3, <1>5, <1>7, ValidIsSound
<1> QED
  BY <1>1, <1>8

=============================================================================
