------------------------- MODULE ChainQueries_proofs -------------------------
(***************************************************************************)
(* What a node answers is right, for every block tree and every order of   *)
(* blocks, failures, crashes and searches: the activation of a block (what *)
(* is valid and heavier is tried), the search by height (the block that    *)
(* the cache holds is on the best chain), the wallet's transaction (the    *)
(* block it points at holds it, where its index says, and its merkle       *)
(* branch leads to the root), and the locators (the steps of Set, counted  *)
(* again by GetDistanceBack).                                              *)
(***************************************************************************)
EXTENDS ChainQueries, Ledger_proofs

-----------------------------------------------------------------------------
(* The selection of the best chain.                                        *)

SelectionInv ==
  /\ known \subseteq Block
  /\ Genesis \in known
  /\ BestIsHeaviest

LEMMA InitSelection == SelectionInit => SelectionInv
  BY BlockAssumption, ChainWorkAssumption, GenesisAssumption
  DEF SelectionInit, SelectionInv, BestIsHeaviest

\* Learning one block keeps the best block the heaviest valid one.
LEMMA LearnKeepsHeaviest ==
  ASSUME SelectionInv, NEW b \in Block \ {Genesis}, Learn(b)
  PROVE  SelectionInv'
<1>1. known' \subseteq Block /\ Genesis \in known'
  BY DEF SelectionInv, Learn
<1>2. CASE ValidChain[b] /\ ChainWork[b] > ChainWork[best]
  <2>1. best' = b /\ best' \in known' /\ ValidChain[best']
    BY <1>2 DEF Learn
  <2>2. ASSUME NEW c \in known', ValidChain[c] PROVE ChainWork[c] <= ChainWork[best']
    <3>1. ChainWork[c] \in Nat /\ ChainWork[b] \in Nat /\ ChainWork[best] \in Nat
      BY <1>1, ChainWorkAssumption DEF SelectionInv, BestIsHeaviest
    <3>2. c = b \/ ChainWork[c] <= ChainWork[best]
      BY <2>2 DEF SelectionInv, BestIsHeaviest, Learn
    <3> QED
      BY <1>2, <2>1, <3>1, <3>2
  <2> QED
    BY <1>1, <2>1, <2>2 DEF SelectionInv, BestIsHeaviest
<1>3. CASE ~(ValidChain[b] /\ ChainWork[b] > ChainWork[best])
  <2>1. best' = best
    BY <1>3 DEF Learn
  <2>2. ASSUME NEW c \in known', ValidChain[c] PROVE ChainWork[c] <= ChainWork[best']
    <3>1. ChainWork[b] \in Nat /\ ChainWork[best] \in Nat
      BY ChainWorkAssumption DEF SelectionInv, BestIsHeaviest
    <3>2. CASE c = b
      BY <1>3, <2>1, <2>2, <3>1, <3>2
    <3>3. CASE c \in known
      BY <2>1, <2>2, <3>3 DEF SelectionInv, BestIsHeaviest
    <3> QED
      BY <2>2, <3>2, <3>3 DEF Learn
  <2> QED
    BY <1>1, <2>1, <2>2 DEF SelectionInv, BestIsHeaviest, Learn
<1> QED
  BY <1>2, <1>3

-----------------------------------------------------------------------------
(* A node that implements ChainSelection always has the heaviest valid     *)
(* chain it knows of as its best one (what AddToBlockIndex and             *)
(* SetBestChain are for).                                                  *)
THEOREM HeaviestTheorem == SelectionSpec => []BestIsHeaviest
<1>1. SelectionInv /\ [SelectionNext]_selectionVars => SelectionInv'
  <2> SUFFICES ASSUME SelectionInv, [SelectionNext]_selectionVars PROVE SelectionInv'
    OBVIOUS
  <2>1. CASE SelectionNext
    BY <2>1, LearnKeepsHeaviest DEF SelectionNext
  <2>2. CASE UNCHANGED selectionVars
    BY <2>2 DEF selectionVars, SelectionInv, BestIsHeaviest
  <2> QED
    BY <2>1, <2>2
<1>2. SelectionInv => BestIsHeaviest
  BY DEF SelectionInv
<1> QED
  BY InitSelection, <1>1, <1>2, PTL DEF SelectionSpec

-----------------------------------------------------------------------------
(* The activation of a block.                                              *)

LEMMA ChainsOfBlocks ==
  \A b \in Block :
    /\ ChainOf[b] \in Seq(Block) /\ ChainOf[b] # <<>>
    /\ ChainOf[b][1] = Genesis /\ ChainOf[b][Len(ChainOf[b])] = b
    /\ \A i \in 1..Len(ChainOf[b]) : ChainOf[ChainOf[b][i]] = SubSeq(ChainOf[b], 1, i)
<1> SUFFICES ASSUME NEW b \in Block
             PROVE  /\ ChainOf[b] \in Seq(Block) /\ ChainOf[b] # <<>>
                    /\ ChainOf[b][1] = Genesis /\ ChainOf[b][Len(ChainOf[b])] = b
                    /\ \A i \in 1..Len(ChainOf[b]) : ChainOf[ChainOf[b][i]] = SubSeq(ChainOf[b], 1, i)
  OBVIOUS
<1>1. PICK c : c = ChainOf[b] /\ c \in Seq(Block) /\ Len(c) \in Nat \ {0}
  BY ChainFacts
<1>2. c # <<>>
  BY <1>1
<1> QED
  BY <1>1, <1>2, ChainFacts

LEMMA ToSetIs ==
  ASSUME NEW S, NEW s \in Seq(S)
  PROVE  ToSet(s) = {s[i] : i \in 1..Len(s)}
  BY DEF ToSet

\* A block of a branch, and the branch up to it.
LEMMA OnBranch ==
  ASSUME NEW n \in Block, NEW p \in ToSet(ChainOf[n])
  PROVE  /\ p \in Block
         /\ Len(ChainOf[p]) \in 1..Len(ChainOf[n]) /\ Len(ChainOf[n]) \in Nat
         /\ ChainOf[n][Len(ChainOf[p])] = p
         /\ ToSet(ChainOf[p]) \subseteq ToSet(ChainOf[n])
<1>1. PICK d : d = ChainOf[n]
  OBVIOUS
<1>2. d \in Seq(Block) /\ Len(d) \in Nat \ {0}
  BY <1>1, ChainFacts
<1>3. ToSet(d) = {d[i] : i \in 1..Len(d)}
  BY <1>2, ToSetIs
<1>4. PICK i \in 1..Len(d) : p = d[i]
  BY <1>1, <1>3
<1>5. PICK e : e = ChainOf[p] /\ e = SubSeq(d, 1, i)
  BY <1>1, <1>4, ChainFacts
<1>6. e \in Seq(Block) /\ Len(e) = i /\ \A j \in 1..i : e[j] = d[j]
  BY <1>2, <1>4, <1>5
<1>7. ToSet(e) = {e[j] : j \in 1..Len(e)}
  BY <1>6, ToSetIs
<1>8. ToSet(e) \subseteq ToSet(d)
  BY <1>2, <1>3, <1>4, <1>6, <1>7
<1> QED
  BY <1>1, <1>2, <1>4, <1>5, <1>6, <1>8

LEMMA EndsOfBranch ==
  ASSUME NEW n \in Block
  PROVE  n \in ToSet(ChainOf[n])
<1>1. PICK d : d = ChainOf[n] /\ d \in Seq(Block) /\ Len(d) \in Nat \ {0} /\ d[Len(d)] = n
  BY ChainFacts
<1>2. ToSet(d) = {d[i] : i \in 1..Len(d)}
  BY <1>1, ToSetIs
<1> QED
  BY <1>1, <1>2

\* c is the block of a branch that comes after p.
ComesAfter(n, p, c) == p # n /\ c = ChainOf[n][nHeight(p) + 2]

LEMMA NextOnBranch ==
  ASSUME NEW n \in Block, NEW p \in ToSet(ChainOf[n]), NEW c, ComesAfter(n, p, c)
  PROVE  /\ c \in Block \ {Genesis} /\ c \in ToSet(ChainOf[n])
         /\ ToSet(ChainOf[c]) = ToSet(ChainOf[p]) \cup {c}
<1>1. PICK d, e : d = ChainOf[n] /\ e = ChainOf[p]
  OBVIOUS
<1>2. /\ d \in Seq(Block) /\ Len(d) \in Nat \ {0} /\ d[Len(d)] = n
      /\ \A i \in 2..Len(d) : d[i] \in Block \ {Genesis} /\ hashPrevBlock[d[i]] = d[i - 1]
  BY <1>1, ChainFacts
<1>3. PICK i : i = Len(e)
  OBVIOUS
<1>4. p \in Block /\ i \in 1..Len(d) /\ d[i] = p
  BY <1>1, <1>3, OnBranch
<1>5. i # Len(d)
  BY <1>2, <1>4 DEF ComesAfter
<1>6. i + 1 \in 2..Len(d) /\ i + 1 \in 1..Len(d) /\ (i + 1) - 1 = i
  BY <1>2, <1>4, <1>5
<1>7. c = d[i + 1]
  <2>1. nHeight(p) + 2 = i + 1
    BY <1>1, <1>3, <1>4 DEF nHeight
  <2> QED
    BY <1>1, <2>1 DEF ComesAfter
<1>8. c \in Block \ {Genesis} /\ hashPrevBlock[c] = p
  BY <1>2, <1>4, <1>6, <1>7
<1>9. c \in ToSet(d)
  BY <1>2, <1>6, <1>7, ToSetIs
<1>10. e \in Seq(Block)
  BY <1>1, <1>4, ChainFacts
<1>11. PICK f : f = ChainOf[c] /\ f = Append(e, c)
  BY <1>1, <1>8, ParentChain
<1>12. ToSet(f) = ToSet(e) \cup {c}
  <2>1. f \in Seq(Block) /\ Len(f) = i + 1 /\ f[i + 1] = c /\ \A j \in 1..i : f[j] = e[j]
    BY <1>3, <1>8, <1>10, <1>11
  <2>2. ToSet(f) = {f[j] : j \in 1..Len(f)} /\ ToSet(e) = {e[j] : j \in 1..Len(e)}
    BY <1>10, <2>1, ToSetIs
  <2>3. 1..i + 1 = (1..i) \cup {i + 1}
    BY <1>4
  <2> QED
    BY <1>3, <2>1, <2>2, <2>3
<1> QED
  BY <1>1, <1>8, <1>9, <1>11, <1>12

LEMMA ForkOnBoth ==
  ASSUME best \in Block, NEW b \in Block
  PROVE  ForkBlock(b) \in ToSet(ChainOf[b]) /\ ForkBlock(b) \in ToSet(ChainOf[best])
<1>1. PICK c, d, n : c = ChainOf[best] /\ d = ChainOf[b] /\ n = CommonLen(c, d)
  OBVIOUS
<1>2. c \in Seq(Block) /\ d \in Seq(Block)
  BY <1>1, ChainFacts
<1>3. n \in 1..Len(c) /\ n \in 1..Len(d) /\ c[n] = d[n]
  BY <1>1, ForkFacts
<1>4. ToSet(c) = {c[i] : i \in 1..Len(c)} /\ ToSet(d) = {d[i] : i \in 1..Len(d)}
  BY <1>2, ToSetIs
<1>5. ForkBlock(b) = d[n]
  BY <1>1 DEF ForkBlock, MainChain
<1> QED
  BY <1>1, <1>3, <1>4, <1>5

LEMMA ValidBelow ==
  ASSUME NEW n \in Block, ValidChain[n], NEW p \in ToSet(ChainOf[n])
  PROVE  ValidChain[p]
<1>1. PICK i : i = Len(ChainOf[p])
  OBVIOUS
<1>2. i \in 1..Len(ChainOf[n]) /\ ChainOf[n][i] = p
  BY <1>1, OnBranch
<1> QED
  BY <1>2, ValidPart

\* Every block is learned after its ancestors.
KnownChains == \A b \in known : ToSet(ChainOf[b]) \subseteq known

\* The part of the branch that is connected.
ConnectedPart ==
  IF pindexNew = Null THEN pindex = Null
  ELSE pindexNew \in known /\ pindex \in ToSet(ChainOf[pindexNew]) /\ ValidChain[pindex]

\* A valid block heavier than the one on disk is still to be activated, or was
\* interrupted.
HeavierLeft ==
  \A b \in known :
    ValidChain[b] /\ ChainWork[b] > ChainWork[dbBest] => b \in interrupted \cup {pindexNew}

ActivationInv ==
  /\ known \subseteq Block
  /\ best \in known
  /\ dbBest \in known /\ ValidChain[dbBest]
  /\ interrupted \subseteq known
  /\ KnownChains
  /\ ConnectedPart
  /\ HeavierLeft

LEMMA ActivationInitOK == QueriesInit => ActivationInv
<1> SUFFICES ASSUME QueriesInit PROVE ActivationInv
  OBVIOUS
<1>1. known = {Genesis} /\ best = Genesis /\ dbBest = Genesis /\ Genesis \in Block
  BY BlockAssumption DEF QueriesInit, SelectionInit
<1>2. PICK c : c = ChainOf[Genesis] /\ c = <<Genesis>>
  BY ChainEquation, BlockAssumption
<1>3. KnownChains
  <2>1. ToSet(c) = {Genesis}
    BY <1>2 DEF ToSet
  <2> QED
    BY <1>1, <1>2, <2>1 DEF KnownChains
<1>4. ConnectedPart /\ interrupted = {}
  BY DEF QueriesInit, ConnectedPart
<1>5. HeavierLeft
  BY <1>1, ChainWorkAssumption DEF HeavierLeft
<1> QED
  BY <1>1, <1>3, <1>4, <1>5, GenesisAssumption DEF ActivationInv

LEMMA ConnectStep ==
  ASSUME ActivationInv, ConnectIsNext
  PROVE  /\ pindexNew \in known /\ pindexNew \in Block /\ pindex \in Block
         /\ NextBlock \in Block \ {Genesis} /\ NextBlock \in known
         /\ NextBlock \in ToSet(ChainOf[pindexNew])
         /\ ToSet(ChainOf[NextBlock]) = ToSet(ChainOf[pindex]) \cup {NextBlock}
<1>1. /\ pindexNew \in known /\ pindexNew \in Block /\ pindex # pindexNew
      /\ pindex \in ToSet(ChainOf[pindexNew])
  BY DEF ActivationInv, ConnectedPart, ConnectIsNext
<1>2. /\ NextBlock \in Block \ {Genesis} /\ NextBlock \in ToSet(ChainOf[pindexNew])
      /\ ToSet(ChainOf[NextBlock]) = ToSet(ChainOf[pindex]) \cup {NextBlock}
  <2>1. PICK n, p, c : n = pindexNew /\ p = pindex /\ c = NextBlock
    OBVIOUS
  <2>2. n \in Block /\ p \in ToSet(ChainOf[n]) /\ ComesAfter(n, p, c)
    BY <1>1, <2>1 DEF NextBlock, ComesAfter
  <2>3. /\ c \in Block \ {Genesis} /\ c \in ToSet(ChainOf[n])
        /\ ToSet(ChainOf[c]) = ToSet(ChainOf[p]) \cup {c}
    BY <2>2, NextOnBranch
  <2> QED
    BY <2>1, <2>3
<1> QED
  BY <1>1, <1>2, OnBranch DEF ActivationInv, KnownChains

LEMMA AddKeepsChains ==
  ASSUME ActivationInv, NEW b \in Block \ {Genesis}, AddToBlockIndex(b)
  PROVE  KnownChains'
<1>1. hashPrevBlock[b] \in known /\ known' = known \cup {b}
  BY DEF AddToBlockIndex
<1>2. PICK d, c : d = ChainOf[hashPrevBlock[b]] /\ c = ChainOf[b]
  OBVIOUS
<1>3. d \in Seq(Block) /\ c = Append(d, b) /\ ToSet(d) \subseteq known
  BY <1>1, <1>2, ParentChain, ChainFacts DEF ActivationInv, KnownChains
<1>4. ToSet(c) = ToSet(d) \cup {b}
  <2>1. /\ c \in Seq(Block) /\ Len(c) = Len(d) + 1 /\ Len(d) \in Nat
        /\ c[Len(d) + 1] = b /\ \A j \in 1..Len(d) : c[j] = d[j]
    BY <1>3
  <2>2. ToSet(c) = {c[j] : j \in 1..Len(c)}
    BY <2>1, ToSetIs
  <2>3. ToSet(d) = {d[j] : j \in 1..Len(d)}
    BY <1>3, ToSetIs
  <2>4. 1..Len(d) + 1 = (1..Len(d)) \cup {Len(d) + 1}
    BY <2>1
  <2> QED
    BY <2>1, <2>2, <2>3, <2>4
<1> QED
  BY <1>1, <1>2, <1>3, <1>4 DEF ActivationInv, KnownChains

LEMMA ActivationStep ==
  ASSUME ActivationInv, [QueriesNext]_queryVars
  PROVE  ActivationInv'
<1>1. known \subseteq Block /\ dbBest \in Block /\ best \in Block /\ Null \notin Block
  BY BlockAssumption DEF ActivationInv
<1>2. ASSUME NEW b \in Block \ {Genesis}, AddToBlockIndex(b) PROVE ActivationInv'
  <2>1. /\ pindexNew = Null /\ dbBest = best /\ dbBest' = dbBest /\ best' = best
        /\ known' = known \cup {b} /\ interrupted' = interrupted
    BY <1>2 DEF AddToBlockIndex, AtRest
  <2>2. ConnectedPart'
    <3>1. CASE IsHeavier(b)
      <4>1. pindexNew' = b /\ pindex' = ForkBlock(b)
        BY <1>2, <3>1 DEF AddToBlockIndex
      <4>2. ForkBlock(b) \in ToSet(ChainOf[b]) /\ ForkBlock(b) \in ToSet(ChainOf[best])
        BY <1>1, ForkOnBoth
      <4>3. ValidChain[ForkBlock(b)]
        BY <1>1, <2>1, <4>2, ValidBelow DEF ActivationInv
      <4> QED
        BY <1>1, <2>1, <4>1, <4>2, <4>3 DEF ConnectedPart
    <3>2. CASE ~IsHeavier(b)
      BY <1>2, <2>1, <3>2 DEF AddToBlockIndex, ActivationInv, ConnectedPart
    <3> QED
      BY <3>1, <3>2
  <2>3. HeavierLeft'
    <3> SUFFICES ASSUME NEW c \in known', ValidChain[c], ChainWork[c] > ChainWork[dbBest]
                 PROVE  c \in interrupted \cup {pindexNew'}
      BY <2>1 DEF HeavierLeft
    <3>1. CASE c = b
      <4>1. IsHeavier(b)
        BY <2>1, <3>1 DEF IsHeavier
      <4> QED
        BY <1>2, <3>1, <4>1 DEF AddToBlockIndex
    <3>2. CASE c \in known
      BY <1>1, <2>1, <3>2 DEF ActivationInv, HeavierLeft
    <3> QED
      BY <2>1, <3>1, <3>2
  <2> QED
    BY <1>2, <2>1, <2>2, <2>3, AddKeepsChains DEF ActivationInv
<1>3. CASE ConnectNextBlock
  <2>1. /\ ConnectIsNext /\ pindex' = NextBlock /\ ValidChain[NextBlock]
        /\ UNCHANGED <<known, best, dbBest, pindexNew, interrupted>>
    BY <1>3 DEF ConnectNextBlock, selectionVars
  <2>2. ConnectedPart'
    BY <1>1, <2>1, ConnectStep DEF ConnectedPart
  <2> QED
    BY <2>1, <2>2 DEF ActivationInv, KnownChains, HeavierLeft
<1>4. CASE TxnCommit
  <2>1. /\ pindexNew # Null /\ ChainWork[pindex] > ChainWork[dbBest] /\ dbBest' = pindex
        /\ UNCHANGED <<known, best, pindexNew, pindex, interrupted>>
    BY <1>4 DEF TxnCommit, CommitIsNext, selectionVars
  <2>2. /\ pindex \in ToSet(ChainOf[pindexNew]) /\ ValidChain[pindex] /\ pindexNew \in known
        /\ pindexNew \in Block /\ pindex \in Block
    BY <1>1, <2>1, OnBranch DEF ActivationInv, ConnectedPart
  <2>3. pindex \in known
    BY <2>2 DEF ActivationInv, KnownChains
  <2>4. HeavierLeft'
    <3> SUFFICES ASSUME NEW c \in known, ValidChain[c], ChainWork[c] > ChainWork[pindex]
                 PROVE  c \in interrupted \cup {pindexNew}
      BY <2>1 DEF HeavierLeft
    <3>1. /\ ChainWork[c] \in Nat /\ ChainWork[pindex] \in Nat /\ ChainWork[dbBest] \in Nat
      BY <1>1, <2>2, ChainWorkAssumption
    <3>2. ChainWork[c] > ChainWork[dbBest]
      BY <2>1, <3>1
    <3> QED
      BY <3>2 DEF ActivationInv, HeavierLeft
  <2> QED
    BY <2>1, <2>2, <2>3, <2>4 DEF ActivationInv, KnownChains, ConnectedPart
<1>5. CASE BlockActivated
  <2>1. /\ pindexNew = dbBest /\ best' = pindexNew /\ pindexNew' = Null /\ pindex' = Null
        /\ UNCHANGED <<known, dbBest, interrupted>>
    BY <1>5 DEF BlockActivated, NewBestBlock
  <2>2. HeavierLeft'
    <3> SUFFICES ASSUME NEW c \in known, ValidChain[c], ChainWork[c] > ChainWork[dbBest]
                 PROVE  c \in interrupted
      BY <2>1 DEF HeavierLeft
    <3>1. c # dbBest
      BY <1>1, ChainWorkAssumption
    <3> QED
      BY <2>1, <3>1 DEF ActivationInv, HeavierLeft
  <2> QED
    BY <2>1, <2>2 DEF ActivationInv, KnownChains, ConnectedPart
<1>6. CASE InvalidBlock
  <2>1. /\ ConnectIsNext /\ ~ValidChain[NextBlock] /\ pindexNew' = Null /\ pindex' = Null
        /\ UNCHANGED <<known, dbBest, interrupted>> /\ best' \in {best, pindexNew}
    BY <1>6 DEF InvalidBlock, GiveUp, NewBestBlock
  <2>2. pindexNew \in known /\ ~ValidChain[pindexNew]
    BY <2>1, ConnectStep, ValidBelow
  <2>3. HeavierLeft'
    BY <2>1, <2>2 DEF ActivationInv, HeavierLeft
  <2> QED
    BY <2>1, <2>2, <2>3 DEF ActivationInv, KnownChains, ConnectedPart
<1>7. CASE DatabaseError
  <2>1. /\ pindexNew # Null /\ interrupted' = interrupted \cup {pindexNew}
        /\ pindexNew' = Null /\ pindex' = Null
        /\ UNCHANGED <<known, dbBest>> /\ best' \in {best, pindexNew}
    BY <1>7 DEF DatabaseError, GiveUp, NewBestBlock
  <2>2. pindexNew \in known
    BY <2>1 DEF ActivationInv, ConnectedPart
  <2>3. HeavierLeft'
    BY <2>1 DEF ActivationInv, HeavierLeft
  <2> QED
    BY <2>1, <2>2, <2>3 DEF ActivationInv, KnownChains, ConnectedPart
<1>8. CASE UNCHANGED <<selectionVars, activationVars>>
  BY <1>8 DEF selectionVars, activationVars, ActivationInv, KnownChains, ConnectedPart, HeavierLeft
<1>9. CASE Restart
  <2>1. /\ best' = dbBest /\ pindexNew' = Null /\ pindex' = Null
        /\ interrupted' = interrupted \cup ({pindexNew} \ {Null, dbBest})
        /\ UNCHANGED <<known, dbBest>>
    BY <1>9 DEF Restart
  <2>2. interrupted' \subseteq known
    BY <2>1 DEF ActivationInv, ConnectedPart
  <2>3. HeavierLeft'
    <3> SUFFICES ASSUME NEW c \in known, ValidChain[c], ChainWork[c] > ChainWork[dbBest]
                 PROVE  c \in interrupted'
      BY <2>1 DEF HeavierLeft
    <3>1. c # dbBest /\ c # Null
      BY <1>1, ChainWorkAssumption
    <3> QED
      BY <2>1, <3>1 DEF ActivationInv, HeavierLeft
  <2> QED
    BY <2>1, <2>2, <2>3 DEF ActivationInv, KnownChains, ConnectedPart
<1>10. CASE \E h \in Heights : FindBlockByHeight(h)
  BY <1>8, <1>10 DEF FindBlockByHeight
<1>11. CASE VerifyMerkleBranch
  BY <1>8, <1>11 DEF VerifyMerkleBranch
<1>12. CASE UNCHANGED queryVars
  BY <1>8, <1>12 DEF queryVars
<1> QED
  BY <1>2, <1>3, <1>4, <1>5, <1>6, <1>7, <1>9, <1>10, <1>11, <1>12 DEF QueriesNext

(* However activations fail and whenever the node stops, a valid block     *)
(* that is heavier than the best one is a block whose own activation an    *)
(* error or a crash ended: none is passed over for any other reason.       *)
THEOREM HeavierAreInterrupted == QueriesSpec => []HeavierOnlyInterrupted
<1>1. ActivationInv => HeavierOnlyInterrupted
  <2> SUFFICES ASSUME ActivationInv, AtRest, NEW b \in known,
                      ValidChain[b], ChainWork[b] > ChainWork[best]
               PROVE  b \in interrupted
    BY DEF HeavierOnlyInterrupted
  <2>1. b # Null
    BY BlockAssumption DEF ActivationInv
  <2> QED
    BY <2>1 DEF ActivationInv, HeavierLeft, AtRest
<1> QED
  BY <1>1, ActivationInitOK, ActivationStep, PTL DEF QueriesSpec

-----------------------------------------------------------------------------
(* The search by height.                                                   *)

CacheOnMainChain == pblockindexFBBHLast = Null \/ IsInMainChain(pblockindexFBBHLast)

QueriesInv ==
  /\ known \subseteq Block
  /\ best \in known
  /\ CacheOnMainChain

\* A block of the best chain is at the place its height says, over the same blocks.
LEMMA PlaceOnMainChain ==
  ASSUME QueriesInv, NEW b, IsInMainChain(b)
  PROVE  /\ b \in Block /\ nHeight(b) \in 0..nHeight(best) /\ nHeight(best) \in Nat
         /\ b = MainChain[nHeight(b) + 1]
         /\ \A h \in 0..nHeight(b) : ChainOf[b][h + 1] = MainChain[h + 1]
<1>1. best \in Block /\ MainChain \in Seq(Block) /\ Len(MainChain) \in Nat \ {0}
  <2>1. best \in Block
    BY DEF QueriesInv
  <2>2. ChainOf[best] \in Seq(Block) /\ ChainOf[best] # <<>>
    BY <2>1, ChainsOfBlocks
  <2> QED
    BY <2>1, <2>2 DEF MainChain
<1>2. PICK i \in 1..Len(MainChain) : MainChain[i] = b
  BY <1>1 DEF IsInMainChain
<1>3. ChainOf[b] = SubSeq(MainChain, 1, i)
  BY <1>1, <1>2, ChainsOfBlocks DEF MainChain
<1>4. Len(ChainOf[b]) = i /\ \A j \in 1..i : ChainOf[b][j] = MainChain[j]
  BY <1>1, <1>3
<1>5. nHeight(b) = i - 1 /\ nHeight(best) = Len(MainChain) - 1
  BY <1>4 DEF nHeight, MainChain
<1> QED
  BY <1>1, <1>2, <1>4, <1>5

LEMMA EndsOnMainChain ==
  ASSUME QueriesInv
  PROVE  /\ IsInMainChain(best) /\ IsInMainChain(Genesis) /\ nHeight(best) \in Nat
         /\ \A h \in 0..nHeight(best) : IsInMainChain(MainChain[h + 1])
<1>1. best \in Block
  BY DEF QueriesInv
<1>2. /\ MainChain \in Seq(Block) /\ Len(MainChain) \in Nat \ {0}
      /\ MainChain[1] = Genesis /\ MainChain[Len(MainChain)] = best
  <2>1. ChainOf[best] \in Seq(Block) /\ ChainOf[best] # <<>>
    BY <1>1, ChainsOfBlocks
  <2> QED
    BY <1>1, <2>1, ChainsOfBlocks DEF MainChain
<1>3. nHeight(best) = Len(MainChain) - 1
  BY DEF nHeight, MainChain
<1> QED
  BY <1>2, <1>3 DEF IsInMainChain

\* A search from a block of the best chain, down pprev or up pnext, ends on it.
LEMMA SearchIsRight ==
  ASSUME QueriesInv, NEW h \in 0..nHeight(best)
  PROVE  Search(h) = MainChain[h + 1]
<1> DEFINE start == StartOfSearch(h)
           found == MainChain[h + 1]
<1>1. IsInMainChain(start)
  BY EndsOnMainChain DEF StartOfSearch, QueriesInv, CacheOnMainChain
<1>2. /\ nHeight(start) \in Nat /\ h \in Nat /\ start = MainChain[nHeight(start) + 1]
      /\ h <= nHeight(start) => ChainOf[start][h + 1] = found
  BY <1>1, PlaceOnMainChain
<1>3. CASE nHeight(start) > h
  <2>1. WayDown(start, h) = found
    BY <1>2, <1>3 DEF WayDown
  <2>2. nHeight(found) = h
    <3>1. PICK c : c = start
      OBVIOUS
    <3>2. ChainOf[c] \in Seq(Block) /\ h + 1 \in 1..Len(ChainOf[c])
      BY <1>1, <1>2, <1>3, <3>1, PlaceOnMainChain, ChainsOfBlocks DEF nHeight
    <3>3. ChainOf[found] = SubSeq(ChainOf[c], 1, h + 1)
      BY <1>1, <1>2, <1>3, <3>1, <3>2, PlaceOnMainChain, ChainsOfBlocks
    <3>4. Len(ChainOf[found]) = h + 1
      BY <3>2, <3>3
    <3> QED
      BY <1>2, <3>4 DEF nHeight
  <2> QED
    BY <1>2, <2>1, <2>2 DEF Search, WayUp
<1>4. CASE ~(nHeight(start) > h)
  <2>1. WayDown(start, h) = start
    BY <1>4 DEF WayDown
  <2> QED
    BY <1>1, <1>2, <1>4, <2>1 DEF Search, WayUp
<1> QED
  BY <1>3, <1>4

LEMMA QueriesInitOK == QueriesInit => ActivationInv /\ QueriesInv
  BY ActivationInitOK, BlockAssumption
  DEF QueriesInit, SelectionInit, QueriesInv, CacheOnMainChain

LEMMA QueriesStep ==
  ASSUME ActivationInv, QueriesInv, [QueriesNext]_queryVars
  PROVE  ActivationInv' /\ QueriesInv'
<1>1. ActivationInv' /\ known' \subseteq Block /\ best' \in known'
  <2>1. ActivationInv'
    BY ActivationStep
  <2> QED
    BY <2>1 DEF ActivationInv
<1>2. CASE UNCHANGED <<best, pblockindexFBBHLast>>
  BY <1>1, <1>2 DEF QueriesInv, CacheOnMainChain, IsInMainChain, MainChain
<1>3. CASE pblockindexFBBHLast' = Null
  BY <1>1, <1>3 DEF QueriesInv, CacheOnMainChain
<1>4. ASSUME NEW b \in Block \ {Genesis}, AddToBlockIndex(b) PROVE QueriesInv'
  BY <1>2, <1>4 DEF AddToBlockIndex
<1>5. CASE ConnectNextBlock
  BY <1>2, <1>5 DEF ConnectNextBlock, selectionVars
<1>6. CASE TxnCommit
  BY <1>2, <1>6 DEF TxnCommit, selectionVars
<1>7. CASE BlockActivated
  BY <1>3, <1>7 DEF BlockActivated, NewBestBlock, CacheForgotten
<1>8. CASE InvalidBlock \/ DatabaseError
  BY <1>2, <1>3, <1>8 DEF InvalidBlock, DatabaseError, GiveUp, NewBestBlock, CacheForgotten
<1>9. ASSUME NEW h \in Heights, FindBlockByHeight(h) PROVE QueriesInv'
  <2>1. PICK b \in Block : h = nHeight(b)
    BY <1>9 DEF Heights
  <2>2. h \in Nat
    <3>1. Len(ChainOf[b]) \in Nat \ {0}
      BY ChainsOfBlocks
    <3> QED
      BY <2>1, <3>1 DEF nHeight
  <2>3. h \in 0..nHeight(best)
    BY <1>9, <2>2, EndsOnMainChain DEF FindBlockByHeight
  <2>4. IsInMainChain(pblockindexFBBHLast')
    BY <1>9, <2>3, SearchIsRight, EndsOnMainChain DEF FindBlockByHeight
  <2>5. best' = best
    BY <1>9 DEF FindBlockByHeight, selectionVars
  <2> QED
    BY <1>1, <2>4, <2>5 DEF QueriesInv, CacheOnMainChain, IsInMainChain, MainChain
<1>10. CASE VerifyMerkleBranch
  BY <1>2, <1>10 DEF VerifyMerkleBranch, selectionVars
<1>11. CASE Restart
  BY <1>3, <1>11 DEF Restart
<1>12. CASE UNCHANGED queryVars
  BY <1>2, <1>12 DEF queryVars, selectionVars
<1> QED
  BY <1>1, <1>4, <1>5, <1>6, <1>7, <1>8, <1>9, <1>10, <1>11, <1>12 DEF QueriesNext

LEMMA QueriesAlways == QueriesSpec => [](ActivationInv /\ QueriesInv)
  BY QueriesInitOK, QueriesStep, PTL DEF QueriesSpec

(* FindBlockByHeight returns the block of the best chain and never follows *)
(* a null pnext, although the cache it starts from is kept while blocks    *)
(* are learned, activations fail and the node restarts: SetBestChain       *)
(* clears it whenever it moves the best chain.                             *)
THEOREM SearchAlwaysRight == QueriesSpec => []SearchByHeightIsRight
<1>1. QueriesInv => SearchByHeightIsRight
  BY SearchIsRight DEF SearchByHeightIsRight
<1> QED
  BY <1>1, QueriesAlways, PTL

-----------------------------------------------------------------------------
(* Loops, as recursive functions.                                          *)

\* What a round k of the loops of MerkleTree and BlockLocator makes of x.
Round(e, k, x) ==
  CASE e.op = "Size"  -> (x + 1) \div 2
    [] e.op = "Shift" -> x \div 2
    [] e.op = "Level" -> Above(x)
    [] e.op = "Up"    -> IF e.place[k - 1] % 2 = 1 THEN <<e.branch[k], x>> ELSE <<x, e.branch[k]>>
    [] e.op = "Back"  -> Further(k, x)
    [] e.op = "Walk"  -> PassOver(x)

Rounds(f, e, a, n) ==
  f = [k \in 0..n |-> IF k = 0 THEN a ELSE Round(e, k, f[k - 1])]

LEMMA OneMoreRound ==
  ASSUME NEW e, NEW a, NEW n \in Nat, NEW g, Rounds(g, e, a, n)
  PROVE  \E f : Rounds(f, e, a, n + 1)
<1>1. PICK f : f = [k \in 0..n + 1 |-> IF k = n + 1 THEN Round(e, n + 1, g[n]) ELSE g[k]]
  OBVIOUS
<1>2. ASSUME NEW k \in 0..n + 1
      PROVE  f[k] = IF k = 0 THEN a ELSE Round(e, k, f[k - 1])
  <2>1. CASE k = n + 1
    <3>1. n \in 0..n + 1 /\ n # n + 1 /\ (n + 1) - 1 = n /\ n + 1 # 0
      OBVIOUS
    <3>2. f[k] = Round(e, n + 1, g[n]) /\ f[n] = g[n]
      BY <1>1, <2>1, <3>1
    <3> QED
      BY <2>1, <3>1, <3>2
  <2>2. CASE k # n + 1
    <3>1. k \in 0..n /\ f[k] = g[k]
      BY <1>1, <2>2
    <3>2. g[k] = IF k = 0 THEN a ELSE Round(e, k, g[k - 1])
      BY <3>1 DEF Rounds
    <3>3. k # 0 => k - 1 \in 0..n + 1 /\ k - 1 # n + 1
      BY <3>1
    <3>4. k # 0 => f[k - 1] = g[k - 1]
      BY <1>1, <3>3
    <3> QED
      BY <3>1, <3>2, <3>4
  <2> QED
    BY <2>1, <2>2
<1>3. f = [k \in 0..n + 1 |-> f[k]]
  BY <1>1
<1>4. f = [k \in 0..n + 1 |-> IF k = 0 THEN a ELSE Round(e, k, f[k - 1])]
  BY <1>2, <1>3, Zenon
<1> QED
  BY <1>4 DEF Rounds

LEMMA RoundsExist ==
  ASSUME NEW e, NEW a, NEW n \in Nat
  PROVE  \E f : Rounds(f, e, a, n)
<1> DEFINE Fails == {m \in Nat : ~\E f : Rounds(f, e, a, m)}
<1> SUFFICES ASSUME Fails # {} PROVE FALSE
  OBVIOUS
<1>1. PICK m \in Fails : \A j \in Fails : m <= j
  <2> Fails \subseteq Nat
    OBVIOUS
  <2> HIDE DEF Fails
  <2> QED
    BY LeastExists
<1>2. m # 0
  <2>1. PICK f : f = [k \in 0..0 |-> a]
    OBVIOUS
  <2>2. \A k \in 0..0 : k = 0
    OBVIOUS
  <2>3. f = [k \in 0..0 |-> IF k = 0 THEN a ELSE Round(e, k, f[k - 1])]
    BY <2>1, <2>2
  <2>4. Rounds(f, e, a, 0)
    BY <2>3 DEF Rounds
  <2> QED
    BY <1>1, <2>4
<1>3. m - 1 \in Nat /\ (m - 1) + 1 = m /\ m - 1 < m
  BY <1>1, <1>2
<1>4. m - 1 \notin Fails
  BY <1>1, <1>3
<1>5. PICK g : Rounds(g, e, a, m - 1)
  BY <1>3, <1>4
<1>6. \E f : Rounds(f, e, a, m)
  BY <1>3, <1>5, OneMoreRound
<1> QED
  BY <1>1, <1>6

LEMMA RoundsAre ==
  ASSUME NEW e, NEW a, NEW n \in Nat, NEW f, Rounds(f, e, a, n)
  PROVE  /\ f[0] = a /\ DOMAIN f = 0..n
         /\ \A k \in 1..n : f[k] = Round(e, k, f[k - 1])
<1>1. 0 \in 0..n /\ \A k \in 1..n : k \in 0..n /\ k # 0
  OBVIOUS
<1> QED
  BY <1>1 DEF Rounds

-----------------------------------------------------------------------------
(* Merkle trees.                                                           *)

LEMMA SizeRounds ==
  ASSUME NEW n \in Nat
  PROVE  /\ nSize(n)[0] = n
         /\ \A k \in 1..n : nSize(n)[k] = (nSize(n)[k - 1] + 1) \div 2
<1>1. PICK e : e = [op |-> "Size"]
  OBVIOUS
<1>2. \A k, x : Round(e, k, x) = (x + 1) \div 2
  BY <1>1 DEF Round
<1>3. \A f : Rounds(f, e, n, n) <=>
        f = [k \in 0..n |-> IF k = 0 THEN n ELSE (f[k - 1] + 1) \div 2]
  BY <1>2 DEF Rounds
<1>4. PICK f : f = nSize(n)
  OBVIOUS
<1>5. Rounds(f, e, n, n)
  BY <1>3, <1>4, RoundsExist DEF nSize
<1>6. f[0] = n /\ \A k \in 1..n : f[k] = Round(e, k, f[k - 1])
  BY <1>5, RoundsAre
<1> QED
  BY <1>2, <1>4, <1>6

LEMMA ShiftRounds ==
  ASSUME NEW i, NEW n \in Nat
  PROVE  /\ Shifted(i, n)[0] = i
         /\ \A k \in 1..n : Shifted(i, n)[k] = Shifted(i, n)[k - 1] \div 2
<1>1. PICK e : e = [op |-> "Shift"]
  OBVIOUS
<1>2. \A k, x : Round(e, k, x) = x \div 2
  BY <1>1 DEF Round
<1>3. \A f : Rounds(f, e, i, n) <=>
        f = [k \in 0..n |-> IF k = 0 THEN i ELSE f[k - 1] \div 2]
  BY <1>2 DEF Rounds
<1>4. Rounds(Shifted(i, n), e, i, n)
  BY <1>3, RoundsExist DEF Shifted
<1> QED
  BY <1>2, <1>4, RoundsAre

\* up[k] is what CheckMerkleBranch has after k entries of the branch.
LeadsUp(up, hash, branch, i, d) ==
  /\ up[0] = hash
  /\ CheckMerkleBranch(hash, branch, i) = up[d]
  /\ \A k \in 1..d :
       up[k] = IF Shifted(i, d)[k - 1] % 2 = 1
               THEN <<branch[k], up[k - 1]>> ELSE <<up[k - 1], branch[k]>>

LEMMA UpRounds ==
  ASSUME NEW hash, NEW branch, NEW i, NEW d \in Nat, Len(branch) = d
  PROVE  \E up : LeadsUp(up, hash, branch, i, d)
<1>1. PICK e : e = [op |-> "Up", place |-> Shifted(i, d), branch |-> branch]
  OBVIOUS
<1>2. \A k, x : Round(e, k, x) = IF Shifted(i, d)[k - 1] % 2 = 1
                                 THEN <<branch[k], x>> ELSE <<x, branch[k]>>
  BY <1>1 DEF Round
<1>3. \A f : Rounds(f, e, hash, d) <=>
        f = [k \in 0..d |-> IF k = 0 THEN hash
                            ELSE IF Shifted(i, d)[k - 1] % 2 = 1
                            THEN <<branch[k], f[k - 1]>> ELSE <<f[k - 1], branch[k]>>]
  BY <1>2 DEF Rounds
<1>4. PICK up :
        up = CHOOSE f :
          f = [k \in 0..d |-> IF k = 0 THEN hash
                              ELSE IF Shifted(i, d)[k - 1] % 2 = 1
                              THEN <<branch[k], f[k - 1]>> ELSE <<f[k - 1], branch[k]>>]
  OBVIOUS
<1>5. Rounds(up, e, hash, d)
  BY <1>3, <1>4, RoundsExist
<1>6. CheckMerkleBranch(hash, branch, i) = up[d]
  BY <1>4 DEF CheckMerkleBranch
<1>7. ASSUME NEW m \in Nat, m = d
      PROVE  up[0] = hash /\ \A k \in 1..m : up[k] = Round(e, k, up[k - 1])
  BY <1>5, <1>7, RoundsAre
<1>8. ASSUME NEW k \in 1..d
      PROVE  up[k] = IF Shifted(i, d)[k - 1] % 2 = 1
                     THEN <<branch[k], up[k - 1]>> ELSE <<up[k - 1], branch[k]>>
  BY <1>2, <1>7
<1>9. up[0] = hash
  BY <1>7
<1> QED
  BY <1>6, <1>8, <1>9 DEF LeadsUp

LEMMA LevelRounds ==
  ASSUME NEW txs, NEW d \in Nat, d = Depth(Len(txs))
  PROVE  /\ BuildMerkleTree(txs)[0] = [i \in DOMAIN txs |-> <<txs[i]>>]
         /\ \A k \in 1..d : BuildMerkleTree(txs)[k] = Above(BuildMerkleTree(txs)[k - 1])
<1>1. PICK e : e = [op |-> "Level"]
  OBVIOUS
<1>2. \A k, x : Round(e, k, x) = Above(x)
  BY <1>1 DEF Round
<1>3. PICK l : l = [i \in DOMAIN txs |-> <<txs[i]>>]
  OBVIOUS
<1>4. \A f : Rounds(f, e, l, d) <=>
        f = [k \in 0..d |-> IF k = 0 THEN l ELSE Above(f[k - 1])]
  BY <1>2 DEF Rounds
<1>5. PICK f : f = CHOOSE g : g = [k \in 0..d |-> IF k = 0 THEN l ELSE Above(g[k - 1])]
  OBVIOUS
<1>6. BuildMerkleTree(txs) = f
  BY <1>3, <1>5 DEF BuildMerkleTree
<1>7. Rounds(f, e, l, d)
  BY <1>4, <1>5, RoundsExist
<1>8. f[0] = l /\ \A k \in 1..d : f[k] = Round(e, k, f[k - 1])
  BY <1>7, RoundsAre
<1> QED
  BY <1>2, <1>3, <1>6, <1>8

LEMMA MinOfTwo ==
  ASSUME NEW a \in Int, NEW b \in Int
  PROVE  Min({a, b}) = IF a <= b THEN a ELSE b
<1>1. \E x \in {a, b} : \A y \in {a, b} : x <= y
  OBVIOUS
<1>2. Min({a, b}) \in {a, b} /\ \A y \in {a, b} : Min({a, b}) <= y
  BY <1>1 DEF Min
<1>3. PICK x : x = Min({a, b})
  OBVIOUS
<1> QED
  BY <1>2, <1>3

LEMMA MinIs ==
  ASSUME NEW S, S \subseteq Nat, S # {}
  PROVE  Min(S) \in S /\ \A y \in S : Min(S) <= y
<1>1. \E x \in S : \A y \in S : x <= y
  BY LeastExists
<1> QED
  BY <1>1 DEF Min

\* A function over 1..n is a sequence of n elements.
LEMMA LenIs ==
  ASSUME NEW f, NEW n \in Nat, f = [i \in 1..n |-> f[i]]
  PROVE  f \in Seq({f[i] : i \in 1..n}) /\ Len(f) = n
<1>1. f \in [1..n -> {f[i] : i \in 1..n}]
  OBVIOUS
<1>2. f \in Seq({f[i] : i \in 1..n})
  BY <1>1
<1>3. PICK m \in Nat : m = Len(f) /\ DOMAIN f = 1..m
  BY <1>2
<1>4. DOMAIN f = 1..n
  BY <1>1
<1>5. m = n
  BY <1>3, <1>4
<1> QED
  BY <1>2, <1>3, <1>5

\* The levels get smaller down to one node.
LEMMA SizesShrink ==
  ASSUME NEW n \in Nat \ {0}, NEW k \in 0..n
  PROVE  nSize(n)[k] \in Nat \ {0} /\ (nSize(n)[k] = 1 \/ nSize(n)[k] <= n - k)
<1>1. PICK s : s = nSize(n)
  OBVIOUS
<1>2. s[0] = n /\ \A i \in 1..n : s[i] = (s[i - 1] + 1) \div 2
  BY <1>1, SizeRounds
<1> DEFINE Fails == {i \in 0..n : ~(s[i] \in Nat \ {0} /\ (s[i] = 1 \/ s[i] <= n - i))}
<1> SUFFICES ASSUME Fails # {} PROVE FALSE
  BY <1>1
<1>3. PICK m \in Fails : \A i \in Fails : m <= i
  <2> Fails \subseteq Nat
    OBVIOUS
  <2> HIDE DEF Fails
  <2> QED
    BY LeastExists
<1>4. m # 0
  BY <1>2, <1>3
<1>5. m \in 1..n /\ m - 1 \in 0..n /\ m - 1 < m /\ m \in Nat
  BY <1>3, <1>4
<1>6. m - 1 \notin Fails
  BY <1>3, <1>5
<1>7. PICK a : a = s[m - 1]
  OBVIOUS
<1>8. a \in Nat \ {0} /\ (a = 1 \/ a <= n - (m - 1))
  BY <1>5, <1>6, <1>7
<1>9. s[m] = (a + 1) \div 2
  BY <1>2, <1>5, <1>7
<1>10. s[m] \in Nat \ {0} /\ (s[m] = 1 \/ s[m] <= n - m)
  BY <1>5, <1>8, <1>9
<1> QED
  BY <1>3, <1>10

LEMMA DepthFacts ==
  ASSUME NEW n \in Nat \ {0}
  PROVE  Depth(n) \in 0..n /\ nSize(n)[Depth(n)] = 1
<1> DEFINE S == {k \in 0..n : nSize(n)[k] <= 1}
<1>1. n \in 0..n
  OBVIOUS
<1>2. PICK s : s = nSize(n)[n]
  OBVIOUS
<1>3. s \in Nat \ {0} /\ (s = 1 \/ s <= n - n)
  BY <1>1, <1>2, SizesShrink
<1>4. s = 1
  BY <1>3
<1>5. n \in S /\ S \subseteq Nat
  <2>1. nSize(n)[n] <= 1
    BY <1>2, <1>4
  <2>2. 0..n \subseteq Nat
    OBVIOUS
  <2> QED
    BY <1>1, <2>1, <2>2, Zenon
<1>6. Min(S) \in S
  BY <1>5, MinIs
<1>7. PICK t, d : d = Depth(n) /\ t = nSize(n)[d]
  OBVIOUS
<1>8. d \in 0..n /\ t <= 1
  BY <1>6, <1>7 DEF Depth
<1>9. t \in Nat \ {0}
  BY <1>7, <1>8, SizesShrink
<1>10. t = 1
  BY <1>8, <1>9
<1> QED
  BY <1>7, <1>8, <1>10

LEMMA LevelsAreSequences ==
  ASSUME NEW txs, NEW n \in Nat \ {0}, txs \in Seq(Tx), Len(txs) = n, NEW k \in 0..Depth(n)
  PROVE  /\ BuildMerkleTree(txs)[k] = [i \in 1..nSize(n)[k] |-> BuildMerkleTree(txs)[k][i]]
         /\ Len(BuildMerkleTree(txs)[k]) = nSize(n)[k]
<1>1. PICK d, s, level : d = Depth(n) /\ s = nSize(n) /\ level = BuildMerkleTree(txs)
  OBVIOUS
<1>2. d \in 0..n /\ d \in Nat /\ DOMAIN txs = 1..n
  BY <1>1, DepthFacts
<1>3. /\ level[0] = [i \in 1..n |-> <<txs[i]>>]
      /\ \A i \in 1..d : level[i] = Above(level[i - 1])
  BY <1>1, <1>2, LevelRounds
<1>4. s[0] = n /\ \A i \in 1..n : s[i] = (s[i - 1] + 1) \div 2
  BY <1>1, SizeRounds
<1>5. \A i \in 0..n : s[i] \in Nat \ {0}
  BY <1>1, SizesShrink
<1> DEFINE Fails == {i \in 0..d : ~(level[i] = [j \in 1..s[i] |-> level[i][j]])}
<1>6. Fails = {}
  <2> SUFFICES ASSUME Fails # {} PROVE FALSE
    OBVIOUS
  <2>1. PICK m \in Fails : \A i \in Fails : m <= i
    <3> Fails \subseteq Nat
      OBVIOUS
    <3> HIDE DEF Fails
    <3> QED
      BY LeastExists
  <2>2. level[0] = [j \in 1..s[0] |-> level[0][j]]
    BY <1>3, <1>4
  <2>3. m # 0
    BY <2>1, <2>2
  <2>4. m \in 1..d /\ m \in 1..n /\ m - 1 \in 0..d /\ m - 1 \in 0..n /\ m - 1 < m /\ m \in Nat
    BY <1>2, <2>1, <2>3
  <2>5. m - 1 \notin Fails
    BY <2>1, <2>4
  <2>6. PICK l, c : l = level[m - 1] /\ c = s[m - 1]
    OBVIOUS
  <2>7. c \in Nat \ {0} /\ l = [j \in 1..c |-> l[j]]
    BY <1>5, <2>4, <2>5, <2>6
  <2>8. Len(l) = c
    BY <2>7, LenIs
  <2>9. level[m] = [j \in 1..(c + 1) \div 2 |-> <<l[2 * j - 1], RightChild(l, j)>>]
    BY <1>3, <2>4, <2>6, <2>8 DEF Above
  <2>10. s[m] = (c + 1) \div 2
    BY <1>4, <2>4, <2>6
  <2>11. level[m] = [j \in 1..s[m] |-> level[m][j]]
    BY <2>9, <2>10
  <2> QED
    BY <2>1, <2>11
<1>7. PICK l, c : l = level[k] /\ c = s[k]
  OBVIOUS
<1>8. k \in 0..d /\ k \in 0..n
  BY <1>1, <1>2
<1>9. c \in Nat \ {0} /\ l = [j \in 1..c |-> l[j]]
  BY <1>5, <1>6, <1>7, <1>8
<1>10. Len(l) = c
  BY <1>9, LenIs
<1> QED
  BY <1>1, <1>7, <1>9, <1>10

\* The place above a place, its children and their hash.
LEMMA OneLevelUp ==
  ASSUME NEW level, NEW m \in Nat \ {0}, Len(level) = m, NEW q \in 0..m - 1
  PROVE  /\ q \div 2 \in 0..(m + 1) \div 2 - 1
         /\ \A other : other = level[Min({Flipped(q), m - 1}) + 1] =>
              Above(level)[q \div 2 + 1] =
                IF q % 2 = 1 THEN <<other, level[q + 1]>> ELSE <<level[q + 1], other>>
<1> SUFFICES ASSUME NEW other, other = level[Min({Flipped(q), m - 1}) + 1]
             PROVE  /\ q \div 2 \in 0..(m + 1) \div 2 - 1
                    /\ Above(level)[q \div 2 + 1] =
                         IF q % 2 = 1 THEN <<other, level[q + 1]>> ELSE <<level[q + 1], other>>
  <2>1. \E other : other = level[Min({Flipped(q), m - 1}) + 1]
    OBVIOUS
  <2> QED
    BY <2>1
<1>1. PICK i : i = q \div 2 + 1
  OBVIOUS
<1>2. i \in 1..(m + 1) \div 2 /\ q \in Int /\ m \in Int
  BY <1>1
<1>3. Above(level)[i] = <<level[2 * i - 1], level[Min({2 * i, m})]>>
  BY <1>2 DEF Above, RightChild
<1>4. CASE q % 2 = 1
  <2>1. 2 * i = q + 1 /\ 2 * i - 1 = q /\ 2 * i \in Int
    BY <1>1, <1>2, <1>4
  <2>2. Min({2 * i, m}) = q + 1
    BY <1>2, <2>1, MinOfTwo
  <2>3. Flipped(q) = q - 1 /\ q - 1 \in Int /\ m - 1 \in Int
    BY <1>2, <1>4 DEF Flipped
  <2>4. Min({q - 1, m - 1}) = q - 1
    BY <1>2, <2>3, MinOfTwo
  <2>5. Min({Flipped(q), m - 1}) + 1 = q
    BY <1>2, <2>3, <2>4
  <2>6. other = level[q]
    BY <2>5
  <2>7. Above(level)[i] = <<level[q], level[q + 1]>>
    BY <1>3, <2>1, <2>2
  <2> QED
    BY <1>1, <1>2, <1>4, <2>6, <2>7
<1>5. CASE q % 2 # 1
  <2>1. q % 2 = 0
    BY <1>2, <1>5
  <2>2. 2 * i = q + 2 /\ 2 * i - 1 = q + 1 /\ 2 * i \in Int
    BY <1>1, <1>2, <2>1
  <2>3. Min({2 * i, m}) = IF q + 2 <= m THEN q + 2 ELSE m
    BY <1>2, <2>2, MinOfTwo
  <2>4. Flipped(q) = q + 1 /\ q + 1 \in Int /\ m - 1 \in Int
    BY <1>2, <2>1 DEF Flipped
  <2>5. Min({q + 1, m - 1}) = IF q + 1 <= m - 1 THEN q + 1 ELSE m - 1
    BY <1>2, <2>4, MinOfTwo
  <2>6. Min({Flipped(q), m - 1}) + 1 = Min({2 * i, m})
    BY <1>2, <2>3, <2>4, <2>5
  <2>7. other = level[Min({2 * i, m})]
    BY <2>6
  <2>8. Above(level)[i] = <<level[q + 1], other>>
    BY <1>3, <2>2, <2>7
  <2> QED
    BY <1>1, <1>2, <1>5, <2>8
<1> QED
  BY <1>4, <1>5

\* The branch of a transaction leads from it to the root.
LEMMA BranchIsRight ==
  ASSUME NEW txs, NEW n \in Nat \ {0}, txs \in Seq(Tx), Len(txs) = n, NEW i \in 0..n - 1
  PROVE  /\ Len(GetMerkleBranch(txs, i)) = Depth(n)
         /\ CheckMerkleBranch(<<txs[i + 1]>>, GetMerkleBranch(txs, i), i) = hashMerkleRoot(txs)
<1>1. PICK d, s, level, p, branch :
        /\ d = Depth(n) /\ s = nSize(n) /\ level = BuildMerkleTree(txs)
        /\ p = Shifted(i, d) /\ branch = GetMerkleBranch(txs, i)
  OBVIOUS
<1>2. d \in 0..n /\ d \in Nat /\ DOMAIN txs = 1..n /\ s[d] = 1
  BY <1>1, DepthFacts
<1>3. /\ level[0] = [j \in 1..n |-> <<txs[j]>>]
      /\ \A k \in 1..d : level[k] = Above(level[k - 1])
  BY <1>1, <1>2, LevelRounds
<1>4. s[0] = n /\ \A k \in 1..d : s[k] = (s[k - 1] + 1) \div 2
  BY <1>1, <1>2, SizeRounds
<1>5. ASSUME NEW k \in 0..d PROVE s[k] \in Nat \ {0} /\ Len(level[k]) = s[k]
  <2>1. k \in 0..n /\ k \in 0..Depth(n)
    BY <1>1, <1>2
  <2>2. nSize(n)[k] \in Nat \ {0}
    BY <2>1, SizesShrink
  <2>3. Len(BuildMerkleTree(txs)[k]) = nSize(n)[k]
    BY <2>1, LevelsAreSequences
  <2> QED
    BY <1>1, <2>2, <2>3
<1>6. p[0] = i /\ \A k \in 1..d : p[k] = p[k - 1] \div 2
  BY <1>1, <1>2, ShiftRounds
<1>7. branch = [k \in 1..d |->
                  level[k - 1][Min({Flipped(p[k - 1]), Len(level[k - 1]) - 1}) + 1]]
  BY <1>1 DEF GetMerkleBranch
<1>8. Len(branch) = d
  <2>1. branch = [k \in 1..d |-> branch[k]]
    BY <1>7
  <2> QED
    BY <1>2, <2>1, LenIs
<1>9. PICK hash : hash = <<txs[i + 1]>>
  OBVIOUS
<1>10. d \in Nat /\ Len(branch) = d
  BY <1>2, <1>8
<1>11. PICK up : LeadsUp(up, hash, branch, i, d)
  BY <1>10, UpRounds
<1>12. /\ up[0] = hash /\ CheckMerkleBranch(hash, branch, i) = up[d]
       /\ \A k \in 1..d :
            up[k] = IF Shifted(i, d)[k - 1] % 2 = 1
                    THEN <<branch[k], up[k - 1]>> ELSE <<up[k - 1], branch[k]>>
  BY <1>11 DEF LeadsUp
<1> DEFINE Fails == {k \in 0..d : ~(p[k] \in 0..s[k] - 1 /\ up[k] = level[k][p[k] + 1])}
<1>13. Fails = {}
  <2> SUFFICES ASSUME Fails # {} PROVE FALSE
    OBVIOUS
  <2>1. PICK m \in Fails : \A k \in Fails : m <= k
    <3> Fails \subseteq Nat
      OBVIOUS
    <3> HIDE DEF Fails
    <3> QED
      BY LeastExists
  <2>2. p[0] \in 0..s[0] - 1 /\ up[0] = level[0][p[0] + 1]
    BY <1>3, <1>4, <1>6, <1>9, <1>12
  <2>3. m # 0
    BY <2>1, <2>2
  <2>4. m \in 1..d /\ m - 1 \in 0..d /\ m - 1 < m /\ m \in Nat
    BY <1>2, <2>1, <2>3
  <2>5. m - 1 \notin Fails
    BY <2>1, <2>4
  <2>6. PICK l, c, q : l = level[m - 1] /\ c = s[m - 1] /\ q = p[m - 1]
    OBVIOUS
  <2>7. c \in Nat \ {0} /\ Len(l) = c /\ q \in 0..c - 1 /\ up[m - 1] = l[q + 1]
    BY <1>5, <2>4, <2>5, <2>6
  <2>8. branch[m] = l[Min({Flipped(q), c - 1}) + 1]
    BY <1>7, <2>4, <2>6, <2>7
  <2>9. up[m] = IF q % 2 = 1 THEN <<branch[m], l[q + 1]>> ELSE <<l[q + 1], branch[m]>>
    BY <1>1, <1>12, <2>4, <2>6, <2>7
  <2>10. /\ q \div 2 \in 0..(c + 1) \div 2 - 1
         /\ Above(l)[q \div 2 + 1] =
              IF q % 2 = 1 THEN <<branch[m], l[q + 1]>> ELSE <<l[q + 1], branch[m]>>
    <3>1. c \in Nat \ {0} /\ Len(l) = c /\ q \in 0..c - 1
      BY <2>7
    <3>2. /\ q \div 2 \in 0..(c + 1) \div 2 - 1
          /\ \A other : other = l[Min({Flipped(q), c - 1}) + 1] =>
               Above(l)[q \div 2 + 1] =
                 IF q % 2 = 1 THEN <<other, l[q + 1]>> ELSE <<l[q + 1], other>>
      BY <3>1, OneLevelUp
    <3> QED
      BY <2>8, <3>2, Zenon
  <2>11. p[m] = q \div 2 /\ s[m] = (c + 1) \div 2 /\ level[m] = Above(l)
    BY <1>3, <1>4, <1>6, <2>4, <2>6
  <2>12. p[m] \in 0..s[m] - 1 /\ up[m] = level[m][p[m] + 1]
    BY <2>9, <2>10, <2>11
  <2> QED
    BY <2>1, <2>12
<1>14. d \in 0..d
  BY <1>2
<1>15. p[d] \in 0..s[d] - 1 /\ up[d] = level[d][p[d] + 1]
  BY <1>13, <1>14
<1>16. p[d] = 0
  BY <1>2, <1>15
<1>17. up[d] = level[d][1]
  BY <1>15, <1>16
<1>18. hashMerkleRoot(txs) = level[d][1]
  BY <1>1 DEF hashMerkleRoot
<1> QED
  BY <1>1, <1>8, <1>9, <1>12, <1>17, <1>18

-----------------------------------------------------------------------------
(* The wallet transaction.                                                 *)

\* The block that the wallet points at holds the transaction at the index it keeps.
PointsAtTx ==
  \/ hashBlock = Null /\ nIndex = -1 /\ vMerkleBranch = <<>>
  \/ /\ hashBlock \in known \ {Genesis}
     /\ nIndex \in 0..Len(vtx[hashBlock]) - 1
     /\ vtx[hashBlock][nIndex + 1] = WalletTx
     /\ vMerkleBranch = GetMerkleBranch(vtx[hashBlock], nIndex)

\* A block whose activation is given up in the end may have been the last one that the
\* wallet was told of.
GivenUpWith(h) ==
  \E b \in known : /\ ~ValidChain[b] \/ b \in interrupted
                   /\ h \in ToSet(ChainOf[b])

\* The wallet knows whether the branch of x holds its transaction.
Seen(x) ==
  (\E c \in ToSet(ChainOf[x]) \ {Genesis} : Holds(c)) =>
    hashBlock \in ToSet(ChainOf[x]) \/ GivenUpWith(hashBlock)

\* It knows it of the connected part of the branch that is activated, and of the chain on
\* disk, unless it was told of a block of that branch since.
SeenInv ==
  /\ pindexNew # Null => Seen(pindex)
  /\ \/ Seen(dbBest)
     \/ pindexNew # Null /\ hashBlock \in ToSet(ChainOf[pindexNew])

WalletInv ==
  /\ ActivationInv
  /\ QueriesInv
  /\ PointsAtTx
  /\ SeenInv
  /\ fMerkleVerified \in BOOLEAN

LEMMA WalletInitOK == QueriesInit => WalletInv
<1> SUFFICES ASSUME QueriesInit PROVE WalletInv
  OBVIOUS
<1>1. pindexNew = Null /\ dbBest = Genesis
  BY DEF QueriesInit
<1>2. PICK c : c = ChainOf[Genesis] /\ c = <<Genesis>>
  BY ChainEquation, BlockAssumption
<1>3. ToSet(c) = {Genesis}
  BY <1>2 DEF ToSet
<1>4. SeenInv
  BY <1>1, <1>2, <1>3 DEF SeenInv, Seen
<1>5. PointsAtTx /\ fMerkleVerified \in BOOLEAN
  BY DEF QueriesInit, PointsAtTx
<1> QED
  BY <1>4, <1>5, QueriesInitOK DEF WalletInv

LEMMA BranchIsSet ==
  ASSUME NEW b \in Block, SetMerkleBranch(b), Holds(b)
  PROVE  /\ hashBlock' = b /\ UNCHANGED fMerkleVerified
         /\ nIndex' \in 0..Len(vtx[b]) - 1
         /\ vtx[b][nIndex' + 1] = WalletTx
         /\ vMerkleBranch' = GetMerkleBranch(vtx[b], nIndex')
<1>1. PICK v : v = vtx[b] /\ v \in Seq(Tx)
  BY BlockAssumption
<1>2. \E j \in DOMAIN v : v[j] = WalletTx
  BY <1>1 DEF Holds, ToSet
<1>3. PICK i : i = CHOOSE j \in DOMAIN v : v[j] = WalletTx
  OBVIOUS
<1>4. i \in DOMAIN v /\ v[i] = WalletTx
  BY <1>2, <1>3
<1>5. i \in 1..Len(v) /\ Len(v) \in Nat
  BY <1>1, <1>4
<1>6. hashBlock' = b /\ nIndex' = i - 1 /\ vMerkleBranch' = GetMerkleBranch(v, i - 1)
  BY <1>1, <1>3 DEF SetMerkleBranch
<1>7. i - 1 \in 0..Len(v) - 1 /\ (i - 1) + 1 = i
  BY <1>5
<1> QED
  BY <1>1, <1>4, <1>6, <1>7 DEF SetMerkleBranch

\* A transaction is in one block of a valid chain at most.
LEMMA OneHolder ==
  ASSUME NEW b \in Block, ValidChain[b],
         NEW i \in 2..Len(ChainOf[b]), Holds(ChainOf[b][i]),
         NEW j \in 2..Len(ChainOf[b]), Holds(ChainOf[b][j])
  PROVE  i = j
<1>1. PICK c : c = ChainOf[b]
  OBVIOUS
<1>2. c \in Seq(Block) /\ Len(c) \in Nat /\ NoDoubleSpend(c)
  BY <1>1, ChainFacts DEF ValidChain, IsValidChain
<1>3. ASSUME NEW h \in 2..Len(c), Holds(c[h])
      PROVE  \E k : [h |-> h, k |-> k] \in Places(c) /\ vtx[c[h]][k] = WalletTx
  <2>1. h \in 1..Len(c) /\ c[h] \in Block
    BY <1>2
  <2>2. PICK v : v = vtx[c[h]] /\ v \in Seq(Tx)
    BY <2>1, BlockAssumption
  <2>3. ToSet(v) = {v[k] : k \in 1..Len(v)}
    BY <2>2, ToSetIs
  <2>4. PICK k \in 1..Len(v) : v[k] = WalletTx
    BY <1>3, <2>2, <2>3 DEF Holds
  <2>5. [h |-> h, k |-> k] \in Places(c)
    BY <1>2, <2>2, <2>4, PlaceIs
  <2> QED
    BY <2>2, <2>4, <2>5
<1>4. PICK k : [h |-> i, k |-> k] \in Places(c) /\ vtx[c[i]][k] = WalletTx
  BY <1>1, <1>3
<1>5. PICK l : [h |-> j, k |-> l] \in Places(c) /\ vtx[c[j]][l] = WalletTx
  BY <1>1, <1>3
<1>6. PICK o, q : o = [h |-> i, k |-> k] /\ q = [h |-> j, k |-> l]
  OBVIOUS
<1>7. /\ o \in Places(c) /\ q \in Places(c) /\ o.h = i /\ q.h = j
      /\ At(c, o) = WalletTx /\ At(c, q) = WalletTx
  BY <1>4, <1>5, <1>6 DEF At
<1>8. o = q
  BY <1>2, <1>7 DEF NoDoubleSpend
<1> QED
  BY <1>7, <1>8

\* The same of the blocks of the chain as a set.
LEMMA OneHolderOf ==
  ASSUME NEW b \in Block, ValidChain[b],
         NEW x \in ToSet(ChainOf[b]) \ {Genesis}, Holds(x),
         NEW y \in ToSet(ChainOf[b]) \ {Genesis}, Holds(y)
  PROVE  x = y
<1>1. PICK i, j : i = Len(ChainOf[x]) /\ j = Len(ChainOf[y])
  OBVIOUS
<1>2. PICK c : c = ChainOf[b] /\ c[1] = Genesis
  BY ChainFacts
<1>3. i \in 1..Len(c) /\ c[i] = x /\ Len(c) \in Nat
  BY <1>1, <1>2, OnBranch
<1>4. j \in 1..Len(c) /\ c[j] = y
  BY <1>1, <1>2, OnBranch
<1>5. i \in 2..Len(c) /\ j \in 2..Len(c)
  BY <1>2, <1>3, <1>4
<1>6. i = j
  BY <1>2, <1>3, <1>4, <1>5, OneHolder
<1> QED
  BY <1>3, <1>4, <1>6

\* The block the wallet points at, if any.
LEMMA PointedHolds ==
  ASSUME ActivationInv, PointsAtTx, hashBlock # Null
  PROVE  hashBlock \in known \ {Genesis} /\ hashBlock \in Block /\ Holds(hashBlock)
<1>1. /\ hashBlock \in known \ {Genesis} /\ hashBlock \in Block
      /\ nIndex \in 0..Len(vtx[hashBlock]) - 1
      /\ vtx[hashBlock][nIndex + 1] = WalletTx
  BY DEF ActivationInv, PointsAtTx
<1>2. PICK v : v = vtx[hashBlock] /\ v \in Seq(Tx)
  BY <1>1, BlockAssumption
<1>3. ToSet(v) = {v[i] : i \in 1..Len(v)} /\ Len(v) \in Nat
  BY <1>2, ToSetIs
<1>4. nIndex + 1 \in 1..Len(v)
  BY <1>1, <1>2, <1>3
<1> QED
  BY <1>1, <1>2, <1>3, <1>4 DEF Holds

\* What the wallet knows of a valid branch it knows of each part of it.
LEMMA SeenBelow ==
  ASSUME ActivationInv, PointsAtTx, NEW n \in Block, ValidChain[n], Seen(n),
         NEW p \in ToSet(ChainOf[n])
  PROVE  Seen(p)
<1> SUFFICES ASSUME NEW c \in ToSet(ChainOf[p]) \ {Genesis}, Holds(c)
             PROVE  hashBlock \in ToSet(ChainOf[p]) \/ GivenUpWith(hashBlock)
  BY DEF Seen
<1>1. c \in ToSet(ChainOf[n]) \ {Genesis}
  BY OnBranch
<1>2. hashBlock \in ToSet(ChainOf[n]) \/ GivenUpWith(hashBlock)
  BY <1>1 DEF Seen
<1>3. CASE hashBlock \in ToSet(ChainOf[n])
  <2>1. PICK h : h = hashBlock
    OBVIOUS
  <2>2. h \in ToSet(ChainOf[n]) /\ h # Null
    BY <1>3, <2>1, OnBranch, BlockAssumption
  <2>3. h # Genesis /\ Holds(h)
    BY <2>1, <2>2, PointedHolds
  <2>4. h = c
    BY <1>1, <2>2, <2>3, OneHolderOf
  <2> QED
    BY <2>1, <2>4
<1> QED
  BY <1>2, <1>3

LEMMA SeenStays ==
  ASSUME NEW p, Seen(p), hashBlock' = hashBlock,
         known \subseteq known', interrupted \subseteq interrupted'
  PROVE  Seen(p)'
  BY DEF Seen, GivenUpWith, Holds

\* Giving up a block that is invalid or interrupted by now.
LEMMA SeenAfterGivingUp ==
  ASSUME SeenInv, hashBlock' = hashBlock, dbBest' = dbBest, pindexNew' = Null,
         known' = known, interrupted \subseteq interrupted',
         \/ pindexNew \in {Null, dbBest}
         \/ pindexNew \in known /\ (~ValidChain[pindexNew] \/ pindexNew \in interrupted')
  PROVE  SeenInv'
<1>1. PICK d, n : d = dbBest /\ n = pindexNew
  OBVIOUS
<1>2. Seen(d)'
  <2>1. CASE Seen(d)
    BY <2>1, SeenStays
  <2>2. CASE n # Null /\ hashBlock \in ToSet(ChainOf[n])
    BY <1>1, <2>2 DEF Seen, GivenUpWith
  <2> QED
    BY <1>1, <2>1, <2>2 DEF SeenInv
<1>3. Seen(dbBest)'
  BY <1>1, <1>2 DEF Seen
<1> QED
  BY <1>3 DEF SeenInv

LEMMA AddKeepsWallet ==
  ASSUME WalletInv, NEW b \in Block \ {Genesis}, AddToBlockIndex(b)
  PROVE  PointsAtTx' /\ SeenInv'
<1>1. /\ pindexNew = Null /\ dbBest = best /\ dbBest' = dbBest /\ known' = known \cup {b}
      /\ interrupted' = interrupted /\ UNCHANGED merkleVars
  BY DEF AddToBlockIndex, AtRest
<1>2. PICK d : d = dbBest
  OBVIOUS
<1>3. Seen(d) /\ d \in Block /\ ValidChain[d]
  BY <1>1, <1>2 DEF WalletInv, SeenInv, ActivationInv
<1>4. hashBlock' = hashBlock /\ known \subseteq known' /\ interrupted \subseteq interrupted'
  BY <1>1 DEF merkleVars
<1>5. Seen(d)'
  BY <1>3, <1>4, SeenStays
<1>6. Seen(dbBest)'
  BY <1>1, <1>2, <1>5 DEF Seen
<1>7. pindexNew' # Null => Seen(pindex)'
  <2> SUFFICES ASSUME pindexNew' # Null PROVE Seen(pindex)'
    OBVIOUS
  <2>1. pindexNew' = b /\ pindex' = ForkBlock(b)
    BY <1>1 DEF AddToBlockIndex
  <2>2. PICK f : f = ForkBlock(b)
    OBVIOUS
  <2>3. f \in ToSet(ChainOf[d])
    BY <1>1, <1>2, <1>3, <2>2, ForkOnBoth
  <2>4. Seen(f)
    BY <1>3, <2>3, SeenBelow DEF WalletInv
  <2>5. Seen(f)'
    BY <1>4, <2>4, SeenStays
  <2> QED
    BY <2>1, <2>2, <2>5 DEF Seen
<1>8. PointsAtTx'
  BY <1>1 DEF WalletInv, PointsAtTx, merkleVars
<1> QED
  BY <1>6, <1>7, <1>8 DEF SeenInv

LEMMA ConnectKeepsWallet ==
  ASSUME WalletInv, ConnectNextBlock
  PROVE  PointsAtTx' /\ SeenInv' /\ fMerkleVerified' \in BOOLEAN
<1>1. /\ ConnectIsNext /\ pindex' = NextBlock /\ SyncWithWallets(NextBlock)
      /\ UNCHANGED <<known, dbBest, pindexNew, interrupted>>
  BY DEF ConnectNextBlock, selectionVars
<1>2. PICK n, p, c, d : n = pindexNew /\ p = pindex /\ c = NextBlock /\ d = dbBest
  OBVIOUS
<1>3. /\ n # Null /\ c \in known \ {Genesis} /\ c \in Block /\ c \in ToSet(ChainOf[n])
      /\ ToSet(ChainOf[c]) = ToSet(ChainOf[p]) \cup {c}
  BY <1>1, <1>2, ConnectStep DEF WalletInv, ConnectIsNext
<1>4. CASE Holds(c)
  <2>1. SetMerkleBranch(c)
    BY <1>1, <1>2, <1>4 DEF SyncWithWallets
  <2>2. /\ hashBlock' = c /\ UNCHANGED fMerkleVerified
        /\ nIndex' \in 0..Len(vtx[c]) - 1
        /\ vtx[c][nIndex' + 1] = WalletTx
        /\ vMerkleBranch' = GetMerkleBranch(vtx[c], nIndex')
    BY <1>3, <1>4, <2>1, BranchIsSet
  <2>3. PointsAtTx'
    BY <1>1, <1>3, <2>2 DEF PointsAtTx
  <2>4. SeenInv'
    BY <1>1, <1>2, <1>3, <2>2 DEF SeenInv, Seen
  <2> QED
    BY <2>2, <2>3, <2>4 DEF WalletInv
<1>5. CASE ~Holds(c)
  <2>1. UNCHANGED merkleVars
    BY <1>1, <1>2, <1>5 DEF SyncWithWallets
  <2>2. Seen(p) /\ (Seen(d) \/ hashBlock \in ToSet(ChainOf[n]))
    BY <1>2, <1>3 DEF WalletInv, SeenInv
  <2>3. Seen(c)
    BY <1>3, <1>5, <2>2 DEF Seen
  <2>4. hashBlock' = hashBlock
    BY <2>1 DEF merkleVars
  <2>5. Seen(c)'
    BY <1>1, <2>3, <2>4, SeenStays
  <2>6. Seen(d)' \/ hashBlock' \in ToSet(ChainOf[n])
    BY <1>1, <2>2, <2>4, SeenStays
  <2>7. SeenInv'
    BY <1>1, <1>2, <1>3, <2>5, <2>6 DEF SeenInv, Seen
  <2> QED
    BY <1>1, <2>1, <2>7 DEF WalletInv, PointsAtTx, merkleVars
<1> QED
  BY <1>4, <1>5

LEMMA WalletStep ==
  ASSUME WalletInv, [QueriesNext]_queryVars
  PROVE  WalletInv'
<1>1. ActivationInv' /\ QueriesInv'
  BY QueriesStep DEF WalletInv
<1>2. CASE UNCHANGED <<hashBlock, nIndex, vMerkleBranch>> /\ known' = known
           /\ fMerkleVerified' \in BOOLEAN /\ SeenInv'
  BY <1>1, <1>2 DEF WalletInv, PointsAtTx
<1>3. CASE \E b \in Block \ {Genesis} : AddToBlockIndex(b)
  BY <1>1, <1>3, AddKeepsWallet DEF WalletInv, AddToBlockIndex, merkleVars
<1>4. CASE ConnectNextBlock
  BY <1>1, <1>4, ConnectKeepsWallet DEF WalletInv
<1>5. CASE TxnCommit
  <2>1. /\ pindexNew # Null /\ dbBest' = pindex
        /\ UNCHANGED <<known, pindexNew, pindex, interrupted, merkleVars>>
    BY <1>5 DEF TxnCommit, CommitIsNext, selectionVars
  <2>2. PICK p : p = pindex
    OBVIOUS
  <2>3. Seen(p)'
    BY <2>1, <2>2, SeenStays DEF WalletInv, SeenInv, merkleVars
  <2>4. SeenInv'
    BY <2>1, <2>2, <2>3 DEF SeenInv, Seen
  <2> QED
    BY <1>2, <2>1, <2>4 DEF merkleVars, WalletInv
<1>6. CASE BlockActivated \/ InvalidBlock \/ DatabaseError \/ Restart
  <2>1. /\ hashBlock' = hashBlock /\ dbBest' = dbBest /\ pindexNew' = Null
        /\ known' = known /\ interrupted \subseteq interrupted'
        /\ UNCHANGED <<nIndex, vMerkleBranch>>
    BY <1>6 DEF BlockActivated, NewBestBlock, InvalidBlock, DatabaseError, GiveUp, Restart, merkleVars
  <2>2. fMerkleVerified' \in BOOLEAN
    BY <1>6 DEF BlockActivated, InvalidBlock, DatabaseError, GiveUp, Restart, merkleVars, WalletInv
  <2>3. \/ pindexNew \in {Null, dbBest}
        \/ pindexNew \in known /\ (~ValidChain[pindexNew] \/ pindexNew \in interrupted')
    <3>1. CASE BlockActivated
      BY <3>1 DEF BlockActivated
    <3>2. CASE InvalidBlock
      BY <3>2, ConnectStep, ValidBelow DEF InvalidBlock, WalletInv
    <3>3. CASE DatabaseError \/ Restart
      BY <3>3 DEF DatabaseError, Restart, WalletInv, ActivationInv, ConnectedPart
    <3> QED
      BY <1>6, <3>1, <3>2, <3>3
  <2>4. SeenInv'
    BY <2>1, <2>3, SeenAfterGivingUp DEF WalletInv
  <2> QED
    BY <1>2, <2>1, <2>2, <2>4
<1>7. CASE UNCHANGED <<selectionVars, activationVars, hashBlock, nIndex, vMerkleBranch>>
           /\ fMerkleVerified' \in BOOLEAN
  <2>1. SeenInv'
    BY <1>7 DEF WalletInv, SeenInv, Seen, GivenUpWith, Holds, selectionVars, activationVars
  <2> QED
    BY <1>2, <1>7, <2>1 DEF selectionVars
<1>8. CASE \E h \in Heights : FindBlockByHeight(h)
  BY <1>7, <1>8 DEF FindBlockByHeight, merkleVars, WalletInv
<1>9. CASE VerifyMerkleBranch
  BY <1>7, <1>9 DEF VerifyMerkleBranch
<1>10. CASE UNCHANGED queryVars
  BY <1>7, <1>10 DEF queryVars, merkleVars, WalletInv
<1> QED
  BY <1>3, <1>4, <1>5, <1>6, <1>8, <1>9, <1>10 DEF QueriesNext

LEMMA MainChainIs ==
  ASSUME WalletInv
  PROVE  /\ best \in Block
         /\ MainChain \in Seq(Block) /\ Len(MainChain) \in Nat \ {0}
         /\ ToSet(MainChain) = {MainChain[i] : i \in 1..Len(MainChain)}
         /\ \A i \in 1..Len(MainChain) : MainChain[i] \in known
<1>1. best \in Block /\ best \in known
  BY DEF WalletInv, ActivationInv
<1>2. PICK c : c = MainChain /\ c = ChainOf[best]
  BY DEF MainChain
<1>3. c \in Seq(Block) /\ Len(c) \in Nat \ {0}
  BY <1>1, <1>2, ChainFacts
<1>4. ToSet(c) = {c[i] : i \in 1..Len(c)}
  BY <1>3, ToSetIs
<1>5. \A i \in 1..Len(c) : c[i] \in known
  BY <1>1, <1>2, <1>4 DEF WalletInv, ActivationInv, KnownChains
<1> QED
  BY <1>1, <1>2, <1>3, <1>4, <1>5

LEMMA WalletAlways == QueriesSpec => []WalletInv
  BY WalletInitOK, WalletStep, PTL DEF QueriesSpec

LEMMA PointedBlock ==
  ASSUME WalletInv, hashBlock # Null
  PROVE  /\ hashBlock \in known /\ hashBlock \in Block /\ Holds(hashBlock)
         /\ nIndex \in 0..Len(vtx[hashBlock]) - 1
         /\ Len(vMerkleBranch) = Depth(Len(vtx[hashBlock]))
         /\ BranchLeadsToRoot
<1>1. /\ hashBlock \in known /\ hashBlock \in Block
      /\ nIndex \in 0..Len(vtx[hashBlock]) - 1
      /\ vtx[hashBlock][nIndex + 1] = WalletTx
      /\ vMerkleBranch = GetMerkleBranch(vtx[hashBlock], nIndex)
  BY DEF WalletInv, PointsAtTx, ActivationInv
<1>2. PICK v, n : v = vtx[hashBlock] /\ n = Len(v)
  OBVIOUS
<1>3. v \in Seq(Tx)
  BY <1>1, <1>2, BlockAssumption
<1>4. n \in Nat \ {0} /\ Len(v) = n /\ nIndex \in 0..n - 1
  BY <1>1, <1>2, <1>3
<1>5. ToSet(v) = {v[i] : i \in 1..Len(v)} /\ nIndex + 1 \in 1..Len(v)
  BY <1>3, <1>4, ToSetIs
<1>6. Holds(hashBlock)
  BY <1>1, <1>2, <1>5 DEF Holds
<1>7. /\ Len(GetMerkleBranch(v, nIndex)) = Depth(n)
      /\ CheckMerkleBranch(<<v[nIndex + 1]>>, GetMerkleBranch(v, nIndex), nIndex) = hashMerkleRoot(v)
  BY <1>3, <1>4, BranchIsRight
<1> QED
  BY <1>1, <1>2, <1>6, <1>7 DEF BranchLeadsToRoot

LEMMA DepthIs ==
  ASSUME WalletInv
  PROVE  /\ hashBlock # Null /\ IsInMainChain(hashBlock) =>
              GetDepthInMainChain = nHeight(best) - nHeight(hashBlock) + 1
         /\ ~(hashBlock # Null /\ IsInMainChain(hashBlock)) => GetDepthInMainChain = 0
<1>1. CASE hashBlock # Null /\ IsInMainChain(hashBlock)
  <2>1. hashBlock \in known /\ nIndex # -1 /\ BranchLeadsToRoot
    BY <1>1, PointedBlock
  <2> QED
    BY <1>1, <2>1 DEF GetDepthInMainChain, InMainChain
<1>2. CASE ~(hashBlock # Null /\ IsInMainChain(hashBlock))
  BY <1>2 DEF GetDepthInMainChain, InMainChain
<1> QED
  BY <1>1, <1>2

(* The cache and the wallet hold what they should, the branch has an entry *)
(* for every level of the tree, and what is connected is on the branch     *)
(* that is activated.                                                      *)
THEOREM QueriesTyped == QueriesSpec => []QueriesTypeOK
<1>1. WalletInv => QueriesTypeOK
  <2> SUFFICES ASSUME WalletInv PROVE QueriesTypeOK
    OBVIOUS
  <2>1. known \subseteq Block /\ best \in known /\ fMerkleVerified \in BOOLEAN
    BY DEF WalletInv, QueriesInv
  <2>2. pblockindexFBBHLast \in known \cup {Null}
    <3>1. ASSUME IsInMainChain(pblockindexFBBHLast) PROVE pblockindexFBBHLast \in known
      <4>1. PICK i \in 1..Len(MainChain) : MainChain[i] = pblockindexFBBHLast
        BY <3>1, MainChainIs DEF IsInMainChain
      <4> QED
        BY <4>1, MainChainIs
    <3> QED
      BY <3>1 DEF WalletInv, QueriesInv, CacheOnMainChain
  <2> DEFINE ActivationTyped ==
        /\ known \subseteq Block
        /\ best \in known /\ dbBest \in known
        /\ IF pindexNew = Null THEN pindex = Null
           ELSE pindexNew \in known /\ pindex \in ToSet(ChainOf[pindexNew])
        /\ interrupted \subseteq known
  <2>3. ActivationTyped
    BY DEF WalletInv, ActivationInv, ConnectedPart
  <2>4. CASE hashBlock = Null
    <3>1. nIndex = -1 /\ vMerkleBranch = <<>>
      BY <2>1, <2>4, BlockAssumption DEF WalletInv, PointsAtTx
    <3>2. Len(vMerkleBranch) = 0
      BY <3>1
    <3> QED
      BY <2>1, <2>2, <2>4, <2>3, <3>1, <3>2 DEF QueriesTypeOK
  <2>5. CASE hashBlock # Null
    BY <2>1, <2>2, <2>5, <2>3, PointedBlock DEF QueriesTypeOK
  <2> QED
    BY <2>4, <2>5
<1> QED
  BY <1>1, WalletAlways, PTL

(* Whatever blocks the wallet's transaction moved between, it is said to   *)
(* be as deep as its block is, and unconfirmed when that block is not on   *)
(* the best chain; a branch that was verified once and then replaced, and  *)
(* fMerkleVerified never reset, do no harm.                                *)
THEOREM DepthIsTrue == QueriesSpec => []WalletDepthIsTrue
<1>1. WalletInv => WalletDepthIsTrue
  <2> SUFFICES ASSUME WalletInv PROVE WalletDepthIsTrue
    OBVIOUS
  <2>1. CASE hashBlock # Null /\ IsInMainChain(hashBlock)
    <3>1. WalletTx \in ToSet(vtx[hashBlock])
      BY <2>1, PointedBlock DEF Holds
    <3>2. /\ nHeight(hashBlock) \in 0..nHeight(best) /\ nHeight(best) \in Nat
          /\ hashBlock = MainChain[nHeight(hashBlock) + 1]
      BY <2>1, PlaceOnMainChain DEF WalletInv
    <3>3. PICK d, h, t : d = GetDepthInMainChain /\ h = nHeight(hashBlock) /\ t = nHeight(best)
      OBVIOUS
    <3>4. d = t - h + 1
      BY <2>1, <3>3, DepthIs
    <3>5. Len(MainChain) = t + 1
      <4>1. t = Len(MainChain) - 1 /\ Len(MainChain) \in Nat
        BY <3>3, MainChainIs DEF nHeight, MainChain
      <4> QED
        BY <4>1
    <3>6. d > 0 /\ Len(MainChain) + 1 - d = h + 1
      BY <3>2, <3>3, <3>4, <3>5
    <3> QED
      BY <2>1, <3>1, <3>2, <3>3, <3>6 DEF WalletDepthIsTrue
  <2>2. CASE ~(hashBlock # Null /\ IsInMainChain(hashBlock))
    BY <2>2, DepthIs DEF WalletDepthIsTrue
  <2> QED
    BY <2>1, <2>2
<1> QED
  BY <1>1, WalletAlways, PTL

(* A transaction of the best chain looks confirmed for the wallet, unless  *)
(* the wallet was last told of a block on the branch of an invalid one, or *)
(* of one whose activation ended with an error of the database or a crash  *)
(* after ConnectBlock told the wallets and before the commit.              *)
THEOREM ConfirmedLooksSo == QueriesSpec => []ConfirmedTxLooksConfirmed
<1>1. WalletInv => ConfirmedTxLooksConfirmed
  <2> SUFFICES ASSUME WalletInv, AtRest, \E b \in ToSet(MainChain) \ {Genesis} : Holds(b)
               PROVE  GetDepthInMainChain > 0 \/ GivenUpWith(hashBlock)
    BY DEF ConfirmedTxLooksConfirmed, GivenUpWith
  <2>1. hashBlock \in ToSet(MainChain) \/ GivenUpWith(hashBlock)
    BY DEF WalletInv, SeenInv, Seen, AtRest, MainChain
  <2>2. ASSUME hashBlock \in ToSet(MainChain) PROVE GetDepthInMainChain > 0
    <3>1. \E i \in DOMAIN MainChain : MainChain[i] = hashBlock
      BY <2>2 DEF ToSet
    <3>2. hashBlock # Null /\ IsInMainChain(hashBlock)
      BY <2>2, <3>1, MainChainIs, BlockAssumption DEF IsInMainChain
    <3>3. nHeight(hashBlock) \in 0..nHeight(best) /\ nHeight(best) \in Nat
      BY <3>2, PlaceOnMainChain DEF WalletInv
    <3>4. PICK d, h, t : d = GetDepthInMainChain /\ h = nHeight(hashBlock) /\ t = nHeight(best)
      OBVIOUS
    <3>5. d = t - h + 1
      BY <3>2, <3>4, DepthIs
    <3>6. d > 0
      BY <3>3, <3>4, <3>5
    <3> QED
      BY <3>4, <3>6
  <2> QED
    BY <2>1, <2>2
<1> QED
  BY <1>1, WalletAlways, PTL

-----------------------------------------------------------------------------
(* Locators.                                                               *)

LEMMA BackRounds ==
  ASSUME NEW n \in Nat
  PROVE  /\ Back(n)[0] = [nBack |-> 0, nStep |-> 1]
         /\ \A k \in 1..n : Back(n)[k] = Further(k, Back(n)[k - 1])
<1>1. PICK e, a : e = [op |-> "Back"] /\ a = [nBack |-> 0, nStep |-> 1]
  OBVIOUS
<1>2. \A k, x : Round(e, k, x) = Further(k, x)
  BY <1>1 DEF Round
<1>3. \A f : Rounds(f, e, a, n) <=>
        f = [k \in 0..n |-> IF k = 0 THEN a ELSE Further(k, f[k - 1])]
  BY <1>2 DEF Rounds
<1>4. PICK f : f = CHOOSE g : g = [k \in 0..n |-> IF k = 0 THEN a ELSE Further(k, g[k - 1])]
  OBVIOUS
<1>5. Back(n) = f
  BY <1>1, <1>4 DEF Back
<1>6. Rounds(f, e, a, n)
  BY <1>3, <1>4, RoundsExist
<1>7. f[0] = a /\ \A k \in 1..n : f[k] = Round(e, k, f[k - 1])
  BY <1>6, RoundsAre
<1> QED
  BY <1>1, <1>2, <1>5, <1>7

LEMMA WalkRounds ==
  ASSUME NEW n \in Nat
  PROVE  /\ Walk(n)[0] = [nDistance |-> 0, nStep |-> 1]
         /\ \A k \in 1..n : Walk(n)[k] = PassOver(Walk(n)[k - 1])
<1>1. PICK e, a : e = [op |-> "Walk"] /\ a = [nDistance |-> 0, nStep |-> 1]
  OBVIOUS
<1>2. \A k, x : Round(e, k, x) = PassOver(x)
  BY <1>1 DEF Round
<1>3. \A f : Rounds(f, e, a, n) <=>
        f = [k \in 0..n |-> IF k = 0 THEN a ELSE PassOver(f[k - 1])]
  BY <1>2 DEF Rounds
<1>4. PICK f : f = CHOOSE g : g = [k \in 0..n |-> IF k = 0 THEN a ELSE PassOver(g[k - 1])]
  OBVIOUS
<1>5. Walk(n) = f
  BY <1>1, <1>4 DEF Walk
<1>6. Rounds(f, e, a, n)
  BY <1>3, <1>4, RoundsExist
<1>7. f[0] = a /\ \A k \in 1..n : f[k] = Round(e, k, f[k - 1])
  BY <1>6, RoundsAre
<1> QED
  BY <1>1, <1>2, <1>5, <1>7

\* What the loop of Set does to the two counters after k entries.
EntryIs(k, back, step) ==
  /\ back \in Nat /\ step \in Nat \ {0} /\ back >= k
  /\ k <= LocatorDense => back = k /\ step = 1
  /\ k > LocatorDense => back > LocatorDense /\ step = back - LocatorDense + 1

LEMMA NextEntry ==
  ASSUME NEW k \in Nat \ {0}, NEW back, NEW step, EntryIs(k - 1, back, step)
  PROVE  EntryIs(k, back + step, IF k > LocatorDense THEN 2 * step ELSE step)
<1>1. PICK d : d = LocatorDense /\ d \in Nat \ {0}
  BY LocatorAssumption
<1>2. /\ back \in Nat /\ step \in Nat \ {0} /\ back >= k - 1
      /\ k - 1 <= d => back = k - 1 /\ step = 1
      /\ k - 1 > d => back > d /\ step = back - d + 1
  BY <1>1 DEF EntryIs
<1>3. CASE k <= d
  BY <1>1, <1>2, <1>3 DEF EntryIs
<1>4. CASE k = d + 1
  BY <1>1, <1>2, <1>4 DEF EntryIs
<1>5. CASE k > d + 1
  BY <1>1, <1>2, <1>5 DEF EntryIs
<1> QED
  BY <1>1, <1>3, <1>4, <1>5

LEMMA BackIs ==
  ASSUME NEW n \in Nat, NEW k \in 0..n
  PROVE  EntryIs(k, Back(n)[k].nBack, Back(n)[k].nStep)
<1>1. PICK f : f = Back(n)
  OBVIOUS
<1>2. f[0].nBack = 0 /\ f[0].nStep = 1
  BY <1>1, BackRounds
<1>3. \A i \in 1..n :
        /\ f[i].nBack = f[i - 1].nBack + f[i - 1].nStep
        /\ f[i].nStep = IF i > LocatorDense THEN 2 * f[i - 1].nStep ELSE f[i - 1].nStep
  <2>1. \A i \in 1..n : f[i] = Further(i, f[i - 1])
    BY <1>1, BackRounds
  <2>2. \A i, e : /\ Further(i, e).nBack = e.nBack + e.nStep
                  /\ Further(i, e).nStep = IF i > LocatorDense THEN 2 * e.nStep ELSE e.nStep
    BY DEF Further
  <2> QED
    BY <2>1, <2>2
<1> DEFINE Fails == {i \in 0..n : ~EntryIs(i, f[i].nBack, f[i].nStep)}
<1> SUFFICES ASSUME Fails # {} PROVE FALSE
  BY <1>1
<1>4. PICK m \in Fails : \A i \in Fails : m <= i
  <2> Fails \subseteq Nat
    OBVIOUS
  <2> HIDE DEF Fails
  <2> QED
    BY LeastExists
<1>5. m # 0
  BY <1>2, <1>4, LocatorAssumption DEF EntryIs
<1>6. m \in 1..n /\ m - 1 \in 0..n /\ m - 1 < m /\ m \in Nat \ {0}
  BY <1>4, <1>5
<1>7. m - 1 \notin Fails
  BY <1>4, <1>6
<1>8. EntryIs(m - 1, f[m - 1].nBack, f[m - 1].nStep)
  BY <1>6, <1>7
<1>9. EntryIs(m, f[m].nBack, f[m].nStep)
  <2>1. EntryIs(m, f[m - 1].nBack + f[m - 1].nStep,
                IF m > LocatorDense THEN 2 * f[m - 1].nStep ELSE f[m - 1].nStep)
    BY <1>6, <1>8, NextEntry
  <2> QED
    BY <1>3, <1>6, <2>1
<1> QED
  BY <1>4, <1>9

\* GetDistanceBack counts as Set does.
LEMMA WalkIsBack ==
  ASSUME NEW n \in Nat, NEW l \in Nat, NEW k \in 0..n, k <= l
  PROVE  Walk(l)[k].nDistance = Back(n)[k].nBack /\ Walk(l)[k].nStep = Back(n)[k].nStep
<1>1. PICK f, w : f = Back(n) /\ w = Walk(l)
  OBVIOUS
<1>2. f[0].nBack = 0 /\ f[0].nStep = 1 /\ w[0].nDistance = 0 /\ w[0].nStep = 1
  BY <1>1, BackRounds, WalkRounds
<1>3. \A i \in 1..n :
        /\ f[i].nBack = f[i - 1].nBack + f[i - 1].nStep
        /\ f[i].nStep = IF i > LocatorDense THEN 2 * f[i - 1].nStep ELSE f[i - 1].nStep
  <2>1. \A i \in 1..n : f[i] = Further(i, f[i - 1])
    BY <1>1, BackRounds
  <2>2. \A i, e : /\ Further(i, e).nBack = e.nBack + e.nStep
                  /\ Further(i, e).nStep = IF i > LocatorDense THEN 2 * e.nStep ELSE e.nStep
    BY DEF Further
  <2> QED
    BY <2>1, <2>2
<1>4. \A i \in 1..l :
        /\ w[i].nDistance = w[i - 1].nDistance + w[i - 1].nStep
        /\ w[i].nStep = IF w[i - 1].nDistance + w[i - 1].nStep > LocatorDense
                        THEN 2 * w[i - 1].nStep ELSE w[i - 1].nStep
  <2>1. \A i \in 1..l : w[i] = PassOver(w[i - 1])
    BY <1>1, WalkRounds
  <2>2. \A e : /\ PassOver(e).nDistance = e.nDistance + e.nStep
               /\ PassOver(e).nStep = IF e.nDistance + e.nStep > LocatorDense
                                      THEN 2 * e.nStep ELSE e.nStep
    BY DEF PassOver
  <2> QED
    BY <2>1, <2>2
<1>5. \A i \in 0..n : EntryIs(i, f[i].nBack, f[i].nStep)
  BY <1>1, BackIs
<1> DEFINE Fails ==
      {i \in 0..n : i <= l /\ ~(w[i].nDistance = f[i].nBack /\ w[i].nStep = f[i].nStep)}
<1> SUFFICES ASSUME Fails # {} PROVE FALSE
  BY <1>1
<1>6. PICK m \in Fails : \A i \in Fails : m <= i
  <2> Fails \subseteq Nat
    OBVIOUS
  <2> HIDE DEF Fails
  <2> QED
    BY LeastExists
<1>7. m # 0
  BY <1>2, <1>6
<1>8. m \in 1..n /\ m \in 1..l /\ m - 1 \in 0..n /\ m - 1 <= l /\ m - 1 < m /\ m \in 0..n
  BY <1>6, <1>7
<1>9. m - 1 \notin Fails
  BY <1>6, <1>8
<1>10. w[m - 1].nDistance = f[m - 1].nBack /\ w[m - 1].nStep = f[m - 1].nStep
  BY <1>8, <1>9
<1>11. w[m].nDistance = f[m].nBack
  BY <1>3, <1>4, <1>8, <1>10
<1>12. f[m].nBack > LocatorDense <=> m > LocatorDense
  <2>1. PICK back, step : back = f[m].nBack /\ step = f[m].nStep
    OBVIOUS
  <2>2. EntryIs(m, back, step)
    BY <1>5, <1>8, <2>1
  <2>3. back > LocatorDense <=> m > LocatorDense
    BY <1>8, <2>2, LocatorAssumption DEF EntryIs
  <2> QED
    BY <2>1, <2>3
<1>13. w[m].nStep = f[m].nStep
  BY <1>3, <1>4, <1>8, <1>10, <1>12
<1> QED
  BY <1>6, <1>11, <1>13

\* A locator has m entries of a branch of length l, and the genesis block at the end.
LocatorIs(c, l, m) ==
  /\ Len(vHave(c)) = m + 1
  /\ DOMAIN vHave(c) = 1..m + 1
  /\ vHave(c)[m + 1] = Genesis
  /\ \A k \in 1..m : /\ Back(l)[k - 1].nBack \in 0..l - 1
                     /\ vHave(c)[k] = c[l - Back(l)[k - 1].nBack]
  /\ Back(l)[m].nBack >= l

LEMMA HaveIs ==
  ASSUME NEW b \in Block, NEW c, NEW l, c = ChainOf[b], l = Len(c)
  PROVE  \E m \in 1..l : LocatorIs(c, l, m)
<1>1. c \in Seq(Block) /\ l \in Nat \ {0} /\ c[1] = Genesis
  BY ChainFacts
<1>2. PICK f : f = Back(l)
  OBVIOUS
<1>3. \A k \in 0..l : EntryIs(k, f[k].nBack, f[k].nStep)
  BY <1>1, <1>2, BackIs
<1>4. \A k \in 0..l : f[k].nBack \in Nat /\ f[k].nBack >= k
  BY <1>3 DEF EntryIs
<1>5. \A k \in 1..l : f[k].nBack >= f[k - 1].nBack
  <2>1. \A k \in 1..l : f[k] = Further(k, f[k - 1])
    BY <1>1, <1>2, BackRounds
  <2>2. ASSUME NEW k \in 1..l PROVE f[k].nBack = f[k - 1].nBack + f[k - 1].nStep
    <3>1. \A i, e : Further(i, e).nBack = e.nBack + e.nStep
      BY DEF Further
    <3> QED
      BY <2>1, <3>1
  <2>3. ASSUME NEW k \in 1..l PROVE f[k].nBack >= f[k - 1].nBack
    <3>1. k - 1 \in 0..l
      BY <1>1
    <3>2. PICK back, step : back = f[k - 1].nBack /\ step = f[k - 1].nStep
      OBVIOUS
    <3>3. back \in Nat /\ step \in Nat
      BY <1>3, <3>1, <3>2 DEF EntryIs
    <3> QED
      BY <2>2, <3>2, <3>3
  <2> QED
    BY <2>3
<1> DEFINE Over == {k \in 0..l : f[k].nBack >= l}
<1>6. PICK m \in Over : \A k \in Over : m <= k
  <2>1. l \in Over
    BY <1>1, <1>4
  <2>2. Over \subseteq Nat
    BY <1>1
  <2> HIDE DEF Over
  <2> QED
    BY <2>1, <2>2, LeastExists
<1>7. f[0].nBack = 0
  BY <1>1, <1>2, BackRounds
<1>8. m \in 1..l /\ f[m].nBack >= l
  BY <1>1, <1>6, <1>7
<1>9. ASSUME NEW k \in 1..m PROVE f[k - 1].nBack \in 0..l - 1
  <2>1. k - 1 \in 0..l /\ k - 1 < m /\ ~(m <= k - 1)
    BY <1>1, <1>8
  <2>2. k - 1 \notin Over
    BY <1>6, <2>1
  <2>3. PICK back : back = f[k - 1].nBack
    OBVIOUS
  <2>4. back \in Nat /\ ~(back >= l)
    BY <1>4, <2>1, <2>2, <2>3
  <2> QED
    BY <1>1, <2>3, <2>4
<1>10. ASSUME NEW k \in m + 1..l PROVE ~(f[k - 1].nBack < l)
  <2> DEFINE Under == {i \in 0..l : i >= m /\ ~(f[i].nBack >= l)}
  <2>1. Under = {}
    <3> SUFFICES ASSUME Under # {} PROVE FALSE
      OBVIOUS
    <3>1. PICK i \in Under : \A j \in Under : i <= j
      <4> Under \subseteq Nat
        BY <1>1
      <4> HIDE DEF Under
      <4> QED
        BY LeastExists
    <3>2. i # m
      BY <1>8, <3>1
    <3>3. i \in 1..l /\ i - 1 \in 0..l /\ i - 1 >= m /\ i - 1 < i /\ i \in 0..l
      BY <1>1, <1>8, <3>1, <3>2
    <3>4. i - 1 \notin Under
      BY <3>1, <3>3
    <3>5. f[i - 1].nBack >= l
      BY <3>3, <3>4
    <3>6. PICK x, y : x = f[i].nBack /\ y = f[i - 1].nBack
      OBVIOUS
    <3>7. x \in Nat /\ y \in Nat /\ x >= y /\ y >= l /\ ~(x >= l)
      BY <1>4, <1>5, <3>1, <3>3, <3>5, <3>6
    <3> QED
      BY <1>1, <3>7
  <2>2. k - 1 \in 0..l /\ k - 1 >= m
    BY <1>1, <1>8
  <2>3. PICK x : x = f[k - 1].nBack
    OBVIOUS
  <2>4. x \in Nat /\ x >= l
    BY <1>4, <2>1, <2>2, <2>3
  <2> QED
    BY <1>1, <2>3, <2>4
<1>11. {k \in 1..l : f[k - 1].nBack < l} = 1..m
  <2>1. ASSUME NEW k \in 1..m PROVE f[k - 1].nBack < l
    BY <1>1, <1>9
  <2>2. ASSUME NEW k \in 1..l PROVE k \in 1..m \/ k \in m + 1..l
    BY <1>1, <1>8
  <2>3. 1..m \subseteq 1..l
    BY <1>1, <1>8
  <2> QED
    BY <1>10, <2>1, <2>2, <2>3
<1>12. PICK g : g = [k \in 1..m |-> c[l - f[k - 1].nBack]]
  OBVIOUS
<1>13. vHave(c) = Append(g, c[1])
  BY <1>2, <1>11, <1>12 DEF vHave
<1>14. g \in Seq(Block) /\ Len(g) = m
  <2>1. g = [k \in 1..m |-> g[k]]
    BY <1>12
  <2>2. Len(g) = m
    BY <1>8, <2>1, LenIs
  <2>3. \A k \in 1..m : g[k] \in Block
    <3>1. ASSUME NEW k \in 1..m PROVE g[k] \in Block
      <4>1. l - f[k - 1].nBack \in 1..l
        <5>1. PICK back : back = f[k - 1].nBack
          OBVIOUS
        <5>2. back \in 0..l - 1
          BY <1>9, <5>1
        <5> QED
          BY <1>1, <5>1, <5>2
      <4> QED
        BY <1>1, <1>12, <4>1
    <3> QED
      BY <3>1
  <2>4. g \in [1..m -> Block] /\ m \in Nat
    BY <1>1, <1>8, <2>1, <2>3
  <2> QED
    BY <2>2, <2>4
<1>15. PICK h : h = Append(g, Genesis)
  OBVIOUS
<1>16. /\ Len(h) = m + 1 /\ DOMAIN h = 1..m + 1 /\ h[m + 1] = Genesis
       /\ \A k \in 1..m : h[k] = g[k]
  BY <1>1, <1>8, <1>14, <1>15, BlockAssumption
<1>17. vHave(c) = h
  BY <1>1, <1>13, <1>15
<1>18. \A k \in 1..m : h[k] = c[l - f[k - 1].nBack]
  BY <1>12, <1>16
<1> QED
  BY <1>2, <1>8, <1>9, <1>16, <1>17, <1>18 DEF LocatorIs

LEMMA FirstInMainIs ==
  ASSUME QueriesInv, NEW b \in known
  PROVE  \E p \in 1..Len(vHave(ChainOf[b])) :
           /\ p = FirstInMain(vHave(ChainOf[b]), MainChain)
           /\ IsInMainChain(vHave(ChainOf[b])[p])
           /\ \A k \in 1..p - 1 : ~IsInMainChain(vHave(ChainOf[b])[k])
<1>1. b \in Block
  BY DEF QueriesInv
<1>2. PICK c, l, have : c = ChainOf[b] /\ l = Len(c) /\ have = vHave(c)
  OBVIOUS
<1>3. PICK m \in 1..l : Len(have) = m + 1 /\ DOMAIN have = 1..m + 1 /\ have[m + 1] = Genesis
  BY <1>1, <1>2, HaveIs DEF LocatorIs
<1> DEFINE S == {k \in DOMAIN have : \E i \in DOMAIN MainChain : MainChain[i] = have[k]}
<1>4. S = {k \in 1..m + 1 : IsInMainChain(have[k])}
  BY <1>3 DEF IsInMainChain
<1>5. l \in Nat
  BY <1>1, <1>2, ChainFacts
<1>6. m + 1 \in S /\ S \subseteq Nat
  <2>1. m \in Nat /\ m + 1 \in 1..m + 1 /\ 1..m + 1 \subseteq Nat
    BY <1>3, <1>5
  <2>2. IsInMainChain(have[m + 1])
    BY <1>3, EndsOnMainChain
  <2> QED
    BY <1>4, <2>1, <2>2, Zenon
<1>7. PICK p : p = FirstInMain(have, MainChain) /\ p = Min(S)
  BY DEF FirstInMain
<1>8. p \in S /\ \A k \in S : p <= k
  <2> HIDE DEF S
  <2> QED
    BY <1>6, <1>7, MinIs
<1>9. p \in 1..m + 1 /\ IsInMainChain(have[p])
  BY <1>4, <1>8
<1>10. ASSUME NEW k \in 1..p - 1 PROVE ~IsInMainChain(have[k])
  <2>1. k \in 1..m + 1 /\ ~(p <= k)
    BY <1>3, <1>5, <1>9
  <2> QED
    BY <1>4, <1>8, <2>1
<1> QED
  BY <1>2, <1>3, <1>7, <1>9, <1>10

\* The trunk, at height t, is the p-th of the entries, and the one before it is not
\* on the main chain.
TrunkAt(c, entries, p, m, t) ==
  LET l == Len(c)
      f == Back(l)
  IN /\ entries = m + 1
     /\ f[m].nBack >= l
     /\ p = m + 1 => t = 0
     /\ p # m + 1 => f[p - 1].nBack \in 0..l - 1 /\ t + 1 = l - f[p - 1].nBack
     /\ p > 1 => f[p - 2].nBack \in 0..l - 1 /\ ~IsInMainChain(c[l - f[p - 2].nBack])

\* The trunk is on both branches.
LEMMA TrunkIs ==
  ASSUME QueriesInv, NEW b \in known, NEW have, NEW p, NEW trunk,
         have = vHave(ChainOf[b]), p = FirstInMain(have, MainChain), trunk = have[p]
  PROVE  /\ trunk \in Block /\ IsInMainChain(trunk)
         /\ nHeight(trunk) + 1 \in 1..Len(ChainOf[b]) /\ nHeight(trunk) \in Nat
         /\ ChainOf[b][nHeight(trunk) + 1] = trunk
         /\ p \in 1..Len(have)
         /\ \E m \in 1..Len(ChainOf[b]) : TrunkAt(ChainOf[b], Len(have), p, m, nHeight(trunk))
<1>1. b \in Block
  BY DEF QueriesInv
<1>2. PICK c, l, f : c = ChainOf[b] /\ l = Len(c) /\ f = Back(l)
  OBVIOUS
<1>3. PICK m \in 1..l :
        /\ Len(have) = m + 1 /\ have[m + 1] = Genesis
        /\ \A k \in 1..m : f[k - 1].nBack \in 0..l - 1 /\ have[k] = c[l - f[k - 1].nBack]
        /\ f[m].nBack >= l
  <2>1. PICK m \in 1..l : LocatorIs(c, l, m)
    BY <1>1, <1>2, HaveIs
  <2>2. have = vHave(c) /\ f = Back(l)
    BY <1>2
  <2> QED
    BY <2>1, <2>2 DEF LocatorIs
<1>4. /\ p \in 1..Len(have) /\ IsInMainChain(trunk)
      /\ \A k \in 1..p - 1 : ~IsInMainChain(have[k])
  BY FirstInMainIs
<1>5. l \in Nat \ {0} /\ c \in Seq(Block) /\ c[1] = Genesis
  BY <1>1, <1>2, ChainFacts
<1>6. p \in 1..m + 1
  BY <1>3, <1>4
<1>7. PICK j : j = IF p = m + 1 THEN 1 ELSE l - f[p - 1].nBack
  OBVIOUS
<1>8. j \in 1..l /\ trunk = c[j]
  <2>1. CASE p = m + 1
    BY <1>3, <1>5, <1>7, <2>1
  <2>2. CASE p # m + 1
    <3>1. p \in 1..m
      BY <1>3, <1>5, <1>6, <2>2
    <3>2. PICK back : back = f[p - 1].nBack
      OBVIOUS
    <3>3. back \in 0..l - 1 /\ trunk = c[l - back]
      BY <1>3, <3>1, <3>2
    <3> QED
      BY <1>5, <1>7, <2>2, <3>2, <3>3
  <2> QED
    BY <2>1, <2>2
<1>9. trunk \in Block /\ nHeight(trunk) + 1 = j /\ nHeight(trunk) \in Nat
  <2>1. c[j] \in Block /\ Len(ChainOf[c[j]]) = j
    BY <1>1, <1>2, <1>8, PartLength
  <2>2. nHeight(trunk) = j - 1
    BY <1>8, <2>1 DEF nHeight
  <2> QED
    BY <1>5, <1>8, <2>1, <2>2
<1>10. ASSUME p = m + 1 PROVE nHeight(trunk) = 0
  BY <1>7, <1>9, <1>10
<1>11. ASSUME p # m + 1
       PROVE  f[p - 1].nBack \in 0..l - 1 /\ nHeight(trunk) + 1 = l - f[p - 1].nBack
  <2>1. p \in 1..m
    BY <1>3, <1>5, <1>6, <1>11
  <2> QED
    BY <1>3, <1>7, <1>9, <1>11, <2>1
<1>12. ASSUME p > 1
       PROVE  f[p - 2].nBack \in 0..l - 1 /\ ~IsInMainChain(c[l - f[p - 2].nBack])
  <2>1. PICK k : k = p - 1
    OBVIOUS
  <2>2. k \in 1..m /\ k \in 1..p - 1 /\ k - 1 = p - 2
    BY <1>3, <1>5, <1>6, <1>12, <2>1
  <2>3. f[k - 1].nBack \in 0..l - 1 /\ have[k] = c[l - f[k - 1].nBack]
    BY <1>3, <2>2
  <2>4. ~IsInMainChain(have[k])
    BY <1>4, <2>2
  <2> QED
    BY <2>2, <2>3, <2>4
<1>13. TrunkAt(c, Len(have), p, m, nHeight(trunk))
  BY <1>2, <1>3, <1>10, <1>11, <1>12 DEF TrunkAt
<1> QED
  BY <1>2, <1>4, <1>8, <1>9, <1>13

LEMMA MaxOfTwo ==
  ASSUME NEW a \in Int
  PROVE  Max({0, a}) = IF a <= 0 THEN 0 ELSE a
<1>1. \E x \in {0, a} : \A y \in {0, a} : x >= y
  OBVIOUS
<1>2. Max({0, a}) \in {0, a} /\ \A y \in {0, a} : Max({0, a}) >= y
  BY <1>1 DEF Max
<1>3. PICK x : x = Max({0, a})
  OBVIOUS
<1> QED
  BY <1>2, <1>3

LEMMA TrunkIsNear ==
  ASSUME QueriesInv, NEW b \in known, NEW trunk,
         trunk = GetBlockIndex(vHave(ChainOf[b]), MainChain)
  PROVE  LET fork == CommonLen(ChainOf[b], MainChain) - 1
             behind == nHeight(b) - fork
         IN /\ ChainOf[b][nHeight(trunk) + 1] = trunk
            /\ nHeight(trunk) <= fork
            /\ fork - nHeight(trunk) <= Max({0, behind - LocatorDense - 1})
<1>1. b \in Block /\ best \in Block
  BY DEF QueriesInv
<1>2. PICK c, l, f, main, d, n :
        /\ c = ChainOf[b] /\ l = Len(c) /\ f = Back(l) /\ main = MainChain
        /\ d = LocatorDense /\ n = CommonLen(c, main)
  OBVIOUS
<1>3. PICK have, p : have = vHave(c) /\ p = FirstInMain(have, main)
  OBVIOUS
<1>4. trunk = have[p]
  BY <1>2, <1>3 DEF GetBlockIndex
<1>5. PICK t : t = nHeight(trunk)
  OBVIOUS
<1>6. /\ trunk \in Block /\ IsInMainChain(trunk)
      /\ t + 1 \in 1..l /\ t \in Nat /\ c[t + 1] = trunk
      /\ p \in 1..Len(have)
  BY <1>2, <1>3, <1>4, <1>5, TrunkIs
<1>7. PICK m \in 1..l :
        /\ Len(have) = m + 1
        /\ f[m].nBack >= l
        /\ p = m + 1 => t = 0
        /\ p # m + 1 => f[p - 1].nBack \in 0..l - 1 /\ t + 1 = l - f[p - 1].nBack
        /\ p > 1 => f[p - 2].nBack \in 0..l - 1 /\ ~IsInMainChain(c[l - f[p - 2].nBack])
  <2>1. PICK m \in 1..l : TrunkAt(c, Len(have), p, m, t)
    BY <1>2, <1>3, <1>4, <1>5, TrunkIs
  <2> QED
    BY <1>2, <2>1 DEF TrunkAt
<1>8. l \in Nat \ {0} /\ Len(main) \in Nat \ {0} /\ d \in Nat \ {0} /\ nHeight(b) = l - 1
      /\ main = ChainOf[best]
  BY <1>1, <1>2, ChainFacts, LocatorAssumption DEF nHeight, MainChain
<1>9. /\ n \in 1..l /\ n \in 1..Len(main) /\ \A i \in 1..n : c[i] = main[i]
      /\ \A i \in 1..l : i <= Len(main) /\ c[i] = main[i] => i <= n
  BY <1>1, <1>2, <1>8, ForkFacts
<1>10. t + 1 <= n
  <2>1. nHeight(trunk) \in 0..nHeight(best) /\ trunk = MainChain[nHeight(trunk) + 1]
    BY <1>6, PlaceOnMainChain
  <2>2. nHeight(best) = Len(main) - 1
    BY <1>8 DEF nHeight
  <2>3. t + 1 <= Len(main) /\ main[t + 1] = trunk
    BY <1>2, <1>5, <1>8, <2>1, <2>2
  <2> QED
    BY <1>6, <1>9, <2>3
<1>11. PICK behind : behind = l - n
  OBVIOUS
<1>12. \A k \in 0..l : EntryIs(k, f[k].nBack, f[k].nStep)
  BY <1>2, <1>8, BackIs
<1>13. n - 1 - t <= 0 \/ n - 1 - t <= behind - d - 1
  <2>1. CASE p = 1
    <3>1. f[0].nBack = 0
      BY <1>2, <1>8, BackRounds
    <3>2. p # m + 1 /\ p - 1 = 0
      BY <1>7, <1>8, <2>1
    <3>3. t + 1 = l
      BY <1>7, <1>8, <3>1, <3>2
    <3> QED
      BY <1>6, <1>8, <1>9, <3>3
  <2>2. CASE p # 1
    <3>1. p \in 2..m + 1 /\ p > 1 /\ m \in Nat
      BY <1>6, <1>7, <1>8, <2>2
    <3>2. PICK k, back, step, next :
            k = p - 2 /\ back = f[k].nBack /\ step = f[k].nStep /\ next = f[k + 1].nBack
      OBVIOUS
    <3>3. k \in 0..l /\ k + 1 \in 1..l /\ k + 1 = p - 1 /\ (k + 1) - 1 = k
      BY <1>7, <1>8, <3>1, <3>2
    <3>4. back \in 0..l - 1 /\ ~IsInMainChain(c[l - back])
      BY <1>7, <3>1, <3>2
    <3>5. back < behind
      <4>1. \A i \in 1..n : IsInMainChain(c[i])
        BY <1>2, <1>8, <1>9, EndsOnMainChain DEF IsInMainChain
      <4>2. ~(l - back \in 1..n)
        BY <3>4, <4>1
      <4>3. l - back \in 1..l
        BY <1>8, <3>4
      <4> QED
        BY <1>8, <1>9, <1>11, <3>4, <4>2, <4>3
    <3>6. next = back + step
      <4>1. f[k + 1] = Further(k + 1, f[k])
        BY <1>2, <1>8, <3>3, BackRounds
      <4>2. Further(k + 1, f[k]).nBack = f[k].nBack + f[k].nStep
        BY DEF Further
      <4> QED
        BY <3>2, <4>1, <4>2
    <3>7. EntryIs(k, back, step)
      BY <1>12, <3>2, <3>3
    <3>8. step = 1 \/ step = back - d + 1
      BY <1>2, <3>3, <3>7, <1>8 DEF EntryIs
    <3>9. step \in Nat /\ back \in Nat
      BY <3>7 DEF EntryIs
    <3>10. t + 1 >= l - next
      <4>1. CASE p = m + 1
        <5>1. k + 1 = m
          BY <3>1, <3>2, <4>1
        <5>2. next >= l
          BY <1>7, <3>2, <5>1
        <5> QED
          BY <1>6, <1>8, <3>6, <3>9, <5>2
      <4>2. CASE p # m + 1
        <5>1. t + 1 = l - next
          BY <1>7, <3>2, <3>3, <4>2
        <5> QED
          BY <1>6, <1>8, <3>6, <3>9, <5>1
      <4> QED
        BY <4>1, <4>2
    <3> QED
      BY <1>6, <1>8, <1>9, <1>11, <3>5, <3>6, <3>8, <3>9, <3>10
  <2> QED
    BY <2>1, <2>2
<1>14. PICK x : x = Max({0, behind - d - 1})
  OBVIOUS
<1>15. n - 1 - t <= x
  <2>1. behind - d - 1 \in Int /\ n - 1 - t \in Int
    BY <1>6, <1>8, <1>9, <1>11
  <2>2. x = IF behind - d - 1 <= 0 THEN 0 ELSE behind - d - 1
    BY <1>14, <2>1, MaxOfTwo
  <2> QED
    BY <1>13, <2>1, <2>2
<1>16. nHeight(b) - (n - 1) = behind
  BY <1>8, <1>9, <1>11
<1>17. t <= n - 1
  BY <1>6, <1>8, <1>9, <1>10
<1>18. (n - 1) - t <= Max({0, (nHeight(b) - (n - 1)) - d - 1})
  BY <1>14, <1>15, <1>16
<1> QED
  BY <1>2, <1>5, <1>6, <1>17, <1>18, Zenon

(* The block found for another node's locator is on that node's branch and *)
(* on the best chain, and not much further before the fork than the fork   *)
(* is behind the other node's tip, for every spacing of the entries.       *)
THEOREM TrunkAlwaysFound == QueriesSpec => []LocatorFindsTrunk
<1>1. QueriesInv => LocatorFindsTrunk
  BY TrunkIsNear DEF LocatorFindsTrunk
<1> QED
  BY <1>1, QueriesAlways, PTL

LEMMA DistanceIs ==
  ASSUME QueriesInv, NEW b \in known, NEW have, have = vHave(ChainOf[b]),
         NEW p, p = FirstInMain(have, MainChain),
         NEW trunk, trunk = GetBlockIndex(have, MainChain),
         NEW dist, dist = GetDistanceBack(have, MainChain)
  PROVE  IF p = Len(have) THEN dist > nHeight(b) ELSE dist = nHeight(b) - nHeight(trunk)
<1>1. b \in Block
  BY DEF QueriesInv
<1>2. PICK c, l, f, t, w :
        c = ChainOf[b] /\ l = Len(c) /\ f = Back(l) /\ t = nHeight(trunk) /\ w = Walk(Len(have))
  OBVIOUS
<1>3. trunk = have[p] /\ dist = w[p - 1].nDistance
  BY <1>2 DEF GetBlockIndex, GetDistanceBack
<1>4. p \in 1..Len(have) /\ t \in Nat
  BY <1>2, <1>3, TrunkIs
<1>5. PICK m \in 1..l :
        /\ Len(have) = m + 1
        /\ f[m].nBack >= l
        /\ p # m + 1 => f[p - 1].nBack \in 0..l - 1 /\ t + 1 = l - f[p - 1].nBack
  <2>1. PICK m \in 1..l : TrunkAt(c, Len(have), p, m, t)
    BY <1>2, <1>3, TrunkIs
  <2> QED
    BY <1>2, <2>1 DEF TrunkAt
<1>6. l \in Nat \ {0} /\ nHeight(b) = l - 1
  BY <1>1, <1>2, ChainFacts DEF nHeight
<1>7. PICK k, back : k = p - 1 /\ back = f[k].nBack
  OBVIOUS
<1>8. k \in 0..m /\ k \in 0..l /\ k <= m + 1 /\ m + 1 \in Nat
  BY <1>4, <1>5, <1>6, <1>7
<1>9. dist = back
  <2>1. Walk(m + 1)[k].nDistance = Back(l)[k].nBack
    BY <1>6, <1>8, WalkIsBack
  <2> QED
    BY <1>2, <1>3, <1>5, <1>7, <2>1
<1>10. back \in Nat
  <2>1. EntryIs(k, Back(l)[k].nBack, Back(l)[k].nStep)
    BY <1>6, <1>8, BackIs
  <2> QED
    BY <1>2, <1>7, <2>1 DEF EntryIs
<1>11. CASE p = m + 1
  <2>1. k = m
    BY <1>5, <1>6, <1>7, <1>11
  <2>2. back >= l
    BY <1>5, <1>7, <2>1
  <2>3. dist > nHeight(b)
    BY <1>6, <1>9, <1>10, <2>2
  <2> QED
    BY <1>5, <1>11, <2>3
<1>12. CASE p # m + 1
  <2>1. back \in 0..l - 1 /\ t + 1 = l - back
    BY <1>5, <1>7, <1>12
  <2>2. dist = nHeight(b) - t
    BY <1>4, <1>6, <1>9, <1>10, <2>1
  <2> QED
    BY <1>2, <1>5, <1>12, <2>2
<1> QED
  BY <1>11, <1>12

(* The steps that GetDistanceBack counts again are the ones Set took, so   *)
(* that the distance is right wherever the trunk is, but for the genesis   *)
(* block at the end, for which it is too long.                             *)
THEOREM DistanceIsTrue == QueriesSpec => []DistanceBackIsTrue
<1>1. QueriesInv => DistanceBackIsTrue
  BY DistanceIs DEF DistanceBackIsTrue
<1> QED
  BY <1>1, QueriesAlways, PTL

\* n of the r headers from, which continue a chain above its t + 1 first blocks.
FollowOn(s, main, t, r, from, n) ==
  /\ Len(s) = n /\ s # <<>>
  /\ hashPrevBlock[s[1]] = main[t + 1]
  /\ \A i \in 2..n : hashPrevBlock[s[i]] = s[i - 1]
  /\ s[n] = from[n]
  /\ n = r => s[n] = main[Len(main)]

LEMMA PieceLinks ==
  ASSUME NEW main \in Seq(Block), NEW t \in Nat, NEW r \in Nat, Len(main) = t + 1 + r,
         \A i \in 2..Len(main) : hashPrevBlock[main[i]] = main[i - 1],
         NEW from, from = SubSeq(main, t + 2, Len(main)),
         NEW n \in 1..r, NEW s, s = SubSeq(from, 1, n)
  PROVE  FollowOn(s, main, t, r, from, n)
<1>1. from \in Seq(Block) /\ Len(from) = r /\ \A i \in 1..r : from[i] = main[t + 1 + i]
  OBVIOUS
<1>2. Len(s) = n /\ \A i \in 1..n : s[i] = from[i]
  BY <1>1
<1>3. \A i \in 1..n : s[i] = main[t + 1 + i]
  BY <1>1, <1>2
<1>4. s # <<>>
  <2>1. Len(s) # 0
    BY <1>2
  <2> QED
    BY <2>1
<1>5. hashPrevBlock[s[1]] = main[t + 1]
  <2>1. PICK j : j = t + 1 + 1
    OBVIOUS
  <2>2. j \in 2..Len(main) /\ j - 1 = t + 1 /\ s[1] = main[j]
    BY <1>3, <2>1
  <2>3. hashPrevBlock[main[j]] = main[j - 1]
    BY <2>2
  <2> QED
    BY <2>2, <2>3
<1>6. ASSUME NEW i \in 2..n PROVE hashPrevBlock[s[i]] = s[i - 1]
  <2>1. PICK j, k : j = t + 1 + i /\ k = i - 1
    OBVIOUS
  <2>2. j \in 2..Len(main) /\ k \in 1..n /\ i \in 1..n /\ t + 1 + k = j - 1
    BY <2>1
  <2>3. s[k] = main[j - 1] /\ s[i] = main[j]
    BY <1>3, <2>1, <2>2
  <2>4. hashPrevBlock[main[j]] = main[j - 1]
    BY <2>2
  <2> QED
    BY <2>1, <2>2, <2>3, <2>4
<1>7. n \in 1..n /\ (n = r => t + 1 + n = Len(main))
  OBVIOUS
<1>8. s[n] = from[n]
  BY <1>2, <1>7
<1>9. ASSUME n = r PROVE s[n] = main[Len(main)]
  BY <1>3, <1>7, <1>9
<1> QED
  BY <1>2, <1>4, <1>5, <1>6, <1>8, <1>9 DEF FollowOn

LEMMA HeadersAre ==
  ASSUME QueriesInv, NEW b \in known, NEW stop, NEW have, have = vHave(ChainOf[b]),
         NEW headers, headers = GetHeaders(have, stop)
  PROVE  IF headers = <<>> THEN GetBlockIndex(have, MainChain) = best
         ELSE /\ hashPrevBlock[headers[1]] \in ToSet(ChainOf[b])
              /\ \A i \in 2..Len(headers) : hashPrevBlock[headers[i]] = headers[i - 1]
              /\ headers[Len(headers)] \in {stop, best} \/ Len(headers) = HeaderLimit
              /\ Len(headers) <= HeaderLimit
<1>1. b \in Block /\ best \in Block
  BY DEF QueriesInv
<1>2. PICK c, main, p, trunk, t, lim :
        /\ c = ChainOf[b] /\ main = MainChain /\ p = FirstInMain(have, main)
        /\ trunk = have[p] /\ t = nHeight(trunk) /\ lim = HeaderLimit
  OBVIOUS
<1>3. PICK l : l = Len(main)
  OBVIOUS
<1>4. /\ main \in Seq(Block) /\ l \in Nat \ {0} /\ main[l] = best
      /\ \A i \in 2..l : main[i] \in Block \ {Genesis} /\ hashPrevBlock[main[i]] = main[i - 1]
      /\ lim \in Nat \ {0}
  BY <1>1, <1>2, <1>3, ChainFacts, QueriesAssumption DEF MainChain
<1>5. /\ IsInMainChain(trunk) /\ t \in Nat /\ c[t + 1] = trunk /\ t + 1 \in 1..Len(c)
      /\ p \in 1..Len(have) /\ \E m \in 1..Len(c) : Len(have) = m + 1
  <2>1. /\ IsInMainChain(trunk) /\ t \in Nat /\ c[t + 1] = trunk /\ t + 1 \in 1..Len(c)
        /\ p \in 1..Len(have)
    BY <1>2, TrunkIs
  <2>2. \E m \in 1..Len(c) : TrunkAt(c, Len(have), p, m, t)
    BY <1>2, TrunkIs
  <2> QED
    BY <2>1, <2>2 DEF TrunkAt
<1>6. t + 1 <= l /\ main[t + 1] = trunk /\ trunk \in ToSet(c)
  <2>1. nHeight(trunk) \in 0..nHeight(best) /\ trunk = MainChain[nHeight(trunk) + 1]
    BY <1>5, PlaceOnMainChain
  <2>2. nHeight(best) = l - 1
    BY <1>2, <1>3 DEF nHeight, MainChain
  <2>3. c \in Seq(Block)
    BY <1>1, <1>2, ChainFacts
  <2>4. ToSet(c) = {c[i] : i \in 1..Len(c)}
    BY <2>3, ToSetIs
  <2> QED
    BY <1>2, <1>4, <1>5, <2>1, <2>2, <2>4
<1>7. PICK r, from : r = l - (t + 1) /\ from = SubSeq(main, t + 2, l)
  OBVIOUS
<1>8. r \in Nat /\ l = t + 1 + r
  BY <1>4, <1>5, <1>6, <1>7
<1>9. from \in Seq(Block) /\ Len(from) = r /\ DOMAIN from = 1..r
  <2>1. from = SubSeq(main, t + 2, Len(main)) /\ Len(main) = t + 1 + r
    BY <1>3, <1>7, <1>8
  <2>2. main \in Seq(Block) /\ t \in Nat /\ r \in Nat
    BY <1>4, <1>5, <1>8
  <2>3. from \in Seq(Block) /\ Len(from) = r
    BY <2>1, <2>2
  <2> QED
    BY <2>2, <2>3
<1>10. have # <<>>
  <2>1. Len(have) # 0
    BY <1>5
  <2> QED
    BY <2>1
<1> DEFINE Ends == {i \in DOMAIN from : i = lim \/ from[i] = stop}
<1>11. headers = IF Ends = {} THEN from ELSE SubSeq(from, 1, Min(Ends))
  BY <1>2, <1>3, <1>7, <1>10 DEF GetHeaders
<1>12. PICK n \in 0..r : /\ headers = SubSeq(from, 1, n)
                         /\ n <= lim /\ (n = 0 => r = 0)
                         /\ n = r \/ n = lim \/ from[n] = stop
  <2>1. CASE Ends = {}
    <3>1. ~(lim \in 1..r)
      BY <1>9, <2>1
    <3>2. r <= lim /\ r \in 0..r
      BY <1>4, <1>8, <3>1
    <3>3. headers = SubSeq(from, 1, r)
      <4>1. from = SubSeq(from, 1, r)
        BY <1>8, <1>9
      <4>2. headers = from
        BY <1>11, <2>1
      <4> QED
        BY <4>1, <4>2
    <3> HIDE DEF Ends
    <3> QED
      BY <3>2, <3>3
  <2>2. CASE Ends # {}
    <3>1. PICK n : n = Min(Ends)
      OBVIOUS
    <3>2. Ends \subseteq Nat
      BY <1>9
    <3>3. n \in Ends /\ \A i \in Ends : n <= i
      <4> HIDE DEF Ends
      <4> QED
        BY <2>2, <3>1, <3>2, MinIs
    <3>4. n \in 1..r /\ (n = lim \/ from[n] = stop)
      BY <1>9, <3>3
    <3>5. n <= lim
      <4>1. lim \in 1..r => lim \in Ends
        BY <1>9
      <4>2. lim \in 1..r => n <= lim
        BY <3>3, <4>1
      <4> QED
        BY <1>4, <1>8, <3>4, <4>2
    <3>6. headers = SubSeq(from, 1, n)
      BY <1>11, <2>2, <3>1
    <3>7. n \in 0..r /\ n # 0
      BY <1>8, <3>4
    <3> HIDE DEF Ends
    <3> QED
      BY <3>4, <3>5, <3>6, <3>7
  <2> QED
    BY <2>1, <2>2
<1>13. CASE n = 0
  <2>1. headers = <<>>
    BY <1>9, <1>12, <1>13
  <2>2. t + 1 = l
    BY <1>5, <1>8, <1>12, <1>13
  <2>3. trunk = best
    BY <1>4, <1>6, <2>2
  <2> QED
    BY <1>2, <2>1, <2>3 DEF GetBlockIndex
<1>14. CASE n # 0
  <2>1. n \in 1..r
    BY <1>8, <1>12, <1>14
  <2>2. /\ main \in Seq(Block) /\ t \in Nat /\ r \in Nat /\ Len(main) = t + 1 + r
        /\ from = SubSeq(main, t + 2, Len(main)) /\ headers = SubSeq(from, 1, n)
    BY <1>3, <1>4, <1>5, <1>7, <1>8, <1>12
  <2>3. \A i \in 2..Len(main) : hashPrevBlock[main[i]] = main[i - 1]
    BY <1>3, <1>4
  <2>4. FollowOn(headers, main, t, r, from, n)
    BY <2>1, <2>2, <2>3, PieceLinks
  <2>5. headers[n] \in {stop, best} \/ n = lim
    BY <1>3, <1>4, <1>12, <2>4 DEF FollowOn
  <2>6. hashPrevBlock[headers[1]] \in ToSet(c)
    BY <1>6, <2>4 DEF FollowOn
  <2> HIDE DEF Ends
  <2> QED
    BY <1>2, <1>12, <2>4, <2>5, <2>6 DEF FollowOn
<1> QED
  BY <1>13, <1>14

(* The headers answered to a node on any branch are a piece of the best    *)
(* chain that continues that branch, and stop where they should.           *)
THEOREM HeadersAlwaysLink == QueriesSpec => []HeadersLinkUp
<1>1. QueriesInv => HeadersLinkUp
  BY HeadersAre DEF HeadersLinkUp
<1> QED
  BY <1>1, QueriesAlways, PTL

=============================================================================

