--------------------------- MODULE ChainSelection ---------------------------
(***************************************************************************)
(* What the block chain of a node promises, whatever databases, orphans    *)
(* and reorganizations it takes: the node learns of blocks, each after its *)
(* parent, and its best block is the tip of a valid chain that it changes  *)
(* only for a valid chain with more work.                                  *)
(***************************************************************************)
EXTENDS ChainRules

CONSTANT ChainWork      \* the work of the branch that ends in a block

ASSUME ChainWorkAssumption == \A b \in Block : ChainWork[b] \in Nat

\* The genesis block is hard-coded; LoadBlockIndex asserts that it is as expected.
ASSUME GenesisAssumption == ValidChain[Genesis]

VARIABLES known, best

selectionVars == <<known, best>>

SelectionInit == known = {Genesis} /\ best = Genesis

Learn(b) ==
  /\ b \notin known
  /\ hashPrevBlock[b] \in known
  /\ known' = known \cup {b}
  /\ best' = IF ValidChain[b] /\ ChainWork[b] > ChainWork[best] THEN b ELSE best

SelectionNext == \E b \in Block \ {Genesis} : Learn(b)

SelectionSpec == SelectionInit /\ [][SelectionNext]_selectionVars

(* The best block ends the valid chain with the most work among the blocks *)
(* the node knows.                                                         *)
BestIsHeaviest ==
  /\ best \in known
  /\ ValidChain[best]
  /\ \A b \in known : ValidChain[b] => ChainWork[b] <= ChainWork[best]

=============================================================================
