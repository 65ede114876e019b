------------------------------ MODULE BlockTree ------------------------------
(***************************************************************************)
(* The tree of all blocks that the nodes of a network come to know.  Every *)
(* block has the same work, so that the branch with the most work is the   *)
(* longest one.                                                            *)
(***************************************************************************)
EXTENDS Integers, Sequences, FiniteSetsExt

CONSTANTS
  Block, Null,
  hashGenesisBlock,
  hashPrevBlock      \* the parent of every block but the genesis block

ASSUME TreeAssumption ==
  /\ hashGenesisBlock \in Block
  /\ Null \notin Block
  /\ \A b \in Block \ {hashGenesisBlock} : hashPrevBlock[b] \in Block

\* The blocks from the genesis block to b, following pprev.
Branch[b \in Block] ==
  IF b = hashGenesisBlock THEN <<b>> ELSE Append(Branch[hashPrevBlock[b]], b)

nHeight(b) == Len(Branch[b]) - 1

Ancestors(b) == {Branch[b][i] : i \in DOMAIN Branch[b]}

\* The blocks of a set all of whose ancestors are in it too.
Rooted(S) == {b \in S : Ancestors(b) \subseteq S}

\* Following pprev from any block one gets to the genesis block.
ASSUME AncestorAssumption ==
  /\ \A b \in Block :
       Branch[b] \in Seq(Block) /\ Branch[b] # <<>> /\ Branch[b][1] = hashGenesisBlock
  /\ \A b \in Block : {b, hashGenesisBlock} \subseteq Ancestors(b)
  /\ \A b \in Block \ {hashGenesisBlock} :
       /\ Ancestors(b) = {b} \cup Ancestors(hashPrevBlock[b])
       /\ b \notin Ancestors(hashPrevBlock[b])
  /\ \A b \in Block : \A c \in Ancestors(b) :
       Ancestors(c) \subseteq Ancestors(b) /\ nHeight(c) <= nHeight(b)

=============================================================================
