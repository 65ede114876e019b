----------------------------- MODULE MerkleTree -----------------------------
(***************************************************************************)
(* The merkle tree of a block's transactions and the branches that prove   *)
(* that a transaction is in it (CBlock of main.h).  Hash has no            *)
(* collisions: the hash of a transaction t is <<t>>, that of two hashes is *)
(* their pair.                                                             *)
(***************************************************************************)
EXTENDS Integers, Sequences, FiniteSetsExt

LOCAL Leaves(txs) == [i \in DOMAIN txs |-> <<txs[i]>>]

MutantLastAlone(level, i) == level[IF 2 * i <= Len(level) THEN 2 * i ELSE 1]

\* The right-hand child of the i-th node above a level; the last node of a level of
\* odd size is its own sibling.
RightChild(level, i) == level[Min({2 * i, Len(level)})]

Above(level) ==
  [i \in 1..(Len(level) + 1) \div 2 |-> <<level[2 * i - 1], RightChild(level, i)>>]

\* nSize, after k rounds of the loops over the levels of n leaves.
nSize(n) == LET Size[k \in 0..n] == IF k = 0 THEN n ELSE (Size[k - 1] + 1) \div 2 IN Size

\* How many levels are above n leaves: the loops end at the size 1.
Depth(n) == Min({k \in 0..n : nSize(n)[k] <= 1})

\* vMerkleTree, by level.
BuildMerkleTree(txs) ==
  LET Level[k \in 0..Depth(Len(txs))] == IF k = 0 THEN Leaves(txs) ELSE Above(Level[k - 1])
  IN Level

hashMerkleRoot(txs) == BuildMerkleTree(txs)[Depth(Len(txs))][1]

\* nIndex, shifted to the right up to n times.
Shifted(nIndex, n) ==
  LET Place[k \in 0..n] == IF k = 0 THEN nIndex ELSE Place[k - 1] \div 2 IN Place

\* i with its lowest bit flipped.
Flipped(i) == IF i % 2 = 0 THEN i + 1 ELSE i - 1

\* The siblings on the way from the transaction at nIndex, which counts from 0, to
\* the root.
GetMerkleBranch(txs, nIndex) ==
  LET depth == Depth(Len(txs)) IN
  [k \in 1..depth |->
     LET level == BuildMerkleTree(txs)[k - 1]
     IN level[Min({Flipped(Shifted(nIndex, depth)[k - 1]), Len(level) - 1}) + 1]]

\* The root that a transaction hash, a branch and an index lead to.
CheckMerkleBranch(hash, branch, nIndex) ==
  LET Up[k \in 0..Len(branch)] ==
        IF k = 0 THEN hash
        ELSE IF Shifted(nIndex, Len(branch))[k - 1] % 2 = 1 THEN <<branch[k], Up[k - 1]>>
        ELSE <<Up[k - 1], branch[k]>>
  IN Up[Len(branch)]

=============================================================================
