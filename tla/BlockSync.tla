------------------------------ MODULE BlockSync ------------------------------
(***************************************************************************)
(* What block download promises, whatever messages it takes: a node gets   *)
(* its blocks from another one that has them, one at a time and in any     *)
(* order, and stays on the longest branch it has whole.                    *)
(***************************************************************************)
EXTENDS BlockTree

CONSTANT Node

VARIABLES
  blocks,       \* the blocks a node holds
  best          \* the tip of its main chain

syncVars == <<blocks, best>>

SyncInit ==
  \E tip \in [Node -> Block] :
    /\ best = tip
    /\ blocks = [n \in Node |-> Ancestors(tip[n])]

\* The tips a node may be on after it got block b: the one before unless there is
\* a longer branch.
BestOf(n, b) ==
  LET rooted == Rooted(blocks[n] \cup {b})
  IN IF \A c \in rooted : nHeight(c) <= nHeight(best[n]) THEN {best[n]}
     ELSE {c \in rooted : \A d \in rooted : nHeight(d) <= nHeight(c)}

Obtain(n, b) ==
  /\ b \notin blocks[n]
  /\ blocks' = [blocks EXCEPT ![n] = @ \cup {b}]
  /\ \E tip \in BestOf(n, b) : best' = [best EXCEPT ![n] = tip]

Copy(n) == \E m \in Node \ {n} : \E b \in blocks[m] : Obtain(n, b)

Mine(n) ==
  \E b \in Block \ {hashGenesisBlock} :
    /\ hashPrevBlock[b] = best[n]
    /\ \A m \in Node : b \notin blocks[m]
    /\ Obtain(n, b)

SyncNext == \E n \in Node : Copy(n) \/ Mine(n)

SyncSpec == SyncInit /\ [][SyncNext]_syncVars

(* The nodes end on branches of the same length once no more blocks are    *)
(* mined.                                                                  *)
EventuallyInSync == <>[](\A n, m \in Node : nHeight(best[n]) = nHeight(best[m]))

=============================================================================
