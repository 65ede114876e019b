--------------------------- MODULE MCChainQueries ---------------------------
(***************************************************************************)
(* ChainQueries on the block tree of MCTree with two blocks more.  F3, on  *)
(* A2, took twice the work and holds five transactions, the last of them   *)
(* u, which E3 holds as well; Y4, on F3, spends again what p spent and is  *)
(* invalid.                                                                *)
(***************************************************************************)
EXTENDS ChainQueries, MCTree, TLC

MCQBlock == (MCFork \ {"A3"}) \cup {"B5", "B6", "E2", "E3", "E4", "F3", "Y4"}

MCQParent == MCParent @@ [F3 |-> "A2", Y4 |-> "F3"]

MCQVtx ==
  MCVtx @@ [F3 |-> <<"cF3", "p", "f", "g", "u">>, Y4 |-> <<"cY4", "q">>]

MCQTx == MCTx \cup {"cF3", "cY4", "f", "g"}

MCQVin ==
  MCVin @@ [f |-> {[hash |-> "p", n |-> 2]}, g |-> {[hash |-> "f", n |-> 1]},
            cF3 |-> {}, cY4 |-> {}]

MCQVout == MCVout @@ [f |-> <<1>>, g |-> <<1>>, cF3 |-> <<2>>, cY4 |-> <<2>>]

MCQWork == MCWork @@ [F3 |-> 2, Y4 |-> 1]

MCQChainWork == MCChainWork @@ [F3 |-> 5, Y4 |-> 6]

=============================================================================
