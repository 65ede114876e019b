------------------------------- MODULE MCTree -------------------------------
(***************************************************************************)
(* A block tree, of which every configuration takes a part.  Two branches  *)
(* fork at A1; q of the longer one spends the same coinbase as p of the    *)
(* shorter one.  X4, X5, Z4, W4 and V4 are invalid: two double spends, a   *)
(* coinbase spent too early, a coinbase that takes too much, a bad         *)
(* signature.  D3 comes with the coinbase of A1 again, once E2 has spent   *)
(* it.  The blocks on A2 in the last line are for the miner: M3, N4 and K4 *)
(* can be mined, H4 is K4 with the height of another block in its coinbase.*)
(*                                                                         *)
(*    G - A1 - A2 - A3(p) - X4(q) - Y5                                     *)
(*         | \                                                             *)
(*         |  B2 - B3(q) - B4(r,w) - B5 - B6                               *)
(*         |            |         \                                        *)
(*         |             Z4(s),    X5(p)                                   *)
(*         |             W4, V4(v)                                         *)
(*          E2(p) - E3(u) - E4                                             *)
(*               \                                                         *)
(*                D3                                                       *)
(*    A2 - M3(p),  A2 - C3 - N4(q), K4, H4                                 *)
(*                                                                         *)
(* Loose transactions only: x, y and z, which spend outputs of w and r, of *)
(* w and q, and of p and q.                                                *)
(***************************************************************************)
EXTENDS Integers, Sequences

MCParent ==
  [A1 |-> "G", A2 |-> "A1", A3 |-> "A2", X4 |-> "A3", Y5 |-> "X4",
   B2 |-> "A1", B3 |-> "B2", B4 |-> "B3", Z4 |-> "B3", W4 |-> "B3", V4 |-> "B3",
   B5 |-> "B4", X5 |-> "B4", E2 |-> "A1", D3 |-> "E2",
   E3 |-> "E2", E4 |-> "E3", B6 |-> "B5",
   M3 |-> "A2", C3 |-> "A2", N4 |-> "C3", K4 |-> "C3", H4 |-> "C3"]

MCFork == {"G", "A1", "A2", "A3", "B2", "B3", "B4"}
MCRules == MCFork \cup {"X4", "Y5", "Z4", "W4", "V4"}
MCPostponed == MCFork \cup {"X5"}
MCFaulty == MCFork \cup {"X5", "B5"}
MCMined == {"G", "A1", "A2", "M3", "C3", "N4", "K4", "H4"}
MCOrphanTx == {"G", "A1", "B2", "B3", "E2", "E3", "E4"}
MCDuplicate == {"G", "A1", "A2", "A3", "E2", "D3"}

MCVtx ==
  [G |-> <<"cG">>, A1 |-> <<"cA1">>, A2 |-> <<"cA2">>, A3 |-> <<"cA3", "p">>,
   X4 |-> <<"cX4", "q">>, Y5 |-> <<"cY5">>,
   B2 |-> <<"cB2">>, B3 |-> <<"cB3", "q">>, B4 |-> <<"cB4", "r", "w">>,
   Z4 |-> <<"cZ4", "s">>, W4 |-> <<"cW4">>, V4 |-> <<"cV4", "v">>,
   B5 |-> <<"cB5">>, X5 |-> <<"cX5", "p">>,
   E2 |-> <<"cE2", "p">>, D3 |-> <<"cA1">>,
   E3 |-> <<"cE3", "u">>, E4 |-> <<"cE4">>, B6 |-> <<"cB6">>,
   M3 |-> <<"cM3", "p">>, C3 |-> <<"cC3">>, N4 |-> <<"cN4", "q">>, K4 |-> <<"cK4">>,
   H4 |-> <<"cH4">>]

MCSpends ==
  [p |-> {[hash |-> "cA1", n |-> 1]}, q |-> {[hash |-> "cA1", n |-> 1]},
   r |-> {[hash |-> "q", n |-> 1], [hash |-> "q", n |-> 2]},
   s |-> {[hash |-> "cB3", n |-> 1]}, w |-> {[hash |-> "r", n |-> 1]},
   v |-> {[hash |-> "q", n |-> 1]},
   u |-> {[hash |-> "p", n |-> 1]},
   x |-> {[hash |-> "r", n |-> 2], [hash |-> "w", n |-> 1]},
   y |-> {[hash |-> "q", n |-> 1], [hash |-> "w", n |-> 1]},
   z |-> {[hash |-> "p", n |-> 2], [hash |-> "q", n |-> 1]}]

MCTx == DOMAIN MCSpends \cup UNION {{MCVtx[b][i] : i \in DOMAIN MCVtx[b]} : b \in DOMAIN MCVtx}

MCVin == [t \in MCTx |-> IF t \in DOMAIN MCSpends THEN MCSpends[t] ELSE {}]

\* The subsidy is 4 up to height 2, then 2, then 1 from height 6.  cB3 and cB4 also take the fees.
MCVout ==
  [t \in MCTx |->
     CASE t \in {"cG", "cA1", "cA2", "cB2", "cE2", "cM3"} -> <<4>>
       [] t \in {"cB3", "cB4", "cW4", "cN4"} -> <<3>>
       [] t = "q" -> <<1, 2>>
       [] t \in {"p", "r"} -> <<1, 1>>
       [] t \in {"u", "v", "w", "x", "y", "z", "cB6"} -> <<1>>
       [] OTHER -> <<2>>]

MCWork == [b \in DOMAIN MCVtx |-> 1]

MCChainWork ==
  [b \in DOMAIN MCVtx |->
     CASE b = "G" -> 1 [] b = "A1" -> 2
       [] b \in {"A2", "B2", "E2"} -> 3
       [] b \in {"A3", "B3", "D3", "E3", "M3", "C3"} -> 4
       [] b \in {"X4", "B4", "Z4", "W4", "V4", "E4", "N4", "K4", "H4"} -> 5 [] b \in {"Y5", "X5", "B5"} -> 6
       [] b = "B6" -> 7]

=============================================================================
