--------------------------- MODULE MCBlockDownload ---------------------------
(***************************************************************************)
(* BlockDownload on a tree with two branches.                              *)
(*                                                                         *)
(*    G - a1 - a2 - a3 - a4                                                *)
(*     \                                                                   *)
(*      b1 - b2                                                            *)
(***************************************************************************)
EXTENDS BlockDownload

MCParent == [a1 |-> "G", a2 |-> "a1", a3 |-> "a2", a4 |-> "a3", b1 |-> "G", b2 |-> "b1"]

MCStart == [n |-> {"a3"}, m |-> {"G", "b1"}]
MCLongStart == [n |-> {"a4"}, m |-> {"b2"}]

=============================================================================
