---------------------------- MODULE BlockLocator ----------------------------
(***************************************************************************)
(* CBlockLocator of main.h: the hashes by which a node tells another one   *)
(* which branch it is on, dense near the tip and further and further apart *)
(* below.  A branch is the sequence of its blocks from the genesis block.  *)
(***************************************************************************)
EXTENDS Integers, Sequences, FiniteSetsExt

CONSTANT LocatorDense  \* after that many entries the steps double; 10 in the code

ASSUME LocatorAssumption == LocatorDense \in Nat \ {0}

\* Set: the next entry is nStep behind the last one, and the step after the k-th one.
Further(k, e) ==
  [nBack |-> e.nBack + e.nStep,
   nStep |-> IF k > LocatorDense THEN 2 * e.nStep ELSE e.nStep]

\* How far behind the tip the next entry is, and the step after it, when there are
\* k entries.
Back(n) ==
  LET After[k \in 0..n] ==
        IF k = 0 THEN [nBack |-> 0, nStep |-> 1] ELSE Further(k, After[k - 1])
  IN After

\* The entries of a branch, and the genesis block once more at the end.
vHave(branch) ==
  LET length == Len(branch)
      behind == Back(length)
      entries == {k \in 1..length : behind[k - 1].nBack < length}
  IN Append([k \in entries |-> branch[length - behind[k - 1].nBack]], branch[1])

MutantLastCommon(have, main) ==
  Max({k \in DOMAIN have : \E i \in DOMAIN main : main[i] = have[k]})

\* The first entry that is in the main chain of the node that reads the locator; the
\* last one, the genesis block, always is.
FirstInMain(have, main) ==
  Min({k \in DOMAIN have : \E i \in DOMAIN main : main[i] = have[k]})

GetBlockIndex(have, main) == have[FirstInMain(have, main)]

\* GetDistanceBack, which counts the steps again: one entry is passed over.
PassOver(e) ==
  LET d == e.nDistance + e.nStep
  IN [nDistance |-> d, nStep |-> IF d > LocatorDense THEN 2 * e.nStep ELSE e.nStep]

\* The distance and the next step after k entries.
Walk(n) ==
  LET After[k \in 0..n] ==
        IF k = 0 THEN [nDistance |-> 0, nStep |-> 1] ELSE PassOver(After[k - 1])
  IN After

MutantDistanceLate(have, main) == Walk(Len(have))[FirstInMain(have, main)].nDistance

GetDistanceBack(have, main) == Walk(Len(have))[FirstInMain(have, main) - 1].nDistance

=============================================================================
