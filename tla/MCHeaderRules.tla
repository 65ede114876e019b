--------------------------- MODULE MCHeaderRules ---------------------------
(***************************************************************************)
(* HeaderRules with three blocks per interval.  The test network asks for  *)
(* a smaller majority, and GetCompact keeps the three highest bits.        *)
(***************************************************************************)
EXTENDS HeaderRules

MCBits(x) == IF x = 0 THEN 0 ELSE Max({k \in 0..12 : 2^k <= x}) + 1

MCCompact(x) ==
  IF MCBits(x) <= 3 THEN x ELSE (x \div 2^(MCBits(x) - 3)) * 2^(MCBits(x) - 3)

MCToCheck == [net \in BOOLEAN |-> IF net THEN 2 ELSE 3]
MCReject == [net \in BOOLEAN |-> IF net THEN 1 ELSE 2]
MCEnforce == [net \in BOOLEAN |-> 1]

MCTime == {0, 1, 2, 9, 19, 20}

=============================================================================
