---------------------------- MODULE MC_Hierarchy ----------------------------
(* One or two customers, two assets, two levels.  Customers and assets are   *)
(* interchangeable and no property here is a liveness property.              *)
EXTENDS Hierarchy, TLC

CONSTANTS c1, c2, a1, a2

OneCustomer == {c1}
TwoCustomers == {c1, c2}
MCAssets == {a1, a2}

AnyLevels == (SUBSET Levels) \ {{}}
AllLevels == {Levels}

SymmetricAssets == Permutations(MCAssets)
SymmetricBoth == Permutations(TwoCustomers) \cup Permutations(MCAssets)
=============================================================================
