--------------------------- MODULE MCCacheService ---------------------------
(* CacheService for TLC: which of the callers a, b and c run in which of the *)
(* processes n1 and n2.                                                      *)
EXTENDS CacheService, TLC

CONSTANTS n1, n2, a, b, c

MCHomeOne    == a :> n1
MCHomePair   == (a :> n1) @@ (b :> n1)
MCHomeShared == (a :> n1) @@ (b :> n1) @@ (c :> n2)

\* a and b run in the same process, and no definition tells them apart.
Symmetry == Permutations({a, b})

==============================================================================
