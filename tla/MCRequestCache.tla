--------------------------- MODULE MCRequestCache ---------------------------
(* RequestCache for TLC: which of the keys k1 and k2 the requests a, b and c have. *)
EXTENDS RequestCache, TLC

CONSTANTS k1, k2, a, b, c

MCShared == (a :> k1) @@ (b :> k1) @@ (c :> k2)
MCSigned == (a :> k1) @@ (b :> k1) @@ (c :> k1)

\* With MCSigned, no definition tells a, b and c apart.
Symmetry == Permutations({a, b, c})

=============================================================================
