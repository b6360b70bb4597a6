------------------------ MODULE MCVersionedTTLCache -------------------------
(* Two keys, of two datasets, and requests that ask for either.            *)
EXTENDS VersionedTTLCache, TLC

CONSTANTS k1, k2, r1, r2, r3, r4, d1, d2

MCKeys == {k1, k2}
MCDatasetOf == (k1 :> d1) @@ (k2 :> d2)
MCRequests == {r1, r2, r3, r4}
MCSymmetry == Permutations(MCRequests)
=============================================================================
