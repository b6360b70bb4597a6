---------------------------- MODULE MCLegacyLinks ----------------------------
(* Two grants, the funder's own profile and another, two requests, one     *)
(* hydration, one import: every pair of writers can overlap.              *)
EXTENDS LegacyLinks, TLC

CONSTANTS own, other, q1, q2, h1

MCGrants == {1, 2}
MCProfiles == {own, other}
MCRequests == {q1, q2}
MCHydrations == {h1}
MCSymmetry == Permutations(MCRequests)
=============================================================================
