--------------------------- MODULE MCProfileLinks ---------------------------
(* One funder, two profiles; the second dataset lacks the second profile.  *)
EXTENDS ProfileLinks, TLC

CONSTANTS d1, d2, p1, p2, j1, j2, a1, a2, c1, c2

MCDatasets == {d1, d2}
MCOneDataset == {d1}
MCProfiles == {p1, p2}
MCHas == (d1 :> {p1, p2}) @@ (d2 :> {p1})
MCHasOne == d1 :> {p1, p2}
MCObserved == (d1 :> p1) @@ (d2 :> p1)
MCObservedOne == d1 :> p1
MCJobs == {j1, j2}
MCAdmins == {a1, a2}
MCCallers == {c1, c2}
MCSymmetry ==
    {p @@ q @@ r : p \in Permutations(MCAdmins), q \in Permutations(MCCallers),
                   r \in Permutations(MCJobs)}
=============================================================================
