------------------------- MODULE MCDatasetVersions --------------------------
(* Three dataset versions, each with a process that migrates it.           *)
EXTENDS DatasetVersions, TLC

CONSTANTS v1, v2, v3, m1, m2, m3

MCThree == {v1, v2, v3}
MCThreeRuns == {m1, m2, m3}
MCThreeOwn == (m1 :> v1) @@ (m2 :> v2) @@ (m3 :> v3)
(* Versions are interchangeable when each takes its process along.         *)
MCOwner(v) == CHOOSE m \in MCThreeRuns : MCThreeOwn[m] = v
MCSymmetry ==
    {p @@ [m \in MCThreeRuns |-> MCOwner(p[MCThreeOwn[m]])] : p \in Permutations(MCThree)}
=============================================================================
