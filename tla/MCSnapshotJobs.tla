--------------------------- MODULE MCSnapshotJobs ---------------------------
(* Full runs and an enrichment, each in a process of its own.              *)
EXTENDS SnapshotJobs, TLC

CONSTANTS j1, j2, j3

MCJobs == {j1, j2, j3}
MCFullRuns == {j1, j2}
MCSymmetry == Permutations(MCFullRuns)
=============================================================================
