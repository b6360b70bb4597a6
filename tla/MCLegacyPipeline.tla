-------------------------- MODULE MCLegacyPipeline --------------------------
(* Two API processes, a run of each mode, one edit, one kill: a stale lock *)
(* and two that want it is the least with which reclaiming can go wrong.   *)
(* Processes are interchangeable, so it does not matter which is killed.   *)
EXTENDS LegacyPipeline, TLC

CONSTANTS p1, p2, r1, r2, r3, e1

MCProcs == {p1, p2}
MCRuns == {r1, r2, r3}
MCEdits == {e1}
MCMortal == {p1}
MCUnshown == {r3}
MCModeOf == (r1 :> "full_run") @@ (r2 :> "refresh_charities") @@ (r3 :> "quick_consolidate")
=============================================================================
