----------------------------- MODULE MCJobStore -----------------------------
(* Two jobs for JobStore: two concurrent callers, a worker that may call   *)
(* any operation on any job, and one funder with hydration jobs.           *)
EXTENDS JobStore, TLC

CONSTANTS w1, c1, c2, k1, k2, d1, f1

MCJobIds == 1..2
MCWorkers == {w1}
MCCallers == {c1, c2}
MCKeys == {k1, k2}
MCFunders == {f1}

Request(k, d, n) ==
    [type |-> "full_run", key |-> k, dedupe |-> d, funder |-> None, max |-> n]
(* Two calls that share a dedupe key, one of them with a retry allowed; the*)
(* hydration jobs are related to them only where they have a key in common.*)
MCApiRequests == {Request(k1, d1, 2), Request(k2, d1, 1)}

MCSymmetry == Permutations(MCCallers)
=============================================================================
