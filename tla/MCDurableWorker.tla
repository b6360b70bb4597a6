-------------------------- MODULE MCDurableWorker ---------------------------
(* Two processes over two jobs: a pipeline job whose type has no handler,  *)
(* and a hydration job, which is handled and whose effect is in the tables.*)
EXTENDS DurableWorker, TLC

CONSTANTS w1, w2, c1, k1, d1, f1

MCJobIds == 1..2
MCWorkers == {w1, w2}
MCCallers == {c1}
MCKeys == {k1}
MCFunders == {f1}
MCApiRequests ==
    {[type |-> "refresh_grants", key |-> k1, dedupe |-> d1, funder |-> None, max |-> 1]}
MCHandled == {Hydration}
=============================================================================
