------------------------- MODULE MCOutboxDispatcher -------------------------
(* Two dispatchers over two envelopes, one worker.                         *)
EXTENDS OutboxDispatcher

CONSTANTS w1, c1, k1, k2, p1, p2

MCJobIds == 1..2
MCWorkers == {w1}
MCCallers == {c1}
MCKeys == {k1, k2}
MCFunders == {}
MCDispatchers == {p1, p2}
MCApiRequests ==
    {[type |-> "full_run", key |-> k, dedupe |-> None, funder |-> None, max |-> 1] :
        k \in Keys}
=============================================================================
