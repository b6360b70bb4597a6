--------------------------- MODULE ServingDataset ---------------------------
(***************************************************************************)
(* What the dataset tables promise to the serving queries: at any time at  *)
(* most one dataset version is served, it is complete, it is replaced in   *)
(* one step by another complete one, and once something is served          *)
(* something always is.                                                    *)
(***************************************************************************)
EXTENDS Naturals

CONSTANTS Versions, Nothing

VARIABLES
    serving,   \* the version that is served, Nothing before the first
    complete   \* the versions whose rows are all there

vars == <<serving, complete>>

Init == serving = Nothing /\ complete = {}

(* Candidates are filled and emptied; what is served is left alone.        *)
Build ==
    /\ complete' \in SUBSET Versions
    /\ serving # Nothing => serving \in complete'
    /\ UNCHANGED serving

(* Activation of a candidate and rollback to an earlier version alike.     *)
Serve(v) ==
    /\ v \in complete
    /\ serving' = v
    /\ UNCHANGED complete

Next == Build \/ \E v \in Versions : Serve(v)

Spec == Init /\ [][Next]_vars
=============================================================================
