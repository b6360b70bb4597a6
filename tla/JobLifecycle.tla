---------------------------- MODULE JobLifecycle ----------------------------
(***************************************************************************)
(* What the job tables promise to whoever reads them: every job walks the  *)
(* life cycle of job_runs.status, and every move except the creation is    *)
(* recorded in job_events in the same step.  How moves are made (locks,    *)
(* leases, outbox, workers) is left to JobStore, which implements this.    *)
(***************************************************************************)
EXTENDS Sequences

CONSTANTS JobIds, Actors

VARIABLES
    state,  \* the state of each job, "absent" before it is created
    log     \* the recorded moves of each job, oldest first

vars == <<state, log>>

Outcomes == {"succeeded", "failed", "dead_lettered"}
(* <<from, recorded as, to>>                                               *)
Moves ==
    {<<"queued", "claimed", "running">>, <<"running", "retry_queued", "queued">>}
    \cup {<<"running", o, o>> : o \in Outcomes}
    \cup {<<s, "cancelled", "cancelled">> : s \in {"queued", "running"}}

Init ==
    /\ state = [j \in JobIds |-> "absent"]
    /\ log = [j \in JobIds |-> <<>>]

(* A job is created with its first event, or with none.                    *)
Submit(j) ==
    /\ state[j] = "absent"
    /\ state' = [state EXCEPT ![j] = "queued"]
    /\ \/ UNCHANGED log
       \/ \E a \in Actors : log' = [log EXCEPT ![j] = <<[type |-> "queued", actor |-> a]>>]

(* The jobs of S make the same recorded move at once; all others rest.     *)
Move(S, type, to) ==
    /\ S # {}
    /\ \A j \in S : <<state[j], type, to>> \in Moves
    /\ state' = [j \in JobIds |-> IF j \in S THEN to ELSE state[j]]
    /\ \E a \in Actors :
          log' = [j \in JobIds |-> IF j \in S
                                   THEN Append(log[j], [type |-> type, actor |-> a])
                                   ELSE log[j]]

Next ==
    \/ \E j \in JobIds : Submit(j)
    \/ \E S \in SUBSET JobIds, m \in Moves : Move(S, m[2], m[3])

Spec == Init /\ [][Next]_vars
=============================================================================
