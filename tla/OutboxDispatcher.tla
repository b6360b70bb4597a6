-------------------------- MODULE OutboxDispatcher --------------------------
(***************************************************************************)
(* OutboxDispatcher.run_once (src/src/pipelines/durable_worker.py) over the*)
(* tables of JobStore: a dispatcher reads the due envelopes in one query   *)
(* and then hands them to the queue one by one, while workers claim the    *)
(* same jobs from the table and other dispatchers work from their own,     *)
(* equally old, list.                                                      *)
(***************************************************************************)
EXTENDS JobStore

CONSTANTS
    Dispatchers    \* the calls of run_once that may be under way at once

VARIABLES
    dpc,        \* where each dispatcher stands with the first of its list: read,
                \* publish, mark, failed
    due,        \* the rest of the list it read
    delivered   \* jobs whose envelope the queue holds, deduplicated by job id

dvars == <<dpc, due, delivered>>
dAllVars == <<vars, dvars>>

DInit ==
    /\ Init
    /\ dpc = [d \in Dispatchers |-> "read"]
    /\ due = [d \in Dispatchers |-> {}]
    /\ delivered = {}

Unsettled == {j \in JobIds : outbox[j].status \in {"pending", "failed"}}

(* due_dispatches, outside of any transaction.  A failed envelope may or   *)
(* may not have waited for its retry delay.                                *)
Read(d) ==
    /\ dpc[d] = "read"
    /\ \E early \in SUBSET {j \in Unsettled : outbox[j].status = "failed"} :
          /\ Unsettled \ early # {}
          /\ due' = [due EXCEPT ![d] = Unsettled \ early]
    /\ dpc' = [dpc EXCEPT ![d] = "publish"]
    /\ UNCHANGED <<vars, delivered>>

(* ORDER BY created_at                                                     *)
IsFirst(d, j) == j \in due[d] /\ \A i \in due[d] : j <= i

(* Mutant: a refused publication counts as published.                      *)
PublishUnchecked(d) ==
    /\ dpc[d] = "publish"
    /\ \E j \in JobIds :
          /\ IsFirst(d, j)
          /\ delivered' \in {delivered, delivered \cup {j}}
          /\ dpc' = [dpc EXCEPT ![d] = "mark"]
    /\ UNCHANGED <<vars, due>>

(* The queue takes the envelope, or the call fails with or without having  *)
(* delivered it.                                                           *)
Publish(d) ==
    /\ dpc[d] = "publish"
    /\ \E j \in JobIds :
          /\ IsFirst(d, j)
          /\ \/ /\ delivered' = delivered \cup {j}
                /\ dpc' = [dpc EXCEPT ![d] = "mark"]
             \/ /\ delivered' \in {delivered, delivered \cup {j}}
                /\ dpc' = [dpc EXCEPT ![d] = "failed"]
    /\ UNCHANGED <<vars, due>>

(* On to the next envelope of the list.                                    *)
Advance(d, j) ==
    /\ due' = [due EXCEPT ![d] = @ \ {j}]
    /\ dpc' = [dpc EXCEPT ![d] = IF due[d] = {j} THEN "read" ELSE "publish"]

(* mark_dispatch_published; what it answers is not looked at.              *)
Confirm(d) ==
    /\ dpc[d] = "mark"
    /\ \E j \in JobIds :
          /\ IsFirst(d, j)
          /\ \/ MarkPublished(j)
             \/ j \notin Unsettled /\ UNCHANGED vars
          /\ Advance(d, j)
    /\ UNCHANGED delivered

(* The confirmation raises, before or after its commit: handled like a     *)
(* failed publication.                                                     *)
ConfirmRaises(d) ==
    /\ dpc[d] = "mark"
    /\ \/ UNCHANGED vars
       \/ \E j \in JobIds : IsFirst(d, j) /\ MarkPublished(j)
    /\ dpc' = [dpc EXCEPT ![d] = "failed"]
    /\ UNCHANGED <<due, delivered>>

Reject(d) ==
    /\ dpc[d] = "failed"
    /\ \E j \in JobIds : IsFirst(d, j) /\ MarkFailed(j) /\ Advance(d, j)
    /\ UNCHANGED delivered

(* A kill, or a mark_dispatch_failed that raises, ends the call.           *)
Kill(d) ==
    /\ dpc[d] # "read"
    /\ dpc' = [dpc EXCEPT ![d] = "read"]
    /\ due' = [due EXCEPT ![d] = {}]
    /\ UNCHANGED <<vars, delivered>>

DispatcherStep(d) ==
    Read(d) \/ Publish(d) \/ Confirm(d) \/ ConfirmRaises(d) \/ Reject(d)

(* Of the other operations only those that read or write the outbox, or    *)
(* lead to one that does: enqueue inserts an envelope, claim publishes it. *)
ClaimStep == \E w \in Workers : ClaimSelect(w) \/ ClaimCommit(w) \/ ClaimAbort(w)

DNext ==
    \/ \E d \in Dispatchers : DispatcherStep(d) \/ Kill(d)
    \/ (ApiStep \/ ClaimStep) /\ UNCHANGED dvars

DSpec == DInit /\ [][DNext]_dAllVars

-----------------------------------------------------------------------------
(* Properties                                                              *)

(* An envelope marked published was taken by the queue or its job by a     *)
(* worker: no envelope is written off that nobody has (claim and           *)
(* mark_dispatch_published are the only two to write "published").         *)
PublishedWasHandedOver ==
    \A j \in JobIds : outbox[j].status = "published" =>
        j \in delivered \/ \E n \in 1..Len(events[j]) : events[j][n].type = "claimed"

(* Dispatchers with old lists undo each other's marks - one fails what the *)
(* other has published, which makes it due again - but not for ever: from  *)
(* some point on an envelope is due or it is not, however often run_once is*)
(* called and wherever a call breaks off (both marks count an attempt, and *)
(* mark_dispatch_failed gives up at the last).                             *)
EnvelopesComeToRest ==
    \A j \in JobIds : <>[](j \in Unsettled) \/ <>[](j \notin Unsettled)
=============================================================================
