-------------------------- MODULE DurableJobsProofs --------------------------
(***************************************************************************)
(* Theorems about the durable jobs, for any sets of jobs, workers, callers *)
(* and keys, any bounds and any number of faults.                          *)
(*   JobStore: what its tables promise, and that they implement            *)
(* JobLifecycle.                                                           *)
(*   DurableWorker: the worker processes make only the steps that JobStore *)
(* allows, a job is in one process at a time, its effects are made at most *)
(* once, and no heartbeat row claims a job that does not run.              *)
(*   OutboxDispatcher: its steps are steps of JobStore too, and no envelope*)
(* is written off that nobody has.                                         *)
(***************************************************************************)
EXTENDS DurableWorker, OutboxDispatcher, TLAPS

(***************************************************************************)
(* JobStore                                                                *)
(***************************************************************************)

USE JobIdsAssumption, BoundsAssumption, NoneAssumption

(* The three invariants no one of which is inductive without the others: a *)
(* retry stays within MaxAttempts because the row is consistent, and a     *)
(* commit of a claim keeps the row consistent because the claim is valid.  *)
Inv == TypeOK /\ RowConsistent /\ OpenClaimIsValid

Actors == Workers \cup {Api, Reaper, Deployment}

(* Recording an event keeps job_events well-typed.                         *)
LEMMA RecordType ==
    ASSUME events \in [JobIds -> Seq(Event)], NEW S, NEW type \in EventTypes,
           NEW actor \in Actors, Record(S, type, actor)
    PROVE  events' \in [JobIds -> Seq(Event)]
<1>1. [type |-> type, actor |-> actor] \in Event
    BY DEF Event, Actors
<1>2. \A j \in JobIds : Append(events[j], [type |-> type, actor |-> actor]) \in Seq(Event)
    BY <1>1
<1> QED
    BY <1>2 DEF Record

LEMMA InitInv == Init => Inv
BY DEF Init, Envelopes, Calls, Inv, TypeOK, RowConsistent, OpenClaimIsValid, Idle, Present, Statuses,
       Active, Terminal, OutboxStatuses, BeatStatuses, CacheStatuses

(* A step that leaves job_runs and the open claims alone keeps the two     *)
(* invariants about them.                                                  *)
LEMMA RowsUntouched ==
    ASSUME Inv, UNCHANGED rows, UNCHANGED claiming
    PROVE  RowConsistent' /\ OpenClaimIsValid'
BY DEF Inv, RowConsistent, OpenClaimIsValid, rows, Present

(* Inserting a queued row disturbs neither the rows nor the open claims.   *)
LEMMA InsertJobRows ==
    ASSUME Inv, NEW j \in JobIds, NEW r \in Requests, InsertJob(j, r),
           UNCHANGED claiming
    PROVE  /\ status' \in [JobIds -> Statuses \cup {"absent"}]
           /\ attempt' \in [JobIds -> 1..MaxAttempts]
           /\ lease' \in [JobIds -> {"none", "live", "expired"}]
           /\ request' \in [JobIds -> Requests \cup {None}]
           /\ RowConsistent' /\ OpenClaimIsValid'
<1>1. r.max \in 1..MaxAttempts /\ 1 \in 1..MaxAttempts /\ r # None
    BY DEF Requests
<1>2. /\ status' \in [JobIds -> Statuses \cup {"absent"}]
      /\ attempt' \in [JobIds -> 1..MaxAttempts]
      /\ lease' \in [JobIds -> {"none", "live", "expired"}]
      /\ request' \in [JobIds -> Requests \cup {None}]
    BY <1>1 DEF Inv, TypeOK, InsertJob, Statuses, Active
<1>3. RowConsistent'
    BY <1>1 DEF Inv, TypeOK, RowConsistent, InsertJob, Present
<1>4. OpenClaimIsValid'
    BY DEF Inv, TypeOK, OpenClaimIsValid, InsertJob
<1> QED
    BY <1>2, <1>3, <1>4

-----------------------------------------------------------------------------
(* One lemma per operation: it keeps Inv.                                  *)

(* An enqueue transaction that has a request keeps it when it moves on.    *)
LEMMA CallMoves ==
    ASSUME call \in [Callers -> Calls],
           \A b \in Callers : call[b].pc # "idle" => call[b].request # None,
           NEW c \in Callers, call[c].pc # "idle",
           \/ call' = [call EXCEPT ![c].pc = "reconcile"]
           \/ call' = [call EXCEPT ![c].pc = "error"]
           \/ \E j \in JobIds : Answer(c, j)
    PROVE  /\ call' \in [Callers -> Calls]
           /\ \A b \in Callers : call'[b].pc # "idle" => call'[b].request # None
<1>1. call[c] \in Calls /\ call[c].request \in ApiRequests \cup {None} /\ call[c].request # None
    BY DEF Calls
<1>2. PICK x \in Calls : x.request = call[c].request /\ call' = [call EXCEPT ![c] = x]
  <2>1. \A p \in {"reconcile", "error"} : [call[c] EXCEPT !.pc = p] \in Calls
      BY <1>1 DEF Calls
  <2>2. \A j \in JobIds : [call[c] EXCEPT !.pc = "answered", !.answer = j] \in Calls
      BY <1>1 DEF Calls
  <2>3. \A p : [call[c] EXCEPT !.pc = p].request = call[c].request
      BY <1>1 DEF Calls
  <2>4. \A j : [call[c] EXCEPT !.pc = "answered", !.answer = j].request = call[c].request
      BY <1>1 DEF Calls
  <2> QED
      BY <2>1, <2>2, <2>3, <2>4 DEF Answer
<1> QED
    BY <1>1, <1>2

LEMMA LookupInv ==
    ASSUME Inv, NEW c \in Callers, NEW r \in ApiRequests, EnqueueLookup(c, r)
    PROVE  Inv'
<1> DEFINE found == {j \in JobIds : SameKey(j, r)}
<1>1. found # {} => (CHOOSE j \in found : TRUE) \in JobIds
    OBVIOUS
<1>2. call' \in [Callers -> Calls]
    BY <1>1 DEF Inv, TypeOK, EnqueueLookup, Calls
<1>3. \A b \in Callers : call'[b].pc # "idle" => call'[b].request # None
    BY RequestsAssumption DEF Inv, TypeOK, EnqueueLookup
<1>4. TypeOK'
    BY <1>2, <1>3 DEF Inv, TypeOK, EnqueueLookup, rows
<1> QED
    BY <1>4, RowsUntouched DEF Inv, EnqueueLookup

LEMMA InsertInv ==
    ASSUME Inv, NEW c \in Callers, EnqueueInsert(c)
    PROVE  Inv'
<1> DEFINE r == call[c].request
<1>1. CASE Conflicts(r) # {}
  <2>1. /\ call' = [call EXCEPT ![c].pc = "reconcile"]
        /\ UNCHANGED <<rows, events, outbox, beats, cache, claiming>>
      BY <1>1 DEF EnqueueInsert
  <2>2. /\ call' \in [Callers -> Calls]
        /\ \A b \in Callers : call'[b].pc # "idle" => call'[b].request # None
      BY <2>1, CallMoves DEF Inv, TypeOK, EnqueueInsert
  <2>3. TypeOK'
      BY <2>1, <2>2 DEF Inv, TypeOK, rows
  <2> QED
      BY <2>1, <2>3, RowsUntouched DEF Inv
<1>2. CASE Conflicts(r) = {}
  <2>1. PICK j \in JobIds :
           /\ InsertJob(j, r)
           /\ outbox' = [outbox EXCEPT ![j].status = "pending"]
           /\ Record({j}, "queued", Api)
           /\ Answer(c, j)
      BY <1>2 DEF EnqueueInsert
  <2>2. UNCHANGED <<beats, cache, claiming>>
      BY DEF EnqueueInsert
  <2>3. r \in Requests
    <3>1. call[c] \in Calls /\ call[c].request # None
        BY DEF Inv, TypeOK, EnqueueInsert
    <3> QED
        BY <3>1, RequestsAssumption DEF Calls
  <2>4. /\ status' \in [JobIds -> Statuses \cup {"absent"}]
        /\ attempt' \in [JobIds -> 1..MaxAttempts]
        /\ lease' \in [JobIds -> {"none", "live", "expired"}]
        /\ request' \in [JobIds -> Requests \cup {None}]
        /\ RowConsistent' /\ OpenClaimIsValid'
      BY <2>1, <2>2, <2>3, InsertJobRows
  <2>5. events' \in [JobIds -> Seq(Event)]
      BY <2>1, RecordType DEF Inv, TypeOK, EventTypes, Actors
  <2>6. outbox' \in [JobIds -> Envelopes]
    <3>1. outbox[j] \in Envelopes
        BY DEF Inv, TypeOK
    <3>2. [outbox[j] EXCEPT !.status = "pending"] \in Envelopes
        BY <3>1 DEF Envelopes, OutboxStatuses
    <3> QED
        BY <2>1, <3>2 DEF Inv, TypeOK
  <2>7. /\ call' \in [Callers -> Calls]
        /\ \A b \in Callers : call'[b].pc # "idle" => call'[b].request # None
      BY <2>1, CallMoves DEF Inv, TypeOK, EnqueueInsert
  <2> QED
      BY <2>2, <2>4, <2>5, <2>6, <2>7 DEF Inv, TypeOK
<1> QED
    BY <1>1, <1>2

LEMMA ReconcileInv ==
    ASSUME Inv, NEW c \in Callers, EnqueueReconcile(c)
    PROVE  Inv'
<1>1. UNCHANGED <<rows, events, outbox, beats, cache, claiming>>
    BY DEF EnqueueReconcile
<1>2. \/ \E j \in JobIds : Answer(c, j)
      \/ call' = [call EXCEPT ![c].pc = "error"]
    BY DEF EnqueueReconcile, Conflicts
<1>3. /\ call' \in [Callers -> Calls]
      /\ \A b \in Callers : call'[b].pc # "idle" => call'[b].request # None
    BY <1>2, CallMoves DEF Inv, TypeOK, EnqueueReconcile
<1>4. TypeOK'
    BY <1>1, <1>3 DEF Inv, TypeOK, rows
<1> QED
    BY <1>1, <1>4, RowsUntouched DEF Inv

LEMMA QueueProfileCacheInv ==
    ASSUME Inv, NEW f \in Funders, NEW k \in Keys, QueueProfileCache(f, k)
    PROVE  Inv'
<1> DEFINE r == [type |-> Hydration, key |-> k, dedupe |-> None, funder |-> f, max |-> 1]
<1>1. r \in Requests
    BY DEF Requests
<1>2. PICK j \in JobIds :
         /\ UNCHANGED rows \/ InsertJob(j, r)
         /\ cache' = [cache EXCEPT ![f] = [status |-> "pending", token |-> j]]
    BY DEF QueueProfileCache
<1>3. UNCHANGED <<events, outbox, beats, claiming, call>>
    BY DEF QueueProfileCache
<1>4. /\ status' \in [JobIds -> Statuses \cup {"absent"}]
      /\ attempt' \in [JobIds -> 1..MaxAttempts]
      /\ lease' \in [JobIds -> {"none", "live", "expired"}]
      /\ request' \in [JobIds -> Requests \cup {None}]
      /\ RowConsistent' /\ OpenClaimIsValid'
  <2>1. CASE UNCHANGED rows
      BY <1>3, <2>1, RowsUntouched DEF Inv, TypeOK, rows
  <2>2. CASE InsertJob(j, r)
      BY <1>1, <1>3, <2>2, InsertJobRows
  <2> QED
      BY <1>2, <2>1, <2>2
<1>5. cache' \in [Funders -> [status: CacheStatuses, token: JobIds \cup {None}]]
    BY <1>2 DEF Inv, TypeOK, CacheStatuses
<1> QED
    BY <1>3, <1>4, <1>5 DEF Inv, TypeOK

LEMMA ClaimSelectInv ==
    ASSUME Inv, NEW w \in Workers, ClaimSelect(w)
    PROVE  Inv'
<1>1. PICK j \in Claimable : claiming' = [claiming EXCEPT ![w] = j]
    BY DEF ClaimSelect
<1>2. UNCHANGED <<rows, events, outbox, beats, cache, call>>
    BY DEF ClaimSelect
<1>3. TypeOK'
    BY <1>1, <1>2 DEF Inv, TypeOK, rows, Claimable
<1>4. RowConsistent'
    BY <1>2 DEF Inv, RowConsistent, rows, Present
<1>5. OpenClaimIsValid'
    BY <1>1, <1>2 DEF Inv, TypeOK, OpenClaimIsValid, Claimable, Locked, rows
<1> QED
    BY <1>3, <1>4, <1>5 DEF Inv

LEMMA ClaimNothingInv ==
    ASSUME Inv, NEW w \in Workers, ClaimNothing(w)
    PROVE  Inv'
<1>1. TypeOK'
    BY DEF Inv, TypeOK, ClaimNothing, rows, BeatStatuses
<1> QED
    BY <1>1, RowsUntouched DEF Inv, ClaimNothing

LEMMA ClaimCommitInv ==
    ASSUME Inv, NEW w \in Workers, ClaimCommit(w)
    PROVE  Inv'
<1> DEFINE j == claiming[w]
<1>1. j \in JobIds /\ status[j] = "queued"
    BY DEF Inv, TypeOK, OpenClaimIsValid, ClaimCommit
<1>2. events' \in [JobIds -> Seq(Event)]
    BY RecordType DEF Inv, TypeOK, ClaimCommit, EventTypes, Actors
<1>3. outbox' \in [JobIds -> Envelopes]
  <2>1. outbox[j] \in Envelopes
      BY <1>1 DEF Inv, TypeOK
  <2>2. [status |-> "published", attempts |-> Counted(outbox[j].attempts)] \in Envelopes
      BY <2>1 DEF Envelopes, OutboxStatuses, Counted
  <2> QED
      BY <1>1, <2>1, <2>2 DEF Inv, TypeOK, ClaimCommit
<1>4. TypeOK'
    BY <1>1, <1>2, <1>3
    DEF Inv, TypeOK, ClaimCommit, Statuses, Active, BeatStatuses
<1>5. RowConsistent'
    BY <1>1 DEF Inv, TypeOK, RowConsistent, ClaimCommit, Present
<1>6. OpenClaimIsValid'
    BY <1>1 DEF Inv, TypeOK, OpenClaimIsValid, ClaimCommit
<1> QED
    BY <1>4, <1>5, <1>6 DEF Inv

LEMMA ClaimAbortInv ==
    ASSUME Inv, NEW w \in Workers, ClaimAbort(w)
    PROVE  Inv'
<1>1. TypeOK'
    BY DEF Inv, TypeOK, ClaimAbort, rows
<1>2. RowConsistent' /\ OpenClaimIsValid'
    BY DEF Inv, TypeOK, RowConsistent, OpenClaimIsValid, ClaimAbort, rows, Present
<1> QED
    BY <1>1, <1>2 DEF Inv

(* A running row is not locked by a claim, so changing it disturbs none.   *)
LEMMA HeartbeatInv ==
    ASSUME Inv, NEW j \in JobIds, NEW w \in Workers, Heartbeat(j, w)
    PROVE  Inv'
<1>1. beats' \in [Workers -> [status: BeatStatuses, job: JobIds \cup {None}]]
    BY DEF Inv, TypeOK, Heartbeat, BeatStatuses
<1>2. TypeOK'
    BY <1>1 DEF Inv, TypeOK, Heartbeat
<1>3. RowConsistent' /\ OpenClaimIsValid'
    BY DEF Inv, TypeOK, RowConsistent, OpenClaimIsValid, Heartbeat, Present
<1> QED
    BY <1>2, <1>3 DEF Inv

LEMMA IdleWorkerType ==
    ASSUME beats \in [Workers -> [status: BeatStatuses, job: JobIds \cup {None}]],
           NEW w \in Workers, IdleWorker(w)
    PROVE  beats' \in [Workers -> [status: BeatStatuses, job: JobIds \cup {None}]]
BY DEF IdleWorker, BeatStatuses

LEMMA SucceedInv ==
    ASSUME Inv, NEW j \in JobIds, NEW w \in Workers, Succeed(j, w)
    PROVE  Inv'
<1>1. events' \in [JobIds -> Seq(Event)]
    BY RecordType DEF Inv, TypeOK, Succeed, EventTypes, Terminal, Actors
<1>2. TypeOK'
    BY <1>1, IdleWorkerType DEF Inv, TypeOK, Succeed, Statuses, Terminal
<1>3. RowConsistent' /\ OpenClaimIsValid'
    BY DEF Inv, TypeOK, RowConsistent, OpenClaimIsValid, Succeed, Present
<1> QED
    BY <1>2, <1>3 DEF Inv

LEMMA ReleaseCacheType ==
    ASSUME cache \in [Funders -> [status: CacheStatuses, token: JobIds \cup {None}]],
           NEW S, ReleaseCache(S)
    PROVE  cache' \in [Funders -> [status: CacheStatuses, token: JobIds \cup {None}]]
BY DEF ReleaseCache, CacheStatuses

LEMMA StopWorkersType ==
    ASSUME beats \in [Workers -> [status: BeatStatuses, job: JobIds \cup {None}]],
           NEW S, StopWorkersOn(S)
    PROVE  beats' \in [Workers -> [status: BeatStatuses, job: JobIds \cup {None}]]
BY DEF StopWorkersOn, BeatStatuses

LEMMA FailInv ==
    ASSUME Inv, NEW j \in JobIds, NEW w \in Workers, NEW retryable \in BOOLEAN,
           Fail(j, w, retryable)
    PROVE  Inv'
<1> DEFINE willRetry == retryable /\ attempt[j] < request[j].max
<1> DEFINE next == IF willRetry THEN "queued"
                   ELSE IF retryable THEN "dead_lettered" ELSE "failed"
<1> DEFINE event == IF willRetry THEN "retry_queued" ELSE next
<1>1. /\ status[j] = "running" /\ request[j] # None
      /\ request[j].max \in 1..MaxAttempts
    BY DEF Inv, TypeOK, RowConsistent, Fail, Requests
<1>2. next \in Statuses /\ event \in EventTypes /\ next \notin {"absent", "running"}
    BY DEF Statuses, Active, Terminal, EventTypes
<1>3. /\ status' = [status EXCEPT ![j] = next]
      /\ attempt' = [attempt EXCEPT ![j] = IF willRetry THEN attempt[j] + 1 ELSE attempt[j]]
      /\ lease' = [lease EXCEPT ![j] = "none"]
      /\ UNCHANGED cache \/ ReleaseCache({j})
      /\ Record({j}, event, w)
      /\ IdleWorker(w)
      /\ UNCHANGED <<request, outbox, claiming, call>>
    BY DEF Fail, Inv, TypeOK
<1>4. attempt' \in [JobIds -> 1..MaxAttempts]
  <2>1. attempt[j] \in 1..MaxAttempts
      BY DEF Inv, TypeOK
  <2>2. willRetry => attempt[j] + 1 \in 1..MaxAttempts
      BY <1>1, <2>1
  <2>3. (IF willRetry THEN attempt[j] + 1 ELSE attempt[j]) \in 1..MaxAttempts
      BY <2>1, <2>2
  <2> HIDE DEF willRetry
  <2> QED
      BY <1>3, <2>3 DEF Inv, TypeOK
<1>5. events' \in [JobIds -> Seq(Event)]
    BY <1>2, <1>3, RecordType DEF Inv, TypeOK, Actors
<1>6. cache' \in [Funders -> [status: CacheStatuses, token: JobIds \cup {None}]]
    BY <1>3, ReleaseCacheType DEF Inv, TypeOK
<1>7. beats' \in [Workers -> [status: BeatStatuses, job: JobIds \cup {None}]]
    BY <1>3, IdleWorkerType DEF Inv, TypeOK
<1>8. TypeOK'
    BY <1>2, <1>3, <1>4, <1>5, <1>6, <1>7 DEF Inv, TypeOK
<1>9. RowConsistent'
    BY <1>1, <1>2, <1>3 DEF Inv, TypeOK, RowConsistent, Present
<1>10. OpenClaimIsValid'
    BY <1>1, <1>3 DEF Inv, TypeOK, OpenClaimIsValid
<1> QED
    BY <1>8, <1>9, <1>10 DEF Inv

LEMMA HydrateInv ==
    ASSUME Inv, NEW j \in JobIds, Hydrate(j)
    PROVE  Inv'
<1>1. cache' \in [Funders -> [status: CacheStatuses, token: JobIds \cup {None}]]
    BY DEF Inv, TypeOK, Hydrate, AwaitsHydration, CacheStatuses
<1>2. TypeOK'
    BY <1>1 DEF Inv, TypeOK, Hydrate, rows
<1> QED
    BY <1>2, RowsUntouched DEF Inv, Hydrate

LEMMA LeaseLapsesInv ==
    ASSUME Inv, NEW j \in JobIds, LeaseLapses(j)
    PROVE  Inv'
BY DEF Inv, TypeOK, RowConsistent, OpenClaimIsValid, LeaseLapses, Present

LEMMA FailExpiredInv ==
    ASSUME Inv, FailExpired
    PROVE  Inv'
<1>1. events' \in [JobIds -> Seq(Event)]
    BY RecordType DEF Inv, TypeOK, FailExpired, EventTypes, Terminal, Actors
<1>2. TypeOK'
    BY <1>1, ReleaseCacheType, StopWorkersType
    DEF Inv, TypeOK, FailExpired, Statuses, Terminal
<1>3. RowConsistent' /\ OpenClaimIsValid'
    BY DEF Inv, TypeOK, RowConsistent, OpenClaimIsValid, FailExpired, Overdue, Present
<1> QED
    BY <1>2, <1>3 DEF Inv

(* A retired row is not locked, because the retirement waits for the lock. *)
LEMMA RetireInv ==
    ASSUME Inv, NEW S \in SUBSET JobIds, Retire(S)
    PROVE  Inv'
<1>1. events' \in [JobIds -> Seq(Event)]
    BY RecordType DEF Inv, TypeOK, Retire, EventTypes, Terminal, Actors
<1>2. TypeOK'
    BY <1>1, StopWorkersType DEF Inv, TypeOK, Retire, Statuses, Terminal
<1>3. RowConsistent'
    BY DEF Inv, TypeOK, RowConsistent, Retire, Present, Active
<1>4. OpenClaimIsValid'
    BY DEF Inv, TypeOK, OpenClaimIsValid, Retire, Locked
<1> QED
    BY <1>2, <1>3, <1>4 DEF Inv

LEMMA MarkInv ==
    ASSUME Inv, NEW j \in JobIds, MarkPublished(j) \/ MarkFailed(j)
    PROVE  Inv'
<1>1. outbox' \in [JobIds -> Envelopes]
  <2>1. /\ [status |-> "published", attempts |-> Counted(outbox[j].attempts)] \in Envelopes
        /\ \A s \in {"failed", "dead_lettered"} :
              [status |-> s, attempts |-> Counted(outbox[j].attempts)] \in Envelopes
      BY DEF Inv, TypeOK, Envelopes, OutboxStatuses, Counted
  <2> QED
      BY <2>1 DEF Inv, TypeOK, MarkPublished, MarkFailed
<1>2. TypeOK'
    BY <1>1 DEF Inv, TypeOK, MarkPublished, MarkFailed, rows
<1> QED
    BY <1>2, RowsUntouched DEF Inv, MarkPublished, MarkFailed

LEMMA StutterInv == Inv /\ UNCHANGED vars => Inv'
BY DEF Inv, TypeOK, RowConsistent, OpenClaimIsValid, vars, rows, Present

LEMMA NextInv == Inv /\ [Next]_vars => Inv'
<1> SUFFICES ASSUME Inv, [Next]_vars PROVE Inv'
    OBVIOUS
<1>1. CASE ApiStep
    BY <1>1, LookupInv, InsertInv, ReconcileInv, QueueProfileCacheInv DEF ApiStep
<1>2. CASE WorkerStep
    BY <1>2, ClaimSelectInv, ClaimNothingInv, ClaimCommitInv, ClaimAbortInv,
       HeartbeatInv, SucceedInv, FailInv DEF WorkerStep
<1>3. CASE OtherStep
    BY <1>3, LeaseLapsesInv, HydrateInv, FailExpiredInv, RetireInv DEF OtherStep
<1>4. CASE DispatchStep
    BY <1>4, MarkInv DEF DispatchStep
<1>5. CASE UNCHANGED vars
    BY <1>5, StutterInv
<1> QED
    BY <1>1, <1>2, <1>3, <1>4, <1>5 DEF Next

(* Every reachable state is well-typed, its rows are consistent and its    *)
(* open claims are valid: the inductive invariant of JobStore.             *)
THEOREM Invariance == Spec => []Inv
<1>1. Init => Inv
    BY InitInv
<1>2. Inv /\ [Next]_vars => Inv'
    BY NextInv
<1> QED
    BY <1>1, <1>2, PTL DEF Spec

(* The type invariant, for every choice of the constants.                  *)
THEOREM TypeCorrect == Spec => []TypeOK
BY Invariance, PTL DEF Inv

(* The claim of a worker commits on a row that is still queued and that no *)
(* other worker has chosen.                                                *)
THEOREM ClaimsAreValid == Spec => []OpenClaimIsValid
BY Invariance, PTL DEF Inv

(* Leases belong to running rows and attempts stay within their allowance. *)
THEOREM RowsAreConsistent == Spec => []RowConsistent
BY Invariance, PTL DEF Inv

-----------------------------------------------------------------------------
(* A terminal job is left alone.                                           *)

(* Recording events for other jobs does not touch the history of this one. *)
LEMMA RecordElsewhere ==
    ASSUME NEW j \in JobIds, NEW S, j \notin S, NEW type, NEW actor,
           events \in [JobIds -> Seq(Event)], Record(S, type, actor)
    PROVE  events'[j] = events[j]
BY DEF Record

LEMMA TerminalLemma ==
    ASSUME Inv, Next, NEW j \in JobIds, status[j] \in Terminal
    PROVE  status'[j] = status[j] /\ events'[j] = events[j]
<1> USE DEF Terminal, Active
<1>1. CASE ApiStep
  <2>1. CASE \E c \in Callers, r \in ApiRequests : EnqueueLookup(c, r)
      BY <2>1 DEF EnqueueLookup, rows
  <2>2. CASE \E c \in Callers : EnqueueInsert(c)
      BY <2>2, RecordElsewhere DEF EnqueueInsert, InsertJob, rows, Inv, TypeOK
  <2>3. CASE \E c \in Callers : EnqueueReconcile(c)
      BY <2>3 DEF EnqueueReconcile, rows
  <2>4. CASE \E f \in Funders, k \in Keys : QueueProfileCache(f, k)
      BY <2>4 DEF QueueProfileCache, InsertJob, rows, Inv, TypeOK
  <2> QED
      BY <1>1, <2>1, <2>2, <2>3, <2>4 DEF ApiStep
<1>2. CASE WorkerStep
  <2>1. CASE \E w \in Workers : ClaimSelect(w) \/ ClaimNothing(w) \/ ClaimAbort(w)
      BY <2>1 DEF ClaimSelect, ClaimNothing, ClaimAbort, rows
  <2>2. CASE \E w \in Workers : ClaimCommit(w)
    <3>1. PICK w \in Workers : ClaimCommit(w)
        BY <2>2
    <3>2. claiming[w] # j
        BY <3>1 DEF ClaimCommit, Inv, OpenClaimIsValid
    <3> QED
        BY <3>1, <3>2, RecordElsewhere DEF ClaimCommit, Inv, TypeOK
  <2>3. CASE \E w \in Workers, i \in JobIds : Heartbeat(i, w) \/ Succeed(i, w)
      BY <2>3, RecordElsewhere DEF Heartbeat, Succeed, Inv, TypeOK
  <2>4. CASE \E w \in Workers, i \in JobIds, retryable \in BOOLEAN : Fail(i, w, retryable)
    <3>1. PICK w \in Workers, i \in JobIds, retryable \in BOOLEAN : Fail(i, w, retryable)
        BY <2>4
    <3>2. i # j
        BY <3>1 DEF Fail
    <3>3. status'[j] = status[j]
        BY <3>1, <3>2 DEF Fail, Inv, TypeOK
    <3> QED
        BY <3>1, <3>2, <3>3, RecordElsewhere DEF Fail, Inv, TypeOK
  <2> QED
      BY <1>2, <2>1, <2>2, <2>3, <2>4 DEF WorkerStep
<1>3. CASE OtherStep
  <2>1. CASE \E i \in JobIds : LeaseLapses(i) \/ Hydrate(i)
      BY <2>1 DEF LeaseLapses, Hydrate, rows
  <2>2. CASE FailExpired
      BY <2>2, RecordElsewhere DEF FailExpired, Overdue, Inv, TypeOK
  <2>3. CASE \E S \in SUBSET JobIds : Retire(S)
      BY <2>3, RecordElsewhere DEF Retire, Inv, TypeOK
  <2> QED
      BY <1>3, <2>1, <2>2, <2>3 DEF OtherStep
<1>4. CASE DispatchStep
    BY <1>4 DEF DispatchStep, MarkPublished, MarkFailed, rows
<1> QED
    BY <1>1, <1>2, <1>3, <1>4 DEF Next

(* No step of any operation changes the status or the history of a job that*)
(* succeeded, failed, was dead-lettered or was cancelled.                  *)
THEOREM TerminalJobsStay == Spec => TerminalIsFinal
<1>1. Inv /\ [Next]_vars =>
        [\A j \in JobIds : status[j] \in Terminal =>
             status'[j] = status[j] /\ events'[j] = events[j]]_vars
    BY TerminalLemma
<1> QED
    BY <1>1, Invariance, PTL DEF Spec, TerminalIsFinal

-----------------------------------------------------------------------------
(* A job that fails for good leaves no profile-cache row waiting for it.   *)

LEMMA ReleaseLemma ==
    ASSUME Inv, Next, NEW j \in JobIds, NEW f \in Funders,
           status'[j] # status[j], status'[j] \in {"failed", "dead_lettered"}
    PROVE  cache'[f] # [status |-> "pending", token |-> j]
<1>0. ASSUME NEW S, ReleaseCache(S), j \in S
      PROVE  cache'[f] # [status |-> "pending", token |-> j]
    BY <1>0 DEF ReleaseCache, Inv, TypeOK
<1>1. CASE ApiStep
  <2>1. ASSUME NEW c \in Callers, \/ \E r \in ApiRequests : EnqueueLookup(c, r)
                                 \/ EnqueueReconcile(c)
        PROVE  FALSE
      BY <2>1 DEF EnqueueLookup, EnqueueReconcile, rows
  <2>2. ASSUME NEW c \in Callers, EnqueueInsert(c) PROVE FALSE
      BY <2>2 DEF EnqueueInsert, InsertJob, rows, Inv, TypeOK
  <2>3. ASSUME NEW h \in Funders, NEW k \in Keys, QueueProfileCache(h, k) PROVE FALSE
      BY <2>3 DEF QueueProfileCache, InsertJob, rows, Inv, TypeOK
  <2> QED
      BY <1>1, <2>1, <2>2, <2>3 DEF ApiStep
<1>2. CASE WorkerStep
  <2>1. CASE \E w \in Workers : ClaimSelect(w) \/ ClaimNothing(w) \/ ClaimAbort(w)
      BY <2>1 DEF ClaimSelect, ClaimNothing, ClaimAbort, rows
  <2>2. CASE \E w \in Workers : ClaimCommit(w)
      BY <2>2 DEF ClaimCommit, Inv, TypeOK
  <2>3. CASE \E w \in Workers, i \in JobIds : Heartbeat(i, w) \/ Succeed(i, w)
      BY <2>3 DEF Heartbeat, Succeed, Inv, TypeOK
  <2>4. CASE \E w \in Workers, i \in JobIds, retryable \in BOOLEAN : Fail(i, w, retryable)
    <3>1. PICK w \in Workers, i \in JobIds, retryable \in BOOLEAN : Fail(i, w, retryable)
        BY <2>4
    <3>2. i = j /\ ~(retryable /\ attempt[i] < request[i].max)
        BY <3>1 DEF Fail, Inv, TypeOK
    <3>3. ReleaseCache({j})
        BY <3>1, <3>2 DEF Fail
    <3> QED
        BY <1>0, <3>3
  <2> QED
      BY <1>2, <2>1, <2>2, <2>3, <2>4 DEF WorkerStep
<1>3. CASE OtherStep
  <2>1. CASE \E i \in JobIds : LeaseLapses(i) \/ Hydrate(i)
      BY <2>1 DEF LeaseLapses, Hydrate, rows
  <2>2. CASE FailExpired
      BY <1>0, <2>2 DEF FailExpired, Inv, TypeOK
  <2>3. CASE \E S \in SUBSET JobIds : Retire(S)
      BY <2>3 DEF Retire, Inv, TypeOK
  <2> QED
      BY <1>3, <2>1, <2>2, <2>3 DEF OtherStep
<1>4. CASE DispatchStep
    BY <1>4 DEF DispatchStep, MarkPublished, MarkFailed, rows
<1> QED
    BY <1>1, <1>2, <1>3, <1>4 DEF Next

(* The release of the waiting cache rows happens in the very transaction   *)
(* that fails the job, whichever of fail and fail_expired it is.           *)
THEOREM FailureAlwaysReleases == Spec => FailureReleasesCache
<1>1. Inv /\ [Next]_vars =>
        [\A j \in JobIds, f \in Funders :
            status'[j] # status[j] /\ status'[j] \in {"failed", "dead_lettered"} =>
                cache'[f] # [status |-> "pending", token |-> j]]_vars
    BY ReleaseLemma
<1> QED
    BY <1>1, Invariance, PTL DEF Spec, FailureReleasesCache

-----------------------------------------------------------------------------
(* Rows are unique, and an enqueue answers with a row of its own.          *)

(* The step inserts the row j, which nothing in the table refuses.         *)
Inserts(j, r) ==
    /\ r \in Requests
    /\ InsertJob(j, r)
    /\ \A i \in JobIds : ~SameKey(i, r) /\ ~SameDedupe(i, r)

(* The step inserts nothing and makes no job active that was not.          *)
Quiet ==
    /\ UNCHANGED request
    /\ \A j \in JobIds : /\ status'[j] = "absent" <=> status[j] = "absent"
                         /\ status'[j] \in Active => status[j] \in Active

LEMMA UnchangedIsQuiet == UNCHANGED rows => Quiet
BY DEF rows, Quiet

(* Two rows are created nowhere but in enqueue and in queue_profile_cache, *)
(* and no operation revives a job.                                         *)
LEMMA InsertsOrQuiet ==
    ASSUME Inv, Next
    PROVE  (\E j \in JobIds, r \in Requests : Inserts(j, r)) \/ Quiet
<1>1. CASE ApiStep
  <2>1. CASE \E c \in Callers : EnqueueInsert(c)
    <3>1. PICK c \in Callers : EnqueueInsert(c)
        BY <2>1
    <3>2. call[c].request \in Requests
      <4>1. call[c] \in Calls /\ call[c].request # None
          BY <3>1 DEF Inv, TypeOK, EnqueueInsert
      <4> QED
          BY <4>1, RequestsAssumption DEF Calls
    <3> QED
        BY <3>1, <3>2, UnchangedIsQuiet DEF EnqueueInsert, Conflicts, Inserts
  <2>2. CASE \E f \in Funders, k \in Keys : QueueProfileCache(f, k)
    <3>1. PICK f \in Funders, k \in Keys : QueueProfileCache(f, k)
        BY <2>2
    <3> DEFINE r == [type |-> Hydration, key |-> k, dedupe |-> None,
                     funder |-> f, max |-> 1]
    <3>2. r \in Requests /\ r.dedupe = None
        BY DEF Requests
    <3>3. \A i \in JobIds : ~SameDedupe(i, r)
        BY <3>2 DEF SameDedupe
    <3>4. \/ UNCHANGED rows
          \/ \E j \in JobIds : (\A i \in JobIds : ~SameKey(i, r)) /\ InsertJob(j, r)
        BY <3>1 DEF QueueProfileCache
    <3> QED
        BY <3>2, <3>3, <3>4, UnchangedIsQuiet DEF Inserts
  <2>3. CASE \E c \in Callers : \/ \E r \in ApiRequests : EnqueueLookup(c, r)
                                \/ EnqueueReconcile(c)
      BY <2>3, UnchangedIsQuiet DEF EnqueueLookup, EnqueueReconcile
  <2> QED
      BY <1>1, <2>1, <2>2, <2>3 DEF ApiStep
<1>2. CASE WorkerStep
  <2>1. CASE \E w \in Workers : ClaimSelect(w) \/ ClaimNothing(w) \/ ClaimAbort(w)
      BY <2>1, UnchangedIsQuiet DEF ClaimSelect, ClaimNothing, ClaimAbort
  <2>2. CASE \E w \in Workers : ClaimCommit(w)
      BY <2>2 DEF ClaimCommit, Inv, TypeOK, OpenClaimIsValid, Quiet, Active
  <2>3. CASE \E w \in Workers, i \in JobIds : Heartbeat(i, w) \/ Succeed(i, w)
      BY <2>3 DEF Heartbeat, Succeed, Inv, TypeOK, Quiet, Active
  <2>4. CASE \E w \in Workers, i \in JobIds, retryable \in BOOLEAN : Fail(i, w, retryable)
      BY <2>4 DEF Fail, Inv, TypeOK, Quiet, Active
  <2> QED
      BY <1>2, <2>1, <2>2, <2>3, <2>4 DEF WorkerStep
<1>3. CASE OtherStep
  <2>1. CASE \E i \in JobIds : LeaseLapses(i)
      BY <2>1 DEF LeaseLapses, Quiet
  <2>2. CASE \E i \in JobIds : Hydrate(i)
      BY <2>2, UnchangedIsQuiet DEF Hydrate
  <2>3. CASE FailExpired
      BY <2>3 DEF FailExpired, Overdue, Inv, TypeOK, Quiet, Active
  <2>4. CASE \E S \in SUBSET JobIds : Retire(S)
      BY <2>4 DEF Retire, Inv, TypeOK, Quiet, Active
  <2> QED
      BY <1>3, <2>1, <2>2, <2>3, <2>4 DEF OtherStep
<1>4. CASE DispatchStep
    BY <1>4, UnchangedIsQuiet DEF DispatchStep, MarkPublished, MarkFailed
<1> QED
    BY <1>1, <1>2, <1>3, <1>4 DEF Next

LEMMA InitNoDuplicate == Init => NoDuplicateJob
BY DEF Init, NoDuplicateJob, Present

LEMMA NextNoDuplicate == Inv /\ NoDuplicateJob /\ [Next]_vars => NoDuplicateJob'
<1> SUFFICES ASSUME Inv, NoDuplicateJob, [Next]_vars PROVE NoDuplicateJob'
    OBVIOUS
<1>1. CASE Quiet
    BY <1>1 DEF NoDuplicateJob, Quiet, SameKey, SameDedupe, Present
<1>2. ASSUME NEW n \in JobIds, NEW r \in Requests, Inserts(n, r)
      PROVE  NoDuplicateJob'
  <2>1. /\ status[n] = "absent" /\ status'[n] = "queued" /\ request'[n] = r
        /\ \A i \in JobIds \ {n} : status'[i] = status[i] /\ request'[i] = request[i]
      BY <1>2 DEF Inserts, InsertJob, Inv, TypeOK
  <2>2. SUFFICES ASSUME NEW i \in JobIds, NEW j \in JobIds, i # j,
                        Present(i)', Present(j)'
                 PROVE  /\ ~SameKey(i, request[j])'
                        /\ status'[j] \in Active => ~SameDedupe(i, request[j])'
      BY DEF NoDuplicateJob
  <2>3. CASE j = n
      BY <1>2, <2>1, <2>2, <2>3 DEF Inserts, SameKey, SameDedupe, Present
  <2>4. CASE i = n
      BY <1>2, <2>1, <2>2, <2>4 DEF Inserts, SameKey, SameDedupe, Present, Active
  <2>5. CASE i # n /\ j # n
      BY <2>1, <2>2, <2>5 DEF NoDuplicateJob, SameKey, SameDedupe, Present
  <2> QED
      BY <2>3, <2>4, <2>5
<1>3. CASE UNCHANGED vars
    BY <1>1, <1>3, UnchangedIsQuiet DEF vars, rows
<1> QED
    BY <1>1, <1>2, <1>3, InsertsOrQuiet

(* Neither a replayed nor a concurrent enqueue, nor a retry, ever produces *)
(* a second row with the same key or a second active row with the same     *)
(* dedupe key.                                                             *)
THEOREM JobsAreUnique == Spec => []NoDuplicateJob
<1>1. Init => NoDuplicateJob
    BY InitNoDuplicate
<1>2. Inv /\ NoDuplicateJob /\ [Next]_vars => NoDuplicateJob'
    BY NextNoDuplicate
<1> QED
    BY <1>1, <1>2, Invariance, PTL DEF Spec

(* An answer once given stays related to its caller.                       *)
LEMMA RelatedStays ==
    ASSUME Inv, NEW j \in JobIds, NEW r, Related(j, r),
           Quiet \/ \E i \in JobIds, q \in Requests : Inserts(i, q)
    PROVE  Related(j, r)'
BY DEF Related, Quiet, Inserts, InsertJob, SameKey, Present, Inv, TypeOK

(* An enqueue moves its caller only; it answers a row it found or made.    *)
LEMMA AnswerIsRelated ==
    ASSUME Inv, Next, NEW c \in Callers, call'[c] # call[c], call'[c].pc = "answered"
    PROVE  Related(call[c].answer, call[c].request)'
<1>1. PICK j, r : j = call'[c].answer /\ r = call'[c].request
    OBVIOUS
<1>2. SUFFICES Related(j, r)'
    BY <1>1
<1>3. ASSUME UNCHANGED rows, j \in JobIds, SameKey(j, r) \/ SameDedupe(j, r)
      PROVE  Related(j, r)'
    BY <1>3 DEF Related, SameKey, SameDedupe, Present, rows
<1>4. CASE \E b \in Callers, q \in ApiRequests : EnqueueLookup(b, q)
  <2>1. PICK b \in Callers, q \in ApiRequests : EnqueueLookup(b, q)
      BY <1>4
  <2> DEFINE found == {i \in JobIds : SameKey(i, q)}
  <2>2. call' = [call EXCEPT ![b] =
           IF found = {} THEN [pc |-> "insert", request |-> q, answer |-> None]
           ELSE [pc |-> "answered", request |-> q, answer |-> CHOOSE i \in found : TRUE]]
      BY <2>1 DEF EnqueueLookup
  <2>3. b = c /\ found # {} /\ r = q /\ j = CHOOSE i \in found : TRUE
    <3> HIDE DEF found
    <3> QED
        BY <1>1, <2>2 DEF Inv, TypeOK
  <2>4. j \in found
      BY <2>3
  <2> QED
      BY <1>3, <2>1, <2>3, <2>4 DEF EnqueueLookup
<1>5. CASE \E b \in Callers : EnqueueInsert(b)
  <2>1. PICK b \in Callers : EnqueueInsert(b)
      BY <1>5
  <2>2. ASSUME NEW i \in JobIds, InsertJob(i, call[b].request), Answer(b, i)
        PROVE  Related(j, r)'
    <3>1. b = c /\ j = i /\ r = call[b].request
        BY <1>1, <2>2 DEF Answer, Inv, TypeOK, Calls
    <3>2. status'[i] = "queued" /\ request'[i] = r
        BY <2>2, <3>1 DEF InsertJob, Inv, TypeOK
    <3> QED
        BY <3>1, <3>2 DEF Related, SameKey, Present
  <2>3. ASSUME call' = [call EXCEPT ![b].pc = "reconcile"]
        PROVE  FALSE
      BY <2>3 DEF Inv, TypeOK, Calls
  <2> QED
      BY <2>1, <2>2, <2>3 DEF EnqueueInsert
<1>6. CASE \E b \in Callers : EnqueueReconcile(b)
  <2>1. PICK b \in Callers : EnqueueReconcile(b)
      BY <1>6
  <2>2. ASSUME NEW i \in Conflicts(call[b].request), Answer(b, i)
        PROVE  Related(j, r)'
    <3>1. b = c /\ j = i /\ r = call[b].request
        BY <1>1, <2>2 DEF Answer, Inv, TypeOK, Calls, Conflicts
    <3> QED
        BY <1>3, <2>1, <2>2, <3>1 DEF EnqueueReconcile, Conflicts
  <2>3. ASSUME call' = [call EXCEPT ![b].pc = "error"]
        PROVE  FALSE
      BY <2>3 DEF Inv, TypeOK, Calls
  <2>4. \/ \E i \in Conflicts(call[b].request) : Answer(b, i)
        \/ call' = [call EXCEPT ![b].pc = "error"]
      BY <2>1 DEF EnqueueReconcile, Conflicts
  <2> QED
      BY <2>2, <2>3, <2>4
<1>7. UNCHANGED call \/ ApiStep
  <2>1. WorkerStep => UNCHANGED call
    <3>1. ASSUME NEW w \in Workers
          PROVE  /\ ClaimSelect(w) => UNCHANGED call
                 /\ ClaimNothing(w) \/ ClaimCommit(w) \/ ClaimAbort(w) => UNCHANGED call
                 /\ \A i \in JobIds : Heartbeat(i, w) \/ Succeed(i, w) => UNCHANGED call
                 /\ \A i \in JobIds, retryable \in BOOLEAN : Fail(i, w, retryable) => UNCHANGED call
        BY DEF ClaimSelect, ClaimNothing, ClaimCommit, ClaimAbort, Heartbeat, Succeed, Fail
    <3> QED
        BY <3>1 DEF WorkerStep
  <2>2. OtherStep => UNCHANGED call
      BY DEF OtherStep, LeaseLapses, Hydrate, FailExpired, Retire
  <2>3. DispatchStep => UNCHANGED call
      BY DEF DispatchStep, MarkPublished, MarkFailed
  <2> QED
      BY <2>1, <2>2, <2>3 DEF Next
<1> QED
    BY <1>4, <1>5, <1>6, <1>7 DEF ApiStep, QueueProfileCache

LEMMA NextAnswer == Inv /\ AnswerIsOwnJob /\ [Next]_vars => AnswerIsOwnJob'
<1> SUFFICES ASSUME Inv, AnswerIsOwnJob, [Next]_vars,
                    NEW c \in Callers, call'[c].pc = "answered"
             PROVE  Related(call[c].answer, call[c].request)'
    BY DEF AnswerIsOwnJob
<1>1. CASE call'[c] = call[c]
  <2>1. PICK j, r : j = call[c].answer /\ r = call[c].request
      OBVIOUS
  <2>2. Related(j, r)
      BY <1>1, <2>1 DEF AnswerIsOwnJob
  <2>3. j \in JobIds
      BY <2>1, <2>2 DEF Related, Inv, TypeOK, Calls
  <2>4. Quiet \/ \E i \in JobIds, q \in Requests : Inserts(i, q)
      BY InsertsOrQuiet, UnchangedIsQuiet DEF vars, rows
  <2>5. Related(j, r)'
      BY <2>2, <2>3, <2>4, RelatedStays
  <2> QED
      BY <1>1, <2>1, <2>5
<1>2. CASE call'[c] # call[c]
    BY <1>2, AnswerIsRelated DEF vars
<1> QED
    BY <1>1, <1>2

(* Whatever else is enqueued, retried, finished or retired between the     *)
(* statements of an enqueue, the job it answers with has the caller's      *)
(* idempotency key or its dedupe key.                                      *)
THEOREM AnswersAreOwn == Spec => []AnswerIsOwnJob
<1>1. Init => AnswerIsOwnJob
    BY DEF Init, AnswerIsOwnJob, Idle
<1>2. Inv /\ AnswerIsOwnJob /\ [Next]_vars => AnswerIsOwnJob'
    BY NextAnswer
<1> QED
    BY <1>1, <1>2, Invariance, PTL DEF Spec

-----------------------------------------------------------------------------
(* JobStore implements JobLifecycle.                                       *)

(* Jobs of S that all make the recorded move make one step of the life     *)
(* cycle.                                                                  *)
LEMMA MoveStep ==
    ASSUME NEW S \in SUBSET JobIds, S # {}, NEW type, NEW to, NEW actor \in Actors,
           \A j \in S : <<status[j], type, to>> \in Lifecycle!Moves,
           status' = [j \in JobIds |-> IF j \in S THEN to ELSE status[j]],
           Record(S, type, actor)
    PROVE  Lifecycle!Next
<1>1. Lifecycle!Move(S, type, to)
    BY DEF Lifecycle!Move, Record, Actors
<1>2. PICK m \in Lifecycle!Moves : m[2] = type /\ m[3] = to
  <2>1. PICK j \in S : TRUE
      OBVIOUS
  <2> QED
      BY <2>1
<1> QED
    BY <1>1, <1>2 DEF Lifecycle!Next

(* The same for one job.                                                   *)
LEMMA SingleMove ==
    ASSUME Inv, NEW j \in JobIds, NEW type, NEW to, NEW actor \in Actors,
           <<status[j], type, to>> \in Lifecycle!Moves,
           status' = [status EXCEPT ![j] = to], Record({j}, type, actor)
    PROVE  Lifecycle!Next
<1>1. status' = [i \in JobIds |-> IF i \in {j} THEN to ELSE status[i]]
    BY DEF Inv, TypeOK
<1>2. \A i \in {j} : <<status[i], type, to>> \in Lifecycle!Moves
    OBVIOUS
<1> QED
    BY <1>1, <1>2, MoveStep

LEMMA SubmitStep ==
    ASSUME Inv, NEW j \in JobIds, NEW r, InsertJob(j, r), events[j] = <<>>,
           UNCHANGED events \/ Record({j}, "queued", Api)
    PROVE  Lifecycle!Next
<1>1. UNCHANGED events \/ events' = [events EXCEPT ![j] = <<[type |-> "queued", actor |-> Api]>>]
  <2>1. Append(<<>>, [type |-> "queued", actor |-> Api]) = <<[type |-> "queued", actor |-> Api]>>
      OBVIOUS
  <2>2. ASSUME Record({j}, "queued", Api)
        PROVE  events' = [events EXCEPT ![j] = Append(events[j], [type |-> "queued", actor |-> Api])]
      BY <2>2 DEF Record, Inv, TypeOK
  <2> QED
      BY <2>1, <2>2
<1>2. Lifecycle!Submit(j)
    BY <1>1 DEF Lifecycle!Submit, InsertJob
<1> QED
    BY <1>2 DEF Lifecycle!Next

(* A job that does not exist has no history.                               *)
NoHistory == \A j \in JobIds : status[j] = "absent" => events[j] = <<>>

LEMMA NextImplements ==
    ASSUME Inv, NoHistory, Next
    PROVE  Lifecycle!Next \/ UNCHANGED <<status, events>>
<1> USE DEF Lifecycle!Moves, Lifecycle!Outcomes
<1>1. CASE ApiStep
  <2>1. CASE \E c \in Callers : EnqueueInsert(c)
      BY <2>1, SubmitStep DEF EnqueueInsert, rows, NoHistory, InsertJob
  <2>2. CASE \E f \in Funders, k \in Keys : QueueProfileCache(f, k)
      BY <2>2, SubmitStep DEF QueueProfileCache, rows, NoHistory, InsertJob
  <2>3. CASE \E c \in Callers : \/ \E r \in ApiRequests : EnqueueLookup(c, r)
                                \/ EnqueueReconcile(c)
      BY <2>3 DEF EnqueueLookup, EnqueueReconcile, rows
  <2> QED
      BY <1>1, <2>1, <2>2, <2>3 DEF ApiStep
<1>2. CASE WorkerStep
  <2>1. CASE \E w \in Workers : \/ ClaimSelect(w) \/ ClaimNothing(w) \/ ClaimAbort(w)
                                \/ \E i \in JobIds : Heartbeat(i, w)
      BY <2>1 DEF ClaimSelect, ClaimNothing, ClaimAbort, Heartbeat, rows
  <2>2. CASE \E w \in Workers : ClaimCommit(w)
    <3>1. PICK w \in Workers : ClaimCommit(w)
        BY <2>2
    <3>2. claiming[w] \in JobIds /\ status[claiming[w]] = "queued"
        BY <3>1 DEF ClaimCommit, Inv, TypeOK, OpenClaimIsValid
    <3> QED
        BY <3>1, <3>2, SingleMove DEF ClaimCommit, Actors
  <2>3. CASE \E w \in Workers, i \in JobIds : Succeed(i, w)
      BY <2>3, SingleMove DEF Succeed, Actors
  <2>4. CASE \E w \in Workers, i \in JobIds, retryable \in BOOLEAN : Fail(i, w, retryable)
    <3>1. PICK w \in Workers, i \in JobIds, retryable \in BOOLEAN : Fail(i, w, retryable)
        BY <2>4
    <3>2. PICK type, to : /\ <<"running", type, to>> \in Lifecycle!Moves
                          /\ status' = [status EXCEPT ![i] = to]
                          /\ Record({i}, type, w)
        BY <3>1 DEF Fail
    <3>3. status[i] = "running"
        BY <3>1 DEF Fail
    <3> QED
        BY <3>2, <3>3, SingleMove DEF Actors
  <2> QED
      BY <1>2, <2>1, <2>2, <2>3, <2>4 DEF WorkerStep
<1>3. CASE OtherStep
  <2>1. CASE \E i \in JobIds : LeaseLapses(i) \/ Hydrate(i)
      BY <2>1 DEF LeaseLapses, Hydrate, rows
  <2>2. CASE FailExpired
    <3>1. /\ Overdue \in SUBSET JobIds /\ Overdue # {}
          /\ \A j \in Overdue : <<status[j], "failed", "failed">> \in Lifecycle!Moves
        BY <2>2 DEF FailExpired, Overdue
    <3> QED
        BY <2>2, <3>1, MoveStep DEF FailExpired, Actors
  <2>3. CASE \E S \in SUBSET JobIds : Retire(S)
    <3>1. PICK S \in SUBSET JobIds : Retire(S)
        BY <2>3
    <3>2. \A j \in S : <<status[j], "cancelled", "cancelled">> \in Lifecycle!Moves
        BY <3>1 DEF Retire, Active
    <3> QED
        BY <3>1, <3>2, MoveStep DEF Retire, Actors
  <2> QED
      BY <1>3, <2>1, <2>2, <2>3 DEF OtherStep
<1>4. CASE DispatchStep
    BY <1>4 DEF DispatchStep, MarkPublished, MarkFailed, rows
<1> QED
    BY <1>1, <1>2, <1>3, <1>4 DEF Next

LEMMA LifecycleKeepsNoHistory ==
    ASSUME Inv, NoHistory, [Lifecycle!Next]_(Lifecycle!vars)
    PROVE  NoHistory'
<1>1. CASE \E j \in JobIds : Lifecycle!Submit(j)
    BY <1>1 DEF NoHistory, Lifecycle!Submit, Inv, TypeOK
<1>2. CASE \E S \in SUBSET JobIds, m \in Lifecycle!Moves : Lifecycle!Move(S, m[2], m[3])
  <2>1. PICK S \in SUBSET JobIds, m \in Lifecycle!Moves : Lifecycle!Move(S, m[2], m[3])
      BY <1>2
  <2>2. m[3] # "absent"
      BY DEF Lifecycle!Moves, Lifecycle!Outcomes
  <2> QED
      BY <2>1, <2>2 DEF NoHistory, Lifecycle!Move
<1>3. CASE UNCHANGED Lifecycle!vars
    BY <1>3 DEF NoHistory, Lifecycle!vars
<1> QED
    BY <1>1, <1>2, <1>3 DEF Lifecycle!Next

(* Status and history of every job move in lock step along the life cycle, *)
(* whichever transaction moves them: JobStore implements JobLifecycle.     *)
THEOREM StoreImplementsLifecycle == Spec => ImplementsLifecycle
<1>1. Init => Lifecycle!Init /\ NoHistory
    BY DEF Init, Lifecycle!Init, NoHistory
<1>2. Inv /\ NoHistory /\ [Next]_vars => [Lifecycle!Next]_(Lifecycle!vars)
    BY NextImplements DEF vars, rows, Lifecycle!vars
<1>3. Inv /\ NoHistory /\ [Lifecycle!Next]_(Lifecycle!vars) => NoHistory'
    BY LifecycleKeepsNoHistory
<1> QED
    BY <1>1, <1>2, <1>3, Invariance, PTL DEF Spec, ImplementsLifecycle, Lifecycle!Spec

-----------------------------------------------------------------------------
(***************************************************************************)
(* DurableWorker                                                           *)
(***************************************************************************)

HIDE NoneAssumption
HIDE BoundsAssumption
HIDE JobIdsAssumption
USE FaultsAssumption

Holding == {"start", "exec", "failing", "joining", "succeeding"}
WPoints == Holding \cup {"down", "loop", "claim", "claiming", "idle"}

WTypeOK ==
    /\ wpc \in [Workers -> WPoints]
    /\ mine \in [Workers -> JobIds \cup {None}]
    /\ outcome \in [Workers -> {"none", "done", "failed", "lost"}]
    /\ beating \in [Workers -> {"off", "on", "lost", "broken"}]
    /\ stopping \in [Workers -> BOOLEAN]
    /\ performed \in [JobIds -> Nat]
    /\ faults \in 0..MaxFaults

(* A process holds a job exactly between Take and LetGo, and what it holds *)
(* never is in the queue again: this is why OneExecutor is preserved when  *)
(* a queued job is claimed.                                                *)
HandsFit ==
    \A w \in Workers :
        /\ mine[w] # None <=> wpc[w] \in Holding
        /\ claiming[w] # None <=> wpc[w] = "claiming"
        /\ mine[w] # None => status[mine[w]] \in Terminal \cup {"running"}

OutcomeFits ==
    \A w \in Workers :
        /\ wpc[w] \in {"exec", "failing"} => outcome[w] \in {"none", "done"}
        /\ wpc[w] = "joining" => outcome[w] # "none"
        /\ wpc[w] = "succeeding" => outcome[w] = "done"
        /\ wpc[w] \notin Holding \ {"start"} => outcome[w] = "none"

(* The outcome a process has seen tells how often its job had its effects. *)
CountFits ==
    /\ \A w \in Workers : mine[w] # None =>
          /\ outcome[w] = "none" => performed[mine[w]] = 0
          /\ outcome[w] = "done" => performed[mine[w]] = 1
    /\ \A j \in JobIds : status[j] \in {"absent", "queued"} => performed[j] = 0

(* A row that says "running" is of a running job nobody else may finish.   *)
BeatFits ==
    \A w \in Workers : beats[w].status = "running" =>
        /\ beats[w].job \in JobIds
        /\ status[beats[w].job] = "running"
        /\ \A v \in Workers \ {w} : mine[v] # beats[w].job

WInv == /\ WTypeOK /\ HandsFit /\ OutcomeFits /\ OneExecutor
        /\ CountFits /\ EffectsAtMostOnce /\ BeatFits

LEMMA InitWInv == WInit => Inv /\ WInv
<1> SUFFICES ASSUME WInit PROVE Inv /\ WInv
    OBVIOUS
<1>1. Inv
    BY InitInv DEF WInit
<1>2. WTypeOK
    BY DEF WInit, WTypeOK, WPoints
<1>3. HandsFit /\ OutcomeFits /\ OneExecutor
    BY DEF WInit, Init, HandsFit, OutcomeFits, OneExecutor, Holding
<1>4. CountFits /\ EffectsAtMostOnce /\ BeatFits
    BY DEF WInit, Init, CountFits, EffectsAtMostOnce, BeatFits
<1> QED
    BY <1>1, <1>2, <1>3, <1>4 DEF WInv

-----------------------------------------------------------------------------
(* The worker processes make only steps of the store.                      *)

LEMMA HeldIsJob ==
    ASSUME WInv, NEW w \in Workers, wpc[w] \in Holding
    PROVE  mine[w] \in JobIds /\ mine[w] # None /\ claiming[w] = None
BY DEF WInv, WTypeOK, HandsFit, Holding

LEMMA ProgressIsNext ==
    ASSUME WInv, NEW w \in Workers, Progress(w)
    PROVE  [Next]_vars
<1>1. ASSUME NEW j \in JobIds, Fail(j, w, FALSE) \/ Succeed(j, w)
      PROVE  Next
    BY <1>1 DEF Next, WorkerStep
<1>2. CASE Reap(w)
    BY <1>2 DEF Reap, Next, OtherStep
<1>3. CASE Exit(w) \/ Wake(w) \/ Restart(w) \/ Begin(w) \/ HandlerReturns(w)
           \/ HandlerFails(w) \/ Join(w)
    BY <1>3 DEF Exit, Wake, Restart, Begin, HandlerReturns, HandlerFails, Join
<1>4. CASE Poll(w) \/ Take(w)
    BY <1>4 DEF Poll, Take, Next, WorkerStep
<1>5. CASE Refuse(w)
    BY <1>1, <1>5, HeldIsJob DEF Refuse, Holding
<1>6. CASE FailJob(w)
    BY <1>1, <1>6, HeldIsJob DEF FailJob, Goto, Holding
<1>7. CASE Finish(w)
    BY <1>1, <1>7, HeldIsJob DEF Finish, Holding
<1> QED
    BY <1>2, <1>3, <1>4, <1>5, <1>6, <1>7 DEF Progress

LEMMA WNextIsNext ==
    ASSUME WInv, [WNext]_allVars
    PROVE  [Next]_vars
<1>1. CASE \E w \in Workers : Progress(w)
    BY <1>1, ProgressIsNext
<1>2. CASE \E w \in Workers : Perform(w)
    BY <1>2, HeldIsJob DEF Perform, Next, OtherStep, Holding
<1>3. CASE \E w \in Workers : Beat(w)
    BY <1>3, HeldIsJob DEF Beat, Next, WorkerStep, Holding
<1>4. CASE \E w \in Workers : BeatBreaks(w) \/ Crash(w) \/ StopSignal(w)
    BY <1>4 DEF BeatBreaks, Crash, StopSignal, Next, WorkerStep
<1>5. CASE Environment
    BY <1>5 DEF Environment, Next, OtherStep
<1>6. CASE UNCHANGED allVars
    BY <1>6 DEF allVars
<1> QED
    BY <1>1, <1>2, <1>3, <1>4, <1>5, <1>6 DEF WNext

-----------------------------------------------------------------------------
(* One lemma per group of steps: they keep WInv.                           *)

(* What anybody but a holder does to the tables: jobs appear in the queue, *)
(* active jobs are failed or cancelled, and no row begins to say "running".*)
Drift ==
    /\ \A j \in JobIds :
          \/ status'[j] = status[j]
          \/ status[j] = "absent" /\ status'[j] = "queued"
          \/ status[j] \in Active /\ status'[j] \in {"failed", "cancelled"}
    /\ \A w \in Workers : beats'[w].status = "running" =>
          beats'[w] = beats[w] /\ status'[beats[w].job] = status[beats[w].job]
    /\ UNCHANGED claiming

LEMMA StillIsDrift == UNCHANGED vars => Drift
BY DEF vars, Drift

LEMMA StopIsDrift ==
    ASSUME Inv, NEW S \in SUBSET JobIds, NEW to \in {"failed", "cancelled"},
           \A j \in S : status[j] \in Active,
           status' = [j \in JobIds |-> IF j \in S THEN to ELSE status[j]],
           StopWorkersOn(S), UNCHANGED claiming, BeatFits
    PROVE  Drift
<1>1. \A w \in Workers : beats'[w].status = "running" =>
          beats'[w] = beats[w] /\ beats[w].job \notin S
    BY DEF StopWorkersOn
<1>2. \A w \in Workers : beats[w].status = "running" => beats[w].job \in JobIds
    BY DEF BeatFits
<1> QED
    BY <1>1, <1>2 DEF Drift

LEMMA ReapIsDrift == ASSUME Inv, WInv, FailExpired PROVE Drift
<1>1. Overdue \in SUBSET JobIds /\ \A j \in Overdue : status[j] \in Active
    BY DEF Overdue, Active
<1> QED
    BY <1>1, StopIsDrift DEF FailExpired, WInv

LEMMA EnvironmentIsDrift == ASSUME Inv, WInv, Environment PROVE Drift
<1>1. ASSUME NEW j \in JobIds, NEW r, InsertJob(j, r), UNCHANGED <<beats, claiming>>
      PROVE  Drift
  <2>1. status[j] = "absent" /\ status' = [status EXCEPT ![j] = "queued"]
      BY <1>1 DEF InsertJob
  <2>2. \A w \in Workers : beats[w].status = "running" =>
            beats[w].job \in JobIds /\ beats[w].job # j
      BY <2>1 DEF WInv, BeatFits
  <2> QED
      BY <1>1, <2>1, <2>2 DEF Drift, Inv, TypeOK
<1>2. CASE \E c \in Callers : EnqueueInsert(c)
    BY <1>1, <1>2 DEF EnqueueInsert, Drift, rows
<1>3. CASE \E f \in Funders, k \in Keys : QueueProfileCache(f, k)
    BY <1>1, <1>3 DEF QueueProfileCache, Drift, rows
<1>4. CASE \E c \in Callers : (\E r \in ApiRequests : EnqueueLookup(c, r)) \/ EnqueueReconcile(c)
    BY <1>4 DEF EnqueueLookup, EnqueueReconcile, Drift, rows
<1>5. CASE \E j \in JobIds : LeaseLapses(j)
    BY <1>5 DEF LeaseLapses, Drift
<1>6. CASE \E S \in SUBSET JobIds : Retire(S)
    BY <1>6, StopIsDrift DEF Retire, WInv
<1> QED
    BY <1>2, <1>3, <1>4, <1>5, <1>6 DEF Environment, ApiStep

(* Points of the loop at which a process holds neither job nor row.        *)
Between == {"down", "loop", "claim", "idle"}

LEMMA DriftKeeps ==
    ASSUME Inv, WInv, Drift, WTypeOK', UNCHANGED <<mine, outcome, performed>>,
           \A w \in Workers : wpc'[w] = wpc[w] \/ (wpc[w] \in Between /\ wpc'[w] \in Between)
    PROVE  WInv'
<1> USE DEF Terminal, Active
<1>1. HandsFit'
    BY DEF WInv, WTypeOK, HandsFit, Drift, Between, Holding
<1>2. OutcomeFits'
    BY DEF WInv, WTypeOK, OutcomeFits, Between, Holding
<1>3. OneExecutor'
    BY DEF WInv, OneExecutor
<1>4. CountFits'
    BY DEF WInv, WTypeOK, CountFits, Drift
<1>5. EffectsAtMostOnce'
    BY DEF WInv, EffectsAtMostOnce, Drift
<1>6. BeatFits'
    BY DEF WInv, BeatFits, Drift
<1> QED
    BY <1>1, <1>2, <1>3, <1>4, <1>5, <1>6 DEF WInv

LEMMA LoopKeeps ==
    ASSUME Inv, WInv, NEW w \in Workers,
           Reap(w) \/ Exit(w) \/ Wake(w) \/ Restart(w)
    PROVE  WInv'
<1>1. WTypeOK'
    BY DEF WInv, WTypeOK, WPoints, Reap, Exit, Wake, Restart, Goto
<1>2. Drift
    BY StillIsDrift, ReapIsDrift DEF Reap, Exit, Wake, Restart
<1>3. UNCHANGED <<mine, outcome, performed>>
    BY DEF Reap, Exit, Wake, Restart
<1>4. \A v \in Workers : wpc'[v] = wpc[v] \/ (wpc[v] \in Between /\ wpc'[v] \in Between)
    BY DEF WInv, WTypeOK, Reap, Exit, Wake, Restart, Goto, Between
<1> QED
    BY <1>1, <1>2, <1>3, <1>4, DriftKeeps

LEMMA SignalKeeps ==
    ASSUME Inv, WInv, NEW w \in Workers, BeatBreaks(w) \/ StopSignal(w)
    PROVE  WInv'
<1>1. faults' \in 0..MaxFaults
    BY DEF WInv, WTypeOK, BeatBreaks, StopSignal, Fault
<1>2. beating' \in [Workers -> {"off", "on", "lost", "broken"}]
    BY DEF WInv, WTypeOK, BeatBreaks, StopSignal
<1>3. stopping' \in [Workers -> BOOLEAN]
    BY Zenon DEF WInv, WTypeOK, BeatBreaks, StopSignal
<1>4. WTypeOK'
    BY <1>1, <1>2, <1>3 DEF WInv, WTypeOK, BeatBreaks, StopSignal
<1> QED
    BY <1>4, StillIsDrift, DriftKeeps DEF BeatBreaks, StopSignal

LEMMA EnvironmentKeeps ==
    ASSUME Inv, WInv, Environment
    PROVE  WInv'
<1>1. WTypeOK'
    BY DEF WInv, WTypeOK, Environment, wvars
<1> QED
    BY <1>1, EnvironmentIsDrift, DriftKeeps DEF Environment, wvars

LEMMA PollKeeps == ASSUME Inv, WInv, NEW w \in Workers, Poll(w) PROVE WInv'
<1>1. WTypeOK'
    BY DEF WInv, WTypeOK, WPoints, Poll, Goto
<1>2. CASE wpc' = [wpc EXCEPT ![w] = "idle"] /\ ClaimNothing(w)
  <2>1. Drift
      BY <1>2 DEF ClaimNothing, Drift, rows, Inv, TypeOK
  <2> QED
      BY <1>1, <1>2, <2>1, DriftKeeps DEF Poll, Goto, WInv, WTypeOK, Between
<1>3. CASE wpc' = [wpc EXCEPT ![w] = "claiming"] /\ ClaimSelect(w) /\ wpc[w] = "claim"
  <2>1. PICK j \in JobIds : claiming' = [claiming EXCEPT ![w] = j]
      BY <1>3 DEF ClaimSelect, Claimable
  <2>2. UNCHANGED <<status, beats, mine, outcome, performed>>
      BY <1>3 DEF Poll, ClaimSelect, rows
  <2>3. HandsFit'
      BY <1>3, <2>1, <2>2, NoneAssumption DEF WInv, WTypeOK, HandsFit, Inv, TypeOK, Holding
  <2>4. OutcomeFits'
      BY <1>3, <2>2 DEF WInv, WTypeOK, OutcomeFits, Holding
  <2> QED
      BY <1>1, <2>2, <2>3, <2>4
      DEF WInv, OneExecutor, CountFits, EffectsAtMostOnce, BeatFits
<1> QED
    BY <1>2, <1>3 DEF Poll, Goto

LEMMA TakeKeeps == ASSUME Inv, WInv, NEW w \in Workers, Take(w) PROVE WInv'
<1> DEFINE j == claiming[w]
<1>1. /\ j \in JobIds /\ j # None /\ status[j] = "queued"
      /\ wpc[w] = "claiming" /\ outcome[w] = "none" /\ performed[j] = 0
    BY DEF Take, ClaimCommit, Goto, Inv, TypeOK, OpenClaimIsValid, WInv, OutcomeFits, Holding,
           CountFits
<1>2. \A v \in Workers : mine[v] # j /\ (beats[v].status = "running" => beats[v].job # j)
    BY <1>1 DEF WInv, HandsFit, BeatFits, Terminal
<1>3. /\ status' = [status EXCEPT ![j] = "running"]
      /\ beats' = [beats EXCEPT ![w] = [status |-> "running", job |-> j]]
      /\ claiming' = [claiming EXCEPT ![w] = None]
      /\ mine' = [mine EXCEPT ![w] = j]
      /\ wpc' = [wpc EXCEPT ![w] = "start"]
      /\ UNCHANGED <<outcome, beating, stopping, performed, faults>>
    BY DEF Take, ClaimCommit, Goto
<1> HIDE DEF j
<1>4. WTypeOK'
    BY <1>1, <1>3 DEF WInv, WTypeOK, WPoints, Holding
<1>5. HandsFit'
    BY <1>1, <1>2, <1>3 DEF WInv, WTypeOK, HandsFit, Inv, TypeOK, Holding
<1>6. OutcomeFits'
    BY <1>1, <1>3 DEF WInv, WTypeOK, OutcomeFits, Holding
<1>7. OneExecutor'
    BY <1>1, <1>2, <1>3 DEF WInv, WTypeOK, OneExecutor
<1>8. CountFits'
    BY <1>1, <1>2, <1>3 DEF WInv, WTypeOK, CountFits, Inv, TypeOK
<1>9. EffectsAtMostOnce'
    BY <1>1, <1>3 DEF WInv, EffectsAtMostOnce, Inv, TypeOK
<1>10. BeatFits'
  <2> SUFFICES ASSUME NEW u \in Workers, beats'[u].status = "running"
               PROVE  /\ beats'[u].job \in JobIds
                      /\ status'[beats'[u].job] = "running"
                      /\ \A v \in Workers \ {u} : mine'[v] # beats'[u].job
      BY DEF BeatFits
  <2>1. CASE u = w
      BY <1>1, <1>2, <1>3, <2>1 DEF Inv, TypeOK, WInv, WTypeOK
  <2>2. CASE u # w
      BY <1>1, <1>2, <1>3, <2>2 DEF Inv, TypeOK, WInv, WTypeOK, BeatFits
  <2> QED
      BY <2>1, <2>2
<1> QED
    BY <1>4, <1>5, <1>6, <1>7, <1>8, <1>9, <1>10 DEF WInv

(* A process that lets go leaves what the others hold as it is, whatever   *)
(* the tables do meanwhile, as long as they only drift or its own job ends.*)
LEMMA LetGoKeeps ==
    ASSUME Inv, WInv, NEW w \in Workers, NEW to \in {"loop", "down"}, LetGo(w, to),
           stopping' \in [Workers -> BOOLEAN], faults' \in 0..MaxFaults, UNCHANGED performed,
           \A v \in Workers \ {w} : claiming'[v] = claiming[v],
           claiming'[w] = None,
           \/ UNCHANGED status
           \/ /\ mine[w] # None
              /\ status' = [status EXCEPT ![mine[w]] = "failed"]
           \/ /\ mine[w] # None /\ outcome[w] = "done"
              /\ status' = [status EXCEPT ![mine[w]] = "succeeded"],
           \A v \in Workers : beats'[v] = beats[v]
                              \/ beats'[v].status # "running",
           UNCHANGED status \/ beats'[w].status # "running"
    PROVE  WInv'
<1>1. /\ wpc' = [wpc EXCEPT ![w] = to]
      /\ mine' = [mine EXCEPT ![w] = None]
      /\ outcome' = [outcome EXCEPT ![w] = "none"]
      /\ beating' = [beating EXCEPT ![w] = "off"]
    BY DEF LetGo
<1>2. WTypeOK'
    BY <1>1 DEF WInv, WTypeOK, WPoints
<1>3. \A v \in Workers \ {w} : mine[v] # None => mine[v] # mine[w]
    BY DEF WInv, OneExecutor
<1>4. HandsFit'
    BY <1>1, <1>3 DEF WInv, WTypeOK, HandsFit, Holding, Inv, TypeOK
<1>5. OutcomeFits'
    BY <1>1 DEF WInv, WTypeOK, OutcomeFits, Holding
<1>6. OneExecutor'
    BY <1>1 DEF WInv, WTypeOK, OneExecutor
<1>7. CountFits'
    BY <1>1 DEF WInv, WTypeOK, CountFits, Inv, TypeOK
<1>8. EffectsAtMostOnce'
    BY DEF WInv, WTypeOK, CountFits, EffectsAtMostOnce, Inv, TypeOK
<1>9. BeatFits'
    BY <1>1, NoneAssumption DEF WInv, WTypeOK, BeatFits, Inv, TypeOK
<1> QED
    BY <1>2, <1>4, <1>5, <1>6, <1>7, <1>8, <1>9 DEF WInv

LEMMA IdleIsNotRunning ==
    ASSUME Inv, NEW w \in Workers, IdleWorker(w)
    PROVE  /\ \A v \in Workers : beats'[v] = beats[v] \/ beats'[v].status # "running"
           /\ beats'[w].status # "running"
BY DEF Inv, TypeOK, IdleWorker

(* A last failure of the job a process holds.                              *)
LEMMA FailFacts ==
    ASSUME Inv, NEW w \in Workers, NEW j \in JobIds, Fail(j, w, FALSE)
    PROVE  /\ status' = [status EXCEPT ![j] = "failed"]
           /\ UNCHANGED claiming
           /\ \A v \in Workers : beats'[v] = beats[v] \/ beats'[v].status # "running"
           /\ beats'[w].status # "running"
<1>1. status' = [status EXCEPT ![j] = "failed"] /\ IdleWorker(w) /\ UNCHANGED claiming
    BY DEF Fail
<1> QED
    BY <1>1, IdleIsNotRunning

LEMMA RefuseKeeps == ASSUME Inv, WInv, NEW w \in Workers, Refuse(w) PROVE WInv'
<1>1. mine[w] \in JobIds /\ mine[w] # None /\ claiming[w] = None
    BY HeldIsJob DEF Refuse, Holding
<1>2. /\ UNCHANGED <<stopping, performed, faults>>
      /\ stopping \in [Workers -> BOOLEAN] /\ faults \in 0..MaxFaults
    BY DEF Refuse, WInv, WTypeOK
<1>3. CASE Fail(mine[w], w, FALSE) /\ LetGo(w, "loop")
    BY <1>1, <1>2, <1>3, FailFacts, LetGoKeeps
<1>4. CASE UNCHANGED vars /\ LetGo(w, "down")
    BY <1>1, <1>2, <1>4, LetGoKeeps DEF vars
<1> QED
    BY <1>3, <1>4 DEF Refuse

LEMMA FinishKeeps == ASSUME Inv, WInv, NEW w \in Workers, Finish(w) PROVE WInv'
<1>1. mine[w] \in JobIds /\ mine[w] # None /\ claiming[w] = None /\ outcome[w] = "done"
    BY HeldIsJob DEF Finish, Holding, WInv, OutcomeFits
<1>2. /\ UNCHANGED <<stopping, performed, faults>> /\ LetGo(w, "loop")
      /\ stopping \in [Workers -> BOOLEAN] /\ faults \in 0..MaxFaults
    BY DEF Finish, WInv, WTypeOK
<1>3. CASE Succeed(mine[w], w)
  <2>1. /\ status' = [status EXCEPT ![mine[w]] = "succeeded"]
        /\ IdleWorker(w) /\ UNCHANGED claiming
      BY <1>3 DEF Succeed
  <2> QED
      BY <1>1, <1>2, <2>1, IdleIsNotRunning, LetGoKeeps
<1>4. CASE UNCHANGED vars
    BY <1>1, <1>2, <1>4, LetGoKeeps DEF vars
<1> QED
    BY <1>3, <1>4 DEF Finish

LEMMA CrashKeeps == ASSUME Inv, WInv, NEW w \in Workers, Crash(w) PROVE WInv'
<1>1. stopping' \in [Workers -> BOOLEAN]
    BY Zenon DEF Crash, WInv, WTypeOK
<1>2. faults' \in 0..MaxFaults
    BY DEF Crash, Fault, WInv, WTypeOK
<1>3. /\ UNCHANGED <<status, beats, performed>> /\ LetGo(w, "down")
      /\ claiming' = [claiming EXCEPT ![w] = None] \/ (claiming[w] = None /\ claiming' = claiming)
    BY DEF Crash, ClaimAbort, rows, vars
<1>4. claiming'[w] = None /\ \A v \in Workers \ {w} : claiming'[v] = claiming[v]
    BY <1>3 DEF Inv, TypeOK
<1> QED
    BY <1>1, <1>2, <1>3, <1>4, LetGoKeeps

(* A process goes on with the job it holds, and the tables stay.           *)
LEMMA StayKeeps ==
    ASSUME Inv, WInv, WTypeOK', NEW w \in Workers, wpc[w] \in Holding, wpc'[w] \in Holding,
           \A v \in Workers \ {w} : wpc'[v] = wpc[v], UNCHANGED <<mine, outcome, performed>>,
           UNCHANGED <<status, claiming>>,
           \A v \in Workers : \/ beats'[v] = beats[v]
                              \/ v = w /\ beats'[v].job = mine[w] /\ status[mine[w]] = "running",
           OutcomeFits'
    PROVE  WInv'
<1>1. HandsFit'
    BY DEF WInv, WTypeOK, HandsFit, Holding
<1>2. OneExecutor' /\ CountFits' /\ EffectsAtMostOnce'
    BY DEF WInv, OneExecutor, CountFits, EffectsAtMostOnce
<1>3. mine[w] \in JobIds /\ mine[w] # None /\ \A v \in Workers \ {w} : mine[v] # mine[w]
    BY HeldIsJob DEF WInv, OneExecutor
<1>4. BeatFits'
    BY <1>3 DEF WInv, BeatFits
<1> QED
    BY <1>1, <1>2, <1>4 DEF WInv

LEMMA HandlerKeeps ==
    ASSUME Inv, WInv, NEW w \in Workers, Begin(w) \/ HandlerReturns(w) \/ HandlerFails(w)
    PROVE  WInv'
<1>1. WTypeOK'
    BY DEF WInv, WTypeOK, WPoints, Holding, Begin, HandlerReturns, HandlerFails, Goto
<1>2. OutcomeFits'
    BY DEF WInv, WTypeOK, OutcomeFits, Holding, Begin, HandlerReturns, HandlerFails, Goto
<1> QED
    BY <1>1, <1>2, StayKeeps
    DEF Begin, HandlerReturns, HandlerFails, Goto, WInv, WTypeOK, Holding, vars

LEMMA BeatKeeps == ASSUME Inv, WInv, NEW w \in Workers, Beat(w) PROVE WInv'
<1>1. WTypeOK'
    BY DEF WInv, WTypeOK, Beat
<1>2. OutcomeFits'
    BY DEF WInv, OutcomeFits, Beat
<1>3. wpc[w] \in Holding
    BY DEF Beat, Holding
<1>4. /\ UNCHANGED <<status, claiming>>
      /\ \A v \in Workers : \/ beats'[v] = beats[v]
                            \/ v = w /\ beats'[v].job = mine[w] /\ status[mine[w]] = "running"
    BY DEF Beat, Heartbeat, vars, Inv, TypeOK
<1> QED
    BY <1>1, <1>2, <1>3, <1>4, StayKeeps DEF Beat

LEMMA JoinKeeps == ASSUME Inv, WInv, NEW w \in Workers, Join(w) PROVE WInv'
<1>1. /\ UNCHANGED <<vars, stopping, performed, faults>> /\ wpc[w] \in Holding
      /\ stopping \in [Workers -> BOOLEAN] /\ faults \in 0..MaxFaults
    BY DEF Join, WInv, WTypeOK, Holding
<1>2. CASE LetGo(w, "down") \/ LetGo(w, "loop")
    BY <1>1, <1>2, HeldIsJob, LetGoKeeps DEF vars
<1>3. CASE /\ wpc' = [wpc EXCEPT ![w] = "succeeding"]
           /\ beating' = [beating EXCEPT ![w] = "off"]
           /\ UNCHANGED <<mine, outcome>> /\ outcome[w] \notin {"lost", "failed"}
  <2>1. WTypeOK'
      BY <1>1, <1>3 DEF WInv, WTypeOK, WPoints, Holding
  <2>2. OutcomeFits'
      BY <1>3 DEF WInv, WTypeOK, OutcomeFits, Join, Holding
  <2> QED
      BY <1>1, <1>3, <2>1, <2>2, StayKeeps DEF vars, WInv, WTypeOK, Holding
<1> QED
    BY <1>2, <1>3 DEF Join

LEMMA PerformKeeps == ASSUME Inv, WInv, NEW w \in Workers, Perform(w) PROVE WInv'
<1> DEFINE j == mine[w]
<1>1. j \in JobIds /\ j # None /\ outcome[w] = "none" /\ performed[j] = 0 /\ wpc[w] = "exec"
    BY HeldIsJob DEF Perform, WInv, CountFits, Holding
<1>2. /\ UNCHANGED <<status, claiming, beats, wpc, mine, beating, stopping, faults>>
      /\ outcome' = [outcome EXCEPT ![w] = "done"]
      /\ performed' = [performed EXCEPT ![j] = @ + 1]
    BY DEF Perform, Hydrate, vars, rows
<1>3. \A v \in Workers \ {w} : mine[v] # j
    BY <1>1 DEF WInv, OneExecutor
<1>4. status[j] \in Terminal \cup {"running"}
    BY <1>1 DEF WInv, HandsFit
<1>5. performed' = [performed EXCEPT ![j] = 1]
    BY <1>1, <1>2 DEF WInv, WTypeOK
<1> HIDE DEF j
<1>6. WTypeOK'
    BY <1>1, <1>2, <1>5 DEF WInv, WTypeOK
<1>7. HandsFit' /\ OneExecutor' /\ BeatFits'
    BY <1>2 DEF WInv, HandsFit, OneExecutor, BeatFits
<1>8. OutcomeFits'
    BY <1>1, <1>2 DEF WInv, WTypeOK, OutcomeFits, Holding
<1>9. CountFits'
    BY <1>1, <1>2, <1>3, <1>4, <1>5 DEF WInv, WTypeOK, CountFits, Terminal, j
<1>10. EffectsAtMostOnce'
    BY <1>1, <1>2, <1>5 DEF WInv, WTypeOK, EffectsAtMostOnce
<1> QED
    BY <1>6, <1>7, <1>8, <1>9, <1>10 DEF WInv

LEMMA FailJobKeeps == ASSUME Inv, WInv, NEW w \in Workers, FailJob(w) PROVE WInv'
<1> DEFINE j == mine[w]
<1>1. /\ j \in JobIds /\ j # None /\ claiming[w] = None /\ wpc[w] = "failing"
      /\ wpc' = [wpc EXCEPT ![w] = "joining"]
      /\ UNCHANGED <<mine, beating, stopping, performed, faults>>
    BY HeldIsJob DEF FailJob, Goto, Holding
<1>2. PICK o \in {"failed", "lost"} : outcome' = [outcome EXCEPT ![w] = o]
    BY DEF FailJob
<1>3. /\ UNCHANGED claiming
      /\ \/ status' = status
         \/ status' = [status EXCEPT ![j] = "failed"] /\ beats'[w].status # "running"
      /\ \A v \in Workers : beats'[v] = beats[v] \/ beats'[v].status # "running"
    BY <1>1, FailFacts DEF FailJob, vars
<1>4. \A v \in Workers \ {w} : mine[v] # j
    BY <1>1 DEF WInv, OneExecutor
<1> HIDE DEF j
<1>5. WTypeOK'
    BY <1>1, <1>2 DEF WInv, WTypeOK, WPoints, Holding
<1>6. HandsFit'
    BY <1>1, <1>3 DEF WInv, WTypeOK, HandsFit, Holding, Inv, TypeOK, Terminal
<1>7. OutcomeFits'
    BY <1>1, <1>2 DEF WInv, WTypeOK, OutcomeFits, Holding
<1>8. OneExecutor'
    BY <1>1 DEF WInv, OneExecutor
<1>9. CountFits'
    BY <1>1, <1>2, <1>3 DEF WInv, WTypeOK, CountFits, Inv, TypeOK
<1>10. EffectsAtMostOnce'
    BY <1>1, <1>3 DEF WInv, EffectsAtMostOnce, Inv, TypeOK
<1>11. BeatFits'
  <2> SUFFICES ASSUME NEW u \in Workers, beats'[u].status = "running"
               PROVE  /\ beats'[u].job \in JobIds
                      /\ status'[beats'[u].job] = "running"
                      /\ \A v \in Workers \ {u} : mine'[v] # beats'[u].job
      BY DEF BeatFits
  <2>1. beats'[u] = beats[u]
      BY <1>3
  <2>2. beats[u].job \in JobIds /\ status[beats[u].job] = "running"
        /\ \A v \in Workers \ {u} : mine[v] # beats[u].job
      BY <2>1 DEF WInv, BeatFits
  <2>3. status' = status \/ beats[u].job # j
      BY <1>3, <2>2 DEF j
  <2> QED
      BY <1>1, <1>3, <2>1, <2>2, <2>3 DEF Inv, TypeOK
<1> QED
    BY <1>5, <1>6, <1>7, <1>8, <1>9, <1>10, <1>11 DEF WInv

LEMMA NextWInv == Inv /\ WInv /\ [WNext]_allVars => Inv' /\ WInv'
<1> SUFFICES ASSUME Inv, WInv, [WNext]_allVars
             PROVE  Inv' /\ WInv'
    OBVIOUS
<1>1. Inv'
    BY WNextIsNext, NextInv
<1>2. CASE \E w \in Workers : Progress(w)
    BY <1>1, <1>2, LoopKeeps, PollKeeps, TakeKeeps, RefuseKeeps, HandlerKeeps, FailJobKeeps,
       JoinKeeps, FinishKeeps DEF Progress
<1>3. CASE \E w \in Workers : \/ Perform(w) \/ Beat(w)
                              \/ BeatBreaks(w) \/ Crash(w) \/ StopSignal(w)
    BY <1>1, <1>3, PerformKeeps, BeatKeeps, SignalKeeps, CrashKeeps
<1>4. CASE Environment
    BY <1>1, <1>4, EnvironmentKeeps
<1>5. CASE UNCHANGED allVars
  <2>1. WTypeOK'
      BY <1>5 DEF WInv, WTypeOK, allVars, wvars
  <2> QED
      BY <1>5, <2>1, StillIsDrift, DriftKeeps, <1>1 DEF allVars, wvars
<1> QED
    BY <1>1, <1>2, <1>3, <1>4, <1>5 DEF WNext

-----------------------------------------------------------------------------
(* The theorems                                                            *)

(* The invariant the others follow from: what a process holds is not in the*)
(* queue, what it has seen of its handler tells how often the effects were *)
(* made, and its heartbeat row tells which job it alone may finish.        *)
THEOREM WorkerInvariance == WSpec => [](Inv /\ WInv)
<1>1. WInit => Inv /\ WInv
    BY InitWInv
<1>2. Inv /\ WInv /\ [WNext]_allVars => (Inv /\ WInv)'
    BY NextWInv
<1> QED
    BY <1>1, <1>2, PTL DEF WSpec

(* The processes call the operations of the store only as JobStore allows, *)
(* so that whatever is proved of Spec holds while they run and crash.      *)
THEOREM WorkersUseTheStore == WSpec => Spec
<1>1. WInit => Init
    BY DEF WInit
<1>2. Inv /\ WInv /\ [WNext]_allVars => [Next]_vars
    BY WNextIsNext
<1> QED
    BY <1>1, <1>2, WorkerInvariance, PTL DEF WSpec, Spec

(* Status and history still move along the life cycle, in lock step, with  *)
(* processes that crash, time out and lose their leases.                   *)
THEOREM WorkersFollowLifecycle == WSpec => ImplementsLifecycle
BY WorkersUseTheStore, StoreImplementsLifecycle, PTL

(* A job is inside at most one process at a time, for any number of        *)
(* processes, crashes and lapsed leases: no handler retries and the reaper *)
(* never puts a job back (run_once, fail_expired).                         *)
THEOREM OneExecutorAlways == WSpec => []OneExecutor
<1>1. WInv => OneExecutor
    BY DEF WInv
<1> QED
    BY <1>1, WorkerInvariance, PTL

(* The effects of a job are made at most once, and a job that is reported  *)
(* as succeeded has made them.                                             *)
THEOREM EffectsOnce == WSpec => []EffectsAtMostOnce
<1>1. WInv => EffectsAtMostOnce
    BY DEF WInv
<1> QED
    BY <1>1, WorkerInvariance, PTL

(* A worker_heartbeats row that says "running" names a running job,        *)
(* although no statement that ends a job looks for the row that names it.  *)
THEOREM BeatsTellTruth == WSpec => []BeatTellsTruth
<1>1. WInv => BeatTellsTruth
    BY DEF WInv, BeatFits, BeatTellsTruth
<1> QED
    BY <1>1, WorkerInvariance, PTL

-----------------------------------------------------------------------------
(* The dispatchers                                                         *)

WasClaimed(j) == \E n \in 1..Len(events[j]) : events[j][n].type = "claimed"

(* A dispatcher confirms what the queue has taken from its own list; this, *)
(* and that a log never loses its "claimed", is why every published        *)
(* envelope was handed over.                                               *)
DispatchersFit ==
    /\ dpc \in [Dispatchers -> {"read", "publish", "mark", "failed"}]
    /\ due \in [Dispatchers -> SUBSET JobIds]
    /\ \A d \in Dispatchers, j \in JobIds : dpc[d] = "mark" /\ IsFirst(d, j) => j \in delivered

DInv == DispatchersFit /\ PublishedWasHandedOver

LEMMA DNextIsNext == ASSUME DNext \/ UNCHANGED dAllVars PROVE [Next]_vars
<1>1. CASE \E d \in Dispatchers : DispatcherStep(d) \/ Kill(d)
    BY <1>1 DEF DispatcherStep, Kill, Read, Publish, Confirm, ConfirmRaises, Reject, Next,
                DispatchStep
<1>2. CASE ApiStep \/ ClaimStep
    BY <1>2 DEF ClaimStep, Next, WorkerStep
<1>3. CASE UNCHANGED dAllVars
    BY <1>3 DEF dAllVars
<1> QED
    BY <1>1, <1>2, <1>3 DEF DNext

(* Recording an event leaves the claims on record where they are.          *)
LEMMA ClaimsStayOnRecord ==
    ASSUME events \in [JobIds -> Seq(Event)], NEW S, NEW type \in EventTypes, NEW actor \in Actors,
           Record(S, type, actor), NEW j \in JobIds
    PROVE  /\ WasClaimed(j) => WasClaimed(j)'
           /\ j \in S /\ type = "claimed" => WasClaimed(j)'
<1> DEFINE e == [type |-> type, actor |-> actor]
<1>1. CASE j \notin S
    BY <1>1 DEF Record, WasClaimed
<1>2. CASE j \in S
  <2>1. e \in Event /\ events[j] \in Seq(Event) /\ events'[j] = Append(events[j], e)
      BY <1>2 DEF Record, Event, Actors
  <2>2. /\ Len(events'[j]) = Len(events[j]) + 1 /\ Len(events[j]) \in Nat
        /\ events'[j][Len(events[j]) + 1] = e
        /\ \A n \in 1..Len(events[j]) : events'[j][n] = events[j][n]
      BY <2>1
  <2>3. \A n \in 1..Len(events[j]) : n \in 1..Len(events'[j])
      BY <2>2
  <2>4. Len(events[j]) + 1 \in 1..Len(events'[j]) /\ e.type = type
      BY <2>2
  <2> QED
      BY <2>2, <2>3, <2>4 DEF WasClaimed
<1> QED
    BY <1>1, <1>2

(* An API transaction and a claim publish no envelope but that of the job  *)
(* they record as claimed.                                                 *)
LEMMA StoreStepHandsOver ==
    ASSUME Inv, ApiStep \/ ClaimStep, NEW j \in JobIds
    PROVE  /\ WasClaimed(j) => WasClaimed(j)'
           /\ outbox'[j].status = "published" => outbox[j].status = "published" \/ WasClaimed(j)'
<1>1. CASE UNCHANGED events /\ UNCHANGED outbox
    BY <1>1 DEF WasClaimed
<1>2. ASSUME NEW c \in Callers, NEW i \in JobIds, Record({i}, "queued", Api),
             outbox' = [outbox EXCEPT ![i].status = "pending"]
      PROVE  /\ WasClaimed(j) => WasClaimed(j)'
             /\ outbox'[j].status = "published" => outbox[j].status = "published"
  <2>1. WasClaimed(j) => WasClaimed(j)'
      BY <1>2, ClaimsStayOnRecord DEF Inv, TypeOK, EventTypes, Actors
  <2>2. outbox'[j] = outbox[j] \/ outbox'[j].status = "pending"
      BY <1>2 DEF Inv, TypeOK, Envelopes
  <2> QED
      BY <2>1, <2>2
<1>3. ASSUME NEW w \in Workers, ClaimCommit(w)
      PROVE  /\ WasClaimed(j) => WasClaimed(j)'
             /\ outbox'[j].status = "published" => outbox[j].status = "published" \/ WasClaimed(j)'
  <2>1. /\ WasClaimed(j) => WasClaimed(j)'
        /\ j = claiming[w] => WasClaimed(j)'
      BY <1>3, ClaimsStayOnRecord DEF ClaimCommit, Inv, TypeOK, EventTypes, Actors
  <2>2. j # claiming[w] => outbox'[j] = outbox[j]
      BY <1>3 DEF ClaimCommit, Inv, TypeOK
  <2> QED
      BY <2>1, <2>2
<1>4. CASE ApiStep
  <2>1. CASE \E c \in Callers : EnqueueInsert(c)
      BY <2>1, <1>1, <1>2 DEF EnqueueInsert
  <2>2. CASE \/ \E c \in Callers, r \in ApiRequests : EnqueueLookup(c, r)
             \/ \E c \in Callers : EnqueueReconcile(c)
             \/ \E f \in Funders, k \in Keys : QueueProfileCache(f, k)
      BY <2>2, <1>1 DEF EnqueueLookup, EnqueueReconcile, QueueProfileCache
  <2> QED
      BY <1>4, <2>1, <2>2 DEF ApiStep
<1>5. CASE ClaimStep
    BY <1>5, <1>1, <1>3 DEF ClaimStep, ClaimSelect, ClaimAbort
<1> QED
    BY <1>4, <1>5

LEMMA MarkHandsOver ==
    ASSUME Inv, DInv, NEW i \in JobIds, UNCHANGED delivered,
           (MarkPublished(i) /\ i \in delivered) \/ MarkFailed(i)
    PROVE  PublishedWasHandedOver'
<1>1. \A j \in JobIds : outbox'[j].status = "published" =>
                            outbox[j].status = "published" \/ j \in delivered
  <2>1. CASE MarkPublished(i) /\ i \in delivered
      BY <2>1 DEF MarkPublished, Inv, TypeOK
  <2>2. CASE MarkFailed(i)
    <3>1. /\ outbox'[i].status \in {"dead_lettered", "failed"}
          /\ \A j \in JobIds \ {i} : outbox'[j] = outbox[j]
        BY <2>2 DEF MarkFailed, Inv, TypeOK
    <3> QED
        BY <3>1
  <2> QED
      BY <2>1, <2>2
<1>2. UNCHANGED events
    BY DEF MarkPublished, MarkFailed
<1> QED
    BY <1>1, <1>2 DEF DInv, PublishedWasHandedOver

(* A dispatcher that goes on to the next of its list has nothing to mark.  *)
LEMMA AdvanceFits ==
    ASSUME DInv, NEW d \in Dispatchers, NEW j \in JobIds, Advance(d, j), UNCHANGED delivered
    PROVE  DispatchersFit'
<1>1. /\ dpc' \in [Dispatchers -> {"read", "publish", "mark", "failed"}]
      /\ due' \in [Dispatchers -> SUBSET JobIds]
      /\ dpc'[d] # "mark"
      /\ \A e \in Dispatchers \ {d} : dpc'[e] = dpc[e] /\ due'[e] = due[e]
    BY DEF DInv, DispatchersFit, Advance
<1> QED
    BY <1>1 DEF DInv, DispatchersFit, IsFirst

LEMMA DispatcherKeeps ==
    ASSUME Inv, DInv, NEW d \in Dispatchers, DispatcherStep(d) \/ Kill(d)
    PROVE  DInv'
<1>1. CASE Read(d)
    BY <1>1 DEF Read, Unsettled, DInv, DispatchersFit, IsFirst, PublishedWasHandedOver, vars
<1>2. CASE Publish(d)
  <2>1. PICK j \in JobIds :
            /\ IsFirst(d, j)
            /\ \/ /\ delivered' = delivered \cup {j} /\ dpc' = [dpc EXCEPT ![d] = "mark"]
               \/ /\ delivered' \in {delivered, delivered \cup {j}}
                  /\ dpc' = [dpc EXCEPT ![d] = "failed"]
      BY <1>2 DEF Publish
  <2>2. \A i \in JobIds : IsFirst(d, i) => i = j
      BY <2>1, JobIdsAssumption DEF IsFirst
  <2>3. PublishedWasHandedOver'
      BY <1>2, <2>1 DEF Publish, DInv, PublishedWasHandedOver, vars
  <2>4. UNCHANGED due
      BY <1>2 DEF Publish
  <2>5. DispatchersFit'
      BY <2>1, <2>2, <2>4 DEF DInv, DispatchersFit, IsFirst
  <2> QED
      BY <2>3, <2>5 DEF DInv
<1>3. CASE Confirm(d)
  <2>1. PICK j \in JobIds :
            /\ IsFirst(d, j) /\ Advance(d, j)
            /\ MarkPublished(j) \/ (j \notin Unsettled /\ UNCHANGED vars)
      BY <1>3 DEF Confirm
  <2>2. j \in delivered /\ UNCHANGED delivered
      BY <1>3, <2>1 DEF Confirm, DInv, DispatchersFit
  <2>3. PublishedWasHandedOver'
      BY <2>1, <2>2, MarkHandsOver DEF DInv, PublishedWasHandedOver, vars
  <2> QED
      BY <2>1, <2>2, <2>3, AdvanceFits DEF DInv
<1>4. CASE ConfirmRaises(d)
  <2>1. CASE UNCHANGED vars
      BY <1>4, <2>1 DEF ConfirmRaises, DInv, DispatchersFit, IsFirst, PublishedWasHandedOver, vars
  <2>2. CASE \E j \in JobIds : IsFirst(d, j) /\ MarkPublished(j)
    <3>1. PICK j \in JobIds : IsFirst(d, j) /\ MarkPublished(j)
        BY <2>2
    <3>2. j \in delivered /\ UNCHANGED delivered
        BY <1>4, <3>1 DEF ConfirmRaises, DInv, DispatchersFit
    <3>3. PublishedWasHandedOver'
        BY <3>1, <3>2, MarkHandsOver
    <3>4. DispatchersFit'
        BY <1>4 DEF ConfirmRaises, DInv, DispatchersFit, IsFirst
    <3> QED
        BY <3>3, <3>4 DEF DInv
  <2> QED
      BY <1>4, <2>1, <2>2 DEF ConfirmRaises
<1>5. CASE Reject(d)
    BY <1>5, MarkHandsOver, AdvanceFits DEF Reject, DInv
<1>6. CASE Kill(d)
    BY <1>6 DEF Kill, DInv, DispatchersFit, IsFirst, PublishedWasHandedOver, vars
<1> QED
    BY <1>1, <1>2, <1>3, <1>4, <1>5, <1>6 DEF DispatcherStep

LEMMA NextDInv == Inv /\ DInv /\ [DNext]_dAllVars => Inv' /\ DInv'
<1> SUFFICES ASSUME Inv, DInv, [DNext]_dAllVars PROVE Inv' /\ DInv'
    OBVIOUS
<1>1. Inv'
    BY DNextIsNext, NextInv
<1>2. CASE \E d \in Dispatchers : DispatcherStep(d) \/ Kill(d)
    BY <1>1, <1>2, DispatcherKeeps
<1>3. CASE (ApiStep \/ ClaimStep) /\ UNCHANGED dvars
    BY <1>1, <1>3, StoreStepHandsOver
       DEF DInv, DispatchersFit, IsFirst, PublishedWasHandedOver, WasClaimed, dvars
<1>4. CASE UNCHANGED dAllVars
    BY <1>1, <1>4 DEF DInv, DispatchersFit, IsFirst, PublishedWasHandedOver, dAllVars, dvars, vars
<1> QED
    BY <1>1, <1>2, <1>3, <1>4 DEF DNext

(* The steps of the dispatchers are steps of the store as well.            *)
THEOREM DispatchersUseTheStore == DSpec => Spec
<1>1. DInit => Init
    BY DEF DInit
<1>2. [DNext]_dAllVars => [Next]_vars
    BY DNextIsNext
<1> QED
    BY <1>1, <1>2, PTL DEF DSpec, Spec

(* No envelope is marked published that neither the queue nor a worker has *)
(* taken, however many dispatchers work from lists however old, and        *)
(* wherever they are killed (run_once, mark_dispatch_published, claim).    *)
THEOREM PublishedIsHandedOver == DSpec => []PublishedWasHandedOver
<1>1. DInit => Inv /\ DInv
    BY InitInv DEF DInit, Init, DInv, DispatchersFit, IsFirst, PublishedWasHandedOver
<1>2. Inv /\ DInv /\ [DNext]_dAllVars => (Inv /\ DInv)'
    BY NextDInv
<1>3. DInv => PublishedWasHandedOver
    BY DEF DInv
<1> QED
    BY <1>1, <1>2, <1>3, PTL DEF DSpec
=============================================================================
