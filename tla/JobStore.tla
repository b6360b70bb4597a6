------------------------------ MODULE JobStore ------------------------------
(***************************************************************************)
(* The PostgreSQL job tables and the transactions on them:                 *)
(* PostgresJobRepository (src/src/bff/postgres/job_repository.py), the     *)
(* operator command that retires jobs (pipelines/job_admin.py) and the     *)
(* part of the source-funder repository that creates a job of its own      *)
(* (queue_profile_cache, hydrate_profile_cache).                           *)
(*                                                                         *)
(* Every operation is one READ COMMITTED transaction.  A transaction whose *)
(* first statement locks the row it changes is one action.  The two that   *)
(* may be overtaken between their statements are several: enqueue (lookup, *)
(* insert, reconcile) and claim (select with SKIP LOCKED, commit).         *)
(*                                                                         *)
(* Callers are unconstrained here: any worker may call any operation on    *)
(* any job at any time.  DurableWorker says which calls are really made.   *)
(***************************************************************************)
EXTENDS Integers, Sequences, FiniteSets

CONSTANTS
    JobIds,        \* job_run_id values; their order is (requested_at, id)
    Workers,       \* worker_id values
    Callers,       \* API requests that may be inside enqueue at once
    Types,         \* job types handed to enqueue
    Keys,          \* idempotency keys
    DedupeKeys,    \* active_dedupe_key values
    Funders,       \* source_funder_key values of the active dataset
    ApiRequests,   \* the enqueue calls the API makes
    MaxAttempts,   \* bound on job_runs.max_attempts
    MaxPublishes,  \* maximum_attempts of mark_dispatch_failed
    None           \* SQL NULL

Hydration == "source_funder_profile_hydration"
Api == "api"
Reaper == "lease-reaper"
Deployment == "worker-deployment"

(* The columns of job_runs that no statement changes after the INSERT.     *)
Requests ==
    [type: Types \cup {Hydration}, key: Keys, dedupe: DedupeKeys \cup {None},
     funder: Funders \cup {None}, max: 1..MaxAttempts]

ASSUME JobIdsAssumption == JobIds \subseteq Nat
ASSUME RequestsAssumption ==
    /\ ApiRequests \subseteq Requests
    /\ \A r \in ApiRequests : r.type # Hydration
ASSUME BoundsAssumption ==
    MaxAttempts \in Nat \ {0} /\ MaxPublishes \in Nat \ {0}
ASSUME NoneAssumption ==
    /\ None \notin JobIds \cup Requests \cup DedupeKeys \cup Funders
    /\ Hydration \notin Types

VARIABLES
    status,    \* job_runs.status, "absent" where there is no row
    attempt,   \* job_runs.attempt
    lease,     \* lease_expires_at: NULL ("none"), in the future or in the past
    request,   \* the immutable columns of job_runs
    events,    \* job_events of each job, in order of sequence
    outbox,    \* the job_dispatch_outbox row of each job
    beats,     \* the worker_heartbeats row of each worker
    cache,     \* the source_funder_profile_cache row of each funder
    claiming,  \* the row an open claim transaction has locked
    call       \* where each enqueue transaction stands, and its answer

vars == <<status, attempt, lease, request, events, outbox, beats, cache,
          claiming, call>>
rows == <<status, attempt, lease, request>>

Active == {"queued", "running"}
Terminal == {"succeeded", "failed", "dead_lettered", "cancelled"}
Statuses == Active \cup Terminal
EventTypes == Terminal \cup {"queued", "claimed", "retry_queued"}
Event == [type: EventTypes, actor: Workers \cup {Api, Reaper, Deployment}]
OutboxStatuses == {"absent", "pending", "published", "failed", "dead_lettered"}
BeatStatuses == {"absent", "idle", "running", "stopped"}
CacheStatuses == {"absent", "pending", "ready", "failed"}

Envelopes == [status: OutboxStatuses, attempts: 0..MaxPublishes]
Calls == [pc: {"idle", "insert", "reconcile", "answered", "error"},
          request: ApiRequests \cup {None}, answer: JobIds \cup {None}]
Idle == [pc |-> "idle", request |-> None, answer |-> None]

(* What every row of every table looks like.                               *)
TypeOK ==
    /\ status \in [JobIds -> Statuses \cup {"absent"}]
    /\ attempt \in [JobIds -> 1..MaxAttempts]
    /\ lease \in [JobIds -> {"none", "live", "expired"}]
    /\ request \in [JobIds -> Requests \cup {None}]
    /\ events \in [JobIds -> Seq(Event)]
    /\ outbox \in [JobIds -> Envelopes]
    /\ beats \in [Workers -> [status: BeatStatuses, job: JobIds \cup {None}]]
    /\ cache \in [Funders -> [status: CacheStatuses, token: JobIds \cup {None}]]
    /\ claiming \in [Workers -> JobIds \cup {None}]
    /\ call \in [Callers -> Calls]
    /\ \A c \in Callers : call[c].pc # "idle" => call[c].request # None

Init ==
    /\ status = [j \in JobIds |-> "absent"]
    /\ attempt = [j \in JobIds |-> 1]
    /\ lease = [j \in JobIds |-> "none"]
    /\ request = [j \in JobIds |-> None]
    /\ events = [j \in JobIds |-> <<>>]
    /\ outbox = [j \in JobIds |-> [status |-> "absent", attempts |-> 0]]
    /\ beats = [w \in Workers |-> [status |-> "absent", job |-> None]]
    /\ cache = [f \in Funders |-> [status |-> "absent", token |-> None]]
    /\ claiming = [w \in Workers |-> None]
    /\ call = [c \in Callers |-> Idle]

-----------------------------------------------------------------------------
(* Statements several transactions share.                                  *)

(* publish_attempts + 1, stopped at MaxPublishes, beyond which no statement *)
(* tells two counts apart.                                                 *)
Counted(n) == IF n < MaxPublishes THEN n + 1 ELSE n

Present(j) == status[j] # "absent"

(* INSERT INTO job_events for each job of S, with the next sequence.       *)
Record(S, type, actor) ==
    events' = [j \in JobIds |-> IF j \in S
                                THEN Append(events[j], [type |-> type, actor |-> actor])
                                ELSE events[j]]

(* UPDATE worker_heartbeats SET 'idle' WHERE worker_id = w.                *)
IdleWorker(w) ==
    beats' = [beats EXCEPT ![w] = IF @.status = "absent" THEN @
                                  ELSE [status |-> "idle", job |-> None]]

(* UPDATE worker_heartbeats SET 'stopped' WHERE job_run_id = ANY(S).       *)
StopWorkersOn(S) ==
    beats' = [w \in Workers |-> IF beats[w].job \in S
                                THEN [status |-> "stopped", job |-> None]
                                ELSE beats[w]]

(* The cache rows that wait for a job of S are told it will not come.      *)
ReleaseCache(S) ==
    cache' = [f \in Funders |->
                IF cache[f].status = "pending" /\ cache[f].token \in S
                THEN [cache[f] EXCEPT !.status = "failed"]
                ELSE cache[f]]

SameKey(j, r) == Present(j) /\ request[j].type = r.type /\ request[j].key = r.key
SameDedupe(j, r) ==
    r.dedupe # None /\ Present(j) /\ request[j].dedupe = r.dedupe /\ status[j] \in Active

(* INSERT INTO job_runs.  requested_at is the start of the transaction, so *)
(* the new row may sort before rows that are already there.                *)
InsertJob(j, r) ==
    /\ status[j] = "absent"
    /\ status' = [status EXCEPT ![j] = "queued"]
    /\ request' = [request EXCEPT ![j] = r]
    /\ attempt' = [attempt EXCEPT ![j] = 1]
    /\ UNCHANGED lease

-----------------------------------------------------------------------------
(* enqueue                                                                 *)

Answer(c, j) == call' = [call EXCEPT ![c] = [@ EXCEPT !.pc = "answered", !.answer = j]]

(* SELECT the row with this type and idempotency key: a replay answers it. *)
EnqueueLookup(c, r) ==
    /\ call[c].pc \in {"idle", "answered", "error"}
    /\ LET found == {j \in JobIds : SameKey(j, r)}
       IN  call' = [call EXCEPT ![c] =
              IF found = {} THEN [pc |-> "insert", request |-> r, answer |-> None]
              ELSE [pc |-> "answered", request |-> r, answer |-> CHOOSE j \in found : TRUE]]
    /\ UNCHANGED <<rows, events, outbox, beats, cache, claiming>>

(* Mutant: without the partial index on active_dedupe_key.                 *)
ConflictsOnKeyOnly(r) == {j \in JobIds : SameKey(j, r)}

(* The two unique indexes of job_runs refuse the INSERT.                   *)
Conflicts(r) == {j \in JobIds : SameKey(j, r) \/ SameDedupe(j, r)}

(* INSERT .. ON CONFLICT DO NOTHING, then the envelope and the first event.*)
EnqueueInsert(c) ==
    /\ call[c].pc = "insert"
    /\ LET r == call[c].request
       IN  \/ /\ Conflicts(r) # {}
              /\ call' = [call EXCEPT ![c].pc = "reconcile"]
              /\ UNCHANGED <<rows, events, outbox>>
           \/ /\ Conflicts(r) = {}
              /\ \E j \in JobIds :
                    /\ InsertJob(j, r)
                    /\ outbox' = [outbox EXCEPT ![j].status = "pending"]
                    /\ Record({j}, "queued", Api)
                    /\ Answer(c, j)
    /\ UNCHANGED <<beats, cache, claiming>>

(* Mutant: any active job is taken for the one that refused the INSERT.    *)
ReconcileWithAnyActive(c) ==
    /\ call[c].pc = "reconcile"
    /\ \E j \in JobIds : status[j] \in Active /\ Answer(c, j)
    /\ UNCHANGED <<rows, events, outbox, beats, cache, claiming>>

(* SELECT what refused the INSERT, an active job first, then the youngest. *)
EnqueueReconcile(c) ==
    /\ call[c].pc = "reconcile"
    /\ LET found == Conflicts(call[c].request)
           active == {j \in found : status[j] \in Active}
           best == IF active # {} THEN active ELSE found
       IN  \/ /\ found # {}
              /\ \E j \in best : (\A i \in best : i <= j) /\ Answer(c, j)
           \/ /\ found = {}   \* "Job enqueue conflict could not be reconciled"
              /\ call' = [call EXCEPT ![c].pc = "error"]
    /\ UNCHANGED <<rows, events, outbox, beats, cache, claiming>>

(* queue_profile_cache: a job without envelope or event, unless a job of   *)
(* this type already has the idempotency key, in whatever status.          *)
QueueProfileCache(f, k) ==
    LET r == [type |-> Hydration, key |-> k, dedupe |-> None, funder |-> f, max |-> 1]
    IN  /\ \E j \in JobIds :
              /\ \/ SameKey(j, r) /\ UNCHANGED rows
                 \/ (\A i \in JobIds : ~SameKey(i, r)) /\ InsertJob(j, r)
              /\ cache' = [cache EXCEPT ![f] = [status |-> "pending", token |-> j]]
        /\ UNCHANGED <<events, outbox, beats, claiming, call>>

-----------------------------------------------------------------------------
(* claim                                                                   *)

Locked == {claiming[w] : w \in Workers}
Claimable == {j \in JobIds : status[j] = "queued" /\ j \notin Locked}

(* SELECT .. FOR UPDATE SKIP LOCKED LIMIT 1 finds the oldest queued row.   *)
ClaimSelect(w) ==
    /\ claiming[w] = None
    /\ \E j \in Claimable :
          /\ \A i \in Claimable : j <= i
          /\ claiming' = [claiming EXCEPT ![w] = j]
    /\ UNCHANGED <<rows, events, outbox, beats, cache, call>>

(* There is no row to claim: the worker reports itself idle.               *)
ClaimNothing(w) ==
    /\ claiming[w] = None
    /\ Claimable = {}
    /\ beats' = [beats EXCEPT ![w] = [status |-> "idle", job |-> None]]
    /\ UNCHANGED <<rows, events, outbox, cache, claiming, call>>

ClaimCommit(w) ==
    LET j == claiming[w]
    IN  /\ j # None
        /\ status' = [status EXCEPT ![j] = "running"]
        /\ lease' = [lease EXCEPT ![j] = "live"]
        /\ beats' = [beats EXCEPT ![w] = [status |-> "running", job |-> j]]
        /\ outbox' = [outbox EXCEPT ![j] =
              IF @.status \in {"pending", "failed"}
              THEN [status |-> "published", attempts |-> Counted(@.attempts)]
              ELSE @]
        /\ Record({j}, "claimed", w)
        /\ claiming' = [claiming EXCEPT ![w] = None]
        /\ UNCHANGED <<attempt, request, cache, call>>

(* The transaction is lost with its connection or its process.             *)
ClaimAbort(w) ==
    /\ claiming[w] # None
    /\ claiming' = [claiming EXCEPT ![w] = None]
    /\ UNCHANGED <<rows, events, outbox, beats, cache, call>>

-----------------------------------------------------------------------------
(* What a worker does with a job it believes is its own.  No statement     *)
(* compares the job with the worker that claimed it.                       *)

Heartbeat(j, w) ==
    /\ status[j] = "running"
    /\ lease' = [lease EXCEPT ![j] = "live"]
    /\ beats' = [beats EXCEPT ![w] = IF @.status = "absent" THEN @
                                     ELSE [status |-> "running", job |-> j]]
    /\ UNCHANGED <<status, attempt, request, events, outbox, cache, claiming, call>>

(* Mutant: no status guard in the UPDATE of succeed.                       *)
SucceedBlindly(j, w) ==
    /\ Present(j)
    /\ status' = [status EXCEPT ![j] = "succeeded"]
    /\ lease' = [lease EXCEPT ![j] = "none"]
    /\ Record({j}, "succeeded", w)
    /\ IdleWorker(w)
    /\ UNCHANGED <<attempt, request, outbox, cache, claiming, call>>

Succeed(j, w) ==
    /\ status[j] = "running"
    /\ status' = [status EXCEPT ![j] = "succeeded"]
    /\ lease' = [lease EXCEPT ![j] = "none"]
    /\ Record({j}, "succeeded", w)
    /\ IdleWorker(w)
    /\ UNCHANGED <<attempt, request, outbox, cache, claiming, call>>

(* Mutant: fail retries without regard to max_attempts.                    *)
FailAlwaysRetrying(j, w, retryable) ==
    /\ status[j] = "running" /\ retryable
    /\ status' = [status EXCEPT ![j] = "queued"]
    /\ attempt' = [attempt EXCEPT ![j] = @ + 1]
    /\ lease' = [lease EXCEPT ![j] = "none"]
    /\ Record({j}, "retry_queued", w)
    /\ IdleWorker(w)
    /\ UNCHANGED <<request, outbox, cache, claiming, call>>

Fail(j, w, retryable) ==
    LET willRetry == retryable /\ attempt[j] < request[j].max
        outcome == IF willRetry THEN "queued"
                   ELSE IF retryable THEN "dead_lettered" ELSE "failed"
    IN  /\ status[j] = "running"
        /\ status' = [status EXCEPT ![j] = outcome]
        /\ attempt' = [attempt EXCEPT ![j] = IF willRetry THEN @ + 1 ELSE @]
        /\ lease' = [lease EXCEPT ![j] = "none"]
        /\ IF willRetry THEN UNCHANGED cache ELSE ReleaseCache({j})
        /\ Record({j}, IF willRetry THEN "retry_queued" ELSE outcome, w)
        /\ IdleWorker(w)
        /\ UNCHANGED <<request, outbox, claiming, call>>

(* hydrate_profile_cache, the handler of the hydration job: the row of the *)
(* funder named by the job, if it still waits for this very job.           *)
AwaitsHydration(j) ==
    LET f == request[j].funder
    IN  f \in Funders /\ cache[f] = [status |-> "pending", token |-> j]

Hydrate(j) ==
    /\ Present(j)
    /\ AwaitsHydration(j)
    /\ cache' = [cache EXCEPT ![request[j].funder].status = "ready"]
    /\ UNCHANGED <<rows, events, outbox, beats, claiming, call>>

-----------------------------------------------------------------------------
(* The lease reaper and the operator's retirement command.                 *)

Overdue == {j \in JobIds : status[j] = "running" /\ lease[j] = "expired"}

(* lease_expires_at passes without a heartbeat.                            *)
LeaseLapses(j) ==
    /\ lease[j] = "live"
    /\ lease' = [lease EXCEPT ![j] = "expired"]
    /\ UNCHANGED <<status, attempt, request, events, outbox, beats, cache, claiming, call>>

(* Mutant: the reaper re-queues expired jobs, as requeue_expired once did. *)
RequeueExpired ==
    /\ Overdue # {}
    /\ status' = [j \in JobIds |-> IF j \in Overdue THEN "queued" ELSE status[j]]
    /\ lease' = [j \in JobIds |-> IF j \in Overdue THEN "none" ELSE lease[j]]
    /\ Record(Overdue, "retry_queued", Reaper)
    /\ StopWorkersOn(Overdue)
    /\ UNCHANGED <<attempt, request, outbox, cache, claiming, call>>

(* Mutant: the reaper forgets the profile-cache rows.                      *)
FailExpiredKeepingCache ==
    /\ Overdue # {}
    /\ status' = [j \in JobIds |-> IF j \in Overdue THEN "failed" ELSE status[j]]
    /\ lease' = [j \in JobIds |-> IF j \in Overdue THEN "none" ELSE lease[j]]
    /\ Record(Overdue, "failed", Reaper)
    /\ StopWorkersOn(Overdue)
    /\ UNCHANGED <<attempt, request, outbox, cache, claiming, call>>

(* Mutant: the reaper forgets the worker_heartbeats rows.                  *)
FailExpiredKeepingBeats ==
    /\ Overdue # {}
    /\ status' = [j \in JobIds |-> IF j \in Overdue THEN "failed" ELSE status[j]]
    /\ lease' = [j \in JobIds |-> IF j \in Overdue THEN "none" ELSE lease[j]]
    /\ Record(Overdue, "failed", Reaper)
    /\ ReleaseCache(Overdue)
    /\ UNCHANGED <<attempt, request, outbox, beats, claiming, call>>

FailExpired ==
    /\ Overdue # {}
    /\ status' = [j \in JobIds |-> IF j \in Overdue THEN "failed" ELSE status[j]]
    /\ lease' = [j \in JobIds |-> IF j \in Overdue THEN "none" ELSE lease[j]]
    /\ Record(Overdue, "failed", Reaper)
    /\ ReleaseCache(Overdue)
    /\ StopWorkersOn(Overdue)
    /\ UNCHANGED <<attempt, request, outbox, claiming, call>>

(* Mutant: retire_jobs records no event.                                   *)
RetireSilently(S) ==
    /\ S # {} /\ S \cap Locked = {}
    /\ \A j \in S : status[j] \in Active
    /\ status' = [j \in JobIds |-> IF j \in S THEN "cancelled" ELSE status[j]]
    /\ lease' = [j \in JobIds |-> IF j \in S THEN "none" ELSE lease[j]]
    /\ StopWorkersOn(S)
    /\ UNCHANGED <<attempt, request, events, outbox, cache, claiming, call>>

(* retire_jobs waits for the row locks of open claims.                     *)
Retire(S) ==
    /\ S # {} /\ S \cap Locked = {}
    /\ \A j \in S : status[j] \in Active
    /\ status' = [j \in JobIds |-> IF j \in S THEN "cancelled" ELSE status[j]]
    /\ lease' = [j \in JobIds |-> IF j \in S THEN "none" ELSE lease[j]]
    /\ Record(S, "cancelled", Deployment)
    /\ StopWorkersOn(S)
    /\ UNCHANGED <<attempt, request, outbox, cache, claiming, call>>

-----------------------------------------------------------------------------
(* The two marks an outbox dispatcher leaves.                              *)

(* Mutant: a publication counts as a fresh start.                          *)
MarkPublishedAfresh(j) ==
    /\ outbox[j].status \in {"pending", "failed"}
    /\ outbox' = [outbox EXCEPT ![j] = [status |-> "published", attempts |-> 0]]
    /\ UNCHANGED <<rows, events, beats, cache, claiming, call>>

MarkPublished(j) ==
    /\ outbox[j].status \in {"pending", "failed"}
    /\ outbox' = [outbox EXCEPT ![j] =
          [status |-> "published", attempts |-> Counted(@.attempts)]]
    /\ UNCHANGED <<rows, events, beats, cache, claiming, call>>

(* mark_dispatch_failed locks the row but does not look at its status.     *)
MarkFailed(j) ==
    /\ outbox[j].status # "absent"
    /\ outbox' = [outbox EXCEPT ![j] =
          [status |-> IF @.attempts + 1 >= MaxPublishes THEN "dead_lettered" ELSE "failed",
           attempts |-> Counted(@.attempts)]]
    /\ UNCHANGED <<rows, events, beats, cache, claiming, call>>

-----------------------------------------------------------------------------
ApiStep ==
    \/ \E c \in Callers :
          \/ \E r \in ApiRequests : EnqueueLookup(c, r)
          \/ EnqueueInsert(c)
          \/ EnqueueReconcile(c)
    \/ \E f \in Funders, k \in Keys : QueueProfileCache(f, k)

WorkerStep ==
    \E w \in Workers :
        \/ ClaimSelect(w)
        \/ ClaimNothing(w)
        \/ ClaimCommit(w)
        \/ ClaimAbort(w)
        \/ \E j \in JobIds :
              \/ Heartbeat(j, w)
              \/ Succeed(j, w)
              \/ \E retryable \in BOOLEAN : Fail(j, w, retryable)

OtherStep ==
    \/ \E j \in JobIds : LeaseLapses(j) \/ Hydrate(j)
    \/ FailExpired
    \/ \E S \in SUBSET JobIds : Retire(S)

DispatchStep == \E j \in JobIds : MarkPublished(j) \/ MarkFailed(j)

Next == ApiStep \/ WorkerStep \/ OtherStep \/ DispatchStep

Spec == Init /\ [][Next]_vars

-----------------------------------------------------------------------------
(* Properties                                                              *)

(* Nothing moves a job out of a terminal status or adds to its history: not*)
(* a late heartbeat or result of a worker that was reaped or retired, not a*)
(* second reaper, not a replayed enqueue (the status guards of heartbeat,  *)
(* succeed, fail, fail_expired and retire_jobs).                           *)
TerminalIsFinal ==
    [][\A j \in JobIds : status[j] \in Terminal =>
          status'[j] = status[j] /\ events'[j] = events[j]]_vars

(* The row a claim chose is still queued when the claim commits, and no two*)
(* open claims chose the same row (FOR UPDATE SKIP LOCKED in claim, which  *)
(* retire_jobs has to wait for).                                           *)
OpenClaimIsValid ==
    \A w \in Workers : claiming[w] # None =>
        /\ status[claiming[w]] = "queued"
        /\ \A v \in Workers \ {w} : claiming[v] # claiming[w]

(* A leased row is a running row, and an attempt is within the allowance   *)
(* of the row (ck_job_runs_attempts, the lease columns of each UPDATE).    *)
RowConsistent ==
    \A j \in JobIds :
        /\ lease[j] # "none" <=> status[j] = "running"
        /\ request[j] = None <=> status[j] = "absent"
        /\ Present(j) => attempt[j] <= request[j].max

(* Two rows never share a job type and idempotency key, and two active rows*)
(* never share an active dedupe key, also after a retry has put a running  *)
(* job back into the queue (uq_job_runs_idempotency,                       *)
(* uq_job_runs_active_dedupe).                                             *)
NoDuplicateJob ==
    \A i, j \in JobIds : i # j /\ Present(i) /\ Present(j) =>
        /\ ~SameKey(i, request[j])
        /\ status[j] \in Active => ~SameDedupe(i, request[j])

(* enqueue answers with a job that has the caller's own idempotency key or *)
(* its dedupe key, whatever happened between its three statements.         *)
Related(j, r) ==
    /\ j # None /\ Present(j)
    /\ SameKey(j, r) \/ (r.dedupe # None /\ request[j].dedupe = r.dedupe)
AnswerIsOwnJob ==
    \A c \in Callers :
        call[c].pc = "answered" => Related(call[c].answer, call[c].request)

(* In the step in which a job fails for good, every profile-cache row that *)
(* waits for it stops waiting (fail and fail_expired).                     *)
FailureReleasesCache ==
    [][\A j \in JobIds, f \in Funders :
          status'[j] # status[j] /\ status'[j] \in {"failed", "dead_lettered"} =>
              cache'[f] # [status |-> "pending", token |-> j]]_vars

(* The status of a job and its log move together along the life cycle of   *)
(* JobLifecycle, each move recorded in the transaction that makes it.      *)
Lifecycle == INSTANCE JobLifecycle
    WITH Actors <- Workers \cup {Api, Reaper, Deployment},
         state <- status, log <- events
ImplementsLifecycle == Lifecycle!Spec
=============================================================================
