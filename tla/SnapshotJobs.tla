---------------------------- MODULE SnapshotJobs ----------------------------
(***************************************************************************)
(* The worker jobs that change the pipeline's SQLite snapshot: full_run    *)
(* and the two enrichments (src/src/pipelines/worker_handlers.py), each in *)
(* a worker process of its own, as overlapping deployments have it.  A     *)
(* snapshot is the set of the jobs whose work is in it.                    *)
(***************************************************************************)
EXTENDS Naturals, FiniteSets

CONSTANTS
    Jobs,
    FullRuns,    \* those that migrate the snapshot into a new dataset
    None

ASSUME JobsAssumption == FullRuns \subseteq Jobs /\ None \notin Jobs

VARIABLES
    local,       \* the two-file store of Docker development, not S3
    status,      \* job_runs.status
    at,          \* where each handler stands: queued, lock, a point of Busy,
                 \* finish, raised, done or dead
    work,        \* the temporary copy of each job
    lock,        \* who holds the advisory lock
    file,        \* the published snapshot
    seal,        \* the snapshot whose checksum is published with it
    late,        \* the publication a cancelled job has left to its thread
    dataset,     \* the snapshot the active dataset was loaded from
    activated,   \* the jobs whose dataset was activated
    linked,      \* the jobs whose profiles are linked in PostgreSQL
    interrupted  \* the jobs cut off in their publication (history)

store == <<local, file, seal>>
database == <<dataset, activated, linked>>
vars == <<status, at, work, lock, store, late, database, interrupted>>

Busy == {"download", "publish", "rename", "load", "report", "link", "leave"}

Init ==
    /\ local \in BOOLEAN
    /\ status = [j \in Jobs |-> "queued"]
    /\ at = [j \in Jobs |-> "queued"]
    /\ work = [j \in Jobs |-> {}]
    /\ lock = None
    /\ file = {} /\ seal = {}
    /\ late = [j \in Jobs |-> "none"]
    /\ dataset = {} /\ activated = {} /\ linked = {} /\ interrupted = {}

Goto(j, from, to) == at[j] = from /\ at' = [at EXCEPT ![j] = to]

Claim(j) ==
    /\ Goto(j, "queued", "lock")
    /\ status[j] = "queued" /\ status' = [status EXCEPT ![j] = "running"]
    /\ UNCHANGED <<work, lock, store, late, database, interrupted>>

-----------------------------------------------------------------------------
(* The handlers                                                            *)

(* Mutant: the work is not serialized.                                     *)
AcquireShared(j) ==
    /\ Goto(j, "lock", "download")
    /\ lock' = j
    /\ UNCHANGED <<status, work, store, late, database, interrupted>>

Acquire(j) ==
    /\ Goto(j, "lock", "download")
    /\ lock = None /\ lock' = j
    /\ UNCHANGED <<status, work, store, late, database, interrupted>>

(* The snapshot is copied, checked against its checksum and worked on.     *)
Download(j) ==
    /\ file = seal
    /\ Goto(j, "download", "publish")
    /\ work' = [work EXCEPT ![j] = file \cup {j}]
    /\ UNCHANGED <<status, lock, store, late, database, interrupted>>

(* What follows the publication.                                           *)
Then(j) == IF j \in FullRuns THEN "load" ELSE "link"

(* S3 takes the snapshot and its checksum in one upload; the local store   *)
(* replaces two files.                                                     *)
Put(j) == file' = work[j] /\ seal' = (IF local THEN seal ELSE work[j]) /\ UNCHANGED local

(* Mutant: the database is changed before the snapshot is published.       *)
PublishLast(j) ==
    /\ Goto(j, "publish", "leave")
    /\ IF j \in FullRuns THEN dataset' = work[j] /\ UNCHANGED <<activated, linked>>
       ELSE linked' = linked \cup {j} /\ UNCHANGED <<dataset, activated>>
    /\ UNCHANGED <<status, work, lock, store, late, interrupted>>

Publish(j) ==
    /\ Goto(j, "publish", IF local THEN "rename" ELSE Then(j))
    /\ Put(j)
    /\ UNCHANGED <<status, work, lock, late, database, interrupted>>

Rename(j) ==
    /\ Goto(j, "rename", Then(j))
    /\ seal' = work[j]
    /\ UNCHANGED <<status, work, lock, local, file, late, database, interrupted>>

(* migrate, up to its activation.                                          *)
Activate(j) ==
    /\ Goto(j, "load", "report")
    /\ dataset' = work[j] /\ activated' = activated \cup {j}
    /\ UNCHANGED <<status, work, lock, store, late, linked, interrupted>>

Report(j) ==
    /\ Goto(j, "report", "leave")
    /\ UNCHANGED <<status, work, lock, store, late, database, interrupted>>

Link(j) ==
    /\ Goto(j, "link", "leave")
    /\ linked' = linked \cup {j}
    /\ UNCHANGED <<status, work, lock, store, late, dataset, activated, interrupted>>

Release(j) == lock' = IF lock = j THEN None ELSE lock

Leave(j) ==
    /\ Goto(j, "leave", "finish")
    /\ Release(j)
    /\ UNCHANGED <<status, work, store, late, database, interrupted>>

CutOff(j, points) ==
    interrupted' = IF at[j] \in points THEN interrupted \cup {j} ELSE interrupted

(* Any step may raise: the checksum that does not match, the statement     *)
(* timeout of the lock, the pipeline, the migration, its report.           *)
Raise(j) ==
    /\ at[j] \in Busy \cup {"lock"}
    /\ at' = [at EXCEPT ![j] = "raised"]
    /\ CutOff(j, {"rename"})
    /\ Release(j)
    /\ UNCHANGED <<status, work, store, late, database>>

(* succeed and fail leave a job alone that is not running any more.        *)
Finish(j) ==
    /\ at[j] \in {"finish", "raised"}
    /\ at' = [at EXCEPT ![j] = "done"]
    /\ status' = [status EXCEPT ![j] =
           IF @ # "running" THEN @ ELSE IF at[j] = "finish" THEN "succeeded" ELSE "failed"]
    /\ UNCHANGED <<work, lock, store, late, database, interrupted>>

-----------------------------------------------------------------------------
(* The faults                                                              *)

(* The job's time is up: the handler is cancelled and gives up the lock; a *)
(* thread that publishes is not cancelled with it.                         *)
Timeout(j) ==
    /\ at[j] \in Busy \cup {"lock"}
    /\ at' = [at EXCEPT ![j] = "raised"]
    /\ late' = [late EXCEPT ![j] = IF at[j] \in {"publish", "rename"} THEN at[j] ELSE "none"]
    /\ CutOff(j, {"publish", "rename"})
    /\ Release(j)
    /\ UNCHANGED <<status, work, store, database>>

LatePublish(j) ==
    /\ late[j] = "publish"
    /\ Put(j)
    /\ late' = [late EXCEPT ![j] = IF local THEN "rename" ELSE "none"]
    /\ UNCHANGED <<status, at, work, lock, database, interrupted>>

LateRename(j) ==
    /\ late[j] = "rename"
    /\ seal' = work[j]
    /\ late' = [late EXCEPT ![j] = "none"]
    /\ UNCHANGED <<status, at, work, lock, local, file, database, interrupted>>

(* The process is killed; the database gives up its lock.                  *)
Crash(j) ==
    /\ at[j] \notin {"queued", "done", "dead"}
    /\ at' = [at EXCEPT ![j] = "dead"]
    /\ late' = [late EXCEPT ![j] = "none"]
    /\ CutOff(j, {"rename"})
    /\ Release(j)
    /\ UNCHANGED <<status, work, store, database>>

(* The lease has run out, of a dead process or of one whose heartbeat has  *)
(* stopped while the handler goes on.                                      *)
Reap(j) ==
    /\ status[j] = "running"
    /\ status' = [status EXCEPT ![j] = "failed"]
    /\ UNCHANGED <<at, work, lock, store, late, database, interrupted>>

Next == \E j \in Jobs :
    \/ Claim(j) \/ Acquire(j) \/ Download(j) \/ Publish(j) \/ Rename(j)
    \/ Activate(j) \/ Report(j) \/ Link(j) \/ Leave(j) \/ Raise(j) \/ Finish(j)
    \/ Timeout(j) \/ LatePublish(j) \/ LateRename(j) \/ Crash(j) \/ Reap(j)

Spec == Init /\ [][Next]_vars

-----------------------------------------------------------------------------
(* Properties                                                              *)

(* What a succeeded job did is still in the snapshot, and what a succeeded *)
(* full run did in the dataset that is served: no later publication started*)
(* from an older snapshot, whoever was killed or lost its lease.  Provided *)
(* no timeout or kill has cut off a publication: a thread that outlives    *)
(* its handler publishes without the lock.                                 *)
NoWorkIsLost ==
    interrupted = {} => \A j \in Jobs : status[j] = "succeeded" =>
        j \in file /\ (j \in FullRuns => j \in dataset)

(* The active dataset and the links hold nothing the snapshot lacks, so the*)
(* next full run starts from what is served; under the same proviso.       *)
SnapshotCoversDatabase == interrupted = {} => dataset \cup linked \subseteq file
=============================================================================
