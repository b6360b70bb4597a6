---------------------------- MODULE ProfileLinks ----------------------------
(***************************************************************************)
(* One source funder: which profile it is linked to, the administrators    *)
(* who change that, the operators who have its profile cache filled, the   *)
(* worker that fills it, and the dataset switches underneath them all      *)
(* (SourceFunderRepository of src/src/bff/postgres/funder_repository.py).  *)
(* Transactions run at READ COMMITTED: they interleave between statements. *)
(***************************************************************************)
EXTENDS Naturals, FiniteSets

CONSTANTS
    Datasets,    \* dataset versions, all complete
    First,       \* the one that is active at the beginning
    Profiles,    \* profile ids
    Has,         \* the profiles of each dataset
    Observed,    \* the profile the facts of each dataset link, or NoProfile
    NoProfile,
    Jobs,        \* hydration jobs, named by their idempotency key
    Admins,      \* requests that change the link
    Callers,     \* requests that queue a hydration
    MaxRollbacks,\* bound on rollbacks of the dataset
    None

ASSUME DatasetAssumption == First \in Datasets
ASSUME ProfileAssumption ==
    /\ NoProfile \notin Profiles
    /\ Has \in [Datasets -> SUBSET Profiles]
    /\ Observed \in [Datasets -> Profiles \cup {NoProfile}]
    /\ \A d \in Datasets : Observed[d] \in Has[d] \cup {NoProfile}
ASSUME BoundAssumption == MaxRollbacks \in Nat

(* What an override, a link as it was read, and a cache row look like.     *)
Shown == Profiles \cup {NoProfile}
Overrides == [profile: Shown, dataset: Datasets \cup {None}, revision: Nat]
Links == [dataset: Datasets, profile: Shown, revision: Nat]
Payloads == [dataset: Datasets, profile: Shown]
Rows == [profile: Shown, status: {"pending", "ready", "failed"},
         payload: Payloads \cup {None}, token: Jobs, revision: Nat]

ASSUME NoneAssumption == None \notin Nat \cup Datasets \cup Overrides \cup Links \cup Rows

VARIABLES
    active,    \* the dataset that is_active
    served,    \* the datasets that were active once
    rollbacks, \* rollbacks so far
    override,  \* the row of source_funder_link_overrides, or None: profile (or
               \* NoProfile), dataset, revision
    cache,     \* the row of source_funder_profile_cache per dataset, or None:
               \* profile, status, payload, token (the job), revision
    job,       \* job_runs.status per idempotency key
    admin,     \* where each relink or reset stands
    caller,    \* where each queue request stands, its key, the link it has read
    worker,    \* where the worker of each job stands
    found      \* history: jobs that a request found under its key and created not

data == <<active, served, rollbacks>>
vars == <<data, override, cache, job, admin, caller, worker, found>>

Init ==
    /\ active = First /\ served = {First} /\ rollbacks = 0
    /\ override = None
    /\ cache = [d \in Datasets |-> None]
    /\ job = [k \in Jobs |-> "absent"]
    /\ admin = [a \in Admins |-> [at |-> "idle", dataset |-> None, profile |-> None,
                                  revision |-> None]]
    /\ caller = [c \in Callers |-> [at |-> "idle", key |-> None, link |-> None]]
    /\ worker = [k \in Jobs |-> [at |-> "idle", dataset |-> None, row |-> None,
                                 payload |-> None]]
    /\ found = {}

-----------------------------------------------------------------------------
(* The link                                                                *)

LinkOf(d) == IF override = None THEN Observed[d] ELSE override.profile
RevisionOf == IF override = None THEN 0 ELSE override.revision

(* SELECT ... FOR UPDATE keeps an existing override from everybody else.   *)
HasLock(a) == admin[a].at = "locked" /\ admin[a].revision # None
Locked == \E a \in Admins : HasLock(a)

(* relink to a profile of the active dataset, or reset to observed only.   *)
Open(a) ==
    /\ admin[a].at = "idle"
    /\ \E p \in Has[active] \cup {NoProfile} :
           admin' = [admin EXCEPT ![a] = [@ EXCEPT !.at = "open", !.dataset = active,
                                                   !.profile = p]]
    /\ UNCHANGED <<data, override, cache, job, caller, worker, found>>

Lock(a) ==
    /\ admin[a].at = "open" /\ ~Locked
    /\ admin' = [admin EXCEPT ![a].at = "locked",
                              ![a].revision = IF override = None THEN None
                                              ELSE override.revision]
    /\ UNCHANGED <<data, override, cache, job, caller, worker, found>>

NextRevision(a) == IF admin[a].revision = None THEN 0 ELSE admin[a].revision + 1

Write(a) ==
    LET link == admin[a].profile
    IN  /\ override' = [profile |-> link, revision |-> NextRevision(a),
                        dataset |-> IF link = NoProfile THEN None ELSE admin[a].dataset]
        /\ cache' = [cache EXCEPT ![admin[a].dataset] = None]
        /\ admin' = [admin EXCEPT ![a].at = "done", ![a].revision = NextRevision(a)]
        /\ UNCHANGED <<data, job, caller, worker, found>>

(* Mutant: the upsert without the trigger.                                 *)
CommitUntriggered(a) ==
    /\ admin[a].at = "locked" /\ (Locked => HasLock(a))
    /\ Write(a)

(* The upsert waits for a row another request has locked.  The trigger     *)
(* refuses an update whose revision is not the next one, which is what a   *)
(* request meets that found no row to lock and lost the race to insert it. *)
Commit(a) ==
    /\ admin[a].at = "locked" /\ (Locked => HasLock(a))
    /\ IF override = None \/ override.revision + 1 = NextRevision(a)
       THEN Write(a)
       ELSE /\ admin' = [admin EXCEPT ![a].at = "failed"]
            /\ UNCHANGED <<data, override, cache, job, caller, worker, found>>

-----------------------------------------------------------------------------
(* queue_profile_cache                                                     *)

(* The key is any: reservations keep apart the requests of one actor only, *)
(* and these for a day.                                                    *)
QueueRead(c) ==
    /\ caller[c].at = "idle"
    /\ \E k \in Jobs :
           caller' = [caller EXCEPT ![c] =
               [at |-> IF LinkOf(active) = NoProfile THEN "done" ELSE "read", key |-> k,
                link |-> [dataset |-> active, profile |-> LinkOf(active),
                          revision |-> RevisionOf]]]
    /\ UNCHANGED <<data, override, cache, job, admin, worker, found>>

(* Mutant: the revision is looked up again when the row is written.        *)
QueueWriteFreshRevision(c) ==
    LET link == caller[c].link
        k == caller[c].key
    IN  /\ caller[c].at = "read"
        /\ link.profile \in Has[link.dataset]
        /\ job' = [job EXCEPT ![k] = IF @ = "absent" THEN "queued" ELSE @]
        /\ cache' = [cache EXCEPT ![link.dataset] =
               [profile |-> link.profile, status |-> "pending", payload |-> None,
                token |-> k, revision |-> RevisionOf]]
        /\ found' = IF job[k] = "absent" THEN found ELSE found \cup {k}
        /\ caller' = [caller EXCEPT ![c].at = "done"]
        /\ UNCHANGED <<data, override, admin, worker>>

(* The job is found by its key, whatever became of it, or created.  The    *)
(* cache row refers to a profile of its dataset.                           *)
QueueWrite(c) ==
    LET link == caller[c].link
        k == caller[c].key
    IN  /\ caller[c].at = "read"
        /\ link.profile \in Has[link.dataset]
        /\ job' = [job EXCEPT ![k] = IF @ = "absent" THEN "queued" ELSE @]
        /\ cache' = [cache EXCEPT ![link.dataset] =
               [profile |-> link.profile, status |-> "pending", payload |-> None,
                token |-> k, revision |-> link.revision]]
        /\ found' = IF job[k] = "absent" THEN found ELSE found \cup {k}
        /\ caller' = [caller EXCEPT ![c].at = "done"]
        /\ UNCHANGED <<data, override, admin, worker>>

(* Refused by that foreign key or failing for a reason of its own.         *)
QueueFails(c) ==
    /\ caller[c].at = "read"
    /\ caller' = [caller EXCEPT ![c].at = "done"]
    /\ UNCHANGED <<data, override, cache, job, admin, worker, found>>

-----------------------------------------------------------------------------
(* The worker and hydrate_profile_cache                                    *)

Claim(k) ==
    /\ job[k] = "queued" /\ worker[k].at = "idle"
    /\ job' = [job EXCEPT ![k] = "running"]
    /\ worker' = [worker EXCEPT ![k].at = "read"]
    /\ UNCHANGED <<data, override, cache, admin, caller, found>>

WaitsFor(d, k) == cache[d] # None /\ cache[d].status = "pending" /\ cache[d].token = k

HydrateRead(k) ==
    /\ worker[k].at = "read"
    /\ \/ \E d \in Datasets :
              /\ WaitsFor(d, k)
              /\ worker' = [worker EXCEPT ![k] = [@ EXCEPT !.at = "detail", !.dataset = d,
                                                           !.row = cache[d]]]
       \/ /\ \A d \in Datasets : ~WaitsFor(d, k)
          /\ worker' = [worker EXCEPT ![k].at = "fail"]
    /\ UNCHANGED <<data, override, cache, job, admin, caller, found>>

(* The profile is read from the dataset that is active by now; it may be   *)
(* missing there, and the query may fail.                                  *)
HydrateDetail(k) ==
    LET p == worker[k].row.profile
    IN  /\ worker[k].at = "detail"
        /\ \/ /\ p \in Has[active]
              /\ worker' = [worker EXCEPT ![k] =
                     [@ EXCEPT !.at = "write",
                               !.payload = [dataset |-> active, profile |-> p]]]
           \/ worker' = [worker EXCEPT ![k].at = "fail"]
        /\ UNCHANGED <<data, override, cache, job, admin, caller, found>>

Hydrated(k) ==
    cache' = [cache EXCEPT ![worker[k].dataset] =
                  [@ EXCEPT !.status = "ready", !.payload = worker[k].payload]]

(* Mutant: the row is addressed by its primary key alone.                  *)
HydrateWriteByKey(k) ==
    /\ worker[k].at = "write"
    /\ cache[worker[k].dataset] # None
    /\ Hydrated(k)
    /\ worker' = [worker EXCEPT ![k].at = "succeed"]
    /\ UNCHANGED <<data, override, job, admin, caller, found>>

(* Only the row it has read, unchanged in everything that identifies it.   *)
HydrateWrite(k) ==
    LET d == worker[k].dataset
    IN  /\ worker[k].at = "write"
        /\ \/ /\ cache[d] = worker[k].row
              /\ Hydrated(k)
              /\ worker' = [worker EXCEPT ![k].at = "succeed"]
           \/ /\ cache[d] # worker[k].row
              /\ worker' = [worker EXCEPT ![k].at = "fail"]
              /\ UNCHANGED cache
        /\ UNCHANGED <<data, override, job, admin, caller, found>>

(* fail and the reaper release what waits for the job.                     *)
Released(k) ==
    cache' = [d \in Datasets |-> IF WaitsFor(d, k) THEN [cache[d] EXCEPT !.status = "failed"]
                                 ELSE cache[d]]

(* Mutant: the job fails and the row goes on waiting.                      *)
FinishWithoutRelease(k) ==
    /\ worker[k].at \in {"succeed", "fail"}
    /\ worker' = [worker EXCEPT ![k].at = "done"]
    /\ job' = [job EXCEPT ![k] = IF @ # "running" THEN @
                                 ELSE IF worker[k].at = "fail" THEN "failed" ELSE "succeeded"]
    /\ UNCHANGED <<data, override, cache, admin, caller, found>>

(* succeed or fail; both refuse a job that is not running any more.        *)
Finish(k) ==
    /\ worker[k].at \in {"succeed", "fail"}
    /\ worker' = [worker EXCEPT ![k].at = "done"]
    /\ \/ /\ job[k] = "running" /\ worker[k].at = "succeed"
          /\ job' = [job EXCEPT ![k] = "succeeded"]
          /\ UNCHANGED cache
       \/ /\ job[k] = "running" /\ worker[k].at = "fail"
          /\ job' = [job EXCEPT ![k] = "failed"]
          /\ Released(k)
       \/ job[k] # "running" /\ UNCHANGED <<job, cache>>
    /\ UNCHANGED <<data, override, admin, caller, found>>

(* The lease has run out; the worker may still be at work.                 *)
Reap(k) ==
    /\ job[k] = "running"
    /\ job' = [job EXCEPT ![k] = "failed"]
    /\ Released(k)
    /\ UNCHANGED <<data, override, admin, caller, worker, found>>

(* retire_jobs cancels the job and leaves the row that waits for it; the   *)
(* worker of a running one may still be at work.                           *)
Retire(k) ==
    /\ job[k] \in {"queued", "running"}
    /\ job' = [job EXCEPT ![k] = "cancelled"]
    /\ UNCHANGED <<data, override, cache, admin, caller, worker, found>>

-----------------------------------------------------------------------------
(* The dataset switches                                                    *)

(* An activation takes the override along when its profile is in d.        *)
Activate(d) ==
    LET moves == override # None /\ override.profile \in Has[d] /\ override.dataset # d
    IN  /\ d \notin served
        /\ moves => ~Locked
        /\ active' = d /\ served' = served \cup {d}
        /\ override' = IF moves THEN [override EXCEPT !.dataset = d, !.revision = @ + 1]
                                ELSE override
        /\ UNCHANGED <<rollbacks, cache, job, admin, caller, worker, found>>

Rollback(d) ==
    /\ d \in served \ {active} /\ rollbacks < MaxRollbacks
    /\ active' = d
    /\ rollbacks' = rollbacks + 1
    /\ UNCHANGED <<served, override, cache, job, admin, caller, worker, found>>

Next ==
    \/ \E a \in Admins : Open(a) \/ Lock(a) \/ Commit(a)
    \/ \E c \in Callers : QueueRead(c) \/ QueueWrite(c) \/ QueueFails(c)
    \/ \E k \in Jobs : Claim(k) \/ HydrateRead(k) \/ HydrateDetail(k) \/ HydrateWrite(k)
                       \/ Finish(k) \/ Reap(k) \/ Retire(k)
    \/ \E d \in Datasets : Activate(d) \/ Rollback(d)

Spec == Init /\ [][Next]_vars

-----------------------------------------------------------------------------
(* Properties                                                              *)

(* The payload of a ready row is that of its own profile, whatever happened*)
(* to the row between the three transactions of the hydration.             *)
PayloadIsOfRow ==
    \A d \in Datasets : cache[d] # None /\ cache[d].status = "ready" =>
        cache[d].payload.profile = cache[d].profile

(* No worker's end leaves a row waiting, be it late, reaped or refused: a  *)
(* row waits for a job that is over only if retire_jobs cancelled the job  *)
(* or a request found it under a key that had been used before.            *)
PendingHasWork ==
    \A d \in Datasets : cache[d] # None /\ cache[d].status = "pending" =>
        \/ job[cache[d].token] \in {"queued", "running", "cancelled"}
        \/ cache[d].token \in found

(* No two changes of the link were answered with the same revision.        *)
RevisionsAreDistinct ==
    \A a, b \in Admins : admin[a].at = "done" /\ admin[b].at = "done" /\ a # b =>
        admin[a].revision # admin[b].revision

(* A cached profile and its link_revision belong together: a row that      *)
(* carries the current revision of the override shows the profile the      *)
(* funder is linked to, so a reader that compares revisions is not misled. *)
(* Revision 0 is both "no override" and the first one, and proves nothing. *)
RevisionTellsLink ==
    \A d \in Datasets : cache[d] # None /\ RevisionOf > 0 /\ cache[d].revision = RevisionOf =>
        cache[d].profile = LinkOf(d)

(* What profile_cache answers is the profile the funder is linked to, at   *)
(* the revision of the link: ADR-016, "Source-funder override revisions are*)
(* locked and incremented in the same transaction that invalidates profile *)
(* cache state".                                                           *)
ServedIsLinked ==
    cache[active] # None /\ cache[active].status = "ready" =>
        /\ cache[active].profile = LinkOf(active)
        /\ cache[active].revision = RevisionOf
=============================================================================
