-------------------------- MODULE ProfileLinksProofs ---------------------------
(***************************************************************************)
(* Theorems about ProfileLinks for any sets of datasets, profiles, jobs,   *)
(* administrators and callers, and any number of rollbacks.                *)
(***************************************************************************)
EXTENDS ProfileLinks, TLAPS

USE DatasetAssumption, ProfileAssumption, NoneAssumption

AdminPoints == {"idle", "open", "locked", "done", "failed"}
WorkerPoints == {"idle", "read", "detail", "write", "succeed", "fail", "done"}
AdminStates == [at: AdminPoints, dataset: Datasets \cup {None}, profile: Shown \cup {None},
                revision: Nat \cup {None}]
CallerStates == [at: {"idle", "read", "done"}, key: Jobs \cup {None}, link: Links \cup {None}]
JobStatuses == {"absent", "queued", "running", "succeeded", "failed", "cancelled"}
WorkerStates == [at: WorkerPoints, dataset: Datasets \cup {None}, row: Rows \cup {None},
                 payload: Payloads \cup {None}]

LTypeOK ==
    /\ active \in Datasets /\ served \in SUBSET Datasets
    /\ override \in Overrides \cup {None}
    /\ cache \in [Datasets -> Rows \cup {None}]
    /\ job \in [Jobs -> JobStatuses]
    /\ admin \in [Admins -> AdminStates]
    /\ caller \in [Callers -> CallerStates]
    /\ worker \in [Jobs -> WorkerStates]

(* What a request or a worker carries from one of its transactions to the  *)
(* next one.                                                               *)
AdminFits ==
    \A a \in Admins :
        /\ admin[a].at \in {"open", "locked"} =>
              admin[a].dataset \in Datasets /\ admin[a].profile \in Shown
        /\ admin[a].at = "locked" /\ admin[a].revision # None => override # None
CallerFits ==
    \A c \in Callers : caller[c].at = "read" => caller[c].link \in Links /\ caller[c].key \in Jobs
WorkerFits ==
    \A k \in Jobs :
        /\ worker[k].at \in {"detail", "write"} =>
              /\ worker[k].dataset \in Datasets /\ worker[k].row \in Rows
              /\ worker[k].row.status = "pending" /\ worker[k].row.token = k
        /\ worker[k].at = "write" =>
              worker[k].payload \in Payloads /\ worker[k].payload.profile = worker[k].row.profile

(* The revision of the override runs ahead of every revision that anybody  *)
(* has read, cached or been answered, and one that is equal to it belongs  *)
(* to the profile of now.                                                  *)
AnswersAreBehind ==
    \A a \in Admins : admin[a].at = "done" =>
        override # None /\ admin[a].revision \in Nat /\ admin[a].revision <= RevisionOf
ReadsAreBehind ==
    \A c \in Callers : caller[c].at = "read" =>
        /\ caller[c].link.revision <= RevisionOf
        /\ RevisionOf > 0 /\ caller[c].link.revision = RevisionOf =>
              caller[c].link.profile = override.profile
RowsAreBehind ==
    \A d \in Datasets : cache[d] # None =>
        /\ cache[d].revision <= RevisionOf
        /\ RevisionOf > 0 /\ cache[d].revision = RevisionOf => cache[d].profile = override.profile

PInv == /\ LTypeOK /\ AdminFits /\ CallerFits /\ WorkerFits /\ PayloadIsOfRow
        /\ AnswersAreBehind /\ ReadsAreBehind /\ RowsAreBehind /\ RevisionsAreDistinct

LEMMA InitPInv == Init => PInv
<1> SUFFICES ASSUME Init PROVE PInv
    OBVIOUS
<1>1. LTypeOK
    BY DEF Init, LTypeOK, JobStatuses, AdminStates, CallerStates, WorkerStates, AdminPoints, WorkerPoints
<1> QED
    BY <1>1 DEF Init, PInv, AdminFits, CallerFits, WorkerFits, PayloadIsOfRow, AnswersAreBehind,
                ReadsAreBehind, RowsAreBehind, RevisionsAreDistinct

(* The revision is 0 without an override, and a natural number with one.   *)
LEMMA RevisionType ==
    ASSUME LTypeOK
    PROVE  RevisionOf \in Nat /\ (override # None => override.profile \in Shown)
BY DEF LTypeOK, RevisionOf, Overrides

LEMMA RowType ==
    ASSUME LTypeOK, NEW d \in Datasets, cache[d] # None
    PROVE  /\ cache[d] \in Rows /\ cache[d].revision \in Nat /\ cache[d].token \in Jobs
           /\ cache[d].profile \in Shown
BY DEF LTypeOK, Rows

(* A worker at another point is still a worker.                            *)
LEMMA WorkerGoes ==
    ASSUME LTypeOK, NEW k \in Jobs, NEW p \in WorkerPoints, worker' = [worker EXCEPT ![k].at = p]
    PROVE  /\ worker' \in [Jobs -> WorkerStates]
           /\ \A j \in Jobs \ {k} : worker'[j] = worker[j]
           /\ worker'[k].at = p
<1>1. worker \in [Jobs -> WorkerStates]
    BY DEF LTypeOK
<1> DEFINE x == [worker[k] EXCEPT !.at = p]
<1>2. worker[k] \in WorkerStates
    BY <1>1
<1>3. x \in WorkerStates /\ x.at = p
    BY <1>2 DEF WorkerStates
<1> HIDE DEF x
<1>4. worker' = [worker EXCEPT ![k] = x]
    BY DEF x
<1> QED
    BY <1>1, <1>3, <1>4

-----------------------------------------------------------------------------
(* One lemma per group of steps: they keep PInv.                           *)

(* A step that touches neither the override nor the cache.                 *)
LEMMA AdminMoves ==
    ASSUME PInv, NEW a \in Admins, NEW x \in AdminStates, admin' = [admin EXCEPT ![a] = x],
           x.at \in {"open", "locked", "failed"},
           x.at # "failed" => x.dataset \in Datasets /\ x.profile \in Shown,
           x.at = "locked" /\ x.revision # None => override # None,
           UNCHANGED <<data, override, cache, job, caller, worker>>
    PROVE  PInv'
<1>1. LTypeOK'
    BY DEF PInv, LTypeOK, data
<1>2. \A b \in Admins : admin'[b] = IF b = a THEN x ELSE admin[b]
    BY DEF PInv, LTypeOK
<1>3. AdminFits' /\ AnswersAreBehind' /\ RevisionsAreDistinct'
    BY <1>2 DEF PInv, AdminFits, AnswersAreBehind, RevisionsAreDistinct, RevisionOf
<1>4. CallerFits' /\ WorkerFits' /\ PayloadIsOfRow' /\ ReadsAreBehind' /\ RowsAreBehind'
    BY DEF PInv, CallerFits, WorkerFits, PayloadIsOfRow, ReadsAreBehind, RowsAreBehind, RevisionOf
<1> QED
    BY <1>1, <1>3, <1>4 DEF PInv

LEMMA OpenKeeps == ASSUME PInv, NEW a \in Admins, Open(a) PROVE PInv'
<1>1. admin[a] \in AdminStates /\ active \in Datasets
    BY DEF PInv, LTypeOK
<1>2. PICK p \in Has[active] \cup {NoProfile} :
         admin' = [admin EXCEPT ![a] = [@ EXCEPT !.at = "open", !.dataset = active, !.profile = p]]
    BY DEF Open
<1>3. p \in Shown
    BY <1>1 DEF Shown
<1> DEFINE x == [admin[a] EXCEPT !.at = "open", !.dataset = active, !.profile = p]
<1>4. x \in AdminStates /\ x.at = "open" /\ x.dataset = active /\ x.profile = p
    BY <1>1, <1>3 DEF AdminStates, AdminPoints
<1>5. admin' = [admin EXCEPT ![a] = x]
    BY <1>2
<1> HIDE DEF x
<1> QED
    BY <1>1, <1>3, <1>4, <1>5, AdminMoves DEF Open

LEMMA LockKeeps == ASSUME PInv, NEW a \in Admins, Lock(a) PROVE PInv'
<1>1. /\ admin[a] \in AdminStates /\ admin[a].dataset \in Datasets /\ admin[a].profile \in Shown
      /\ override \in Overrides \cup {None}
    BY DEF PInv, LTypeOK, AdminFits, Lock
<1> DEFINE rev == IF override = None THEN None ELSE override.revision
<1> DEFINE x == [admin[a] EXCEPT !.at = "locked", !.revision = rev]
<1>2. rev \in Nat \cup {None} /\ (rev # None => override # None)
    BY <1>1 DEF Overrides
<1>3. /\ x \in AdminStates /\ x.at = "locked" /\ x.dataset = admin[a].dataset
      /\ x.profile = admin[a].profile /\ x.revision = rev
    BY <1>1, <1>2 DEF AdminStates, AdminPoints
<1>4. admin' = [admin EXCEPT ![a] = x]
    BY DEF Lock
<1> HIDE DEF x, rev
<1> QED
    BY <1>1, <1>2, <1>3, <1>4, AdminMoves DEF Lock

LEMMA WriteKeeps ==
    ASSUME PInv, NEW a \in Admins, admin[a].at = "locked", Write(a),
           override = None \/ override.revision + 1 = NextRevision(a)
    PROVE  PInv'
<1> DEFINE link == admin[a].profile
           d == admin[a].dataset
           rev == NextRevision(a)
           row == [profile |-> link, revision |-> rev, dataset |-> IF link = NoProfile THEN None ELSE d]
<1>1. admin[a] \in AdminStates /\ d \in Datasets /\ link \in Shown
    BY DEF PInv, LTypeOK, AdminFits
<1>2. rev \in Nat /\ (override = None => rev = 0) /\ (override # None => rev = RevisionOf + 1)
    BY <1>1 DEF NextRevision, AdminStates, PInv, AdminFits, RevisionOf
<1>3. row \in Overrides /\ row # None /\ override' = row
    BY <1>1, <1>2 DEF Overrides, Write
<1>4. RevisionOf \in Nat /\ RevisionOf' = rev /\ override' # None /\ override'.profile = link
    BY <1>3, RevisionType DEF PInv, RevisionOf
<1>5. cache' = [cache EXCEPT ![d] = None]
    BY DEF Write
<1> DEFINE x == [admin[a] EXCEPT !.at = "done", !.revision = rev]
<1>6. /\ x \in AdminStates /\ x.at = "done" /\ x.revision = rev
      /\ admin' = [admin EXCEPT ![a] = x]
  <2>1. x \in AdminStates /\ x.at = "done" /\ x.revision = rev
      BY <1>1, <1>2 DEF AdminStates, AdminPoints
  <2> QED
      BY <2>1 DEF Write
<1>7. UNCHANGED <<data, job, caller, worker>>
    BY DEF Write
<1> HIDE DEF row, x, rev, d, link
<1>8. LTypeOK'
    BY <1>1, <1>3, <1>5, <1>6, <1>7 DEF PInv, LTypeOK, data
<1>9. \A b \in Admins : admin'[b] = IF b = a THEN x ELSE admin[b]
    BY <1>6 DEF PInv, LTypeOK
<1>10. AdminFits'
    BY <1>4, <1>6, <1>9 DEF PInv, AdminFits
<1>11. \A b \in Admins : admin[b].at = "done" =>
                             admin[b].revision \in Nat /\ admin[b].revision < rev
    BY <1>2, <1>4 DEF PInv, AnswersAreBehind
<1>12. AnswersAreBehind' /\ RevisionsAreDistinct'
    BY <1>2, <1>4, <1>6, <1>9, <1>11 DEF PInv, AnswersAreBehind, RevisionsAreDistinct
<1>13. \A c \in Callers : caller[c].at = "read" =>
          /\ caller[c].link.revision \in Nat /\ caller[c].link.revision <= rev
          /\ rev > 0 => caller[c].link.revision < rev
    BY <1>2, <1>4 DEF PInv, ReadsAreBehind, CallerFits, Links, RevisionOf
<1>14. \A e \in Datasets : cache[e] # None =>
          /\ cache[e].revision \in Nat /\ cache[e].revision <= rev
          /\ rev > 0 => cache[e].revision < rev
    BY <1>2, <1>4, RowType DEF PInv, RowsAreBehind, RevisionOf
<1>15. ReadsAreBehind'
    BY <1>4, <1>7, <1>13 DEF ReadsAreBehind
<1>16. \A e \in Datasets : cache'[e] # None => cache'[e] = cache[e]
    BY <1>5 DEF PInv, LTypeOK
<1>17. RowsAreBehind'
    BY <1>4, <1>14, <1>16 DEF RowsAreBehind
<1>18. PayloadIsOfRow'
    BY <1>16 DEF PInv, PayloadIsOfRow
<1>19. CallerFits' /\ WorkerFits'
    BY <1>7 DEF PInv, CallerFits, WorkerFits
<1> QED
    BY <1>8, <1>10, <1>12, <1>15, <1>17, <1>18, <1>19 DEF PInv

LEMMA CommitKeeps == ASSUME PInv, NEW a \in Admins, Commit(a) PROVE PInv'
<1>1. CASE Write(a) /\ (override = None \/ override.revision + 1 = NextRevision(a))
    BY <1>1, WriteKeeps DEF Commit
<1>2. CASE /\ admin' = [admin EXCEPT ![a].at = "failed"]
           /\ UNCHANGED <<data, override, cache, job, caller, worker>>
  <2> DEFINE x == [admin[a] EXCEPT !.at = "failed"]
  <2>1. x \in AdminStates /\ x.at = "failed"
    <3>1. admin[a] \in AdminStates
        BY DEF PInv, LTypeOK
    <3> QED
        BY <3>1 DEF AdminStates, AdminPoints
  <2>2. admin' = [admin EXCEPT ![a] = x]
      BY <1>2
  <2> HIDE DEF x
  <2> QED
      BY <1>2, <2>1, <2>2, AdminMoves
<1> QED
    BY <1>1, <1>2 DEF Commit

LEMMA QueueReadKeeps == ASSUME PInv, NEW c \in Callers, QueueRead(c) PROVE PInv'
<1> DEFINE link == [dataset |-> active, profile |-> LinkOf(active), revision |-> RevisionOf]
<1>0. PICK k \in Jobs :
         caller' = [caller EXCEPT ![c] =
             [at |-> IF LinkOf(active) = NoProfile THEN "done" ELSE "read", key |-> k,
              link |-> link]]
    BY DEF QueueRead
<1> DEFINE x == [at |-> IF LinkOf(active) = NoProfile THEN "done" ELSE "read", key |-> k,
                 link |-> link]
<1>1. active \in Datasets /\ RevisionOf \in Nat /\ LinkOf(active) \in Shown
    BY RevisionType DEF PInv, LTypeOK, LinkOf, Shown
<1>2. link \in Links /\ x \in CallerStates /\ x.link = link /\ x.key = k
    BY <1>1 DEF Links, CallerStates
<1>3. link.revision = RevisionOf /\ (override # None => link.profile = override.profile)
    BY DEF LinkOf
<1>4. caller' = [caller EXCEPT ![c] = x]
    BY <1>0
<1>5. RevisionOf > 0 => override # None
    BY DEF RevisionOf
<1> HIDE DEF x, link
<1>6. LTypeOK'
    BY <1>2, <1>4 DEF PInv, LTypeOK, QueueRead, data
<1>7. \A b \in Callers : caller'[b] = IF b = c THEN x ELSE caller[b]
    BY <1>4 DEF PInv, LTypeOK
<1>8. CallerFits' /\ ReadsAreBehind'
    BY <1>1, <1>2, <1>3, <1>5, <1>7 DEF PInv, CallerFits, ReadsAreBehind, QueueRead, RevisionOf
<1>9. AdminFits' /\ WorkerFits' /\ PayloadIsOfRow' /\ AnswersAreBehind' /\ RowsAreBehind'
      /\ RevisionsAreDistinct'
    BY DEF PInv, AdminFits, WorkerFits, PayloadIsOfRow, AnswersAreBehind, RowsAreBehind,
           RevisionsAreDistinct, RevisionOf, QueueRead
<1> QED
    BY <1>6, <1>8, <1>9 DEF PInv

(* A request that is done with the queue carries nothing on.               *)
LEMMA CallerEnds ==
    ASSUME PInv, NEW c \in Callers, caller' = [caller EXCEPT ![c].at = "done"]
    PROVE  /\ caller' \in [Callers -> CallerStates]
           /\ \A b \in Callers : caller'[b].at = "read" =>
                                caller'[b] = caller[b] /\ caller[b].at = "read"
BY DEF PInv, LTypeOK, CallerStates

LEMMA QueueWriteKeeps == ASSUME PInv, NEW c \in Callers, QueueWrite(c) PROVE PInv'
<1> DEFINE link == caller[c].link
           d == link.dataset
           row == [profile |-> link.profile, status |-> "pending", payload |-> None,
                   token |-> caller[c].key, revision |-> link.revision]
<1>1. link \in Links /\ d \in Datasets /\ row \in Rows /\ caller[c].key \in Jobs
    BY DEF PInv, CallerFits, QueueWrite, Links, Rows
<1>2. /\ row.status = "pending" /\ row.revision = link.revision /\ row.profile = link.profile
      /\ cache' = [cache EXCEPT ![d] = row]
    BY DEF QueueWrite
<1>3. /\ link.revision <= RevisionOf
      /\ RevisionOf > 0 /\ link.revision = RevisionOf => link.profile = override.profile
    BY DEF PInv, ReadsAreBehind, QueueWrite
<1>4. /\ caller' \in [Callers -> CallerStates]
      /\ \A b \in Callers : caller'[b].at = "read" =>
                                caller'[b] = caller[b] /\ caller[b].at = "read"
    BY CallerEnds DEF QueueWrite
<1> HIDE DEF row
<1>5. job' \in [Jobs -> JobStatuses]
    BY <1>1 DEF PInv, LTypeOK, JobStatuses, QueueWrite
<1>6. UNCHANGED <<data, override, admin, worker>>
    BY DEF QueueWrite
<1> HIDE DEF link, d
<1>7. LTypeOK'
    BY <1>1, <1>2, <1>4, <1>5, <1>6 DEF PInv, LTypeOK, data
<1>8. \A e \in Datasets : cache'[e] = IF e = d THEN row ELSE cache[e]
    BY <1>2 DEF PInv, LTypeOK
<1>9. RowsAreBehind' /\ PayloadIsOfRow'
    BY <1>2, <1>3, <1>6, <1>8 DEF PInv, RowsAreBehind, PayloadIsOfRow, RevisionOf
<1>10. CallerFits' /\ ReadsAreBehind'
    BY <1>4, <1>6 DEF PInv, CallerFits, ReadsAreBehind, RevisionOf
<1>11. AdminFits' /\ WorkerFits' /\ AnswersAreBehind' /\ RevisionsAreDistinct'
    BY <1>6 DEF PInv, AdminFits, WorkerFits, AnswersAreBehind, RevisionsAreDistinct, RevisionOf
<1> QED
    BY <1>7, <1>9, <1>10, <1>11 DEF PInv

LEMMA QueueFailsKeeps == ASSUME PInv, NEW c \in Callers, QueueFails(c) PROVE PInv'
<1>1. /\ caller' \in [Callers -> CallerStates]
      /\ \A b \in Callers : caller'[b].at = "read" =>
                                caller'[b] = caller[b] /\ caller[b].at = "read"
    BY CallerEnds DEF QueueFails
<1>2. UNCHANGED <<data, override, cache, job, admin, worker>>
    BY DEF QueueFails
<1>3. LTypeOK'
    BY <1>1, <1>2 DEF PInv, LTypeOK, data
<1> QED
    BY <1>1, <1>2, <1>3
    DEF PInv, AdminFits, CallerFits, WorkerFits, PayloadIsOfRow, AnswersAreBehind, ReadsAreBehind,
        RowsAreBehind, RevisionsAreDistinct, RevisionOf

(* A worker moves; the rows keep profile and revision, and a row that is   *)
(* ready has its own payload.                                              *)
LEMMA WorkKeeps ==
    ASSUME PInv, LTypeOK', WorkerFits', UNCHANGED <<data, override, admin, caller>>,
           \A d \in Datasets : cache'[d] # None =>
              /\ cache[d] # None /\ cache'[d].profile = cache[d].profile
              /\ cache'[d].revision = cache[d].revision
              /\ cache'[d].status = "ready" => cache'[d].payload.profile = cache[d].profile
    PROVE  PInv'
<1>1. PayloadIsOfRow' /\ RowsAreBehind'
    BY DEF PInv, PayloadIsOfRow, RowsAreBehind, RevisionOf
<1> QED
    BY <1>1 DEF PInv, AdminFits, CallerFits, AnswersAreBehind, ReadsAreBehind,
                RevisionsAreDistinct, RevisionOf

LEMMA RowsStay ==
    ASSUME PInv, UNCHANGED cache, NEW d \in Datasets, cache'[d] # None
    PROVE  /\ cache[d] # None /\ cache'[d].profile = cache[d].profile
           /\ cache'[d].revision = cache[d].revision
           /\ cache'[d].status = "ready" => cache'[d].payload.profile = cache[d].profile
BY DEF PInv, PayloadIsOfRow

LEMMA RowsAreReleased ==
    ASSUME PInv, NEW k \in Jobs, Released(k)
    PROVE  /\ cache' \in [Datasets -> Rows \cup {None}]
           /\ \A d \in Datasets : cache'[d] # None =>
                 /\ cache[d] # None /\ cache'[d].profile = cache[d].profile
                 /\ cache'[d].revision = cache[d].revision
                 /\ cache'[d].status = "ready" => cache'[d].payload.profile = cache[d].profile
<1>1. \A d \in Datasets : WaitsFor(d, k) =>
         /\ cache[d] # None /\ [cache[d] EXCEPT !.status = "failed"] \in Rows
         /\ [cache[d] EXCEPT !.status = "failed"].profile = cache[d].profile
         /\ [cache[d] EXCEPT !.status = "failed"].revision = cache[d].revision
         /\ [cache[d] EXCEPT !.status = "failed"].status = "failed"
    BY RowType DEF PInv, WaitsFor, Rows
<1>2. \A d \in Datasets :
         cache'[d] = IF WaitsFor(d, k) THEN [cache[d] EXCEPT !.status = "failed"] ELSE cache[d]
    BY DEF Released
<1>3. cache' \in [Datasets -> Rows \cup {None}]
    BY <1>1 DEF Released, PInv, LTypeOK
<1> QED
    BY <1>1, <1>2, <1>3 DEF PInv, PayloadIsOfRow

(* A worker that does not go on to "detail" or "write" carries nothing.    *)
LEMMA WorkerLeaves ==
    ASSUME PInv, NEW k \in Jobs, NEW p \in WorkerPoints \ {"detail", "write"},
           worker' = [worker EXCEPT ![k].at = p]
    PROVE  worker' \in [Jobs -> WorkerStates] /\ WorkerFits'
<1>1. /\ worker' \in [Jobs -> WorkerStates]
      /\ \A j \in Jobs \ {k} : worker'[j] = worker[j]
      /\ worker'[k].at = p
    BY WorkerGoes DEF PInv
<1>2. WorkerFits'
    BY <1>1 DEF PInv, WorkerFits
<1> QED
    BY <1>1, <1>2

LEMMA ClaimKeeps == ASSUME PInv, NEW k \in Jobs, Claim(k) PROVE PInv'
<1>1. worker' \in [Jobs -> WorkerStates] /\ WorkerFits'
    BY WorkerLeaves DEF Claim, WorkerPoints
<1>2. LTypeOK'
    BY <1>1 DEF PInv, LTypeOK, JobStatuses, Claim, data
<1> QED
    BY <1>1, <1>2, WorkKeeps, RowsStay DEF Claim

LEMMA HydrateReadKeeps == ASSUME PInv, NEW k \in Jobs, HydrateRead(k) PROVE PInv'
<1>1. CASE \E d \in Datasets :
              /\ WaitsFor(d, k)
              /\ worker' = [worker EXCEPT ![k] = [@ EXCEPT !.at = "detail", !.dataset = d,
                                                           !.row = cache[d]]]
  <2>1. PICK d \in Datasets :
              /\ WaitsFor(d, k)
              /\ worker' = [worker EXCEPT ![k] = [@ EXCEPT !.at = "detail", !.dataset = d,
                                                           !.row = cache[d]]]
      BY <1>1
  <2>2. cache[d] \in Rows /\ cache[d].status = "pending" /\ cache[d].token = k
      BY <2>1, RowType DEF WaitsFor, PInv
  <2> DEFINE x == [worker[k] EXCEPT !.at = "detail", !.dataset = d, !.row = cache[d]]
  <2>3. /\ x \in WorkerStates /\ x.at = "detail" /\ x.dataset = d /\ x.row = cache[d]
        /\ worker' = [worker EXCEPT ![k] = x]
    <3>1. worker[k] \in WorkerStates
        BY DEF PInv, LTypeOK
    <3>2. x \in WorkerStates /\ x.at = "detail" /\ x.dataset = d /\ x.row = cache[d]
        BY <2>2, <3>1 DEF WorkerStates, WorkerPoints
    <3> QED
        BY <2>1, <3>2
  <2> HIDE DEF x
  <2>4. LTypeOK'
      BY <2>3 DEF PInv, LTypeOK, HydrateRead, data
  <2>5. \A i \in Jobs : worker'[i] = IF i = k THEN x ELSE worker[i]
      BY <2>3 DEF PInv, LTypeOK
  <2>6. d \in Datasets
      BY DEF PInv, LTypeOK
  <2>7. WorkerFits'
      BY <2>2, <2>3, <2>5, <2>6 DEF PInv, WorkerFits
  <2> QED
      BY <2>4, <2>7, WorkKeeps, RowsStay DEF HydrateRead
<1>2. CASE worker' = [worker EXCEPT ![k].at = "fail"]
  <2>1. worker' \in [Jobs -> WorkerStates] /\ WorkerFits'
      BY <1>2, WorkerLeaves DEF WorkerPoints
  <2>2. LTypeOK'
      BY <2>1 DEF PInv, LTypeOK, HydrateRead, data
  <2> QED
      BY <2>1, <2>2, WorkKeeps, RowsStay DEF HydrateRead
<1> QED
    BY <1>1, <1>2 DEF HydrateRead

LEMMA HydrateDetailKeeps == ASSUME PInv, NEW k \in Jobs, HydrateDetail(k) PROVE PInv'
<1> DEFINE p == worker[k].row.profile
           payload == [dataset |-> active, profile |-> p]
           x == [worker[k] EXCEPT !.at = "write", !.payload = payload]
<1>1. /\ worker[k] \in WorkerStates /\ worker[k].row \in Rows /\ worker[k].dataset \in Datasets
      /\ worker[k].row.status = "pending" /\ worker[k].row.token = k
    BY DEF PInv, LTypeOK, WorkerFits, HydrateDetail
<1>2. CASE worker' = [worker EXCEPT ![k] = x]
  <2>1. payload \in Payloads /\ payload.profile = p
      BY <1>1 DEF PInv, LTypeOK, Payloads, Rows
  <2> HIDE DEF payload
  <2>2. /\ x \in WorkerStates /\ x.at = "write" /\ x.dataset = worker[k].dataset
        /\ x.row = worker[k].row /\ x.payload = payload
      BY <1>1, <2>1 DEF WorkerStates, WorkerPoints
  <2> HIDE DEF x
  <2>3. LTypeOK' /\ WorkerFits'
      BY <1>1, <1>2, <2>1, <2>2 DEF PInv, LTypeOK, WorkerFits, HydrateDetail, data
  <2> QED
      BY <2>3, WorkKeeps, RowsStay DEF HydrateDetail
<1>3. CASE worker' = [worker EXCEPT ![k].at = "fail"]
  <2>1. worker' \in [Jobs -> WorkerStates] /\ WorkerFits'
      BY <1>3, WorkerLeaves DEF WorkerPoints
  <2>2. LTypeOK'
      BY <2>1 DEF PInv, LTypeOK, HydrateDetail, data
  <2> QED
      BY <2>1, <2>2, WorkKeeps, RowsStay DEF HydrateDetail
<1> QED
    BY <1>2, <1>3 DEF HydrateDetail

LEMMA HydrateWriteKeeps == ASSUME PInv, NEW k \in Jobs, HydrateWrite(k) PROVE PInv'
<1> DEFINE d == worker[k].dataset
           row == [cache[d] EXCEPT !.status = "ready", !.payload = worker[k].payload]
<1>1. /\ d \in Datasets /\ worker[k].row \in Rows
      /\ worker[k].payload \in Payloads /\ worker[k].payload.profile = worker[k].row.profile
    BY DEF PInv, WorkerFits, HydrateWrite
<1>2. UNCHANGED <<data, override, job, admin, caller>>
    BY DEF HydrateWrite
<1>3. WorkerFits' /\ worker' \in [Jobs -> WorkerStates]
    BY WorkerLeaves DEF HydrateWrite, WorkerPoints
<1>4. CASE cache[d] = worker[k].row /\ Hydrated(k)
  <2>1. /\ row \in Rows /\ row.profile = cache[d].profile /\ row.revision = cache[d].revision
        /\ row.payload.profile = cache[d].profile /\ cache[d] # None
      BY <1>1, <1>4 DEF Rows
  <2>2. cache' = [cache EXCEPT ![d] = row]
      BY <1>4 DEF Hydrated
  <2> HIDE DEF row, d
  <2>3. LTypeOK'
      BY <1>2, <1>3, <2>1, <2>2 DEF PInv, LTypeOK, data
  <2>4. \A e \in Datasets : cache'[e] = IF e = d THEN row ELSE cache[e]
      BY <2>2 DEF PInv, LTypeOK
  <2>5. \A e \in Datasets : cache'[e] # None =>
              /\ cache[e] # None /\ cache'[e].profile = cache[e].profile
              /\ cache'[e].revision = cache[e].revision
              /\ cache'[e].status = "ready" => cache'[e].payload.profile = cache[e].profile
      BY <2>1, <2>4 DEF PInv, PayloadIsOfRow
  <2> QED
      BY <1>2, <1>3, <2>3, <2>5, WorkKeeps
<1>5. CASE UNCHANGED cache
  <2>1. LTypeOK'
      BY <1>2, <1>3, <1>5 DEF PInv, LTypeOK, data
  <2> QED
      BY <1>2, <1>3, <1>5, <2>1, WorkKeeps, RowsStay
<1> QED
    BY <1>4, <1>5 DEF HydrateWrite

LEMMA JobEndsKeeps ==
    ASSUME PInv, NEW k \in Jobs, Finish(k) \/ Reap(k) \/ Retire(k)
    PROVE  PInv'
<1>1. UNCHANGED <<data, override, admin, caller>> /\ (UNCHANGED cache \/ Released(k))
    BY DEF Finish, Reap, Retire
<1>2. job' \in [Jobs -> JobStatuses]
    BY DEF PInv, LTypeOK, JobStatuses, Finish, Reap, Retire
<1>3. WorkerFits' /\ worker' \in [Jobs -> WorkerStates]
  <2>1. CASE Finish(k)
      BY <2>1, WorkerLeaves DEF Finish, WorkerPoints
  <2>2. CASE Reap(k) \/ Retire(k)
      BY <2>2 DEF Reap, Retire, PInv, LTypeOK, WorkerFits
  <2> QED
      BY <2>1, <2>2
<1>4. cache' \in [Datasets -> Rows \cup {None}]
    BY <1>1, RowsAreReleased DEF PInv, LTypeOK
<1>5. LTypeOK'
    BY <1>1, <1>2, <1>3, <1>4 DEF PInv, LTypeOK, data
<1> QED
    BY <1>1, <1>3, <1>5, WorkKeeps, RowsStay, RowsAreReleased

LEMMA SwitchKeeps ==
    ASSUME PInv, NEW d \in Datasets, Activate(d) \/ Rollback(d)
    PROVE  PInv'
<1>1. /\ UNCHANGED <<cache, job, admin, caller, worker>>
      /\ active' \in Datasets /\ served' \in SUBSET Datasets
    BY DEF Activate, Rollback, PInv, LTypeOK
<1>2. CASE UNCHANGED override
  <2>1. LTypeOK'
      BY <1>1, <1>2 DEF PInv, LTypeOK
  <2> QED
      BY <1>1, <1>2, <2>1
      DEF PInv, AdminFits, CallerFits, WorkerFits, PayloadIsOfRow, AnswersAreBehind, ReadsAreBehind,
          RowsAreBehind, RevisionsAreDistinct, RevisionOf
<1>3. CASE override # None /\ override' = [override EXCEPT !.dataset = d, !.revision = @ + 1]
  <2>1. override \in Overrides /\ RevisionOf \in Nat /\ RevisionOf = override.revision
      BY <1>3, RevisionType DEF PInv, LTypeOK, RevisionOf
  <2>2. override' \in Overrides /\ override' # None /\ RevisionOf' = RevisionOf + 1
    <3> DEFINE n == override.revision + 1
               x == [override EXCEPT !.dataset = d, !.revision = n]
    <3>1. n \in Nat /\ override' = x
        BY <1>3, <2>1
    <3> HIDE DEF n
    <3>2. x \in Overrides /\ x.revision = n
        BY <2>1, <3>1 DEF Overrides
    <3>3. x # None
        BY <3>2
    <3> QED
        BY <2>1, <3>1, <3>2, <3>3 DEF RevisionOf, n
  <2>3. LTypeOK'
      BY <1>1, <2>2 DEF PInv, LTypeOK
  <2>4. AdminFits' /\ AnswersAreBehind' /\ RevisionsAreDistinct'
      BY <1>1, <2>1, <2>2 DEF PInv, AdminFits, AnswersAreBehind, RevisionsAreDistinct
  <2>5. \A c \in Callers : caller[c].at = "read" => caller[c].link.revision \in Nat
      BY DEF PInv, CallerFits, Links
  <2>6. ReadsAreBehind'
      BY <1>1, <2>1, <2>2, <2>5 DEF PInv, ReadsAreBehind
  <2>7. RowsAreBehind'
      BY <1>1, <2>1, <2>2, RowType DEF PInv, RowsAreBehind
  <2> QED
      BY <1>1, <2>3, <2>4, <2>6, <2>7 DEF PInv, CallerFits, WorkerFits, PayloadIsOfRow
<1> QED
    BY <1>2, <1>3 DEF Activate, Rollback

LEMMA NextPInv == PInv /\ [Next]_vars => PInv'
<1> SUFFICES ASSUME PInv, [Next]_vars
             PROVE  PInv'
    OBVIOUS
<1>1. CASE \E a \in Admins : Open(a) \/ Lock(a) \/ Commit(a)
    BY <1>1, OpenKeeps, LockKeeps, CommitKeeps
<1>2. CASE \E c \in Callers : QueueRead(c) \/ QueueWrite(c) \/ QueueFails(c)
    BY <1>2, QueueReadKeeps, QueueWriteKeeps, QueueFailsKeeps
<1>3. CASE \E k \in Jobs : \/ Claim(k) \/ HydrateRead(k) \/ HydrateDetail(k) \/ HydrateWrite(k)
                           \/ Finish(k) \/ Reap(k) \/ Retire(k)
    BY <1>3, ClaimKeeps, HydrateReadKeeps, HydrateDetailKeeps, HydrateWriteKeeps, JobEndsKeeps
<1>4. CASE \E d \in Datasets : Activate(d) \/ Rollback(d)
    BY <1>4, SwitchKeeps
<1>5. CASE UNCHANGED vars
  <2>1. LTypeOK'
      BY <1>5 DEF PInv, LTypeOK, vars, data
  <2> QED
      BY <1>5, <2>1
      DEF vars, data, PInv, AdminFits, CallerFits, WorkerFits, PayloadIsOfRow, AnswersAreBehind,
          ReadsAreBehind, RowsAreBehind, RevisionsAreDistinct, RevisionOf
<1> QED
    BY <1>1, <1>2, <1>3, <1>4, <1>5 DEF Next

-----------------------------------------------------------------------------
(* The theorems                                                            *)

(* The invariant the others follow from: what each request and worker      *)
(* carries between its transactions fits what it will do with it, and no   *)
(* revision anybody holds is ahead of the override's.                      *)
THEOREM LinksInvariance == Spec => []PInv
<1>1. Init => PInv
    BY InitPInv
<1>2. PInv /\ [Next]_vars => PInv'
    BY NextPInv
<1> QED
    BY <1>1, <1>2, PTL DEF Spec

(* The payload of a ready row is that of its own profile, whatever happened*)
(* to the row between the three transactions of the hydration.             *)
THEOREM PayloadsAreOfRow == Spec => []PayloadIsOfRow
<1>1. PInv => PayloadIsOfRow
    BY DEF PInv
<1> QED
    BY <1>1, LinksInvariance, PTL

(* No two changes of a link are answered with the same revision, although  *)
(* the first two may both find no row to lock.                             *)
THEOREM RevisionsStayDistinct == Spec => []RevisionsAreDistinct
<1>1. PInv => RevisionsAreDistinct
    BY DEF PInv
<1> QED
    BY <1>1, LinksInvariance, PTL

(* A cached row that carries the current revision, which is not 0, shows   *)
(* the profile the funder is linked to.                                    *)
THEOREM RevisionsTellLinks == Spec => []RevisionTellsLink
<1>1. PInv => RevisionTellsLink
    BY DEF PInv, RowsAreBehind, RevisionTellsLink, LinkOf, RevisionOf
<1> QED
    BY <1>1, LinksInvariance, PTL

-----------------------------------------------------------------------------
(* What a row may wait for.                                                *)

(* A key that was not used yet has left no trace; the key of a job that    *)
(* nobody found is that of one row at most, so that the worker who fills it*)
(* leaves none waiting.                                                    *)
KeysFit ==
    /\ \A k \in Jobs : job[k] = "absent" =>
          worker[k].at = "idle" /\ \A d \in Datasets : cache[d] # None => cache[d].token # k
    /\ \A d, e \in Datasets :
          cache[d] # None /\ cache[e] # None /\ cache[d].token = cache[e].token
          /\ cache[d].token \notin found => d = e
    /\ \A k \in Jobs \ found, d \in Datasets : worker[k].at = "succeed" => ~WaitsFor(d, k)

KInv == KeysFit /\ PendingHasWork

(* Keys and rows as they were, or fewer of them waiting.                   *)
LEMMA FewerWait ==
    ASSUME PInv, KInv,
           found' = found,
           \A k \in Jobs : /\ job'[k] = "absent" <=> job[k] = "absent"
                           /\ job'[k] = "absent" => worker'[k].at = "idle",
           \A d \in Datasets : cache'[d] # None =>
              /\ cache[d] # None /\ cache'[d].token = cache[d].token
              /\ cache'[d].status = "pending" =>
                    /\ cache[d].status = "pending"
                    /\ \/ job'[cache[d].token] \in {"queued", "running", "cancelled"}
                       \/ cache[d].token \in found,
           \A k \in Jobs \ found, d \in Datasets : worker'[k].at = "succeed" => ~WaitsFor(d, k)'
    PROVE  KInv'
<1>1. PendingHasWork'
    BY DEF KInv, PendingHasWork
<1>2. KeysFit'
    BY DEF KInv, KeysFit
<1> QED
    BY <1>1, <1>2 DEF KInv

LEMMA OthersKeepKeys ==
    ASSUME PInv, KInv,
           \/ \E a \in Admins : Open(a) \/ Lock(a) \/ Commit(a)
           \/ \E c \in Callers : QueueRead(c) \/ QueueFails(c)
           \/ \E d \in Datasets : Activate(d) \/ Rollback(d)
    PROVE  KInv'
<1>1. UNCHANGED <<job, worker, found>>
    BY DEF Open, Lock, Commit, Write, QueueRead, QueueFails, Activate, Rollback
<1>3. \A d \in Datasets : cache'[d] = cache[d] \/ cache'[d] = None
    BY DEF PInv, LTypeOK, Open, Lock, Commit, Write, QueueRead, QueueFails, Activate, Rollback
<1>4. \A k \in Jobs \ found, d \in Datasets : worker'[k].at = "succeed" => ~WaitsFor(d, k)'
    BY <1>1, <1>3 DEF KInv, KeysFit, WaitsFor
<1> QED
    BY <1>1, <1>3, <1>4, FewerWait DEF KInv, KeysFit, PendingHasWork

(* A request creates the job of a new key, with the one row of that job, or*)
(* finds a job, which is exempt from then on.                              *)
LEMMA QueueWriteKeepsKeys ==
    ASSUME PInv, KInv, NEW c \in Callers, QueueWrite(c)
    PROVE  KInv'
<1> DEFINE k == caller[c].key
           d == caller[c].link.dataset
<1>1. k \in Jobs /\ d \in Datasets /\ UNCHANGED worker
    BY DEF PInv, CallerFits, QueueWrite, Links
<1>2. /\ cache'[d].token = k /\ \A e \in Datasets \ {d} : cache'[e] = cache[e]
    BY <1>1 DEF QueueWrite, PInv, LTypeOK
<1>3. job' = [job EXCEPT ![k] = IF @ = "absent" THEN "queued" ELSE @]
    BY DEF QueueWrite
<1>4. found' = IF job[k] = "absent" THEN found ELSE found \cup {k}
    BY DEF QueueWrite
<1> HIDE DEF k, d
<1>5. /\ \A j \in Jobs \ {k} : job'[j] = job[j]
      /\ job[k] = "absent" => job'[k] = "queued"
      /\ job[k] # "absent" => job'[k] = job[k]
    BY <1>1, <1>3 DEF PInv, LTypeOK
<1>6. \A j \in Jobs : job'[j] = "absent" =>
         /\ worker'[j].at = "idle"
         /\ \A e \in Datasets : cache'[e] # None => cache'[e].token # j
    BY <1>1, <1>2, <1>5 DEF KInv, KeysFit
<1>7. CASE job[k] = "absent"
  <2>1. worker[k].at = "idle" /\ \A e \in Datasets : cache[e] # None => cache[e].token # k
      BY <1>1, <1>7 DEF KInv, KeysFit
  <2>2. \A e, f \in Datasets :
           cache'[e] # None /\ cache'[f] # None /\ cache'[e].token = cache'[f].token
           /\ cache'[e].token \notin found' => e = f
      BY <1>2, <1>4, <1>7, <2>1 DEF KInv, KeysFit
  <2>3. \A j \in Jobs \ found', e \in Datasets : worker'[j].at = "succeed" => ~WaitsFor(e, j)'
      BY <1>1, <1>2, <1>4, <1>7, <2>1 DEF KInv, KeysFit, WaitsFor
  <2>4. PendingHasWork'
      BY <1>2, <1>4, <1>5, <1>7, <2>1, RowType DEF KInv, PendingHasWork, PInv
  <2> QED
      BY <1>6, <2>2, <2>3, <2>4 DEF KInv, KeysFit
<1>8. CASE job[k] # "absent"
  <2>1. found \subseteq found' /\ k \in found' /\ job' = job
      BY <1>1, <1>4, <1>5, <1>8 DEF PInv, LTypeOK, QueueWrite, k
  <2>2. \A e, f \in Datasets :
           cache'[e] # None /\ cache'[f] # None /\ cache'[e].token = cache'[f].token
           /\ cache'[e].token \notin found' => e = f
      BY <1>2, <2>1 DEF KInv, KeysFit
  <2>3. \A j \in Jobs \ found', e \in Datasets : worker'[j].at = "succeed" => ~WaitsFor(e, j)'
      BY <1>1, <1>2, <2>1 DEF KInv, KeysFit, WaitsFor
  <2>4. PendingHasWork'
      BY <1>2, <2>1 DEF KInv, PendingHasWork
  <2> QED
      BY <1>6, <2>2, <2>3, <2>4 DEF KInv, KeysFit
<1> QED
    BY <1>7, <1>8

(* A worker that is not about to succeed goes to another point.            *)
LEMMA WorkerMoves ==
    ASSUME PInv, KInv, NEW k \in Jobs, job[k] # "absent", UNCHANGED <<cache, found>>,
           worker'[k].at # "succeed", \A j \in Jobs \ {k} : worker'[j] = worker[j],
           job' = job \/ job' = [job EXCEPT ![k] = "running"]
    PROVE  KInv'
<1>1. \A j \in Jobs : /\ job'[j] = job[j] \/ job'[j] = "running"
                      /\ job'[j] = "absent" <=> job[j] = "absent"
    BY DEF PInv, LTypeOK
<1>2. \A j \in Jobs : job'[j] = "absent" => worker'[j].at = "idle"
    BY <1>1 DEF KInv, KeysFit
<1>3. \A j \in Jobs \ found, d \in Datasets : worker'[j].at = "succeed" => ~WaitsFor(d, j)'
    BY DEF KInv, KeysFit, WaitsFor
<1> QED
    BY <1>1, <1>2, <1>3, RowType, FewerWait DEF KInv, PendingHasWork, PInv

LEMMA WorkerIsPresent ==
    ASSUME KInv, NEW k \in Jobs, worker[k].at # "idle"
    PROVE  job[k] # "absent"
BY DEF KInv, KeysFit

LEMMA ClaimKeepsKeys == ASSUME PInv, KInv, NEW k \in Jobs, Claim(k) PROVE KInv'
<1>1. \A j \in Jobs \ {k} : worker'[j] = worker[j]
    BY WorkerGoes DEF Claim, PInv, WorkerPoints
<1>2. worker'[k].at = "read"
    BY WorkerGoes DEF Claim, PInv, WorkerPoints
<1> QED
    BY <1>1, <1>2, WorkerMoves DEF Claim

LEMMA HydrateKeepsKeys ==
    ASSUME PInv, KInv, NEW k \in Jobs, HydrateRead(k) \/ HydrateDetail(k)
    PROVE  KInv'
<1>1. worker \in [Jobs -> WorkerStates] /\ worker[k] \in WorkerStates
    BY DEF PInv, LTypeOK
<1>2. job[k] # "absent" /\ UNCHANGED <<cache, found, job>>
    BY WorkerIsPresent DEF HydrateRead, HydrateDetail
<1>3. \A j \in Jobs \ {k} : worker'[j] = worker[j]
    BY <1>1 DEF HydrateRead, HydrateDetail
<1>4. worker'[k].at \in {"detail", "write", "fail"}
  <2>1. CASE worker' = [worker EXCEPT ![k].at = "fail"]
      BY <2>1, WorkerGoes DEF PInv, WorkerPoints
  <2>2. ASSUME NEW d \in Datasets,
               worker' = [worker EXCEPT ![k] = [@ EXCEPT !.at = "detail", !.dataset = d,
                                                         !.row = cache[d]]]
        PROVE  worker'[k].at = "detail"
      BY <1>1, <2>2 DEF WorkerStates
  <2>3. ASSUME NEW x, worker' = [worker EXCEPT ![k] = [@ EXCEPT !.at = "write", !.payload = x]]
        PROVE  worker'[k].at = "write"
      BY <1>1, <2>3 DEF WorkerStates
  <2> QED
      BY <2>1, <2>2, <2>3 DEF HydrateRead, HydrateDetail
<1> QED
    BY <1>2, <1>3, <1>4, WorkerMoves

LEMMA HydrateWriteKeepsKeys == ASSUME PInv, KInv, NEW k \in Jobs, HydrateWrite(k) PROVE KInv'
<1> DEFINE d == worker[k].dataset
<1>1. /\ d \in Datasets /\ worker[k].row \in Rows /\ worker[k].row.token = k
      /\ worker[k].row # None
    BY DEF PInv, WorkerFits, HydrateWrite
<1>2. job[k] # "absent" /\ UNCHANGED <<job, found>>
    BY WorkerIsPresent DEF HydrateWrite
<1>3. CASE UNCHANGED cache /\ worker' = [worker EXCEPT ![k].at = "fail"]
  <2>1. worker'[k].at = "fail" /\ \A j \in Jobs \ {k} : worker'[j] = worker[j]
      BY <1>3, WorkerGoes DEF PInv, WorkerPoints
  <2> QED
      BY <1>2, <1>3, <2>1, WorkerMoves
<1>4. CASE /\ cache[d] = worker[k].row /\ Hydrated(k)
           /\ worker' = [worker EXCEPT ![k].at = "succeed"]
  <2>1. worker'[k].at = "succeed" /\ \A j \in Jobs \ {k} : worker'[j] = worker[j]
      BY <1>4, WorkerGoes DEF PInv, WorkerPoints
  <2>2. /\ cache[d] # None /\ cache[d].token = k
        /\ cache'[d].token = k /\ cache'[d].status = "ready"
        /\ \A e \in Datasets \ {d} : cache'[e] = cache[e]
    <3>1. cache[d] \in Rows
        BY <1>1, <1>4
    <3> DEFINE row == [cache[d] EXCEPT !.status = "ready", !.payload = worker[k].payload]
    <3>2. row.token = cache[d].token /\ row.status = "ready"
        BY <3>1 DEF Rows
    <3>3. cache' = [cache EXCEPT ![d] = row]
        BY <1>4 DEF Hydrated
    <3> HIDE DEF row
    <3> QED
        BY <1>1, <1>4, <3>2, <3>3 DEF PInv, LTypeOK
  <2> HIDE DEF d
  <2>3. k \notin found => \A e \in Datasets : ~WaitsFor(e, k)'
      BY <1>1, <2>2 DEF KInv, KeysFit, WaitsFor
  <2>4. \A j \in Jobs \ found, e \in Datasets : worker'[j].at = "succeed" => ~WaitsFor(e, j)'
    <3> SUFFICES ASSUME NEW j \in Jobs \ found, NEW e \in Datasets, j # k, worker'[j].at = "succeed"
                 PROVE  ~WaitsFor(e, j)'
        BY <2>3
    <3>1. ~WaitsFor(e, j)
        BY <2>1 DEF KInv, KeysFit
    <3> QED
        BY <1>1, <2>2, <3>1 DEF WaitsFor
  <2>5. \A j \in Jobs : job'[j] = "absent" => worker'[j].at = "idle"
      BY <1>2, <2>1 DEF KInv, KeysFit
  <2>6. \A e \in Datasets : cache'[e] # None =>
            /\ cache[e] # None /\ cache'[e].token = cache[e].token
            /\ cache'[e].status = "pending" =>
                  /\ cache[e].status = "pending"
                  /\ \/ job'[cache[e].token] \in {"queued", "running", "cancelled"}
                     \/ cache[e].token \in found
      BY <1>1, <1>2, <2>2 DEF KInv, PendingHasWork
  <2> QED
      BY <1>2, <2>4, <2>5, <2>6, FewerWait
<1> QED
    BY <1>3, <1>4 DEF HydrateWrite

LEMMA JobEndsKeepsKeys ==
    ASSUME PInv, KInv, NEW k \in Jobs, Finish(k) \/ Reap(k) \/ Retire(k)
    PROVE  KInv'
<1>1. \A j \in Jobs : worker'[j].at = "succeed" => worker[j].at = "succeed"
  <2>1. CASE Finish(k)
      BY <2>1, WorkerGoes DEF Finish, PInv, WorkerPoints
  <2>2. CASE Reap(k) \/ Retire(k)
      BY <2>2 DEF Reap, Retire
  <2> QED
      BY <2>1, <2>2
<1>2. \A j \in Jobs \ {k} : job'[j] = job[j] /\ worker'[j] = worker[j]
    BY WorkerGoes DEF Finish, Reap, Retire, PInv, LTypeOK, WorkerPoints
<1>3. job[k] # "absent"
    BY WorkerIsPresent DEF Finish, Reap, Retire
<1>4. job'[k] # "absent" /\ UNCHANGED found
    BY <1>3 DEF Finish, Reap, Retire, PInv, LTypeOK
<1>5. CASE Released(k)
  <2>1. \A d \in Datasets : cache'[d] # None =>
            /\ cache[d] # None /\ cache'[d].token = cache[d].token
            /\ cache'[d].status = "pending" => cache'[d] = cache[d] /\ cache[d].token # k
    <3> SUFFICES ASSUME NEW d \in Datasets, cache'[d] # None
                 PROVE  /\ cache[d] # None /\ cache'[d].token = cache[d].token
                        /\ cache'[d].status = "pending" =>
                              cache'[d] = cache[d] /\ cache[d].token # k
        OBVIOUS
    <3>1. CASE WaitsFor(d, k)
      <4>1. cache[d] \in Rows /\ cache[d] # None
          BY <3>1, RowType DEF WaitsFor, PInv
      <4>2. cache'[d] = [cache[d] EXCEPT !.status = "failed"]
          BY <1>5, <3>1 DEF Released
      <4>3. cache'[d].token = cache[d].token /\ cache'[d].status = "failed"
          BY <4>1, <4>2 DEF Rows
      <4> QED
          BY <4>1, <4>3
    <3>2. CASE ~WaitsFor(d, k)
      <4>1. cache'[d] = cache[d]
          BY <1>5, <3>2 DEF Released
      <4> QED
          BY <3>2, <4>1 DEF WaitsFor
    <3> QED
        BY <3>1, <3>2
  <2>2. \A j \in Jobs \ found, d \in Datasets : worker'[j].at = "succeed" => ~WaitsFor(d, j)'
      BY <1>1, <2>1 DEF KInv, KeysFit, WaitsFor
  <2>3. \A j \in Jobs : /\ job'[j] = "absent" <=> job[j] = "absent"
                        /\ job'[j] = "absent" => worker'[j].at = "idle"
      BY <1>2, <1>3, <1>4 DEF KInv, KeysFit
  <2>4. \A d \in Datasets : cache'[d] # None =>
            /\ cache[d] # None /\ cache'[d].token = cache[d].token
            /\ cache'[d].status = "pending" =>
                  /\ cache[d].status = "pending"
                  /\ \/ job'[cache[d].token] \in {"queued", "running", "cancelled"}
                     \/ cache[d].token \in found
      BY <1>2, <2>1, RowType DEF KInv, PendingHasWork, PInv
  <2> QED
      BY <1>4, <2>2, <2>3, <2>4, FewerWait
<1>6. CASE /\ UNCHANGED cache
           /\ \/ UNCHANGED job
              \/ worker[k].at = "succeed"
              \/ job'[k] = "cancelled"
  <2>1. k \notin found => \A d \in Datasets : worker[k].at = "succeed" => ~WaitsFor(d, k)
      BY DEF KInv, KeysFit
  <2>2. \A j \in Jobs \ found, d \in Datasets : worker'[j].at = "succeed" => ~WaitsFor(d, j)'
      BY <1>1, <1>6 DEF KInv, KeysFit, WaitsFor
  <2>3. \A j \in Jobs : /\ job'[j] = "absent" <=> job[j] = "absent"
                        /\ job'[j] = "absent" => worker'[j].at = "idle"
      BY <1>2, <1>3, <1>4 DEF KInv, KeysFit
  <2>4. \A d \in Datasets : cache'[d] # None =>
            /\ cache[d] # None /\ cache'[d].token = cache[d].token
            /\ cache'[d].status = "pending" =>
                  /\ cache[d].status = "pending"
                  /\ \/ job'[cache[d].token] \in {"queued", "running", "cancelled"}
                     \/ cache[d].token \in found
      BY <1>2, <1>6, <2>1, RowType DEF KInv, PendingHasWork, PInv, WaitsFor
  <2> QED
      BY <1>4, <2>2, <2>3, <2>4, FewerWait
<1> QED
    BY <1>5, <1>6 DEF Finish, Reap, Retire, PInv, LTypeOK

(* No worker's end leaves a row waiting: workers that fail, are reaped or  *)
(* come too late release what waits for their job (fail, fail_expired,     *)
(* hydrate_profile_cache).  What is left waits for a job that was retired  *)
(* or found under a key used before.                                       *)
THEOREM PendingRowsHaveWork == Spec => []PendingHasWork
<1>1. Init => KInv
    BY DEF Init, KInv, KeysFit, PendingHasWork, WaitsFor
<1>2. PInv /\ KInv /\ [Next]_vars => KInv'
  <2> SUFFICES ASSUME PInv, KInv, [Next]_vars
               PROVE  KInv'
      OBVIOUS
  <2>1. CASE UNCHANGED vars
      BY <2>1 DEF vars, KInv, KeysFit, PendingHasWork, WaitsFor
  <2> QED
      BY <2>1, OthersKeepKeys, QueueWriteKeepsKeys, ClaimKeepsKeys, HydrateKeepsKeys,
         HydrateWriteKeepsKeys, JobEndsKeepsKeys DEF Next
<1>3. KInv => PendingHasWork
    BY DEF KInv
<1> QED
    BY <1>1, <1>2, <1>3, LinksInvariance, PTL DEF Spec
=============================================================================
