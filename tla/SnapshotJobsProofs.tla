------------------------- MODULE SnapshotJobsProofs --------------------------
(***************************************************************************)
(* Theorems about SnapshotJobs for any set of jobs, wherever the handlers  *)
(* are killed, time out or lose their leases: as long as no publication is *)
(* cut off, no work is lost, and the database holds nothing the snapshot   *)
(* lacks.                                                                  *)
(***************************************************************************)
EXTENDS SnapshotJobs, TLAPS

USE JobsAssumption

AtPoints == Busy \cup {"queued", "lock", "finish", "raised", "done", "dead"}

STypeOK ==
    /\ status \in [Jobs -> {"queued", "running", "succeeded", "failed"}]
    /\ at \in [Jobs -> AtPoints]
    /\ work \in [Jobs -> SUBSET Jobs]
    /\ late \in [Jobs -> {"none", "publish", "rename"}]
    /\ interrupted \subseteq Jobs
    /\ file \subseteq Jobs /\ local \in BOOLEAN

(* Only the holder of the lock is at work on the snapshot.                 *)
HolderWorksAlone == \A j \in Jobs : at[j] \in Busy => lock = j

(* A thread is left behind only by a publication that was cut off.         *)
LateIsInterrupted == \A j \in Jobs : late[j] # "none" => j \in interrupted

Published == {"rename", "load", "report", "link", "leave"}

(* What each point of a handler says about the store and the database.     *)
PointFits(j) ==
    /\ at[j] = "publish" => work[j] = file \cup {j}
    /\ at[j] \in Published => work[j] = file
    /\ at[j] \in Published \cup {"finish"} => j \in file
    /\ at[j] = "link" => j \notin FullRuns
    /\ at[j] \in {"report", "leave", "finish"} /\ j \in FullRuns => j \in dataset
    /\ status[j] = "succeeded" => j \in file /\ (j \in FullRuns => j \in dataset)

(* All of it as long as no publication was cut off: the snapshot only      *)
(* grows, because whoever publishes started from the one that is there.    *)
StoreFits ==
    /\ \A j \in Jobs : PointFits(j)
    /\ (\A j \in Jobs : at[j] # "rename") => file = seal
    /\ SnapshotCoversDatabase

SInv == /\ STypeOK /\ HolderWorksAlone /\ LateIsInterrupted
        /\ interrupted = {} => StoreFits

LEMMA InitSInv == Init => SInv
BY DEF Init, SInv, STypeOK, AtPoints, Busy, HolderWorksAlone, LateIsInterrupted, StoreFits,
       PointFits, Published, SnapshotCoversDatabase

LEMMA GotoType ==
    ASSUME STypeOK, NEW j \in Jobs, NEW p \in AtPoints, NEW q \in AtPoints, Goto(j, p, q)
    PROVE  /\ at' \in [Jobs -> AtPoints]
           /\ at[j] = p /\ at'[j] = q
           /\ \A i \in Jobs \ {j} : at'[i] = at[i]
BY DEF STypeOK, Goto

(* A step that changes neither the store nor the database: at most one job *)
(* moves, to a point that says no more than where it was.                  *)
LEMMA QuietStep ==
    ASSUME SInv, STypeOK', HolderWorksAlone', LateIsInterrupted',
           UNCHANGED <<work, store, database>>, interrupted \subseteq interrupted',
           NEW j \in Jobs,
           \A i \in Jobs \ {j} : at'[i] = at[i] /\ status'[i] = status[i],
           interrupted' = {} => /\ PointFits(j) => PointFits(j)'
                                /\ at[j] = "rename" <=> at'[j] = "rename"
    PROVE  SInv'
<1> SUFFICES ASSUME interrupted' = {} PROVE StoreFits'
    BY DEF SInv
<1>1. interrupted = {} /\ StoreFits
    BY DEF SInv
<1>2. \A i \in Jobs : PointFits(i)'
  <2>1. \A i \in Jobs \ {j} : PointFits(i)'
      BY <1>1 DEF StoreFits, PointFits, store, database
  <2> QED
      BY <1>1, <2>1 DEF StoreFits
<1>3. (\A i \in Jobs : at'[i] # "rename") => \A i \in Jobs : at[i] # "rename"
    OBVIOUS
<1> QED
    BY <1>1, <1>2, <1>3 DEF StoreFits, SnapshotCoversDatabase, store, database

(* Whoever leaves the points of Busy gives up the lock if it had it.       *)
LEMMA ReleaseKeepsAlone ==
    ASSUME SInv, NEW j \in Jobs, Release(j), at'[j] \notin Busy,
           \A i \in Jobs \ {j} : at'[i] = at[i]
    PROVE  HolderWorksAlone'
BY DEF SInv, HolderWorksAlone, Release

LEMMA ClaimKeeps == ASSUME SInv, NEW j \in Jobs, Claim(j) PROVE SInv'
<1>1. /\ at' \in [Jobs -> AtPoints] /\ at[j] = "queued" /\ at'[j] = "lock"
      /\ \A i \in Jobs \ {j} : at'[i] = at[i]
    BY GotoType DEF Claim, SInv, AtPoints
<1>2. STypeOK' /\ LateIsInterrupted'
    BY <1>1 DEF Claim, SInv, STypeOK, LateIsInterrupted, store
<1>3. HolderWorksAlone'
    BY <1>1 DEF Claim, SInv, HolderWorksAlone, Busy
<1>4. status'[j] = "running" /\ \A i \in Jobs \ {j} : status'[i] = status[i]
    BY DEF Claim, SInv, STypeOK
<1> QED
    BY <1>1, <1>2, <1>3, <1>4, QuietStep DEF Claim, PointFits, Published

LEMMA AcquireKeeps == ASSUME SInv, NEW j \in Jobs, Acquire(j) PROVE SInv'
<1>1. /\ at' \in [Jobs -> AtPoints] /\ at[j] = "lock" /\ at'[j] = "download"
      /\ \A i \in Jobs \ {j} : at'[i] = at[i]
    BY GotoType DEF Acquire, SInv, AtPoints, Busy
<1>2. STypeOK' /\ LateIsInterrupted'
    BY <1>1 DEF Acquire, SInv, STypeOK, LateIsInterrupted, store
<1>3. HolderWorksAlone'
    BY <1>1 DEF Acquire, SInv, HolderWorksAlone, Busy
<1> QED
    BY <1>1, <1>2, <1>3, QuietStep DEF Acquire, PointFits, Published, store, database

LEMMA ReportKeeps == ASSUME SInv, NEW j \in Jobs, Report(j) PROVE SInv'
<1>1. /\ at' \in [Jobs -> AtPoints] /\ at[j] = "report" /\ at'[j] = "leave"
      /\ \A i \in Jobs \ {j} : at'[i] = at[i]
    BY GotoType DEF Report, SInv, AtPoints, Busy
<1>2. STypeOK' /\ LateIsInterrupted'
    BY <1>1 DEF Report, SInv, STypeOK, LateIsInterrupted, store
<1>3. HolderWorksAlone'
    BY <1>1 DEF Report, SInv, HolderWorksAlone, Busy
<1> QED
    BY <1>1, <1>2, <1>3, QuietStep DEF Report, PointFits, Published, store, database

LEMMA LeaveKeeps == ASSUME SInv, NEW j \in Jobs, Leave(j) PROVE SInv'
<1>1. /\ at' \in [Jobs -> AtPoints] /\ at[j] = "leave" /\ at'[j] = "finish"
      /\ \A i \in Jobs \ {j} : at'[i] = at[i]
    BY GotoType DEF Leave, SInv, AtPoints, Busy
<1>2. STypeOK' /\ LateIsInterrupted'
    BY <1>1 DEF Leave, SInv, STypeOK, LateIsInterrupted, store
<1>3. HolderWorksAlone'
    BY <1>1, ReleaseKeepsAlone DEF Leave, Busy
<1> QED
    BY <1>1, <1>2, <1>3, QuietStep DEF Leave, PointFits, Published, store, database

(* A handler that ends early, for whatever reason: only a publication that *)
(* has begun says something about the store, and then it is interrupted.   *)
LEMMA EarlyEndKeeps ==
    ASSUME SInv, NEW j \in Jobs, NEW p \in {"raised", "dead"}, NEW S \in SUBSET AtPoints,
           at' = [at EXCEPT ![j] = p], "rename" \in S, CutOff(j, S), Release(j),
           late' = [late EXCEPT ![j] = late'[j]], late'[j] \in {"none", "publish", "rename"},
           late'[j] # "none" => late[j] # "none" \/ at[j] \in S,
           UNCHANGED <<status, work, store, database>>
    PROVE  SInv'
<1>1. /\ at' \in [Jobs -> AtPoints] /\ at'[j] = p
      /\ \A i \in Jobs \ {j} : at'[i] = at[i]
    BY DEF SInv, STypeOK, AtPoints
<1>2. interrupted \subseteq interrupted' /\ (at[j] \in S => j \in interrupted')
    BY DEF CutOff
<1>3. STypeOK'
    BY <1>1 DEF SInv, STypeOK, CutOff, store
<1>4. LateIsInterrupted'
    BY <1>2 DEF SInv, STypeOK, LateIsInterrupted
<1>5. HolderWorksAlone'
    BY <1>1, ReleaseKeepsAlone DEF Busy
<1> QED
    BY <1>1, <1>2, <1>3, <1>4, <1>5, QuietStep DEF PointFits, Published, store, database

LEMMA FaultKeeps == ASSUME SInv, NEW j \in Jobs, Raise(j) \/ Timeout(j) \/ Crash(j) PROVE SInv'
<1>1. {"rename"} \in SUBSET AtPoints /\ {"publish", "rename"} \in SUBSET AtPoints
    BY DEF AtPoints, Busy
<1>2. late \in [Jobs -> {"none", "publish", "rename"}]
    BY DEF SInv, STypeOK
<1>3. CASE Raise(j)
    BY <1>1, <1>2, <1>3, EarlyEndKeeps DEF Raise
<1>4. CASE Timeout(j)
    BY <1>1, <1>2, <1>4, EarlyEndKeeps DEF Timeout
<1>5. CASE Crash(j)
    BY <1>1, <1>2, <1>5, EarlyEndKeeps DEF Crash
<1> QED
    BY <1>3, <1>4, <1>5

(* What has a handler's job succeed is that it reached its end.            *)
LEMMA EndKeeps == ASSUME SInv, NEW j \in Jobs, Finish(j) \/ Reap(j) PROVE SInv'
<1>1. /\ at' \in [Jobs -> AtPoints] /\ at'[j] \in {at[j], "done"}
      /\ Finish(j) => at[j] \in {"finish", "raised"}
      /\ \A i \in Jobs \ {j} : at'[i] = at[i]
    BY DEF Finish, Reap, SInv, STypeOK, AtPoints
<1>2. /\ status' \in [Jobs -> {"queued", "running", "succeeded", "failed"}]
      /\ status'[j] = "succeeded" => status[j] = "succeeded" \/ at[j] = "finish"
      /\ \A i \in Jobs \ {j} : status'[i] = status[i]
    BY DEF Finish, Reap, SInv, STypeOK
<1>3. STypeOK' /\ LateIsInterrupted'
    BY <1>1, <1>2 DEF Finish, Reap, SInv, STypeOK, LateIsInterrupted, store
<1>4. HolderWorksAlone'
    BY <1>1 DEF Finish, Reap, SInv, HolderWorksAlone, Busy
<1>5. UNCHANGED <<work, store, database, interrupted>>
    BY DEF Finish, Reap
<1>6. at'[j] # at[j] => at'[j] = "done" /\ at[j] \in {"finish", "raised"}
    BY <1>1 DEF Finish, Reap
<1> QED
    BY <1>1, <1>2, <1>3, <1>4, <1>5, <1>6, QuietStep DEF PointFits, Published, store, database

(* A publication whose handler is gone counts as interrupted already.      *)
LEMMA LateKeeps == ASSUME SInv, NEW j \in Jobs, LatePublish(j) \/ LateRename(j) PROVE SInv'
<1>1. late[j] # "none" /\ j \in interrupted
    BY DEF LatePublish, LateRename, SInv, LateIsInterrupted
<1>2. UNCHANGED <<status, at, work, lock, local, interrupted>>
    BY DEF LatePublish, LateRename, Put
<1>3. STypeOK' /\ LateIsInterrupted'
    BY <1>1, <1>2 DEF LatePublish, LateRename, Put, SInv, STypeOK, LateIsInterrupted
<1> QED
    BY <1>1, <1>2, <1>3 DEF SInv, HolderWorksAlone

-----------------------------------------------------------------------------
(* The steps of the handler that holds the lock: everybody else is outside *)
(* the lock, and what holds of them only needs the store and the dataset to*)
(* grow.                                                                   *)
LEMMA HolderStep ==
    ASSUME SInv, STypeOK', NEW j \in Jobs, at[j] \in Busy, at'[j] \in Busy,
           \A i \in Jobs \ {j} : at'[i] = at[i],
           UNCHANGED <<status, lock, late, interrupted>>,
           interrupted = {} =>
               /\ \A i \in Jobs \ {j} : work'[i] = work[i]
               /\ file \subseteq file' /\ dataset \subseteq dataset'
               /\ PointFits(j)'
               /\ at'[j] # "rename" => file' = seal'
               /\ SnapshotCoversDatabase'
    PROVE  SInv'
<1>1. HolderWorksAlone' /\ LateIsInterrupted'
    BY DEF SInv, HolderWorksAlone, LateIsInterrupted
<1> SUFFICES ASSUME interrupted = {} PROVE StoreFits'
    BY <1>1 DEF SInv
<1>2. \A i \in Jobs \ {j} : at[i] \notin Busy /\ PointFits(i)
    BY DEF SInv, HolderWorksAlone, StoreFits
<1>3. \A i \in Jobs \ {j} : PointFits(i)'
    BY <1>2 DEF PointFits, Published, Busy
<1>4. (\A i \in Jobs : at'[i] # "rename") => file' = seal'
    OBVIOUS
<1> QED
    BY <1>3, <1>4 DEF StoreFits

LEMMA DownloadKeeps == ASSUME SInv, NEW j \in Jobs, Download(j) PROVE SInv'
<1>1. /\ at' \in [Jobs -> AtPoints] /\ at[j] = "download" /\ at'[j] = "publish"
      /\ \A i \in Jobs \ {j} : at'[i] = at[i]
    BY GotoType DEF Download, SInv, AtPoints, Busy
<1>2. STypeOK' /\ work'[j] = file \cup {j} /\ \A i \in Jobs \ {j} : work'[i] = work[i]
  <2>1. file = seal
      BY DEF Download
  <2> QED
      BY <1>1 DEF Download, SInv, STypeOK, store
<1>3. UNCHANGED <<status, lock, store, late, database, interrupted>> /\ file = seal
    BY DEF Download
<1>4. PointFits(j) => PointFits(j)'
    BY <1>1, <1>2, <1>3 DEF PointFits, Published, store, database
<1> QED
    BY <1>1, <1>2, <1>3, <1>4, HolderStep
       DEF Busy, SInv, StoreFits, SnapshotCoversDatabase, store, database

LEMMA PublishKeeps == ASSUME SInv, NEW j \in Jobs, Publish(j) PROVE SInv'
<1> DEFINE to == IF local THEN "rename" ELSE Then(j)
<1>1. /\ at' \in [Jobs -> AtPoints] /\ at[j] = "publish" /\ at'[j] = to
      /\ \A i \in Jobs \ {j} : at'[i] = at[i]
    BY GotoType DEF Publish, SInv, AtPoints, Busy, Then
<1>2. /\ file' = work[j] /\ (~local => seal' = work[j])
      /\ UNCHANGED <<status, work, lock, local, late, database, interrupted>>
    BY DEF Publish, Put
<1>3. STypeOK'
    BY <1>1, <1>2 DEF SInv, STypeOK
<1>4. ASSUME interrupted = {}
      PROVE  /\ file' = file \cup {j} /\ PointFits(j)'
             /\ SnapshotCoversDatabase' /\ (at'[j] # "rename" => file' = seal')
  <2>1. PointFits(j) /\ SnapshotCoversDatabase /\ work[j] = file \cup {j}
      BY <1>1, <1>4 DEF SInv, StoreFits, PointFits
  <2>2. PointFits(j)'
      BY <1>1, <1>2, <2>1 DEF PointFits, Published, Then, database
  <2> QED
      BY <1>1, <1>2, <2>1, <2>2 DEF SnapshotCoversDatabase, database
<1>5. to \in Busy
    BY DEF Then, Busy
<1> QED
    BY <1>1, <1>2, <1>3, <1>4, <1>5, HolderStep DEF Busy, database

LEMMA RenameKeeps == ASSUME SInv, NEW j \in Jobs, Rename(j) PROVE SInv'
<1>1. /\ at' \in [Jobs -> AtPoints] /\ at[j] = "rename" /\ at'[j] = Then(j)
      /\ \A i \in Jobs \ {j} : at'[i] = at[i]
    BY GotoType DEF Rename, SInv, AtPoints, Busy, Then
<1>2. seal' = work[j] /\ UNCHANGED <<status, work, lock, local, file, late, database, interrupted>>
    BY DEF Rename
<1>3. STypeOK'
    BY <1>1, <1>2 DEF SInv, STypeOK
<1>4. ASSUME interrupted = {}
      PROVE  PointFits(j)' /\ SnapshotCoversDatabase' /\ file' = seal'
  <2>1. PointFits(j) /\ SnapshotCoversDatabase /\ work[j] = file
      BY <1>1, <1>4 DEF SInv, StoreFits, PointFits, Published
  <2>2. PointFits(j)'
      BY <1>1, <1>2, <2>1 DEF PointFits, Published, Then, database
  <2> QED
      BY <1>2, <2>1, <2>2 DEF SnapshotCoversDatabase, database
<1>5. Then(j) \in Busy
    BY DEF Then, Busy
<1> QED
    BY <1>1, <1>2, <1>3, <1>4, <1>5, HolderStep DEF Busy, database

(* Both put into the database what the snapshot holds already.             *)
LEMMA DatabaseKeeps == ASSUME SInv, NEW j \in Jobs, Activate(j) \/ Link(j) PROVE SInv'
<1>1. /\ at' \in [Jobs -> AtPoints]
      /\ \/ at[j] = "load" /\ at'[j] = "report" /\ dataset' = work[j] /\ UNCHANGED linked
         \/ at[j] = "link" /\ at'[j] = "leave" /\ linked' = linked \cup {j} /\ UNCHANGED dataset
      /\ \A i \in Jobs \ {j} : at'[i] = at[i]
  <2>1. CASE Activate(j)
      BY <2>1, GotoType DEF Activate, SInv, AtPoints, Busy
  <2>2. CASE Link(j)
      BY <2>2, GotoType DEF Link, SInv, AtPoints, Busy
  <2> QED
      BY <2>1, <2>2
<1>2. UNCHANGED <<status, work, lock, store, late, interrupted>>
    BY DEF Activate, Link
<1>3. STypeOK'
    BY <1>1, <1>2 DEF SInv, STypeOK, store
<1>4. ASSUME interrupted = {}
      PROVE  /\ PointFits(j)' /\ SnapshotCoversDatabase' /\ file' = seal'
             /\ dataset \subseteq dataset'
  <2>1. PointFits(j) /\ SnapshotCoversDatabase /\ work[j] = file /\ j \in file
      BY <1>1, <1>4 DEF SInv, StoreFits, PointFits, Published
  <2>2. PointFits(j)'
      BY <1>1, <1>2, <2>1 DEF PointFits, Published, SnapshotCoversDatabase, store
  <2>3. file = seal
    <3>1. \A i \in Jobs : at[i] # "rename"
        BY <1>1 DEF SInv, HolderWorksAlone, Busy
    <3> QED
        BY <1>4, <3>1 DEF SInv, StoreFits
  <2> QED
      BY <1>1, <1>2, <1>4, <2>1, <2>2, <2>3 DEF SnapshotCoversDatabase, store
<1> QED
    BY <1>1, <1>2, <1>3, <1>4, HolderStep DEF Busy, store

LEMMA NextSInv == SInv /\ [Next]_vars => SInv'
<1> SUFFICES ASSUME SInv, [Next]_vars PROVE SInv'
    OBVIOUS
<1>1. CASE UNCHANGED vars
    BY <1>1 DEF vars, store, database, SInv, STypeOK, HolderWorksAlone, LateIsInterrupted,
                StoreFits, PointFits, SnapshotCoversDatabase
<1>2. ASSUME NEW j \in Jobs, Claim(j) \/ Acquire(j) \/ Report(j) \/ Leave(j) PROVE SInv'
    BY <1>2, ClaimKeeps, AcquireKeeps, ReportKeeps, LeaveKeeps
<1>3. ASSUME NEW j \in Jobs, Download(j) \/ Publish(j) \/ Rename(j) \/ Activate(j) \/ Link(j)
      PROVE  SInv'
    BY <1>3, DownloadKeeps, PublishKeeps, RenameKeeps, DatabaseKeeps
<1>4. ASSUME NEW j \in Jobs, Raise(j) \/ Timeout(j) \/ Crash(j) \/ Finish(j) \/ Reap(j)
                             \/ LatePublish(j) \/ LateRename(j)
      PROVE  SInv'
    BY <1>4, FaultKeeps, EndKeeps, LateKeeps
<1> QED
    BY <1>1, <1>2, <1>3, <1>4 DEF Next

-----------------------------------------------------------------------------
(* The theorems                                                            *)

(* The invariant: the holder of the advisory lock works alone, and unless a*)
(* publication was cut off, its copy is the snapshot plus its own work.    *)
THEOREM SnapshotsInvariance == Spec => []SInv
BY InitSInv, NextSInv, PTL DEF Spec

(* What a succeeded job did is in the snapshot for good, and what a        *)
(* succeeded full run did is in the dataset that is served, with any number*)
(* of jobs, kills, failures and lapsed leases between the two, none of     *)
(* which cut off a publication (snapshot_store, full_run, worker_handlers).*)
THEOREM WorkIsKept == Spec => []NoWorkIsLost
<1>1. SInv => NoWorkIsLost
    BY DEF SInv, StoreFits, PointFits, NoWorkIsLost
<1> QED
    BY <1>1, SnapshotsInvariance, PTL

(* The database never holds what the snapshot lacks, under the same        *)
(* proviso: every publication precedes its activation or link.             *)
THEOREM DatabaseIsCovered == Spec => []SnapshotCoversDatabase
<1>1. SInv => SnapshotCoversDatabase
    BY DEF SInv, StoreFits, SnapshotCoversDatabase
<1> QED
    BY <1>1, SnapshotsInvariance, PTL
=============================================================================
