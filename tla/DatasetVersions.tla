-------------------------- MODULE DatasetVersions ---------------------------
(***************************************************************************)
(* The dataset versions of PostgreSQL and the two commands that change     *)
(* which one is served: migrate and rollback_dataset of                    *)
(* src/src/migration/sqlite_to_postgres.py.  migrate loads a candidate     *)
(* table by table, in many transactions, and activates it in one; any      *)
(* number of processes may run it, be killed in it and run it again.       *)
(***************************************************************************)
EXTENDS Naturals, FiniteSets

CONSTANTS
    Versions,    \* dataset_version values
    Runs,        \* processes that run migrate
    Target,      \* the version each of them was started for
    Tables,      \* how many tables a candidate has
    Reuse,       \* whether a version that was served may be migrated again
    MaxKills,    \* bound on killed processes
    None         \* SQL NULL

ASSUME TargetAssumption == Target \in [Runs -> Versions]
ASSUME TablesAssumption == Tables \in Nat \ {0}
ASSUME ReuseAssumption == Reuse \in BOOLEAN
ASSUME KillsAssumption == MaxKills \in Nat
ASSUME NoneAssumption == None \notin Versions

VARIABLES
    status,    \* dataset_versions.status, "absent" where there is no row
    previous,  \* dataset_versions.previous_dataset_version
    payload,   \* the tables loaded for each version
    run,       \* migration_runs.status of each version
    globals,   \* whose staged exchange rates and overrides are in effect
    link,      \* target_dataset_version of the one link override
    pc,        \* where each process stands in migrate
    loaded,    \* how many tables it has copied
    seen,      \* the active version it read when it began to activate
    kills      \* kills so far

tables == <<status, previous, payload, run, globals, link>>
procs == <<pc, loaded, seen, kills>>
vars == <<tables, procs>>

AllTables == 1..Tables
Prior == {"active", "rolled_back"}
Statuses == Prior \cup {"absent", "loading", "rejected", "failed"}
Points == {"idle", "look", "insert", "replace", "load", "check", "reject", "rejectRun",
           "activate", "switch", "report", "abortRun", "abort"}

(* The version SELECTed WHERE is_active.                                   *)
Active == IF \E v \in Versions : status[v] = "active"
          THEN CHOOSE v \in Versions : status[v] = "active"
          ELSE None

DsTypeOK ==
    /\ status \in [Versions -> Statuses]
    /\ previous \in [Versions -> Versions \cup {None}]
    /\ payload \in [Versions -> SUBSET AllTables]
    /\ run \in [Versions -> Statuses \ {"rolled_back"}]
    /\ globals \in Versions \cup {None}
    /\ link \in Versions \cup {None}
    /\ pc \in [Runs -> Points]
    /\ loaded \in [Runs -> 0..Tables]
    /\ seen \in [Runs -> Versions \cup {None}]
    /\ kills \in 0..MaxKills

Init ==
    /\ status = [v \in Versions |-> "absent"]
    /\ previous = [v \in Versions |-> None]
    /\ payload = [v \in Versions |-> {}]
    /\ run = [v \in Versions |-> "absent"]
    /\ globals = None
    /\ link = None
    /\ pc = [m \in Runs |-> "idle"]
    /\ loaded = [m \in Runs |-> 0]
    /\ seen = [m \in Runs |-> None]
    /\ kills = 0

Goto(m, from, to) == pc[m] = from /\ pc' = [pc EXCEPT ![m] = to]

-----------------------------------------------------------------------------
(* migrate, up to the loaded candidate                                     *)

Start(m) ==
    /\ Reuse \/ status[Target[m]] \notin Prior
    /\ Goto(m, "idle", "look")
    /\ UNCHANGED <<tables, loaded, seen, kills>>

(* The look at the existing row is not part of the transaction that follows*)
(* it.  A version that is active already is left as it is.                 *)
Look(m) ==
    /\ \/ status[Target[m]] = "active" /\ Goto(m, "look", "idle")
       \/ status[Target[m]] = "absent" /\ Goto(m, "look", "insert")
       \/ status[Target[m]] \notin {"absent", "active"} /\ Goto(m, "look", "replace")
    /\ UNCHANGED <<tables, loaded, seen, kills>>

(* A row of another version, or the link override, refers to version v:    *)
(* the foreign keys refuse its deletion.                                   *)
Referenced(v) == link = v \/ \E u \in Versions : previous[u] = v

(* An open activation of v has locked its row with the rows that refer to  *)
(* it.                                                                     *)
BeingActivated(v) == \E m \in Runs : pc[m] = "switch" /\ Target[m] = v

(* One transaction: an existing candidate is deleted with all it has, then *)
(* the row is inserted anew.                                               *)
PrepareCandidate(m) ==
    LET v == Target[m]
    IN  /\ \/ Goto(m, "replace", "load") /\ ~Referenced(v) /\ ~BeingActivated(v)
           \/ Goto(m, "insert", "load") /\ status[v] = "absent"
        /\ status' = [status EXCEPT ![v] = "loading"]
        /\ previous' = [previous EXCEPT ![v] = IF Active = v THEN None ELSE Active]
        /\ payload' = [payload EXCEPT ![v] = {}]
        /\ run' = [run EXCEPT ![v] = "loading"]
        /\ loaded' = [loaded EXCEPT ![m] = 0]
        /\ UNCHANGED <<globals, link, seen, kills>>

(* A foreign key, the key of the new row or the lock timeout ends it.      *)
PrepareFails(m) ==
    /\ Goto(m, "replace", "abortRun") \/ Goto(m, "insert", "abortRun")
    /\ UNCHANGED <<tables, loaded, seen, kills>>

(* Mutant: the staging of overrides and exchange rates is left out.        *)
LoadStraight(m) ==
    LET v == Target[m]
        t == loaded[m] + 1
    IN  /\ t \in AllTables \ payload[v]
        /\ Goto(m, "load", "load")
        /\ payload' = [payload EXCEPT ![v] = @ \cup {t}]
        /\ loaded' = [loaded EXCEPT ![m] = t]
        /\ globals' = v
        /\ UNCHANGED <<status, previous, run, link, seen, kills>>

(* Each table is copied on its own; overrides and exchange rates are only  *)
(* staged in memory.  A value may be refused, a row may be there already.  *)
Load(m) ==
    LET v == Target[m]
        t == loaded[m] + 1
    IN  /\ loaded[m] < Tables
        /\ \/ /\ Goto(m, "load", "load")
              /\ t \notin payload[v]
              /\ payload' = [payload EXCEPT ![v] = @ \cup {t}]
              /\ loaded' = [loaded EXCEPT ![m] = t]
           \/ Goto(m, "load", "abortRun") /\ UNCHANGED <<payload, loaded>>
        /\ UNCHANGED <<status, previous, run, globals, link, seen, kills>>

(* Mutant: the counts are taken from what was sent, not from the tables.   *)
CheckWithoutCounting(m) ==
    /\ \/ Goto(m, "load", "activate")
       \/ loaded[m] = Tables /\ Goto(m, "load", "reject")
    /\ UNCHANGED <<tables, loaded, seen, kills>>

(* The counts in the tables are compared with the source's, and the control*)
(* values with the expected ones.                                          *)
Check(m) ==
    /\ loaded[m] = Tables
    /\ \/ payload[Target[m]] = AllTables /\ Goto(m, "load", "activate")
       \/ Goto(m, "load", "reject")
    /\ UNCHANGED <<tables, loaded, seen, kills>>

-----------------------------------------------------------------------------
(* migrate, the activation                                                 *)

Reject(m) ==
    LET v == Target[m]
    IN  /\ Goto(m, "reject", "rejectRun")
        /\ status' = [status EXCEPT ![v] = IF @ = "active" THEN @ ELSE "rejected"]
        /\ UNCHANGED <<previous, payload, run, globals, link, loaded, seen, kills>>

RejectRun(m) ==
    /\ Goto(m, "rejectRun", "abortRun")
    /\ run' = [run EXCEPT ![Target[m]] = "rejected"]
    /\ UNCHANGED <<status, previous, payload, globals, link, loaded, seen, kills>>

(* The transaction begins: staged records, materializations, then the      *)
(* active row FOR UPDATE.                                                  *)
ReadActive(m) ==
    /\ \/ Goto(m, "activate", "switch") /\ seen' = [seen EXCEPT ![m] = Active]
       \/ Goto(m, "activate", "abortRun") /\ UNCHANGED seen
    /\ UNCHANGED <<tables, loaded, kills>>

MakeActive(v) ==
    status' = [u \in Versions |-> IF u = v THEN "active"
                                  ELSE IF status[u] = "active" THEN "rolled_back"
                                  ELSE status[u]]

(* The transaction commits, unless somebody else has changed the active row*)
(* since (the lock finds no row any more, the unique index refuses a second*)
(* active one).  Overrides are retargeted when their profile is in v.      *)
Switch(m) ==
    LET v == Target[m]
    IN  /\ \/ /\ seen[m] = Active
              /\ Goto(m, "switch", "report")
              /\ MakeActive(v)
              /\ run' = [run EXCEPT ![v] = "active"]
              /\ globals' = v
              /\ link' \in {link, v}
              /\ UNCHANGED <<previous, payload>>
           \/ /\ seen[m] # Active
              /\ Goto(m, "switch", "abortRun")
              /\ UNCHANGED tables
        /\ seen' = [seen EXCEPT ![m] = None]
        /\ UNCHANGED <<loaded, kills>>

(* write_reports, which may fail although the version is active.           *)
Report(m) ==
    /\ Goto(m, "report", "idle") \/ Goto(m, "report", "abortRun")
    /\ UNCHANGED <<tables, loaded, seen, kills>>

(* Mutant: the handler does not spare an activated run.                    *)
AbortRunBlindly(m) ==
    LET v == Target[m]
    IN  /\ Goto(m, "abortRun", "abort")
        /\ run' = [run EXCEPT ![v] = IF @ \in {"rejected", "absent"} THEN @ ELSE "failed"]
        /\ UNCHANGED <<status, previous, payload, globals, link, loaded, seen, kills>>

(* The exception handler, two statements.                                  *)
AbortRun(m) ==
    LET v == Target[m]
    IN  /\ Goto(m, "abortRun", "abort")
        /\ run' = [run EXCEPT ![v] = IF @ \in {"active", "rejected", "absent"} THEN @
                                     ELSE "failed"]
        /\ UNCHANGED <<status, previous, payload, globals, link, loaded, seen, kills>>

Abort(m) ==
    LET v == Target[m]
    IN  /\ Goto(m, "abort", "idle")
        /\ status' = [status EXCEPT ![v] = IF @ \in {"active", "rejected", "absent"} THEN @
                                           ELSE "failed"]
        /\ UNCHANGED <<previous, payload, run, globals, link, loaded, seen, kills>>

(* Killed, cancelled by the job timeout, or cut off from the database: the *)
(* handler does not run.                                                   *)
Kill(m) ==
    /\ pc[m] # "idle" /\ kills < MaxKills
    /\ pc' = [pc EXCEPT ![m] = "idle"]
    /\ seen' = [seen EXCEPT ![m] = None]
    /\ kills' = kills + 1
    /\ UNCHANGED <<tables, loaded>>

-----------------------------------------------------------------------------
(* rollback_dataset, to a version that was served before.                  *)
Rollback(v) ==
    /\ status[v] = "rolled_back"
    /\ MakeActive(v)
    /\ UNCHANGED <<previous, payload, run, globals, link, procs>>

(* An administrator links a funder to a profile of the active version.     *)
Relink ==
    /\ Active # None
    /\ link' = Active
    /\ UNCHANGED <<status, previous, payload, run, globals, procs>>

Step(m) ==
    \/ Look(m) \/ PrepareCandidate(m) \/ PrepareFails(m) \/ Load(m) \/ Check(m)
    \/ Reject(m) \/ RejectRun(m) \/ ReadActive(m) \/ Switch(m) \/ Report(m) \/ AbortRun(m) \/ Abort(m)

Next ==
    \/ \E m \in Runs : Start(m) \/ Step(m) \/ Kill(m)
    \/ \E v \in Versions : Rollback(v)
    \/ Relink

Spec == Init /\ [][Next]_vars

-----------------------------------------------------------------------------
(* Properties                                                              *)

(* Never two versions are active, and the active one has all its tables,   *)
(* whatever other candidates are loaded, killed or loaded again meanwhile  *)
(* (uq_dataset_versions_single_active, the reconciliation before _activate)*)
ActiveIsComplete ==
    \A v \in Versions : status[v] = "active" =>
        /\ payload[v] = AllTables
        /\ \A u \in Versions \ {v} : status[u] # "active"

(* A version that was served before has all its tables: rollback_dataset   *)
(* may pick it at any time.                                                *)
PriorIsComplete == \A v \in Versions : status[v] \in Prior => payload[v] = AllTables

(* ADR-015: "A rejected, interrupted or quarantined candidate cannot change*)
(* global operational state": overrides and exchange rates come from the   *)
(* source of a version only in the step that activates it.                 *)
GlobalsFollowActivation ==
    [][globals' # globals =>
          status[globals'] # "active" /\ status'[globals'] = "active"]_vars

(* The migration run of a version that is or was served says "active", also*)
(* when the report of the activation could not be written and the exception*)
(* handler ran.                                                            *)
RunTellsTruth == \A v \in Versions : status[v] \in Prior => run[v] = "active"

(* The tables implement the promise to the serving queries.                *)
Serving == INSTANCE ServingDataset
    WITH Nothing <- None, serving <- Active,
         complete <- {v \in Versions : payload[v] = AllTables}
ImplementsServing == Serving!Spec
=============================================================================
