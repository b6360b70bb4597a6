------------------------ MODULE DatasetVersionsProofs -------------------------
(***************************************************************************)
(* Theorems about DatasetVersions for any number of versions, tables and   *)
(* killed processes, when each version is migrated by one process at a time*)
(* and none that was served is migrated again.                             *)
(***************************************************************************)
EXTENDS DatasetVersions, TLAPS

USE TargetAssumption, TablesAssumption, ReuseAssumption, KillsAssumption, NoneAssumption

(* What an operator has to see to: sqlite_to_postgres.py does not, so that *)
(* every theorem says it.                                                  *)
OneRunEach == ~Reuse /\ \A m, n \in Runs : Target[m] = Target[n] => m = n

(* The points of migrate before its version is, or may be, served.         *)
Building == {"look", "insert", "replace", "load", "check", "reject", "rejectRun",
             "activate", "switch"}

(* A process in front of its activation is the only one that could serve   *)
(* its version: neither Rollback nor another activation picks it.          *)
BuildsUnserved == \A m \in Runs : pc[m] \in Building => status[Target[m]] \notin Prior

(* From the comparison of the counts to the activation nobody empties what *)
(* was compared: the transactions between them do not look again.          *)
CheckedIsComplete ==
    \A m \in Runs : pc[m] \in {"activate", "switch"} => payload[Target[m]] = AllTables

DInv == DsTypeOK /\ ActiveIsComplete /\ PriorIsComplete /\ RunTellsTruth
        /\ BuildsUnserved /\ CheckedIsComplete

LEMMA InitDInv == Init => DInv
BY DEF Init, DInv, DsTypeOK, ActiveIsComplete, PriorIsComplete, RunTellsTruth, BuildsUnserved,
       CheckedIsComplete, Statuses, Prior, Points, Building

LEMMA TargetType == \A m \in Runs : Target[m] \in Versions
OBVIOUS

(* Active is the version whose status says so.                             *)
LEMMA ActiveIs ==
    ASSUME DInv
    PROVE  /\ Active \in Versions \cup {None}
           /\ \A v \in Versions : Active = v <=> status[v] = "active"
           /\ Active = None <=> \A v \in Versions : status[v] # "active"
<1>1. \A v \in Versions : v # None
    OBVIOUS
<1>2. CASE \E v \in Versions : status[v] = "active"
  <2>1. Active \in Versions /\ status[Active] = "active"
      BY <1>2 DEF Active
  <2> QED
      BY <1>1, <2>1 DEF DInv, ActiveIsComplete
<1>3. CASE ~\E v \in Versions : status[v] = "active"
    BY <1>1, <1>3 DEF Active
<1> QED
    BY <1>2, <1>3

-----------------------------------------------------------------------------
(* One lemma per group of steps: they keep DInv.                           *)

(* A process moves, and the tables stay.                                   *)
LEMMA MoveKeeps ==
    ASSUME DInv, DsTypeOK', UNCHANGED tables,
           \A m \in Runs : \/ pc'[m] = pc[m]
                           \/ pc'[m] \in Building => status[Target[m]] \notin Prior,
           \A m \in Runs : \/ pc'[m] = pc[m]
                           \/ pc'[m] \in {"activate", "switch"} => payload[Target[m]] = AllTables
    PROVE  DInv'
<1>1. ActiveIsComplete' /\ PriorIsComplete' /\ RunTellsTruth'
    BY DEF DInv, tables, ActiveIsComplete, PriorIsComplete, RunTellsTruth
<1>2. BuildsUnserved'
    BY DEF DInv, tables, BuildsUnserved
<1>3. CheckedIsComplete'
    BY DEF DInv, tables, CheckedIsComplete
<1> QED
    BY <1>1, <1>2, <1>3 DEF DInv

LEMMA StartKeeps == ASSUME DInv, OneRunEach, NEW m \in Runs, Start(m) PROVE DInv'
<1>1. DsTypeOK'
    BY DEF DInv, DsTypeOK, Start, Goto, Points, tables
<1> QED
    BY <1>1, MoveKeeps DEF DInv, DsTypeOK, Start, Goto, OneRunEach

LEMMA LookKeeps == ASSUME DInv, NEW m \in Runs, Look(m) PROVE DInv'
<1>1. DsTypeOK'
    BY DEF DInv, DsTypeOK, Look, Goto, Points, tables
<1> QED
    BY <1>1, MoveKeeps DEF DInv, DsTypeOK, Look, Goto, BuildsUnserved, Building

LEMMA LeaveKeeps ==
    ASSUME DInv, NEW m \in Runs, PrepareFails(m) \/ Report(m) \/ Kill(m)
    PROVE  DInv'
<1>1. /\ DsTypeOK' /\ UNCHANGED tables
      /\ \A n \in Runs : pc'[n] = pc[n] \/ pc'[n] \notin Building
  <2>1. CASE PrepareFails(m) \/ Report(m)
      BY <2>1 DEF DInv, DsTypeOK, PrepareFails, Report, Goto, Points, tables, Building
  <2>2. CASE Kill(m)
      BY <2>2 DEF DInv, DsTypeOK, Kill, Points, tables, Building
  <2> QED
      BY <2>1, <2>2
<1> QED
    BY <1>1, MoveKeeps DEF Building

LEMMA CheckKeeps == ASSUME DInv, NEW m \in Runs, Check(m) PROVE DInv'
<1>1. DsTypeOK'
    BY DEF DInv, DsTypeOK, Check, Goto, Points, tables
<1> QED
    BY <1>1, MoveKeeps DEF DInv, DsTypeOK, Check, Goto, BuildsUnserved, Building

LEMMA ReadActiveKeeps == ASSUME DInv, NEW m \in Runs, ReadActive(m) PROVE DInv'
<1>1. DsTypeOK'
    BY ActiveIs DEF DInv, DsTypeOK, ReadActive, Goto, Points, tables
<1> QED
    BY <1>1, MoveKeeps
    DEF DInv, DsTypeOK, ReadActive, Goto, BuildsUnserved, CheckedIsComplete, Building

(* A step of one process on the rows of its own version, not yet served.   *)
LEMMA OwnVersionKeeps ==
    ASSUME DInv, OneRunEach, DsTypeOK', NEW m \in Runs,
           status[Target[m]] \notin Prior, status'[Target[m]] \notin Prior,
           \A v \in Versions \ {Target[m]} :
              status'[v] = status[v] /\ payload'[v] = payload[v] /\ run'[v] = run[v],
           \A n \in Runs \ {m} : pc'[n] = pc[n],
           pc'[m] \notin {"activate", "switch"}
    PROVE  DInv'
<1> DEFINE t == Target[m]
<1>1. t \in Versions /\ \A n \in Runs \ {m} : Target[n] # t /\ Target[n] \in Versions
    BY DEF OneRunEach
<1>2. status[t] # "active" /\ status'[t] # "active"
    BY DEF Prior
<1>3. ActiveIsComplete'
    BY <1>1, <1>2 DEF DInv, ActiveIsComplete
<1>4. PriorIsComplete' /\ RunTellsTruth'
    BY <1>1 DEF DInv, PriorIsComplete, RunTellsTruth
<1>5. BuildsUnserved'
    BY <1>1 DEF DInv, BuildsUnserved
<1>6. CheckedIsComplete'
    BY <1>1 DEF DInv, CheckedIsComplete
<1> QED
    BY <1>3, <1>4, <1>5, <1>6 DEF DInv

LEMMA PrepareCandidateKeeps ==
    ASSUME DInv, OneRunEach, NEW m \in Runs, PrepareCandidate(m)
    PROVE  DInv'
<1>1. Target[m] \in Versions /\ status[Target[m]] \notin Prior
    BY DEF DInv, BuildsUnserved, PrepareCandidate, Goto, Building
<1>2. DsTypeOK'
    BY <1>1, ActiveIs DEF DInv, DsTypeOK, PrepareCandidate, Goto, Points, Statuses, Prior
<1> QED
    BY <1>1, <1>2, OwnVersionKeeps DEF DInv, DsTypeOK, PrepareCandidate, Goto, Prior

LEMMA LoadKeeps == ASSUME DInv, OneRunEach, NEW m \in Runs, Load(m) PROVE DInv'
<1>1. Target[m] \in Versions /\ status[Target[m]] \notin Prior
    BY DEF DInv, BuildsUnserved, Load, Goto, Building
<1>2. loaded[m] + 1 \in AllTables /\ loaded[m] + 1 \in 0..Tables
    BY DEF DInv, DsTypeOK, Load, AllTables
<1>3. DsTypeOK'
  <2>1. pc' \in [Runs -> Points]
      BY DEF DInv, DsTypeOK, Load, Goto, Points
  <2>2. payload' \in [Versions -> SUBSET AllTables] /\ loaded' \in [Runs -> 0..Tables]
      BY <1>1, <1>2 DEF DInv, DsTypeOK, Load
  <2> QED
      BY <2>1, <2>2 DEF DInv, DsTypeOK, Load
<1> QED
    BY <1>1, <1>3, OwnVersionKeeps DEF DInv, DsTypeOK, Load, Goto

LEMMA RejectKeeps ==
    ASSUME DInv, OneRunEach, NEW m \in Runs, Reject(m) \/ RejectRun(m)
    PROVE  DInv'
<1>1. Target[m] \in Versions /\ status[Target[m]] \notin Prior
    BY DEF DInv, BuildsUnserved, Reject, RejectRun, Goto, Building
<1>2. DsTypeOK'
    BY <1>1 DEF DInv, DsTypeOK, Reject, RejectRun, Goto, Points, Statuses, Prior
<1> QED
    BY <1>1, <1>2, OwnVersionKeeps DEF DInv, DsTypeOK, Reject, RejectRun, Goto, Prior

LEMMA AbortRunKeeps == ASSUME DInv, NEW m \in Runs, AbortRun(m) PROVE DInv'
<1>1. DsTypeOK'
    BY DEF DInv, DsTypeOK, AbortRun, Goto, Points, Statuses, Prior
<1>2. RunTellsTruth'
    BY DEF DInv, DsTypeOK, RunTellsTruth, AbortRun
<1>3. BuildsUnserved' /\ CheckedIsComplete'
    BY DEF DInv, DsTypeOK, BuildsUnserved, CheckedIsComplete, AbortRun, Goto, Building
<1> QED
    BY <1>1, <1>2, <1>3 DEF DInv, ActiveIsComplete, PriorIsComplete, AbortRun

(* The handler may mark as failed a version that was replaced meanwhile.   *)
LEMMA AbortKeeps == ASSUME DInv, NEW m \in Runs, Abort(m) PROVE DInv'
<1>1. DsTypeOK'
    BY DEF DInv, DsTypeOK, Abort, Goto, Points, Statuses, Prior
<1>2. \A v \in Versions : /\ status'[v] \in Prior => status[v] \in Prior
                          /\ status'[v] = "active" <=> status[v] = "active"
    BY DEF DInv, DsTypeOK, Abort, Prior
<1>3. ActiveIsComplete' /\ PriorIsComplete' /\ RunTellsTruth'
    BY <1>2 DEF DInv, ActiveIsComplete, PriorIsComplete, RunTellsTruth, Abort
<1>4. BuildsUnserved' /\ CheckedIsComplete'
    BY <1>2 DEF DInv, DsTypeOK, BuildsUnserved, CheckedIsComplete, Abort, Goto, Building
<1> QED
    BY <1>1, <1>3, <1>4 DEF DInv

(* Some complete version becomes the active one.                           *)
LEMMA MakeActiveKeeps ==
    ASSUME DInv, DsTypeOK', NEW v \in Versions, MakeActive(v), UNCHANGED payload,
           payload[v] = AllTables, run'[v] = "active",
           \A u \in Versions \ {v} : run'[u] = run[u],
           \A m \in Runs : pc'[m] = pc[m] \/ pc'[m] \notin Building,
           \A m \in Runs : pc'[m] \in Building => Target[m] # v
    PROVE  DInv'
<1>1. \A u \in Versions : /\ status'[u] = "active" <=> u = v
                          /\ status'[u] \in Prior <=> u = v \/ status[u] \in Prior
    BY DEF DInv, DsTypeOK, MakeActive, Prior
<1>2. ActiveIsComplete' /\ PriorIsComplete' /\ RunTellsTruth'
    BY <1>1 DEF DInv, ActiveIsComplete, PriorIsComplete, RunTellsTruth
<1>3. BuildsUnserved' /\ CheckedIsComplete'
    BY <1>1 DEF DInv, BuildsUnserved, CheckedIsComplete, Building
<1> QED
    BY <1>2, <1>3 DEF DInv

LEMMA SwitchKeeps == ASSUME DInv, OneRunEach, NEW m \in Runs, Switch(m) PROVE DInv'
<1> DEFINE v == Target[m]
<1>1. v \in Versions /\ payload[v] = AllTables
    BY DEF DInv, CheckedIsComplete, Switch, Goto
<1>2. \A n \in Runs \ {m} : Target[n] # v
    BY DEF OneRunEach
<1>3. CASE seen[m] = Active /\ Goto(m, "switch", "report")
  <2>1. DsTypeOK'
      BY <1>1, <1>3 DEF DInv, DsTypeOK, Switch, MakeActive, Goto, Points, Statuses, Prior
  <2>2. /\ MakeActive(v) /\ UNCHANGED payload /\ run'[v] = "active"
        /\ \A u \in Versions \ {v} : run'[u] = run[u]
      BY <1>1, <1>3 DEF DInv, DsTypeOK, Switch
  <2>3. /\ pc'[m] = "report"
        /\ \A n \in Runs : pc'[n] = pc[n] \/ pc'[n] \notin Building
      BY <1>3 DEF DInv, DsTypeOK, Goto, Building
  <2>4. \A n \in Runs : pc'[n] \in Building => Target[n] # v
      BY <1>2, <2>3 DEF Building
  <2> HIDE DEF v
  <2> QED
      BY <1>1, <2>1, <2>2, <2>3, <2>4, MakeActiveKeeps
<1>4. CASE UNCHANGED tables /\ Goto(m, "switch", "abortRun")
  <2>1. DsTypeOK'
      BY <1>4 DEF DInv, DsTypeOK, Switch, Goto, Points, tables
  <2> QED
      BY <1>4, <2>1, MoveKeeps DEF DInv, DsTypeOK, Goto, Building
<1> QED
    BY <1>3, <1>4 DEF Switch

LEMMA RollbackKeeps == ASSUME DInv, NEW v \in Versions, Rollback(v) PROVE DInv'
<1>1. payload[v] = AllTables /\ run[v] = "active" /\ status[v] \in Prior
    BY DEF DInv, PriorIsComplete, RunTellsTruth, Rollback, Prior
<1>2. DsTypeOK'
    BY DEF DInv, DsTypeOK, Rollback, MakeActive, procs, Statuses, Prior
<1>3. \A m \in Runs : pc'[m] \in Building => Target[m] # v
    BY <1>1 DEF DInv, BuildsUnserved, Rollback, procs
<1> QED
    BY <1>1, <1>2, <1>3, MakeActiveKeeps DEF Rollback, procs

LEMMA RelinkKeeps == ASSUME DInv, Relink PROVE DInv'
<1>1. DsTypeOK'
    BY ActiveIs DEF DInv, DsTypeOK, Relink, procs
<1> QED
    BY <1>1 DEF DInv, Relink, procs, ActiveIsComplete, PriorIsComplete, RunTellsTruth,
                BuildsUnserved, CheckedIsComplete

LEMMA NextDInv == OneRunEach /\ DInv /\ [Next]_vars => DInv'
<1> SUFFICES ASSUME OneRunEach, DInv, [Next]_vars
             PROVE  DInv'
    OBVIOUS
<1>1. CASE \E m \in Runs : Start(m) \/ Kill(m)
    BY <1>1, StartKeeps, LeaveKeeps
<1>2. CASE \E m \in Runs : Step(m)
    BY <1>2, LookKeeps, PrepareCandidateKeeps, LeaveKeeps, LoadKeeps, CheckKeeps, RejectKeeps,
       ReadActiveKeeps, SwitchKeeps, AbortRunKeeps, AbortKeeps DEF Step
<1>3. CASE Relink \/ \E v \in Versions : Rollback(v)
    BY <1>3, RelinkKeeps, RollbackKeeps
<1>4. CASE UNCHANGED vars
    BY <1>4 DEF vars, tables, procs, DInv, DsTypeOK, ActiveIsComplete, PriorIsComplete,
                RunTellsTruth, BuildsUnserved, CheckedIsComplete
<1> QED
    BY <1>1, <1>2, <1>3, <1>4 DEF Next

-----------------------------------------------------------------------------
(* The theorems                                                            *)

(* What is served is complete and single, whatever candidates are loaded,  *)
(* rejected, killed or rolled back to meanwhile.                           *)
THEOREM DatasetsInvariance == ASSUME OneRunEach PROVE Spec => []DInv
<1>1. Init => DInv
    BY InitDInv
<1>2. DInv /\ [Next]_vars => DInv'
    BY NextDInv
<1> QED
    BY <1>1, <1>2, PTL DEF Spec

(* The migration run of a version that is or was served says "active", also*)
(* after a report that could not be written and its exception handler.     *)
THEOREM RunsTellTruth == ASSUME OneRunEach PROVE Spec => []RunTellsTruth
<1>1. DInv => RunTellsTruth
    BY DEF DInv
<1> QED
    BY <1>1, DatasetsInvariance, PTL

(* Overrides and exchange rates change only in the step that activates the *)
(* version they come from (ADR-015).                                       *)
THEOREM GlobalsChangeAtActivation == ASSUME OneRunEach PROVE Spec => GlobalsFollowActivation
<1>1. ASSUME DInv, [Next]_vars, globals' # globals
      PROVE  status[globals'] # "active" /\ status'[globals'] = "active"
  <2>1. PICK m \in Runs : Switch(m)
      BY <1>1 DEF Next, Step, vars, tables, procs, Start, Look, PrepareCandidate, PrepareFails,
                  Load, Check, Reject, RejectRun, ReadActive, Report, AbortRun, Abort, Kill,
                  Rollback, Relink
  <2>2. /\ globals' = Target[m] /\ MakeActive(Target[m]) /\ pc[m] = "switch"
        /\ Target[m] \in Versions
      BY <1>1, <2>1 DEF Switch, Goto, tables
  <2> QED
      BY <1>1, <2>2 DEF MakeActive, DInv, BuildsUnserved, Building, Prior
<1>2. DInv /\ [Next]_vars =>
         [globals' # globals => status[globals'] # "active" /\ status'[globals'] = "active"]_vars
    BY <1>1
<1> QED
    BY <1>2, DatasetsInvariance, PTL DEF Spec, GlobalsFollowActivation

(* A step that leaves the active version alone only builds.                *)
LEMMA BuildStep ==
    ASSUME DInv, DInv',
           \A v \in Versions : status'[v] = "active" <=> status[v] = "active"
    PROVE  Serving!Build
<1>1. Active' = Active
    BY ActiveIs DEF Active
<1>2. {v \in Versions : payload[v] = AllTables}' \in SUBSET Versions
    OBVIOUS
<1>3. Active # None => Active \in Versions /\ payload'[Active] = AllTables
    BY <1>1, ActiveIs DEF DInv, ActiveIsComplete
<1> QED
    BY <1>1, <1>2, <1>3 DEF Serving!Build

LEMMA ServeStep ==
    ASSUME DInv, DInv', NEW v \in Versions, MakeActive(v), UNCHANGED payload,
           payload[v] = AllTables
    PROVE  Serving!Next
<1>1. status'[v] = "active"
    BY DEF MakeActive
<1>2. \A u \in Versions : status'[u] = "active" <=> u = v
    BY <1>1 DEF DInv, ActiveIsComplete
<1>3. Active' = v
    BY <1>2 DEF Active
<1>4. UNCHANGED {u \in Versions : payload[u] = AllTables}
    OBVIOUS
<1> QED
    BY <1>3, <1>4 DEF Serving!Next, Serving!Serve

(* The tables, changed in many transactions by many processes, show the    *)
(* serving queries one complete version that is replaced in one step.      *)
THEOREM DatasetsImplementServing == ASSUME OneRunEach PROVE Spec => ImplementsServing
<1>1. Init => Serving!Init
  <2>1. ASSUME Init PROVE Active = None
      BY <2>1 DEF Init, Active
  <2>2. ASSUME Init PROVE {v \in Versions : payload[v] = AllTables} = {}
      BY <2>2 DEF Init, AllTables
  <2> QED
      BY <2>1, <2>2 DEF Serving!Init
<1>2. DInv /\ DInv' /\ [Next]_vars => [Serving!Next]_(Serving!vars)
  <2> SUFFICES ASSUME DInv, DInv', [Next]_vars
               PROVE  Serving!Next \/ UNCHANGED Serving!vars
      OBVIOUS
  <2>1. CASE \E m \in Runs : Switch(m)
    <3>1. PICK m \in Runs : Switch(m)
        BY <2>1
    <3>2. CASE MakeActive(Target[m]) /\ UNCHANGED payload
      <4>1. payload[Target[m]] = AllTables
          BY <3>1 DEF Switch, Goto, DInv, CheckedIsComplete
      <4> QED
          BY <3>2, <4>1, ServeStep
    <3>3. CASE UNCHANGED tables
        BY <3>3, BuildStep DEF tables, Serving!Next
    <3> QED
        BY <3>1, <3>2, <3>3 DEF Switch
  <2>2. CASE \E v \in Versions : Rollback(v)
      BY <2>2, ServeStep DEF Rollback, DInv, PriorIsComplete, Prior
  <2>3. CASE ~(\E m \in Runs : Switch(m)) /\ ~(\E v \in Versions : Rollback(v))
    <3>1. CASE \E m \in Runs : PrepareCandidate(m)
        BY <3>1, BuildStep
        DEF PrepareCandidate, Goto, DInv, DsTypeOK, BuildsUnserved, Building, Prior, Serving!Next
    <3>2. CASE \E m \in Runs : Reject(m) \/ Abort(m)
        BY <3>2, BuildStep DEF Reject, Abort, DInv, DsTypeOK, Serving!Next
    <3>3. CASE UNCHANGED status
        BY <3>3, BuildStep DEF Serving!Next
    <3> QED
        BY <2>3, <3>1, <3>2, <3>3
        DEF Next, Step, vars, tables, procs, Start, Look, PrepareFails, Load, Check, RejectRun,
            ReadActive, Report, AbortRun, Kill, Relink
  <2> QED
      BY <2>1, <2>2, <2>3
<1> QED
    BY <1>1, <1>2, DatasetsInvariance, PTL DEF Spec, ImplementsServing, Serving!Spec
=============================================================================
