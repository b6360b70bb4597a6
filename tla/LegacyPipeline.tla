--------------------------- MODULE LegacyPipeline ---------------------------
(***************************************************************************)
(* The pipeline of the SQLite mode: API processes that claim it with a     *)
(* lock file (src/src/bff/admin.py), the commands they start as processes  *)
(* of their own (src/src/pipelines/run_pipeline.py), and the database file *)
(* that each command clones, works on and replaces                         *)
(* (src/src/data/db_loader.py) while the API goes on writing to it.        *)
(***************************************************************************)
EXTENDS Naturals, Sequences

CONSTANTS
    Procs,     \* API processes, named by their pids
    Runs,      \* trigger requests
    ModeOf,    \* the mode each of them asks for
    Edits,     \* what users write to the database through the API
    Mortal,    \* the processes that may be killed, once each
    Unshown,   \* the runs whose status cannot always be written
    None

ASSUME ModeAssumption ==
    ModeOf \in [Runs -> {"quick_consolidate", "refresh_charities", "full_run"}]
ASSUME MortalAssumption == Mortal \subseteq Procs
ASSUME UnshownAssumption == Unshown \subseteq Runs
ASSUME NoneAssumption ==
    /\ None \notin Procs \cup Runs
    /\ None \notin [pid: Procs \cup {None}, old: BOOLEAN, for: Runs]

VARIABLES
    up,        \* the living API processes
    killed,    \* those killed so far
    lock,      \* the lock file or None: pid (None while it is empty), whether it
               \* is six hours old, and the run it was made for (history)
    claim,     \* where each process stands in claim_pipeline_run
    run,       \* where each run stands, the steps its command has left, what it has
               \* read, its staging file, and the edits known when it was cloned
    status,    \* the status file: state, and the run it speaks of
    raw,       \* the runs whose records are in the raw files
    live,      \* the database file: imported runs and edits
    made,      \* history: the edits that were acknowledged
    robbed,    \* history: runs whose lock was removed by one that had judged
               \* another lock, or released its own
    overlapped \* history: two commands were once at work together

world == <<raw, live, made>>
vars == <<up, killed, lock, claim, run, status, world, robbed, overlapped>>

NoClaim == [at |-> "idle", run |-> None, tries |-> 0, pid |-> None, seen |-> None]

Init ==
    /\ up = Procs /\ killed = {} /\ lock = None
    /\ claim = [p \in Procs |-> NoClaim]
    /\ run = [r \in Runs |-> [at |-> "none", host |-> None, attended |-> FALSE, todo |-> <<>>,
                              ok |-> TRUE, found |-> FALSE, mem |-> {}, staging |-> None,
                              known |-> {}]]
    /\ status = [state |-> "idle", run |-> None]
    /\ raw = {} /\ live = [imports |-> {}, edits |-> {}]
    /\ made = {} /\ robbed = {} /\ overlapped = FALSE

-----------------------------------------------------------------------------
(* claim_pipeline_run: every file operation is a step of its own           *)

(* O_CREAT | O_EXCL.                                                       *)
Create(p, c) ==
    IF lock = None
    THEN /\ lock' = [pid |-> None, old |-> FALSE, for |-> c.run]
         /\ claim' = [claim EXCEPT ![p] = [c EXCEPT !.at = "write"]]
    ELSE /\ claim' = [claim EXCEPT ![p] = [c EXCEPT !.at = "read"]]
         /\ UNCHANGED lock

(* The route claims on the event loop: one claim at a time in a process.   *)
Trigger(p, r) ==
    /\ p \in up /\ claim[p].at = "idle" /\ run[r].at = "none"
    /\ Create(p, [NoClaim EXCEPT !.run = r, !.tries = 1])
    /\ run' = [run EXCEPT ![r].at = "claiming"]
    /\ UNCHANGED <<up, killed, status, world, robbed, overlapped>>

TryAgain(p) ==
    /\ claim[p].at = "create"
    /\ Create(p, [claim[p] EXCEPT !.pid = None, !.seen = None])
    /\ UNCHANGED <<up, killed, run, status, world, robbed, overlapped>>

(* _read_lock_metadata: an empty or a missing file has no pid.             *)
ReadMetadata(p) ==
    /\ claim[p].at = "read"
    /\ claim' = [claim EXCEPT ![p] =
           [@ EXCEPT !.at = "judge",
                     !.pid = IF lock = None THEN None ELSE lock.pid,
                     !.seen = IF lock = None THEN None ELSE lock.for]]
    /\ UNCHANGED <<up, killed, lock, run, status, world, robbed, overlapped>>

OwnerIsAlive(p) == claim[p].pid \in up

Refuse(p) ==
    /\ claim' = [claim EXCEPT ![p] = NoClaim]
    /\ run' = [run EXCEPT ![claim[p].run].at = "refused"]

(* The loop makes two rounds.                                              *)
Retry(p) ==
    IF claim[p].tries = 2 THEN Refuse(p)
    ELSE /\ claim' = [claim EXCEPT ![p] = [@ EXCEPT !.at = "create", !.tries = 2]]
         /\ UNCHANGED run

(* Mutant: an old lock is taken whether or not its owner lives.            *)
JudgeByAge(p) ==
    /\ claim[p].at = "judge"
    /\ IF lock = None THEN Retry(p)
       ELSE IF ~lock.old THEN Refuse(p)
       ELSE claim' = [claim EXCEPT ![p].at = "unlink"] /\ UNCHANGED run
    /\ UNCHANGED <<up, killed, lock, status, world, robbed, overlapped>>

Judge(p) ==
    /\ claim[p].at = "judge"
    /\ IF lock = None THEN Retry(p)
       ELSE IF ~lock.old \/ OwnerIsAlive(p) THEN Refuse(p)
       ELSE claim' = [claim EXCEPT ![p].at = "unlink"] /\ UNCHANGED run
    /\ UNCHANGED <<up, killed, lock, status, world, robbed, overlapped>>

(* By name: it may be a newer file than the one that was judged.           *)
Unlink(p) ==
    /\ claim[p].at = "unlink"
    /\ lock' = None
    /\ robbed' = IF lock # None /\ lock.for # claim[p].seen THEN robbed \cup {lock.for}
                 ELSE robbed
    /\ Retry(p)
    /\ UNCHANGED <<up, killed, status, world, overlapped>>

(* write_status, which logs that it could not and leaves the file as it is.*)
Show(r, state) ==
    \/ status' = [state |-> state, run |-> r]
    \/ r \in Unshown /\ UNCHANGED status

(* The metadata go through the descriptor, to the file this claim created  *)
(* even if that is unlinked; the status is written, the task is queued     *)
(* behind the response.                                                    *)
Accept(p) ==
    LET r == claim[p].run
    IN  /\ claim[p].at = "write"
        /\ lock' = IF lock # None /\ lock.for = r THEN [lock EXCEPT !.pid = p] ELSE lock
        /\ Show(r, "running")
        /\ run' = [run EXCEPT ![r] = [@ EXCEPT !.at = "ready", !.host = p, !.attended = TRUE]]
        /\ claim' = [claim EXCEPT ![p] = NoClaim]
        /\ UNCHANGED <<up, killed, world, robbed, overlapped>>

(* The metadata cannot be written: the lock file is unlinked by name, and  *)
(* the route raises.                                                       *)
AcceptFails(p) ==
    /\ claim[p].at = "write"
    /\ lock' = None
    /\ robbed' = IF lock # None /\ lock.for # claim[p].run THEN robbed \cup {lock.for}
                 ELSE robbed
    /\ Refuse(p)
    /\ UNCHANGED <<up, killed, status, world, overlapped>>

-----------------------------------------------------------------------------
(* The commands.  What a command does to shared files is a list of steps;  *)
(* "next" is the task of the API that starts the next command.             *)

Script(mode) ==
    CASE mode = "quick_consolidate" -> <<"load", "clone", "publish">>
      [] mode = "refresh_charities" -> <<"load", "save", "next", "load", "clone", "publish">>
      [] mode = "full_run" -> <<"clone", "load", "save", "publish">>

AtWork == {r \in Runs : run[r].at = "working"}

Start(r) ==
    /\ run[r].at = "ready" /\ run[r].attended
    /\ Show(r, "running")
    /\ run' = [run EXCEPT ![r] = [@ EXCEPT !.at = "working", !.todo = Script(ModeOf[r])]]
    /\ overlapped' = (overlapped \/ AtWork # {})
    /\ UNCHANGED <<up, killed, lock, claim, world, robbed>>

Doing(r, step) == run[r].at = "working" /\ Head(run[r].todo) = step
Advanced(r) == [run[r] EXCEPT !.todo = Tail(@)]
Exited(r) == [run[r] EXCEPT !.at = "exited", !.todo = <<>>, !.mem = {}, !.staging = None,
                            !.known = {}]

(* The raw records are read once and written back whole.                   *)
Load(r) ==
    /\ Doing(r, "load")
    /\ run' = [run EXCEPT ![r] = [Advanced(r) EXCEPT !.mem = raw]]
    /\ UNCHANGED <<up, killed, lock, claim, status, world, robbed, overlapped>>

Save(r) ==
    /\ Doing(r, "save")
    /\ raw' = run[r].mem \cup {r}
    /\ run' = [run EXCEPT ![r] = [Advanced(r) EXCEPT !.found = TRUE]]
    /\ UNCHANGED <<up, killed, lock, claim, status, live, made, robbed, overlapped>>

(* Only a living API goes on to the next command.                          *)
NextCommand(r) ==
    /\ Doing(r, "next") /\ run[r].attended
    /\ run' = [run EXCEPT ![r] = Advanced(r)]
    /\ UNCHANGED <<up, killed, lock, claim, status, world, robbed, overlapped>>

(* Mutant: the staging file starts empty instead of as a clone.            *)
CloneNothing(r) ==
    /\ Doing(r, "clone")
    /\ run' = [run EXCEPT ![r] =
           [Advanced(r) EXCEPT !.staging = [imports |-> {}, edits |-> {}],
                              !.known = made]]
    /\ UNCHANGED <<up, killed, lock, claim, status, world, robbed, overlapped>>

Clone(r) ==
    /\ Doing(r, "clone")
    /\ run' = [run EXCEPT ![r] = [Advanced(r) EXCEPT !.staging = live, !.known = made]]
    /\ UNCHANGED <<up, killed, lock, claim, status, world, robbed, overlapped>>

(* Mutant: a full run publishes what it scraped without what it cloned.    *)
ImportedAlone(r) == IF ModeOf[r] = "full_run" THEN {r} ELSE run[r].mem

(* A consolidation reloads all raw records, a full run adds its own.       *)
Imported(r) ==
    IF ModeOf[r] = "full_run" THEN run[r].staging.imports \cup {r} ELSE run[r].mem

Publish(r) ==
    /\ Doing(r, "publish")
    /\ live' = [imports |-> Imported(r), edits |-> run[r].staging.edits]
    /\ run' = [run EXCEPT ![r] = Exited(r)]
    /\ UNCHANGED <<up, killed, lock, claim, status, raw, made, robbed, overlapped>>

(* A full run that finds no foundation to process drops its staging file.  *)
NoTargets(r) ==
    /\ Doing(r, "load") /\ ModeOf[r] = "full_run"
    /\ run' = [run EXCEPT ![r] = Exited(r)]
    /\ UNCHANGED <<up, killed, lock, claim, status, world, robbed, overlapped>>

(* Any step may fail; the staging file is unlinked.                        *)
CommandFails(r) ==
    /\ run[r].at = "working" /\ Head(run[r].todo) # "next"
    /\ run' = [run EXCEPT ![r] = [Exited(r) EXCEPT !.ok = FALSE]]
    /\ UNCHANGED <<up, killed, lock, claim, status, world, robbed, overlapped>>

-----------------------------------------------------------------------------
(* The end of run_pipeline_task and release_pipeline_claim                 *)

(* Mutant: the exit code is not looked at.                                 *)
ReportSuccess(r) ==
    /\ run[r].at = "exited" /\ run[r].attended
    /\ Show(r, "success")
    /\ run' = [run EXCEPT ![r].at = "reported"]
    /\ UNCHANGED <<up, killed, lock, claim, world, robbed, overlapped>>

Report(r) ==
    /\ run[r].at = "exited" /\ run[r].attended
    /\ Show(r, IF run[r].ok THEN "success" ELSE "failed")
    /\ run' = [run EXCEPT ![r].at = "reported"]
    /\ UNCHANGED <<up, killed, lock, claim, world, robbed, overlapped>>

(* Mutant: a failed run keeps the claim.                                   *)
ReleaseReadUnlessFailed(r) ==
    /\ run[r].at = "reported" /\ run[r].attended
    /\ run' = [run EXCEPT ![r].at =
           IF run[r].ok /\ lock # None /\ lock.pid = run[r].host THEN "releasing" ELSE "done"]
    /\ UNCHANGED <<up, killed, lock, claim, status, world, robbed, overlapped>>

ReleaseRead(r) ==
    /\ run[r].at = "reported" /\ run[r].attended
    /\ run' = [run EXCEPT ![r].at =
           IF lock # None /\ lock.pid = run[r].host THEN "releasing" ELSE "done"]
    /\ UNCHANGED <<up, killed, lock, claim, status, world, robbed, overlapped>>

ReleaseUnlink(r) ==
    /\ run[r].at = "releasing" /\ run[r].attended
    /\ lock' = None
    /\ robbed' = IF lock # None /\ lock.for # r THEN robbed \cup {lock.for} ELSE robbed
    /\ run' = [run EXCEPT ![r].at = "done"]
    /\ UNCHANGED <<up, killed, claim, status, world, overlapped>>

-----------------------------------------------------------------------------
(* The environment                                                         *)

(* Six hours; no claim takes that long.                                    *)
LockGetsOld ==
    /\ lock # None /\ ~lock.old
    /\ \A p \in Procs : claim[p].at = "idle"
    /\ lock' = [lock EXCEPT !.old = TRUE]
    /\ UNCHANGED <<up, killed, claim, run, status, world, robbed, overlapped>>

Edit(e) ==
    /\ e \notin made
    /\ made' = made \cup {e}
    /\ live' = [live EXCEPT !.edits = @ \cup {e}]
    /\ UNCHANGED <<up, killed, lock, claim, run, status, raw, robbed, overlapped>>

(* The commands it has started outlive an API process.                     *)
Kill(p) ==
    /\ p \in up \cap (Mortal \ killed)
    /\ up' = up \ {p} /\ killed' = killed \cup {p}
    /\ claim' = [claim EXCEPT ![p] = NoClaim]
    /\ run' = [r \in Runs |->
           IF claim[p].run = r THEN [run[r] EXCEPT !.at = "refused"]
           ELSE IF run[r].host = p THEN [run[r] EXCEPT !.attended = FALSE]
           ELSE run[r]]
    /\ UNCHANGED <<lock, status, world, robbed, overlapped>>

(* In a container the new process has the pid of the old one.              *)
Restart(p) ==
    /\ p \notin up
    /\ up' = up \cup {p}
    /\ UNCHANGED <<killed, lock, claim, run, status, world, robbed, overlapped>>

ClaimStep(p) ==
    TryAgain(p) \/ Accept(p) \/ AcceptFails(p) \/ ReadMetadata(p) \/ Judge(p) \/ Unlink(p)

RunStep(r) ==
    \/ Start(r) \/ Load(r) \/ Save(r) \/ NextCommand(r) \/ Clone(r) \/ Publish(r)
    \/ NoTargets(r) \/ CommandFails(r) \/ Report(r) \/ ReleaseRead(r) \/ ReleaseUnlink(r)

Next ==
    \/ \E p \in Procs : ClaimStep(p) \/ Kill(p) \/ Restart(p) \/ \E r \in Runs : Trigger(p, r)
    \/ \E r \in Runs : RunStep(r)
    \/ \E e \in Edits : Edit(e)
    \/ LockGetsOld

(* Claims are a few file operations in a row; commands end (their network  *)
(* calls have timeouts), and the API waits for them.                       *)
Fairness ==
    /\ \A p \in Procs : WF_vars(ClaimStep(p))
    /\ \A r \in Runs : WF_vars(RunStep(r))

Spec == Init /\ [][Next]_vars /\ Fairness

-----------------------------------------------------------------------------
(* Properties                                                              *)

UnderWay(r) ==
    run[r].attended /\ run[r].at \in {"ready", "working", "exited", "reported"}

(* No two API processes attend a run each, nor one process two, except     *)
(* after a lock was unlinked by name that was not the one that had been    *)
(* judged: neither age nor a dead predecessor nor a release lets a second  *)
(* claim in.                                                               *)
ClaimsExclude ==
    \A r, s \in Runs : UnderWay(r) /\ UnderWay(s) => r = s \/ r \in robbed \/ s \in robbed

(* "Success" in the status file is true of the database: what that run     *)
(* scraped is in the file that is served, and stays there, as long as no   *)
(* two commands were at work together.                                     *)
SuccessIsLive ==
    status.state = "success" /\ run[status.run].found /\ ~overlapped =>
        status.run \in live.imports

(* The status file says "running" while a run is under way whose status    *)
(* could be written, unless a lock was lost: no other run writes its end   *)
(* over it.                                                                *)
RunningIsShown ==
    \A r \in Runs \ Unshown : UnderWay(r) /\ run[r].at # "reported" /\ robbed = {} =>
        status = [state |-> "running", run |-> r]

(* What was imported stays in the raw files and in the database, through   *)
(* any mixture of modes, failures and kills, as long as no two commands    *)
(* were at work together.                                                  *)
ImportsStay ==
    [][~overlapped' => raw \subseteq raw' /\ live.imports \subseteq live'.imports]_vars

(* A published file loses an acknowledged edit only if that was made       *)
(* between the run's clone and its publication, as long as no two commands *)
(* were at work together.                                                  *)
OnlyLateEditsAreLost ==
    [][~overlapped' => \A e \in live.edits \ live'.edits :
           \E r \in Runs : Publish(r) /\ e \notin run[r].known]_vars

(* A lock whose process lives on is given back, whether its run succeeds,  *)
(* fails or finds nothing to do.                                           *)
LockIsGivenBack ==
    (lock # None /\ run[lock.for].attended) ~> (lock = None \/ ~run[lock.for].attended)
=============================================================================
