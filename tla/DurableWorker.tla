--------------------------- MODULE DurableWorker ----------------------------
(***************************************************************************)
(* The worker processes of src/src/pipelines/worker.py: the loop of run()  *)
(* and, inside it, DurableWorker.run_once (pipelines/durable_worker.py)    *)
(* with its handler, its job timeout and its lease-keeping task, over the  *)
(* tables of JobStore.  A process may be killed anywhere and is started    *)
(* again; any exception that leaves the loop ends it as well.              *)
(***************************************************************************)
EXTENDS JobStore

CONSTANTS
    Handled,    \* job types with a registered handler
    MaxFaults   \* bound on kills, stop signals and database errors together

ASSUME FaultsAssumption == MaxFaults \in Nat

VARIABLES
    wpc,        \* where each process stands: down, loop, claim, claiming, idle, and
                \* with a job start, exec, failing, joining, succeeding
    mine,       \* the job each process holds, None before and after
    outcome,    \* what became of the handler call: none, done, failed, lost
    beating,    \* the lease-keeping task: off, on, lost (the lease), broken
    stopping,   \* a SIGTERM has been seen
    performed,  \* how often the effects of each job were made
    faults      \* faults so far

wvars == <<wpc, mine, outcome, beating, stopping, performed, faults>>
allVars == <<vars, wvars>>

WInit ==
    /\ Init
    /\ wpc = [w \in Workers |-> "loop"]
    /\ mine = [w \in Workers |-> None]
    /\ outcome = [w \in Workers |-> "none"]
    /\ beating = [w \in Workers |-> "off"]
    /\ stopping = [w \in Workers |-> FALSE]
    /\ performed = [j \in JobIds |-> 0]
    /\ faults = 0

Goto(w, from, to) == wpc[w] = from /\ wpc' = [wpc EXCEPT ![w] = to]

(* The process leaves run_once, whichever way, with nothing in its hands.  *)
LetGo(w, to) ==
    /\ wpc' = [wpc EXCEPT ![w] = to]
    /\ mine' = [mine EXCEPT ![w] = None]
    /\ outcome' = [outcome EXCEPT ![w] = "none"]
    /\ beating' = [beating EXCEPT ![w] = "off"]

-----------------------------------------------------------------------------
(* run()                                                                   *)

(* Mutant: the loop does not call fail_expired.                            *)
ReapNothing(w) ==
    /\ ~stopping[w]
    /\ Goto(w, "loop", "claim")
    /\ UNCHANGED <<vars, mine, outcome, beating, stopping, performed, faults>>

Reap(w) ==
    /\ ~stopping[w]
    /\ Goto(w, "loop", "claim")
    /\ FailExpired \/ (Overdue = {} /\ UNCHANGED vars)
    /\ UNCHANGED <<mine, outcome, beating, stopping, performed, faults>>

Exit(w) ==
    /\ stopping[w]
    /\ Goto(w, "loop", "down")
    /\ stopping' = [stopping EXCEPT ![w] = FALSE]
    /\ UNCHANGED <<vars, mine, outcome, beating, performed, faults>>

(* The idle wait ends by its timeout or by the stop signal.                *)
Wake(w) ==
    /\ Goto(w, "idle", "loop")
    /\ UNCHANGED <<vars, mine, outcome, beating, stopping, performed, faults>>

Restart(w) ==
    /\ Goto(w, "down", "loop")
    /\ UNCHANGED <<vars, mine, outcome, beating, stopping, performed, faults>>

-----------------------------------------------------------------------------
(* run_once                                                                *)

Poll(w) ==
    /\ \/ Goto(w, "claim", "claiming") /\ ClaimSelect(w)
       \/ Goto(w, "claim", "idle") /\ ClaimNothing(w)
    /\ UNCHANGED <<mine, outcome, beating, stopping, performed, faults>>

Take(w) ==
    /\ Goto(w, "claiming", "start")
    /\ ClaimCommit(w)
    /\ mine' = [mine EXCEPT ![w] = claiming[w]]
    /\ UNCHANGED <<outcome, beating, stopping, performed, faults>>

(* There is no handler for the type.  fail raises when the job is gone.    *)
Refuse(w) ==
    /\ wpc[w] = "start"
    /\ request[mine[w]].type \notin Handled
    /\ \/ Fail(mine[w], w, FALSE) /\ LetGo(w, "loop")
       \/ status[mine[w]] # "running" /\ UNCHANGED vars /\ LetGo(w, "down")
    /\ UNCHANGED <<stopping, performed, faults>>

Begin(w) ==
    /\ Goto(w, "start", "exec")
    /\ request[mine[w]].type \in Handled
    /\ beating' = [beating EXCEPT ![w] = "on"]
    /\ UNCHANGED <<vars, mine, outcome, stopping, performed, faults>>

(* The handler makes its effects: the hydration of the cache row when it is*)
(* a hydration job, effects outside of these tables otherwise.             *)
Perform(w) ==
    /\ wpc[w] = "exec" /\ outcome[w] = "none"
    /\ IF request[mine[w]].type = Hydration THEN Hydrate(mine[w]) ELSE UNCHANGED vars
    /\ outcome' = [outcome EXCEPT ![w] = "done"]
    /\ performed' = [performed EXCEPT ![mine[w]] = @ + 1]
    /\ UNCHANGED <<wpc, mine, beating, stopping, faults>>

(* Mutant: the handler is not awaited.                                     *)
HandlerReturnsEarly(w) ==
    /\ Goto(w, "exec", "joining")
    /\ UNCHANGED <<vars, mine, outcome, beating, stopping, performed, faults>>

HandlerReturns(w) ==
    /\ outcome[w] = "done"
    /\ Goto(w, "exec", "joining")
    /\ UNCHANGED <<vars, mine, outcome, beating, stopping, performed, faults>>

(* The handler raises or runs into the job timeout, before or after it made*)
(* its effects.                                                            *)
HandlerFails(w) ==
    /\ Goto(w, "exec", "failing")
    /\ UNCHANGED <<vars, mine, outcome, beating, stopping, performed, faults>>

FailJob(w) ==
    /\ Goto(w, "failing", "joining")
    /\ \/ /\ Fail(mine[w], w, FALSE)
          /\ outcome' = [outcome EXCEPT ![w] = "failed"]
       \/ /\ status[mine[w]] # "running" /\ UNCHANGED vars
          /\ outcome' = [outcome EXCEPT ![w] = "lost"]
    /\ UNCHANGED <<mine, beating, stopping, performed, faults>>

(* finally: stop the lease-keeping task and await it; what it raised, or   *)
(* what fail raised before, leaves the loop and ends the process.          *)
Join(w) ==
    /\ wpc[w] = "joining"
    /\ IF beating[w] = "broken" \/ outcome[w] = "lost" THEN LetGo(w, "down")
       ELSE IF outcome[w] = "failed" THEN LetGo(w, "loop")
       ELSE /\ wpc' = [wpc EXCEPT ![w] = "succeeding"]
            /\ beating' = [beating EXCEPT ![w] = "off"]
            /\ UNCHANGED <<mine, outcome>>
    /\ UNCHANGED <<vars, stopping, performed, faults>>

(* succeed, or "lost_lease" when the job is no longer running.             *)
Finish(w) ==
    /\ wpc[w] = "succeeding"
    /\ Succeed(mine[w], w) \/ (status[mine[w]] # "running" /\ UNCHANGED vars)
    /\ LetGo(w, "loop")
    /\ UNCHANGED <<stopping, performed, faults>>

-----------------------------------------------------------------------------
(* maintain_lease, one turn.  A turn that has begun is completed even when *)
(* the stop event is set, so it may fall into the join.                    *)
Beat(w) ==
    /\ beating[w] = "on" /\ wpc[w] \in {"exec", "failing", "joining"}
    /\ \/ Heartbeat(mine[w], w) /\ UNCHANGED beating
       \/ /\ status[mine[w]] # "running" /\ UNCHANGED vars
          /\ beating' = [beating EXCEPT ![w] = "lost"]
    /\ UNCHANGED <<wpc, mine, outcome, stopping, performed, faults>>

-----------------------------------------------------------------------------
(* Faults                                                                  *)

Fault == faults < MaxFaults /\ faults' = faults + 1

(* The heartbeat statement fails; nobody looks before the join.            *)
BeatBreaks(w) ==
    /\ beating[w] = "on" /\ wpc[w] \in {"exec", "failing", "joining"}
    /\ beating' = [beating EXCEPT ![w] = "broken"]
    /\ Fault
    /\ UNCHANGED <<vars, wpc, mine, outcome, stopping, performed>>

(* Mutant: a killed process leaves its transaction open.                   *)
CrashHoldingLock(w) ==
    /\ wpc[w] # "down"
    /\ LetGo(w, "down")
    /\ stopping' = [stopping EXCEPT ![w] = FALSE]
    /\ Fault
    /\ UNCHANGED <<vars, performed>>

(* A kill, or a database error in any other statement of the loop.         *)
Crash(w) ==
    /\ wpc[w] # "down"
    /\ ClaimAbort(w) \/ (claiming[w] = None /\ UNCHANGED vars)
    /\ LetGo(w, "down")
    /\ stopping' = [stopping EXCEPT ![w] = FALSE]
    /\ Fault
    /\ UNCHANGED performed

StopSignal(w) ==
    /\ wpc[w] # "down" /\ ~stopping[w]
    /\ stopping' = [stopping EXCEPT ![w] = TRUE]
    /\ Fault
    /\ UNCHANGED <<vars, wpc, mine, outcome, beating, performed>>

-----------------------------------------------------------------------------
(* The steps a process that is not interfered with goes on making.         *)
Progress(w) ==
    \/ Reap(w) \/ Exit(w) \/ Wake(w) \/ Restart(w)
    \/ Poll(w) \/ Take(w) \/ Refuse(w) \/ Begin(w)
    \/ HandlerReturns(w) \/ HandlerFails(w) \/ FailJob(w) \/ Join(w) \/ Finish(w)

Environment ==
    /\ ApiStep \/ (\E j \in JobIds : LeaseLapses(j)) \/ (\E S \in SUBSET JobIds : Retire(S))
    /\ UNCHANGED wvars

WNext ==
    \/ \E w \in Workers : \/ Progress(w) \/ Perform(w) \/ Beat(w)
                          \/ BeatBreaks(w) \/ Crash(w) \/ StopSignal(w)
    \/ Environment

WSpec == WInit /\ [][WNext]_allVars

(* Processes are scheduled and restarted, and the clock runs: a lease that *)
(* no lease-keeping task renews runs out.  Faults, effects, heartbeats and *)
(* requests are owed to nobody.                                            *)
LeaseRunsOut(j) ==
    /\ \A w \in Workers : ~(mine[w] = j /\ beating[w] = "on")
    /\ LeaseLapses(j)
    /\ UNCHANGED wvars

FairWSpec ==
    /\ WSpec
    /\ \A w \in Workers : WF_allVars(Progress(w))
    /\ \A j \in JobIds : WF_allVars(LeaseRunsOut(j))

-----------------------------------------------------------------------------
(* Properties                                                              *)

(* A job is inside at most one process at a time, although nothing in the  *)
(* tables names the owner of a running job: true because no transition     *)
(* ever puts a job that a process may still hold back into the queue.      *)
OneExecutor ==
    \A v, w \in Workers : v # w /\ mine[v] # None => mine[v] # mine[w]

(* The effects of a job are made at most once over all crashes, expired    *)
(* leases and restarts ("automatic retry is disabled", fail_expired), and a*)
(* job reported as succeeded has made them.                                *)
EffectsAtMostOnce ==
    \A j \in JobIds :
        /\ performed[j] <= 1
        /\ status[j] = "succeeded" => performed[j] = 1

(* A worker_heartbeats row that says "running" names a running job.        *)
BeatTellsTruth ==
    \A w \in Workers : beats[w].status = "running" => status[beats[w].job] = "running"

(* Every running job comes to an end: its process finishes or times out, or*)
(* its lease runs out and some process reaps it.                           *)
RunningSettles ==
    \A j \in JobIds : status[j] = "running" ~> status[j] \in Terminal

(* Every queued job is claimed, unless it is retired.                      *)
QueuedIsTaken ==
    \A j \in JobIds : status[j] = "queued" ~> status[j] # "queued"
=============================================================================
