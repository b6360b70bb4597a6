------------------------- MODULE LegacyPipelineProofs -------------------------
(***************************************************************************)
(* Theorems about LegacyPipeline for any API processes, runs, modes, edits *)
(* and kills: who may hold the lock file and what the status file says of  *)
(* it; and, as long as no two commands were at work together, what is in   *)
(* the raw files, in a staging file and in the database that is served.    *)
(***************************************************************************)
EXTENDS LegacyPipeline, TLAPS

USE NoneAssumption

Modes == {"quick_consolidate", "refresh_charities", "full_run"}
Points == {"idle", "create", "read", "judge", "unlink", "write"}
Attending == {"ready", "working", "exited", "reported"}
Stages == {"none", "claiming", "refused", "releasing", "done"} \cup Attending
Steps == {"load", "save", "next", "clone", "publish"}
Files == [imports: SUBSET Runs, edits: SUBSET Edits]
Locks == [pid: Procs \cup {None}, old: BOOLEAN, for: Runs]

(* What a command has left to do: an end of its script.                    *)
Consolidating == {<<"load", "clone", "publish">>, <<"clone", "publish">>, <<"publish">>}
Left(mode) ==
    CASE mode = "quick_consolidate" -> Consolidating
      [] mode = "refresh_charities" ->
             Consolidating \cup {<<"load", "save", "next", "load", "clone", "publish">>,
                                 <<"save", "next", "load", "clone", "publish">>,
                                 <<"next", "load", "clone", "publish">>}
      [] mode = "full_run" ->
             {<<"clone", "load", "save", "publish">>, <<"load", "save", "publish">>,
              <<"save", "publish">>, <<"publish">>}

-----------------------------------------------------------------------------
(* The inductive invariant of the lock                                     *)

Claims == [at: Points, run: Runs \cup {None}, tries: Nat, pid: Procs \cup {None},
           seen: Runs \cup {None}]
RunRecords == [at: Stages, host: Procs \cup {None}, attended: BOOLEAN, todo: Seq(Steps),
               ok: BOOLEAN, found: BOOLEAN, mem: SUBSET Runs, staging: Files \cup {None},
               known: SUBSET Edits]

TypeOK ==
    /\ up \subseteq Procs /\ robbed \subseteq Runs /\ overlapped \in BOOLEAN
    /\ lock \in Locks \cup {None}
    /\ claim \in [Procs -> Claims]
    /\ run \in [Runs -> RunRecords]
    /\ status \in [state: {"idle", "running", "success", "failed"}, run: Runs \cup {None}]
    /\ raw \subseteq Runs /\ live \in Files /\ made \subseteq Edits

(* A command that is at work has a step to take, and a staging file after  *)
(* the step that makes it.                                                 *)
HasCloned(x, mode) ==
    IF mode = "full_run" THEN Head(x.todo) # "clone" ELSE Head(x.todo) = "publish"
InScript(x, mode) == x.todo \in Left(mode) /\ (HasCloned(x, mode) => x.staging \in Files)

ScriptsFit == \A r \in Runs : run[r].at = "working" => InScript(run[r], ModeOf[r])

(* A claim belongs to one run that is in no other stage, and to a process  *)
(* that lives; so does a run that is attended.                             *)
ClaimsFit ==
    /\ \A p \in Procs : claim[p].at = "idle" <=> claim[p].run = None
    /\ \A p \in Procs : claim[p].run # None => p \in up /\ run[claim[p].run].at = "claiming"
    /\ \A p, q \in Procs : claim[p].run = claim[q].run /\ claim[p].run # None => p = q
    /\ \A r \in Runs : run[r].at = "claiming" => \E p \in Procs : claim[p].run = r
    /\ \A r \in Runs : run[r].attended => run[r].host \in up /\ run[r].at \notin {"none", "claiming"}
    /\ \A r \in Runs : run[r].at \in {"none", "claiming"} => run[r].host = None

(* Whoever got the lock has it, unless it was robbed.                      *)
OwnersHold ==
    /\ \A r \in Runs \ robbed : UnderWay(r) =>
           lock # None /\ lock.for = r /\ lock.pid = run[r].host
    /\ \A p \in Procs : claim[p].at = "write" /\ claim[p].run \notin robbed =>
           lock # None /\ lock.for = claim[p].run

(* Nobody who waits for a lock appears in one, and who is still writing one*)
(* has made it just now.                                                   *)
LockFits ==
    lock # None =>
        /\ run[lock.for].at # "none"
        /\ \A p \in Procs : claim[p].run = lock.for => claim[p].at = "write" /\ ~lock.old

(* A lock that is old was there when the claim read its metadata, since    *)
(* none gets old while a claim is open; hence what is judged dead is dead, *)
(* and stays so even if a process with its pid is started later.           *)
Gone(r) ==
    r \in Runs /\ run[r].at \notin {"none", "claiming"} /\ (UnderWay(r) => r \in robbed)

JudgesRight ==
    \A p \in Procs :
        /\ claim[p].at = "judge" /\ lock # None /\ lock.old =>
               claim[p].seen = lock.for /\ claim[p].pid = lock.pid
        /\ claim[p].at = "unlink" => Gone(claim[p].seen)

LockInv == TypeOK /\ ScriptsFit /\ ClaimsFit /\ OwnersHold /\ LockFits /\ JudgesRight

-----------------------------------------------------------------------------
(* The inductive invariant of the files, while no two commands were at work*)
(* together                                                                *)

(* The command has read the raw records and will write or publish them.    *)
HasLoaded(x, mode) ==
    \/ Head(x.todo) = "save"
    \/ mode # "full_run" /\ Head(x.todo) \in {"clone", "publish"}

(* What a command holds is what is in the files: nobody else writes them   *)
(* meanwhile but the API, whose edits come after the clone.                *)
CommandFits(r) ==
    /\ HasLoaded(run[r], ModeOf[r]) => run[r].mem = raw
    /\ HasCloned(run[r], ModeOf[r]) =>
           /\ run[r].staging.imports = live.imports
           /\ live.edits \cap run[r].known \subseteq run[r].staging.edits
    /\ run[r].found => r \in raw
    /\ ModeOf[r] = "full_run" => (run[r].found <=> Head(run[r].todo) = "publish")

(* A run that has ended well and found something is live.                  *)
Early == {"none", "claiming", "refused", "ready"}
OutcomeFits(r) ==
    /\ run[r].found => run[r].at \notin Early
    /\ run[r].at \notin Early \cup {"working"} =>
           (run[r].ok /\ run[r].found => r \in live.imports)

StatusFits ==
    status.state = "success" =>
        /\ status.run \in Runs /\ run[status.run].ok
        /\ run[status.run].at \in {"reported", "releasing", "done"}

FilesInv ==
    /\ \A r \in Runs : run[r].known \subseteq made
    /\ StatusFits
    /\ ~overlapped =>
           /\ \A r, s \in AtWork : r = s
           /\ live.imports \subseteq raw
           /\ \A r \in AtWork : CommandFits(r)
           /\ \A r \in Runs : OutcomeFits(r)

-----------------------------------------------------------------------------
(* The steps of the scripts                                                *)

LEMMA TodoFacts ==
    /\ \A a : Head(<<a>>) = a
    /\ \A a, b : Head(<<a, b>>) = a /\ Tail(<<a, b>>) = <<b>>
    /\ \A a, b, c : Head(<<a, b, c>>) = a /\ Tail(<<a, b, c>>) = <<b, c>>
    /\ \A a, b, c, d : Head(<<a, b, c, d>>) = a /\ Tail(<<a, b, c, d>>) = <<b, c, d>>
    /\ \A a, b, c, d, e : Head(<<a, b, c, d, e>>) = a
                         /\ Tail(<<a, b, c, d, e>>) = <<b, c, d, e>>
    /\ \A a, b, c, d, e, f : Head(<<a, b, c, d, e, f>>) = a
                            /\ Tail(<<a, b, c, d, e, f>>) = <<b, c, d, e, f>>
OBVIOUS

LEMMA TodoTypes ==
    /\ <<"publish">> \in Seq(Steps) /\ <<"clone", "publish">> \in Seq(Steps)
    /\ <<"load", "clone", "publish">> \in Seq(Steps) /\ <<"save", "publish">> \in Seq(Steps)
    /\ <<"load", "save", "publish">> \in Seq(Steps)
    /\ <<"next", "load", "clone", "publish">> \in Seq(Steps)
    /\ <<"clone", "load", "save", "publish">> \in Seq(Steps)
    /\ <<"save", "next", "load", "clone", "publish">> \in Seq(Steps)
    /\ <<"load", "save", "next", "load", "clone", "publish">> \in Seq(Steps)
    /\ <<>> \in Seq(Steps) /\ Tail(<<"publish">>) = <<>>
    /\ \A x : x \in Steps <=> x = "load" \/ x = "save" \/ x = "next" \/ x = "clone" \/ x = "publish"
BY DEF Steps

(* Which step may come after which.                                        *)
LEMMA TodoSteps ==
    ASSUME NEW mode \in Modes, NEW t \in Left(mode)
    PROVE  /\ t \in Seq(Steps) /\ Tail(t) \in Seq(Steps) /\ Head(t) \in Steps
           /\ Head(t) # "publish" => Tail(t) \in Left(mode)
           /\ mode # "full_run" =>
                 /\ Head(t) = "load" => Head(Tail(t)) \in {"save", "clone"}
                 /\ Head(t) = "save" => Head(Tail(t)) = "next"
                 /\ Head(t) = "next" => Head(Tail(t)) = "load"
                 /\ Head(t) = "clone" => Head(Tail(t)) = "publish"
           /\ mode = "full_run" =>
                 /\ Head(t) = "clone" => Head(Tail(t)) = "load"
                 /\ Head(t) = "load" => Head(Tail(t)) = "save"
                 /\ Head(t) = "save" => Head(Tail(t)) = "publish"
                 /\ Head(t) # "next"
<1>1. CASE mode = "full_run"
  <2>1. \/ t = <<"clone", "load", "save", "publish">>
        \/ t = <<"load", "save", "publish">>
        \/ t = <<"save", "publish">>
        \/ t = <<"publish">>
      BY <1>1 DEF Left, Consolidating
  <2>2. CASE t = <<"clone", "load", "save", "publish">>
      BY <1>1, <2>2, TodoFacts, TodoTypes DEF Left, Consolidating
  <2>3. CASE t = <<"load", "save", "publish">>
      BY <1>1, <2>3, TodoFacts, TodoTypes DEF Left, Consolidating
  <2>4. CASE t = <<"save", "publish">>
      BY <1>1, <2>4, TodoFacts, TodoTypes DEF Left, Consolidating
  <2>5. CASE t = <<"publish">>
      BY <1>1, <2>5, TodoFacts, TodoTypes DEF Left, Consolidating
  <2> QED
      BY <2>1, <2>2, <2>3, <2>4, <2>5
<1>2. CASE mode = "quick_consolidate"
  <2>1. \/ t = <<"load", "clone", "publish">>
        \/ t = <<"clone", "publish">>
        \/ t = <<"publish">>
      BY <1>2 DEF Left, Consolidating
  <2>2. CASE t = <<"load", "clone", "publish">>
      BY <1>2, <2>2, TodoFacts, TodoTypes DEF Left, Consolidating
  <2>3. CASE t = <<"clone", "publish">>
      BY <1>2, <2>3, TodoFacts, TodoTypes DEF Left, Consolidating
  <2>4. CASE t = <<"publish">>
      BY <1>2, <2>4, TodoFacts, TodoTypes DEF Left, Consolidating
  <2> QED
      BY <2>1, <2>2, <2>3, <2>4
<1>3. CASE mode = "refresh_charities"
  <2>1. \/ t = <<"load", "clone", "publish">>
        \/ t = <<"clone", "publish">>
        \/ t = <<"publish">>
        \/ t = <<"load", "save", "next", "load", "clone", "publish">>
        \/ t = <<"save", "next", "load", "clone", "publish">>
        \/ t = <<"next", "load", "clone", "publish">>
      BY <1>3 DEF Left, Consolidating
  <2>2. CASE t = <<"load", "clone", "publish">>
      BY <1>3, <2>2, TodoFacts, TodoTypes DEF Left, Consolidating
  <2>3. CASE t = <<"clone", "publish">>
      BY <1>3, <2>3, TodoFacts, TodoTypes DEF Left, Consolidating
  <2>4. CASE t = <<"publish">>
      BY <1>3, <2>4, TodoFacts, TodoTypes DEF Left, Consolidating
  <2>5. CASE t = <<"load", "save", "next", "load", "clone", "publish">>
      BY <1>3, <2>5, TodoFacts, TodoTypes DEF Left, Consolidating
  <2>6. CASE t = <<"save", "next", "load", "clone", "publish">>
      BY <1>3, <2>6, TodoFacts, TodoTypes DEF Left, Consolidating
  <2>7. CASE t = <<"next", "load", "clone", "publish">>
      BY <1>3, <2>7, TodoFacts, TodoTypes DEF Left, Consolidating
  <2> QED
      BY <2>1, <2>2, <2>3, <2>4, <2>5, <2>6, <2>7
<1> QED
    BY <1>1, <1>2, <1>3 DEF Modes

LEMMA ScriptSteps ==
    ASSUME NEW mode \in Modes
    PROVE  /\ Script(mode) \in Left(mode)
           /\ Head(Script(mode)) = IF mode = "full_run" THEN "clone" ELSE "load"
BY TodoFacts DEF Modes, Script, Left, Consolidating

-----------------------------------------------------------------------------
(* What a step of a run does to its record                                 *)

LEMMA PutRun ==
    ASSUME TypeOK, NEW r \in Runs, NEW x \in RunRecords, run' = [run EXCEPT ![r] = x]
    PROVE  /\ run' \in [Runs -> RunRecords] /\ run'[r] = x
           /\ \A s \in Runs \ {r} : run'[s] = run[s]
BY DEF TypeOK

LEMMA AdvanceFacts ==
    ASSUME TypeOK, ScriptsFit, NEW r \in Runs, NEW step, Doing(r, step), step # "publish"
    PROVE  /\ Advanced(r) \in RunRecords /\ Advanced(r).todo = Tail(run[r].todo)
           /\ \A f \in {"at", "host", "attended", "ok", "found", "mem", "staging", "known"} :
                 Advanced(r)[f] = run[r][f]
<1>1. run[r] \in RunRecords /\ ModeOf[r] \in Modes
    BY ModeAssumption DEF TypeOK, Modes
<1>2. Tail(run[r].todo) \in Seq(Steps)
    BY <1>1, TodoSteps DEF ScriptsFit, InScript, Doing
<1> QED
    BY <1>1, <1>2 DEF Advanced, RunRecords

LEMMA ExitFacts ==
    ASSUME TypeOK, NEW r \in Runs
    PROVE  /\ Exited(r) \in RunRecords
           /\ Exited(r).at = "exited" /\ Exited(r).known = {}
           /\ \A f \in {"host", "attended", "ok", "found"} : Exited(r)[f] = run[r][f]
<1>1. run[r] \in RunRecords
    BY DEF TypeOK
<1> QED
    BY <1>1, TodoTypes DEF Exited, RunRecords, Stages, Attending

(* A run goes forward, keeps its host and is no more attended than before. *)
Moves(r) ==
    /\ run' \in [Runs -> RunRecords] /\ \A s \in Runs \ {r} : run'[s] = run[s]
    /\ run'[r].host = run[r].host /\ run'[r].attended = run[r].attended
    /\ run[r].at \in Attending \cup {"releasing"}
    /\ run'[r].at \in Attending \cup {"releasing", "done"}
    /\ run'[r].at \in Attending => run[r].at \in Attending
    /\ run'[r].at = "done" => run[r].at \in {"reported", "releasing"}
    /\ run'[r].at = "working" => InScript(run'[r], ModeOf[r])

LEMMA RunMoves ==
    ASSUME TypeOK, ScriptsFit, NEW r \in Runs, RunStep(r)
    PROVE  Moves(r)
<1>0. /\ run[r] \in RunRecords /\ ModeOf[r] \in Modes
      /\ raw \in SUBSET Runs /\ live \in Files /\ made \in SUBSET Edits
    BY ModeAssumption DEF TypeOK, Modes
<1>1. ASSUME NEW y \in RunRecords, run' = [run EXCEPT ![r] = y],
             y.host = run[r].host, y.attended = run[r].attended,
             run[r].at \in Attending \cup {"releasing"}, y.at \in Attending \cup {"releasing", "done"},
             y.at \in Attending => run[r].at \in Attending,
             y.at = "done" => run[r].at \in {"reported", "releasing"},
             y.at = "working" => InScript(y, ModeOf[r])
      PROVE  Moves(r)
    BY <1>1, PutRun DEF Moves
<1>2. CASE Start(r)
  <2> DEFINE y == [run[r] EXCEPT !.at = "working", !.todo = Script(ModeOf[r])]
  <2>1. Script(ModeOf[r]) \in Left(ModeOf[r]) /\ Script(ModeOf[r]) \in Seq(Steps)
      BY <1>0, ScriptSteps, TodoSteps
  <2>2. y \in RunRecords /\ y.host = run[r].host /\ y.attended = run[r].attended
        /\ y.at = "working" /\ y.todo = Script(ModeOf[r])
      BY <1>0, <2>1 DEF RunRecords, Stages, Attending
  <2>3. run' = [run EXCEPT ![r] = y] /\ run[r].at = "ready"
      BY <1>2 DEF Start
  <2> HIDE DEF y
  <2>4. InScript(y, ModeOf[r])
      BY <1>0, <2>1, <2>2, ScriptSteps DEF InScript, HasCloned
  <2> QED
      BY <1>1, <2>2, <2>3, <2>4 DEF Attending
<1>3. ASSUME NEW step \in Steps \ {"publish"}, Doing(r, step), NEW y \in RunRecords,
             run' = [run EXCEPT ![r] = y], y.todo = Tail(run[r].todo),
             y.at = run[r].at, y.host = run[r].host, y.attended = run[r].attended,
             y.staging \in Files \/ (step # "clone" /\ y.staging = run[r].staging)
      PROVE  Moves(r)
  <2>1. run[r].at = "working" /\ InScript(run[r], ModeOf[r])
      BY <1>3 DEF Doing, ScriptsFit
  <2>2. Tail(run[r].todo) \in Left(ModeOf[r])
      BY <1>0, <1>3, <2>1, TodoSteps DEF Doing, InScript
  <2>3. HasCloned(y, ModeOf[r]) => step = "clone" \/ HasCloned(run[r], ModeOf[r])
      BY <1>0, <1>3, <2>1, TodoSteps DEF Doing, InScript, HasCloned, Steps
  <2>4. InScript(y, ModeOf[r])
      BY <1>0, <1>3, <2>1, <2>2, <2>3 DEF InScript
  <2> QED
      BY <1>1, <1>3, <2>1, <2>4 DEF Attending
<1>4. CASE Load(r)
  <2> DEFINE y == [Advanced(r) EXCEPT !.mem = raw]
  <2>0. /\ Advanced(r) \in RunRecords /\ Advanced(r).todo = Tail(run[r].todo)
        /\ Advanced(r).at = run[r].at /\ Advanced(r).host = run[r].host
        /\ Advanced(r).attended = run[r].attended /\ Advanced(r).staging = run[r].staging
      BY <1>4, AdvanceFacts DEF Load
  <2>1. y \in RunRecords /\ y.todo = Tail(run[r].todo)
        /\ y.at = run[r].at /\ y.host = run[r].host /\ y.attended = run[r].attended
        /\ y.staging = run[r].staging
      BY <1>0, <2>0 DEF RunRecords
  <2>2. Doing(r, "load") /\ run' = [run EXCEPT ![r] = y]
      BY <1>4 DEF Load
  <2>3. "load" \in Steps \ {"publish"} /\ "load" # "clone"
      BY DEF Steps
  <2> HIDE DEF y
  <2> QED
      BY <1>3, <2>1, <2>2, <2>3
<1>5. CASE Save(r)
  <2> DEFINE y == [Advanced(r) EXCEPT !.found = TRUE]
  <2>0. /\ Advanced(r) \in RunRecords /\ Advanced(r).todo = Tail(run[r].todo)
        /\ Advanced(r).at = run[r].at /\ Advanced(r).host = run[r].host
        /\ Advanced(r).attended = run[r].attended /\ Advanced(r).staging = run[r].staging
      BY <1>5, AdvanceFacts DEF Save
  <2>1. y \in RunRecords /\ y.todo = Tail(run[r].todo)
        /\ y.at = run[r].at /\ y.host = run[r].host /\ y.attended = run[r].attended
        /\ y.staging = run[r].staging
      BY <1>0, <2>0 DEF RunRecords
  <2>2. Doing(r, "save") /\ run' = [run EXCEPT ![r] = y]
      BY <1>5 DEF Save
  <2>3. "save" \in Steps \ {"publish"} /\ "save" # "clone"
      BY DEF Steps
  <2> HIDE DEF y
  <2> QED
      BY <1>3, <2>1, <2>2, <2>3
<1>6. CASE NextCommand(r)
  <2> DEFINE y == Advanced(r)
  <2>1. y \in RunRecords /\ y.todo = Tail(run[r].todo)
        /\ y.at = run[r].at /\ y.host = run[r].host /\ y.attended = run[r].attended
        /\ y.staging = run[r].staging
      BY <1>6, AdvanceFacts DEF NextCommand
  <2>2. Doing(r, "next") /\ run' = [run EXCEPT ![r] = y]
      BY <1>6 DEF NextCommand
  <2>3. "next" \in Steps \ {"publish"} /\ "next" # "clone"
      BY DEF Steps
  <2> HIDE DEF y
  <2> QED
      BY <1>3, <2>1, <2>2, <2>3
<1>7. CASE Clone(r)
  <2> DEFINE y == [Advanced(r) EXCEPT !.staging = live, !.known = made]
  <2>0. /\ Advanced(r) \in RunRecords /\ Advanced(r).todo = Tail(run[r].todo)
        /\ Advanced(r).at = run[r].at /\ Advanced(r).host = run[r].host
        /\ Advanced(r).attended = run[r].attended
      BY <1>7, AdvanceFacts DEF Clone
  <2>1. y \in RunRecords /\ y.todo = Tail(run[r].todo)
        /\ y.at = run[r].at /\ y.host = run[r].host /\ y.attended = run[r].attended
        /\ y.staging = live
      BY <1>0, <2>0 DEF RunRecords
  <2> HIDE DEF y
  <2> QED
      BY <1>0, <1>3, <1>7, <2>1, TodoTypes DEF Clone, y
<1>8. CASE Publish(r) \/ NoTargets(r)
    BY <1>1, <1>8, ExitFacts DEF Publish, NoTargets, Doing, Attending
<1>9. CASE CommandFails(r)
  <2> DEFINE y == [Exited(r) EXCEPT !.ok = FALSE]
  <2>0. /\ Exited(r) \in RunRecords /\ Exited(r).at = "exited"
        /\ Exited(r).host = run[r].host /\ Exited(r).attended = run[r].attended
      BY ExitFacts
  <2>1. y \in RunRecords /\ y.at = "exited" /\ y.host = run[r].host
        /\ y.attended = run[r].attended
      BY <2>0 DEF RunRecords
  <2>2. run' = [run EXCEPT ![r] = y] /\ run[r].at = "working"
      BY <1>9 DEF CommandFails
  <2> HIDE DEF y
  <2> QED
      BY <1>1, <2>1, <2>2 DEF Attending
<1>10. ASSUME NEW at \in Stages, run' = [run EXCEPT ![r].at = at],
              run[r].at \in Attending \cup {"releasing"},
              at \in {"exited", "reported", "releasing", "done"},
              at \in Attending => run[r].at \in Attending,
              at = "done" => run[r].at \in {"reported", "releasing"}
       PROVE  Moves(r)
  <2> DEFINE y == [run[r] EXCEPT !.at = at]
  <2>1. y \in RunRecords /\ y.at = at /\ y.host = run[r].host /\ y.attended = run[r].attended
      BY <1>0 DEF RunRecords
  <2> HIDE DEF y
  <2> QED
      BY <1>1, <1>10, <2>1 DEF Attending, y
<1>11. CASE Report(r) \/ ReleaseRead(r) \/ ReleaseUnlink(r)
    BY <1>10, <1>11 DEF Report, ReleaseRead, ReleaseUnlink, Stages, Attending
<1> QED
    BY <1>2, <1>4, <1>5, <1>6, <1>7, <1>8, <1>9, <1>11 DEF RunStep

-----------------------------------------------------------------------------
(* The lock: claims                                                        *)

LEMMA PutClaim ==
    ASSUME TypeOK, NEW p \in Procs, NEW c \in Claims, claim' = [claim EXCEPT ![p] = c]
    PROVE  /\ claim' \in [Procs -> Claims] /\ claim'[p] = c
           /\ \A q \in Procs \ {p} : claim'[q] = claim[q]
BY DEF TypeOK

Staged(r, a) ==
    /\ run' \in [Runs -> RunRecords] /\ \A s \in Runs \ {r} : run'[s] = run[s]
    /\ run'[r].at = a
    /\ \A f \in {"host", "attended", "todo", "ok", "found", "mem", "staging", "known"} :
          run'[r][f] = run[r][f]

LEMMA PutStage ==
    ASSUME TypeOK, NEW r \in Runs, NEW a \in Stages, run' = [run EXCEPT ![r].at = a]
    PROVE  Staged(r, a)
<1> DEFINE y == [run[r] EXCEPT !.at = a]
<1>0. run[r] \in RunRecords
    BY DEF TypeOK
<1>1. /\ y \in RunRecords /\ y.at = a
      /\ \A f \in {"host", "attended", "todo", "ok", "found", "mem", "staging", "known"} :
            y[f] = run[r][f]
    BY <1>0 DEF RunRecords
<1>2. run' = [run EXCEPT ![r] = y]
    OBVIOUS
<1> HIDE DEF y
<1> QED
    BY <1>1, <1>2, PutRun DEF Staged

LEMMA InitLockInv == Init => LockInv
<1> SUFFICES ASSUME Init PROVE LockInv
    OBVIOUS
<1>1. \A r \in Runs : /\ run[r] \in RunRecords /\ run[r].at = "none" /\ run[r].host = None
                      /\ ~run[r].attended
    BY TodoTypes DEF Init, RunRecords, Stages
<1>2. \A p \in Procs : claim[p] \in Claims /\ claim[p].at = "idle" /\ claim[p].run = None
    BY DEF Init, NoClaim, Claims, Points
<1>3. TypeOK
    BY <1>1, <1>2 DEF Init, TypeOK, Files
<1>4. ClaimsFit /\ OwnersHold /\ LockFits /\ JudgesRight /\ ScriptsFit
    BY <1>1, <1>2 DEF Init, ClaimsFit, OwnersHold, UnderWay, LockFits, JudgesRight, ScriptsFit
<1> QED
    BY <1>3, <1>4 DEF LockInv

(* O_CREAT | O_EXCL: the one claim that finds no lock has it from now on;  *)
(* all that had one before are robbed or no longer attended.               *)
LEMMA CreateKeeps ==
    ASSUME LockInv, NEW p \in Procs, NEW r \in Runs, NEW c \in Claims, c.run = r,
           Create(p, c), UNCHANGED <<up, robbed>>, p \in up, Staged(r, "claiming"),
           run[r].at \in {"none", "claiming"}, claim[p].run \in {None, r},
           \A q \in Procs \ {p} : claim[q].run # r,
           lock # None => lock.for # r
    PROVE  /\ lock' \in Locks \cup {None} /\ claim' \in [Procs -> Claims]
           /\ ClaimsFit' /\ OwnersHold' /\ LockFits' /\ JudgesRight'
<1> DEFINE made_lock == [pid |-> None, old |-> FALSE, for |-> r]
<1>1. /\ claim' \in [Procs -> Claims] /\ claim'[p].run = r
      /\ \A q \in Procs \ {p} : claim'[q] = claim[q]
      /\ \/ lock = None /\ lock' = made_lock /\ claim'[p].at = "write"
         \/ lock # None /\ lock' = lock /\ claim'[p].at = "read"
  <2>1. ASSUME NEW at \in Points
        PROVE  [c EXCEPT !.at = at] \in Claims /\ [c EXCEPT !.at = at].run = r
               /\ [c EXCEPT !.at = at].at = at
      BY DEF Claims
  <2>2. "write" \in Points /\ "read" \in Points
      BY DEF Points
  <2>3. \E at \in {"read", "write"} : claim' = [claim EXCEPT ![p] = [c EXCEPT !.at = at]]
      BY DEF Create
  <2>4. PICK at \in {"read", "write"} : claim' = [claim EXCEPT ![p] = [c EXCEPT !.at = at]]
      BY <2>3
  <2>5. claim' \in [Procs -> Claims] /\ claim'[p].run = r
        /\ \A q \in Procs \ {p} : claim'[q] = claim[q]
    <3> DEFINE d == [c EXCEPT !.at = at]
    <3>1. d \in Claims /\ d.run = r /\ claim' = [claim EXCEPT ![p] = d]
        BY <2>1, <2>2, <2>4
    <3> HIDE DEF d
    <3> QED
        BY <3>1, PutClaim DEF LockInv
  <2> QED
      BY <2>1, <2>2, <2>5, PutClaim DEF Create, LockInv
<1>2. made_lock \in Locks /\ made_lock # None /\ made_lock.for = r /\ ~made_lock.old
  <2>1. made_lock \in Locks /\ made_lock.for = r /\ made_lock.old = FALSE
      BY DEF Locks
  <2> HIDE DEF made_lock
  <2> QED
      BY <2>1 DEF Locks
<1>3. /\ \A s \in Runs : run'[s].host = run[s].host /\ run'[s].attended = run[s].attended
      /\ \A s \in Runs \ {r} : run'[s].at = run[s].at
      /\ run'[r].at = "claiming" /\ ~run[r].attended /\ run[r].host = None
  <2>1. run[r].attended \in BOOLEAN /\ ~run[r].attended /\ run[r].host = None
      BY DEF LockInv, ClaimsFit, TypeOK, RunRecords
  <2> QED
      BY <2>1 DEF Staged
<1> HIDE DEF made_lock
<1>4. lock' \in Locks \cup {None}
    BY <1>1, <1>2 DEF LockInv, TypeOK
<1>5. ClaimsFit'
  <2>1. \A q \in Procs : claim'[q].at = "idle" <=> claim'[q].run = None
      BY <1>1 DEF LockInv, ClaimsFit
  <2>2. \A q \in Procs : claim'[q].run # None => q \in up' /\ run'[claim'[q].run].at = "claiming"
      BY <1>1, <1>3 DEF LockInv, ClaimsFit, TypeOK, Claims
  <2>3. \A q, o \in Procs : claim'[q].run = claim'[o].run /\ claim'[q].run # None => q = o
      BY <1>1 DEF LockInv, ClaimsFit
  <2>4. \A s \in Runs : run'[s].at = "claiming" => \E q \in Procs : claim'[q].run = s
      BY <1>1, <1>3 DEF LockInv, ClaimsFit
  <2>5. /\ \A s \in Runs : run'[s].attended =>
               run'[s].host \in up' /\ run'[s].at \notin {"none", "claiming"}
        /\ \A s \in Runs : run'[s].at \in {"none", "claiming"} => run'[s].host = None
      BY <1>3 DEF LockInv, ClaimsFit
  <2> QED
      BY <2>1, <2>2, <2>3, <2>4, <2>5 DEF ClaimsFit
<1>6. OwnersHold'
    BY <1>1, <1>2, <1>3 DEF LockInv, OwnersHold, UnderWay, ClaimsFit
<1>7. LockFits'
    BY <1>1, <1>2, <1>3 DEF LockInv, LockFits, TypeOK, Locks
<1>8. JudgesRight'
    BY <1>1, <1>2, <1>3 DEF LockInv, JudgesRight, Gone, UnderWay
<1> QED
    BY <1>1, <1>4, <1>5, <1>6, <1>7, <1>8

LEMMA TriggerKeeps ==
    ASSUME LockInv, NEW p \in Procs, NEW r \in Runs, Trigger(p, r)
    PROVE  LockInv'
<1> DEFINE c == [NoClaim EXCEPT !.run = r, !.tries = 1]
<1>1. c \in Claims /\ c.run = r
    BY DEF NoClaim, Claims, Points
<1>2. /\ Create(p, c) /\ p \in up /\ run[r].at = "none" /\ claim[p].at = "idle"
      /\ UNCHANGED <<up, status, world, robbed, overlapped>>
      /\ run' = [run EXCEPT ![r].at = "claiming"]
    BY DEF Trigger
<1> HIDE DEF c
<1>3. Staged(r, "claiming")
    BY <1>2, PutStage DEF Stages, LockInv
<1>4. claim[p].run = None /\ (\A q \in Procs : claim[q].run # r) /\ (lock # None => lock.for # r)
    BY <1>2 DEF LockInv, ClaimsFit, LockFits
<1>5. /\ lock' \in Locks \cup {None} /\ claim' \in [Procs -> Claims]
      /\ ClaimsFit' /\ OwnersHold' /\ LockFits' /\ JudgesRight'
    BY <1>1, <1>2, <1>3, <1>4, CreateKeeps
<1>6. ScriptsFit'
    BY <1>3 DEF Staged, LockInv, ScriptsFit
<1>7. TypeOK'
    BY <1>2, <1>3, <1>5 DEF LockInv, TypeOK, Staged, world
<1> QED
    BY <1>5, <1>6, <1>7 DEF LockInv

LEMMA TryAgainKeeps ==
    ASSUME LockInv, NEW p \in Procs, TryAgain(p)
    PROVE  LockInv'
<1> DEFINE c == [claim[p] EXCEPT !.pid = None, !.seen = None]
           r == claim[p].run
<1>1. claim[p] \in Claims
    BY DEF LockInv, TypeOK
<1>2. c \in Claims /\ c.run = r
    BY <1>1 DEF Claims
<1>3. /\ Create(p, c) /\ claim[p].at = "create"
      /\ UNCHANGED <<up, run, status, world, robbed, overlapped>>
    BY DEF TryAgain
<1> HIDE DEF c
<1>4. r \in Runs /\ p \in up /\ run[r].at = "claiming"
    BY <1>1, <1>3 DEF LockInv, ClaimsFit, Claims
<1>5. Staged(r, "claiming")
    BY <1>3, <1>4 DEF Staged, LockInv, TypeOK
<1>6. (\A q \in Procs \ {p} : claim[q].run # r) /\ (lock # None => lock.for # r)
    BY <1>3, <1>4 DEF LockInv, ClaimsFit, LockFits
<1> HIDE DEF r
<1>7. /\ lock' \in Locks \cup {None} /\ claim' \in [Procs -> Claims]
      /\ ClaimsFit' /\ OwnersHold' /\ LockFits' /\ JudgesRight'
    BY <1>2, <1>3, <1>4, <1>5, <1>6, CreateKeeps DEF r
<1>8. ScriptsFit' /\ TypeOK'
    BY <1>3, <1>7 DEF LockInv, ScriptsFit, TypeOK, world
<1> QED
    BY <1>7, <1>8 DEF LockInv

LEMMA ReadMetadataKeeps ==
    ASSUME LockInv, NEW p \in Procs, ReadMetadata(p)
    PROVE  LockInv'
<1> DEFINE c == [claim[p] EXCEPT !.at = "judge",
                                 !.pid = IF lock = None THEN None ELSE lock.pid,
                                 !.seen = IF lock = None THEN None ELSE lock.for]
<1>1. claim[p] \in Claims /\ lock \in Locks \cup {None}
    BY DEF LockInv, TypeOK
<1>2. /\ c \in Claims /\ c.at = "judge" /\ c.run = claim[p].run
      /\ lock # None => c.pid = lock.pid /\ c.seen = lock.for
    BY <1>1 DEF Claims, Locks, Points
<1>3. /\ claim' = [claim EXCEPT ![p] = c] /\ claim[p].at = "read"
      /\ UNCHANGED <<up, lock, run, status, world, robbed, overlapped>>
    BY DEF ReadMetadata
<1> HIDE DEF c
<1>4. /\ claim' \in [Procs -> Claims] /\ claim'[p] = c
      /\ \A q \in Procs \ {p} : claim'[q] = claim[q]
    BY <1>2, <1>3, PutClaim DEF LockInv
<1>5. TypeOK' /\ ScriptsFit'
    BY <1>3, <1>4 DEF LockInv, TypeOK, ScriptsFit, world
<1>6. ClaimsFit'
    BY <1>2, <1>3, <1>4 DEF LockInv, ClaimsFit
<1>7. OwnersHold' /\ LockFits'
    BY <1>2, <1>3, <1>4 DEF LockInv, OwnersHold, LockFits, UnderWay
<1>8. JudgesRight'
    BY <1>2, <1>3, <1>4 DEF LockInv, JudgesRight, Gone, UnderWay
<1> QED
    BY <1>5, <1>6, <1>7, <1>8 DEF LockInv

(* A claim goes round again or gives up; the lock is                       *)
(* as it was, or gone with nobody left who had it.                         *)
LEMMA LeaveKeeps ==
    ASSUME LockInv, NEW p \in Procs,
           \/ claim[p].at \in {"judge", "unlink"} /\ (Retry(p) \/ Refuse(p))
           \/ claim[p].at = "write" /\ Refuse(p) /\ lock' = None,
           UNCHANGED <<up, status, world, overlapped>>, robbed' \subseteq Runs,
           \/ UNCHANGED <<lock, robbed>>
           \/ /\ lock' = None /\ robbed \subseteq robbed'
              /\ \A s \in Runs \ robbed' : ~UnderWay(s)
              /\ \A q \in Procs \ {p} : claim[q].at = "write" => claim[q].run \in robbed'
    PROVE  LockInv'
<1> DEFINE r == claim[p].run
<1>1. claim[p] \in Claims
    BY DEF LockInv, TypeOK
<1>2. r \in Runs /\ p \in up /\ run[r].at = "claiming" /\ \A q \in Procs \ {p} : claim[q].run # r
    BY <1>1 DEF LockInv, ClaimsFit, Claims
<1>3. (lock' # None \/ ~Refuse(p)) => (lock # None => lock.for # r)
    BY DEF LockInv, LockFits
<1> HIDE DEF r
<1>4. CASE Refuse(p)
  <2>1. claim' = [claim EXCEPT ![p] = NoClaim] /\ run' = [run EXCEPT ![r].at = "refused"]
      BY <1>4 DEF Refuse, r
  <2>2. NoClaim \in Claims /\ NoClaim.at = "idle" /\ NoClaim.run = None
      BY DEF NoClaim, Claims, Points
  <2>3. /\ claim' \in [Procs -> Claims] /\ claim'[p].at = "idle" /\ claim'[p].run = None
        /\ \A q \in Procs \ {p} : claim'[q] = claim[q]
      BY <2>1, <2>2, PutClaim DEF LockInv
  <2>4. Staged(r, "refused")
      BY <1>2, <2>1, PutStage DEF LockInv, Stages
  <2>5. /\ \A s \in Runs : run'[s].host = run[s].host /\ run'[s].attended = run[s].attended
        /\ \A s \in Runs \ {r} : run'[s].at = run[s].at
        /\ run'[r].at = "refused" /\ ~run[r].attended
      BY <1>2, <2>4 DEF Staged, LockInv, ClaimsFit
  <2>6. TypeOK' /\ ScriptsFit'
      BY <2>3, <2>4 DEF LockInv, TypeOK, ScriptsFit, Staged, world
  <2>7. \A s \in Runs : run'[s].at = "claiming" => \E q \in Procs : claim'[q].run = s
    <3>1. ASSUME NEW s \in Runs, run'[s].at = "claiming"
          PROVE  \E q \in Procs : claim'[q].run = s
      <4>1. s # r /\ run[s].at = "claiming"
          BY <2>5, <3>1
      <4>2. PICK q \in Procs : claim[q].run = s
          BY <4>1 DEF LockInv, ClaimsFit
      <4> QED
          BY <2>3, <4>1, <4>2 DEF r
    <3> QED
        BY <3>1
  <2>8. \A q \in Procs : claim'[q].run # None => q \in up' /\ run'[claim'[q].run].at = "claiming"
      BY <1>2, <2>3, <2>5 DEF LockInv, ClaimsFit, TypeOK, Claims
  <2>9. ClaimsFit'
      BY <2>3, <2>5, <2>7, <2>8 DEF LockInv, ClaimsFit
  <2>10. OwnersHold'
      BY <2>3, <2>5 DEF LockInv, OwnersHold, UnderWay
  <2>11. LockFits'
      BY <1>3, <2>3, <2>5 DEF LockInv, LockFits, TypeOK, Locks
  <2>12. JudgesRight'
      BY <2>3, <2>5 DEF LockInv, JudgesRight, Gone, UnderWay
  <2> QED
      BY <2>6, <2>9, <2>10, <2>11, <2>12 DEF LockInv
<1>5. CASE ~Refuse(p)
  <2> DEFINE c == [claim[p] EXCEPT !.at = "create", !.tries = 2]
  <2>1. claim' = [claim EXCEPT ![p] = c] /\ UNCHANGED run
      BY <1>5 DEF Retry
  <2>2. c \in Claims /\ c.at = "create" /\ c.run = r
      BY <1>1 DEF Claims, Points, r
  <2> HIDE DEF c
  <2>3. /\ claim' \in [Procs -> Claims] /\ claim'[p].at = "create" /\ claim'[p].run = r
        /\ \A q \in Procs \ {p} : claim'[q] = claim[q]
      BY <2>1, <2>2, PutClaim DEF LockInv
  <2>4. TypeOK' /\ ScriptsFit'
      BY <2>1, <2>3 DEF LockInv, TypeOK, ScriptsFit, world
  <2>5. ClaimsFit'
      BY <1>2, <2>1, <2>3 DEF LockInv, ClaimsFit, r
  <2>6. OwnersHold'
      BY <2>1, <2>3 DEF LockInv, OwnersHold, UnderWay
  <2>7. LockFits'
      BY <1>3, <2>1, <2>3 DEF LockInv, LockFits
  <2>8. JudgesRight'
      BY <2>1, <2>3 DEF LockInv, JudgesRight, Gone, UnderWay
  <2> QED
      BY <2>4, <2>5, <2>6, <2>7, <2>8 DEF LockInv
<1> QED
    BY <1>4, <1>5

(* The lock that is judged dead is the one whose metadata were read, and   *)
(* who had it has died.                                                    *)
LEMMA JudgeKeeps ==
    ASSUME LockInv, NEW p \in Procs, Judge(p)
    PROVE  LockInv'
<1>1. claim[p].at = "judge" /\ UNCHANGED <<up, lock, status, world, robbed, overlapped>>
    BY DEF Judge
<1>2. CASE Retry(p) \/ Refuse(p)
  <2>1. robbed' \subseteq Runs
      BY <1>1 DEF LockInv, TypeOK
  <2> QED
      BY <1>1, <1>2, <2>1, LeaveKeeps
<1>3. CASE ~(Retry(p) \/ Refuse(p))
  <2> DEFINE c == [claim[p] EXCEPT !.at = "unlink"]
  <2>1. /\ claim' = [claim EXCEPT ![p] = c] /\ UNCHANGED run
        /\ lock # None /\ lock.old /\ claim[p].pid \notin up
      BY <1>3 DEF Judge, OwnerIsAlive
  <2>2. claim[p] \in Claims /\ lock \in Locks
      BY <2>1 DEF LockInv, TypeOK
  <2>3. c \in Claims /\ c.at = "unlink" /\ c.run = claim[p].run /\ c.seen = claim[p].seen
      BY <2>2 DEF Claims, Points
  <2> HIDE DEF c
  <2>4. /\ claim' \in [Procs -> Claims] /\ claim'[p] = c
        /\ \A q \in Procs \ {p} : claim'[q] = claim[q]
      BY <2>1, <2>3, PutClaim DEF LockInv
  <2>5. claim[p].seen = lock.for /\ claim[p].pid = lock.pid /\ lock.for \in Runs
      BY <1>1, <2>1, <2>2 DEF LockInv, JudgesRight, Locks
  <2>6. run[lock.for].at \notin {"none", "claiming"}
      BY <2>1, <2>5 DEF LockInv, LockFits, ClaimsFit
  <2>7. UnderWay(lock.for) => lock.for \in robbed
    <3>1. ASSUME UnderWay(lock.for), lock.for \notin robbed
          PROVE  FALSE
        BY <2>1, <2>5, <3>1 DEF LockInv, OwnersHold, ClaimsFit, UnderWay
    <3> QED
        BY <3>1
  <2>8. JudgesRight'
      BY <1>1, <2>1, <2>3, <2>4, <2>5, <2>6, <2>7 DEF LockInv, JudgesRight, Gone, UnderWay
  <2>9. TypeOK' /\ ScriptsFit'
      BY <1>1, <2>1, <2>4 DEF LockInv, TypeOK, ScriptsFit, world
  <2>10. ClaimsFit'
      BY <1>1, <2>1, <2>3, <2>4 DEF LockInv, ClaimsFit
  <2>11. OwnersHold' /\ LockFits'
      BY <1>1, <2>1, <2>3, <2>4 DEF LockInv, OwnersHold, LockFits, UnderWay
  <2> QED
      BY <2>8, <2>9, <2>10, <2>11 DEF LockInv
<1> QED
    BY <1>2, <1>3

(* What is unlinked is what was judged, or its owner is robbed.            *)
LEMMA UnlinkKeeps ==
    ASSUME LockInv, NEW p \in Procs, Unlink(p)
    PROVE  LockInv'
<1>1. /\ claim[p].at = "unlink" /\ lock' = None /\ Retry(p)
      /\ UNCHANGED <<up, status, world, overlapped>>
      /\ robbed' = IF lock # None /\ lock.for # claim[p].seen THEN robbed \cup {lock.for}
                   ELSE robbed
    BY DEF Unlink
<1>2. Gone(claim[p].seen)
    BY <1>1 DEF LockInv, JudgesRight
<1>3. robbed' \subseteq Runs /\ robbed \subseteq robbed'
    BY <1>1 DEF LockInv, TypeOK, Locks
<1>4. \A s \in Runs \ robbed' : ~UnderWay(s)
    BY <1>1, <1>2 DEF LockInv, OwnersHold, Gone
<1>5. \A q \in Procs : claim[q].at = "write" => claim[q].run \in robbed'
  <2>1. ASSUME NEW q \in Procs, claim[q].at = "write", claim[q].run \notin robbed'
        PROVE  FALSE
    <3>1. lock # None /\ lock.for = claim[q].run /\ claim[q].run = claim[p].seen
        BY <1>1, <1>3, <2>1 DEF LockInv, OwnersHold
    <3>2. run[claim[q].run].at = "claiming"
        BY <2>1 DEF LockInv, ClaimsFit
    <3> QED
        BY <1>2, <3>1, <3>2 DEF Gone
  <2> QED
      BY <2>1
<1> QED
    BY <1>1, <1>3, <1>4, <1>5, LeaveKeeps

(* What a claim unlinks that could not write its metadata is its own lock, *)
(* or its owner is robbed.                                                 *)
LEMMA AcceptFailsKeeps ==
    ASSUME LockInv, NEW p \in Procs, AcceptFails(p)
    PROVE  LockInv'
<1>1. /\ claim[p].at = "write" /\ lock' = None /\ Refuse(p)
      /\ UNCHANGED <<up, status, world, overlapped>>
      /\ robbed' = IF lock # None /\ lock.for # claim[p].run THEN robbed \cup {lock.for}
                   ELSE robbed
    BY DEF AcceptFails
<1>2. claim[p].run \in Runs /\ run[claim[p].run].at = "claiming"
    BY <1>1 DEF LockInv, ClaimsFit, TypeOK, Claims
<1>3. robbed' \subseteq Runs /\ robbed \subseteq robbed'
    BY <1>1 DEF LockInv, TypeOK, Locks
<1>4. \A s \in Runs \ robbed' : ~UnderWay(s)
    BY <1>1, <1>2 DEF LockInv, OwnersHold, UnderWay
<1>5. \A q \in Procs \ {p} : claim[q].at = "write" => claim[q].run \in robbed'
  <2>1. ASSUME NEW q \in Procs \ {p}, claim[q].at = "write", claim[q].run \notin robbed'
        PROVE  FALSE
    <3>1. lock # None /\ lock.for = claim[q].run /\ claim[q].run = claim[p].run
        BY <1>1, <1>3, <2>1 DEF LockInv, OwnersHold
    <3> QED
        BY <1>2, <2>1, <3>1 DEF LockInv, ClaimsFit
  <2> QED
      BY <2>1
<1> QED
    BY <1>1, <1>3, <1>4, <1>5, LeaveKeeps

LEMMA AcceptKeeps ==
    ASSUME LockInv, NEW p \in Procs, Accept(p)
    PROVE  LockInv'
<1> DEFINE r == claim[p].run
           y == [run[r] EXCEPT !.at = "ready", !.host = p, !.attended = TRUE]
           l == [lock EXCEPT !.pid = p]
<1>1. /\ claim[p].at = "write" /\ lock' = IF lock # None /\ lock.for = r THEN l ELSE lock
      /\ run' = [run EXCEPT ![r] = y] /\ claim' = [claim EXCEPT ![p] = NoClaim]
      /\ status' = [state |-> "running", run |-> r] \/ UNCHANGED status
      /\ UNCHANGED <<up, world, robbed, overlapped>>
    BY DEF Accept, Show
<1>2. claim[p] \in Claims /\ NoClaim \in Claims /\ NoClaim.at = "idle" /\ NoClaim.run = None
    BY DEF LockInv, TypeOK, NoClaim, Claims, Points
<1>3. r \in Runs /\ p \in up /\ run[r].at = "claiming" /\ \A q \in Procs \ {p} : claim[q].run # r
    BY <1>1, <1>2 DEF LockInv, ClaimsFit, Claims
<1> HIDE DEF r
<1>4. run[r] \in RunRecords
    BY <1>3 DEF LockInv, TypeOK
<1>5. y \in RunRecords /\ y.at = "ready" /\ y.host = p /\ y.attended
    BY <1>4 DEF RunRecords, Stages, Attending
<1>6. lock # None => l \in Locks /\ l # None /\ l.for = lock.for /\ l.old = lock.old /\ l.pid = p
  <2>1. ASSUME lock # None
        PROVE  l \in Locks /\ l.for = lock.for /\ l.old = lock.old /\ l.pid = p
    <3>1. lock \in Locks
        BY <2>1 DEF LockInv, TypeOK
    <3> QED
        BY <3>1 DEF Locks
  <2> HIDE DEF l
  <2> QED
      BY <2>1 DEF Locks
<1> HIDE DEF y, l
<1>7. /\ claim' \in [Procs -> Claims] /\ claim'[p].at = "idle" /\ claim'[p].run = None
      /\ \A q \in Procs \ {p} : claim'[q] = claim[q]
    BY <1>1, <1>2, PutClaim DEF LockInv
<1>8. run' \in [Runs -> RunRecords] /\ run'[r] = y /\ \A s \in Runs \ {r} : run'[s] = run[s]
    BY <1>1, <1>3, <1>5, PutRun DEF LockInv
<1>9. TypeOK' /\ ScriptsFit'
    BY <1>1, <1>3, <1>5, <1>6, <1>7, <1>8 DEF LockInv, TypeOK, ScriptsFit, world
<1>10. ClaimsFit'
  <2>1. \A q \in Procs : claim'[q].run # None => q \in up' /\ run'[claim'[q].run].at = "claiming"
      BY <1>1, <1>3, <1>7, <1>8 DEF LockInv, ClaimsFit, TypeOK, Claims
  <2>2. \A s \in Runs : run'[s].at = "claiming" => \E q \in Procs : claim'[q].run = s
    <3>1. ASSUME NEW s \in Runs, run'[s].at = "claiming"
          PROVE  \E q \in Procs : claim'[q].run = s
      <4>1. s # r /\ run[s].at = "claiming"
          BY <1>5, <1>8, <3>1
      <4>2. PICK q \in Procs : claim[q].run = s
          BY <4>1 DEF LockInv, ClaimsFit
      <4> QED
          BY <1>7, <4>1, <4>2 DEF r
    <3> QED
        BY <3>1
  <2>3. /\ \A s \in Runs : run'[s].attended =>
               run'[s].host \in up' /\ run'[s].at \notin {"none", "claiming"}
        /\ \A s \in Runs : run'[s].at \in {"none", "claiming"} => run'[s].host = None
      BY <1>1, <1>3, <1>5, <1>8 DEF LockInv, ClaimsFit
  <2> QED
      BY <1>7, <2>1, <2>2, <2>3 DEF LockInv, ClaimsFit
<1>11. OwnersHold'
  <2>1. ASSUME NEW s \in Runs \ robbed, UnderWay(s)'
        PROVE  lock' # None /\ lock'.for = s /\ lock'.pid = run'[s].host
    <3>1. CASE s = r
      <4>1. lock # None /\ lock.for = r
          BY <1>1, <2>1, <3>1 DEF LockInv, OwnersHold, r
      <4> QED
          BY <1>1, <1>5, <1>6, <1>8, <3>1, <4>1
    <3>2. CASE s # r
        BY <1>1, <1>8, <2>1, <3>2 DEF LockInv, OwnersHold, UnderWay
    <3> QED
        BY <3>1, <3>2
  <2>2. ASSUME NEW q \in Procs, claim'[q].at = "write", claim'[q].run \notin robbed
        PROVE  lock' # None /\ lock'.for = claim'[q].run
      BY <1>1, <1>6, <1>7, <2>2 DEF LockInv, OwnersHold
  <2> QED
      BY <1>1, <2>1, <2>2 DEF OwnersHold
<1>12. LockFits'
    BY <1>1, <1>5, <1>6, <1>7, <1>8 DEF LockInv, LockFits, TypeOK, Locks
<1>13. JudgesRight'
  <2>1. ASSUME NEW q \in Procs, claim'[q].at = "judge", lock' # None, lock'.old
        PROVE  claim'[q].seen = lock'.for /\ claim'[q].pid = lock'.pid
    <3>1. q # p /\ claim'[q] = claim[q]
        BY <1>7, <2>1
    <3>2. lock # None /\ lock.old
        BY <1>1, <1>6, <2>1
    <3>3. lock.for # r
        BY <1>1, <3>2 DEF LockInv, LockFits, r
    <3> QED
        BY <1>1, <2>1, <3>1, <3>2, <3>3 DEF LockInv, JudgesRight
  <2>2. ASSUME NEW q \in Procs, claim'[q].at = "unlink"
        PROVE  Gone(claim[q].seen)'
      BY <1>1, <1>3, <1>7, <1>8, <2>2 DEF LockInv, JudgesRight, Gone, UnderWay
  <2> QED
      BY <2>1, <2>2 DEF JudgesRight
<1> QED
    BY <1>9, <1>10, <1>11, <1>12, <1>13 DEF LockInv

-----------------------------------------------------------------------------
(* The lock: runs and the environment                                      *)

(* A step of a run that leaves the lock alone.                             *)
LEMMA MovesKeep ==
    ASSUME LockInv, NEW r \in Runs, Moves(r), UNCHANGED <<up, lock, claim, robbed>>, TypeOK'
    PROVE  LockInv'
<1>1. /\ \A s \in Runs : run'[s].host = run[s].host /\ run'[s].attended = run[s].attended
      /\ \A s \in Runs : run'[s].at # run[s].at =>
            /\ run'[s].at \notin {"none", "claiming"} /\ run[s].at \notin {"none", "claiming"}
            /\ run'[s].at \in Attending => run[s].at \in Attending
    BY DEF Moves, Attending
<1>2. \A s \in Runs : UnderWay(s)' => UnderWay(s)
    BY <1>1 DEF UnderWay, Attending
<1>3. ScriptsFit'
    BY DEF LockInv, ScriptsFit, Moves
<1>4. ClaimsFit'
  <2>1. \A q \in Procs : claim[q].run # None => q \in up' /\ run'[claim[q].run].at = "claiming"
      BY <1>1 DEF LockInv, ClaimsFit, TypeOK, Claims
  <2>2. \A s \in Runs : run'[s].at = "claiming" => \E q \in Procs : claim[q].run = s
      BY <1>1 DEF LockInv, ClaimsFit
  <2>3. /\ \A s \in Runs : run'[s].attended =>
               run'[s].host \in up' /\ run'[s].at \notin {"none", "claiming"}
        /\ \A s \in Runs : run'[s].at \in {"none", "claiming"} => run'[s].host = None
      BY <1>1 DEF LockInv, ClaimsFit
  <2> QED
      BY <2>1, <2>2, <2>3 DEF LockInv, ClaimsFit
<1>5. OwnersHold'
    BY <1>1, <1>2 DEF LockInv, OwnersHold
<1>6. LockFits'
    BY <1>1 DEF LockInv, LockFits, TypeOK, Locks
<1>7. JudgesRight'
    BY <1>1, <1>2 DEF LockInv, JudgesRight, Gone
<1> QED
    BY <1>3, <1>4, <1>5, <1>6, <1>7 DEF LockInv

LEMMA RunStepTypes ==
    ASSUME LockInv, NEW r \in Runs, RunStep(r)
    PROVE  TypeOK'
<1>1. run' \in [Runs -> RunRecords]
    BY RunMoves DEF LockInv, Moves
<1>2. run[r] \in RunRecords /\ r \in Runs
    BY DEF LockInv, TypeOK
<1>3. UNCHANGED <<up, claim>>
    BY DEF RunStep, Start, Load, Save, NextCommand, Clone, Publish, NoTargets, CommandFails,
           Report, ReleaseRead, ReleaseUnlink
<1>4. (lock' = lock \/ lock' = None) /\ robbed' \subseteq Runs /\ overlapped' \in BOOLEAN
  <2>1. CASE ReleaseUnlink(r)
      BY <2>1 DEF ReleaseUnlink, LockInv, TypeOK, Locks
  <2>2. CASE Start(r)
      BY <2>2 DEF Start, LockInv, TypeOK
  <2>3. CASE UNCHANGED <<lock, robbed, overlapped>>
      BY <2>3 DEF LockInv, TypeOK
  <2> QED
      BY <2>1, <2>2, <2>3 DEF RunStep, Load, Save, NextCommand, Clone, Publish, NoTargets,
         CommandFails, Report, ReleaseRead
<1>5. status' \in [state: {"idle", "running", "success", "failed"}, run: Runs \cup {None}]
  <2>1. CASE Start(r)
      BY <2>1 DEF Start, Show, LockInv, TypeOK
  <2>2. CASE Report(r)
      BY <2>2 DEF Report, Show, LockInv, TypeOK
  <2>3. CASE UNCHANGED status
      BY <2>3 DEF LockInv, TypeOK
  <2> QED
      BY <2>1, <2>2, <2>3 DEF RunStep, Load, Save, NextCommand, Clone, Publish, NoTargets,
         CommandFails, ReleaseRead, ReleaseUnlink
<1>6. raw' \subseteq Runs /\ live' \in Files /\ made' \subseteq Edits
  <2>1. CASE Save(r)
      BY <1>2, <2>1 DEF Save, LockInv, TypeOK, RunRecords
  <2>2. CASE Publish(r)
    <3>1. run[r].staging \in Files
        BY <2>2 DEF Publish, Doing, LockInv, ScriptsFit, InScript, HasCloned
    <3>2. Imported(r) \in SUBSET Runs /\ run[r].staging.edits \in SUBSET Edits
        BY <1>2, <3>1 DEF Imported, RunRecords, Files
    <3> QED
        BY <2>2, <3>2 DEF Publish, LockInv, TypeOK, Files
  <2>3. CASE UNCHANGED world
      BY <2>3 DEF LockInv, TypeOK, world
  <2> QED
      BY <2>1, <2>2, <2>3 DEF RunStep, Start, Load, NextCommand, Clone, NoTargets,
         CommandFails, Report, ReleaseRead, ReleaseUnlink
<1> QED
    BY <1>1, <1>3, <1>4, <1>5, <1>6 DEF LockInv, TypeOK

(* Who gives a lock back gives back its own, or robs another of it.        *)
LEMMA ReleaseUnlinkKeeps ==
    ASSUME LockInv, NEW r \in Runs, ReleaseUnlink(r)
    PROVE  LockInv'
<1>1. Moves(r) /\ TypeOK'
    BY RunMoves, RunStepTypes DEF LockInv, RunStep
<1>2. /\ run[r].at = "releasing" /\ lock' = None /\ UNCHANGED <<up, claim>>
      /\ robbed' = IF lock # None /\ lock.for # r THEN robbed \cup {lock.for} ELSE robbed
      /\ run' = [run EXCEPT ![r].at = "done"]
    BY DEF ReleaseUnlink
<1>3. /\ \A s \in Runs : run'[s].host = run[s].host /\ run'[s].attended = run[s].attended
      /\ \A s \in Runs \ {r} : run'[s].at = run[s].at
      /\ run'[r].at = "done"
    BY <1>1, <1>2, PutStage DEF Moves, LockInv, Staged, Stages
<1>4. ScriptsFit' /\ LockFits'
    BY <1>1, <1>2 DEF LockInv, ScriptsFit, Moves, LockFits
<1>5. ClaimsFit'
    BY <1>2, <1>3 DEF LockInv, ClaimsFit, TypeOK, Claims
<1>6. OwnersHold'
  <2>1. ASSUME NEW s \in Runs \ robbed', UnderWay(s)'
        PROVE  FALSE
    <3>1. s # r /\ UnderWay(s) /\ s \notin robbed
        BY <1>2, <1>3, <2>1 DEF UnderWay
    <3> QED
        BY <1>2, <2>1, <3>1 DEF LockInv, OwnersHold
  <2>2. ASSUME NEW q \in Procs, claim[q].at = "write", claim[q].run \notin robbed'
        PROVE  FALSE
    <3>1. lock # None /\ lock.for = claim[q].run /\ lock.for = r
        BY <1>2, <2>2 DEF LockInv, OwnersHold
    <3>2. run[claim[q].run].at = "claiming"
        BY <2>2 DEF LockInv, ClaimsFit
    <3> QED
        BY <1>2, <3>1, <3>2
  <2> QED
      BY <1>2, <2>1, <2>2 DEF OwnersHold
<1>7. JudgesRight'
    BY <1>2, <1>3 DEF LockInv, JudgesRight, Gone, UnderWay
<1> QED
    BY <1>1, <1>4, <1>5, <1>6, <1>7 DEF LockInv

LEMMA RunStepKeeps ==
    ASSUME LockInv, NEW r \in Runs, RunStep(r)
    PROVE  LockInv'
<1>1. CASE ReleaseUnlink(r)
    BY <1>1, ReleaseUnlinkKeeps
<1>2. CASE ~ReleaseUnlink(r)
  <2>1. UNCHANGED <<up, lock, claim, robbed>>
      BY <1>2 DEF RunStep, Start, Load, Save, NextCommand, Clone, Publish, NoTargets,
         CommandFails, Report, ReleaseRead
  <2> QED
      BY <2>1, RunMoves, RunStepTypes, MovesKeep DEF LockInv
<1> QED
    BY <1>1, <1>2

(* Nobody is claiming when a lock gets old.                                *)
LEMMA LockGetsOldKeeps ==
    ASSUME LockInv, LockGetsOld
    PROVE  LockInv'
<1> DEFINE l == [lock EXCEPT !.old = TRUE]
<1>1. /\ lock # None /\ lock' = l /\ \A p \in Procs : claim[p].at = "idle"
      /\ UNCHANGED <<up, claim, run, status, world, robbed, overlapped>>
    BY DEF LockGetsOld
<1>2. lock \in Locks
    BY <1>1 DEF LockInv, TypeOK
<1>3. l \in Locks /\ l.for = lock.for /\ l.pid = lock.pid
    BY <1>2 DEF Locks
<1> HIDE DEF l
<1>4. l # None
    BY <1>3 DEF Locks
<1>5. \A p \in Procs : claim[p].run # lock.for
    BY <1>1, <1>2 DEF LockInv, ClaimsFit, Locks
<1>6. TypeOK' /\ ScriptsFit' /\ ClaimsFit'
    BY <1>1, <1>3 DEF LockInv, TypeOK, ScriptsFit, ClaimsFit, world
<1>7. OwnersHold'
    BY <1>1, <1>3, <1>4 DEF LockInv, OwnersHold, UnderWay
<1>8. LockFits' /\ JudgesRight'
    BY <1>1, <1>3, <1>5 DEF LockInv, LockFits, JudgesRight
<1> QED
    BY <1>6, <1>7, <1>8 DEF LockInv

(* A process that dies leaves its lock, its runs are attended no more; one *)
(* that is started under the same pid inherits neither.                    *)
LEMMA KillKeeps ==
    ASSUME LockInv, NEW p \in Procs, Kill(p)
    PROVE  LockInv'
<1>1. /\ p \in up /\ up' = up \ {p} /\ claim' = [claim EXCEPT ![p] = NoClaim]
      /\ UNCHANGED <<lock, status, world, robbed, overlapped>>
    BY DEF Kill
<1>2. NoClaim \in Claims /\ NoClaim.at = "idle" /\ NoClaim.run = None
    BY DEF NoClaim, Claims, Points
<1>3. /\ claim' \in [Procs -> Claims] /\ claim'[p].at = "idle" /\ claim'[p].run = None
      /\ \A q \in Procs \ {p} : claim'[q] = claim[q]
    BY <1>1, <1>2, PutClaim DEF LockInv
<1>4. ASSUME NEW r \in Runs
      PROVE  /\ run'[r] \in RunRecords /\ run'[r].host = run[r].host
             /\ run'[r].attended => run[r].attended /\ run[r].host # p
             /\ claim[p].run = r => run'[r].at = "refused"
             /\ claim[p].run # r => run'[r].at = run[r].at
             /\ run'[r].todo = run[r].todo /\ run'[r].staging = run[r].staging
  <2>1. run[r] \in RunRecords
      BY DEF LockInv, TypeOK
  <2>2. run'[r] = IF claim[p].run = r THEN [run[r] EXCEPT !.at = "refused"]
                  ELSE IF run[r].host = p THEN [run[r] EXCEPT !.attended = FALSE] ELSE run[r]
      BY DEF Kill
  <2>3. claim[p].run = r => run[r].at = "claiming" /\ run[r].host = None /\ ~run[r].attended
      BY DEF LockInv, ClaimsFit
  <2>4. CASE claim[p].run = r
      BY <2>1, <2>2, <2>3, <2>4 DEF RunRecords, Stages
  <2>5. CASE claim[p].run # r
      BY <2>1, <2>2, <2>5 DEF RunRecords
  <2> QED
      BY <2>4, <2>5
<1>5. run' \in [Runs -> RunRecords]
  <2>1. run' = [r \in Runs |-> run'[r]]
      BY DEF Kill
  <2> QED
      BY <1>4, <2>1
<1>6. TypeOK'
    BY <1>1, <1>3, <1>5 DEF LockInv, TypeOK, world
<1>7. ScriptsFit'
    BY <1>4 DEF LockInv, ScriptsFit, InScript, HasCloned
<1>8. ClaimsFit'
  <2>1. \A q \in Procs : claim'[q].run # None => q \in up' /\ run'[claim'[q].run].at = "claiming"
    <3>1. ASSUME NEW q \in Procs, claim'[q].run # None
          PROVE  q \in up' /\ run'[claim'[q].run].at = "claiming"
      <4>1. q # p /\ claim'[q] = claim[q] /\ claim[q].run \in Runs /\ claim[p].run # claim[q].run
          BY <1>3, <3>1 DEF LockInv, ClaimsFit, TypeOK, Claims
      <4> QED
          BY <1>1, <1>4, <3>1, <4>1 DEF LockInv, ClaimsFit
    <3> QED
        BY <3>1
  <2>2. \A s \in Runs : run'[s].at = "claiming" => \E q \in Procs : claim'[q].run = s
    <3>1. ASSUME NEW s \in Runs, run'[s].at = "claiming"
          PROVE  \E q \in Procs : claim'[q].run = s
      <4>1. claim[p].run # s /\ run[s].at = "claiming"
          BY <1>4, <3>1
      <4>2. PICK q \in Procs : claim[q].run = s
          BY <4>1 DEF LockInv, ClaimsFit
      <4> QED
          BY <1>3, <4>1, <4>2
    <3> QED
        BY <3>1
  <2>3. /\ \A s \in Runs : run'[s].attended =>
               run'[s].host \in up' /\ run'[s].at \notin {"none", "claiming"}
        /\ \A s \in Runs : run'[s].at \in {"none", "claiming"} => run'[s].host = None
      BY <1>1, <1>4 DEF LockInv, ClaimsFit
  <2> QED
      BY <1>3, <2>1, <2>2, <2>3 DEF LockInv, ClaimsFit
<1>9. \A s \in Runs : UnderWay(s)' => UnderWay(s)
    BY <1>4 DEF UnderWay
<1>10. OwnersHold'
    BY <1>1, <1>3, <1>4, <1>9 DEF LockInv, OwnersHold
<1>11. LockFits'
    BY <1>1, <1>3, <1>4 DEF LockInv, LockFits, TypeOK, Locks
<1>12. JudgesRight'
    BY <1>1, <1>3, <1>4, <1>9 DEF LockInv, JudgesRight, Gone
<1> QED
    BY <1>6, <1>7, <1>8, <1>10, <1>11, <1>12 DEF LockInv

LEMMA RestartKeeps ==
    ASSUME LockInv, NEW p \in Procs, Restart(p)
    PROVE  LockInv'
<1>1. up' = up \cup {p} /\ UNCHANGED <<lock, claim, run, status, world, robbed, overlapped>>
    BY DEF Restart
<1>2. TypeOK' /\ ScriptsFit' /\ ClaimsFit'
    BY <1>1 DEF LockInv, TypeOK, ScriptsFit, ClaimsFit, world
<1>3. OwnersHold' /\ LockFits' /\ JudgesRight'
    BY <1>1 DEF LockInv, OwnersHold, LockFits, JudgesRight, Gone, UnderWay
<1> QED
    BY <1>2, <1>3 DEF LockInv

LEMMA EditKeeps ==
    ASSUME LockInv, NEW e \in Edits, Edit(e)
    PROVE  LockInv'
<1>1. UNCHANGED <<up, lock, claim, run, status, raw, robbed, overlapped>>
    BY DEF Edit
<1>2. made' \subseteq Edits /\ live' \in Files
    BY DEF LockInv, TypeOK, Edit, Files
<1>3. TypeOK' /\ ScriptsFit' /\ ClaimsFit'
    BY <1>1, <1>2 DEF LockInv, TypeOK, ScriptsFit, ClaimsFit
<1>4. OwnersHold' /\ LockFits' /\ JudgesRight'
    BY <1>1 DEF LockInv, OwnersHold, LockFits, JudgesRight, Gone, UnderWay
<1> QED
    BY <1>3, <1>4 DEF LockInv

LEMMA NextKeepsLockInv == LockInv /\ [Next]_vars => LockInv'
<1> SUFFICES ASSUME LockInv, [Next]_vars PROVE LockInv'
    OBVIOUS
<1>1. CASE \E p \in Procs : ClaimStep(p)
    BY <1>1, TryAgainKeeps, AcceptKeeps, AcceptFailsKeeps, ReadMetadataKeeps, JudgeKeeps, UnlinkKeeps DEF ClaimStep
<1>2. CASE \E p \in Procs : Kill(p) \/ Restart(p) \/ \E r \in Runs : Trigger(p, r)
    BY <1>2, KillKeeps, RestartKeeps, TriggerKeeps
<1>3. CASE \E r \in Runs : RunStep(r)
    BY <1>3, RunStepKeeps
<1>4. CASE (\E e \in Edits : Edit(e)) \/ LockGetsOld
    BY <1>4, EditKeeps, LockGetsOldKeeps
<1>5. CASE UNCHANGED vars
    BY <1>5 DEF vars, world, LockInv, TypeOK, ScriptsFit, ClaimsFit, OwnersHold, LockFits,
       JudgesRight, Gone, UnderWay
<1> QED
    BY <1>1, <1>2, <1>3, <1>4, <1>5 DEF Next

LEMMA OwnersExclude == LockInv => ClaimsExclude
BY DEF LockInv, OwnersHold, ClaimsExclude

LEMMA LockInvariance == Spec => []LockInv
BY InitLockInv, NextKeepsLockInv, PTL DEF Spec

(* What a claim has judged stale and is about to unlink belonged to a run  *)
(* that is under way no more, also if a process was started under the pid  *)
(* of its owner since (claim_pipeline_run, _lock_owner_is_alive).          *)
THEOREM JudgementsAreRight == Spec => []JudgesRight
<1>1. LockInv => JudgesRight
    BY DEF LockInv
<1> QED
    BY <1>1, LockInvariance, PTL

(* Neither age nor a dead predecessor nor a release lets a second claim in *)
(* (claim_pipeline_run, release_pipeline_claim).                           *)
THEOREM ClaimsExcludeEachOther == Spec => []ClaimsExclude
BY LockInvariance, OwnersExclude, PTL

-----------------------------------------------------------------------------
(* The status file while no lock was lost                                  *)

(* As long as nobody was robbed, who accepts or writes an end is the only  *)
(* one under way.                                                          *)
LEMMA AcceptedAlone ==
    ASSUME LockInv, NEW p \in Procs, claim[p].at = "write", robbed = {}
    PROVE  \A r \in Runs : ~UnderWay(r)
<1>1. claim[p].run \in Runs /\ run[claim[p].run].at = "claiming"
    BY DEF LockInv, ClaimsFit, TypeOK, Claims
<1>2. lock.for = claim[p].run
    BY DEF LockInv, OwnersHold
<1> QED
    BY <1>1, <1>2 DEF LockInv, OwnersHold, UnderWay

(* Only a claim puts a run under way, and nothing takes back its report.   *)
LEMMA StillUnderWay ==
    ASSUME LockInv, Next, NEW r \in Runs, UnderWay(r)', run'[r].at # "reported",
           ~(\E p \in Procs : Accept(p))
    PROVE  UnderWay(r) /\ run[r].at # "reported"
<1>0. run[r] \in RunRecords
    BY DEF LockInv, TypeOK
<1>1. CASE \E s \in Runs : RunStep(s)
  <2>1. PICK s \in Runs : RunStep(s)
      BY <1>1
  <2>2. Moves(s)
      BY <2>1, RunMoves DEF LockInv
  <2>3. CASE s # r
      BY <2>2, <2>3 DEF Moves, UnderWay
  <2>4. CASE s = r
    <3>1. ASSUME run[r].at = "reported"
          PROVE  ReleaseRead(r)
        BY <2>1, <2>4, <3>1 DEF RunStep, Start, Load, Save, NextCommand, Clone, Publish,
           NoTargets, CommandFails, Report, ReleaseUnlink, Doing
    <3>2. ReleaseRead(r) => run'[r].at \in {"releasing", "done"}
        BY <1>0 DEF ReleaseRead, LockInv, TypeOK, RunRecords
    <3> QED
        BY <2>2, <2>4, <3>1, <3>2 DEF Moves, UnderWay, Attending
  <2> QED
      BY <2>3, <2>4
<1>2. ASSUME NEW x, run' = [run EXCEPT ![x].at = "refused"]
      PROVE  UnderWay(r) /\ run[r].at # "reported"
    BY <1>0, <1>2 DEF LockInv, TypeOK, UnderWay, RunRecords
<1>3. CASE UNCHANGED run
    BY <1>3 DEF UnderWay
<1>4. CASE \E p \in Procs : ClaimStep(p)
    BY <1>2, <1>3, <1>4 DEF ClaimStep, TryAgain, AcceptFails, ReadMetadata, Judge, Unlink, Retry,
       Refuse
<1>5. CASE \E p \in Procs : Kill(p)
  <2>1. PICK p \in Procs : Kill(p)
      BY <1>5
  <2>2. run'[r] = IF claim[p].run = r THEN [run[r] EXCEPT !.at = "refused"]
                  ELSE IF run[r].host = p THEN [run[r] EXCEPT !.attended = FALSE] ELSE run[r]
      BY <2>1 DEF Kill
  <2> QED
      BY <1>0, <2>2 DEF UnderWay, RunRecords
<1>6. CASE \E p \in Procs, s \in Runs : Trigger(p, s)
  <2>1. PICK s \in Runs : run' = [run EXCEPT ![s].at = "claiming"]
      BY <1>6 DEF Trigger
  <2> QED
      BY <1>0, <2>1 DEF UnderWay, LockInv, TypeOK, RunRecords
<1> QED
    BY <1>1, <1>3, <1>4, <1>5, <1>6 DEF Next, Restart, Edit, LockGetsOld

LEMMA RobbedStays == [Next]_vars => robbed \subseteq robbed'
BY DEF Next, vars, ClaimStep, TryAgain, Accept, AcceptFails, ReadMetadata, Judge, Unlink, Kill,
   Restart, Trigger,
   RunStep, Start, Load, Save, NextCommand, Clone, Publish, NoTargets, CommandFails, Report,
   ReleaseRead, ReleaseUnlink, Edit, LockGetsOld

LEMMA ShownStep ==
    ASSUME LockInv, RunningIsShown, [Next]_vars
    PROVE  RunningIsShown'
<1>0. robbed \subseteq robbed' /\ ClaimsExclude
    BY OwnersExclude, RobbedStays
<1> SUFFICES ASSUME NEW r \in Runs \ Unshown, UnderWay(r)', run'[r].at # "reported",
                    robbed' = {}
             PROVE  status' = [state |-> "running", run |-> r]
    BY DEF RunningIsShown
<1>1. robbed = {}
    BY <1>0
<1>2. CASE \E p \in Procs : Accept(p)
  <2>1. PICK p \in Procs : Accept(p)
      BY <1>2
  <2>2. ~UnderWay(r)
      BY <1>1, <2>1, AcceptedAlone DEF Accept
  <2>3. claim[p].run = r
      BY <2>1, <2>2 DEF Accept, UnderWay, LockInv, TypeOK
  <2> QED
      BY <2>1, <2>3 DEF Accept, Show
<1>3. CASE UNCHANGED vars
    BY <1>1, <1>3 DEF vars, UnderWay, RunningIsShown
<1>4. CASE Next /\ ~(\E p \in Procs : Accept(p))
  <2>1. UnderWay(r) /\ run[r].at # "reported"
      BY <1>4, StillUnderWay
  <2>2. status = [state |-> "running", run |-> r]
      BY <1>1, <2>1 DEF RunningIsShown
  <2>3. ASSUME NEW s \in Runs, Start(s)
        PROVE  status' = [state |-> "running", run |-> r]
    <3>1. UnderWay(s) /\ Show(s, "running")
        BY <2>3 DEF Start, UnderWay
    <3>2. s = r
        BY <1>0, <1>1, <2>1, <3>1 DEF ClaimsExclude
    <3> QED
        BY <3>1, <3>2 DEF Show
  <2>4. ASSUME NEW s \in Runs, Report(s)
        PROVE  FALSE
    <3>1. UnderWay(s)
        BY <2>4 DEF Report, UnderWay
    <3>2. s = r
        BY <1>0, <1>1, <2>1, <3>1 DEF ClaimsExclude
    <3>3. run'[r].at = "reported"
        BY <2>4, <3>2, PutStage DEF Report, Staged, Stages, Attending, LockInv
    <3> QED
        BY <3>3
  <2>5. CASE UNCHANGED status
      BY <2>2, <2>5
  <2> QED
      BY <1>4, <2>3, <2>4, <2>5 DEF Next, ClaimStep, TryAgain, AcceptFails, ReadMetadata, Judge,
         Unlink, Kill,
         Restart, Trigger, RunStep, Load, Save, NextCommand, Clone, Publish, NoTargets,
         CommandFails, ReleaseRead, ReleaseUnlink, Edit, LockGetsOld
<1> QED
    BY <1>2, <1>3, <1>4

(* While a run is under way and no lock was lost, the status file speaks of*)
(* it (run_pipeline_task, trigger_pipeline).                               *)
THEOREM RunsAreShown == Spec => []RunningIsShown
<1>1. Init => RunningIsShown
    BY DEF Init, RunningIsShown, UnderWay
<1>2. LockInv /\ RunningIsShown /\ [Next]_vars => RunningIsShown'
    BY ShownStep
<1> QED
    BY <1>1, <1>2, LockInvariance, PTL DEF Spec

-----------------------------------------------------------------------------
(* What is left of a lock when its run is over                             *)

(* A lock that was lost does not come back, and its run never claims again.*)
RobbedIsGone ==
    \A r \in robbed :
        /\ lock # None => lock.for # r
        /\ run[r].at # "none"
        /\ \A p \in Procs : claim[p].run = r => claim[p].at = "write"

(* Nobody leaves a lock behind but a process that was killed: not a claim  *)
(* that is refused, nor a run that has ended and released its claim.       *)
NoLockIsLeft ==
    lock # None /\ (run[lock.for].attended \/ killed = {}) =>
        run[lock.for].at \notin {"refused", "done"}

LeftInv == RobbedIsGone /\ NoLockIsLeft

LEMMA InitLeftInv == Init => LeftInv
BY DEF Init, LeftInv, RobbedIsGone, NoLockIsLeft

(* Whoever is robbed has claimed before; whoever writes a claim anew was   *)
(* not robbed.                                                             *)
LEMMA RobbedStaysGone ==
    ASSUME LockInv, RobbedIsGone,
           \A r \in Runs : run[r].at # "none" => run'[r].at # "none",
           \A p \in Procs : claim'[p] = claim[p] \/ claim'[p].run \notin robbed',
           \/ /\ robbed' = robbed
              /\ lock' # None => \/ lock # None /\ lock'.for = lock.for
                                 \/ lock'.for \notin robbed
           \/ lock # None /\ lock' = None /\ robbed' = robbed \cup {lock.for}
    PROVE  RobbedIsGone'
<1>1. robbed \subseteq Runs /\ (lock # None => lock.for \in Runs)
    BY DEF LockInv, TypeOK, Locks
<1>2. CASE robbed' = robbed
    BY <1>1, <1>2 DEF RobbedIsGone
<1>3. CASE lock # None /\ lock' = None /\ robbed' = robbed \cup {lock.for}
  <2>1. \A r \in robbed' : run[r].at # "none" /\ r \in Runs
      BY <1>1, <1>3 DEF LockInv, LockFits, RobbedIsGone
  <2>2. \A r \in robbed', q \in Procs : claim[q].run = r => claim[q].at = "write"
      BY <1>3 DEF LockInv, LockFits, RobbedIsGone
  <2> QED
      BY <1>3, <2>1, <2>2 DEF RobbedIsGone
<1> QED
    BY <1>2, <1>3

(* The run of a lock that stays does not come to its end.                  *)
LEMMA LockStays ==
    ASSUME NoLockIsLeft, killed \subseteq killed',
           lock' # None =>
               /\ lock # None /\ lock'.for = lock.for
               /\ run'[lock.for].attended => run[lock.for].attended
               /\ run'[lock.for].at \in {"refused", "done"} =>
                      run[lock.for].at = run'[lock.for].at
    PROVE  NoLockIsLeft'
BY DEF NoLockIsLeft

(* A claim takes the lock for a run that was not robbed.                   *)
LEMMA CreateLeaves ==
    ASSUME LockInv, LeftInv, NEW p \in Procs, NEW r \in Runs \ robbed, NEW c \in Claims,
           c.run = r, Create(p, c), UNCHANGED <<killed, robbed>>, Staged(r, "claiming"),
           run[r].at \in {"none", "claiming"}, lock # None => lock.for # r
    PROVE  LeftInv'
<1> DEFINE l == [pid |-> None, old |-> FALSE, for |-> r]
<1>1. (lock = None /\ lock' = l) \/ (lock # None /\ lock' = lock)
    BY DEF Create
<1>2. l.for = r
    OBVIOUS
<1> HIDE DEF l
<1>3. \A q \in Procs : claim'[q] = claim[q] \/ claim'[q].run = r
  <2>1. ASSUME NEW a \in {"read", "write"}, claim' = [claim EXCEPT ![p] = [c EXCEPT !.at = a]]
        PROVE  \A q \in Procs : claim'[q] = claim[q] \/ claim'[q].run = r
    <3> DEFINE d == [c EXCEPT !.at = a]
    <3>1. d \in Claims /\ d.run = r
        BY DEF Claims, Points
    <3> HIDE DEF d
    <3> QED
        BY <2>1, <3>1, PutClaim DEF LockInv, d
  <2> QED
      BY <2>1 DEF Create
<1>4. \A s \in Runs : run[s].at # "none" => run'[s].at # "none"
    BY DEF Staged
<1>5. RobbedIsGone'
    BY <1>1, <1>2, <1>3, <1>4, RobbedStaysGone DEF LeftInv
<1>6. CASE lock = None
    BY <1>1, <1>2, <1>5, <1>6 DEF LeftInv, NoLockIsLeft, Staged
<1>7. CASE lock # None
  <2>1. lock.for \in Runs \ {r}
      BY <1>7 DEF LockInv, TypeOK, Locks
  <2>2. run'[lock.for] = run[lock.for]
      BY <2>1 DEF Staged
  <2> QED
      BY <1>1, <1>7, <2>2, LockStays, <1>5 DEF LeftInv
<1> QED
    BY <1>1, <1>5, <1>6, <1>7 DEF LeftInv

LEMMA TriggerLeaves ==
    ASSUME LockInv, LeftInv, NEW p \in Procs, NEW r \in Runs, Trigger(p, r)
    PROVE  LeftInv'
<1> DEFINE c == [NoClaim EXCEPT !.run = r, !.tries = 1]
<1>1. c \in Claims /\ c.run = r
    BY DEF NoClaim, Claims, Points
<1>2. /\ Create(p, c) /\ run[r].at = "none" /\ UNCHANGED <<killed, robbed>>
      /\ run' = [run EXCEPT ![r].at = "claiming"]
    BY DEF Trigger
<1> HIDE DEF c
<1>3. Staged(r, "claiming")
    BY <1>2, PutStage DEF Stages, LockInv
<1>4. r \notin robbed /\ (lock # None => lock.for # r)
    BY <1>2 DEF LockInv, LockFits, LeftInv, RobbedIsGone
<1> QED
    BY <1>1, <1>2, <1>3, <1>4, CreateLeaves

LEMMA TryAgainLeaves ==
    ASSUME LockInv, LeftInv, NEW p \in Procs, TryAgain(p)
    PROVE  LeftInv'
<1> DEFINE c == [claim[p] EXCEPT !.pid = None, !.seen = None]
           r == claim[p].run
<1>1. claim[p] \in Claims
    BY DEF LockInv, TypeOK
<1>2. c \in Claims /\ c.run = r
    BY <1>1 DEF Claims
<1>3. Create(p, c) /\ claim[p].at = "create" /\ UNCHANGED <<killed, run, robbed>>
    BY DEF TryAgain
<1> HIDE DEF c
<1>4. r \in Runs /\ run[r].at = "claiming"
    BY <1>1, <1>3 DEF LockInv, ClaimsFit, Claims
<1>5. Staged(r, "claiming")
    BY <1>3, <1>4 DEF Staged, LockInv, TypeOK
<1>6. r \notin robbed /\ (lock # None => lock.for # r)
    BY <1>3, <1>4 DEF LockInv, LockFits, LeftInv, RobbedIsGone
<1> HIDE DEF r
<1> QED
    BY <1>2, <1>3, <1>4, <1>5, <1>6, CreateLeaves

(* A claim that judges has no lock of its own to leave.                    *)
LEMMA ReclaimLeaves ==
    ASSUME LockInv, LeftInv, NEW p \in Procs, ReadMetadata(p) \/ Judge(p) \/ Unlink(p)
    PROVE  LeftInv'
<1> DEFINE r == claim[p].run
<1>1. /\ claim[p] \in Claims /\ claim[p].at \in {"read", "judge", "unlink"}
      /\ UNCHANGED <<up, killed>>
    BY DEF LockInv, TypeOK, ReadMetadata, Judge, Unlink
<1>2. r \in Runs /\ run[r].at = "claiming" /\ r \notin robbed /\ (lock # None => lock.for # r)
    BY <1>1 DEF LockInv, ClaimsFit, LockFits, Claims, LeftInv, RobbedIsGone
<1> HIDE DEF r
<1>3. /\ \A q \in Procs : claim'[q] = claim[q] \/ claim'[q].run \in {r, None}
      /\ run' = run \/ run' = [run EXCEPT ![r].at = "refused"]
  <2>1. ASSUME NEW d \in Claims, claim' = [claim EXCEPT ![p] = d], d.run \in {r, None}
        PROVE  \A q \in Procs : claim'[q] = claim[q] \/ claim'[q].run \in {r, None}
      BY <2>1, PutClaim DEF LockInv
  <2>2. CASE Refuse(p)
    <3>1. NoClaim \in Claims /\ NoClaim.run = None
        BY DEF NoClaim, Claims, Points
    <3> QED
        BY <2>1, <2>2, <3>1 DEF Refuse, r
  <2>3. CASE Retry(p) /\ ~Refuse(p)
    <3> DEFINE d == [claim[p] EXCEPT !.at = "create", !.tries = 2]
    <3>1. d \in Claims /\ d.run = r
        BY <1>1 DEF Claims, Points, r
    <3>2. claim' = [claim EXCEPT ![p] = d] /\ run' = run
        BY <2>3 DEF Retry
    <3> HIDE DEF d
    <3> QED
        BY <2>1, <3>1, <3>2
  <2>4. CASE ReadMetadata(p)
    <3> DEFINE d == [claim[p] EXCEPT !.at = "judge",
                                     !.pid = IF lock = None THEN None ELSE lock.pid,
                                     !.seen = IF lock = None THEN None ELSE lock.for]
    <3>1. d \in Claims /\ d.run = r
        BY <1>1 DEF Claims, Points, Locks, LockInv, TypeOK, r
    <3>2. claim' = [claim EXCEPT ![p] = d] /\ run' = run
        BY <2>4 DEF ReadMetadata
    <3> HIDE DEF d
    <3> QED
        BY <2>1, <3>1, <3>2
  <2>5. CASE claim' = [claim EXCEPT ![p].at = "unlink"] /\ run' = run
    <3> DEFINE d == [claim[p] EXCEPT !.at = "unlink"]
    <3>1. d \in Claims /\ d.run = r
        BY <1>1 DEF Claims, Points, r
    <3>2. claim' = [claim EXCEPT ![p] = d] /\ run' = run
        BY <2>5
    <3> HIDE DEF d
    <3> QED
        BY <2>1, <3>1, <3>2
  <2> QED
      BY <2>2, <2>3, <2>4, <2>5 DEF Judge, Unlink
<1>4. \/ UNCHANGED <<lock, robbed>>
      \/ lock' = None /\ robbed' = robbed
      \/ lock # None /\ lock' = None /\ robbed' = robbed \cup {lock.for}
    BY DEF ReadMetadata, Judge, Unlink
<1>5. /\ \A s \in Runs \ {r} : run'[s] = run[s]
      /\ \A s \in Runs : run[s].at # "none" => run'[s].at # "none"
  <2>1. CASE run' = [run EXCEPT ![r].at = "refused"]
      BY <1>2, <2>1, PutStage DEF Staged, LockInv, Stages
  <2> QED
      BY <1>3, <2>1
<1>6. robbed' \subseteq Runs /\ r \notin robbed'
    BY <1>2, <1>4 DEF LockInv, TypeOK, Locks
<1>7. RobbedIsGone'
    BY <1>3, <1>4, <1>5, <1>6, RobbedStaysGone DEF LeftInv
<1>8. lock' # None => lock' = lock /\ run'[lock.for] = run[lock.for]
    BY <1>2, <1>4, <1>5 DEF LockInv, TypeOK, Locks
<1> QED
    BY <1>1, <1>7, <1>8, LockStays DEF LeftInv

(* A claim that fails leaves no lock at all.                               *)
LEMMA AcceptFailsLeaves ==
    ASSUME LockInv, LeftInv, NEW p \in Procs, AcceptFails(p)
    PROVE  LeftInv'
<1> DEFINE r == claim[p].run
<1>1. /\ claim[p].at = "write" /\ lock' = None
      /\ robbed' = robbed \/ (lock # None /\ robbed' = robbed \cup {lock.for})
      /\ claim' = [claim EXCEPT ![p] = NoClaim] /\ run' = [run EXCEPT ![r].at = "refused"]
    BY DEF AcceptFails, Refuse
<1>2. claim[p] \in Claims /\ NoClaim \in Claims /\ NoClaim.run = None
    BY DEF LockInv, TypeOK, NoClaim, Claims, Points
<1>3. r \in Runs
    BY <1>1, <1>2 DEF LockInv, ClaimsFit, Claims
<1> HIDE DEF r
<1>4. \A s \in Runs : run[s].at # "none" => run'[s].at # "none"
    BY <1>1, <1>3, PutStage DEF Staged, LockInv, Stages
<1>5. robbed' \subseteq Runs
    BY <1>1 DEF LockInv, TypeOK, Locks
<1>6. \A q \in Procs : claim'[q] = claim[q] \/ claim'[q].run \notin robbed'
    BY <1>1, <1>2, <1>5, PutClaim DEF LockInv
<1>7. RobbedIsGone'
    BY <1>1, <1>4, <1>6, RobbedStaysGone DEF LeftInv
<1> QED
    BY <1>1, <1>7 DEF LeftInv, NoLockIsLeft

LEMMA AcceptLeaves ==
    ASSUME LockInv, LeftInv, NEW p \in Procs, Accept(p)
    PROVE  LeftInv'
<1> DEFINE r == claim[p].run
           y == [run[r] EXCEPT !.at = "ready", !.host = p, !.attended = TRUE]
<1>1. /\ claim[p].at = "write" /\ run' = [run EXCEPT ![r] = y]
      /\ lock' = IF lock # None /\ lock.for = r THEN [lock EXCEPT !.pid = p] ELSE lock
      /\ claim' = [claim EXCEPT ![p] = NoClaim] /\ UNCHANGED <<killed, robbed>>
    BY DEF Accept
<1>2. claim[p] \in Claims /\ NoClaim \in Claims /\ NoClaim.run = None
    BY DEF LockInv, TypeOK, NoClaim, Claims, Points
<1>3. r \in Runs
    BY <1>1, <1>2 DEF LockInv, ClaimsFit, Claims
<1>4. lock' # None => lock # None /\ lock'.for = lock.for /\ lock.for \in Runs
    BY <1>1 DEF LockInv, TypeOK, Locks
<1> HIDE DEF r
<1>5. y \in RunRecords /\ y.at = "ready"
  <2>1. run[r] \in RunRecords
      BY <1>3 DEF LockInv, TypeOK
  <2> QED
      BY <2>1 DEF RunRecords, Stages, Attending
<1> HIDE DEF y
<1>6. run'[r].at = "ready" /\ \A s \in Runs \ {r} : run'[s] = run[s]
    BY <1>1, <1>3, <1>5, PutRun DEF LockInv
<1>7. \A q \in Procs : claim'[q] = claim[q] \/ claim'[q].run \notin robbed'
    BY <1>1, <1>2, PutClaim DEF LockInv, TypeOK
<1>8. RobbedIsGone'
    BY <1>1, <1>4, <1>6, <1>7, RobbedStaysGone DEF LeftInv
<1>9. CASE lock' # None /\ lock.for = r
    BY <1>4, <1>6, <1>8, <1>9 DEF LeftInv, NoLockIsLeft
<1>10. CASE lock' # None => lock.for # r
    BY <1>1, <1>4, <1>6, <1>8, <1>10, LockStays DEF LeftInv
<1> QED
    BY <1>8, <1>9, <1>10 DEF LeftInv

(* The run that has the lock finds itself in it and removes it; one that   *)
(* finds another's has been robbed, and its own is gone.                   *)
LEMMA RunLeaves ==
    ASSUME LockInv, LeftInv, NEW r \in Runs, RunStep(r)
    PROVE  LeftInv'
<1>1. Moves(r)
    BY RunMoves DEF LockInv
<1>2. UNCHANGED <<claim, killed>>
    BY DEF RunStep, Start, Load, Save, NextCommand, Clone, Publish, NoTargets, CommandFails,
       Report, ReleaseRead, ReleaseUnlink
<1>3. \/ UNCHANGED <<lock, robbed>>
      \/ lock' = None /\ robbed' = robbed
      \/ lock # None /\ lock' = None /\ robbed' = robbed \cup {lock.for}
    BY DEF RunStep, Start, Load, Save, NextCommand, Clone, Publish, NoTargets, CommandFails,
       Report, ReleaseRead, ReleaseUnlink
<1>4. \A s \in Runs : run[s].at # "none" => run'[s].at # "none"
    BY <1>1 DEF Moves, Attending
<1>5. RobbedIsGone'
    BY <1>2, <1>3, <1>4, RobbedStaysGone DEF LeftInv
<1>6. ASSUME lock' # None, lock.for = r
      PROVE  run'[r].at \notin {"refused", "done"}
  <2>1. lock # None /\ r \notin robbed
      BY <1>3, <1>6 DEF LeftInv, RobbedIsGone
  <2>2. CASE ReleaseRead(r)
    <3>1. UnderWay(r)
        BY <2>2 DEF ReleaseRead, UnderWay
    <3>2. lock # None /\ lock.pid = run[r].host
        BY <2>1, <3>1 DEF LockInv, OwnersHold
    <3>3. run' = [run EXCEPT ![r].at = "releasing"]
        BY <2>2, <3>2 DEF ReleaseRead
    <3>4. Staged(r, "releasing")
        BY <3>3, PutStage DEF LockInv, Stages
    <3> QED
        BY <3>4 DEF Staged
  <2>3. CASE ~ReleaseRead(r)
    <3>1. run[r].at \notin {"reported", "releasing"}
        BY <1>6, <2>3 DEF RunStep, Start, Load, Save, NextCommand, Clone, Publish, NoTargets,
           CommandFails, Report, ReleaseUnlink, Doing
    <3> QED
        BY <1>1, <3>1 DEF Moves, Attending
  <2> QED
      BY <2>2, <2>3
<1>7. CASE lock' # None /\ lock.for = r
    BY <1>3, <1>5, <1>6, <1>7 DEF LeftInv, NoLockIsLeft
<1>8. CASE lock' # None => lock.for # r
  <2>1. lock' # None => lock' = lock /\ run'[lock.for] = run[lock.for]
      BY <1>1, <1>3, <1>8 DEF Moves, LockInv, TypeOK, Locks
  <2> QED
      BY <1>2, <1>5, <2>1, LockStays DEF LeftInv
<1> QED
    BY <1>7, <1>8

(* Whoever is killed in the middle of a claim may leave a lock; it is no   *)
(* longer attended.                                                        *)
LEMMA KillLeaves ==
    ASSUME LockInv, LeftInv, NEW p \in Procs, Kill(p)
    PROVE  LeftInv'
<1>1. /\ claim' = [claim EXCEPT ![p] = NoClaim] /\ killed' = killed \cup {p}
      /\ run' = [r \in Runs |->
                    IF claim[p].run = r THEN [run[r] EXCEPT !.at = "refused"]
                    ELSE IF run[r].host = p THEN [run[r] EXCEPT !.attended = FALSE]
                    ELSE run[r]]
      /\ UNCHANGED <<lock, robbed>>
    BY DEF Kill
<1>2. NoClaim \in Claims /\ NoClaim.run = None
    BY DEF NoClaim, Claims, Points
<1>3. \A q \in Procs : claim'[q] = claim[q] \/ claim'[q].run \notin robbed'
    BY <1>1, <1>2, PutClaim DEF LockInv, TypeOK
<1>4. \A r \in Runs :
          /\ run'[r].attended => run[r].attended
          /\ claim[p].run = r => run'[r].at = "refused" /\ run'[r].attended = run[r].attended
          /\ claim[p].run # r => run'[r].at = run[r].at
  <2>1. ASSUME NEW r \in Runs
        PROVE  /\ run'[r].attended => run[r].attended
               /\ claim[p].run = r => run'[r].at = "refused" /\ run'[r].attended = run[r].attended
               /\ claim[p].run # r => run'[r].at = run[r].at
    <3>1. run[r] \in RunRecords
        BY DEF LockInv, TypeOK
    <3>2. run'[r] = IF claim[p].run = r THEN [run[r] EXCEPT !.at = "refused"]
                    ELSE IF run[r].host = p THEN [run[r] EXCEPT !.attended = FALSE]
                    ELSE run[r]
        BY <1>1
    <3> QED
        BY <3>1, <3>2 DEF RunRecords
  <2> QED
      BY <2>1
<1>5. RobbedIsGone'
    BY <1>1, <1>3, <1>4, RobbedStaysGone DEF LeftInv
<1>6. ASSUME lock # None, run'[lock.for].attended
      PROVE  claim[p].run # lock.for
    BY <1>4, <1>6 DEF LockInv, ClaimsFit, TypeOK, Locks
<1>7. NoLockIsLeft'
    BY <1>1, <1>4, <1>6 DEF LeftInv, NoLockIsLeft, LockInv, TypeOK, Locks
<1> QED
    BY <1>5, <1>7 DEF LeftInv

LEMMA NextKeepsLeftInv == LockInv /\ LeftInv /\ [Next]_vars => LeftInv'
<1> SUFFICES ASSUME LockInv, LeftInv, [Next]_vars PROVE LeftInv'
    OBVIOUS
<1>1. ASSUME UNCHANGED <<killed, claim, run, robbed>>,
             lock' = lock \/ (lock # None /\ lock'.for = lock.for)
      PROVE  LeftInv'
    BY <1>1, RobbedStaysGone, LockStays DEF LeftInv
<1>2. CASE LockGetsOld
  <2>1. lock # None /\ lock' = [lock EXCEPT !.old = TRUE] /\ UNCHANGED <<killed, claim, run, robbed>>
      BY <1>2 DEF LockGetsOld
  <2>2. lock'.for = lock.for
      BY <2>1 DEF LockInv, TypeOK, Locks
  <2> QED
      BY <1>1, <2>1, <2>2
<1>3. CASE (\E p \in Procs : Restart(p)) \/ (\E e \in Edits : Edit(e)) \/ UNCHANGED vars
    BY <1>1, <1>3 DEF Restart, Edit, vars
<1> QED
    BY <1>2, <1>3, TriggerLeaves, TryAgainLeaves, ReclaimLeaves, AcceptLeaves, AcceptFailsLeaves,
       RunLeaves,
       KillLeaves DEF Next, ClaimStep

(* As long as nobody was killed, a lock belongs to a claim that is being   *)
(* written or to a run that has not ended; after a kill, so does the lock  *)
(* of every run whose process lives on: claim_pipeline_run leaves none     *)
(* when it refuses, and release_pipeline_claim does not take the lock of a *)
(* run that has it for another's.                                          *)
THEOREM LocksAreNotLeft == Spec => []NoLockIsLeft
<1>1. LeftInv => NoLockIsLeft
    BY DEF LeftInv
<1> QED
    BY <1>1, LockInvariance, InitLeftInv, NextKeepsLeftInv, PTL DEF Spec

-----------------------------------------------------------------------------
(* The files while no two commands were at work together                   *)

LEMMA InitFilesInv == Init => FilesInv
<1> SUFFICES ASSUME Init PROVE FilesInv
    OBVIOUS
<1>1. \A r \in Runs : run[r].at = "none" /\ run[r].known = {} /\ ~run[r].found
    BY DEF Init
<1>2. status.state = "idle" /\ live.imports = {}
    BY DEF Init
<1> QED
    BY <1>1, <1>2 DEF FilesInv, StatusFits, AtWork, OutcomeFits, Early

(* A step beside the commands: some run moves before its start or after its*)
(* end, and takes what it has found along.                                 *)
LEMMA BesideKeeps ==
    ASSUME LockInv, FilesInv, UNCHANGED <<raw, live, made, overlapped>>, StatusFits',
           \A r \in Runs :
              /\ run'[r].known = run[r].known /\ run'[r].found = run[r].found
              /\ run'[r].ok = run[r].ok /\ run'[r].todo = run[r].todo
              /\ run'[r].mem = run[r].mem /\ run'[r].staging = run[r].staging
              /\ run'[r].at = "working" <=> run[r].at = "working"
              /\ run'[r].at \in Early <=> run[r].at \in Early
    PROVE  FilesInv'
<1>1. AtWork' = AtWork
    BY DEF AtWork
<1>2. \A r \in Runs : CommandFits(r) => CommandFits(r)'
    BY DEF CommandFits, HasLoaded, HasCloned
<1>3. \A r \in Runs : OutcomeFits(r) => OutcomeFits(r)'
    BY DEF OutcomeFits
<1> QED
    BY <1>1, <1>2, <1>3 DEF FilesInv, AtWork

(* A step of a command that is at work, the only one that is.              *)
LEMMA WorkKeeps ==
    ASSUME LockInv, FilesInv, NEW r \in AtWork,
           \A s \in Runs \ {r} : run'[s] = run[s],
           UNCHANGED <<status, made, overlapped>>,
           run'[r].at \in {"working", "exited"}, run'[r].known \subseteq made,
           ~overlapped =>
              /\ live.imports \subseteq live'.imports /\ live'.imports \subseteq raw'
              /\ run'[r].at = "working" => CommandFits(r)'
              /\ run'[r].at = "exited" =>
                    (run'[r].ok /\ run'[r].found => r \in live'.imports)
    PROVE  FilesInv'
<1>1. r \in Runs /\ run[r].at = "working"
    BY DEF AtWork
<1>2. \A s \in Runs : run'[s].known \subseteq made'
    BY DEF FilesInv
<1>3. StatusFits'
    BY <1>1 DEF FilesInv, StatusFits
<1>4. ASSUME ~overlapped
      PROVE  AtWork' \subseteq {r} /\ \A s \in Runs : OutcomeFits(s)'
  <2>1. AtWork' \subseteq {r}
      BY <1>1, <1>4 DEF AtWork, FilesInv
  <2>2. OutcomeFits(r)'
      BY <1>1, <1>4 DEF OutcomeFits, Early
  <2>3. \A s \in Runs \ {r} : OutcomeFits(s)'
      BY <1>4 DEF OutcomeFits, FilesInv
  <2> QED
      BY <2>1, <2>2, <2>3
<1>5. ~overlapped => \A s \in AtWork' : CommandFits(s)'
    BY <1>1, <1>4 DEF AtWork
<1>6. ~overlapped => \A s, t \in AtWork' : s = t
    BY <1>4
<1> QED
    BY <1>2, <1>3, <1>4, <1>5, <1>6 DEF FilesInv

(* Which of its facts a step of a command touches.                         *)
LEMMA WorkFacts ==
    ASSUME LockInv, NEW r \in Runs, NEW step \in Steps \ {"publish"}, Doing(r, step),
           NEW y \in RunRecords, run' = [run EXCEPT ![r] = y]
    PROVE  /\ r \in AtWork /\ ModeOf[r] \in Modes /\ run[r].todo \in Left(ModeOf[r])
           /\ Advanced(r) \in RunRecords /\ Advanced(r).todo = Tail(run[r].todo)
           /\ Advanced(r).at = "working" /\ Advanced(r).ok = run[r].ok
           /\ Advanced(r).found = run[r].found /\ Advanced(r).mem = run[r].mem
           /\ Advanced(r).staging = run[r].staging /\ Advanced(r).known = run[r].known
           /\ run'[r] = y /\ \A s \in Runs \ {r} : run'[s] = run[s]
<1>1. r \in AtWork /\ ModeOf[r] \in Modes /\ run[r].todo \in Left(ModeOf[r])
    BY ModeAssumption DEF AtWork, Doing, Modes, LockInv, ScriptsFit, InScript
<1>2. run'[r] = y /\ \A s \in Runs \ {r} : run'[s] = run[s]
    BY PutRun DEF LockInv
<1> QED
    BY <1>1, <1>2, AdvanceFacts DEF LockInv, Doing

LEMMA LoadKeepsFiles ==
    ASSUME LockInv, FilesInv, NEW r \in Runs, Load(r)
    PROVE  FilesInv'
<1> DEFINE y == [Advanced(r) EXCEPT !.mem = raw]
<1>1. Doing(r, "load") /\ run' = [run EXCEPT ![r] = y] /\ UNCHANGED <<status, world, overlapped>>
    BY DEF Load
<1>2. Advanced(r) \in RunRecords /\ raw \in SUBSET Runs
    BY <1>1, AdvanceFacts DEF LockInv, TypeOK
<1>3. /\ y \in RunRecords /\ y.todo = Advanced(r).todo /\ y.at = Advanced(r).at
      /\ y.ok = Advanced(r).ok /\ y.found = Advanced(r).found /\ y.mem = raw
      /\ y.staging = Advanced(r).staging /\ y.known = Advanced(r).known
    BY <1>2 DEF RunRecords
<1> HIDE DEF y
<1>4. "load" \in Steps \ {"publish"}
    BY DEF Steps
<1>5. /\ r \in AtWork /\ ModeOf[r] \in Modes /\ run[r].todo \in Left(ModeOf[r])
      /\ y.todo = Tail(run[r].todo) /\ y.at = "working" /\ y.found = run[r].found
      /\ y.staging = run[r].staging /\ y.known = run[r].known
      /\ run'[r] = y /\ \A s \in Runs \ {r} : run'[s] = run[s]
    BY <1>1, <1>3, <1>4, WorkFacts
<1>6. ASSUME ~overlapped
      PROVE  CommandFits(r)' /\ live.imports \subseteq raw
  <2>1. CommandFits(r) /\ live.imports \subseteq raw
      BY <1>5, <1>6 DEF FilesInv
  <2>2. Head(run[r].todo) = "load"
      BY <1>1 DEF Doing
  <2>3. HasCloned(y, ModeOf[r]) => HasCloned(run[r], ModeOf[r])
      BY <1>5, <2>2, TodoSteps DEF HasCloned
  <2>4. ModeOf[r] = "full_run" => ~run[r].found
      BY <2>1, <2>2 DEF CommandFits
  <2>5. ModeOf[r] = "full_run" => Head(Tail(run[r].todo)) = "save"
      BY <1>5, <2>2, TodoSteps
  <2>6. ModeOf[r] = "full_run" => Head(y.todo) = "save"
      BY <1>5, <2>5
  <2> QED
      BY <1>1, <1>3, <1>5, <2>1, <2>3, <2>4, <2>6 DEF CommandFits, world
<1> QED
    BY <1>1, <1>5, <1>6, WorkKeeps DEF FilesInv, world

LEMMA SaveKeepsFiles ==
    ASSUME LockInv, FilesInv, NEW r \in Runs, Save(r)
    PROVE  FilesInv' /\ (~overlapped => raw \subseteq raw')
<1> DEFINE y == [Advanced(r) EXCEPT !.found = TRUE]
<1>1. /\ Doing(r, "save") /\ run' = [run EXCEPT ![r] = y] /\ UNCHANGED <<status, overlapped>>
      /\ raw' = run[r].mem \cup {r} /\ UNCHANGED <<live, made>>
    BY DEF Save
<1>2. Advanced(r) \in RunRecords
    BY <1>1, AdvanceFacts DEF LockInv
<1>3. /\ y \in RunRecords /\ y.todo = Advanced(r).todo /\ y.at = Advanced(r).at
      /\ y.ok = Advanced(r).ok /\ y.found /\ y.mem = Advanced(r).mem
      /\ y.staging = Advanced(r).staging /\ y.known = Advanced(r).known
    BY <1>2 DEF RunRecords
<1> HIDE DEF y
<1>4. "save" \in Steps \ {"publish"}
    BY DEF Steps
<1>5. /\ r \in AtWork /\ ModeOf[r] \in Modes /\ run[r].todo \in Left(ModeOf[r])
      /\ y.todo = Tail(run[r].todo) /\ y.at = "working" /\ y.mem = run[r].mem
      /\ y.staging = run[r].staging /\ y.known = run[r].known
      /\ run'[r] = y /\ \A s \in Runs \ {r} : run'[s] = run[s]
    BY <1>1, <1>3, <1>4, WorkFacts
<1>6. ASSUME ~overlapped
      PROVE  CommandFits(r)' /\ raw' = raw \cup {r} /\ live.imports \subseteq raw
  <2>1. CommandFits(r) /\ live.imports \subseteq raw
      BY <1>5, <1>6 DEF FilesInv
  <2>2. Head(run[r].todo) = "save"
      BY <1>1 DEF Doing
  <2>3. raw' = raw \cup {r}
      BY <1>1, <2>1, <2>2 DEF CommandFits, HasLoaded
  <2>4. HasCloned(y, ModeOf[r]) => HasCloned(run[r], ModeOf[r])
      BY <1>5, <2>2, TodoSteps DEF HasCloned
  <2>5. ~HasLoaded(y, ModeOf[r]) /\ (ModeOf[r] = "full_run" => Head(y.todo) = "publish")
      BY <1>5, <2>2, TodoSteps DEF HasLoaded
  <2> QED
      BY <1>1, <1>3, <1>5, <2>1, <2>3, <2>4, <2>5 DEF CommandFits
<1>7. FilesInv'
    BY <1>1, <1>5, <1>6, WorkKeeps DEF FilesInv
<1> QED
    BY <1>6, <1>7

LEMMA NextCommandKeepsFiles ==
    ASSUME LockInv, FilesInv, NEW r \in Runs, NextCommand(r)
    PROVE  FilesInv'
<1> DEFINE y == Advanced(r)
<1>1. Doing(r, "next") /\ run' = [run EXCEPT ![r] = y] /\ UNCHANGED <<status, world, overlapped>>
    BY DEF NextCommand
<1>2. y \in RunRecords
    BY <1>1, AdvanceFacts DEF LockInv
<1>3. "next" \in Steps \ {"publish"}
    BY DEF Steps
<1>4. /\ r \in AtWork /\ ModeOf[r] \in Modes /\ run[r].todo \in Left(ModeOf[r])
      /\ y.todo = Tail(run[r].todo) /\ y.at = "working" /\ y.found = run[r].found
      /\ y.known = run[r].known
      /\ run'[r] = y /\ \A s \in Runs \ {r} : run'[s] = run[s]
    BY <1>1, <1>2, <1>3, WorkFacts
<1> HIDE DEF y
<1>5. ASSUME ~overlapped
      PROVE  CommandFits(r)' /\ live.imports \subseteq raw
  <2>1. CommandFits(r) /\ live.imports \subseteq raw
      BY <1>4, <1>5 DEF FilesInv
  <2>2. Head(run[r].todo) = "next"
      BY <1>1 DEF Doing
  <2>3. ModeOf[r] # "full_run" /\ Head(y.todo) = "load"
      BY <1>4, <2>2, TodoSteps
  <2> QED
      BY <1>1, <1>4, <2>1, <2>3 DEF CommandFits, HasLoaded, HasCloned, world
<1> QED
    BY <1>1, <1>4, <1>5, WorkKeeps DEF FilesInv, world

LEMMA CloneKeepsFiles ==
    ASSUME LockInv, FilesInv, NEW r \in Runs, Clone(r)
    PROVE  FilesInv'
<1> DEFINE y == [Advanced(r) EXCEPT !.staging = live, !.known = made]
<1>1. Doing(r, "clone") /\ run' = [run EXCEPT ![r] = y] /\ UNCHANGED <<status, world, overlapped>>
    BY DEF Clone
<1>2. Advanced(r) \in RunRecords /\ live \in Files /\ made \in SUBSET Edits
    BY <1>1, AdvanceFacts DEF LockInv, TypeOK
<1>3. /\ y \in RunRecords /\ y.todo = Advanced(r).todo /\ y.at = Advanced(r).at
      /\ y.found = Advanced(r).found /\ y.mem = Advanced(r).mem
      /\ y.staging = live /\ y.known = made
    BY <1>2 DEF RunRecords
<1> HIDE DEF y
<1>4. "clone" \in Steps \ {"publish"}
    BY DEF Steps
<1>5. /\ r \in AtWork /\ ModeOf[r] \in Modes /\ run[r].todo \in Left(ModeOf[r])
      /\ y.todo = Tail(run[r].todo) /\ y.at = "working" /\ y.found = run[r].found
      /\ y.mem = run[r].mem
      /\ run'[r] = y /\ \A s \in Runs \ {r} : run'[s] = run[s]
    BY <1>1, <1>3, <1>4, WorkFacts
<1>6. ASSUME ~overlapped
      PROVE  CommandFits(r)' /\ live.imports \subseteq raw
  <2>1. CommandFits(r) /\ live.imports \subseteq raw
      BY <1>5, <1>6 DEF FilesInv
  <2>2. Head(run[r].todo) = "clone"
      BY <1>1 DEF Doing
  <2>3. HasLoaded(y, ModeOf[r]) => HasLoaded(run[r], ModeOf[r])
      BY <1>5, <2>2, TodoSteps DEF HasLoaded
  <2>4. ModeOf[r] = "full_run" => ~run[r].found /\ Head(y.todo) = "load"
      BY <1>5, <2>1, <2>2, TodoSteps DEF CommandFits
  <2> QED
      BY <1>1, <1>3, <1>5, <2>1, <2>3, <2>4 DEF CommandFits, world
<1> QED
    BY <1>1, <1>3, <1>5, <1>6, WorkKeeps DEF FilesInv, world

(* What is published holds all that was live, and what the run has found.  *)
LEMMA PublishKeepsFiles ==
    ASSUME LockInv, FilesInv, NEW r \in Runs, Publish(r)
    PROVE  /\ FilesInv'
           /\ ~overlapped =>
                 /\ live.imports \subseteq live'.imports
                 /\ live.edits \cap run[r].known \subseteq live'.edits
<1>1. /\ run[r].at = "working" /\ Head(run[r].todo) = "publish"
      /\ run' = [run EXCEPT ![r] = Exited(r)] /\ UNCHANGED <<status, raw, made, overlapped>>
      /\ live'.imports = Imported(r) /\ live'.edits = run[r].staging.edits
    BY DEF Publish, Doing
<1>2. /\ run'[r].at = "exited" /\ run'[r].known = {} /\ run'[r].found = run[r].found
      /\ \A s \in Runs \ {r} : run'[s] = run[s]
    BY <1>1, ExitFacts, PutRun DEF LockInv
<1>3. r \in AtWork /\ HasCloned(run[r], ModeOf[r])
    BY <1>1 DEF AtWork, HasCloned
<1>4. ASSUME ~overlapped
      PROVE  /\ live.imports \subseteq Imported(r) /\ Imported(r) \subseteq raw
             /\ run[r].found => r \in Imported(r)
             /\ live.edits \cap run[r].known \subseteq run[r].staging.edits
  <2>1. CommandFits(r) /\ live.imports \subseteq raw
      BY <1>3, <1>4 DEF FilesInv
  <2>2. CASE ModeOf[r] = "full_run"
    <3>1. run[r].found /\ r \in raw /\ run[r].staging.imports = live.imports
        BY <1>1, <1>3, <2>1, <2>2 DEF CommandFits
    <3>2. Imported(r) = live.imports \cup {r}
        BY <2>2, <3>1 DEF Imported
    <3> QED
        BY <1>3, <2>1, <3>1, <3>2 DEF CommandFits
  <2>3. CASE ModeOf[r] # "full_run"
      BY <1>1, <1>3, <2>1, <2>3 DEF CommandFits, HasLoaded, Imported
  <2> QED
      BY <2>2, <2>3
<1>5. FilesInv'
    BY <1>1, <1>2, <1>3, <1>4, WorkKeeps
<1> QED
    BY <1>1, <1>4, <1>5

LEMMA FailuresKeepFiles ==
    ASSUME LockInv, FilesInv, NEW r \in Runs, NoTargets(r) \/ CommandFails(r)
    PROVE  FilesInv'
<1>1. run[r].at = "working" /\ UNCHANGED <<status, world, overlapped>>
    BY DEF NoTargets, CommandFails, Doing
<1>2. r \in AtWork
    BY <1>1 DEF AtWork
<1>3. Exited(r) \in RunRecords
    BY ExitFacts DEF LockInv
<1>4. CASE NoTargets(r)
  <2>1. Head(run[r].todo) = "load" /\ ModeOf[r] = "full_run"
        /\ run' = [run EXCEPT ![r] = Exited(r)]
      BY <1>4 DEF NoTargets, Doing
  <2>2. /\ run'[r].at = "exited" /\ run'[r].known = {} /\ run'[r].found = run[r].found
        /\ \A s \in Runs \ {r} : run'[s] = run[s]
      BY <2>1, ExitFacts, PutRun DEF LockInv
  <2>3. ~overlapped => ~run[r].found /\ live.imports \subseteq raw
      BY <1>2, <2>1 DEF FilesInv, CommandFits
  <2> QED
      BY <1>1, <1>2, <2>2, <2>3, WorkKeeps DEF world
<1>5. CASE CommandFails(r)
  <2> DEFINE y == [Exited(r) EXCEPT !.ok = FALSE]
  <2>1. run' = [run EXCEPT ![r] = y]
      BY <1>5 DEF CommandFails
  <2>2. y \in RunRecords /\ y.at = "exited" /\ y.known = {} /\ ~y.ok
      BY <1>3, ExitFacts DEF RunRecords, LockInv
  <2> HIDE DEF y
  <2>3. run'[r] = y /\ \A s \in Runs \ {r} : run'[s] = run[s]
      BY <2>1, <2>2, PutRun DEF LockInv
  <2> QED
      BY <1>1, <1>2, <2>2, <2>3, WorkKeeps DEF FilesInv, world
<1> QED
    BY <1>4, <1>5

(* A command starts with nothing found; it is the only one, or there is an *)
(* overlap from now on.                                                    *)
LEMMA StartKeepsFiles ==
    ASSUME LockInv, FilesInv, NEW r \in Runs, Start(r)
    PROVE  FilesInv'
<1> DEFINE y == [run[r] EXCEPT !.at = "working", !.todo = Script(ModeOf[r])]
<1>1. /\ run[r].at = "ready" /\ run' = [run EXCEPT ![r] = y] /\ UNCHANGED world
      /\ status'.state = "running" \/ UNCHANGED status
      /\ overlapped' = (overlapped \/ AtWork # {})
    BY DEF Start, Show
<1>2. run[r] \in RunRecords /\ ModeOf[r] \in Modes
    BY ModeAssumption DEF LockInv, TypeOK, Modes
<1>3. /\ Script(ModeOf[r]) \in Seq(Steps)
      /\ Head(Script(ModeOf[r])) = IF ModeOf[r] = "full_run" THEN "clone" ELSE "load"
    BY <1>2, ScriptSteps, TodoSteps
<1>4. /\ y \in RunRecords /\ y.at = "working" /\ y.todo = Script(ModeOf[r])
      /\ y.found = run[r].found /\ y.known = run[r].known
    BY <1>2, <1>3 DEF RunRecords, Stages, Attending
<1> HIDE DEF y
<1>5. run'[r] = y /\ \A s \in Runs \ {r} : run'[s] = run[s]
    BY <1>1, <1>4, PutRun DEF LockInv
<1>6. (\A s \in Runs : run'[s].known \subseteq made') /\ StatusFits'
    BY <1>1, <1>4, <1>5 DEF FilesInv, StatusFits, world
<1>7. ASSUME ~overlapped'
      PROVE  /\ ~overlapped /\ AtWork' = {r} /\ CommandFits(r)'
             /\ \A s \in Runs : OutcomeFits(s)'
  <2>1. ~overlapped /\ AtWork = {}
      BY <1>1, <1>7
  <2>2. AtWork' = {r}
      BY <1>4, <1>5, <2>1 DEF AtWork
  <2>3. ~run[r].found
      BY <1>1, <2>1 DEF FilesInv, OutcomeFits, Early
  <2>4. CommandFits(r)'
      BY <1>3, <1>4, <1>5, <2>3 DEF CommandFits, HasLoaded, HasCloned
  <2>5. \A s \in Runs : OutcomeFits(s)'
      BY <1>1, <1>4, <1>5, <2>1, <2>3 DEF FilesInv, OutcomeFits, world
  <2> QED
      BY <2>1, <2>2, <2>4, <2>5
<1>8. ~overlapped' => live'.imports \subseteq raw'
    BY <1>1, <1>7 DEF FilesInv, world
<1>9. ~overlapped' => (\A s, t \in AtWork' : s = t) /\ (\A s \in AtWork' : CommandFits(s)')
  <2>1. ASSUME ~overlapped', NEW s \in AtWork'
        PROVE  s = r
      BY <1>7, <2>1
  <2> QED
      BY <1>7, <2>1
<1> QED
    BY <1>6, <1>7, <1>8, <1>9 DEF FilesInv

(* A run that takes a stage beside the commands.                           *)
LEMMA StagedKeepsFiles ==
    ASSUME LockInv, FilesInv, NEW r \in Runs, NEW a \in Stages, Staged(r, a),
           UNCHANGED <<raw, live, made, overlapped>>, StatusFits',
           a # "working", run[r].at # "working", a \in Early <=> run[r].at \in Early
    PROVE  FilesInv'
BY BesideKeeps DEF Staged

LEMMA ReportKeepsFiles ==
    ASSUME LockInv, FilesInv, NEW r \in Runs, Report(r) \/ ReleaseRead(r) \/ ReleaseUnlink(r)
    PROVE  FilesInv'
<1>1. /\ run[r].at \in {"exited", "reported", "releasing"}
      /\ UNCHANGED <<raw, live, made, overlapped>>
    BY DEF Report, ReleaseRead, ReleaseUnlink, world
<1>2. PICK a \in {"reported", "releasing", "done"} :
          /\ run' = [run EXCEPT ![r].at = a]
          /\ run[r].at = "exited" => a = "reported"
          /\ \/ run[r].at = "exited" /\ status' =
                    [state |-> IF run[r].ok THEN "success" ELSE "failed", run |-> r]
             \/ UNCHANGED status
    BY DEF Report, ReleaseRead, ReleaseUnlink, Show
<1>3. Staged(r, a) /\ a \in Stages
    BY <1>2, PutStage DEF LockInv, Stages, Attending
<1>4. StatusFits'
  <2>1. run'[r].at = a /\ run'[r].ok = run[r].ok
        /\ \A s \in Runs \ {r} : run'[s] = run[s]
      BY <1>3 DEF Staged
  <2>2. CASE /\ run[r].at = "exited"
             /\ status' = [state |-> IF run[r].ok THEN "success" ELSE "failed", run |-> r]
      BY <1>2, <2>1, <2>2 DEF StatusFits
  <2>3. CASE UNCHANGED status
      BY <1>2, <2>1, <2>3 DEF StatusFits, FilesInv
  <2> QED
      BY <1>2, <2>2, <2>3
<1> QED
    BY <1>1, <1>2, <1>3, <1>4, StagedKeepsFiles DEF Early

(* A claim moves a run whose command has not started.                      *)
LEMMA ClaimKeepsFiles ==
    ASSUME LockInv, FilesInv, NEW p \in Procs, ClaimStep(p)
    PROVE  FilesInv'
<1>1. UNCHANGED <<raw, live, made, overlapped>>
    BY DEF ClaimStep, TryAgain, Accept, AcceptFails, ReadMetadata, Judge, Unlink, world
<1>2. claim[p].run \in Runs /\ run[claim[p].run].at = "claiming"
  <2>1. claim[p].at # "idle"
      BY DEF ClaimStep, TryAgain, Accept, AcceptFails, ReadMetadata, Judge, Unlink
  <2> QED
      BY <2>1 DEF LockInv, TypeOK, ClaimsFit, Claims
<1> DEFINE r == claim[p].run
<1>3. CASE UNCHANGED <<run, status>>
  <2>1. StatusFits'
      BY <1>3 DEF StatusFits, FilesInv
  <2> QED
      BY <1>1, <1>3, <2>1, BesideKeeps
<1>4. CASE run' = [run EXCEPT ![r].at = "refused"] /\ UNCHANGED status
  <2>1. Staged(r, "refused") /\ "refused" \in Stages
      BY <1>2, <1>4, PutStage DEF LockInv, Stages
  <2>2. StatusFits'
      BY <1>2, <1>4, <2>1 DEF StatusFits, FilesInv, Staged
  <2> QED
      BY <1>1, <1>2, <2>1, <2>2, StagedKeepsFiles DEF Early
<1>5. CASE Accept(p)
  <2> DEFINE y == [run[r] EXCEPT !.at = "ready", !.host = p, !.attended = TRUE]
  <2>1. run' = [run EXCEPT ![r] = y] /\ (status'.state = "running" \/ UNCHANGED status)
      BY <1>5 DEF Accept, Show
  <2>2. run[r] \in RunRecords
      BY <1>2 DEF LockInv, TypeOK
  <2>3. /\ y \in RunRecords /\ y.at = "ready" /\ y.todo = run[r].todo
        /\ y.ok = run[r].ok /\ y.found = run[r].found /\ y.mem = run[r].mem
        /\ y.staging = run[r].staging /\ y.known = run[r].known
      BY <2>2 DEF RunRecords, Stages, Attending
  <2> HIDE DEF y
  <2>4. run'[r] = y /\ \A s \in Runs \ {r} : run'[s] = run[s]
      BY <1>2, <2>1, <2>3, PutRun DEF LockInv
  <2>5. StatusFits'
      BY <1>2, <2>1, <2>4 DEF StatusFits, FilesInv
  <2>6. \A s \in Runs :
           /\ run'[s].known = run[s].known /\ run'[s].found = run[s].found
           /\ run'[s].ok = run[s].ok /\ run'[s].todo = run[s].todo
           /\ run'[s].mem = run[s].mem /\ run'[s].staging = run[s].staging
           /\ run'[s].at = "working" <=> run[s].at = "working"
           /\ run'[s].at \in Early <=> run[s].at \in Early
      BY <1>2, <2>3, <2>4 DEF Early
  <2> QED
      BY <1>1, <2>5, <2>6, BesideKeeps
<1> QED
    BY <1>3, <1>4, <1>5 DEF ClaimStep, TryAgain, AcceptFails, ReadMetadata, Judge, Unlink, Retry,
       Refuse

(* Triggers and kills move runs that have found nothing yet.               *)
LEMMA ProcessKeepsFiles ==
    ASSUME LockInv, FilesInv, NEW p \in Procs,
           Kill(p) \/ Restart(p) \/ \E r \in Runs : Trigger(p, r)
    PROVE  FilesInv'
<1>1. UNCHANGED <<raw, live, made, overlapped, status>>
    BY DEF Kill, Restart, Trigger, world
<1>2. CASE Kill(p)
  <2>1. ASSUME NEW s \in Runs
        PROVE  /\ run'[s].known = run[s].known /\ run'[s].found = run[s].found
               /\ run'[s].ok = run[s].ok /\ run'[s].todo = run[s].todo
               /\ run'[s].mem = run[s].mem /\ run'[s].staging = run[s].staging
               /\ \/ run'[s].at = run[s].at
                  \/ run'[s].at = "refused" /\ run[s].at = "claiming"
    <3>1. run[s] \in RunRecords
        BY DEF LockInv, TypeOK
    <3>2. run'[s] = IF claim[p].run = s THEN [run[s] EXCEPT !.at = "refused"]
                    ELSE IF run[s].host = p THEN [run[s] EXCEPT !.attended = FALSE] ELSE run[s]
        BY <1>2 DEF Kill
    <3>3. claim[p].run = s => run[s].at = "claiming"
        BY DEF LockInv, ClaimsFit
    <3>4. CASE claim[p].run = s
        BY <3>1, <3>2, <3>3, <3>4 DEF RunRecords
    <3>5. CASE claim[p].run # s
        BY <3>1, <3>2, <3>5 DEF RunRecords
    <3> QED
        BY <3>4, <3>5
  <2>2. StatusFits'
      BY <1>1, <2>1 DEF StatusFits, FilesInv
  <2> QED
      BY <1>1, <2>1, <2>2, BesideKeeps DEF Early
<1>3. CASE Restart(p)
  <2>1. UNCHANGED run
      BY <1>3 DEF Restart
  <2>2. StatusFits'
      BY <1>1, <2>1 DEF StatusFits, FilesInv
  <2> QED
      BY <1>1, <2>1, <2>2, BesideKeeps
<1>4. CASE \E r \in Runs : Trigger(p, r)
  <2>1. PICK r \in Runs : run[r].at = "none" /\ run' = [run EXCEPT ![r].at = "claiming"]
      BY <1>4 DEF Trigger
  <2>2. Staged(r, "claiming") /\ "claiming" \in Stages
      BY <2>1, PutStage DEF LockInv, Stages
  <2>3. StatusFits'
      BY <1>1, <2>1, <2>2 DEF StatusFits, FilesInv, Staged
  <2> QED
      BY <1>1, <2>1, <2>2, <2>3, StagedKeepsFiles DEF Early
<1> QED
    BY <1>2, <1>3, <1>4

(* An edit is new, so no clone that was made knew it.                      *)
LEMMA EditKeepsFiles ==
    ASSUME LockInv, FilesInv, NEW e \in Edits, Edit(e)
    PROVE  FilesInv' /\ live'.imports = live.imports /\ live.edits \subseteq live'.edits
<1>1. /\ e \notin made /\ made' = made \cup {e} /\ live' = [live EXCEPT !.edits = @ \cup {e}]
      /\ UNCHANGED <<run, status, raw, overlapped>>
    BY DEF Edit
<1>2. live'.imports = live.imports /\ live'.edits = live.edits \cup {e}
    BY <1>1 DEF LockInv, TypeOK, Files
<1>3. StatusFits' /\ \A r \in Runs : run'[r].known \subseteq made' /\ e \notin run[r].known
    BY <1>1 DEF FilesInv, StatusFits
<1>4. \A r \in Runs : CommandFits(r) => CommandFits(r)'
    BY <1>1, <1>2, <1>3 DEF CommandFits, HasLoaded, HasCloned
<1>5. \A r \in Runs : OutcomeFits(r) => OutcomeFits(r)'
    BY <1>1, <1>2 DEF OutcomeFits
<1>6. AtWork' = AtWork
    BY <1>1 DEF AtWork
<1> QED
    BY <1>1, <1>2, <1>3, <1>4, <1>5, <1>6 DEF FilesInv, AtWork

LEMMA RunKeepsFiles ==
    ASSUME LockInv, FilesInv, NEW r \in Runs, RunStep(r)
    PROVE  FilesInv'
BY LoadKeepsFiles, SaveKeepsFiles, NextCommandKeepsFiles, CloneKeepsFiles, PublishKeepsFiles,
   FailuresKeepFiles, StartKeepsFiles, ReportKeepsFiles DEF RunStep

LEMMA NextKeepsFilesInv == LockInv /\ FilesInv /\ [Next]_vars => FilesInv'
<1> SUFFICES ASSUME LockInv, FilesInv, [Next]_vars PROVE FilesInv'
    OBVIOUS
<1>1. CASE UNCHANGED <<run, status, raw, live, made, overlapped>>
  <2>1. StatusFits'
      BY <1>1 DEF StatusFits, FilesInv
  <2> QED
      BY <1>1, <2>1, BesideKeeps
<1>2. CASE LockGetsOld \/ UNCHANGED vars
    BY <1>1, <1>2 DEF LockGetsOld, vars, world
<1> QED
    BY <1>2, ClaimKeepsFiles, ProcessKeepsFiles, RunKeepsFiles, EditKeepsFiles DEF Next

LEMMA FilesInvariance == Spec => []FilesInv
BY LockInvariance, InitFilesInv, NextKeepsFilesInv, PTL DEF Spec

LEMMA OutcomesAreLive == FilesInv => SuccessIsLive
BY DEF FilesInv, StatusFits, OutcomeFits, Early, SuccessIsLive

(* "success" is written after the command's exit, hence of what it has     *)
(* published, and what was live is in every later publication              *)
(* (run_pipeline_task, safe_db_update).                                    *)
THEOREM SuccessesAreLive == Spec => []SuccessIsLive
BY FilesInvariance, OutcomesAreLive, PTL

(* Who writes the files: a command that saves or publishes, and an edit.   *)
LEMMA WritersOfFiles ==
    ASSUME [Next]_vars
    PROVE  /\ overlapped => overlapped'
           /\ \/ UNCHANGED <<raw, live>>
              \/ \E r \in Runs : Save(r) /\ UNCHANGED live
              \/ \E r \in Runs : Publish(r) /\ UNCHANGED raw
              \/ \E e \in Edits : Edit(e) /\ UNCHANGED raw
<1>1. ASSUME NEW p \in Procs, ClaimStep(p) \/ Kill(p) \/ Restart(p) \/ \E r \in Runs : Trigger(p, r)
      PROVE  UNCHANGED <<raw, live, overlapped>>
    BY <1>1 DEF ClaimStep, TryAgain, Accept, AcceptFails, ReadMetadata, Judge, Unlink, Kill,
       Restart, Trigger, world
<1>2. ASSUME NEW r \in Runs, RunStep(r)
      PROVE  /\ overlapped => overlapped'
             /\ \/ Save(r) /\ UNCHANGED live
                \/ Publish(r) /\ UNCHANGED raw
                \/ UNCHANGED <<raw, live>>
  <2>1. CASE Save(r)
      BY <2>1 DEF Save
  <2>2. CASE Publish(r)
      BY <2>2 DEF Publish
  <2>3. CASE Start(r)
    <3>1. overlapped' = (overlapped \/ AtWork # {}) /\ UNCHANGED <<raw, live>>
        BY <2>3 DEF Start, world
    <3> QED
        BY <3>1, Zenon
  <2>4. CASE ~Save(r) /\ ~Publish(r) /\ ~Start(r)
    <3>1. UNCHANGED <<world, overlapped>>
        BY <1>2, <2>4 DEF RunStep, Load, NextCommand, Clone, NoTargets, CommandFails, Report,
           ReleaseRead, ReleaseUnlink
    <3> QED
        BY <3>1 DEF world
  <2> QED
      BY <2>1, <2>2, <2>3, <2>4
<1>3. ASSUME NEW e \in Edits, Edit(e)
      PROVE  UNCHANGED <<raw, overlapped>>
    BY <1>3 DEF Edit
<1>4. CASE LockGetsOld \/ UNCHANGED vars
    BY <1>4 DEF LockGetsOld, vars, world
<1> QED
    BY <1>1, <1>2, <1>3, <1>4 DEF Next

LEMMA ImportsStep ==
    ASSUME LockInv, FilesInv, [Next]_vars, ~overlapped'
    PROVE  raw \subseteq raw' /\ live.imports \subseteq live'.imports
BY WritersOfFiles, SaveKeepsFiles, PublishKeepsFiles, EditKeepsFiles

(* No step drops an imported record from the raw files or the database, as *)
(* long as no two commands were at work together                           *)
(* (consolidate, process_pending_foundations, safe_db_update).             *)
THEOREM ImportsAreKept == Spec => ImportsStay
<1>1. LockInv /\ FilesInv /\ [Next]_vars =>
          [~overlapped' => raw \subseteq raw' /\ live.imports \subseteq live'.imports]_vars
    BY ImportsStep
<1> QED
    BY <1>1, LockInvariance, FilesInvariance, PTL DEF Spec, ImportsStay

LEMMA EditsStep ==
    ASSUME LockInv, FilesInv, [Next]_vars, ~overlapped'
    PROVE  \A e \in live.edits \ live'.edits : \E r \in Runs : Publish(r) /\ e \notin run[r].known
BY WritersOfFiles, PublishKeepsFiles, EditKeepsFiles

(* What a publication loses was edited after its clone (safe_db_update     *)
(* clones, lets the command work and replaces the file).                   *)
THEOREM EarlyEditsAreKept == Spec => OnlyLateEditsAreLost
<1>1. LockInv /\ FilesInv /\ [Next]_vars =>
          [~overlapped' => \A e \in live.edits \ live'.edits :
               \E r \in Runs : Publish(r) /\ e \notin run[r].known]_vars
    BY EditsStep
<1> QED
    BY <1>1, LockInvariance, FilesInvariance, PTL DEF Spec, OnlyLateEditsAreLost
=============================================================================
