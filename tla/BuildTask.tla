----------------------------- MODULE BuildTask -----------------------------
(***************************************************************************)
(* One build of the engine (engine/buildTask.go, engine/buildDao.go).      *)
(*                                                                         *)
(* The goroutine of BuildTask.run walks the stages in order.  runStage     *)
(* starts one goroutine per step and waits for all of them; runStep waits  *)
(* for the steps it depends on, hands its job to the job engine and polls  *)
(* the step's status until a runner reports the end.  Three parties write  *)
(* the status of a step: its own goroutine, the runner (UpJob), and, when  *)
(* the build is cancelled or late, the poll loop.  The rows of t_build,    *)
(* t_stage and t_step are written with the task's own context, the rows of *)
(* t_step by a goroutine started after each change.                        *)
(*                                                                         *)
(* The runner is a program outside this repository: it is modelled by the  *)
(* calls engine/runner.go accepts from it.                                 *)
(***************************************************************************)
EXTENDS Naturals

CONSTANTS
  Steps,      \* the steps (jobs) of the build
  Names,      \* the names a "waits" entry may hold, of steps or of nothing
  NStages,    \* number of stages
  StageOf,    \* the stage a step belongs to
  Waits,      \* the names a step waits on
  ErrIgnore   \* the steps whose error does not stop the build

ASSUME BuildShape ==
  /\ NStages \in Nat \ {0}
  /\ Steps \subseteq Names
  /\ StageOf \in [Steps -> 1 .. NStages]
  /\ Waits \in [Steps -> SUBSET Names]
  /\ ErrIgnore \subseteq Steps

Stages == 1 .. NStages

Ended  == {"ok", "error", "cancel"}
Status == Ended \cup {"pending", "preparation", "running"}

VARIABLES
  main,     \* where the goroutine of BuildTask.run stands
  cur,      \* the stage runStage works on
  left,     \* the jobs whose result runStage has still to look at
  ctx,      \* taskCtx(): not created yet, alive, or cancelled / past its deadline
  ctl,      \* c.ctrlendtm: zero, or the time of a user's Cancel
  build,    \* c.build.Status
  stage,    \* stage.Status of every stage
  step,     \* job.step.Status of every step
  pc,       \* where the goroutine of runStep stands
  unread,   \* the waits the scan of runStep has still to look at
  unmet,    \* the waits it found not over (waitln counts them)
  runner,   \* how far the job engine and a runner got with the job
  writers,  \* the steps for which some goroutine of updateStep has not run yet
  db        \* the rows of t_build, t_stage and t_step

mainVars == <<main, cur, left, build, stage>>
ctxVars  == <<ctx, ctl>>
scanVars == <<unread, unmet>>
vars     == <<mainVars, ctxVars, step, pc, scanVars, runner, writers, db>>

MainPC   == {"start", "clone", "launch", "wait", "collect", "stageRow", "stageSweep",
             "buildRow", "buildSweep", "unregister", "gone"}
StepPC   == {"idle", "start", "waitHead", "waitBody", "scan", "dispatch", "put",
             "pollHead", "pollBody", "exit", "done"}
RunnerPC == {"none", "queued", "pulled", "running", "reported"}

TypeOK ==
  /\ main \in MainPC
  /\ cur \in Stages
  /\ left \subseteq Steps
  /\ ctx \in {"none", "live", "done"}
  /\ ctl \in {"zero", "user"}
  /\ build \in Status
  /\ stage \in [Stages -> Status]
  /\ step \in [Steps -> Status]
  /\ pc \in [Steps -> StepPC]
  /\ unread \in [Steps -> SUBSET Names]
  /\ unmet \in [Steps -> SUBSET Names]
  /\ runner \in [Steps -> RunnerPC]
  /\ writers \subseteq Steps
  /\ db \in [build : Status, stage : [Stages -> Status], step : [Steps -> Status]]

Init ==
  /\ main = "start"
  /\ cur = 1
  /\ left = {}
  /\ ctx = "none"
  /\ ctl = "zero"
  /\ build = "pending"
  /\ stage = [k \in Stages |-> "pending"]
  /\ step = [s \in Steps |-> "pending"]
  /\ pc = [s \in Steps |-> "idle"]
  /\ unread = [s \in Steps |-> {}]
  /\ unmet = [s \in Steps |-> {}]
  /\ runner = [s \in Steps |-> "none"]
  /\ writers = {}
  /\ db = [build |-> "pending",
           stage |-> [k \in Stages |-> "pending"],
           step  |-> [s \in Steps |-> "pending"]]

-----------------------------------------------------------------------------
(* Helpers.                                                                *)

StepsOf(k) == {s \in Steps : StageOf[s] = k}

\* The build is in BuildEngine.tasks until startBuild deletes it.
Registered == main # "gone"

\* A step that stops neither its stage nor the steps that wait on it.
Passed(s) == step[s] = "ok" \/ (step[s] = "error" /\ s \in ErrIgnore)

\* Mutant of Stops: errors are forgotten.
StopsOnCancelOnly(s) == step[s] = "cancel"

\* A step that stops its stage, and the steps that wait on it.
Stops(s) == step[s] = "cancel" \/ (step[s] = "error" /\ s \notin ErrIgnore)

\* Mutant of AllReturned: runStage goes on when the first step is done.
AnyReturned == \E s \in StepsOf(cur) : pc[s] = "done"

\* stg.wg is at zero.
AllReturned == \A s \in StepsOf(cur) : pc[s] = "done"

\* Mutant of MoreStages: one stage too many.
MoreStagesOffByOne == cur <= NStages

\* The loop of run() over c.build.Stages has another one.
MoreStages == cur < NStages

\* Every statement of buildDao.go runs under taskCtx(): comm.Ctx before the task
\* has a context, its own after that.  Under a context that is done it fails.
DbWorks == ctx # "done"

\* The catch-all updates close the rows that have not ended.
Closed(row) == IF row \in Ended THEN row ELSE "cancel"

-----------------------------------------------------------------------------
(* The goroutine of BuildTask.run.                                         *)

\* MkdirAll and check; a build that fails them never gets a context.
StartRefused ==
  /\ main = "start"
  /\ main' = "buildRow"
  /\ build' = "error"
  /\ UNCHANGED <<cur, left, stage, ctxVars, step, pc, runner, writers, db, scanVars>>

\* context.WithTimeout(comm.Ctx, ...): dead at birth when the server is stopping.
StartAccepted ==
  /\ main = "start"
  /\ main' = "clone"
  /\ build' = "preparation"
  /\ ctx' = IF ctx = "done" THEN "done" ELSE "live"
  /\ UNCHANGED <<cur, left, stage, ctl, step, pc, runner, writers, db, scanVars>>

CloneFails ==
  /\ main = "clone"
  /\ main' = "buildRow"
  /\ build' = "error"
  /\ UNCHANGED <<cur, left, stage, ctxVars, step, pc, runner, writers, db, scanVars>>

\* getRepo returns, also when nothing has to be cloned and the context is done;
\* every stage and step is reset to pending and updateBuild writes the row.
CloneDone ==
  /\ main = "clone"
  /\ main' = "launch"
  /\ build' = "running"
  /\ stage' = [k \in Stages |-> "pending"]
  /\ step' = [s \in Steps |-> "pending"]
  /\ db' = IF DbWorks THEN [db EXCEPT !.build = "running"] ELSE db
  /\ UNCHANGED <<cur, left, ctxVars, pc, runner, writers, scanVars>>

\* The first half of runStage: the row of the stage, then a goroutine per step.
LaunchStage ==
  /\ main = "launch"
  /\ main' = "wait"
  /\ stage' = [stage EXCEPT ![cur] = "running"]
  /\ pc' = [s \in Steps |-> IF s \in StepsOf(cur) THEN "start" ELSE pc[s]]
  /\ db' = IF DbWorks THEN [db EXCEPT !.stage[cur] = "running"] ELSE db
  /\ UNCHANGED <<cur, left, build, ctxVars, step, runner, writers, scanVars>>

\* stg.wg.Wait() returns.
StepsReturned ==
  /\ main = "wait"
  /\ AllReturned
  /\ main' = "collect"
  /\ left' = StepsOf(cur)
  /\ UNCHANGED <<cur, build, stage, ctxVars, step, pc, runner, writers, db, scanVars>>

\* The loop over stg.jobs, a Go map: any order, one lock per job.
CollectJob(s) ==
  /\ main = "collect"
  /\ s \in left
  /\ IF Stops(s)
     THEN /\ stage' = [stage EXCEPT ![cur] = step[s]]
          /\ left' = {}
          /\ main' = "stageRow"
     ELSE /\ left' = left \ {s}
          /\ UNCHANGED <<stage, main>>
  /\ UNCHANGED <<cur, build, ctxVars, step, pc, runner, writers, db, scanVars>>

CollectedAll ==
  /\ main = "collect"
  /\ left = {}
  /\ main' = "stageRow"
  /\ stage' = [stage EXCEPT ![cur] = "ok"]
  /\ UNCHANGED <<cur, left, build, ctxVars, step, pc, runner, writers, db, scanVars>>

\* updateStage in the deferred function of runStage: the row ...
WriteStageRow ==
  /\ main = "stageRow"
  /\ main' = "stageSweep"
  /\ db' = IF DbWorks THEN [db EXCEPT !.stage[cur] = stage[cur]] ELSE db
  /\ UNCHANGED <<cur, left, build, stage, ctxVars, step, pc, runner, writers, scanVars>>

\* ... then the steps of the stage whose row has not ended.  run() goes on with
\* the next stage, or ends with the status of this one.
SweepStage ==
  /\ main = "stageSweep"
  /\ db' = IF DbWorks
           THEN [db EXCEPT !.step = [s \in Steps |->
                   IF s \in StepsOf(cur) THEN Closed(db.step[s]) ELSE db.step[s]]]
           ELSE db
  /\ IF stage[cur] = "ok" /\ MoreStages
     THEN /\ cur' = cur + 1
          /\ main' = "launch"
          /\ UNCHANGED build
     ELSE /\ build' = stage[cur]
          /\ main' = "buildRow"
          /\ UNCHANGED cur
  /\ UNCHANGED <<left, stage, ctxVars, step, pc, runner, writers, scanVars>>

\* updateBuild in the deferred function of run: the row, then the catch-all
\* updates of the rows of the stages and steps.
WriteBuildRow ==
  /\ main = "buildRow"
  /\ main' = "buildSweep"
  /\ db' = IF DbWorks THEN [db EXCEPT !.build = build] ELSE db
  /\ UNCHANGED <<cur, left, build, stage, ctxVars, step, pc, runner, writers, scanVars>>

SweepBuild ==
  /\ main = "buildSweep"
  /\ main' = "unregister"
  /\ db' = IF DbWorks
           THEN [db EXCEPT !.stage = [k \in Stages |-> Closed(db.stage[k])],
                           !.step  = [s \in Steps |-> Closed(db.step[s])]]
           ELSE db
  /\ UNCHANGED <<cur, left, build, stage, ctxVars, step, pc, runner, writers, scanVars>>

\* startBuild deletes the task from BuildEngine.tasks.
Unregister ==
  /\ main = "unregister"
  /\ main' = "gone"
  /\ UNCHANGED <<cur, left, build, stage, ctxVars, step, pc, runner, writers, db, scanVars>>

MainNext ==
  \/ StartRefused \/ StartAccepted \/ CloneFails \/ CloneDone
  \/ LaunchStage \/ StepsReturned \/ (\E s \in Steps : CollectJob(s)) \/ CollectedAll
  \/ WriteStageRow \/ SweepStage \/ WriteBuildRow \/ SweepBuild \/ Unregister

-----------------------------------------------------------------------------
(* The goroutine of runStep for step s.                                    *)

\* job.status: the status alone; the row follows when the goroutine ends.
FailStep(s, stat) ==
  /\ step' = [step EXCEPT ![s] = stat]
  /\ pc' = [pc EXCEPT ![s] = "exit"]
  /\ UNCHANGED <<mainVars, ctxVars, runner, writers, db, scanVars>>

MoveStep(s, to) ==
  /\ pc' = [pc EXCEPT ![s] = to]
  /\ UNCHANGED <<mainVars, ctxVars, step, runner, writers, db, scanVars>>

\* A wait on a name that is not in the stage, or on the step itself.
BadWait(s) == \E w \in Waits[s] : w = s \/ w \notin StepsOf(StageOf[s])

ResolveWaits(s) ==
  /\ pc[s] = "start"
  /\ IF BadWait(s)
     THEN FailStep(s, "error")
     ELSE MoveStep(s, IF Waits[s] = {} THEN "dispatch" ELSE "waitHead")

\* "for c.ctx.Err() == nil": a done context ends the loop, not the goroutine.
WaitHead(s) ==
  /\ pc[s] = "waitHead"
  /\ MoveStep(s, IF ctx = "done" THEN "dispatch" ELSE "waitBody")

WaitStopped(s) ==
  /\ pc[s] = "waitBody"
  /\ ctx = "done"
  /\ FailStep(s, "cancel")

\* waitln := len(ls)
ScanWaits(s) ==
  /\ pc[s] = "waitBody"
  /\ ctx # "done"
  /\ pc' = [pc EXCEPT ![s] = "scan"]
  /\ unread' = [unread EXCEPT ![s] = Waits[s]]
  /\ unmet' = [unmet EXCEPT ![s] = {}]
  /\ UNCHANGED <<mainVars, ctxVars, step, runner, writers, db>>

\* The loop over the dependencies locks one job at a time: the first bad one decides.
WaitFailed(s) ==
  /\ pc[s] = "scan"
  /\ \E w \in unread[s] :
       /\ Stops(w)
       /\ FailStep(s, step[w])

\* Mutant of WaitRead: a step that has started is enough.
WaitReadStarted(s) ==
  /\ pc[s] = "scan"
  /\ \E w \in unread[s] :
       /\ ~ Stops(w)
       /\ unread' = [unread EXCEPT ![s] = @ \ {w}]
       /\ unmet' = [unmet EXCEPT ![s] = IF step[w] # "pending" THEN @ ELSE @ \cup {w}]
  /\ UNCHANGED <<mainVars, ctxVars, step, pc, runner, writers, db>>

WaitRead(s) ==
  /\ pc[s] = "scan"
  /\ \E w \in unread[s] :
       /\ ~ Stops(w)
       /\ unread' = [unread EXCEPT ![s] = @ \ {w}]
       /\ unmet' = [unmet EXCEPT ![s] = IF Passed(w) THEN @ ELSE @ \cup {w}]
  /\ UNCHANGED <<mainVars, ctxVars, step, pc, runner, writers, db>>

\* waitln has gone down to zero, or the loop goes round again.
WaitScanned(s) ==
  /\ pc[s] = "scan"
  /\ unread[s] = {}
  /\ MoveStep(s, IF unmet[s] = {} THEN "dispatch" ELSE "waitHead")

Dispatch(s) ==
  /\ pc[s] = "dispatch"
  /\ step' = [step EXCEPT ![s] = "preparation"]
  /\ writers' = writers \cup {s}
  /\ pc' = [pc EXCEPT ![s] = "put"]
  /\ UNCHANGED <<mainVars, ctxVars, runner, db, scanVars>>

\* Mgr.jobEgn.Put: an error when no runner has asked for the plugin.
PutJob(s) ==
  /\ pc[s] = "put"
  /\ runner' = [runner EXCEPT ![s] = "queued"]
  /\ pc' = [pc EXCEPT ![s] = "pollHead"]
  /\ UNCHANGED <<mainVars, ctxVars, step, writers, db, scanVars>>

\* Mutant of PutRefused: the error is dropped.
PutRefusedUnseen(s) ==
  /\ pc[s] = "put"
  /\ MoveStep(s, "pollHead")

PutRefused(s) ==
  /\ pc[s] = "put"
  /\ FailStep(s, "error")

PollHead(s) ==
  /\ pc[s] = "pollHead"
  /\ MoveStep(s, IF ctx = "done" \/ step[s] \in Ended THEN "exit" ELSE "pollBody")

\* Mutant of PollStopped: the status read before is trusted.
PollStoppedUnasked(s) ==
  /\ pc[s] = "pollBody"
  /\ FailStep(s, "cancel")

\* The status was read before: stopd() may find a context that ended since.  After
\* a user's Cancel three seconds must have passed; ctrlendtm is zero otherwise.
PollStopped(s) ==
  /\ pc[s] = "pollBody"
  /\ ctx = "done"
  /\ FailStep(s, "cancel")

PollAgain(s) ==
  /\ pc[s] = "pollBody"
  /\ ctx = "done" => ctl = "user"
  /\ MoveStep(s, "pollHead")

\* Mutant of StepExit: the last status is not written.
StepExitUnwritten(s) ==
  /\ pc[s] = "exit"
  /\ MoveStep(s, "done")

\* The deferred function starts updateStep, then wg.Done.
StepExit(s) ==
  /\ pc[s] = "exit"
  /\ writers' = writers \cup {s}
  /\ pc' = [pc EXCEPT ![s] = "done"]
  /\ UNCHANGED <<mainVars, ctxVars, step, runner, db, scanVars>>

StepNext(s) ==
  \/ ResolveWaits(s) \/ WaitHead(s) \/ WaitStopped(s)
  \/ ScanWaits(s) \/ WaitFailed(s) \/ WaitRead(s) \/ WaitScanned(s)
  \/ Dispatch(s) \/ PutJob(s) \/ PutRefused(s)
  \/ PollHead(s) \/ PollStopped(s) \/ PollAgain(s) \/ StepExit(s)

\* updateStep: under the lock of the job, so it writes the status of that moment.  It
\* may be the last goroutine started for the step, or leave others behind.
UpdateStep(s) ==
  /\ s \in writers
  /\ writers' \in {writers, writers \ {s}}
  /\ db' = IF DbWorks THEN [db EXCEPT !.step[s] = step[s]] ELSE db
  /\ UNCHANGED <<mainVars, ctxVars, step, pc, runner, scanVars>>

-----------------------------------------------------------------------------
(* The runner: JobEngine.Pull, then baseRunner.Update.                     *)

PullJob(s) ==
  /\ runner[s] = "queued"
  /\ runner' = [runner EXCEPT ![s] = "pulled"]
  /\ UNCHANGED <<mainVars, ctxVars, step, pc, writers, db, scanVars>>

\* baseRunner.Update finds the build in the engine, UpJob overwrites the status;
\* when the build is gone the runner gets an error.
Update(s, stat) ==
  IF Registered
  THEN /\ step' = [step EXCEPT ![s] = stat]
       /\ writers' = writers \cup {s}
       /\ UNCHANGED <<mainVars, ctxVars, pc, scanVars, db>>
  ELSE UNCHANGED <<mainVars, ctxVars, step, pc, writers, db, scanVars>>

ReportRunning(s) ==
  /\ runner[s] = "pulled"
  /\ runner' = [runner EXCEPT ![s] = "running"]
  /\ Update(s, "running")

\* baseRunner.CheckCancel: the build is gone, or its context is done.
CheckCancel == ~ Registered \/ ctx # "live"

ReportEnd(s) ==
  /\ runner[s] = "running"
  /\ runner' = [runner EXCEPT ![s] = "reported"]
  /\ \E stat \in Ended :
       /\ stat = "cancel" => CheckCancel
       /\ Update(s, stat)

RunnerNext(s) == PullJob(s) \/ ReportRunning(s) \/ ReportEnd(s)

-----------------------------------------------------------------------------
(* What ends the context.                                                  *)

\* POST /api/runtime/cancel: BuildTask.Cancel on a build of the engine; cncl is
\* nil, and the call without effect, while run() has not created the context.
Cancel ==
  /\ Registered
  /\ ctl' = "user"
  /\ ctx' = IF ctx = "none" THEN "none" ELSE "done"
  /\ UNCHANGED <<mainVars, step, pc, runner, writers, db, scanVars>>

\* The server stops: comm.Ctx, the parent of every context, is cancelled, then
\* BuildEngine.Stop calls BuildTask.stop on every build of the engine.
Stop ==
  /\ Registered
  /\ ctl' = "zero"
  /\ ctx' = "done"
  /\ UNCHANGED <<mainVars, step, pc, runner, writers, db, scanVars>>

\* Mutant of Deadline: only the clone has one.
CloneDeadline ==
  /\ ctx = "live"
  /\ main = "clone"
  /\ ctx' = "done"
  /\ UNCHANGED <<mainVars, ctl, step, pc, runner, writers, db, scanVars>>

\* context.WithTimeout(comm.Ctx, 2h5m), whether run() has returned or not.
Deadline ==
  /\ ctx = "live"
  /\ ctx' = "done"
  /\ UNCHANGED <<mainVars, ctl, step, pc, runner, writers, db, scanVars>>

-----------------------------------------------------------------------------

Next ==
  \/ MainNext
  \/ \E s \in Steps : StepNext(s) \/ UpdateStep(s) \/ RunnerNext(s)
  \/ Cancel \/ Stop \/ Deadline

\* The goroutines of updateStep all run in the end.
LastUpdateStep(s) == UpdateStep(s) /\ s \notin writers'

\* Every goroutine of the server runs, and the timer of the context fires; nothing
\* is assumed of users and runners.
Fairness ==
  /\ WF_vars(MainNext)
  /\ \A s \in Steps : WF_vars(StepNext(s)) /\ WF_vars(LastUpdateStep(s))
  /\ WF_vars(Deadline)

Spec == Init /\ [][Next]_vars /\ Fairness

\* The environment of a build nobody disturbs: runners take and finish their jobs,
\* the deadline is far away.
CalmNext ==
  \/ MainNext
  \/ \E s \in Steps : StepNext(s) \/ UpdateStep(s) \/ RunnerNext(s)

CalmSpec ==
  /\ Init
  /\ [][CalmNext]_vars
  /\ WF_vars(MainNext)
  /\ \A s \in Steps :
       WF_vars(StepNext(s)) /\ WF_vars(LastUpdateStep(s)) /\ WF_vars(RunnerNext(s))

-----------------------------------------------------------------------------
(* Properties.                                                             *)

\* runStage returns before run() starts the next stage (wg.Wait): while a step has
\* been launched, every step goroutine of every earlier stage is over, and as long as
\* the context is alive each of them passed, so a failed stage is the last one.
StageBarrier ==
  \A s, t \in Steps :
    /\ pc[s] # "idle"
    /\ StageOf[t] < StageOf[s]
    => /\ pc[t] = "done"
       /\ ctx = "live" => Passed(t)

\* A job reaches the job engine only after everything it waits on has passed, though
\* the statuses are read in a loop without a common lock, unless the context ended.
DispatchAfterWaits ==
  \A s \in Steps :
    runner[s] # "none" /\ ctx = "live" => \A w \in Waits[s] : w \in Steps /\ Passed(w)

\* A build that ends "ok" while its context is alive ran all of its steps.
OkMeansPassed ==
  main \in {"buildRow", "buildSweep", "unregister", "gone"} /\ build = "ok" /\ ctx = "live"
    => \A s \in Steps : pc[s] = "done" /\ Passed(s)

\* When the last goroutine of an undisturbed build is over, the rows say what the
\* memory said: the catch-all updates of updateStage and updateBuild race with the
\* goroutines of updateStep and must not have the last word on a step that ended.
RowsAgree ==
  main = "gone" /\ ctx # "done" /\ writers = {}
    => /\ db.build = build
       /\ \A k \in Stages : db.stage[k] = Closed(stage[k])
       /\ \A s \in Steps : db.step[s] = Closed(step[s])

\* Once a step has ended, nothing changes its status while the context is alive:
\* neither a runner nor the poll loop that read the status before.
EndedIsFinal ==
  [][\A s \in Steps : step[s] \in Ended /\ ctx = "live" => step'[s] = step[s]]_vars

\* Whatever the waits (missing names, cycles) and the runners do, the build leaves the
\* engine: the deadline ends every loop of runStep.
Terminates == <>(main = "gone")

\* With waits that have no cycle and runners that finish their jobs a build needs no
\* deadline, and its rows all end.
TerminatesInCalm ==
  <>[](/\ main = "gone"
       /\ db.build \in Ended
       /\ \A s \in Steps : db.step[s] \in Ended)

\* docs/openapi.yaml, /api/runtime/cancel: "Cancel a running build".  A build that was
\* cancelled before its steps were done does not end as a success.
CancelledIsNotOk ==
  main = "gone" /\ ctl = "user" /\ build = "ok" => \A s \in Steps : Passed(s)

\* docs/openapi.yaml, /api/runtime/cancel: "Build cancelled".  A cancelled build ends
\* in the table that the interface lists.
CancelledIsRecorded == (ctl = "user" /\ ctx = "done") ~> (db.build \in Ended)
=============================================================================
