-------------------------- MODULE BuildTaskProofs --------------------------
(***************************************************************************)
(* Proofs about BuildTask, for every set of steps, every number of stages  *)
(* and every relation of waits.                                            *)
(***************************************************************************)
EXTENDS BuildTask, TLAPS

Before == {"idle", "start", "waitHead", "waitBody", "scan", "dispatch"}
Polls  == {"pollHead", "pollBody"}
Ending == {"buildRow", "buildSweep", "unregister", "gone"}

\* The goroutines of the stages before cur are over, those after cur have not been
\* started, and those of cur run only while runStage waits for them.
StageInv ==
  /\ main \in {"start", "clone"} => cur = 1
  /\ \A s \in Steps :
       /\ StageOf[s] < cur => pc[s] = "done"
       /\ StageOf[s] > cur => pc[s] = "idle"
       /\ main \in {"start", "clone", "launch"} /\ StageOf[s] = cur => pc[s] = "idle"
       /\ main \in {"collect", "stageRow", "stageSweep"} /\ StageOf[s] = cur => pc[s] = "done"
       /\ main \in Ending => pc[s] \in {"idle", "done"}

\* While the context is not done the status of a step tells where its goroutine and
\* its runner are.
StatusInv ==
  ctx # "done" =>
    \A s \in Steps :
      /\ pc[s] \in Before => step[s] = "pending" /\ runner[s] = "none"
      /\ pc[s] = "put" => step[s] = "preparation" /\ runner[s] = "none"
      /\ pc[s] \in Polls =>
           \/ runner[s] \in {"queued", "pulled"} /\ step[s] = "preparation"
           \/ runner[s] = "running" /\ step[s] = "running"
           \/ runner[s] = "reported" /\ step[s] \in Ended
      /\ pc[s] \in {"exit", "done"} =>
           step[s] \in Ended /\ runner[s] \in {"none", "reported"}

\* What a goroutine has counted in the scan of its waits has passed, and one past the
\* scan found that all of them had.
WaitsOf(s) ==
  /\ pc[s] \in {"waitHead", "waitBody", "scan", "dispatch", "put"} \cup Polls => ~ BadWait(s)
  /\ ctx # "done" /\ pc[s] = "scan" =>
       \A w \in Waits[s] : w \in unread[s] \/ w \in unmet[s] \/ Passed(w)
  /\ /\ ctx # "done"
     /\ pc[s] \in {"dispatch", "put"} \cup Polls \/ runner[s] # "none"
     => \A w \in Waits[s] : w \in Steps /\ Passed(w)

WaitsInv == \A s \in Steps : WaitsOf(s)

\* What the loops of runStage and run have seen pass.
PassedInv ==
  ctx # "done" =>
    /\ \A s \in Steps : StageOf[s] < cur => Passed(s)
    /\ main = "collect" => \A s \in StepsOf(cur) \ left : Passed(s)
    /\ main \in {"stageRow", "stageSweep"} /\ stage[cur] = "ok"
         => \A s \in StepsOf(cur) : Passed(s)
    /\ main \in Ending /\ build = "ok" => \A s \in Steps : pc[s] = "done" /\ Passed(s)

\* The inductive invariant.
IInv == TypeOK /\ StageInv /\ StatusInv /\ WaitsInv /\ PassedInv

-----------------------------------------------------------------------------
(* What the actions leave alone.                                           *)

\* The goroutine of a step that has neither to start nor to end moves itself, its own
\* status and its own job, and nothing else; it runs only while runStage waits.
LEMMA StepFrame ==
  ASSUME TypeOK, NEW s \in Steps, StepNext(s)
  PROVE  /\ UNCHANGED <<mainVars, ctxVars, db>>
         /\ pc[s] \notin {"idle", "done"} /\ pc'[s] \in StepPC \ {"idle"}
         /\ pc' = [pc EXCEPT ![s] = pc'[s]]
         /\ step'[s] \in Status /\ step' = [step EXCEPT ![s] = step'[s]]
         /\ runner'[s] \in RunnerPC /\ runner' = [runner EXCEPT ![s] = runner'[s]]
         /\ unread'[s] \in SUBSET Names /\ unread' = [unread EXCEPT ![s] = unread'[s]]
         /\ unmet'[s] \in SUBSET Names /\ unmet' = [unmet EXCEPT ![s] = unmet'[s]]
         /\ writers' \subseteq Steps
<1> USE DEF scanVars
<1>1. CASE ResolveWaits(s)
  BY <1>1 DEF TypeOK, ResolveWaits, FailStep, MoveStep, StepPC, Status, Ended
<1>2. CASE WaitHead(s)
  BY <1>2 DEF TypeOK, WaitHead, MoveStep, StepPC
<1>3. CASE WaitStopped(s)
  BY <1>3 DEF TypeOK, WaitStopped, FailStep, StepPC, Status, Ended
<1>4. CASE WaitFailed(s)
  <2>1. PICK w \in unread[s] : Stops(w) /\ FailStep(s, step[w])
    BY <1>4 DEF WaitFailed
  <2>2. step[w] \in Status
    BY <2>1 DEF Stops, Status, Ended
  <2>3. pc[s] = "scan"
    BY <1>4 DEF WaitFailed
  <2>4. QED
    BY <2>1, <2>2, <2>3 DEF TypeOK, FailStep, StepPC
<1>5. CASE WaitScanned(s)
  BY <1>5 DEF TypeOK, WaitScanned, MoveStep, StepPC
<1>6. CASE Dispatch(s)
  BY <1>6 DEF TypeOK, Dispatch, StepPC, Status
<1>7. CASE PutJob(s)
  BY <1>7 DEF TypeOK, PutJob, StepPC, RunnerPC
<1>8. CASE PutRefused(s)
  BY <1>8 DEF TypeOK, PutRefused, FailStep, StepPC, Status, Ended
<1>9. CASE PollHead(s)
  BY <1>9 DEF TypeOK, PollHead, MoveStep, StepPC
<1>10. CASE PollStopped(s)
  BY <1>10 DEF TypeOK, PollStopped, FailStep, StepPC, Status, Ended
<1>11. CASE PollAgain(s)
  BY <1>11 DEF TypeOK, PollAgain, MoveStep, StepPC
<1>12. CASE StepExit(s)
  BY <1>12 DEF TypeOK, StepExit, StepPC
<1>13. CASE ScanWaits(s)
  BY <1>13, BuildShape DEF TypeOK, ScanWaits, StepPC
<1>14. CASE WaitRead(s)
  <2>1. PICK w \in unread[s] :
          /\ unread' = [unread EXCEPT ![s] = @ \ {w}]
          /\ unmet' = [unmet EXCEPT ![s] = IF Passed(w) THEN @ ELSE @ \cup {w}]
    BY <1>14 DEF WaitRead
  <2>2. w \in Names
    BY <2>1 DEF TypeOK
  <2>3. pc[s] = "scan" /\ UNCHANGED <<mainVars, ctxVars, step, pc, runner, writers, db>>
    BY <1>14 DEF WaitRead
  <2>4. QED
    BY <2>1, <2>2, <2>3 DEF TypeOK, StepPC
<1>15. QED
  BY <1>1, <1>2, <1>3, <1>4, <1>5, <1>6, <1>7, <1>8, <1>9, <1>10, <1>11, <1>12, <1>13, <1>14
     DEF StepNext

\* A runner moves its job and, through UpJob, the status of the step.
LEMMA RunnerFrame ==
  ASSUME TypeOK, NEW s \in Steps, RunnerNext(s)
  PROVE  /\ UNCHANGED <<mainVars, ctxVars, pc, scanVars, db>>
         /\ step'[s] \in Status /\ step' = [step EXCEPT ![s] = step'[s]]
         /\ runner'[s] \in RunnerPC /\ runner' = [runner EXCEPT ![s] = runner'[s]]
         /\ writers' \subseteq Steps
<1>1. CASE PullJob(s)
  BY <1>1 DEF TypeOK, PullJob, RunnerPC
<1>2. CASE ReportRunning(s)
  BY <1>2 DEF TypeOK, ReportRunning, Update, RunnerPC, Status
<1>3. CASE ReportEnd(s)
  <2>1. PICK stat \in Ended : Update(s, stat)
    BY <1>3 DEF ReportEnd
  <2>2. QED
    BY <1>3, <2>1 DEF TypeOK, ReportEnd, Update, RunnerPC, Status, mainVars, ctxVars
<1>4. QED
  BY <1>1, <1>2, <1>3 DEF RunnerNext

\* Cancel, a shutdown, the deadline and the goroutines of updateStep change nothing but
\* the context and the rows; a context that is done stays done.
LEMMA ContextFrame ==
  ASSUME TypeOK,
         Cancel \/ Stop \/ Deadline \/ (\E s \in Steps : UpdateStep(s)) \/ UNCHANGED vars
  PROVE  /\ UNCHANGED <<mainVars, step, pc, scanVars, runner>>
         /\ ctx' \in {ctx, "done"} /\ ctl' \in {"zero", "user"}
         /\ writers' \subseteq writers
BY DEF TypeOK, Cancel, Stop, Deadline, UpdateStep, vars, ctxVars, mainVars

\* run() and runStage start goroutines and never touch a runner or, once the stages
\* begin, the status of a step.
LEMMA MainFrame ==
  ASSUME TypeOK, MainNext
  PROVE  /\ UNCHANGED <<runner, writers, ctl, scanVars>>
         /\ main # "gone"
         /\ main # "launch" => pc' = pc
         /\ main # "clone" => step' = step
         /\ main # "start" => ctx' = ctx
         /\ ctx = "done" => ctx' = "done"
BY DEF TypeOK, MainNext, StartRefused, StartAccepted, CloneFails, CloneDone, LaunchStage,
       StepsReturned, CollectJob, CollectedAll, WriteStageRow, SweepStage, WriteBuildRow,
       SweepBuild, Unregister, ctxVars

-----------------------------------------------------------------------------
(* The parts of the invariant, one step at a time.                         *)

\* The empty build satisfies the inductive invariant.
LEMMA InitIInv == Init => IInv
<1> SUFFICES ASSUME Init PROVE IInv
  OBVIOUS
<1>1. TypeOK
  BY BuildShape DEF Init, TypeOK, MainPC, Stages, Status, StepPC, RunnerPC
<1>2. StageInv
  BY BuildShape DEF Init, StageInv, Ending
<1>3. StatusInv /\ WaitsInv
  BY DEF Init, StatusInv, WaitsInv, WaitsOf, Before, Polls
<1>4. PassedInv
  BY BuildShape DEF Init, PassedInv, Ending
<1>5. QED
  BY <1>1, <1>2, <1>3, <1>4 DEF IInv

\* The types are preserved.
LEMMA TypeStep == TypeOK /\ [Next]_vars => TypeOK'
<1> SUFFICES ASSUME TypeOK, [Next]_vars PROVE TypeOK'
  OBVIOUS
<1> USE BuildShape DEF Stages, scanVars
<1>1. CASE StartRefused \/ StartAccepted \/ CloneFails
  BY <1>1 DEF TypeOK, StartRefused, StartAccepted, CloneFails, MainPC, Status, Ended, ctxVars
<1>2. CASE CloneDone
  BY <1>2 DEF TypeOK, CloneDone, MainPC, Status, Ended, ctxVars
<1>3. CASE LaunchStage
  BY <1>3 DEF TypeOK, LaunchStage, MainPC, Status, StepPC, ctxVars
<1>4. CASE StepsReturned \/ Unregister
  BY <1>4 DEF TypeOK, StepsReturned, Unregister, MainPC, StepsOf, ctxVars
<1>5. ASSUME NEW s \in Steps, CollectJob(s) PROVE TypeOK'
  BY <1>5 DEF TypeOK, CollectJob, MainPC, ctxVars
<1>6. CASE CollectedAll
  BY <1>6 DEF TypeOK, CollectedAll, MainPC, Status, Ended, ctxVars
<1>7. CASE WriteStageRow
  BY <1>7 DEF TypeOK, WriteStageRow, MainPC, ctxVars
<1>8. CASE SweepStage
  <2>1. db' \in [build : Status, stage : [Stages -> Status], step : [Steps -> Status]]
    BY <1>8 DEF TypeOK, SweepStage, Closed, Status, Ended
  <2>2. cur' \in Stages /\ main' \in MainPC /\ build' \in Status
    BY <1>8 DEF TypeOK, SweepStage, MainPC, MoreStages
  <2>3. UNCHANGED <<left, stage, ctx, ctl, step, pc, unread, unmet, runner, writers>>
    BY <1>8 DEF SweepStage, ctxVars
  <2>4. QED
    BY <2>1, <2>2, <2>3 DEF TypeOK
<1>9. CASE WriteBuildRow \/ SweepBuild
  <2>1. CASE WriteBuildRow
    BY <2>1 DEF TypeOK, WriteBuildRow, MainPC, ctxVars
  <2>2. CASE SweepBuild
    <3>1. db' \in [build : Status, stage : [Stages -> Status], step : [Steps -> Status]]
      BY <2>2 DEF TypeOK, SweepBuild, Closed, Status, Ended
    <3>2. QED
      BY <2>2, <3>1 DEF TypeOK, SweepBuild, MainPC, ctxVars
  <2>3. QED
    BY <1>9, <2>1, <2>2
<1>10. ASSUME NEW s \in Steps, StepNext(s) PROVE TypeOK'
  <2>1. pc' \in [Steps -> StepPC] /\ step' \in [Steps -> Status]
    BY <1>10, StepFrame DEF TypeOK
  <2>2. runner' \in [Steps -> RunnerPC]
    BY <1>10, StepFrame DEF TypeOK
  <2>3. writers' \subseteq Steps
    BY <1>10, StepFrame
  <2>4. unread' \in [Steps -> SUBSET Names] /\ unmet' \in [Steps -> SUBSET Names]
    BY <1>10, StepFrame DEF TypeOK
  <2>5. UNCHANGED <<main, cur, left, build, stage, ctx, ctl, db>>
    BY <1>10, StepFrame DEF mainVars, ctxVars
  <2>6. QED
    BY <2>1, <2>2, <2>3, <2>4, <2>5 DEF TypeOK
<1>11. ASSUME NEW s \in Steps, RunnerNext(s) PROVE TypeOK'
  BY <1>11, RunnerFrame DEF TypeOK, mainVars, ctxVars, scanVars
<1>12. ASSUME NEW s \in Steps, UpdateStep(s) PROVE TypeOK'
  <2>1. db' \in [build : Status, stage : [Stages -> Status], step : [Steps -> Status]]
    BY <1>12 DEF TypeOK, UpdateStep
  <2>2. QED
    BY <1>12, <2>1 DEF TypeOK, UpdateStep, mainVars, ctxVars
<1>13. CASE Cancel \/ Stop \/ Deadline \/ UNCHANGED vars
  BY <1>13 DEF TypeOK, Cancel, Stop, Deadline, vars, mainVars, ctxVars
<1>14. QED
  BY <1>1, <1>2, <1>3, <1>4, <1>5, <1>6, <1>7, <1>8, <1>9, <1>10, <1>11, <1>12, <1>13
     DEF Next, MainNext

\* A goroutine of a step that moves belongs to the stage runStage waits for.
LEMMA StepWhileWaiting ==
  ASSUME TypeOK, StageInv, NEW s \in Steps, StepNext(s)
  PROVE  main = "wait" /\ StageOf[s] = cur
<1>1. pc[s] \notin {"idle", "done"}
  BY StepFrame
<1>2. StageOf[s] \in Nat /\ cur \in Nat
  BY BuildShape DEF TypeOK, Stages
<1>3. QED
  BY <1>1, <1>2 DEF TypeOK, StageInv, MainPC, Ending

\* Where the goroutines stand, stage by stage.
LEMMA StageStep == TypeOK /\ StageInv /\ [Next]_vars => StageInv'
<1> SUFFICES ASSUME TypeOK, StageInv, [Next]_vars PROVE StageInv'
  OBVIOUS
<1>1. cur \in Nat /\ \A s \in Steps : StageOf[s] \in Nat
  BY BuildShape DEF TypeOK, Stages
<1>2. CASE StartRefused \/ StartAccepted \/ CloneFails \/ CloneDone
  BY <1>1, <1>2 DEF StageInv, StartRefused, StartAccepted, CloneFails, CloneDone, Ending
<1>3. CASE LaunchStage
  BY <1>1, <1>3 DEF TypeOK, StageInv, LaunchStage, StepsOf, Ending
<1>4. CASE StepsReturned
  BY <1>1, <1>4 DEF StageInv, StepsReturned, AllReturned, StepsOf, Ending
<1>5. ASSUME NEW s \in Steps, CollectJob(s) PROVE StageInv'
  BY <1>1, <1>5 DEF StageInv, CollectJob, Ending
<1>6. CASE CollectedAll \/ WriteStageRow
  BY <1>1, <1>6 DEF StageInv, CollectedAll, WriteStageRow, Ending
<1>7. CASE SweepStage
  <2>1. main = "stageSweep" /\ pc' = pc
    BY <1>7 DEF SweepStage
  <2>2. \/ main' = "launch" /\ cur' = cur + 1
        \/ main' = "buildRow" /\ cur' = cur
    BY <1>7 DEF SweepStage
  <2>3. QED
    BY <1>1, <2>1, <2>2 DEF StageInv, Ending
<1>8. CASE WriteBuildRow \/ SweepBuild \/ Unregister
  BY <1>1, <1>8 DEF StageInv, WriteBuildRow, SweepBuild, Unregister, Ending
<1>9. ASSUME NEW s \in Steps, StepNext(s) PROVE StageInv'
  <2>1. main = "wait" /\ StageOf[s] = cur /\ main' = main /\ cur' = cur
    BY <1>9, StepWhileWaiting, StepFrame DEF mainVars
  <2>2. \A t \in Steps : t # s => pc'[t] = pc[t]
    BY <1>9, StepFrame DEF TypeOK
  <2>3. QED
    BY <1>1, <2>1, <2>2 DEF StageInv, Ending
<1>10. ASSUME NEW s \in Steps, RunnerNext(s) PROVE StageInv'
  BY <1>10, RunnerFrame DEF StageInv, mainVars
<1>11. CASE Cancel \/ Stop \/ Deadline \/ (\E s \in Steps : UpdateStep(s)) \/ UNCHANGED vars
  BY <1>11, ContextFrame DEF StageInv, mainVars
<1>12. QED
  BY <1>2, <1>3, <1>4, <1>5, <1>6, <1>7, <1>8, <1>9, <1>10, <1>11 DEF Next, MainNext

\* While the context is not done, neither the poll loop nor a runner changes the status
\* of a step that has ended.
LEMMA EndedStep ==
  ASSUME TypeOK, StageInv, StatusInv, [Next]_vars, ctx # "done",
         NEW s \in Steps, step[s] \in Ended
  PROVE  step'[s] = step[s]
<1>1. /\ pc[s] \in Polls \cup {"exit", "done"}
      /\ runner[s] \in {"none", "reported"}
  BY DEF TypeOK, StatusInv, Before, Polls, StepPC, RunnerPC, Ended
<1>2. CASE MainNext
  <2>1. main = "clone" => pc[s] = "idle"
    BY BuildShape DEF StageInv, TypeOK, Stages
  <2>2. QED
    BY <1>1, <1>2, <2>1, MainFrame DEF Polls
<1>3. ASSUME NEW t \in Steps, StepNext(t) PROVE step'[s] = step[s]
  <2>1. CASE t # s
    BY <1>3, <2>1, StepFrame DEF TypeOK
  <2>2. CASE t = s
    BY <1>1, <1>3, <2>2
       DEF StepNext, ResolveWaits, WaitHead, WaitStopped, ScanWaits, WaitFailed, WaitRead,
           WaitScanned, Dispatch, PutJob, PutRefused, PollHead, PollStopped, PollAgain,
           StepExit, MoveStep, Polls
  <2>3. QED
    BY <2>1, <2>2
<1>4. ASSUME NEW t \in Steps, RunnerNext(t) PROVE step'[s] = step[s]
  <2>1. CASE t # s
    BY <1>4, <2>1, RunnerFrame DEF TypeOK
  <2>2. CASE t = s
    BY <1>1, <1>4, <2>2 DEF RunnerNext, PullJob, ReportRunning, ReportEnd
  <2>3. QED
    BY <2>1, <2>2
<1>5. CASE Cancel \/ Stop \/ Deadline \/ (\E t \in Steps : UpdateStep(t)) \/ UNCHANGED vars
  BY <1>5, ContextFrame
<1>6. QED
  BY <1>2, <1>3, <1>4, <1>5 DEF Next

\* Statuses, goroutines and runners keep in step while the context is not done.
LEMMA StatusStep == TypeOK /\ StageInv /\ StatusInv /\ [Next]_vars => StatusInv'
<1> SUFFICES ASSUME TypeOK, StageInv, StatusInv, [Next]_vars PROVE StatusInv'
  OBVIOUS
<1>1. CASE MainNext
  <2>1. CASE CloneDone
    <3>1. \A s \in Steps : pc[s] = "idle"
      BY <2>1, BuildShape DEF CloneDone, StageInv, TypeOK, Stages
    <3>2. QED
      BY <2>1, <3>1 DEF CloneDone, StatusInv, Before, Polls, ctxVars
  <2>2. CASE LaunchStage
    <3>1. \A s \in StepsOf(cur) : pc[s] = "idle"
      BY <2>2 DEF LaunchStage, StageInv, StepsOf
    <3>2. QED
      BY <2>2, <3>1 DEF LaunchStage, StatusInv, TypeOK, StepsOf, Before, Polls, ctxVars
  <2>3. CASE main \notin {"clone", "launch"}
    BY <1>1, <2>3, MainFrame DEF StatusInv
  <2>4. CASE CloneFails
    BY <2>4 DEF CloneFails, StatusInv, ctxVars
  <2>5. QED
    BY <1>1, <2>1, <2>2, <2>3, <2>4
       DEF MainNext, StartRefused, StartAccepted, StepsReturned, CollectJob, CollectedAll,
           WriteStageRow, SweepStage, WriteBuildRow, SweepBuild, Unregister
<1>2. ASSUME NEW s \in Steps, StepNext(s) PROVE StatusInv'
  <2>1. ctx' = ctx /\ \A t \in Steps \ {s} :
          pc'[t] = pc[t] /\ step'[t] = step[t] /\ runner'[t] = runner[t]
    BY <1>2, StepFrame DEF TypeOK, ctxVars
  <2> SUFFICES ASSUME ctx # "done"
               PROVE  /\ pc'[s] \in Before => step'[s] = "pending" /\ runner'[s] = "none"
                      /\ pc'[s] = "put" => step'[s] = "preparation" /\ runner'[s] = "none"
                      /\ pc'[s] \in Polls =>
                           \/ runner'[s] \in {"queued", "pulled"} /\ step'[s] = "preparation"
                           \/ runner'[s] = "running" /\ step'[s] = "running"
                           \/ runner'[s] = "reported" /\ step'[s] \in Ended
                      /\ pc'[s] \in {"exit", "done"} =>
                           step'[s] \in Ended /\ runner'[s] \in {"none", "reported"}
    BY <2>1 DEF StatusInv
  <2>2. CASE ResolveWaits(s) \/ WaitHead(s) \/ ScanWaits(s) \/ WaitRead(s) \/ WaitScanned(s)
    BY <2>2 DEF ResolveWaits, WaitHead, ScanWaits, WaitRead, WaitScanned, FailStep, MoveStep,
                TypeOK, StatusInv,
                Before, Polls, Ended
  <2>3. CASE WaitStopped(s) \/ PutRefused(s) \/ PollStopped(s)
    BY <2>3 DEF WaitStopped, PutRefused, PollStopped, FailStep, TypeOK, StatusInv, Before,
                Polls, Ended
  <2>4. CASE WaitFailed(s)
    <3>1. PICK w \in unread[s] : Stops(w) /\ FailStep(s, step[w])
      BY <2>4 DEF WaitFailed
    <3>2. pc[s] = "scan" /\ step[w] \in Ended
      BY <2>4, <3>1 DEF WaitFailed, Stops, Ended
    <3>3. QED
      BY <3>1, <3>2 DEF FailStep, TypeOK, StatusInv, Before, Polls
  <2>5. CASE Dispatch(s) \/ PutJob(s)
    BY <2>5 DEF Dispatch, PutJob, TypeOK, StatusInv, Before, Polls, Ended
  <2>6. CASE PollHead(s) \/ PollAgain(s)
    BY <2>6 DEF PollHead, PollAgain, MoveStep, TypeOK, StatusInv, Before, Polls, Ended
  <2>7. CASE StepExit(s)
    BY <2>7 DEF StepExit, TypeOK, StatusInv, Before, Polls, Ended
  <2>8. QED
    BY <1>2, <2>2, <2>3, <2>4, <2>5, <2>6, <2>7 DEF StepNext
<1>3. ASSUME NEW s \in Steps, RunnerNext(s) PROVE StatusInv'
  <2>1. ctx' = ctx /\ pc' = pc /\ \A t \in Steps \ {s} :
          step'[t] = step[t] /\ runner'[t] = runner[t]
    BY <1>3, RunnerFrame DEF TypeOK, ctxVars
  <2> SUFFICES ASSUME ctx # "done"
               PROVE  /\ pc[s] \in Polls
                      /\ \/ runner'[s] \in {"queued", "pulled"} /\ step'[s] = "preparation"
                         \/ runner'[s] = "running" /\ step'[s] = "running"
                         \/ runner'[s] = "reported" /\ step'[s] \in Ended
    BY <2>1 DEF StatusInv, Before, Polls
  <2>2. runner[s] \in {"queued", "pulled", "running"}
    BY <1>3 DEF RunnerNext, PullJob, ReportRunning, ReportEnd
  <2>3. pc[s] \in Polls
    BY <2>2 DEF TypeOK, StatusInv, StepPC, Before, Polls
  <2>4. Registered
    BY <2>3 DEF Registered, StageInv, Ending, Polls
  <2>5. CASE PullJob(s)
    BY <2>3, <2>5 DEF PullJob, TypeOK, StatusInv, Ended
  <2>6. CASE ReportRunning(s)
    BY <2>3, <2>4, <2>6 DEF ReportRunning, Update, TypeOK
  <2>7. CASE ReportEnd(s)
    BY <2>3, <2>4, <2>7 DEF ReportEnd, Update, TypeOK
  <2>8. QED
    BY <1>3, <2>3, <2>5, <2>6, <2>7 DEF RunnerNext
<1>4. CASE Cancel \/ Stop \/ Deadline \/ (\E s \in Steps : UpdateStep(s)) \/ UNCHANGED vars
  BY <1>4, ContextFrame DEF StatusInv
<1>5. QED
  BY <1>1, <1>2, <1>3, <1>4 DEF Next

\* A context that is not done now was not done before.
LEMMA ContextStaysDone ==
  ASSUME TypeOK, [Next]_vars, ctx' # "done"
  PROVE  ctx # "done"
<1>1. CASE MainNext
  BY <1>1, MainFrame
<1>2. ASSUME NEW s \in Steps, StepNext(s) \/ RunnerNext(s) PROVE ctx' = ctx
  BY <1>2, StepFrame, RunnerFrame DEF ctxVars
<1>3. CASE Cancel \/ Stop \/ Deadline \/ (\E s \in Steps : UpdateStep(s)) \/ UNCHANGED vars
  BY <1>3, ContextFrame
<1>4. QED
  BY <1>1, <1>2, <1>3 DEF Next

\* What has passed stays so while the context is not done.
LEMMA PassedStays ==
  ASSUME TypeOK, StageInv, StatusInv, [Next]_vars, ctx # "done",
         NEW s \in Steps, Passed(s)
  PROVE  Passed(s)'
<1>1. step[s] \in Ended
  BY DEF Passed, Ended
<1>2. step'[s] = step[s]
  BY <1>1, EndedStep
<1>3. QED
  BY <1>2 DEF Passed

\* A goroutine goes past its waits only when they have passed.
LEMMA WaitsStep == TypeOK /\ StageInv /\ StatusInv /\ WaitsInv /\ [Next]_vars => WaitsInv'
<1> SUFFICES ASSUME TypeOK, StageInv, StatusInv, WaitsInv, [Next]_vars,
                    NEW s \in Steps
             PROVE  WaitsOf(s)'
  BY DEF WaitsInv
<1>1. BadWait(s)' = BadWait(s) /\ (~ BadWait(s) => Waits[s] \subseteq Steps)
  BY DEF BadWait, StepsOf
<1>2. \A w \in Steps : ctx' # "done" /\ Passed(w) => Passed(w)'
  BY ContextStaysDone, PassedStays
<1>3. WaitsOf(s) /\ (ctx' # "done" => ctx # "done")
  BY ContextStaysDone DEF WaitsInv
<1>4. ASSUME pc'[s] \in {pc[s], "start", "exit", "done"},
             runner'[s] = runner[s] \/ runner[s] # "none",
             unread'[s] = unread[s], unmet'[s] = unmet[s]
      PROVE  WaitsOf(s)'
  <2>1. CASE pc'[s] = pc[s]
    BY <1>1, <1>2, <1>3, <1>4, <2>1 DEF WaitsOf
  <2>2. CASE pc'[s] \in {"start", "exit", "done"}
    BY <1>2, <1>3, <1>4, <2>2 DEF WaitsOf, Polls
  <2>3. QED
    BY <1>4, <2>1, <2>2
<1>5. CASE MainNext
  <2>1. UNCHANGED <<runner, unread, unmet>>
    BY <1>5, MainFrame DEF scanVars
  <2>2. pc'[s] \in {pc[s], "start"}
    <3>1. CASE LaunchStage
      BY <3>1 DEF LaunchStage, TypeOK
    <3>2. CASE main # "launch"
      BY <1>5, <3>2, MainFrame
    <3>3. QED
      BY <1>5, <3>1, <3>2
         DEF MainNext, StartRefused, StartAccepted, CloneFails, CloneDone, StepsReturned,
             CollectJob, CollectedAll, WriteStageRow, SweepStage, WriteBuildRow, SweepBuild,
             Unregister
  <2>3. QED
    BY <1>4, <2>1, <2>2
<1>6. ASSUME NEW t \in Steps, StepNext(t), t # s PROVE WaitsOf(s)'
  BY <1>4, <1>6, StepFrame DEF TypeOK
<1>7. CASE StepNext(s)
  <2>1. CASE ResolveWaits(s)
    BY <1>1, <1>2, <1>3, <2>1
       DEF ResolveWaits, FailStep, MoveStep, TypeOK, WaitsOf, Polls, StatusInv, Before
  <2>2. CASE WaitHead(s)
    BY <1>1, <1>2, <1>3, <2>2 DEF WaitHead, MoveStep, TypeOK, WaitsOf, Polls, ctxVars
  <2>3. CASE ScanWaits(s)
    BY <1>1, <1>2, <1>3, <2>3 DEF ScanWaits, TypeOK, WaitsOf, Polls
  <2>4. CASE WaitRead(s)
    <3>1. PICK w \in unread[s] :
            /\ unread' = [unread EXCEPT ![s] = @ \ {w}]
            /\ unmet' = [unmet EXCEPT ![s] = IF Passed(w) THEN @ ELSE @ \cup {w}]
      BY <2>4 DEF WaitRead
    <3>2. pc[s] = "scan" /\ UNCHANGED <<ctx, step, pc, runner>>
      BY <2>4 DEF WaitRead, ctxVars
    <3>3. /\ unread'[s] = unread[s] \ {w}
          /\ unmet'[s] = IF Passed(w) THEN unmet[s] ELSE unmet[s] \cup {w}
      BY <3>1 DEF TypeOK
    <3>4. \A v : Passed(v)' = Passed(v)
      BY <3>2 DEF Passed
    <3>5. QED
      BY <1>1, <1>3, <3>2, <3>3, <3>4 DEF WaitsOf, Polls
  <2>5. CASE WaitScanned(s)
    <3>1. /\ pc[s] = "scan" /\ unread[s] = {}
          /\ UNCHANGED <<ctx, step, runner, unread, unmet>>
          /\ pc'[s] = IF unmet[s] = {} THEN "dispatch" ELSE "waitHead"
      BY <2>5 DEF WaitScanned, MoveStep, TypeOK, ctxVars, scanVars
    <3>2. \A v : Passed(v)' = Passed(v)
      BY <3>1 DEF Passed
    <3>3. QED
      BY <1>1, <1>3, <3>1, <3>2 DEF WaitsOf, Polls
  <2>6. CASE WaitStopped(s) \/ WaitFailed(s) \/ PutRefused(s) \/ PollStopped(s) \/ StepExit(s)
    <3>1. pc'[s] \in {"exit", "done"} /\ UNCHANGED <<runner, unread, unmet>>
      BY <2>6 DEF WaitStopped, WaitFailed, PutRefused, PollStopped, StepExit, FailStep, TypeOK,
                  scanVars
    <3>2. QED
      BY <1>4, <3>1
  <2>7. CASE Dispatch(s) \/ PutJob(s) \/ PollHead(s) \/ PollAgain(s)
    <3>1. /\ pc[s] \in {"dispatch", "put"} \cup Polls
          /\ pc'[s] \in {"put", "exit"} \cup Polls
          /\ ctx' = ctx
      BY <2>7 DEF Dispatch, PutJob, PollHead, PollAgain, MoveStep, TypeOK, Polls, ctxVars
    <3>2. QED
      BY <1>1, <1>2, <1>3, <3>1 DEF WaitsOf, Polls
  <2>8. QED
    BY <1>7, <2>1, <2>2, <2>3, <2>4, <2>5, <2>6, <2>7 DEF StepNext
<1>8. ASSUME NEW t \in Steps, RunnerNext(t) PROVE WaitsOf(s)'
  <2>1. runner[t] # "none"
    BY <1>8 DEF RunnerNext, PullJob, ReportRunning, ReportEnd
  <2>2. UNCHANGED <<pc, unread, unmet>> /\ (t # s => runner'[s] = runner[s])
    BY <1>8, RunnerFrame DEF TypeOK, scanVars
  <2>3. QED
    BY <1>4, <2>1, <2>2
<1>9. CASE Cancel \/ Stop \/ Deadline \/ (\E t \in Steps : UpdateStep(t)) \/ UNCHANGED vars
  BY <1>4, <1>9, ContextFrame DEF scanVars
<1>10. QED
  BY <1>5, <1>6, <1>7, <1>8, <1>9 DEF Next

\* What runStage and run have seen pass has passed.
LEMMA PassedStep ==
  TypeOK /\ StageInv /\ StatusInv /\ PassedInv /\ [Next]_vars => PassedInv'
<1> SUFFICES ASSUME TypeOK, StageInv, StatusInv, PassedInv, [Next]_vars, ctx' # "done"
             PROVE  PassedInv'
  BY DEF PassedInv
<1>1. ctx # "done"
  BY ContextStaysDone
<1>2. \A s \in Steps : Passed(s) => Passed(s)'
  BY <1>1, PassedStays
<1>3. cur \in Nat /\ NStages \in Nat /\ \A s \in Steps : StageOf[s] \in 1 .. NStages
  BY BuildShape DEF TypeOK, Stages
<1>4. \A s \in Steps : pc[s] = "done" /\ ~ Stops(s) => Passed(s)
  BY <1>1 DEF StatusInv, Stops, Passed, Ended
<1>5. CASE StartRefused \/ StartAccepted \/ CloneFails \/ CloneDone
  <2>1. cur' = cur /\ cur = 1 /\ main' \notin {"collect", "stageRow", "stageSweep"}
    BY <1>5 DEF StageInv, StartRefused, StartAccepted, CloneFails, CloneDone
  <2>2. main' \in Ending => build' # "ok"
    BY <1>5 DEF StartRefused, StartAccepted, CloneFails, CloneDone, Ending
  <2>3. QED
    BY <1>3, <2>1, <2>2 DEF PassedInv
<1>6. CASE LaunchStage
  BY <1>1, <1>2, <1>6 DEF LaunchStage, PassedInv, Ending
<1>7. CASE StepsReturned
  BY <1>1, <1>2, <1>7 DEF StepsReturned, PassedInv, StepsOf, Ending
<1>8. ASSUME NEW s \in Steps, CollectJob(s) PROVE PassedInv'
  <2>1. main = "collect" /\ s \in left /\ UNCHANGED <<cur, build, step, pc>>
    BY <1>8 DEF CollectJob
  <2>2. CASE Stops(s)
    <3>1. main' = "stageRow" /\ stage'[cur] = step[s] /\ step[s] # "ok"
      BY <1>8, <2>2 DEF CollectJob, Stops, TypeOK
    <3>2. QED
      BY <1>1, <1>2, <2>1, <3>1 DEF PassedInv, Ending
  <2>3. CASE ~ Stops(s)
    <3>1. main' = "collect" /\ left' = left \ {s}
      BY <1>8, <2>1, <2>3 DEF CollectJob
    <3>2. s \in StepsOf(cur) => Passed(s)
      BY <1>4, <2>1, <2>3 DEF StageInv, StepsOf
    <3>3. QED
      BY <1>1, <1>2, <2>1, <3>1, <3>2 DEF PassedInv, StepsOf, Ending
  <2>4. QED
    BY <2>2, <2>3
<1>9. CASE CollectedAll
  BY <1>1, <1>2, <1>9 DEF CollectedAll, PassedInv, StepsOf, Ending
<1>10. CASE WriteStageRow
  BY <1>1, <1>2, <1>10 DEF WriteStageRow, PassedInv, StepsOf, Ending
<1>11. CASE SweepStage
  <2>1. main = "stageSweep" /\ UNCHANGED <<pc, step>>
    BY <1>11 DEF SweepStage
  <2>2. CASE stage[cur] = "ok" /\ MoreStages
    <3>1. main' = "launch" /\ cur' = cur + 1
      BY <1>11, <2>2 DEF SweepStage
    <3>2. \A s \in Steps : StageOf[s] < cur + 1 => Passed(s)
      BY <1>1, <1>3, <2>1, <2>2 DEF PassedInv, StepsOf
    <3>3. QED
      BY <1>2, <3>1, <3>2 DEF PassedInv, Ending
  <2>3. CASE ~ (stage[cur] = "ok" /\ MoreStages)
    <3>1. main' = "buildRow" /\ cur' = cur /\ build' = stage[cur]
      BY <1>11, <2>3 DEF SweepStage
    <3>2. stage[cur] = "ok" => \A s \in Steps : pc[s] = "done" /\ Passed(s)
      BY <1>1, <1>3, <2>1, <2>3 DEF PassedInv, StageInv, MoreStages, StepsOf
    <3>3. QED
      BY <1>1, <1>2, <2>1, <3>1, <3>2 DEF PassedInv, Ending
  <2>4. QED
    BY <2>2, <2>3
<1>12. CASE WriteBuildRow \/ SweepBuild \/ Unregister
  BY <1>1, <1>2, <1>12 DEF WriteBuildRow, SweepBuild, Unregister, PassedInv, Ending
<1>13. ASSUME NEW s \in Steps, StepNext(s) PROVE PassedInv'
  <2>1. main = "wait" /\ main' = main /\ cur' = cur
    BY <1>13, StepWhileWaiting, StepFrame DEF mainVars
  <2>2. QED
    BY <1>1, <1>2, <2>1 DEF PassedInv, Ending
<1>14. ASSUME NEW s \in Steps, RunnerNext(s) PROVE PassedInv'
  <2>1. UNCHANGED <<main, cur, left, build, stage, pc>>
    BY <1>14, RunnerFrame DEF mainVars
  <2>2. QED
    BY <1>1, <1>2, <2>1 DEF PassedInv, StepsOf
<1>15. CASE Cancel \/ Stop \/ Deadline \/ (\E s \in Steps : UpdateStep(s)) \/ UNCHANGED vars
  <2>1. UNCHANGED <<main, cur, left, build, stage, pc>>
    BY <1>15, ContextFrame DEF mainVars
  <2>2. QED
    BY <1>1, <1>2, <2>1 DEF PassedInv, StepsOf
<1>16. QED
  BY <1>5, <1>6, <1>7, <1>8, <1>9, <1>10, <1>11, <1>12, <1>13, <1>14, <1>15
     DEF Next, MainNext

-----------------------------------------------------------------------------
(* The rows, while the context is not done.                                *)

Swept == main \in {"unregister", "gone"}

\* The row of a step follows its status as long as a goroutine of updateStep is left.
StepRow(s) ==
  /\ pc[s] = "idle" => s \notin writers /\ db.step[s] = IF Swept THEN "cancel" ELSE "pending"
  /\ pc[s] = "done" => s \in writers \/ db.step[s] = step[s]

\* The row of a stage that is over, has not begun, or is to be swept.
StageRow(k) ==
  /\ ~ Swept /\ (k < cur \/ (k = cur /\ main = "stageSweep"))
       => db.stage[k] = stage[k] /\ stage[k] \in Ended
  /\ ~ Swept /\ (k > cur \/ (k = cur /\ main \in {"start", "clone", "launch"}))
       => db.stage[k] = "pending" /\ stage[k] = "pending"
  /\ main \in {"buildRow", "buildSweep"} => db.stage[k] = stage[k]
  /\ Swept => db.stage[k] = Closed(stage[k])

RowsInv ==
  ctx # "done" =>
    /\ \A s \in Steps : StepRow(s)
    /\ \A k \in Stages : StageRow(k)
    /\ main = "stageRow" => stage[cur] \in Ended
    /\ main = "buildSweep" \/ Swept => db.build = build

\* The rows of a build that has not begun.
LEMMA InitRows == Init => RowsInv
BY BuildShape DEF Init, RowsInv, Swept, StepRow, StageRow, Stages

\* What is written of the build and of the stages leaves the steps alone, and the
\* reverse.
LEMMA MainRows ==
  ASSUME TypeOK, MainNext, ctx # "done"
  PROVE  /\ main \notin {"stageSweep", "buildSweep"} => db'.step = db.step
         /\ main \notin {"launch", "stageRow", "buildSweep"} => db'.stage = db.stage
         /\ main \notin {"clone", "buildRow"} => db'.build = db.build
BY DEF TypeOK, DbWorks, MainNext, StartRefused, StartAccepted, CloneFails, CloneDone,
       LaunchStage, StepsReturned, CollectJob, CollectedAll, WriteStageRow, SweepStage,
       WriteBuildRow, SweepBuild, Unregister

\* No step of anybody leaves a row of a step behind.
LEMMA StepRowsStep ==
  ASSUME IInv, RowsInv, [Next]_vars, ctx # "done", NEW s \in Steps
  PROVE  StepRow(s)'
<1>0. TypeOK /\ StageInv /\ StatusInv /\ StepRow(s) /\ StageOf[s] \in Nat /\ cur \in Nat
  BY BuildShape DEF IInv, RowsInv, TypeOK, Stages
<1>1. pc[s] = "idle" => runner[s] = "none"
  BY <1>0 DEF StatusInv, Before
<1>2. pc[s] = "done" => step[s] \in Ended /\ step'[s] = step[s]
  BY <1>0, EndedStep DEF StatusInv
<1>3. CASE MainNext
  <2>1. writers' = writers
    BY <1>0, <1>3, MainFrame
  <2>2. CASE LaunchStage
    <3>1. db'.step = db.step /\ ~ Swept /\ ~ Swept'
      BY <1>0, <1>3, <2>2, MainRows DEF LaunchStage, Swept
    <3>2. pc'[s] = pc[s] \/ pc'[s] = "start"
      BY <1>0, <2>2 DEF TypeOK, LaunchStage
    <3>3. QED
      BY <1>0, <1>2, <2>1, <3>1, <3>2 DEF StepRow
  <2>3. CASE SweepStage
    <3>1. pc' = pc /\ ~ Swept /\ ~ Swept' /\ main = "stageSweep"
      BY <2>3 DEF SweepStage, Swept
    <3>2. db'.step[s] = IF s \in StepsOf(cur) THEN Closed(db.step[s]) ELSE db.step[s]
      BY <1>0, <2>3 DEF SweepStage, DbWorks, TypeOK
    <3>3. s \in StepsOf(cur) => pc[s] = "done"
      BY <1>0, <3>1 DEF StageInv, StepsOf
    <3>4. QED
      BY <1>0, <1>2, <2>1, <3>1, <3>2, <3>3 DEF StepRow, Closed
  <2>4. CASE SweepBuild
    <3>1. pc' = pc /\ ~ Swept /\ Swept'
      BY <2>4 DEF SweepBuild, Swept
    <3>2. db'.step[s] = Closed(db.step[s])
      BY <1>0, <2>4 DEF SweepBuild, DbWorks, TypeOK
    <3>3. QED
      BY <1>0, <1>2, <2>1, <3>1, <3>2 DEF StepRow, Closed, Ended
  <2>5. CASE ~ (LaunchStage \/ SweepStage \/ SweepBuild)
    <3>1. /\ main \notin {"launch", "stageSweep", "buildSweep"}
          /\ Swept' <=> Swept
      BY <1>3, <2>5
         DEF MainNext, StartRefused, StartAccepted, CloneFails, CloneDone,
             StepsReturned, CollectJob, CollectedAll, WriteStageRow,
             WriteBuildRow, Unregister, Swept
    <3>2. db'.step = db.step /\ pc' = pc
      BY <1>0, <1>3, <3>1, MainRows, MainFrame
    <3>3. QED
      BY <1>0, <1>2, <2>1, <3>1, <3>2 DEF StepRow
  <2>6. QED
    BY <2>2, <2>3, <2>4, <2>5
<1>4. ASSUME NEW t \in Steps, StepNext(t) PROVE StepRow(s)'
  <2>1. UNCHANGED <<main, db>> /\ pc[t] \notin {"idle", "done"} /\ pc'[t] # "idle"
        /\ (s # t => pc'[s] = pc[s])
    BY <1>0, <1>4, StepFrame DEF mainVars, TypeOK
  <2>2. writers \subseteq writers' /\ writers' \subseteq writers \cup {t}
        /\ (pc'[t] = "done" => t \in writers')
    BY <1>0, <1>4
       DEF TypeOK, StepNext, ResolveWaits, WaitHead, WaitStopped, ScanWaits, WaitFailed, WaitRead,
           WaitScanned, Dispatch, PutJob, PutRefused, PollHead, PollStopped, PollAgain,
           StepExit, MoveStep, FailStep
  <2>3. QED
    BY <1>0, <1>2, <2>1, <2>2 DEF StepRow, Swept
<1>5. ASSUME NEW t \in Steps, RunnerNext(t) PROVE StepRow(s)'
  <2>1. UNCHANGED <<main, db, pc>>
    BY <1>0, <1>5, RunnerFrame DEF mainVars
  <2>2. writers \subseteq writers' /\ writers' \subseteq writers \cup {t} /\ runner[t] # "none"
    BY <1>5 DEF RunnerNext, PullJob, ReportRunning, ReportEnd, Update
  <2>3. QED
    BY <1>0, <1>1, <1>2, <2>1, <2>2 DEF StepRow, Swept
<1>6. ASSUME NEW t \in Steps, UpdateStep(t) PROVE StepRow(s)'
  <2>1. UNCHANGED <<main, pc, step>> /\ writers' \in {writers, writers \ {t}} /\ t \in writers
    BY <1>6 DEF UpdateStep, mainVars
  <2>2. db'.step[s] = IF s = t THEN step[s] ELSE db.step[s]
    BY <1>0, <1>6 DEF UpdateStep, DbWorks, TypeOK
  <2>3. QED
    BY <1>0, <2>1, <2>2 DEF StepRow, Swept
<1>7. CASE Cancel \/ Stop \/ Deadline \/ UNCHANGED vars
  BY <1>0, <1>7 DEF Cancel, Stop, Deadline, vars, mainVars, StepRow, Swept
<1>8. QED
  BY <1>3, <1>4, <1>5, <1>6, <1>7 DEF Next

\* The rows of the stages and of the build, which run() alone writes.
OtherRows ==
  /\ \A k \in Stages : StageRow(k)
  /\ main = "stageRow" => stage[cur] \in Ended
  /\ main = "buildSweep" \/ Swept => db.build = build

\* No step of run() leaves them behind.
LEMMA OtherRowsStep ==
  ASSUME IInv, RowsInv, MainNext, ctx # "done"
  PROVE  OtherRows'
<1>0. TypeOK /\ StageInv /\ OtherRows /\ cur \in Nat /\ Stages \subseteq Nat /\ cur \in Stages
  BY BuildShape DEF IInv, RowsInv, OtherRows, TypeOK, Stages
<1>1. CASE StartRefused \/ StartAccepted \/ CloneFails
  <2>1. UNCHANGED <<cur, stage, db>> /\ main \in {"start", "clone"} /\ main' \in {"clone", "buildRow"}
    BY <1>1 DEF StartRefused, StartAccepted, CloneFails
  <2>2. \A k \in Stages : k >= cur
    BY <1>0, <2>1 DEF StageInv, Stages
  <2>3. ASSUME NEW k \in Stages PROVE db.stage[k] = "pending" /\ stage[k] = "pending"
    <3>1. StageRow(k) /\ k \in Nat /\ k >= cur
      BY <1>0, <2>2 DEF OtherRows
    <3>2. k > cur \/ k = cur
      BY <1>0, <3>1
    <3>3. QED
      BY <2>1, <3>1, <3>2 DEF StageRow, Swept
  <2>4. QED
    BY <1>0, <2>1, <2>2, <2>3 DEF OtherRows, StageRow, Swept
<1>2. CASE CloneDone
  <2>1. /\ cur' = cur /\ db'.stage = db.stage /\ main = "clone" /\ main' = "launch"
        /\ \A k \in Stages : stage'[k] = "pending"
    BY <1>0, <1>2, MainRows DEF CloneDone, MainNext
  <2>2. \A k \in Stages : k >= cur
    BY <1>0, <2>1 DEF StageInv, Stages
  <2>3. QED
    BY <1>0, <2>1, <2>2 DEF OtherRows, StageRow, Swept
<1>3. CASE LaunchStage
  <2>1. cur' = cur /\ main = "launch" /\ main' = "wait"
    BY <1>3 DEF LaunchStage
  <2>2. \A k \in Stages : k # cur => stage'[k] = stage[k] /\ db'.stage[k] = db.stage[k]
    BY <1>0, <1>3 DEF LaunchStage, TypeOK, DbWorks
  <2>3. QED
    BY <1>0, <2>1, <2>2 DEF OtherRows, StageRow, Swept
<1>4. CASE StepsReturned
  BY <1>0, <1>4 DEF StepsReturned, OtherRows, StageRow, Swept
<1>5. ASSUME NEW s \in Steps, CollectJob(s) PROVE OtherRows'
  <2>1. UNCHANGED <<cur, db>> /\ main = "collect" /\ main' \in {"collect", "stageRow"}
    BY <1>5 DEF CollectJob
  <2>2. \A k \in Stages : k # cur => stage'[k] = stage[k]
    BY <1>0, <1>5 DEF CollectJob, TypeOK
  <2>3. main' = "stageRow" => stage'[cur] \in Ended
    BY <1>0, <1>5 DEF CollectJob, TypeOK, Stops, Ended
  <2>4. ASSUME NEW k \in Stages PROVE StageRow(k)'
    <3>1. StageRow(k) /\ k \in Nat
      BY <1>0 DEF OtherRows
    <3>2. CASE k = cur
      BY <1>0, <2>1, <3>2 DEF StageRow, Swept
    <3>3. CASE k # cur
      BY <1>0, <2>1, <2>2, <3>1, <3>3 DEF StageRow, Swept
    <3>4. QED
      BY <3>2, <3>3
  <2>5. QED
    BY <2>1, <2>3, <2>4 DEF OtherRows, Swept
<1>6. CASE CollectedAll
  <2>1. UNCHANGED <<cur, db>> /\ main = "collect" /\ main' = "stageRow"
    BY <1>6 DEF CollectedAll
  <2>2. \A k \in Stages : k # cur => stage'[k] = stage[k]
    BY <1>0, <1>6 DEF CollectedAll, TypeOK
  <2>3. stage'[cur] \in Ended
    BY <1>0, <1>6 DEF CollectedAll, TypeOK, Ended
  <2>4. QED
    BY <1>0, <2>1, <2>2, <2>3 DEF OtherRows, StageRow, Swept
<1>7. CASE WriteStageRow
  <2>1. UNCHANGED <<cur, stage>> /\ main = "stageRow" /\ main' = "stageSweep"
    BY <1>7 DEF WriteStageRow
  <2>2. \A k \in Stages : db'.stage[k] = IF k = cur THEN stage[k] ELSE db.stage[k]
    BY <1>0, <1>7 DEF WriteStageRow, TypeOK, DbWorks
  <2>3. stage[cur] \in Ended
    BY <1>0, <2>1 DEF OtherRows
  <2>4. ASSUME NEW k \in Stages PROVE StageRow(k)'
    <3>1. StageRow(k) /\ k \in Nat
      BY <1>0 DEF OtherRows
    <3>2. CASE k = cur
      BY <1>0, <2>1, <2>2, <2>3, <3>2 DEF StageRow, Swept
    <3>3. CASE k # cur
      BY <1>0, <2>1, <2>2, <3>1, <3>3 DEF StageRow, Swept
    <3>4. QED
      BY <3>2, <3>3
  <2>5. QED
    BY <2>1, <2>4 DEF OtherRows, Swept
<1>8. CASE SweepStage
  <2>1. db'.stage = db.stage /\ stage' = stage /\ main = "stageSweep"
    BY <1>0, <1>8, MainRows DEF SweepStage
  <2>2. \A k \in Stages : db.stage[k] = stage[k] /\ (k <= cur => stage[k] \in Ended)
                          /\ (k > cur => stage[k] = "pending")
    <3> SUFFICES ASSUME NEW k \in Stages
                 PROVE  /\ db.stage[k] = stage[k] /\ (k <= cur => stage[k] \in Ended)
                        /\ (k > cur => stage[k] = "pending")
      OBVIOUS
    <3>1. StageRow(k) /\ k \in Nat
      BY <1>0 DEF OtherRows
    <3>2. k < cur \/ k = cur \/ k > cur
      BY <1>0, <3>1
    <3>3. CASE k < cur \/ k = cur
      BY <1>0, <2>1, <3>1, <3>3 DEF StageRow, Swept
    <3>4. CASE k > cur
      BY <1>0, <2>1, <3>1, <3>4 DEF StageRow, Swept
    <3>5. QED
      BY <3>2, <3>3, <3>4
  <2>3. CASE main' = "launch" /\ cur' = cur + 1
    <3>1. \A k \in Stages : k < cur' <=> k <= cur
      BY <1>0, <2>3
    <3>2. QED
      BY <1>0, <2>1, <2>2, <2>3, <3>1 DEF OtherRows, StageRow, Swept
  <2>4. CASE main' = "buildRow" /\ cur' = cur
    BY <1>0, <2>1, <2>2, <2>4 DEF OtherRows, StageRow, Swept
  <2>5. QED
    BY <1>8, <2>3, <2>4 DEF SweepStage
<1>9. CASE WriteBuildRow
  <2>1. UNCHANGED <<cur, stage, build>> /\ main = "buildRow" /\ main' = "buildSweep"
    BY <1>9 DEF WriteBuildRow
  <2>2. db'.stage = db.stage /\ db'.build = build
    BY <1>0, <1>9, MainRows DEF WriteBuildRow, TypeOK, DbWorks
  <2>3. QED
    BY <1>0, <2>1, <2>2 DEF OtherRows, StageRow, Swept
<1>10. CASE SweepBuild
  <2>1. UNCHANGED <<cur, stage, build>> /\ main = "buildSweep" /\ main' = "unregister"
    BY <1>10 DEF SweepBuild
  <2>2. \A k \in Stages : db'.stage[k] = Closed(db.stage[k])
    BY <1>0, <1>10 DEF SweepBuild, TypeOK, DbWorks
  <2>3. db'.build = db.build
    BY <1>0, <2>1, MainRows
  <2>4. QED
    BY <1>0, <2>1, <2>2, <2>3 DEF OtherRows, StageRow, Swept
<1>11. CASE Unregister
  BY <1>0, <1>11 DEF Unregister, OtherRows, StageRow, Swept
<1>12. QED
  BY <1>1, <1>2, <1>3, <1>4, <1>5, <1>6, <1>7, <1>8, <1>9, <1>10, <1>11 DEF MainNext

\* No step of anybody does.
LEMMA RowsStep == IInv /\ RowsInv /\ [Next]_vars => RowsInv'
<1> SUFFICES ASSUME IInv, RowsInv, [Next]_vars, ctx' # "done" PROVE RowsInv'
  BY DEF RowsInv
<1>0. TypeOK /\ ctx # "done" /\ OtherRows
  BY ContextStaysDone DEF IInv, RowsInv, OtherRows
<1>1. \A s \in Steps : StepRow(s)'
  BY <1>0, StepRowsStep
<1>2. CASE MainNext
  BY <1>0, <1>1, <1>2, OtherRowsStep DEF RowsInv, OtherRows
<1>3. CASE ~ MainNext
  <2>1. UNCHANGED mainVars
    BY <1>0, <1>3, StepFrame, RunnerFrame, ContextFrame DEF Next
  <2>2. db'.stage = db.stage /\ db'.build = db.build
    <3>1. ASSUME NEW s \in Steps, UpdateStep(s) PROVE db'.stage = db.stage /\ db'.build = db.build
      BY <1>0, <3>1 DEF UpdateStep, TypeOK
    <3>2. CASE Cancel \/ Stop \/ Deadline \/ UNCHANGED vars
      BY <3>2 DEF Cancel, Stop, Deadline, vars
    <3>3. QED
      BY <1>0, <1>3, <3>1, <3>2, StepFrame, RunnerFrame DEF Next
  <2>3. QED
    BY <1>0, <1>1, <2>1, <2>2 DEF mainVars, RowsInv, OtherRows, StageRow, Swept, Closed
<1>4. QED
  BY <1>2, <1>3

-----------------------------------------------------------------------------
(* Theorems.                                                               *)

\* The inductive invariant holds in every state of every build.
THEOREM Invariance == Spec => []IInv
<1>1. IInv /\ [Next]_vars => IInv'
  BY TypeStep, StageStep, StatusStep, WaitsStep, PassedStep DEF IInv
<1>2. QED
  BY InitIInv, <1>1, PTL DEF Spec

\* The variables have their types in every build, whatever its stages and steps.
THEOREM TypeCorrect == Spec => []TypeOK
<1>1. IInv => TypeOK
  BY DEF IInv
<1>2. QED
  BY Invariance, <1>1, PTL

\* No step of a stage starts before every step goroutine of the stages before it is
\* over and, while the context is alive, has passed: wg.Wait and the early returns of
\* run() keep stages apart.
THEOREM StagesApart == Spec => []StageBarrier
<1>1. IInv => StageBarrier
  <2> SUFFICES ASSUME IInv, NEW s \in Steps, NEW t \in Steps,
                      pc[s] # "idle", StageOf[t] < StageOf[s]
               PROVE  pc[t] = "done" /\ (ctx = "live" => Passed(t))
    BY DEF StageBarrier
  <2>1. cur \in Nat /\ StageOf[s] \in Nat /\ StageOf[t] \in Nat
    BY BuildShape DEF IInv, TypeOK, Stages
  <2>2. StageOf[t] < cur
    BY <2>1 DEF IInv, StageInv
  <2>3. QED
    BY <2>2 DEF IInv, StageInv, PassedInv
<1>2. QED
  BY Invariance, <1>1, PTL

\* A job is handed to the job engine only when all it waits on has passed, although the
\* loop over the waits locks one job at a time.
THEOREM WaitsRespected == Spec => []DispatchAfterWaits
<1>1. IInv => DispatchAfterWaits
  BY DEF IInv, WaitsInv, WaitsOf, DispatchAfterWaits
<1>2. QED
  BY Invariance, <1>1, PTL

\* A build that ends "ok" with a live context ran every one of its steps, and each of
\* them passed.
THEOREM OkIsEarned == Spec => []OkMeansPassed
<1>1. IInv => OkMeansPassed
  BY DEF IInv, PassedInv, OkMeansPassed, Ending
<1>2. QED
  BY Invariance, <1>1, PTL

\* No step of any party changes the status of a step that has ended while the context
\* is alive: neither a runner's report nor the poll loop acting on a status it read.
THEOREM EndIsFinal == Spec => EndedIsFinal
<1>1. IInv /\ [Next]_vars
        => [\A s \in Steps : step[s] \in Ended /\ ctx = "live" => step'[s] = step[s]]_vars
  BY EndedStep DEF IInv
<1>2. QED
  BY Invariance, <1>1, PTL DEF Spec, EndedIsFinal

\* When the last goroutine of an undisturbed build is over its rows say what the memory
\* said: the sweeps of updateStage and updateBuild never have the last word on a step
\* that ended, whatever the order of the goroutines of updateStep.
THEOREM RowsTellTheEnd == Spec => []RowsAgree
<1>1. IInv /\ RowsInv => RowsAgree
  <2> SUFFICES ASSUME IInv, RowsInv, main = "gone", ctx # "done", writers = {}
               PROVE  /\ db.build = build
                      /\ \A k \in Stages : db.stage[k] = Closed(stage[k])
                      /\ \A s \in Steps : db.step[s] = Closed(step[s])
    BY DEF RowsAgree
  <2>1. db.build = build /\ \A k \in Stages : db.stage[k] = Closed(stage[k])
    BY DEF RowsInv, Swept, StageRow
  <2>2. ASSUME NEW s \in Steps PROVE db.step[s] = Closed(step[s])
    <3>1. CASE pc[s] = "idle"
      BY <3>1 DEF IInv, StatusInv, Before, RowsInv, StepRow, Swept, Closed, Ended
    <3>2. CASE pc[s] = "done"
      BY <3>2 DEF IInv, StatusInv, RowsInv, StepRow, Closed
    <3>3. QED
      BY <3>1, <3>2 DEF IInv, StageInv, Ending
  <2>3. QED
    BY <2>1, <2>2
<1>2. QED
  BY Invariance, InitRows, RowsStep, <1>1, PTL DEF Spec
=============================================================================
