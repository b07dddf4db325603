# Gokins in TLA+

Gokins (this repository) is a small CI server in Go: pipelines described in YAML are run as *builds*
by an engine inside the server, which hands the single *steps* to *runners*. This directory holds
TLA+ models of its engine and of the services around it, TLC configurations that check them on small instances, and TLAPS proofs
of what matters most for every instance. `PROJECT.json` lists components, runs, mutants, the source
lines of every definition, findings, hazards and theorems.

## 1. The system

| Component | State | Operations | Talks to |
|---|---|---|---|
| `engine/buildTask.go`, `buildDao.go`, `buildTaskc.go` — one **BuildTask** per build | status of build, stages, steps; a context with a deadline; one goroutine per build and per step; rows of `t_build`, `t_stage`, `t_step`, `t_cmd_line` | `run`, `runStage`, `runStep`, `Cancel`, `stop`, `UpJob`, `UpJobCmd`, `updateBuild/Stage/Step/StepCmd` | JobEngine (Put), BuildEngine (its map), runners (UpJob), database |
| `engine/buildEgn.go` — **BuildEngine** | list of waiting builds, map of running tasks, wake channel | `Put`, `run`, `startBuild`, `Stop`, `Get`, `init` | handlers and timers (Put), BuildTask.run, runners (Get) |
| `engine/jobEgn.go` — **JobEngine** | map of executers (one list of jobs per plugin), map of jobs, `job.ended` | `Put`, `Pull`, `run`, `rmExec`, `Plugins` | runStep (Put), runners (Pull) |
| `engine/runner.go`, `hbtpruner.go` — what a **runner** may call | none of its own | `PullJob`, `CheckCancel`, `Update`, `UpdateCmd`, `PushOutLine`, artifacts | JobEngine, BuildEngine, BuildTask |
| `engine/timermgr.go` — **TimerEngine** | map of timers with their next tick | `refresh`, `resetOne`, `execItem`, `Refresh`, `Delete` | trigger handlers, BuildEngine |
| `engine/mgr.go`, `server/`, `cmd/` — start and shutdown | `comm.Ctx`, ready and installed channels | `Start`, `Run`, signals | everything |
| `service/pipeline.go` — **build records** | rows of versions, builds, stages, steps | `Run`, `ReBuild`, `preBuild`, variable replacement | database, BuildEngine |
| `route/trigger.go`, `route/hook.go`, `service/hook.go` — triggers, webhooks | rows of `t_trigger`, `t_trigger_run` | save, delete, `TriggerTimer`, `TriggerHook`, `TriggerWeb` | TimerEngine, build records |
| `service/user.go`, `perms.go`, `param.go`, `comm/cache.go` — users, permissions, parameters, **cache** | rows and a bolt file of cached values with an expiry | read-through, clear, find-then-insert | handlers |
| `pkg/middleware` — **rate limiter** | a window per client | `Allow`, `cleanup` | handlers |
| `route/*` — the other handlers | none | one or a few statements on the database each | database |
| `route/install.go`, `comm/app.go` — installation | configuration file, `Installed` | `install`, `MarkInstalled` | start |
| `hook/*`, `thirdapi/*`, `bean/thirdbean` | none | translation of requests and answers of four hosting services | webhooks |
| `bean`, `model`, `migrates`, `util` | none | YAML, row types, migrations, helpers | all |

How a build goes through it: a handler, a webhook or a timer makes the records (`preBuild`) and calls
`BuildEngine.Put`. The goroutine of the engine takes it from the list, enters it into the map and
starts `BuildTask.run`. That goroutine walks the stages; for each it starts one goroutine per step,
which waits for the steps it names in `waits`, calls `JobEngine.Put` and then polls the status of its
own step. A runner asks `Pull` for jobs of its plugins, works, and reports through `UpJob`. When all
goroutines of a stage are over, `runStage` decides its status; when the last stage is over, or one
was not ok, `run` writes the rows and the build leaves the map.

Correctness, component by component:

- *BuildTask*: stages do not overlap; a step starts only after its waits; a build is ok only if all of
  its steps passed; a step that has ended stays as it is; the rows end up saying what the memory said;
  the build ends, whatever waits and runners do; a cancelled build is seen as cancelled.
- *BuildEngine*: FIFO, never above the limit, no build lost or started twice, a running build is found.
- *JobEngine*: no job handed out twice, every accepted job handed out, no growth without end, no
  executer removed that a runner is using.
- *TimerEngine*: a timer fires once per tick, never after it has been deleted, always after it was saved.
- *Build records*: numbers of versions rise, what is put into the engine has all of its rows, a row that is
  open belongs to somebody, nothing is built of a deleted pipeline. *Descriptions and variables*: the engine
  refuses nothing that was checked when it was saved, and a name stands for one value.
- *Webhooks*: a delivery builds the commit it is about, on the branch the trigger asks for, and the row of the
  call says what became of it.
- *Cached user*: a copy that counts is the row. *Rate limiter*: never more than twice the limit in one span.
- *Organisations*: one row per member, share and variable; what is listed can be opened.
- *Server*: what is served has its tables and is what the next start finds; the process ends when it should.

Hard behaviour: goroutines that read a status, let go of the lock and act on it; writes to the table
by goroutines nobody waits for; lookups in one map that are stale at the next lock; a context that ends
between any two statements; runners that are slow, silent or late. `PROJECT.json` lists each under
`hazards` at its line.

## 2. Modules

| Module | What it is |
|---|---|
| `BuildTask` | one build: its goroutines, the runner's calls, the context, the rows |
| `BuildEngine` | the list, the map, the goroutine of the engine and those of `startBuild` |
| `BuildPool` | the abstract specification of the scheduler: a bounded FIFO pool |
| `JobEngine` | executers, lists, map of jobs, with the steps and runners that use them |
| `TimerEngine` | the timers and the requests that save and delete triggers |
| `BuildRecords` | the rows of pipelines, versions and builds, statement by statement, and `init()` |
| `Description` | a description between its two checks: names, waits, disabled steps, replacement |
| `BuildVars` | the two loops over the variables of a build, in any order, and the lines they end in |
| `Webhooks` | a call of a trigger from outside, with its row and its build |
| `Hook`, `Github`, `Gitea`, `Gitlab`, `Gitee` | what a git host tells and what the four parsers make of it |
| `Users` | the row of a user, its copy in the cache, readers and writers, logins |
| `RateLimiter` | windows, the clock and the cleanup |
| `Orgs` | permissions, pages and listings, and the handlers that write members, shares and variables |
| `Server` | processes of the server: Run, the web server, installations, migrations |
| `DataLemmas` | least and greatest numbers, appending to a list and taking its front, for the proofs |
| `BuildTaskProofs`, `BuildEngineProofs`, `JobEngineProofs`, `TimerEngineProofs` | the theorems about the engine |
| `BuildRecordsProofs` | the theorems about the rows of versions and builds |
| `InputProofs` | the theorems about descriptions, variables and webhooks |
| `ServicesProofs` | the theorems about `Users`, `RateLimiter`, `Orgs` and `Server` |
| `MCBuildTask`, `MCJobEngine`, `MCTimerEngine`, `MCRecords`, `MCServices` | instances for TLC |

`MCRecords` and `MCServices` hold several modules side by side. Their components do not share variables: `turn`
is chosen at the start, says which one moves, and never changes, so that each is explored from all of its own
initial states and the others stand still.

Definitions called "Mutant of X" are not part of a model: they state how X would look with a plausible
mistake, and each property is shown to fail when X is replaced by it.

### BuildTask

`main` is the position of the goroutine of `run`/`runStage`; `pc[s]` that of `runStep` for step `s`;
`unread[s]` and `unmet[s]` are the local variables of the loop over the waits (`waitln` is the number of
`unmet` and unread names). `build`, `stage`, `step` are the statuses in memory, `db` the rows. `ctx` is
what `taskCtx()` returns: `none` is `comm.Ctx` before the task has its own context, `live`, or `done`.
`ctl` tells a user's `Cancel` (time set) from `stop` (time zero), as the poll loop does. `writers` are
the steps for which a goroutine of `updateStep` has been started and may not have run: such a goroutine
holds the lock of the job while it writes, so one action reads the status and writes the row; several of
one step write the same thing, whichever runs first, so a set is enough.

One action is one critical section or one statement on the database. Every read of a wait is an action
of its own (`WaitRead`), as are the head and the body of both loops, because the context may end in
between. The runner is not part of the repository: it takes a queued job, reports that it runs, and
reports an end once, `cancel` only if `CheckCancel` said so. Left out: command lines, the contents of
jobs, the error and event texts, the clone itself (it succeeds or fails), panics (each goroutine has a
`RecoverLog`), and failures of the database other than those of a dead context.

The three seconds after a user's cancel in the poll loop are abstracted: while `ctl` is `user` the loop
may go round or give up.

### BuildEngine and BuildPool

`loop` is the position of the engine's goroutine with one step per critical section of `run()`:
size of the list, size of the map, front, remove, insert, spawn. `work[b]` follows one build from `Put`
to the end of `startBuild`. The token of `wakeCh` is a Boolean. The ticker may tick at any time.
`BuildTask.run` is one step here: that it ends is `Terminates` of BuildTask, the assumption behind
the fairness of `WorkNext`. `ImplementsPool` maps the list, with the build run() holds after the removal
in front of it, to the abstract queue; the map to the builds being worked on.

### JobEngine

Executers are numbered as they are created, so that an executer that is no longer in the map can still
be held by a `Put`, a `Pull` or an `rmExec`; `execs[p]` is the map. `put[j]` and `target[j]` are the
position and the local variable of `Put`, `pull[r]`, `todo[r]`, `name[r]`, `ex[r]` those of `Pull`.
`stale` holds the executers whose time is more than two minutes old, `Age` lets an executer get old at
any time. A runner may name its plugins in any order.

### TimerEngine

`rows[t]` is the row of a trigger, `Unborn` before its insert and `Gone` after its delete; `tasks[t]` is
its entry in the map, `NoTask` where there is none. `loop` follows the goroutine of the engine: the
query of `refresh()`, one `resetOne` per row it returned (`ls`), then scan after scan. A scan holds the
lock of the map from `StartScan` to `EndScan` while it goes through `todo`, so everything else that
needs the lock waits (`Free`), but the database does not. `deletes[t]` counts the goroutines that
`execItem` has started for a one-shot timer and that have not yet run. `pc[h]`, `on[h]`, `seen[h]` are
position and variables of a request. `Restart` ends the process at any point; the rows stay.

A row has a type (`timer` or another), the flag, and what `Params` says: a kind and a date. `bad` stands
for parameters `resetOne` cannot read and for kinds it does not know; both leave the map alone. Time is
a number. `FirstTick` is the computation of `resetOne`: the position of the saved date in the calendar
unit (`Unit`: minute, hour, day, and the month for both week and month), moved into the current unit,
and one `Step` later if that has passed. Months are of equal length here, and daylight saving is left
out. What `TriggerTimer` does to builds is in the modules above: a firing is one `Put` of BuildEngine
or an error, and its row in `runs`. `DropRow` has the condition the database layer adds for the struct
that is passed to `Delete`: all fields that were read.

`CalmSpec` is the environment in which the code keeps map and rows in agreement: requests that change
triggers come one at a time, none during `refresh()`, no statement fails, and a timer keeps its type.
`Spec` has none of these conditions.

### BuildRecords, Description, BuildVars

A request of `BuildRecords` is a chain of statements, one action each, because no handler uses a transaction;
`reqs[r]` holds its position and its local variables. `Fail` ends it between any two of them. A version keeps
what it shows (`content`), the versions its number was computed from (`seen`) and whether the pipeline was
deleted before the run began (`late`), which are history. `Plan` is the set of rows `preBuild` inserts for a
description, a pair of numbers each, and `AfterRow` the order in which it inserts them. `engine` and `sweep` tell how far `engine.Start` and the `init()` of the BuildEngine are;
`TakeBuild` and `EndBuild` are what a task does to the rows, here without the failures BuildTask has. Rows are
not removed with their version, as in the code.

`Description` follows one description through `Save` (`bean.Pipeline.Check`), `Run` (`Check` again, the
replacement of names, the loops that leave out disabled steps) and `Take` (`BuildTask.check`). A name is a text
or holds the one variable `Var`, whose value may itself look like that variable. `BuildVars` is `convertVar`: a value is a text or names one variable; the two
loops visit their map in any order, and `Shown` and `NamesSecret` are the two results of `replace`.

### Webhooks and the parsers

One call of `/hooks` or `/trigger/web`, from the query for the trigger to the answer. `hookCall` holds the row
that was read, what came in and what the parser said; the deferred function is `RecordRun`. The trigger may be
deleted and the permission of its creator may change meanwhile. A happening at a host (a push, a request, a
comment, an issue) and its payload are external and written as the host sends them; what each `convert...`
function takes from it, and where it fails, is the parser's. A ref is the sequence of its parts, so that the
third part of `refs/heads/feature/x` can be told from the branch. A signature is a digest and a key: it fits when
the key is the secret and the digest one the parser knows.

### Users, RateLimiter

`Users` has one user, since the cache has a key for each. A call is the user's own, which first finds the user
through the cache (`LookUp`, `Query`, `PutEntry`), an administrator's, or a login, which goes to the row itself and
writes the time of the login into it without clearing the cache (`login`, `StampLogin`). Each statement, each access
to the cache and the goroutine that deletes an expired key are separate actions. A row has the columns the handlers of
`route/user.go` write (`Managed`) and the time of the login. `behind` and `stamped` are history: why a copy may differ
from the row in the ones and in the other.

`RateLimiter` has one action for each way through `Allow`, which holds the lock; `Elapse` moves the clock and
`cleanup` may come at any time. `allowed[k]` is the history of what was let through.

### Orgs

Members, shared pipelines and permissions are those of one organisation; the permission rules (`OrgCanRead`,
`PipeCanWrite`, ...) are functions of the rows, and so are the pages and listings. Variables are those of several
organisations and pipelines (`Homes`), which share a table: `varSave` looks for the name in the home the request names
and changes the row of the number it gives, whatever home that has (`Changed`). An organisation that a request names by
its number instead of its id is a home of its own too: the variable is stored and looked for as it was named.
A handler is begun by who may, looks (`Look`), and writes (`WriteRow`, `WriteOrg`); `new` makes a pipeline and inserts
its variables one by one (`InsertVar`), or its share, without a look. The statement a handler is about to make is kept
in `handlers[r]`. `excused` is history: the keys two rows have, or may get, for one of three reasons — two handlers
were about to give the key to a row (`Claimed`), an edit gave it to a row of another home than it looked into (`Strays`),
or a request to `new` brought it twice (`InsertVar`). An excuse is over when no two rows have the key and nobody is about
to give it (`Lasting`). One table is written in a behaviour (`table`): only `new` writes two, and its writes of the one do not
depend on those of the other, so that a request is here one with variables or one with an organisation.

### Server

`run` is the position of the goroutine of `Run`, `web` the web server, `installs[i]` a request to install.
`file` and `schema` outlive a process; `Restart` ends it anywhere and starts the next. A migration is three
steps: the library marks the database, runs the statements, takes the mark away; any of them may fail, and the
code then calls `Down`, which refuses a marked database and empties one that was whole. The six functions of
`migrates/` do the same for three databases and two callers. `overlapped` is history: two installations were
under way in one process.

## 3. Runs

| Run | Instance | Shows |
|---|---|---|
| `build_task` | steps a, b in stage 1 (b waits on a), c in stage 2; no step ignored | `TypeOK`, `StageBarrier`, `OkMeansPassed`, `RowsAgree`, `EndedIsFinal` with cancels, shutdown and deadline at any moment |
| `build_task_cycle` | a and b wait on each other, c on a name that does not exist | `Terminates` |
| `build_task_calm` | a, b, c in stage 1 (c waits on both; b's errors are ignored), d in stage 2; no cancel, runners answer | `DispatchAfterWaits`, `TerminatesInCalm` |
| `job_engine` | three jobs of two plugins; two runners race for two of the jobs with two executers, or one runner with both plugins keeps asking | `TypeOK`, `HandedOnce`, `Drained`, `Served` |
| `build_records` | two pipelines, two descriptions, two requests of which one edits, three versions, two processes; all descriptions of up to two stages of up to three steps; three variables; 8 happenings at four hosts, every kind of trigger | `PutIsComplete`, `OpenIsOwned`, `NumbersRise`, `DeletedIsNotRun`; `RejectedForReason`, `DanglingForReason`; `NamedIsResolved`; `HookBuildHasCommit`, `BranchIsFiltered`, `RowTellsOutcome` |
| `services` | four builds, limit two; one user, two requests; one client, limit two, window three; two handlers, two rows, two homes, two names, up to two variables in a request to `new`; two databases, two installations, three processes | `TypeOK`, `WithinLimit`, `RunningIsFound`, `OnePlace`, `ImplementsPool`, `Started` of BuildEngine; `StaleForReason`; `TwiceAtMost`; `DoubledForReason`, `ListedCanBeOpened`; `ServesMigrated`, `InUseIsWritten`, `WebGoneEnds` |
| `timer_engine` | one trigger with a date, a daily period, disabled, unreadable and no timer at all; two requests, six moments, a unit of three | `TypeOK`, `TickAhead`, `FiredLeaves` under `Spec`: two requests at once, failures, restarts |
| `timer_calm` | a trigger with a date and one with periods of two and three; five moments | `EntryHasRow`, `Registered` under `CalmSpec` |
| `timer_stray` | as `timer_engine`, one request | **violated**: `EntryHasRow` under `Spec` |
| `cancel_ok` | as `build_task` | **violated**: `CancelledIsNotOk` |
| `cancel_row` | as `build_task` | **violated**: `CancelledIsRecorded` |
| `install_again` | as `services` | **violated**: `ConfiguredIsRead` |

Each takes less than three minutes with two workers.

Bounds. Two stages show the barrier, and the second of them is both the last and a later one; two steps
in a stage race, one of them waiting on the other; a third step makes a scan of two waits that other
goroutines interrupt. A step's row is written at most three times, so nothing hinges on more steps. Four
builds with a limit of two fill the map with two left in the list, so that the limit binds and the order
of the list shows. Two executers allow one to be replaced in the map by the second of two racing pulls;
`MaxExecs` is the only bound of a counter there, it stops `CreateExec`. A clock of five or six moments
(`MaxTime`) lets a period of three begin anew and a date pass while a request is half done; `MaxLate`
bounds how many scans a goroutine of `Delete` is late, two being enough for a second firing.
In `build_records` two requests at once (`Editors` says that one of them may be something else than a run) and three
versions let a number be computed, another version be inserted or deleted, and a third be computed from that;
`MaxRequests` and `MaxProcess` bound what follows. One disabled step among three, before or after a step that waits
on it, is what the loops over steps can get wrong; three variables allow a chain of two names in either order. In
`services` two calls are a reader and a writer or a login, with one cleanup late (`MaxCleanups`); seven moments (`MaxNow`) and a
window of three leave room for the end of a window, a second one and a cleanup after two; three processes are a start, one after a crash, and one that finds what
both have left; two keys (`Aids`) let two handlers insert the same, one insert beside a row that is there, and
an edit of a row of one home meet a row of another; `MaxGiven` is the least number of variables with a repeated name. Deadlock is not checked anywhere:
builds end, servers stop, and the engine then stands still by right. That nothing stops too early is
what the liveness properties say.

Fairness. Goroutines of the server run (weak fairness of each goroutine as a whole, of every started
`updateStep`), the timer of a context fires, the ticker ticks. Nothing is assumed of users and runners
in `Spec`; `CalmSpec` of BuildTask adds runners that answer and leaves out what ends the context;
in `job_engine` the main runner the server starts never stops asking when it is its `turn`. In `services` the goroutine
of `Run` goes on while it can; nothing is assumed of who installs, of signals or of the web server. Fairness of
`WorkNext` in BuildEngine is justified by `Terminates`. In TimerEngine the goroutine of the engine and those
of `Delete` run; the lock is free between scans, and Go's mutex passes it on to who waits.

### What the violated runs show

- `cancel_ok`: `for c.ctx.Err() == nil` (buildTask.go:294) ends the poll loop before the branch that would
  write `cancel`. The step is left in `preparation` or `running`, `runStage` only stops on `error` and
  `cancel`, and the stage is ok: a cancelled build ends as a success, and later stages are dispatched.
- `cancel_row`: after a cancel all writes go through the cancelled context and fail. The row of the build
  stays `pending` or `running` until the next start of the server.
- `timer_stray`: save and delete tell the engine only about rows that are of type timer at that moment. A
  timer that is saved with another type stays in the map for the life of the process, and goes on
  starting builds, even when its trigger is deleted. Two requests at once, or a delete whose second
  statement fails, end in the same way; `CalmSpec` names what has to be excluded.
- `install_again`: the README shows `driver: sqlite3`, the installation writes it, and `Validate` knows only
  `mysql`, `postgres` and `sqlite`. A server that was installed with SQLite asks for an installation again at each start.

### What the properties with reasons show

Some properties name the reasons for which the code does not do what one would expect, and show that there are no
others. `StaleForReason`: a copy of the user is behind the row after a reader put what it had read before, after a
failed clearing, and after `upinfo` gave up between its two updates; and after every login its time is, until the copy
goes. What requests are judged by does not depend on that time, but what they are shown does. `DoubledForReason`: two rows
for one member or share come from two handlers at once only; two variables of one name also from an edit that names
another organisation or pipeline than the row belongs to, and from a request to `new` with a repeated name. `ListedCanBeOpened`: with a database other than MySQL, members of an
organisation are listed pipelines they cannot open, because `NewPipePermCtx` looks into organisations in MySQL only.
`ServesMigrated`, `InUseIsWritten`: two installations at once may leave a server with an empty database, or with
another one than app.yml names. `RejectedForReason`, `DanglingForReason`: a stage whose steps are all disabled, names made
equal or empty by a variable, and waits on a disabled step or on a name that is a variable. `HookBuildHasCommit`: GitLab
and Gitee deliveries about deleted branches and comments on issues start builds without a commit.
`DeletedIsNotRun`, `NumbersRise` and `RowTellsOutcome` hold without exception.

## 4. Proofs

All for every value of the constants, from the named assumptions of the modules alone (`BuildShape`, `CfgRunLimitNat`,
`JobShape`, `TimerShape`, `LimitAssumption`, `RecordsShape`, `DescriptionShape`, `VarsShape`, `WebhooksShape`, `OrgsShape`)
and for two theorems a condition on the constants that they name. The assumptions say of which kind the constants are.
Four say something of the world: `DescriptionShape`, that a variable in a name is not the empty name; `VarsShape`, that
the text shown in place of a secret is no value and no name of a variable is a text; `WebhooksShape`, that a host names
commits as `HostTells` has it (a push has one after it or deletes its branch, the sides of a request have one each);
`OrgsShape`, that the database counts keys from one.

Every safety property the passing runs check is proved.

- **BuildTaskProofs**. `TypeOK`, `StageBarrier`, `DispatchAfterWaits`, `OkMeansPassed`, `EndedIsFinal`,
  `RowsAgree`. The invariant adds to the types: `StageInv` (goroutines of earlier stages are over, those of later ones not
  started), `StatusInv` (while the context is not done the status of a step tells where its goroutine
  and its runner are, in particular a runner reports only to a goroutine that polls), `WaitsInv` (what a
  scan has counted has passed) and `PassedInv` (what `runStage` and `run` have seen pass has passed).
  `StatusInv` gives the crucial lemma `EndedStep`: an end is not overwritten while the context lives.
  Everything that was read one lock at a time stays true because of it, so `WaitsInv` and `PassedInv`
  are inductive. On top of it `RowsInv` says of the rows of a context that is not done: that of a step whose goroutine is
  over agrees with its status or has a goroutine of `updateStep` left, that of a step that never began is closed by the
  last sweep only, and those of the stages and of the build follow `run()`.
- **BuildEngineProofs**. `TypeOK`, `WithinLimit`, `OnePlace`, `RunningIsFound`, and the refinement
  `ImplementsPool`. `WithinLimit` needs `RoomForOne`: between the check and the insertion nobody but
  the engine's goroutine adds to the map. The refinement needs that the build `run()` holds is the
  front of the list and that no build is in the list twice.
- **JobEngineProofs**. `TypeOK` and `HandedOnce`. The invariant `OnceParts` is `HandedOnce` part by part;
  `Fresh` says that a job that was not pushed is nowhere.
- **TimerEngineProofs**. `TypeOK`, which says of the map that nobody changes its keys during a scan;
  `TickAhead`, from the remainders of the clock and of the date (`FirstTickBounds`), for kinds whose unit
  is their period; `EntryHasRow` and `Registered` of `CalmSpec`. Their invariant `CalmInv` says that what a
  request or `refresh()` has read still holds when it is used (`ReadRows`, `LoadedRows`), which is what
  one request at a time (`Serial`) gives. `Registered` needs that one-shot timers and goroutines to delete
  them belong to triggers with a date (`OnceDated`), and so that no trigger has both (`Steady`).
- **BuildRecordsProofs**. `PutIsComplete`, `OpenIsOwned`, `NumbersRise`, `DeletedIsNotRun`, from one invariant
  (`RecordsInv`). It gives every request its place in the chain of statements: what it has read, that its version is its
  own, and that the rows it has inserted are those of the plan before its next one (`RowsBefore`), which `AfterRow` walks
  in order and without a gap (`PlanRow` and the lemmas after it). A version in the engine was let go by a request at the
  end of its plan, so it is complete; a row that is open lies in the plan of its version, so the sweep, table by table,
  meets it. `seen` of a version lies below it, and its number above theirs, as the number is one more than the greatest
  that was read (`MaxOfBounded`); between reading and inserting, the same holds of the local number. One lemma says what a
  step that inserts nothing may change at most and that this keeps the invariant.
- **InputProofs**. *Description*: `RejectedForReason`, `DanglingForReason`. That `Enabled` keeps the steps that are not
  disabled, each once, is proved of its recursive function by a least counterexample (`LoopExists`, `EnabledIsKept`);
  then `RejectedIff` computes the check of the engine on what `preBuild` builds, and the invariant says that the
  description is what was checked. *Variables*: `NamedIsResolved`. A settled variable (`Settled`) keeps its value and its
  flag through both loops in every order, and what names one has them from its visit on (`VarsInv`). *Webhooks*:
  `HookBuildHasCommit`, `BranchIsFiltered`, `RowTellsOutcome`. For each parser a lemma says what it makes of a delivery it
  takes (`GithubFits`, ...: the secret was the key, the commit is that of the delivery but for the named cases, the branch
  its own); `ParserFits` puts them together, the headers of a host being no others'. `HookInv` carries that, the filter
  and the outcome from statement to statement, beside deletions and changes of permissions.
- **ServicesProofs**, RateLimiter. `TwiceAtMost`. The invariant `LimiterInv` says of each key with an entry that the last
  `count` requests came in its window, those before no later than its start, and all but the limit of those a whole
  window before it; of a key without one, that nothing counts any more. `CleanupStep` is where the two windows of
  the cleanup are needed.
- **ServicesProofs**, Users. `StaleForReason`. The invariant `UsersInv` drops that the copy is in time: an expired copy is behind
  for the same reasons (`BehindForReason`), and every writer of `route/user.go` that has changed the row is on its way to the
  clearing. `StampLogin` leaves the managed columns alone, which is why it disturbs the second part only.
- **ServicesProofs**, Orgs. `DoubledForReason`: for a handler that is about to give a key to a row (`Claims`), `Holds` says
  that no row but the one it changes has the key, unless there is an excuse for it, and that an edit of a member leaves the
  key of its row; numbers of rows are told once and are not those a handler remembers; and the pipeline `new` makes is one
  no row is about (`Homed`). `Puts` says what a write may do to the others, and `PutsKeeps` that they may then go on.
  `ListedCanBeOpened` needs no invariant: the queries of the listings
  and the rules of the pages agree in every state of the tables.
- **ServicesProofs**, Server. `ServesMigrated` and `InUseIsWritten`, from one invariant, for any number of starts. As long as no two
  installations were under way, an installation is alone and Run waits for it (`OneInstall`, `RunAwaits`); `Prepared`
  says what it has behind it at each place, `InstallKept` what it hands over to Run, `RunKept` what Run has by itself.

Only model-checked: all liveness (`Terminates`, `TerminatesInCalm`, `Started`, `Drained`, `Served`, `FiredLeaves`,
`WebGoneEnds`), since fairness and ENABLED are out of the prover's reach. The induction theorems of the library, which
take a predicate as parameter, are so as well; the one recursive definition (`Enabled`) is reasoned about by the least
number for which a claim fails (`LeastNumber` of DataLemmas, from the well-ordering of the numbers).

The proofs found a few things in the models. `MaxVersions` may not be zero, since a version an earlier process left needs
its place. `Collides` called a value a clash that is the text of the variable itself, which the replacement does not
change: the property counted builds as rejected that are taken, and no run had such a value.

## 5. Not modelled

- Command lines (`UpJobCmd`, `updateStepCmd` and the files of their output): they change no status of a step.
- The HTTP clients of the hosting services (`thirdapi`) and the types of their answers; of the payloads of webhooks, all
  fields the conversions do not read.
- Artifacts, templates, the pages of versions and of a running build, the lists with their paging and the queries that
  fill them: single reads.
- Tokens (the server keeps nothing of them), creation of users and organisations (one insert each), parameters.
- The web interface and the installation page, the commands of `cmd/cmd.go` that write and show a configuration, the
  indexes, the SQL of the migrations.
- The contents of jobs, git itself, the runners.

See `PROJECT.json`, `components`, for the reason of each.

## 6. Plan

1. *Proofs*: a refinement of BuildRecords by an abstract store of whole builds, step by step.
2. *Command lines*: the lines of a step beside BuildTask, with the reports that overwrite each other and their closing.
3. *Parameters and creation of organisations and users*: two more finders that insert, in the way of Orgs.
4. *Composition*: BuildRecords over the list of BuildEngine, in place of its own `listed` and `running`.
