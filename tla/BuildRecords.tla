---------------------------- MODULE BuildRecords ----------------------------
(***************************************************************************)
(* The rows of pipelines, versions and builds (route/pipeline.go,          *)
(* service/pipeline.go, service/hook.go) and what a restart does to them   *)
(* (engine/buildEgn.go, init).  Every handler is a chain of statements     *)
(* without a transaction: one action is one statement, and between two of  *)
(* them other requests move, a statement fails, or the process dies.       *)
(*                                                                         *)
(* A description is a name for what Check and the loops of preBuild see of *)
(* it: whether it is well formed and how many enabled steps each of its    *)
(* stages has.  Who may do what is the subject of module Orgs; here a    *)
(* request that is refused never begins.                                   *)
(***************************************************************************)
EXTENDS Naturals, Sequences, FiniteSets, FiniteSetsExt

CONSTANTS
  Pipes,        \* the pipelines that may be made
  Docs,         \* the descriptions
  Sizes,        \* the number of enabled steps of each stage of a description
  WellFormed,   \* the descriptions that pass Check
  Requests,     \* requests that are served at a time
  Editors,      \* bound: those that may be something else than a run
  MaxVersions,  \* bound: how many versions are made
  MaxRequests,  \* bound: how many requests there are
  MaxProcess    \* bound: the number of the last process

ASSUME RecordsShape ==
  /\ Editors \subseteq Requests
  /\ Sizes \in [Docs -> Seq(Nat)]
  /\ WellFormed \subseteq Docs
  /\ MaxVersions \in Nat \ {0} /\ MaxRequests \in Nat /\ MaxProcess \in Nat

NoDoc    == "no row"
EmptyDoc == "empty"
Ids      == 1 .. MaxVersions
Tables   == <<"build", "stage", "step">>

\* The rows of a build: <<0, 0>> is the one of the build, <<i, 0>> the one of its stage
\* i and <<i, j>> the one of the step j of that stage.
Plan(d) == {<<0, 0>>} \cup UNION {{<<i, j>> : j \in 0 .. Sizes[d][i]} : i \in DOMAIN Sizes[d]}
TableOf(w) == IF w[1] = 0 THEN "build" ELSE IF w[2] = 0 THEN "stage" ELSE "step"

\* The row preBuild inserts after another one; it is in no plan after the last.
AfterRow(d, w) == IF w[1] # 0 /\ w[2] < Sizes[d][w[1]] THEN <<w[1], w[2] + 1>> ELSE <<w[1] + 1, 0>>

VARIABLES
  pipes,    \* t_pipeline: none, live or deleted
  conf,     \* t_pipeline_conf: the description of a pipeline
  versions, \* t_pipeline_version, in the order of the inserts
  rows,     \* the rows of t_build, t_stage and t_step of a version
  open,     \* those of them whose status has not ended
  reqs,     \* the requests at work
  begun,    \* how many there have been
  work,     \* where the engine has the build of a version
  lost,     \* versions whose request failed, or whose rows the engine could not write
  process,  \* the number of the process
  engine,   \* whether engine.Start has run in it
  sweep     \* how many of its statements init() has behind it

Versions    == DOMAIN versions
tables      == <<pipes, conf>>
buildRows   == <<rows, open>>
server      == <<process, engine, sweep>>
recordsVars == <<tables, versions, buildRows, reqs, begun, work, lost, server>>

Idle == [pc |-> "idle", op |-> "none", pipe |-> "none", from |-> "none", doc |-> NoDoc,
         content |-> NoDoc, late |-> FALSE, number |-> 0, seen |-> {}, ver |-> 0,
         at |-> <<0, 0>>]

\* The version of an earlier process.
Earlier(p, d) == [pipe |-> p, number |-> 1, gone |-> FALSE, content |-> d, seen |-> {},
                  late |-> FALSE, process |-> 1]

\* The rows of a version have ended, or none of them has.
LeftOpen == {[v \in Ids |-> IF v \in left THEN rows[v] ELSE {}] : left \in SUBSET Versions}

\* What the database may hold when the process starts: pipelines, whole or
\* without the row a failed new() left out, and a version an earlier process
\* made, with its rows ended or left open.
RecordsInit ==
  /\ pipes \in [Pipes -> {"none", "live"}]
  /\ conf \in [Pipes -> WellFormed \cup {NoDoc}]
  /\ \A p \in Pipes : pipes[p] = "none" => conf[p] = NoDoc
  /\ versions \in {<<>>} \cup
       {<<Earlier(p, d)>> : p \in {q \in Pipes : conf[q] # NoDoc}, d \in WellFormed}
  /\ rows = [v \in Ids |-> IF v \in Versions THEN Plan(versions[v].content) ELSE {}]
  /\ open \in LeftOpen
  /\ reqs = [r \in Requests |-> Idle] /\ begun = 0
  /\ work = [v \in Ids |-> "none"]
  /\ lost = {}
  /\ process = IF versions = <<>> THEN 1 ELSE 2
  /\ engine = "off" /\ sweep = 0

At(r, pc)      == reqs[r].pc = pc
Begin(r, q)    == /\ At(r, "idle") /\ begun < MaxRequests
                  /\ reqs' = [reqs EXCEPT ![r] = q] /\ begun' = begun + 1
Go(r, q)       == reqs' = [reqs EXCEPT ![r] = q] /\ UNCHANGED begun
Answer(r)      == reqs' = [reqs EXCEPT ![r] = Idle] /\ UNCHANGED begun

\* Mutant of VersionsOf: deleted versions do not count.
LiveVersionsOf(p) == {v \in DOMAIN versions : versions[v].pipe = p /\ ~ versions[v].gone}

VersionsOf(p)  == {v \in Versions : versions[v].pipe = p}

-----------------------------------------------------------------------------
(* A pipeline is made, copied, saved and deleted.                          *)

\* new: the row of the pipeline.
NewPipe(r) ==
  /\ \E p \in Pipes, d \in WellFormed :
       /\ pipes[p] = "none"
       /\ pipes' = [pipes EXCEPT ![p] = "live"]
       /\ Begin(r, [Idle EXCEPT !.pc = "insert conf", !.op = "new", !.pipe = p, !.doc = d])
  /\ UNCHANGED <<conf, versions, buildRows, work, lost, server>>

\* copy: the same for the copy of a live one, whose description is not read yet.
CopyPipe(r) ==
  /\ \E p, q \in Pipes :
       /\ pipes[p] = "none" /\ pipes[q] = "live"
       /\ pipes' = [pipes EXCEPT ![p] = "live"]
       /\ Begin(r, [Idle EXCEPT !.pc = "read source", !.op = "copy", !.pipe = p, !.from = q])
  /\ UNCHANGED <<conf, versions, buildRows, work, lost, server>>

\* The copy of a pipeline whose own row is missing gets an empty description.
ReadSource(r) ==
  /\ At(r, "read source")
  /\ LET d == conf[reqs[r].from]
     IN  Go(r, [reqs[r] EXCEPT !.pc = "insert conf", !.doc = IF d = NoDoc THEN EmptyDoc ELSE d])
  /\ UNCHANGED <<tables, versions, buildRows, work, lost, server>>

InsertConf(r) ==
  /\ At(r, "insert conf")
  /\ conf' = [conf EXCEPT ![reqs[r].pipe] = reqs[r].doc]
  /\ Answer(r)
  /\ UNCHANGED <<pipes, versions, buildRows, work, lost, server>>

\* The right to write is asked for, not that the pipeline is live.
SavePipe(r) ==
  /\ \E p \in Pipes, d \in WellFormed :
        /\ pipes[p] # "none"
        /\ Begin(r, [Idle EXCEPT !.pc = "save conf", !.op = "save", !.pipe = p, !.doc = d])
  /\ UNCHANGED <<tables, versions, buildRows, work, lost, server>>

\* An UPDATE: a row that is missing stays missing.
SaveConf(r) ==
  /\ At(r, "save conf")
  /\ LET p == reqs[r].pipe
     IN  conf' = [conf EXCEPT ![p] = IF @ = NoDoc THEN NoDoc ELSE reqs[r].doc]
  /\ Answer(r)
  /\ UNCHANGED <<pipes, versions, buildRows, work, lost, server>>

DeletePipe(r) ==
  /\ \E p \in Pipes : /\ pipes[p] = "live"
                      /\ Begin(r, [Idle EXCEPT !.pc = "drop pipe", !.op = "delete", !.pipe = p])
  /\ UNCHANGED <<tables, versions, buildRows, work, lost, server>>

DropPipe(r) ==
  /\ At(r, "drop pipe")
  /\ pipes' = [pipes EXCEPT ![reqs[r].pipe] = "deleted"]
  /\ Go(r, [reqs[r] EXCEPT !.pc = "drop versions"])
  /\ UNCHANGED <<conf, versions, buildRows, work, lost, server>>

DropVersions(r) ==
  /\ At(r, "drop versions")
  /\ versions' = [v \in Versions |->
       [versions[v] EXCEPT !.gone = @ \/ versions[v].pipe = reqs[r].pipe]]
  /\ Answer(r)
  /\ UNCHANGED <<tables, buildRows, work, lost, server>>

\* The handler of one version reads it, then sets its flag.
DeleteVersion(r) ==
  /\ \E v \in Versions : Begin(r, [Idle EXCEPT !.pc = "drop version", !.op = "delete version",
                                   !.pipe = versions[v].pipe, !.seen = {v}])
  /\ UNCHANGED <<tables, versions, buildRows, work, lost, server>>

DropVersion(r) ==
  /\ At(r, "drop version")
  /\ versions' = [v \in Versions |->
       [versions[v] EXCEPT !.gone = @ \/ v \in reqs[r].seen]]
  /\ Answer(r)
  /\ UNCHANGED <<tables, buildRows, work, lost, server>>

-----------------------------------------------------------------------------
(* A run, by a user, by a trigger or of an earlier version.                *)

\* The handler run asks for a live pipeline.
BeginRun(r) ==
  /\ Len(versions) < MaxVersions
  /\ \E p \in Pipes : /\ pipes[p] = "live"
                      /\ Begin(r, [Idle EXCEPT !.pc = "read conf", !.op = "run", !.pipe = p])
  /\ UNCHANGED <<tables, versions, buildRows, work, lost, server>>

\* A trigger asks for its row only.  late is not in the code: it was deleted by then.
BeginTrigger(r) ==
  /\ Len(versions) < MaxVersions
  /\ \E p \in Pipes : /\ pipes[p] # "none"
                      /\ Begin(r, [Idle EXCEPT !.pc = "read conf", !.op = "trigger", !.pipe = p,
                                   !.late = pipes[p] = "deleted"])
  /\ UNCHANGED <<tables, versions, buildRows, work, lost, server>>

\* rebuild asks for the version too, whose description it will build.
BeginRebuild(r) ==
  /\ Len(versions) < MaxVersions
  /\ \E v \in Versions : /\ ~ versions[v].gone
                         /\ pipes[versions[v].pipe] = "live"
                         /\ Begin(r, [Idle EXCEPT !.pc = "read conf", !.op = "rebuild",
                                      !.pipe = versions[v].pipe, !.doc = versions[v].content])
  /\ UNCHANGED <<tables, versions, buildRows, work, lost, server>>

\* Mutant of ReadConf: the version of a rebuild keeps what the row says.
ReadConfRow(r) ==
  LET c == conf[reqs[r].pipe] IN
  /\ At(r, "read conf")
  /\ c \notin {NoDoc, EmptyDoc}
  /\ Go(r, [reqs[r] EXCEPT !.pc = "read pipe", !.content = c,
            !.doc = IF reqs[r].op = "rebuild" THEN reqs[r].doc ELSE c])
  /\ UNCHANGED <<tables, versions, buildRows, work, lost, server>>

\* Run builds what the row says, ReBuild what the version says; both need the row.
ReadConf(r) ==
  LET c == conf[reqs[r].pipe] IN
  /\ At(r, "read conf")
  /\ c # NoDoc
  /\ IF reqs[r].op = "rebuild"
     THEN Go(r, [reqs[r] EXCEPT !.pc = "read pipe", !.content = reqs[r].doc])
     ELSE c # EmptyDoc /\ Go(r, [reqs[r] EXCEPT !.pc = "read pipe", !.doc = c, !.content = c])
  /\ UNCHANGED <<tables, versions, buildRows, work, lost, server>>

\* Mutant of ReadPipe: the flag is left to the handlers.
ReadPipeDeleted(r) ==
  /\ At(r, "read pipe")
  /\ reqs[r].doc \in WellFormed
  /\ Go(r, [reqs[r] EXCEPT !.pc = "read number"])
  /\ UNCHANGED <<tables, versions, buildRows, work, lost, server>>

ReadPipe(r) ==
  /\ At(r, "read pipe")
  /\ pipes[reqs[r].pipe] = "live"
  /\ reqs[r].doc \in WellFormed
  /\ Go(r, [reqs[r] EXCEPT !.pc = "read number"])
  /\ UNCHANGED <<tables, versions, buildRows, work, lost, server>>

\* max(number) + 1 over all versions of the pipeline, the deleted ones too;
\* seen is not in the code: the versions there were.
ReadNumber(r) ==
  /\ At(r, "read number")
  /\ Go(r, [reqs[r] EXCEPT !.pc = "insert version", !.seen = Versions,
            !.number = Max({0} \cup {versions[v].number : v \in VersionsOf(reqs[r].pipe)}) + 1])
  /\ UNCHANGED <<tables, versions, buildRows, work, lost, server>>

InsertVersion(r) ==
  LET q == reqs[r] IN
  /\ At(r, "insert version")
  /\ Len(versions) < MaxVersions
  /\ versions' = Append(versions, [pipe |-> q.pipe, number |-> q.number, gone |-> FALSE,
       content |-> q.content, seen |-> q.seen, late |-> q.late, process |-> process])
  /\ Go(r, [reqs[r] EXCEPT !.pc = "insert rows", !.ver = Len(versions) + 1])
  /\ UNCHANGED <<tables, buildRows, work, lost, server>>

InsertRow(r) ==
  LET q == reqs[r]  next == AfterRow(q.doc, q.at) IN
  /\ At(r, "insert rows")
  /\ rows' = [rows EXCEPT ![q.ver] = @ \cup {q.at}]
  /\ open' = [open EXCEPT ![q.ver] = @ \cup {q.at}]
  /\ IF next \in Plan(q.doc) THEN Go(r, [q EXCEPT !.at = next]) ELSE Go(r, [q EXCEPT !.pc = "put"])
  /\ UNCHANGED <<tables, versions, work, lost, server>>

\* Before engine.Start there is no engine to put into: the handler panics.
PutBuild(r) ==
  /\ At(r, "put")
  /\ IF engine = "on" THEN work' = [work EXCEPT ![reqs[r].ver] = "listed"] /\ UNCHANGED lost
     ELSE lost' = lost \cup {reqs[r].ver} /\ UNCHANGED work
  /\ Answer(r)
  /\ UNCHANGED <<tables, versions, buildRows, server>>

\* A statement fails, a check refuses, or the client has gone.
Fail(r) ==
  /\ ~ At(r, "idle") /\ ~ At(r, "put")
  /\ lost' = IF reqs[r].ver = 0 THEN lost ELSE lost \cup {reqs[r].ver}
  /\ Answer(r)
  /\ UNCHANGED <<tables, versions, buildRows, work, server>>

-----------------------------------------------------------------------------
(* The engine, as far as the rows tell, and the process.                   *)

\* run() resets the status and writes the row of the build.
TakeBuild(v) ==
  /\ sweep = Len(Tables) /\ work[v] = "listed"
  /\ work' = [work EXCEPT ![v] = "running"]
  /\ open' = [open EXCEPT ![v] = @ \cup {<<0, 0>>}]
  /\ UNCHANGED <<tables, versions, rows, reqs, begun, lost, server>>

\* The end of the build closes all of its rows, unless its context has ended.
EndBuild(v) ==
  /\ work[v] = "running"
  /\ work' = [work EXCEPT ![v] = "over"]
  /\ \/ open' = [open EXCEPT ![v] = {}] /\ UNCHANGED lost
     \/ lost' = lost \cup {v} /\ UNCHANGED open
  /\ UNCHANGED <<tables, versions, rows, reqs, begun, server>>

StartEngine ==
  /\ engine = "off"
  /\ engine' = "on"
  /\ UNCHANGED <<tables, versions, buildRows, reqs, begun, work, lost, process, sweep>>

\* Mutant of Sweep: the statement for t_step is missing.
SweepNoSteps ==
  LET t == Tables[sweep + 1] IN
  /\ engine = "on" /\ sweep < Len(Tables)
  /\ sweep' = sweep + 1
  /\ open' = [v \in Ids |-> {w \in open[v] : TableOf(w) # t \/ t = "step"}]
  /\ UNCHANGED <<tables, versions, rows, reqs, begun, work, lost, process, engine>>

\* One statement of init(): it closes what is open, whoever made it.  One that
\* fails is only logged, and leaves its table as it was before its turn.
Sweep ==
  LET t == Tables[sweep + 1] IN
  /\ engine = "on" /\ sweep < Len(Tables)
  /\ sweep' = sweep + 1
  /\ open' = [v \in Ids |-> {w \in open[v] : TableOf(w) # t}]
  /\ UNCHANGED <<tables, versions, rows, reqs, begun, work, lost, process, engine>>

Restart ==
  /\ process < MaxProcess
  /\ process' = process + 1
  /\ engine' = "off" /\ sweep' = 0
  /\ reqs' = [r \in Requests |-> Idle]
  /\ work' = [v \in Ids |-> "none"]
  /\ UNCHANGED <<tables, versions, buildRows, begun, lost>>

PipeNext(r)    == NewPipe(r) \/ CopyPipe(r) \/ ReadSource(r) \/ InsertConf(r) \/ SavePipe(r) \/ SaveConf(r)
DeleteNext(r)  == DeletePipe(r) \/ DropPipe(r) \/ DropVersions(r) \/ DeleteVersion(r) \/ DropVersion(r)
RunNext(r)     == \/ BeginRun(r) \/ BeginTrigger(r) \/ BeginRebuild(r) \/ ReadConf(r) \/ ReadPipe(r)
                  \/ ReadNumber(r) \/ InsertVersion(r) \/ InsertRow(r) \/ PutBuild(r)
EngineNext     == (\E v \in Ids : TakeBuild(v) \/ EndBuild(v)) \/ StartEngine \/ Sweep
RecordsNext    == \/ \E r \in Editors : PipeNext(r) \/ DeleteNext(r)
                  \/ \E r \in Requests : RunNext(r) \/ Fail(r)
                  \/ EngineNext \/ Restart
RecordsSpec    == RecordsInit /\ [][RecordsNext]_recordsVars
-----------------------------------------------------------------------------
(* Properties.                                                             *)

\* A build that is put into the engine has every row of the description its
\* version shows, which passed Check: the chain of inserts of preBuild is not
\* cut short, and neither a save in between nor a rebuild mixes two
\* descriptions.
PutIsComplete ==
  \A v \in Versions : work[v] # "none" =>
    /\ versions[v].content \in WellFormed
    /\ rows[v] = Plan(versions[v].content)

\* What a row that has not ended belongs to: a build in the engine, a request
\* at work, or one of this process that failed.  What an earlier process left
\* is closed by init() (engine/buildEgn.go), table by table, although requests
\* put new rows beside it at the same time.
OpenIsOwned ==
  \A v \in Versions : \A w \in open[v] :
    IF versions[v].process # process THEN TableOf(w) \notin {Tables[i] : i \in 1 .. sweep}
    ELSE \/ work[v] \in {"listed", "running"}
         \/ v \in lost
         \/ \E r \in Requests : reqs[r].ver = v

\* The number of a version is above the numbers of all versions of its pipeline
\* that were there when it was computed: a deletion or a restart never leads to
\* a number being used again, only two runs at the same time do.
NumbersRise ==
  \A v \in Versions : \A w \in versions[v].seen :
    versions[w].pipe = versions[v].pipe => versions[w].number < versions[v].number

\* Nothing is built of a pipeline that was deleted before the run began, by a
\* trigger either, whose handler does not look at the flag.
DeletedIsNotRun == \A v \in Versions : ~ versions[v].late
=============================================================================
