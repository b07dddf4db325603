------------------------------- MODULE Server -------------------------------
(***************************************************************************)
(* A process of the server from its start to its end (cmd/cmd.go,          *)
(* server/server.go, web.go, db.go, hbtp.go): the goroutine of Run, the    *)
(* goroutine of the web server and the installations that come in over it  *)
(* (route/install.go).  What a process leaves behind is the file app.yml   *)
(* and the tables that the migrations make (migrates/*.go).                *)
(***************************************************************************)
EXTENDS Naturals

CONSTANTS
  Sources,     \* the databases
  DriverOf,    \* the driver that opens each
  Installers,  \* the requests to install
  NoSource,
  MaxProcesses \* bounds the starts of the program

VARIABLES
  file,       \* app.yml
  schema,     \* the tables of a database: none, dirty while or after a migration, done
  processes,
  run,        \* where the goroutine of Run stands
  web,        \* the web server: off, open, done
  alive,      \* comm.Ctx is not cancelled
  installed,  \* comm.Installed
  cfg,        \* comm.Cfg.Datasource
  inUse,      \* the database of comm.Db
  ups,        \* the source Run migrates, or NoSource
  installs,   \* the requests to install
  overlapped  \* history: two requests to install were under way in this process

serverVars == <<file, schema, processes, run, web, alive, installed, cfg, inUse, ups, installs, overlapped>>

NoFile == [is |-> "none"]
Truncated == [is |-> "truncated"]
Complete(s) == [is |-> "complete", source |-> s]

\* Config.Validate: it does not know the driver that opens an SQLite database.
Validate(s) == DriverOf[s] \in {"mysql", "postgres", "sqlite"}

NoInstall == [at |-> "none", source |-> NoSource]

ServerInit ==
  /\ file \in {NoFile} \cup {Complete(s) : s \in Sources}
  /\ schema = [s \in Sources |-> "none"]
  /\ processes = 1
  /\ run = "webReady" /\ web = "off" /\ alive = TRUE
  /\ installed = FALSE /\ cfg = NoSource /\ inUse = NoSource /\ ups = NoSource
  /\ installs = [i \in Installers |-> NoInstall]
  /\ overlapped = FALSE

-----------------------------------------------------------------------------
(* The migrations of a database, for InitXxxMigrate and UpXxxMigrate.      *)

\* Up marks the database before it runs the statements.
UpBegins(s) == schema[s] = "none" /\ schema' = [schema EXCEPT ![s] = "dirty"]
UpEnds(s) == schema[s] = "dirty" /\ schema' = [schema EXCEPT ![s] = "done"]
UpHasNothing(s) == schema[s] = "done" /\ UNCHANGED schema

\* After an error of Up, whatever it was: Down refuses a dirty database.
Down(s) == schema' = [schema EXCEPT ![s] = IF @ = "done" THEN "none" ELSE @]

-----------------------------------------------------------------------------
(* The web server.                                                         *)

WebReady ==
  /\ web = "off"
  /\ web' = "open"
  /\ UNCHANGED <<file, schema, processes, run, alive, installed, cfg, inUse, ups, installs, overlapped>>

\* The mutant ends the goroutine without a word to the others.
WebDoneAlone ==
  /\ web = "open"
  /\ web' = "done"
  /\ UNCHANGED <<file, schema, processes, run, alive, installed, cfg, inUse, ups, installs, overlapped>>

\* The context is cancelled, or the listener fails: requests under way go on until
\* they end or the time for them is over.
WebDone ==
  /\ web = "open"
  /\ web' = "done"
  /\ alive' = FALSE
  /\ UNCHANGED <<file, schema, processes, run, installed, cfg, inUse, ups, installs, overlapped>>

Signal ==
  /\ alive
  /\ alive' = FALSE
  /\ UNCHANGED <<file, schema, processes, run, web, installed, cfg, inUse, ups, installs, overlapped>>

-----------------------------------------------------------------------------
(* Installations.                                                          *)

InstallAt(i, at) == installs[i].at = at
InstallGoes(i, at) == installs' = [installs EXCEPT ![i].at = at]
Busy(i) == installs[i].at \notin {"none", "over"}

\* The mutant forgets to look whether the installation is over.
PostAlways(i) ==
  /\ InstallAt(i, "none")
  /\ web = "open"
  /\ run \in {"await", "db", "open", "cache", "api", "mark", "engine", "running"}
  /\ \E s \in Sources : installs' = [installs EXCEPT ![i] = [at |-> "check", source |-> s]]
  /\ overlapped' = (overlapped \/ \E j \in Installers : Busy(j))
  /\ UNCHANGED <<file, schema, processes, run, web, alive, installed, cfg, inUse, ups>>

\* auth and the checks of the form
Post(i) ==
  /\ InstallAt(i, "none")
  /\ web = "open"
  /\ run = "await"
  /\ ~ installed
  /\ \E s \in Sources : installs' = [installs EXCEPT ![i] = [at |-> "check", source |-> s]]
  /\ overlapped' = (overlapped \/ \E j \in Installers : Busy(j))
  /\ UNCHANGED <<file, schema, processes, run, web, alive, installed, cfg, inUse, ups>>

\* checkUrl asks this server for a page that is gone when the installation is over.
CheckUrl(i) ==
  /\ InstallAt(i, "check")
  /\ \/ ~ installed /\ web = "open" /\ InstallGoes(i, "migrate")
     \/ InstallGoes(i, "over")
  /\ UNCHANGED <<file, schema, processes, run, web, alive, installed, cfg, inUse, ups, overlapped>>

\* InitMysqlMigrate, InitPostgresMigrate, InitSqliteMigrate.
Migrate(i) ==
  LET s == installs[i].source
  IN /\ \/ InstallAt(i, "migrate") /\ UpBegins(s) /\ InstallGoes(i, "statements")
        \/ InstallAt(i, "statements") /\ UpEnds(s) /\ InstallGoes(i, "configure")
        \/ InstallAt(i, "migrate") /\ UpHasNothing(s) /\ InstallGoes(i, "configure")
        \* dirty, locked, or a statement or the connection failed
        \/ installs[i].at \in {"migrate", "statements"} /\ UNCHANGED schema /\ InstallGoes(i, "down")
        \/ InstallAt(i, "down") /\ Down(s) /\ InstallGoes(i, "over")
     /\ UNCHANGED <<file, processes, run, web, alive, installed, cfg, inUse, ups, overlapped>>

SetConfig(i) ==
  /\ InstallAt(i, "configure")
  /\ cfg' = installs[i].source
  /\ InstallGoes(i, "marshal")
  /\ UNCHANGED <<file, schema, processes, run, web, alive, installed, inUse, ups, overlapped>>

\* initConfig: what comm.Cfg holds now goes into the file, which is empty for a moment.
Marshal(i) ==
  /\ InstallAt(i, "marshal")
  /\ file' = Truncated
  /\ installs' = [installs EXCEPT ![i] = [at |-> "write", source |-> cfg]]
  /\ UNCHANGED <<schema, processes, run, web, alive, installed, cfg, inUse, ups, overlapped>>

WriteFile(i) ==
  /\ InstallAt(i, "write")
  /\ \/ file' = Complete(installs[i].source) /\ InstallGoes(i, "mark")
     \/ UNCHANGED file /\ InstallGoes(i, "over")
  /\ UNCHANGED <<schema, processes, run, web, alive, installed, cfg, inUse, ups, overlapped>>

MarkInstalled(i) ==
  /\ InstallAt(i, "mark")
  /\ installed' = TRUE
  /\ InstallGoes(i, "over")
  /\ UNCHANGED <<file, schema, processes, run, web, alive, cfg, inUse, ups, overlapped>>

Install(i) ==
  CheckUrl(i) \/ Migrate(i) \/ SetConfig(i) \/ Marshal(i) \/ WriteFile(i) \/ MarkInstalled(i)

-----------------------------------------------------------------------------
(* Run.                                                                    *)

RunGoes(from, to) == run = from /\ run' = to

WaitWeb ==
  /\ \/ web = "open" /\ RunGoes("webReady", "parse")
     \/ RunGoes("webReady", "ended")   \* ten seconds, or the context
  /\ UNCHANGED <<file, schema, processes, web, alive, installed, cfg, inUse, ups, installs, overlapped>>

parseConfig ==
  /\ run = "parse"
  /\ IF file.is = "complete" /\ Validate(file.source)
     THEN run' = "db" /\ cfg' = file.source
     ELSE run' = "await" /\ UNCHANGED cfg
  /\ UNCHANGED <<file, schema, processes, web, alive, installed, inUse, ups, installs, overlapped>>

AwaitInstall ==
  /\ \/ installed /\ RunGoes("await", "db")
     \/ ~ alive /\ RunGoes("await", "ended")
  /\ UNCHANGED <<file, schema, processes, web, alive, installed, cfg, inUse, ups, installs, overlapped>>

\* The mutant leaves the migrations to the installation.
NeedsNoUp == FALSE
NeedsUp == ~ installed

\* initDb
InitDb ==
  /\ \/ RunGoes("db", "open") /\ ~ NeedsUp /\ UNCHANGED <<schema, ups>>
     \/ /\ NeedsUp /\ ups' = cfg
        /\ \/ RunGoes("db", "statements") /\ UpBegins(cfg)
           \/ RunGoes("db", "open") /\ UpHasNothing(cfg)
           \/ RunGoes("db", "down") /\ UNCHANGED schema
     \/ /\ UNCHANGED ups
        /\ \/ RunGoes("statements", "open") /\ UpEnds(ups)
           \/ RunGoes("statements", "down") /\ UNCHANGED schema
           \/ RunGoes("down", "ended") /\ Down(ups)
  /\ UNCHANGED <<file, processes, web, alive, installed, cfg, inUse, installs, overlapped>>

OpenDb ==
  /\ \/ RunGoes("open", "cache") /\ inUse' = cfg
     \/ RunGoes("open", "ended") /\ UNCHANGED inUse
  /\ UNCHANGED <<file, schema, processes, web, alive, installed, cfg, ups, installs, overlapped>>

\* initCache; the indexes before it are made or not
initCache ==
  /\ RunGoes("cache", "api") \/ RunGoes("cache", "ended")
  /\ UNCHANGED <<file, schema, processes, web, alive, installed, cfg, inUse, ups, installs, overlapped>>

regApi ==
  /\ RunGoes("api", "mark")
  /\ UNCHANGED <<file, schema, processes, web, alive, installed, cfg, inUse, ups, installs, overlapped>>

RunMarks ==
  /\ RunGoes("mark", "engine")
  /\ installed' = TRUE
  /\ UNCHANGED <<file, schema, processes, web, alive, cfg, inUse, ups, installs, overlapped>>

StartEngine ==
  /\ RunGoes("engine", "running") \/ RunGoes("engine", "ended")
  /\ UNCHANGED <<file, schema, processes, web, alive, installed, cfg, inUse, ups, installs, overlapped>>

\* runHbtp: the goroutine of the transfer protocol fails
HbtpFails ==
  /\ run = "running"
  /\ alive
  /\ alive' = FALSE
  /\ UNCHANGED <<file, schema, processes, run, web, installed, cfg, inUse, ups, installs, overlapped>>

\* The web server is done, or the grace period is over.
EndRun ==
  /\ \/ ~ alive /\ RunGoes("running", "stopping")
     \/ RunGoes("stopping", "ended")
  /\ UNCHANGED <<file, schema, processes, web, alive, installed, cfg, inUse, ups, installs, overlapped>>

RunNext ==
  WaitWeb \/ parseConfig \/ AwaitInstall \/ InitDb \/ OpenDb \/ initCache \/ regApi
  \/ RunMarks \/ StartEngine \/ EndRun

\* The process ends, by itself or in the middle of anything, and another is started.
Restart ==
  /\ processes < MaxProcesses
  /\ processes' = processes + 1
  /\ run' = "webReady" /\ web' = "off" /\ alive' = TRUE
  /\ installed' = FALSE /\ cfg' = NoSource /\ inUse' = NoSource /\ ups' = NoSource
  /\ installs' = [i \in Installers |-> NoInstall]
  /\ overlapped' = FALSE
  /\ UNCHANGED <<file, schema>>

ServerNext ==
  \/ run # "ended" /\ (WebReady \/ WebDone \/ Signal \/ RunNext \/ HbtpFails)
  \/ run # "ended" /\ \E i \in Installers : Post(i) \/ Install(i)
  \/ Restart

\* The goroutine of Run goes on while it can; a migration ends.
ServerFairness == WF_serverVars(RunNext)

ServerSpec == ServerInit /\ [][ServerNext]_serverVars /\ ServerFairness

-----------------------------------------------------------------------------
(* Properties.                                                             *)

Serving == run \in {"mark", "engine", "running"}

\* Requests are served with a database that has its tables, through crashes, failed
\* migrations and starts again, unless two installations were under way at once: the
\* one that fails drops what the other has made.
ServesMigrated == Serving => schema[inUse] = "done" \/ overlapped

\* The database requests are served with is the one the next start will find in
\* app.yml, unless two installations were under way at once.
InUseIsWritten == Serving => file = Complete(inUse) \/ overlapped

\* When the web server is gone, by a signal or because it could not listen, the
\* process ends: nothing of Run waits for ever for a browser that cannot come.
WebGoneEnds == web = "done" ~> (run = "ended" \/ web # "done")

\* README.md: "Gokins reads configuration from ~/.gokins/app.yml", with "driver:
\* sqlite3"; and the file an installation has written is such a file.
ConfiguredIsRead == [][run = "parse" /\ run' = "await" => file.is # "complete"]_serverVars
=============================================================================
