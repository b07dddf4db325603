---------------------------- MODULE BuildEngine ----------------------------
(***************************************************************************)
(* The scheduler of builds (engine/buildEgn.go).  Handlers and timers Put  *)
(* builds into a list; one goroutine, woken by a channel of capacity one   *)
(* or by a ticker, moves at most one build per round from the list to the  *)
(* map of running tasks and starts a goroutine for it; that goroutine      *)
(* takes the build out of the map when BuildTask.run returns.  The list    *)
(* and the map have a lock each: run() reads both sizes, the front of the  *)
(* list, and changes list and map in separate critical sections.           *)
(***************************************************************************)
EXTENDS Naturals, Sequences, FiniteSets, Functions

CONSTANTS
  Builds,       \* the builds that may ever be put
  CfgRunLimit   \* server.runLimit of the configuration

ASSUME CfgRunLimitNat == CfgRunLimit \in Nat

\* StartBuildEngine replaces a limit below two by five.
RunLimit == IF CfgRunLimit < 2 THEN 5 ELSE CfgRunLimit

VARIABLES
  taskw,    \* the list of waiting builds
  tasks,    \* the keys of the map of running tasks
  wake,     \* wakeCh holds a token
  up,       \* comm.Ctx is alive
  stopped,  \* stopCh is closed
  loop,     \* where the goroutine of the engine stands
  waiting,  \* ln1 > 0 in run()
  front,    \* the build run() is moving
  work      \* the goroutine of startBuild of every build

vars == <<taskw, tasks, wake, up, stopped, loop, waiting, front, work>>

None == "none"

LoopPC == {"init", "head", "select", "sizeQueue", "sizeTasks", "front", "remove",
           "register", "spawn", "exit"}
WorkPC == {"new", "put", "taken", "run", "delete", "over"}

Queued == Range(taskw)

TypeOK ==
  /\ taskw \in Seq(Builds)
  /\ tasks \subseteq Builds
  /\ wake \in BOOLEAN
  /\ up \in BOOLEAN
  /\ stopped \in BOOLEAN
  /\ loop \in LoopPC
  /\ waiting \in BOOLEAN
  /\ front \in Builds \cup {None}
  /\ work \in [Builds -> WorkPC]

Init ==
  /\ taskw = <<>>
  /\ tasks = {}
  /\ wake = FALSE
  /\ up = TRUE
  /\ stopped = FALSE
  /\ loop = "init"
  /\ waiting = FALSE
  /\ front = None
  /\ work = [b \in Builds |-> "new"]

-----------------------------------------------------------------------------
(* Handlers.                                                               *)

\* Mutant of Put: PushFront.
PutFirst(b) ==
  /\ work[b] = "new"
  /\ work' = [work EXCEPT ![b] = "put"]
  /\ taskw' = <<b>> \o taskw
  /\ wake' = TRUE
  /\ UNCHANGED <<tasks, up, stopped, loop, waiting, front>>

\* Put: the push and the send that never blocks are under one lock.  Every
\* build is a new one (preBuild makes a fresh id).
Put(b) ==
  /\ work[b] = "new"
  /\ work' = [work EXCEPT ![b] = "put"]
  /\ taskw' = Append(taskw, b)
  /\ wake' = TRUE
  /\ UNCHANGED <<tasks, up, stopped, loop, waiting, front>>

\* A signal cancels comm.Ctx; the shutdown goroutine of engine.Start then calls Stop.
Shutdown ==
  /\ up
  /\ up' = FALSE
  /\ UNCHANGED <<taskw, tasks, wake, stopped, loop, waiting, front, work>>

\* Stop: stopCh is closed once; BuildTask.stop on every task is BuildTask!Stop.
Stop ==
  /\ ~ up
  /\ ~ stopped
  /\ stopped' = TRUE
  /\ UNCHANGED <<taskw, tasks, wake, up, loop, waiting, front, work>>

-----------------------------------------------------------------------------
(* The goroutine of the engine.                                            *)

LoopTo(pc) == loop' = pc

\* init(): its updates close the rows an earlier process left open.
CloseOldRows ==
  /\ loop = "init"
  /\ LoopTo("head")
  /\ UNCHANGED <<taskw, tasks, wake, up, stopped, waiting, front, work>>

LoopHead ==
  /\ loop = "head"
  /\ LoopTo(IF up THEN "select" ELSE "exit")
  /\ UNCHANGED <<taskw, tasks, wake, up, stopped, waiting, front, work>>

SelectStop ==
  /\ loop = "select"
  /\ stopped
  /\ LoopTo("exit")
  /\ UNCHANGED <<taskw, tasks, wake, up, stopped, waiting, front, work>>

\* The token is taken and a second one, sent meanwhile, is drained.
SelectWake ==
  /\ loop = "select"
  /\ wake
  /\ wake' = FALSE
  /\ LoopTo("sizeQueue")
  /\ UNCHANGED <<taskw, tasks, up, stopped, waiting, front, work>>

\* Mutant of SelectTick: without a ticker a round needs a token.
SelectTickless ==
  /\ loop = "select"
  /\ wake
  /\ LoopTo("sizeQueue")
  /\ UNCHANGED <<taskw, tasks, wake, up, stopped, waiting, front, work>>

SelectTick ==
  /\ loop = "select"
  /\ LoopTo("sizeQueue")
  /\ UNCHANGED <<taskw, tasks, wake, up, stopped, waiting, front, work>>

\* run(): ln1 under the lock of the list ...
SizeQueue ==
  /\ loop = "sizeQueue"
  /\ waiting' = (taskw # <<>>)
  /\ LoopTo("sizeTasks")
  /\ UNCHANGED <<taskw, tasks, wake, up, stopped, front, work>>

\* Mutant of Room.
RoomOffByOne == Cardinality(tasks) <= RunLimit

Room == Cardinality(tasks) < RunLimit

\* ... ln2 under the lock of the map.
SizeTasks ==
  /\ loop = "sizeTasks"
  /\ LoopTo(IF waiting /\ Room THEN "front" ELSE "head")
  /\ UNCHANGED <<taskw, tasks, wake, up, stopped, waiting, front, work>>

TakeFront ==
  /\ loop = "front"
  /\ IF taskw = <<>>
     THEN LoopTo("head") /\ UNCHANGED front
     ELSE LoopTo("remove") /\ front' = Head(taskw)
  /\ UNCHANGED <<taskw, tasks, wake, up, stopped, waiting, work>>

\* Mutant of RemoveFront: the element stays in the list.
RemoveNothing ==
  /\ loop = "remove"
  /\ LoopTo("register")
  /\ work' = [work EXCEPT ![front] = "taken"]
  /\ UNCHANGED <<taskw, tasks, wake, up, stopped, waiting, front>>

\* c.taskw.Remove(e): the element, wherever it is by now; it leaves the list from the
\* front unless somebody else took it.
RemoveFront ==
  /\ loop = "remove"
  /\ LoopTo("register")
  /\ taskw' = IF taskw # <<>> /\ Head(taskw) = front
              THEN Tail(taskw)
              ELSE SelectSeq(taskw, LAMBDA b : b # front)
  /\ work' = [work EXCEPT ![front] = "taken"]
  /\ UNCHANGED <<tasks, wake, up, stopped, waiting, front>>

\* Mutant of Register: the key is not the id of the build.
RegisterNoId ==
  /\ loop = "register"
  /\ LoopTo("spawn")
  /\ tasks' = tasks \cup {None}
  /\ UNCHANGED <<taskw, wake, up, stopped, waiting, front, work>>

Register ==
  /\ loop = "register"
  /\ LoopTo("spawn")
  /\ tasks' = tasks \cup {front}
  /\ UNCHANGED <<taskw, wake, up, stopped, waiting, front, work>>

Spawn ==
  /\ loop = "spawn"
  /\ LoopTo("head")
  /\ work' = [work EXCEPT ![front] = "run"]
  /\ front' = None
  /\ UNCHANGED <<taskw, tasks, wake, up, stopped, waiting>>

LoopNext ==
  \/ CloseOldRows \/ LoopHead \/ SelectStop \/ SelectWake \/ SelectTick
  \/ SizeQueue \/ SizeTasks \/ TakeFront \/ RemoveFront \/ Register \/ Spawn

-----------------------------------------------------------------------------
(* The goroutine of startBuild.                                            *)

\* Mutant of RunReturns: the task is forgotten before its goroutine is over.
RunReturnsForgotten(b) ==
  /\ work[b] = "run"
  /\ work' = [work EXCEPT ![b] = "delete"]
  /\ tasks' = tasks \ {b}
  /\ UNCHANGED <<taskw, wake, up, stopped, loop, waiting, front>>

RunReturns(b) ==
  /\ work[b] = "run"
  /\ work' = [work EXCEPT ![b] = "delete"]
  /\ UNCHANGED <<taskw, tasks, wake, up, stopped, loop, waiting, front>>

Delete(b) ==
  /\ work[b] = "delete"
  /\ work' = [work EXCEPT ![b] = "over"]
  /\ tasks' = tasks \ {b}
  /\ UNCHANGED <<taskw, wake, up, stopped, loop, waiting, front>>

WorkNext(b) == RunReturns(b) \/ Delete(b)

-----------------------------------------------------------------------------

Next ==
  \/ \E b \in Builds : Put(b) \/ WorkNext(b)
  \/ Shutdown \/ Stop
  \/ LoopNext

\* The loop goroutine runs and its ticker ticks; every build ends, which is what
\* BuildTask!Terminates says of the goroutine of startBuild.
Fairness == WF_vars(LoopNext) /\ \A b \in Builds : WF_vars(WorkNext(b))

Spec == Init /\ [][Next]_vars /\ Fairness

-----------------------------------------------------------------------------
(* Properties.                                                             *)

\* run() compares sizes it read in earlier critical sections; there are never more
\* builds in the map than the limit.
WithinLimit == Cardinality(tasks) <= RunLimit

\* A build whose goroutine is in BuildTask.run is found by Get: a runner that asks
\* CheckCancel about it is not told to give up.
RunningIsFound == \A b \in Builds : work[b] \in {"run", "delete"} => b \in tasks

\* The list, the hands of run(), the map and the past share the builds out: none is
\* lost between Remove and the insertion into the map, none is in two of them.
OnePlace ==
  \A b \in Builds :
    /\ (b \in Queued) <=> (work[b] = "put")
    /\ (work[b] = "taken") <=> (front = b /\ loop \in {"register", "spawn"})
    /\ (b \in tasks) <=> (work[b] \in {"run", "delete"} \/ (front = b /\ loop = "spawn"))

\* While the server is up and builds end, every build that was put is started, although
\* wakeCh holds one token for any number of builds.
Started == \A b \in Builds : work[b] = "put" ~> (b \in tasks \/ ~ up)

\* The engine implements the abstract pool.  A build counts as queued until it is in
\* the map: the step that inserts it is the abstract Start.
Pool == INSTANCE BuildPool WITH
          Limit  <- RunLimit,
          queue  <- IF loop = "register" THEN <<front>> \o taskw ELSE taskw,
          active <- tasks,
          over   <- {b \in Builds : work[b] = "over"}

ImplementsPool == Pool!Spec
=============================================================================
