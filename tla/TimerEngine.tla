---------------------------- MODULE TimerEngine ----------------------------
(***************************************************************************)
(* The timers (engine/timermgr.go) and the requests that save and delete   *)
(* triggers (route/trigger.go).  A trigger is a row of the database; one   *)
(* of type timer that is enabled has an entry in the map of the engine,    *)
(* with the time of its next tick.  The goroutine of the engine goes       *)
(* through the map every ten milliseconds, holding the lock, and fires     *)
(* what is due.  A request changes the row first and the map afterwards,   *)
(* and both may be changed by others in between; the map is built from the *)
(* rows once, when the server starts.                                      *)
(*                                                                         *)
(* One action is one statement on the database or one critical section of  *)
(* the lock of the map, which the scan holds over many steps.              *)
(***************************************************************************)
EXTENDS Naturals

CONSTANTS
  Trigs,     \* identifiers of triggers
  Handlers,  \* goroutines that serve requests
  Rows,      \* the rows users may save for a trigger
  Periods,   \* the periodic kinds in use
  Unit,      \* the calendar unit in which the saved date fixes a tick
  Step,      \* what is added to a tick to get the next one
  MaxTime,   \* bound: the last moment of the clock
  MaxLate    \* bound: how many scans a goroutine of Delete is late at most

Kinds == {"once", "bad"} \cup Periods
Row   == [types : {"timer", "other"}, enabled : BOOLEAN, kind : Kinds, date : Nat]
Timer == [kind : {"once"} \cup Periods, tick : Nat]

ASSUME TimerShape ==
  /\ Periods \subseteq {"minute", "hour", "day", "week", "month"}
  /\ Unit \in [Periods -> Nat \ {0}]
  /\ Step \in [Periods -> Nat \ {0}]
  /\ Rows \in [Trigs -> SUBSET Row]
  /\ MaxTime \in Nat
  /\ MaxLate \in Nat \ {0}
  /\ "none" \notin Trigs

NoTrig == "none"
NoTask == [kind |-> "none", tick |-> 0]
Unborn == [types |-> "unborn", enabled |-> FALSE, kind |-> "bad", date |-> 0]
Gone   == [types |-> "gone", enabled |-> FALSE, kind |-> "bad", date |-> 0]

VARIABLES
  now,       \* the clock of the server
  rows,      \* t_trigger
  runs,      \* t_trigger_run: the outcomes recorded for a trigger
  tasks,     \* TimerEngine.tasks
  deletes,   \* goroutines of execItem that have still to call Delete
  loop,      \* where the goroutine of the engine stands
  ls,        \* the rows refresh() has read and not yet reset
  todo,      \* the entries the scan has not yet looked at
  pc,        \* where a request stands
  on,        \* its trigger
  seen       \* the row it has read

dbVars   == <<rows, runs>>
loopVars == <<loop, ls, todo>>
reqVars  == <<pc, on, seen>>
vars     == <<now, dbVars, tasks, deletes, loopVars, reqVars>>

LoopPC == {"load", "reset", "sleep", "scan"}
ReqPC  == {"idle", "read", "apply", "drop", "dropRuns", "forget"}

TypeOK ==
  /\ now \in 0 .. MaxTime
  /\ rows \in [Trigs -> Row \cup {Unborn, Gone}]
  /\ runs \in [Trigs -> SUBSET {"started", "failed"}]
  /\ tasks \in [Trigs -> Timer \cup {NoTask}]
  /\ deletes \in [Trigs -> 0 .. MaxLate]
  /\ loop \in LoopPC
  /\ ls \in [Trigs -> Row \cup {Gone}]
  /\ todo \subseteq {t \in Trigs : tasks[t] # NoTask}
  /\ loop # "scan" => todo = {}
  /\ \A t \in todo : deletes[t] < MaxLate
  /\ pc \in [Handlers -> ReqPC]
  /\ on \in [Handlers -> Trigs \cup {NoTrig}]
  /\ seen \in [Handlers -> Row \cup {Unborn, Gone}]
  /\ \A h \in Handlers : pc[h] # "idle" => on[h] \in Trigs

Init ==
  /\ now = 0
  /\ rows = [t \in Trigs |-> Unborn]
  /\ runs = [t \in Trigs |-> {}]
  /\ tasks = [t \in Trigs |-> NoTask]
  /\ deletes = [t \in Trigs |-> 0]
  /\ loop = "load"
  /\ ls = [t \in Trigs |-> Gone]
  /\ todo = {}
  /\ pc = [h \in Handlers |-> "idle"]
  /\ on = [h \in Handlers |-> NoTrig]
  /\ seen = [h \in Handlers |-> Gone]

-----------------------------------------------------------------------------
(* Ticks.                                                                  *)

\* A timer is due when its tick lies strictly before now.
Due(t) == tasks[t] # NoTask /\ now > tasks[t].tick

\* Mutant of FirstTick: a tick that has passed is kept.
FirstTickPassed(k, date) == now - (now % Unit[k]) + (date % Unit[k])

\* The saved date within the current calendar unit, and one step on if that has passed.
FirstTick(k, date) ==
  LET tick == now - (now % Unit[k]) + (date % Unit[k])
  IN  IF now > tick THEN tick + Step[k] ELSE tick

\* resetOne, under the lock: a row that is no timer, that cannot be read, or whose one
\* date has passed, leaves whatever entry there is.
Reset(entry, r) ==
  IF r.types # "timer" \/ r.kind = "bad" THEN entry
  ELSE IF r.kind = "once"
       THEN IF r.date > now THEN [kind |-> "once", tick |-> r.date] ELSE entry
       ELSE [kind |-> r.kind, tick |-> FirstTick(r.kind, r.date)]

\* execItem: the next tick of a periodic timer is counted from now.
Ticked(entry) == [kind |-> entry.kind, tick |-> now + Step[entry.kind]]

\* The lock of the map is free unless a scan holds it.
Free == loop # "scan"

Wanted(r) == r.types = "timer" /\ r.enabled

-----------------------------------------------------------------------------
(* The goroutine of the engine.                                            *)

\* refresh(): one query ...
LoadRows ==
  /\ loop = "load"
  /\ ls' = [t \in Trigs |-> IF Wanted(rows[t]) THEN rows[t] ELSE Gone]
  /\ loop' = "reset"
  /\ UNCHANGED <<now, dbVars, tasks, deletes, todo, reqVars>>

\* ... which may fail: the server goes on without timers.
LoadFails ==
  /\ loop = "load"
  /\ loop' = "sleep"
  /\ UNCHANGED <<now, dbVars, tasks, deletes, ls, todo, reqVars>>

\* Mutant of ResetNext: refresh() ends with the first row.
ResetNextOnly ==
  /\ loop = "reset"
  /\ \E t \in Trigs :
       /\ ls[t] # Gone
       /\ tasks' = [tasks EXCEPT ![t] = Reset(@, ls[t])]
  /\ ls' = [t \in Trigs |-> Gone]
  /\ UNCHANGED <<now, dbVars, deletes, loop, todo, reqVars>>

\* ... and resetOne for every row of the answer.
ResetNext ==
  /\ loop = "reset"
  /\ \E t \in Trigs :
       /\ ls[t] # Gone
       /\ tasks' = [tasks EXCEPT ![t] = Reset(@, ls[t])]
       /\ ls' = [ls EXCEPT ![t] = Gone]
  /\ UNCHANGED <<now, dbVars, deletes, loop, todo, reqVars>>

Loaded ==
  /\ loop = "reset"
  /\ \A t \in Trigs : ls[t] = Gone
  /\ loop' = "sleep"
  /\ UNCHANGED <<now, dbVars, tasks, deletes, ls, todo, reqVars>>

\* run() takes the lock.  MaxLate: no Delete has been overtaken that often.
StartScan ==
  /\ loop = "sleep"
  /\ \A t \in Trigs : deletes[t] < MaxLate
  /\ loop' = "scan"
  /\ todo' = {t \in Trigs : tasks[t] # NoTask}
  /\ UNCHANGED <<now, dbVars, tasks, deletes, ls, reqVars>>

\* execItem of an entry that is not due.
SkipItem(t) ==
  /\ t \in todo
  /\ ~Due(t)
  /\ todo' = todo \ {t}
  /\ UNCHANGED <<now, dbVars, tasks, deletes, loop, ls, reqVars>>

\* Mutant of FireItem: a one-shot timer is never deleted.
FireItemStays(t) ==
  /\ t \in todo
  /\ Due(t)
  /\ todo' = todo \ {t}
  /\ tasks' = IF tasks[t].kind = "once" THEN tasks
              ELSE [tasks EXCEPT ![t] = Ticked(@)]
  /\ \E outcome \in {"started", "failed"} : runs' = [runs EXCEPT ![t] = @ \cup {outcome}]
  /\ UNCHANGED <<now, rows, deletes, loop, ls, reqVars>>

\* execItem of one that is: a goroutine to delete a one-shot timer, a new tick counted
\* from now for the others, and TriggerTimer, which records the run in any case and may
\* give a build to BuildEngine.Put.  The row of the trigger is not read.
FireItem(t) ==
  /\ t \in todo
  /\ Due(t)
  /\ todo' = todo \ {t}
  /\ IF tasks[t].kind = "once"
     THEN deletes' = [deletes EXCEPT ![t] = @ + 1] /\ UNCHANGED tasks
     ELSE tasks' = [tasks EXCEPT ![t] = Ticked(@)] /\ UNCHANGED deletes
  /\ \E outcome \in {"started", "failed"} : runs' = [runs EXCEPT ![t] = @ \cup {outcome}]
  /\ UNCHANGED <<now, rows, loop, ls, reqVars>>

EndScan ==
  /\ loop = "scan"
  /\ todo = {}
  /\ loop' = "sleep"
  /\ UNCHANGED <<now, dbVars, tasks, deletes, ls, todo, reqVars>>

LoopNext ==
  \/ LoadRows \/ LoadFails \/ ResetNext \/ Loaded \/ StartScan \/ EndScan
  \/ \E t \in Trigs : SkipItem(t) \/ FireItem(t)

\* The goroutine execItem started for a one-shot timer: whatever is there goes.
DeleteFired(t) ==
  /\ Free
  /\ deletes[t] > 0
  /\ deletes' = [deletes EXCEPT ![t] = @ - 1]
  /\ tasks' = [tasks EXCEPT ![t] = NoTask]
  /\ UNCHANGED <<now, dbVars, loopVars, reqVars>>

-----------------------------------------------------------------------------
(* Requests.                                                               *)

Begin(h, t, next, r) ==
  /\ pc' = [pc EXCEPT ![h] = next]
  /\ on' = [on EXCEPT ![h] = t]
  /\ seen' = [seen EXCEPT ![h] = r]

Return(h) == Begin(h, NoTrig, "idle", Gone)

\* save without an id: a row of a new id, and a Refresh if it is a timer.
Create(h, t, r) ==
  /\ pc[h] = "idle"
  /\ rows[t] = Unborn
  /\ rows' = [rows EXCEPT ![t] = r]
  /\ IF r.types = "timer" THEN Begin(h, t, "read", Gone) ELSE Return(h)
  /\ UNCHANGED <<now, runs, tasks, deletes, loopVars>>

\* save with an id: the update finds the row or none.  A row that is no timer any more
\* is not refreshed.
Update(h, t, r) ==
  /\ pc[h] = "idle"
  /\ rows[t] # Unborn
  /\ rows' = [rows EXCEPT ![t] = IF @ = Gone THEN Gone ELSE r]
  /\ IF r.types = "timer" THEN Begin(h, t, "read", Gone) ELSE Return(h)
  /\ UNCHANGED <<now, runs, tasks, deletes, loopVars>>

\* Refresh, the query.
ReadRow(h) ==
  /\ pc[h] = "read"
  /\ Begin(h, on[h], "apply", rows[on[h]])
  /\ UNCHANGED <<now, dbVars, tasks, deletes, loopVars>>

\* Mutant of ApplyRow: a trigger that has been disabled is reset like any other.
ApplyRowAlways(h) ==
  /\ pc[h] = "apply"
  /\ Free
  /\ tasks' = [tasks EXCEPT ![on[h]] = IF seen[h] = Gone THEN NoTask ELSE Reset(@, seen[h])]
  /\ Return(h)
  /\ UNCHANGED <<now, dbVars, deletes, loopVars>>

\* Refresh, the map: Delete or resetOne, by the row that was read.
ApplyRow(h) ==
  /\ pc[h] = "apply"
  /\ Free
  /\ tasks' = [tasks EXCEPT ![on[h]] = IF seen[h].enabled THEN Reset(@, seen[h]) ELSE NoTask]
  /\ Return(h)
  /\ UNCHANGED <<now, dbVars, deletes, loopVars>>

\* delete: reads the row ...
FindRow(h, t) ==
  /\ pc[h] = "idle"
  /\ rows[t] \notin {Unborn, Gone}
  /\ Begin(h, t, "drop", rows[t])
  /\ UNCHANGED <<now, dbVars, tasks, deletes, loopVars>>

\* ... deletes it: what was read is part of the condition, so that a row that has been
\* saved since may stay ...
DropRow(h) ==
  /\ pc[h] = "drop"
  /\ \E left \in {Gone} \cup ({rows[on[h]]} \ {seen[h]}) : rows' = [rows EXCEPT ![on[h]] = left]
  /\ Begin(h, on[h], "dropRuns", seen[h])
  /\ UNCHANGED <<now, runs, tasks, deletes, loopVars>>

\* ... and its runs ...
DropRuns(h) ==
  /\ pc[h] = "dropRuns"
  /\ runs' = [runs EXCEPT ![on[h]] = {}]
  /\ IF seen[h].types = "timer" THEN Begin(h, on[h], "forget", seen[h]) ELSE Return(h)
  /\ UNCHANGED <<now, rows, tasks, deletes, loopVars>>

\* Mutant of ForgetTask: Delete does not take the lock.
ForgetTaskUnlocked(h) ==
  /\ pc[h] = "forget"
  /\ tasks' = [tasks EXCEPT ![on[h]] = NoTask]
  /\ Return(h)
  /\ UNCHANGED <<now, dbVars, deletes, loopVars>>

\* ... and the entry, if the row it read was a timer.
ForgetTask(h) ==
  /\ pc[h] = "forget"
  /\ Free
  /\ tasks' = [tasks EXCEPT ![on[h]] = NoTask]
  /\ Return(h)
  /\ UNCHANGED <<now, dbVars, deletes, loopVars>>

\* A statement fails, as it does when the client has closed the connection.
RequestFails(h) ==
  /\ pc[h] \in {"read", "drop", "dropRuns"}
  /\ Return(h)
  /\ UNCHANGED <<now, dbVars, tasks, deletes, loopVars>>

RequestNext(h) ==
  ReadRow(h) \/ ApplyRow(h) \/ DropRow(h) \/ DropRuns(h) \/ ForgetTask(h)

RequestBegins(h) ==
  \E t \in Trigs : FindRow(h, t) \/ \E r \in Rows[t] : Create(h, t, r) \/ Update(h, t, r)

-----------------------------------------------------------------------------

Tick ==
  /\ now < MaxTime
  /\ now' = now + 1
  /\ UNCHANGED <<dbVars, tasks, deletes, loopVars, reqVars>>

\* The process ends, with its map, its goroutines and its requests, and starts again.
Restart ==
  /\ tasks' = [t \in Trigs |-> NoTask]
  /\ deletes' = [t \in Trigs |-> 0]
  /\ loop' = "load"
  /\ ls' = [t \in Trigs |-> Gone]
  /\ todo' = {}
  /\ pc' = [h \in Handlers |-> "idle"]
  /\ on' = [h \in Handlers |-> NoTrig]
  /\ seen' = [h \in Handlers |-> Gone]
  /\ UNCHANGED <<now, dbVars>>

Next ==
  \/ LoopNext
  \/ \E t \in Trigs : DeleteFired(t)
  \/ \E h \in Handlers : RequestBegins(h) \/ RequestNext(h) \/ RequestFails(h)
  \/ Tick
  \/ Restart

\* The goroutines of the engine run; nothing is assumed of users or of the clock.
Fairness ==
  /\ WF_vars(LoopNext)
  /\ \A t \in Trigs : WF_vars(DeleteFired(t))

Spec == Init /\ [][Next]_vars /\ Fairness

\* What the code relies on: requests about triggers one at a time, none while refresh()
\* is at work, no statement that fails, and no timer that is given another type.
CalmRequest ==
  /\ loop \in {"sleep", "scan"}
  /\ \A h \in Handlers : pc[h] = "idle"
  /\ \E h \in Handlers, t \in Trigs :
       \/ FindRow(h, t)
       \/ \E r \in Rows[t] : r.types = "timer" /\ (Create(h, t, r) \/ Update(h, t, r))

CalmLoop ==
  \/ LoadRows \/ ResetNext \/ Loaded \/ StartScan \/ EndScan
  \/ \E t \in Trigs : SkipItem(t) \/ FireItem(t)

CalmNext ==
  \/ CalmLoop
  \/ \E t \in Trigs : DeleteFired(t)
  \/ CalmRequest
  \/ \E h \in Handlers : RequestNext(h)
  \/ Tick
  \/ Restart

CalmSpec == Init /\ [][CalmNext]_vars

-----------------------------------------------------------------------------
(* Properties.                                                             *)

Busy(t) == \E h \in Handlers : pc[h] # "idle" /\ on[h] = t

\* Nothing fires for a trigger that was deleted or disabled, once that request is over:
\* whatever the interleaving of requests, scans and restarts, what is left in the map has
\* an enabled row of type timer.
EntryHasRow == \A t \in Trigs : tasks[t] # NoTask => Wanted(rows[t]) \/ Busy(t)

\* A periodic trigger that was saved stays scheduled, as the kind that was saved: neither
\* scans nor a restart at any point lose it.
Registered ==
  \A t \in Trigs :
    /\ Wanted(rows[t]) /\ rows[t].kind \in Periods
    /\ ~Busy(t) /\ loop # "load" /\ ls[t] = Gone
    => tasks[t].kind = rows[t].kind

\* Saving, loading or firing a timer gives it a tick that lies ahead, and of a periodic
\* one no further than a period: no timer fires at once, or sleeps through a turn.
TickAhead ==
  [][\A t \in Trigs : tasks'[t] # tasks[t] /\ tasks'[t] # NoTask =>
       /\ now <= tasks'[t].tick
       /\ tasks'[t].kind \in Periods => tasks'[t].tick <= now + Step[tasks'[t].kind]]_vars

\* What is due does not stay due: it fires, and a one-shot timer that fired leaves the map
\* although only a goroutine that waits for the lock of the scan deletes it.
FiredLeaves == \A t \in Trigs : Due(t) ~> ~Due(t)
=============================================================================
