------------------------- MODULE TimerEngineProofs -------------------------
(***************************************************************************)
(* Proofs about TimerEngine, for every set of triggers, requests and rows, *)
(* every period and every bound of the clock.                              *)
(***************************************************************************)
EXTENDS TimerEngine, TLAPS

-----------------------------------------------------------------------------
(* Ticks.                                                                  *)

\* What is left of a number is less than the unit, and no more than the number.
LEMMA Remainder ==
  ASSUME NEW a \in Nat, NEW u \in Nat \ {0}
  PROVE  a % u \in 0 .. u - 1 /\ a % u <= a
<1>1. a % u \in 0 .. u - 1
  BY SMT
<1>2. a % u <= a
  BY SMT
<1>3. QED
  BY <1>1, <1>2

\* A first tick is a moment; when the unit is the step, it lies ahead by a step at most.
LEMMA FirstTickBounds ==
  ASSUME now \in Nat, NEW k \in Periods, NEW d \in Nat
  PROVE  /\ FirstTick(k, d) \in Nat
         /\ Unit[k] = Step[k] => now <= FirstTick(k, d) /\ FirstTick(k, d) <= now + Step[k]
<1>1. PICK u \in Nat \ {0}, s \in Nat \ {0} : u = Unit[k] /\ s = Step[k]
  BY TimerShape
<1> DEFINE p == now % u
           q == d % u
<1>2. p \in Nat /\ p < u /\ p <= now /\ q \in Nat /\ q < u
  <2>1. p \in 0 .. u - 1 /\ p <= now
    BY Remainder
  <2>2. q \in 0 .. u - 1
    BY Remainder
  <2> HIDE DEF p, q
  <2>3. QED
    BY <2>1, <2>2
<1> HIDE DEF p, q
<1>3. PICK m \in Nat : m = now - p + q /\ m + p = now + q
  BY <1>2
<1>4. FirstTick(k, d) = IF now > m THEN m + s ELSE m
  BY <1>1, <1>2, <1>3 DEF FirstTick, p, q
<1>5. (IF now > m THEN m + s ELSE m) \in Nat
  BY <1>1, <1>3
<1>6. u = s => now <= (IF now > m THEN m + s ELSE m) /\ (IF now > m THEN m + s ELSE m) <= now + s
  BY <1>1, <1>2, <1>3
<1>7. QED
  BY <1>1, <1>4, <1>5, <1>6

\* resetOne makes timers of rows.
LEMMA ResetType ==
  ASSUME now \in Nat, NEW e \in Timer \cup {NoTask}, NEW r \in Row \cup {Unborn, Gone}
  PROVE  Reset(e, r) \in Timer \cup {NoTask}
<1>1. CASE r.types # "timer" \/ r.kind = "bad" \/ (r.kind = "once" /\ ~(r.date > now))
  BY <1>1 DEF Reset
<1>2. CASE r.types = "timer" /\ r.kind = "once" /\ r.date > now
  BY <1>2 DEF Reset, Timer, Row, Unborn, Gone
<1>3. CASE r.types = "timer" /\ r.kind \notin {"bad", "once"}
  <2>1. r.kind \in Periods /\ r.date \in Nat
    BY <1>3 DEF Row, Kinds, Unborn, Gone
  <2>2. FirstTick(r.kind, r.date) \in Nat
    BY <2>1, FirstTickBounds
  <2>3. QED
    BY <1>3, <2>1, <2>2 DEF Reset, Timer
<1>4. QED
  BY <1>1, <1>2, <1>3

\* A timer has a kind, and no kind is the name of nothing.
LEMMA TimerIsSome ==
  ASSUME NEW e \in Timer
  PROVE  e # NoTask /\ e.kind \in {"once"} \cup Periods /\ e.tick \in Nat /\ "none" \notin Periods
BY TimerShape DEF Timer, NoTask

-----------------------------------------------------------------------------
(* Types.                                                                  *)

\* The part of TypeOK that is about the goroutine of the engine and the map.
MapTypes ==
  /\ tasks \in [Trigs -> Timer \cup {NoTask}]
  /\ deletes \in [Trigs -> 0 .. MaxLate]
  /\ loop \in LoopPC
  /\ ls \in [Trigs -> Row \cup {Gone}]
  /\ todo \subseteq {t \in Trigs : tasks[t] # NoTask}
  /\ loop # "scan" => todo = {}
  /\ \A t \in todo : deletes[t] < MaxLate

\* The part of TypeOK that is about the clock and the database.
DbTypes ==
  /\ now \in 0 .. MaxTime
  /\ rows \in [Trigs -> Row \cup {Unborn, Gone}]
  /\ runs \in [Trigs -> SUBSET {"started", "failed"}]

\* The part of TypeOK that is about the requests.
ReqTypes ==
  /\ pc \in [Handlers -> ReqPC]
  /\ on \in [Handlers -> Trigs \cup {NoTrig}]
  /\ seen \in [Handlers -> Row \cup {Unborn, Gone}]
  /\ \A h \in Handlers : pc[h] # "idle" => on[h] \in Trigs

\* The three parts are TypeOK, before and after a step.
LEMMA TypeParts ==
  /\ TypeOK <=> MapTypes /\ DbTypes /\ ReqTypes
  /\ TypeOK' <=> MapTypes' /\ DbTypes' /\ ReqTypes'
BY DEF TypeOK, MapTypes, DbTypes, ReqTypes

\* The variables of the requests keep their types when a request moves on.
LEMMA BeginTypes ==
  ASSUME ReqTypes, NEW h \in Handlers, NEW t \in Trigs, NEW next \in ReqPC,
         NEW r \in Row \cup {Unborn, Gone}, Begin(h, t, next, r)
  PROVE  ReqTypes'
BY DEF ReqTypes, Begin

\* And when it returns.
LEMMA ReturnTypes ==
  ASSUME ReqTypes, NEW h \in Handlers, Return(h)
  PROVE  ReqTypes'
BY DEF ReqTypes, Return, Begin, ReqPC

\* The server starts with an empty map.
LEMMA InitType == Init => TypeOK
BY TimerShape DEF Init, TypeOK, LoopPC, ReqPC

\* The goroutines of the engine preserve the types of the map.
LEMMA MapStep ==
  ASSUME TypeOK, LoopNext \/ \E t \in Trigs : DeleteFired(t)
  PROVE  MapTypes'
<1>0. now \in Nat
  BY TimerShape DEF TypeOK
<1>1. CASE LoadRows
  BY <1>1 DEF TypeOK, MapTypes, LoadRows, Wanted, LoopPC, Unborn, Gone
<1>2. CASE LoadFails
  BY <1>2 DEF TypeOK, MapTypes, LoadFails, LoopPC
<1>3. CASE ResetNext
  <2>1. PICK t \in Trigs :
          /\ tasks' = [tasks EXCEPT ![t] = Reset(@, ls[t])]
          /\ ls' = [ls EXCEPT ![t] = Gone]
    BY <1>3 DEF ResetNext
  <2>2. Reset(tasks[t], ls[t]) \in Timer \cup {NoTask}
    BY <1>0, ResetType DEF TypeOK
  <2>3. todo = {} /\ UNCHANGED <<deletes, loop, todo>>
    BY <1>3 DEF ResetNext, TypeOK
  <2>4. QED
    BY <2>1, <2>2, <2>3 DEF TypeOK, MapTypes
<1>4. CASE Loaded
  BY <1>4 DEF TypeOK, MapTypes, Loaded, LoopPC
<1>5. CASE StartScan
  BY <1>5 DEF TypeOK, MapTypes, StartScan, LoopPC
<1>6. CASE EndScan
  BY <1>6 DEF TypeOK, MapTypes, EndScan, LoopPC
<1>7. ASSUME NEW t \in Trigs, SkipItem(t) PROVE MapTypes'
  BY <1>7 DEF TypeOK, MapTypes, SkipItem
<1>8. ASSUME NEW t \in Trigs, FireItem(t) PROVE MapTypes'
  <2>1. tasks[t] \in Timer /\ t \in todo
    BY <1>8 DEF FireItem, TypeOK
  <2>2. tasks[t].kind \in {"once"} \cup Periods
    BY <2>1, TimerIsSome
  <2>3. CASE tasks[t].kind = "once"
    <3>1. UNCHANGED <<tasks, loop, ls>> /\ deletes' = [deletes EXCEPT ![t] = @ + 1] /\ todo' = todo \ {t}
      BY <1>8, <2>3 DEF FireItem
    <3>2. deletes[t] + 1 \in 0 .. MaxLate
      BY <2>1, TimerShape DEF TypeOK
    <3>3. QED
      BY <3>1, <3>2 DEF TypeOK, MapTypes
  <2>4. CASE tasks[t].kind # "once"
    <3>1. /\ UNCHANGED <<deletes, loop, ls>> /\ todo' = todo \ {t}
          /\ tasks' = [tasks EXCEPT ![t] = Ticked(@)]
      BY <1>8, <2>4 DEF FireItem
    <3>2. Ticked(tasks[t]) \in Timer
      <4>1. tasks[t].kind \in Periods
        BY <2>2, <2>4
      <4>2. PICK n \in Nat : n = Step[tasks[t].kind]
        BY <4>1, TimerShape
      <4>3. QED
        BY <1>0, <4>1, <4>2 DEF Ticked, Timer
    <3>3. tasks' \in [Trigs -> Timer \cup {NoTask}]
      BY <3>1, <3>2 DEF TypeOK
    <3>4. \A u \in Trigs : tasks[u] # NoTask => tasks'[u] # NoTask
      BY <3>1, <3>2, TimerIsSome DEF TypeOK
    <3>5. QED
      BY <3>1, <3>3, <3>4 DEF TypeOK, MapTypes
  <2>5. QED
    BY <2>3, <2>4
<1>9. ASSUME NEW t \in Trigs, DeleteFired(t) PROVE MapTypes'
  <2>1. /\ todo = {} /\ loop # "scan" /\ UNCHANGED <<loop, ls, todo>>
        /\ deletes' = [deletes EXCEPT ![t] = @ - 1] /\ deletes[t] > 0
        /\ tasks' = [tasks EXCEPT ![t] = NoTask]
    BY <1>9 DEF TypeOK, DeleteFired, Free, loopVars
  <2>2. deletes[t] - 1 \in 0 .. MaxLate
    BY <2>1, TimerShape DEF TypeOK
  <2>3. QED
    BY <2>1, <2>2 DEF TypeOK, MapTypes
<1>10. QED
  BY <1>1, <1>2, <1>3, <1>4, <1>5, <1>6, <1>7, <1>8, <1>9 DEF LoopNext

\* The map and the loop keep their types when only the entry of one trigger changes,
\* while the lock is free.
LEMMA EntryTypes ==
  ASSUME MapTypes, Free, NEW t \in Trigs, NEW e \in Timer \cup {NoTask},
         tasks' = [tasks EXCEPT ![t] = e], UNCHANGED <<deletes, loopVars>>
  PROVE  MapTypes'
<1>1. todo = {} /\ UNCHANGED <<deletes, loop, ls, todo>>
  BY DEF MapTypes, Free, loopVars
<1>2. QED
  BY <1>1 DEF MapTypes

\* Requests preserve the types.
LEMMA RequestTypes ==
  ASSUME TypeOK, NEW h \in Handlers,
         RequestBegins(h) \/ RequestNext(h) \/ RequestFails(h)
  PROVE  TypeOK'
<1>0. MapTypes /\ DbTypes /\ ReqTypes
  BY TypeParts
<1>1. ASSUME UNCHANGED <<tasks, deletes, loopVars>> PROVE MapTypes'
  BY <1>0, <1>1 DEF MapTypes, loopVars
<1>2. ASSUME UNCHANGED <<now, dbVars>> PROVE DbTypes'
  BY <1>0, <1>2 DEF DbTypes, dbVars
<1>3. ASSUME NEW t \in Trigs, NEW r \in Rows[t], Create(h, t, r) \/ Update(h, t, r) PROVE TypeOK'
  <2>1. r \in Row
    BY TimerShape
  <2>2. DbTypes'
    BY <1>0, <1>3, <2>1 DEF DbTypes, Create, Update
  <2>3. Begin(h, t, "read", Gone) \/ Return(h)
    BY <1>3 DEF Create, Update
  <2>4. ReqTypes'
    BY <1>0, <2>3, BeginTypes, ReturnTypes DEF ReqPC
  <2>5. UNCHANGED <<tasks, deletes, loopVars>>
    BY <1>3 DEF Create, Update
  <2>6. QED
    BY <1>1, <2>2, <2>4, <2>5, TypeParts
<1>4. ASSUME NEW t \in Trigs, FindRow(h, t) PROVE TypeOK'
  <2>1. Begin(h, t, "drop", rows[t]) /\ rows[t] \in Row \cup {Unborn, Gone}
    BY <1>0, <1>4 DEF FindRow, DbTypes
  <2>2. ReqTypes'
    BY <1>0, <2>1, BeginTypes DEF ReqPC
  <2>3. UNCHANGED <<tasks, deletes, loopVars>> /\ UNCHANGED <<now, dbVars>>
    BY <1>4 DEF FindRow
  <2>4. QED
    BY <1>1, <1>2, <2>2, <2>3, TypeParts
<1>5. ASSUME ReadRow(h) PROVE TypeOK'
  <2>1. on[h] \in Trigs /\ rows[on[h]] \in Row \cup {Unborn, Gone}
    BY <1>0, <1>5 DEF ReadRow, ReqTypes, DbTypes
  <2>2. ReqTypes'
    BY <1>0, <1>5, <2>1, BeginTypes DEF ReadRow, ReqPC
  <2>3. UNCHANGED <<tasks, deletes, loopVars>> /\ UNCHANGED <<now, dbVars>>
    BY <1>5 DEF ReadRow
  <2>4. QED
    BY <1>1, <1>2, <2>2, <2>3, TypeParts
<1>6. ASSUME ApplyRow(h) \/ ForgetTask(h) PROVE TypeOK'
  <2>1. on[h] \in Trigs /\ seen[h] \in Row \cup {Unborn, Gone}
    BY <1>0, <1>6 DEF ApplyRow, ForgetTask, ReqTypes
  <2>2. now \in Nat /\ tasks[on[h]] \in Timer \cup {NoTask}
    BY <1>0, <2>1, TimerShape DEF DbTypes, MapTypes
  <2>3. PICK e \in Timer \cup {NoTask} : tasks' = [tasks EXCEPT ![on[h]] = e]
    BY <1>6, <2>1, <2>2, ResetType DEF ApplyRow, ForgetTask
  <2>4. Free /\ Return(h) /\ UNCHANGED <<deletes, loopVars>> /\ UNCHANGED <<now, dbVars>>
    BY <1>6 DEF ApplyRow, ForgetTask
  <2>5. MapTypes'
    BY <1>0, <2>1, <2>3, <2>4, EntryTypes
  <2>6. QED
    BY <1>0, <1>2, <2>4, <2>5, ReturnTypes, TypeParts
<1>7. ASSUME DropRow(h) \/ DropRuns(h) PROVE TypeOK'
  <2>1. on[h] \in Trigs /\ seen[h] \in Row \cup {Unborn, Gone}
    BY <1>0, <1>7 DEF DropRow, DropRuns, ReqTypes
  <2>2. Begin(h, on[h], "dropRuns", seen[h]) \/ Begin(h, on[h], "forget", seen[h]) \/ Return(h)
    BY <1>7 DEF DropRow, DropRuns
  <2>3. ReqTypes'
    BY <1>0, <2>1, <2>2, BeginTypes, ReturnTypes DEF ReqPC
  <2>4. DbTypes'
    BY <1>0, <1>7 DEF DbTypes, DropRow, DropRuns
  <2>5. UNCHANGED <<tasks, deletes, loopVars>>
    BY <1>7 DEF DropRow, DropRuns
  <2>6. QED
    BY <1>1, <2>3, <2>4, <2>5, TypeParts
<1>8. ASSUME RequestFails(h) PROVE TypeOK'
  <2>1. Return(h) /\ UNCHANGED <<tasks, deletes, loopVars>> /\ UNCHANGED <<now, dbVars>>
    BY <1>8 DEF RequestFails
  <2>2. QED
    BY <1>0, <1>1, <1>2, <2>1, ReturnTypes, TypeParts
<1>9. QED
  BY <1>3, <1>4, <1>5, <1>6, <1>7, <1>8 DEF RequestBegins, RequestNext

\* Every step preserves the types.
LEMMA TypeStep == TypeOK /\ [Next]_vars => TypeOK'
<1> SUFFICES ASSUME TypeOK, [Next]_vars PROVE TypeOK'
  OBVIOUS
<1>0. MapTypes /\ DbTypes /\ ReqTypes
  BY TypeParts
<1>1. CASE LoopNext \/ \E t \in Trigs : DeleteFired(t)
  <2>1. MapTypes'
    BY <1>1, MapStep
  <2>2. UNCHANGED <<now, rows, reqVars>>
    BY <1>1 DEF LoopNext, LoadRows, LoadFails, ResetNext, Loaded, StartScan, EndScan,
                SkipItem, FireItem, DeleteFired, dbVars
  <2>3. runs' \in [Trigs -> SUBSET {"started", "failed"}]
    <3>1. ASSUME NEW t \in Trigs, FireItem(t) PROVE runs' \in [Trigs -> SUBSET {"started", "failed"}]
      BY <1>0, <3>1 DEF FireItem, DbTypes
    <3>2. CASE UNCHANGED runs
      BY <1>0, <3>2 DEF DbTypes
    <3>3. (\E t \in Trigs : FireItem(t)) \/ UNCHANGED runs
      BY <1>1 DEF LoopNext, LoadRows, LoadFails, ResetNext, Loaded, StartScan, EndScan,
                  SkipItem, DeleteFired, dbVars
    <3>4. QED
      BY <3>1, <3>2, <3>3
  <2>4. DbTypes' /\ ReqTypes'
    BY <1>0, <2>2, <2>3 DEF DbTypes, ReqTypes, reqVars
  <2>5. QED
    BY <2>1, <2>4, TypeParts
<1>2. ASSUME NEW h \in Handlers, RequestBegins(h) \/ RequestNext(h) \/ RequestFails(h) PROVE TypeOK'
  BY <1>2, RequestTypes
<1>3. CASE Tick
  <2>1. now' \in 0 .. MaxTime
    BY <1>0, <1>3, TimerShape DEF Tick, DbTypes
  <2>2. QED
    BY <1>3, <2>1 DEF Tick, TypeOK, dbVars, loopVars, reqVars
<1>4. CASE Restart
  BY <1>4, TimerShape DEF Restart, TypeOK, LoopPC, ReqPC, dbVars
<1>5. CASE UNCHANGED vars
  BY <1>5 DEF TypeOK, vars, dbVars, loopVars, reqVars
<1>6. QED
  BY <1>1, <1>2, <1>3, <1>4, <1>5 DEF Next

\* Map, rows, requests and loop keep their types in every run, and no scan fires a timer
\* more often than Delete may be late.
THEOREM TypeCorrect == Spec => []TypeOK
BY InitType, TypeStep, PTL DEF Spec

-----------------------------------------------------------------------------
(* Ticks lie ahead.                                                        *)

\* A timer whose tick lies ahead, by a period at most.
Ahead(e) == now <= e.tick /\ (e.kind \in Periods => e.tick <= now + Step[e.kind])

\* resetOne leaves an entry, or makes one whose tick lies ahead.
LEMMA ResetAhead ==
  ASSUME now \in Nat, Unit = Step, NEW e, NEW r \in Row \cup {Unborn, Gone}
  PROVE  Reset(e, r) = e \/ Ahead(Reset(e, r))
<1>1. CASE r.types # "timer" \/ r.kind = "bad" \/ (r.kind = "once" /\ ~(r.date > now))
  BY <1>1 DEF Reset
<1>2. CASE r.types = "timer" /\ r.kind = "once" /\ r.date > now
  <2>1. Reset(e, r) = [kind |-> "once", tick |-> r.date]
    BY <1>2 DEF Reset
  <2>2. "once" \notin Periods
    BY TimerShape
  <2>3. r.date \in Nat
    BY <1>2 DEF Row, Unborn, Gone
  <2>4. QED
    BY <1>2, <2>1, <2>2, <2>3 DEF Ahead
<1>3. CASE r.types = "timer" /\ r.kind \notin {"bad", "once"}
  <2>1. r.kind \in Periods /\ r.date \in Nat
    BY <1>3 DEF Row, Kinds, Unborn, Gone
  <2>2. now <= FirstTick(r.kind, r.date) /\ FirstTick(r.kind, r.date) <= now + Step[r.kind]
    BY <2>1, FirstTickBounds
  <2>3. QED
    BY <1>3, <2>1, <2>2 DEF Reset, Ahead
<1>4. QED
  BY <1>1, <1>2, <1>3

\* Where the calendar unit is the period (every minute, hour, day, but neither week nor
\* month), no save, load or firing makes a timer due at once or lets it miss a period.
THEOREM TicksLieAhead ==
  ASSUME Unit = Step
  PROVE  Spec => TickAhead
<1> DEFINE Kept == \A t \in Trigs : tasks'[t] = tasks[t] \/ tasks'[t] = NoTask \/ Ahead(tasks'[t])
<1>1. TypeOK /\ [Next]_vars => Kept
  <2> SUFFICES ASSUME TypeOK, [Next]_vars PROVE Kept
    OBVIOUS
  <2>0. /\ now \in Nat /\ tasks \in [Trigs -> Timer \cup {NoTask}]
        /\ rows \in [Trigs -> Row \cup {Unborn, Gone}] /\ ls \in [Trigs -> Row \cup {Gone}]
        /\ seen \in [Handlers -> Row \cup {Unborn, Gone}]
        /\ \A t \in todo : t \in Trigs /\ tasks[t] # NoTask
    BY TimerShape DEF TypeOK
  <2>1. CASE UNCHANGED tasks
    BY <2>1
  <2>2. CASE ResetNext
    <3>1. PICK t \in Trigs : tasks' = [tasks EXCEPT ![t] = Reset(@, ls[t])]
      BY <2>2 DEF ResetNext
    <3>2. Reset(tasks[t], ls[t]) = tasks[t] \/ Ahead(Reset(tasks[t], ls[t]))
      BY <2>0, ResetAhead
    <3>3. QED
      BY <2>0, <3>1, <3>2
  <2>3. ASSUME NEW t \in Trigs, FireItem(t) PROVE Kept
    <3>1. CASE UNCHANGED tasks
      BY <3>1
    <3>2. CASE tasks' = [tasks EXCEPT ![t] = Ticked(@)] /\ tasks[t].kind # "once"
      <4>1. tasks[t].kind \in Periods
        BY <2>0, <2>3, <3>2, TimerIsSome DEF FireItem
      <4>2. PICK n \in Nat : n = Step[tasks[t].kind]
        BY <4>1, TimerShape
      <4>3. Ahead(Ticked(tasks[t]))
        BY <2>0, <4>1, <4>2 DEF Ahead, Ticked
      <4>4. QED
        BY <2>0, <3>2, <4>3
    <3>3. QED
      BY <2>3, <3>1, <3>2 DEF FireItem
  <2>4. ASSUME NEW t \in Trigs, DeleteFired(t) PROVE Kept
    BY <2>0, <2>4 DEF DeleteFired
  <2>5. ASSUME NEW h \in Handlers, ApplyRow(h) PROVE Kept
    <3>1. on[h] \in Trigs
      BY <2>5 DEF ApplyRow, TypeOK
    <3>2. Reset(tasks[on[h]], seen[h]) = tasks[on[h]] \/ Ahead(Reset(tasks[on[h]], seen[h]))
      BY <2>0, ResetAhead
    <3>3. QED
      BY <2>0, <2>5, <3>1, <3>2 DEF ApplyRow
  <2>6. ASSUME NEW h \in Handlers, ForgetTask(h) PROVE Kept
    BY <2>0, <2>6 DEF ForgetTask
  <2>7. CASE Restart
    BY <2>7 DEF Restart
  <2>8. \/ UNCHANGED tasks \/ ResetNext \/ Restart
        \/ \E t \in Trigs : FireItem(t) \/ DeleteFired(t)
        \/ \E h \in Handlers : ApplyRow(h) \/ ForgetTask(h)
    BY DEF Next, LoopNext, RequestBegins, RequestNext, LoadRows, LoadFails, Loaded, StartScan,
           EndScan, SkipItem, Create, Update, FindRow, ReadRow, DropRow, DropRuns,
           RequestFails, Tick, vars
  <2>9. QED
    BY <2>1, <2>2, <2>3, <2>4, <2>5, <2>6, <2>7, <2>8
<1>2. Kept => \A t \in Trigs : tasks'[t] # tasks[t] /\ tasks'[t] # NoTask =>
        /\ now <= tasks'[t].tick
        /\ tasks'[t].kind \in Periods => tasks'[t].tick <= now + Step[tasks'[t].kind]
  BY DEF Ahead
<1>3. QED
  BY <1>1, <1>2, TypeCorrect, PTL DEF Spec, TickAhead

-----------------------------------------------------------------------------
(* The map and the rows agree.                                             *)

\* Requests come one at a time, and none while the rows are loaded.
Serial ==
  /\ \A g, h \in Handlers : pc[g] # "idle" /\ pc[h] # "idle" => g = h
  /\ loop \in {"load", "reset"} => \A h \in Handlers : pc[h] = "idle"

\* Every row there is, is a timer.
AllTimers == \A t \in Trigs : rows[t].types \in {"timer", "unborn", "gone"}

\* What was loaded and not yet reset is what the database holds.
LoadedRows ==
  /\ loop = "load" => \A t \in Trigs : tasks[t] = NoTask
  /\ \A t \in Trigs : ls[t] # Gone => loop = "reset" /\ ls[t] = rows[t] /\ Wanted(rows[t])

\* What a request has read still holds.
ReadRows ==
  \A h \in Handlers :
    /\ pc[h] \in {"apply", "drop"} => seen[h] = rows[on[h]]
    /\ pc[h] \in {"drop", "dropRuns", "forget"} => seen[h].types = "timer"
    /\ pc[h] \in {"dropRuns", "forget"} => rows[on[h]] = Gone

\* The inductive invariant of CalmSpec.
CalmInv == TypeOK /\ Serial /\ AllTimers /\ LoadedRows /\ ReadRows /\ EntryHasRow

\* The map is empty, and so are the rows, when the server starts for the first time.
LEMMA InitCalm == Init => CalmInv
<1> SUFFICES ASSUME Init PROVE CalmInv
  OBVIOUS
<1>1. TypeOK
  BY InitType
<1>2. Serial /\ AllTimers /\ LoadedRows /\ ReadRows /\ EntryHasRow
  BY DEF Init, Serial, AllTimers, LoadedRows, ReadRows, EntryHasRow, Unborn
<1>3. QED
  BY <1>1, <1>2 DEF CalmInv

\* The parts of CalmInv but for the types.
CalmParts == Serial /\ AllTimers /\ LoadedRows /\ ReadRows /\ EntryHasRow

\* resetOne adds an entry only for a row of type timer, and never removes one.
LEMMA ResetAdds ==
  ASSUME NEW e, NEW r, Reset(e, r) # e
  PROVE  r.types = "timer"
BY DEF Reset

\* The goroutines of the engine keep map and rows in agreement.
LEMMA CalmEngine ==
  ASSUME CalmInv, CalmLoop \/ \E t \in Trigs : DeleteFired(t)
  PROVE  CalmParts'
<1>0. TypeOK /\ CalmParts
  BY DEF CalmInv, CalmParts
<1>1. UNCHANGED <<rows, reqVars>>
  BY DEF CalmLoop, LoadRows, ResetNext, Loaded, StartScan, EndScan, SkipItem, FireItem,
         DeleteFired, dbVars
<1>2. AllTimers' /\ ReadRows' /\ \A t \in Trigs : Busy(t)' <=> Busy(t)
  BY <1>0, <1>1 DEF CalmParts, AllTimers, ReadRows, Busy, reqVars
<1>3. CASE LoadRows
  <2>1. Serial' /\ LoadedRows' /\ EntryHasRow'
    BY <1>0, <1>1, <1>2, <1>3
       DEF LoadRows, CalmParts, Serial, LoadedRows, EntryHasRow, reqVars, dbVars
  <2>2. QED
    BY <1>2, <2>1 DEF CalmParts
<1>4. CASE ResetNext
  <2>1. PICK t \in Trigs : /\ ls[t] # Gone
                           /\ tasks' = [tasks EXCEPT ![t] = Reset(@, ls[t])]
                           /\ ls' = [ls EXCEPT ![t] = Gone]
    BY <1>4 DEF ResetNext
  <2>2. loop = "reset" /\ loop' = loop /\ Wanted(rows[t])
    BY <1>0, <1>4, <2>1 DEF ResetNext, CalmParts, LoadedRows
  <2>3. tasks \in [Trigs -> Timer \cup {NoTask}] /\ ls \in [Trigs -> Row \cup {Gone}]
    BY <1>0 DEF TypeOK
  <2>4. Serial' /\ LoadedRows'
    BY <1>0, <1>1, <2>1, <2>2, <2>3 DEF CalmParts, Serial, LoadedRows, reqVars
  <2>5. EntryHasRow'
    BY <1>0, <1>1, <1>2, <2>1, <2>2, <2>3 DEF CalmParts, EntryHasRow
  <2>6. QED
    BY <1>2, <2>4, <2>5 DEF CalmParts
<1>5. CASE UNCHANGED tasks /\ UNCHANGED ls /\ ~LoadRows /\ ~ResetNext
  <2>1. loop' \notin {"load", "reset"} \/ UNCHANGED loop
    BY <1>5 DEF CalmLoop, Loaded, StartScan, EndScan, SkipItem, FireItem, DeleteFired, loopVars
  <2>2. loop = "reset" /\ loop' # "reset" => \A t \in Trigs : ls[t] = Gone
    BY <1>5 DEF CalmLoop, Loaded, StartScan, EndScan, SkipItem, FireItem, DeleteFired, loopVars
  <2>3. Serial'
    BY <1>0, <1>1, <2>1 DEF CalmParts, Serial, reqVars
  <2>4. LoadedRows'
    BY <1>0, <1>1, <1>5, <2>1, <2>2 DEF CalmParts, LoadedRows
  <2>5. EntryHasRow'
    BY <1>0, <1>1, <1>2, <1>5 DEF CalmParts, EntryHasRow
  <2>6. QED
    BY <1>2, <2>3, <2>4, <2>5 DEF CalmParts
<1>6. ASSUME NEW t \in Trigs, NEW e, tasks' = [tasks EXCEPT ![t] = e],
             loop \notin {"load"}, UNCHANGED <<loop, ls>>,
             e = NoTask \/ tasks[t] # NoTask
      PROVE  CalmParts'
  <2>1. tasks \in [Trigs -> Timer \cup {NoTask}]
    BY <1>0 DEF TypeOK
  <2>2. Serial'
    BY <1>0, <1>1, <1>6 DEF CalmParts, Serial, reqVars
  <2>3. LoadedRows'
    BY <1>0, <1>1, <1>6 DEF CalmParts, LoadedRows
  <2>4. EntryHasRow'
    BY <1>0, <1>1, <1>2, <1>6, <2>1 DEF CalmParts, EntryHasRow
  <2>5. QED
    BY <1>2, <2>2, <2>3, <2>4 DEF CalmParts
<1>7. ASSUME NEW t \in Trigs, FireItem(t) PROVE CalmParts'
  <2>1. loop = "scan" /\ tasks[t] # NoTask /\ UNCHANGED <<loop, ls>>
    BY <1>0, <1>7 DEF FireItem, TypeOK
  <2>2. CASE UNCHANGED tasks
    <3>1. ~LoadRows /\ ~ResetNext
      BY <2>1 DEF LoadRows, ResetNext
    <3>2. QED
      BY <1>5, <2>1, <2>2, <3>1
  <2>3. CASE tasks' = [tasks EXCEPT ![t] = Ticked(@)]
    BY <1>6, <2>1, <2>3
  <2>4. QED
    BY <1>7, <2>2, <2>3 DEF FireItem
<1>8. ASSUME NEW t \in Trigs, DeleteFired(t) PROVE CalmParts'
  <2>1. CASE loop # "load"
    BY <1>6, <1>8, <2>1 DEF DeleteFired, loopVars
  <2>2. CASE loop = "load"
    <3>1. tasks' = tasks /\ UNCHANGED <<loop, ls>>
      <4>1. tasks[t] = NoTask /\ tasks \in [Trigs -> Timer \cup {NoTask}]
        BY <1>0, <2>2 DEF CalmParts, LoadedRows, TypeOK
      <4>2. QED
        BY <1>8, <4>1 DEF DeleteFired, loopVars
    <3>2. Serial' /\ LoadedRows' /\ EntryHasRow'
      BY <1>0, <1>1, <1>2, <3>1 DEF CalmParts, Serial, LoadedRows, EntryHasRow, reqVars
    <3>3. QED
      BY <1>2, <3>2 DEF CalmParts
  <2>3. QED
    BY <2>1, <2>2
<1>9. CASE Loaded \/ StartScan \/ EndScan \/ \E t \in Trigs : SkipItem(t)
  <2>1. UNCHANGED tasks /\ UNCHANGED ls /\ ~LoadRows /\ ~ResetNext
    BY <1>0, <1>9
       DEF Loaded, StartScan, EndScan, SkipItem, LoadRows, ResetNext, TypeOK
  <2>2. QED
    BY <1>5, <2>1
<1>10. QED
  BY <1>3, <1>4, <1>7, <1>8, <1>9 DEF CalmLoop

\* The requests do, when they come one at a time.
LEMMA CalmRequests ==
  ASSUME CalmInv, CalmRequest \/ \E h \in Handlers : RequestNext(h)
  PROVE  CalmParts'
<1>0. TypeOK /\ CalmParts
  BY DEF CalmInv, CalmParts
<1>1. tasks \in [Trigs -> Timer \cup {NoTask}] /\ rows \in [Trigs -> Row \cup {Unborn, Gone}]
      /\ pc \in [Handlers -> ReqPC] /\ on \in [Handlers -> Trigs \cup {NoTrig}]
      /\ seen \in [Handlers -> Row \cup {Unborn, Gone}]
  BY <1>0 DEF TypeOK
<1>2. ASSUME NEW h \in Handlers, pc[h] # "idle"
      PROVE  /\ \A g \in Handlers \ {h} : pc[g] = "idle"
             /\ loop \notin {"load", "reset"} /\ \A t \in Trigs : ls[t] = Gone
             /\ on[h] \in Trigs
  BY <1>0, <1>2 DEF CalmParts, Serial, LoadedRows, TypeOK
<1>3. ASSUME NEW h \in Handlers, NEW t \in Trigs, NEW r \in Rows[t], r.types = "timer",
             loop \in {"sleep", "scan"}, \A g \in Handlers : pc[g] = "idle",
             Create(h, t, r) \/ Update(h, t, r)
      PROVE  CalmParts'
  <2>1. UNCHANGED <<tasks, loop, ls>> /\ Begin(h, t, "read", Gone)
    BY <1>3 DEF Create, Update, loopVars
  <2>2. \E q \in {r, Gone} : rows' = [rows EXCEPT ![t] = q]
    BY <1>3 DEF Create, Update
  <2>3. \A u \in Trigs \ {t} : rows'[u] = rows[u]
    BY <1>1, <2>2
  <2>4. pc'[h] = "read" /\ on'[h] = t /\ \A g \in Handlers \ {h} : pc'[g] = "idle"
    BY <1>1, <1>3, <2>1 DEF Begin
  <2>5. AllTimers'
    BY <1>0, <1>1, <1>3, <2>2 DEF CalmParts, AllTimers, Gone
  <2>6. Serial' /\ ReadRows'
    BY <1>3, <2>1, <2>4 DEF Serial, ReadRows
  <2>7. LoadedRows'
    BY <1>0, <1>3, <2>1 DEF CalmParts, LoadedRows
  <2>8. EntryHasRow'
    <3>1. \A u \in Trigs \ {t} : ~Busy(u)
      BY <1>3 DEF Busy
    <3>2. Busy(t)'
      BY <2>4 DEF Busy
    <3>3. QED
      BY <1>0, <2>1, <2>3, <3>1, <3>2 DEF CalmParts, EntryHasRow
  <2>9. QED
    BY <2>5, <2>6, <2>7, <2>8 DEF CalmParts
<1>4. ASSUME NEW h \in Handlers, NEW t \in Trigs, FindRow(h, t),
             loop \in {"sleep", "scan"}, \A g \in Handlers : pc[g] = "idle"
      PROVE  CalmParts'
  <2>1. UNCHANGED <<rows, tasks, loop, ls>> /\ Begin(h, t, "drop", rows[t])
    BY <1>4 DEF FindRow, dbVars, loopVars
  <2>2. pc'[h] = "drop" /\ on'[h] = t /\ seen'[h] = rows[t]
        /\ \A g \in Handlers \ {h} : pc'[g] = "idle"
    BY <1>1, <1>4, <2>1 DEF Begin
  <2>3. rows[t].types = "timer"
    BY <1>0, <1>1, <1>4 DEF CalmParts, AllTimers, FindRow, Row
  <2>4. AllTimers' /\ LoadedRows'
    BY <1>0, <2>1 DEF CalmParts, AllTimers, LoadedRows
  <2>5. Serial' /\ ReadRows'
    BY <1>4, <2>1, <2>2, <2>3 DEF Serial, ReadRows
  <2>6. EntryHasRow'
    <3>1. \A u \in Trigs : ~Busy(u)
      BY <1>4 DEF Busy
    <3>2. QED
      BY <1>0, <2>1, <3>1 DEF CalmParts, EntryHasRow
  <2>7. QED
    BY <2>4, <2>5, <2>6 DEF CalmParts
<1>5. ASSUME NEW h \in Handlers, ReadRow(h) PROVE CalmParts'
  <2>1. /\ pc[h] = "read" /\ UNCHANGED <<rows, tasks, loop, ls>>
        /\ Begin(h, on[h], "apply", rows[on[h]])
    BY <1>5 DEF ReadRow, dbVars, loopVars
  <2>2. pc'[h] = "apply" /\ on' = on /\ seen'[h] = rows[on[h]]
        /\ \A g \in Handlers \ {h} : pc'[g] = "idle"
    BY <1>1, <1>2, <2>1 DEF Begin
  <2>3. AllTimers' /\ LoadedRows'
    BY <1>0, <2>1 DEF CalmParts, AllTimers, LoadedRows
  <2>4. Serial' /\ ReadRows'
    BY <1>2, <2>1, <2>2 DEF Serial, ReadRows
  <2>5. \A t \in Trigs : Busy(t) => Busy(t)'
    BY <1>2, <2>1, <2>2 DEF Busy
  <2>6. EntryHasRow'
    BY <1>0, <2>1, <2>5 DEF CalmParts, EntryHasRow
  <2>7. QED
    BY <2>3, <2>4, <2>6 DEF CalmParts
<1>6. ASSUME NEW h \in Handlers, ApplyRow(h) \/ ForgetTask(h) PROVE CalmParts'
  <2>1. pc[h] \in {"apply", "forget"} /\ UNCHANGED <<rows, loop, ls>> /\ Return(h)
    BY <1>6 DEF ApplyRow, ForgetTask, dbVars, loopVars
  <2>2. \A g \in Handlers : pc'[g] = "idle"
    BY <1>1, <1>2, <2>1 DEF Return, Begin
  <2>3. on[h] \in Trigs /\ loop \notin {"load", "reset"}
    BY <1>2, <2>1
  <2>4. AllTimers' /\ LoadedRows'
    BY <1>0, <2>1, <2>3 DEF CalmParts, AllTimers, LoadedRows
  <2>5. Serial' /\ ReadRows'
    BY <2>2 DEF Serial, ReadRows
  <2>6. \A t \in Trigs \ {on[h]} : tasks'[t] = tasks[t] /\ ~Busy(t)
    BY <1>1, <1>2, <1>6, <2>1, <2>3 DEF Busy, ApplyRow, ForgetTask
  <2>7. tasks'[on[h]] # NoTask => Wanted(rows[on[h]])
    <3>1. CASE ForgetTask(h)
      BY <1>1, <2>3, <3>1 DEF ForgetTask
    <3>2. CASE ApplyRow(h)
      <4>1. seen[h] = rows[on[h]] /\ (tasks'[on[h]] # NoTask => seen[h].enabled)
        BY <1>0, <1>1, <2>3, <3>2 DEF ApplyRow, CalmParts, ReadRows
      <4>2. rows[on[h]].types \in {"timer", "unborn", "gone"}
        BY <1>0, <2>3 DEF CalmParts, AllTimers
      <4>3. rows[on[h]].enabled => rows[on[h]].types = "timer"
        BY <1>1, <2>3, <4>2 DEF Row, Unborn, Gone
      <4>4. QED
        BY <4>1, <4>3 DEF Wanted
    <3>3. QED
      BY <1>6, <3>1, <3>2
  <2>8. EntryHasRow'
    BY <1>0, <2>1, <2>6, <2>7 DEF CalmParts, EntryHasRow
  <2>9. QED
    BY <2>4, <2>5, <2>8 DEF CalmParts
<1>7. ASSUME NEW h \in Handlers, DropRow(h) \/ DropRuns(h) PROVE CalmParts'
  <2>1. pc[h] \in {"drop", "dropRuns"} /\ UNCHANGED <<tasks, loop, ls>>
    BY <1>7 DEF DropRow, DropRuns, loopVars
  <2>2. on[h] \in Trigs /\ seen[h].types = "timer" /\ loop \notin {"load", "reset"}
        /\ \A g \in Handlers \ {h} : pc[g] = "idle"
    BY <1>0, <1>2, <2>1 DEF CalmParts, ReadRows
  <2>3. PICK next \in {"dropRuns", "forget"} : Begin(h, on[h], next, seen[h])
    BY <1>7, <2>2 DEF DropRow, DropRuns
  <2>4. pc'[h] = next /\ on' = on /\ seen' = seen /\ \A g \in Handlers \ {h} : pc'[g] = "idle"
    BY <1>1, <2>2, <2>3 DEF Begin
  <2>5. rows'[on[h]] = Gone /\ \A t \in Trigs \ {on[h]} : rows'[t] = rows[t]
    BY <1>0, <1>1, <1>7, <2>2 DEF DropRow, DropRuns, CalmParts, ReadRows
  <2>6. AllTimers'
    BY <1>0, <2>5 DEF CalmParts, AllTimers, Gone
  <2>7. LoadedRows'
    BY <1>2, <2>1, <2>2 DEF LoadedRows
  <2>8. Serial' /\ ReadRows'
    BY <2>1, <2>2, <2>4, <2>5 DEF Serial, ReadRows
  <2>9. Busy(on[h])' /\ \A t \in Trigs \ {on[h]} : ~Busy(t)
    BY <2>2, <2>4 DEF Busy
  <2>10. EntryHasRow'
    BY <1>0, <2>1, <2>5, <2>9, <2>4 DEF CalmParts, EntryHasRow
  <2>11. QED
    BY <2>6, <2>7, <2>8, <2>10 DEF CalmParts
<1>8. QED
  BY <1>3, <1>4, <1>5, <1>6, <1>7 DEF CalmRequest, RequestNext

\* A calm step is a step.
LEMMA CalmIsNext == CalmNext => Next
BY DEF CalmNext, CalmLoop, CalmRequest, Next, LoopNext, RequestBegins

\* A calm step keeps map and rows in agreement.
LEMMA CalmStep == CalmInv /\ [CalmNext]_vars => CalmInv'
<1> SUFFICES ASSUME CalmInv, [CalmNext]_vars PROVE CalmInv'
  OBVIOUS
<1>0. TypeOK /\ CalmParts
  BY DEF CalmInv, CalmParts
<1>1. TypeOK'
  BY <1>0, CalmIsNext, TypeStep
<1>2. ASSUME CalmLoop \/ \E t \in Trigs : DeleteFired(t) PROVE CalmParts'
  BY <1>2, CalmEngine
<1>3. ASSUME CalmRequest \/ \E h \in Handlers : RequestNext(h) PROVE CalmParts'
  BY <1>3, CalmRequests
<1>4. ASSUME Tick \/ UNCHANGED vars PROVE CalmParts'
  <2>1. UNCHANGED <<rows, tasks, loop, ls, pc, on, seen>>
    BY <1>4 DEF Tick, vars, dbVars, loopVars, reqVars
  <2>2. Serial' /\ AllTimers' /\ LoadedRows' /\ ReadRows' /\ EntryHasRow'
    BY <1>0, <2>1 DEF CalmParts, Serial, AllTimers, LoadedRows, ReadRows, EntryHasRow, Busy
  <2>3. QED
    BY <2>2 DEF CalmParts
<1>5. ASSUME Restart PROVE CalmParts'
  <2>1. AllTimers'
    BY <1>0, <1>5 DEF Restart, dbVars, CalmParts, AllTimers
  <2>2. Serial' /\ LoadedRows' /\ ReadRows' /\ EntryHasRow'
    BY <1>5 DEF Restart, Serial, LoadedRows, ReadRows, EntryHasRow
  <2>3. QED
    BY <2>1, <2>2 DEF CalmParts
<1>6. QED
  BY <1>1, <1>2, <1>3, <1>4, <1>5 DEF CalmInv, CalmParts, CalmNext

\* While requests come one at a time, none fails and none comes during the start, what is
\* in the map has an enabled row, through any interleaving with scans and restarts.
THEOREM EntriesHaveRows == CalmSpec => []EntryHasRow
<1>1. CalmInv => EntryHasRow
  BY DEF CalmInv
<1>2. QED
  BY <1>1, InitCalm, CalmStep, PTL DEF CalmSpec

-----------------------------------------------------------------------------
(* A periodic trigger stays scheduled.                                     *)

\* No trigger is saved with a date at one time and with a period at another: the Delete
\* of a one-shot timer that fired would take the entry of the period.
Dated  == {t \in Trigs : \A r \in Rows[t] : r.kind \notin Periods}
Steady == \A t \in Trigs \ Dated : \A r \in Rows[t] : r.kind # "once"

\* One-shot timers, and goroutines to delete them, are those of triggers with a date.
OnceDated ==
  /\ \A t \in Trigs : rows[t] \in Rows[t] \cup {Unborn, Gone}
  /\ \A t \in Trigs \ Dated : tasks[t].kind # "once" /\ deletes[t] = 0

\* What the step after it relies on.
RegInv == OnceDated /\ Registered

\* A row with a period gives an entry of that kind, and one without a date no one-shot.
LEMMA ResetKind ==
  ASSUME NEW e, NEW r
  PROVE  /\ r.types = "timer" /\ r.kind \in Periods => Reset(e, r).kind = r.kind
         /\ r.kind # "once" => Reset(e, r) = e \/ Reset(e, r).kind = r.kind
<1>1. "once" \notin Periods /\ "bad" \notin Periods
  BY TimerShape
<1>2. QED
  BY <1>1 DEF Reset

\* OnceDated is preserved.
LEMMA OnceDatedStep ==
  ASSUME Steady, CalmInv, OnceDated, [CalmNext]_vars
  PROVE  OnceDated'
<1>0. /\ tasks \in [Trigs -> Timer \cup {NoTask}] /\ rows \in [Trigs -> Row \cup {Unborn, Gone}]
      /\ deletes \in [Trigs -> 0 .. MaxLate]
      /\ \A h \in Handlers : pc[h] # "idle" => on[h] \in Trigs
  BY DEF CalmInv, TypeOK
<1>1. NoTask.kind # "once"
  BY DEF NoTask
<1>2. ASSUME NEW t \in Trigs \ Dated, NEW r \in Rows[t] \cup {Unborn, Gone} PROVE r.kind # "once"
  BY <1>2 DEF Steady, Unborn, Gone
<1>3. CASE UNCHANGED <<rows, tasks, deletes>>
  BY <1>3 DEF OnceDated
<1>4. CASE ResetNext
  <2>1. PICK t \in Trigs : /\ ls[t] # Gone /\ UNCHANGED <<rows, deletes>>
                           /\ tasks' = [tasks EXCEPT ![t] = Reset(@, ls[t])]
    BY <1>4 DEF ResetNext, dbVars
  <2>2. ls[t] \in Rows[t] \cup {Unborn, Gone}
    BY <2>1 DEF CalmInv, LoadedRows, OnceDated
  <2>3. t \notin Dated => Reset(tasks[t], ls[t]).kind # "once"
    BY <1>2, <2>2, ResetKind DEF OnceDated
  <2>4. QED
    BY <1>0, <2>1, <2>3 DEF OnceDated
<1>5. ASSUME NEW t \in Trigs, FireItem(t) PROVE OnceDated'
  <2>1. CASE tasks[t].kind = "once"
    BY <1>0, <1>5, <2>1 DEF FireItem, OnceDated
  <2>2. CASE tasks[t].kind # "once"
    <3>1. Ticked(tasks[t]).kind # "once"
      BY <2>2 DEF Ticked
    <3>2. QED
      BY <1>0, <1>5, <2>2, <3>1 DEF FireItem, OnceDated
  <2>3. QED
    BY <2>1, <2>2
<1>6. ASSUME NEW t \in Trigs, DeleteFired(t) PROVE OnceDated'
  <2>1. t \in Dated
    BY <1>6 DEF DeleteFired, OnceDated
  <2>2. QED
    BY <1>0, <1>6, <2>1 DEF DeleteFired, OnceDated, dbVars
<1>7. ASSUME NEW h \in Handlers, NEW t \in Trigs, NEW r \in Rows[t], Create(h, t, r) \/ Update(h, t, r)
      PROVE  OnceDated'
  BY <1>0, <1>7 DEF Create, Update, OnceDated
<1>8. ASSUME NEW h \in Handlers, DropRow(h) PROVE OnceDated'
  BY <1>0, <1>8 DEF DropRow, OnceDated
<1>9. ASSUME NEW h \in Handlers, ApplyRow(h) PROVE OnceDated'
  <2>1. on[h] \in Trigs /\ seen[h] = rows[on[h]] /\ UNCHANGED <<rows, deletes>>
        /\ tasks' = [tasks EXCEPT ![on[h]] = IF seen[h].enabled THEN Reset(@, seen[h]) ELSE NoTask]
    BY <1>0, <1>9 DEF ApplyRow, CalmInv, ReadRows, dbVars
  <2>2. on[h] \notin Dated => Reset(tasks[on[h]], seen[h]).kind # "once"
    BY <1>2, <2>1, ResetKind DEF OnceDated
  <2>3. QED
    BY <1>0, <1>1, <2>1, <2>2 DEF OnceDated
<1>10. ASSUME NEW h \in Handlers, ForgetTask(h) PROVE OnceDated'
  BY <1>0, <1>1, <1>10 DEF ForgetTask, OnceDated, dbVars
<1>11. CASE Restart
  BY <1>1, <1>11 DEF Restart, OnceDated, dbVars
<1>12. \/ UNCHANGED <<rows, tasks, deletes>> \/ ResetNext \/ Restart
       \/ \E t \in Trigs : FireItem(t) \/ DeleteFired(t)
       \/ \E h \in Handlers, t \in Trigs : \E r \in Rows[t] : Create(h, t, r) \/ Update(h, t, r)
       \/ \E h \in Handlers : DropRow(h) \/ ApplyRow(h) \/ ForgetTask(h)
  BY DEF CalmNext, CalmLoop, CalmRequest, RequestNext, LoadRows, Loaded, StartScan, EndScan,
         SkipItem, FindRow, ReadRow, DropRuns, Tick, vars, dbVars
<1>13. QED
  BY <1>3, <1>4, <1>5, <1>6, <1>7, <1>8, <1>9, <1>10, <1>11, <1>12

\* A trigger whose periodic row says that it is to be scheduled.
Periodic(t) == Wanted(rows[t]) /\ rows[t].kind \in Periods
Settled(t)  == ~Busy(t) /\ loop # "load" /\ ls[t] = Gone

\* Registered is preserved.
LEMMA RegisteredStep ==
  ASSUME CalmInv, RegInv, [CalmNext]_vars
  PROVE  Registered'
<1> SUFFICES ASSUME NEW t \in Trigs, Periodic(t)', Settled(t)'
             PROVE  tasks'[t].kind = rows'[t].kind
  BY DEF Registered, Periodic, Settled
<1>0. /\ tasks \in [Trigs -> Timer \cup {NoTask}] /\ rows \in [Trigs -> Row \cup {Unborn, Gone}]
      /\ ls \in [Trigs -> Row \cup {Gone}] /\ deletes \in [Trigs -> 0 .. MaxLate]
      /\ pc \in [Handlers -> ReqPC] /\ on \in [Handlers -> Trigs \cup {NoTrig}]
      /\ \A h \in Handlers : pc[h] # "idle" => on[h] \in Trigs
  BY DEF CalmInv, TypeOK
<1>1. Periodic(t) /\ Settled(t) => tasks[t].kind = rows[t].kind
  BY DEF RegInv, Registered, Periodic, Settled
<1>2. ~Wanted(Gone) /\ ~Wanted(Unborn) /\ "once" \notin Periods
  BY TimerShape DEF Wanted, Gone, Unborn
<1>3. ASSUME UNCHANGED rows, Settled(t), tasks'[t].kind = tasks[t].kind
      PROVE  tasks'[t].kind = rows'[t].kind
  BY <1>1, <1>3 DEF Periodic
<1>5. ASSUME LoadRows PROVE FALSE
  BY <1>0, <1>5 DEF LoadRows, Periodic, Settled, dbVars, Wanted, Gone
<1>6. CASE ResetNext
  <2>1. PICK u \in Trigs : /\ ls[u] # Gone /\ UNCHANGED <<rows, loop, pc, on>>
                           /\ tasks' = [tasks EXCEPT ![u] = Reset(@, ls[u])]
                           /\ ls' = [ls EXCEPT ![u] = Gone]
    BY <1>6 DEF ResetNext, dbVars, reqVars
  <2>2. CASE u = t
    <3>1. ls[t] = rows[t] /\ rows'[t] = rows[t] /\ Wanted(rows[t])
      BY <2>1, <2>2 DEF CalmInv, LoadedRows
    <3>2. rows[t].types = "timer" /\ rows[t].kind \in Periods
      BY <2>1, <3>1 DEF Periodic, Wanted
    <3>3. tasks'[t] = Reset(tasks[t], rows[t])
      BY <1>0, <2>1, <2>2, <3>1
    <3>4. QED
      BY <3>1, <3>2, <3>3, ResetKind
  <2>3. CASE u # t
    <3>1. Settled(t) /\ tasks'[t] = tasks[t]
      BY <1>0, <2>1, <2>3 DEF Settled, Busy
    <3>2. QED
      BY <1>3, <2>1, <3>1
  <2>4. QED
    BY <2>2, <2>3
<1>7. ASSUME Loaded \/ StartScan \/ EndScan \/ Tick \/ (\E u \in Trigs : SkipItem(u)) \/ UNCHANGED vars
      PROVE  tasks'[t].kind = rows'[t].kind
  <2>1. UNCHANGED <<rows, tasks, ls, pc, on>> /\ loop # "load"
    BY <1>7 DEF Loaded, StartScan, EndScan, Tick, SkipItem, vars, dbVars, loopVars, reqVars,
       Settled, CalmInv, TypeOK
  <2>2. Settled(t)
    BY <2>1 DEF Settled, Busy
  <2>3. QED
    BY <1>3, <2>1, <2>2
<1>8. ASSUME NEW u \in Trigs, FireItem(u) PROVE tasks'[t].kind = rows'[t].kind
  <2>1. UNCHANGED <<rows, loop, ls, pc, on>>
    BY <1>8 DEF FireItem, reqVars
  <2>2. tasks'[t].kind = tasks[t].kind
    BY <1>0, <1>8 DEF FireItem, Ticked
  <2>3. Settled(t)
    BY <2>1 DEF Settled, Busy
  <2>4. QED
    BY <1>3, <2>1, <2>2, <2>3
<1>9. ASSUME NEW u \in Trigs, DeleteFired(u) PROVE tasks'[t].kind = rows'[t].kind
  <2>1. UNCHANGED <<rows, loop, ls, pc, on>> /\ tasks' = [tasks EXCEPT ![u] = NoTask] /\ deletes[u] > 0
    BY <1>9 DEF DeleteFired, dbVars, loopVars, reqVars
  <2>2. u \in Dated
    BY <2>1 DEF RegInv, OnceDated
  <2>3. rows[t] \in Rows[t] /\ rows[t].kind \in Periods
    BY <1>2, <2>1 DEF Periodic, RegInv, OnceDated
  <2>4. t \notin Dated
    BY <2>3 DEF Dated
  <2>5. tasks'[t] = tasks[t] /\ Settled(t)
    BY <1>0, <2>1, <2>2, <2>4 DEF Settled, Busy
  <2>6. QED
    BY <1>3, <2>1, <2>5
<1>10. ASSUME NEW h \in Handlers, NEW u \in Trigs, NEW r \in Rows[u], r.types = "timer",
              Create(h, u, r) \/ Update(h, u, r)
       PROVE  tasks'[t].kind = rows'[t].kind
  <2>1. Begin(h, u, "read", Gone) /\ UNCHANGED <<tasks, loop, ls>> /\ pc[h] = "idle"
    BY <1>10 DEF Create, Update, loopVars
  <2>2. pc'[h] = "read" /\ on'[h] = u
    BY <1>0, <2>1 DEF Begin
  <2>3. u # t
    BY <2>2 DEF Settled, Busy
  <2>4. rows'[t] = rows[t]
    BY <1>0, <1>10, <2>3 DEF Create, Update
  <2>5. Settled(t)
    BY <1>0, <2>1 DEF Settled, Busy, Begin
  <2>6. QED
    BY <1>1, <2>1, <2>4, <2>5 DEF Periodic
<1>11. ASSUME NEW h \in Handlers, NEW u \in Trigs, FindRow(h, u) PROVE tasks'[t].kind = rows'[t].kind
  <2>1. Begin(h, u, "drop", rows[u]) /\ UNCHANGED <<rows, tasks, loop, ls>> /\ pc[h] = "idle"
    BY <1>11 DEF FindRow, loopVars, dbVars
  <2>2. Settled(t)
    BY <1>0, <2>1 DEF Settled, Busy, Begin
  <2>3. QED
    BY <1>3, <2>1, <2>2
<1>12. ASSUME NEW h \in Handlers, pc[h] # "idle", on[h] # t,
              UNCHANGED <<loop, ls>>, Return(h) \/ \E next \in ReqPC : \E r : Begin(h, on[h], next, r)
       PROVE  Settled(t)
  BY <1>0, <1>12 DEF Settled, Busy, Begin, Return
<1>13. ASSUME NEW h \in Handlers, ReadRow(h) \/ DropRow(h) \/ DropRuns(h) PROVE tasks'[t].kind = rows'[t].kind
  <2>1. pc[h] \in {"read", "drop", "dropRuns"} /\ UNCHANGED <<tasks, loop, ls>>
    BY <1>13 DEF ReadRow, DropRow, DropRuns, loopVars
  <2>2. pc[h] # "read" => seen[h].types = "timer"
    BY <2>1 DEF CalmInv, ReadRows
  <2>3. PICK next \in {"apply", "dropRuns", "forget"} : \E r : Begin(h, on[h], next, r)
    BY <1>13, <2>1, <2>2 DEF ReadRow, DropRow, DropRuns
  <2>4. pc'[h] = next /\ on'[h] = on[h]
    BY <1>0, <2>3 DEF Begin
  <2>5. on[h] # t
    BY <2>4 DEF Settled, Busy
  <2>6. Settled(t)
    BY <1>12, <2>1, <2>3, <2>5 DEF ReqPC
  <2>7. rows'[t] = rows[t]
    BY <1>0, <1>13, <2>5 DEF ReadRow, DropRow, DropRuns, dbVars
  <2>8. QED
    BY <1>1, <2>1, <2>6, <2>7 DEF Periodic
<1>14. ASSUME NEW h \in Handlers, ApplyRow(h) \/ ForgetTask(h) PROVE tasks'[t].kind = rows'[t].kind
  <2>1. pc[h] \in {"apply", "forget"} /\ UNCHANGED <<rows, loop, ls>> /\ Return(h) /\ on[h] \in Trigs
    BY <1>0, <1>14 DEF ApplyRow, ForgetTask, loopVars, dbVars
  <2>2. CASE on[h] # t
    <3>1. tasks'[t] = tasks[t]
      BY <1>0, <1>14, <2>2 DEF ApplyRow, ForgetTask
    <3>2. Settled(t)
      BY <1>12, <2>1, <2>2 DEF ReqPC
    <3>3. QED
      BY <1>3, <2>1, <3>1, <3>2
  <2>3. CASE on[h] = t
    <3>1. Wanted(rows[t]) /\ rows[t].kind \in Periods
      BY <2>1 DEF Periodic
    <3>2. ApplyRow(h) /\ seen[h] = rows[t]
      BY <1>2, <1>14, <2>1, <2>3, <3>1 DEF CalmInv, ReadRows, ForgetTask, ApplyRow
    <3>3. tasks'[t] = Reset(tasks[t], rows[t])
      BY <1>0, <2>3, <3>1, <3>2 DEF ApplyRow, Wanted
    <3>4. QED
      BY <2>1, <3>1, <3>3, ResetKind DEF Wanted
  <2>4. QED
    BY <2>2, <2>3
<1>15. ASSUME Restart PROVE FALSE
  BY <1>15 DEF Restart, Settled
<1>16. QED
  BY <1>5, <1>6, <1>7, <1>8, <1>9, <1>10, <1>11, <1>13, <1>14, <1>15
     DEF CalmNext, CalmLoop, CalmRequest, RequestNext

\* Under the same conditions, and when no trigger changes between a date and a period, a
\* periodic trigger stays in the map as the kind that was saved last.
THEOREM PeriodicStays ==
  ASSUME Steady
  PROVE  CalmSpec => []Registered
<1>1. Init => CalmInv /\ RegInv
  <2>1. ASSUME Init PROVE RegInv
    BY <2>1 DEF Init, RegInv, OnceDated, Registered, NoTask, Wanted, Unborn
  <2>2. QED
    BY <2>1, InitCalm
<1>2. CalmInv /\ RegInv /\ [CalmNext]_vars => (CalmInv /\ RegInv)'
  BY CalmStep, OnceDatedStep, RegisteredStep DEF RegInv
<1>3. RegInv => Registered
  BY DEF RegInv
<1>4. QED
  BY <1>1, <1>2, <1>3, PTL DEF CalmSpec
=============================================================================
