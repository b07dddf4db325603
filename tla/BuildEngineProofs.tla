------------------------- MODULE BuildEngineProofs -------------------------
(***************************************************************************)
(* Proofs about BuildEngine, for every set of builds and every configured  *)
(* limit.                                                                  *)
(***************************************************************************)
EXTENDS BuildEngine, DataLemmas, FiniteSetTheorems, TLAPS

\* The only goroutine that adds to the map knows that it is not full.
RoomForOne ==
  loop \in {"front", "remove", "register"} => Cardinality(tasks) < RunLimit

\* What run() holds is a build, and before it is removed it is the front of the list.
FrontHeld ==
  /\ loop \in {"remove", "register", "spawn"} => front \in Builds
  /\ loop = "remove" => taskw # <<>> /\ Head(taskw) = front

\* No build is twice in the list.
QueueDistinct == IsInjective(taskw)

\* The inductive invariant.
IInv ==
  /\ TypeOK
  /\ IsFiniteSet(tasks)
  /\ WithinLimit
  /\ RoomForOne
  /\ FrontHeld
  /\ QueueDistinct
  /\ OnePlace

-----------------------------------------------------------------------------

\* The limit StartBuildEngine settles on is positive, whatever the configuration
\* says.
LEMMA RunLimitNat == RunLimit \in Nat \ {0}
BY CfgRunLimitNat DEF RunLimit

\* The empty engine satisfies the inductive invariant.
LEMMA InitIInv == Init => IInv
<1> SUFFICES ASSUME Init PROVE IInv
  OBVIOUS
<1>1. taskw \in Seq(Builds) /\ DOMAIN taskw = {}
  BY EmptySeq DEF Init
<1>2. IsFiniteSet(tasks) /\ Cardinality(tasks) = 0
  BY FS_EmptySet DEF Init
<1>3. TypeOK
  BY <1>1 DEF Init, TypeOK, LoopPC, WorkPC
<1>4. WithinLimit /\ RoomForOne
  BY <1>2, RunLimitNat DEF Init, WithinLimit, RoomForOne
<1>5. FrontHeld /\ QueueDistinct /\ OnePlace
  BY <1>1 DEF Init, FrontHeld, QueueDistinct, OnePlace, Queued, Range, IsInjective
<1>6. QED
  BY <1>2, <1>3, <1>4, <1>5 DEF IInv

\* The size of the map stays within the limit: only Register makes it grow.
LEMMA TasksStep ==
  ASSUME IInv, [Next]_vars
  PROVE  IsFiniteSet(tasks)' /\ WithinLimit' /\ RoomForOne'
<1>0. /\ IsFiniteSet(tasks)
      /\ Cardinality(tasks) \in Nat
      /\ Cardinality(tasks) <= RunLimit
      /\ RunLimit \in Nat
      /\ RoomForOne
  BY FS_CardinalityType, RunLimitNat DEF IInv, WithinLimit
<1>1. CASE UNCHANGED tasks /\ loop' \notin {"front", "remove", "register"}
  BY <1>0, <1>1 DEF WithinLimit, RoomForOne
<1>2. CASE UNCHANGED <<tasks, loop>>
  BY <1>0, <1>2 DEF WithinLimit, RoomForOne
<1>3. CASE SizeTasks
  BY <1>0, <1>3 DEF SizeTasks, Room, LoopTo, WithinLimit, RoomForOne
<1>4. CASE TakeFront
  BY <1>0, <1>4 DEF TakeFront, LoopTo, WithinLimit, RoomForOne
<1>5. CASE RemoveFront
  BY <1>0, <1>5 DEF RemoveFront, LoopTo, WithinLimit, RoomForOne
<1>6. CASE Register
  <2>1. /\ tasks' = tasks \cup {front}
        /\ loop' = "spawn"
        /\ Cardinality(tasks) < RunLimit
    BY <1>0, <1>6 DEF Register, LoopTo, RoomForOne
  <2>2. /\ IsFiniteSet(tasks \cup {front})
        /\ Cardinality(tasks \cup {front}) <= Cardinality(tasks) + 1
        /\ Cardinality(tasks \cup {front}) \in Nat
    <3>1. /\ IsFiniteSet(tasks \cup {front})
          /\ Cardinality(tasks \cup {front}) = IF front \in tasks THEN Cardinality(tasks) ELSE Cardinality(tasks) + 1
      BY <1>0, FS_AddElement
    <3>2. Cardinality(tasks \cup {front}) \in Nat
      BY <3>1, FS_CardinalityType
    <3>3. QED
      BY <1>0, <3>1, <3>2
  <2>3. QED
    BY <1>0, <2>1, <2>2 DEF WithinLimit, RoomForOne
<1>7. ASSUME NEW b \in Builds, Delete(b) PROVE IsFiniteSet(tasks)' /\ WithinLimit' /\ RoomForOne'
  <2>1. tasks' = tasks \ {b} /\ loop' = loop
    BY <1>7 DEF Delete
  <2>2. /\ IsFiniteSet(tasks \ {b})
        /\ Cardinality(tasks \ {b}) <= Cardinality(tasks)
        /\ Cardinality(tasks \ {b}) \in Nat
    <3>1. /\ IsFiniteSet(tasks \ {b})
          /\ Cardinality(tasks \ {b}) = IF b \in tasks THEN Cardinality(tasks) - 1 ELSE Cardinality(tasks)
      BY <1>0, FS_RemoveElement
    <3>2. Cardinality(tasks \ {b}) \in Nat
      BY <3>1, FS_CardinalityType
    <3>3. QED
      BY <1>0, <3>1, <3>2
  <2>3. QED
    BY <1>0, <2>1, <2>2 DEF WithinLimit, RoomForOne
<1>8. QED
  <2>1. \A b \in Builds : Put(b) \/ RunReturns(b) => UNCHANGED <<tasks, loop>>
    BY DEF Put, RunReturns
  <2>2. Shutdown \/ Stop \/ UNCHANGED vars => UNCHANGED <<tasks, loop>>
    BY DEF Shutdown, Stop, vars
  <2>3. CloseOldRows \/ LoopHead \/ SelectStop \/ SelectWake \/ SelectTick \/ SizeQueue \/ Spawn
          => UNCHANGED tasks /\ loop' \notin {"front", "remove", "register"}
    BY DEF CloseOldRows, LoopHead, SelectStop, SelectWake, SelectTick, SizeQueue, Spawn, LoopTo
  <2>4. QED
    BY <1>1, <1>2, <1>3, <1>4, <1>5, <1>6, <1>7, <2>1, <2>2, <2>3
       DEF Next, LoopNext, WorkNext

\* The types, and where every build is.
LEMMA PlaceStep ==
  ASSUME IInv, [Next]_vars
  PROVE  TypeOK' /\ FrontHeld' /\ QueueDistinct' /\ OnePlace'
<1> DEFINE Goal == TypeOK /\ FrontHeld /\ QueueDistinct /\ OnePlace
<1>0. TypeOK /\ FrontHeld /\ QueueDistinct /\ OnePlace
  BY DEF IInv
<1>1. ASSUME NEW b \in Builds, Put(b) PROVE Goal'
  <2>1. b \notin Range(taskw) /\ taskw \in Seq(Builds) /\ taskw' = Append(taskw, b)
    BY <1>0, <1>1 DEF Put, OnePlace, TypeOK, Queued
  <2>2. Range(taskw') = Range(taskw) \cup {b}
    BY <2>1, RangeOfAppend
  <2>3. /\ taskw' \in Seq(Builds)
        /\ taskw # <<>> => Head(taskw') = Head(taskw) /\ taskw' # <<>>
    BY <2>1, AppendProperties
  <2>4. TypeOK'
    BY <1>0, <1>1, <2>3 DEF Put, TypeOK, WorkPC
  <2>5. FrontHeld'
    BY <1>0, <1>1, <2>3 DEF Put, FrontHeld
  <2>6. QueueDistinct'
    BY <1>0, <2>1, DistinctAppend DEF QueueDistinct
  <2>7. OnePlace'
    BY <1>0, <1>1, <2>2 DEF Put, OnePlace, Queued, TypeOK
  <2>8. QED
    BY <2>4, <2>5, <2>6, <2>7
<1>2. ASSUME NEW b \in Builds, WorkNext(b) PROVE Goal'
  <2>1. TypeOK' /\ FrontHeld' /\ QueueDistinct'
    BY <1>0, <1>2 DEF WorkNext, RunReturns, Delete, TypeOK, WorkPC, FrontHeld, QueueDistinct
  <2>2. OnePlace'
    BY <1>0, <1>2 DEF WorkNext, RunReturns, Delete, OnePlace, Queued, TypeOK
  <2>3. QED
    BY <2>1, <2>2
<1>3. CASE RemoveFront
  <2>1. /\ front \in Builds
        /\ taskw # <<>>
        /\ taskw \in Seq(Builds)
        /\ Head(taskw) = front
        /\ taskw' = Tail(taskw)
    BY <1>0, <1>3 DEF RemoveFront, FrontHeld, TypeOK
  <2>2. Range(taskw') = Range(taskw) \ {front}
    BY <1>0, <2>1, RangeOfTail DEF QueueDistinct
  <2>3. taskw' \in Seq(Builds)
    BY <2>1, HeadTailProperties
  <2>4. TypeOK' /\ FrontHeld'
    BY <1>0, <1>3, <2>1, <2>3 DEF RemoveFront, LoopTo, TypeOK, LoopPC, WorkPC, FrontHeld
  <2>5. QueueDistinct'
    BY <1>0, <2>1, DistinctTail DEF QueueDistinct
  <2>6. front \in Range(taskw)
    BY <2>1, EmptySeq DEF Range
  <2>7. OnePlace'
    BY <1>0, <1>3, <2>1, <2>2, <2>6 DEF RemoveFront, LoopTo, OnePlace, Queued, TypeOK
  <2>8. QED
    BY <2>4, <2>5, <2>7
<1>4. CASE Register
  BY <1>0, <1>4 DEF Register, LoopTo, TypeOK, LoopPC, FrontHeld, QueueDistinct, OnePlace, Queued
<1>5. CASE Spawn
  BY <1>0, <1>5 DEF Spawn, LoopTo, TypeOK, LoopPC, WorkPC, FrontHeld, QueueDistinct, OnePlace, Queued
<1>6. CASE TakeFront
  <2>1. taskw # <<>> => Head(taskw) \in Builds
    BY <1>0, HeadTailProperties DEF TypeOK
  <2>2. QED
    BY <1>0, <1>6, <2>1
       DEF TakeFront, LoopTo, TypeOK, LoopPC, FrontHeld, QueueDistinct, OnePlace, Queued
<1>7. CASE \/ CloseOldRows \/ LoopHead \/ SelectStop \/ SelectWake \/ SelectTick
           \/ SizeQueue \/ SizeTasks
  BY <1>0, <1>7
     DEF CloseOldRows, LoopHead, SelectStop, SelectWake, SelectTick, SizeQueue, SizeTasks, Room,
         LoopTo, TypeOK, LoopPC, FrontHeld, QueueDistinct, OnePlace, Queued
<1>8. CASE Shutdown \/ Stop \/ UNCHANGED vars
  BY <1>0, <1>8 DEF Shutdown, Stop, vars, TypeOK, FrontHeld, QueueDistinct, OnePlace, Queued
<1>9. QED
  BY <1>1, <1>2, <1>3, <1>4, <1>5, <1>6, <1>7, <1>8 DEF Next, LoopNext

\* The inductive invariant holds in every state of every run.
THEOREM Invariance == Spec => []IInv
<1>1. IInv /\ [Next]_vars => IInv'
  BY TasksStep, PlaceStep DEF IInv
<1>2. QED
  BY InitIInv, <1>1, PTL DEF Spec

\* The variables have their types: every run of the engine, any number of builds.
THEOREM TypeCorrect == Spec => []TypeOK
<1>1. IInv => TypeOK
  BY DEF IInv
<1>2. QED
  BY Invariance, <1>1, PTL

\* There are never more builds in the map of running tasks than the configured limit
\* allows, though run() decides on sizes it read under locks it has released.
THEOREM LimitKept == Spec => []WithinLimit
<1>1. IInv => WithinLimit
  BY DEF IInv
<1>2. QED
  BY Invariance, <1>1, PTL

\* A build is in the list, in the hands of run(), in the map or over, and in one of
\* these only: the steps between Remove and the insertion into the map lose nothing.
THEOREM OnePlaceKept == Spec => []OnePlace
<1>1. IInv => OnePlace
  BY DEF IInv
<1>2. QED
  BY Invariance, <1>1, PTL

\* CheckCancel, which looks builds up in the map, finds every build that is running.
THEOREM RunningFound == Spec => []RunningIsFound
<1>1. IInv => RunningIsFound
  BY DEF IInv, OnePlace, RunningIsFound
<1>2. QED
  BY Invariance, <1>1, PTL

-----------------------------------------------------------------------------
(* The refinement of BuildPool.                                            *)

\* The queue and the set of builds that are over, as the pool sees them.
PoolQueue == IF loop = "register" THEN <<front>> \o taskw ELSE taskw
PoolOver  == {b \in Builds : work[b] = "over"}

\* The queue with the build in run()'s hands in front: a PushBack goes to its end.
LEMMA ConsAppend ==
  ASSUME NEW S, NEW q \in Seq(S), NEW x \in S, NEW y \in S
  PROVE  <<x>> \o Append(q, y) = Append(<<x>> \o q, y)
<1>1. <<x>> \in Seq(S) /\ <<y>> \in Seq(S) /\ <<x>> \o q \in Seq(S)
  BY ConcatProperties
<1>2. Append(q, y) = q \o <<y>> /\ Append(<<x>> \o q, y) = (<<x>> \o q) \o <<y>>
  BY <1>1, AppendIsConcat
<1>3. QED
  BY <1>1, <1>2, ConcatAssociative

\* Taking the front of the list and holding it leaves that queue as it is.
LEMMA ConsHeadTail ==
  ASSUME NEW S, NEW q \in Seq(S), q # <<>>
  PROVE  <<Head(q)>> \o Tail(q) = q
<1>1. /\ Head(q) \in S
      /\ Tail(q) \in Seq(S)
      /\ Len(Tail(q)) = Len(q) - 1
      /\ \A i \in 1 .. Len(Tail(q)) : Tail(q)[i] = q[i + 1]
      /\ Len(q) \in Nat \ {0}
      /\ Head(q) = q[1]
  BY HeadTailProperties, EmptySeq
<1>2. /\ <<Head(q)>> \in Seq(S)
      /\ Len(<<Head(q)>>) = 1
      /\ <<Head(q)>>[1] = q[1]
  BY <1>1
<1>3. /\ <<Head(q)>> \o Tail(q) \in Seq(S)
      /\ Len(<<Head(q)>> \o Tail(q)) = Len(q)
      /\ \A i \in 1 .. Len(q) : (<<Head(q)>> \o Tail(q))[i] =
            IF i <= 1 THEN <<Head(q)>>[i] ELSE Tail(q)[i - 1]
  BY <1>1, <1>2, ConcatProperties
<1>4. \A i \in 1 .. Len(q) : (<<Head(q)>> \o Tail(q))[i] = q[i]
  BY <1>1, <1>2, <1>3
<1>5. QED
  BY <1>3, <1>4, SeqEqual

\* Head and tail of a queue with a build put in front.
LEMMA ConsProperties ==
  ASSUME NEW S, NEW q \in Seq(S), NEW x \in S
  PROVE  /\ <<x>> \o q # <<>>
         /\ Head(<<x>> \o q) = x
         /\ Tail(<<x>> \o q) = q
         /\ Range(<<x>> \o q) = {x} \cup Range(q)
<1>1. <<x>> \in Seq(S) /\ Len(<<x>>) = 1 /\ <<x>>[1] = x /\ Len(q) \in Nat
  OBVIOUS
<1>2. /\ <<x>> \o q \in Seq(S)
      /\ Len(<<x>> \o q) = Len(q) + 1
      /\ \A i \in 1 .. (Len(q) + 1) : (<<x>> \o q)[i] = IF i <= 1 THEN <<x>>[i] ELSE q[i - 1]
  BY <1>1, ConcatProperties
<1>3. <<x>> \o q # <<>> /\ Head(<<x>> \o q) = x
  BY <1>1, <1>2, EmptySeq
<1>4. Tail(<<x>> \o q) = q
  <2>1. /\ Tail(<<x>> \o q) \in Seq(S)
        /\ Len(Tail(<<x>> \o q)) = Len(q)
        /\ \A i \in 1 .. Len(q) : Tail(<<x>> \o q)[i] = (<<x>> \o q)[i + 1]
    BY <1>1, <1>2, <1>3, HeadTailProperties
  <2>2. \A i \in 1 .. Len(q) : Tail(<<x>> \o q)[i] = q[i]
    BY <1>1, <1>2, <2>1
  <2>3. QED
    BY <2>1, <2>2, SeqEqual
<1>5. Range(<<x>> \o q) = {x} \cup Range(q)
  <2>1. DOMAIN (<<x>> \o q) = 1 .. (Len(q) + 1) /\ DOMAIN q = 1 .. Len(q)
    BY <1>1, <1>2
  <2>2. (<<x>> \o q)[1] = x /\ \A i \in 1 .. Len(q) : (<<x>> \o q)[i + 1] = q[i]
    BY <1>1, <1>2
  <2>3. \A i \in 2 .. (Len(q) + 1) : i - 1 \in 1 .. Len(q) /\ (<<x>> \o q)[i] = q[i - 1]
    BY <1>1, <1>2
  <2>4. ASSUME NEW y \in Range(<<x>> \o q) PROVE y \in {x} \cup Range(q)
    BY <1>1, <2>1, <2>2, <2>3 DEF Range
  <2>5. ASSUME NEW y \in Range(q) PROVE y \in Range(<<x>> \o q)
    <3>1. PICK i \in 1 .. Len(q) : y = q[i]
      BY <2>1 DEF Range
    <3>2. i + 1 \in 1 .. (Len(q) + 1) /\ (<<x>> \o q)[i + 1] = y
      BY <1>1, <2>2, <3>1
    <3>3. QED
      BY <2>1, <3>2 DEF Range
  <2>6. x \in Range(<<x>> \o q)
    BY <1>1, <2>1, <2>2 DEF Range
  <2>7. QED
    BY <2>4, <2>5, <2>6
<1>6. QED
  BY <1>3, <1>4, <1>5

\* The instance has a copy of the module FiniteSets of its own.
LEMMA SameCardinality == \A S : Pool!Cardinality(S) = Cardinality(S)
BY DEF Cardinality, Pool!Cardinality

\* Every step of the engine is a step of the pool or leaves the pool alone.
LEMMA PoolStep ==
  ASSUME IInv, [Next]_vars
  PROVE  [Pool!Next]_(Pool!vars)
<1>0. TypeOK /\ RoomForOne /\ FrontHeld /\ OnePlace
  BY DEF IInv
<1> USE DEF PoolQueue, PoolOver
<1>1. ASSUME NEW b \in Builds, Put(b) PROVE Pool!Submit(b)
  <2>1. /\ taskw \in Seq(Builds)
        /\ taskw' = Append(taskw, b)
        /\ UNCHANGED <<tasks, loop, front>>
        /\ work[b] = "new"
        /\ work' = [work EXCEPT ![b] = "put"]
    BY <1>0, <1>1 DEF Put, TypeOK
  <2>2. b \notin Range(taskw) /\ b \notin tasks /\ b \notin PoolOver
    BY <1>0, <2>1 DEF OnePlace, Queued
  <2>3. PoolQueue' = Append(PoolQueue, b)
    BY <1>0, <2>1, ConsAppend DEF FrontHeld
  <2>4. b \notin Range(PoolQueue)
    BY <1>0, <2>1, <2>2, ConsProperties DEF FrontHeld, OnePlace
  <2>5. PoolOver' = PoolOver
    BY <1>0, <2>1 DEF TypeOK
  <2>6. QED
    BY <2>1, <2>2, <2>3, <2>4, <2>5 DEF Pool!Submit, Pool!Queued, Pool!Range, Range
<1>2. CASE RemoveFront
  <2>1. /\ taskw \in Seq(Builds)
        /\ taskw # <<>>
        /\ Head(taskw) = front
        /\ taskw' = Tail(taskw)
        /\ loop = "remove" /\ loop' = "register"
        /\ UNCHANGED <<tasks, front>>
    BY <1>0, <1>2 DEF RemoveFront, LoopTo, FrontHeld, TypeOK
  <2>2. PoolQueue' = PoolQueue
    BY <2>1, ConsHeadTail
  <2>3. PoolOver' = PoolOver
    <3>1. work[front] = "put"
      BY <1>0, <2>1, EmptySeq DEF OnePlace, Queued, Range, FrontHeld
    <3>2. work' = [work EXCEPT ![front] = "taken"]
      BY <1>2 DEF RemoveFront
    <3>3. QED
      BY <1>0, <3>1, <3>2 DEF TypeOK
  <2>4. QED
    BY <2>1, <2>2, <2>3 DEF Pool!vars
<1>3. CASE Register
  <2>1. /\ taskw \in Seq(Builds)
        /\ front \in Builds
        /\ taskw' = taskw
        /\ loop = "register" /\ loop' = "spawn"
        /\ tasks' = tasks \cup {front}
        /\ UNCHANGED work
        /\ Cardinality(tasks) < RunLimit
    BY <1>0, <1>3 DEF Register, LoopTo, FrontHeld, TypeOK, RoomForOne
  <2>2. /\ PoolQueue # <<>>
        /\ Head(PoolQueue) = front
        /\ PoolQueue' = Tail(PoolQueue)
    BY <2>1, ConsProperties
  <2>3. Pool!Start
    BY <2>1, <2>2, SameCardinality DEF Pool!Start
  <2>4. QED
    BY <2>3 DEF Pool!Next
<1>4. ASSUME NEW b \in Builds, Delete(b) PROVE Pool!Finish(b)
  <2>1. /\ b \in tasks
        /\ tasks' = tasks \ {b}
        /\ work' = [work EXCEPT ![b] = "over"]
        /\ UNCHANGED <<taskw, loop, front>>
    BY <1>0, <1>4 DEF Delete, OnePlace
  <2>2. PoolOver' = PoolOver \cup {b}
    BY <1>0, <2>1 DEF TypeOK
  <2>3. QED
    BY <2>1, <2>2 DEF Pool!Finish
<1>5. ASSUME NEW b \in Builds, RunReturns(b) PROVE UNCHANGED Pool!vars
  BY <1>0, <1>5 DEF RunReturns, TypeOK, Pool!vars
<1>6. CASE Spawn
  <2>1. /\ work[front] = "taken" /\ front \in Builds
        /\ work' = [work EXCEPT ![front] = "run"]
        /\ loop = "spawn" /\ loop' = "head"
        /\ UNCHANGED <<taskw, tasks>>
    BY <1>0, <1>6 DEF Spawn, LoopTo, OnePlace, FrontHeld
  <2>2. PoolOver' = PoolOver
    BY <1>0, <2>1 DEF TypeOK
  <2>3. QED
    BY <2>1, <2>2 DEF Pool!vars
<1>7. CASE \/ CloseOldRows \/ LoopHead \/ SelectStop \/ SelectWake \/ SelectTick
           \/ SizeQueue \/ SizeTasks \/ TakeFront \/ Shutdown \/ Stop \/ UNCHANGED vars
  <2>1. /\ UNCHANGED <<taskw, tasks, work>>
        /\ (loop = "register") <=> (loop' = "register")
        /\ loop = "register" => front' = front
    BY <1>7 DEF CloseOldRows, LoopHead, SelectStop, SelectWake, SelectTick, SizeQueue,
                SizeTasks, Room, TakeFront, LoopTo, Shutdown, Stop, vars
  <2>2. QED
    BY <2>1 DEF Pool!vars
<1>8. QED
  BY <1>1, <1>2, <1>3, <1>4, <1>5, <1>6, <1>7 DEF Next, LoopNext, WorkNext, Pool!Next

\* The engine with its two locks, its rounds and its wake channel implements the
\* abstract pool: builds start in the order they were put, each once, never more than
\* the limit at a time.
THEOREM PoolImplemented == Spec => ImplementsPool
<1>1. Init => Pool!Init
  BY DEF Init, Pool!Init
<1>2. IInv /\ [Next]_vars => [Pool!Next]_(Pool!vars)
  BY PoolStep
<1>3. QED
  BY Invariance, <1>1, <1>2, PTL DEF Spec, ImplementsPool, Pool!Spec
=============================================================================
