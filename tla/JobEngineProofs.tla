-------------------------- MODULE JobEngineProofs --------------------------
(***************************************************************************)
(* Proofs about JobEngine, for every set of jobs, plugins and runners and  *)
(* every number of executers.                                              *)
(***************************************************************************)
EXTENDS JobEngine, DataLemmas, TLAPS

\* A job whose goroutine has not pushed it is nowhere.
Fresh ==
  \A j \in Jobs : put[j] \in {"new", "found", "refused"} =>
    /\ handed[j] = 0
    /\ \A d \in Execs : j \notin Range(jobwt[d])

\* HandedOnce, part by part.
OnceParts ==
  /\ \A j \in Jobs : handed[j] <= 1
  /\ \A j \in Jobs : \A d \in Execs : j \in Range(jobwt[d]) => handed[j] = 0
  /\ \A j \in Jobs : \A c, d \in Execs :
       j \in Range(jobwt[c]) /\ j \in Range(jobwt[d]) => c = d
  /\ \A d \in Execs : IsInjective(jobwt[d])

\* The inductive invariant.
IInv == TypeOK /\ OnceParts /\ Fresh

\* The empty engine satisfies the inductive invariant.
LEMMA InitIInv == Init => IInv
<1> SUFFICES ASSUME Init PROVE IInv
  OBVIOUS
<1>1. \A d \in Execs : jobwt[d] = <<>> /\ Range(jobwt[d]) = {}
  BY DEF Init, Range
<1>2. TypeOK
  BY JobShape DEF Init, TypeOK, Execs, None, PutPC, PullPC
<1>3. OnceParts /\ Fresh
  BY <1>1 DEF Init, OnceParts, Fresh, IsInjective
<1>4. QED
  BY <1>2, <1>3 DEF IInv

\* The part of TypeOK that is about the runners.
PullTypes ==
  /\ pull \in [Runners -> PullPC]
  /\ todo \in [Runners -> SUBSET Plugs]
  /\ name \in [Runners -> Plugs \cup {None}]
  /\ ex \in [Runners -> 0 .. created]
  /\ \A r \in Runners : pull[r] = "take" => ex[r] # None
  /\ \A r \in Runners : pull[r] \in {"create", "take"} => name[r] # None

\* The types are preserved.
LEMMA TypeStep == TypeOK /\ [Next]_vars => TypeOK'
<1> SUFFICES ASSUME TypeOK, [Next]_vars PROVE TypeOK'
  OBVIOUS
<1>0. PlugOf \in [Jobs -> Plugs] /\ MaxExecs \in Nat /\ 0 \notin Plugs
  BY JobShape
<1> USE <1>0 DEF Execs, None
<1>1. ASSUME NEW j \in Jobs, FindExec(j) PROVE TypeOK'
  BY <1>1 DEF TypeOK, FindExec, PutPC, engVars, loopVars, pullVars
<1>2. ASSUME NEW j \in Jobs, PushJob(j) PROVE TypeOK'
  <2>1. target[j] \in Execs /\ jobwt[target[j]] \in Seq(Jobs)
    BY <1>2 DEF TypeOK, PushJob
  <2>2. Append(jobwt[target[j]], j) \in Seq(Jobs)
    BY <2>1, AppendProperties
  <2>3. jobwt' \in [Execs -> Seq(Jobs)]
    BY <1>2, <2>2 DEF TypeOK, PushJob
  <2>4. QED
    BY <1>2, <2>3 DEF TypeOK, PushJob, PutPC, engVars, loopVars, pullVars
<1>3. ASSUME NEW j \in Jobs, StepOver(j) PROVE TypeOK'
  BY <1>3 DEF TypeOK, StepOver, PutPC, engVars, loopVars, pullVars
<1>4. ASSUME NEW r \in Runners, StartPull(r) PROVE TypeOK'
  <2>1. PlugsOf[r] \subseteq Plugs
    BY JobShape
  <2>2. QED
    BY <1>4, <2>1 DEF TypeOK, StartPull, PullPC, engVars, loopVars, putVars
<1>5. ASSUME NEW r \in Runners, LookupExec(r) PROVE TypeOK'
  <2>1. PICK p \in todo[r] :
          /\ todo' = [todo EXCEPT ![r] = @ \ {p}]
          /\ name' = [name EXCEPT ![r] = p]
          /\ ex' = [ex EXCEPT ![r] = execs[p]]
          /\ pull' = [pull EXCEPT ![r] = IF execs[p] = None THEN "create" ELSE "take"]
    BY <1>5 DEF LookupExec
  <2>2. p \in Plugs /\ p # None
    BY <2>1 DEF TypeOK
  <2>3. execs[p] \in 0 .. created
    BY <2>2 DEF TypeOK
  <2>4. UNCHANGED <<execs, created, plug, jobwt, stale, removers, loop, jobs, ended, put, target, handed>>
    BY <1>5 DEF LookupExec, engVars, loopVars, putVars
  <2>5. PullTypes'
    BY <2>1, <2>2, <2>3, <2>4 DEF TypeOK, PullTypes, PullPC
  <2>6. QED
    BY <2>4, <2>5 DEF TypeOK, PullTypes
<1>6. ASSUME NEW r \in Runners, CreateExec(r) PROVE TypeOK'
  BY <1>6 DEF TypeOK, CreateExec, PullPC, loopVars, putVars
<1>7. ASSUME NEW r \in Runners, TakeNothing(r) PROVE TypeOK'
  <2>1. UNCHANGED <<execs, created, plug, jobwt, removers, loop, jobs, ended, put, target, handed>>
        /\ stale' \subseteq stale
    BY <1>7 DEF TakeNothing, engVars, loopVars, putVars
  <2>2. PullTypes'
    <3>1. /\ pull' = [pull EXCEPT ![r] = IF todo[r] = {} THEN "idle" ELSE "lookup"]
          /\ name' = [name EXCEPT ![r] = None]
          /\ ex' = [ex EXCEPT ![r] = None]
          /\ UNCHANGED <<todo, created>>
      BY <1>7, <2>1 DEF TakeNothing, ForgetExec
    <3>2. pull' \in [Runners -> PullPC] /\ todo' \in [Runners -> SUBSET Plugs]
      BY <3>1 DEF TypeOK, PullPC
    <3>3. name' \in [Runners -> Plugs \cup {None}] /\ ex' \in [Runners -> 0 .. created']
      BY <3>1 DEF TypeOK
    <3>4. \A q \in Runners : q # r => pull'[q] = pull[q] /\ name'[q] = name[q] /\ ex'[q] = ex[q]
      BY <3>1 DEF TypeOK
    <3>5. pull'[r] \in {"idle", "lookup"}
      BY <3>1 DEF TypeOK
    <3>6. \A q \in Runners : /\ pull'[q] = "take" => ex'[q] # None
                             /\ pull'[q] \in {"create", "take"} => name'[q] # None
      BY <3>4, <3>5 DEF TypeOK
    <3>7. QED
      BY <3>2, <3>3, <3>6 DEF PullTypes
  <2>3. QED
    BY <2>1, <2>2 DEF TypeOK, PullTypes
<1>8. ASSUME NEW r \in Runners, TakeJob(r) PROVE TypeOK'
  <2>1. ex[r] \in Execs /\ jobwt[ex[r]] \in Seq(Jobs) /\ jobwt[ex[r]] # <<>>
    BY <1>8 DEF TypeOK, TakeJob
  <2>2. Head(jobwt[ex[r]]) \in Jobs /\ Tail(jobwt[ex[r]]) \in Seq(Jobs)
    BY <2>1, HeadTailProperties
  <2>3. jobwt' \in [Execs -> Seq(Jobs)]
    BY <1>8, <2>1, <2>2 DEF TypeOK, TakeJob
  <2>4. jobs' \subseteq Jobs
    BY <1>8, <2>2 DEF TypeOK, TakeJob
  <2>5. handed' \in [Jobs -> Nat]
    <3>1. handed \in [Jobs -> Nat] /\ handed' = [handed EXCEPT ![Head(jobwt[ex[r]])] = @ + 1]
      BY <1>8 DEF TypeOK, TakeJob
    <3>2. handed[Head(jobwt[ex[r]])] + 1 \in Nat
      BY <2>2, <3>1
    <3>3. QED
      BY <3>1, <3>2
  <2>6. UNCHANGED <<execs, created, plug, removers, loop, ended, put, target>> /\ stale' \subseteq stale
    BY <1>8 DEF TakeJob, engVars, loopVars, putVars
  <2>7. PullTypes'
    BY <1>8, <2>6 DEF TypeOK, TakeJob, EndPull, ForgetExec, PullPC, PullTypes
  <2>8. QED
    BY <2>3, <2>4, <2>5, <2>6, <2>7 DEF TypeOK, PullTypes
<1>9. ASSUME NEW e \in Execs, Age(e) PROVE TypeOK'
  <2>1. e \in 1 .. created
    BY <1>9 DEF TypeOK, Age
  <2>2. QED
    BY <1>9, <2>1 DEF TypeOK, Age, engVars, loopVars, putVars, pullVars
<1>10. ASSUME NEW e \in Execs, RmExec(e) PROVE TypeOK'
  <2>1. Range(jobwt[e]) \subseteq Jobs
    BY <1>10, RangeOfSeq DEF TypeOK
  <2>2. execs' \in [Plugs -> 0 .. created]
    <3>1. execs \in [Plugs -> 0 .. created] /\ execs' = [execs EXCEPT ![plug[e]] = None]
      BY <1>10 DEF TypeOK, RmExec
    <3>2. None \in 0 .. created
      BY DEF TypeOK
    <3>3. QED
      BY <3>1, <3>2
  <2>3. QED
    BY <1>10, <2>1, <2>2 DEF TypeOK, RmExec, putVars, pullVars
<1>11. CASE LoopNext
  BY <1>11 DEF TypeOK, LoopNext, ScanExecs, PurgeJobs, engVars, putVars, pullVars
<1>12. CASE UNCHANGED vars
  BY <1>12 DEF TypeOK, vars, engVars, loopVars, putVars, pullVars
<1>13. QED
  BY <1>1, <1>2, <1>3, <1>4, <1>5, <1>6, <1>7, <1>8, <1>9, <1>10, <1>11, <1>12
     DEF Next, StepNext, PullNext

\* An empty list has nothing twice, so the parts are the whole.
LEMMA Parts == TypeOK => (HandedOnce <=> OnceParts)
<1> SUFFICES ASSUME TypeOK PROVE HandedOnce <=> OnceParts
  OBVIOUS
<1>1. ASSUME HandedOnce, NEW d \in Execs PROVE IsInjective(jobwt[d])
  <2>1. jobwt[d] \in Seq(Jobs)
    BY DEF TypeOK
  <2>2. CASE \E j \in Jobs : j \in Range(jobwt[d])
    BY <1>1, <2>2 DEF HandedOnce
  <2>3. CASE ~ \E j \in Jobs : j \in Range(jobwt[d])
    <3>1. DOMAIN jobwt[d] = {}
      BY <2>1, <2>3 DEF Range
    <3>2. QED
      BY <3>1 DEF IsInjective
  <2>4. QED
    BY <2>2, <2>3
<1>2. QED
  BY <1>1 DEF HandedOnce, OnceParts

\* A job enters one list, from its goroutine, and leaves it to one runner.
LEMMA OnceStep ==
  TypeOK /\ OnceParts /\ Fresh /\ [Next]_vars => OnceParts' /\ Fresh'
<1> SUFFICES ASSUME TypeOK, OnceParts, Fresh, [Next]_vars
             PROVE  OnceParts' /\ Fresh'
  OBVIOUS
<1>1. ASSUME NEW j \in Jobs, FindExec(j) \/ StepOver(j) PROVE OnceParts' /\ Fresh'
  <2>1. UNCHANGED <<jobwt, handed>>
    BY <1>1 DEF FindExec, StepOver, pullVars
  <2>2. \A i \in Jobs : put'[i] \in {"new", "found", "refused"} =>
          put[i] \in {"new", "found", "refused"}
    BY <1>1 DEF TypeOK, FindExec, StepOver, PutPC
  <2>3. QED
    BY <2>1, <2>2 DEF OnceParts, Fresh
<1>2. ASSUME NEW j \in Jobs, PushJob(j) PROVE OnceParts' /\ Fresh'
  <2> DEFINE t == target[j]
  <2>1. t \in Execs /\ jobwt[t] \in Seq(Jobs)
    BY <1>2, JobShape DEF TypeOK, PushJob, Execs, None
  <2>2. handed' = handed /\ handed[j] = 0 /\ \A d \in Execs : j \notin Range(jobwt[d])
    BY <1>2 DEF PushJob, Fresh, pullVars
  <2>3. jobwt'[t] = Append(jobwt[t], j) /\ \A d \in Execs \ {t} : jobwt'[d] = jobwt[d]
    BY <1>2, <2>1 DEF TypeOK, PushJob
  <2>4. Range(jobwt'[t]) = Range(jobwt[t]) \cup {j}
    BY <2>1, <2>3, RangeOfAppend
  <2>5. IsInjective(jobwt[t]) /\ j \notin Range(jobwt[t])
    BY <2>1, <2>2 DEF OnceParts
  <2>6. IsInjective(jobwt'[t])
    BY <2>1, <2>3, <2>5, DistinctAppend
  <2>7. OnceParts'
    <3> HIDE DEF t
    <3>1. \A d \in Execs : IsInjective(jobwt'[d])
      BY <2>3, <2>6 DEF OnceParts
    <3>2. \A d \in Execs : Range(jobwt'[d]) \subseteq Range(jobwt[d]) \cup {j}
      BY <2>3, <2>4
    <3>3. \A d \in Execs : j \in Range(jobwt'[d]) => d = t
      BY <2>2, <2>3
    <3>4. QED
      BY <2>2, <3>1, <3>2, <3>3 DEF OnceParts
  <2>8. \A i \in Jobs : put'[i] \in {"new", "found", "refused"} =>
          i # j /\ put[i] \in {"new", "found", "refused"}
    BY <1>2 DEF TypeOK, PushJob
  <2>9. Fresh'
    <3> HIDE DEF t
    <3>1. \A d \in Execs : Range(jobwt'[d]) \subseteq Range(jobwt[d]) \cup {j}
      BY <2>3, <2>4
    <3>2. QED
      BY <2>2, <2>8, <3>1 DEF Fresh
  <2>10. QED
    BY <2>7, <2>9
<1>3. ASSUME NEW r \in Runners, TakeJob(r) PROVE OnceParts' /\ Fresh'
  <2> DEFINE t == ex[r]
             h == Head(jobwt[t])
  <2>1. t \in Execs /\ jobwt[t] \in Seq(Jobs) /\ jobwt[t] # <<>>
    BY <1>3, JobShape DEF TypeOK, TakeJob, Execs, None
  <2>2. h \in Jobs /\ h \in Range(jobwt[t])
    BY <2>1, HeadTailProperties, EmptySeq DEF Range
  <2>3. jobwt'[t] = Tail(jobwt[t]) /\ \A d \in Execs \ {t} : jobwt'[d] = jobwt[d]
    BY <1>3, <2>1 DEF TypeOK, TakeJob
  <2>4. IsInjective(jobwt[t]) /\ IsInjective(jobwt'[t])
    BY <2>1, <2>3, DistinctTail DEF OnceParts
  <2>5. Range(jobwt'[t]) = Range(jobwt[t]) \ {h}
    BY <2>1, <2>3, <2>4, RangeOfTail
  <2>6. handed[h] = 0 /\ put[h] \notin {"new", "found", "refused"}
    BY <2>1, <2>2 DEF OnceParts, Fresh
  <2>7. put' = put /\ handed'[h] = 1 /\ \A i \in Jobs \ {h} : handed'[i] = handed[i]
    <3>1. handed' = [handed EXCEPT ![h] = @ + 1] /\ put' = put
      BY <1>3 DEF TakeJob, putVars
    <3>2. handed \in [Jobs -> Nat]
      BY DEF TypeOK
    <3> HIDE DEF h
    <3>3. QED
      BY <2>2, <2>6, <3>1, <3>2
  <2> HIDE DEF t, h
  <2>8. \A d \in Execs : Range(jobwt'[d]) \subseteq Range(jobwt[d]) \ {h}
    BY <2>1, <2>2, <2>3, <2>5 DEF OnceParts
  <2>9. \A d \in Execs : IsInjective(jobwt'[d])
    BY <2>3, <2>4 DEF OnceParts
  <2>10. OnceParts'
    BY <2>2, <2>7, <2>8, <2>9 DEF OnceParts
  <2>11. Fresh'
    BY <2>6, <2>7, <2>8 DEF Fresh
  <2>12. QED
    BY <2>10, <2>11
<1>4. ASSUME UNCHANGED <<jobwt, handed, put>> PROVE OnceParts' /\ Fresh'
  BY <1>4 DEF OnceParts, Fresh
<1>5. ASSUME NEW r \in Runners, StartPull(r) \/ LookupExec(r) \/ CreateExec(r) \/ TakeNothing(r)
      PROVE  UNCHANGED <<jobwt, handed, put>>
  BY <1>5 DEF StartPull, LookupExec, CreateExec, TakeNothing, putVars
<1>6. ASSUME NEW e \in Execs, Age(e) \/ RmExec(e) PROVE UNCHANGED <<jobwt, handed, put>>
  BY <1>6 DEF Age, RmExec, putVars, pullVars
<1>7. ASSUME LoopNext PROVE UNCHANGED <<jobwt, handed, put>>
  BY <1>7 DEF LoopNext, ScanExecs, PurgeJobs, putVars, pullVars
<1>8. ASSUME UNCHANGED vars PROVE UNCHANGED <<jobwt, handed, put>>
  BY <1>8 DEF vars, putVars, pullVars
<1>9. QED
  BY <1>1, <1>2, <1>3, <1>4, <1>5, <1>6, <1>7, <1>8 DEF Next, StepNext, PullNext

-----------------------------------------------------------------------------

\* IInv is an invariant of the engine.
THEOREM Invariance == Spec => []IInv
<1>1. Init => IInv
  BY InitIInv
<1>2. IInv /\ [Next]_vars => IInv'
  BY TypeStep, OnceStep DEF IInv
<1>3. QED
  BY <1>1, <1>2, PTL DEF Spec

\* Every executer the map, a Put or a Pull holds is one that was created.
THEOREM TypeCorrect == Spec => []TypeOK
<1>1. IInv => TypeOK
  BY DEF IInv
<1>2. QED
  BY <1>1, Invariance, PTL

\* However runners, steps and removals race, no job is handed out twice.
THEOREM HandedOnceKept == Spec => []HandedOnce
<1>1. IInv => HandedOnce
  BY Parts DEF IInv
<1>2. QED
  BY <1>1, Invariance, PTL
=============================================================================
