----------------------------- MODULE JobEngine -----------------------------
(***************************************************************************)
(* The queues of jobs (engine/jobEgn.go).  A runner that asks for work     *)
(* names its plugins; the first question about a plugin creates its        *)
(* executer, an object with a list of jobs and the time of the last        *)
(* question.  The goroutine of a step puts its job into the list of the    *)
(* executer of its plugin.  The goroutine of the engine has executers      *)
(* nobody asked about for two minutes removed, each by a goroutine of its  *)
(* own, and forgets the jobs that are over.                                *)
(*                                                                         *)
(* The map of executers, every executer and the map of jobs have a lock    *)
(* each, taken in this order: one action is one critical section of the    *)
(* outermost lock.  What is looked up in one may be stale in the next.     *)
(***************************************************************************)
EXTENDS Naturals, Sequences, Functions

CONSTANTS
  Jobs,      \* the jobs that may be put, one goroutine of runStep each
  Plugs,     \* the plugins
  PlugOf,    \* the plugin of a job (job.step.Step)
  Runners,   \* goroutines in baseRunner.PullJob
  PlugsOf,   \* the plugins a runner has
  MaxExecs   \* bound: how many executers are created

ASSUME JobShape ==
  /\ PlugOf \in [Jobs -> Plugs]
  /\ PlugsOf \in [Runners -> (SUBSET Plugs) \ {{}}]
  /\ MaxExecs \in Nat
  /\ 0 \notin Plugs

Execs == 1 .. MaxExecs
None  == 0

VARIABLES
  execs,     \* the map of executers, None where it has no entry
  created,   \* how many executers there have been
  plug,      \* executer.plug
  jobwt,     \* executer.jobwt
  stale,     \* the executers whose tms is more than two minutes old
  removers,  \* the executers for which a goroutine of rmExec has been started
  loop,      \* where the goroutine of the engine stands
  jobs,      \* the keys of the map of jobs
  ended,     \* the jobs with job.ended
  put,       \* how far the goroutine of a step is with its job
  target,    \* the executer Put found for it
  pull,      \* where a runner stands in Pull
  todo,      \* the plugins Pull has still to look at
  name,      \* the plugin it looks at
  ex,        \* the executer it holds
  handed     \* the jobs handed out, and how often

engVars  == <<execs, created, plug>>
loopVars == <<removers, loop>>
putVars  == <<put, target>>
pullVars == <<pull, todo, name, ex, handed>>
vars     == <<engVars, jobwt, stale, loopVars, jobs, ended, putVars, pullVars>>

PutPC  == {"new", "found", "accepted", "refused", "over"}
PullPC == {"idle", "lookup", "create", "take"}

TypeOK ==
  /\ execs \in [Plugs -> 0 .. created]
  /\ created \in 0 .. MaxExecs
  /\ plug \in [Execs -> Plugs \cup {None}]
  /\ jobwt \in [Execs -> Seq(Jobs)]
  /\ stale \subseteq 1 .. created
  /\ removers \subseteq 1 .. created
  /\ loop \in {"scan", "purge"}
  /\ jobs \subseteq Jobs
  /\ ended \subseteq Jobs
  /\ put \in [Jobs -> PutPC]
  /\ target \in [Jobs -> 0 .. created]
  /\ pull \in [Runners -> PullPC]
  /\ todo \in [Runners -> SUBSET Plugs]
  /\ name \in [Runners -> Plugs \cup {None}]
  /\ ex \in [Runners -> 0 .. created]
  /\ \A j \in Jobs : put[j] = "found" => target[j] # None
  /\ \A r \in Runners : pull[r] = "take" => ex[r] # None
  /\ \A r \in Runners : pull[r] \in {"create", "take"} => name[r] # None
  /\ handed \in [Jobs -> Nat]

Init ==
  /\ execs = [p \in Plugs |-> None]
  /\ created = 0
  /\ plug = [e \in Execs |-> None]
  /\ jobwt = [e \in Execs |-> <<>>]
  /\ stale = {}
  /\ removers = {}
  /\ loop = "scan"
  /\ jobs = {}
  /\ ended = {}
  /\ put = [j \in Jobs |-> "new"]
  /\ target = [j \in Jobs |-> None]
  /\ pull = [r \in Runners |-> "idle"]
  /\ todo = [r \in Runners |-> {}]
  /\ name = [r \in Runners |-> None]
  /\ ex = [r \in Runners |-> None]
  /\ handed = [j \in Jobs |-> 0]

-----------------------------------------------------------------------------
(* The goroutine of runStep.                                               *)

\* Mutant of FindExec: whether there is an executer is not asked.
FindExecUnchecked(j) ==
  /\ put[j] = "new"
  /\ target' = [target EXCEPT ![j] = execs[PlugOf[j]]]
  /\ put' = [put EXCEPT ![j] = "found"]
  /\ UNCHANGED <<engVars, jobwt, stale, loopVars, jobs, ended, pullVars>>

\* Put, first half: without an executer for the plugin it fails.
FindExec(j) ==
  /\ put[j] = "new"
  /\ target' = [target EXCEPT ![j] = execs[PlugOf[j]]]
  /\ put' = [put EXCEPT ![j] = IF execs[PlugOf[j]] = None THEN "refused" ELSE "found"]
  /\ UNCHANGED <<engVars, jobwt, stale, loopVars, jobs, ended, pullVars>>

\* Put, second half: the executer found, in the map or not.
PushJob(j) ==
  /\ put[j] = "found"
  /\ put' = [put EXCEPT ![j] = "accepted"]
  /\ jobwt' = [jobwt EXCEPT ![target[j]] = Append(@, j)]
  /\ target' = [target EXCEPT ![j] = None]
  /\ UNCHANGED <<engVars, stale, loopVars, jobs, ended, pullVars>>

\* Mutant of StepOver: the flag is not set.
StepOverUnflagged(j) ==
  /\ put[j] \in {"accepted", "refused"}
  /\ put' = [put EXCEPT ![j] = "over"]
  /\ UNCHANGED <<engVars, jobwt, stale, loopVars, jobs, ended, target, pullVars>>

\* runStep returns, on an error of Put, at the end of the step or of its context.
StepOver(j) ==
  /\ put[j] \in {"accepted", "refused"}
  /\ put' = [put EXCEPT ![j] = "over"]
  /\ ended' = ended \cup {j}
  /\ UNCHANGED <<engVars, jobwt, stale, loopVars, jobs, target, pullVars>>

-----------------------------------------------------------------------------
(* A runner in Pull.                                                       *)

\* baseRunner.PullJob calls Pull until it gets a job, for five seconds, and the runner
\* calls PullJob again.
StartPull(r) ==
  /\ pull[r] = "idle"
  /\ pull' = [pull EXCEPT ![r] = "lookup"]
  /\ todo' = [todo EXCEPT ![r] = PlugsOf[r]]
  /\ UNCHANGED <<engVars, jobwt, stale, loopVars, jobs, ended, putVars, name, ex, handed>>

\* The next plugin of the runner's list: its executer under the lock of the map.
LookupExec(r) ==
  /\ pull[r] = "lookup"
  /\ \E p \in todo[r] :
       /\ todo' = [todo EXCEPT ![r] = @ \ {p}]
       /\ name' = [name EXCEPT ![r] = p]
       /\ ex' = [ex EXCEPT ![r] = execs[p]]
       /\ pull' = [pull EXCEPT ![r] = IF execs[p] = None THEN "create" ELSE "take"]
  /\ UNCHANGED <<engVars, jobwt, stale, loopVars, jobs, ended, putVars, handed>>

\* It had none: a new one, whatever the map holds by now.
CreateExec(r) ==
  /\ pull[r] = "create"
  /\ created < MaxExecs
  /\ created' = created + 1
  /\ plug' = [plug EXCEPT ![created + 1] = name[r]]
  /\ execs' = [execs EXCEPT ![name[r]] = created + 1]
  /\ ex' = [ex EXCEPT ![r] = created + 1]
  /\ pull' = [pull EXCEPT ![r] = "take"]
  /\ UNCHANGED <<jobwt, stale, loopVars, jobs, ended, putVars, todo, name, handed>>

\* The variables of Pull end with the turn of the loop, or with the call.
ForgetExec(r) ==
  /\ name' = [name EXCEPT ![r] = None]
  /\ ex' = [ex EXCEPT ![r] = None]

EndPull(r) ==
  /\ pull' = [pull EXCEPT ![r] = "idle"]
  /\ todo' = [todo EXCEPT ![r] = {}]
  /\ ForgetExec(r)

\* Mutant of TakeNothing: Pull returns when the first list is empty.
TakeNothingGivesUp(r) ==
  /\ pull[r] = "take"
  /\ jobwt[ex[r]] = <<>>
  /\ stale' = stale \ {ex[r]}
  /\ EndPull(r)
  /\ UNCHANGED <<engVars, jobwt, loopVars, jobs, ended, putVars, handed>>

\* The list is empty: on to the next plugin, or Pull returns nothing.
TakeNothing(r) ==
  /\ pull[r] = "take"
  /\ jobwt[ex[r]] = <<>>
  /\ stale' = stale \ {ex[r]}
  /\ pull' = [pull EXCEPT ![r] = IF todo[r] = {} THEN "idle" ELSE "lookup"]
  /\ ForgetExec(r)
  /\ UNCHANGED <<engVars, jobwt, loopVars, jobs, ended, putVars, todo, handed>>

\* Mutant of TakeJob: the job stays in the list.
TakeJobKept(r) ==
  /\ pull[r] = "take"
  /\ jobwt[ex[r]] # <<>>
  /\ stale' = stale \ {ex[r]}
  /\ jobs' = jobs \cup {Head(jobwt[ex[r]])}
  /\ handed' = [handed EXCEPT ![Head(jobwt[ex[r]])] = @ + 1]
  /\ EndPull(r)
  /\ UNCHANGED <<engVars, jobwt, loopVars, ended, putVars>>

\* The front of the list leaves it, enters the map of jobs and goes to the runner.
TakeJob(r) ==
  /\ pull[r] = "take"
  /\ jobwt[ex[r]] # <<>>
  /\ stale' = stale \ {ex[r]}
  /\ jobwt' = [jobwt EXCEPT ![ex[r]] = Tail(@)]
  /\ jobs' = jobs \cup {Head(jobwt[ex[r]])}
  /\ handed' = [handed EXCEPT ![Head(jobwt[ex[r]])] = @ + 1]
  /\ EndPull(r)
  /\ UNCHANGED <<engVars, loopVars, ended, putVars>>

PullNext(r) ==
  StartPull(r) \/ LookupExec(r) \/ CreateExec(r) \/ TakeNothing(r) \/ TakeJob(r)

-----------------------------------------------------------------------------
(* The goroutine of the engine.                                            *)

\* Two minutes pass in which no runner takes from the executer; nobody reads the time
\* of an executer that is not in the map.
Age(e) ==
  /\ \E p \in Plugs : execs[p] = e
  /\ e \notin stale
  /\ stale' = stale \cup {e}
  /\ UNCHANGED <<engVars, jobwt, loopVars, jobs, ended, putVars, pullVars>>

\* run(), every thirty seconds: a goroutine for every executer in the map that is stale.
ScanExecs ==
  /\ loop = "scan"
  /\ loop' = "purge"
  /\ removers' = removers \cup {e \in stale : \E p \in Plugs : execs[p] = e}
  /\ UNCHANGED <<engVars, jobwt, stale, jobs, ended, putVars, pullVars>>

PurgeJobs ==
  /\ loop = "purge"
  /\ loop' = "scan"
  /\ jobs' = jobs \ ended
  /\ UNCHANGED <<engVars, jobwt, stale, removers, ended, putVars, pullVars>>

\* rmExec: it asks neither whether the executer is still stale nor whether the map
\* still holds this one; the jobs in the list get the flag and stay where they are.
RmExec(e) ==
  /\ e \in removers
  /\ removers' = removers \ {e}
  /\ ended' = ended \cup Range(jobwt[e])
  /\ execs' = [execs EXCEPT ![plug[e]] = None]
  /\ UNCHANGED <<created, plug, jobwt, stale, loop, jobs, putVars, pullVars>>

LoopNext == ScanExecs \/ PurgeJobs

-----------------------------------------------------------------------------

StepNext(j) == FindExec(j) \/ PushJob(j) \/ StepOver(j)

Next ==
  \/ \E j \in Jobs : StepNext(j)
  \/ \E r \in Runners : PullNext(r)
  \/ \E e \in Execs : Age(e) \/ RmExec(e)
  \/ LoopNext

\* The goroutines of the server run.
Fairness ==
  /\ WF_vars(LoopNext)
  /\ \A e \in Execs : WF_vars(RmExec(e))
  /\ \A j \in Jobs : WF_vars(PushJob(j))

Spec == Init /\ [][Next]_vars /\ Fairness

-----------------------------------------------------------------------------
(* Properties.                                                             *)

\* However runners and removals race, a job is in one list at most, once, and is handed
\* to one runner at most: a step is never run twice.
HandedOnce ==
  \A j \in Jobs :
    /\ handed[j] <= 1
    /\ \A d \in Execs : j \in Range(jobwt[d]) =>
         /\ handed[j] = 0
         /\ \A c \in Execs : j \in Range(jobwt[c]) => c = d
         /\ IsInjective(jobwt[d])

\* The map of jobs does not grow for ever: a job whose step is over leaves it, also when
\* a runner took it only after that.
Drained == \A j \in Jobs : (j \in jobs /\ put[j] = "over") ~> (j \notin jobs)
=============================================================================
