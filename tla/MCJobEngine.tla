---------------------------- MODULE MCJobEngine ----------------------------
(* An instance of JobEngine for TLC: three jobs of two plugins.  turn says *)
(* whether two runners race for the two jobs of one plugin while executers *)
(* get old, or whether the mainRunner alone, which never stops asking,     *)
(* serves all three.                                                       *)
EXTENDS JobEngine, TLC

CONSTANTS p1, p2, j1, j2, j3, r1, r2, r3

TwoPlugs   == {p1, p2}
ThreeJobs  == {j1, j2, j3}
MixedPlugs == [j \in ThreeJobs |-> IF j = j3 THEN p2 ELSE p1]
ThreeRunners == {r1, r2, r3}
TheirPlugs == [r \in ThreeRunners |-> IF r = r3 THEN TwoPlugs ELSE {p1}]

VARIABLE turn

MenuInit == Init /\ turn \in {"race", "calm"}

Race ==
  \/ \E j \in {j1, j2} : StepNext(j)
  \/ \E r \in {r1, r2} : PullNext(r)
  \/ \E e \in Execs : Age(e) \/ RmExec(e)

\* No executer gets old while its runner goes on asking.
Calm == PullNext(r3) \/ \E j \in Jobs : StepNext(j)

MenuNext ==
  /\ UNCHANGED turn
  /\ \/ turn = "race" /\ Race
     \/ turn = "calm" /\ Calm
     \/ LoopNext

\* The goroutines of the server run, and in its turn the mainRunner does.
MenuSpec ==
  /\ MenuInit
  /\ [][MenuNext]_<<vars, turn>>
  /\ WF_<<vars, turn>>(LoopNext /\ UNCHANGED turn)
  /\ \A e \in Execs : WF_<<vars, turn>>(RmExec(e) /\ UNCHANGED turn)
  /\ \A j \in Jobs : WF_<<vars, turn>>(PushJob(j) /\ UNCHANGED turn)
  /\ WF_<<vars, turn>>(turn = "calm" /\ PullNext(r3) /\ UNCHANGED turn)

\* With one runner that keeps asking, a job that was accepted reaches it, whatever its
\* plugin, unless its step is over before.
Served ==
  \A j \in Jobs : (turn = "calm" /\ put[j] = "accepted") ~> (handed[j] = 1 \/ put[j] = "over")
=============================================================================
