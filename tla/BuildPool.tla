----------------------------- MODULE BuildPool -----------------------------
(***************************************************************************)
(* What the build engine promises: a queue of builds, taken in the order   *)
(* they were submitted, at most Limit of which are worked on at a time.    *)
(* Nothing is lost and nothing is started twice.                           *)
(***************************************************************************)
EXTENDS Naturals, Sequences, FiniteSets, Functions

CONSTANTS
  Builds,   \* the builds that may ever be submitted
  Limit     \* how many are worked on at a time, a positive number

VARIABLES
  queue,    \* submitted, not started
  active,   \* started, not over
  over      \* over

vars == <<queue, active, over>>

Queued == Range(queue)

Init == queue = <<>> /\ active = {} /\ over = {}

Submit(b) ==
  /\ b \notin Queued \cup active \cup over
  /\ queue' = Append(queue, b)
  /\ UNCHANGED <<active, over>>

Start ==
  /\ queue # <<>>
  /\ Cardinality(active) < Limit
  /\ queue' = Tail(queue)
  /\ active' = active \cup {Head(queue)}
  /\ UNCHANGED over

Finish(b) ==
  /\ b \in active
  /\ active' = active \ {b}
  /\ over' = over \cup {b}
  /\ UNCHANGED queue

Next ==
  \/ \E b \in Builds : Submit(b) \/ Finish(b)
  \/ Start

Spec == Init /\ [][Next]_vars
=============================================================================
