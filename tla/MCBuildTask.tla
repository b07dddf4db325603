---------------------------- MODULE MCBuildTask ----------------------------
(* Instances of BuildTask for TLC: two stages, three or four steps.        *)
EXTENDS BuildTask

CONSTANTS a, b, c, d, ghost

ThreeSteps == {a, b, c}
WithGhost  == ThreeSteps \cup {ghost}
TwoStages  == [s \in ThreeSteps |-> IF s = c THEN 2 ELSE 1]

\* b waits on a; c, alone in the second stage, waits on nothing.
Chain == [s \in ThreeSteps |-> IF s = b THEN {a} ELSE {}]

\* a and b wait on each other; c waits on a name its stage does not have.
Cycle == [s \in ThreeSteps |-> IF s = a THEN {b} ELSE IF s = b THEN {a} ELSE {ghost}]

\* c waits on both others of its stage; d is alone in the second stage.
FourSteps == {a, b, c, d}
FourStages == [s \in FourSteps |-> IF s = d THEN 2 ELSE 1]
Fan == [s \in FourSteps |-> IF s = c THEN {a, b} ELSE {}]

NoIgnored == {}
BIgnored  == {b}
=============================================================================
