---------------------------- MODULE Description ----------------------------
(***************************************************************************)
(* What becomes of the description of a pipeline on its way into the       *)
(* engine: it is checked when it is saved (bean/yml.go, Check), checked    *)
(* again when it is run, its names are replaced and its disabled steps     *)
(* left out (service/pipeline.go), and the task checks the build it gets   *)
(* in its own way (engine/buildTaskc.go, check).  The two checks are       *)
(* written apart from each other and see different things.                 *)
(*                                                                         *)
(* A description is a sequence of stages, a stage a name and a sequence of *)
(* steps.  A name may hold the one variable Var, whose value is read when  *)
(* the pipeline is run.                                                    *)
(***************************************************************************)
EXTENDS Naturals, Sequences

CONSTANTS
  Written,   \* the descriptions that may be sent
  Values,    \* the values the variable may have
  Labels,    \* the names a description may hold
  Var, Blank \* a name that holds the variable, and the empty one

Steps  == [name : Labels, plugin : Labels, off : BOOLEAN, waits : SUBSET Labels]
Stages == [name : Labels, steps : Seq(Steps)]

ASSUME DescriptionShape == Written \subseteq Seq(Stages) /\ Var # Blank

VARIABLES
  doc,       \* the description
  value,     \* the value of the variable
  phase,     \* how far it has come
  build      \* the stages of the runtime.Build

descriptionVars == <<doc, value, phase, build>>

DescriptionInit ==
  /\ doc \in Written
  /\ value \in Values
  /\ phase = "sent"
  /\ build = <<>>

Distinct(s) == \A i, j \in DOMAIN s : s[i].name = s[j].name => i = j

\* bean.Pipeline.Check
Check(d) ==
  /\ d # <<>>
  /\ Distinct(d)
  /\ \A i \in DOMAIN d :
       /\ d[i].name # Blank
       /\ d[i].steps # <<>>
       /\ Distinct(d[i].steps)
       /\ \A j \in DOMAIN d[i].steps : /\ d[i].steps[j].plugin # Blank
                                       /\ d[i].steps[j].name # Blank

\* Mutant of Replaced: a name that is empty keeps its variable.
ReplacedUnlessBlank(n) == IF n = Var /\ value # Blank THEN value ELSE n

\* The name of a stage or a step and the plugin of a step are replaced, the
\* names a step waits on are not.
Replaced(n) == IF n = Var THEN value ELSE n

\* Mutant of Enabled: a disabled step ends the loop instead of being passed over.
EnabledUntilOff(steps) ==
  LET on == {n \in 0 .. Len(steps) : \A j \in 1 .. n : ~ steps[j].off}
  IN  SubSeq(steps, 1, CHOOSE n \in on : \A k \in on : k <= n)

Enabled(steps) ==
  LET on[n \in 0 .. Len(steps)] ==
        IF n = 0 THEN <<>>
        ELSE IF steps[n].off THEN on[n - 1] ELSE Append(on[n - 1], steps[n])
  IN  on[Len(steps)]

\* The loops of preBuild over stages and steps.
Built(d) == [i \in DOMAIN d |->
  [name |-> Replaced(d[i].name),
   steps |-> LET on == Enabled(d[i].steps)
             IN  [j \in DOMAIN on |-> [on[j] EXCEPT !.name = Replaced(@), !.plugin = Replaced(@)]]]]

\* Mutant of Takes: a step without a plugin is no error.
TakesNoPlugin(b) ==
  /\ b # <<>>
  /\ Distinct(b)
  /\ \A i \in DOMAIN b :
       /\ b[i].name # Blank
       /\ b[i].steps # <<>>
       /\ \A j \in DOMAIN b[i].steps : b[i].steps[j].name # Blank

\* BuildTask.check
Takes(b) ==
  /\ b # <<>>
  /\ Distinct(b)
  /\ \A i \in DOMAIN b :
       /\ b[i].name # Blank
       /\ b[i].steps # <<>>
       /\ Distinct(b[i].steps)
       /\ \A j \in DOMAIN b[i].steps : /\ b[i].steps[j].plugin # Blank
                                       /\ b[i].steps[j].name # Blank

\* The waits of a step that runStep cannot find among the jobs of its stage.
Dangling(stage, step) ==
  {w \in step.waits \ {Blank} : \A k \in DOMAIN stage.steps : stage.steps[k].name # w}

-----------------------------------------------------------------------------
Save ==
  /\ phase = "sent"
  /\ phase' = IF Check(doc) THEN "saved" ELSE "refused"
  /\ UNCHANGED <<doc, value, build>>

Run ==
  /\ phase = "saved"
  /\ phase' = IF Check(doc) THEN "built" ELSE "refused"
  /\ build' = IF Check(doc) THEN Built(doc) ELSE build
  /\ UNCHANGED <<doc, value>>

Take ==
  /\ phase = "built"
  /\ phase' = IF Takes(build) THEN "taken" ELSE "rejected"
  /\ UNCHANGED <<doc, value, build>>

DescriptionNext == Save \/ Run \/ Take
DescriptionSpec == DescriptionInit /\ [][DescriptionNext]_descriptionVars

-----------------------------------------------------------------------------
(* Properties.                                                             *)

Names(seq) == {seq[i].name : i \in DOMAIN seq}

\* A variable of a name makes it empty or the same as another one.
Clashes(names) == value \in ({Blank} \cup names) \ {Var}
Collides(d) ==
  \/ \E i \in DOMAIN d : d[i].name = Var /\ Clashes(Names(d))
  \/ \E i \in DOMAIN d : \E j \in DOMAIN d[i].steps :
       LET s == d[i].steps[j]
       IN  ~ s.off /\ \/ s.name = Var /\ Clashes(Names(Enabled(d[i].steps)))
                      \/ s.plugin = Var /\ value = Blank

AllOff(d) == \E i \in DOMAIN d : \A j \in DOMAIN d[i].steps : d[i].steps[j].off

\* A description that was saved is only rejected by the engine when all steps
\* of a stage are disabled or a variable made two names the same or one empty,
\* and then it always is.
RejectedForReason ==
  phase \in {"taken", "rejected"} => (phase = "rejected" <=> AllOff(doc) \/ Collides(doc))

\* In a build the engine takes, a wait finds no step only when none of that
\* name stands in the stage, when that step is disabled, or when its name was
\* a variable, which is replaced in the name and not in the wait.
DanglingForReason ==
  phase = "taken" =>
    \A i \in DOMAIN build : \A j \in DOMAIN build[i].steps :
      \A w \in Dangling(build[i], build[i].steps[j]) :
        \/ w \notin Names(doc[i].steps)
        \/ w = Var
        \/ \E k \in DOMAIN doc[i].steps : doc[i].steps[k].name = w /\ doc[i].steps[k].off
=============================================================================
