----------------------------- MODULE BuildVars -----------------------------
(***************************************************************************)
(* The variables of a build: convertVar and replace (service/pipeline.go)  *)
(* and their use in a command line (engine/buildTaskc.go, genRunjob).      *)
(* Variables come from the organisation, the pipeline and the description, *)
(* each overriding the ones before.  Both loops of convertVar range over a *)
(* Go map, in any order, and read what they change.                        *)
(*                                                                         *)
(* A value is a text without variables, or names one variable.             *)
(***************************************************************************)
EXTENDS Naturals

CONSTANTS
  VarNames,  \* the names of variables
  Texts,     \* values that name no variable
  Empty,     \* the empty text, one of them
  Masked,    \* comm.MaskedValue, which is none of them
  StoredVars, GivenValues \* what database and description may hold


VarValues == Texts \cup VarNames
NoVar   == [value |-> Empty, secret |-> FALSE, known |-> FALSE]
Vars    == [value : VarValues, secret : BOOLEAN, known : {TRUE}] \cup {NoVar}

ASSUME VarsShape ==
  /\ Empty \in Texts /\ Masked \notin Texts /\ VarNames \cap Texts = {}
  /\ StoredVars \subseteq Vars
  /\ GivenValues \subseteq VarValues

VARIABLES
  stored,   \* the variables of organisation and pipeline
  given,    \* the values the description gives, Masked for none
  vms,      \* the map convertVar builds
  loop,     \* which of its loops runs, or "lines" when it has returned
  todo,     \* the names the loop has still to visit
  shown,    \* what t_cmd_line shows of a line that consists of a variable
  executed  \* what the runner is given for it

varsVars == <<stored, given, vms, loop, todo, shown, executed>>

Given == {n \in VarNames : given[n] # Masked}

VarsInit ==
  /\ stored \in [VarNames -> StoredVars]
  /\ given \in [VarNames -> GivenValues \cup {Masked}]
  /\ vms = stored
  /\ loop = "given" /\ todo = Given
  /\ shown = [n \in VarNames |-> Empty] /\ executed = [n \in VarNames |-> Empty]

\* Mutant of Shown: without mustShow a secret is masked for the runner too.
ShownMasked(v) == IF v \notin VarNames THEN v
                  ELSE IF vms[v].secret THEN Masked ELSE vms[v].value

\* replace, with mustShow: a variable that is not known becomes empty.
Shown(v) == IF v \in VarNames THEN vms[v].value ELSE v

\* replace, its second result
NamesSecret(v) == v \in VarNames /\ vms[v].secret

\* The first loop: the variables of the description.
TakeGiven(n) ==
  /\ loop = "given" /\ n \in todo
  /\ vms' = [vms EXCEPT ![n] = [value |-> Shown(given[n]), secret |-> NamesSecret(given[n]),
                                known |-> TRUE]]
  /\ todo' = todo \ {n}
  /\ UNCHANGED <<stored, given, loop, shown, executed>>

\* The second loop: every value once more, its flag stays.
ResolveVar(n) ==
  /\ loop = "all" /\ n \in todo
  /\ vms' = [vms EXCEPT ![n] = [value |-> Shown(vms[n].value), secret |-> vms[n].secret,
                                known |-> TRUE]]
  /\ todo' = todo \ {n}
  /\ UNCHANGED <<stored, given, loop, shown, executed>>

NextLoop ==
  /\ todo = {}
  /\ \/ /\ loop = "given" /\ loop' = "all"
        /\ todo' = {n \in VarNames : vms[n].known}
     \/ loop = "all" /\ loop' = "lines" /\ todo' = VarNames
  /\ UNCHANGED <<stored, given, vms, shown, executed>>

\* A command line that consists of one variable.
WriteLine(n) ==
  /\ loop = "lines" /\ n \in todo
  /\ executed' = [executed EXCEPT ![n] = vms[n].value]
  /\ shown' = [shown EXCEPT ![n] = IF vms[n].secret THEN Masked ELSE vms[n].value]
  /\ todo' = todo \ {n}
  /\ UNCHANGED <<stored, given, vms, loop>>

VarsNext == NextLoop \/ \E n \in VarNames : TakeGiven(n) \/ ResolveVar(n) \/ WriteLine(n)
VarsSpec == VarsInit /\ [][VarsNext]_varsVars

-----------------------------------------------------------------------------
\* A variable of the description that names one of the organisation or the
\* pipeline which the description does not redefine and whose value is a text:
\* in whatever order the maps are visited, the runner gets that text, and the
\* recorded line shows it unless the variable it names is secret.  References
\* among the variables of the description depend on the order.
NamedIsResolved ==
  \A n \in Given :
    LET m == given[n] IN
    /\ loop = "lines" /\ n \notin todo
    /\ m \in VarNames \ Given /\ stored[m].value \in Texts
    => /\ executed[n] = stored[m].value
       /\ shown[n] = IF stored[m].secret THEN Masked ELSE stored[m].value
=============================================================================
