----------------------------- MODULE MCRecords -----------------------------
(* The modules of what is written before a build runs, side by side: turn  *)
(* says which one moves.                                                   *)
EXTENDS BuildRecords, Description, BuildVars, Webhooks, TLC

CONSTANTS p1, p2, d1, d2, r1, r2, sa, sb, sh, v1, v2, v3, txt, c1, c2, up, fork

TwoPipes == {p1, p2}
TwoDocs == {d1, d2}
DocSizes == (d1 :> <<1>>) @@ (d2 :> <<0>>)
TwoRequests == {r1, r2}
OneEditor == {r2}
Symmetries == Permutations(TwoPipes)

\* Up to three steps in a stage, which may be followed by a stage of one step.
Step(n, w) == [name |-> n, plugin |-> sh, off |-> FALSE, waits |-> w]
AllSteps == [name : {sa, Blank, Var}, plugin : {sh, Blank, Var}, off : BOOLEAN,
             waits : {{}, {sa}, {Var}}]
AllStages == [name : {sa, Var}, steps : {<<>>} \cup {<<s>> : s \in AllSteps}
              \cup {<<Step(sb, {sa, Blank}), s>> : s \in AllSteps}
                                \cup {<<Step(sb, {sa}), s, Step(sa, {})>> : s \in AllSteps}]
LastStage == [name |-> sb, steps |-> <<Step(sb, {})>>]
Descriptions == {<<>>} \cup {<<s>> : s \in AllStages} \cup {<<s, LastStage>> : s \in AllStages}
AllValues == {sa, sb, Blank, Var}
AllLabels == {sa, sb, sh, Blank, Var}

ThreeVars == {v1, v2, v3}
SomeTexts == {txt, Blank}
SomeStored == {NoVar, [value |-> txt, secret |-> TRUE, known |-> TRUE],
               [value |-> txt, secret |-> FALSE, known |-> TRUE],
               [value |-> v1, secret |-> FALSE, known |-> TRUE]}
SomeGiven == {v2, v3, txt}

\* What the git hosts tell: pushes to a branch, below one and of a deleted one,
\* requests between two repositories, and comments on them and on an issue.
Main == <<"main">>
Feature == <<"feature", "x">>
Heads == {Side(Main, c1, up), Side(Feature, c2, fork)}
Base == Side(Main, c1, up)
Happenings ==
  {Push(ref, after[1], after[2], up) : ref \in {Main, <<"refs", "heads">> \o Main, <<"refs", "heads">> \o Feature},
     after \in {<<c2, <<c2>>>>, <<c2, <<>>>>, <<ZeroSha, <<>>>>}}
  \cup {PullRequest(act, h, Base) : act \in {"open", "opened", "close", ""},
                                  h \in Heads}
  \cup {Note("comment", h, Base, x) : h \in Heads, x \in {"found", "hidden", "unreachable"}}
  \cup {Note("comment", NoSide, NoSide, "found"), [kind |-> "issue"]}
SomeDeliveries == [host : {"github", "gitea", "gitlab", "gitee"}, what : Happenings,
               digest : {"sha1"}, key : {"k1", ""}]
  \cup [host : {"github", "gitea"}, what : {Push(<<"refs", "heads">> \o Main, c2, <<c2>>, up)},
        digest : {"sha256", "other"}, key : {"k1"}]
TheTriggers == [enabled : BOOLEAN, params :
  {[kind |-> "empty"], [kind |-> "garbled"]} \cup
  [kind : {"object"}, hookType : {"github", "gitea", "gitlab", "gitee", "giteepremium", "svn", ""},
   secret : {"k1"}, event : {"", "pr"}, branch : {NoRef, Main, Feature}]
  \cup [kind : {"object"}, hookType : {"gitlab", "github"}, secret : {""}, event : {""},
         branch : {NoRef}]]
TheSecrets == {"k1", "k2"}

VARIABLE turn
RecordsIdle ==
  /\ pipes = [p \in Pipes |-> "none"] /\ conf = [p \in Pipes |-> NoDoc] /\ versions = <<>>
  /\ rows = [v \in Ids |-> {}] /\ open = [v \in Ids |-> {}]
  /\ reqs = [r \in Requests |-> Idle] /\ begun = 0
  /\ work = [v \in Ids |-> "none"] /\ lost = {}
  /\ process = 1 /\ engine = "off" /\ sweep = 0
DescriptionIdle == doc = <<>> /\ value = Blank /\ phase = "sent" /\ build = <<>>
VarsIdle ==
  /\ stored = [n \in VarNames |-> NoVar] /\ given = [n \in VarNames |-> Masked] /\ vms = stored
  /\ loop = "given" /\ todo = {}
  /\ shown = [n \in VarNames |-> Empty] /\ executed = shown
WebhooksIdle == /\ trigger = {} /\ mayRun = FALSE /\ hookCall = [at |-> "none"]
                /\ runRow = NoRow /\ hookBuild = {}
Init == \/ turn = "records" /\ RecordsInit /\ DescriptionIdle /\ VarsIdle /\ WebhooksIdle
        \/ turn = "description" /\ DescriptionInit /\ RecordsIdle /\ VarsIdle /\ WebhooksIdle
        \/ turn = "vars" /\ VarsInit /\ RecordsIdle /\ DescriptionIdle /\ WebhooksIdle
        \/ turn = "webhooks" /\ WebhooksInit /\ RecordsIdle /\ DescriptionIdle /\ VarsIdle
Next == \/ turn = "records" /\ RecordsNext /\ UNCHANGED <<turn, descriptionVars, varsVars, webhooksVars>>
        \/ turn = "description" /\ DescriptionNext /\ UNCHANGED <<turn, recordsVars, varsVars, webhooksVars>>
        \/ turn = "vars" /\ VarsNext /\ UNCHANGED <<turn, recordsVars, descriptionVars, webhooksVars>>
        \/ turn = "webhooks" /\ WebhooksNext /\ UNCHANGED <<turn, recordsVars, descriptionVars, varsVars>>
Spec == Init /\ [][Next]_<<turn, recordsVars, descriptionVars, varsVars, webhooksVars>>
=============================================================================
