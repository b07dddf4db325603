------------------------------ MODULE Webhooks ------------------------------
(***************************************************************************)
(* A call of a trigger from outside: route/hook.go and service/hook.go     *)
(* over the four parsers.  Calls share nothing but the row of the trigger, *)
(* which is read once and may be deleted while a call is on its way: the   *)
(* module follows one call.  service.Run is BuildRecords' BeginTrigger; of *)
(* it there is only whether it returns a build.                            *)
(***************************************************************************)
EXTENDS Hook

CONSTANTS
  Triggers,   \* rows a trigger may have
  Deliveries, \* calls of a git host: host, what happened, digest and key of the signature
  WebSecrets  \* secrets a call of /trigger/web may bring

ASSUME WebhooksShape == \A d \in Deliveries : d.host # "web" /\ HostTells(d.what)

github == INSTANCE Github
gitea == INSTANCE Gitea
gitlab == INSTANCE Gitlab
gitee == INSTANCE Gitee

NoText == ""
NoHook == [type |-> "none"]
NoRow == [state |-> "none"]

VARIABLES
  trigger,    \* the row of the trigger: none when it is deleted
  mayRun,     \* the pipeline is there and the trigger's creator may write to it
  hookCall,   \* where the call is, the row it read, what it brings and what was told
  runRow,     \* its t_trigger_run, whose insert may have failed
  hookBuild   \* the build it put into the engine, if any

webhooksVars == <<trigger, mayRun, hookCall, runRow, hookBuild>>

WebhooksInit ==
  /\ trigger \in {{t} : t \in Triggers}
  /\ mayRun \in BOOLEAN
  /\ hookCall = [at |-> "none"]
  /\ runRow = NoRow
  /\ hookBuild = {}

\* The headers that name the event, without their spaces (external: which one a host
\* sends).
Header(host, kind) ==
  IF host \in {"github", "gitea"}
  THEN CASE kind = "push" -> "push" [] kind = "pr" -> "pull_request"
         [] kind = "comment" -> "issue_comment" [] OTHER -> "other"
  ELSE CASE kind = "push" -> "PushHook" [] kind = "pr" -> "MergeRequestHook"
         [] kind = "comment" -> "NoteHook" [] OTHER -> "other"

\* parseHook: each parser reads the header of its own host.
parseHook(hookType, d, secret) ==
  LET host == IF hookType = "giteepremium" THEN "gitee" ELSE hookType
      header == IF d.host = host THEN Header(host, d.what.kind) ELSE NoText
      sig == [digest |-> d.digest, key |-> IF d.host = host THEN d.key ELSE NoText]
  IN  CASE host = "gitee" -> gitee!Parse(header, d.what, sig, secret)
        [] host = "github" -> github!Parse(header, d.what, sig, secret)
        [] host = "gitlab" -> gitlab!Parse(header, d.what, sig, secret)
        [] host = "gitea" -> gitea!Parse(header, d.what, sig, secret)
        [] OTHER -> Failed

\* What service.Run is told to build.
ShaOf(h) == IF h.type = "push" THEN h.after ELSE h.base.sha

Fails(c) == [c EXCEPT !.at = "record", !.error = TRUE]

\* hooks, web: a trigger that is not there or not enabled is answered at once.
Called(brings) ==
  /\ hookCall.at = "none"
  /\ hookCall' \in IF \E t \in trigger : t.enabled
                   THEN {[at |-> "check", tt |-> t, brings |-> brings, told |-> NoHook,
                          error |-> FALSE, version |-> FALSE] : t \in trigger}
                   ELSE {[at |-> "unknown"]}
  /\ UNCHANGED <<trigger, mayRun, runRow, hookBuild>>
HookCalled == \E d \in Deliveries : Called(d)
WebCalled == \E s \in WebSecrets : Called([host |-> "web", key |-> s])

IsWeb(c) == c.brings.host = "web"

\* TriggerHookCtx and TriggerWeb up to the payload: no params, no permission,
\* params that are no object, or the key that is needed is missing.
CheckTrigger ==
  /\ hookCall.at = "check"
  /\ LET p == hookCall.tt.params
         needed == IF IsWeb(hookCall) THEN "secret" ELSE "hookType"
     IN  hookCall' = IF p.kind \in {"empty", "garbled"} \/ ~ mayRun THEN Fails(hookCall)
                     ELSE IF p[needed] = NoText THEN Fails(hookCall)
                     ELSE [hookCall EXCEPT !.at = "parse"]
  /\ UNCHANGED <<trigger, mayRun, runRow, hookBuild>>

ParseDelivery ==
  /\ hookCall.at = "parse" /\ ~ IsWeb(hookCall)
  /\ LET p == hookCall.tt.params
         h == parseHook(p.hookType, hookCall.brings, p.secret)
     IN  hookCall' = IF h = Failed THEN Fails(hookCall)
                     ELSE [hookCall EXCEPT !.at = "filter", !.told = h]
  /\ UNCHANGED <<trigger, mayRun, runRow, hookBuild>>

\* TriggerWeb: the secret is all that is compared.
CompareSecret ==
  /\ hookCall.at = "parse" /\ IsWeb(hookCall)
  /\ hookCall' = IF hookCall.brings.key # hookCall.tt.params.secret THEN Fails(hookCall)
                 ELSE [hookCall EXCEPT !.at = "run"]
  /\ UNCHANGED <<trigger, mayRun, runRow, hookBuild>>

FilterDelivery ==
  /\ hookCall.at = "filter"
  /\ LET p == hookCall.tt.params  h == hookCall.told
     IN  hookCall' = IF \/ p.event # NoText /\ p.event # h.type
                        \/ p.branch # NoRef /\ p.branch # h.repo.branch
                     THEN Fails(hookCall) ELSE [hookCall EXCEPT !.at = "run"]
  /\ UNCHANGED <<trigger, mayRun, runRow, hookBuild>>

\* service.Run returns a build, or an error whatever it wrote before.
RunPipeline ==
  /\ hookCall.at = "run"
  /\ \/ hookCall' = [hookCall EXCEPT !.at = "record", !.version = TRUE]
     \/ hookCall' = Fails(hookCall)
  /\ UNCHANGED <<trigger, mayRun, runRow, hookBuild>>

\* Mutant of RecordRun: the row is made up before the pipeline is run.
RecordRunEarly ==
  /\ hookCall.at = "record"
  /\ runRow' = [state |-> "row", error |-> hookCall.error, version |-> FALSE,
                infos |-> hookCall.told]
  /\ hookCall' = [hookCall EXCEPT !.at = "put"]
  /\ UNCHANGED <<trigger, mayRun, hookBuild>>

\* The deferred function: a row in every case, whose failing is only logged.
RecordRun ==
  /\ hookCall.at = "record"
  /\ \/ runRow' = [state |-> "row", error |-> hookCall.error, version |-> hookCall.version,
                   infos |-> hookCall.told]
     \/ runRow' = [state |-> "lost"]
  /\ hookCall' = [hookCall EXCEPT !.at = "put"]
  /\ UNCHANGED <<trigger, mayRun, hookBuild>>

\* The handler: an error is answered, a build is put.
PutHookBuild ==
  /\ hookCall.at = "put"
  /\ hookBuild' = IF hookCall.error THEN {}
                  ELSE {IF IsWeb(hookCall) THEN hookCall.tt.params.branch
                        ELSE ShaOf(hookCall.told)}
  /\ hookCall' = [hookCall EXCEPT !.at = "answered"]
  /\ UNCHANGED <<trigger, mayRun, runRow>>

\* route/trigger.go, delete, which takes the rows of the runs along.
DeleteTrigger ==
  /\ trigger # {} /\ hookCall.at # "none"
  /\ trigger' = {}
  /\ runRow' = NoRow
  /\ UNCHANGED <<mayRun, hookCall, hookBuild>>
\* The pipeline is deleted or the creator loses the permission.
AccessChanges == /\ hookCall.at = "check"
                 /\ mayRun' = ~ mayRun
                 /\ UNCHANGED <<trigger, hookCall, runRow, hookBuild>>

WebhooksNext ==
  \/ HookCalled \/ WebCalled \/ CheckTrigger \/ ParseDelivery \/ CompareSecret
  \/ FilterDelivery \/ RunPipeline \/ RecordRun \/ PutHookBuild
  \/ DeleteTrigger \/ AccessChanges
WebhooksSpec == WebhooksInit /\ [][WebhooksNext]_webhooksVars

-----------------------------------------------------------------------------
(* Properties.                                                             *)

\* A build was put for what a git host told.
Builds == hookBuild # {} /\ ~ IsWeb(hookCall)

\* A build of a webhook has a commit to build, with these exceptions: a push to
\* GitLab or Gitee that deletes a branch, a comment on an issue there, and a
\* comment at GitHub whose pull request is not shown to an anonymous request.
HookBuildHasCommit ==
  Builds =>
    LET e == hookCall.brings.what  host == hookCall.brings.host
    IN  \/ hookBuild \subseteq Commits
        \/ host \in {"gitlab", "gitee"} /\ e.kind = "push" /\ e.after = ZeroSha
        \/ host \in {"gitlab", "gitee"} /\ e.kind = "comment" /\ OnIssue(e)
        \/ host = "github" /\ e.kind = "comment" /\ e.answer # "found"

\* A trigger with a branch only builds what happened on a branch or tag of that
\* name or, since a parser takes the third part of the ref for the name, a push
\* to one whose name goes on after a slash.
BranchIsFiltered ==
  Builds =>
    LET e == hookCall.brings.what  b == hookCall.tt.params.branch
    IN  \/ b = NoRef
        \/ e.kind = "push" /\ (b = e.ref \/ (Len(e.ref) > 2 /\ b = <<e.ref[3]>>))
        \/ e.kind # "push" /\ b = e.head.ref

\* The row of a call, when it could be written and was not deleted, tells how
\* the call ended: an error exactly when nothing was put, the version exactly
\* when something was, and what the host told exactly when its signature fits.
RowTellsOutcome ==
  hookCall.at = "answered" /\ runRow.state = "row" =>
    /\ runRow.error = (hookBuild = {})
    /\ runRow.version = (hookBuild # {})
    /\ runRow.infos # NoHook => hookCall.brings.key = hookCall.tt.params.secret
    /\ Builds => runRow.infos # NoHook /\ hookBuild = {ShaOf(runRow.infos)}
=============================================================================
