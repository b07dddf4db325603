------------------------------- MODULE Gitlab -------------------------------
(* hook/gitlab: the payloads GitLab sends and what Parse makes of them.    *)
EXTENDS Hook

\* A merge request has the last commit of its source and no other.
gitlabPushHook(e) == [Ref |-> e.ref, After |-> e.after, Project |-> e.repo]
gitlabPRHook(e) ==
  [Project |-> e.base.repo,
   ObjectAttributes |-> [Action |-> e.action, LastCommit |-> e.head.sha,
                         SourceBranch |-> e.head.ref, Source |-> e.head.repo,
                         TargetBranch |-> e.base.ref, Target |-> e.base.repo]]
gitlabCommentHook(e) ==
  [Project |-> e.base.repo,
   MergeRequest |-> [LastCommit |-> e.head.sha,
                     SourceBranch |-> e.head.ref, Source |-> e.head.repo,
                     TargetBranch |-> e.base.ref, Target |-> e.base.repo]]

convertPushHook(gp) ==
  PushHook(gp.Ref, Repository(gp.Ref, gp.After, BranchOf(gp.Ref, NoRef), gp.Project, gp.Project),
           gp.After)

\* What is called the base is the source.
convertPullRequestHook(gp) ==
  LET o == gp.ObjectAttributes  sha == o.LastCommit
  IN  PullRequestHook(o.Action,
        Repository(o.SourceBranch, sha, o.SourceBranch, o.Source, gp.Project),
        Repository(o.TargetBranch, sha, o.TargetBranch, o.Target, gp.Project),
        Reference(o.Source, NoRef, sha), Reference(o.Target, NoRef, sha))

convertCommentHook(gp) ==
  LET o == gp.MergeRequest  sha == o.LastCommit
  IN  PullRequestCommentHook("comment",
        Repository(o.SourceBranch, sha, o.SourceBranch, o.Source, gp.Project),
        Repository(o.TargetBranch, sha, o.TargetBranch, o.Target, gp.Project),
        Reference(o.Source, NoRef, sha), Reference(o.Target, NoRef, sha))

parsePushHook(e) == convertPushHook(gitlabPushHook(e))
parsePullRequestHook(e) == IF e.action \in {"", "open", "update"}
                           THEN convertPullRequestHook(gitlabPRHook(e)) ELSE Failed
parseCommentHook(e) == convertCommentHook(gitlabCommentHook(e))

\* The header holds the secret itself; without a header it is the empty text.
Parse(header, e, sig, secret) ==
  LET wb == CASE header = "PushHook" -> parsePushHook(e)
              [] header = "NoteHook" -> parseCommentHook(e)
              [] header = "MergeRequestHook" -> parsePullRequestHook(e)
              [] OTHER -> Failed
  IN  IF sig.key = secret THEN wb ELSE Failed
=============================================================================
