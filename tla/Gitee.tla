------------------------------- MODULE Gitee -------------------------------
(* hook/gitee: the payloads Gitee sends and what Parse makes of them.      *)
EXTENDS Hook

\* A push has one head commit, which is empty when there is none.
giteePushHook(e) == [Ref |-> e.ref, After |-> e.after, Repository |-> e.repo,
                     HeadCommit |-> IF e.commits = <<>> THEN NoSha ELSE e.commits[1]]
giteePRHook(e) ==
  [Action |-> e.action, Repository |-> e.base.repo, SourceRepo |-> e.head.repo,
   TargetRepo |-> e.base.repo, PullRequest |-> [Head |-> e.head, Base |-> e.base]]
giteeCommentHook(e) == [Action |-> e.action, Repository |-> e.base.repo,
                        PullRequest |-> [Head |-> e.head, Base |-> e.base]]

convertPushHook(gp) ==
  PushHook(gp.Ref, Repository(gp.Ref, gp.After, BranchOf(gp.Ref, NoRef), gp.Repository,
                              gp.Repository), gp.After)

convertPullRequestHook(gp) ==
  LET h == gp.PullRequest.Head  b == gp.PullRequest.Base
  IN  PullRequestHook(gp.Action, Repository(h.ref, h.sha, h.ref, gp.SourceRepo, gp.Repository),
                      Repository(b.ref, b.sha, b.ref, gp.TargetRepo, NoRepo),
                      Reference(b.ref, b.repo, b.sha), Reference(h.ref, h.repo, h.sha))

convertCommentHook(gp) ==
  LET h == gp.PullRequest.Head  b == gp.PullRequest.Base
  IN  PullRequestCommentHook(gp.Action, Repository(h.ref, h.sha, h.ref, h.repo, gp.Repository),
                             Repository(b.ref, b.sha, b.ref, b.repo, NoRepo),
                             Reference(b.ref, b.repo, b.sha), Reference(h.ref, h.repo, h.sha))

parsePushHook(e) == convertPushHook(giteePushHook(e))
parsePullRequestHook(e) == IF e.action \in {"", "open", "update"}
                           THEN convertPullRequestHook(giteePRHook(e)) ELSE Failed
parseCommentHook(e) == convertCommentHook(giteeCommentHook(e))

\* The header holds the secret itself; without a header it is the empty text.
Parse(header, e, sig, secret) ==
  LET wb == CASE header = "PushHook" -> parsePushHook(e)
              [] header = "NoteHook" -> parseCommentHook(e)
              [] header = "MergeRequestHook" -> parsePullRequestHook(e)
              [] OTHER -> Failed
  IN  IF sig.key = secret THEN wb ELSE Failed
=============================================================================
