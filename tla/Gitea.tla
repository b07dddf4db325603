------------------------------- MODULE Gitea -------------------------------
(* hook/gitea: the payloads Gitea sends and what Parse makes of them.      *)
EXTENDS Hook

giteaPushHook(e) == [Ref |-> e.ref, After |-> e.after, Commits |-> e.commits,
                     Repository |-> e.repo]
giteaPRHook(e) == [Action |-> e.action, Repository |-> e.base.repo,
                   PullRequest |-> [Head |-> e.head, Base |-> e.base]]
giteaCommentHook(e) == [IsPull |-> ~ OnIssue(e), Repository |-> e.base.repo]

\* gp.Commits[0] panics when there is none, which Parse turns into an error.
convertPushHook(gp) ==
  IF gp.Commits = <<>> THEN Failed
  ELSE PushHook(gp.Ref, Repository(gp.Ref, gp.After, BranchOf(gp.Ref, NoRef), gp.Repository,
                                   gp.Repository), gp.After)

\* Mutant of convertPullRequestHook: the branch is that of the base.
convertPullRequestHookOfBase(gp) ==
  LET h == gp.PullRequest.Head  b == gp.PullRequest.Base
  IN  PullRequestHook(gp.Action, Repository(h.ref, h.sha, b.ref, h.repo, gp.Repository),
                      Repository(b.ref, b.sha, b.ref, b.repo, NoRepo),
                      Reference(b.ref, b.repo, b.sha), Reference(h.ref, h.repo, h.sha))

convertPullRequestHook(gp) ==
  LET h == gp.PullRequest.Head  b == gp.PullRequest.Base
  IN  PullRequestHook(gp.Action, Repository(h.ref, h.sha, h.ref, h.repo, gp.Repository),
                      Repository(b.ref, b.sha, b.ref, b.repo, NoRepo),
                      Reference(b.ref, b.repo, b.sha), Reference(h.ref, h.repo, h.sha))

\* convertPullRequestURL returns nil and no error: every comment on a pull
\* request ends in a panic, which Parse turns into an error.
convertCommentHook(gp) == Failed

parsePushHook(e) == convertPushHook(giteaPushHook(e))
parsePullRequestHook(e) ==
  LET action == CASE e.action = "synchronize" -> "update" [] e.action = "opened" -> "open"
                  [] e.action = "" -> "" [] OTHER -> "unsupported"
  IN  IF action = "unsupported" THEN Failed
      ELSE convertPullRequestHook([giteaPRHook(e) EXCEPT !.Action = action])
parseCommentHook(e) ==
  LET gp == giteaCommentHook(e) IN IF gp.IsPull THEN convertCommentHook(gp) ELSE Failed

\* The digest has no prefix: both are tried.
validatePrefix(secret, sig) == sig.digest \in {"sha1", "sha256"} /\ sig.key = secret

Parse(header, e, sig, secret) ==
  LET wb == CASE header = "push" -> parsePushHook(e)
              [] header = "issue_comment" -> parseCommentHook(e)
              [] header = "pull_request" -> parsePullRequestHook(e)
              [] OTHER -> Failed
  IN  IF validatePrefix(secret, sig) THEN wb ELSE Failed
=============================================================================
