------------------------------- MODULE Github -------------------------------
(* hook/github: the payloads GitHub sends and what Parse makes of them.    *)
EXTENDS Hook

\* The payloads, with the fields the conversions read.
githubPushHook(e) == [Ref |-> e.ref, After |-> e.after, Commits |-> e.commits,
                      Repository |-> e.repo]
githubPRHook(e) == [Action |-> e.action, Repository |-> e.base.repo,
                    PullRequest |-> [Head |-> e.head, Base |-> e.base]]
githubCommentHook(e) == [Repository |-> e.base.repo,
                         Issue |-> [Url |-> IF OnIssue(e) THEN "" ELSE e.answer]]

\* The answer of GitHub to the request for the pull request of a comment:
\* whatever its status, a body that is JSON is taken, with empty fields for
\* those that are missing.
githubPullRequestURL(e, answer) ==
  IF answer = "found" THEN [Head |-> e.head, Base |-> e.base]
  ELSE [Head |-> NoSide, Base |-> NoSide]
UrlFails(url) == url \in {"", "unreachable"}

\* Mutant of convertPushHook: a push without commits is no panic.
convertPushHookAnyCommits(gp) ==
  PushHook(gp.Ref, Repository(gp.Ref, gp.After, BranchOf(gp.Ref, gp.Ref), gp.Repository,
                              gp.Repository), gp.After)

\* gp.Commits[0] panics when there is none, which Parse turns into an error.
convertPushHook(gp) ==
  IF gp.Commits = <<>> THEN Failed
  ELSE PushHook(gp.Ref, Repository(gp.Ref, gp.After, BranchOf(gp.Ref, gp.Ref), gp.Repository,
                                   gp.Repository), gp.After)

convertPullRequestHook(gp) ==
  LET h == gp.PullRequest.Head  b == gp.PullRequest.Base
  IN  PullRequestHook(gp.Action, Repository(h.ref, h.sha, h.ref, h.repo, gp.Repository),
                      Repository(b.ref, b.sha, b.ref, b.repo, NoRepo),
                      Reference(b.ref, b.repo, b.sha), Reference(h.ref, h.repo, h.sha))

convertCommentHook(gp, e) ==
  LET pr == githubPullRequestURL(e, gp.Issue.Url)  h == pr.Head  b == pr.Base
  IN  IF UrlFails(gp.Issue.Url) THEN Failed
      ELSE PullRequestCommentHook("comment",
             Repository(h.ref, h.sha, h.ref, h.repo, gp.Repository),
             Repository(b.ref, b.sha, b.ref, b.repo, gp.Repository),
             Reference(b.repo, b.repo, b.sha), Reference(h.repo, h.repo, h.sha))

parsePushHook(e) == convertPushHook(githubPushHook(e))
parsePullRequestHook(e) ==
  LET action == CASE e.action = "synchronize" -> "update" [] e.action = "opened" -> "open"
                  [] e.action = "" -> "" [] OTHER -> "unsupported"
  IN  IF action = "unsupported" THEN Failed
      ELSE convertPullRequestHook([githubPRHook(e) EXCEPT !.Action = action])
parseCommentHook(e) == convertCommentHook(githubCommentHook(e), e)

\* A signature is the digest of the body under a key, with a prefix that names
\* the digest.
validatePrefix(secret, sig) == sig.digest \in {"sha1", "sha256"} /\ sig.key = secret

\* Parse: what is told, or Failed; the payload is converted before the
\* signature is looked at.
Parse(header, e, sig, secret) ==
  LET wb == CASE header = "push" -> parsePushHook(e)
              [] header = "issue_comment" -> parseCommentHook(e)
              [] header = "pull_request" -> parsePullRequestHook(e)
              [] OTHER -> Failed
  IN  IF validatePrefix(secret, sig) THEN wb ELSE Failed
=============================================================================
