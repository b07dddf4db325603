-------------------------------- MODULE Hook --------------------------------
(***************************************************************************)
(* What a git host tells (external) and what a webhook parser makes of it  *)
(* (package hook).  A name with slashes is the sequence of its parts, the  *)
(* empty text the empty sequence.  A repository stands for the urls and    *)
(* names the conversions copy from it.                                     *)
(***************************************************************************)
EXTENDS Naturals, Sequences

CONSTANTS
  Commits, NoSha, ZeroSha,  \* commits, the empty text, the sha of "no commit"
  Repos, NoRepo             \* repositories, and the empty record
NoRef == <<>>

\* The side of a pull request: a branch of a repository and its commit.
Side(ref, sha, repo) == [ref |-> ref, sha |-> sha, repo |-> repo]
NoSide == Side(NoRef, NoSha, NoRepo)

\* What happens at the host.  A push that deletes a branch has no commits and
\* ZeroSha after it; one that creates a branch at a known commit has none either.
\* A comment is on a pull request or, with NoSide on both sides, on an issue.
Push(ref, after, commits, repo) ==
  [kind |-> "push", ref |-> ref, after |-> after, commits |-> commits, repo |-> repo]
PullRequest(action, head, base) ==
  [kind |-> "pr", action |-> action, head |-> head, base |-> base]
Note(action, head, base, answer) ==
  [kind |-> "comment", action |-> action, head |-> head, base |-> base, answer |-> answer]
OnIssue(e) == e.head = NoSide
HostTells(e) ==
  /\ e.kind = "push" => /\ e.after \in Commits \cup {ZeroSha}
                        /\ e.after = ZeroSha => e.commits = <<>>
  /\ e.kind = "pr" => {e.head.sha, e.base.sha} \subseteq Commits
  /\ e.kind = "comment" => \/ e.head = NoSide /\ e.base = NoSide
                           \/ {e.head.sha, e.base.sha} \subseteq Commits

\* hook.Repository, hook.Reference and the three kinds of hook.WebHook.
Repository(ref, sha, branch, of, openid) ==
  [ref |-> ref, sha |-> sha, branch |-> branch, of |-> of, openid |-> openid]
Reference(name, path, sha) == [name |-> name, path |-> path, sha |-> sha]
PushHook(ref, repo, after) == [type |-> "push", ref |-> ref, repo |-> repo, after |-> after]
PullRequestHook(action, repo, target, base, head) ==
  [type |-> "pr", action |-> action, repo |-> repo, target |-> target, base |-> base, head |-> head]
PullRequestCommentHook(action, repo, target, base, head) ==
  [type |-> "comment", action |-> action, repo |-> repo, target |-> target,
   base |-> base, head |-> head]
Failed == [type |-> "error"]

\* The branch of a pushed ref: its third part.
BranchOf(ref, other) == IF Len(ref) > 2 THEN <<ref[3]>> ELSE other
=============================================================================
