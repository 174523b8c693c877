------------------------- MODULE MCGitHubSubresources -------------------------
(* Finite instances of GitHubSubresources: a sub-resource of each kind of  *)
(* comparison, a release published again, a memory short enough to be      *)
(* exceeded, and a backoff, a cooldown and a Retry-After that differ.      *)
EXTENDS GitHubSubresources, TLC

MCMaxChanges ==
  ({"releases", "stars"} :> 4) @@ ({"releases", "stars", "prs"} :> 2) @@ ({"commits", "issues"} :> 3)
MCWatchLists == DOMAIN MCMaxChanges
MCItem(n, s) == [number |-> n, state |-> s]
MCItems == {NoValue, MCItem(1, "open"), MCItem(1, "closed")}
MCReleases == {[tag |-> 1, published |-> 1], [tag |-> 2, published |-> 1], [tag |-> 1, published |-> 2]}
MCValues ==
  [s \in {"releases", "stars", "commits", "prs", "issues"} |->
     CASE s = "releases" -> MCReleases
       [] s = "stars" -> {10, 12}
       [] s = "commits" -> {NoValue, 1, 2}
       [] s \in {"prs", "issues"} -> MCItems]
MCLadder == <<2>>
=============================================================================
