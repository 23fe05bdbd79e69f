----------------------------- MODULE MCRequests -----------------------------
(* Small instances of Requests for TLC. *)
EXTENDS Requests

U(size) == [kind |-> "upload", size |-> size, repo |-> 0, rows |-> {}]
Git == [kind |-> "git", size |-> 0, repo |-> 0, rows |-> {}]
Refresh(repo) == [kind |-> "fetch", size |-> 0, repo |-> repo, rows |-> {1, 2}]
Activate(repo) == [kind |-> "fetch", size |-> 0, repo |-> repo, rows |-> {1}]

\* Three files at once; jobs of a repository queued behind each other and
\* behind another's; a client displaced by one that asks other things.
SmallWorkloads ==
  {[asks |-> <<<<U(2), U(1), U(0)>>>>, exit |-> TRUE, changes |-> 0],
   [asks |-> <<<<Refresh(1), Activate(1), Activate(2)>>>>, exit |-> FALSE, changes |-> 2],
   [asks |-> <<<<Activate(1), Git>>, <<Git, Refresh(1)>>>>, exit |-> FALSE, changes |-> 0],
   [asks |-> <<<<U(1), Git>>, <<Activate(2)>>>>, exit |-> FALSE, changes |-> 0]}
=============================================================================
