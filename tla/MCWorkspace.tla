----------------------------- MODULE MCWorkspace -----------------------------
(* Small instances of Workspace for TLC. *)
EXTENDS Workspace, TLC

Wt(repo, b) == [path |-> <<repo, b>>, tabs |-> <<>>, tab |-> 0]

\* Repository 1 is local, with a linked worktree listed and one that is not;
\* repository 2 is on the remote.
TwoHosts == 1 :> 1 @@ 2 :> 2
TwoProjects == <<[slug |-> 1, repo |-> 1, sup |-> 1, gh |-> TRUE, wts |-> <<Wt(1, 0), Wt(1, 1)>>],
                 [slug |-> 2, repo |-> 2, sup |-> 2, gh |-> FALSE, wts |-> <<Wt(2, 0)>>]>>
OneOutside == {<<1, 2>>}

\* One local project with n - 1 linked worktrees, with PR statuses or without.
OneHost == 1 :> 1
LinkedRows(n, gh) == <<[slug |-> 1, repo |-> 1, sup |-> 1, gh |-> gh,
                        wts |-> [w \in 1..n |-> Wt(1, w - 1)]]>>
ThreeRowsNoPr == LinkedRows(3, FALSE)
\* Two rows, and three, behind one that can be removed.
FourRows == LinkedRows(4, TRUE)
FiveRows == LinkedRows(5, TRUE)
=============================================================================
