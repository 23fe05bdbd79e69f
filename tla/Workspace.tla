------------------------------ MODULE Workspace ------------------------------
(***************************************************************************)
(* The client's projects, worktrees and tabs: the reducer, the commands     *)
(* that start operations, and the replies of the supervisors, which address *)
(* projects and worktrees by position.  A step is one key, one mouse event  *)
(* or one Action of the client's loop, with the commands it emits, or one   *)
(* request handled by a supervisor.                                         *)
(*                                                                         *)
(* A path is <<repository, branch>>, branch 0 being the main worktree.  All *)
(* repositories have the same directory name, so that slugs are numbers:    *)
(* the base name and base-2, base-3...  Positions count from 1; 0 is None.  *)
(***************************************************************************)
EXTENDS Integers, FiniteSets, Sequences, SequencesExt

CONSTANTS
  Repos,        \* repositories
  Host,         \* the supervisor each one is on: 1, LOCAL, or 2, a remote
  Branches,     \* branches besides the main one, numbers from 1
  Loaded,       \* the projects in the configuration the client starts with
  Outside,      \* worktrees made with git, which the configuration does not list
  UserOps,      \* what the user does
  MaxRequests,  \* bound: requests after which the user starts no more
  MaxLosses     \* bound: times the remote's connection is lost

LOCAL_SUP == 1
REMOTE_SUP == 2
Sups == {LOCAL_SUP, REMOTE_SUP}
Paths == Repos \X ({0} \cup Branches)
Main(path) == <<path[1], 0>>
None == <<0, 0>>

\* A tab is the handle of a session: the shell, and the connection it was adopted on.
Handles == (Nat \ {0}) \X Nat
Worktree == [path : Paths, tabs : Seq(Handles), tab : Nat]
Project == [slug : Nat \ {0}, repo : Repos, sup : Sups, gh : BOOLEAN, wts : Seq(Worktree)]

ASSUME HostAssumption == Host \in [Repos -> Sups] /\ Branches \subseteq Nat \ {0}
ASSUME BoundsAssumption == MaxRequests \in Nat /\ MaxLosses \in Nat
ASSUME FiniteAssumption == IsFiniteSet(Repos) /\ IsFiniteSet(Branches)
\* The configuration has a file per project, named by its slug, and no sessions.
ASSUME LoadedAssumption ==
  /\ Loaded \in Seq(Project) /\ Outside \subseteq Paths
  /\ \A p, q \in DOMAIN Loaded : Loaded[p].slug = Loaded[q].slug => p = q
  /\ \A p \in DOMAIN Loaded : \A w \in DOMAIN Loaded[p].wts :
       Loaded[p].wts[w].tabs = <<>> /\ Loaded[p].wts[w].tab = 0
\* The files are as a client leaves them in which no requests crossed and no listing was
\* outdated (see below): of the project's own repository, and no worktree twice.
ASSUME OrderlyAssumption ==
  \A p \in DOMAIN Loaded : \A v, w \in DOMAIN Loaded[p].wts :
    /\ Loaded[p].wts[w].path[1] = Loaded[p].repo
    /\ Loaded[p].wts[v].path = Loaded[p].wts[w].path => v = w

VARIABLES
  (* AppState *)
  projects,           \* a sequence of Project
  sessions,           \* the handles it has
  active_worktree, sidebar_selection,  \* <<project, worktree>>
  pr_statuses,        \* <<project, worktree, the path whose PR it is>>
  pending_op,         \* an operation is shown as running
  popup,              \* the prompt that is open, with the position it was opened for
  (* the config store *)
  saved,              \* the project files: slug and worktrees
  (* the supervisors and their links *)
  connected,          \* supervisors with a live connection
  inflight,           \* requests without an applied reply
  live,               \* shells: [id, sup, path, slug]
  exited,             \* those whose Exited notification is on its way
  git,                \* the worktrees on disk
  issued, losses,     \* counters
  (* history *)
  misled,             \* kinds of requests that were applied to something else
  crossed,            \* a removal and a request it displaces were outstanding at once
  outdated,           \* a worktree was listed, or about to be, that was gone from disk
  scattered           \* a removal moved up two adjacent rows with PR statuses

uiVars == <<active_worktree, sidebar_selection, pr_statuses, popup>>
treeVars == <<projects, sessions, saved>>
reqVars == <<inflight, issued, pending_op>>
supVars == <<live, exited, git>>
linkVars == <<connected, losses>>
vars == <<uiVars, treeVars, reqVars, supVars, linkVars, misled, crossed, outdated, scattered>>

-----------------------------------------------------------------------------
(* Positions *)

Has(p, w) == p \in DOMAIN projects /\ w \in DOMAIN projects[p].wts
IndexOf(slug) == SelectInSeq(projects, LAMBDA q : q.slug = slug)

\* What a position denotes: a worktree, or (w = 0) a project, by slug and path.
Denotes(p, w) ==
  IF p \notin DOMAIN projects \/ (w # 0 /\ ~Has(p, w)) THEN None
  ELSE <<projects[p].slug,
         IF w = 0 THEN <<projects[p].repo, 0>> ELSE projects[p].wts[w].path>>

\* The rows of a project: the second component of a request that lists them.
Rows(p) == {<<w, projects[p].wts[w].path>> : w \in DOMAIN projects[p].wts}
RowPaths(p) == [w \in DOMAIN projects[p].wts |-> projects[p].wts[w].path]

TabsOf(p) == UNION {ToSet(projects[p].wts[w].tabs) : w \in DOMAIN projects[p].wts}

\* The handle of a shell: each connection's adopt makes a new one.  The local one is
\* never lost.
Link(sup) == IF sup = LOCAL_SUP THEN 0 ELSE losses
GlobalId(s) == <<s.id, Link(s.sup)>>

NewWorktree(path) == [path |-> path, tabs |-> <<>>, tab |-> 0]

\* Sidebar order: supervisor name, project name, slug.
SidebarBefore(q, r) ==
  \/ q.sup < r.sup
  \/ q.sup = r.sup /\ q.slug < r.slug
\* How many projects stand before the i-th.
Standing(ps, i) == Cardinality({j \in DOMAIN ps : SidebarBefore(ps[j], ps[i])})

\* The project the sidebar is on, else that of the active worktree.
SelectedProject ==
  IF sidebar_selection[1] \in DOMAIN projects THEN sidebar_selection[1]
  ELSE active_worktree[1]

\* (Faulty.)  The number of projects, which a removal makes one of theirs.
ComputeSlugByCount == Len(projects) + 1

\* The first of 1, 2, 3... that no project has.
ComputeSlug == CHOOSE n \in 1..(Len(projects) + 1) :
  /\ IndexOf(n) = 0
  /\ \A m \in 1..(n - 1) : IndexOf(m) # 0

SavedAs(ps, p) == [slug |-> ps[p].slug,
                   rows |-> [w \in DOMAIN ps[p].wts |-> ps[p].wts[w].path]]
SaveProject(ps, p) ==
  IF p \in DOMAIN ps
  THEN {f \in saved : f.slug # ps[p].slug} \cup {SavedAs(ps, p)} ELSE saved

-----------------------------------------------------------------------------
(* Requests and prompts *)

NoPopup == [k |-> "none", p |-> 0, w |-> 0, asked |-> None]
Prompt(kind, p, w) == [k |-> kind, p |-> p, w |-> w, asked |-> Denotes(p, w)]

\* A request as the client records it: positions for the reply (p, w), names and
\* paths for the supervisor (slug, path, rows), and what the user asked it for.
Request(op, p, w, path, rows) ==
  [n |-> issued + 1, op |-> op, sup |-> projects[p].sup, p |-> p, w |-> w,
   slug |-> projects[p].slug, path |-> path, rows |-> rows, opt |-> "none",
   done |-> "no", found |-> {}, asked |-> Denotes(p, w)]

\* Operations during which pending_op is set.
GitOps == {"open", "import", "add", "rmwt", "rmproj"}

\* What a request or a prompt may be for: None, or a slug and a path.
Asked == {None} \cup ((Nat \ {0}) \X Paths)
Requests ==
  [n : Nat \ {0}, op : GitOps \cup {"spawn", "fetch"}, sup : Sups, p : Nat, w : Nat, slug : Nat,
   path : Paths, rows : SUBSET (Nat \X Paths), opt : {"none", "import", "linked", "main"},
   done : {"no", "ok", "fail"}, found : SUBSET Paths, asked : Asked]
Shells == [id : Nat \ {0}, sup : Sups, path : Paths, slug : Nat]

\* (Faulty.)  Requests to an unreachable supervisor are recorded as sent.
SendUnchecked(reqs, pending) ==
  /\ inflight' = inflight \cup reqs
  /\ issued' = issued + Cardinality(reqs)
  /\ pending_op' = pending

\* (Faulty.)  They are dropped without a failure.
SendSilent(reqs, pending) ==
  /\ inflight' = inflight \cup {r \in reqs : r.sup \in connected}
  /\ issued' = issued + Cardinality(reqs)
  /\ pending_op' = pending

\* Send requests, none of them if their supervisor is unreachable, which fails
\* at once and clears pending_op as any failed operation does.
Send(reqs, pending) ==
  /\ inflight' = inflight \cup {r \in reqs : r.sup \in connected}
  /\ issued' = issued + Cardinality(reqs)
  /\ pending_op' = (pending /\ \A r \in reqs : r.sup \in connected)

MayAsk(op) == op \in UserOps /\ issued < MaxRequests

\* Positional request q is displaced when the removal r completes before it: it
\* is for the removed row or one behind it, or in a project behind a removed one.
Displaces(r, q) ==
  \/ /\ r.op = "rmwt" /\ q.slug = r.slug
     /\ \E row \in q.rows : row[1] >= r.w
     /\ q.op \in {"spawn", "fetch", "rmwt"}
  \/ /\ r.op = "rmproj"
     /\ q.p > IndexOf(r.slug) \/ q.slug = r.slug
     /\ q.op # "open"

\* Two outstanding requests that the positions cannot keep apart: a removal and
\* one it displaces, or an added worktree that a listing of worktrees may show.
Crossing ==
  \E r \in inflight :
    \/ \E q \in inflight \ {r} :
         \/ Displaces(r, q)
         \/ r.op = "add" /\ q.op = "import" /\ q.slug = r.slug
    \/ /\ popup.k # "none"
       /\ \/ r.op = "rmproj" /\ popup.p >= IndexOf(r.slug)
          \/ r.op = "rmwt" /\ popup.p = r.p /\ popup.w >= r.w

\* Worktree w of project p was removed, and the reply to that is on its way.
Going(p, w) ==
  \E r \in inflight :
    /\ r.done = "ok" /\ r.slug = projects[p].slug
    /\ r.op = "rmproj" \/ (r.op = "rmwt" /\ r.w = w)

\* What is listed, or about to be by a reply on its way, is gone from disk and not about
\* to be taken off the list: a removal failed half-way, its reply was lost, it was of
\* another project of the same repository, or it overtook an import.
Outdated ==
  \/ \E p \in DOMAIN projects : \E w \in DOMAIN projects[p].wts :
       projects[p].wts[w].path \notin git /\ ~Going(p, w)
  \/ \E r \in inflight : r.op = "add" /\ r.done = "ok" /\ r.path \notin git

\* The rows of project p behind the w-th that have a status.
StatusesBehind(statuses, p, w) == {t[2] : t \in {s \in statuses : s[1] = p /\ s[2] > w}}

\* The removal r moves the PR statuses of adjacent rows, which one may do over the other.
Scatters(r) ==
  /\ r.op = "rmwt" /\ r.done = "ok"
  /\ \E row \in StatusesBehind(pr_statuses, r.p, r.w) :
       row + 1 \in StatusesBehind(pr_statuses, r.p, r.w)

Track ==
  /\ crossed' = (crossed \/ Crossing)
  /\ outdated' = (outdated \/ Outdated)
  /\ scattered' = (scattered \/ \E r \in inflight \ inflight' : Scatters(r))
Clean == ~crossed /\ ~Crossing

\* Record that a request of some kind was applied to something else.
Landed(op, ok) == misled' = IF ok THEN misled ELSE misled \cup {op}

\* The type of each variable; in particular a request or an exit notice that is
\* outstanding belongs to a connected supervisor.
TypeOK ==
  /\ projects \in Seq(Project) /\ sessions \subseteq Handles
  /\ active_worktree \in Nat \X Nat /\ sidebar_selection \in Nat \X Nat
  /\ pr_statuses \subseteq Nat \X Nat \X Paths
  /\ pending_op \in BOOLEAN
  /\ popup \in [k : {"none", "confirm", "launch", "worktree", "project"}, p : Nat, w : Nat,
                asked : Asked]
  /\ saved \subseteq [slug : Nat \ {0}, rows : Seq(Paths)]
  /\ connected \subseteq Sups /\ LOCAL_SUP \in connected
  /\ inflight \subseteq Requests /\ \A r \in inflight : r.sup \in connected
  /\ live \subseteq Shells /\ exited \subseteq {s \in Shells : s.sup \in connected}
  /\ \A s \in live \cup exited : s.id <= issued
  /\ git \subseteq Paths
  /\ issued \in Nat /\ losses \in 0..MaxLosses
  /\ misled \subseteq {"spawn", "orphan", "import", "add", "rmwt", "rmproj", "fetch",
                       "launch", "worktree", "project"}
  /\ crossed \in BOOLEAN /\ outdated \in BOOLEAN /\ scattered \in BOOLEAN

\* The projects of the configuration, nothing running, the first row selected.
Init ==
  /\ projects = Loaded
  /\ sessions = {}
  /\ active_worktree = None
  /\ \/ Loaded = <<>> /\ sidebar_selection = None
     \/ \E i \in DOMAIN Loaded : Standing(Loaded, i) = 0 /\ sidebar_selection = <<i, 0>>
  /\ pr_statuses = {}
  /\ pending_op = FALSE
  /\ popup = NoPopup
  /\ saved = {SavedAs(Loaded, p) : p \in DOMAIN Loaded}
  /\ connected = {LOCAL_SUP}
  /\ inflight = {}
  /\ live = {}
  /\ exited = {}
  /\ git = Repos \X {0} \cup Outside \cup
           UNION {{Loaded[p].wts[w].path : w \in DOMAIN Loaded[p].wts} : p \in DOMAIN Loaded}
  /\ issued = 0 /\ losses = 0
  /\ misled = {} /\ crossed = FALSE /\ outdated = FALSE /\ scattered = FALSE

-----------------------------------------------------------------------------
(* Faulty variants of definitions below: each is one with one mistake.         *)

\* The tab shown is not looked at when a tab before it goes.
WithoutTabKeepsShown(wt, at) == [wt EXCEPT !.tabs = RemoveAt(@, at)]

\* Only the active worktree is searched for the tab of an ended shell.
WithoutSessionElsewhere(ps, id) ==
  IF ~Has(active_worktree[1], active_worktree[2]) THEN ps
  ELSE [ps EXCEPT ![active_worktree[1]].wts[active_worktree[2]].tabs =
          SelectSeq(@, LAMBDA x : x # id)]

\* All worktrees git lists are new.
UnlistedAll(wts, found) == found

\* All positions of a removed row's project move.
ShiftRowAll(at, p, w) == IF at[1] = p THEN <<p, at[2] - 1>> ELSE at

\* A status behind a removed row is copied up.
MovedUpCopied(statuses, p, w) ==
  {t \in statuses : t[1] # p \/ t[2] # w - 1} \cup
  {<<p, w - 1, t[3]>> : t \in {u \in statuses : u[1] = p /\ u[2] = w}}

\* Positions behind a removed project stay.
ShiftProjectNot(i, p) == i

\* A shell goes to its project's main worktree.
LocatedAtMain(s) ==
  LET p == IndexOf(s.slug) IN
  IF p # 0 /\ projects[p].sup = s.sup THEN <<p, 1>> ELSE None

-----------------------------------------------------------------------------
(* The user.  Keys reach the workspace when no prompt is open; the mouse also  *)
(* while a removal is to be confirmed or a launcher picked.                    *)

KeysFree == popup.k = "none"
MouseFree == popup.k \in {"none", "confirm", "launch"}

\* j, k: the selection moves over the rows of the sidebar.
MoveSelection(p, w) ==
  /\ "select" \in UserOps /\ KeysFree
  /\ sidebar_selection' = <<p, w>> /\ sidebar_selection # <<p, w>>
  /\ UNCHANGED <<active_worktree, pr_statuses, popup, treeVars, reqVars, supVars, linkVars,
                 misled>>
  /\ Track

\* Activating another worktree asks for the status of its PR.
RefreshFor(p, w) ==
  IF active_worktree # <<p, w>> /\ Has(p, w) /\ projects[p].gh
  THEN {Request("fetch", p, w, projects[p].wts[w].path, {<<w, projects[p].wts[w].path>>})}
  ELSE {}

\* The worktree becomes the active one, on its first tab if it was on none.
ActivateWorktree(p, w) ==
  /\ active_worktree' = <<p, w>>
  /\ RefreshFor(p, w) # {} => issued < MaxRequests
  /\ Send(RefreshFor(p, w), pending_op)
  /\ projects' = IF Has(p, w) /\ projects[p].wts[w].tabs # <<>> /\ projects[p].wts[w].tab = 0
                 THEN [projects EXCEPT ![p].wts[w].tab = 1] ELSE projects

\* Enter on the selected row; on a project it only folds the project.
ActivateSelection ==
  /\ "activate" \in UserOps /\ KeysFree
  /\ sidebar_selection[2] # 0
  /\ ActivateWorktree(sidebar_selection[1], sidebar_selection[2])
  /\ UNCHANGED <<sidebar_selection, pr_statuses, popup, sessions, saved, supVars, linkVars,
                 misled>>
  /\ Track

\* A click on a row selects it and activates a worktree, prompt or not.
ClickRow(p, w) ==
  /\ "click" \in UserOps /\ MouseFree
  /\ sidebar_selection' = <<p, w>>
  /\ IF Has(p, w) THEN ActivateWorktree(p, w) ELSE UNCHANGED <<active_worktree, projects, reqVars>>
  /\ UNCHANGED <<pr_statuses, popup, sessions, saved, supVars, linkVars, misled>>
  /\ Track

\* A key or a click brings tab t of the active worktree to the front.
SwitchTab(t) ==
  /\ "switch" \in UserOps /\ MouseFree
  /\ Has(active_worktree[1], active_worktree[2])
  /\ LET p == active_worktree[1]
         w == active_worktree[2] IN
     /\ t \in DOMAIN projects[p].wts[w].tabs /\ t # projects[p].wts[w].tab
     /\ projects' = [projects EXCEPT ![p].wts[w].tab = t]
  /\ UNCHANGED <<uiVars, sessions, saved, reqVars, supVars, linkVars, misled>>
  /\ Track

\* A spawn with the worktree's path for the supervisor, its position for the reply.
SpawnAt(p, w) == Request("spawn", p, w, projects[p].wts[w].path,
                         {<<w, projects[p].wts[w].path>>})

OpenNewTab ==
  /\ MayAsk("tab") /\ KeysFree
  /\ Has(active_worktree[1], active_worktree[2])
  /\ Send({SpawnAt(active_worktree[1], active_worktree[2])}, pending_op)
  /\ UNCHANGED <<uiVars, treeVars, supVars, linkVars, misled>>
  /\ Track

\* A new tab goes last and is shown.
WithTab(wt, id) == [wt EXCEPT !.tabs = Append(@, id), !.tab = Len(wt.tabs) + 1]

\* Tab at of a worktree is taken out: the tab shown stays in range.
WithoutTab(wt, at) ==
  LET rest == RemoveAt(wt.tabs, at) IN
  [wt EXCEPT !.tabs = rest, !.tab = IF wt.tab > Len(rest) THEN Len(rest) ELSE wt.tab]

\* The tab that is shown is closed and its shell killed; the exit that follows
\* finds no tab.
CloseTab ==
  /\ "close" \in UserOps /\ KeysFree
  /\ Has(active_worktree[1], active_worktree[2])
  /\ LET p == active_worktree[1]
         w == active_worktree[2]
         wt == projects[p].wts[w] IN
     /\ wt.tab \in DOMAIN wt.tabs
     /\ projects' = [projects EXCEPT ![p].wts[w] = WithoutTab(wt, wt.tab)]
     /\ sessions' = sessions \ {wt.tabs[wt.tab]}
     /\ live' = IF wt.tabs[wt.tab] \in sessions
                THEN {s \in live : GlobalId(s) # wt.tabs[wt.tab]} ELSE live
  /\ UNCHANGED <<uiVars, saved, reqVars, exited, git, linkVars, misled>>
  /\ Track

\* The launcher picker is opened for the active worktree...
OpenLauncher ==
  /\ "launch" \in UserOps /\ KeysFree
  /\ active_worktree # None
  /\ popup' = Prompt("launch", active_worktree[1], active_worktree[2])
  /\ UNCHANGED <<active_worktree, sidebar_selection, pr_statuses, treeVars, reqVars, supVars,
                 linkVars, misled>>
  /\ Track

\* ... and launches there, whatever was activated since.
Launch ==
  /\ MayAsk("launch") /\ popup.k = "launch"
  /\ popup' = NoPopup
  /\ IF Has(popup.p, popup.w)
     THEN /\ Send({SpawnAt(popup.p, popup.w)}, pending_op)
          /\ Landed("launch", Denotes(popup.p, popup.w) = popup.asked)
     ELSE UNCHANGED <<reqVars, misled>>
  /\ UNCHANGED <<active_worktree, sidebar_selection, pr_statuses, treeVars, supVars, linkVars>>
  /\ Track

CancelPrompt ==
  /\ popup.k # "none"
  /\ popup' = NoPopup
  /\ UNCHANGED <<active_worktree, sidebar_selection, pr_statuses, treeVars, reqVars, supVars,
                 linkVars, misled>>
  /\ Track

RequestAdd(p, b) ==
  Send({Request("add", p, 0, <<projects[p].repo, b>>, {})}, TRUE)

\* :worktree <branch>
AddWorktree(b) ==
  /\ MayAsk("add") /\ KeysFree
  /\ SelectedProject # 0
  /\ RequestAdd(SelectedProject, b)
  /\ UNCHANGED <<uiVars, treeVars, supVars, linkVars, misled>>
  /\ Track

\* :worktree without a branch asks for it; the answer goes to the project at the
\* position the prompt was opened for.
AskBranch ==
  /\ "prompt" \in UserOps /\ KeysFree
  /\ SelectedProject # 0
  /\ popup' = Prompt("worktree", SelectedProject, 0)
  /\ UNCHANGED <<active_worktree, sidebar_selection, pr_statuses, treeVars, reqVars, supVars,
                 linkVars, misled>>
  /\ Track

SubmitBranch(b) ==
  /\ MayAsk("prompt") /\ popup.k = "worktree"
  /\ popup' = NoPopup
  /\ IF popup.p \in DOMAIN projects
     THEN /\ RequestAdd(popup.p, b)
          /\ Landed("worktree", Denotes(popup.p, 0) = popup.asked)
     ELSE UNCHANGED <<reqVars, misled>>
  /\ UNCHANGED <<active_worktree, sidebar_selection, pr_statuses, treeVars, supVars, linkVars>>
  /\ Track

\* :import
ImportWorktrees ==
  /\ MayAsk("import") /\ KeysFree
  /\ SelectedProject # 0
  /\ Send({Request("import", SelectedProject, 0, <<projects[SelectedProject].repo, 0>>, {})},
          TRUE)
  /\ UNCHANGED <<uiVars, treeVars, supVars, linkVars, misled>>
  /\ Track

\* :worktree-remove asks first; the main worktree is refused.
AskRemoveWorktree ==
  /\ "rmwt" \in UserOps /\ KeysFree
  /\ LET p == sidebar_selection[1]
         w == sidebar_selection[2] IN
     /\ Has(p, w)
     /\ projects[p].wts[w].path # <<projects[p].repo, 0>>
     /\ popup' = Prompt("confirm", p, w)
  /\ UNCHANGED <<active_worktree, sidebar_selection, pr_statuses, treeVars, reqVars, supVars,
                 linkVars, misled>>
  /\ Track

\* y: the supervisor is given the path the prompt was opened for, and is the one
\* of the project at the prompt's position; if none is there nothing is sent.
ConfirmRemoveWorktree ==
  /\ MayAsk("rmwt") /\ popup.k = "confirm"
  /\ popup' = NoPopup
  /\ IF popup.p \in DOMAIN projects
     THEN Send({[Request("rmwt", popup.p, popup.w, popup.asked[2], {<<popup.w, popup.asked[2]>>})
                   EXCEPT !.asked = popup.asked, !.slug = popup.asked[1]]}, TRUE)
     ELSE pending_op' = TRUE /\ UNCHANGED <<inflight, issued>>
  /\ UNCHANGED <<active_worktree, sidebar_selection, pr_statuses, treeVars, supVars, linkVars,
                 misled>>
  /\ Track

\* Refused while another operation is shown as running.
RequestProjectRemove(p, delete) ==
  IF pending_op \/ p \notin DOMAIN projects THEN UNCHANGED reqVars
  ELSE Send({[Request("rmproj", p, 0, <<projects[p].repo, 0>>, Rows(p))
                EXCEPT !.opt = delete]}, TRUE)

\* :project-remove, with the files to delete.
RemoveProject(delete) ==
  /\ MayAsk("rmproj") /\ KeysFree
  /\ SelectedProject # 0
  /\ RequestProjectRemove(SelectedProject, delete)
  /\ UNCHANGED <<uiVars, treeVars, supVars, linkVars, misled>>
  /\ Track

\* The key for it opens a prompt, which applies to whatever is at its position.
AskRemoveProject ==
  /\ "rmproj" \in UserOps /\ KeysFree
  /\ SelectedProject # 0
  /\ popup' = Prompt("project", SelectedProject, 0)
  /\ UNCHANGED <<active_worktree, sidebar_selection, pr_statuses, treeVars, reqVars, supVars,
                 linkVars, misled>>
  /\ Track

ConfirmRemoveProject(delete) ==
  /\ MayAsk("rmproj") /\ popup.k = "project"
  /\ popup' = NoPopup
  /\ RequestProjectRemove(popup.p, delete)
  /\ Landed("project", inflight' = inflight \/ Denotes(popup.p, 0) = popup.asked)
  /\ UNCHANGED <<active_worktree, sidebar_selection, pr_statuses, treeVars, supVars, linkVars>>
  /\ Track

\* :open, with or without importing the worktrees the repository has.
OpenProject(repo, import) ==
  /\ MayAsk("open") /\ KeysFree
  /\ Send({[n |-> issued + 1, op |-> "open", sup |-> Host[repo], p |-> 0, w |-> 0, slug |-> 0,
            path |-> <<repo, 0>>, rows |-> {}, opt |-> import, done |-> "no", found |-> {},
            asked |-> None]}, TRUE)
  /\ UNCHANGED <<uiVars, treeVars, supVars, linkVars, misled>>
  /\ Track

\* The poll: one request per project with PR statuses enabled.
PeriodicPrCheck ==
  /\ MayAsk("poll")
  /\ LET due == {p \in DOMAIN projects : projects[p].gh}
         Nth(p) == Cardinality({q \in due : q <= p}) IN
     /\ due # {}
     /\ Send({[Request("fetch", p, 0, <<projects[p].repo, 0>>, Rows(p))
                 EXCEPT !.n = issued + Nth(p)] : p \in due}, pending_op)
  /\ UNCHANGED <<uiVars, treeVars, supVars, linkVars, misled>>
  /\ Track

-----------------------------------------------------------------------------
(* The supervisors.  Spawns are handled, and answered, in the order they were  *)
(* sent and before anything sent after them; the other operations run in       *)
(* threads and end in any order.                                               *)

Turn(r) ==
  \A q \in inflight : q.op = "spawn" /\ q.sup = r.sup /\ q.n < r.n => q.done # "no"
Arrives(r) ==
  \A q \in inflight : q.op = "spawn" /\ q.sup = r.sup => q.n >= r.n

\* When git can do what is asked.
Possible(r) ==
  CASE r.op = "spawn" -> TRUE
    [] r.op \in {"open", "import"} -> r.path \in git
    [] r.op = "add" -> r.path \notin git /\ Main(r.path) \in git
    [] r.op = "rmwt" -> r.path \in git /\ Host[r.path[1]] = r.sup
    [] r.op = "rmproj" -> r.opt = "none" \/ r.path \in git

\* The worktrees a successful removal deletes.
Deleted(r) ==
  CASE r.op = "rmwt" -> {r.path}
    [] r.op = "rmproj" /\ r.opt = "linked" -> {x \in git : x[1] = r.path[1] /\ x[2] # 0}
    [] r.op = "rmproj" /\ r.opt = "main" -> {x \in git : x[1] = r.path[1]}
    [] OTHER -> {}

\* The shells a removal stops before it calls git: those started in its paths.
Stopped(r) ==
  IF r.op \in {"rmwt", "rmproj"}
  THEN {s \in live : s.sup = r.sup /\ s.path \in {row[2] : row \in r.rows}} ELSE {}

\* A supervisor handles a request.  Any operation may fail; a removal stops the
\* shells first and the main worktree goes last, so a failure may leave shells
\* stopped and linked worktrees gone.
Handle(r, ok) ==
  /\ r.done = "no" /\ r.op # "fetch" /\ Turn(r)
  /\ ok => Possible(r)
  /\ inflight' = (inflight \ {r}) \cup
       {[r EXCEPT !.done = IF ok THEN "ok" ELSE "fail",
                  !.found = IF ok /\ r.op = "import"
                            THEN {x \in git : x[1] = r.path[1]} ELSE {}]}
  /\ \E stopped \in SUBSET Stopped(r), gone \in SUBSET Deleted(r) :
       /\ ok => stopped = Stopped(r) /\ gone = Deleted(r)
       /\ ~ok /\ gone # {} =>
            r.op = "rmproj" /\ stopped = Stopped(r) /\ Main(r.path) \notin gone
       /\ live' = (live \ stopped) \cup
            (IF ok /\ r.op = "spawn"
             THEN {[id |-> r.n, sup |-> r.sup, path |-> r.path, slug |-> r.slug]} ELSE {})
       /\ exited' = exited \cup stopped
       /\ git' = IF ok /\ r.op = "add" THEN git \cup {r.path} ELSE git \ gone
  /\ UNCHANGED <<uiVars, treeVars, issued, pending_op, linkVars, misled>>
  /\ Track

\* A shell ends by itself; the notice goes to the attached client, if there is one.
ShellExits(s) ==
  /\ "exit" \in UserOps
  /\ live' = live \ {s}
  /\ exited' = IF s.sup \in connected THEN exited \cup {s} ELSE exited
  /\ UNCHANGED <<uiVars, treeVars, reqVars, git, linkVars, misled>>
  /\ Track

-----------------------------------------------------------------------------
(* The client's loop: replies and notices.                                     *)

\* A reply to r takes it off the table; what it asks for in turn is sent.
Answer(r, reqs, pending) ==
  /\ Arrives(r)
  /\ inflight' = (inflight \ {r}) \cup {q \in reqs : q.sup \in connected}
  /\ issued' = issued + Cardinality(reqs)
  /\ pending_op' = (pending /\ \A q \in reqs : q.sup \in connected)

\* The row or project is in the sidebar.
Shown(asked) ==
  \E p \in DOMAIN projects :
    Denotes(p, 0) = asked \/ \E w \in DOMAIN projects[p].wts : Denotes(p, w) = asked

\* The reply to r is applied to what r was for, or that is gone and nothing is.
Right(r) ==
  Denotes(r.p, r.w) = r.asked \/ (Denotes(r.p, r.w) = None /\ ~Shown(r.asked))

SessionSpawned(r) ==
  /\ r.op = "spawn" /\ r.done = "ok"
  /\ Answer(r, {}, pending_op)
  /\ IF Has(r.p, r.w)
     THEN /\ projects' = [projects EXCEPT ![r.p].wts[r.w] = WithTab(@, <<r.n, Link(r.sup)>>)]
          /\ sessions' = sessions \cup {<<r.n, Link(r.sup)>>}
          /\ Landed("spawn", Right(r))
          /\ UNCHANGED live
     ELSE /\ live' = {s \in live : s.id # r.n}  \* KillSession
          /\ Landed("orphan", Right(r))
          /\ UNCHANGED <<projects, sessions>>
  /\ UNCHANGED <<uiVars, saved, exited, git, linkVars>>
  /\ Track

\* The tab of a session whose shell has ended is dropped, wherever it is.
WithoutSession(ps, id) ==
  [p \in DOMAIN ps |-> [ps[p] EXCEPT !.wts = [w \in DOMAIN ps[p].wts |->
     LET at == SelectInSeq(ps[p].wts[w].tabs, LAMBDA x : x = id) IN
     IF at = 0 THEN ps[p].wts[w] ELSE WithoutTab(ps[p].wts[w], at)]]]

\* Exited follows Spawned on the same connection.
SessionExited(s) ==
  /\ \A r \in inflight : r.n # s.id
  /\ exited' = exited \ {s}
  /\ sessions' = sessions \ {GlobalId(s)}
  /\ projects' = WithoutSession(projects, GlobalId(s))
  /\ UNCHANGED <<uiVars, saved, reqVars, live, git, linkVars, misled>>
  /\ Track

ProjectValidated(r) ==
  /\ r.op = "open" /\ r.done = "ok"
  /\ LET new == [slug |-> ComputeSlug, repo |-> r.path[1], sup |-> r.sup, gh |-> TRUE,
                 wts |-> <<NewWorktree(r.path)>>]
         p == Len(projects) + 1 IN
     /\ projects' = Append(projects, new)
     /\ sidebar_selection' = IF sidebar_selection = None THEN <<p, 0>> ELSE sidebar_selection
     /\ saved' = SaveProject(projects', p)
     /\ Answer(r, IF r.opt = "import"
                  THEN {[r EXCEPT !.n = issued + 1, !.op = "import", !.p = p, !.opt = "none",
                                  !.slug = new.slug, !.done = "no",
                                  !.asked = <<new.slug, r.path>>]}
                  ELSE {}, r.opt = "import")
  /\ UNCHANGED <<active_worktree, pr_statuses, popup, sessions, supVars, linkVars, misled>>
  /\ Track

Unlisted(wts, found) == {x \in found : \A w \in DOMAIN wts : wts[w].path # x}

\* Worktrees that the project already lists, by path, are left out.
WorktreesImported(r) ==
  /\ r.op = "import" /\ r.done = "ok"
  /\ Answer(r, {}, FALSE)
  /\ IF r.p \in DOMAIN projects
     THEN LET new == Unlisted(projects[r.p].wts, r.found) IN
          \E order \in SetToSeqs(new) :
            /\ \A i, j \in DOMAIN order : i < j => order[i][2] < order[j][2]
            /\ projects' = [projects EXCEPT ![r.p].wts =
                              @ \o [i \in DOMAIN order |-> NewWorktree(order[i])]]
            /\ saved' = IF new # {} THEN SaveProject(projects', r.p) ELSE saved
     ELSE UNCHANGED <<projects, saved>>
  /\ Landed("import", Right(r))
  /\ UNCHANGED <<uiVars, sessions, supVars, linkVars>>
  /\ Track

\* The new worktree becomes the active one and gets a shell.
WorktreeAdded(r) ==
  /\ r.op = "add" /\ r.done = "ok"
  /\ IF r.p \in DOMAIN projects
     THEN LET w == Len(projects[r.p].wts) + 1
              spawn == [Request("spawn", r.p, w, r.path, {<<w, r.path>>})
                          EXCEPT !.asked = <<projects[r.p].slug, r.path>>] IN
          /\ projects' = [projects EXCEPT ![r.p].wts = Append(@, NewWorktree(r.path))]
          /\ saved' = SaveProject(projects', r.p)
          /\ active_worktree' = <<r.p, w>>
          /\ sidebar_selection' = <<r.p, w>>
          /\ Answer(r, {spawn}, FALSE)
     ELSE /\ Answer(r, {}, FALSE)
          /\ UNCHANGED <<projects, saved, active_worktree, sidebar_selection>>
  /\ Landed("add", Right(r))
  /\ UNCHANGED <<pr_statuses, popup, sessions, supVars, linkVars>>
  /\ Track

\* Where a worktree of project p goes when its w-th is removed; 0 is itself.
ShiftRow(at, p, w) ==
  IF at[1] = p /\ at[2] > w THEN <<p, at[2] - 1>> ELSE at

\* The status of row w of project p, if it has one, moves up by one row, over the status
\* that is there.
MovedUp(statuses, p, w) ==
  LET here == {t \in statuses : t[1] = p /\ t[2] = w} IN
  IF here = {} THEN statuses
  ELSE {t \in statuses \ here : t[1] # p \/ t[2] # w - 1} \cup {<<p, w - 1, t[3]>> : t \in here}

MovedUpEach(statuses, p, rows) ==
  FoldLeft(LAMBDA moved, wi : MovedUp(moved, p, wi), statuses, rows)

\* The worktree at the request's position is dropped, with its sessions; the positions
\* behind it move up, those of the PR statuses one by one and in any order.
WorktreeRemoved(r) ==
  /\ r.op = "rmwt" /\ r.done = "ok"
  /\ Answer(r, {}, FALSE)
  /\ LET p == r.p
         w == r.w IN
     /\ projects' = IF Has(p, w) THEN [projects EXCEPT ![p].wts = RemoveAt(@, w)] ELSE projects
     /\ sessions' = IF Has(p, w) THEN sessions \ ToSet(projects[p].wts[w].tabs) ELSE sessions
     /\ LET count == IF p \in DOMAIN projects THEN Len(projects'[p].wts) ELSE 0 IN
        /\ active_worktree' =
             IF active_worktree[1] = p /\ (active_worktree[2] = w
                                           \/ (active_worktree[2] > w /\ count = 0))
             THEN None ELSE ShiftRow(active_worktree, p, w)
        /\ sidebar_selection' =
             IF sidebar_selection[1] # p \/ sidebar_selection[2] < w THEN sidebar_selection
             ELSE IF count = 0 THEN <<p, 0>>
             ELSE IF sidebar_selection[2] = w THEN <<p, IF w > count THEN count ELSE w>>
             ELSE ShiftRow(sidebar_selection, p, w)
     /\ LET kept == {t \in pr_statuses : t[1] # p \/ t[2] # w} IN
        \E to_shift \in SetToSeqs(StatusesBehind(kept, p, w)) :
          pr_statuses' = MovedUpEach(kept, p, to_shift)
     /\ saved' = SaveProject(projects', p)
  /\ Landed("rmwt", Right(r))
  /\ UNCHANGED <<popup, supVars, linkVars>>
  /\ Track

\* Where the project at position i goes when the p-th is removed.
ShiftProject(i, p) == IF i > p THEN i - 1 ELSE i

\* The project with the request's slug is dropped, with its sessions; the
\* selection, if it was there, goes to the project that takes its place on screen.
ProjectRemoved(r) ==
  /\ r.op = "rmproj" /\ r.done = "ok"
  /\ Answer(r, {}, FALSE)
  /\ LET p == IndexOf(r.slug)
         last == Len(projects) - 2
         at == IF Standing(projects, p) > last THEN last ELSE Standing(projects, p)
         Up(i) == ShiftProject(i, p) IN
     IF p = 0
     THEN UNCHANGED <<projects, sessions, active_worktree, sidebar_selection, pr_statuses,
                      saved, misled>>
     ELSE /\ projects' = RemoveAt(projects, p)
          /\ sessions' = sessions \ TabsOf(p)
          /\ active_worktree' = IF active_worktree[1] = p THEN None
                                ELSE <<Up(active_worktree[1]), active_worktree[2]>>
          /\ IF sidebar_selection[1] # p
             THEN sidebar_selection' = <<Up(sidebar_selection[1]), sidebar_selection[2]>>
             ELSE \/ projects' = <<>> /\ sidebar_selection' = None
                  \/ \E i \in DOMAIN projects' :
                       Standing(projects', i) = at /\ sidebar_selection' = <<i, 0>>
          /\ pr_statuses' = {<<Up(s[1]), s[2], s[3]>> : s \in {t \in pr_statuses : t[1] # p}}
          /\ saved' = {f \in saved : f.slug # r.slug}
          /\ Landed("rmproj", Denotes(p, 0) = r.asked)
  /\ UNCHANGED <<popup, supVars, linkVars>>
  /\ Track

OperationFailed(r) ==
  /\ r.done = "fail"
  /\ Answer(r, {}, FALSE)
  /\ UNCHANGED <<uiVars, treeVars, supVars, linkVars, misled>>
  /\ Track

\* The statuses of the rows asked about, a PR for those in hit and none for the
\* others; rows beyond the project's last are ignored.
PrStatusesFetched(r, hit) ==
  /\ r.op = "fetch"
  /\ Answer(r, {}, pending_op)
  /\ LET p == IndexOf(r.slug)
         rows == {row \in r.rows : Has(p, row[1])} IN
     /\ pr_statuses' = {s \in pr_statuses : s[1] # p \/ \A row \in rows : s[2] # row[1]} \cup
                       {<<p, row[1], row[2]>> : row \in rows \cap hit}
     /\ Landed("fetch", \A row \in rows : Denotes(p, row[1])[2] = row[2])
  /\ UNCHANGED <<active_worktree, sidebar_selection, popup, treeVars, supVars, linkVars>>
  /\ Track

\* Nothing is recorded of a refresh that failed.
PrFetchFailed(r) ==
  /\ r.op = "fetch"
  /\ Answer(r, {}, pending_op)
  /\ UNCHANGED <<uiVars, treeVars, supVars, linkVars, misled>>
  /\ Track

-----------------------------------------------------------------------------
(* A remote supervisor goes and comes back.                                    *)

\* Its tabs go, the requests on their way to it and their replies with them;
\* pending_op stays.  The shells live on.
SupervisorLost(sup) ==
  /\ sup # LOCAL_SUP /\ sup \in connected /\ losses < MaxLosses
  /\ losses' = losses + 1
  /\ connected' = connected \ {sup}
  /\ LET mine == {p \in DOMAIN projects : projects[p].sup = sup} IN
     /\ sessions' = sessions \ UNION {TabsOf(p) : p \in mine}
     /\ projects' = [p \in DOMAIN projects |->
          IF p \notin mine THEN projects[p]
          ELSE [projects[p] EXCEPT !.wts = [w \in DOMAIN @ |-> NewWorktree(@[w].path)]]]
     /\ active_worktree' = IF active_worktree[1] \in mine THEN None ELSE active_worktree
  /\ inflight' = {r \in inflight : r.sup # sup}
  /\ exited' = {s \in exited : s.sup # sup}
  /\ UNCHANGED <<sidebar_selection, pr_statuses, popup, saved, issued, pending_op, live, git,
                 misled>>
  /\ Track

\* The worktree a shell of supervisor sup is put back into: by slug and name.
Located(s) ==
  LET p == IndexOf(s.slug)
      w == IF p = 0 THEN 0
           ELSE SelectInSeq(projects[p].wts, LAMBDA wt : wt.path[2] = s.path[2]) IN
  IF w # 0 /\ projects[p].sup = s.sup THEN <<p, w>> ELSE None

\* The shells of the supervisor are adopted, in any order; those that have no
\* worktree are killed.
Adopted(sup, p, w) ==
  {<<s.id, losses>> : s \in {x \in live : x.sup = sup /\ Located(x) = <<p, w>>}}

SupervisorConnected(sup) ==
  /\ sup # LOCAL_SUP /\ sup \notin connected
  /\ connected' = connected \cup {sup}
  /\ LET homed == {s \in live : s.sup = sup /\ Located(s) # None}
         homes == {Located(s) : s \in homed} IN
     /\ \E new \in [homes -> UNION {SetToSeqs(Adopted(sup, h[1], h[2])) : h \in homes}] :
          /\ \A h \in homes : new[h] \in SetToSeqs(Adopted(sup, h[1], h[2]))
          /\ projects' = [p \in DOMAIN projects |-> [projects[p] EXCEPT !.wts =
               [w \in DOMAIN projects[p].wts |->
                  IF <<p, w>> \notin homes THEN projects[p].wts[w]
                  ELSE [projects[p].wts[w] EXCEPT !.tabs = @ \o new[<<p, w>>],
                                                  !.tab = IF @ = 0 THEN 1 ELSE @]]]]
     /\ sessions' = sessions \cup {<<s.id, losses>> : s \in homed}
     /\ live' = {s \in live : s.sup = sup => s \in homed}
     /\ IF active_worktree = None /\ homed # {}
        THEN active_worktree' \in homes ELSE UNCHANGED active_worktree
  /\ UNCHANGED <<sidebar_selection, pr_statuses, popup, saved, reqVars, exited, git, losses,
                 misled>>
  /\ Track

-----------------------------------------------------------------------------
Deletes == {"none", "linked", "main"}

UserStep ==
  \/ \E p \in DOMAIN projects : \E w \in 0..Len(projects[p].wts) :
       MoveSelection(p, w) \/ ClickRow(p, w)
  \/ ActivateSelection
  \/ \E t \in 1..issued : SwitchTab(t)
  \/ OpenNewTab \/ CloseTab \/ OpenLauncher \/ Launch \/ CancelPrompt
  \/ \E b \in Branches : AddWorktree(b) \/ SubmitBranch(b)
  \/ AskBranch \/ ImportWorktrees
  \/ AskRemoveWorktree \/ ConfirmRemoveWorktree
  \/ AskRemoveProject
  \/ \E delete \in Deletes : RemoveProject(delete) \/ ConfirmRemoveProject(delete)
  \/ \E repo \in Repos, import \in {"none", "import"} : OpenProject(repo, import)
  \/ PeriodicPrCheck

SupervisorStep ==
  \/ \E r \in inflight, ok \in BOOLEAN : Handle(r, ok)
  \/ \E s \in live : ShellExits(s)

Applied(r) ==
  \/ SessionSpawned(r) \/ ProjectValidated(r) \/ WorktreesImported(r) \/ WorktreeAdded(r)
  \/ WorktreeRemoved(r) \/ ProjectRemoved(r) \/ OperationFailed(r)
  \/ PrFetchFailed(r) \/ \E hit \in SUBSET r.rows : PrStatusesFetched(r, hit)

LinkStep ==
  \E sup \in {Host[repo] : repo \in Repos} : SupervisorLost(sup) \/ SupervisorConnected(sup)

Next ==
  \/ UserStep
  \/ SupervisorStep
  \/ \E r \in inflight : Applied(r)
  \/ \E s \in exited : SessionExited(s)
  \/ LinkStep

Spec == Init /\ [][Next]_vars

-----------------------------------------------------------------------------
(* Properties *)

\* Every position the client keeps denotes a row, whatever order replies come
\* in: the code indexes its vectors with them.  A worktree shows a tab exactly
\* if it has one.
PointersInRange ==
  /\ active_worktree = None \/ Has(active_worktree[1], active_worktree[2])
  /\ \/ sidebar_selection = None
     \/ sidebar_selection[1] \in DOMAIN projects
          /\ sidebar_selection[2] \in 0..Len(projects[sidebar_selection[1]].wts)
  /\ \A s \in pr_statuses : Has(s[1], s[2])
  /\ \A p \in DOMAIN projects : \A w \in DOMAIN projects[p].wts :
       LET wt == projects[p].wts[w] IN
       wt.tab \in DOMAIN wt.tabs \/ (wt.tab = 0 /\ wt.tabs = <<>>)

\* The tabs and the session handles agree, and no session has two tabs.
TabsAreSessions ==
  /\ sessions = UNION {TabsOf(p) : p \in DOMAIN projects}
  /\ \A p, q \in DOMAIN projects :
       \A v \in DOMAIN projects[p].wts, w \in DOMAIN projects[q].wts :
         \A i \in DOMAIN projects[p].wts[v].tabs, j \in DOMAIN projects[q].wts[w].tabs :
           projects[p].wts[v].tabs[i] = projects[q].wts[w].tabs[j] => p = q /\ v = w /\ i = j

\* What the project files list is what the sidebar shows, one file per project.
SavedIsShown ==
  /\ saved = {SavedAs(projects, p) : p \in DOMAIN projects}
  /\ \A p, q \in DOMAIN projects : projects[p].slug = projects[q].slug => p = q

\* The positional addresses are right as long as no removal is outstanding
\* together with a request or a prompt it displaces: replies then reach what
\* they were asked for, shells show up in the worktree they run in, and a PR
\* status stands beside its own worktree; the latter also only until a removal has
\* moved up two adjacent rows that both had one.
LandsUnlessCrossed ==
  Clean =>
    /\ misled = {}
    /\ \A s \in live, p \in DOMAIN projects : \A w \in DOMAIN projects[p].wts :
         GlobalId(s) \in ToSet(projects[p].wts[w].tabs) => Denotes(p, w) = <<s.slug, s.path>>
    /\ scattered \/ \A t \in pr_statuses : Denotes(t[1], t[2])[2] = t[3]

\* Under the same condition no shell of a connected supervisor is left without a
\* tab; and a project lists no worktree twice, as long as what was listed was on disk
\* or on its way out: a branch whose worktree is gone can be added again.
NothingStray ==
  Clean =>
    /\ \A s \in live : s.sup \in connected =>
         GlobalId(s) \in sessions \/ \E r \in inflight : r.n = s.id
    /\ outdated \/ \A p \in DOMAIN projects : \A v, w \in DOMAIN projects[p].wts :
         projects[p].wts[v].path = projects[p].wts[w].path => v = w

\* An operation shown as running is running: its reply will clear pending_op,
\* which alone lets a project be removed.  (Not so once a remote was lost.)
NotWedged ==
  Clean /\ losses = 0 /\ pending_op => \E r \in inflight : r.op \in GitOps

ActiveRow == Denotes(active_worktree[1], active_worktree[2])
SelectedRow == Denotes(sidebar_selection[1], sidebar_selection[2])
AllRows == UNION {{Denotes(p, w) : w \in DOMAIN projects[p].wts} : p \in DOMAIN projects}
\* The reply of a removal leaves the active worktree and the selection on the
\* row they were on, if it is still there.
PointersFollow ==
  [][projects' # projects /\ AllRows' \subseteq AllRows /\ AllRows' # AllRows =>
       /\ ActiveRow' = IF ActiveRow \in AllRows' THEN ActiveRow ELSE None
       /\ SelectedRow \in AllRows' => SelectedRow' = SelectedRow]_vars

\* What the comments on the orphan PTY, on the pinned launcher and on the backing
\* vector say: a reply or a prompt is applied to what it was for, or, if that is
\* gone, to nothing.
LandsWhereAsked == misled = {}

\* What the comment on the shift of the PR statuses says, that it mirrors that of the
\* active worktree: without any crossing a status stays beside its own worktree.
StatusesShift == Clean => \A t \in pr_statuses : Denotes(t[1], t[2])[2] = t[3]
=============================================================================
