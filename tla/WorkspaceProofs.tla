--------------------------- MODULE WorkspaceProofs ---------------------------
(***************************************************************************)
(* Theorems of Workspace, for any configuration, any repositories and       *)
(* branches and any number of requests and losses.                          *)
(***************************************************************************)
EXTENDS Workspace, SequenceTheorems, FiniteSetTheorems, NaturalsInduction, TLAPS

-----------------------------------------------------------------------------
(* Operators *)

\* The minimum of a set of numbers is one of them.
LEMMA MinOf ==
  ASSUME NEW S \in SUBSET Nat, S # {}
  PROVE  Min(S) \in S /\ \A y \in S : Min(S) <= y
  <1> DEFINE R == OpToRel(<, Nat)
  <1>1. IsWellFoundedOn(R, Nat) BY NatLessThanWellFounded
  <1> HIDE DEF R
  <1>2. PICK x \in S : \A y \in S : ~(<<y, x>> \in R) BY <1>1, WFMin
  <1>3. \A y \in S : ~(y < x) BY <1>2 DEF R, OpToRel
  <1>4. \A y \in S : x <= y BY <1>3
  <1> QED BY <1>4 DEF Min

\* What is found in a sequence: the first of the places I, 0 if there is none.
LEMMA FirstOf ==
  ASSUME NEW n \in Nat, NEW I \in SUBSET (1 .. n),
         NEW i, i = IF I # {} THEN Min(I) ELSE 0
  PROVE  /\ i \in 0 .. n
         /\ i # 0 => i \in I
         /\ i = 0 => I = {}
  <1>1. I # {} => Min(I) \in I BY MinOf
  <1>2. CASE I = {} BY <1>2
  <1>3. CASE I # {}
    <2>1. i = Min(I) BY <1>3
    <2>2. i \in I BY <1>1, <1>3, <2>1
    <2>3. i \in 1 .. n BY <2>2
    <2> QED BY <2>2, <2>3
  <1> QED BY <1>2, <1>3

\* IndexOf finds the project of a slug, if there is one.
LEMMA IndexIs ==
  ASSUME NEW slug, projects \in Seq(Project)
  PROVE  /\ IndexOf(slug) \in 0 .. Len(projects)
         /\ IndexOf(slug) # 0 => /\ IndexOf(slug) \in DOMAIN projects
                                 /\ projects[IndexOf(slug)].slug = slug
         /\ IndexOf(slug) = 0 => \A p \in DOMAIN projects : projects[p].slug # slug
  <1> DEFINE I == {p \in 1 .. Len(projects) : projects[p].slug = slug}
  <1>1. IndexOf(slug) = IF I # {} THEN Min(I) ELSE 0 BY DEF IndexOf, SelectInSeq
  <1>2. I \in SUBSET (1 .. Len(projects)) /\ Len(projects) \in Nat OBVIOUS
  <1>3. /\ IndexOf(slug) \in 0 .. Len(projects)
        /\ IndexOf(slug) # 0 => IndexOf(slug) \in I
        /\ IndexOf(slug) = 0 => I = {}
    <2> HIDE DEF I
    <2> QED BY <1>1, <1>2, FirstOf
  <1> QED BY <1>3

\* There is a slug that no project has, and the one chosen is such a one.
LEMMA ComputeSlugIs ==
  ASSUME projects \in Seq(Project)
  PROVE  /\ ComputeSlug \in 1 .. (Len(projects) + 1)
         /\ \A p \in DOMAIN projects : projects[p].slug # ComputeSlug
  <1> DEFINE n == Len(projects)
             Free == {m \in 1 .. (n + 1) : IndexOf(m) = 0}
  <1>0. n \in Nat /\ DOMAIN projects = 1 .. n OBVIOUS
  <1>1. Free # {}
    <2> SUFFICES ASSUME Free = {} PROVE FALSE OBVIOUS
    <2> DEFINE f == [m \in 1 .. (n + 1) |-> IndexOf(m)]
    <2>1. f \in [1 .. (n + 1) -> 1 .. n]
      <3>1. \A m \in 1 .. (n + 1) : IndexOf(m) \in 0 .. n /\ IndexOf(m) # 0 BY IndexIs
      <3> HIDE DEF n
      <3> QED BY <1>0, <3>1
    <2>2. Cardinality(1 .. (n + 1)) = n + 1 /\ Cardinality(1 .. n) = n
          /\ IsFiniteSet(1 .. (n + 1)) /\ IsFiniteSet(1 .. n)
      BY SMTT(60), <1>0, FS_Interval
    <2>3. PICK i, j \in 1 .. (n + 1) : i # j /\ f[i] = f[j]
      <3> DEFINE S == 1 .. (n + 1)
                 T == 1 .. n
      <3>1. Cardinality(T) < Cardinality(S) /\ IsFiniteSet(S) /\ IsFiniteSet(T)
        <4> HIDE DEF n
        <4> QED BY <1>0, <2>2
      <3>2. f \in [S -> T] BY <2>1
      <3> SUFFICES \E i, j \in S : i # j /\ f[i] = f[j] OBVIOUS
      <3> HIDE DEF f, S, T
      <3> QED BY <3>1, <3>2, FS_PigeonHole
    <2>4. IndexOf(i) = IndexOf(j) /\ IndexOf(i) # 0 /\ IndexOf(j) # 0 BY <2>1, <2>3
    <2> QED BY <2>3, <2>4, IndexIs
  <1>2. Free \in SUBSET Nat BY <1>0
  <1> DEFINE m == Min(Free)
  <1>3. m \in Free /\ \A k \in Free : m <= k
    <2> HIDE DEF Free
    <2> QED BY <1>1, <1>2, MinOf
  <1>4. m \in 1 .. (n + 1) /\ IndexOf(m) = 0 BY <1>3
  <1>5. \A k \in 1 .. (m - 1) : IndexOf(k) # 0
    <2> SUFFICES ASSUME NEW k \in 1 .. (m - 1), IndexOf(k) = 0 PROVE FALSE OBVIOUS
    <2> HIDE DEF m, n
    <2>1. k \in 1 .. (n + 1) /\ k < m BY <1>0, <1>4
    <2>2. k \in Free BY <2>1
    <2> QED BY <1>0, <1>3, <1>4, <2>1, <2>2
  <1> HIDE DEF m, n, Free
  <1>6. /\ ComputeSlug \in 1 .. (n + 1)
        /\ IndexOf(ComputeSlug) = 0
    BY <1>4, <1>5 DEF ComputeSlug, n
  <1> QED BY <1>6, IndexIs DEF n

-----------------------------------------------------------------------------
(* The invariant: types *)

TreeTypes ==
  projects \in Seq(Project) /\ sessions \subseteq Handles
PointerTypes ==
  /\ active_worktree \in Nat \X Nat /\ sidebar_selection \in Nat \X Nat
  /\ pr_statuses \subseteq Nat \X Nat \X Paths
PopupTypes ==
  /\ popup \in [k : {"none", "confirm", "launch", "worktree", "project"}, p : Nat, w : Nat,
                asked : Asked]
  /\ popup.k = "confirm" => popup.asked # None /\ popup.w # 0
SavedTypes == saved \subseteq [slug : Nat \ {0}, rows : Seq(Paths)]
RequestTypes ==
  /\ inflight \subseteq Requests /\ \A r \in inflight : r.sup \in connected
  /\ \A r \in inflight : r.op = "spawn" => r.n <= issued
  /\ \A r \in inflight : r.op = "rmwt" => r.w # 0
  /\ issued \in Nat /\ pending_op \in BOOLEAN
LinkTypes ==
  /\ connected \subseteq Sups /\ LOCAL_SUP \in connected
  /\ losses \in 0 .. MaxLosses
ShellTypes ==
  /\ live \subseteq Shells /\ IsFiniteSet(live)
  /\ exited \subseteq {s \in Shells : s.sup \in connected}
  /\ \A s \in live \cup exited : s.id <= issued
  /\ git \subseteq Paths
HistoryTypes ==
  /\ misled \subseteq {"spawn", "orphan", "import", "add", "rmwt", "rmproj", "fetch",
                       "launch", "worktree", "project"}
  /\ crossed \in BOOLEAN /\ outdated \in BOOLEAN /\ scattered \in BOOLEAN

Types ==
  /\ TreeTypes /\ PointerTypes /\ PopupTypes /\ SavedTypes
  /\ RequestTypes /\ LinkTypes /\ ShellTypes /\ HistoryTypes

\* Nobody but the constants says what a supervisor is.
LEMMA SupsAre == LOCAL_SUP = 1 /\ REMOTE_SUP = 2 /\ Sups = {1, 2}
  BY DEF LOCAL_SUP, REMOTE_SUP, Sups

-----------------------------------------------------------------------------
(* Rows *)

\* What a project and a row have.
LEMMA ProjectHas ==
  ASSUME projects \in Seq(Project), NEW p \in DOMAIN projects
  PROVE  /\ projects[p].slug \in Nat \ {0} /\ projects[p].repo \in Repos
         /\ projects[p].sup \in Sups /\ projects[p].wts \in Seq(Worktree)
         /\ <<projects[p].repo, 0>> \in Paths
         /\ \A w \in DOMAIN projects[p].wts : projects[p].wts[w] \in Worktree
  <1>1. projects[p] \in Project OBVIOUS
  <1> QED BY <1>1 DEF Project, Paths

\* A position denotes a row or a project, or nothing.
LEMMA DenotesIs ==
  ASSUME projects \in Seq(Project), NEW p \in Nat, NEW w \in Nat
  PROVE  /\ Denotes(p, w) \in Asked
         /\ Has(p, w) => Denotes(p, w) = <<projects[p].slug, projects[p].wts[w].path>>
         /\ p \in DOMAIN projects => Denotes(p, 0) = <<projects[p].slug, <<projects[p].repo, 0>>>>
         /\ Denotes(p, w) # None => p \in DOMAIN projects
  <1>1. Has(p, w) => w # 0 /\ projects[p].wts[w].path \in Paths
    <2> SUFFICES ASSUME Has(p, w) PROVE w # 0 /\ projects[p].wts[w].path \in Paths
      OBVIOUS
    <2>1. projects[p].wts \in Seq(Worktree) /\ w \in DOMAIN projects[p].wts
      BY ProjectHas DEF Has
    <2>2. projects[p].wts[w] \in Worktree BY <2>1
    <2> QED BY <2>1, <2>2 DEF Worktree
  <1>2. p \in DOMAIN projects =>
          projects[p].slug \in Nat \ {0} /\ <<projects[p].repo, 0>> \in Paths
    BY ProjectHas
  <1>3. CASE Has(p, w) BY <1>1, <1>2, <1>3 DEF Denotes, Asked, Has
  <1>4. CASE ~Has(p, w) BY <1>2, <1>4 DEF Denotes, Asked
  <1> QED BY <1>3, <1>4

\* The rows a request can list.
PlaceSets == SUBSET (Nat \X Paths)
Operations == GitOps \cup {"spawn", "fetch"}

\* A request is one, and is for its project's supervisor.
LEMMA RequestIs ==
  ASSUME projects \in Seq(Project), issued \in Nat,
         NEW p \in DOMAIN projects, NEW w \in Nat, NEW op \in Operations,
         NEW path \in Paths, NEW rows \in PlaceSets,
         NEW r, r = Request(op, p, w, path, rows)
  PROVE  /\ r \in Requests
         /\ r.n = issued + 1 /\ r.op = op /\ r.sup = projects[p].sup
         /\ r.p = p /\ r.w = w /\ r.slug = projects[p].slug /\ r.path = path /\ r.rows = rows
         /\ r.done = "no" /\ r.asked = Denotes(p, w) /\ r.opt = "none" /\ r.found = {}
  <1>1. Denotes(p, w) \in Asked BY DenotesIs
  <1>2. projects[p].slug \in Nat \ {0} /\ projects[p].sup \in Sups BY ProjectHas
  <1>3. Request(op, p, w, path, rows) \in Requests
    BY <1>1, <1>2 DEF Request, Requests, PlaceSets, Operations
  <1> QED BY <1>3 DEF Request

\* Requests of the types, not too far ahead in number.
Sendable(reqs) ==
  /\ reqs \subseteq Requests /\ Cardinality(reqs) \in Nat
  /\ \A r \in reqs : r.op = "spawn" => r.n <= issued + Cardinality(reqs)
  /\ \A r \in reqs : r.op = "rmwt" => r.w # 0

\* One request well numbered may be sent.
LEMMA OneSendable ==
  ASSUME issued \in Nat, NEW r \in Requests, r.op = "spawn" => r.n = issued + 1,
         r.op = "rmwt" => r.w # 0
  PROVE  Sendable({r}) /\ Cardinality({r}) = 1
  <1>1. Cardinality({r}) = 1 BY FS_Singleton
  <1> QED BY <1>1 DEF Sendable

\* So may none.
LEMMA NoneSendable ==
  Sendable({}) /\ Cardinality({}) = 0
  BY FS_EmptySet DEF Sendable

\* Sending and answering keep the table of requests.
LEMMA SendTypes ==
  ASSUME RequestTypes, NEW reqs, Sendable(reqs), NEW pending \in BOOLEAN,
         UNCHANGED connected, Send(reqs, pending)
  PROVE  RequestTypes' /\ issued' \in Nat /\ issued <= issued'
  <1>1. /\ inflight' = inflight \cup {r \in reqs : r.sup \in connected}
        /\ issued' = issued + Cardinality(reqs)
        /\ pending_op' = (pending /\ \A r \in reqs : r.sup \in connected)
    BY DEF Send
  <1>2. issued' \in Nat /\ issued <= issued' BY <1>1 DEF RequestTypes, Sendable
  <1>3. pending_op' \in BOOLEAN BY <1>1
  <1>4. inflight' \subseteq Requests /\ \A r \in inflight' : r.sup \in connected'
    BY <1>1 DEF RequestTypes, Sendable
  <1>5. ASSUME NEW r \in inflight', r.op = "spawn" PROVE r.n <= issued'
    <2>1. r.n \in Nat BY <1>4, <1>5 DEF Requests
    <2>2. CASE r \in inflight BY <1>2, <1>5, <2>1, <2>2 DEF RequestTypes
    <2>3. CASE r \in reqs BY <1>1, <1>5, <2>3 DEF Sendable
    <2> QED BY <1>1, <2>2, <2>3
  <1>6. \A r \in inflight' : r.op = "rmwt" => r.w # 0 BY <1>1 DEF RequestTypes, Sendable
  <1> QED BY <1>2, <1>3, <1>4, <1>5, <1>6 DEF RequestTypes

\* The types hold where an answer is taken and requests go out with it.
LEMMA AnswerTypes ==
  ASSUME RequestTypes, NEW q, NEW reqs, Sendable(reqs), NEW pending \in BOOLEAN,
         UNCHANGED connected, Answer(q, reqs, pending)
  PROVE  RequestTypes' /\ issued' \in Nat /\ issued <= issued'
  <1>1. /\ inflight' = (inflight \ {q}) \cup {r \in reqs : r.sup \in connected}
        /\ issued' = issued + Cardinality(reqs)
        /\ pending_op' = (pending /\ \A r \in reqs : r.sup \in connected)
    BY DEF Answer
  <1>2. issued' \in Nat /\ issued <= issued' BY <1>1 DEF RequestTypes, Sendable
  <1>3. pending_op' \in BOOLEAN BY <1>1
  <1>4. inflight' \subseteq Requests /\ \A r \in inflight' : r.sup \in connected'
    BY <1>1 DEF RequestTypes, Sendable
  <1>5. ASSUME NEW r \in inflight', r.op = "spawn" PROVE r.n <= issued'
    <2>1. r.n \in Nat BY <1>4, <1>5 DEF Requests
    <2>2. CASE r \in inflight BY <1>2, <1>5, <2>1, <2>2 DEF RequestTypes
    <2>3. CASE r \in reqs BY <1>1, <1>5, <2>3 DEF Sendable
    <2> QED BY <1>1, <2>2, <2>3
  <1>6. \A r \in inflight' : r.op = "rmwt" => r.w # 0 BY <1>1 DEF RequestTypes, Sendable
  <1> QED BY <1>2, <1>3, <1>4, <1>5, <1>6 DEF RequestTypes

\* They hold where one request goes out.
LEMMA SendOne ==
  ASSUME RequestTypes, NEW r \in Requests, r.op = "spawn" => r.n = issued + 1,
         r.op = "rmwt" => r.w # 0, NEW pending \in BOOLEAN, UNCHANGED connected, Send({r}, pending)
  PROVE  RequestTypes' /\ issued' \in Nat /\ issued <= issued'
  <1>1. Sendable({r}) BY OneSendable DEF RequestTypes
  <1> QED BY <1>1, SendTypes

-----------------------------------------------------------------------------
(* The invariant: positions *)

ActiveIn == active_worktree = None \/ Has(active_worktree[1], active_worktree[2])
SelectedIn ==
  \/ sidebar_selection = None
  \/ /\ sidebar_selection[1] \in DOMAIN projects
     /\ sidebar_selection[2] \in 0 .. Len(projects[sidebar_selection[1]].wts)
StatusesIn == \A s \in pr_statuses : Has(s[1], s[2])
TabShown(wt) == wt.tab \in DOMAIN wt.tabs \/ (wt.tab = 0 /\ wt.tabs = <<>>)
TabsShown ==
  \A p \in DOMAIN projects : \A w \in DOMAIN projects[p].wts : TabShown(projects[p].wts[w])

PositionInv == Types /\ ActiveIn /\ SelectedIn /\ StatusesIn /\ TabsShown

\* The project that commands apply to is one.
LEMMA SelectedIs ==
  ASSUME Types, ActiveIn, SelectedProject # 0
  PROVE  SelectedProject \in DOMAIN projects
  <1>1. CASE sidebar_selection[1] \in DOMAIN projects BY <1>1 DEF SelectedProject
  <1>2. CASE sidebar_selection[1] \notin DOMAIN projects
    <2>1. SelectedProject = active_worktree[1] BY <1>2 DEF SelectedProject
    <2>2. active_worktree # None BY <2>1 DEF None
    <2> QED BY <2>1, <2>2 DEF ActiveIn, Has
  <1> QED BY <1>1, <1>2

-----------------------------------------------------------------------------
(* Requests *)

\* The rows of a project, for its supervisor, are places and paths.
LEMMA RowsAre ==
  ASSUME projects \in Seq(Project), NEW p \in DOMAIN projects
  PROVE  /\ Rows(p) \in PlaceSets
         /\ \A w \in DOMAIN projects[p].wts :
              /\ w \in Nat \ {0} /\ projects[p].wts[w].path \in Paths
              /\ {<<w, projects[p].wts[w].path>>} \in PlaceSets
  <1>1. projects[p].wts \in Seq(Worktree) BY ProjectHas
  <1>2. ASSUME NEW w \in DOMAIN projects[p].wts
        PROVE  w \in Nat \ {0} /\ projects[p].wts[w].path \in Paths
    <2>1. projects[p].wts[w] \in Worktree BY <1>1
    <2> QED BY <1>1, <2>1 DEF Worktree
  <1> QED BY <1>2 DEF Rows, PlaceSets

\* The refresh for a row that is activated.
LEMMA RefreshSendable ==
  ASSUME Types, NEW p \in Nat, NEW w \in Nat
  PROVE  Sendable(RefreshFor(p, w))
  <1>1. CASE active_worktree # <<p, w>> /\ Has(p, w) /\ projects[p].gh
    <2> DEFINE r == Request("fetch", p, w, projects[p].wts[w].path,
                            {<<w, projects[p].wts[w].path>>})
    <2>1. RefreshFor(p, w) = {r} BY <1>1 DEF RefreshFor
    <2>2. p \in DOMAIN projects /\ w \in DOMAIN projects[p].wts BY <1>1 DEF Has
    <2>3. projects \in Seq(Project) /\ issued \in Nat BY DEF Types, TreeTypes, RequestTypes
    <2>4. /\ projects[p].wts[w].path \in Paths
          /\ {<<w, projects[p].wts[w].path>>} \in PlaceSets
      BY <2>2, <2>3, RowsAre
    <2>5. r \in Requests /\ r.op = "fetch"
      <3> DEFINE path == projects[p].wts[w].path
                 rows == {<<w, projects[p].wts[w].path>>}
      <3>1. path \in Paths /\ rows \in PlaceSets BY <2>4
      <3>2. "fetch" \in Operations BY DEF Operations
      <3>3. r = Request("fetch", p, w, path, rows) OBVIOUS
      <3> HIDE DEF path, rows, r
      <3> QED BY <2>2, <2>3, <3>1, <3>2, <3>3, RequestIs
    <2> HIDE DEF r
    <2> QED BY <2>1, <2>3, <2>5, OneSendable
  <1>2. CASE ~(active_worktree # <<p, w>> /\ Has(p, w) /\ projects[p].gh)
    BY <1>2, NoneSendable DEF RefreshFor
  <1> QED BY <1>1, <1>2

\* Activating a row fetches its statuses, or nothing.
LEMMA ActivateTypes ==
  ASSUME Types, NEW p \in Nat, NEW w \in Nat, ActivateWorktree(p, w), UNCHANGED connected
  PROVE  RequestTypes' /\ issued <= issued'
  <1>1. Send(RefreshFor(p, w), pending_op) BY DEF ActivateWorktree
  <1> QED BY <1>1, RefreshSendable, SendTypes DEF Types, RequestTypes

\* A spawn at a row that is there.
LEMMA SpawnTypes ==
  ASSUME Types, NEW p \in Nat, NEW w \in Nat, Has(p, w), UNCHANGED connected,
         Send({SpawnAt(p, w)}, pending_op)
  PROVE  RequestTypes' /\ issued <= issued'
  <1>1. p \in DOMAIN projects /\ w \in DOMAIN projects[p].wts BY DEF Has
  <1>2. projects \in Seq(Project) /\ issued \in Nat BY DEF Types, TreeTypes, RequestTypes
  <1>3. /\ projects[p].wts[w].path \in Paths
        /\ {<<w, projects[p].wts[w].path>>} \in PlaceSets
    BY <1>1, <1>2, RowsAre
  <1>4. /\ SpawnAt(p, w) \in Requests /\ SpawnAt(p, w).n = issued + 1
        /\ SpawnAt(p, w).op = "spawn"
    <2> DEFINE path == projects[p].wts[w].path
               rows == {<<w, projects[p].wts[w].path>>}
               r == SpawnAt(p, w)
    <2>1. path \in Paths /\ rows \in PlaceSets BY <1>3
    <2>2. "spawn" \in Operations BY DEF Operations
    <2>3. r = Request("spawn", p, w, path, rows) BY DEF SpawnAt
    <2>4. r \in Requests /\ r.n = issued + 1 /\ r.op = "spawn"
      <3> HIDE DEF path, rows, r
      <3> QED BY <1>1, <1>2, <2>1, <2>2, <2>3, RequestIs
    <2> QED BY <2>4
  <1> QED BY <1>4, SendOne DEF Types, RequestTypes

\* A worktree to be added to a project that is there.
LEMMA AddTypes ==
  ASSUME Types, NEW p \in DOMAIN projects, NEW b \in Branches, RequestAdd(p, b),
         UNCHANGED connected
  PROVE  RequestTypes' /\ issued <= issued'
  <1> DEFINE path == <<projects[p].repo, b>>
             r == Request("add", p, 0, path, {})
  <1>1. path \in Paths BY ProjectHas DEF Types, TreeTypes, Paths
  <1>2. p \in Nat /\ projects \in Seq(Project) /\ issued \in Nat
    BY DEF Types, TreeTypes, RequestTypes
  <1>3. r = Request("add", p, 0, path, {}) /\ Send({r}, TRUE) BY DEF RequestAdd
  <1> HIDE DEF path, r
  <1>4. r \in Requests /\ r.op = "add"
    <2>1. {} \in PlaceSets /\ "add" \in Operations BY DEF GitOps, PlaceSets, Operations
    <2> QED BY <1>1, <1>2, <1>3, <2>1, RequestIs
  <1> QED BY <1>3, <1>4, SendOne DEF Types

\* An import asks for the selected project.
LEMMA ImportTypes ==
  ASSUME Types, ActiveIn, ImportWorktrees
  PROVE  RequestTypes' /\ issued <= issued'
  <1> DEFINE p == SelectedProject
             path == <<projects[p].repo, 0>>
             r == Request("import", p, 0, path, {})
  <1>1. p \in DOMAIN projects BY SelectedIs DEF ImportWorktrees
  <1>2. r = Request("import", p, 0, path, {}) /\ Send({r}, TRUE) /\ UNCHANGED connected
    BY DEF ImportWorktrees, linkVars
  <1> HIDE DEF p, r
  <1>3. path \in Paths BY <1>1, ProjectHas DEF Types, TreeTypes
  <1>4. p \in Nat /\ projects \in Seq(Project) /\ issued \in Nat
    BY <1>1 DEF Types, TreeTypes, RequestTypes
  <1> HIDE DEF path
  <1>5. r \in Requests /\ r.op = "import"
    <2>1. {} \in PlaceSets /\ "import" \in Operations BY DEF GitOps, PlaceSets, Operations
    <2> QED BY <1>1, <1>2, <1>3, <1>4, <2>1, RequestIs
  <1> QED BY <1>2, <1>5, SendOne DEF Types

\* A request remains one when its option is replaced.
LEMMA AmendedOption ==
  ASSUME NEW r \in Requests, NEW opt \in {"none", "import", "linked", "main"},
         NEW q, q = [r EXCEPT !.opt = opt]
  PROVE  q \in Requests /\ q.op = r.op
  BY DEF Requests

\* It remains one when its number is replaced.
LEMMA AmendedNumber ==
  ASSUME NEW r \in Requests, NEW n \in Nat \ {0}, NEW q, q = [r EXCEPT !.n = n]
  PROVE  q \in Requests /\ q.op = r.op
  BY DEF Requests

\* It remains one when its purpose alone is replaced.
LEMMA AmendedPurpose ==
  ASSUME NEW r \in Requests, NEW asked \in Asked, NEW q, q = [r EXCEPT !.asked = asked]
  PROVE  q \in Requests /\ q.op = r.op /\ q.n = r.n /\ q.sup = r.sup
  BY DEF Requests

\* What a prompt to confirm the removal of a worktree was opened for.
LEMMA ConfirmedIs ==
  ASSUME PopupTypes, popup.k = "confirm"
  PROVE  popup.asked \in Asked /\ popup.asked[1] \in Nat /\ popup.asked[2] \in Paths
         /\ popup.p \in Nat /\ popup.w \in Nat \ {0}
  BY DEF PopupTypes, Asked

\* A confirmed removal names the row of the prompt.
LEMMA ConfirmTypes ==
  ASSUME Types, ConfirmRemoveWorktree
  PROVE  RequestTypes' /\ issued <= issued'
  <1>0. /\ UNCHANGED connected /\ projects \in Seq(Project) /\ issued \in Nat /\ popup.k = "confirm"
        /\ RequestTypes
    BY DEF ConfirmRemoveWorktree, linkVars, Types, TreeTypes, RequestTypes
  <1>1. CASE popup.p \in DOMAIN projects
    <2> DEFINE path == popup.asked[2]
               rows == {<<popup.w, popup.asked[2]>>}
               r == Request("rmwt", popup.p, popup.w, path, rows)
               q == [r EXCEPT !.asked = popup.asked, !.slug = popup.asked[1]]
    <2>1. popup.asked \in Asked /\ popup.asked[1] \in Nat /\ path \in Paths /\ popup.w \in Nat \ {0}
      BY <1>0, ConfirmedIs DEF Types
    <2>2. rows \in PlaceSets /\ "rmwt" \in Operations
      BY <2>1 DEF PlaceSets, Operations, GitOps
    <2>3. Send({q}, TRUE) BY <1>1 DEF ConfirmRemoveWorktree
    <2>4. r \in Requests /\ r.op = "rmwt" /\ r.w = popup.w
      <3> HIDE DEF path, rows
      <3> QED BY <1>0, <1>1, <2>1, <2>2, RequestIs
    <2> HIDE DEF r
    <2>5. q \in Requests /\ q.op = "rmwt" /\ q.w = popup.w
      <3> DEFINE slug == popup.asked[1]
                 asked == popup.asked
      <3>1. slug \in Nat /\ asked \in Asked BY <2>1
      <3>2. q = [r EXCEPT !.asked = asked, !.slug = slug] OBVIOUS
      <3> HIDE DEF slug, asked, q
      <3>3. q \in Requests /\ q.op = r.op /\ q.w = r.w BY <2>4, <3>1, <3>2 DEF Requests
      <3> QED BY <2>4, <3>3
    <2> HIDE DEF q
    <2> QED BY <1>0, <2>1, <2>3, <2>5, SendOne
  <1>2. CASE popup.p \notin DOMAIN projects
    <2>1. pending_op' = TRUE /\ inflight' = inflight /\ issued' = issued
      BY <1>2 DEF ConfirmRemoveWorktree
    <2> QED BY <1>0, <2>1 DEF RequestTypes
  <1> QED BY <1>1, <1>2

\* The removal of a project names its rows.
LEMMA ProjectRemoveTypes ==
  ASSUME Types, NEW p \in Nat, NEW delete \in Deletes, RequestProjectRemove(p, delete),
         UNCHANGED connected
  PROVE  RequestTypes' /\ issued <= issued'
  <1>0. projects \in Seq(Project) /\ issued \in Nat /\ RequestTypes
    BY DEF Types, TreeTypes, RequestTypes
  <1>1. CASE pending_op \/ p \notin DOMAIN projects
    <2>1. UNCHANGED reqVars BY <1>1 DEF RequestProjectRemove
    <2> QED BY <1>0, <2>1 DEF RequestTypes, reqVars
  <1>2. CASE ~(pending_op \/ p \notin DOMAIN projects)
    <2> DEFINE path == <<projects[p].repo, 0>>
               r == Request("rmproj", p, 0, path, Rows(p))
               q == [r EXCEPT !.opt = delete]
    <2>1. path \in Paths /\ Rows(p) \in PlaceSets BY <1>0, <1>2, ProjectHas, RowsAre
    <2>2. "rmproj" \in Operations BY DEF Operations, GitOps
    <2>3. Send({q}, TRUE) BY <1>2 DEF RequestProjectRemove
    <2>4. r \in Requests /\ r.op = "rmproj"
      <3> HIDE DEF path
      <3> QED BY <1>0, <1>2, <2>1, <2>2, RequestIs
    <2> HIDE DEF r
    <2>5. delete \in {"none", "import", "linked", "main"} BY DEF Deletes
    <2>6. q \in Requests /\ q.op = "rmproj" BY <2>4, <2>5, AmendedOption
    <2> HIDE DEF q
    <2> QED BY <1>0, <2>3, <2>6, SendOne
  <1> QED BY <1>1, <1>2

\* The opening of a project names a repository.
LEMMA OpenTypes ==
  ASSUME Types, NEW repo \in Repos, NEW import \in {"none", "import"}, OpenProject(repo, import)
  PROVE  RequestTypes' /\ issued <= issued'
  <1> DEFINE r == [n |-> issued + 1, op |-> "open", sup |-> Host[repo], p |-> 0, w |-> 0,
                   slug |-> 0, path |-> <<repo, 0>>, rows |-> {}, opt |-> import,
                   done |-> "no", found |-> {}, asked |-> None]
  <1>0. UNCHANGED connected /\ issued \in Nat /\ RequestTypes
    BY DEF OpenProject, linkVars, Types, RequestTypes
  <1>1. Send({r}, TRUE) BY DEF OpenProject
  <1>2. Host[repo] \in Sups /\ <<repo, 0>> \in Paths BY HostAssumption DEF Paths
  <1>3. r \in Requests BY <1>0, <1>2 DEF Requests, GitOps, Asked
  <1>4. r.op = "open" OBVIOUS
  <1> HIDE DEF r
  <1> QED BY <1>0, <1>1, <1>3, <1>4, SendOne

\* The poll sends as many requests as there are projects to ask about.
LEMMA PollTypes ==
  ASSUME Types, PeriodicPrCheck
  PROVE  RequestTypes' /\ issued <= issued'
  <1>0. /\ UNCHANGED connected /\ projects \in Seq(Project) /\ issued \in Nat /\ RequestTypes
        /\ pending_op \in BOOLEAN
    BY DEF PeriodicPrCheck, linkVars, Types, TreeTypes, RequestTypes
  <1> DEFINE due == {p \in DOMAIN projects : projects[p].gh}
             Nth(p) == Cardinality({q \in due : q <= p})
             Ask(p) == [Request("fetch", p, 0, <<projects[p].repo, 0>>, Rows(p))
                          EXCEPT !.n = issued + Nth(p)]
             reqs == {Ask(p) : p \in due}
  <1>1. Send(reqs, pending_op) BY DEF PeriodicPrCheck
  <1>2. IsFiniteSet(due)
    <2>1. due \in SUBSET (1 .. Len(projects)) /\ Len(projects) \in Nat BY <1>0
    <2>2. IsFiniteSet(1 .. Len(projects)) BY <2>1, FS_Interval
    <2> HIDE DEF due
    <2> QED BY <2>1, <2>2, FS_Subset
  <1>3. ASSUME NEW p \in due PROVE Ask(p) \in Requests /\ Ask(p).op = "fetch"
    <2> DEFINE path == <<projects[p].repo, 0>>
               r == Request("fetch", p, 0, path, Rows(p))
               S == {q \in due : q <= p}
               n == issued + Nth(p)
    <2>1. p \in DOMAIN projects /\ path \in Paths /\ Rows(p) \in PlaceSets /\ p \in due
      BY <1>0, ProjectHas, RowsAre
    <2>2. "fetch" \in Operations BY DEF Operations
    <2>3. r \in Requests /\ r.op = "fetch"
      <3> HIDE DEF path
      <3> QED BY <1>0, <2>1, <2>2, RequestIs
    <2>4. n \in Nat \ {0}
      <3>1. S \in SUBSET due /\ S # {}
        <4>1. p \in Nat BY <1>0, <2>1
        <4>2. p \in S BY <4>1
        <4> QED BY <4>2
      <3>2. IsFiniteSet(S)
        <4> HIDE DEF S, due
        <4> QED BY <1>2, <3>1, FS_Subset
      <3>3. Cardinality(S) \in Nat \ {0}
        <4> HIDE DEF S, due
        <4> QED BY <3>1, <3>2, FS_EmptySet, FS_CardinalityType
      <3> QED BY <1>0, <3>3
    <2>5. Ask(p) = [r EXCEPT !.n = n] OBVIOUS
    <2> HIDE DEF r, n, Ask
    <2> QED BY <2>3, <2>4, <2>5, AmendedNumber
  <1>4. Cardinality(reqs) \in Nat
    <2> DEFINE f == [p \in due |-> Ask(p)]
    <2> HIDE DEF Ask, due
    <2>1. f \in Surjection(due, reqs) BY DEF Surjection
    <2> HIDE DEF f, reqs
    <2> QED BY <1>2, <2>1, FS_Surjection, FS_CardinalityType
  <1>5. Sendable(reqs)
    <2>1. \A r \in reqs : r \in Requests /\ r.op = "fetch"
      <3> HIDE DEF Ask, due
      <3> QED BY <1>3
    <2> HIDE DEF reqs
    <2> QED BY <1>4, <2>1 DEF Sendable
  <1> HIDE DEF reqs
  <1> QED BY <1>0, <1>1, <1>5, SendTypes

\* The requests keep their types while the user works.
LEMMA UserRequests ==
  ASSUME Types, ActiveIn, SelectedIn, UserStep
  PROVE  RequestTypes' /\ issued <= issued'
  <1>1. RequestTypes /\ issued \in Nat /\ projects \in Seq(Project) /\ pending_op \in BOOLEAN
    BY DEF Types, RequestTypes, TreeTypes
  <1>2. ASSUME UNCHANGED <<inflight, issued, pending_op, connected>>
        PROVE  RequestTypes' /\ issued <= issued'
    BY <1>1, <1>2 DEF RequestTypes
  <1>3. ASSUME NEW p \in DOMAIN projects, NEW w \in 0 .. Len(projects[p].wts), MoveSelection(p, w)
        PROVE  RequestTypes' /\ issued <= issued'
    BY <1>2, <1>3 DEF MoveSelection, reqVars, linkVars
  <1>4. ASSUME NEW p \in DOMAIN projects, NEW w \in 0 .. Len(projects[p].wts), ClickRow(p, w)
        PROVE  RequestTypes' /\ issued <= issued'
    <2>1. p \in Nat /\ w \in Nat BY <1>1
    <2>2. CASE Has(p, w)
      <3>1. ActivateWorktree(p, w) /\ UNCHANGED connected BY <1>4, <2>2 DEF ClickRow, linkVars
      <3> QED BY <2>1, <3>1, ActivateTypes
    <2>3. CASE ~Has(p, w) BY <1>2, <1>4, <2>3 DEF ClickRow, reqVars, linkVars
    <2> QED BY <2>2, <2>3
  <1>5. CASE ActivateSelection
    <2>1. sidebar_selection[1] \in Nat /\ sidebar_selection[2] \in Nat
      BY DEF Types, PointerTypes
    <2>2. /\ ActivateWorktree(sidebar_selection[1], sidebar_selection[2])
          /\ UNCHANGED connected
      BY <1>5 DEF ActivateSelection, linkVars
    <2> QED BY <2>1, <2>2, ActivateTypes
  <1>6. ASSUME NEW t \in 1 .. issued, SwitchTab(t) PROVE RequestTypes' /\ issued <= issued'
    BY <1>2, <1>6 DEF SwitchTab, reqVars, linkVars
  <1>7. CASE OpenNewTab
    <2>1. active_worktree[1] \in Nat /\ active_worktree[2] \in Nat BY DEF Types, PointerTypes
    <2>2. /\ Has(active_worktree[1], active_worktree[2])
          /\ Send({SpawnAt(active_worktree[1], active_worktree[2])}, pending_op)
          /\ UNCHANGED connected
      BY <1>7 DEF OpenNewTab, linkVars
    <2> QED BY <2>1, <2>2, SpawnTypes
  <1>8. CASE CloseTab BY <1>2, <1>8 DEF CloseTab, reqVars, linkVars
  <1>9. CASE OpenLauncher BY <1>2, <1>9 DEF OpenLauncher, reqVars, linkVars
  <1>10. CASE Launch
    <2>1. popup.p \in Nat /\ popup.w \in Nat BY DEF Types, PopupTypes
    <2>2. CASE Has(popup.p, popup.w)
      <3>1. Send({SpawnAt(popup.p, popup.w)}, pending_op) /\ UNCHANGED connected
        BY <1>10, <2>2 DEF Launch, linkVars
      <3> QED BY <2>1, <2>2, <3>1, SpawnTypes
    <2>3. CASE ~Has(popup.p, popup.w) BY <1>2, <1>10, <2>3 DEF Launch, reqVars, linkVars
    <2> QED BY <2>2, <2>3
  <1>11. CASE CancelPrompt BY <1>2, <1>11 DEF CancelPrompt, reqVars, linkVars
  <1>12. ASSUME NEW b \in Branches, AddWorktree(b) PROVE RequestTypes' /\ issued <= issued'
    <2>1. SelectedProject \in DOMAIN projects BY <1>12, SelectedIs DEF AddWorktree
    <2>2. RequestAdd(SelectedProject, b) /\ UNCHANGED connected
      BY <1>12 DEF AddWorktree, linkVars
    <2> QED BY <2>1, <2>2, AddTypes
  <1>13. ASSUME NEW b \in Branches, SubmitBranch(b) PROVE RequestTypes' /\ issued <= issued'
    <2>1. CASE popup.p \in DOMAIN projects
      <3>1. RequestAdd(popup.p, b) /\ UNCHANGED connected
        BY <1>13, <2>1 DEF SubmitBranch, linkVars
      <3> QED BY <2>1, <3>1, AddTypes
    <2>2. CASE popup.p \notin DOMAIN projects
      BY <1>2, <1>13, <2>2 DEF SubmitBranch, reqVars, linkVars
    <2> QED BY <2>1, <2>2
  <1>14. CASE AskBranch BY <1>2, <1>14 DEF AskBranch, reqVars, linkVars
  <1>15. CASE ImportWorktrees BY <1>15, ImportTypes
  <1>16. CASE AskRemoveWorktree BY <1>2, <1>16 DEF AskRemoveWorktree, reqVars, linkVars
  <1>17. CASE ConfirmRemoveWorktree BY <1>17, ConfirmTypes
  <1>18. CASE AskRemoveProject BY <1>2, <1>18 DEF AskRemoveProject, reqVars, linkVars
  <1>19. ASSUME NEW delete \in Deletes, RemoveProject(delete)
         PROVE  RequestTypes' /\ issued <= issued'
    <2>1. SelectedProject \in DOMAIN projects BY <1>19, SelectedIs DEF RemoveProject
    <2>2. RequestProjectRemove(SelectedProject, delete) /\ UNCHANGED connected
      BY <1>19 DEF RemoveProject, linkVars
    <2>3. SelectedProject \in Nat BY <1>1, <2>1
    <2> QED BY <2>2, <2>3, ProjectRemoveTypes
  <1>20. ASSUME NEW delete \in Deletes, ConfirmRemoveProject(delete)
         PROVE  RequestTypes' /\ issued <= issued'
    <2>1. RequestProjectRemove(popup.p, delete) /\ UNCHANGED connected /\ popup.p \in Nat
      BY <1>20 DEF ConfirmRemoveProject, linkVars, Types, PopupTypes
    <2> QED BY <2>1, ProjectRemoveTypes
  <1>21. ASSUME NEW repo \in Repos, NEW import \in {"none", "import"}, OpenProject(repo, import)
         PROVE  RequestTypes' /\ issued <= issued'
    BY <1>21, OpenTypes
  <1>22. CASE PeriodicPrCheck BY <1>22, PollTypes
  <1> QED
    BY <1>3, <1>4, <1>5, <1>6, <1>7, <1>8, <1>9, <1>10, <1>11, <1>12, <1>13, <1>14, <1>15,
       <1>16, <1>17, <1>18, <1>19, <1>20, <1>21, <1>22 DEF UserStep

\* A reply that asks for nothing more.
LEMMA AnsweredTypes ==
  ASSUME RequestTypes, NEW r, NEW pending \in BOOLEAN, UNCHANGED connected,
         Answer(r, {}, pending)
  PROVE  RequestTypes' /\ issued <= issued'
  BY NoneSendable, AnswerTypes

\* The follow-ups of a project that was opened and of a worktree that was added.
LEMMA ValidatedTypes ==
  ASSUME Types, NEW r \in inflight, ProjectValidated(r)
  PROVE  RequestTypes' /\ issued <= issued'
  <1> DEFINE n == issued + 1
             p == Len(projects) + 1
             slug == ComputeSlug
             asked == <<ComputeSlug, r.path>>
             q == [r EXCEPT !.n = n, !.op = "import", !.p = p, !.opt = "none",
                            !.slug = slug, !.done = "no", !.asked = asked]
  <1>1. RequestTypes /\ UNCHANGED connected /\ r \in Requests /\ projects \in Seq(Project)
        /\ issued \in Nat
    BY DEF ProjectValidated, linkVars, Types, RequestTypes, TreeTypes
  <1>2. Answer(r, IF r.opt = "import" THEN {q} ELSE {}, r.opt = "import")
    BY DEF ProjectValidated
  <1>3. slug \in Nat \ {0} BY <1>1, ComputeSlugIs
  <1>4. n \in Nat \ {0} /\ p \in Nat /\ asked \in Asked
    <2>1. r.path \in Paths BY <1>1 DEF Requests
    <2> QED BY <1>1, <1>3, <2>1 DEF Asked
  <1>5. q \in Requests /\ q.op = "import"
    <2>1. /\ q = [r EXCEPT !.n = n, !.op = "import", !.p = p, !.opt = "none",
                            !.slug = slug, !.done = "no", !.asked = asked]
          /\ slug \in Nat /\ r \in Requests
      BY <1>1, <1>3
    <2> HIDE DEF n, p, slug, asked, q
    <2> QED BY <1>4, <2>1 DEF Requests, GitOps
  <1> HIDE DEF q
  <1>6. Sendable({q}) BY <1>1, <1>5, OneSendable
  <1>7. CASE r.opt = "import" BY <1>1, <1>2, <1>6, <1>7, AnswerTypes
  <1>8. CASE r.opt # "import" BY <1>1, <1>2, <1>8, AnsweredTypes
  <1> QED BY <1>7, <1>8

\* The shell of a worktree that was added.
LEMMA AddedTypes ==
  ASSUME Types, NEW r \in inflight, WorktreeAdded(r)
  PROVE  RequestTypes' /\ issued <= issued'
  <1>1. RequestTypes /\ UNCHANGED connected /\ r \in Requests /\ projects \in Seq(Project)
        /\ issued \in Nat
    BY DEF WorktreeAdded, linkVars, Types, RequestTypes, TreeTypes
  <1>2. CASE r.p \in DOMAIN projects
    <2> DEFINE p == r.p
               w == Len(projects[p].wts) + 1
               path == r.path
               rows == {<<w, r.path>>}
               asked == <<projects[p].slug, r.path>>
               s == Request("spawn", p, w, path, rows)
               q == [s EXCEPT !.asked = asked]
    <2>1. Answer(r, {q}, FALSE) BY <1>2 DEF WorktreeAdded
    <2>2. path \in Paths BY <1>1 DEF Requests
    <2>3. /\ projects[p].slug \in Nat \ {0} /\ projects[p].wts \in Seq(Worktree)
          /\ p \in DOMAIN projects
      BY <1>1, <1>2, ProjectHas
    <2>4. w \in Nat /\ asked \in Asked BY <2>2, <2>3 DEF Asked
    <2>5. rows \in PlaceSets /\ "spawn" \in Operations
      BY <2>2, <2>4 DEF PlaceSets, Operations
    <2>6. s \in Requests /\ s.op = "spawn" /\ s.n = issued + 1
      <3> HIDE DEF p, w, path, rows
      <3> QED BY <1>1, <2>2, <2>3, <2>4, <2>5, RequestIs
    <2>7. q \in Requests /\ q.n = issued + 1 /\ q.op = "spawn"
      <3> HIDE DEF s, asked
      <3> QED BY <2>4, <2>6, AmendedPurpose
    <2> HIDE DEF q
    <2>8. Sendable({q}) BY <1>1, <2>7, OneSendable
    <2> QED BY <1>1, <2>1, <2>8, AnswerTypes
  <1>3. CASE r.p \notin DOMAIN projects
    <2>1. Answer(r, {}, FALSE) BY <1>3 DEF WorktreeAdded
    <2> QED BY <1>1, <2>1, AnsweredTypes
  <1> QED BY <1>2, <1>3

\* The requests keep their types when a reply is applied.
LEMMA AppliedRequests ==
  ASSUME Types, NEW r \in inflight, Applied(r)
  PROVE  RequestTypes' /\ issued <= issued'
  <1>1. RequestTypes /\ pending_op \in BOOLEAN BY DEF Types, RequestTypes
  <1>2. CASE SessionSpawned(r)
    <2>1. Answer(r, {}, pending_op) /\ UNCHANGED connected BY <1>2 DEF SessionSpawned, linkVars
    <2> QED BY <1>1, <2>1, AnsweredTypes
  <1>3. CASE ProjectValidated(r) BY <1>3, ValidatedTypes
  <1>4. CASE WorktreesImported(r)
    <2>1. Answer(r, {}, FALSE) /\ UNCHANGED connected BY <1>4 DEF WorktreesImported, linkVars
    <2> QED BY <1>1, <2>1, AnsweredTypes
  <1>5. CASE WorktreeAdded(r) BY <1>5, AddedTypes
  <1>6. CASE WorktreeRemoved(r)
    <2>1. Answer(r, {}, FALSE) /\ UNCHANGED connected BY <1>6 DEF WorktreeRemoved, linkVars
    <2> QED BY <1>1, <2>1, AnsweredTypes
  <1>7. CASE ProjectRemoved(r)
    <2>1. Answer(r, {}, FALSE) /\ UNCHANGED connected BY <1>7 DEF ProjectRemoved, linkVars
    <2> QED BY <1>1, <2>1, AnsweredTypes
  <1>8. CASE OperationFailed(r)
    <2>1. Answer(r, {}, FALSE) /\ UNCHANGED connected BY <1>8 DEF OperationFailed, linkVars
    <2> QED BY <1>1, <2>1, AnsweredTypes
  <1>9. CASE PrFetchFailed(r)
    <2>1. Answer(r, {}, pending_op) /\ UNCHANGED connected BY <1>9 DEF PrFetchFailed, linkVars
    <2> QED BY <1>1, <2>1, AnsweredTypes
  <1>10. ASSUME NEW hit \in SUBSET r.rows, PrStatusesFetched(r, hit)
         PROVE  RequestTypes' /\ issued <= issued'
    <2>1. Answer(r, {}, pending_op) /\ UNCHANGED connected
      BY <1>10 DEF PrStatusesFetched, linkVars
    <2> QED BY <1>1, <2>1, AnsweredTypes
  <1> QED BY <1>2, <1>3, <1>4, <1>5, <1>6, <1>7, <1>8, <1>9, <1>10 DEF Applied

\* A supervisor that handles a request keeps it one.
LEMMA HandledTypes ==
  ASSUME Types, NEW r \in inflight, NEW ok \in BOOLEAN, Handle(r, ok)
  PROVE  RequestTypes' /\ issued <= issued'
  <1>1. /\ RequestTypes /\ r \in Requests /\ UNCHANGED <<connected, issued, pending_op>>
        /\ git \subseteq Paths
    BY DEF Handle, linkVars, Types, RequestTypes, ShellTypes
  <1> DEFINE done == IF ok THEN "ok" ELSE "fail"
             found == IF ok /\ r.op = "import" THEN {x \in git : x[1] = r.path[1]} ELSE {}
             q == [r EXCEPT !.done = done, !.found = found]
  <1>2. inflight' = (inflight \ {r}) \cup {q} BY DEF Handle
  <1>3. done \in {"ok", "fail"} /\ found \in SUBSET Paths BY <1>1
  <1>4. q \in Requests /\ q.op = r.op /\ q.n = r.n /\ q.sup = r.sup /\ q.w = r.w
    <2>1. q = [r EXCEPT !.done = done, !.found = found] /\ r \in Requests BY <1>1
    <2> HIDE DEF done, found, q
    <2> QED BY <1>3, <2>1 DEF Requests
  <1> HIDE DEF q
  <1> QED BY <1>1, <1>2, <1>4 DEF RequestTypes

\* The requests keep their types when a supervisor acts or goes and comes back.
LEMMA OtherRequests ==
  ASSUME Types, SupervisorStep \/ LinkStep \/ \E s \in exited : SessionExited(s)
  PROVE  RequestTypes' /\ issued <= issued'
  <1>1. RequestTypes /\ issued \in Nat BY DEF Types, RequestTypes
  <1>2. ASSUME NEW r \in inflight, NEW ok \in BOOLEAN, Handle(r, ok)
        PROVE  RequestTypes' /\ issued <= issued'
    BY <1>2, HandledTypes
  <1>3. ASSUME NEW s \in live, ShellExits(s) PROVE RequestTypes' /\ issued <= issued'
    BY <1>1, <1>3 DEF ShellExits, reqVars, linkVars, RequestTypes
  <1>4. ASSUME NEW s \in exited, SessionExited(s) PROVE RequestTypes' /\ issued <= issued'
    BY <1>1, <1>4 DEF SessionExited, reqVars, linkVars, RequestTypes
  <1>5. ASSUME NEW sup, SupervisorLost(sup) PROVE RequestTypes' /\ issued <= issued'
    <2>1. /\ inflight' = {r \in inflight : r.sup # sup} /\ connected' = connected \ {sup}
          /\ UNCHANGED <<issued, pending_op>>
      BY <1>5 DEF SupervisorLost
    <2> QED BY <1>1, <2>1 DEF RequestTypes
  <1>6. ASSUME NEW sup, SupervisorConnected(sup) PROVE RequestTypes' /\ issued <= issued'
    <2>1. UNCHANGED <<inflight, issued, pending_op>> /\ connected' = connected \cup {sup}
      BY <1>6 DEF SupervisorConnected, reqVars
    <2> QED BY <1>1, <2>1 DEF RequestTypes
  <1> QED BY <1>2, <1>3, <1>4, <1>5, <1>6 DEF SupervisorStep, LinkStep

\* The requests keep their types in every step.
LEMMA RequestsKept ==
  ASSUME Types, ActiveIn, SelectedIn, Next
  PROVE  RequestTypes' /\ issued <= issued'
  BY UserRequests, AppliedRequests, OtherRequests DEF Next

-----------------------------------------------------------------------------
(* Prompts, shells, links and history *)

\* What no key and no click touches.
LEMMA UserLeaves ==
  ASSUME UserStep
  PROVE  UNCHANGED <<linkVars, git, exited, saved, pr_statuses>> /\ Track
  BY DEF UserStep, MoveSelection, ClickRow, ActivateSelection, SwitchTab, OpenNewTab, CloseTab,
         OpenLauncher, Launch, CancelPrompt, AddWorktree, SubmitBranch, AskBranch,
         ImportWorktrees, AskRemoveWorktree, ConfirmRemoveWorktree, AskRemoveProject,
         RemoveProject, ConfirmRemoveProject, OpenProject, PeriodicPrCheck,
         uiVars, treeVars, supVars

\* The shells a key or a click leaves.
LEMMA UserLive ==
  ASSUME UserStep
  PROVE  live' \subseteq live
  BY DEF UserStep, MoveSelection, ClickRow, ActivateSelection, SwitchTab, OpenNewTab, CloseTab,
         OpenLauncher, Launch, CancelPrompt, AddWorktree, SubmitBranch, AskBranch,
         ImportWorktrees, AskRemoveWorktree, ConfirmRemoveWorktree, AskRemoveProject,
         RemoveProject, ConfirmRemoveProject, OpenProject, PeriodicPrCheck,
         supVars

\* What a key or a click records.
LEMMA UserHistory ==
  ASSUME UserStep
  PROVE  misled' \subseteq misled \cup {"launch", "worktree", "project"}
  BY DEF UserStep, MoveSelection, ClickRow, ActivateSelection, SwitchTab, OpenNewTab, CloseTab,
         OpenLauncher, Launch, CancelPrompt, AddWorktree, SubmitBranch, AskBranch,
         ImportWorktrees, AskRemoveWorktree, ConfirmRemoveWorktree, AskRemoveProject,
         RemoveProject, ConfirmRemoveProject, OpenProject, PeriodicPrCheck, Landed

\* The prompts that can be opened.
PromptKinds == {"none", "confirm", "launch", "worktree", "project"}
\* A prompt that names a row that exists has its type.
LEMMA PromptIs ==
  ASSUME Types, NEW p \in Nat, NEW w \in Nat, NEW kind \in PromptKinds,
         kind = "confirm" => Has(p, w), popup' = Prompt(kind, p, w)
  PROVE  PopupTypes'
  <1>1. Denotes(p, w) \in Asked /\ (kind = "confirm" => Denotes(p, w) # None /\ w # 0)
    <2>1. projects \in Seq(Project) BY DEF Types, TreeTypes
    <2>2. ASSUME kind = "confirm" PROVE Denotes(p, w) # None /\ w # 0
      <3>1. Denotes(p, w) = <<projects[p].slug, projects[p].wts[w].path>>
            /\ projects[p].slug # 0 /\ w # 0
        BY <2>1, <2>2, DenotesIs, ProjectHas, RowsAre DEF Has
      <3> QED BY <3>1 DEF None
    <2> QED BY <2>1, <2>2, DenotesIs
  <1>2. popup' = [k |-> kind, p |-> p, w |-> w, asked |-> Denotes(p, w)] BY DEF Prompt
  <1>3. kind \in {"none", "confirm", "launch", "worktree", "project"} BY DEF PromptKinds
  <1> DEFINE d == Denotes(p, w)
  <1>4. popup' = [k |-> kind, p |-> p, w |-> w, asked |-> d]
        /\ d \in Asked /\ (kind = "confirm" => d # None /\ w # 0)
    BY <1>1, <1>2
  <1> HIDE DEF d
  <1> QED BY <1>3, <1>4 DEF PopupTypes

\* No prompt, or the prompt that was open.
LEMMA PromptGone ==
  ASSUME Types, popup' = popup \/ popup' = NoPopup
  PROVE  PopupTypes'
  BY DEF Types, PopupTypes, NoPopup, Asked

\* The prompt keeps its type while the user works.
LEMMA UserPopup ==
  ASSUME Types, ActiveIn, SelectedIn, UserStep
  PROVE  PopupTypes'
  <1>1. \/ popup' = popup \/ popup' = NoPopup
        \/ OpenLauncher \/ AskBranch \/ AskRemoveWorktree \/ AskRemoveProject
    BY DEF UserStep, MoveSelection, ClickRow, ActivateSelection, SwitchTab, OpenNewTab, CloseTab,
         OpenLauncher, Launch, CancelPrompt, AddWorktree, SubmitBranch, AskBranch,
         ImportWorktrees, AskRemoveWorktree, ConfirmRemoveWorktree, AskRemoveProject,
         RemoveProject, ConfirmRemoveProject, OpenProject, PeriodicPrCheck, uiVars
  <1>2. CASE OpenLauncher
    <2>1. active_worktree[1] \in Nat /\ active_worktree[2] \in Nat BY DEF Types, PointerTypes
    <2>2. popup' = Prompt("launch", active_worktree[1], active_worktree[2])
      BY <1>2 DEF OpenLauncher
    <2>3. "launch" \in PromptKinds BY DEF PromptKinds
    <2> QED BY <2>1, <2>2, <2>3, PromptIs
  <1>3. CASE AskBranch
    <2>1. SelectedProject \in Nat BY <1>3, SelectedIs DEF AskBranch, Types, TreeTypes
    <2>2. popup' = Prompt("worktree", SelectedProject, 0) BY <1>3 DEF AskBranch
    <2>3. "worktree" \in PromptKinds BY DEF PromptKinds
    <2> QED BY <2>1, <2>2, <2>3, PromptIs
  <1>4. CASE AskRemoveProject
    <2>1. SelectedProject \in Nat BY <1>4, SelectedIs DEF AskRemoveProject, Types, TreeTypes
    <2>2. popup' = Prompt("project", SelectedProject, 0) BY <1>4 DEF AskRemoveProject
    <2>3. "project" \in PromptKinds BY DEF PromptKinds
    <2> QED BY <2>1, <2>2, <2>3, PromptIs
  <1>5. CASE AskRemoveWorktree
    <2>1. sidebar_selection[1] \in Nat /\ sidebar_selection[2] \in Nat
      BY DEF Types, PointerTypes
    <2>2. /\ popup' = Prompt("confirm", sidebar_selection[1], sidebar_selection[2])
          /\ Has(sidebar_selection[1], sidebar_selection[2])
      BY <1>5 DEF AskRemoveWorktree
    <2>3. "confirm" \in PromptKinds BY DEF PromptKinds
    <2> QED BY <2>1, <2>2, <2>3, PromptIs
  <1> QED BY <1>1, <1>2, <1>3, <1>4, <1>5, PromptGone

\* What a reply leaves.
LEMMA AppliedLeaves ==
  ASSUME NEW r \in inflight, Applied(r)
  PROVE  UNCHANGED <<linkVars, git, exited, popup>> /\ Track /\ live' \subseteq live
  BY DEF Applied, SessionSpawned, ProjectValidated, WorktreesImported, WorktreeAdded,
         WorktreeRemoved, ProjectRemoved, OperationFailed, PrFetchFailed, PrStatusesFetched,
         uiVars, supVars

\* What a reply records.
LEMMA AppliedHistory ==
  ASSUME NEW r \in inflight, Applied(r)
  PROVE  misled' \subseteq misled \cup {"spawn", "orphan", "import", "add", "rmwt", "rmproj",
                                        "fetch"}
  BY DEF Applied, SessionSpawned, ProjectValidated, WorktreesImported, WorktreeAdded,
         WorktreeRemoved, ProjectRemoved, OperationFailed, PrFetchFailed, PrStatusesFetched,
         Landed

\* What a supervisor or a link leaves.
LEMMA OtherLeaves ==
  ASSUME SupervisorStep \/ LinkStep \/ \E s \in exited : SessionExited(s)
  PROVE  UNCHANGED <<popup, saved, misled, sidebar_selection, pr_statuses>> /\ Track
  BY DEF SupervisorStep, LinkStep, Handle, ShellExits, SessionExited, SupervisorLost,
         SupervisorConnected, uiVars, treeVars

\* The history keeps its types.
LEMMA HistoryKept ==
  ASSUME Types, Next
  PROVE  HistoryTypes'
  <1>1. Track BY UserLeaves, AppliedLeaves, OtherLeaves DEF Next
  <1>2. crossed' \in BOOLEAN
    <2>1. crossed \in BOOLEAN /\ Crossing \in BOOLEAN BY DEF Types, HistoryTypes, Crossing
    <2>2. crossed' = (crossed \/ Crossing) BY <1>1 DEF Track
    <2> QED BY <2>1, <2>2
  <1>3. outdated' \in BOOLEAN BY <1>1 DEF Types, HistoryTypes, Track, Outdated
  <1>4. misled' \subseteq misled \cup {"spawn", "orphan", "import", "add", "rmwt", "rmproj",
                                       "fetch", "launch", "worktree", "project"}
    <2>1. UserStep => misled' \subseteq misled \cup {"launch", "worktree", "project"}
      BY UserHistory
    <2>2. (\E r \in inflight : Applied(r)) =>
            misled' \subseteq misled \cup {"spawn", "orphan", "import", "add", "rmwt", "rmproj",
                                           "fetch"}
      BY AppliedHistory
    <2>3. SupervisorStep \/ LinkStep \/ (\E s \in exited : SessionExited(s)) => misled' = misled
      BY OtherLeaves
    <2> QED BY <2>1, <2>2, <2>3 DEF Next
  <1>5. scattered' \in BOOLEAN
    <2> DEFINE now == \E r \in inflight \ inflight' : Scatters(r)
    <2>1. scattered \in BOOLEAN /\ now \in BOOLEAN BY DEF Types, HistoryTypes
    <2>2. scattered' = (scattered \/ now) BY <1>1 DEF Track
    <2> HIDE DEF now
    <2> QED BY <2>1, <2>2
  <1> QED BY <1>2, <1>3, <1>4, <1>5 DEF Types, HistoryTypes

\* The prompt keeps its type.
LEMMA PopupKept ==
  ASSUME Types, ActiveIn, SelectedIn, Next
  PROVE  PopupTypes'
  BY UserPopup, PromptGone, AppliedLeaves, OtherLeaves DEF Next

\* The links keep their types.
LEMMA LinksKept ==
  ASSUME Types, Next
  PROVE  LinkTypes'
  <1>1. LinkTypes BY DEF Types
  <1>2. CASE UNCHANGED linkVars BY <1>1, <1>2 DEF LinkTypes, linkVars
  <1>3. CASE LinkStep
    <2>1. PICK repo \in Repos : SupervisorLost(Host[repo]) \/ SupervisorConnected(Host[repo])
      BY <1>3 DEF LinkStep
    <2>2. Host[repo] \in Sups BY HostAssumption
    <2>3. CASE SupervisorLost(Host[repo])
      BY <1>1, <2>3, BoundsAssumption DEF SupervisorLost, LinkTypes
    <2>4. CASE SupervisorConnected(Host[repo])
      BY <1>1, <2>2, <2>4 DEF SupervisorConnected, LinkTypes
    <2> QED BY <2>1, <2>3, <2>4
  <1>4. SupervisorStep \/ (\E s \in exited : SessionExited(s)) => UNCHANGED linkVars
    BY DEF SupervisorStep, Handle, ShellExits, SessionExited
  <1> QED BY <1>2, <1>3, <1>4, UserLeaves, AppliedLeaves DEF Next

\* Shells that go, and shells whose end is noticed, leave the others of their types.
LEMMA FewerShells ==
  ASSUME ShellTypes, live' \subseteq live, exited' \subseteq exited \cup live,
         \A s \in exited' : s.sup \in connected', UNCHANGED git,
         issued \in Nat, issued' \in Nat, issued <= issued'
  PROVE  ShellTypes'
  <1>1. live' \subseteq Shells /\ exited' \subseteq {s \in Shells : s.sup \in connected'}
    BY DEF ShellTypes
  <1>2. git' \subseteq Paths BY DEF ShellTypes
  <1>3. ASSUME NEW s \in live' \cup exited' PROVE s.id <= issued'
    <2>1. s.id \in Nat /\ s.id <= issued BY DEF ShellTypes, Shells
    <2> QED BY <2>1
  <1>4. IsFiniteSet(live') BY FS_Subset DEF ShellTypes
  <1> QED BY <1>1, <1>2, <1>3, <1>4 DEF ShellTypes

\* The shells keep their types when a supervisor handles a request.
LEMMA HandledShells ==
  ASSUME Types, NEW r \in inflight, NEW ok \in BOOLEAN, Handle(r, ok)
  PROVE  ShellTypes'
  <1>1. /\ ShellTypes /\ r \in Requests /\ r.sup \in connected /\ UNCHANGED <<connected, issued>>
        /\ issued \in Nat
    BY DEF Handle, linkVars, Types, RequestTypes
  <1>2. r.op = "spawn" => r.n <= issued BY DEF Types, RequestTypes
  <1>3. PICK stopped \in SUBSET Stopped(r), gone \in SUBSET Deleted(r) :
          /\ live' = (live \ stopped) \cup
               (IF ok /\ r.op = "spawn"
                THEN {[id |-> r.n, sup |-> r.sup, path |-> r.path, slug |-> r.slug]} ELSE {})
          /\ exited' = exited \cup stopped
          /\ git' = IF ok /\ r.op = "add" THEN git \cup {r.path} ELSE git \ gone
    BY DEF Handle
  <1>4. \A s \in stopped : s \in live /\ s.sup = r.sup BY DEF Stopped
  <1> DEFINE new == [id |-> r.n, sup |-> r.sup, path |-> r.path, slug |-> r.slug]
  <1>5. new \in Shells /\ new.id = r.n /\ r.path \in Paths BY <1>1 DEF Requests, Shells
  <1>6. live' \subseteq live \cup {new} /\ (new \in live' => new \in live \/ r.op = "spawn")
    BY <1>3
  <1> HIDE DEF new
  <1>7. live' \subseteq Shells /\ exited' \subseteq {s \in Shells : s.sup \in connected'}
    BY <1>1, <1>3, <1>4, <1>5, <1>6 DEF ShellTypes
  <1>8. git' \subseteq Paths BY <1>1, <1>3, <1>5 DEF ShellTypes
  <1>9. \A s \in live' \cup exited' : s.id <= issued'
    BY <1>1, <1>2, <1>3, <1>4, <1>5, <1>6 DEF ShellTypes
  <1>10. IsFiniteSet(live')
    <2>1. IsFiniteSet(live \cup {new}) BY <1>1, FS_AddElement DEF ShellTypes
    <2> QED BY <1>6, <2>1, FS_Subset
  <1> QED BY <1>7, <1>8, <1>9, <1>10 DEF ShellTypes

\* The shells keep their types.
LEMMA ShellsKept ==
  ASSUME Types, ActiveIn, SelectedIn, Next
  PROVE  ShellTypes'
  <1>1. ShellTypes /\ issued \in Nat /\ issued' \in Nat /\ issued <= issued'
    BY RequestsKept DEF Types, RequestTypes
  <1>2. \A s \in exited : s.sup \in connected BY <1>1 DEF ShellTypes
  <1>3. CASE UserStep
    <2>1. UNCHANGED <<connected, exited, git>> /\ live' \subseteq live
      BY <1>3, UserLeaves, UserLive DEF linkVars
    <2> QED BY <1>1, <1>2, <2>1, FewerShells
  <1>4. ASSUME NEW r \in inflight, Applied(r) PROVE ShellTypes'
    <2>1. UNCHANGED <<connected, exited, git>> /\ live' \subseteq live
      BY <1>4, AppliedLeaves DEF linkVars
    <2> QED BY <1>1, <1>2, <2>1, FewerShells
  <1>5. ASSUME NEW r \in inflight, NEW ok \in BOOLEAN, Handle(r, ok) PROVE ShellTypes'
    BY <1>5, HandledShells
  <1>6. ASSUME NEW s \in live, ShellExits(s) PROVE ShellTypes'
    <2>1. UNCHANGED <<connected, git>> /\ live' \subseteq live
          /\ exited' \subseteq exited \cup {s} /\ (exited' # exited => s.sup \in connected)
      BY <1>6 DEF ShellExits, linkVars
    <2> QED BY <1>1, <1>2, <2>1, FewerShells
  <1>7. ASSUME NEW s \in exited, SessionExited(s) PROVE ShellTypes'
    <2>1. UNCHANGED <<connected, live, git>> /\ exited' \subseteq exited
      BY <1>7 DEF SessionExited, linkVars
    <2> QED BY <1>1, <1>2, <2>1, FewerShells
  <1>8. ASSUME NEW sup, SupervisorLost(sup) PROVE ShellTypes'
    <2>1. /\ UNCHANGED <<live, git>> /\ exited' = {s \in exited : s.sup # sup}
          /\ connected' = connected \ {sup}
      BY <1>8 DEF SupervisorLost
    <2> QED BY <1>1, <1>2, <2>1, FewerShells
  <1>9. ASSUME NEW sup, SupervisorConnected(sup) PROVE ShellTypes'
    <2>1. /\ UNCHANGED <<exited, git>> /\ live' \subseteq live
          /\ connected' = connected \cup {sup}
      BY <1>9 DEF SupervisorConnected
    <2> QED BY <1>1, <1>2, <2>1, FewerShells
  <1> QED BY <1>3, <1>4, <1>5, <1>6, <1>7, <1>8, <1>9 DEF Next, SupervisorStep, LinkStep

-----------------------------------------------------------------------------
(* Trees *)

\* Two trees have the same projects and rows, whatever their tabs.
SameShape(ps, qs) ==
  /\ DOMAIN qs = DOMAIN ps
  /\ \A p \in DOMAIN ps :
       /\ qs[p].slug = ps[p].slug /\ qs[p].repo = ps[p].repo /\ qs[p].sup = ps[p].sup
       /\ DOMAIN qs[p].wts = DOMAIN ps[p].wts
       /\ \A w \in DOMAIN ps[p].wts : qs[p].wts[w].path = ps[p].wts[w].path

\* Every row shows a tab exactly if it has one.
AllShown(ps) == \A p \in DOMAIN ps : \A w \in DOMAIN ps[p].wts : TabShown(ps[p].wts[w])

\* The worktrees of one project, or one of its rows, are replaced.
WithRows(ps, p, wts) == [ps EXCEPT ![p].wts = wts]
WithRow(ps, p, w, x) == [ps EXCEPT ![p].wts[w] = x]

\* What has the worktrees of one project replaced.
LEMMA WtsReplaced ==
  ASSUME NEW ps \in Seq(Project), NEW p \in DOMAIN ps, NEW wts \in Seq(Worktree),
         NEW qs, qs = WithRows(ps, p, wts)
  PROVE  /\ qs \in Seq(Project) /\ DOMAIN qs = DOMAIN ps /\ Len(qs) = Len(ps)
         /\ \A q \in DOMAIN ps : q # p => qs[q] = ps[q]
         /\ qs[p].slug = ps[p].slug /\ qs[p].repo = ps[p].repo /\ qs[p].sup = ps[p].sup
         /\ qs[p].wts = wts
  <1>1. ps[p] \in Project OBVIOUS
  <1> DEFINE new == [ps[p] EXCEPT !.wts = wts]
  <1>2. /\ new \in Project /\ new.slug = ps[p].slug /\ new.repo = ps[p].repo
        /\ new.sup = ps[p].sup /\ new.wts = wts
    BY <1>1 DEF Project
  <1>3. qs = [ps EXCEPT ![p] = new] BY DEF WithRows
  <1> HIDE DEF new
  <1>4. /\ qs \in Seq(Project) /\ DOMAIN qs = DOMAIN ps /\ Len(qs) = Len(ps) /\ qs[p] = new
        /\ \A q \in DOMAIN ps : q # p => qs[q] = ps[q]
    BY <1>2, <1>3
  <1> QED BY <1>2, <1>4

\* What has one row replaced.
LEMMA RowReplaced ==
  ASSUME NEW ps \in Seq(Project), NEW p \in DOMAIN ps, NEW w \in DOMAIN ps[p].wts,
         NEW x \in Worktree, NEW qs, qs = WithRow(ps, p, w, x)
  PROVE  /\ qs \in Seq(Project) /\ DOMAIN qs = DOMAIN ps
         /\ \A q \in DOMAIN ps : q # p => qs[q] = ps[q]
         /\ qs[p].slug = ps[p].slug /\ qs[p].repo = ps[p].repo /\ qs[p].sup = ps[p].sup
         /\ DOMAIN qs[p].wts = DOMAIN ps[p].wts
         /\ \A v \in DOMAIN ps[p].wts : v # w => qs[p].wts[v] = ps[p].wts[v]
         /\ qs[p].wts[w] = x
  <1>1. ps[p] \in Project OBVIOUS
  <1>2. ps[p].wts \in Seq(Worktree) BY <1>1 DEF Project
  <1> DEFINE wts == [ps[p].wts EXCEPT ![w] = x]
  <1>3. /\ wts \in Seq(Worktree) /\ DOMAIN wts = DOMAIN ps[p].wts /\ wts[w] = x
        /\ \A v \in DOMAIN ps[p].wts : v # w => wts[v] = ps[p].wts[v]
    BY <1>2
  <1>4. qs = WithRows(ps, p, wts) BY DEF WithRow, WithRows
  <1> HIDE DEF wts
  <1> QED BY <1>3, <1>4, WtsReplaced

\* One row gets other tabs, of which it shows one: nothing else is different.
LEMMA RowRetabbed ==
  ASSUME NEW ps \in Seq(Project), NEW p \in DOMAIN ps, NEW w \in DOMAIN ps[p].wts,
         NEW x \in Worktree, x.path = ps[p].wts[w].path, TabShown(x), AllShown(ps),
         NEW qs, qs = WithRow(ps, p, w, x)
  PROVE  qs \in Seq(Project) /\ SameShape(ps, qs) /\ AllShown(qs)
  <1>1. /\ qs \in Seq(Project) /\ DOMAIN qs = DOMAIN ps
        /\ \A q \in DOMAIN ps : q # p => qs[q] = ps[q]
        /\ qs[p].slug = ps[p].slug /\ qs[p].repo = ps[p].repo /\ qs[p].sup = ps[p].sup
        /\ DOMAIN qs[p].wts = DOMAIN ps[p].wts
        /\ \A v \in DOMAIN ps[p].wts : v # w => qs[p].wts[v] = ps[p].wts[v]
        /\ qs[p].wts[w] = x
    BY RowReplaced
  <1>2. SameShape(ps, qs) BY <1>1 DEF SameShape
  <1>3. AllShown(qs)
    <2> SUFFICES ASSUME NEW q \in DOMAIN qs, NEW v \in DOMAIN qs[q].wts
                 PROVE  TabShown(qs[q].wts[v])
      BY DEF AllShown
    <2>1. CASE q = p /\ v = w BY <1>1, <2>1
    <2>2. CASE ~(q = p /\ v = w)
      <3>1. v \in DOMAIN ps[q].wts /\ qs[q].wts[v] = ps[q].wts[v] BY <1>1, <2>2
      <3> QED BY <1>1, <3>1 DEF AllShown
    <2> QED BY <2>1, <2>2
  <1> QED BY <1>1, <1>2, <1>3

\* All rows are given other tabs.
Retabs(ps, F) ==
  \A p \in DOMAIN ps :
    /\ F[p] \in Seq(Worktree) /\ DOMAIN F[p] = DOMAIN ps[p].wts
    /\ \A w \in DOMAIN ps[p].wts : F[p][w].path = ps[p].wts[w].path /\ TabShown(F[p][w])
WithAllRows(ps, F) == [p \in DOMAIN ps |-> [ps[p] EXCEPT !.wts = F[p]]]

\* A tree whose rows are all given other tabs keeps its shape.
LEMMA AllRetabbed ==
  ASSUME NEW ps \in Seq(Project), NEW F, Retabs(ps, F), NEW qs, qs = WithAllRows(ps, F)
  PROVE  /\ qs \in Seq(Project) /\ SameShape(ps, qs) /\ AllShown(qs)
         /\ \A p \in DOMAIN ps : qs[p].wts = F[p]
  <1>1. ASSUME NEW p \in DOMAIN ps
        PROVE  /\ qs[p] \in Project /\ qs[p].slug = ps[p].slug /\ qs[p].repo = ps[p].repo
               /\ qs[p].sup = ps[p].sup /\ qs[p].wts = F[p]
    <2>1. ps[p] \in Project OBVIOUS
    <2>2. qs[p] = [ps[p] EXCEPT !.wts = F[p]] BY DEF WithAllRows
    <2>3. F[p] \in Seq(Worktree) BY DEF Retabs
    <2> QED BY <2>1, <2>2, <2>3 DEF Project
  <1>2. DOMAIN qs = DOMAIN ps BY DEF WithAllRows
  <1>3. qs \in Seq(Project)
    <2>1. Len(ps) \in Nat /\ DOMAIN ps = 1 .. Len(ps) OBVIOUS
    <2>2. qs = [p \in 1 .. Len(ps) |-> qs[p]] BY <2>1 DEF WithAllRows
    <2> QED BY <1>1, <1>2, <2>1, <2>2
  <1>4. SameShape(ps, qs) BY <1>1, <1>2 DEF SameShape, Retabs
  <1>5. AllShown(qs) BY <1>1, <1>2 DEF AllShown, Retabs
  <1> QED BY <1>1, <1>3, <1>4, <1>5

\* Tabs of a row: another one is shown, one is added, one is taken out.
LEMMA TabSelected ==
  ASSUME NEW wt \in Worktree, NEW t \in DOMAIN wt.tabs, NEW x, x = [wt EXCEPT !.tab = t]
  PROVE  x \in Worktree /\ x.path = wt.path /\ x.tabs = wt.tabs /\ TabShown(x)
  <1>1. t \in Nat BY DEF Worktree
  <1> QED BY <1>1 DEF Worktree, TabShown

\* A tab is added behind the others, and one is shown.
LEMMA TabAdded ==
  ASSUME NEW wt \in Worktree, NEW id \in Handles, NEW x, x = WithTab(wt, id)
  PROVE  x \in Worktree /\ x.path = wt.path /\ x.tabs = Append(wt.tabs, id) /\ TabShown(x)
  <1>1. wt.tabs \in Seq(Handles) BY DEF Worktree
  <1>2. x.tabs = Append(wt.tabs, id) /\ x.tab = Len(wt.tabs) + 1 /\ x.path = wt.path
    BY DEF WithTab, Worktree
  <1>3. Append(wt.tabs, id) \in Seq(Handles) /\ Len(wt.tabs) + 1 \in Nat
        /\ Len(wt.tabs) + 1 \in DOMAIN Append(wt.tabs, id)
    BY <1>1
  <1>4. x \in Worktree BY <1>3 DEF WithTab, Worktree
  <1> QED BY <1>2, <1>3, <1>4 DEF TabShown

\* What is left of a sequence when one element is taken out.
LEMMA RemovedAt ==
  ASSUME NEW S, NEW s \in Seq(S), NEW i \in DOMAIN s, NEW t, t = RemoveAt(s, i)
  PROVE  /\ t \in Seq(S) /\ Len(t) = Len(s) - 1
         /\ \A j \in 1 .. Len(t) : t[j] = IF j < i THEN s[j] ELSE s[j + 1]
  <1>1. t = SubSeq(s, 1, i - 1) \o SubSeq(s, i + 1, Len(s)) BY DEF RemoveAt
  <1>2. i \in 1 .. Len(s) /\ Len(s) \in Nat OBVIOUS
  <1>3. /\ SubSeq(s, 1, i - 1) \in Seq(S) /\ Len(SubSeq(s, 1, i - 1)) = i - 1
        /\ \A j \in 1 .. (i - 1) : SubSeq(s, 1, i - 1)[j] = s[j]
    BY <1>2
  <1>4. /\ SubSeq(s, i + 1, Len(s)) \in Seq(S) /\ Len(SubSeq(s, i + 1, Len(s))) = Len(s) - i
        /\ \A j \in 1 .. (Len(s) - i) : SubSeq(s, i + 1, Len(s))[j] = s[j + i]
    BY <1>2
  <1> DEFINE a == SubSeq(s, 1, i - 1)
             b == SubSeq(s, i + 1, Len(s))
  <1>5. /\ a \in Seq(S) /\ Len(a) = i - 1 /\ \A j \in 1 .. (i - 1) : a[j] = s[j]
        /\ b \in Seq(S) /\ Len(b) = Len(s) - i
        /\ \A j \in 1 .. (Len(s) - i) : b[j] = s[j + i]
        /\ t = a \o b
    BY <1>1, <1>3, <1>4
  <1> HIDE DEF a, b
  <1>6. t \in Seq(S) /\ Len(t) = Len(s) - 1 BY <1>2, <1>5
  <1>7. ASSUME NEW j \in 1 .. Len(t) PROVE t[j] = IF j < i THEN s[j] ELSE s[j + 1]
    <2>1. CASE j < i
      <3>1. j \in 1 .. (i - 1) BY <1>2, <2>1
      <3>2. t[j] = a[j] BY <1>2, <1>5, <3>1
      <3> QED BY <1>5, <2>1, <3>1, <3>2
    <2>2. CASE ~(j < i)
      <3>1. j - (i - 1) \in 1 .. (Len(s) - i) BY <1>2, <1>6, <2>2
      <3>2. t[j] = b[j - (i - 1)]
        <4>1. Len(a) = i - 1 /\ ~(j <= Len(a)) /\ j \in 1 .. (Len(a) + Len(b))
          BY <1>2, <1>5, <1>6, <2>2
        <4>2. a \in Seq(S) /\ b \in Seq(S) BY <1>5
        <4>3. (a \o b)[j] = b[j - Len(a)] BY <4>1, <4>2, ConcatProperties
        <4> QED BY <1>5, <4>1, <4>3
      <3>3. (j - (i - 1)) + i = j + 1 BY <1>2, <1>6
      <3> QED BY <1>5, <2>2, <3>1, <3>2, <3>3
    <2> QED BY <2>1, <2>2
  <1> QED BY <1>6, <1>7

\* A tab is taken out, and one is shown if one is left.
LEMMA TabRemoved ==
  ASSUME NEW wt \in Worktree, TabShown(wt), NEW at \in DOMAIN wt.tabs,
         NEW x, x = WithoutTab(wt, at)
  PROVE  x \in Worktree /\ x.path = wt.path /\ x.tabs = RemoveAt(wt.tabs, at) /\ TabShown(x)
  <1> DEFINE rest == RemoveAt(wt.tabs, at)
             tab == IF wt.tab > Len(rest) THEN Len(rest) ELSE wt.tab
  <1>1. wt.tabs \in Seq(Handles) /\ wt.tab \in Nat BY DEF Worktree
  <1>2. rest \in Seq(Handles) /\ Len(rest) = Len(wt.tabs) - 1 BY <1>1, RemovedAt
  <1>3. wt.tab # 0 BY <1>1 DEF TabShown
  <1>4. x = [wt EXCEPT !.tabs = rest, !.tab = tab] BY DEF WithoutTab
  <1>5. rest = RemoveAt(wt.tabs, at) /\ tab = IF wt.tab > Len(rest) THEN Len(rest) ELSE wt.tab
    OBVIOUS
  <1> HIDE DEF rest
  <1>6. tab \in Nat /\ tab \in 0 .. Len(rest) /\ (tab = 0 => Len(rest) = 0)
    BY <1>1, <1>2, <1>3
  <1> HIDE DEF tab
  <1>7. tab \in DOMAIN rest \/ (tab = 0 /\ rest = <<>>)
    <2>1. CASE tab = 0
      <3>1. rest \in Seq(Handles) /\ Len(rest) = 0 BY <1>2, <1>6, <2>1
      <3>2. rest = <<>> BY <3>1, EmptySeq
      <3> QED BY <2>1, <3>2
    <2>2. CASE tab # 0
      <3>1. DOMAIN rest = 1 .. Len(rest) /\ Len(rest) \in Nat BY <1>2
      <3>2. tab \in 1 .. Len(rest) BY <1>6, <2>2, <3>1
      <3> QED BY <3>1, <3>2
    <2> QED BY <2>1, <2>2
  <1>8. x.tabs = rest /\ x.tab = tab /\ x.path = wt.path BY <1>4 DEF Worktree
  <1>9. x \in Worktree BY <1>2, <1>4, <1>6 DEF Worktree
  <1> QED BY <1>5, <1>7, <1>8, <1>9 DEF TabShown

\* What a row has.
LEMMA RowHas ==
  ASSUME projects \in Seq(Project), NEW p, NEW w, Has(p, w)
  PROVE  /\ p \in DOMAIN projects /\ w \in DOMAIN projects[p].wts
         /\ projects[p].wts[w] \in Worktree /\ projects[p].wts[w].tabs \in Seq(Handles)
         /\ p \in Nat \ {0} /\ w \in Nat \ {0}
  <1>1. p \in DOMAIN projects /\ w \in DOMAIN projects[p].wts BY DEF Has
  <1>2. projects[p].wts \in Seq(Worktree) /\ projects[p].wts[w] \in Worktree
    BY <1>1, ProjectHas
  <1> QED BY SMTT(60), <1>1, <1>2 DEF Worktree

\* The shape of a tree is its own.
LEMMA ShapeReflexive ==
  ASSUME NEW ps
  PROVE  SameShape(ps, ps)
  BY DEF SameShape

-----------------------------------------------------------------------------
(* The tree *)

\* The tree has its type, and shows what it has.
Tree == projects \in Seq(Project) /\ AllShown(projects)
Redecorated == projects' \in Seq(Project) /\ AllShown(projects') /\ SameShape(projects, projects')

\* A row that is there, with its tabs as a new value has them.
LEMMA RedecoratedRow ==
  ASSUME Tree, NEW p, NEW w, Has(p, w), NEW x \in Worktree, x.path = projects[p].wts[w].path,
         TabShown(x), projects' = WithRow(projects, p, w, x)
  PROVE  Redecorated
  <1>1. projects \in Seq(Project) /\ AllShown(projects) BY DEF Tree
  <1>2. p \in DOMAIN projects /\ w \in DOMAIN projects[p].wts BY DEF Has
  <1> DEFINE ps == projects
             qs == projects'
  <1>3. /\ ps \in Seq(Project) /\ AllShown(ps) /\ p \in DOMAIN ps /\ w \in DOMAIN ps[p].wts
        /\ qs = WithRow(ps, p, w, x) /\ x.path = ps[p].wts[w].path
    BY <1>1, <1>2
  <1>4. qs \in Seq(Project) /\ SameShape(ps, qs) /\ AllShown(qs)
    <2> HIDE DEF ps, qs
    <2> QED BY <1>3, RowRetabbed
  <1> QED BY <1>4 DEF Redecorated

\* The tree as it was.
LEMMA TreeUnchanged ==
  ASSUME Tree, projects' = projects
  PROVE  Redecorated
  BY ShapeReflexive DEF Tree, Redecorated, AllShown

\* A worktree that becomes the active one shows a tab if it has one.
LEMMA ActivateTree ==
  ASSUME Tree, NEW p, NEW w, ActivateWorktree(p, w)
  PROVE  Redecorated
  <1>1. CASE Has(p, w) /\ projects[p].wts[w].tabs # <<>> /\ projects[p].wts[w].tab = 0
    <2> DEFINE wt == projects[p].wts[w]
               x == [wt EXCEPT !.tab = 1]
    <2>1. wt \in Worktree /\ wt.tabs \in Seq(Handles) BY <1>1, RowHas DEF Tree
    <2>2. 1 \in DOMAIN wt.tabs BY <1>1, <2>1, EmptySeq
    <2>3. projects' = WithRow(projects, p, w, x) BY <1>1 DEF ActivateWorktree, WithRow
    <2>4. x \in Worktree /\ x.path = wt.path /\ TabShown(x)
      <3>1. x = [wt EXCEPT !.tab = 1] OBVIOUS
      <3> HIDE DEF wt, x
      <3> QED BY <2>1, <2>2, <3>1, TabSelected
    <2> HIDE DEF x
    <2> QED BY <1>1, <2>3, <2>4, RedecoratedRow
  <1>2. CASE ~(Has(p, w) /\ projects[p].wts[w].tabs # <<>> /\ projects[p].wts[w].tab = 0)
    BY <1>2, TreeUnchanged DEF ActivateWorktree
  <1> QED BY <1>1, <1>2

\* A tab is brought to the front.
LEMMA SwitchTree ==
  ASSUME Tree, NEW t, SwitchTab(t)
  PROVE  Redecorated
  <1> DEFINE p == active_worktree[1]
             w == active_worktree[2]
             wt == projects[p].wts[w]
             x == [wt EXCEPT !.tab = t]
  <1>1. Has(p, w) /\ t \in DOMAIN wt.tabs BY DEF SwitchTab
  <1>2. wt \in Worktree BY <1>1, RowHas DEF Tree
  <1>3. projects' = WithRow(projects, p, w, x) BY DEF SwitchTab, WithRow
  <1>4. x \in Worktree /\ x.path = wt.path /\ TabShown(x)
    <2>1. x = [wt EXCEPT !.tab = t] OBVIOUS
    <2> HIDE DEF wt, x
    <2> QED BY <1>1, <1>2, <2>1, TabSelected
  <1>5. x.path = projects[p].wts[w].path BY <1>4
  <1> HIDE DEF p, w, x
  <1> QED BY <1>1, <1>3, <1>4, <1>5, RedecoratedRow

\* The tab that is shown is closed.
LEMMA CloseTree ==
  ASSUME Tree, CloseTab
  PROVE  Redecorated
  <1> DEFINE p == active_worktree[1]
             w == active_worktree[2]
             wt == projects[p].wts[w]
             x == WithoutTab(wt, wt.tab)
  <1>1. Has(p, w) /\ wt.tab \in DOMAIN wt.tabs BY DEF CloseTab
  <1>2. wt \in Worktree /\ TabShown(wt) BY <1>1, RowHas DEF Tree, AllShown
  <1>3. projects' = WithRow(projects, p, w, x) BY DEF CloseTab, WithRow
  <1>4. x \in Worktree /\ x.path = wt.path /\ TabShown(x)
    <2>1. x = WithoutTab(wt, wt.tab) OBVIOUS
    <2> HIDE DEF wt, x
    <2> QED BY <1>1, <1>2, <2>1, TabRemoved
  <1>5. x.path = projects[p].wts[w].path BY <1>4
  <1> HIDE DEF p, w, x
  <1> QED BY <1>1, <1>3, <1>4, <1>5, RedecoratedRow

\* The user changes the tabs that are shown, and takes tabs out.
LEMMA UserTree ==
  ASSUME Tree, UserStep
  PROVE  Redecorated /\ sessions' \subseteq sessions
  <1>1. \/ projects' = projects
        \/ \E p, w : ActivateWorktree(p, w)
        \/ \E t : SwitchTab(t)
        \/ CloseTab
    BY DEF UserStep, MoveSelection, ClickRow, ActivateSelection, SwitchTab, OpenNewTab, CloseTab,
         OpenLauncher, Launch, CancelPrompt, AddWorktree, SubmitBranch, AskBranch,
         ImportWorktrees, AskRemoveWorktree, ConfirmRemoveWorktree, AskRemoveProject,
         RemoveProject, ConfirmRemoveProject, OpenProject, PeriodicPrCheck, treeVars
  <1>2. sessions' \subseteq sessions
    BY DEF UserStep, MoveSelection, ClickRow, ActivateSelection, SwitchTab, OpenNewTab, CloseTab,
         OpenLauncher, Launch, CancelPrompt, AddWorktree, SubmitBranch, AskBranch,
         ImportWorktrees, AskRemoveWorktree, ConfirmRemoveWorktree, AskRemoveProject,
         RemoveProject, ConfirmRemoveProject, OpenProject, PeriodicPrCheck, treeVars
  <1> QED BY <1>1, <1>2, TreeUnchanged, ActivateTree, SwitchTree, CloseTree

\* An ordering of a finite set is a sequence that has every element once.
LEMMA OrderIs ==
  ASSUME NEW S, IsFiniteSet(S), NEW order \in SetToSeqs(S)
  PROVE  /\ order \in Seq(S) /\ Len(order) = Cardinality(S) /\ DOMAIN order = 1 .. Len(order)
         /\ \A i, j \in DOMAIN order : order[i] = order[j] => i = j
         /\ \A x \in S : \E i \in DOMAIN order : order[i] = x
         /\ S # {} => order # <<>>
  <1> DEFINE n == Cardinality(S)
             D == 1 .. n
  <1>1. n \in Nat BY FS_CardinalityType
  <1>2. order \in [D -> S] /\ \A i, j \in D : i # j => order[i] # order[j] BY DEF SetToSeqs
  <1>3. order \in Seq(S) /\ Len(order) = n /\ DOMAIN order = D
    <2> HIDE DEF n
    <2> QED BY <1>1, <1>2
  <1>4. IsFiniteSet(D) /\ Cardinality(D) = n
    <2> HIDE DEF n
    <2> QED BY <1>1, FS_Interval
  <1>5. order \in Surjection(D, S)
    <2>1. order \in Injection(D, S) BY <1>2 DEF Injection, IsInjective
    <2>2. Cardinality(D) = Cardinality(S) BY <1>4
    <2> HIDE DEF D, n
    <2> QED BY <2>1, <2>2, FS_Injection
  <1>6. \A x \in S : \E i \in D : order[i] = x BY <1>5 DEF Surjection
  <1>7. S # {} => order # <<>>
    <2> SUFFICES ASSUME NEW x \in S, order = <<>> PROVE FALSE OBVIOUS
    <2>1. PICK i \in D : order[i] = x BY <1>6
    <2>2. D = {} BY <1>3
    <2> QED BY <2>1, <2>2
  <1> QED BY <1>2, <1>3, <1>6, <1>7

\* The handle of a shell.
LEMMA HandleIs ==
  ASSUME losses \in Nat, NEW n \in Nat \ {0}, NEW sup
  PROVE  <<n, Link(sup)>> \in Handles
  BY DEF Link, Handles

\* The place of a handle among the tabs of a row, 0 if it is not there.
PlaceOf(tabs, id) == SelectInSeq(tabs, LAMBDA x : x = id)
\* PlaceOf finds a handle where it is, and nowhere else.
LEMMA PlaceIs ==
  ASSUME NEW tabs \in Seq(Handles), NEW id, NEW at, at = PlaceOf(tabs, id)
  PROVE  /\ at # 0 => at \in DOMAIN tabs /\ tabs[at] = id
         /\ at = 0 => \A i \in DOMAIN tabs : tabs[i] # id
  <1> DEFINE I == {i \in 1 .. Len(tabs) : tabs[i] = id}
  <1>1. at = IF I # {} THEN Min(I) ELSE 0 BY DEF PlaceOf, SelectInSeq
  <1>2. I \in SUBSET (1 .. Len(tabs)) /\ Len(tabs) \in Nat OBVIOUS
  <1>3. at # 0 => at \in I
    <2> HIDE DEF I
    <2> QED BY <1>1, <1>2, FirstOf
  <1>4. at = 0 => I = {}
    <2> HIDE DEF I
    <2> QED BY <1>1, <1>2, FirstOf
  <1> QED BY <1>3, <1>4

\* The tab of a spawned session.
LEMMA SpawnedTree ==
  ASSUME Types, Tree, NEW r \in inflight, SessionSpawned(r)
  PROVE  Redecorated /\ sessions' \subseteq Handles
  <1>1. r \in Requests /\ losses \in Nat /\ sessions \subseteq Handles
    BY BoundsAssumption DEF Types, RequestTypes, LinkTypes, TreeTypes
  <1> DEFINE id == <<r.n, Link(r.sup)>>
             wt == projects[r.p].wts[r.w]
             x == WithTab(wt, id)
  <1>2. id \in Handles
    <2>1. r.n \in Nat \ {0} BY <1>1 DEF Requests
    <2> QED BY <1>1, <2>1, HandleIs
  <1>3. CASE Has(r.p, r.w)
    <2>1. wt \in Worktree BY <1>3, RowHas DEF Tree
    <2>2. projects' = WithRow(projects, r.p, r.w, x) /\ sessions' = sessions \cup {id}
      BY <1>3 DEF SessionSpawned, WithRow
    <2>3. x \in Worktree /\ x.path = wt.path /\ TabShown(x)
      <3>1. x = WithTab(wt, id) OBVIOUS
      <3> HIDE DEF wt, x, id
      <3> QED BY <1>2, <2>1, <3>1, TabAdded
    <2>4. x.path = projects[r.p].wts[r.w].path BY <2>3
    <2>5. sessions' \subseteq Handles BY <1>1, <1>2, <2>2
    <2> HIDE DEF x
    <2> QED BY <1>3, <2>2, <2>3, <2>4, <2>5, RedecoratedRow
  <1>4. CASE ~Has(r.p, r.w)
    <2>1. projects' = projects /\ sessions' = sessions BY <1>4 DEF SessionSpawned
    <2> QED BY <1>1, <2>1, TreeUnchanged
  <1> QED BY <1>3, <1>4

\* The rows of the projects without the tab of an ended session.
RowsWithout(id) == [p \in DOMAIN projects |-> [w \in DOMAIN projects[p].wts |->
  LET at == PlaceOf(projects[p].wts[w].tabs, id) IN
  IF at = 0 THEN projects[p].wts[w] ELSE WithoutTab(projects[p].wts[w], at)]]

\* The exit of a shell takes its tab away wherever it is.
LEMMA ExitedTree ==
  ASSUME Tree, NEW id, projects' = WithoutSession(projects, id)
  PROVE  /\ Redecorated
         /\ \A p \in DOMAIN projects : projects'[p].wts = RowsWithout(id)[p]
  <1> DEFINE F == RowsWithout(id)
             ps == projects
             qs == projects'
  <1>1. ASSUME NEW p \in DOMAIN projects
        PROVE  /\ F[p] \in Seq(Worktree) /\ DOMAIN F[p] = DOMAIN projects[p].wts
               /\ \A w \in DOMAIN projects[p].wts :
                    F[p][w].path = projects[p].wts[w].path /\ TabShown(F[p][w])
    <2>1. projects[p].wts \in Seq(Worktree) BY ProjectHas DEF Tree
    <2>2. F[p] = [w \in DOMAIN projects[p].wts |->
                    LET at == PlaceOf(projects[p].wts[w].tabs, id) IN
                    IF at = 0 THEN projects[p].wts[w] ELSE WithoutTab(projects[p].wts[w], at)]
      BY DEF RowsWithout
    <2>3. ASSUME NEW w \in DOMAIN projects[p].wts
          PROVE  /\ F[p][w] \in Worktree /\ F[p][w].path = projects[p].wts[w].path
                 /\ TabShown(F[p][w])
      <3> DEFINE wt == projects[p].wts[w]
                 at == PlaceOf(wt.tabs, id)
      <3>1. wt \in Worktree /\ TabShown(wt) /\ wt.tabs \in Seq(Handles)
        BY RowHas DEF Tree, AllShown, Has
      <3>2. F[p][w] = IF at = 0 THEN wt ELSE WithoutTab(wt, at) BY <2>2
      <3>3. at # 0 => at \in DOMAIN wt.tabs
        <4>1. at = PlaceOf(wt.tabs, id) OBVIOUS
        <4> HIDE DEF at, wt
        <4> QED BY <3>1, <4>1, PlaceIs
      <3> HIDE DEF at
      <3>4. CASE at = 0 BY <3>1, <3>2, <3>4
      <3>5. CASE at # 0
        <4> DEFINE x == WithoutTab(wt, at)
        <4>1. x = WithoutTab(wt, at) OBVIOUS
        <4>2. x \in Worktree /\ x.path = wt.path /\ TabShown(x)
          <5> HIDE DEF x, wt
          <5> QED BY <3>1, <3>3, <3>5, <4>1, TabRemoved
        <4> QED BY <3>2, <3>5, <4>2
      <3> QED BY <3>4, <3>5
    <2>4. DOMAIN F[p] = DOMAIN projects[p].wts BY <2>2
    <2>5. F[p] \in Seq(Worktree)
      <3>1. Len(projects[p].wts) \in Nat /\ DOMAIN projects[p].wts = 1 .. Len(projects[p].wts)
        BY <2>1
      <3>2. F[p] \in [1 .. Len(projects[p].wts) -> Worktree] BY <2>2, <2>3, <3>1
      <3> HIDE DEF F
      <3> QED BY <3>1, <3>2
    <2> QED BY <2>3, <2>4, <2>5
  <1>2. qs = WithAllRows(ps, F) BY DEF WithoutSession, RowsWithout, PlaceOf, WithAllRows
  <1>3. ps \in Seq(Project) BY DEF Tree
  <1>4. /\ qs \in Seq(Project) /\ SameShape(ps, qs) /\ AllShown(qs)
        /\ \A p \in DOMAIN ps : qs[p].wts = F[p]
    <2>1. Retabs(ps, F) BY <1>1 DEF Retabs
    <2> HIDE DEF F, ps, qs
    <2> QED BY <1>2, <1>3, <2>1, AllRetabbed
  <1> QED BY <1>4 DEF Redecorated

\* The rows of the projects when a supervisor is lost: its own have no tabs.
RowsLost(sup) == [p \in DOMAIN projects |->
  IF projects[p].sup = sup
  THEN [w \in DOMAIN projects[p].wts |-> NewWorktree(projects[p].wts[w].path)]
  ELSE projects[p].wts]

\* A new row has no tabs.
LEMMA NewRow ==
  ASSUME NEW path \in Paths, NEW x, x = NewWorktree(path)
  PROVE  x \in Worktree /\ x.path = path /\ x.tabs = <<>> /\ x.tab = 0 /\ TabShown(x)
  <1>1. <<>> \in Seq(Handles) BY EmptySeq
  <1> QED BY <1>1 DEF NewWorktree, Worktree, TabShown

\* A lost connection takes the tabs of its sessions away.
LEMMA LostTree ==
  ASSUME Tree, NEW sup, SupervisorLost(sup)
  PROVE  /\ Redecorated /\ sessions' \subseteq sessions
         /\ \A p \in DOMAIN projects : projects'[p].wts = RowsLost(sup)[p]
  <1> DEFINE F == RowsLost(sup)
             ps == projects
             qs == projects'
  <1>1. ASSUME NEW p \in DOMAIN projects
        PROVE  /\ F[p] \in Seq(Worktree) /\ DOMAIN F[p] = DOMAIN projects[p].wts
               /\ \A w \in DOMAIN projects[p].wts :
                    F[p][w].path = projects[p].wts[w].path /\ TabShown(F[p][w])
    <2>1. projects[p].wts \in Seq(Worktree) BY ProjectHas DEF Tree
    <2>2. CASE projects[p].sup # sup
      <3>1. F[p] = projects[p].wts BY <2>2 DEF RowsLost
      <3> QED BY <2>1, <3>1 DEF Tree, AllShown
    <2>3. CASE projects[p].sup = sup
      <3>1. F[p] = [w \in DOMAIN projects[p].wts |-> NewWorktree(projects[p].wts[w].path)]
        BY <2>3 DEF RowsLost
      <3>2. ASSUME NEW w \in DOMAIN projects[p].wts
            PROVE  /\ F[p][w] \in Worktree /\ F[p][w].path = projects[p].wts[w].path
                   /\ TabShown(F[p][w])
        <4>1. projects[p].wts[w].path \in Paths BY RowsAre DEF Tree
        <4>2. F[p][w] = NewWorktree(projects[p].wts[w].path) BY <3>1
        <4> QED BY <4>1, <4>2, NewRow
      <3>3. DOMAIN F[p] = DOMAIN projects[p].wts BY <3>1
      <3>4. F[p] \in Seq(Worktree)
        <4>1. Len(projects[p].wts) \in Nat
              /\ DOMAIN projects[p].wts = 1 .. Len(projects[p].wts)
          BY <2>1
        <4>2. F[p] \in [1 .. Len(projects[p].wts) -> Worktree] BY <3>1, <3>2, <4>1
        <4> HIDE DEF F
        <4> QED BY <4>1, <4>2
      <3> QED BY <3>2, <3>3, <3>4
    <2> QED BY <2>2, <2>3
  <1>2. qs = WithAllRows(ps, F)
    <2>1. projects' = [p \in DOMAIN projects |->
            IF projects[p].sup # sup THEN projects[p]
            ELSE [projects[p] EXCEPT !.wts = [w \in DOMAIN @ |-> NewWorktree(@[w].path)]]]
      BY DEF SupervisorLost
    <2>2. ASSUME NEW p \in DOMAIN projects
          PROVE  projects'[p] = [projects[p] EXCEPT !.wts = F[p]]
      <3>1. projects[p] \in Project BY DEF Tree
      <3>2. CASE projects[p].sup # sup
        <4>1. projects'[p] = projects[p] /\ F[p] = projects[p].wts BY <2>1, <3>2 DEF RowsLost
        <4> QED BY <3>1, <4>1 DEF Project
      <3>3. CASE projects[p].sup = sup BY <2>1, <3>3 DEF RowsLost
      <3> QED BY <3>2, <3>3
    <2> QED BY <2>1, <2>2 DEF WithAllRows
  <1>3. ps \in Seq(Project) BY DEF Tree
  <1>4. /\ qs \in Seq(Project) /\ SameShape(ps, qs) /\ AllShown(qs)
        /\ \A p \in DOMAIN ps : qs[p].wts = F[p]
    <2>1. Retabs(ps, F) BY <1>1 DEF Retabs
    <2> HIDE DEF F, ps, qs
    <2> QED BY <1>2, <1>3, <2>1, AllRetabbed
  <1>5. sessions' \subseteq sessions BY DEF SupervisorLost
  <1> QED BY <1>4, <1>5 DEF Redecorated

\* The shells that a supervisor which is back has homes for, and their homes.
Homed(sup) == {s \in live : s.sup = sup /\ Located(s) # None}
Homes(sup) == {Located(s) : s \in Homed(sup)}
\* The rows of the projects with the tabs of these shells, in the orders new.
RowsConnected(homes, new) == [p \in DOMAIN projects |-> [w \in DOMAIN projects[p].wts |->
  IF <<p, w>> \notin homes THEN projects[p].wts[w]
  ELSE [projects[p].wts[w] EXCEPT !.tabs = @ \o new[<<p, w>>], !.tab = IF @ = 0 THEN 1 ELSE @]]]

\* A shell is put back into a row.
LEMMA LocatedIs ==
  ASSUME Tree, NEW s, Located(s) # None
  PROVE  /\ Has(Located(s)[1], Located(s)[2]) /\ Located(s) = <<Located(s)[1], Located(s)[2]>>
         /\ projects[Located(s)[1]].sup = s.sup
  <1> DEFINE p == IndexOf(s.slug)
             w == IF p = 0 THEN 0
                  ELSE SelectInSeq(projects[p].wts, LAMBDA wt : wt.path[2] = s.path[2])
  <1>1. w # 0 /\ projects[p].sup = s.sup /\ Located(s) = <<p, w>> BY DEF Located
  <1>2. p # 0 BY <1>1
  <1>3. p \in DOMAIN projects
    <2> HIDE DEF w
    <2> QED BY <1>2, IndexIs DEF Tree
  <1>4. w \in DOMAIN projects[p].wts
    <2> DEFINE wts == projects[p].wts
               I == {i \in 1 .. Len(wts) : wts[i].path[2] = s.path[2]}
    <2>1. w = IF I # {} THEN Min(I) ELSE 0 BY <1>2 DEF SelectInSeq
    <2>2. wts \in Seq(Worktree) BY <1>3, ProjectHas DEF Tree
    <2>3. I \in SUBSET (1 .. Len(wts)) /\ Len(wts) \in Nat BY <2>2
    <2>4. w \in I
      <3> HIDE DEF I, w
      <3> QED BY <1>1, <2>1, <2>3, FirstOf
    <2> QED BY <2>2, <2>4
  <1> HIDE DEF p, w
  <1> QED BY <1>1, <1>3, <1>4 DEF Has

\* Tabs are put behind those a row has.
WithTabs(wt, order) ==
  [wt EXCEPT !.tabs = @ \o order, !.tab = IF @ = 0 THEN 1 ELSE @]
\* Adopted sessions come behind the tabs, and one is shown.
LEMMA TabsAppended ==
  ASSUME NEW wt \in Worktree, TabShown(wt), NEW order \in Seq(Handles), order # <<>>,
         NEW x, x = WithTabs(wt, order)
  PROVE  x \in Worktree /\ x.path = wt.path /\ x.tabs = wt.tabs \o order /\ TabShown(x)
  <1> DEFINE tabs == wt.tabs \o order
             tab == IF wt.tab = 0 THEN 1 ELSE wt.tab
  <1>1. wt.tabs \in Seq(Handles) /\ wt.tab \in Nat BY DEF Worktree
  <1>2. tabs \in Seq(Handles) /\ Len(tabs) = Len(wt.tabs) + Len(order)
    BY <1>1, ConcatProperties
  <1>3. Len(order) \in Nat \ {0} BY EmptySeq
  <1>4. x = [wt EXCEPT !.tabs = tabs, !.tab = tab] BY DEF WithTabs
  <1> HIDE DEF tabs
  <1>5. tab \in 1 .. Len(tabs)
    <2>1. wt.tab # 0 => wt.tab \in 1 .. Len(wt.tabs) BY <1>1 DEF TabShown
    <2>2. Len(wt.tabs) \in Nat BY <1>1
    <2> QED BY <1>1, <1>2, <1>3, <2>1, <2>2
  <1>6. tab \in DOMAIN tabs /\ tab \in Nat BY <1>2, <1>5
  <1> HIDE DEF tab
  <1>7. x.tabs = tabs /\ x.tab = tab /\ x.path = wt.path BY <1>4 DEF Worktree
  <1>8. x \in Worktree BY <1>2, <1>4, <1>6 DEF Worktree
  <1> QED BY <1>6, <1>7, <1>8 DEF TabShown, tabs

\* The handles of the shells that are adopted at one place.
LEMMA AdoptedIs ==
  ASSUME ShellTypes, losses \in Nat, NEW sup, NEW h \in Homes(sup),
         \A s \in Homed(sup) : Located(s) = <<Located(s)[1], Located(s)[2]>>
  PROVE  LET A == Adopted(sup, h[1], h[2]) IN
         A \subseteq Handles /\ IsFiniteSet(A) /\ A # {}
  <1> DEFINE S == {x \in live : x.sup = sup /\ Located(x) = <<h[1], h[2]>>}
             A == Adopted(sup, h[1], h[2])
             f == [s \in S |-> <<s.id, losses>>]
  <1>1. A = {<<s.id, losses>> : s \in S} BY DEF Adopted
  <1>2. A \subseteq Handles BY <1>1 DEF ShellTypes, Shells, Handles
  <1>3. IsFiniteSet(S)
    <2>1. IsFiniteSet(live) /\ S \in SUBSET live BY DEF ShellTypes
    <2> HIDE DEF S
    <2> QED BY <2>1, FS_Subset
  <1>4. f \in Surjection(S, A)
    <2> HIDE DEF A, S
    <2> QED BY <1>1 DEF Surjection
  <1>5. IsFiniteSet(A)
    <2> HIDE DEF A, S, f
    <2> QED BY <1>3, <1>4, FS_Surjection
  <1>6. A # {}
    <2>1. PICK s \in Homed(sup) : h = Located(s) BY DEF Homes
    <2>2. s \in S BY <2>1 DEF Homed
    <2> QED BY <1>1, <2>2
  <1> HIDE DEF A
  <1>7. A \subseteq Handles /\ IsFiniteSet(A) /\ A # {} BY <1>2, <1>5, <1>6
  <1> QED BY <1>7 DEF A

\* A connection adds the sessions found there to the rows they are homed at.
LEMMA ConnectedTree ==
  ASSUME Types, Tree, NEW sup, SupervisorConnected(sup)
  PROVE  /\ Redecorated /\ sessions' \subseteq Handles
         /\ sessions' = sessions \cup {<<s.id, losses>> : s \in Homed(sup)}
         /\ \E new : /\ \A h \in Homes(sup) :
                          /\ new[h] \in SetToSeqs(Adopted(sup, h[1], h[2]))
                          /\ new[h] \in Seq(Handles) /\ new[h] # <<>>
                     /\ \A p \in DOMAIN projects :
                          projects'[p].wts = RowsConnected(Homes(sup), new)[p]
  <1>1. ShellTypes /\ losses \in Nat /\ sessions \subseteq Handles
    BY BoundsAssumption DEF Types, LinkTypes, TreeTypes
  <1>2. PICK new :
          /\ \A h \in Homes(sup) : new[h] \in SetToSeqs(Adopted(sup, h[1], h[2]))
          /\ projects' = [p \in DOMAIN projects |-> [projects[p] EXCEPT !.wts =
               [w \in DOMAIN projects[p].wts |->
                  IF <<p, w>> \notin Homes(sup) THEN projects[p].wts[w]
                  ELSE [projects[p].wts[w] EXCEPT !.tabs = @ \o new[<<p, w>>],
                                                  !.tab = IF @ = 0 THEN 1 ELSE @]]]]
    BY DEF SupervisorConnected, Homes, Homed
  <1>3. sessions' = sessions \cup {<<s.id, losses>> : s \in Homed(sup)}
    BY DEF SupervisorConnected, Homed
  <1>4. sessions' \subseteq Handles
    <2>1. \A s \in Homed(sup) : <<s.id, losses>> \in Handles
      BY <1>1 DEF Homed, ShellTypes, Shells, Handles
    <2> QED BY <1>1, <1>3, <2>1
  <1>5. ASSUME NEW h \in Homes(sup) PROVE new[h] \in Seq(Handles) /\ new[h] # <<>>
    <2> DEFINE A == Adopted(sup, h[1], h[2])
    <2>1. \A s \in Homed(sup) : Located(s) = <<Located(s)[1], Located(s)[2]>>
      BY LocatedIs DEF Homed
    <2>2. A \subseteq Handles /\ IsFiniteSet(A) /\ A # {} BY <1>1, <2>1, AdoptedIs
    <2>3. new[h] \in SetToSeqs(A) BY <1>2
    <2> HIDE DEF A
    <2>4. new[h] \in Seq(A) /\ new[h] # <<>> BY <2>2, <2>3, OrderIs
    <2> QED BY <2>2, <2>4, SeqMonotonic
  <1> DEFINE F == RowsConnected(Homes(sup), new)
             ps == projects
             qs == projects'
  <1>6. ASSUME NEW p \in DOMAIN projects
        PROVE  /\ F[p] \in Seq(Worktree) /\ DOMAIN F[p] = DOMAIN projects[p].wts
               /\ \A w \in DOMAIN projects[p].wts :
                    F[p][w].path = projects[p].wts[w].path /\ TabShown(F[p][w])
    <2>1. projects[p].wts \in Seq(Worktree) BY ProjectHas DEF Tree
    <2>2. F[p] = [w \in DOMAIN projects[p].wts |->
                    IF <<p, w>> \notin Homes(sup) THEN projects[p].wts[w]
                    ELSE WithTabs(projects[p].wts[w], new[<<p, w>>])]
      BY DEF RowsConnected, WithTabs
    <2>3. ASSUME NEW w \in DOMAIN projects[p].wts
          PROVE  /\ F[p][w] \in Worktree /\ F[p][w].path = projects[p].wts[w].path
                 /\ TabShown(F[p][w])
      <3> DEFINE wt == projects[p].wts[w]
                 order == new[<<p, w>>]
                 x == WithTabs(wt, order)
      <3>1. wt \in Worktree /\ TabShown(wt) BY RowHas DEF Tree, AllShown, Has
      <3>2. CASE <<p, w>> \notin Homes(sup)
        <4>1. F[p][w] = wt BY <2>2, <3>2
        <4> QED BY <3>1, <4>1
      <3>3. CASE <<p, w>> \in Homes(sup)
        <4>1. F[p][w] = x BY <2>2, <3>3
        <4>2. order \in Seq(Handles) /\ order # <<>> BY <1>5, <3>3
        <4>3. x = WithTabs(wt, order) OBVIOUS
        <4>4. x \in Worktree /\ x.path = wt.path /\ TabShown(x)
          <5> HIDE DEF wt, order, x
          <5> QED BY <3>1, <4>2, <4>3, TabsAppended
        <4> QED BY <4>1, <4>4
      <3> QED BY <3>2, <3>3
    <2>4. DOMAIN F[p] = DOMAIN projects[p].wts BY <2>2
    <2>5. F[p] \in Seq(Worktree)
      <3>1. Len(projects[p].wts) \in Nat
            /\ DOMAIN projects[p].wts = 1 .. Len(projects[p].wts)
        BY <2>1
      <3>2. F[p] \in [1 .. Len(projects[p].wts) -> Worktree] BY <2>2, <2>3, <3>1
      <3> HIDE DEF F
      <3> QED BY <3>1, <3>2
    <2> QED BY <2>3, <2>4, <2>5
  <1>7. qs = WithAllRows(ps, F)
    <2>1. ASSUME NEW p \in DOMAIN projects
          PROVE  projects'[p] = [projects[p] EXCEPT !.wts = F[p]]
      <3> DEFINE G == [w \in DOMAIN projects[p].wts |->
                         IF <<p, w>> \notin Homes(sup) THEN projects[p].wts[w]
                         ELSE [projects[p].wts[w] EXCEPT !.tabs = @ \o new[<<p, w>>],
                                                         !.tab = IF @ = 0 THEN 1 ELSE @]]
      <3>1. F[p] = G BY DEF RowsConnected
      <3>2. projects'[p] = [projects[p] EXCEPT !.wts = G] BY <1>2
      <3> HIDE DEF F, G
      <3> QED BY <3>1, <3>2
    <2>2. projects' = [p \in DOMAIN projects |-> projects'[p]] BY <1>2
    <2> QED BY <2>1, <2>2 DEF WithAllRows
  <1>8. ps \in Seq(Project) BY DEF Tree
  <1>9. /\ qs \in Seq(Project) /\ SameShape(ps, qs) /\ AllShown(qs)
        /\ \A p \in DOMAIN ps : qs[p].wts = F[p]
    <2>1. Retabs(ps, F) BY <1>6 DEF Retabs
    <2> HIDE DEF F, ps, qs
    <2> QED BY <1>7, <1>8, <2>1, AllRetabbed
  <1>10. Redecorated BY <1>9 DEF Redecorated
  <1> QED BY <1>2, <1>3, <1>4, <1>5, <1>9, <1>10

\* A tree that has grown: what was there is as it was, what is new has no tabs.
Grown(ps, qs) ==
  /\ DOMAIN ps \subseteq DOMAIN qs
  /\ \A p \in DOMAIN ps :
       /\ qs[p].slug = ps[p].slug /\ qs[p].repo = ps[p].repo /\ qs[p].sup = ps[p].sup
       /\ DOMAIN ps[p].wts \subseteq DOMAIN qs[p].wts
       /\ \A w \in DOMAIN ps[p].wts : qs[p].wts[w] = ps[p].wts[w]
       /\ \A w \in DOMAIN qs[p].wts \ DOMAIN ps[p].wts : qs[p].wts[w].tabs = <<>>
  /\ \A p \in DOMAIN qs \ DOMAIN ps : \A w \in DOMAIN qs[p].wts : qs[p].wts[w].tabs = <<>>
TreeGrown == projects' \in Seq(Project) /\ AllShown(projects') /\ Grown(projects, projects')

\* There are finitely many paths.
LEMMA PathsFinite ==
  IsFiniteSet(Paths)
  <1>1. IsFiniteSet({0} \cup Branches)
    <2>1. IsFiniteSet(Branches \cup {0}) BY FiniteAssumption, FS_AddElement
    <2>2. Branches \cup {0} = {0} \cup Branches OBVIOUS
    <2> QED BY <2>1, <2>2
  <1> QED BY <1>1, FiniteAssumption, FS_Product DEF Paths

\* Rows without tabs behind other rows.
Lengthened(old, wts) ==
  /\ DOMAIN old \subseteq DOMAIN wts
  /\ \A w \in DOMAIN old : wts[w] = old[w]
  /\ \A w \in DOMAIN wts \ DOMAIN old : wts[w].tabs = <<>> /\ wts[w].tab = 0

\* Rows without tabs behind the others leave these in place.
LEMMA RowsBehind ==
  ASSUME NEW old \in Seq(Worktree), NEW more \in Seq(Worktree),
         \A i \in DOMAIN more : more[i].tabs = <<>> /\ more[i].tab = 0,
         NEW wts, wts = old \o more
  PROVE  wts \in Seq(Worktree) /\ Lengthened(old, wts)
  <1>1. /\ wts \in Seq(Worktree) /\ Len(wts) = Len(old) + Len(more)
        /\ \A i \in 1 .. Len(old) + Len(more) :
             wts[i] = IF i <= Len(old) THEN old[i] ELSE more[i - Len(old)]
    BY ConcatProperties
  <1>2. /\ Len(old) \in Nat /\ Len(more) \in Nat /\ DOMAIN old = 1 .. Len(old)
        /\ DOMAIN wts = 1 .. Len(wts) /\ DOMAIN more = 1 .. Len(more)
    BY <1>1
  <1>3. ASSUME NEW w \in DOMAIN wts \ DOMAIN old
        PROVE  wts[w].tabs = <<>> /\ wts[w].tab = 0
    <2>1. w \in 1 .. Len(old) + Len(more) /\ ~(w <= Len(old)) BY <1>1, <1>2
    <2>2. w - Len(old) \in DOMAIN more BY <1>2, <2>1
    <2>3. wts[w] = more[w - Len(old)] BY <1>1, <2>1
    <2> QED BY <2>2, <2>3
  <1>4. ASSUME NEW w \in DOMAIN old
        PROVE  w \in DOMAIN wts /\ wts[w] = old[w]
    <2>1. w \in 1 .. Len(old) + Len(more) /\ w <= Len(old) BY <1>2
    <2> QED BY <1>1, <1>2, <2>1
  <1>5. DOMAIN old \subseteq DOMAIN wts BY <1>4
  <1>6. \A w \in DOMAIN old : wts[w] = old[w] BY <1>4
  <1>7. \A w \in DOMAIN wts \ DOMAIN old : wts[w].tabs = <<>> /\ wts[w].tab = 0 BY <1>3
  <1> QED BY <1>1, <1>5, <1>6, <1>7 DEF Lengthened

\* Rows without tabs are put behind those of a project.
LEMMA RowsAdded ==
  ASSUME NEW ps \in Seq(Project), AllShown(ps), NEW p \in DOMAIN ps, NEW wts \in Seq(Worktree),
         Lengthened(ps[p].wts, wts), NEW qs, qs = WithRows(ps, p, wts)
  PROVE  /\ qs \in Seq(Project) /\ AllShown(qs) /\ Grown(ps, qs)
         /\ Len(qs) = Len(ps) /\ qs[p].wts = wts
  <1>1. /\ qs \in Seq(Project) /\ DOMAIN qs = DOMAIN ps /\ Len(qs) = Len(ps)
        /\ \A q \in DOMAIN ps : q # p => qs[q] = ps[q]
        /\ qs[p].slug = ps[p].slug /\ qs[p].repo = ps[p].repo /\ qs[p].sup = ps[p].sup
        /\ qs[p].wts = wts
    BY WtsReplaced
  <1>2. Grown(ps, qs)
    <2>1. ASSUME NEW q \in DOMAIN ps
          PROVE  /\ qs[q].slug = ps[q].slug /\ qs[q].repo = ps[q].repo /\ qs[q].sup = ps[q].sup
                 /\ DOMAIN ps[q].wts \subseteq DOMAIN qs[q].wts
                 /\ \A w \in DOMAIN ps[q].wts : qs[q].wts[w] = ps[q].wts[w]
                 /\ \A w \in DOMAIN qs[q].wts \ DOMAIN ps[q].wts : qs[q].wts[w].tabs = <<>>
      <3>1. CASE q # p
        <4>1. qs[q] = ps[q] BY <1>1, <3>1
        <4> QED BY <4>1
      <3>2. CASE q = p BY <1>1, <3>2 DEF Lengthened
      <3> QED BY <3>1, <3>2
    <2> QED BY <1>1, <2>1 DEF Grown
  <1>3. AllShown(qs)
    <2> SUFFICES ASSUME NEW q \in DOMAIN qs, NEW v \in DOMAIN qs[q].wts
                 PROVE  TabShown(qs[q].wts[v])
      BY DEF AllShown
    <2>1. CASE q # p
      <3>1. q \in DOMAIN ps /\ qs[q] = ps[q] BY <1>1, <2>1
      <3> QED BY <3>1 DEF AllShown
    <2>2. CASE q = p /\ v \in DOMAIN ps[p].wts
      <3>1. qs[q].wts[v] = ps[p].wts[v] BY <1>1, <2>2 DEF Lengthened
      <3> QED BY <2>2, <3>1 DEF AllShown
    <2>3. CASE q = p /\ v \notin DOMAIN ps[p].wts
      <3>1. v \in DOMAIN wts /\ qs[q].wts[v] = wts[v] BY <1>1, <2>3
      <3>2. wts[v].tabs = <<>> /\ wts[v].tab = 0 BY <2>3, <3>1 DEF Lengthened
      <3> QED BY <3>1, <3>2 DEF TabShown
    <2> QED BY <2>1, <2>2, <2>3
  <1> QED BY <1>1, <1>2, <1>3

\* The tree as it was has grown by nothing.
LEMMA GrownUnchanged ==
  ASSUME Tree, projects' = projects
  PROVE  TreeGrown
  BY DEF Tree, TreeGrown, Grown, AllShown

\* One project gets more rows.
LEMMA GrownRows ==
  ASSUME Tree, NEW p \in DOMAIN projects, NEW wts \in Seq(Worktree),
         Lengthened(projects[p].wts, wts), projects' = WithRows(projects, p, wts)
  PROVE  TreeGrown /\ Len(projects') = Len(projects) /\ projects'[p].wts = wts
  <1> DEFINE ps == projects
             qs == projects'
  <1>1. ps \in Seq(Project) /\ AllShown(ps) /\ qs = WithRows(ps, p, wts)
        /\ Lengthened(ps[p].wts, wts) /\ p \in DOMAIN ps
    BY DEF Tree
  <1>2. /\ qs \in Seq(Project) /\ AllShown(qs) /\ Grown(ps, qs)
        /\ Len(qs) = Len(ps) /\ qs[p].wts = wts
    <2> HIDE DEF ps, qs
    <2> QED BY <1>1, RowsAdded
  <1> QED BY <1>2 DEF TreeGrown

\* Worktrees are imported.
LEMMA ImportedTree ==
  ASSUME Types, Tree, NEW r \in inflight, WorktreesImported(r)
  PROVE  TreeGrown
  <1>1. CASE r.p \in DOMAIN projects
    <2> DEFINE new == Unlisted(projects[r.p].wts, r.found)
    <2>1. PICK order \in SetToSeqs(new) :
            projects' = [projects EXCEPT ![r.p].wts =
                           @ \o [i \in DOMAIN order |-> NewWorktree(order[i])]]
      BY <1>1 DEF WorktreesImported
    <2>2. new \subseteq Paths BY DEF Unlisted, Types, RequestTypes, Requests
    <2>3. order \in Seq(Paths) /\ DOMAIN order = 1 .. Len(order)
      <3>1. IsFiniteSet(new) BY <2>2, PathsFinite, FS_Subset
      <3> HIDE DEF new
      <3>2. order \in Seq(new) /\ DOMAIN order = 1 .. Len(order) BY <3>1, OrderIs
      <3> QED BY <2>2, <3>2, SeqMonotonic
    <2> DEFINE more == [i \in DOMAIN order |-> NewWorktree(order[i])]
               wts == projects[r.p].wts \o more
               p == r.p
    <2>4. ASSUME NEW i \in DOMAIN order
          PROVE  more[i] \in Worktree /\ more[i].tabs = <<>> /\ more[i].tab = 0
      <3>1. order[i] \in Paths /\ more[i] = NewWorktree(order[i]) BY <2>3
      <3> HIDE DEF more
      <3> QED BY <3>1, NewRow
    <2>5. more \in Seq(Worktree) /\ DOMAIN more = DOMAIN order
      <3>1. Len(order) \in Nat /\ more \in [1 .. Len(order) -> Worktree] BY <2>3, <2>4
      <3> HIDE DEF more
      <3> QED BY <2>3, <3>1
    <2>6. projects' = WithRows(projects, p, wts) BY <2>1 DEF WithRows
    <2>7. wts = projects[p].wts \o more /\ p \in DOMAIN projects BY <1>1
    <2>8. \A i \in DOMAIN more : more[i].tabs = <<>> /\ more[i].tab = 0 BY <2>4, <2>5
    <2>9. wts \in Seq(Worktree) /\ Lengthened(projects[p].wts, wts)
      <3> DEFINE old == projects[p].wts
      <3>1. old \in Seq(Worktree) /\ wts = old \o more BY <2>7, ProjectHas DEF Tree
      <3> HIDE DEF more, wts, old
      <3>2. wts \in Seq(Worktree) /\ Lengthened(old, wts) BY <2>5, <2>8, <3>1, RowsBehind
      <3> QED BY <3>2 DEF old
    <2> HIDE DEF more, wts, p
    <2> QED BY <2>6, <2>7, <2>9, GrownRows
  <1>2. CASE r.p \notin DOMAIN projects BY <1>2, GrownUnchanged DEF WorktreesImported
  <1> QED BY <1>1, <1>2

\* A worktree is added.
LEMMA AddedTree ==
  ASSUME Types, Tree, NEW r \in inflight, WorktreeAdded(r)
  PROVE  /\ TreeGrown
         /\ r.p \in DOMAIN projects =>
              /\ r.p \in DOMAIN projects'
              /\ Len(projects[r.p].wts) + 1 \in DOMAIN projects'[r.p].wts
  <1>1. CASE r.p \in DOMAIN projects
    <2> DEFINE p == r.p
               x == NewWorktree(r.path)
               more == <<x>>
               wts == projects[r.p].wts \o more
    <2>1. r.path \in Paths BY DEF Types, RequestTypes, Requests
    <2>2. x \in Worktree /\ x.tabs = <<>> /\ x.tab = 0 BY <2>1, NewRow
    <2>3. more \in Seq(Worktree) /\ Len(more) = 1
          /\ \A i \in DOMAIN more : more[i].tabs = <<>> /\ more[i].tab = 0
      <3> HIDE DEF x
      <3> QED BY <2>2
    <2>4. projects[p].wts \in Seq(Worktree) /\ p \in DOMAIN projects BY <1>1, ProjectHas DEF Tree
    <2>5. wts = Append(projects[p].wts, x) /\ Len(wts) = Len(projects[p].wts) + 1
          /\ wts \in Seq(Worktree)
      <3> HIDE DEF x
      <3> QED BY <2>2, <2>4
    <2>6. projects' = WithRows(projects, p, wts)
      <3>1. projects' = [projects EXCEPT ![p].wts = Append(@, x)] BY <1>1 DEF WorktreeAdded
      <3> HIDE DEF x, wts
      <3> QED BY <2>5, <3>1 DEF WithRows
    <2>7. Lengthened(projects[p].wts, wts)
      <3> DEFINE old == projects[p].wts
      <3>1. old \in Seq(Worktree) /\ wts = old \o more BY <2>4
      <3> HIDE DEF more, wts, old
      <3>2. Lengthened(old, wts) BY <2>3, <3>1, RowsBehind
      <3> QED BY <3>2 DEF old
    <2> HIDE DEF more, wts, p
    <2>8. TreeGrown /\ Len(projects') = Len(projects) /\ projects'[p].wts = wts
      BY <2>4, <2>5, <2>6, <2>7, GrownRows
    <2>9. Len(projects[p].wts) + 1 \in DOMAIN wts BY <2>4, <2>5
    <2> QED BY <2>4, <2>8, <2>9 DEF TreeGrown, Grown, p
  <1>2. CASE r.p \notin DOMAIN projects
    BY <1>2, GrownUnchanged DEF WorktreeAdded
  <1> QED BY <1>1, <1>2

\* A project is opened.
LEMMA ValidatedTree ==
  ASSUME Types, Tree, NEW r \in inflight, ProjectValidated(r)
  PROVE  /\ TreeGrown /\ Len(projects') = Len(projects) + 1
         /\ \A p \in DOMAIN projects : projects'[p] = projects[p]
         /\ projects'[Len(projects) + 1].slug = ComputeSlug
  <1> DEFINE x == NewWorktree(r.path)
             wts == <<x>>
             slug == ComputeSlug
             new == [slug |-> slug, repo |-> r.path[1], sup |-> r.sup, gh |-> TRUE, wts |-> wts]
             n == Len(projects)
             ps == projects
             qs == projects'
  <1>1. qs = Append(ps, new) BY DEF ProjectValidated
  <1>2. r.path \in Paths /\ r.sup \in Sups BY DEF Types, RequestTypes, Requests
  <1>3. slug \in Nat \ {0} BY ComputeSlugIs DEF Tree
  <1>4. x \in Worktree /\ x.tabs = <<>> /\ TabShown(x) BY <1>2, NewRow
  <1>5. wts \in Seq(Worktree) /\ \A w \in DOMAIN wts : wts[w] = x
    <2> HIDE DEF x
    <2> QED BY <1>4
  <1> HIDE DEF x, wts, slug
  <1>6. r.path[1] \in Repos BY <1>2 DEF Paths
  <1>7. /\ new \in Project /\ new.wts = wts /\ new.slug = slug
    BY <1>2, <1>3, <1>5, <1>6 DEF Project
  <1> HIDE DEF new
  <1>8. ps \in Seq(Project) /\ AllShown(ps) BY DEF Tree
  <1>9. /\ qs \in Seq(Project) /\ Len(qs) = n + 1 /\ \A p \in DOMAIN ps : qs[p] = ps[p]
        /\ qs[n + 1] = new /\ DOMAIN ps = 1 .. n /\ DOMAIN qs = 1 .. (n + 1) /\ n \in Nat
    <2>1. n = Len(ps) OBVIOUS
    <2> HIDE DEF ps, qs, n
    <2> QED BY <1>1, <1>7, <1>8, <2>1
  <1> HIDE DEF ps, qs, n
  <1>10. \A p \in DOMAIN qs : p \in DOMAIN ps \/ p = n + 1 BY <1>9
  <1>11. Grown(ps, qs)
    <2>1. DOMAIN ps \subseteq DOMAIN qs BY <1>9
    <2>2. \A p \in DOMAIN qs \ DOMAIN ps : qs[p].wts = wts BY <1>7, <1>9, <1>10
    <2> QED BY <1>4, <1>5, <1>9, <2>1, <2>2 DEF Grown
  <1>12. AllShown(qs)
    <2> SUFFICES ASSUME NEW q \in DOMAIN qs, NEW v \in DOMAIN qs[q].wts
                 PROVE  TabShown(qs[q].wts[v])
      BY DEF AllShown
    <2>1. CASE q \in DOMAIN ps
      <3>1. qs[q] = ps[q] BY <1>9, <2>1
      <3> QED BY <1>8, <2>1, <3>1 DEF AllShown
    <2>2. CASE q = n + 1
      <3>1. qs[q].wts = wts BY <1>7, <1>9, <2>2
      <3> QED BY <1>4, <1>5, <3>1
    <2> QED BY <1>10, <2>1, <2>2
  <1> QED BY <1>7, <1>9, <1>11, <1>12 DEF TreeGrown, ps, qs, n, slug

\* A sequence of rows without the w-th.
Shortened(old, w, wts) ==
  /\ DOMAIN wts = 1 .. Len(old) - 1 /\ Len(wts) = Len(old) - 1
  /\ \A v \in DOMAIN wts : wts[v] = IF v < w THEN old[v] ELSE old[v + 1]

\* A row is taken out of a project.
LEMMA RowTaken ==
  ASSUME NEW ps \in Seq(Project), AllShown(ps), NEW p \in DOMAIN ps, NEW w \in DOMAIN ps[p].wts,
         NEW wts \in Seq(Worktree), Shortened(ps[p].wts, w, wts),
         NEW qs, qs = WithRows(ps, p, wts)
  PROVE  /\ qs \in Seq(Project) /\ AllShown(qs) /\ DOMAIN qs = DOMAIN ps
         /\ \A q \in DOMAIN ps : q # p => qs[q] = ps[q]
         /\ qs[p].slug = ps[p].slug /\ qs[p].repo = ps[p].repo /\ qs[p].sup = ps[p].sup
         /\ qs[p].wts = wts
  <1>1. /\ qs \in Seq(Project) /\ DOMAIN qs = DOMAIN ps /\ Len(qs) = Len(ps)
        /\ \A q \in DOMAIN ps : q # p => qs[q] = ps[q]
        /\ qs[p].slug = ps[p].slug /\ qs[p].repo = ps[p].repo /\ qs[p].sup = ps[p].sup
        /\ qs[p].wts = wts
    BY WtsReplaced
  <1>2. ps[p].wts \in Seq(Worktree)
    <2>1. ps[p] \in Project OBVIOUS
    <2> QED BY <2>1 DEF Project
  <1>3. AllShown(qs)
    <2> SUFFICES ASSUME NEW q \in DOMAIN qs, NEW v \in DOMAIN qs[q].wts
                 PROVE  TabShown(qs[q].wts[v])
      BY DEF AllShown
    <2>1. CASE q # p
      <3>1. q \in DOMAIN ps /\ qs[q] = ps[q] BY <1>1, <2>1
      <3> QED BY <3>1 DEF AllShown
    <2>2. CASE q = p
      <3>1. v \in DOMAIN wts /\ qs[q].wts[v] = wts[v] BY <1>1, <2>2
      <3> DEFINE u == IF v < w THEN v ELSE v + 1
      <3>2. u \in DOMAIN ps[p].wts /\ wts[v] = ps[p].wts[u]
        <4>1. v \in 1 .. Len(ps[p].wts) - 1 /\ Len(ps[p].wts) \in Nat
              /\ wts[v] = IF v < w THEN ps[p].wts[v] ELSE ps[p].wts[v + 1]
          BY <1>2, <3>1 DEF Shortened
        <4> QED BY <1>2, <4>1
      <3> HIDE DEF u
      <3> QED BY <3>1, <3>2 DEF AllShown
    <2> QED BY <2>1, <2>2
  <1> QED BY <1>1, <1>3

\* A reply to the removal of a worktree takes out the row at its position.
LEMMA WorktreeRemovedTree ==
  ASSUME Types, Tree, NEW r \in inflight, WorktreeRemoved(r), Has(r.p, r.w)
  PROVE  /\ projects' \in Seq(Project) /\ AllShown(projects') /\ DOMAIN projects' = DOMAIN projects
         /\ \A q \in DOMAIN projects : q # r.p => projects'[q] = projects[q]
         /\ projects'[r.p].slug = projects[r.p].slug /\ projects'[r.p].repo = projects[r.p].repo
         /\ projects'[r.p].sup = projects[r.p].sup
         /\ projects'[r.p].wts \in Seq(Worktree)
         /\ Shortened(projects[r.p].wts, r.w, projects'[r.p].wts)
  <1> DEFINE ps == projects
             qs == projects'
             p == r.p
             w == r.w
             old == projects[r.p].wts
             wts == RemoveAt(old, r.w)
  <1>1. ps \in Seq(Project) /\ AllShown(ps) /\ p \in DOMAIN ps /\ w \in DOMAIN ps[p].wts
    BY DEF Tree, Has
  <1>2. old \in Seq(Worktree) /\ w \in DOMAIN old BY <1>1, ProjectHas
  <1>3. wts \in Seq(Worktree) /\ Shortened(old, w, wts)
    <2>1. wts = RemoveAt(old, w) OBVIOUS
    <2> HIDE DEF wts, old, w
    <2>2. /\ wts \in Seq(Worktree) /\ Len(wts) = Len(old) - 1
          /\ \A j \in 1 .. Len(wts) : wts[j] = IF j < w THEN old[j] ELSE old[j + 1]
      BY SMTT(60), <1>2, <2>1, RemovedAt
    <2> QED BY <2>2 DEF Shortened
  <1>4. qs = WithRows(ps, p, wts) BY DEF WorktreeRemoved, WithRows
  <1>5. Shortened(ps[p].wts, w, wts) BY <1>3
  <1>6. /\ qs \in Seq(Project) /\ AllShown(qs) /\ DOMAIN qs = DOMAIN ps
        /\ \A q \in DOMAIN ps : q # p => qs[q] = ps[q]
        /\ qs[p].slug = ps[p].slug /\ qs[p].repo = ps[p].repo /\ qs[p].sup = ps[p].sup
        /\ qs[p].wts = wts
    <2> HIDE DEF ps, qs, p, w, wts, old
    <2> QED BY <1>1, <1>3, <1>4, <1>5, RowTaken
  <1> HIDE DEF wts
  <1> QED BY <1>3, <1>6

\* A reply to the removal of a project takes it out.
LEMMA ProjectRemovedTree ==
  ASSUME Types, Tree, NEW r \in inflight, ProjectRemoved(r), IndexOf(r.slug) # 0
  PROVE  /\ projects' \in Seq(Project) /\ AllShown(projects')
         /\ IndexOf(r.slug) \in DOMAIN projects
         /\ DOMAIN projects' = 1 .. Len(projects) - 1 /\ Len(projects') = Len(projects) - 1
         /\ \A q \in DOMAIN projects' :
              projects'[q] = projects[IF q < IndexOf(r.slug) THEN q ELSE q + 1]
  <1> DEFINE ps == projects
             qs == projects'
             p == IndexOf(r.slug)
  <1>1. ps \in Seq(Project) /\ AllShown(ps) BY DEF Tree
  <1>2. p \in DOMAIN ps BY <1>1, IndexIs
  <1>3. qs = RemoveAt(ps, p) BY DEF ProjectRemoved
  <1>4. /\ qs \in Seq(Project) /\ Len(qs) = Len(ps) - 1
        /\ \A j \in 1 .. Len(qs) : qs[j] = IF j < p THEN ps[j] ELSE ps[j + 1]
    <2> HIDE DEF ps, qs, p
    <2> QED BY SMTT(60), <1>1, <1>2, <1>3, RemovedAt
  <1>5. DOMAIN qs = 1 .. Len(ps) - 1
    <2> HIDE DEF ps, qs, p
    <2> QED BY <1>4
  <1>6. \A j \in DOMAIN qs :
          (IF j < p THEN j ELSE j + 1) \in DOMAIN ps
          /\ qs[j] = ps[IF j < p THEN j ELSE j + 1]
    <2> HIDE DEF ps, qs, p
    <2> QED BY <1>1, <1>2, <1>4, <1>5
  <1>7. AllShown(qs)
    <2> HIDE DEF ps, qs, p
    <2> QED BY <1>1, <1>6 DEF AllShown
  <1> QED BY <1>2, <1>4, <1>5, <1>6, <1>7

-----------------------------------------------------------------------------
(* Positions *)

Held(ps, p, w) == p \in DOMAIN ps /\ w \in DOMAIN ps[p].wts
Chosen(ps, at) == at[1] \in DOMAIN ps /\ at[2] \in 0 .. Len(ps[at[1]].wts)
Pointers ==
  /\ PointerTypes /\ ActiveIn /\ SelectedIn /\ StatusesIn

\* Every row is still where it was.
KeepsRows(ps, qs) ==
  \A p \in DOMAIN ps : p \in DOMAIN qs /\ DOMAIN ps[p].wts \subseteq DOMAIN qs[p].wts

\* A tree that is only redecorated keeps its rows.
LEMMA RedecoratedKeeps ==
  ASSUME Redecorated
  PROVE  projects' \in Seq(Project) /\ KeepsRows(projects, projects')
  BY DEF Redecorated, SameShape, KeepsRows

\* So does a tree that grows.
LEMMA GrownKeeps ==
  ASSUME TreeGrown
  PROVE  projects' \in Seq(Project) /\ KeepsRows(projects, projects')
  BY DEF TreeGrown, Grown, KeepsRows

\* Where every row stays, positions stay in range, and those of rows that are
\* there may be added.
LEMMA RowsKept ==
  ASSUME NEW ps \in Seq(Project), NEW qs \in Seq(Project), KeepsRows(ps, qs), NEW at,
         Chosen(ps, at)
  PROVE  Chosen(qs, at)
  <1> DEFINE p == at[1]
  <1>1. /\ p \in DOMAIN ps /\ p \in DOMAIN qs /\ DOMAIN ps[p].wts \subseteq DOMAIN qs[p].wts
        /\ at[2] \in 0 .. Len(ps[p].wts)
    BY DEF Chosen, KeepsRows
  <1>2. ps[p].wts \in Seq(Worktree) /\ qs[p].wts \in Seq(Worktree)
    <2>1. ps[p] \in Project /\ qs[p] \in Project BY <1>1
    <2> QED BY <2>1 DEF Project
  <1>3. at[2] \in 0 .. Len(qs[p].wts)
    <2>1. CASE at[2] = 0 BY <1>2, <2>1
    <2>2. CASE at[2] # 0
      <3>1. at[2] \in DOMAIN ps[p].wts BY <1>1, <1>2, <2>2
      <3>2. at[2] \in DOMAIN qs[p].wts BY <1>1, <3>1
      <3> QED BY <1>2, <3>2
    <2> QED BY <2>1, <2>2
  <1> QED BY <1>1, <1>3 DEF Chosen

\* Where rows are kept, pointers stay in range that stay, go or are set to a row.
LEMMA PointersKept ==
  ASSUME Tree, Pointers, projects' \in Seq(Project), KeepsRows(projects, projects'),
         \/ active_worktree' = active_worktree \/ active_worktree' = None
         \/ /\ active_worktree' \in Nat \X Nat
            /\ Held(projects', active_worktree'[1], active_worktree'[2]),
         \/ sidebar_selection' = sidebar_selection
         \/ /\ sidebar_selection' \in Nat \X Nat /\ Chosen(projects', sidebar_selection'),
         \A s \in pr_statuses' : \/ s \in pr_statuses
                                 \/ s \in Nat \X Nat \X Paths /\ Held(projects', s[1], s[2])
  PROVE  Pointers'
  <1>1. PointerTypes'
    <2>1. PointerTypes BY DEF Pointers
    <2> QED BY <2>1 DEF PointerTypes, None
  <1>2. \A p, w : Has(p, w) => Held(projects', p, w) BY DEF Has, Held, KeepsRows
  <1>3. ActiveIn'
    <2>1. active_worktree' = None \/ Held(projects', active_worktree'[1], active_worktree'[2])
      BY <1>2 DEF Pointers, ActiveIn
    <2> QED BY <2>1 DEF ActiveIn, Has, Held
  <1>4. SelectedIn'
    <2>1. sidebar_selection = None \/ Chosen(projects, sidebar_selection)
      BY DEF Pointers, SelectedIn, Chosen
    <2>2. sidebar_selection' = None \/ Chosen(projects', sidebar_selection')
      <3> DEFINE ps == projects
                 qs == projects'
                 at == sidebar_selection
      <3>1. ps \in Seq(Project) /\ qs \in Seq(Project) /\ KeepsRows(ps, qs) BY DEF Tree
      <3>2. Chosen(ps, at) => Chosen(qs, at)
        <4> HIDE DEF ps, qs, at
        <4> QED BY <3>1, RowsKept
      <3> QED BY <2>1, <3>2
    <2> QED BY <2>2 DEF SelectedIn, Chosen
  <1>5. StatusesIn'
    <2>1. \A s \in pr_statuses' : Held(projects', s[1], s[2])
      BY <1>2 DEF Pointers, StatusesIn
    <2> QED BY <2>1 DEF StatusesIn, Has, Held
  <1> QED BY <1>1, <1>3, <1>4, <1>5 DEF Pointers

\* The user's pointers are those of rows.
LEMMA UserPointers ==
  ASSUME Tree, Pointers, UserStep
  PROVE  Pointers'
  <1>1. /\ projects' \in Seq(Project) /\ KeepsRows(projects, projects')
        /\ SameShape(projects, projects')
    BY UserTree, RedecoratedKeeps DEF Redecorated
  <1>2. pr_statuses' = pr_statuses BY UserLeaves
  <1>3. ASSUME NEW p, NEW w, Has(p, w)
        PROVE  <<p, w>> \in Nat \X Nat /\ Held(projects', p, w)
    <2>1. p \in Nat /\ w \in Nat BY <1>3, RowHas DEF Tree
    <2> QED BY <1>1, <1>3, <2>1 DEF Has, Held, KeepsRows
  <1>4. ASSUME NEW p \in DOMAIN projects, NEW w \in 0 .. Len(projects[p].wts)
        PROVE  <<p, w>> \in Nat \X Nat /\ Chosen(projects', <<p, w>>)
    <2> DEFINE ps == projects
               qs == projects'
               at == <<p, w>>
    <2>1. ps \in Seq(Project) /\ qs \in Seq(Project) /\ KeepsRows(ps, qs) /\ Chosen(ps, at)
      BY <1>1 DEF Tree, Chosen
    <2>2. Chosen(qs, at)
      <3> HIDE DEF ps, qs, at
      <3> QED BY <2>1, RowsKept
    <2>3. p \in Nat /\ w \in Nat BY DEF Tree
    <2> QED BY <2>2, <2>3
  <1>5. CASE UNCHANGED <<active_worktree, sidebar_selection>>
    BY <1>1, <1>2, <1>5, PointersKept
  <1>6. ASSUME NEW p \in DOMAIN projects, NEW w \in 0 .. Len(projects[p].wts), MoveSelection(p, w)
        PROVE  Pointers'
    <2>1. sidebar_selection' = <<p, w>> /\ active_worktree' = active_worktree
      BY <1>6 DEF MoveSelection
    <2> QED BY <1>1, <1>2, <1>4, <2>1, PointersKept
  <1>7. ASSUME NEW p \in DOMAIN projects, NEW w \in 0 .. Len(projects[p].wts), ClickRow(p, w)
        PROVE  Pointers'
    <2>1. /\ sidebar_selection' = <<p, w>>
          /\ active_worktree' = active_worktree \/ (Has(p, w) /\ active_worktree' = <<p, w>>)
      BY <1>7 DEF ClickRow, ActivateWorktree
    <2>2. /\ sidebar_selection' \in Nat \X Nat /\ Chosen(projects', sidebar_selection')
          /\ \/ active_worktree' = active_worktree
             \/ /\ active_worktree' \in Nat \X Nat
                /\ Held(projects', active_worktree'[1], active_worktree'[2])
      BY <1>3, <1>4, <2>1
    <2> QED BY <1>1, <1>2, <2>2, PointersKept
  <1>8. CASE ActivateSelection
    <2> DEFINE p == sidebar_selection[1]
               w == sidebar_selection[2]
    <2>1. w # 0 /\ active_worktree' = <<p, w>> /\ sidebar_selection' = sidebar_selection
      BY <1>8 DEF ActivateSelection, ActivateWorktree
    <2>2. Has(p, w)
      <3>1. p \in DOMAIN projects /\ w \in 0 .. Len(projects[p].wts)
        BY <2>1 DEF Pointers, SelectedIn, None
      <3>2. projects[p].wts \in Seq(Worktree) BY <3>1, ProjectHas DEF Tree
      <3> QED BY <2>1, <3>1, <3>2 DEF Has
    <2>3. /\ active_worktree' \in Nat \X Nat
          /\ Held(projects', active_worktree'[1], active_worktree'[2])
      <3> HIDE DEF p, w
      <3> QED BY <1>3, <2>1, <2>2
    <2> QED BY <1>1, <1>2, <2>1, <2>3, PointersKept
  <1>9. \/ UNCHANGED <<active_worktree, sidebar_selection>>
        \/ ActivateSelection
        \/ \E p \in DOMAIN projects : \E w \in 0 .. Len(projects[p].wts) :
             MoveSelection(p, w) \/ ClickRow(p, w)
    BY DEF UserStep, SwitchTab, OpenNewTab, CloseTab,
         OpenLauncher, Launch, CancelPrompt, AddWorktree, SubmitBranch, AskBranch,
         ImportWorktrees, AskRemoveWorktree, ConfirmRemoveWorktree, AskRemoveProject,
         RemoveProject, ConfirmRemoveProject, OpenProject, PeriodicPrCheck, uiVars
  <1> QED BY <1>5, <1>6, <1>7, <1>8, <1>9

\* A row is gone, or there was none.
RowGone(ps, qs, p, w) ==
  \/ /\ Held(ps, p, w) /\ DOMAIN qs = DOMAIN ps
     /\ \A q \in DOMAIN ps : q # p => qs[q] = ps[q]
     /\ Shortened(ps[p].wts, w, qs[p].wts)
  \/ ~Held(ps, p, w) /\ qs = ps

\* The rows behind it move up.
LEMMA RowShifted ==
  ASSUME NEW ps \in Seq(Project), NEW qs, NEW p, NEW w \in Nat \ {0}, RowGone(ps, qs, p, w),
         NEW at, Held(ps, at[1], at[2]), at[1] # p \/ at[2] # w, NEW to, to = ShiftRow(at, p, w)
  PROVE  to[1] \in Nat /\ to[2] \in Nat /\ Held(qs, to[1], to[2])
  <1>1. at[1] \in DOMAIN ps /\ at[2] \in DOMAIN ps[at[1]].wts BY DEF Held
  <1>2. ps[at[1]].wts \in Seq(Worktree)
    <2>1. ps[at[1]] \in Project BY <1>1
    <2> QED BY <2>1 DEF Project
  <1>3. at[1] \in Nat /\ at[2] \in Nat \ {0} /\ at[2] \in 1 .. Len(ps[at[1]].wts)
        /\ Len(ps[at[1]].wts) \in Nat
    BY <1>1, <1>2
  <1>4. CASE at[1] = p /\ at[2] > w
    <2>1. to = <<p, at[2] - 1>> BY <1>4 DEF ShiftRow
    <2>2. w \in DOMAIN ps[p].wts BY <1>2, <1>3, <1>4
    <2>3. DOMAIN qs = DOMAIN ps /\ DOMAIN qs[p].wts = 1 .. Len(ps[p].wts) - 1
      BY <1>1, <1>4, <2>2 DEF RowGone, Held, Shortened
    <2>4. at[2] - 1 \in 1 .. Len(ps[p].wts) - 1 BY <1>3, <1>4
    <2> QED BY <1>1, <1>3, <1>4, <2>1, <2>3, <2>4 DEF Held
  <1>5. CASE ~(at[1] = p /\ at[2] > w)
    <2>1. to = at BY <1>5 DEF ShiftRow
    <2>2. CASE at[1] # p BY <1>1, <1>3, <2>1, <2>2 DEF RowGone, Held
    <2>3. CASE at[1] = p
      <3>1. at[2] < w BY <1>3, <1>5, <2>3
      <3>2. CASE ~Held(ps, p, w) BY <1>1, <1>3, <2>1, <3>2 DEF RowGone, Held
      <3>3. CASE Held(ps, p, w)
        <4>1. DOMAIN qs = DOMAIN ps /\ DOMAIN qs[p].wts = 1 .. Len(ps[p].wts) - 1
          BY <3>3 DEF RowGone, Shortened
        <4>2. w \in 1 .. Len(ps[p].wts) BY <1>2, <2>3, <3>3 DEF Held
        <4>3. at[2] \in 1 .. Len(ps[p].wts) - 1 BY <1>3, <2>3, <3>1, <4>2
        <4> QED BY <1>1, <1>3, <2>1, <2>3, <4>1, <4>3 DEF Held
      <3> QED BY <3>2, <3>3
    <2> QED BY <2>2, <2>3
  <1> QED BY <1>4, <1>5

\* So does the selection, or it goes to a row beside.
LEMMA SelectionShifted ==
  ASSUME NEW ps \in Seq(Project), NEW qs, qs \in Seq(Project), NEW p, NEW w \in Nat \ {0},
         RowGone(ps, qs, p, w), NEW at, at \in Nat \X Nat, at = None \/ Chosen(ps, at),
         NEW count, count = IF p \in DOMAIN ps THEN Len(qs[p].wts) ELSE 0,
         NEW to, to = IF at[1] # p \/ at[2] < w THEN at
                      ELSE IF count = 0 THEN <<p, 0>>
                      ELSE IF at[2] = w THEN <<p, IF w > count THEN count ELSE w>>
                      ELSE ShiftRow(at, p, w)
  PROVE  to \in Nat \X Nat /\ (to = None \/ Chosen(qs, to))
  <1>1. CASE at = None
    <2>1. at[2] < w BY <1>1 DEF None
    <2> QED BY <1>1, <2>1
  <1>2. CASE at # None
    <2>1. Chosen(ps, at) /\ at[1] \in DOMAIN ps /\ at[2] \in 0 .. Len(ps[at[1]].wts)
      BY <1>2 DEF Chosen
    <2>2. ps[at[1]].wts \in Seq(Worktree)
      <3>1. ps[at[1]] \in Project BY <2>1
      <3> QED BY <3>1 DEF Project
    <2>3. CASE at[1] # p
      <3>1. to = at BY <2>3
      <3>2. DOMAIN qs = DOMAIN ps /\ qs[at[1]] = ps[at[1]] BY <2>1, <2>3 DEF RowGone
      <3> QED BY <2>1, <3>1, <3>2 DEF Chosen
    <2>4. CASE at[1] = p /\ at[2] < w
      <3>1. to = at BY <2>4
      <3>2. CASE ~Held(ps, p, w)
        <4>1. qs = ps BY <3>2 DEF RowGone
        <4> QED BY <2>1, <3>1, <4>1
      <3>3. CASE Held(ps, p, w)
        <4>1. DOMAIN qs = DOMAIN ps /\ Len(qs[p].wts) = Len(ps[p].wts) - 1
          BY <3>3 DEF RowGone, Shortened
        <4>2. w \in 1 .. Len(ps[p].wts) BY <2>2, <2>4, <3>3 DEF Held
        <4>3. at[2] \in 0 .. Len(qs[p].wts) BY <2>1, <2>2, <2>4, <4>1, <4>2
        <4> QED BY <2>1, <2>4, <3>1, <4>1, <4>3 DEF Chosen
      <3> QED BY <3>2, <3>3
    <2>5. CASE at[1] = p /\ ~(at[2] < w)
      <3>1. p \in DOMAIN ps /\ w \in DOMAIN ps[p].wts /\ at[2] \in 1 .. Len(ps[p].wts)
            /\ Len(ps[p].wts) \in Nat
        BY <2>1, <2>2, <2>5
      <3>2. DOMAIN qs = DOMAIN ps /\ Len(qs[p].wts) = Len(ps[p].wts) - 1
        BY <3>1 DEF RowGone, Held, Shortened
      <3>3. count = Len(ps[p].wts) - 1 /\ count = Len(qs[p].wts) /\ count \in Nat
        BY <3>1, <3>2
      <3>4. p \in Nat /\ p \in DOMAIN qs BY <2>5, <3>1, <3>2
      <3>5. \E v \in 0 .. count : to = <<p, v>>
        <4>1. CASE count = 0
          <5>1. to = <<p, 0>> BY <2>5, <4>1
          <5> QED BY <3>3, <5>1
        <4>2. CASE count # 0 /\ at[2] = w
          <5>1. to = <<p, IF w > count THEN count ELSE w>> BY <2>5, <4>2
          <5>2. (IF w > count THEN count ELSE w) \in 0 .. count BY <3>3
          <5> QED BY <5>1, <5>2
        <4>3. CASE count # 0 /\ at[2] # w
          <5>1. at[2] > w BY <2>5, <4>3
          <5>2. to = <<p, at[2] - 1>> BY <2>5, <4>3, <5>1 DEF ShiftRow
          <5>3. at[2] - 1 \in 0 .. count BY SMTT(60), <3>1, <3>3
          <5> QED BY <5>2, <5>3
        <4> QED BY <4>1, <4>2, <4>3
      <3> QED BY <3>3, <3>4, <3>5 DEF Chosen
    <2> QED BY <2>3, <2>4, <2>5
  <1> QED BY <1>1, <1>2

\* A set that has 0, and with each number the next, has them all.
LEMMA AllNumbers ==
  ASSUME NEW G, 0 \in G, \A n \in Nat : n \in G => n + 1 \in G
  PROVE  Nat \subseteq G
  <1> SUFFICES ASSUME Nat \ G # {} PROVE FALSE OBVIOUS
  <1> DEFINE x == Min(Nat \ G)
  <1>1. x \in Nat \ G /\ \A y \in Nat \ G : x <= y BY MinOf
  <1> HIDE DEF x
  <1>2. x # 0 BY <1>1
  <1>3. x - 1 \in Nat BY <1>1, <1>2
  <1>4. x - 1 \in G BY <1>1, <1>3
  <1>5. (x - 1) + 1 \in G BY <1>3, <1>4
  <1> QED BY <1>1, <1>5

\* The largest of the numbers up to n is n, if it is there.
LEMMA MaxIs ==
  ASSUME NEW n \in Nat, NEW I \in SUBSET (1 .. n), n \in I
  PROVE  Max(I) = n
  <1>1. \A y \in I : n >= y OBVIOUS
  <1>2. \A x \in I : (\A y \in I : x >= y) => x = n
    <2> SUFFICES ASSUME NEW x \in I, \A y \in I : x >= y PROVE x = n OBVIOUS
    <2>1. x >= n /\ x \in 1 .. n OBVIOUS
    <2> QED BY <2>1
  <1> QED BY <1>1, <1>2 DEF Max

\* A set of numbers up to n has its largest.
LEMMA MaxIn ==
  ASSUME NEW n \in Nat, NEW I \in SUBSET (1 .. n), I # {}
  PROVE  Max(I) \in I
  <1> DEFINE S == {n - y : y \in I}
             d == Min(S)
  <1>1. S \in SUBSET Nat /\ S # {}
    <2>1. \A y \in I : n - y \in Nat OBVIOUS
    <2> QED BY <2>1
  <1>2. d \in S /\ \A e \in S : d <= e
    <2> HIDE DEF S
    <2> QED BY <1>1, MinOf
  <1>3. PICK x \in I : d = n - x BY <1>2
  <1>4. \A y \in I : x >= y
    <2> SUFFICES ASSUME NEW y \in I PROVE x >= y OBVIOUS
    <2>1. n - x <= n - y BY <1>2, <1>3
    <2>2. x \in 1 .. n /\ y \in 1 .. n OBVIOUS
    <2> QED BY <2>1, <2>2
  <1> QED BY <1>4 DEF Max

\* The fold of the shift over the first n rows, as the community modules define it.
FoldedUp(statuses, p, rows, n, g) ==
  [I \in SUBSET (1 .. n) |->
     IF I = {} THEN statuses ELSE MovedUp(g[I \ {Max(I)}], p, rows[Max(I)])]
FoldingUp(statuses, p, rows, n) == CHOOSE g : g = FoldedUp(statuses, p, rows, n, g)

\* There is such a fold.
LEMMA FoldingExists ==
  ASSUME NEW statuses, NEW p, NEW rows, NEW n \in Nat
  PROVE  \E g : g = FoldedUp(statuses, p, rows, n, g)
  <1> DEFINE G == {m \in Nat : \E g : g = FoldedUp(statuses, p, rows, m, g)}
  <1>1. 0 \in G
    <2> DEFINE g == [I \in {{}} |-> statuses]
    <2>1. 1 .. 0 = {} OBVIOUS
    <2>2. SUBSET {} = {{}} OBVIOUS
    <2>3. g = FoldedUp(statuses, p, rows, 0, g) BY <2>1, <2>2 DEF FoldedUp
    <2> HIDE DEF g
    <2> QED BY <2>3
  <1>2. ASSUME NEW m \in Nat, m \in G PROVE m + 1 \in G
    <2>1. PICK g : g = FoldedUp(statuses, p, rows, m, g) BY <1>2
    <2> DEFINE K == 1 .. m
               J == 1 .. (m + 1)
               h == [I \in SUBSET J |-> IF m + 1 \in I THEN MovedUp(g[I \ {m + 1}], p, rows[m + 1])
                                        ELSE g[I]]
    <2>2. J = K \cup {m + 1} /\ m + 1 \notin K OBVIOUS
    <2>3. ASSUME NEW I \in SUBSET J
          PROVE  h[I] = IF I = {} THEN statuses ELSE MovedUp(h[I \ {Max(I)}], p, rows[Max(I)])
      <3>1. CASE I = {}
        <4>1. h[I] = g[I] /\ I \in SUBSET K BY <3>1
        <4>2. g[I] = statuses BY <2>1, <3>1, <4>1 DEF FoldedUp
        <4> QED BY <3>1, <4>1, <4>2
      <3>2. CASE m + 1 \in I
        <4>1. Max(I) = m + 1 BY <3>2, MaxIs
        <4>2. h[I] = MovedUp(g[I \ {m + 1}], p, rows[m + 1]) BY <3>2
        <4>3. I \ {m + 1} \in SUBSET J /\ m + 1 \notin I \ {m + 1} OBVIOUS
        <4>4. h[I \ {m + 1}] = g[I \ {m + 1}] BY <4>3
        <4> HIDE DEF h
        <4> QED BY <3>2, <4>1, <4>2, <4>4
      <3>3. CASE I # {} /\ m + 1 \notin I
        <4>1. I \in SUBSET K BY <2>2, <3>3
        <4>2. Max(I) \in I
          <5> HIDE DEF h
          <5> QED BY <3>3, <4>1, MaxIn
        <4>3. I \ {Max(I)} \in SUBSET J /\ m + 1 \notin I \ {Max(I)} BY <3>3
        <4>4. h[I \ {Max(I)}] = g[I \ {Max(I)}] BY <4>3
        <4>5. h[I] = g[I] BY <3>3
        <4>6. g[I] = MovedUp(g[I \ {Max(I)}], p, rows[Max(I)])
          BY <2>1, <3>3, <4>1 DEF FoldedUp
        <4> HIDE DEF h
        <4> QED BY <3>3, <4>4, <4>5, <4>6
      <3> QED BY <3>1, <3>2, <3>3
    <2>4. h = FoldedUp(statuses, p, rows, m + 1, h)
      <3>1. h = [I \in SUBSET J |-> h[I]] OBVIOUS
      <3> HIDE DEF h
      <3> QED BY <2>3, <3>1 DEF FoldedUp
    <2>5. m + 1 \in Nat OBVIOUS
    <2> HIDE DEF h
    <2> QED BY <2>4, <2>5
  <1>3. Nat \subseteq G
    <2> HIDE DEF G
    <2> QED BY <1>1, <1>2, AllNumbers
  <1> QED BY <1>3

\* The loop over the rows has, after each of them, some statuses: those it began with, and
\* then each time the ones before with the row's moved up.
LEMMA LoopRuns ==
  ASSUME NEW statuses, NEW p, NEW rows, NEW n \in Nat, DOMAIN rows = 1 .. n
  PROVE  \E run : /\ run[0] = statuses
                  /\ \A k \in 1 .. n : run[k] = MovedUp(run[k - 1], p, rows[k])
                  /\ run[n] = MovedUpEach(statuses, p, rows)
  <1> DEFINE g == FoldingUp(statuses, p, rows, n)
             run == [k \in 0 .. n |-> g[1 .. k]]
  <1>1. g = FoldedUp(statuses, p, rows, n, g) BY FoldingExists DEF FoldingUp
  <1>2. g[1 .. n] = MovedUpEach(statuses, p, rows)
    BY DEF MovedUpEach, FoldLeft, MapThenFoldSet, FoldingUp, FoldedUp
  <1> HIDE DEF g
  <1>3. 1 .. 0 = {} /\ 1 .. 0 \in SUBSET (1 .. n) OBVIOUS
  <1>4. g[1 .. 0] = statuses BY <1>1, <1>3 DEF FoldedUp
  <1>5. ASSUME NEW k \in 1 .. n PROVE g[1 .. k] = MovedUp(g[1 .. (k - 1)], p, rows[k])
    <2>1. 1 .. k \in SUBSET (1 .. n) /\ k \in 1 .. k /\ k \in Nat OBVIOUS
    <2>2. Max(1 .. k) = k BY <2>1, MaxIs
    <2>3. (1 .. k) \ {k} = 1 .. (k - 1) OBVIOUS
    <2>4. g[1 .. k] = MovedUp(g[(1 .. k) \ {Max(1 .. k)}], p, rows[Max(1 .. k)])
      BY <1>1, <2>1 DEF FoldedUp
    <2> QED BY <2>2, <2>3, <2>4
  <1>6. \A k \in 0 .. n : run[k] = g[1 .. k] OBVIOUS
  <1> HIDE DEF run
  <1>7. 0 \in 0 .. n /\ n \in 0 .. n /\ \A k \in 1 .. n : k \in 0 .. n /\ k - 1 \in 0 .. n OBVIOUS
  <1>8. run[0] = statuses BY <1>4, <1>6, <1>7
  <1>9. \A k \in 1 .. n : run[k] = MovedUp(run[k - 1], p, rows[k]) BY <1>5, <1>6, <1>7
  <1>10. run[n] = MovedUpEach(statuses, p, rows) BY <1>2, <1>6, <1>7
  <1> QED BY <1>8, <1>9, <1>10

\* Where the statuses behind a removed row may be when some have been moved up: each is of a
\* row behind, at its place if that is not among those moved, else one place up.  Unless two
\* were adjacent, it is still that row's own.
MovedFrom(kept, p, w, moved, t) ==
  LET behind == StatusesBehind(kept, p, w)
      apart == \A row \in behind : row + 1 \notin behind IN
  \/ t \in kept /\ (t[1] # p \/ t[2] < w)
  \/ \E s \in kept : /\ s[1] = p /\ s[2] > w /\ t = <<p, s[2] - 1, t[3]>>
                     /\ t[3] \in Paths /\ (apart => t[3] = s[3])
  \/ \E s \in kept : /\ s[1] = p /\ s[2] > w /\ s[2] \notin moved /\ t = <<p, s[2], t[3]>>
                     /\ t[3] \in Paths /\ (apart => t[3] = s[3])

\* One more row is moved.
LEMMA OneMovedUp ==
  ASSUME NEW kept \in SUBSET (Nat \X Nat \X Paths), NEW p \in Nat, NEW w \in Nat, NEW moved,
         NEW wi \in StatusesBehind(kept, p, w), NEW old,
         \A t \in old : MovedFrom(kept, p, w, moved, t), NEW t \in MovedUp(old, p, wi)
  PROVE  MovedFrom(kept, p, w, moved \cup {wi}, t)
  <1> DEFINE behind == StatusesBehind(kept, p, w)
             apart == \A row \in behind : row + 1 \notin behind
  <1>1. \A s \in kept : s = <<s[1], s[2], s[3]>> /\ s[1] \in Nat /\ s[2] \in Nat /\ s[3] \in Paths
    OBVIOUS
  <1>2. PICK own \in kept : own[1] = p /\ own[2] > w /\ own[2] = wi
    BY DEF StatusesBehind
  <1>3. \A s \in kept : s[1] = p /\ s[2] > w => s[2] \in behind BY DEF StatusesBehind
  <1>4. \/ t \in old /\ (t[1] # p \/ t[2] # wi)
        \/ \E u \in old : u[1] = p /\ u[2] = wi /\ t = <<p, wi - 1, u[3]>>
    BY DEF MovedUp
  <1>5. CASE t \in old /\ (t[1] # p \/ t[2] # wi)
    <2>1. MovedFrom(kept, p, w, moved, t) BY <1>5
    <2>2. ASSUME NEW s \in kept, s[1] = p, s[2] > w, s[2] \notin moved, t = <<p, s[2], t[3]>>
          PROVE  s[2] \notin moved \cup {wi}
      BY <1>5, <2>2
    <2> QED BY <2>1, <2>2 DEF MovedFrom
  <1>6. ASSUME NEW u \in old, u[1] = p, u[2] = wi, t = <<p, wi - 1, u[3]>>
        PROVE  MovedFrom(kept, p, w, moved \cup {wi}, t)
    <2>0. MovedFrom(kept, p, w, moved, u) OBVIOUS
    <2>1. ~(u \in kept /\ (u[1] # p \/ u[2] < w)) BY <1>1, <1>2, <1>6
    <2>2. t = <<p, own[2] - 1, t[3]>> /\ t[3] = u[3] BY <1>2, <1>6
    <2>3. ASSUME NEW s \in kept, s[1] = p, s[2] > w, u = <<p, s[2] - 1, u[3]>>
          PROVE  ~apart
      <3>1. s[2] - 1 = wi BY <1>6, <2>3
      <3>2. s[2] = wi + 1 /\ s[2] \in behind BY <1>1, <1>2, <1>3, <2>3, <3>1
      <3> QED BY <3>2
    <2>4. ASSUME NEW s \in kept, s[1] = p, s[2] > w, u = <<p, s[2], u[3]>>, apart => u[3] = s[3]
          PROVE  s[2] = wi /\ t = <<p, s[2] - 1, t[3]>> /\ (apart => t[3] = s[3])
      <3>1. s[2] = wi BY <1>6, <2>4
      <3> HIDE DEF apart
      <3> QED BY <1>6, <2>2, <2>4, <3>1
    <2>5. \/ \E s \in kept : /\ s[1] = p /\ s[2] > w /\ u = <<p, s[2] - 1, u[3]>>
                             /\ u[3] \in Paths
          \/ \E s \in kept : /\ s[1] = p /\ s[2] > w /\ u = <<p, s[2], u[3]>>
                             /\ u[3] \in Paths /\ (apart => u[3] = s[3])
      BY <2>0, <2>1 DEF MovedFrom
    <2>6. \E s \in kept : /\ s[1] = p /\ s[2] > w /\ t = <<p, s[2] - 1, t[3]>>
                          /\ t[3] \in Paths /\ (apart => t[3] = s[3])
      <3>1. CASE \E s \in kept : /\ s[1] = p /\ s[2] > w /\ u = <<p, s[2] - 1, u[3]>>
                                 /\ u[3] \in Paths
        <4>1. ~apart /\ u[3] \in Paths BY <2>3, <3>1
        <4> HIDE DEF apart
        <4> QED BY <1>2, <2>2, <4>1
      <3>2. CASE \E s \in kept : /\ s[1] = p /\ s[2] > w /\ u = <<p, s[2], u[3]>>
                                 /\ u[3] \in Paths /\ (apart => u[3] = s[3])
        <4> HIDE DEF apart
        <4> QED BY <2>2, <2>4, <3>2
      <3> QED BY <2>5, <3>1, <3>2
    <2> QED BY <2>6 DEF MovedFrom
  <1> QED BY <1>4, <1>5, <1>6

\* When the loop has gone through all rows behind the removed one, in whatever order, every
\* status is where one was that was not the removed row's, moved up if it was behind; and
\* unless two were adjacent it is the same one.
LEMMA AllMovedUp ==
  ASSUME NEW kept \in SUBSET (Nat \X Nat \X Paths), NEW p \in Nat, NEW w \in Nat,
         \A s \in kept : s[1] # p \/ s[2] # w, IsFiniteSet(StatusesBehind(kept, p, w)),
         NEW order \in SetToSeqs(StatusesBehind(kept, p, w)),
         NEW t \in MovedUpEach(kept, p, order)
  PROVE  /\ t[3] \in Paths
         /\ \E s \in kept :
              /\ t = <<ShiftRow(s, p, w)[1], ShiftRow(s, p, w)[2], t[3]>>
              /\ (\A row \in StatusesBehind(kept, p, w) :
                    row + 1 \notin StatusesBehind(kept, p, w)) => t[3] = s[3]
  <1> DEFINE behind == StatusesBehind(kept, p, w)
             n == Len(order)
             Done(k) == {order[i] : i \in 1 .. k}
  <1>1. /\ n \in Nat /\ DOMAIN order = 1 .. n /\ \A i \in 1 .. n : order[i] \in behind
        /\ \A x \in behind : \E i \in 1 .. n : order[i] = x
    BY OrderIs
  <1> HIDE DEF n
  <1>2. PICK run : /\ run[0] = kept
                   /\ \A k \in 1 .. n : run[k] = MovedUp(run[k - 1], p, order[k])
                   /\ run[n] = MovedUpEach(kept, p, order)
    <2>1. n \in Nat /\ DOMAIN order = 1 .. n BY <1>1
    <2> QED BY <2>1, LoopRuns
  <1>3. \A s \in kept : s = <<s[1], s[2], s[3]>> /\ s[1] \in Nat /\ s[2] \in Nat /\ s[3] \in Paths
    OBVIOUS
  <1> DEFINE Good(k) == \A u \in run[k] : MovedFrom(kept, p, w, Done(k), u)
             G == {k \in Nat : k <= n => Good(k)}
  <1>4. 0 \in G
    <2> SUFFICES ASSUME NEW u \in kept PROVE MovedFrom(kept, p, w, Done(0), u) BY <1>2
    <2>1. Done(0) = {} OBVIOUS
    <2>2. u[1] # p \/ u[2] < w \/ u[2] > w BY <1>3
    <2> HIDE DEF Done
    <2> QED BY <1>3, <2>1, <2>2 DEF MovedFrom
  <1>5. ASSUME NEW k \in Nat, k \in G PROVE k + 1 \in G
    <2> SUFFICES ASSUME k + 1 <= n, NEW u \in run[k + 1]
                 PROVE  MovedFrom(kept, p, w, Done(k + 1), u)
      OBVIOUS
    <2>1. k + 1 \in 1 .. n /\ (k + 1) - 1 = k /\ k <= n BY <1>1
    <2>2. \A v \in run[k] : MovedFrom(kept, p, w, Done(k), v) BY <1>5, <2>1
    <2>3. run[k + 1] = MovedUp(run[k], p, order[k + 1]) BY <1>2, <2>1
    <2>4. Done(k + 1) = Done(k) \cup {order[k + 1]}
      <3>1. 1 .. (k + 1) = (1 .. k) \cup {k + 1} OBVIOUS
      <3> QED BY <3>1
    <2>5. order[k + 1] \in behind BY <1>1, <2>1
    <2> DEFINE done == Done(k)
               wi == order[k + 1]
    <2>6. \A v \in run[k] : MovedFrom(kept, p, w, done, v) BY <2>2
    <2>7. wi \in StatusesBehind(kept, p, w) /\ u \in MovedUp(run[k], p, wi) BY <2>3, <2>5
    <2> HIDE DEF Done, Good, done, wi
    <2>8. MovedFrom(kept, p, w, done \cup {wi}, u) BY <2>6, <2>7, OneMovedUp
    <2> QED BY <2>4, <2>8 DEF done, wi
  <1>6. Nat \subseteq G
    <2> HIDE DEF G
    <2> QED BY <1>4, <1>5, AllNumbers
  <1>7. MovedFrom(kept, p, w, Done(n), t)
    <2>1. n \in G /\ n <= n BY <1>1, <1>6
    <2> HIDE DEF Done
    <2> QED BY <1>2, <2>1
  <1>8. \A s \in kept : s[1] = p /\ s[2] > w => s[2] \in Done(n)
    <2>1. \A s \in kept : s[1] = p /\ s[2] > w => s[2] \in behind BY DEF StatusesBehind
    <2>2. behind \subseteq Done(n) BY <1>1
    <2> HIDE DEF Done, behind
    <2> QED BY <2>1, <2>2
  <1> HIDE DEF Done
  <1>9. CASE t \in kept /\ (t[1] # p \/ t[2] < w)
    <2>1. t = <<t[1], t[2], t[3]>> /\ t[3] \in Paths /\ t[2] \in Nat BY <1>3, <1>9
    <2>2. ShiftRow(t, p, w) = t BY <1>9, <2>1 DEF ShiftRow
    <2> QED BY <1>9, <2>1, <2>2
  <1>10. ASSUME NEW s \in kept, s[1] = p, s[2] > w, t = <<p, s[2] - 1, t[3]>>, t[3] \in Paths,
                (\A row \in behind : row + 1 \notin behind) => t[3] = s[3]
         PROVE  /\ t[3] \in Paths
                /\ t = <<ShiftRow(s, p, w)[1], ShiftRow(s, p, w)[2], t[3]>>
                /\ (\A row \in behind : row + 1 \notin behind) => t[3] = s[3]
    <2>1. ShiftRow(s, p, w) = <<p, s[2] - 1>> BY <1>10 DEF ShiftRow
    <2> HIDE DEF behind
    <2> QED BY <1>10, <2>1
  <1>11. \/ t \in kept /\ (t[1] # p \/ t[2] < w)
         \/ \E s \in kept : /\ s[1] = p /\ s[2] > w /\ t = <<p, s[2] - 1, t[3]>>
                            /\ t[3] \in Paths
                            /\ (\A row \in behind : row + 1 \notin behind) => t[3] = s[3]
    BY <1>7, <1>8 DEF MovedFrom
  <1> HIDE DEF behind
  <1>12. CASE \E s \in kept : /\ s[1] = p /\ s[2] > w /\ t = <<p, s[2] - 1, t[3]>>
                              /\ t[3] \in Paths
                              /\ (\A row \in behind : row + 1 \notin behind) => t[3] = s[3]
    BY <1>10, <1>12 DEF behind
  <1> QED BY <1>9, <1>11, <1>12

\* The statuses after the removal of a worktree.
LEMMA StatusesMoved ==
  ASSUME Types, StatusesIn, NEW r \in inflight, WorktreeRemoved(r), NEW t \in pr_statuses'
  PROVE  /\ t[3] \in Paths
         /\ \E s \in pr_statuses :
              /\ s[1] # r.p \/ s[2] # r.w
              /\ t = <<ShiftRow(s, r.p, r.w)[1], ShiftRow(s, r.p, r.w)[2], t[3]>>
              /\ ~Scatters(r) => t[3] = s[3]
  <1> DEFINE p == r.p
             w == r.w
             kept == {s \in pr_statuses : s[1] # p \/ s[2] # w}
             behind == StatusesBehind(kept, p, w)
  <1>1. p \in Nat /\ w \in Nat /\ r.op = "rmwt" /\ r.done = "ok"
    <2>1. r.op = "rmwt" /\ r.done = "ok" /\ r \in Requests
      BY DEF WorktreeRemoved, Types, RequestTypes
    <2> QED BY <2>1 DEF Requests
  <1>2. pr_statuses \in SUBSET (Nat \X Nat \X Paths) BY DEF Types, PointerTypes
  <1>3. kept \in SUBSET (Nat \X Nat \X Paths) /\ \A s \in kept : s[1] # p \/ s[2] # w BY <1>2
  <1>4. IsFiniteSet(behind)
    <2>1. CASE p \in DOMAIN projects
      <3>1. projects[p].wts \in Seq(Worktree)
        <4>1. projects[p] \in Project BY <2>1 DEF Types, TreeTypes
        <4> QED BY <4>1 DEF Project
      <3>2. behind \subseteq 1 .. Len(projects[p].wts)
        <4>1. \A s \in pr_statuses : s[1] = p => s[2] \in DOMAIN projects[p].wts
          BY DEF StatusesIn, Has
        <4>2. DOMAIN projects[p].wts = 1 .. Len(projects[p].wts) BY <3>1
        <4> QED BY <4>1, <4>2 DEF StatusesBehind
      <3>3. Len(projects[p].wts) \in Nat BY <3>1
      <3>4. IsFiniteSet(1 .. Len(projects[p].wts)) BY <3>3, FS_Interval
      <3> QED BY <3>2, <3>4, FS_Subset
    <2>2. CASE p \notin DOMAIN projects
      <3>1. behind = {} BY <2>2 DEF StatusesBehind, StatusesIn, Has
      <3> QED BY <3>1, FS_EmptySet
    <2> QED BY <2>1, <2>2
  <1>5. PICK order \in SetToSeqs(behind) : pr_statuses' = MovedUpEach(kept, p, order)
    BY DEF WorktreeRemoved
  <1>6. ~Scatters(r) => \A row \in behind : row + 1 \notin behind
    <2>1. behind \subseteq StatusesBehind(pr_statuses, p, w) BY DEF StatusesBehind
    <2> HIDE DEF behind
    <2> QED BY <1>1, <2>1 DEF Scatters
  <1>7. kept \subseteq pr_statuses /\ t \in MovedUpEach(kept, p, order) BY <1>5
  <1> HIDE DEF kept, p, w
  <1>8. /\ t[3] \in Paths
        /\ \E s \in kept :
             /\ t = <<ShiftRow(s, p, w)[1], ShiftRow(s, p, w)[2], t[3]>>
             /\ (\A row \in behind : row + 1 \notin behind) => t[3] = s[3]
    BY <1>1, <1>3, <1>4, <1>7, AllMovedUp
  <1> HIDE DEF behind
  <1> QED BY <1>3, <1>6, <1>7, <1>8 DEF p, w

\* The reply to the removal of a worktree keeps the pointers in range.
LEMMA WorktreeRemovedPointers ==
  ASSUME Types, Tree, Pointers, NEW r \in inflight, WorktreeRemoved(r)
  PROVE  Pointers' /\ projects' \in Seq(Project) /\ AllShown(projects')
  <1> DEFINE ps == projects
             qs == projects'
             p == r.p
             w == r.w
             count == IF p \in DOMAIN ps THEN Len(qs[p].wts) ELSE 0
             a == active_worktree
             a2 == active_worktree'
             s == sidebar_selection
             s2 == sidebar_selection'
  <1>1. w \in Nat \ {0}
    <2>1. r.op = "rmwt" /\ r \in Requests BY DEF WorktreeRemoved, Types, RequestTypes
    <2> QED BY <2>1 DEF Types, RequestTypes, Requests
  <1>2. ps \in Seq(Project) /\ qs \in Seq(Project) /\ AllShown(qs) /\ RowGone(ps, qs, p, w)
    <2>1. CASE Has(p, w) BY <2>1, WorktreeRemovedTree DEF RowGone, Held, Has, Tree
    <2>2. CASE ~Has(p, w)
      <3>1. qs = ps BY <2>2 DEF WorktreeRemoved
      <3> QED BY <2>2, <3>1 DEF RowGone, Held, Has, Tree, AllShown
    <2> QED BY <2>1, <2>2
  <1>3. /\ a \in Nat \X Nat /\ s \in Nat \X Nat /\ pr_statuses \subseteq Nat \X Nat \X Paths
        /\ a = None \/ Held(ps, a[1], a[2])
        /\ s = None \/ Chosen(ps, s)
        /\ \A t \in pr_statuses : Held(ps, t[1], t[2])
    BY DEF Pointers, PointerTypes, ActiveIn, SelectedIn, StatusesIn, Has, Held, Chosen
  <1>4. /\ a2 = IF a[1] = p /\ (a[2] = w \/ (a[2] > w /\ count = 0)) THEN None
                ELSE ShiftRow(a, p, w)
        /\ s2 = IF s[1] # p \/ s[2] < w THEN s
                ELSE IF count = 0 THEN <<p, 0>>
                ELSE IF s[2] = w THEN <<p, IF w > count THEN count ELSE w>>
                ELSE ShiftRow(s, p, w)
    BY DEF WorktreeRemoved
  <1>5. count = IF p \in DOMAIN ps THEN Len(qs[p].wts) ELSE 0 OBVIOUS
  <1>13. \A t \in pr_statuses' :
           /\ t[3] \in Paths
           /\ \E u \in pr_statuses :
                /\ u[1] # r.p \/ u[2] # r.w
                /\ t = <<ShiftRow(u, r.p, r.w)[1], ShiftRow(u, r.p, r.w)[2], t[3]>>
    <2>1. StatusesIn BY DEF Pointers
    <2> QED BY <2>1, StatusesMoved
  <1> HIDE DEF ps, qs, p, w, count, a, a2, s, s2
  <1>6. a2 \in Nat \X Nat /\ (a2 = None \/ Held(qs, a2[1], a2[2]))
    <2>1. CASE a2 = None BY <2>1 DEF None
    <2>2. CASE a2 # None /\ a = None
      <3>1. ShiftRow(a, p, w) = None BY <1>1, <2>2 DEF ShiftRow, None
      <3> QED BY <1>4, <2>2, <3>1
    <2>3. CASE a2 # None /\ a # None
      <3> DEFINE to == ShiftRow(a, p, w)
      <3>1. a2 = to /\ (a[1] # p \/ a[2] # w) BY <1>4, <2>3
      <3>2. Held(ps, a[1], a[2]) /\ to = ShiftRow(a, p, w) BY <1>3, <2>3
      <3> HIDE DEF to
      <3>3. to[1] \in Nat /\ to[2] \in Nat /\ Held(qs, to[1], to[2])
        BY <1>1, <1>2, <3>1, <3>2, RowShifted
      <3>4. \E x, y : to = <<x, y>>
        <4>1. a = <<a[1], a[2]>> BY <1>3
        <4> QED BY <3>2, <4>1 DEF ShiftRow
      <3> QED BY <3>1, <3>3, <3>4
    <2> QED BY <2>1, <2>2, <2>3
  <1>7. s2 \in Nat \X Nat /\ (s2 = None \/ Chosen(qs, s2))
    <2>1. s \in Nat \X Nat /\ (s = None \/ Chosen(ps, s)) BY <1>3
    <2>2. s2 = IF s[1] # p \/ s[2] < w THEN s
               ELSE IF count = 0 THEN <<p, 0>>
               ELSE IF s[2] = w THEN <<p, IF w > count THEN count ELSE w>>
               ELSE ShiftRow(s, p, w)
      BY <1>4
    <2> QED BY SMTT(60), <1>1, <1>2, <1>5, <2>1, <2>2, SelectionShifted
  <1>8. \A t \in pr_statuses' : t \in Nat \X Nat \X Paths /\ Held(qs, t[1], t[2])
    <2> SUFFICES ASSUME NEW t \in pr_statuses'
                 PROVE  t \in Nat \X Nat \X Paths /\ Held(qs, t[1], t[2])
      OBVIOUS
    <2>1. PICK u \in pr_statuses :
             /\ u[1] # p \/ u[2] # w
             /\ t[3] \in Paths /\ t = <<ShiftRow(u, p, w)[1], ShiftRow(u, p, w)[2], t[3]>>
      BY <1>13 DEF p, w
    <2> DEFINE to == ShiftRow(u, p, w)
    <2>2. Held(ps, u[1], u[2]) BY <1>3
    <2>3. to[1] \in Nat /\ to[2] \in Nat /\ Held(qs, to[1], to[2])
      <3>1. to = ShiftRow(u, p, w) OBVIOUS
      <3> HIDE DEF to
      <3> QED BY <1>1, <1>2, <2>1, <2>2, <3>1, RowShifted
    <2>4. t = <<to[1], to[2], t[3]>> BY <2>1
    <2> HIDE DEF to
    <2> QED BY <2>1, <2>3, <2>4
  <1>9. PointerTypes' BY <1>6, <1>7, <1>8 DEF PointerTypes, a2, s2
  <1>10. ActiveIn' BY <1>6 DEF ActiveIn, Has, Held, a2, qs
  <1>11. SelectedIn' BY <1>7 DEF SelectedIn, Chosen, s2, qs
  <1>12. StatusesIn' BY <1>8 DEF StatusesIn, Has, Held, qs
  <1> QED BY <1>2, <1>9, <1>10, <1>11, <1>12 DEF Pointers, qs

\* A project is gone: those behind it move up.
ProjectGone(ps, qs, p) ==
  /\ p \in DOMAIN ps /\ DOMAIN qs = 1 .. Len(ps) - 1
  /\ \A q \in DOMAIN qs : qs[q] = ps[IF q < p THEN q ELSE q + 1]
\* A project behind the one that is gone moves up by one.
LEMMA ProjectShifted ==
  ASSUME NEW ps \in Seq(Project), NEW qs, NEW p, ProjectGone(ps, qs, p),
         NEW i \in DOMAIN ps, i # p, NEW to, to = ShiftProject(i, p)
  PROVE  to \in Nat /\ to \in DOMAIN qs /\ qs[to] = ps[i]
  <1>1. /\ p \in 1 .. Len(ps) /\ DOMAIN qs = 1 .. Len(ps) - 1 /\ i \in 1 .. Len(ps)
        /\ Len(ps) \in Nat
    BY DEF ProjectGone
  <1>2. to = IF i > p THEN i - 1 ELSE i BY DEF ShiftProject
  <1>3. to \in 1 .. Len(ps) - 1 /\ (IF to < p THEN to ELSE to + 1) = i BY <1>1, <1>2
  <1>4. qs[to] = ps[IF to < p THEN to ELSE to + 1] BY <1>1, <1>3 DEF ProjectGone
  <1> QED BY <1>1, <1>3, <1>4

\* The reply to the removal of a project keeps the pointers in range.
LEMMA ProjectRemovedPointers ==
  ASSUME Types, Tree, Pointers, NEW r \in inflight, ProjectRemoved(r)
  PROVE  Pointers' /\ projects' \in Seq(Project) /\ AllShown(projects')
  <1> DEFINE ps == projects
             qs == projects'
             p == IndexOf(r.slug)
             a == active_worktree
             a2 == active_worktree'
             s == sidebar_selection
             s2 == sidebar_selection'
  <1>1. CASE p = 0
    <2>1. UNCHANGED <<projects, active_worktree, sidebar_selection, pr_statuses>>
      BY <1>1 DEF ProjectRemoved
    <2>2. projects' \in Seq(Project) /\ KeepsRows(projects, projects') /\ AllShown(projects')
      BY <2>1, TreeUnchanged, RedecoratedKeeps DEF Redecorated
    <2> QED BY <2>1, <2>2, PointersKept
  <1>2. CASE p # 0
    <2>1. /\ ps \in Seq(Project) /\ qs \in Seq(Project) /\ AllShown(qs)
          /\ ProjectGone(ps, qs, p)
      BY <1>2, ProjectRemovedTree DEF ProjectGone, Tree
    <2>2. /\ a \in Nat \X Nat /\ s \in Nat \X Nat /\ pr_statuses \subseteq Nat \X Nat \X Paths
          /\ a = None \/ Held(ps, a[1], a[2])
          /\ s = None \/ Chosen(ps, s)
          /\ \A t \in pr_statuses : Held(ps, t[1], t[2])
      BY DEF Pointers, PointerTypes, ActiveIn, SelectedIn, StatusesIn, Has, Held, Chosen
    <2>3. /\ a2 = IF a[1] = p THEN None ELSE <<ShiftProject(a[1], p), a[2]>>
          /\ \/ s[1] # p /\ s2 = <<ShiftProject(s[1], p), s[2]>>
             \/ s2 = None
             \/ \E i \in DOMAIN qs : s2 = <<i, 0>>
          /\ pr_statuses' = {<<ShiftProject(t[1], p), t[2], t[3]>> :
                               t \in {u \in pr_statuses : u[1] # p}}
      BY <1>2 DEF ProjectRemoved
    <2>4. p \in Nat \ {0} BY <2>1 DEF ProjectGone
    <2> HIDE DEF ps, qs, p, a, a2, s, s2
    <2>5. ShiftProject(0, p) = 0 BY <2>4 DEF ShiftProject
    <2>6. a2 \in Nat \X Nat /\ (a2 = None \/ Held(qs, a2[1], a2[2]))
      <3>1. CASE a2 = None BY <3>1 DEF None
      <3>2. CASE a2 # None
        <4>1. a[1] # p /\ a2 = <<ShiftProject(a[1], p), a[2]>> BY <2>3, <3>2
        <4>2. a # None BY <2>5, <3>2, <4>1 DEF None
        <4>3. a[1] \in DOMAIN ps /\ a[2] \in DOMAIN ps[a[1]].wts BY <2>2, <4>2 DEF Held
        <4> DEFINE to == ShiftProject(a[1], p)
        <4>4. to = ShiftProject(a[1], p) OBVIOUS
        <4> HIDE DEF to
        <4>5. to \in Nat /\ to \in DOMAIN qs /\ qs[to] = ps[a[1]]
          BY <2>1, <4>1, <4>3, <4>4, ProjectShifted
        <4> QED BY <2>2, <4>1, <4>3, <4>4, <4>5 DEF Held
      <3> QED BY <3>1, <3>2
    <2>7. s2 \in Nat \X Nat /\ (s2 = None \/ Chosen(qs, s2))
      <3>1. CASE s2 = None BY <3>1 DEF None
      <3>2. CASE \E i \in DOMAIN qs : s2 = <<i, 0>>
        <4>1. PICK i \in DOMAIN qs : s2 = <<i, 0>> BY <3>2
        <4>2. qs[i].wts \in Seq(Worktree) /\ i \in Nat
          <5>1. qs[i] \in Project BY <2>1
          <5> QED BY <2>1, <5>1 DEF Project
        <4>3. 0 \in 0 .. Len(qs[i].wts) BY <4>2
        <4> QED BY <4>1, <4>2, <4>3 DEF Chosen
      <3>3. CASE s2 # None /\ s[1] # p /\ s2 = <<ShiftProject(s[1], p), s[2]>>
        <4>2. s # None BY <2>5, <3>3 DEF None
        <4>3. s[1] \in DOMAIN ps /\ s[2] \in 0 .. Len(ps[s[1]].wts) BY <2>2, <4>2 DEF Chosen
        <4> DEFINE to == ShiftProject(s[1], p)
        <4>4. to = ShiftProject(s[1], p) OBVIOUS
        <4> HIDE DEF to
        <4>5. to \in Nat /\ to \in DOMAIN qs /\ qs[to] = ps[s[1]]
          BY <2>1, <3>3, <4>3, <4>4, ProjectShifted
        <4> QED BY <2>2, <3>3, <4>3, <4>4, <4>5 DEF Chosen
      <3> QED BY <2>3, <3>1, <3>2, <3>3
    <2>8. \A t \in pr_statuses' : t \in Nat \X Nat \X Paths /\ Held(qs, t[1], t[2])
      <3> SUFFICES ASSUME NEW t \in pr_statuses, t[1] # p, NEW to, to = ShiftProject(t[1], p)
                   PROVE  <<to, t[2], t[3]>> \in Nat \X Nat \X Paths /\ Held(qs, to, t[2])
        BY <2>3
      <3>1. t[1] \in DOMAIN ps /\ t[2] \in DOMAIN ps[t[1]].wts /\ t[2] \in Nat /\ t[3] \in Paths
        BY <2>2 DEF Held
      <3>2. to \in Nat /\ to \in DOMAIN qs /\ qs[to] = ps[t[1]]
        BY <2>1, <3>1, ProjectShifted
      <3> QED BY <3>1, <3>2 DEF Held
    <2>9. PointerTypes' BY <2>6, <2>7, <2>8 DEF PointerTypes, a2, s2
    <2>10. ActiveIn' BY <2>6 DEF ActiveIn, Has, Held, a2, qs
    <2>11. SelectedIn' BY <2>7 DEF SelectedIn, Chosen, s2, qs
    <2>12. StatusesIn' BY <2>8 DEF StatusesIn, Has, Held, qs
    <2> QED BY <2>1, <2>9, <2>10, <2>11, <2>12 DEF Pointers, qs
  <1> QED BY <1>1, <1>2

\* The pointers stay while the tree changes under them.
LEMMA PointersUntouched ==
  ASSUME Tree, Pointers, UNCHANGED <<active_worktree, sidebar_selection, pr_statuses>>,
         Redecorated \/ TreeGrown
  PROVE  Pointers' /\ projects' \in Seq(Project) /\ AllShown(projects')
  <1>1. /\ projects' \in Seq(Project) /\ KeepsRows(projects, projects') /\ AllShown(projects')
    BY RedecoratedKeeps, GrownKeeps DEF Redecorated, TreeGrown
  <1> QED BY <1>1, PointersKept

\* A project that is opened may be selected.
LEMMA ValidatedPointers ==
  ASSUME Types, Tree, Pointers, NEW r \in inflight, ProjectValidated(r)
  PROVE  Pointers' /\ projects' \in Seq(Project) /\ AllShown(projects')
  <1> DEFINE p == Len(projects) + 1
  <1>1. /\ projects' \in Seq(Project) /\ KeepsRows(projects, projects') /\ AllShown(projects')
        /\ Len(projects') = p
    BY ValidatedTree, GrownKeeps DEF TreeGrown
  <1>2. /\ active_worktree' = active_worktree /\ pr_statuses' = pr_statuses
        /\ sidebar_selection' = sidebar_selection \/ sidebar_selection' = <<p, 0>>
    BY DEF ProjectValidated
  <1>3. p \in Nat /\ p \in DOMAIN projects'
    <2>1. Len(projects) \in Nat BY DEF Tree
    <2> QED BY <1>1, <2>1
  <1> HIDE DEF p
  <1>4. <<p, 0>> \in Nat \X Nat /\ Chosen(projects', <<p, 0>>)
    <2> DEFINE qs == projects'
    <2>1. qs \in Seq(Project) /\ p \in DOMAIN qs BY <1>1, <1>3
    <2> HIDE DEF qs
    <2>2. qs[p].wts \in Seq(Worktree)
      <3>1. qs[p] \in Project BY <2>1
      <3> QED BY <3>1 DEF Project
    <2>3. 0 \in 0 .. Len(qs[p].wts) BY <2>2
    <2> QED BY <1>3, <2>1, <2>3 DEF Chosen, qs
  <1> QED BY <1>1, <1>2, <1>4, PointersKept

\* A worktree that is added becomes the active one, and is selected.
LEMMA AddedPointers ==
  ASSUME Types, Tree, Pointers, NEW r \in inflight, WorktreeAdded(r)
  PROVE  Pointers' /\ projects' \in Seq(Project) /\ AllShown(projects')
  <1>1. TreeGrown BY AddedTree
  <1>2. CASE r.p \notin DOMAIN projects
    <2>1. UNCHANGED <<active_worktree, sidebar_selection, pr_statuses>>
      BY <1>2 DEF WorktreeAdded
    <2> QED BY <1>1, <2>1, PointersUntouched
  <1>3. CASE r.p \in DOMAIN projects
    <2> DEFINE p == r.p
               w == Len(projects[r.p].wts) + 1
               qs == projects'
    <2>1. /\ active_worktree' = <<p, w>> /\ sidebar_selection' = <<p, w>>
          /\ pr_statuses' = pr_statuses
      BY <1>3 DEF WorktreeAdded
    <2>2. /\ qs \in Seq(Project) /\ KeepsRows(projects, qs) /\ AllShown(qs)
          /\ p \in DOMAIN qs /\ w \in DOMAIN qs[p].wts
      BY <1>1, <1>3, AddedTree, GrownKeeps DEF TreeGrown
    <2> HIDE DEF p, w, qs
    <2>3. qs[p].wts \in Seq(Worktree)
      <3>1. qs[p] \in Project BY <2>2
      <3> QED BY <3>1 DEF Project
    <2>4. p \in Nat /\ w \in Nat /\ w \in 0 .. Len(qs[p].wts) BY <2>2, <2>3
    <2>5. <<p, w>> \in Nat \X Nat /\ Held(qs, p, w) /\ Chosen(qs, <<p, w>>)
      BY <2>2, <2>4 DEF Held, Chosen
    <2>6. /\ active_worktree' \in Nat \X Nat
          /\ Held(projects', active_worktree'[1], active_worktree'[2])
          /\ sidebar_selection' \in Nat \X Nat /\ Chosen(projects', sidebar_selection')
      BY <2>1, <2>5 DEF qs
    <2>7. projects' \in Seq(Project) /\ KeepsRows(projects, projects') BY <2>2 DEF qs
    <2> QED BY <2>1, <2>2, <2>6, <2>7, PointersKept DEF qs
  <1> QED BY <1>2, <1>3

\* The statuses that are fetched are put beside rows that are there.
LEMMA FetchedPointers ==
  ASSUME Types, Tree, Pointers, NEW r \in inflight, NEW hit, PrStatusesFetched(r, hit)
  PROVE  Pointers' /\ projects' \in Seq(Project) /\ AllShown(projects')
  <1>1. Redecorated BY TreeUnchanged DEF PrStatusesFetched, treeVars
  <1>2. projects' \in Seq(Project) /\ KeepsRows(projects, projects') /\ AllShown(projects')
    BY <1>1, RedecoratedKeeps DEF Redecorated
  <1>3. UNCHANGED <<active_worktree, sidebar_selection, projects>>
    BY DEF PrStatusesFetched, treeVars
  <1> DEFINE p == IndexOf(r.slug)
             rows == {row \in r.rows : Has(p, row[1])}
  <1>4. pr_statuses' = {s \in pr_statuses : s[1] # p \/ \A row \in rows : s[2] # row[1]} \cup
                       {<<p, row[1], row[2]>> : row \in rows \cap hit}
    BY DEF PrStatusesFetched
  <1>5. p \in Nat
    <2>1. p \in 0 .. Len(projects) /\ Len(projects) \in Nat BY IndexIs DEF Tree
    <2> QED BY <2>1
  <1>6. \A row \in rows : row[1] \in Nat /\ row[2] \in Paths /\ Held(projects', p, row[1])
    <2>1. r.rows \subseteq Nat \X Paths BY DEF Types, RequestTypes, Requests
    <2> HIDE DEF p
    <2> QED BY <1>3, <2>1 DEF Has, Held
  <1> HIDE DEF p, rows
  <1>7. \A s \in pr_statuses' : \/ s \in pr_statuses
                                \/ s \in Nat \X Nat \X Paths /\ Held(projects', s[1], s[2])
    BY <1>4, <1>5, <1>6
  <1> QED BY <1>2, <1>3, <1>7, PointersKept

\* A reply keeps the pointers in range.
LEMMA AppliedPointers ==
  ASSUME Types, Tree, Pointers, NEW r \in inflight, Applied(r)
  PROVE  Pointers' /\ projects' \in Seq(Project) /\ AllShown(projects')
  <1>1. CASE SessionSpawned(r)
    <2>1. UNCHANGED <<active_worktree, sidebar_selection, pr_statuses>>
      BY <1>1 DEF SessionSpawned, uiVars
    <2> QED BY <1>1, <2>1, SpawnedTree, PointersUntouched
  <1>2. CASE WorktreesImported(r)
    <2>1. UNCHANGED <<active_worktree, sidebar_selection, pr_statuses>>
      BY <1>2 DEF WorktreesImported, uiVars
    <2> QED BY <1>2, <2>1, ImportedTree, PointersUntouched
  <1>3. CASE OperationFailed(r) \/ PrFetchFailed(r)
    <2>1. UNCHANGED <<active_worktree, sidebar_selection, pr_statuses, projects>>
      BY <1>3 DEF OperationFailed, PrFetchFailed, uiVars, treeVars
    <2> QED BY <2>1, TreeUnchanged, PointersUntouched
  <1> QED BY <1>1, <1>2, <1>3, ValidatedPointers, AddedPointers, WorktreeRemovedPointers,
            ProjectRemovedPointers, FetchedPointers DEF Applied

\* A supervisor that is lost takes the active worktree with it, if it was its own.
LEMMA LostPointers ==
  ASSUME Types, Tree, Pointers, NEW sup, SupervisorLost(sup)
  PROVE  Pointers' /\ projects' \in Seq(Project) /\ AllShown(projects')
  <1>1. projects' \in Seq(Project) /\ KeepsRows(projects, projects') /\ AllShown(projects')
    BY LostTree, RedecoratedKeeps DEF Redecorated
  <1>2. /\ active_worktree' = active_worktree \/ active_worktree' = None
        /\ UNCHANGED <<sidebar_selection, pr_statuses>>
    BY DEF SupervisorLost
  <1> QED BY <1>1, <1>2, PointersKept

\* One that is back may bring an active worktree.
LEMMA ConnectedPointers ==
  ASSUME Types, Tree, Pointers, NEW sup, SupervisorConnected(sup)
  PROVE  Pointers' /\ projects' \in Seq(Project) /\ AllShown(projects')
  <1>1. projects' \in Seq(Project) /\ KeepsRows(projects, projects') /\ AllShown(projects')
    BY ConnectedTree, RedecoratedKeeps DEF Redecorated
  <1>2. /\ active_worktree' = active_worktree \/ active_worktree' \in Homes(sup)
        /\ UNCHANGED <<sidebar_selection, pr_statuses>>
    BY DEF SupervisorConnected, Homes, Homed
  <1>3. ASSUME NEW h \in Homes(sup)
        PROVE  h \in Nat \X Nat /\ Held(projects', h[1], h[2])
    <2>1. PICK s \in Homed(sup) : h = Located(s) BY DEF Homes
    <2>2. Has(h[1], h[2]) /\ h = <<h[1], h[2]>> BY <2>1, LocatedIs DEF Homed
    <2>3. h[1] \in Nat /\ h[2] \in Nat BY <2>2, RowHas DEF Tree
    <2> QED BY <1>1, <2>2, <2>3 DEF Has, Held, KeepsRows
  <1>4. \/ active_worktree' = active_worktree \/ active_worktree' = None
        \/ /\ active_worktree' \in Nat \X Nat
           /\ Held(projects', active_worktree'[1], active_worktree'[2])
    BY <1>2, <1>3
  <1> QED BY <1>1, <1>2, <1>4, PointersKept

\* Every step keeps the pointers in range.
LEMMA PointersStep ==
  ASSUME Types, Tree, Pointers, Next
  PROVE  Pointers' /\ projects' \in Seq(Project) /\ AllShown(projects')
  <1>1. CASE UserStep BY <1>1, UserPointers, UserTree DEF Redecorated
  <1>2. CASE SupervisorStep
    <2>1. UNCHANGED <<active_worktree, sidebar_selection, pr_statuses, projects>>
      BY <1>2 DEF SupervisorStep, Handle, ShellExits, uiVars, treeVars
    <2> QED BY <2>1, TreeUnchanged, PointersUntouched
  <1>3. CASE \E r \in inflight : Applied(r) BY <1>3, AppliedPointers
  <1>4. CASE \E s \in exited : SessionExited(s)
    <2>1. PICK s \in exited : SessionExited(s) BY <1>4
    <2>2. UNCHANGED <<active_worktree, sidebar_selection, pr_statuses>>
      BY <2>1 DEF SessionExited, uiVars
    <2>3. projects' = WithoutSession(projects, GlobalId(s)) BY <2>1 DEF SessionExited
    <2> QED BY <2>2, <2>3, ExitedTree, PointersUntouched
  <1>5. CASE LinkStep BY <1>5, LostPointers, ConnectedPointers DEF LinkStep
  <1> QED BY <1>1, <1>2, <1>3, <1>4, <1>5 DEF Next

-----------------------------------------------------------------------------
(* Handles and files *)

\* The handles that are added are handles.
LEMMA SessionsStep ==
  ASSUME Types, Tree, Next
  PROVE  sessions' \subseteq Handles
  <1>0. sessions \subseteq Handles BY DEF Types, TreeTypes
  <1>1. CASE UserStep BY <1>0, <1>1, UserTree
  <1>2. CASE SupervisorStep
    <2>1. sessions' = sessions BY <1>2 DEF SupervisorStep, Handle, ShellExits, treeVars
    <2> QED BY <1>0, <2>1
  <1>3. ASSUME NEW r \in inflight, Applied(r) PROVE sessions' \subseteq Handles
    <2>1. CASE SessionSpawned(r) BY <2>1, SpawnedTree
    <2>2. CASE ~SessionSpawned(r)
      <3>1. sessions' \subseteq sessions
        BY <1>3, <2>2 DEF Applied, ProjectValidated, WorktreesImported, WorktreeAdded,
             WorktreeRemoved, ProjectRemoved, OperationFailed, PrFetchFailed, PrStatusesFetched,
             treeVars
      <3> QED BY <1>0, <3>1
    <2> QED BY <2>1, <2>2
  <1>4. CASE \E s \in exited : SessionExited(s)
    <2>1. sessions' \subseteq sessions BY <1>4 DEF SessionExited
    <2> QED BY <1>0, <2>1
  <1>5. ASSUME NEW sup, SupervisorLost(sup) \/ SupervisorConnected(sup)
        PROVE  sessions' \subseteq Handles
    BY <1>0, <1>5, LostTree, ConnectedTree
  <1> QED BY <1>1, <1>2, <1>3, <1>4, <1>5 DEF Next, LinkStep

\* What a project is saved as.
LEMMA SavedAsIs ==
  ASSUME NEW ps \in Seq(Project), NEW p \in DOMAIN ps
  PROVE  /\ SavedAs(ps, p) \in [slug : Nat \ {0}, rows : Seq(Paths)]
         /\ SavedAs(ps, p).slug = ps[p].slug
  <1> DEFINE wts == ps[p].wts
             rows == [w \in DOMAIN wts |-> wts[w].path]
  <1>1. ps[p].slug \in Nat \ {0} /\ wts \in Seq(Worktree)
    <2>1. ps[p] \in Project OBVIOUS
    <2> QED BY <2>1 DEF Project
  <1>2. rows \in Seq(Paths)
    <2> HIDE DEF wts
    <2>1. Len(wts) \in Nat /\ DOMAIN wts = 1 .. Len(wts) BY <1>1
    <2>2. \A w \in DOMAIN wts : wts[w].path \in Paths
      <3>1. \A w \in DOMAIN wts : wts[w] \in Worktree BY <1>1
      <3> QED BY <3>1 DEF Worktree
    <2>3. rows \in [1 .. Len(wts) -> Paths] BY <2>1, <2>2
    <2> HIDE DEF rows
    <2> QED BY <2>1, <2>3
  <1>3. SavedAs(ps, p) = [slug |-> ps[p].slug, rows |-> rows] BY DEF SavedAs
  <1> HIDE DEF rows
  <1> QED BY <1>1, <1>2, <1>3

\* The files have their type.
LEMMA SavedStep ==
  ASSUME Types, projects' \in Seq(Project), Next
  PROVE  SavedTypes'
  <1>0. SavedTypes BY DEF Types
  <1>1. ASSUME NEW p, saved' = SaveProject(projects', p)
        PROVE  SavedTypes'
    <2>1. CASE p \in DOMAIN projects'
      <3> DEFINE ps == projects'
                 f == SavedAs(ps, p)
      <3>1. f \in [slug : Nat \ {0}, rows : Seq(Paths)]
        <4>1. ps \in Seq(Project) /\ p \in DOMAIN ps BY <2>1
        <4> HIDE DEF ps
        <4> QED BY <4>1, SavedAsIs
      <3>2. saved' \subseteq saved \cup {f} BY <1>1, <2>1 DEF SaveProject
      <3> HIDE DEF f
      <3> QED BY <1>0, <3>1, <3>2 DEF SavedTypes
    <2>2. CASE p \notin DOMAIN projects'
      <3>1. saved' = saved BY <1>1, <2>2 DEF SaveProject
      <3> QED BY <1>0, <3>1 DEF SavedTypes
    <2> QED BY <2>1, <2>2
  <1>2. CASE saved' \subseteq saved BY <1>0, <1>2 DEF SavedTypes
  <1>3. saved' \subseteq saved \/ \E p : saved' = SaveProject(projects', p)
    <2>1. CASE UserStep BY <2>1, UserLeaves
    <2>2. CASE SupervisorStep \/ (\E s \in exited : SessionExited(s)) \/ LinkStep
      BY <2>2, OtherLeaves
    <2>3. CASE \E r \in inflight : Applied(r)
      <3>1. PICK r \in inflight : Applied(r) BY <2>3
      <3>2. CASE SessionSpawned(r) \/ OperationFailed(r) \/ PrFetchFailed(r)
                 \/ \E hit \in SUBSET r.rows : PrStatusesFetched(r, hit)
        BY <3>2 DEF SessionSpawned, OperationFailed, PrFetchFailed, PrStatusesFetched, treeVars
      <3>3. CASE ProjectValidated(r) BY <3>3 DEF ProjectValidated
      <3>4. CASE WorktreesImported(r) BY <3>4 DEF WorktreesImported
      <3>5. CASE WorktreeAdded(r) BY <3>5 DEF WorktreeAdded
      <3>6. CASE WorktreeRemoved(r) BY <3>6 DEF WorktreeRemoved
      <3>7. CASE ProjectRemoved(r) BY <3>7 DEF ProjectRemoved
      <3> QED BY <3>1, <3>2, <3>3, <3>4, <3>5, <3>6, <3>7 DEF Applied
    <2> QED BY <2>1, <2>2, <2>3 DEF Next
  <1> QED BY <1>1, <1>2, <1>3

-----------------------------------------------------------------------------
(* Types and positions *)

\* Initially nothing runs, and what is loaded has its type.
LEMMA PositionInit ==
  ASSUME Init
  PROVE  PositionInv
  <1>1. projects \in Seq(Project) /\ sessions \subseteq Handles
    BY LoadedAssumption DEF Init
  <1>2. SelectedIn /\ sidebar_selection \in Nat \X Nat
    <2>1. CASE sidebar_selection = None BY <2>1 DEF SelectedIn, None
    <2>2. CASE sidebar_selection # None
      <3>1. PICK i \in DOMAIN projects : sidebar_selection = <<i, 0>> BY <2>2 DEF Init
      <3>2. projects[i].wts \in Seq(Worktree) BY <1>1, ProjectHas
      <3>3. 0 \in 0 .. Len(projects[i].wts) BY <3>2
      <3>4. i \in Nat BY <1>1
      <3> QED BY <3>1, <3>3, <3>4 DEF SelectedIn
    <2> QED BY <2>1, <2>2
  <1>3. PointerTypes /\ ActiveIn /\ StatusesIn
    BY <1>2 DEF Init, PointerTypes, ActiveIn, StatusesIn, None
  <1>4. TabsShown BY LoadedAssumption DEF Init, TabsShown, TabShown
  <1>5. PopupTypes BY DEF Init, PopupTypes, NoPopup, Asked
  <1>6. SavedTypes
    <2>1. \A p \in DOMAIN projects :
            SavedAs(projects, p) \in [slug : Nat \ {0}, rows : Seq(Paths)]
      BY <1>1, SavedAsIs
    <2> QED BY <2>1 DEF Init, SavedTypes
  <1>7. RequestTypes BY DEF Init, RequestTypes
  <1>8. LinkTypes BY BoundsAssumption DEF Init, LinkTypes, Sups
  <1>9. ShellTypes
    <2>1. \A p \in DOMAIN Loaded : \A w \in DOMAIN Loaded[p].wts : Loaded[p].wts[w].path \in Paths
      BY <1>1, RowsAre DEF Init
    <2>2. git \subseteq Paths BY <2>1, LoadedAssumption DEF Init, Paths
    <2>3. IsFiniteSet({}) BY FS_EmptySet
    <2> QED BY <2>2, <2>3 DEF Init, ShellTypes
  <1>10. HistoryTypes BY DEF Init, HistoryTypes
  <1> QED BY <1>1, <1>2, <1>3, <1>4, <1>5, <1>6, <1>7, <1>8, <1>9, <1>10
      DEF PositionInv, Types, TreeTypes

\* Every step keeps types and positions.
LEMMA PositionStep ==
  ASSUME PositionInv, [Next]_vars
  PROVE  PositionInv'
  <1>1. CASE UNCHANGED vars
    <2>1. UNCHANGED <<projects, sessions, active_worktree, sidebar_selection, pr_statuses,
                      pending_op, popup, saved, connected, inflight, live, exited, git,
                      issued, losses, misled, crossed, outdated, scattered>>
      BY <1>1 DEF vars, uiVars, treeVars, reqVars, supVars, linkVars
    <2>2. TreeTypes' /\ PointerTypes' /\ PopupTypes' /\ SavedTypes'
      BY <2>1 DEF PositionInv, Types, TreeTypes, PointerTypes, PopupTypes, SavedTypes
    <2>3. RequestTypes' /\ LinkTypes' /\ ShellTypes' /\ HistoryTypes'
      BY <2>1 DEF PositionInv, Types, RequestTypes, LinkTypes, ShellTypes, HistoryTypes
    <2>4. ActiveIn' /\ SelectedIn' /\ StatusesIn' /\ TabsShown'
      BY <2>1 DEF PositionInv, ActiveIn, SelectedIn, StatusesIn, TabsShown, Has
    <2> QED BY <2>2, <2>3, <2>4 DEF PositionInv, Types
  <1>2. CASE Next
    <2>1. Types /\ ActiveIn /\ SelectedIn /\ Tree /\ Pointers
      BY DEF PositionInv, Types, TreeTypes, Tree, Pointers, TabsShown, AllShown
    <2>2. Pointers' /\ projects' \in Seq(Project) /\ AllShown(projects')
      BY <1>2, <2>1, PointersStep
    <2>3. TreeTypes' /\ SavedTypes'
      BY <1>2, <2>1, <2>2, SessionsStep, SavedStep DEF TreeTypes
    <2>4. RequestTypes' BY <1>2, <2>1, RequestsKept
    <2>5. LinkTypes' BY <1>2, <2>1, LinksKept
    <2>6. ShellTypes' BY <1>2, <2>1, ShellsKept
    <2>7. HistoryTypes' BY <1>2, <2>1, HistoryKept
    <2>8. PopupTypes' BY <1>2, <2>1, PopupKept
    <2>9. PointerTypes' /\ ActiveIn' /\ SelectedIn' /\ StatusesIn' BY <2>2 DEF Pointers
    <2>10. TabsShown' BY <2>2 DEF AllShown, TabsShown
    <2> QED BY <2>3, <2>4, <2>5, <2>6, <2>7, <2>8, <2>9, <2>10 DEF PositionInv, Types
  <1> QED BY <1>1, <1>2

\* The invariant of positions holds in every state.
LEMMA PositionAlways ==
  Spec => []PositionInv
  <1>1. Init => PositionInv BY PositionInit
  <1>2. PositionInv /\ [Next]_vars => PositionInv' BY PositionStep
  <1> QED BY <1>1, <1>2, PTL DEF Spec

\* Every variable of the workspace has its type, and what is outstanding belongs to
\* a supervisor that is connected: nothing addressed to a lost one survives the loss.
THEOREM WorkspaceTypes == Spec => []TypeOK
  <1>1. PositionInv => TypeOK
    BY DEF PositionInv, Types, TreeTypes, PointerTypes, PopupTypes, SavedTypes, RequestTypes,
         LinkTypes, ShellTypes, HistoryTypes, TypeOK
  <1> QED BY <1>1, PositionAlways, PTL

\* Every position the client keeps denotes a row, whatever order the replies come in:
\* the active worktree, the selection, the PR statuses and the tab each row shows.
THEOREM PositionsInRange == Spec => []PointersInRange
  <1>1. PositionInv => PointersInRange
    BY DEF PositionInv, ActiveIn, SelectedIn, StatusesIn, TabsShown, TabShown, PointersInRange
  <1> QED BY <1>1, PositionAlways, PTL

-----------------------------------------------------------------------------
(* The project files *)

\* What the files of the projects are, and that each project has one of its own.
Filed(ps) == {SavedAs(ps, p) : p \in DOMAIN ps}
SlugsApart(ps) == \A p, q \in DOMAIN ps : ps[p].slug = ps[q].slug => p = q

\* Trees of the same shape have the same files.
LEMMA ShapeFiled ==
  ASSUME NEW ps \in Seq(Project), NEW qs, SameShape(ps, qs)
  PROVE  Filed(qs) = Filed(ps) /\ (SlugsApart(ps) => SlugsApart(qs))
  <1>1. ASSUME NEW p \in DOMAIN ps PROVE SavedAs(qs, p) = SavedAs(ps, p)
    BY DEF SameShape, SavedAs
  <1>2. DOMAIN qs = DOMAIN ps /\ \A p \in DOMAIN ps : qs[p].slug = ps[p].slug BY DEF SameShape
  <1> QED BY <1>1, <1>2 DEF Filed, SlugsApart

\* Two projects are the same but for the rows of the p-th.
OneDiffers(ps, qs, p) ==
  /\ p \in DOMAIN ps /\ DOMAIN qs = DOMAIN ps /\ qs[p].slug = ps[p].slug
  /\ \A q \in DOMAIN ps : q # p => qs[q] = ps[q]

\* The file of the p-th is written, or that of a slug deleted.
Rewritten(old, qs, p) == {f \in old : f.slug # qs[p].slug} \cup {SavedAs(qs, p)}
Erased(old, slug) == {f \in old : f.slug # slug}

\* The file of the p-th is written again.
LEMMA OneFiled ==
  ASSUME NEW ps \in Seq(Project), NEW qs \in Seq(Project), NEW p, OneDiffers(ps, qs, p),
         SlugsApart(ps), NEW old, old = Filed(ps), NEW new, new = Rewritten(old, qs, p)
  PROVE  new = Filed(qs) /\ SlugsApart(qs)
  <1>0. new = {f \in old : f.slug # qs[p].slug} \cup {SavedAs(qs, p)} BY DEF Rewritten
  <1>1. ASSUME NEW q \in DOMAIN ps, q # p PROVE SavedAs(qs, q) = SavedAs(ps, q)
    <2>1. qs[q] = ps[q] BY <1>1 DEF OneDiffers
    <2> QED BY <2>1 DEF SavedAs
  <1>2. SlugsApart(qs) BY DEF OneDiffers, SlugsApart
  <1>3. ASSUME NEW q \in DOMAIN ps PROVE SavedAs(ps, q).slug = ps[q].slug
    BY SavedAsIs
  <1>4. p \in DOMAIN ps /\ DOMAIN qs = DOMAIN ps /\ qs[p].slug = ps[p].slug BY DEF OneDiffers
  <1>5. ASSUME NEW f \in new PROVE f \in Filed(qs)
    <2>1. CASE f = SavedAs(qs, p) BY <1>4, <2>1 DEF Filed
    <2>2. CASE f \in old /\ f.slug # qs[p].slug
      <3>1. PICK q \in DOMAIN ps : f = SavedAs(ps, q) BY <2>2 DEF Filed
      <3>2. q # p BY <1>3, <1>4, <2>2, <3>1
      <3> QED BY <1>1, <1>4, <3>1, <3>2 DEF Filed
    <2> QED BY <1>0, <1>5, <2>1, <2>2
  <1>6. ASSUME NEW f \in Filed(qs) PROVE f \in new
    <2>1. PICK q \in DOMAIN qs : f = SavedAs(qs, q) BY <1>6 DEF Filed
    <2>2. CASE q = p BY <1>0, <2>1, <2>2
    <2>3. CASE q # p
      <3>1. f = SavedAs(ps, q) /\ q \in DOMAIN ps BY <1>1, <1>4, <2>1, <2>3
      <3>2. f.slug # qs[p].slug BY <1>3, <1>4, <2>3, <3>1 DEF SlugsApart
      <3> QED BY <1>0, <3>1, <3>2 DEF Filed
    <2> QED BY <2>2, <2>3
  <1> QED BY <1>2, <1>5, <1>6

\* The file of a new project is written.
LEMMA MoreFiled ==
  ASSUME NEW ps \in Seq(Project), NEW qs \in Seq(Project), NEW n, n = Len(ps) + 1,
         Len(qs) = n, \A p \in DOMAIN ps : qs[p] = ps[p] /\ ps[p].slug # qs[n].slug,
         SlugsApart(ps), NEW old, old = Filed(ps), NEW new, new = Rewritten(old, qs, n)
  PROVE  new = Filed(qs) /\ SlugsApart(qs)
  <1>0. new = {f \in old : f.slug # qs[n].slug} \cup {SavedAs(qs, n)} BY DEF Rewritten
  <1>1. DOMAIN qs = DOMAIN ps \cup {n} /\ n \notin DOMAIN ps
    <2>1. Len(ps) \in Nat /\ DOMAIN ps = 1 .. Len(ps) /\ DOMAIN qs = 1 .. n BY DEF Project
    <2> QED BY <2>1
  <1>2. ASSUME NEW q \in DOMAIN ps
        PROVE  SavedAs(qs, q) = SavedAs(ps, q) /\ SavedAs(ps, q).slug # qs[n].slug
    <2>1. qs[q] = ps[q] /\ ps[q].slug # qs[n].slug OBVIOUS
    <2>2. SavedAs(ps, q).slug = ps[q].slug BY SavedAsIs
    <2> QED BY <2>1, <2>2 DEF SavedAs
  <1>3. SlugsApart(qs) BY <1>1 DEF SlugsApart
  <1>4. new = Filed(ps) \cup {SavedAs(qs, n)} BY <1>0, <1>2 DEF Filed
  <1>5. Filed(qs) = Filed(ps) \cup {SavedAs(qs, n)} BY <1>1, <1>2 DEF Filed
  <1> QED BY <1>3, <1>4, <1>5

\* The file of a project that is gone is deleted.
LEMMA FewerFiled ==
  ASSUME NEW ps \in Seq(Project), NEW qs \in Seq(Project), NEW p, ProjectGone(ps, qs, p),
         SlugsApart(ps), NEW old, old = Filed(ps), NEW new, new = Erased(old, ps[p].slug)
  PROVE  new = Filed(qs) /\ SlugsApart(qs)
  <1>0. new = {f \in old : f.slug # ps[p].slug} BY DEF Erased
  <1> DEFINE Back(q) == IF q < p THEN q ELSE q + 1
  <1>1. ASSUME NEW q \in DOMAIN qs
        PROVE  /\ Back(q) \in DOMAIN ps /\ Back(q) # p /\ qs[q] = ps[Back(q)]
               /\ SavedAs(qs, q) = SavedAs(ps, Back(q))
    <2>1. /\ p \in 1 .. Len(ps) /\ q \in 1 .. Len(ps) - 1 /\ Len(ps) \in Nat
          /\ qs[q] = ps[Back(q)]
      BY DEF ProjectGone
    <2>2. Back(q) \in 1 .. Len(ps) /\ Back(q) # p BY <2>1
    <2> QED BY <2>1, <2>2 DEF SavedAs
  <1>2. ASSUME NEW q \in DOMAIN ps, q # p
        PROVE  \E i \in DOMAIN qs : qs[i] = ps[q] /\ SavedAs(qs, i) = SavedAs(ps, q)
    <2> DEFINE i == ShiftProject(q, p)
    <2>1. i = ShiftProject(q, p) OBVIOUS
    <2> HIDE DEF i
    <2>2. i \in DOMAIN qs /\ qs[i] = ps[q] BY <1>2, <2>1, ProjectShifted
    <2> QED BY <2>2 DEF SavedAs
  <1>3. ASSUME NEW i \in DOMAIN qs, NEW j \in DOMAIN qs, qs[i].slug = qs[j].slug PROVE i = j
    <2>1. Back(i) = Back(j) BY <1>1, <1>3 DEF SlugsApart
    <2>2. i \in Nat /\ j \in Nat /\ p \in Nat BY DEF ProjectGone
    <2> QED BY <2>1, <2>2
  <1> HIDE DEF Back
  <1>4. ASSUME NEW q \in DOMAIN ps PROVE SavedAs(ps, q).slug = ps[q].slug BY SavedAsIs
  <1>5. ASSUME NEW f \in new PROVE f \in Filed(qs)
    <2>1. PICK q \in DOMAIN ps : f = SavedAs(ps, q) BY <1>0 DEF Filed
    <2>2. q # p BY <1>0, <1>4, <2>1
    <2> QED BY <1>2, <2>1, <2>2 DEF Filed
  <1>6. ASSUME NEW f \in Filed(qs) PROVE f \in new
    <2>1. PICK i \in DOMAIN qs : f = SavedAs(qs, i) BY DEF Filed
    <2>2. f = SavedAs(ps, Back(i)) /\ Back(i) \in DOMAIN ps /\ Back(i) # p BY <1>1, <2>1
    <2>3. f.slug # ps[p].slug BY <1>4, <2>2 DEF SlugsApart, ProjectGone
    <2> QED BY <1>0, <2>2, <2>3 DEF Filed
  <1> QED BY <1>3, <1>5, <1>6 DEF SlugsApart

\* The files are those of the projects in the sidebar.
FilesAreShown == saved = Filed(projects) /\ SlugsApart(projects)

\* The files stay while only tabs change.
LEMMA FilesStay ==
  ASSUME Tree, FilesAreShown, Redecorated, saved' = saved
  PROVE  FilesAreShown'
  <1> DEFINE ps == projects
             qs == projects'
  <1>1. ps \in Seq(Project) /\ SameShape(ps, qs) BY DEF Tree, Redecorated
  <1>2. Filed(qs) = Filed(ps) /\ (SlugsApart(ps) => SlugsApart(qs))
    <2> HIDE DEF ps, qs
    <2> QED BY <1>1, ShapeFiled
  <1>3. saved' = Filed(projects') /\ SlugsApart(projects') BY <1>2 DEF FilesAreShown
  <1> QED BY <1>3 DEF FilesAreShown, Filed, SlugsApart, SavedAs

\* One project has other rows, and is saved.
LEMMA FilesRewritten ==
  ASSUME Tree, FilesAreShown, projects' \in Seq(Project), NEW p,
         OneDiffers(projects, projects', p), saved' = SaveProject(projects', p)
  PROVE  FilesAreShown'
  <1> DEFINE ps == projects
             qs == projects'
             old == saved
             new == saved'
  <1>1. /\ ps \in Seq(Project) /\ qs \in Seq(Project) /\ OneDiffers(ps, qs, p)
        /\ SlugsApart(ps) /\ old = Filed(ps)
    BY DEF Tree, FilesAreShown
  <1>2. new = Rewritten(old, qs, p) BY DEF SaveProject, OneDiffers, Rewritten
  <1>3. new = Filed(qs) /\ SlugsApart(qs)
    <2> HIDE DEF ps, qs, old, new
    <2> QED BY <1>1, <1>2, OneFiled
  <1> QED BY <1>3 DEF FilesAreShown, Filed, SlugsApart, SavedAs

\* A project that has its worktrees replaced differs in them alone.
LEMMA RowsDiffer ==
  ASSUME NEW ps \in Seq(Project), NEW p \in DOMAIN ps, NEW wts, NEW qs,
         qs = WithRows(ps, p, wts)
  PROVE  OneDiffers(ps, qs, p) /\ qs[p].wts = wts
  <1>1. ps[p] \in Project OBVIOUS
  <1>2. qs = [ps EXCEPT ![p] = [ps[p] EXCEPT !.wts = wts]] BY DEF WithRows
  <1>3. qs[p] = [ps[p] EXCEPT !.wts = wts] BY <1>2
  <1>4. qs[p].slug = ps[p].slug /\ qs[p].wts = wts BY <1>1, <1>3 DEF Project
  <1> QED BY <1>2, <1>4 DEF OneDiffers

\* What is imported is saved, if there is something.
LEMMA ImportedFiles ==
  ASSUME Types, Tree, FilesAreShown, NEW r \in inflight, WorktreesImported(r)
  PROVE  FilesAreShown'
  <1> DEFINE ps == projects
             qs == projects'
             p == r.p
             found == Unlisted(projects[r.p].wts, r.found)
  <1>0. ps \in Seq(Project) /\ qs \in Seq(Project) /\ AllShown(projects')
    BY ImportedTree DEF TreeGrown, Tree
  <1>1. CASE p \notin DOMAIN ps
    <2>1. projects' = projects /\ saved' = saved BY <1>1 DEF WorktreesImported
    <2> QED BY <2>1, TreeUnchanged, FilesStay
  <1>2. CASE p \in DOMAIN ps
    <2>1. PICK order \in SetToSeqs(found) :
            /\ projects' = [projects EXCEPT ![r.p].wts =
                              @ \o [i \in DOMAIN order |-> NewWorktree(order[i])]]
            /\ saved' = IF found # {} THEN SaveProject(projects', r.p) ELSE saved
      BY <1>2 DEF WorktreesImported
    <2> DEFINE more == [i \in DOMAIN order |-> NewWorktree(order[i])]
               old == projects[r.p].wts
               wts == old \o more
    <2>2. qs = WithRows(ps, p, wts) BY <2>1 DEF WithRows
    <2>3. OneDiffers(ps, qs, p) /\ qs[p].wts = wts
      <3> HIDE DEF ps, qs, p, wts
      <3> QED BY <1>0, <1>2, <2>2, RowsDiffer
    <2>4. CASE found # {}
      <3>1. saved' = SaveProject(projects', p) BY <2>1, <2>4
      <3> HIDE DEF p
      <3> QED BY <1>0, <2>3, <3>1, FilesRewritten
    <2>5. CASE found = {}
      <3>1. order \in Seq({}) /\ DOMAIN order = 1 .. 0
        <4>1. IsFiniteSet(found) /\ Cardinality(found) = 0 BY <2>5, FS_EmptySet
        <4> HIDE DEF found
        <4>2. order \in Seq(found) /\ Len(order) = 0 /\ DOMAIN order = 1 .. Len(order)
          BY <2>1, <4>1, OrderIs
        <4> QED BY <2>5, <4>2
      <3>2. more = <<>> BY <3>1
      <3>3. old \in Seq(Worktree) BY <1>2, ProjectHas DEF Tree
      <3>4. wts = old
        <4> HIDE DEF more, old
        <4> QED BY <3>2, <3>3, ConcatEmptySeq
      <3> HIDE DEF wts
      <3>5. SameShape(ps, qs)
        <4> HIDE DEF qs
        <4>1. qs[p].wts = ps[p].wts /\ qs[p].slug = ps[p].slug /\ DOMAIN qs = DOMAIN ps
              /\ \A q \in DOMAIN ps : q # p => qs[q] = ps[q]
          BY <2>3, <3>4 DEF OneDiffers
        <4>2. qs[p].repo = ps[p].repo /\ qs[p].sup = ps[p].sup
          <5>1. ps[p] \in Project BY <1>0, <1>2
          <5>2. qs = [ps EXCEPT ![p] = [ps[p] EXCEPT !.wts = wts]] BY <2>2 DEF WithRows
          <5> HIDE DEF ps, p
          <5>3. qs[p] = [ps[p] EXCEPT !.wts = wts] BY <1>2, <5>2
          <5> QED BY <5>1, <5>3 DEF Project
        <4> HIDE DEF ps, p
        <4> QED BY <4>1, <4>2 DEF SameShape
      <3>6. saved' = saved BY <2>1, <2>5
      <3> QED BY <1>0, <3>5, <3>6, FilesStay DEF Redecorated
    <2> QED BY <2>4, <2>5
  <1> QED BY <1>1, <1>2

\* A worktree that is added is saved.
LEMMA AddedFiles ==
  ASSUME Types, Tree, FilesAreShown, NEW r \in inflight, WorktreeAdded(r)
  PROVE  FilesAreShown'
  <1>1. CASE r.p \notin DOMAIN projects
    <2>1. projects' = projects /\ saved' = saved BY <1>1 DEF WorktreeAdded
    <2> QED BY <2>1, TreeUnchanged, FilesStay
  <1>2. CASE r.p \in DOMAIN projects
    <2> DEFINE ps == projects
               qs == projects'
               p == r.p
               wts == Append(projects[r.p].wts, NewWorktree(r.path))
    <2>1. qs = WithRows(ps, p, wts) BY <1>2 DEF WorktreeAdded, WithRows
    <2>2. ps \in Seq(Project) /\ qs \in Seq(Project) /\ p \in DOMAIN ps
      BY <1>2, AddedTree DEF Tree, TreeGrown
    <2>3. OneDiffers(ps, qs, p)
      <3> HIDE DEF ps, qs, p, wts
      <3> QED BY <2>1, <2>2, RowsDiffer
    <2>4. saved' = SaveProject(projects', p) BY <1>2 DEF WorktreeAdded
    <2> HIDE DEF p
    <2> QED BY <2>2, <2>3, <2>4, FilesRewritten
  <1> QED BY <1>1, <1>2

\* One that is removed is not.
LEMMA RemovedFiles ==
  ASSUME Types, Tree, FilesAreShown, NEW r \in inflight, WorktreeRemoved(r),
         projects' \in Seq(Project)
  PROVE  FilesAreShown'
  <1> DEFINE p == r.p
  <1>1. saved' = SaveProject(projects', p) BY DEF WorktreeRemoved
  <1>2. CASE Has(r.p, r.w)
    <2>1. OneDiffers(projects, projects', p) BY <1>2, WorktreeRemovedTree DEF OneDiffers, Has
    <2> HIDE DEF p
    <2> QED BY <1>1, <2>1, FilesRewritten
  <1>3. CASE ~Has(r.p, r.w) /\ p \in DOMAIN projects
    <2>1. projects' = projects BY <1>3 DEF WorktreeRemoved
    <2>2. OneDiffers(projects, projects', p) BY <1>3, <2>1 DEF OneDiffers
    <2> HIDE DEF p
    <2> QED BY <1>1, <2>2, FilesRewritten
  <1>4. CASE ~Has(r.p, r.w) /\ p \notin DOMAIN projects
    <2>1. projects' = projects BY <1>4 DEF WorktreeRemoved
    <2>2. saved' = saved BY <1>1, <1>4, <2>1 DEF SaveProject
    <2> QED BY <2>1, <2>2, TreeUnchanged, FilesStay
  <1> QED BY <1>2, <1>3, <1>4

\* A project that is opened is saved under a slug of its own.
LEMMA ValidatedFiles ==
  ASSUME Types, Tree, FilesAreShown, NEW r \in inflight, ProjectValidated(r)
  PROVE  FilesAreShown'
  <1> DEFINE ps == projects
             qs == projects'
             n == Len(projects) + 1
             old == saved
             new == saved'
  <1>1. /\ ps \in Seq(Project) /\ qs \in Seq(Project) /\ Len(qs) = n
        /\ \A p \in DOMAIN ps : qs[p] = ps[p] /\ ps[p].slug # qs[n].slug
    BY ValidatedTree, ComputeSlugIs DEF Tree, TreeGrown
  <1>2. SlugsApart(ps) /\ old = Filed(ps) BY DEF FilesAreShown
  <1>3. new = Rewritten(old, qs, n)
    <2>1. n \in DOMAIN qs
      <3>1. Len(ps) \in Nat BY <1>1
      <3> QED BY <1>1, <3>1
    <2>2. saved' = SaveProject(projects', n) BY DEF ProjectValidated
    <2> HIDE DEF n
    <2> QED BY <2>1, <2>2 DEF SaveProject, Rewritten
  <1>4. n = Len(ps) + 1 OBVIOUS
  <1>5. new = Filed(qs) /\ SlugsApart(qs)
    <2> HIDE DEF ps, qs, n, old, new
    <2> QED BY <1>1, <1>2, <1>3, <1>4, MoreFiled
  <1> QED BY <1>5 DEF FilesAreShown, Filed, SlugsApart, SavedAs

\* The file of a project that is removed is deleted.
LEMMA DeletedFiles ==
  ASSUME Types, Tree, FilesAreShown, NEW r \in inflight, ProjectRemoved(r)
  PROVE  FilesAreShown'
  <1> DEFINE ps == projects
             qs == projects'
             p == IndexOf(r.slug)
             old == saved
             new == saved'
  <1>1. CASE p = 0
    <2>1. projects' = projects /\ saved' = saved BY <1>1 DEF ProjectRemoved
    <2> QED BY <2>1, TreeUnchanged, FilesStay
  <1>2. CASE p # 0
    <2>1. ps \in Seq(Project) /\ qs \in Seq(Project) /\ ProjectGone(ps, qs, p)
      BY <1>2, ProjectRemovedTree DEF ProjectGone, Tree
    <2>2. SlugsApart(ps) /\ old = Filed(ps) BY DEF FilesAreShown
    <2>3. ps[p].slug = r.slug BY <1>2, IndexIs DEF Tree
    <2>4. new = Erased(old, ps[p].slug) BY <1>2, <2>3 DEF ProjectRemoved, Erased
    <2>5. new = Filed(qs) /\ SlugsApart(qs)
      <3> HIDE DEF ps, qs, p, old, new
      <3> QED BY <2>1, <2>2, <2>4, FewerFiled
    <2> QED BY <2>5 DEF FilesAreShown, Filed, SlugsApart, SavedAs
  <1> QED BY <1>1, <1>2

\* Every step keeps the files those of the projects.
LEMMA FilesStep ==
  ASSUME PositionInv, FilesAreShown, [Next]_vars
  PROVE  FilesAreShown'
  <1>0. Types /\ Tree /\ Pointers
    BY DEF PositionInv, Types, TreeTypes, Tree, Pointers, TabsShown, AllShown
  <1>1. CASE UNCHANGED vars
    <2>1. projects' = projects /\ saved' = saved BY <1>1 DEF vars, treeVars
    <2> QED BY <1>0, <2>1, TreeUnchanged, FilesStay
  <1>2. CASE UserStep BY <1>0, <1>2, UserTree, UserLeaves, FilesStay
  <1>3. CASE SupervisorStep
    <2>1. projects' = projects /\ saved' = saved
      BY <1>3 DEF SupervisorStep, Handle, ShellExits, treeVars
    <2> QED BY <1>0, <2>1, TreeUnchanged, FilesStay
  <1>4. ASSUME NEW r \in inflight, Applied(r) PROVE FilesAreShown'
    <2>1. CASE SessionSpawned(r)
      <3>1. saved' = saved BY <2>1 DEF SessionSpawned
      <3> QED BY <1>0, <2>1, <3>1, SpawnedTree, FilesStay
    <2>2. CASE OperationFailed(r) \/ PrFetchFailed(r) \/ \E hit : PrStatusesFetched(r, hit)
      <3>1. projects' = projects /\ saved' = saved
        BY <2>2 DEF OperationFailed, PrFetchFailed, PrStatusesFetched, treeVars
      <3> QED BY <1>0, <3>1, TreeUnchanged, FilesStay
    <2>3. projects' \in Seq(Project) BY <1>0, <1>4, AppliedPointers
    <2> QED BY <1>0, <1>4, <2>1, <2>2, <2>3, ImportedFiles, AddedFiles, RemovedFiles,
              ValidatedFiles, DeletedFiles DEF Applied
  <1>5. CASE \E s \in exited : SessionExited(s)
    <2>1. PICK s \in exited : SessionExited(s) BY <1>5
    <2>2. projects' = WithoutSession(projects, GlobalId(s)) /\ saved' = saved
      BY <2>1 DEF SessionExited
    <2> QED BY <1>0, <2>2, ExitedTree, FilesStay
  <1>6. ASSUME NEW sup, SupervisorLost(sup) \/ SupervisorConnected(sup) PROVE FilesAreShown'
    <2>1. saved' = saved BY <1>6 DEF SupervisorLost, SupervisorConnected
    <2> QED BY <1>0, <1>6, <2>1, LostTree, ConnectedTree, FilesStay
  <1> QED BY <1>1, <1>2, <1>3, <1>4, <1>5, <1>6 DEF Next, LinkStep

\* Initially there is a file per project.
LEMMA FilesInit ==
  ASSUME Init
  PROVE  FilesAreShown
  <1>1. saved = Filed(projects) BY DEF Init, Filed
  <1>2. SlugsApart(projects) BY LoadedAssumption DEF Init, SlugsApart
  <1> QED BY <1>1, <1>2 DEF FilesAreShown

\* What the project files list is what the sidebar shows, after every operation and
\* whatever the replies did to it, and no two projects share a file: a client that is
\* restarted shows what this one does.
THEOREM FilesListWhatIsShown == Spec => []SavedIsShown
  <1>1. Init => PositionInv /\ FilesAreShown BY PositionInit, FilesInit
  <1>2. PositionInv /\ FilesAreShown /\ [Next]_vars => (PositionInv /\ FilesAreShown)'
    BY PositionStep, FilesStep
  <1>3. FilesAreShown => SavedIsShown BY DEF FilesAreShown, Filed, SlugsApart, SavedIsShown
  <1> QED BY <1>1, <1>2, <1>3, PTL DEF Spec

-----------------------------------------------------------------------------
(* Tabs *)

\* The rows of a tree, and the tabs of one and of all of them.
TabRows(ps) == {x \in Nat \X Nat : Held(ps, x[1], x[2])}
TabsAt(ps, x) == ToSet(ps[x[1]].wts[x[2]].tabs)
AllTabs(ps) == UNION {TabsAt(ps, x) : x \in TabRows(ps)}
Once(s) == \A i, j \in DOMAIN s : s[i] = s[j] => i = j
OnceAt(ps, x) == Once(ps[x[1]].wts[x[2]].tabs)

\* No tab is there twice, in one row or in two.
TabsApart(ps) ==
  /\ \A x \in TabRows(ps) : OnceAt(ps, x)
  /\ \A x, y \in TabRows(ps) : x # y => TabsAt(ps, x) \cap TabsAt(ps, y) = {}

\* Every row with tabs is one that was there, at B, without the tabs that are gone;
\* and only rows whose tabs are gone are.
TabsFrom(ps, qs, B, gone) ==
  /\ \A x \in TabRows(qs) :
       /\ OnceAt(qs, x)
       /\ \/ TabsAt(qs, x) = {}
          \/ B[x] \in TabRows(ps) /\ TabsAt(qs, x) = TabsAt(ps, B[x]) \ gone
  /\ \A x, y \in TabRows(qs) : B[x] = B[y] => x = y
  /\ \A z \in TabRows(ps) :
       \/ TabsAt(ps, z) \subseteq gone
       \/ \E x \in TabRows(qs) : B[x] = z /\ TabsAt(qs, x) = TabsAt(ps, z) \ gone

\* Then the others stay, and none is there twice.
LEMMA TabsFewer ==
  ASSUME NEW ps, NEW qs, NEW B, NEW gone, TabsApart(ps), TabsFrom(ps, qs, B, gone)
  PROVE  AllTabs(qs) = AllTabs(ps) \ gone /\ TabsApart(qs)
  <1>1. ASSUME NEW h \in AllTabs(qs) PROVE h \in AllTabs(ps) \ gone
    <2>1. PICK x \in TabRows(qs) : h \in TabsAt(qs, x) BY DEF AllTabs
    <2>2. B[x] \in TabRows(ps) /\ h \in TabsAt(ps, B[x]) \ gone BY <2>1 DEF TabsFrom
    <2> QED BY <2>2 DEF AllTabs
  <1>2. ASSUME NEW h \in AllTabs(ps), h \notin gone PROVE h \in AllTabs(qs)
    <2>1. PICK z \in TabRows(ps) : h \in TabsAt(ps, z) BY DEF AllTabs
    <2>2. PICK x \in TabRows(qs) : TabsAt(qs, x) = TabsAt(ps, z) \ gone
      BY <1>2, <2>1 DEF TabsFrom
    <2>3. h \in TabsAt(qs, x) BY <1>2, <2>1, <2>2
    <2> QED BY <2>3 DEF AllTabs
  <1>3. ASSUME NEW x \in TabRows(qs), NEW y \in TabRows(qs), x # y,
               NEW h \in TabsAt(qs, x), h \in TabsAt(qs, y)
        PROVE  FALSE
    <2>1. /\ B[x] \in TabRows(ps) /\ h \in TabsAt(ps, B[x])
          /\ B[y] \in TabRows(ps) /\ h \in TabsAt(ps, B[y])
      BY <1>3 DEF TabsFrom
    <2>2. B[x] # B[y] BY <1>3 DEF TabsFrom
    <2> QED BY <2>1, <2>2 DEF TabsApart
  <1>4. \A x \in TabRows(qs) : OnceAt(qs, x) BY DEF TabsFrom
  <1>5. TabsApart(qs) BY <1>3, <1>4 DEF TabsApart
  <1> QED BY <1>1, <1>2, <1>5

\* Every row has the tabs it had and those of A, which are new, each to one row.
TabsWith(ps, qs, A) ==
  /\ TabRows(qs) = TabRows(ps)
  /\ \A x \in TabRows(ps) :
       OnceAt(qs, x) /\ TabsAt(qs, x) = TabsAt(ps, x) \cup A[x] /\ A[x] \cap AllTabs(ps) = {}
  /\ \A x, y \in TabRows(ps) : x # y => A[x] \cap A[y] = {}
\* Tabs that are added apart are apart from the others and among themselves.
LEMMA TabsMore ==
  ASSUME NEW ps, NEW qs, NEW A, TabsApart(ps), TabsWith(ps, qs, A)
  PROVE  /\ AllTabs(qs) = AllTabs(ps) \cup UNION {A[x] : x \in TabRows(ps)}
         /\ TabsApart(qs)
  <1>1. AllTabs(qs) = AllTabs(ps) \cup UNION {A[x] : x \in TabRows(ps)}
    BY DEF TabsWith, AllTabs
  <1>2. ASSUME NEW x \in TabRows(qs), NEW y \in TabRows(qs), x # y,
               NEW h \in TabsAt(qs, x), h \in TabsAt(qs, y)
        PROVE  FALSE
    <2>1. /\ x \in TabRows(ps) /\ y \in TabRows(ps)
          /\ h \in TabsAt(ps, x) \cup A[x] /\ h \in TabsAt(ps, y) \cup A[y]
      BY <1>2 DEF TabsWith
    <2>2. TabsAt(ps, x) \subseteq AllTabs(ps) /\ TabsAt(ps, y) \subseteq AllTabs(ps)
      BY <2>1 DEF AllTabs
    <2>3. /\ A[x] \cap AllTabs(ps) = {} /\ A[y] \cap AllTabs(ps) = {} /\ A[x] \cap A[y] = {}
          /\ TabsAt(ps, x) \cap TabsAt(ps, y) = {}
      BY <1>2, <2>1 DEF TabsWith, TabsApart
    <2> QED BY <2>1, <2>2, <2>3
  <1>3. \A x \in TabRows(qs) : OnceAt(qs, x) BY DEF TabsWith
  <1> QED BY <1>1, <1>2, <1>3 DEF TabsApart

\* A sequence that has each element once, with one more, without one, or followed by
\* another.
LEMMA OnceAppended ==
  ASSUME NEW S, NEW s \in Seq(S), Once(s), NEW x \in S, x \notin ToSet(s),
         NEW t, t = Append(s, x)
  PROVE  Once(t) /\ ToSet(t) = ToSet(s) \cup {x}
  <1>1. /\ Len(s) \in Nat /\ DOMAIN s = 1 .. Len(s) /\ DOMAIN t = 1 .. Len(s) + 1
        /\ t[Len(s) + 1] = x /\ \A i \in 1 .. Len(s) : t[i] = s[i]
    OBVIOUS
  <1>2. \A i \in DOMAIN s : s[i] # x BY DEF ToSet
  <1>3. Once(t) BY <1>1, <1>2 DEF Once
  <1>4. ToSet(t) = ToSet(s) \cup {x}
    <2>1. \A i \in DOMAIN t : t[i] \in ToSet(s) \cup {x} BY <1>1 DEF ToSet
    <2>2. \A i \in DOMAIN s : i \in DOMAIN t /\ t[i] = s[i] BY <1>1
    <2>3. Len(s) + 1 \in DOMAIN t BY <1>1
    <2> QED BY <1>1, <2>1, <2>2, <2>3 DEF ToSet
  <1> QED BY <1>3, <1>4

\* What is once in a sequence is not in it when it is taken out.
LEMMA OnceRemoved ==
  ASSUME NEW S, NEW s \in Seq(S), Once(s), NEW i \in DOMAIN s, NEW t, t = RemoveAt(s, i)
  PROVE  Once(t) /\ ToSet(t) = ToSet(s) \ {s[i]}
  <1>1. /\ t \in Seq(S) /\ Len(t) = Len(s) - 1
        /\ \A j \in 1 .. Len(t) : t[j] = IF j < i THEN s[j] ELSE s[j + 1]
    BY SMTT(60), RemovedAt
  <1>2. /\ Len(s) \in Nat /\ DOMAIN s = 1 .. Len(s) /\ DOMAIN t = 1 .. Len(s) - 1
        /\ i \in 1 .. Len(s)
    BY <1>1
  <1> DEFINE From(j) == IF j < i THEN j ELSE j + 1
  <1>3. \A j \in DOMAIN t : From(j) \in DOMAIN s /\ From(j) # i /\ t[j] = s[From(j)]
    BY <1>1, <1>2
  <1>4. \A j, k \in DOMAIN t : From(j) = From(k) => j = k BY <1>2
  <1>5. ASSUME NEW k \in DOMAIN s, k # i PROVE \E j \in DOMAIN t : From(j) = k
    <2> DEFINE j == IF k < i THEN k ELSE k - 1
    <2>1. j \in DOMAIN t /\ From(j) = k BY <1>2, <1>5
    <2> QED BY <2>1
  <1> HIDE DEF From
  <1>6. Once(t) BY <1>3, <1>4 DEF Once
  <1>7. \A x \in ToSet(t) : x \in ToSet(s) /\ x # s[i] BY <1>2, <1>3 DEF ToSet, Once
  <1>8. \A x \in ToSet(s) : x # s[i] => x \in ToSet(t) BY <1>3, <1>5 DEF ToSet
  <1> QED BY <1>6, <1>7, <1>8

Joined(s, o) == s \o o
\* Two sequences with nothing in common, joined, repeat nothing.
LEMMA OnceJoined ==
  ASSUME NEW S, NEW s \in Seq(S), NEW o \in Seq(S), Once(s), Once(o),
         ToSet(s) \cap ToSet(o) = {}, NEW t, t = Joined(s, o)
  PROVE  Once(t) /\ ToSet(t) = ToSet(s) \cup ToSet(o)
  <1>1. /\ t \in Seq(S) /\ Len(t) = Len(s) + Len(o)
        /\ \A i \in 1 .. Len(s) + Len(o) : t[i] = IF i <= Len(s) THEN s[i] ELSE o[i - Len(s)]
    BY ConcatProperties DEF Joined
  <1>2. /\ Len(s) \in Nat /\ Len(o) \in Nat /\ DOMAIN s = 1 .. Len(s) /\ DOMAIN o = 1 .. Len(o)
        /\ DOMAIN t = 1 .. Len(s) + Len(o)
    BY <1>1
  <1>3. \A i \in DOMAIN s : i \in DOMAIN t /\ t[i] = s[i] BY <1>1, <1>2
  <1>4. \A i \in DOMAIN o : Len(s) + i \in DOMAIN t /\ t[Len(s) + i] = o[i]
    <2> SUFFICES ASSUME NEW i \in DOMAIN o
                 PROVE  Len(s) + i \in DOMAIN t /\ t[Len(s) + i] = o[i]
      OBVIOUS
    <2>1. Len(s) + i \in DOMAIN t /\ ~(Len(s) + i <= Len(s)) /\ (Len(s) + i) - Len(s) = i
      BY <1>2
    <2> QED BY <1>1, <1>2, <2>1
  <1>5. ASSUME NEW i \in DOMAIN t
        PROVE  \/ i \in DOMAIN s
               \/ i - Len(s) \in DOMAIN o /\ i = Len(s) + (i - Len(s))
    BY <1>2
  <1>6. ToSet(t) = ToSet(s) \cup ToSet(o)
    <2>1. ASSUME NEW i \in DOMAIN t PROVE t[i] \in ToSet(s) \cup ToSet(o)
      BY <1>3, <1>4, <1>5 DEF ToSet
    <2>2. \A x \in ToSet(s) : x \in ToSet(t) BY <1>3 DEF ToSet
    <2>3. \A x \in ToSet(o) : x \in ToSet(t) BY <1>4 DEF ToSet
    <2>4. \A x \in ToSet(t) : x \in ToSet(s) \cup ToSet(o) BY <2>1 DEF ToSet
    <2> QED BY <2>2, <2>3, <2>4
  <1>7. ASSUME NEW i \in DOMAIN t, NEW j \in DOMAIN t, t[i] = t[j] PROVE i = j
    <2>1. CASE i \in DOMAIN s /\ j \in DOMAIN s BY <1>3, <1>7, <2>1 DEF Once
    <2>2. CASE i \notin DOMAIN s /\ j \notin DOMAIN s
      <3>1. i - Len(s) = j - Len(s) BY <1>4, <1>5, <1>7, <2>2 DEF Once
      <3> QED BY <1>2, <3>1
    <2>3. CASE i \in DOMAIN s /\ j \notin DOMAIN s
      <3>1. t[i] \in ToSet(s) /\ t[j] \in ToSet(o) BY <1>3, <1>4, <1>5, <2>3 DEF ToSet
      <3> QED BY <1>7, <3>1
    <2>4. CASE i \notin DOMAIN s /\ j \in DOMAIN s
      <3>1. t[i] \in ToSet(o) /\ t[j] \in ToSet(s) BY <1>3, <1>4, <1>5, <2>4 DEF ToSet
      <3> QED BY <1>7, <3>1
    <2> QED BY <2>1, <2>2, <2>3, <2>4
  <1> QED BY <1>6, <1>7 DEF Once

\* An ordering has every element once.
LEMMA OnceOrdered ==
  ASSUME NEW S, IsFiniteSet(S), NEW order \in SetToSeqs(S)
  PROVE  Once(order) /\ ToSet(order) = S
  <1>1. /\ order \in Seq(S) /\ DOMAIN order = 1 .. Len(order)
        /\ \A i, j \in DOMAIN order : order[i] = order[j] => i = j
        /\ \A x \in S : \E i \in DOMAIN order : order[i] = x
    BY OrderIs
  <1>2. \A i \in DOMAIN order : order[i] \in S BY <1>1
  <1> QED BY <1>1, <1>2 DEF Once, ToSet

\* Rows that stay, some without some of their tabs, and new rows without tabs.
LEMMA TabsInPlace ==
  ASSUME NEW ps, NEW qs, NEW gone, TabsApart(ps), TabRows(ps) \subseteq TabRows(qs),
         \A x \in TabRows(ps) : OnceAt(qs, x) /\ TabsAt(qs, x) = TabsAt(ps, x) \ gone,
         \A x \in TabRows(qs) : x \notin TabRows(ps) => OnceAt(qs, x) /\ TabsAt(qs, x) = {}
  PROVE  AllTabs(qs) = AllTabs(ps) \ gone /\ TabsApart(qs)
  <1> DEFINE B == [x \in TabRows(qs) |-> x]
  <1>1. TabsFrom(ps, qs, B, gone)
    <2>1. \A x \in TabRows(qs) : B[x] = x OBVIOUS
    <2> HIDE DEF B
    <2> QED BY <2>1 DEF TabsFrom
  <1> HIDE DEF B
  <1> QED BY <1>1, TabsFewer

\* A row that has lost some tabs, and one that has got one.
Trimmed(x, wt, gone) ==
  gone \subseteq ToSet(wt.tabs) /\ Once(x.tabs) /\ ToSet(x.tabs) = ToSet(wt.tabs) \ gone
Extended(x, wt, h) ==
  Once(x.tabs) /\ ToSet(x.tabs) = ToSet(wt.tabs) \cup {h}

\* One row is replaced: it has lost some of its tabs.
LEMMA TabsReplaced ==
  ASSUME NEW ps \in Seq(Project), TabsApart(ps), NEW p \in DOMAIN ps, NEW w \in DOMAIN ps[p].wts,
         NEW x \in Worktree, NEW gone, Trimmed(x, ps[p].wts[w], gone),
         NEW qs, qs = WithRow(ps, p, w, x)
  PROVE  AllTabs(qs) = AllTabs(ps) \ gone /\ TabsApart(qs)
  <1>0. /\ gone \subseteq ToSet(ps[p].wts[w].tabs) /\ Once(x.tabs)
        /\ ToSet(x.tabs) = ToSet(ps[p].wts[w].tabs) \ gone
    BY DEF Trimmed
  <1>1. /\ qs \in Seq(Project) /\ DOMAIN qs = DOMAIN ps
        /\ \A q \in DOMAIN ps : q # p => qs[q] = ps[q]
        /\ DOMAIN qs[p].wts = DOMAIN ps[p].wts
        /\ \A v \in DOMAIN ps[p].wts : v # w => qs[p].wts[v] = ps[p].wts[v]
        /\ qs[p].wts[w] = x
    BY RowReplaced
  <1>2. TabRows(qs) = TabRows(ps)
    <2>1. \A q, v : Held(qs, q, v) <=> Held(ps, q, v) BY <1>1 DEF Held
    <2> QED BY <2>1 DEF TabRows
  <1>3. <<p, w>> \in TabRows(ps)
    <2>1. ps[p].wts \in Seq(Worktree)
      <3>1. ps[p] \in Project OBVIOUS
      <3> QED BY <3>1 DEF Project
    <2>2. p \in Nat /\ w \in Nat BY <2>1
    <2> QED BY <2>2 DEF TabRows, Held
  <1>4. ASSUME NEW y \in TabRows(ps)
        PROVE  OnceAt(qs, y) /\ TabsAt(qs, y) = TabsAt(ps, y) \ gone
    <2>1. CASE y = <<p, w>> BY <1>0, <1>1, <2>1 DEF OnceAt, TabsAt
    <2>2. CASE y # <<p, w>>
      <3>1. y \in Nat \X Nat /\ Held(ps, y[1], y[2]) BY DEF TabRows
      <3>2. qs[y[1]].wts[y[2]] = ps[y[1]].wts[y[2]]
        <4>1. CASE y[1] # p BY <1>1, <3>1, <4>1 DEF Held
        <4>2. CASE y[1] = p
          <5>1. y[2] # w BY <2>2, <3>1, <4>2
          <5> QED BY <1>1, <3>1, <4>2, <5>1 DEF Held
        <4> QED BY <4>1, <4>2
      <3>3. OnceAt(qs, y) /\ TabsAt(qs, y) = TabsAt(ps, y)
        BY <3>2 DEF OnceAt, TabsAt, TabsApart
      <3>4. TabsAt(ps, y) \cap gone = {}
        <4>1. TabsAt(ps, y) \cap TabsAt(ps, <<p, w>>) = {} BY <1>3, <2>2 DEF TabsApart
        <4> QED BY <1>0, <4>1 DEF TabsAt
      <3> QED BY <3>3, <3>4
    <2> QED BY <2>1, <2>2
  <1>5. TabRows(ps) \subseteq TabRows(qs) /\ \A y \in TabRows(qs) : y \in TabRows(ps) BY <1>2
  <1>6. \A y \in TabRows(ps) : OnceAt(qs, y) /\ TabsAt(qs, y) = TabsAt(ps, y) \ gone BY <1>4
  <1>7. \A y \in TabRows(qs) : y \notin TabRows(ps) => OnceAt(qs, y) /\ TabsAt(qs, y) = {}
    BY <1>5
  <1> QED BY <1>5, <1>6, <1>7, TabsInPlace

\* One row is replaced: it has a new tab.
LEMMA TabsGiven ==
  ASSUME NEW ps \in Seq(Project), TabsApart(ps), NEW p \in DOMAIN ps, NEW w \in DOMAIN ps[p].wts,
         NEW x \in Worktree, NEW h, h \notin AllTabs(ps), Extended(x, ps[p].wts[w], h),
         NEW qs, qs = WithRow(ps, p, w, x)
  PROVE  AllTabs(qs) = AllTabs(ps) \cup {h} /\ TabsApart(qs)
  <1>0. Once(x.tabs) /\ ToSet(x.tabs) = ToSet(ps[p].wts[w].tabs) \cup {h} BY DEF Extended
  <1>1. /\ qs \in Seq(Project) /\ DOMAIN qs = DOMAIN ps
        /\ \A q \in DOMAIN ps : q # p => qs[q] = ps[q]
        /\ DOMAIN qs[p].wts = DOMAIN ps[p].wts
        /\ \A v \in DOMAIN ps[p].wts : v # w => qs[p].wts[v] = ps[p].wts[v]
        /\ qs[p].wts[w] = x
    BY RowReplaced
  <1>2. TabRows(qs) = TabRows(ps)
    <2>1. \A q, v : Held(qs, q, v) <=> Held(ps, q, v) BY <1>1 DEF Held
    <2> QED BY <2>1 DEF TabRows
  <1>3. <<p, w>> \in TabRows(ps)
    <2>1. ps[p].wts \in Seq(Worktree)
      <3>1. ps[p] \in Project OBVIOUS
      <3> QED BY <3>1 DEF Project
    <2>2. p \in Nat /\ w \in Nat BY <2>1
    <2> QED BY <2>2 DEF TabRows, Held
  <1> DEFINE A == [y \in TabRows(ps) |-> IF y = <<p, w>> THEN {h} ELSE {}]
  <1>4. ASSUME NEW y \in TabRows(ps)
        PROVE  OnceAt(qs, y) /\ TabsAt(qs, y) = TabsAt(ps, y) \cup A[y]
    <2>1. CASE y = <<p, w>> BY <1>0, <1>1, <2>1 DEF OnceAt, TabsAt
    <2>2. CASE y # <<p, w>>
      <3>1. y \in Nat \X Nat /\ Held(ps, y[1], y[2]) BY DEF TabRows
      <3>2. qs[y[1]].wts[y[2]] = ps[y[1]].wts[y[2]]
        <4>1. CASE y[1] # p BY <1>1, <3>1, <4>1 DEF Held
        <4>2. CASE y[1] = p
          <5>1. y[2] # w BY <2>2, <3>1, <4>2
          <5> QED BY <1>1, <3>1, <4>2, <5>1 DEF Held
        <4> QED BY <4>1, <4>2
      <3>3. OnceAt(qs, y) /\ TabsAt(qs, y) = TabsAt(ps, y)
        BY <3>2 DEF OnceAt, TabsAt, TabsApart
      <3> QED BY <2>2, <3>3
    <2> QED BY <2>1, <2>2
  <1>5. TabsWith(ps, qs, A)
    <2>1. \A y \in TabRows(ps) : A[y] \cap AllTabs(ps) = {} OBVIOUS
    <2>2. \A y, z \in TabRows(ps) : y # z => A[y] \cap A[z] = {} OBVIOUS
    <2> HIDE DEF A
    <2> QED BY <1>2, <1>4, <2>1, <2>2 DEF TabsWith
  <1>6. UNION {A[y] : y \in TabRows(ps)} = {h} BY <1>3
  <1> HIDE DEF A
  <1>7. AllTabs(qs) = AllTabs(ps) \cup UNION {A[y] : y \in TabRows(ps)} /\ TabsApart(qs)
    BY <1>5, TabsMore
  <1> QED BY <1>6, <1>7

\* A tree that has grown has the tabs it had.
LEMMA TabsGrown ==
  ASSUME NEW ps \in Seq(Project), NEW qs \in Seq(Project), TabsApart(ps), Grown(ps, qs)
  PROVE  AllTabs(qs) = AllTabs(ps) /\ TabsApart(qs)
  <1>1. TabRows(ps) \subseteq TabRows(qs)
    <2>1. \A q, v : Held(ps, q, v) => Held(qs, q, v) BY DEF Held, Grown
    <2> QED BY <2>1 DEF TabRows
  <1>2. \A x \in TabRows(ps) : OnceAt(qs, x) /\ TabsAt(qs, x) = TabsAt(ps, x)
    <2> SUFFICES ASSUME NEW x \in TabRows(ps)
                 PROVE  OnceAt(qs, x) /\ TabsAt(qs, x) = TabsAt(ps, x)
      OBVIOUS
    <2>1. qs[x[1]].wts[x[2]] = ps[x[1]].wts[x[2]] BY DEF TabRows, Held, Grown
    <2>2. OnceAt(ps, x) BY DEF TabsApart
    <2> QED BY <2>1, <2>2 DEF OnceAt, TabsAt
  <1>3. ASSUME NEW x \in TabRows(qs), x \notin TabRows(ps)
        PROVE  OnceAt(qs, x) /\ TabsAt(qs, x) = {}
    <2>1. Held(qs, x[1], x[2]) /\ ~Held(ps, x[1], x[2]) BY <1>3 DEF TabRows
    <2>2. qs[x[1]].wts[x[2]].tabs = <<>> BY <2>1 DEF Held, Grown
    <2> QED BY <2>2 DEF OnceAt, Once, TabsAt, ToSet
  <1> DEFINE gone == {}
  <1>4. \A x \in TabRows(ps) : OnceAt(qs, x) /\ TabsAt(qs, x) = TabsAt(ps, x) \ gone BY <1>2
  <1>5. AllTabs(ps) \ gone = AllTabs(ps) OBVIOUS
  <1> HIDE DEF gone
  <1>6. AllTabs(qs) = AllTabs(ps) \ gone /\ TabsApart(qs) BY <1>1, <1>3, <1>4, TabsInPlace
  <1> QED BY <1>5, <1>6

\* The rows of a tree, by name.
LEMMA RowOf ==
  ASSUME NEW ps \in Seq(Project), NEW x \in TabRows(ps)
  PROVE  /\ x = <<x[1], x[2]>> /\ x[1] \in DOMAIN ps /\ x[2] \in DOMAIN ps[x[1]].wts
         /\ x[1] \in Nat /\ x[2] \in Nat
         /\ ps[x[1]].wts[x[2]] \in Worktree /\ ps[x[1]].wts[x[2]].tabs \in Seq(Handles)
  <1>1. x \in Nat \X Nat /\ x[1] \in DOMAIN ps /\ x[2] \in DOMAIN ps[x[1]].wts
    BY DEF TabRows, Held
  <1>2. ps[x[1]] \in Project BY <1>1
  <1>3. ps[x[1]].wts \in Seq(Worktree) BY <1>2 DEF Project
  <1>4. ps[x[1]].wts[x[2]] \in Worktree BY <1>1, <1>3
  <1> QED BY <1>1, <1>4 DEF Worktree

\* The handles are those of the tabs, each of one.
TabsAreHeld == sessions = AllTabs(projects) /\ TabsApart(projects)

\* They are while the projects and the handles stay, or rows without tabs are added.
LEMMA HeldUnchanged ==
  ASSUME TabsAreHeld, projects' = projects, sessions' = sessions
  PROVE  TabsAreHeld'
  <1>1. sessions' = AllTabs(projects') /\ TabsApart(projects') BY DEF TabsAreHeld
  <1> QED BY <1>1 DEF TabsAreHeld

\* Rows without tabs leave the tabs what they were.
LEMMA HeldGrown ==
  ASSUME Tree, TabsAreHeld, TreeGrown, sessions' = sessions
  PROVE  TabsAreHeld'
  <1> DEFINE ps == projects
             qs == projects'
  <1>1. ps \in Seq(Project) /\ qs \in Seq(Project) /\ TabsApart(ps) /\ Grown(ps, qs)
    BY DEF Tree, TreeGrown, TabsAreHeld
  <1>2. AllTabs(qs) = AllTabs(ps) /\ TabsApart(qs)
    <2> HIDE DEF ps, qs
    <2> QED BY <1>1, TabsGrown
  <1>3. sessions' = AllTabs(projects') /\ TabsApart(projects') BY <1>2 DEF TabsAreHeld
  <1> QED BY <1>3 DEF TabsAreHeld

\* One row loses some tabs, and the client their handles.
LEMMA HeldReplaced ==
  ASSUME Tree, TabsAreHeld, NEW p, NEW w, Has(p, w), NEW x \in Worktree, NEW gone,
         Trimmed(x, projects[p].wts[w], gone),
         projects' = WithRow(projects, p, w, x), sessions' = sessions \ gone
  PROVE  TabsAreHeld'
  <1> DEFINE ps == projects
             qs == projects'
  <1>1. /\ ps \in Seq(Project) /\ TabsApart(ps) /\ p \in DOMAIN ps /\ w \in DOMAIN ps[p].wts
        /\ Trimmed(x, ps[p].wts[w], gone) /\ qs = WithRow(ps, p, w, x)
    BY DEF Tree, TabsAreHeld, Has
  <1>2. AllTabs(qs) = AllTabs(ps) \ gone /\ TabsApart(qs)
    <2> HIDE DEF ps, qs
    <2>1. ps \in Seq(Project) /\ TabsApart(ps) BY <1>1
    <2>2. p \in DOMAIN ps /\ w \in DOMAIN ps[p].wts BY <1>1
    <2>3. Trimmed(x, ps[p].wts[w], gone) /\ qs = WithRow(ps, p, w, x) BY <1>1
    <2>4. AllTabs(qs) = AllTabs(ps) \ gone BY <2>1, <2>2, <2>3, TabsReplaced, SMTT(60)
    <2>5. TabsApart(qs) BY <2>1, <2>2, <2>3, <2>4, TabsReplaced, SMTT(60)
    <2> QED BY <2>4, <2>5
  <1>3. sessions' = AllTabs(projects') /\ TabsApart(projects') BY <1>2 DEF TabsAreHeld
  <1> QED BY <1>3 DEF TabsAreHeld

\* The tabs of a row that is there.
LEMMA RowOnce ==
  ASSUME Tree, TabsApart(projects), NEW p, NEW w, Has(p, w)
  PROVE  Once(projects[p].wts[w].tabs) /\ ToSet(projects[p].wts[w].tabs) \subseteq AllTabs(projects)
  <1>1. p \in Nat /\ w \in Nat BY RowHas DEF Tree
  <1>2. <<p, w>> \in TabRows(projects) BY <1>1 DEF TabRows, Held, Has
  <1>3. OnceAt(projects, <<p, w>>) BY <1>2 DEF TabsApart
  <1>4. TabsAt(projects, <<p, w>>) \subseteq AllTabs(projects) BY <1>2 DEF AllTabs
  <1> QED BY <1>3, <1>4 DEF OnceAt, TabsAt

\* Activating a row moves no tab.
LEMMA ActivateHeld ==
  ASSUME Tree, TabsAreHeld, NEW p, NEW w, ActivateWorktree(p, w), sessions' = sessions
  PROVE  TabsAreHeld'
  <1>1. CASE Has(p, w) /\ projects[p].wts[w].tabs # <<>> /\ projects[p].wts[w].tab = 0
    <2> DEFINE wt == projects[p].wts[w]
               x == [wt EXCEPT !.tab = 1]
               gone == {}
    <2>1. wt \in Worktree /\ wt.tabs \in Seq(Handles) BY <1>1, RowHas DEF Tree
    <2>2. 1 \in DOMAIN wt.tabs BY <1>1, <2>1, EmptySeq
    <2>3. projects' = WithRow(projects, p, w, x) BY <1>1 DEF ActivateWorktree, WithRow
    <2>4. x \in Worktree /\ x.tabs = wt.tabs
      <3>1. x = [wt EXCEPT !.tab = 1] OBVIOUS
      <3> HIDE DEF wt, x
      <3> QED BY <2>1, <2>2, <3>1, TabSelected
    <2>5. Once(wt.tabs) BY <1>1, RowOnce DEF TabsAreHeld
    <2>6. Trimmed(x, projects[p].wts[w], gone) /\ sessions' = sessions \ gone
      BY <2>4, <2>5 DEF Trimmed
    <2> HIDE DEF x, gone
    <2> QED BY <1>1, <2>3, <2>4, <2>6, HeldReplaced
  <1>2. CASE ~(Has(p, w) /\ projects[p].wts[w].tabs # <<>> /\ projects[p].wts[w].tab = 0)
    BY <1>2, HeldUnchanged DEF ActivateWorktree
  <1> QED BY <1>1, <1>2

\* Nor does switching tabs.
LEMMA SwitchHeld ==
  ASSUME Tree, TabsAreHeld, NEW t, SwitchTab(t)
  PROVE  TabsAreHeld'
  <1> DEFINE p == active_worktree[1]
             w == active_worktree[2]
             wt == projects[p].wts[w]
             x == [wt EXCEPT !.tab = t]
             gone == {}
  <1>1. Has(p, w) /\ t \in DOMAIN wt.tabs BY DEF SwitchTab
  <1>2. wt \in Worktree BY <1>1, RowHas DEF Tree
  <1>3. projects' = WithRow(projects, p, w, x) /\ sessions' = sessions BY DEF SwitchTab, WithRow
  <1>4. x \in Worktree /\ x.tabs = wt.tabs
    <2>1. x = [wt EXCEPT !.tab = t] OBVIOUS
    <2> HIDE DEF wt, x
    <2> QED BY <1>1, <1>2, <2>1, TabSelected
  <1>5. Once(wt.tabs)
    <2> HIDE DEF p, w
    <2> QED BY <1>1, RowOnce DEF TabsAreHeld
  <1>6. Trimmed(x, projects[p].wts[w], gone) /\ sessions' = sessions \ gone
    BY <1>3, <1>4, <1>5 DEF Trimmed
  <1> HIDE DEF p, w, x, gone
  <1> QED BY <1>1, <1>3, <1>4, <1>6, HeldReplaced

\* Closing a tab gives its session up.
LEMMA CloseHeld ==
  ASSUME Tree, TabsAreHeld, CloseTab
  PROVE  TabsAreHeld'
  <1> DEFINE p == active_worktree[1]
             w == active_worktree[2]
             wt == projects[p].wts[w]
             x == WithoutTab(wt, wt.tab)
             gone == {wt.tabs[wt.tab]}
  <1>1. Has(p, w) /\ wt.tab \in DOMAIN wt.tabs BY DEF CloseTab
  <1>2. wt \in Worktree /\ TabShown(wt) /\ wt.tabs \in Seq(Handles)
    BY <1>1, RowHas DEF Tree, AllShown
  <1>3. projects' = WithRow(projects, p, w, x) /\ sessions' = sessions \ gone
    BY DEF CloseTab, WithRow
  <1>4. x \in Worktree /\ x.tabs = RemoveAt(wt.tabs, wt.tab)
    <2>1. x = WithoutTab(wt, wt.tab) OBVIOUS
    <2> HIDE DEF wt, x
    <2> QED BY <1>1, <1>2, <2>1, TabRemoved
  <1>5. Once(wt.tabs)
    <2> HIDE DEF p, w
    <2> QED BY <1>1, RowOnce DEF TabsAreHeld
  <1>6. Once(x.tabs) /\ ToSet(x.tabs) = ToSet(wt.tabs) \ gone
    <2> DEFINE s == wt.tabs
               t == x.tabs
               i == wt.tab
    <2>1. s \in Seq(Handles) /\ Once(s) /\ i \in DOMAIN s /\ t = RemoveAt(s, i)
      BY <1>1, <1>2, <1>4, <1>5
    <2>2. Once(t) /\ ToSet(t) = ToSet(s) \ {s[i]}
      <3> HIDE DEF s, t, i
      <3> QED BY <2>1, OnceRemoved
    <2> QED BY <2>2
  <1>7. Trimmed(x, projects[p].wts[w], gone) BY <1>1, <1>6 DEF ToSet, Trimmed
  <1> HIDE DEF p, w, x, gone
  <1> QED BY <1>1, <1>3, <1>4, <1>7, HeldReplaced

\* What the user does keeps handles and tabs together.
LEMMA UserHeld ==
  ASSUME Tree, TabsAreHeld, UserStep
  PROVE  TabsAreHeld'
  <1>1. \/ projects' = projects /\ sessions' = sessions
        \/ \E p, w : ActivateWorktree(p, w) /\ sessions' = sessions
        \/ \E t : SwitchTab(t)
        \/ CloseTab
    BY DEF UserStep, MoveSelection, ClickRow, ActivateSelection, SwitchTab, OpenNewTab, CloseTab,
         OpenLauncher, Launch, CancelPrompt, AddWorktree, SubmitBranch, AskBranch,
         ImportWorktrees, AskRemoveWorktree, ConfirmRemoveWorktree, AskRemoveProject,
         RemoveProject, ConfirmRemoveProject, OpenProject, PeriodicPrCheck, treeVars
  <1> QED BY <1>1, HeldUnchanged, ActivateHeld, SwitchHeld, CloseHeld

\* A tab for a session that has none.
LEMMA SpawnedHeld ==
  ASSUME Types, Tree, TabsAreHeld, NEW r \in inflight, SessionSpawned(r),
         <<r.n, Link(r.sup)>> \notin sessions
  PROVE  TabsAreHeld'
  <1> DEFINE h == <<r.n, Link(r.sup)>>
             p == r.p
             w == r.w
             wt == projects[p].wts[w]
             x == WithTab(wt, h)
             ps == projects
             qs == projects'
  <1>1. CASE Has(p, w)
    <2>1. /\ wt \in Worktree /\ wt.tabs \in Seq(Handles) /\ p \in DOMAIN ps
          /\ w \in DOMAIN ps[p].wts
      BY <1>1, RowHas DEF Tree
    <2>2. qs = WithRow(ps, p, w, x) /\ sessions' = sessions \cup {h}
      BY <1>1 DEF SessionSpawned, WithRow
    <2>3. h \in Handles
      <3>1. r \in Requests /\ losses \in Nat
        BY BoundsAssumption DEF Types, RequestTypes, LinkTypes
      <3>2. r.n \in Nat \ {0} BY <3>1 DEF Requests
      <3> QED BY <3>1, <3>2, HandleIs
    <2>4. x \in Worktree /\ x.tabs = Append(wt.tabs, h)
      <3>1. x = WithTab(wt, h) OBVIOUS
      <3> HIDE DEF wt, x, h
      <3> QED BY <2>1, <2>3, <3>1, TabAdded
    <2>5. Once(wt.tabs) /\ h \notin ToSet(wt.tabs) /\ h \notin AllTabs(ps)
      <3>1. h \notin AllTabs(ps) BY DEF TabsAreHeld
      <3> HIDE DEF p, w, h
      <3>2. Once(wt.tabs) /\ ToSet(wt.tabs) \subseteq AllTabs(ps)
        BY <1>1, RowOnce DEF TabsAreHeld
      <3> QED BY <3>1, <3>2
    <2>6. Once(x.tabs) /\ ToSet(x.tabs) = ToSet(wt.tabs) \cup {h}
      <3> DEFINE s == wt.tabs
                 t == x.tabs
      <3>1. s \in Seq(Handles) /\ Once(s) /\ h \notin ToSet(s) /\ t = Append(s, h)
        BY <2>1, <2>4, <2>5
      <3>2. Once(t) /\ ToSet(t) = ToSet(s) \cup {h}
        <4> HIDE DEF s, t, h
        <4> QED BY <2>3, <3>1, OnceAppended
      <3> QED BY <3>2
    <2>7. ps \in Seq(Project) /\ TabsApart(ps) BY DEF Tree, TabsAreHeld
    <2>8. Extended(x, ps[p].wts[w], h) BY <2>6 DEF Extended
    <2>9. AllTabs(qs) = AllTabs(ps) \cup {h} /\ TabsApart(qs)
      <3> HIDE DEF h, p, w, x, ps, qs
      <3> QED BY <2>1, <2>2, <2>4, <2>5, <2>7, <2>8, TabsGiven
    <2>10. sessions' = AllTabs(projects') /\ TabsApart(projects')
      <3> HIDE DEF h
      <3> QED BY <2>2, <2>9 DEF TabsAreHeld
    <2> QED BY <2>10 DEF TabsAreHeld
  <1>2. CASE ~Has(p, w)
    <2>1. projects' = projects /\ sessions' = sessions BY <1>2 DEF SessionSpawned
    <2> QED BY <2>1, HeldUnchanged
  <1> QED BY <1>1, <1>2

\* The tabs of some rows.
TabsIn(ps, Z) == UNION {TabsAt(ps, z) : z \in Z}
\* The rows Z are gone; the others are where B says they were.
RowsFrom(ps, qs, B, Z) ==
  /\ Z \subseteq TabRows(ps)
  /\ \A x \in TabRows(qs) :
       /\ B[x] \in TabRows(ps) /\ B[x] \notin Z
       /\ OnceAt(ps, B[x]) => OnceAt(qs, x)
       /\ TabsAt(qs, x) = TabsAt(ps, B[x])
  /\ \A x, y \in TabRows(qs) : B[x] = B[y] => x = y
  /\ \A z \in TabRows(ps) : z \in Z \/ \E x \in TabRows(qs) : B[x] = z

\* Then their tabs are gone.
LEMMA TabsMoved ==
  ASSUME NEW ps, NEW qs, NEW B, NEW Z, TabsApart(ps), RowsFrom(ps, qs, B, Z),
         NEW gone, gone = TabsIn(ps, Z)
  PROVE  AllTabs(qs) = AllTabs(ps) \ gone /\ TabsApart(qs)
  <1>1. ASSUME NEW y \in TabRows(ps), y \notin Z PROVE TabsAt(ps, y) \ gone = TabsAt(ps, y)
    <2>1. \A z \in Z : z \in TabRows(ps) /\ z # y BY <1>1 DEF RowsFrom
    <2>2. \A z \in Z : TabsAt(ps, y) \cap TabsAt(ps, z) = {} BY <2>1 DEF TabsApart
    <2> QED BY <2>2 DEF TabsIn
  <1>2. \A z \in Z : TabsAt(ps, z) \subseteq gone BY DEF TabsIn
  <1>3. ASSUME NEW x \in TabRows(qs)
        PROVE  /\ OnceAt(qs, x) /\ B[x] \in TabRows(ps)
               /\ TabsAt(qs, x) = TabsAt(ps, B[x]) \ gone
    <2>1. B[x] \in TabRows(ps) /\ B[x] \notin Z /\ TabsAt(qs, x) = TabsAt(ps, B[x])
      BY DEF RowsFrom
    <2>2. OnceAt(qs, x) BY <2>1 DEF RowsFrom, TabsApart
    <2> QED BY <1>1, <2>1, <2>2
  <1>4. ASSUME NEW z \in TabRows(ps)
        PROVE  \/ TabsAt(ps, z) \subseteq gone
               \/ \E x \in TabRows(qs) : B[x] = z /\ TabsAt(qs, x) = TabsAt(ps, z) \ gone
    <2>1. CASE z \in Z BY <1>2, <2>1
    <2>2. CASE z \notin Z
      <3>1. PICK x \in TabRows(qs) : B[x] = z BY <2>2 DEF RowsFrom
      <3> QED BY <1>3, <3>1
    <2> QED BY <2>1, <2>2
  <1>5. TabsFrom(ps, qs, B, gone) BY <1>3, <1>4 DEF TabsFrom, RowsFrom
  <1> QED BY <1>5, TabsFewer

\* One row is gone.
LEMMA RowGoneTabs ==
  ASSUME NEW ps \in Seq(Project), NEW qs \in Seq(Project), TabsApart(ps), NEW p, NEW w,
         Held(ps, p, w), RowGone(ps, qs, p, w), NEW gone, gone = TabsAt(ps, <<p, w>>)
  PROVE  AllTabs(qs) = AllTabs(ps) \ gone /\ TabsApart(qs)
  <1> DEFINE Z == {<<p, w>>}
             B == [x \in TabRows(qs) |-> IF x[1] = p /\ x[2] >= w THEN <<p, x[2] + 1>> ELSE x]
  <1>0. ps[p].wts \in Seq(Worktree) /\ p \in DOMAIN ps /\ w \in DOMAIN ps[p].wts
    <2>1. ps[p] \in Project BY DEF Held
    <2> QED BY <2>1 DEF Held, Project
  <1>1. p \in Nat /\ w \in 1 .. Len(ps[p].wts) /\ Len(ps[p].wts) \in Nat BY <1>0
  <1>2. /\ DOMAIN qs = DOMAIN ps /\ \A q \in DOMAIN ps : q # p => qs[q] = ps[q]
        /\ DOMAIN qs[p].wts = 1 .. Len(ps[p].wts) - 1
        /\ \A v \in DOMAIN qs[p].wts :
             qs[p].wts[v] = IF v < w THEN ps[p].wts[v] ELSE ps[p].wts[v + 1]
    BY DEF RowGone, Shortened
  <1>3. <<p, w>> \in TabRows(ps) BY <1>0, <1>1 DEF TabRows, Held
  <1>4. ASSUME NEW x \in TabRows(qs)
        PROVE  /\ B[x] \in TabRows(ps) /\ B[x] # <<p, w>> /\ x = <<x[1], x[2]>>
               /\ qs[x[1]].wts[x[2]] = ps[B[x][1]].wts[B[x][2]]
    <2>1. /\ x = <<x[1], x[2]>> /\ x[1] \in DOMAIN qs /\ x[2] \in DOMAIN qs[x[1]].wts
          /\ x[1] \in Nat /\ x[2] \in Nat
      BY RowOf
    <2>2. CASE x[1] # p
      <3>1. B[x] = x BY <2>2
      <3> QED BY <1>2, <2>1, <2>2, <3>1 DEF TabRows, Held
    <2>3. CASE x[1] = p /\ x[2] < w
      <3>1. B[x] = x BY <1>1, <2>1, <2>3
      <3>2. x[2] \in DOMAIN ps[p].wts BY <1>0, <1>1, <1>2, <2>1, <2>3
      <3>3. qs[p].wts[x[2]] = ps[p].wts[x[2]] BY <1>2, <2>1, <2>3
      <3>4. x # <<p, w>> BY <1>1, <2>1, <2>3
      <3> QED BY <1>0, <2>1, <2>3, <3>1, <3>2, <3>3, <3>4 DEF TabRows, Held
    <2>4. CASE x[1] = p /\ ~(x[2] < w)
      <3> DEFINE v == x[2] + 1
      <3>1. B[x] = <<p, v>> BY <1>1, <2>1, <2>4
      <3>2. v \in DOMAIN ps[p].wts /\ v \in Nat /\ v # w BY <1>0, <1>1, <1>2, <2>1, <2>4
      <3>3. qs[p].wts[x[2]] = ps[p].wts[v] BY <1>2, <2>1, <2>4
      <3> HIDE DEF v, B
      <3> QED BY <1>0, <1>1, <2>1, <2>4, <3>1, <3>2, <3>3 DEF TabRows, Held
    <2> QED BY <2>2, <2>3, <2>4
  <1>5. ASSUME NEW x \in TabRows(qs), NEW y \in TabRows(qs), B[x] = B[y] PROVE x = y
    <2>1. /\ x = <<x[1], x[2]>> /\ x[1] \in Nat /\ x[2] \in Nat
          /\ y = <<y[1], y[2]>> /\ y[1] \in Nat /\ y[2] \in Nat
      BY RowOf
    <2>2. /\ B[x] = IF x[1] = p /\ x[2] >= w THEN <<p, x[2] + 1>> ELSE x
          /\ B[y] = IF y[1] = p /\ y[2] >= w THEN <<p, y[2] + 1>> ELSE y
      OBVIOUS
    <2> HIDE DEF B
    <2>3. CASE x[1] = p /\ x[2] >= w /\ y[1] = p /\ y[2] >= w
      <3>1. <<p, x[2] + 1>> = <<p, y[2] + 1>> BY <1>5, <2>2, <2>3
      <3>2. x[2] + 1 = y[2] + 1 BY <3>1
      <3>3. x[2] = y[2] BY <2>1, <3>2
      <3> QED BY <2>1, <2>3, <3>3
    <2>4. CASE ~(x[1] = p /\ x[2] >= w) /\ ~(y[1] = p /\ y[2] >= w)
      BY <1>5, <2>2, <2>4
    <2>5. CASE x[1] = p /\ x[2] >= w /\ ~(y[1] = p /\ y[2] >= w)
      <3>1. y = <<p, x[2] + 1>> BY <1>5, <2>2, <2>5
      <3>2. y[1] = p /\ y[2] = x[2] + 1 BY <3>1
      <3> QED BY <1>1, <2>1, <2>5, <3>2
    <2>6. CASE y[1] = p /\ y[2] >= w /\ ~(x[1] = p /\ x[2] >= w)
      <3>1. x = <<p, y[2] + 1>> BY <1>5, <2>2, <2>6
      <3>2. x[1] = p /\ x[2] = y[2] + 1 BY <3>1
      <3> QED BY <1>1, <2>1, <2>6, <3>2
    <2> QED BY <2>3, <2>4, <2>5, <2>6
  <1>6. ASSUME NEW z \in TabRows(ps), z # <<p, w>> PROVE \E x \in TabRows(qs) : B[x] = z
    <2>1. /\ z = <<z[1], z[2]>> /\ z[1] \in DOMAIN ps /\ z[2] \in DOMAIN ps[z[1]].wts
          /\ z[1] \in Nat /\ z[2] \in Nat
      BY RowOf
    <2>2. CASE z[1] # p
      <3>1. z \in TabRows(qs) BY <1>2, <2>1, <2>2 DEF TabRows, Held
      <3> QED BY <2>2, <3>1
    <2>3. CASE z[1] = p /\ z[2] < w
      <3>1. z[2] \in DOMAIN qs[p].wts BY <1>0, <1>1, <1>2, <2>1, <2>3
      <3>2. z \in TabRows(qs) BY <1>0, <1>2, <2>1, <2>3, <3>1 DEF TabRows, Held
      <3> QED BY <1>1, <2>1, <2>3, <3>2
    <2>4. CASE z[1] = p /\ ~(z[2] < w)
      <3> DEFINE v == z[2] - 1
                 x == <<p, v>>
      <3>1. z[2] # w BY <1>6, <2>1, <2>4
      <3>2. v \in DOMAIN qs[p].wts /\ v \in Nat /\ v >= w /\ v + 1 = z[2]
        BY <1>0, <1>1, <1>2, <2>1, <2>4, <3>1
      <3> HIDE DEF v
      <3>3. x \in TabRows(qs) BY <1>0, <1>1, <1>2, <3>2 DEF TabRows, Held
      <3>4. B[x] = <<p, v + 1>> BY <3>2, <3>3
      <3> QED BY <2>1, <2>4, <3>2, <3>3, <3>4
    <2> QED BY <2>2, <2>3, <2>4
  <1> HIDE DEF B
  <1>7. RowsFrom(ps, qs, B, Z)
    BY <1>3, <1>4, <1>5, <1>6 DEF RowsFrom, OnceAt, TabsAt
  <1>8. gone = TabsIn(ps, Z) BY DEF TabsIn
  <1> HIDE DEF Z
  <1> QED BY <1>7, <1>8, TabsMoved

\* One project is gone.
RowsOf(ps, p) == {x \in TabRows(ps) : x[1] = p}
\* With a project its tabs go, and no other.
LEMMA ProjectGoneTabs ==
  ASSUME NEW ps \in Seq(Project), NEW qs \in Seq(Project), TabsApart(ps), NEW p,
         ProjectGone(ps, qs, p), NEW gone,
         gone = TabsIn(ps, RowsOf(ps, p))
  PROVE  AllTabs(qs) = AllTabs(ps) \ gone /\ TabsApart(qs)
  <1> DEFINE Z == RowsOf(ps, p)
             Back(i) == IF i < p THEN i ELSE i + 1
             B == [x \in TabRows(qs) |-> <<Back(x[1]), x[2]>>]
  <1>1. p \in 1 .. Len(ps) /\ DOMAIN qs = 1 .. Len(ps) - 1 /\ Len(ps) \in Nat
        /\ DOMAIN ps = 1 .. Len(ps)
    BY DEF ProjectGone
  <1>2. ASSUME NEW i \in DOMAIN qs
        PROVE  Back(i) \in DOMAIN ps /\ Back(i) # p /\ qs[i] = ps[Back(i)] /\ Back(i) \in Nat
    <2>1. Back(i) \in DOMAIN ps /\ Back(i) # p /\ Back(i) \in Nat BY <1>1
    <2> QED BY <2>1 DEF ProjectGone
  <1>3. ASSUME NEW i \in DOMAIN qs, NEW j \in DOMAIN qs, Back(i) = Back(j) PROVE i = j
    BY <1>1, <1>3
  <1> HIDE DEF Back
  <1>4. ASSUME NEW x \in TabRows(qs)
        PROVE  /\ B[x] \in TabRows(ps) /\ B[x] \notin Z
               /\ qs[x[1]].wts[x[2]] = ps[B[x][1]].wts[B[x][2]]
    <2>1. /\ x = <<x[1], x[2]>> /\ x[1] \in DOMAIN qs /\ x[2] \in DOMAIN qs[x[1]].wts
          /\ x[1] \in Nat /\ x[2] \in Nat
      BY RowOf
    <2>2. B[x] = <<Back(x[1]), x[2]>> OBVIOUS
    <2> HIDE DEF B
    <2> QED BY <1>2, <2>1, <2>2 DEF TabRows, Held, RowsOf
  <1>5. ASSUME NEW x \in TabRows(qs), NEW y \in TabRows(qs), B[x] = B[y] PROVE x = y
    <2>1. /\ x = <<x[1], x[2]>> /\ x[1] \in DOMAIN qs /\ y = <<y[1], y[2]>> /\ y[1] \in DOMAIN qs
      BY RowOf
    <2>2. Back(x[1]) = Back(y[1]) /\ x[2] = y[2] BY <1>5
    <2> QED BY <1>3, <2>1, <2>2
  <1>6. ASSUME NEW z \in TabRows(ps), z \notin Z PROVE \E x \in TabRows(qs) : B[x] = z
    <2>1. /\ z = <<z[1], z[2]>> /\ z[1] \in DOMAIN ps /\ z[2] \in DOMAIN ps[z[1]].wts
          /\ z[1] \in Nat /\ z[2] \in Nat /\ z[1] # p
      BY <1>6, RowOf DEF RowsOf
    <2> DEFINE i == ShiftProject(z[1], p)
               x == <<i, z[2]>>
    <2>2. i = IF z[1] > p THEN z[1] - 1 ELSE z[1] BY DEF ShiftProject
    <2>3. i \in DOMAIN qs /\ Back(i) = z[1] /\ i \in Nat BY <1>1, <2>1, <2>2 DEF Back
    <2> HIDE DEF i
    <2>4. x \in TabRows(qs) BY <1>2, <2>1, <2>3 DEF TabRows, Held
    <2>5. B[x] = z BY <2>1, <2>3, <2>4
    <2> QED BY <2>4, <2>5
  <1> HIDE DEF B
  <1>7. Z \subseteq TabRows(ps) /\ gone = TabsIn(ps, Z) BY DEF RowsOf
  <1> HIDE DEF Z
  <1>8. RowsFrom(ps, qs, B, Z)
    BY <1>4, <1>5, <1>6, <1>7 DEF RowsFrom, OnceAt, TabsAt
  <1>9. TabsApart(ps) OBVIOUS
  <1>10. AllTabs(qs) = AllTabs(ps) \ gone BY <1>7, <1>8, <1>9, TabsMoved, SMTT(60)
  <1> QED BY <1>7, <1>8, <1>9, <1>10, TabsMoved, SMTT(60)

\* The tabs of a project are those of its rows.
LEMMA TabsOfIs ==
  ASSUME Tree, NEW p \in DOMAIN projects
  PROVE  TabsOf(p) = TabsIn(projects, RowsOf(projects, p))
  <1>1. projects[p].wts \in Seq(Worktree) BY ProjectHas DEF Tree
  <1>2. p \in Nat /\ \A w \in DOMAIN projects[p].wts : w \in Nat BY <1>1 DEF Tree
  <1>3. ASSUME NEW w \in DOMAIN projects[p].wts
        PROVE  <<p, w>> \in RowsOf(projects, p)
               /\ TabsAt(projects, <<p, w>>) = ToSet(projects[p].wts[w].tabs)
    BY <1>2 DEF RowsOf, TabRows, Held, TabsAt
  <1>4. ASSUME NEW x \in RowsOf(projects, p)
        PROVE  x[2] \in DOMAIN projects[p].wts
               /\ TabsAt(projects, x) = ToSet(projects[p].wts[x[2]].tabs)
    BY DEF RowsOf, TabRows, Held, TabsAt
  <1>5. \A h \in TabsOf(p) : h \in TabsIn(projects, RowsOf(projects, p))
    BY <1>3 DEF TabsOf, TabsIn
  <1>6. \A h \in TabsIn(projects, RowsOf(projects, p)) : h \in TabsOf(p)
    BY <1>4 DEF TabsOf, TabsIn
  <1> QED BY <1>5, <1>6

\* A worktree that is removed takes its tabs and their handles with it.
LEMMA WorktreeRemovedHeld ==
  ASSUME Types, Tree, TabsAreHeld, NEW r \in inflight, WorktreeRemoved(r)
  PROVE  TabsAreHeld'
  <1> DEFINE ps == projects
             qs == projects'
             p == r.p
             w == r.w
             gone == TabsAt(ps, <<p, w>>)
  <1>1. CASE Has(p, w)
    <2>1. ps \in Seq(Project) /\ qs \in Seq(Project) /\ TabsApart(ps)
      BY <1>1, WorktreeRemovedTree DEF Tree, TabsAreHeld
    <2>2. Held(ps, p, w) /\ RowGone(ps, qs, p, w)
      BY <1>1, WorktreeRemovedTree DEF RowGone, Held, Has
    <2>3. gone = TabsAt(ps, <<p, w>>) OBVIOUS
    <2>4. sessions' = sessions \ gone BY <1>1 DEF WorktreeRemoved, TabsAt
    <2>5. AllTabs(qs) = AllTabs(ps) \ gone /\ TabsApart(qs)
      <3> HIDE DEF ps, qs, p, w, gone
      <3>1. AllTabs(qs) = AllTabs(ps) \ gone BY <2>1, <2>2, <2>3, RowGoneTabs, SMTT(60)
      <3> QED BY <2>1, <2>2, <2>3, <3>1, RowGoneTabs, SMTT(60)
    <2> HIDE DEF gone
    <2>6. sessions' = AllTabs(projects') /\ TabsApart(projects') BY <2>4, <2>5 DEF TabsAreHeld
    <2> QED BY <2>6 DEF TabsAreHeld
  <1>2. CASE ~Has(p, w)
    <2>1. projects' = projects /\ sessions' = sessions BY <1>2 DEF WorktreeRemoved
    <2> QED BY <2>1, HeldUnchanged
  <1> QED BY <1>1, <1>2

\* So does a project.
LEMMA ProjectRemovedHeld ==
  ASSUME Types, Tree, TabsAreHeld, NEW r \in inflight, ProjectRemoved(r)
  PROVE  TabsAreHeld'
  <1> DEFINE ps == projects
             qs == projects'
             p == IndexOf(r.slug)
             gone == TabsIn(ps, RowsOf(ps, p))
  <1>1. CASE p # 0
    <2>1. ps \in Seq(Project) /\ qs \in Seq(Project) /\ TabsApart(ps) /\ p \in DOMAIN ps
      BY <1>1, ProjectRemovedTree DEF Tree, TabsAreHeld
    <2>2. ProjectGone(ps, qs, p) BY <1>1, ProjectRemovedTree DEF ProjectGone
    <2>3. gone = TabsIn(ps, RowsOf(ps, p)) OBVIOUS
    <2>4. sessions' = sessions \ gone
      <3>1. sessions' = sessions \ TabsOf(p) BY <1>1 DEF ProjectRemoved
      <3>2. TabsOf(p) = gone
        <4> HIDE DEF p
        <4> QED BY <2>1, TabsOfIs
      <3> QED BY <3>1, <3>2
    <2>5. AllTabs(qs) = AllTabs(ps) \ gone /\ TabsApart(qs)
      <3> HIDE DEF ps, qs, p, gone
      <3>1. AllTabs(qs) = AllTabs(ps) \ gone BY <2>1, <2>2, <2>3, ProjectGoneTabs, SMTT(60)
      <3> QED BY <2>1, <2>2, <2>3, <3>1, ProjectGoneTabs, SMTT(60)
    <2> HIDE DEF gone
    <2>6. sessions' = AllTabs(projects') /\ TabsApart(projects') BY <2>4, <2>5 DEF TabsAreHeld
    <2> QED BY <2>6 DEF TabsAreHeld
  <1>2. CASE p = 0
    <2>1. projects' = projects /\ sessions' = sessions BY <1>2 DEF ProjectRemoved
    <2> QED BY <2>1, HeldUnchanged
  <1> QED BY <1>1, <1>2

\* Rows that stay where they are, some without some of their tabs.
LEMMA HeldTrimmed ==
  ASSUME Tree, TabsAreHeld, Redecorated, NEW gone,
         \A p \in DOMAIN projects : \A w \in DOMAIN projects[p].wts :
           /\ Once(projects'[p].wts[w].tabs)
           /\ ToSet(projects'[p].wts[w].tabs) = ToSet(projects[p].wts[w].tabs) \ gone,
         sessions' = sessions \ gone
  PROVE  TabsAreHeld'
  <1> DEFINE ps == projects
             qs == projects'
  <1>1. TabRows(qs) = TabRows(ps)
    <2>1. \A p, w : Held(qs, p, w) <=> Held(ps, p, w) BY DEF Redecorated, SameShape, Held
    <2> HIDE DEF ps, qs
    <2> QED BY <2>1 DEF TabRows
  <1>2. \A x \in TabRows(ps) : OnceAt(qs, x) /\ TabsAt(qs, x) = TabsAt(ps, x) \ gone
    BY DEF TabRows, Held, OnceAt, TabsAt
  <1>3. TabsApart(ps) BY DEF TabsAreHeld
  <1>4. AllTabs(qs) = AllTabs(ps) \ gone /\ TabsApart(qs)
    <2> HIDE DEF ps, qs
    <2> QED BY <1>1, <1>2, <1>3, TabsInPlace
  <1>5. sessions' = AllTabs(projects') /\ TabsApart(projects') BY <1>4 DEF TabsAreHeld
  <1> QED BY <1>5 DEF TabsAreHeld

\* A session that has ended loses its tab, wherever it is.
LEMMA ExitedHeld ==
  ASSUME Tree, TabsAreHeld, NEW s, SessionExited(s)
  PROVE  TabsAreHeld'
  <1> DEFINE id == GlobalId(s)
             gone == {id}
  <1>1. /\ Redecorated
        /\ \A p \in DOMAIN projects : projects'[p].wts = RowsWithout(id)[p]
    <2> HIDE DEF id
    <2>1. projects' = WithoutSession(projects, id) BY DEF SessionExited, id
    <2> QED BY <2>1, ExitedTree
  <1>2. sessions' = sessions \ gone BY DEF SessionExited
  <1> HIDE DEF id
  <1>3. ASSUME NEW p \in DOMAIN projects, NEW w \in DOMAIN projects[p].wts
        PROVE  /\ Once(projects'[p].wts[w].tabs)
               /\ ToSet(projects'[p].wts[w].tabs) = ToSet(projects[p].wts[w].tabs) \ gone
    <2> DEFINE wt == projects[p].wts[w]
               s0 == wt.tabs
               at == PlaceOf(s0, id)
               x == projects'[p].wts[w]
    <2>1. wt \in Worktree /\ TabShown(wt) /\ s0 \in Seq(Handles) /\ Once(s0)
      BY RowHas, RowOnce DEF Tree, TabsAreHeld, AllShown, Has
    <2>2. x = IF at = 0 THEN wt ELSE WithoutTab(wt, at) BY <1>1 DEF RowsWithout
    <2>3. /\ at # 0 => at \in DOMAIN s0 /\ s0[at] = id
          /\ at = 0 => \A i \in DOMAIN s0 : s0[i] # id
      <3>1. at = PlaceOf(s0, id) OBVIOUS
      <3> HIDE DEF at, s0
      <3> QED BY <2>1, <3>1, PlaceIs
    <2> HIDE DEF at
    <2>4. CASE at = 0
      <3>1. x = wt BY <2>2, <2>4
      <3>2. id \notin ToSet(s0) BY <2>3, <2>4 DEF ToSet
      <3> QED BY <2>1, <3>1, <3>2
    <2>5. CASE at # 0
      <3> DEFINE t == x.tabs
      <3>1. t = RemoveAt(s0, at)
        <4>1. x = WithoutTab(wt, at) BY <2>2, <2>5
        <4> HIDE DEF wt, x
        <4> QED BY <2>1, <2>3, <2>5, <4>1, TabRemoved
      <3>2. Once(t) /\ ToSet(t) = ToSet(s0) \ {s0[at]}
        <4> HIDE DEF t, s0
        <4> QED BY <2>1, <2>3, <2>5, <3>1, OnceRemoved
      <3> QED BY <2>3, <2>5, <3>2
    <2> QED BY <2>4, <2>5
  <1> HIDE DEF gone
  <1> QED BY <1>1, <1>2, <1>3, HeldTrimmed

\* A supervisor that is lost takes the tabs of its projects with it.
LEMMA LostHeld ==
  ASSUME Tree, TabsAreHeld, NEW sup, SupervisorLost(sup)
  PROVE  TabsAreHeld'
  <1> DEFINE mine == {p \in DOMAIN projects : projects[p].sup = sup}
             gone == UNION {TabsOf(p) : p \in mine}
  <1>1. /\ Redecorated
        /\ \A p \in DOMAIN projects : projects'[p].wts = RowsLost(sup)[p]
    BY LostTree
  <1>2. sessions' = sessions \ gone BY DEF SupervisorLost
  <1>3. ASSUME NEW p \in DOMAIN projects, NEW w \in DOMAIN projects[p].wts
        PROVE  /\ Once(projects'[p].wts[w].tabs)
               /\ ToSet(projects'[p].wts[w].tabs) = ToSet(projects[p].wts[w].tabs) \ gone
    <2> DEFINE old == projects[p].wts[w].tabs
    <2>1. Once(old) BY RowOnce DEF TabsAreHeld, Has
    <2>2. CASE projects[p].sup = sup
      <3>1. projects'[p].wts[w].tabs = <<>>
        <4>1. RowsLost(sup)[p] = [v \in DOMAIN projects[p].wts |->
                                    NewWorktree(projects[p].wts[v].path)]
          BY <2>2 DEF RowsLost
        <4>2. RowsLost(sup)[p][w] = NewWorktree(projects[p].wts[w].path) BY <4>1
        <4>3. projects'[p].wts[w] = NewWorktree(projects[p].wts[w].path) BY <1>1, <4>2
        <4> QED BY <4>3 DEF NewWorktree
      <3>2. ToSet(old) \subseteq TabsOf(p) BY DEF TabsOf
      <3>3. ToSet(old) \subseteq gone BY <2>2, <3>2
      <3>4. Once(<<>>) /\ ToSet(<<>>) = {} BY DEF Once, ToSet
      <3> QED BY <3>1, <3>3, <3>4
    <2>3. CASE projects[p].sup # sup
      <3>1. projects'[p].wts[w].tabs = old BY <1>1, <2>3 DEF RowsLost
      <3>2. ASSUME NEW q \in mine, NEW v \in DOMAIN projects[q].wts
            PROVE  ToSet(old) \cap ToSet(projects[q].wts[v].tabs) = {}
        <4>1. q # p /\ q \in DOMAIN projects BY <2>3
        <4>2. p \in Nat /\ w \in Nat /\ q \in Nat /\ v \in Nat
          BY <4>1, RowHas DEF Tree, Has
        <4>3. <<p, w>> \in TabRows(projects) /\ <<q, v>> \in TabRows(projects)
          BY <4>1, <4>2 DEF TabRows, Held
        <4>4. <<p, w>> # <<q, v>> BY <4>1
        <4>5. TabsAt(projects, <<p, w>>) \cap TabsAt(projects, <<q, v>>) = {}
          BY <4>3, <4>4 DEF TabsAreHeld, TabsApart
        <4> QED BY <4>5 DEF TabsAt
      <3>3. \A q \in mine : ToSet(old) \cap TabsOf(q) = {} BY <3>2 DEF TabsOf
      <3>4. ToSet(old) \cap gone = {}
        <4> HIDE DEF mine, old
        <4> QED BY <3>3
      <3> HIDE DEF gone
      <3> QED BY <2>1, <3>1, <3>4
    <2> QED BY <2>2, <2>3
  <1> HIDE DEF gone
  <1> QED BY <1>1, <1>2, <1>3, HeldTrimmed

\* Shells that no tab shows, each a single one, get their tabs when their supervisor
\* is back.
LEMMA ConnectedHeld ==
  ASSUME Types, Tree, TabsAreHeld, NEW sup, SupervisorConnected(sup),
         \A s \in Homed(sup) : <<s.id, losses>> \notin sessions,
         \A s, t \in live : s.id = t.id => s = t
  PROVE  TabsAreHeld'
  <1> DEFINE ps == projects
             qs == projects'
             Mine(x) == IF x \in Homes(sup) THEN Adopted(sup, x[1], x[2]) ELSE {}
             A == [x \in TabRows(ps) |-> Mine(x)]
  <1>1. /\ Redecorated
        /\ sessions' = sessions \cup {<<s.id, losses>> : s \in Homed(sup)}
    BY ConnectedTree
  <1>2. PICK new :
          /\ \A h \in Homes(sup) :
               /\ new[h] \in SetToSeqs(Adopted(sup, h[1], h[2]))
               /\ new[h] \in Seq(Handles) /\ new[h] # <<>>
          /\ \A p \in DOMAIN projects : projects'[p].wts = RowsConnected(Homes(sup), new)[p]
    BY ConnectedTree
  <1>3. \A s \in Homed(sup) : Located(s) = <<Located(s)[1], Located(s)[2]>>
                              /\ Has(Located(s)[1], Located(s)[2])
    BY LocatedIs DEF Homed
  <1>4. TabRows(qs) = TabRows(ps)
    <2>1. \A p, w : Held(qs, p, w) <=> Held(ps, p, w) BY <1>1 DEF Redecorated, SameShape, Held
    <2> HIDE DEF ps, qs
    <2> QED BY <2>1 DEF TabRows
  <1>5. ASSUME NEW h \in Homes(sup)
        PROVE  /\ h \in TabRows(ps) /\ h = <<h[1], h[2]>>
               /\ Adopted(sup, h[1], h[2])
                    = {<<s.id, losses>> : s \in {t \in Homed(sup) : Located(t) = h}}
               /\ IsFiniteSet(Adopted(sup, h[1], h[2]))
    <2>1. PICK s \in Homed(sup) : h = Located(s) BY DEF Homes
    <2>2. h = <<h[1], h[2]>> /\ Has(h[1], h[2]) BY <1>3, <2>1
    <2>3. h \in TabRows(ps)
      <3>1. h[1] \in Nat /\ h[2] \in Nat BY <2>2, RowHas DEF Tree
      <3>2. h \in Nat \X Nat BY <2>2, <3>1
      <3> QED BY <2>2, <3>2 DEF TabRows, Held, Has
    <2>4. {x \in live : x.sup = sup /\ Located(x) = <<h[1], h[2]>>}
            = {t \in Homed(sup) : Located(t) = h}
      <3>1. Located(s) # None BY <2>1 DEF Homed
      <3> QED BY <2>1, <2>2, <3>1 DEF Homed
    <2>5. ShellTypes /\ losses \in Nat BY BoundsAssumption DEF Types, LinkTypes
    <2>6. IsFiniteSet(Adopted(sup, h[1], h[2])) BY <1>3, <2>5, AdoptedIs
    <2> QED BY <2>2, <2>3, <2>4, <2>6 DEF Adopted
  <1>6. ASSUME NEW x \in TabRows(ps)
        PROVE  Mine(x) = {<<s.id, losses>> : s \in {t \in Homed(sup) : Located(t) = x}}
    <2>1. CASE x \in Homes(sup) BY <1>5, <2>1
    <2>2. CASE x \notin Homes(sup)
      <3>1. {t \in Homed(sup) : Located(t) = x} = {} BY <2>2 DEF Homes
      <3> QED BY <2>2, <3>1
    <2> QED BY <2>1, <2>2
  <1>7. \A x \in TabRows(ps) : A[x] = Mine(x) OBVIOUS
  <1> HIDE DEF A, Mine
  <1>8. \A x \in TabRows(ps) : A[x] \cap AllTabs(ps) = {} BY <1>6, <1>7 DEF TabsAreHeld
  <1>9. ASSUME NEW x \in TabRows(ps), NEW y \in TabRows(ps), x # y PROVE A[x] \cap A[y] = {}
    <2>1. ASSUME NEW s \in Homed(sup), NEW t \in Homed(sup), Located(s) = x, Located(t) = y
          PROVE  <<s.id, losses>> # <<t.id, losses>>
      <3>1. s # t BY <1>9, <2>1
      <3>2. s \in live /\ t \in live BY DEF Homed
      <3>3. s.id # t.id BY <3>1, <3>2
      <3> QED BY <3>3
    <2> QED BY <1>6, <1>7, <2>1
  <1>10. ASSUME NEW x \in TabRows(ps)
         PROVE  OnceAt(qs, x) /\ TabsAt(qs, x) = TabsAt(ps, x) \cup A[x]
    <2> DEFINE old == ps[x[1]].wts[x[2]].tabs
               now == qs[x[1]].wts[x[2]].tabs
    <2>1. /\ x = <<x[1], x[2]>> /\ x[1] \in DOMAIN ps /\ x[2] \in DOMAIN ps[x[1]].wts
          /\ old \in Seq(Handles) /\ ps[x[1]].wts[x[2]] \in Worktree
      BY RowOf DEF Tree
    <2>2. Once(old) /\ ToSet(old) \subseteq AllTabs(ps)
      BY <2>1 DEF TabsAreHeld, TabsApart, OnceAt, AllTabs, TabsAt
    <2>3. qs[x[1]].wts[x[2]] =
            IF x \notin Homes(sup) THEN ps[x[1]].wts[x[2]]
            ELSE WithTabs(ps[x[1]].wts[x[2]], new[x])
      <3> DEFINE p == x[1]
                 w == x[2]
      <3>1. RowsConnected(Homes(sup), new)[p] = [v \in DOMAIN ps[p].wts |->
              IF <<p, v>> \notin Homes(sup) THEN ps[p].wts[v]
              ELSE WithTabs(ps[p].wts[v], new[<<p, v>>])]
        BY <2>1 DEF RowsConnected, WithTabs
      <3>2. RowsConnected(Homes(sup), new)[p][w] =
              IF <<p, w>> \notin Homes(sup) THEN ps[p].wts[w]
              ELSE WithTabs(ps[p].wts[w], new[<<p, w>>])
        BY <2>1, <3>1
      <3>3. qs[p].wts = RowsConnected(Homes(sup), new)[p] BY <1>2, <2>1
      <3> QED BY <2>1, <3>2, <3>3
    <2>4. CASE x \notin Homes(sup)
      <3>1. A[x] = {} BY <1>7, <2>4 DEF Mine
      <3>2. now = old BY <2>3, <2>4
      <3> QED BY <2>2, <3>1, <3>2 DEF OnceAt, TabsAt
    <2>5. CASE x \in Homes(sup)
      <3> DEFINE order == new[x]
                 B == Adopted(sup, x[1], x[2])
      <3>1. A[x] = B BY <1>7, <2>5 DEF Mine
      <3>2. order \in SetToSeqs(B) /\ order \in Seq(Handles) /\ IsFiniteSet(B) BY <1>2, <1>5, <2>5
      <3>3. Once(order) /\ ToSet(order) = B
        <4> HIDE DEF order, B
        <4> QED BY <3>2, OnceOrdered
      <3>4. now = Joined(old, order) BY <2>1, <2>3, <2>5 DEF WithTabs, Worktree, Joined
      <3>5. ToSet(old) \cap ToSet(order) = {} BY <1>8, <2>2, <3>1, <3>3
      <3>6. Once(now) /\ ToSet(now) = ToSet(old) \cup ToSet(order)
        <4> HIDE DEF now, old, order
        <4> QED BY <2>1, <2>2, <3>2, <3>3, <3>4, <3>5, OnceJoined
      <3> QED BY <3>1, <3>3, <3>6 DEF OnceAt, TabsAt
    <2> QED BY <2>4, <2>5
  <1>11. AllTabs(qs) = AllTabs(ps) \cup UNION {A[x] : x \in TabRows(ps)} /\ TabsApart(qs)
    <2>1. TabsApart(ps) BY DEF TabsAreHeld
    <2> HIDE DEF ps, qs
    <2>2. TabsWith(ps, qs, A) BY <1>4, <1>8, <1>9, <1>10 DEF TabsWith
    <2> QED BY <2>1, <2>2, TabsMore
  <1>12. UNION {A[x] : x \in TabRows(ps)} = {<<s.id, losses>> : s \in Homed(sup)}
    <2>1. ASSUME NEW s \in Homed(sup) PROVE \E x \in TabRows(ps) : <<s.id, losses>> \in A[x]
      <3>1. Located(s) \in TabRows(ps) BY <1>5 DEF Homes
      <3> QED BY <1>6, <1>7, <3>1
    <2>2. ASSUME NEW x \in TabRows(ps), NEW h \in A[x]
          PROVE  h \in {<<s.id, losses>> : s \in Homed(sup)}
      BY <1>6, <1>7
    <2> HIDE DEF ps
    <2> QED BY <2>1, <2>2
  <1>13. sessions' = AllTabs(projects') /\ TabsApart(projects')
    BY <1>1, <1>11, <1>12 DEF TabsAreHeld
  <1> QED BY <1>13 DEF TabsAreHeld

\* Rows that are imported, added or opened have no tabs; the replies that remain keep
\* handles and tabs together, a spawned session's if it had no tab before.
LEMMA AppliedHeld ==
  ASSUME Types, Tree, TabsAreHeld, NEW r \in inflight, Applied(r),
         r.op = "spawn" => <<r.n, Link(r.sup)>> \notin sessions
  PROVE  TabsAreHeld'
  <1>1. CASE SessionSpawned(r)
    <2>1. r.op = "spawn" BY <1>1 DEF SessionSpawned
    <2> QED BY <1>1, <2>1, SpawnedHeld
  <1>2. CASE ProjectValidated(r)
    <2>1. sessions' = sessions BY <1>2 DEF ProjectValidated
    <2> QED BY <1>2, <2>1, ValidatedTree, HeldGrown
  <1>3. CASE WorktreesImported(r)
    <2>1. sessions' = sessions BY <1>3 DEF WorktreesImported
    <2> QED BY <1>3, <2>1, ImportedTree, HeldGrown
  <1>4. CASE WorktreeAdded(r)
    <2>1. sessions' = sessions BY <1>4 DEF WorktreeAdded
    <2> QED BY <1>4, <2>1, AddedTree, HeldGrown
  <1>5. CASE OperationFailed(r) \/ PrFetchFailed(r) \/ \E hit : PrStatusesFetched(r, hit)
    <2>1. projects' = projects /\ sessions' = sessions
      BY <1>5 DEF OperationFailed, PrFetchFailed, PrStatusesFetched, treeVars
    <2> QED BY <2>1, HeldUnchanged
  <1> QED BY <1>1, <1>2, <1>3, <1>4, <1>5, WorktreeRemovedHeld, ProjectRemovedHeld DEF Applied

-----------------------------------------------------------------------------
(* Handles are made once *)

\* A handle is of a shell that was asked for, on a connection that was made.
SessionsNumbered == \A h \in sessions : h[1] <= issued /\ h[2] <= losses
\* Every spawn has a number of its own, and no tab yet.
SpawnsApart ==
  \A r, q \in inflight : r.op = "spawn" /\ q.op = "spawn" /\ r.n = q.n => r = q
SpawnsNew == \A r \in inflight : r.op = "spawn" => <<r.n, Link(r.sup)>> \notin sessions
\* So has every shell; if it is of a spawn without an applied reply, that was handled.
ShellsApart == \A s, t \in live : s.id = t.id => s = t
SpawnsHandled ==
  \A r \in inflight, s \in live :
    r.op = "spawn" /\ s.id = r.n => r.done = "ok" /\ s.sup = r.sup
\* No tab is left of a supervisor that is away.
AwayUnshown ==
  REMOTE_SUP \notin connected =>
    \A s \in live : s.sup = REMOTE_SUP => <<s.id, losses>> \notin sessions

HandlesInv ==
  SessionsNumbered /\ SpawnsApart /\ SpawnsNew /\ ShellsApart /\ SpawnsHandled /\ AwayUnshown

\* At most one spawn is new, and it has the next number.
Spawning ==
  \E x : \A r \in inflight' :
    r \in inflight \/ r.op # "spawn" \/ (r = x /\ r.n = issued + 1 /\ r.done = "no")

\* What is sent makes at most one.
LEMMA SentNone ==
  ASSUME NEW reqs, NEW pending, Send(reqs, pending), \A x \in reqs : x.op # "spawn"
  PROVE  Spawning
  BY DEF Send, Spawning
\* A spawn that is sent has a number of its own.
LEMMA SentOne ==
  ASSUME NEW x, NEW pending, Send({x}, pending),
         x.op = "spawn" => x.n = issued + 1 /\ x.done = "no"
  PROVE  Spawning
  <1>1. \A r \in inflight' : r \in inflight \/ r = x BY DEF Send
  <1> QED BY <1>1 DEF Spawning
\* Nothing is sent: no spawn is new.
LEMMA SentNothing ==
  ASSUME inflight' \subseteq inflight
  PROVE  Spawning
  BY DEF Spawning

\* Activating a row sends no spawn.
LEMMA ActivateSpawns ==
  ASSUME NEW p, NEW w, ActivateWorktree(p, w)
  PROVE  Spawning
  <1>1. Send(RefreshFor(p, w), pending_op) BY DEF ActivateWorktree
  <1>2. \A x \in RefreshFor(p, w) : x.op # "spawn" BY DEF RefreshFor, Request
  <1> QED BY <1>1, <1>2, SentNone

\* A spawn for a row has a number of its own.
LEMMA SpawnAtSpawns ==
  ASSUME NEW p, NEW w, Send({SpawnAt(p, w)}, pending_op)
  PROVE  Spawning
  <1> DEFINE x == SpawnAt(p, w)
  <1>1. x.n = issued + 1 /\ x.done = "no" BY DEF SpawnAt, Request
  <1> HIDE DEF x
  <1>2. Send({x}, pending_op) BY DEF x
  <1> QED BY <1>1, <1>2, SentOne

\* To add a worktree is no spawn.
LEMMA AddSpawns ==
  ASSUME NEW p, NEW b, RequestAdd(p, b)
  PROVE  Spawning
  <1> DEFINE x == Request("add", p, 0, <<projects[p].repo, b>>, {})
  <1>1. x.op # "spawn" BY DEF Request
  <1>2. Send({x}, TRUE) BY DEF RequestAdd
  <1> HIDE DEF x
  <1> QED BY <1>1, <1>2, SentOne

\* To remove a project is no spawn.
LEMMA ProjectRemoveSpawns ==
  ASSUME NEW p, NEW delete, RequestProjectRemove(p, delete)
  PROVE  Spawning
  <1> DEFINE x == [Request("rmproj", p, 0, <<projects[p].repo, 0>>, Rows(p))
                     EXCEPT !.opt = delete]
  <1>1. x.op # "spawn" BY DEF Request
  <1>2. inflight' = inflight \/ Send({x}, TRUE) BY DEF RequestProjectRemove, reqVars
  <1> HIDE DEF x
  <1> QED BY <1>1, <1>2, SentOne, SentNothing

\* So does what the user does.
LEMMA UserSpawns ==
  ASSUME UserStep
  PROVE  Spawning
  <1>1. CASE inflight' = inflight BY <1>1, SentNothing
  <1>2. ASSUME NEW p, NEW w, ActivateWorktree(p, w) PROVE Spawning BY <1>2, ActivateSpawns
  <1>3. ASSUME NEW p, NEW w, Send({SpawnAt(p, w)}, pending_op) PROVE Spawning
    BY <1>3, SpawnAtSpawns
  <1>4. ASSUME NEW p, NEW b, RequestAdd(p, b) PROVE Spawning BY <1>4, AddSpawns
  <1>5. ASSUME NEW p, NEW delete, RequestProjectRemove(p, delete) PROVE Spawning
    BY <1>5, ProjectRemoveSpawns
  <1>6. CASE ImportWorktrees
    <2> DEFINE x == Request("import", SelectedProject, 0,
                            <<projects[SelectedProject].repo, 0>>, {})
    <2>1. x.op # "spawn" BY DEF Request
    <2>2. Send({x}, TRUE) BY <1>6 DEF ImportWorktrees
    <2> HIDE DEF x
    <2> QED BY <2>1, <2>2, SentOne
  <1>7. CASE ConfirmRemoveWorktree
    <2> DEFINE x == [Request("rmwt", popup.p, popup.w, popup.asked[2],
                             {<<popup.w, popup.asked[2]>>})
                       EXCEPT !.asked = popup.asked, !.slug = popup.asked[1]]
    <2>1. x.op # "spawn" BY DEF Request
    <2>2. inflight' = inflight \/ Send({x}, TRUE) BY <1>7 DEF ConfirmRemoveWorktree
    <2> HIDE DEF x
    <2> QED BY <2>1, <2>2, SentOne, SentNothing
  <1>8. ASSUME NEW repo, NEW import, OpenProject(repo, import) PROVE Spawning
    <2> DEFINE x == [n |-> issued + 1, op |-> "open", sup |-> Host[repo], p |-> 0, w |-> 0,
                     slug |-> 0, path |-> <<repo, 0>>, rows |-> {}, opt |-> import,
                     done |-> "no", found |-> {}, asked |-> None]
    <2>1. x.op # "spawn" OBVIOUS
    <2>2. Send({x}, TRUE) BY <1>8 DEF OpenProject
    <2> HIDE DEF x
    <2> QED BY <2>1, <2>2, SentOne
  <1>9. CASE PeriodicPrCheck
    <2> DEFINE due == {p \in DOMAIN projects : projects[p].gh}
               Nth(p) == Cardinality({q \in due : q <= p})
               reqs == {[Request("fetch", p, 0, <<projects[p].repo, 0>>, Rows(p))
                           EXCEPT !.n = issued + Nth(p)] : p \in due}
    <2>1. \A x \in reqs : x.op # "spawn"
      <3> SUFFICES ASSUME NEW p \in due
                   PROVE  [Request("fetch", p, 0, <<projects[p].repo, 0>>, Rows(p))
                             EXCEPT !.n = issued + Nth(p)].op # "spawn"
        OBVIOUS
      <3> DEFINE n == issued + Nth(p)
      <3> HIDE DEF n, Nth
      <3> QED BY DEF Request
    <2>2. Send(reqs, pending_op) BY <1>9 DEF PeriodicPrCheck
    <2> HIDE DEF reqs
    <2> QED BY <2>1, <2>2, SentNone
  <1>10. \/ inflight' = inflight
         \/ \E p, w : ActivateWorktree(p, w)
         \/ \E p, w : Send({SpawnAt(p, w)}, pending_op)
         \/ \E p, b : RequestAdd(p, b)
         \/ \E p, delete : RequestProjectRemove(p, delete)
         \/ ImportWorktrees \/ ConfirmRemoveWorktree
         \/ \E repo, import : OpenProject(repo, import)
         \/ PeriodicPrCheck
    BY DEF UserStep, MoveSelection, ClickRow, ActivateSelection, SwitchTab, OpenNewTab, CloseTab,
         OpenLauncher, Launch, CancelPrompt, AddWorktree, SubmitBranch, AskBranch,
         AskRemoveWorktree, AskRemoveProject, RemoveProject, ConfirmRemoveProject, reqVars
  <1> QED BY <1>1, <1>2, <1>3, <1>4, <1>5, <1>6, <1>7, <1>8, <1>9, <1>10

\* And what a reply asks for in turn.
LEMMA AppliedSpawns ==
  ASSUME Types, NEW r \in inflight, Applied(r)
  PROVE  Spawning
  <1>0. r \in Requests BY DEF Types, RequestTypes
  <1>1. ASSUME NEW x, NEW pending, Answer(r, {x}, pending),
               x.op = "spawn" => x.n = issued + 1 /\ x.done = "no"
        PROVE  Spawning
    <2>1. \A q \in inflight' : q \in inflight \/ q = x BY <1>1 DEF Answer
    <2> QED BY <1>1, <2>1 DEF Spawning
  <1>2. ASSUME NEW pending, Answer(r, {}, pending) PROVE Spawning
    <2>1. inflight' \subseteq inflight BY <1>2 DEF Answer
    <2> QED BY <2>1, SentNothing
  <1>3. CASE ProjectValidated(r)
    <2> DEFINE n == issued + 1
               p == Len(projects) + 1
               slug == ComputeSlug
               asked == <<ComputeSlug, r.path>>
               x == [r EXCEPT !.n = n, !.op = "import", !.p = p, !.opt = "none",
                              !.slug = slug, !.done = "no", !.asked = asked]
    <2>1. x.op # "spawn"
      <3> HIDE DEF n, p, slug, asked
      <3> QED BY <1>0 DEF Requests
    <2>2. Answer(r, IF r.opt = "import" THEN {x} ELSE {}, r.opt = "import")
      BY <1>3 DEF ProjectValidated
    <2> HIDE DEF x
    <2>3. CASE r.opt = "import" BY <1>1, <2>1, <2>2, <2>3
    <2>4. CASE r.opt # "import" BY <1>2, <2>2, <2>4
    <2> QED BY <2>3, <2>4
  <1>4. CASE WorktreeAdded(r)
    <2> DEFINE w == Len(projects[r.p].wts) + 1
               x == [Request("spawn", r.p, w, r.path, {<<w, r.path>>})
                       EXCEPT !.asked = <<projects[r.p].slug, r.path>>]
    <2>1. x.n = issued + 1 /\ x.done = "no"
      <3> HIDE DEF w
      <3> QED BY DEF Request
    <2>2. Answer(r, {x}, FALSE) \/ Answer(r, {}, FALSE) BY <1>4 DEF WorktreeAdded
    <2> HIDE DEF x
    <2> QED BY <1>1, <1>2, <2>1, <2>2
  <1>5. CASE ~ProjectValidated(r) /\ ~WorktreeAdded(r)
    <2>1. \E pending : Answer(r, {}, pending)
      BY <1>5 DEF Applied, SessionSpawned, WorktreesImported, WorktreeRemoved, ProjectRemoved,
           OperationFailed, PrFetchFailed, PrStatusesFetched
    <2> QED BY <1>2, <2>1
  <1> QED BY <1>3, <1>4, <1>5

\* A step that makes no handle and no shell keeps them so.
LEMMA HandlesFewer ==
  ASSUME Types, Types', HandlesInv, issued <= issued', UNCHANGED linkVars,
         sessions' \subseteq sessions, live' \subseteq live, Spawning
  PROVE  HandlesInv'
  <1>1. /\ issued \in Nat /\ issued' \in Nat /\ sessions \subseteq Handles
        /\ losses' = losses /\ connected' = connected /\ losses \in Nat
        /\ inflight \subseteq Requests /\ inflight' \subseteq Requests /\ live \subseteq Shells
    BY BoundsAssumption DEF Types, RequestTypes, TreeTypes, LinkTypes, ShellTypes, linkVars
  <1>2. PICK x : \A r \in inflight' :
          r \in inflight \/ r.op # "spawn" \/ (r = x /\ r.n = issued + 1 /\ r.done = "no")
    BY DEF Spawning
  <1>3. \A r \in inflight : r.op = "spawn" => r.n \in Nat /\ r.n <= issued
    BY <1>1 DEF Types, RequestTypes, Requests
  <1>4. SessionsNumbered'
    <2>1. ASSUME NEW h \in sessions' PROVE h[1] <= issued' /\ h[2] <= losses'
      <3>1. h \in sessions /\ h[1] \in Nat /\ h[1] <= issued /\ h[2] <= losses
        BY <1>1 DEF HandlesInv, SessionsNumbered, Handles
      <3> QED BY <1>1, <3>1
    <2> QED BY <2>1 DEF SessionsNumbered
  <1>5. SpawnsApart'
    <2>1. ASSUME NEW r \in inflight', NEW q \in inflight', r.op = "spawn", q.op = "spawn",
                 r.n = q.n
          PROVE  r = q
      <3>1. CASE r \in inflight /\ q \in inflight
        BY <2>1, <3>1 DEF HandlesInv, SpawnsApart
      <3>2. CASE r \notin inflight /\ q \notin inflight BY <1>2, <2>1, <3>2
      <3>3. CASE r \in inflight /\ q \notin inflight
        <4>1. q.n = issued + 1 /\ r.n \in Nat /\ r.n <= issued BY <1>2, <1>3, <2>1, <3>3
        <4> QED BY <1>1, <2>1, <4>1
      <3>4. CASE r \notin inflight /\ q \in inflight
        <4>1. r.n = issued + 1 /\ q.n \in Nat /\ q.n <= issued BY <1>2, <1>3, <2>1, <3>4
        <4> QED BY <1>1, <2>1, <4>1
      <3> QED BY <3>1, <3>2, <3>3, <3>4
    <2> QED BY <2>1 DEF SpawnsApart
  <1>6. SpawnsNew'
    <2>1. ASSUME NEW r \in inflight', r.op = "spawn", <<r.n, Link(r.sup)>> \in sessions
          PROVE  FALSE
      <3>1. CASE r \in inflight BY <2>1, <3>1 DEF HandlesInv, SpawnsNew
      <3>2. CASE r \notin inflight
        <4>1. r.n = issued + 1 BY <1>2, <2>1, <3>2
        <4>2. r.n <= issued BY <2>1 DEF HandlesInv, SessionsNumbered
        <4> QED BY <1>1, <4>1, <4>2
      <3> QED BY <3>1, <3>2
    <2>2. \A s : Link(s)' = Link(s) BY <1>1 DEF Link
    <2> QED BY <2>1, <2>2 DEF SpawnsNew
  <1>7. ShellsApart' BY DEF HandlesInv, ShellsApart
  <1>8. SpawnsHandled'
    <2>1. ASSUME NEW r \in inflight', NEW s \in live, r.op = "spawn", s.id = r.n
          PROVE  r.done = "ok" /\ s.sup = r.sup
      <3>1. CASE r \in inflight BY <2>1, <3>1 DEF HandlesInv, SpawnsHandled
      <3>2. CASE r \notin inflight
        <4>1. r.n = issued + 1 BY <1>2, <2>1, <3>2
        <4>2. s.id <= issued BY DEF Types, ShellTypes
        <4> QED BY <1>1, <2>1, <4>1, <4>2
      <3> QED BY <3>1, <3>2
    <2> QED BY <2>1 DEF SpawnsHandled
  <1>9. AwayUnshown' BY <1>1 DEF HandlesInv, AwayUnshown
  <1> QED BY <1>4, <1>5, <1>6, <1>7, <1>8, <1>9 DEF HandlesInv

\* A supervisor makes a shell for a spawn once: its request is answered then.
LEMMA HandledHandles ==
  ASSUME Types, HandlesInv, NEW r \in inflight, NEW ok \in BOOLEAN, Handle(r, ok)
  PROVE  HandlesInv'
  <1>1. /\ UNCHANGED <<issued, losses, connected, sessions>> /\ r \in Requests /\ r.done = "no"
        /\ r.sup \in connected
    BY DEF Handle, linkVars, treeVars, Types, RequestTypes
  <1> DEFINE done == IF ok THEN "ok" ELSE "fail"
             found == IF ok /\ r.op = "import" THEN {x \in git : x[1] = r.path[1]} ELSE {}
             new == [r EXCEPT !.done = done, !.found = found]
             shell == [id |-> r.n, sup |-> r.sup, path |-> r.path, slug |-> r.slug]
  <1>2. inflight' = (inflight \ {r}) \cup {new} BY DEF Handle
  <1>3. new.op = r.op /\ new.n = r.n /\ new.sup = r.sup /\ (ok => new.done = "ok")
    <2>1. new = [r EXCEPT !.done = done, !.found = found] /\ (ok => done = "ok") OBVIOUS
    <2> HIDE DEF done, found, new
    <2> QED BY <1>1, <2>1 DEF Requests
  <1>4. \A s \in live' : s \in live \/ (s = shell /\ ok /\ r.op = "spawn") BY DEF Handle
  <1>5. shell.id = r.n /\ shell.sup = r.sup OBVIOUS
  <1> HIDE DEF new, shell
  <1>6. r.op = "spawn" => \A s \in live : s.id # r.n
    BY <1>1 DEF HandlesInv, SpawnsHandled
  <1>7. SessionsNumbered' BY <1>1 DEF HandlesInv, SessionsNumbered
  <1>8. SpawnsApart' BY <1>2, <1>3 DEF HandlesInv, SpawnsApart
  <1>9. SpawnsNew'
    <2>1. \A s : Link(s)' = Link(s) BY <1>1 DEF Link
    <2>2. ASSUME NEW q \in inflight', q.op = "spawn" PROVE <<q.n, Link(q.sup)>> \notin sessions
      <3>1. CASE q \in inflight BY <2>2, <3>1 DEF HandlesInv, SpawnsNew
      <3>2. CASE q = new BY <1>3, <2>2, <3>2 DEF HandlesInv, SpawnsNew
      <3> QED BY <1>2, <3>1, <3>2
    <2> QED BY <1>1, <2>1, <2>2 DEF SpawnsNew
  <1>10. ShellsApart' BY <1>4, <1>5, <1>6 DEF HandlesInv, ShellsApart
  <1>11. SpawnsHandled'
    <2>1. ASSUME NEW q \in inflight', NEW s \in live', q.op = "spawn", s.id = q.n
          PROVE  q.done = "ok" /\ s.sup = q.sup
      <3>1. CASE q \in inflight /\ q # r /\ s \in live
        BY <2>1, <3>1 DEF HandlesInv, SpawnsHandled
      <3>2. CASE q \in inflight /\ q # r /\ s \notin live
        BY <1>4, <1>5, <2>1, <3>2 DEF HandlesInv, SpawnsApart
      <3>3. CASE q = new /\ s \in live BY <1>3, <1>6, <2>1, <3>3
      <3>4. CASE q = new /\ s \notin live BY <1>3, <1>4, <1>5, <2>1, <3>4
      <3> QED BY <1>2, <3>1, <3>2, <3>3, <3>4
    <2> QED BY <2>1 DEF SpawnsHandled
  <1>12. AwayUnshown'
    <2>1. ASSUME REMOTE_SUP \notin connected, NEW s \in live', s.sup = REMOTE_SUP
          PROVE  <<s.id, losses>> \notin sessions
      <3>1. s \in live BY <1>1, <1>4, <1>5, <2>1
      <3> QED BY <2>1, <3>1 DEF HandlesInv, AwayUnshown
    <2> QED BY <1>1, <2>1 DEF AwayUnshown
  <1> QED BY <1>7, <1>8, <1>9, <1>10, <1>11, <1>12 DEF HandlesInv

\* The tab of a spawned session is for no other spawn, and for no shell of a
\* supervisor that is away.
LEMMA SpawnedHandles ==
  ASSUME Types, HandlesInv, NEW r \in inflight, SessionSpawned(r)
  PROVE  HandlesInv'
  <1> DEFINE h == <<r.n, Link(r.sup)>>
  <1>1. /\ r.op = "spawn" /\ UNCHANGED <<losses, connected>> /\ inflight' = inflight \ {r}
        /\ sessions' \subseteq sessions \cup {h} /\ live' \subseteq live
        /\ issued' = issued
    <2>1. Answer(r, {}, pending_op) /\ issued \in Nat
      BY DEF SessionSpawned, Types, RequestTypes
    <2>2. issued' = issued BY <2>1, FS_EmptySet DEF Answer
    <2> QED BY <2>1, <2>2 DEF SessionSpawned, Answer, linkVars
  <1>2. /\ r.n \in Nat /\ r.n <= issued /\ losses \in Nat /\ r.sup \in Sups /\ r.sup \in connected
        /\ issued \in Nat
    BY <1>1, BoundsAssumption DEF Types, RequestTypes, Requests, LinkTypes
  <1>3. Link(r.sup) <= losses BY <1>2 DEF Link
  <1>4. h[1] = r.n /\ h[2] = Link(r.sup) OBVIOUS
  <1> HIDE DEF h
  <1>5. SessionsNumbered' BY <1>1, <1>2, <1>3, <1>4 DEF HandlesInv, SessionsNumbered
  <1>6. SpawnsApart' BY <1>1 DEF HandlesInv, SpawnsApart
  <1>7. SpawnsNew'
    <2>1. \A s : Link(s)' = Link(s) BY <1>1 DEF Link
    <2>2. ASSUME NEW q \in inflight', q.op = "spawn" PROVE <<q.n, Link(q.sup)>> \notin sessions'
      <3>1. q \in inflight /\ q # r BY <1>1
      <3>2. q.n # r.n BY <1>1, <2>2, <3>1 DEF HandlesInv, SpawnsApart
      <3>3. <<q.n, Link(q.sup)>> # h BY <3>2 DEF h
      <3>4. <<q.n, Link(q.sup)>> \notin sessions BY <2>2, <3>1 DEF HandlesInv, SpawnsNew
      <3> QED BY <1>1, <3>3, <3>4
    <2> QED BY <2>1, <2>2 DEF SpawnsNew
  <1>8. ShellsApart' BY <1>1 DEF HandlesInv, ShellsApart
  <1>9. SpawnsHandled' BY <1>1 DEF HandlesInv, SpawnsHandled
  <1>10. AwayUnshown'
    <2>1. ASSUME REMOTE_SUP \notin connected, NEW s \in live, s.sup = REMOTE_SUP
          PROVE  <<s.id, losses>> \notin sessions'
      <3>1. r.sup # s.sup BY <1>2, <2>1
      <3>2. s.id # r.n BY <1>1, <3>1 DEF HandlesInv, SpawnsHandled
      <3>3. <<s.id, losses>> # h BY <3>2 DEF h
      <3>4. <<s.id, losses>> \notin sessions BY <2>1 DEF HandlesInv, AwayUnshown
      <3> QED BY <1>1, <3>3, <3>4
    <2> QED BY <1>1, <2>1 DEF AwayUnshown
  <1> QED BY <1>5, <1>6, <1>7, <1>8, <1>9, <1>10 DEF HandlesInv

\* The handles of the next connection are not those of the one that is lost.
LEMMA LostHandles ==
  ASSUME Types, HandlesInv, NEW sup \in Sups, SupervisorLost(sup)
  PROVE  HandlesInv'
  <1>1. /\ sup = REMOTE_SUP /\ losses \in Nat /\ losses' = losses + 1 /\ issued \in Nat
        /\ sessions \subseteq Handles
    BY SupsAre, BoundsAssumption DEF SupervisorLost, Types, LinkTypes, RequestTypes, TreeTypes
  <1>2. /\ issued' = issued /\ live' = live /\ inflight' = {r \in inflight : r.sup # sup}
        /\ sessions' \subseteq sessions
    BY DEF SupervisorLost
  <1>3. \A h \in sessions : h[1] <= issued /\ h[2] <= losses /\ h[2] \in Nat
    BY <1>1 DEF HandlesInv, SessionsNumbered, Handles
  <1>4. SessionsNumbered'
    <2>1. \A h \in sessions : h[2] <= losses' BY <1>1, <1>3
    <2> QED BY <1>2, <1>3, <2>1 DEF SessionsNumbered
  <1>5. SpawnsApart' BY <1>2 DEF HandlesInv, SpawnsApart
  <1>6. SpawnsNew'
    <2>1. ASSUME NEW r \in inflight', r.op = "spawn"
          PROVE  <<r.n, Link(r.sup)'>> \notin sessions'
      <3>1. r \in inflight /\ r.sup = LOCAL_SUP
        BY <1>1, <1>2, SupsAre DEF Types, RequestTypes, Requests
      <3>2. Link(r.sup)' = Link(r.sup) BY <3>1 DEF Link
      <3>3. <<r.n, Link(r.sup)>> \notin sessions BY <2>1, <3>1 DEF HandlesInv, SpawnsNew
      <3> QED BY <1>2, <3>2, <3>3
    <2> QED BY <2>1 DEF SpawnsNew
  <1>7. ShellsApart' BY <1>2 DEF HandlesInv, ShellsApart
  <1>8. SpawnsHandled' BY <1>2 DEF HandlesInv, SpawnsHandled
  <1>9. AwayUnshown'
    <2>1. ASSUME NEW s \in live PROVE <<s.id, losses'>> \notin sessions
      <3>1. ~(losses' <= losses) BY <1>1
      <3> QED BY <1>3, <3>1
    <2> QED BY <1>2, <2>1 DEF AwayUnshown
  <1> QED BY <1>4, <1>5, <1>6, <1>7, <1>8, <1>9 DEF HandlesInv

\* The shells that are adopted are of no spawn that is outstanding: those of the remote
\* were lost with the connection.
LEMMA ConnectedHandles ==
  ASSUME Types, Tree, HandlesInv, NEW sup \in Sups, SupervisorConnected(sup)
  PROVE  HandlesInv'
  <1>0. sup # LOCAL_SUP /\ sup \notin connected BY DEF SupervisorConnected
  <1>1. /\ sup = REMOTE_SUP /\ sup \notin connected /\ losses \in Nat /\ issued \in Nat
    BY <1>0, SupsAre, BoundsAssumption DEF Types, LinkTypes, RequestTypes
  <1>2. /\ UNCHANGED <<issued, losses, inflight>> /\ live' \subseteq live
        /\ connected' = connected \cup {sup}
    BY DEF SupervisorConnected, reqVars
  <1>3. sessions' = sessions \cup {<<s.id, losses>> : s \in Homed(sup)} BY ConnectedTree
  <1>4. \A s \in Homed(sup) : s \in live /\ s.sup = sup BY DEF Homed
  <1>5. SessionsNumbered'
    <2>1. \A s \in Homed(sup) : s.id <= issued BY <1>4 DEF Types, ShellTypes
    <2>2. losses <= losses BY <1>1
    <2>3. ASSUME NEW h \in sessions' PROVE h[1] <= issued /\ h[2] <= losses
      <3>1. CASE h \in sessions BY <3>1 DEF HandlesInv, SessionsNumbered
      <3>2. CASE h \notin sessions
        <4>1. PICK s \in Homed(sup) : h = <<s.id, losses>> BY <1>3, <3>2
        <4> QED BY <2>1, <2>2, <4>1
      <3> QED BY <3>1, <3>2
    <2> QED BY <1>2, <2>3 DEF SessionsNumbered
  <1>6. SpawnsApart' BY <1>2 DEF HandlesInv, SpawnsApart
  <1>7. SpawnsNew'
    <2>1. ASSUME NEW r \in inflight, r.op = "spawn", <<r.n, Link(r.sup)>> \in sessions'
          PROVE  FALSE
      <3>1. <<r.n, Link(r.sup)>> \notin sessions BY <2>1 DEF HandlesInv, SpawnsNew
      <3>2. PICK s \in Homed(sup) : <<r.n, Link(r.sup)>> = <<s.id, losses>>
        BY <1>3, <2>1, <3>1
      <3>3. s.id = r.n BY <3>2
      <3>4. s.sup = r.sup BY <1>4, <2>1, <3>3 DEF HandlesInv, SpawnsHandled
      <3>5. r.sup \in connected BY DEF Types, RequestTypes
      <3> QED BY <1>1, <1>4, <3>4, <3>5
    <2>2. \A s : Link(s)' = Link(s) BY <1>2 DEF Link
    <2> QED BY <1>2, <2>1, <2>2 DEF SpawnsNew
  <1>8. ShellsApart' BY <1>2 DEF HandlesInv, ShellsApart
  <1>9. SpawnsHandled' BY <1>2 DEF HandlesInv, SpawnsHandled
  <1>10. AwayUnshown' BY <1>1, <1>2 DEF AwayUnshown
  <1> QED BY <1>5, <1>6, <1>7, <1>8, <1>9, <1>10 DEF HandlesInv

\* Every step keeps them.
LEMMA HandlesStep ==
  ASSUME PositionInv, HandlesInv, [Next]_vars
  PROVE  HandlesInv'
  <1>0. /\ Types /\ ActiveIn /\ SelectedIn /\ Tree /\ Types'
    BY PositionStep DEF PositionInv, Types, TreeTypes, Tree, TabsShown, AllShown
  <1>1. issued \in Nat BY <1>0 DEF Types, RequestTypes
  <1>2. CASE UNCHANGED vars
    BY <1>2 DEF vars, treeVars, reqVars, supVars, linkVars, HandlesInv, SessionsNumbered,
         SpawnsApart, SpawnsNew, ShellsApart, SpawnsHandled, AwayUnshown, Link
  <1>3. CASE UserStep
    <2>1. issued <= issued' BY <1>0, <1>3, UserRequests
    <2>2. sessions' \subseteq sessions BY <1>0, <1>3, UserTree
    <2>3. UNCHANGED linkVars /\ live' \subseteq live /\ Spawning
      BY <1>3, UserLeaves, UserLive, UserSpawns
    <2> QED BY <1>0, <2>1, <2>2, <2>3, HandlesFewer
  <1>4. ASSUME NEW r \in inflight, NEW ok \in BOOLEAN, Handle(r, ok) PROVE HandlesInv'
    BY <1>0, <1>4, HandledHandles
  <1>5. ASSUME NEW s \in live, ShellExits(s) PROVE HandlesInv'
    <2>1. /\ issued' = issued /\ sessions' = sessions /\ live' \subseteq live
          /\ inflight' = inflight /\ UNCHANGED linkVars
      BY <1>5 DEF ShellExits, treeVars, reqVars
    <2>2. Spawning /\ issued <= issued' BY <1>1, <2>1, SentNothing
    <2> QED BY <1>0, <2>1, <2>2, HandlesFewer
  <1>6. ASSUME NEW r \in inflight, Applied(r), ~SessionSpawned(r) PROVE HandlesInv'
    <2>1. issued <= issued' BY <1>0, <1>6, AppliedRequests
    <2>2. sessions' \subseteq sessions
      BY <1>6 DEF Applied, ProjectValidated, WorktreesImported, WorktreeAdded,
           WorktreeRemoved, ProjectRemoved, OperationFailed, PrFetchFailed, PrStatusesFetched,
           treeVars
    <2>3. UNCHANGED linkVars /\ live' \subseteq live /\ Spawning
      BY <1>0, <1>6, AppliedLeaves, AppliedSpawns
    <2> QED BY <1>0, <2>1, <2>2, <2>3, HandlesFewer
  <1>7. ASSUME NEW r \in inflight, SessionSpawned(r) PROVE HandlesInv'
    BY <1>0, <1>7, SpawnedHandles
  <1>8. ASSUME NEW s \in exited, SessionExited(s) PROVE HandlesInv'
    <2>1. /\ issued' = issued /\ sessions' \subseteq sessions /\ live' = live
          /\ inflight' = inflight /\ UNCHANGED linkVars
      BY <1>8 DEF SessionExited, reqVars
    <2>2. Spawning /\ issued <= issued' BY <1>1, <2>1, SentNothing
    <2> QED BY <1>0, <2>1, <2>2, HandlesFewer
  <1>9. CASE LinkStep
    <2>1. PICK repo \in Repos : SupervisorLost(Host[repo]) \/ SupervisorConnected(Host[repo])
      BY <1>9 DEF LinkStep
    <2>2. Host[repo] \in Sups BY HostAssumption
    <2> QED BY <1>0, <2>1, <2>2, LostHandles, ConnectedHandles
  <1> QED BY <1>2, <1>3, <1>4, <1>5, <1>6, <1>7, <1>8, <1>9 DEF Next, SupervisorStep

\* Every step keeps handles and tabs together.
LEMMA HeldStep ==
  ASSUME PositionInv, TabsAreHeld, HandlesInv, [Next]_vars
  PROVE  TabsAreHeld'
  <1>0. Types /\ Tree
    BY DEF PositionInv, Types, TreeTypes, Tree, TabsShown, AllShown
  <1>1. CASE UNCHANGED vars
    <2>1. projects' = projects /\ sessions' = sessions BY <1>1 DEF vars, treeVars
    <2> QED BY <2>1, HeldUnchanged
  <1>2. CASE UserStep BY <1>0, <1>2, UserHeld
  <1>3. CASE SupervisorStep
    <2>1. projects' = projects /\ sessions' = sessions
      BY <1>3 DEF SupervisorStep, Handle, ShellExits, treeVars
    <2> QED BY <2>1, HeldUnchanged
  <1>4. ASSUME NEW r \in inflight, Applied(r) PROVE TabsAreHeld'
    <2>1. r.op = "spawn" => <<r.n, Link(r.sup)>> \notin sessions BY DEF HandlesInv, SpawnsNew
    <2> QED BY <1>0, <1>4, <2>1, AppliedHeld
  <1>5. ASSUME NEW s \in exited, SessionExited(s) PROVE TabsAreHeld'
    BY <1>0, <1>5, ExitedHeld
  <1>6. ASSUME NEW sup \in Sups, SupervisorLost(sup) PROVE TabsAreHeld' BY <1>0, <1>6, LostHeld
  <1>7. ASSUME NEW sup \in Sups, SupervisorConnected(sup) PROVE TabsAreHeld'
    <2>1. sup = REMOTE_SUP /\ sup \notin connected BY <1>7, SupsAre DEF SupervisorConnected
    <2>2. \A s \in Homed(sup) : <<s.id, losses>> \notin sessions
      BY <2>1 DEF HandlesInv, AwayUnshown, Homed
    <2>3. \A s, t \in live : s.id = t.id => s = t BY DEF HandlesInv, ShellsApart
    <2> QED BY <1>0, <1>7, <2>2, <2>3, ConnectedHeld
  <1>8. CASE LinkStep BY <1>6, <1>7, <1>8, HostAssumption DEF LinkStep
  <1> QED BY <1>1, <1>2, <1>3, <1>4, <1>5, <1>8 DEF Next

\* What it says in terms of the rows.
LEMMA HeldSays ==
  ASSUME Tree, TabsAreHeld
  PROVE  TabsAreSessions
  <1>1. ASSUME NEW p \in DOMAIN projects, NEW w \in DOMAIN projects[p].wts
        PROVE  /\ <<p, w>> \in TabRows(projects)
               /\ TabsAt(projects, <<p, w>>) = ToSet(projects[p].wts[w].tabs)
    <2>1. p \in Nat /\ w \in Nat BY RowHas DEF Tree, Has
    <2> QED BY <2>1 DEF TabRows, Held, TabsAt
  <1>2. sessions = UNION {TabsOf(p) : p \in DOMAIN projects}
    <2>1. \A h \in AllTabs(projects) : \E p \in DOMAIN projects : h \in TabsOf(p)
      BY DEF AllTabs, TabRows, Held, TabsAt, TabsOf
    <2>2. \A p \in DOMAIN projects : \A h \in TabsOf(p) : h \in AllTabs(projects)
      BY <1>1 DEF AllTabs, TabsOf
    <2> QED BY <2>1, <2>2 DEF TabsAreHeld
  <1>3. ASSUME NEW p \in DOMAIN projects, NEW q \in DOMAIN projects,
               NEW v \in DOMAIN projects[p].wts, NEW w \in DOMAIN projects[q].wts,
               NEW i \in DOMAIN projects[p].wts[v].tabs, NEW j \in DOMAIN projects[q].wts[w].tabs,
               projects[p].wts[v].tabs[i] = projects[q].wts[w].tabs[j]
        PROVE  p = q /\ v = w /\ i = j
    <2> DEFINE h == projects[p].wts[v].tabs[i]
    <2>1. h \in TabsAt(projects, <<p, v>>) /\ h \in TabsAt(projects, <<q, w>>)
      BY <1>1, <1>3 DEF ToSet
    <2>2. <<p, v>> = <<q, w>> BY <1>1, <2>1 DEF TabsAreHeld, TabsApart
    <2>3. Once(projects[p].wts[v].tabs) BY RowOnce DEF TabsAreHeld, Has
    <2> QED BY <1>3, <2>2, <2>3 DEF Once
  <1> QED BY <1>2, <1>3 DEF TabsAreSessions

\* Initially there are no tabs, no handles and no shells.
LEMMA HandlesInit ==
  ASSUME Init
  PROVE  TabsAreHeld /\ HandlesInv
  <1>1. \A p \in DOMAIN projects : \A w \in DOMAIN projects[p].wts :
          projects[p].wts[w].tabs = <<>>
    BY LoadedAssumption DEF Init
  <1>2. \A x \in TabRows(projects) : TabsAt(projects, x) = {} /\ OnceAt(projects, x)
    BY <1>1 DEF TabRows, Held, TabsAt, OnceAt, ToSet, Once
  <1>3. TabsAreHeld BY <1>2 DEF Init, TabsAreHeld, AllTabs, TabsApart
  <1>4. HandlesInv
    BY DEF Init, HandlesInv, SessionsNumbered, SpawnsApart, SpawnsNew, ShellsApart,
         SpawnsHandled, AwayUnshown
  <1> QED BY <1>3, <1>4

\* The client has a handle for every tab and a tab for every handle, and shows no session
\* in two places, whatever spawns, exits, removals, losses and adoptions are under way:
\* a shell that is adopted again gets a handle that no reply on its way can carry.
THEOREM TabsShowTheSessions == Spec => []TabsAreSessions
  <1>1. Init => PositionInv /\ TabsAreHeld /\ HandlesInv BY PositionInit, HandlesInit
  <1>2. PositionInv /\ TabsAreHeld /\ HandlesInv /\ [Next]_vars
          => (PositionInv /\ TabsAreHeld /\ HandlesInv)'
    BY PositionStep, HeldStep, HandlesStep
  <1>3. PositionInv /\ TabsAreHeld => TabsAreSessions
    BY HeldSays DEF PositionInv, Types, TreeTypes, Tree, TabsShown, AllShown
  <1> QED BY <1>1, <1>2, <1>3, PTL DEF Spec
-----------------------------------------------------------------------------
(* Operations that run *)

\* A step from which nothing has crossed begins where nothing has.
LEMMA CleanBefore ==
  ASSUME Next, Clean'
  PROVE  Clean
  <1>1. Track BY UserLeaves, AppliedLeaves, OtherLeaves DEF Next
  <1> QED BY <1>1 DEF Track, Clean

\* Where nothing changes, nothing has crossed.
LEMMA CleanIdle ==
  ASSUME UNCHANGED vars, Clean'
  PROVE  Clean
  <1>1. UNCHANGED <<projects, inflight, popup, crossed>> BY DEF vars, uiVars, treeVars, reqVars
  <1>2. \A slug : IndexOf(slug)' = IndexOf(slug) BY <1>1 DEF IndexOf, SelectInSeq
  <1>3. \A r, q : Displaces(r, q)' = Displaces(r, q) BY <1>2 DEF Displaces
  <1> QED BY <1>1, <1>2, <1>3 DEF Clean, Crossing

\* An operation is on its way; the prompt to remove a worktree is for a project that
\* is there, unless requests have crossed.
Running == \E r \in inflight : r.op \in GitOps
RunningInv == losses = 0 /\ pending_op => Running
PromptHeld == popup.k = "confirm" => popup.p \in DOMAIN projects

\* What is sent or asked for in turn runs, or what ran before still does.
LEMMA SentRuns ==
  ASSUME NEW reqs, NEW pending, Send(reqs, pending),
         pending => Running \/ \E r \in reqs : r.op \in GitOps
  PROVE  pending_op' => Running'
  BY DEF Send, Running

\* An answer that leaves an operation shown leaves one running.
LEMMA AnsweredRuns ==
  ASSUME NEW q, NEW reqs, NEW pending, Answer(q, reqs, pending),
         pending => \/ q.op \notin GitOps /\ Running
                    \/ \E r \in reqs : r.op \in GitOps
  PROVE  pending_op' => Running'
  BY DEF Answer, Running

\* The user's operations run, or fail at once.
LEMMA UserRuns ==
  ASSUME Types, PromptHeld, UserStep, pending_op => Running
  PROVE  pending_op' => Running'
  <1>0. "spawn" \notin GitOps /\ {"open", "import", "add", "rmwt", "rmproj"} \subseteq GitOps
    BY DEF GitOps
  <1>1. CASE UNCHANGED reqVars BY <1>1 DEF reqVars, Running
  <1>2. CASE \E reqs : Send(reqs, pending_op) BY <1>2, SentRuns
  <1>3. ASSUME NEW p, NEW b, RequestAdd(p, b) PROVE pending_op' => Running'
    <2> DEFINE r == Request("add", p, 0, <<projects[p].repo, b>>, {})
    <2>1. r.op = "add" BY DEF Request
    <2>2. Send({r}, TRUE) BY <1>3 DEF RequestAdd
    <2> HIDE DEF r
    <2> QED BY <1>0, <2>1, <2>2, SentRuns
  <1>4. CASE ImportWorktrees
    <2> DEFINE r == Request("import", SelectedProject, 0, <<projects[SelectedProject].repo, 0>>, {})
    <2>1. r.op = "import" BY DEF Request
    <2>2. Send({r}, TRUE) BY <1>4 DEF ImportWorktrees
    <2> HIDE DEF r
    <2> QED BY <1>0, <2>1, <2>2, SentRuns
  <1>5. CASE ConfirmRemoveWorktree
    <2> DEFINE q == Request("rmwt", popup.p, popup.w, popup.asked[2],
                            {<<popup.w, popup.asked[2]>>})
               r == [q EXCEPT !.asked = popup.asked, !.slug = popup.asked[1]]
    <2>1. r.op = "rmwt" BY DEF Request
    <2>2. popup.p \in DOMAIN projects BY <1>5 DEF ConfirmRemoveWorktree, PromptHeld
    <2>3. Send({r}, TRUE) BY <1>5, <2>2 DEF ConfirmRemoveWorktree
    <2> HIDE DEF r
    <2> QED BY <1>0, <2>1, <2>3, SentRuns
  <1>6. ASSUME NEW p, NEW delete, RequestProjectRemove(p, delete) PROVE pending_op' => Running'
    <2> DEFINE q == Request("rmproj", p, 0, <<projects[p].repo, 0>>, Rows(p))
               r == [q EXCEPT !.opt = delete]
    <2>1. r.op = "rmproj" BY DEF Request
    <2>2. UNCHANGED reqVars \/ Send({r}, TRUE) BY <1>6 DEF RequestProjectRemove
    <2> HIDE DEF r
    <2> QED BY <1>0, <1>1, <2>1, <2>2, SentRuns
  <1>7. ASSUME NEW repo, NEW import, OpenProject(repo, import) PROVE pending_op' => Running'
    <2> DEFINE r == [n |-> issued + 1, op |-> "open", sup |-> Host[repo], p |-> 0, w |-> 0,
                     slug |-> 0, path |-> <<repo, 0>>, rows |-> {}, opt |-> import, done |-> "no",
                     found |-> {}, asked |-> None]
    <2>1. r.op = "open" OBVIOUS
    <2>2. Send({r}, TRUE) BY <1>7 DEF OpenProject
    <2> HIDE DEF r
    <2> QED BY <1>0, <2>1, <2>2, SentRuns
  <1>8. \/ UNCHANGED reqVars
        \/ \E reqs : Send(reqs, pending_op)
        \/ \E p, b : RequestAdd(p, b)
        \/ ImportWorktrees \/ ConfirmRemoveWorktree
        \/ \E p, delete : RequestProjectRemove(p, delete)
        \/ \E repo, import : OpenProject(repo, import)
    <2>1. \/ UNCHANGED reqVars
          \/ \E p, w : ActivateWorktree(p, w)
          \/ OpenNewTab \/ Launch \/ PeriodicPrCheck
          \/ \E p, b : RequestAdd(p, b)
          \/ ImportWorktrees \/ ConfirmRemoveWorktree
          \/ \E p, delete : RequestProjectRemove(p, delete)
          \/ \E repo, import : OpenProject(repo, import)
      BY DEF UserStep, MoveSelection, ClickRow, ActivateSelection, SwitchTab, CloseTab,
           OpenLauncher, CancelPrompt, AddWorktree, SubmitBranch, AskBranch, AskRemoveWorktree,
           AskRemoveProject, RemoveProject, ConfirmRemoveProject, reqVars
    <2>2. (\E p, w : ActivateWorktree(p, w)) => \E reqs : Send(reqs, pending_op)
      BY DEF ActivateWorktree
    <2>3. OpenNewTab => \E reqs : Send(reqs, pending_op) BY DEF OpenNewTab
    <2>4. Launch => UNCHANGED reqVars \/ \E reqs : Send(reqs, pending_op) BY DEF Launch
    <2>5. PeriodicPrCheck => \E reqs : Send(reqs, pending_op) BY DEF PeriodicPrCheck
    <2> QED BY <2>1, <2>2, <2>3, <2>4, <2>5
  <1> QED BY <1>1, <1>2, <1>3, <1>4, <1>5, <1>6, <1>7, <1>8

\* An answer ends what runs, or leaves it, or begins an import.
LEMMA AppliedRuns ==
  ASSUME Types, NEW r \in inflight, Applied(r), pending_op => Running
  PROVE  pending_op' => Running'
  <1>0. "spawn" \notin GitOps /\ "fetch" \notin GitOps /\ "import" \in GitOps BY DEF GitOps
  <1>1. CASE \E reqs : Answer(r, reqs, FALSE) BY <1>1, AnsweredRuns
  <1>2. CASE r.op \in {"spawn", "fetch"} /\ Answer(r, {}, pending_op)
    BY <1>0, <1>2, AnsweredRuns
  <1>3. CASE ProjectValidated(r)
    <2>1. PICK q : /\ q.op = "import"
                   /\ Answer(r, IF r.opt = "import" THEN {q} ELSE {}, r.opt = "import")
      <3> DEFINE q == [r EXCEPT !.n = issued + 1, !.op = "import", !.p = Len(projects) + 1,
                          !.opt = "none", !.slug = ComputeSlug, !.done = "no",
                          !.asked = <<ComputeSlug, r.path>>]
      <3>1. Answer(r, IF r.opt = "import" THEN {q} ELSE {}, r.opt = "import")
        BY <1>3 DEF ProjectValidated
      <3>2. q.op = "import" BY DEF Types, RequestTypes, Requests
      <3> HIDE DEF q
      <3> QED BY <3>1, <3>2
    <2>2. r.opt = "import" => \E x \in (IF r.opt = "import" THEN {q} ELSE {}) : x.op \in GitOps
      BY <1>0, <2>1
    <2> QED BY <2>1, <2>2, AnsweredRuns
  <1>4. \/ \E reqs : Answer(r, reqs, FALSE)
        \/ r.op \in {"spawn", "fetch"} /\ Answer(r, {}, pending_op)
        \/ ProjectValidated(r)
    BY DEF Applied, SessionSpawned, WorktreesImported, WorktreeAdded, WorktreeRemoved,
         ProjectRemoved, OperationFailed, PrStatusesFetched, PrFetchFailed
  <1> QED BY <1>1, <1>2, <1>3, <1>4

\* While no connection was lost, what is shown as running runs.
LEMMA RunningStep ==
  ASSUME Types, PromptHeld, RunningInv, Next
  PROVE  RunningInv'
  <1> SUFFICES ASSUME losses' = 0, pending_op' PROVE Running'
    BY DEF RunningInv
  <1>1. CASE UserStep
    <2>1. losses' = losses BY <1>1, UserLeaves DEF linkVars
    <2> QED BY <1>1, <2>1, UserRuns DEF RunningInv
  <1>2. CASE \E r \in inflight : Applied(r)
    <2>1. losses' = losses BY <1>2, AppliedLeaves DEF linkVars
    <2> QED BY <1>2, <2>1, AppliedRuns DEF RunningInv
  <1>3. CASE SupervisorStep
    <2>1. losses' = losses /\ pending_op' = pending_op
      BY <1>3 DEF SupervisorStep, Handle, ShellExits, linkVars, reqVars
    <2>2. \A r \in inflight : \E q \in inflight' : q.op = r.op
      <3>1. CASE \E s \in live : ShellExits(s) BY <3>1 DEF ShellExits, reqVars
      <3>2. ASSUME NEW r \in inflight, NEW ok, Handle(r, ok)
            PROVE  \A x \in inflight : \E q \in inflight' : q.op = x.op
        <4>1. r \in Requests BY DEF Types, RequestTypes
        <4> DEFINE y == [r EXCEPT !.done = IF ok THEN "ok" ELSE "fail",
                           !.found = IF ok /\ r.op = "import"
                                     THEN {x \in git : x[1] = r.path[1]} ELSE {}]
        <4>2. y.op = r.op BY <4>1 DEF Requests
        <4>3. inflight' = (inflight \ {r}) \cup {y} BY <3>2 DEF Handle
        <4> HIDE DEF y
        <4> QED BY <4>2, <4>3
      <3> QED BY <1>3, <3>1, <3>2 DEF SupervisorStep
    <2> QED BY <2>1, <2>2 DEF RunningInv, Running
  <1>4. CASE \E s \in exited : SessionExited(s)
    <2>1. UNCHANGED <<linkVars, reqVars>> BY <1>4 DEF SessionExited, linkVars
    <2> QED BY <2>1 DEF linkVars, reqVars, RunningInv, Running
  <1>5. CASE LinkStep
    <2>1. PICK repo \in Repos : SupervisorLost(Host[repo]) \/ SupervisorConnected(Host[repo])
      BY <1>5 DEF LinkStep
    <2>2. CASE SupervisorConnected(Host[repo])
      BY <2>2 DEF SupervisorConnected, reqVars, RunningInv, Running
    <2>3. CASE SupervisorLost(Host[repo])
      <3>1. losses \in Nat /\ losses' = losses + 1
        BY <2>3, BoundsAssumption DEF SupervisorLost, Types, LinkTypes
      <3> QED BY <3>1
    <2> QED BY <2>1, <2>2, <2>3
  <1> QED BY <1>1, <1>2, <1>3, <1>4, <1>5 DEF Next

\* A step redecorates the tree, lets it grow, or takes out a row or a project.
LEMMA TreeStep ==
  ASSUME Types, Tree, Next
  PROVE  \/ Redecorated \/ TreeGrown
         \/ \E r \in inflight : WorktreeRemoved(r) /\ Has(r.p, r.w)
         \/ \E r \in inflight : ProjectRemoved(r) /\ IndexOf(r.slug) # 0
  <1>1. projects' = projects => Redecorated BY TreeUnchanged
  <1>2. CASE UserStep BY <1>2, UserTree
  <1>3. CASE SupervisorStep
    <2>1. projects' = projects BY <1>3 DEF SupervisorStep, Handle, ShellExits, treeVars
    <2> QED BY <1>1, <2>1
  <1>4. ASSUME NEW r \in inflight, Applied(r)
        PROVE  \/ Redecorated \/ TreeGrown
               \/ WorktreeRemoved(r) /\ Has(r.p, r.w)
               \/ ProjectRemoved(r) /\ IndexOf(r.slug) # 0
    <2>1. CASE OperationFailed(r) \/ PrFetchFailed(r) \/ \E hit : PrStatusesFetched(r, hit)
      <3>1. projects' = projects
        BY <2>1 DEF OperationFailed, PrFetchFailed, PrStatusesFetched, treeVars
      <3> QED BY <1>1, <3>1
    <2>2. CASE WorktreeRemoved(r) /\ ~Has(r.p, r.w)
      <3>1. projects' = projects BY <2>2 DEF WorktreeRemoved
      <3> QED BY <1>1, <3>1
    <2>3. CASE ProjectRemoved(r) /\ IndexOf(r.slug) = 0
      <3>1. projects' = projects BY <2>3 DEF ProjectRemoved
      <3> QED BY <1>1, <3>1
    <2> QED BY <1>4, <2>1, <2>2, <2>3, SpawnedTree, ImportedTree, AddedTree, ValidatedTree
            DEF Applied
  <1>5. CASE \E s \in exited : SessionExited(s)
    <2>1. PICK s \in exited : SessionExited(s) BY <1>5
    <2>2. projects' = WithoutSession(projects, GlobalId(s)) BY <2>1 DEF SessionExited
    <2> QED BY <2>2, ExitedTree
  <1>6. CASE LinkStep BY <1>6, LostTree, ConnectedTree DEF LinkStep
  <1> QED BY <1>2, <1>3, <1>4, <1>5, <1>6 DEF Next

\* The prompt to remove a worktree stays in a project while nothing crosses.
LEMMA PromptStep ==
  ASSUME Types, Tree, Clean, PromptHeld, Next
  PROVE  Clean' => PromptHeld'
  <1> SUFFICES ASSUME Clean', popup'.k = "confirm" PROVE popup'.p \in DOMAIN projects'
    BY DEF PromptHeld
  <1>1. popup' = popup \/ AskRemoveWorktree
    <2>1. CASE UserStep
      <3>1. \/ popup' = popup \/ popup' = NoPopup
            \/ OpenLauncher \/ AskBranch \/ AskRemoveWorktree \/ AskRemoveProject
        BY <2>1 DEF UserStep, MoveSelection, ClickRow, ActivateSelection, SwitchTab, OpenNewTab,
             CloseTab, Launch, CancelPrompt, AddWorktree, SubmitBranch,
             ImportWorktrees, ConfirmRemoveWorktree,
             RemoveProject, ConfirmRemoveProject, OpenProject, PeriodicPrCheck, uiVars
      <3> QED BY <3>1 DEF NoPopup, Prompt, OpenLauncher, AskBranch, AskRemoveProject
    <2> QED BY <2>1, AppliedLeaves, OtherLeaves DEF Next
  <1>2. popup'.p \in DOMAIN projects
    <2>1. CASE AskRemoveWorktree BY <2>1 DEF AskRemoveWorktree, Has, Prompt
    <2>2. CASE popup' = popup BY <2>2 DEF PromptHeld
    <2> QED BY <1>1, <2>1, <2>2
  <1>3. CASE Redecorated BY <1>2, <1>3 DEF Redecorated, SameShape
  <1>4. CASE TreeGrown BY <1>2, <1>4 DEF TreeGrown, Grown
  <1>5. CASE \E r \in inflight : WorktreeRemoved(r) /\ Has(r.p, r.w)
    BY <1>2, <1>5, WorktreeRemovedTree
  <1>6. ASSUME NEW r \in inflight, ProjectRemoved(r), IndexOf(r.slug) # 0
        PROVE  popup'.p \in DOMAIN projects'
    <2>1. popup' = popup /\ r.op = "rmproj" /\ Track BY <1>6 DEF ProjectRemoved
    <2>2. ~(popup.p >= IndexOf(r.slug)) BY <2>1 DEF Clean, Track, Crossing
    <2>3. IndexOf(r.slug) \in DOMAIN projects /\ DOMAIN projects' = 1 .. Len(projects) - 1
      BY <1>6, ProjectRemovedTree
    <2>4. projects \in Seq(Project) BY DEF Tree
    <2> QED BY <1>2, <2>1, <2>2, <2>3, <2>4
  <1> QED BY <1>3, <1>4, <1>5, <1>6, TreeStep

\* Unless requests crossed or a connection was lost, an operation that is shown as
\* running runs: its answer is to come, and with it the user may remove projects again.
THEOREM OperationsEnd == Spec => []NotWedged
  <1> DEFINE Inv == PositionInv /\ (Clean => PromptHeld /\ RunningInv)
  <1>1. Init => Inv
    <2> SUFFICES ASSUME Init PROVE Inv OBVIOUS
    <2>1. PromptHeld /\ RunningInv BY DEF Init, PromptHeld, RunningInv, NoPopup
    <2> QED BY <2>1, PositionInit
  <1>2. Inv /\ [Next]_vars => Inv'
    <2> SUFFICES ASSUME Inv, [Next]_vars PROVE Inv' OBVIOUS
    <2>1. PositionInv' BY PositionStep
    <2>2. CASE UNCHANGED vars
      <3>1. UNCHANGED <<projects, inflight, popup, pending_op, losses>>
        BY <2>2 DEF vars, uiVars, treeVars, reqVars, linkVars
      <3>2. Clean' => Clean BY <2>2, CleanIdle
      <3> QED BY <2>1, <3>1, <3>2 DEF PromptHeld, RunningInv, Running
    <2>3. ASSUME Next, Clean' PROVE (PromptHeld /\ RunningInv)'
      <3>1. Clean /\ Types /\ Tree BY <2>3, CleanBefore
            DEF PositionInv, Types, TreeTypes, Tree, TabsShown, AllShown
      <3> QED BY <2>3, <3>1, PromptStep, RunningStep
    <2> QED BY <2>1, <2>2, <2>3
  <1>3. Inv => NotWedged BY DEF RunningInv, Running, NotWedged
  <1> HIDE DEF Inv
  <1> QED BY <1>1, <1>2, <1>3, PTL DEF Spec

-----------------------------------------------------------------------------
(* Pointers follow their rows *)

\* What a position denotes in a tree, and what all rows do.
RowAt(ps, at) ==
  IF at[1] \notin DOMAIN ps \/ (at[2] # 0 /\ ~Held(ps, at[1], at[2])) THEN None
  ELSE <<ps[at[1]].slug,
         IF at[2] = 0 THEN <<ps[at[1]].repo, 0>> ELSE ps[at[1]].wts[at[2]].path>>
RowsIn(ps) == {RowAt(ps, x) : x \in TabRows(ps)}

\* A row denotes its path in its project, and not nothing.
LEMMA RowAtIs ==
  ASSUME NEW ps \in Seq(Project), NEW at, Held(ps, at[1], at[2])
  PROVE  /\ RowAt(ps, at) = <<ps[at[1]].slug, ps[at[1]].wts[at[2]].path>>
         /\ at[1] \in Nat \ {0} /\ at[2] \in Nat \ {0} /\ ps[at[1]].slug # 0
  <1>1. at[1] \in DOMAIN ps /\ at[2] \in DOMAIN ps[at[1]].wts BY DEF Held
  <1>2. ps[at[1]] \in Project BY <1>1
  <1>3. ps[at[1]].wts \in Seq(Worktree) /\ ps[at[1]].slug # 0 BY <1>2 DEF Project
  <1>4. at[1] \in Nat \ {0} /\ at[2] \in Nat \ {0} BY <1>1, <1>3
  <1> QED BY <1>1, <1>3, <1>4 DEF RowAt

\* No row is the row of no position.
LEMMA NoneIsNoRow ==
  ASSUME NEW ps \in Seq(Project)
  PROVE  RowAt(ps, None) = None /\ None \notin RowsIn(ps)
  <1>1. None[1] = 0 /\ 0 \notin DOMAIN ps BY DEF None
  <1>2. RowAt(ps, None) = None BY <1>1 DEF RowAt
  <1>3. ASSUME NEW x \in TabRows(ps) PROVE RowAt(ps, x) # None
    <2>1. Held(ps, x[1], x[2]) BY DEF TabRows
    <2>2. RowAt(ps, x) = <<ps[x[1]].slug, ps[x[1]].wts[x[2]].path>> /\ ps[x[1]].slug # 0
      BY <2>1, RowAtIs
    <2> QED BY <2>2 DEF None
  <1> QED BY <1>2, <1>3 DEF RowsIn

\* The rows of a tree, project by project.
LEMMA RowsInAre ==
  ASSUME NEW ps \in Seq(Project), NEW x
  PROVE  x \in RowsIn(ps) <=>
           \E p \in DOMAIN ps : \E w \in DOMAIN ps[p].wts : x = RowAt(ps, <<p, w>>)
  <1>1. ASSUME NEW p \in DOMAIN ps, NEW w \in DOMAIN ps[p].wts, x = RowAt(ps, <<p, w>>)
        PROVE  x \in RowsIn(ps)
    <2>1. ps[p] \in Project OBVIOUS
    <2>2. ps[p].wts \in Seq(Worktree) BY <2>1 DEF Project
    <2>3. <<p, w>> \in TabRows(ps) BY <2>2 DEF TabRows, Held
    <2> QED BY <1>1, <2>3 DEF RowsIn
  <1>2. ASSUME x \in RowsIn(ps)
        PROVE  \E p \in DOMAIN ps : \E w \in DOMAIN ps[p].wts : x = RowAt(ps, <<p, w>>)
    <2>1. PICK y \in TabRows(ps) : x = RowAt(ps, y) BY <1>2 DEF RowsIn
    <2>2. y[1] \in DOMAIN ps /\ y[2] \in DOMAIN ps[y[1]].wts /\ y = <<y[1], y[2]>>
      BY DEF TabRows, Held
    <2>3. x = RowAt(ps, <<y[1], y[2]>>) BY <2>1, <2>2
    <2> QED BY <2>2, <2>3
  <1> QED BY <1>1, <1>2

\* Trees of one shape have the same rows; a tree that grows keeps its own.
LEMMA RowsStay ==
  ASSUME NEW ps \in Seq(Project), NEW qs \in Seq(Project), SameShape(ps, qs) \/ Grown(ps, qs)
  PROVE  RowsIn(ps) \subseteq RowsIn(qs)
  <1> SUFFICES ASSUME NEW x \in TabRows(ps) PROVE RowAt(ps, x) \in RowsIn(qs)
    BY DEF RowsIn
  <1>1. x \in Nat \X Nat /\ Held(ps, x[1], x[2]) BY DEF TabRows
  <1>2. /\ Held(qs, x[1], x[2]) /\ qs[x[1]].slug = ps[x[1]].slug
        /\ qs[x[1]].wts[x[2]].path = ps[x[1]].wts[x[2]].path
    BY <1>1 DEF SameShape, Grown, Held
  <1>3. RowAt(qs, x) = RowAt(ps, x) BY <1>1, <1>2, RowAtIs
  <1>4. x \in TabRows(qs) BY <1>1, <1>2 DEF TabRows
  <1> QED BY <1>3, <1>4 DEF RowsIn

\* When a row is taken out, every other is still one, at the place it shifts to.
LEMMA RowFollows ==
  ASSUME NEW ps \in Seq(Project), NEW qs \in Seq(Project), NEW p, NEW w \in Nat \ {0},
         Held(ps, p, w), RowGone(ps, qs, p, w), qs[p].slug = ps[p].slug,
         NEW at, at \in Nat \X Nat, Held(ps, at[1], at[2]), at # <<p, w>>,
         NEW to, to = ShiftRow(at, p, w)
  PROVE  to \in TabRows(qs) /\ RowAt(qs, to) = RowAt(ps, at)
  <1>1. at[1] # p \/ at[2] # w OBVIOUS
  <1>2. to[1] \in Nat /\ to[2] \in Nat /\ Held(qs, to[1], to[2]) BY <1>1, RowShifted
  <1>3. to = at \/ to = <<p, at[2] - 1>> BY DEF ShiftRow
  <1>4. to \in TabRows(qs) BY <1>2, <1>3 DEF TabRows
  <1>5. /\ RowAt(qs, to) = <<qs[to[1]].slug, qs[to[1]].wts[to[2]].path>>
        /\ RowAt(ps, at) = <<ps[at[1]].slug, ps[at[1]].wts[at[2]].path>>
    BY <1>2, RowAtIs
  <1>6. /\ DOMAIN qs = DOMAIN ps /\ \A q \in DOMAIN ps : q # p => qs[q] = ps[q]
        /\ \A v \in DOMAIN qs[p].wts :
             qs[p].wts[v] = IF v < w THEN ps[p].wts[v] ELSE ps[p].wts[v + 1]
    BY DEF RowGone, Shortened
  <1>7. CASE at[1] # p
    <2>1. to = at BY <1>7 DEF ShiftRow
    <2> QED BY <1>4, <1>5, <1>6, <1>7, <2>1 DEF Held
  <1>8. CASE at[1] = p /\ at[2] > w
    <2>1. to = <<p, at[2] - 1>> BY <1>8 DEF ShiftRow
    <2>2. at[2] - 1 \in DOMAIN qs[p].wts /\ ~(at[2] - 1 < w) /\ at[2] - 1 + 1 = at[2]
      BY <1>2, <1>8, <2>1 DEF Held
    <2>3. qs[p].wts[at[2] - 1] = ps[p].wts[at[2]] BY <1>6, <2>2
    <2> QED BY <1>4, <1>5, <1>8, <2>1, <2>3
  <1>9. CASE at[1] = p /\ ~(at[2] > w)
    <2>1. to = at BY <1>9 DEF ShiftRow
    <2>2. at[2] \in DOMAIN qs[p].wts /\ at[2] < w BY <1>1, <1>2, <1>9, <2>1 DEF Held
    <2>3. qs[p].wts[at[2]] = ps[p].wts[at[2]] BY <1>6, <2>2
    <2> QED BY <1>4, <1>5, <1>9, <2>1, <2>3
  <1> QED BY <1>7, <1>8, <1>9

\* A row beside the one that goes is left.
LEMMA RowsLeft ==
  ASSUME NEW n \in Nat, NEW w \in 1 .. n, NEW v \in 1 .. n, v # w
  PROVE  n - 1 # 0
  OBVIOUS

\* Pointers follow: one to a row that stays goes with it, one to a row that is gone
\* goes to none, or if it is the selection, to another.
Follow(ps, qs, a, a2, s, s2) ==
  /\ RowAt(qs, a2) = IF RowAt(ps, a) \in RowsIn(qs) THEN RowAt(ps, a) ELSE None
  /\ RowAt(ps, s) \in RowsIn(qs) => RowAt(qs, s2) = RowAt(ps, s)

\* Where the active worktree and the selection are, of those at `at', when row w of p is
\* gone and leaves count rows.
ActiveAfter(at, p, w, count) ==
  IF at[1] = p /\ (at[2] = w \/ (at[2] > w /\ count = 0)) THEN None ELSE ShiftRow(at, p, w)
SelectedAfter(at, p, w, count) ==
  IF at[1] # p \/ at[2] < w THEN at
  ELSE IF count = 0 THEN <<p, 0>>
  ELSE IF at[2] = w THEN <<p, IF w > count THEN count ELSE w>>
  ELSE ShiftRow(at, p, w)

\* The pointers follow their rows when one row is gone.
LEMMA RowGoneFollow ==
  ASSUME NEW ps \in Seq(Project), NEW qs \in Seq(Project), NEW p, NEW w \in Nat \ {0},
         Held(ps, p, w), RowGone(ps, qs, p, w),
         qs[p].slug = ps[p].slug, qs[p].repo = ps[p].repo,
         RowsIn(qs) \subseteq RowsIn(ps), RowsIn(qs) # RowsIn(ps),
         NEW a, a \in Nat \X Nat, a = None \/ Held(ps, a[1], a[2]),
         NEW s, s \in Nat \X Nat, s = None \/ Chosen(ps, s),
         NEW count, count = Len(qs[p].wts),
         NEW a2, a2 = ActiveAfter(a, p, w, count),
         NEW s2, s2 = SelectedAfter(s, p, w, count)
  PROVE  Follow(ps, qs, a, a2, s, s2)
  <1> USE DEF ActiveAfter, SelectedAfter
  <1>0. /\ p \in Nat \ {0} /\ p \in DOMAIN ps /\ w \in DOMAIN ps[p].wts
        /\ ps[p].wts \in Seq(Worktree) /\ Len(ps[p].wts) \in Nat /\ w \in 1 .. Len(ps[p].wts)
        /\ DOMAIN qs = DOMAIN ps /\ count = Len(ps[p].wts) - 1
    <2>1. p \in DOMAIN ps /\ w \in DOMAIN ps[p].wts BY DEF Held
    <2>2. ps[p] \in Project BY <2>1
    <2>3. ps[p].wts \in Seq(Worktree) BY <2>2 DEF Project
    <2>4. p \in Nat \ {0} BY <2>1
    <2>5. Len(ps[p].wts) \in Nat /\ DOMAIN ps[p].wts = 1 .. Len(ps[p].wts) BY <2>3
    <2>6. w \in 1 .. Len(ps[p].wts) BY <2>1, <2>5
    <2>7. DOMAIN qs = DOMAIN ps /\ count = Len(ps[p].wts) - 1 BY DEF RowGone, Shortened
    <2> QED BY <2>1, <2>3, <2>4, <2>5, <2>6, <2>7
  <1>1. ASSUME NEW at, at \in Nat \X Nat, Held(ps, at[1], at[2]), at # <<p, w>>
        PROVE  /\ RowAt(ps, at) \in RowsIn(qs)
               /\ RowAt(qs, ShiftRow(at, p, w)) = RowAt(ps, at)
    <2>1. ShiftRow(at, p, w) \in TabRows(qs) /\ RowAt(qs, ShiftRow(at, p, w)) = RowAt(ps, at)
      BY <1>1, RowFollows
    <2>2. RowAt(qs, ShiftRow(at, p, w)) \in RowsIn(qs) BY <2>1 DEF RowsIn
    <2> QED BY <2>1, <2>2
  <1>2. RowAt(ps, <<p, w>>) \notin RowsIn(qs)
    <2> SUFFICES ASSUME RowAt(ps, <<p, w>>) \in RowsIn(qs) PROVE RowsIn(ps) \subseteq RowsIn(qs)
      OBVIOUS
    <2> SUFFICES ASSUME NEW x \in TabRows(ps) PROVE RowAt(ps, x) \in RowsIn(qs)
      BY DEF RowsIn
    <2>1. x \in Nat \X Nat /\ Held(ps, x[1], x[2]) BY DEF TabRows
    <2> QED BY <1>1, <2>1
  <1>3. RowAt(qs, None) = None /\ None \notin RowsIn(qs) /\ RowAt(ps, None) = None
    BY NoneIsNoRow
  <1>4. RowAt(qs, a2) = IF RowAt(ps, a) \in RowsIn(qs) THEN RowAt(ps, a) ELSE None
    <2>1. CASE a = None
      <3>1. ShiftRow(a, p, w) = None BY <2>1 DEF ShiftRow, None
      <3>2. a2 = None BY <3>1
      <3> QED BY <1>3, <2>1, <3>2
    <2>2. CASE a = <<p, w>>
      <3>1. a2 = None BY <2>2
      <3> QED BY <1>2, <1>3, <2>2, <3>1
    <2>3. CASE a # None /\ a # <<p, w>>
      <3>1. Held(ps, a[1], a[2]) BY <2>3
      <3>2. ~(a[1] = p /\ (a[2] = w \/ (a[2] > w /\ count = 0)))
        <4>1. CASE a[1] # p BY <4>1
        <4>2. CASE a[1] = p
          <5>1. a[2] # w BY <2>3, <4>2
          <5>2. a[2] \in 1 .. Len(ps[p].wts) BY <1>0, <3>1, <4>2 DEF Held
          <5>3. count # 0 BY <1>0, <5>1, <5>2, RowsLeft
          <5> QED BY <5>1, <5>3
        <4> QED BY <4>1, <4>2
      <3>3. a2 = ShiftRow(a, p, w) BY <3>2
      <3> QED BY <1>1, <2>3, <3>1, <3>3
    <2> QED BY <2>1, <2>2, <2>3
  <1>5. ASSUME RowAt(ps, s) \in RowsIn(qs) PROVE RowAt(qs, s2) = RowAt(ps, s)
    <2>1. s # None /\ s # <<p, w>> BY <1>2, <1>3, <1>5
    <2>2. s[1] \in DOMAIN ps /\ s[2] \in 0 .. Len(ps[s[1]].wts) BY <2>1 DEF Chosen
    <2>3. CASE s[2] = 0
      <3>1. s2 = s BY <2>3
      <3>2. qs[s[1]].slug = ps[s[1]].slug /\ qs[s[1]].repo = ps[s[1]].repo
        BY <2>2 DEF RowGone
      <3> QED BY <1>0, <2>2, <2>3, <3>1, <3>2 DEF RowAt
    <2>4. CASE s[2] # 0
      <3>1. Held(ps, s[1], s[2])
        <4>1. ps[s[1]] \in Project BY <2>2
        <4>2. ps[s[1]].wts \in Seq(Worktree) BY <4>1 DEF Project
        <4> QED BY <2>2, <2>4, <4>2 DEF Held
      <3>2. s2 = ShiftRow(s, p, w)
        <4>1. CASE s[1] # p \/ s[2] < w BY <4>1 DEF ShiftRow
        <4>2. CASE s[1] = p /\ ~(s[2] < w)
          <5>1. s[2] # w BY <2>1, <4>2
          <5>2. s[2] \in 1 .. Len(ps[p].wts) BY <1>0, <3>1, <4>2 DEF Held
          <5>3. count # 0 BY <1>0, <5>1, <5>2, RowsLeft
          <5> QED BY <4>2, <5>1, <5>3
        <4> QED BY <4>1, <4>2
      <3> QED BY <1>1, <2>1, <3>1, <3>2
    <2> QED BY <2>3, <2>4
  <1> QED BY <1>4, <1>5 DEF Follow

\* So they do when a project is gone, whose rows no other project has.
LEMMA ProjectGoneFollow ==
  ASSUME NEW ps \in Seq(Project), NEW qs \in Seq(Project), NEW p, ProjectGone(ps, qs, p),
         SlugsApart(ps),
         NEW a, a \in Nat \X Nat, a = None \/ Held(ps, a[1], a[2]),
         NEW s, s \in Nat \X Nat, s = None \/ Chosen(ps, s),
         NEW a2, a2 = IF a[1] = p THEN None ELSE <<ShiftProject(a[1], p), a[2]>>,
         NEW s2, s[1] # p => s2 = <<ShiftProject(s[1], p), s[2]>>
  PROVE  Follow(ps, qs, a, a2, s, s2)
  <1>0. p \in Nat \ {0} /\ p \in DOMAIN ps BY DEF ProjectGone
  <1>1. ASSUME NEW at, at \in Nat \X Nat, at[1] \in DOMAIN ps, at[1] # p, NEW to,
               to = <<ShiftProject(at[1], p), at[2]>>
        PROVE  /\ RowAt(qs, to) = RowAt(ps, at)
               /\ Held(ps, at[1], at[2]) => to \in TabRows(qs)
    <2>1. to[1] \in Nat /\ to[1] \in DOMAIN qs /\ qs[to[1]] = ps[at[1]]
      BY <1>1, ProjectShifted
    <2>2. to[2] = at[2] BY <1>1
    <2> QED BY <1>1, <2>1, <2>2 DEF RowAt, Held, TabRows
  <1>2. ASSUME NEW v, RowAt(ps, <<p, v>>) \in RowsIn(qs)
        PROVE  FALSE
    <2>1. PICK y \in TabRows(qs) : RowAt(ps, <<p, v>>) = RowAt(qs, y) BY <1>2 DEF RowsIn
    <2>2. y[1] \in DOMAIN qs /\ Held(qs, y[1], y[2]) BY DEF TabRows, Held
    <2>3. RowAt(qs, y) = <<qs[y[1]].slug, qs[y[1]].wts[y[2]].path>> /\ qs[y[1]].slug # 0
      BY <2>2, RowAtIs
    <2>4. PICK q \in DOMAIN ps : q # p /\ qs[y[1]] = ps[q]
      <3> DEFINE q == IF y[1] < p THEN y[1] ELSE y[1] + 1
      <3>1. y[1] \in 1 .. Len(ps) - 1 /\ Len(ps) \in Nat /\ DOMAIN ps = 1 .. Len(ps)
        BY <2>2 DEF ProjectGone
      <3>2. q \in DOMAIN ps /\ q # p BY <1>0, <3>1
      <3>3. qs[y[1]] = ps[q] BY <2>2 DEF ProjectGone
      <3> QED BY <3>2, <3>3
    <2>5. ps[q].slug # ps[p].slug BY <1>0, <2>4 DEF SlugsApart
    <2>6. RowAt(ps, <<p, v>>) = None \/ RowAt(ps, <<p, v>>)[1] = ps[p].slug BY DEF RowAt
    <2>7. RowAt(qs, y)[1] = ps[q].slug /\ RowAt(qs, y) # None BY <2>3, <2>4 DEF None
    <2> QED BY <2>1, <2>5, <2>6, <2>7
  <1>3. RowAt(qs, None) = None /\ None \notin RowsIn(qs) /\ RowAt(ps, None) = None
    BY NoneIsNoRow
  <1>4. ShiftProject(0, p) = 0 BY <1>0 DEF ShiftProject
  <1>5. RowAt(qs, a2) = IF RowAt(ps, a) \in RowsIn(qs) THEN RowAt(ps, a) ELSE None
    <2>1. CASE a = None
      <3>1. a2 = None BY <1>0, <1>4, <2>1 DEF None
      <3> QED BY <1>3, <2>1, <3>1
    <2>2. CASE a # None /\ a[1] = p
      <3>1. a2 = None BY <2>2
      <3>2. a = <<p, a[2]>> BY <2>2
      <3>3. RowAt(ps, a) \notin RowsIn(qs) BY <1>2, <3>2
      <3> QED BY <1>3, <3>1, <3>3
    <2>3. CASE a # None /\ a[1] # p
      <3>1. Held(ps, a[1], a[2]) /\ a[1] \in DOMAIN ps BY <2>3 DEF Held
      <3>2. a2 = <<ShiftProject(a[1], p), a[2]>> BY <2>3
      <3>3. RowAt(qs, a2) = RowAt(ps, a) /\ a2 \in TabRows(qs) BY <1>1, <2>3, <3>1, <3>2
      <3> QED BY <3>3 DEF RowsIn
    <2> QED BY <2>1, <2>2, <2>3
  <1>6. ASSUME RowAt(ps, s) \in RowsIn(qs) PROVE RowAt(qs, s2) = RowAt(ps, s)
    <2>1. s # None BY <1>3, <1>6
    <2>2. s[1] # p
      <3> SUFFICES ASSUME s[1] = p PROVE FALSE OBVIOUS
      <3>1. s = <<p, s[2]>> OBVIOUS
      <3> QED BY <1>2, <1>6, <3>1
    <2>3. s[1] \in DOMAIN ps BY <2>1 DEF Chosen
    <2> QED BY <1>1, <2>2, <2>3
  <1> QED BY <1>5, <1>6 DEF Follow

\* The reply to the removal of a worktree takes the pointers along.
LEMMA WorktreeRemovedFollow ==
  ASSUME PositionInv, Tree, Pointers, NEW r \in inflight, WorktreeRemoved(r), Has(r.p, r.w),
         projects' \in Seq(Project), RowsIn(projects') \subseteq RowsIn(projects),
         RowsIn(projects') # RowsIn(projects)
  PROVE  Follow(projects, projects', active_worktree, active_worktree', sidebar_selection,
                sidebar_selection')
  <1> DEFINE ps == projects
             qs == projects'
             p == r.p
             w == r.w
             count == Len(qs[p].wts)
             a == active_worktree
             a2 == active_worktree'
             s == sidebar_selection
             s2 == sidebar_selection'
  <1>0. Types BY DEF PositionInv
  <1>1. w \in Nat \ {0}
    <2>1. r.op = "rmwt" /\ r \in Requests BY <1>0 DEF WorktreeRemoved, Types, RequestTypes
    <2> QED BY <1>0, <2>1 DEF Types, RequestTypes, Requests
  <1>2. /\ ps \in Seq(Project) /\ qs \in Seq(Project) /\ Held(ps, p, w) /\ RowGone(ps, qs, p, w)
        /\ qs[p].slug = ps[p].slug /\ qs[p].repo = ps[p].repo
        /\ RowsIn(qs) \subseteq RowsIn(ps) /\ RowsIn(qs) # RowsIn(ps)
    BY <1>0, WorktreeRemovedTree DEF RowGone, Held, Has, Tree
  <1>3. /\ a \in Nat \X Nat /\ s \in Nat \X Nat
        /\ a = None \/ Held(ps, a[1], a[2])
        /\ s = None \/ Chosen(ps, s)
    BY DEF Pointers, PointerTypes, ActiveIn, SelectedIn, Has, Held, Chosen
  <1>4. p \in DOMAIN ps BY DEF Has
  <1>5. a2 = ActiveAfter(a, p, w, count) /\ s2 = SelectedAfter(s, p, w, count)
    BY <1>4 DEF WorktreeRemoved, ActiveAfter, SelectedAfter
  <1>6. count = Len(qs[p].wts) OBVIOUS
  <1>7. Follow(ps, qs, a, a2, s, s2)
    <2> HIDE DEF ps, qs, p, w, count, a, a2, s, s2
    <2> QED BY <1>1, <1>2, <1>3, <1>5, <1>6, RowGoneFollow
  <1> QED BY <1>7

\* So does the reply to the removal of a project.
LEMMA ProjectRemovedFollow ==
  ASSUME PositionInv, Tree, Pointers, SlugsApart(projects),
         NEW r \in inflight, ProjectRemoved(r), IndexOf(r.slug) # 0
  PROVE  Follow(projects, projects', active_worktree, active_worktree', sidebar_selection,
                sidebar_selection')
  <1> DEFINE ps == projects
             qs == projects'
             p == IndexOf(r.slug)
             a == active_worktree
             a2 == active_worktree'
             s == sidebar_selection
             s2 == sidebar_selection'
  <1>0. Types BY DEF PositionInv
  <1>1. /\ ps \in Seq(Project) /\ qs \in Seq(Project) /\ ProjectGone(ps, qs, p)
        /\ SlugsApart(ps)
    BY <1>0, ProjectRemovedTree DEF ProjectGone, Tree
  <1>2. /\ a \in Nat \X Nat /\ s \in Nat \X Nat
        /\ a = None \/ Held(ps, a[1], a[2])
        /\ s = None \/ Chosen(ps, s)
    BY DEF Pointers, PointerTypes, ActiveIn, SelectedIn, Has, Held, Chosen
  <1>3. /\ a2 = IF a[1] = p THEN None ELSE <<ShiftProject(a[1], p), a[2]>>
        /\ s[1] # p => s2 = <<ShiftProject(s[1], p), s[2]>>
    BY DEF ProjectRemoved
  <1>4. Follow(ps, qs, a, a2, s, s2)
    <2> HIDE DEF ps, qs, p, a, a2, s, s2
    <2> QED BY <1>1, <1>2, <1>3, ProjectGoneFollow
  <1> QED BY <1>4

\* A removal is the only step after which there are fewer rows.
LEMMA FollowStep ==
  ASSUME PositionInv, FilesAreShown, Next,
         AllRows' \subseteq AllRows, AllRows' # AllRows
  PROVE  /\ ActiveRow' = IF ActiveRow \in AllRows' THEN ActiveRow ELSE None
         /\ SelectedRow \in AllRows' => SelectedRow' = SelectedRow
  <1>0. Types /\ Tree /\ Pointers /\ SlugsApart(projects)
    BY DEF PositionInv, Types, TreeTypes, Tree, Pointers, TabsShown, AllShown, FilesAreShown
  <1>1. projects \in Seq(Project) /\ projects' \in Seq(Project)
    BY <1>0, PointersStep DEF Tree
  <1>2. AllRows = RowsIn(projects) /\ \A p, w : Denotes(p, w) = RowAt(projects, <<p, w>>)
    <2>1. \A p, w : Denotes(p, w) = RowAt(projects, <<p, w>>) BY DEF Denotes, RowAt, Has, Held
    <2>2. \A x : x \in AllRows <=>
                   \E p \in DOMAIN projects : \E w \in DOMAIN projects[p].wts : x = Denotes(p, w)
      BY DEF AllRows
    <2>3. ASSUME NEW x PROVE x \in AllRows <=> x \in RowsIn(projects)
      <3>1. x \in RowsIn(projects) <=>
              \E p \in DOMAIN projects : \E w \in DOMAIN projects[p].wts :
                x = RowAt(projects, <<p, w>>)
        BY <1>1, RowsInAre
      <3> QED BY <2>1, <2>2, <3>1
    <2> QED BY <2>1, <2>3
  <1>3. /\ AllRows' = RowsIn(projects')
        /\ \A p, w : Denotes(p, w)' = RowAt(projects', <<p, w>>)
    <2>1. \A p, w : Denotes(p, w)' = RowAt(projects', <<p, w>>) BY DEF Denotes, RowAt, Has, Held
    <2>2. \A x : x \in AllRows' <=>
                   \E p \in DOMAIN projects' : \E w \in DOMAIN projects'[p].wts :
                     x = Denotes(p, w)'
      BY DEF AllRows
    <2>3. ASSUME NEW x PROVE x \in AllRows' <=> x \in RowsIn(projects')
      <3>1. x \in RowsIn(projects') <=>
              \E p \in DOMAIN projects' : \E w \in DOMAIN projects'[p].wts :
                x = RowAt(projects', <<p, w>>)
        BY <1>1, RowsInAre
      <3> QED BY <2>1, <2>2, <3>1
    <2> QED BY <2>1, <2>3
  <1>4. Follow(projects, projects', active_worktree, active_worktree', sidebar_selection,
               sidebar_selection')
    <2>1. RowsIn(projects') \subseteq RowsIn(projects) /\ RowsIn(projects') # RowsIn(projects)
      BY <1>2, <1>3
    <2>2. ~Redecorated /\ ~TreeGrown BY <1>1, <2>1, RowsStay DEF Redecorated, TreeGrown
    <2> QED BY <1>0, <1>1, <2>1, <2>2, TreeStep, WorktreeRemovedFollow, ProjectRemovedFollow
  <1>5. /\ ActiveRow = RowAt(projects, active_worktree)
        /\ SelectedRow = RowAt(projects, sidebar_selection)
    <2>1. /\ active_worktree = <<active_worktree[1], active_worktree[2]>>
          /\ sidebar_selection = <<sidebar_selection[1], sidebar_selection[2]>>
      BY <1>0 DEF Pointers, PointerTypes
    <2> QED BY <1>2, <2>1 DEF ActiveRow, SelectedRow
  <1>6. /\ ActiveRow' = RowAt(projects', active_worktree')
        /\ SelectedRow' = RowAt(projects', sidebar_selection')
    <2>1. /\ active_worktree' = <<active_worktree'[1], active_worktree'[2]>>
          /\ sidebar_selection' = <<sidebar_selection'[1], sidebar_selection'[2]>>
      BY <1>0, PointersStep DEF Pointers, PointerTypes
    <2> QED BY <1>3, <2>1 DEF ActiveRow, SelectedRow
  <1> QED BY <1>3, <1>4, <1>5, <1>6 DEF Follow

\* However many rows go, the active worktree and the selection stay on the row they were
\* on, or leave it when it is gone: no removal makes a pointer slide to a neighbour.
THEOREM PointersStayOnTheirRows == Spec => PointersFollow
  <1> DEFINE Inv == PositionInv /\ FilesAreShown
  <1>1. Init => Inv BY PositionInit, FilesInit
  <1>2. Inv /\ [Next]_vars => Inv' BY PositionStep, FilesStep
  <1>3. Inv /\ [Next]_vars =>
          [projects' # projects /\ AllRows' \subseteq AllRows /\ AllRows' # AllRows =>
             /\ ActiveRow' = IF ActiveRow \in AllRows' THEN ActiveRow ELSE None
             /\ SelectedRow \in AllRows' => SelectedRow' = SelectedRow]_vars
    BY FollowStep
  <1> HIDE DEF Inv
  <1> QED BY <1>1, <1>2, <1>3, PTL DEF Spec, PointersFollow
=============================================================================
