---------------------------- MODULE LandingProofs ----------------------------
(***************************************************************************)
(* Proofs about Workspace: where the replies land.                          *)
(*                                                                         *)
(* The client's requests carry positions (slot and worktree index,         *)
(* effects.rs, reducer.rs), and a reply is applied to whatever is there by *)
(* then.  As long as no removal was outstanding together with a request or *)
(* a prompt it displaces (Clean), that is what the request was for:        *)
(* RepliesLand.  The invariant says what every request and prompt finds at *)
(* its position, that tabs are with the worktree their shells run in, that *)
(* every shell has a tab or a place to be put back into, and that nothing  *)
(* runs in what a removal on its way back has emptied.  NoStrays adds that *)
(* no worktree is listed twice.                                            *)
(***************************************************************************)
EXTENDS WorkspaceProofs

-----------------------------------------------------------------------------
(* Requests and prompts stand for what is at their positions                   *)

\* Position <<p, w>>, a worktree or (w = 0) a project, is the same in both trees.
Stays(ps, qs, p, w) ==
  /\ p \in DOMAIN qs
  /\ qs[p].slug = ps[p].slug /\ qs[p].repo = ps[p].repo /\ qs[p].sup = ps[p].sup
  /\ w # 0 => w \in DOMAIN qs[p].wts /\ qs[p].wts[w].path = ps[p].wts[w].path

Points(ps, p, w, asked) ==
  /\ p \in DOMAIN ps /\ (w # 0 => Held(ps, p, w))
  /\ RowAt(ps, <<p, w>>) = asked

\* The tree has what the request is for where the request says.
Stands(ps, r) ==
  /\ Points(ps, r.p, r.w, r.asked)
  /\ ps[r.p].slug = r.slug /\ ps[r.p].sup = r.sup
  /\ \A row \in r.rows : Held(ps, r.p, row[1]) /\ ps[r.p].wts[row[1]].path = row[2]
  /\ r.op \in {"import", "add"} => r.path[1] = ps[r.p].repo
  /\ r.op = "rmproj" => \A w \in DOMAIN ps[r.p].wts : <<w, ps[r.p].wts[w].path>> \in r.rows

\* What the commands make of a request.
Shaped(r) ==
  /\ r.w = 0 \/ \E row \in r.rows : row[1] = r.w
  /\ r.op \in {"spawn", "rmwt"} => r.w # 0 /\ r.rows = {<<r.w, r.path>>}
  /\ r.op \in {"import", "add", "rmproj"} => r.w = 0
  /\ r.op \in {"import", "add"} => r.rows = {}

Sound(ps, r) ==
  IF r.op = "open" THEN r.w = 0 /\ r.path[2] = 0 /\ r.rows = {}
  ELSE Shaped(r) /\ Stands(ps, r)

RequestsStand == \A r \in inflight : Sound(projects, r)

\* What a position denotes is what RowAt says.
LEMMA DenotesRow ==
  ASSUME NEW p, NEW w
  PROVE  Denotes(p, w) = RowAt(projects, <<p, w>>) /\ (Has(p, w) <=> Held(projects, p, w))
  BY DEF Denotes, RowAt, Has, Held

\* What stands where nothing changed still stands.
LEMMA PointsKept ==
  ASSUME NEW ps, NEW qs, NEW p, NEW w, NEW asked, Points(ps, p, w, asked), Stays(ps, qs, p, w)
  PROVE  Points(qs, p, w, asked)
  BY DEF Points, Stays, RowAt, Held

\* A request stands as long as its position and its rows are the same, and, if it removes
\* a project, no row is added to that.
LEMMA StandsKept ==
  ASSUME NEW ps, NEW qs, NEW r \in Requests, Stands(ps, r), Stays(ps, qs, r.p, r.w),
         \A row \in r.rows : Stays(ps, qs, r.p, row[1]),
         r.op = "rmproj" => DOMAIN qs[r.p].wts \subseteq DOMAIN ps[r.p].wts,
         \A p \in DOMAIN ps : \A w \in DOMAIN ps[p].wts : w # 0
  PROVE  Stands(qs, r)
  <1>1. Points(qs, r.p, r.w, r.asked) BY PointsKept DEF Stands
  <1>2. qs[r.p].slug = r.slug /\ qs[r.p].sup = r.sup BY DEF Stands, Stays
  <1>3. ASSUME NEW row \in r.rows
        PROVE  Held(qs, r.p, row[1]) /\ qs[r.p].wts[row[1]].path = row[2]
    <2>1. Held(ps, r.p, row[1]) /\ ps[r.p].wts[row[1]].path = row[2] BY DEF Stands
    <2>2. row[1] # 0 BY <2>1 DEF Held
    <2> QED BY <2>1, <2>2 DEF Stays, Held
  <1>4. r.op \in {"import", "add"} => r.path[1] = qs[r.p].repo BY DEF Stands, Stays
  <1>5. ASSUME r.op = "rmproj", NEW w \in DOMAIN qs[r.p].wts
        PROVE  <<w, qs[r.p].wts[w].path>> \in r.rows
    <2>1. w \in DOMAIN ps[r.p].wts /\ <<w, ps[r.p].wts[w].path>> \in r.rows
      BY <1>5 DEF Stands
    <2>2. w # 0 BY <2>1 DEF Stands, Points
    <2>3. Stays(ps, qs, r.p, w) BY <2>1
    <2> QED BY <2>1, <2>2, <2>3 DEF Stays
  <1> QED BY <1>1, <1>2, <1>3, <1>4, <1>5 DEF Stands

\* The positions of a tree, all positive.
LEMMA RowsPositive ==
  ASSUME NEW ps \in Seq(Project)
  PROVE  /\ \A p \in DOMAIN ps : \A w \in DOMAIN ps[p].wts : w # 0 /\ w \in Nat
         /\ \A p \in DOMAIN ps : p \in Nat /\ p # 0 /\ ps[p] \in Project
                                 /\ ps[p].wts \in Seq(Worktree)
  <1>1. ASSUME NEW p \in DOMAIN ps PROVE p \in Nat /\ p # 0 /\ ps[p] \in Project
    OBVIOUS
  <1>2. ASSUME NEW p \in DOMAIN ps PROVE ps[p].wts \in Seq(Worktree)
    BY <1>1 DEF Project
  <1>3. ASSUME NEW p \in DOMAIN ps, NEW w \in DOMAIN ps[p].wts PROVE w # 0 /\ w \in Nat
    <2> DEFINE s == ps[p].wts
    <2>1. s \in Seq(Worktree) /\ w \in DOMAIN s BY <1>2
    <2> HIDE DEF s
    <2> QED BY <2>1
  <1> QED BY <1>1, <1>2, <1>3

\* A step that adds a project or worktrees to one says which.
LEMMA StepKinds ==
  ASSUME Types, Tree, Next
  PROVE  \/ Redecorated
         \/ \E r \in inflight : ProjectValidated(r) \/ WorktreesImported(r) \/ WorktreeAdded(r)
         \/ \E r \in inflight : WorktreeRemoved(r) /\ Has(r.p, r.w)
         \/ \E r \in inflight : ProjectRemoved(r) /\ IndexOf(r.slug) # 0
  <1>1. projects' = projects => Redecorated BY TreeUnchanged
  <1>2. CASE UserStep BY <1>2, UserTree
  <1>3. CASE SupervisorStep
    <2>1. projects' = projects BY <1>3 DEF SupervisorStep, Handle, ShellExits, treeVars
    <2> QED BY <1>1, <2>1
  <1>4. ASSUME NEW r \in inflight, Applied(r)
        PROVE  \/ Redecorated
               \/ ProjectValidated(r) \/ WorktreesImported(r) \/ WorktreeAdded(r)
               \/ WorktreeRemoved(r) /\ Has(r.p, r.w)
               \/ ProjectRemoved(r) /\ IndexOf(r.slug) # 0
    <2>1. CASE OperationFailed(r) \/ PrFetchFailed(r) \/ \E hit : PrStatusesFetched(r, hit)
      <3>1. projects' = projects
        BY <2>1 DEF OperationFailed, PrFetchFailed, PrStatusesFetched, treeVars
      <3> QED BY <1>1, <3>1
    <2>2. CASE WorktreeRemoved(r) /\ ~Has(r.p, r.w)
      <3>1. projects' = projects BY <2>2 DEF WorktreeRemoved
      <3> QED BY <1>1, <3>1
    <2>3. CASE ProjectRemoved(r) /\ IndexOf(r.slug) = 0
      <3>1. projects' = projects BY <2>3 DEF ProjectRemoved
      <3> QED BY <1>1, <3>1
    <2> QED BY <1>4, <2>1, <2>2, <2>3, SpawnedTree DEF Applied
  <1>5. CASE \E s \in exited : SessionExited(s)
    <2>1. PICK s \in exited : SessionExited(s) BY <1>5
    <2>2. projects' = WithoutSession(projects, GlobalId(s)) BY <2>1 DEF SessionExited
    <2> QED BY <2>2, ExitedTree
  <1>6. CASE LinkStep BY <1>6, LostTree, ConnectedTree DEF LinkStep
  <1> QED BY <1>2, <1>3, <1>4, <1>5, <1>6 DEF Next

\* Rows are added to one project: the one the request is for.
LEMMA GrownAt ==
  ASSUME Types, Tree, NEW r \in inflight, WorktreesImported(r) \/ WorktreeAdded(r)
  PROVE  /\ TreeGrown /\ DOMAIN projects' = DOMAIN projects
         /\ \A p \in DOMAIN projects : p # r.p => projects'[p] = projects[p]
  <1>1. TreeGrown BY ImportedTree, AddedTree
  <1>2. CASE WorktreesImported(r)
    <2>1. \/ projects' = projects
          \/ \E order : projects' = [projects EXCEPT ![r.p].wts =
                                       @ \o [i \in DOMAIN order |-> NewWorktree(order[i])]]
      BY <1>2 DEF WorktreesImported
    <2> QED BY <1>1, <2>1
  <1>3. CASE WorktreeAdded(r)
    <2>1. \/ projects' = projects
          \/ projects' = [projects EXCEPT ![r.p].wts = Append(@, NewWorktree(r.path))]
      BY <1>3 DEF WorktreeAdded
    <2> QED BY <1>1, <2>1
  <1> QED BY <1>2, <1>3

\* In a tree of the same shape everything stays, in one that has grown what was there.
LEMMA ShapeStays ==
  ASSUME NEW ps \in Seq(Project), NEW qs, SameShape(ps, qs) \/ Grown(ps, qs),
         NEW p \in DOMAIN ps, NEW w, w # 0 => w \in DOMAIN ps[p].wts
  PROVE  Stays(ps, qs, p, w) /\ (SameShape(ps, qs) => DOMAIN qs[p].wts = DOMAIN ps[p].wts)
  BY DEF Stays, SameShape, Grown

\* So it does in a project that is the same.
LEMMA SameStays ==
  ASSUME NEW ps, NEW qs, NEW p \in DOMAIN ps, p \in DOMAIN qs, qs[p] = ps[p],
         NEW w, w # 0 => w \in DOMAIN ps[p].wts
  PROVE  Stays(ps, qs, p, w) /\ DOMAIN qs[p].wts = DOMAIN ps[p].wts
  BY DEF Stays

\* Before a row that is taken out the rows stay.
LEMMA ShortStays ==
  ASSUME NEW ps \in Seq(Project), NEW qs, NEW p \in DOMAIN ps, NEW w \in DOMAIN ps[p].wts,
         p \in DOMAIN qs, qs[p].slug = ps[p].slug, qs[p].repo = ps[p].repo,
         qs[p].sup = ps[p].sup, Shortened(ps[p].wts, w, qs[p].wts),
         NEW v \in Nat, v < w
  PROVE  Stays(ps, qs, p, v) /\ (v # 0 => qs[p].wts[v] = ps[p].wts[v])
  <1>1. ps[p].wts \in Seq(Worktree) /\ w \in Nat BY RowsPositive
  <1> DEFINE s == ps[p].wts
             t == qs[p].wts
  <1>2. v # 0 => v \in DOMAIN t /\ t[v] = s[v]
    <2>1. s \in Seq(Worktree) /\ w \in DOMAIN s /\ Shortened(s, w, t) BY <1>1
    <2> HIDE DEF s, t
    <2> QED BY <2>1 DEF Shortened
  <1> QED BY <1>2 DEF Stays

\* The positions of a sound request are in the tree.
LEMMA SoundIs ==
  ASSUME NEW ps \in Seq(Project), NEW q \in Requests, Sound(ps, q), q.op # "open"
  PROVE  /\ Stands(ps, q) /\ Shaped(q)
         /\ q.p \in DOMAIN ps /\ q.p \in Nat /\ ps[q.p].slug = q.slug /\ ps[q.p].sup = q.sup
         /\ q.w \in Nat /\ (q.w # 0 => q.w \in DOMAIN ps[q.p].wts)
         /\ \A row \in q.rows : /\ row[1] \in Nat \ {0} /\ row[1] \in DOMAIN ps[q.p].wts
                                /\ ps[q.p].wts[row[1]].path = row[2]
  <1>1. Stands(ps, q) /\ Shaped(q) BY DEF Sound
  <1>2. q.p \in DOMAIN ps /\ ps[q.p].slug = q.slug /\ ps[q.p].sup = q.sup
    BY <1>1 DEF Stands, Points
  <1>3. q.w \in Nat /\ q.p \in Nat BY DEF Requests
  <1>4. q.w # 0 => q.w \in DOMAIN ps[q.p].wts BY <1>1 DEF Stands, Points, Held
  <1>5. \A row \in q.rows : row[1] \in DOMAIN ps[q.p].wts /\ ps[q.p].wts[row[1]].path = row[2]
    BY <1>1 DEF Stands, Held
  <1>6. \A row \in q.rows : row[1] \in Nat \ {0} BY <1>2, <1>5, RowsPositive
  <1> QED BY <1>1, <1>2, <1>3, <1>4, <1>5, <1>6

\* Nothing that is outstanding crosses a removal whose reply is applied.
LEMMA NotDisplaced ==
  ASSUME Clean, NEW r \in inflight, NEW q \in inflight, q # r
  PROVE  ~Displaces(r, q) /\ ~(r.op = "add" /\ q.op = "import" /\ q.slug = r.slug)
  <1>1. ~Crossing BY DEF Clean
  <1>2. q \in inflight \ {r} OBVIOUS
  <1> QED BY <1>1, <1>2 DEF Crossing

\* Before the row that a removal takes, or in another project...
LEMMA BeforeTheRow ==
  ASSUME Types, Tree, Clean, RequestsStand, NEW r \in inflight, r.op = "rmwt",
         NEW q \in inflight, q # r, q.op # "open", q.p = r.p
  PROVE  /\ q.op # "rmproj" /\ q.w < r.w /\ \A row \in q.rows : row[1] < r.w
  <1>1. r \in Requests /\ q \in Requests /\ projects \in Seq(Project)
    BY DEF Types, RequestTypes, Tree
  <1>2. Sound(projects, r) /\ Sound(projects, q) BY DEF RequestsStand
  <1>3. q.slug = r.slug /\ Shaped(q) /\ Shaped(r) BY <1>1, <1>2, SoundIs
  <1>4. q.op # "rmproj"
    <2>1. ASSUME q.op = "rmproj" PROVE Displaces(q, r) BY <1>3, <2>1 DEF Displaces
    <2> QED BY <2>1, NotDisplaced
  <1>5. r.w \in Nat \ {0} /\ q.w \in Nat /\ \A row \in q.rows : row[1] \in Nat
    <2>1. r.w # 0 BY <1>3 DEF Shaped
    <2> QED BY <1>1, <1>2, <2>1, SoundIs
  <1>6. \A row \in q.rows : row[1] < r.w
    <2>1. CASE q.op \in {"import", "add"} BY <1>3, <2>1 DEF Shaped
    <2>2. CASE q.op \in {"spawn", "fetch", "rmwt"}
      <3>1. \A row \in q.rows : ~(row[1] >= r.w) BY <1>3, <2>2, NotDisplaced DEF Displaces
      <3> QED BY <1>5, <3>1
    <2>3. q.op \in {"import", "add", "spawn", "fetch", "rmwt"}
      <3>1. q.op \in GitOps \cup {"spawn", "fetch"} BY <1>1 DEF Requests
      <3> QED BY <1>4, <3>1 DEF GitOps
    <2> QED BY <2>1, <2>2, <2>3
  <1>7. q.w < r.w
    <2>1. q.w = 0 \/ \E row \in q.rows : row[1] = q.w BY <1>3 DEF Shaped
    <2> QED BY <1>5, <1>6, <2>1
  <1> QED BY <1>4, <1>6, <1>7

\* ... and before a project that is removed.
LEMMA BeforeTheProject ==
  ASSUME Types, Tree, Clean, RequestsStand, NEW r \in inflight, r.op = "rmproj",
         NEW q \in inflight, q # r, q.op # "open", IndexOf(r.slug) # 0
  PROVE  q.p < IndexOf(r.slug) /\ q.slug # r.slug
  <1>1. q \in Requests /\ projects \in Seq(Project) BY DEF Types, RequestTypes, Tree
  <1>2. Sound(projects, q) BY DEF RequestsStand
  <1>3. q.p \in Nat /\ projects[q.p].slug = q.slug BY <1>1, <1>2, SoundIs
  <1>4. IndexOf(r.slug) \in Nat /\ projects[IndexOf(r.slug)].slug = r.slug
    <2>1. IndexOf(r.slug) \in DOMAIN projects BY <1>1, IndexIs
    <2> QED BY <1>1, <2>1, IndexIs
  <1>5. ~(q.p > IndexOf(r.slug)) /\ q.slug # r.slug BY NotDisplaced DEF Displaces
  <1>6. q.p # IndexOf(r.slug) BY <1>3, <1>4, <1>5
  <1> QED BY <1>3, <1>4, <1>5, <1>6

\* What a step leaves outstanding stands in the tree it leaves.
LEMMA SoundKept ==
  ASSUME Types, Tree, Clean, RequestsStand, Next, NEW q \in inflight, q \in inflight'
  PROVE  Sound(projects', q)
  <1>1. CASE q.op = "open" BY <1>1 DEF RequestsStand, Sound
  <1>2. CASE q.op # "open"
    <2> DEFINE ps == projects
               qs == projects'
    <2>1. q \in Requests /\ ps \in Seq(Project) BY DEF Types, RequestTypes, Tree
    <2>2. /\ Sound(ps, q) /\ Shaped(q) /\ Stands(ps, q)
          /\ q.p \in DOMAIN ps /\ q.p \in Nat /\ ps[q.p].slug = q.slug /\ q.w \in Nat
          /\ (q.w # 0 => q.w \in DOMAIN ps[q.p].wts)
          /\ \A row \in q.rows : row[1] \in Nat \ {0} /\ row[1] \in DOMAIN ps[q.p].wts
      BY <1>2, <2>1, SoundIs DEF RequestsStand
    <2>3. \A p \in DOMAIN ps : \A w \in DOMAIN ps[p].wts : w # 0 BY <2>1, RowsPositive
    <2>4. SUFFICES /\ Stays(ps, qs, q.p, q.w)
                   /\ \A row \in q.rows : Stays(ps, qs, q.p, row[1])
                   /\ q.op = "rmproj" => DOMAIN qs[q.p].wts \subseteq DOMAIN ps[q.p].wts
      <3> HIDE DEF ps, qs
      <3>1. Stands(qs, q) BY <2>1, <2>2, <2>3, <2>4, StandsKept
      <3> QED BY <1>2, <2>2, <3>1 DEF Sound, qs
    <2>5. CASE Redecorated
      <3>1. SameShape(ps, qs) BY <2>5 DEF Redecorated
      <3> HIDE DEF ps, qs
      <3> QED BY <2>1, <2>2, <3>1, ShapeStays
    <2>6. ASSUME q.p \in DOMAIN qs, qs[q.p] = ps[q.p]
          PROVE  /\ Stays(ps, qs, q.p, q.w)
                 /\ \A row \in q.rows : Stays(ps, qs, q.p, row[1])
                 /\ DOMAIN qs[q.p].wts = DOMAIN ps[q.p].wts
      <3> HIDE DEF ps, qs
      <3> QED BY <2>2, <2>6, SameStays
    <2>7. ASSUME NEW r \in inflight, ProjectValidated(r)
          PROVE  q.p \in DOMAIN qs /\ qs[q.p] = ps[q.p]
      BY <2>2, <2>7, ValidatedTree DEF TreeGrown, Grown
    <2>8. ASSUME NEW r \in inflight, WorktreesImported(r) \/ WorktreeAdded(r)
          PROVE  /\ Stays(ps, qs, q.p, q.w)
                 /\ \A row \in q.rows : Stays(ps, qs, q.p, row[1])
                 /\ q.op = "rmproj" => DOMAIN qs[q.p].wts = DOMAIN ps[q.p].wts
      <3>1. CASE q.p # r.p
        <4>1. q.p \in DOMAIN qs /\ qs[q.p] = ps[q.p] BY <2>2, <2>8, <3>1, GrownAt
        <4> QED BY <2>6, <4>1
      <3>2. CASE q.p = r.p
        <4>1. r.op \in {"import", "add"} BY <2>8 DEF WorktreesImported, WorktreeAdded
        <4>2. r \in Requests /\ Sound(ps, r) BY DEF Types, RequestTypes, RequestsStand
        <4>3. r.slug = q.slug BY <2>1, <2>2, <3>2, <4>1, <4>2, SoundIs
        <4>4. q.op # "rmproj"
          <5>1. ASSUME q.op = "rmproj" PROVE Displaces(q, r) /\ q # r
            BY <4>1, <4>3, <5>1 DEF Displaces
          <5> QED BY <5>1, NotDisplaced
        <4>5. Grown(ps, qs) BY <2>8, GrownAt DEF TreeGrown
        <4> HIDE DEF ps, qs
        <4> QED BY <2>1, <2>2, <4>4, <4>5, ShapeStays
      <3> QED BY <3>1, <3>2
    <2>9. ASSUME NEW r \in inflight, WorktreeRemoved(r), Has(r.p, r.w)
          PROVE  /\ Stays(ps, qs, q.p, q.w)
                 /\ \A row \in q.rows : Stays(ps, qs, q.p, row[1])
                 /\ q.op = "rmproj" => DOMAIN qs[q.p].wts = DOMAIN ps[q.p].wts
      <3>1. q # r /\ r.op = "rmwt"
        <4>1. inflight' = (inflight \ {r}) \cup {x \in {} : x.sup \in connected}
              /\ r.op = "rmwt"
          BY <2>9 DEF WorktreeRemoved, Answer
        <4> QED BY <4>1
      <3>2. CASE q.p # r.p
        <4>1. q.p \in DOMAIN qs /\ qs[q.p] = ps[q.p]
          BY <2>2, <2>9, <3>2, WorktreeRemovedTree
        <4> QED BY <2>6, <4>1
      <3>3. CASE q.p = r.p
        <4>1. q.op # "rmproj" /\ q.w < r.w /\ \A row \in q.rows : row[1] < r.w
          BY <1>2, <3>1, <3>3, BeforeTheRow
        <4>2. /\ r.w \in DOMAIN ps[q.p].wts /\ q.p \in DOMAIN qs
              /\ qs[q.p].slug = ps[q.p].slug /\ qs[q.p].repo = ps[q.p].repo
              /\ qs[q.p].sup = ps[q.p].sup /\ Shortened(ps[q.p].wts, r.w, qs[q.p].wts)
          BY <2>2, <2>9, <3>3, WorktreeRemovedTree DEF Has
        <4> HIDE DEF ps, qs
        <4> QED BY <2>1, <2>2, <4>1, <4>2, ShortStays
      <3> QED BY <3>2, <3>3
    <2>10. ASSUME NEW r \in inflight, ProjectRemoved(r), IndexOf(r.slug) # 0
           PROVE  q.p \in DOMAIN qs /\ qs[q.p] = ps[q.p]
      <3>1. q # r /\ r.op = "rmproj"
        <4>1. inflight' = (inflight \ {r}) \cup {x \in {} : x.sup \in connected}
              /\ r.op = "rmproj"
          BY <2>10 DEF ProjectRemoved, Answer
        <4> QED BY <4>1
      <3>2. q.p < IndexOf(r.slug) BY <1>2, <2>10, <3>1, BeforeTheProject
      <3>3. /\ DOMAIN qs = 1 .. Len(ps) - 1 /\ IndexOf(r.slug) \in DOMAIN ps
            /\ \A p \in DOMAIN qs : qs[p] = ps[IF p < IndexOf(r.slug) THEN p ELSE p + 1]
        BY <2>10, ProjectRemovedTree
      <3>4. q.p \in DOMAIN qs
        <4> DEFINE i == IndexOf(r.slug)
        <4>1. i \in DOMAIN ps /\ q.p < i BY <3>2, <3>3
        <4> HIDE DEF i, ps, qs
        <4> QED BY <2>1, <2>2, <3>3, <4>1
      <3> QED BY <3>2, <3>3, <3>4
    <2> HIDE DEF ps, qs
    <2> QED BY <2>5, <2>6, <2>7, <2>8, <2>9, <2>10, StepKinds
  <1> QED BY <1>1, <1>2

-----------------------------------------------------------------------------
(* What is sent stands                                                         *)

Fresh(ps, q) == q.done = "no" /\ q.found = {} /\ Sound(ps, q)

\* A prompt stands, and with a worktree's position if it is about one.
PromptStands ==
  popup.k # "none" =>
    /\ Points(projects, popup.p, popup.w, popup.asked)
    /\ popup.k \in {"worktree", "project"} => popup.w = 0

\* What a request is sound by.
LEMMA FreshSame ==
  ASSUME NEW ps, NEW r, NEW q, Fresh(ps, r),
         q.op = r.op, q.sup = r.sup, q.p = r.p, q.w = r.w, q.slug = r.slug, q.path = r.path,
         q.rows = r.rows, q.asked = r.asked, q.done = r.done, q.found = r.found
  PROVE  Fresh(ps, q)
  <1>1. Shaped(q) <=> Shaped(r) BY DEF Shaped
  <1>2. Stands(ps, q) <=> Stands(ps, r) BY DEF Stands
  <1>3. Sound(ps, q) <=> Sound(ps, r) BY <1>1, <1>2 DEF Sound
  <1> QED BY <1>3 DEF Fresh

\* A request for a position that exists, with rows that do, is sound.
LEMMA FreshRequest ==
  ASSUME projects \in Seq(Project), issued \in Nat,
         NEW p \in DOMAIN projects, NEW w \in Nat, w # 0 => Has(p, w),
         NEW op \in Operations \ {"open"}, NEW path \in Paths, NEW rows \in PlaceSets,
         \A row \in rows : Has(p, row[1]) /\ projects[p].wts[row[1]].path = row[2],
         w = 0 \/ \E row \in rows : row[1] = w,
         op \in {"spawn", "rmwt"} => w # 0 /\ rows = {<<w, path>>},
         op \in {"import", "add", "rmproj"} => w = 0,
         op \in {"import", "add"} => rows = {} /\ path[1] = projects[p].repo,
         op = "rmproj" => \A v \in DOMAIN projects[p].wts : <<v, projects[p].wts[v].path>> \in rows,
         NEW r, r = Request(op, p, w, path, rows)
  PROVE  Fresh(projects, r) /\ r \in Requests /\ r.op = op
  <1>1. /\ r \in Requests
        /\ r.op = op /\ r.sup = projects[p].sup
        /\ r.p = p /\ r.w = w /\ r.slug = projects[p].slug /\ r.path = path /\ r.rows = rows
        /\ r.done = "no" /\ r.asked = Denotes(p, w) /\ r.found = {}
    BY RequestIs
  <1>2. Shaped(r) BY <1>1 DEF Shaped
  <1>3. Points(projects, r.p, r.w, r.asked) BY <1>1, DenotesRow DEF Points
  <1>4. \A row \in r.rows : Held(projects, r.p, row[1]) /\ projects[r.p].wts[row[1]].path = row[2]
    BY <1>1 DEF Held, Has
  <1>5. Stands(projects, r) BY <1>1, <1>3, <1>4 DEF Stands
  <1> QED BY <1>1, <1>2, <1>5 DEF Fresh, Sound

\* The rows of a project are there, and are all of them.
LEMMA RowsHeld ==
  ASSUME projects \in Seq(Project), NEW p \in DOMAIN projects
  PROVE  /\ \A row \in Rows(p) : Has(p, row[1]) /\ projects[p].wts[row[1]].path = row[2]
         /\ \A v \in DOMAIN projects[p].wts : <<v, projects[p].wts[v].path>> \in Rows(p)
  BY DEF Rows, Has

Sends == inflight \subseteq inflight' /\ \A q \in inflight' : q \in inflight \/ Fresh(projects, q)

\* What is sent is all that is new.
LEMMA SentFresh ==
  ASSUME NEW reqs, NEW pending, Send(reqs, pending), \A q \in reqs : Fresh(projects, q)
  PROVE  Sends
  <1>1. inflight' = inflight \cup {q \in reqs : q.sup \in connected} BY DEF Send
  <1> QED BY <1>1 DEF Sends

\* So is one request.
LEMMA OneFresh ==
  ASSUME NEW r, NEW pending, Send({r}, pending), Fresh(projects, r)
  PROVE  Sends
  <1>1. \A q \in {r} : Fresh(projects, q) OBVIOUS
  <1> QED BY <1>1, SentFresh

\* The row of a worktree, asked about or spawned in.
LEMMA RowFresh ==
  ASSUME projects \in Seq(Project), issued \in Nat, NEW p, NEW w, Has(p, w),
         NEW op \in {"spawn", "fetch"},
         NEW r, r = Request(op, p, w, projects[p].wts[w].path, {<<w, projects[p].wts[w].path>>})
  PROVE  Fresh(projects, r)
  <1> DEFINE path == projects[p].wts[w].path
             rows == {<<w, path>>}
  <1>1. p \in DOMAIN projects /\ w \in DOMAIN projects[p].wts BY DEF Has
  <1>2. w \in Nat \ {0} /\ path \in Paths /\ rows \in PlaceSets BY <1>1, RowsAre
  <1>3. \A row \in rows : row[1] = w /\ row[2] = path OBVIOUS
  <1>4. \A row \in rows : Has(p, row[1]) /\ projects[p].wts[row[1]].path = row[2] BY <1>3
  <1>5. \E row \in rows : row[1] = w OBVIOUS
  <1>6. op \in Operations \ {"open"} BY DEF Operations
  <1>7. rows = {<<w, path>>} /\ r = Request(op, p, w, path, rows) OBVIOUS
  <1> HIDE DEF path, rows
  <1> QED BY <1>1, <1>2, <1>4, <1>5, <1>6, <1>7, FreshRequest

\* Activating a worktree asks about its row.
LEMMA ActivateFresh ==
  ASSUME Types, NEW p, NEW w, ActivateWorktree(p, w)
  PROVE  Sends
  <1>1. projects \in Seq(Project) /\ issued \in Nat BY DEF Types, TreeTypes, RequestTypes
  <1>2. ASSUME NEW q \in RefreshFor(p, w) PROVE Fresh(projects, q)
    <2>1. Has(p, w) /\ q = Request("fetch", p, w, projects[p].wts[w].path,
                                   {<<w, projects[p].wts[w].path>>})
      BY DEF RefreshFor
    <2> QED BY <1>1, <2>1, RowFresh
  <1>3. Send(RefreshFor(p, w), pending_op) BY DEF ActivateWorktree
  <1> QED BY <1>2, <1>3, SentFresh

\* A spawn is for a row that is there.
LEMMA SpawnFresh ==
  ASSUME Types, NEW p, NEW w, Has(p, w), Send({SpawnAt(p, w)}, pending_op)
  PROVE  Sends
  <1>1. projects \in Seq(Project) /\ issued \in Nat BY DEF Types, TreeTypes, RequestTypes
  <1> DEFINE r == SpawnAt(p, w)
  <1>2. r = Request("spawn", p, w, projects[p].wts[w].path, {<<w, projects[p].wts[w].path>>})
    BY DEF SpawnAt
  <1>3. Send({r}, pending_op) OBVIOUS
  <1> HIDE DEF r
  <1>4. Fresh(projects, r) BY <1>1, <1>2, RowFresh
  <1> QED BY <1>3, <1>4, OneFresh

\* A worktree is added to, or imported by, a project that is there.
LEMMA ProjectFresh ==
  ASSUME projects \in Seq(Project), issued \in Nat, NEW p \in DOMAIN projects,
         NEW op \in {"add", "import"}, NEW b \in {0} \cup Branches,
         NEW r, r = Request(op, p, 0, <<projects[p].repo, b>>, {})
  PROVE  Fresh(projects, r)
  <1> DEFINE path == <<projects[p].repo, b>>
             rows == {}
  <1>1. path \in Paths /\ path[1] = projects[p].repo /\ rows \in PlaceSets
    <2>1. projects[p].repo \in Repos BY ProjectHas
    <2> QED BY <2>1 DEF Paths, PlaceSets
  <1>2. op \in Operations \ {"open"} BY DEF Operations, GitOps
  <1>3. rows = {} /\ r = Request(op, p, 0, path, rows) OBVIOUS
  <1> HIDE DEF path, rows
  <1> QED BY <1>1, <1>2, <1>3, FreshRequest

\* So with a new branch.
LEMMA AddFresh ==
  ASSUME Types, NEW p \in DOMAIN projects, NEW b \in Branches, RequestAdd(p, b)
  PROVE  Sends
  <1>1. projects \in Seq(Project) /\ issued \in Nat BY DEF Types, TreeTypes, RequestTypes
  <1> DEFINE r == Request("add", p, 0, <<projects[p].repo, b>>, {})
  <1>2. r = Request("add", p, 0, <<projects[p].repo, b>>, {}) OBVIOUS
  <1>3. Send({r}, TRUE) BY DEF RequestAdd
  <1> HIDE DEF r
  <1>4. Fresh(projects, r) BY <1>1, <1>2, ProjectFresh
  <1> QED BY <1>3, <1>4, OneFresh

\* All the rows of a project, asked about or removed with it.
LEMMA RowsFresh ==
  ASSUME projects \in Seq(Project), issued \in Nat, NEW p \in DOMAIN projects,
         NEW op \in {"fetch", "rmproj"},
         NEW r, r = Request(op, p, 0, <<projects[p].repo, 0>>, Rows(p))
  PROVE  Fresh(projects, r) /\ r \in Requests
  <1> DEFINE path == <<projects[p].repo, 0>>
             rows == Rows(p)
  <1>1. path \in Paths /\ rows \in PlaceSets BY ProjectHas, RowsAre
  <1>2. op \in Operations \ {"open"} BY DEF Operations, GitOps
  <1>3. /\ \A row \in rows : Has(p, row[1]) /\ projects[p].wts[row[1]].path = row[2]
        /\ \A v \in DOMAIN projects[p].wts : <<v, projects[p].wts[v].path>> \in rows
    BY RowsHeld
  <1>4. r = Request(op, p, 0, path, rows) OBVIOUS
  <1> HIDE DEF path, rows
  <1> QED BY <1>1, <1>2, <1>3, <1>4, FreshRequest

\* A project is removed with the rows it has.
LEMMA ProjectRemoveFresh ==
  ASSUME Types, NEW p, NEW delete, RequestProjectRemove(p, delete)
  PROVE  Sends
  <1>1. projects \in Seq(Project) /\ issued \in Nat BY DEF Types, TreeTypes, RequestTypes
  <1>2. CASE inflight' = inflight BY <1>2 DEF Sends
  <1>3. CASE inflight' # inflight
    <2> DEFINE r == Request("rmproj", p, 0, <<projects[p].repo, 0>>, Rows(p))
               q == [r EXCEPT !.opt = delete]
    <2>1. p \in DOMAIN projects /\ Send({q}, TRUE) BY <1>3 DEF RequestProjectRemove, reqVars
    <2>2. r = Request("rmproj", p, 0, <<projects[p].repo, 0>>, Rows(p)) OBVIOUS
    <2>3. q = [r EXCEPT !.opt = delete] OBVIOUS
    <2> HIDE DEF r, q
    <2>4. Fresh(projects, r) /\ r \in Requests BY <1>1, <2>1, <2>2, RowsFresh
    <2>5. Fresh(projects, q)
      <3>1. /\ q.op = r.op /\ q.sup = r.sup /\ q.p = r.p /\ q.w = r.w /\ q.slug = r.slug
            /\ q.path = r.path /\ q.rows = r.rows /\ q.asked = r.asked /\ q.done = r.done
            /\ q.found = r.found
        BY <2>3, <2>4 DEF Requests
      <3> QED BY <2>4, <3>1, FreshSame
    <2> QED BY <2>1, <2>5, OneFresh
  <1> QED BY <1>2, <1>3

\* The poll asks about all rows of each project.
LEMMA PollFresh ==
  ASSUME Types, PeriodicPrCheck
  PROVE  Sends
  <1>1. projects \in Seq(Project) /\ issued \in Nat BY DEF Types, TreeTypes, RequestTypes
  <1> DEFINE due == {p \in DOMAIN projects : projects[p].gh}
             Nth(p) == Cardinality({q \in due : q <= p})
             Ask(p) == [Request("fetch", p, 0, <<projects[p].repo, 0>>, Rows(p))
                          EXCEPT !.n = issued + Nth(p)]
             reqs == {Ask(p) : p \in due}
  <1>2. Send(reqs, pending_op) BY DEF PeriodicPrCheck
  <1>3. ASSUME NEW p \in due PROVE Fresh(projects, Ask(p))
    <2> DEFINE r == Request("fetch", p, 0, <<projects[p].repo, 0>>, Rows(p))
               n == issued + Nth(p)
               q == Ask(p)
    <2>1. p \in DOMAIN projects OBVIOUS
    <2>2. r = Request("fetch", p, 0, <<projects[p].repo, 0>>, Rows(p)) OBVIOUS
    <2>3. q = [r EXCEPT !.n = n] OBVIOUS
    <2> HIDE DEF r, n, q
    <2>4. Fresh(projects, r) /\ r \in Requests BY <1>1, <2>1, <2>2, RowsFresh
    <2>5. /\ q.op = r.op /\ q.sup = r.sup /\ q.p = r.p /\ q.w = r.w /\ q.slug = r.slug
          /\ q.path = r.path /\ q.rows = r.rows /\ q.asked = r.asked /\ q.done = r.done
          /\ q.found = r.found
      BY <2>3, <2>4 DEF Requests
    <2>6. Fresh(projects, q) BY <2>4, <2>5, FreshSame
    <2> QED BY <2>6 DEF q
  <1>4. \A q \in reqs : Fresh(projects, q)
    <2> HIDE DEF due, Ask
    <2> QED BY <1>3
  <1> HIDE DEF reqs
  <1> QED BY <1>2, <1>4, SentFresh

\* A worktree is removed from where its prompt stands.
LEMMA ConfirmFresh ==
  ASSUME Types, PromptStands, ConfirmRemoveWorktree
  PROVE  Sends
  <1>1. /\ projects \in Seq(Project) /\ issued \in Nat /\ popup.k = "confirm" /\ PopupTypes
    BY DEF Types, TreeTypes, RequestTypes, ConfirmRemoveWorktree
  <1> DEFINE p == popup.p
             w == popup.w
             path == popup.asked[2]
             rows == {<<w, path>>}
             r == Request("rmwt", p, w, path, rows)
             q == [r EXCEPT !.asked = popup.asked, !.slug = popup.asked[1]]
  <1>2. w \in Nat \ {0} /\ Points(projects, p, w, popup.asked)
    BY <1>1, ConfirmedIs DEF PromptStands
  <1>3. /\ Has(p, w) /\ p \in DOMAIN projects /\ w \in DOMAIN projects[p].wts
        /\ popup.asked = <<projects[p].slug, projects[p].wts[w].path>>
    BY <1>2 DEF Points, RowAt, Held, Has
  <1>4. path = projects[p].wts[w].path /\ popup.asked[1] = projects[p].slug BY <1>3
  <1>5. Send({q}, TRUE) BY <1>3 DEF ConfirmRemoveWorktree
  <1>6. Fresh(projects, r) /\ r \in Requests /\ r.slug = projects[p].slug
        /\ r.asked = Denotes(p, w)
    <2>1. path \in Paths /\ rows \in PlaceSets BY <1>1, <1>3, <1>4, RowsAre
    <2>2. \A row \in rows : row[1] = w /\ row[2] = path OBVIOUS
    <2>3. \A row \in rows : Has(p, row[1]) /\ projects[p].wts[row[1]].path = row[2]
      BY <1>3, <1>4, <2>2
    <2>4. \E row \in rows : row[1] = w OBVIOUS
    <2>5. "rmwt" \in Operations \ {"open"} BY DEF Operations, GitOps
    <2>6. rows = {<<w, path>>} /\ r = Request("rmwt", p, w, path, rows) OBVIOUS
    <2> HIDE DEF p, w, path, rows, r
    <2>7. Fresh(projects, r) /\ r \in Requests
      BY <1>1, <1>2, <1>3, <2>1, <2>3, <2>4, <2>5, <2>6, FreshRequest
    <2>8. r.slug = projects[p].slug /\ r.asked = Denotes(p, w) BY <2>6 DEF Request
    <2> QED BY <2>7, <2>8
  <1>7. q = [r EXCEPT !.asked = r.asked, !.slug = r.slug]
    <2>1. Denotes(p, w) = popup.asked
      <3> HIDE DEF p, w
      <3> QED BY <1>2, DenotesRow DEF Points
    <2>2. r.asked = popup.asked /\ r.slug = popup.asked[1]
      <3> HIDE DEF r, p, w, path
      <3> QED BY <1>4, <1>6, <2>1
    <2> HIDE DEF r
    <2> QED BY <2>2
  <1> HIDE DEF r, q
  <1>8. q = r BY <1>6, <1>7 DEF Requests
  <1> QED BY <1>5, <1>6, <1>8, OneFresh

\* A repository is opened at no position.
LEMMA OpenFresh ==
  ASSUME NEW repo, NEW import, OpenProject(repo, import)
  PROVE  Sends
  <1> DEFINE r == [n |-> issued + 1, op |-> "open", sup |-> Host[repo], p |-> 0, w |-> 0,
                   slug |-> 0, path |-> <<repo, 0>>, rows |-> {}, opt |-> import,
                   done |-> "no", found |-> {}, asked |-> None]
  <1>1. Send({r}, TRUE) BY DEF OpenProject
  <1>2. Fresh(projects, r) BY DEF Fresh, Sound
  <1> HIDE DEF r
  <1> QED BY <1>1, <1>2, OneFresh

\* All that the user sends stands.
LEMMA UserFresh ==
  ASSUME Types, ActiveIn, PromptStands, UserStep
  PROVE  Sends
  <1>0. projects \in Seq(Project) /\ issued \in Nat BY DEF Types, TreeTypes, RequestTypes
  <1>1. CASE inflight' = inflight BY <1>1 DEF Sends
  <1>2. ASSUME NEW p, NEW w, Has(p, w), Send({SpawnAt(p, w)}, pending_op) PROVE Sends
    BY <1>2, SpawnFresh
  <1>3. CASE ImportWorktrees
    <2> DEFINE x == Request("import", SelectedProject, 0,
                            <<projects[SelectedProject].repo, 0>>, {})
    <2>1. SelectedProject \in DOMAIN projects BY <1>3, SelectedIs DEF ImportWorktrees
    <2>2. Send({x}, TRUE) BY <1>3 DEF ImportWorktrees
    <2>3. x = Request("import", SelectedProject, 0, <<projects[SelectedProject].repo, 0>>, {})
      OBVIOUS
    <2> HIDE DEF x
    <2>4. Fresh(projects, x) BY <1>0, <2>1, <2>3, ProjectFresh
    <2> QED BY <2>2, <2>4, OneFresh
  <1>4. \/ inflight' = inflight
        \/ \E p, w : ActivateWorktree(p, w)
        \/ \E p, w : Has(p, w) /\ Send({SpawnAt(p, w)}, pending_op)
        \/ \E p \in DOMAIN projects, b \in Branches : RequestAdd(p, b)
        \/ \E p, delete : RequestProjectRemove(p, delete)
        \/ ImportWorktrees \/ ConfirmRemoveWorktree
        \/ \E repo, import : OpenProject(repo, import)
        \/ PeriodicPrCheck
    <2>1. \A b : AddWorktree(b) => SelectedProject \in DOMAIN projects
      BY SelectedIs DEF AddWorktree
    <2> QED BY <2>1 DEF UserStep, MoveSelection, ClickRow, ActivateSelection, SwitchTab,
              OpenNewTab, CloseTab, OpenLauncher, Launch, CancelPrompt, AddWorktree,
              SubmitBranch, AskBranch, AskRemoveWorktree, AskRemoveProject, RemoveProject,
              ConfirmRemoveProject, reqVars
  <1> QED BY <1>1, <1>2, <1>3, <1>4, ActivateFresh, AddFresh, ProjectRemoveFresh, PollFresh,
          ConfirmFresh, OpenFresh

-----------------------------------------------------------------------------
(* They keep standing                                                          *)

\* Worktrees found by an import are of its repository.
FoundOwn == \A r \in inflight : \A x \in r.found : r.op = "import" /\ x[1] = r.path[1]
RowsOwn ==
  \A p \in DOMAIN projects : \A w \in DOMAIN projects[p].wts :
    projects[p].wts[w].path[1] = projects[p].repo

\* What a request is sound by, its answer left aside.
LEMMA SoundSame ==
  ASSUME NEW ps, NEW r, NEW q,
         q.op = r.op, q.sup = r.sup, q.p = r.p, q.w = r.w, q.slug = r.slug, q.path = r.path,
         q.rows = r.rows, q.asked = r.asked
  PROVE  Sound(ps, q) <=> Sound(ps, r)
  <1>1. Shaped(q) <=> Shaped(r) BY DEF Shaped
  <1>2. Stands(ps, q) <=> Stands(ps, r) BY DEF Stands
  <1> QED BY <1>1, <1>2 DEF Sound

\* Tabs are not what requests are about.
LEMMA SoundShape ==
  ASSUME NEW ps \in Seq(Project), NEW qs, SameShape(ps, qs), NEW q \in Requests, Sound(ps, q)
  PROVE  Sound(qs, q)
  <1>1. CASE q.op = "open" BY <1>1 DEF Sound
  <1>2. CASE q.op # "open"
    <2>1. /\ Stands(ps, q) /\ q.p \in DOMAIN ps /\ (q.w # 0 => q.w \in DOMAIN ps[q.p].wts)
          /\ \A row \in q.rows : row[1] \in DOMAIN ps[q.p].wts
      BY <1>2, SoundIs
    <2>2. Stays(ps, qs, q.p, q.w) BY <2>1, ShapeStays
    <2>3. \A row \in q.rows : Stays(ps, qs, q.p, row[1]) BY <2>1, ShapeStays
    <2>4. DOMAIN qs[q.p].wts = DOMAIN ps[q.p].wts BY <2>1 DEF SameShape
    <2>5. \A p \in DOMAIN ps : \A w \in DOMAIN ps[p].wts : w # 0 BY RowsPositive
    <2>6. Stands(qs, q) BY <2>1, <2>2, <2>3, <2>4, <2>5, StandsKept
    <2> QED BY <1>2, <2>6 DEF Sound
  <1> QED BY <1>1, <1>2

\* The import that follows a project's validation is for the new project.
LEMMA ValidatedFresh ==
  ASSUME Types, Tree, RequestsStand, FoundOwn, NEW r \in inflight, ProjectValidated(r)
  PROVE  \A q \in inflight' : q \in inflight \/ Fresh(projects', q)
  <1> DEFINE n == issued + 1
             p == Len(projects) + 1
             slug == ComputeSlug
             asked == <<ComputeSlug, r.path>>
             q == [r EXCEPT !.n = n, !.op = "import", !.p = p, !.opt = "none",
                            !.slug = slug, !.done = "no", !.asked = asked]
             new == [slug |-> ComputeSlug, repo |-> r.path[1], sup |-> r.sup, gh |-> TRUE,
                     wts |-> <<NewWorktree(r.path)>>]
  <1>1. /\ r \in Requests /\ r.op = "open" /\ projects \in Seq(Project)
        /\ projects' = Append(projects, new)
        /\ Answer(r, IF r.opt = "import" THEN {q} ELSE {}, r.opt = "import")
    BY DEF ProjectValidated, Types, RequestTypes, Tree
  <1>2. \A x \in inflight' : x \in inflight \/ x = q BY <1>1 DEF Answer
  <1>3. /\ q.op = "import" /\ q.sup = r.sup /\ q.p = p /\ q.w = r.w /\ q.slug = slug
        /\ q.path = r.path /\ q.rows = r.rows /\ q.asked = asked /\ q.done = "no"
        /\ q.found = r.found
    <2>1. r \in Requests BY <1>1
    <2>2. q = [r EXCEPT !.n = n, !.op = "import", !.p = p, !.opt = "none",
                            !.slug = slug, !.done = "no", !.asked = asked]
      OBVIOUS
    <2> HIDE DEF n, p, slug, asked, q, new
    <2> QED BY <2>1, <2>2 DEF Requests
  <1>4. p \in DOMAIN projects' /\ projects'[p] = new
    <2> HIDE DEF new
    <2> QED BY <1>1
  <1>5. new.slug = slug /\ new.repo = r.path[1] /\ new.sup = r.sup OBVIOUS
  <1>6. r.w = 0 /\ r.path[2] = 0 /\ r.rows = {} BY <1>1 DEF RequestsStand, Sound
  <1>7. r.path = <<r.path[1], 0>>
    <2>1. r.path \in Paths BY <1>1 DEF Requests
    <2> QED BY <1>6, <2>1 DEF Paths
  <1>8. asked = <<slug, r.path>> OBVIOUS
  <1>9. r.found = {} BY <1>1 DEF FoundOwn
  <1> HIDE DEF n, p, slug, asked, q, new
  <1>10. Points(projects', q.p, q.w, q.asked)
    BY <1>3, <1>4, <1>5, <1>6, <1>7, <1>8 DEF Points, RowAt
  <1>11. Stands(projects', q) BY <1>3, <1>4, <1>5, <1>6, <1>10 DEF Stands
  <1>12. Shaped(q) BY <1>3, <1>6 DEF Shaped
  <1>13. Fresh(projects', q) BY <1>3, <1>9, <1>11, <1>12 DEF Fresh, Sound
  <1> QED BY <1>2, <1>13

\* The spawn that follows the addition of a worktree is for its row.
LEMMA AddedFresh ==
  ASSUME Types, Tree, NEW r \in inflight, WorktreeAdded(r)
  PROVE  \A q \in inflight' : q \in inflight \/ Fresh(projects', q)
  <1>1. CASE r.p \notin DOMAIN projects
    <2>1. Answer(r, {}, FALSE) BY <1>1 DEF WorktreeAdded
    <2> QED BY <2>1 DEF Answer
  <1>2. CASE r.p \in DOMAIN projects
    <2> DEFINE p == r.p
               old == projects[r.p].wts
               w == Len(projects[r.p].wts) + 1
               path == r.path
               rows == {<<w, path>>}
               asked == <<projects[r.p].slug, path>>
               x == Request("spawn", p, w, path, rows)
               q == [x EXCEPT !.asked = asked]
               qs == projects'
               row == NewWorktree(path)
               wts == Append(old, row)
    <2>1. /\ Answer(r, {q}, FALSE) /\ r \in Requests /\ projects \in Seq(Project)
          /\ issued \in Nat
      BY <1>2 DEF WorktreeAdded, Types, RequestTypes, Tree
    <2>2. \A y \in inflight' : y \in inflight \/ y = q BY <2>1 DEF Answer
    <2>3. old \in Seq(Worktree) /\ projects[p] \in Project /\ projects[p].slug \in Nat
      BY <1>2, <2>1, RowsPositive DEF Project
    <2>4. path \in Paths BY <2>1 DEF Requests
    <2>5. w \in Nat \ {0} /\ w = Len(old) + 1
      <3>1. w = Len(old) + 1 OBVIOUS
      <3> HIDE DEF old, w
      <3> QED BY <2>3, <3>1
    <2>6. /\ p \in DOMAIN qs /\ qs[p].slug = projects[p].slug /\ qs[p].sup = projects[p].sup
          /\ qs[p].wts = wts
      <3>1. qs = [projects EXCEPT ![p] = [projects[p] EXCEPT !.wts = wts]]
        BY <1>2 DEF WorktreeAdded
      <3> HIDE DEF p, wts, qs
      <3>2. qs[p] = [projects[p] EXCEPT !.wts = wts] /\ p \in DOMAIN qs
        BY <1>2, <2>3, <3>1 DEF p
      <3> QED BY <2>3, <3>2 DEF Project
    <2>7. w \in DOMAIN qs[p].wts /\ qs[p].wts[w] = row
      <3>1. row \in Worktree BY <2>4, NewRow
      <3>2. wts = Append(old, row) OBVIOUS
      <3> HIDE DEF row, old, w, p, qs, wts
      <3> QED BY <2>3, <2>5, <2>6, <3>1, <3>2
    <2>8. row.path = path BY DEF NewWorktree
    <2>9. /\ x.op = "spawn" /\ x.sup = projects[p].sup /\ x.p = p /\ x.w = w
          /\ x.slug = projects[p].slug /\ x.path = path /\ x.rows = rows /\ x.done = "no"
          /\ x.found = {} /\ x \in Requests
      <3>1. rows \in PlaceSets BY <2>4, <2>5 DEF PlaceSets
      <3>2. x = Request("spawn", p, w, path, rows) OBVIOUS
      <3>3. "spawn" \in Operations BY DEF Operations
      <3>4. p \in DOMAIN projects BY <1>2
      <3>5. path \in Paths /\ w \in Nat BY <2>4, <2>5
      <3> HIDE DEF p, w, path, rows, x
      <3> QED BY <2>1, <3>1, <3>2, <3>3, <3>4, <3>5, RequestIs
    <2>10. /\ q.op = "spawn" /\ q.sup = projects[p].sup /\ q.p = p /\ q.w = w
           /\ q.slug = projects[p].slug /\ q.path = path /\ q.rows = rows /\ q.done = "no"
           /\ q.found = {} /\ q.asked = asked
      <3>1. q = [x EXCEPT !.asked = asked] OBVIOUS
      <3> HIDE DEF q, x, asked, rows, path, w, p
      <3> QED BY <2>9, <3>1 DEF Requests
    <2>11. asked = <<projects[p].slug, path>> /\ rows = {<<w, path>>} OBVIOUS
    <2> HIDE DEF q, x, asked, rows, path, w, p, row, old, wts, qs
    <2>12. Held(qs, p, w) BY <2>6, <2>7 DEF Held
    <2>13. Points(qs, q.p, q.w, q.asked)
      BY <2>5, <2>6, <2>7, <2>8, <2>10, <2>11, <2>12 DEF Points, RowAt
    <2>14. Stands(qs, q) BY <2>6, <2>7, <2>8, <2>10, <2>11, <2>12, <2>13 DEF Stands
    <2>15. Shaped(q) BY <2>5, <2>10, <2>11 DEF Shaped
    <2>16. Fresh(qs, q) BY <2>10, <2>14, <2>15 DEF Fresh, Sound
    <2> QED BY <2>2, <2>16 DEF qs
  <1> QED BY <1>1, <1>2

\* Other replies are followed by nothing.
LEMMA AppliedFresh ==
  ASSUME Types, Tree, RequestsStand, FoundOwn, NEW r \in inflight, Applied(r)
  PROVE  \A q \in inflight' : q \in inflight \/ Fresh(projects', q)
  <1>1. CASE ~ProjectValidated(r) /\ ~WorktreeAdded(r)
    <2>1. \E pending : Answer(r, {}, pending)
      BY <1>1 DEF Applied, SessionSpawned, WorktreesImported, WorktreeRemoved, ProjectRemoved,
           OperationFailed, PrFetchFailed, PrStatusesFetched
    <2>2. inflight' \subseteq inflight BY <2>1 DEF Answer
    <2> QED BY <2>2
  <1> QED BY <1>1, ValidatedFresh, AddedFresh

\* An answer changes nothing about a request but what was done and found.
LEMMA HandledIs ==
  ASSUME Types, NEW r \in inflight, NEW ok \in BOOLEAN, Handle(r, ok)
  PROVE  \E q : /\ inflight' = (inflight \ {r}) \cup {q}
                /\ q.n = r.n /\ q.op = r.op /\ q.sup = r.sup /\ q.p = r.p /\ q.w = r.w
                /\ q.slug = r.slug /\ q.path = r.path /\ q.rows = r.rows /\ q.asked = r.asked
                /\ q.done = (IF ok THEN "ok" ELSE "fail")
                /\ \A x \in q.found : r.op = "import" /\ x[1] = r.path[1]
  <1> DEFINE done == IF ok THEN "ok" ELSE "fail"
             found == IF ok /\ r.op = "import" THEN {x \in git : x[1] = r.path[1]} ELSE {}
             q == [r EXCEPT !.done = done, !.found = found]
  <1>1. r \in Requests /\ inflight' = (inflight \ {r}) \cup {q}
    BY DEF Handle, Types, RequestTypes
  <1>2. q = [r EXCEPT !.done = done, !.found = found] OBVIOUS
  <1>3. \A x \in found : r.op = "import" /\ x[1] = r.path[1] OBVIOUS
  <1> HIDE DEF found
  <1>4. /\ q.n = r.n /\ q.op = r.op /\ q.sup = r.sup /\ q.p = r.p /\ q.w = r.w
        /\ q.slug = r.slug /\ q.path = r.path /\ q.rows = r.rows /\ q.asked = r.asked
        /\ q.done = done /\ q.found = found
    <2> HIDE DEF q, done
    <2> QED BY <1>1, <1>2 DEF Requests
  <1> HIDE DEF q
  <1> QED BY <1>1, <1>3, <1>4

\* Every step leaves all requests standing, as long as no removal crosses them.
LEMMA RequestsStep ==
  ASSUME PositionInv, Tree, Clean, PromptStands, RequestsStand, FoundOwn, Next
  PROVE  RequestsStand' /\ FoundOwn'
  <1>0. Types /\ ActiveIn /\ SelectedIn /\ projects \in Seq(Project)
    BY DEF PositionInv, Tree
  <1>1. inflight' \subseteq Requests BY <1>0, RequestsKept DEF RequestTypes
  <1>2. \A q \in inflight' : q \in inflight => Sound(projects', q) BY <1>0, SoundKept
  <1>3. SUFFICES ASSUME NEW q \in inflight', q \notin inflight
                 PROVE  /\ Sound(projects', q)
                        /\ \A x \in q.found : q.op = "import" /\ x[1] = q.path[1]
    BY <1>2 DEF RequestsStand, FoundOwn
  <1>4. CASE UserStep
    <2>1. Fresh(projects, q) BY <1>0, <1>3, <1>4, UserFresh DEF Sends
    <2>2. SameShape(projects, projects') BY <1>4, UserTree DEF Redecorated
    <2>3. Sound(projects, q) /\ q.found = {} BY <2>1 DEF Fresh
    <2> QED BY <1>0, <1>1, <2>2, <2>3, SoundShape
  <1>5. ASSUME NEW r \in inflight, NEW ok \in BOOLEAN, Handle(r, ok)
        PROVE  /\ Sound(projects', q)
               /\ \A x \in q.found : q.op = "import" /\ x[1] = q.path[1]
    <2>1. PICK y : /\ inflight' = (inflight \ {r}) \cup {y}
                   /\ y.n = r.n /\ y.op = r.op /\ y.sup = r.sup /\ y.p = r.p /\ y.w = r.w
                   /\ y.slug = r.slug /\ y.path = r.path /\ y.rows = r.rows
                   /\ y.asked = r.asked
                   /\ \A x \in y.found : r.op = "import" /\ x[1] = r.path[1]
      BY <1>0, <1>5, HandledIs
    <2>2. q = y BY <1>3, <2>1
    <2>3. projects' = projects BY <1>5 DEF Handle, treeVars
    <2>4. Sound(projects, r) BY DEF RequestsStand
    <2>5. Sound(projects, q) BY <2>1, <2>2, <2>4, SoundSame
    <2> QED BY <2>1, <2>2, <2>3, <2>5
  <1>6. ASSUME NEW r \in inflight, Applied(r)
        PROVE  /\ Sound(projects', q)
               /\ \A x \in q.found : q.op = "import" /\ x[1] = q.path[1]
    <2>1. Fresh(projects', q) BY <1>0, <1>3, <1>6, AppliedFresh
    <2> QED BY <2>1 DEF Fresh
  <1>7. CASE (\E s \in live : ShellExits(s)) \/ (\E s \in exited : SessionExited(s)) \/ LinkStep
    <2>1. inflight' \subseteq inflight
      BY <1>7 DEF ShellExits, SessionExited, LinkStep, SupervisorLost, SupervisorConnected, reqVars
    <2> QED BY <1>3, <2>1
  <1> QED BY <1>4, <1>5, <1>6, <1>7 DEF Next, SupervisorStep

\* A prompt that is opened stands.
LEMMA PromptOpened ==
  ASSUME PositionInv, UserStep
  PROVE  \/ popup' = popup \/ popup' = NoPopup
         \/ /\ projects' = projects
            /\ Points(projects, popup'.p, popup'.w, popup'.asked)
            /\ popup'.k \in {"worktree", "project"} => popup'.w = 0
  <1>0. Types /\ ActiveIn BY DEF PositionInv
  <1>1. \/ popup' = popup \/ popup' = NoPopup
        \/ OpenLauncher \/ AskBranch \/ AskRemoveWorktree \/ AskRemoveProject
    BY DEF UserStep, MoveSelection, ClickRow, ActivateSelection, SwitchTab, OpenNewTab, CloseTab,
         OpenLauncher, Launch, CancelPrompt, AddWorktree, SubmitBranch, AskBranch,
         ImportWorktrees, AskRemoveWorktree, ConfirmRemoveWorktree, AskRemoveProject,
         RemoveProject, ConfirmRemoveProject, OpenProject, PeriodicPrCheck, uiVars
  <1>2. ASSUME NEW kind, NEW p, NEW w, popup' = Prompt(kind, p, w), p \in DOMAIN projects,
               w # 0 => Has(p, w), kind \in {"worktree", "project"} => w = 0
        PROVE  /\ Points(projects, popup'.p, popup'.w, popup'.asked)
               /\ popup'.k \in {"worktree", "project"} => popup'.w = 0
    <2>1. popup'.k = kind /\ popup'.p = p /\ popup'.w = w /\ popup'.asked = Denotes(p, w)
      BY <1>2 DEF Prompt
    <2>2. Points(projects, p, w, Denotes(p, w)) BY <1>2, DenotesRow DEF Points
    <2> QED BY <1>2, <2>1, <2>2
  <1>3. CASE OpenLauncher
    <2> DEFINE p == active_worktree[1]
               w == active_worktree[2]
    <2>1. popup' = Prompt("launch", p, w) /\ active_worktree # None /\ projects' = projects
      BY <1>3 DEF OpenLauncher, treeVars
    <2>2. Has(p, w) /\ p \in DOMAIN projects BY <1>0, <2>1 DEF ActiveIn, Has
    <2> HIDE DEF p, w
    <2> QED BY <1>2, <2>1, <2>2
  <1>4. CASE AskBranch
    <2>1. /\ SelectedProject \in DOMAIN projects /\ projects' = projects
          /\ popup' = Prompt("worktree", SelectedProject, 0)
      BY <1>0, <1>4, SelectedIs DEF AskBranch, treeVars
    <2> QED BY <1>2, <2>1
  <1>5. CASE AskRemoveProject
    <2>1. /\ SelectedProject \in DOMAIN projects /\ projects' = projects
          /\ popup' = Prompt("project", SelectedProject, 0)
      BY <1>0, <1>5, SelectedIs DEF AskRemoveProject, treeVars
    <2> QED BY <1>2, <2>1
  <1>6. CASE AskRemoveWorktree
    <2> DEFINE p == sidebar_selection[1]
               w == sidebar_selection[2]
    <2>1. popup' = Prompt("confirm", p, w) /\ Has(p, w) /\ projects' = projects
      BY <1>6 DEF AskRemoveWorktree, treeVars
    <2>2. p \in DOMAIN projects BY <2>1 DEF Has
    <2> HIDE DEF p, w
    <2> QED BY <1>2, <2>1, <2>2
  <1> QED BY <1>1, <1>3, <1>4, <1>5, <1>6

\* No removal moves what a prompt is open for, as long as none crosses it.
LEMMA PromptStays ==
  ASSUME Types, Tree, Clean, RequestsStand, Next, popup.k # "none",
         Points(projects, popup.p, popup.w, popup.asked)
  PROVE  Points(projects', popup.p, popup.w, popup.asked)
  <1> DEFINE ps == projects
             qs == projects'
             p == popup.p
             w == popup.w
  <1>1. ps \in Seq(Project) /\ p \in Nat /\ w \in Nat
    BY DEF Types, PopupTypes, Tree
  <1>2. p \in DOMAIN ps /\ (w # 0 => w \in DOMAIN ps[p].wts) BY DEF Points, Held
  <1>3. SUFFICES Stays(ps, qs, p, w)
    <2> HIDE DEF ps, qs, p, w
    <2>1. ASSUME NEW asked, Points(ps, p, w, asked) PROVE Points(qs, p, w, asked)
      BY <1>3, <2>1, PointsKept
    <2> QED BY <2>1 DEF ps, qs, p, w
  <1>4. CASE Redecorated
    <2>1. SameShape(ps, qs) BY <1>4 DEF Redecorated
    <2> HIDE DEF ps, qs, p, w
    <2> QED BY <1>1, <1>2, <2>1, ShapeStays
  <1>5. ASSUME NEW r \in inflight, ProjectValidated(r) \/ WorktreesImported(r) \/ WorktreeAdded(r)
        PROVE  Stays(ps, qs, p, w)
    <2>1. Grown(ps, qs) BY <1>5, ValidatedTree, GrownAt DEF TreeGrown
    <2> HIDE DEF ps, qs, p, w
    <2> QED BY <1>1, <1>2, <2>1, ShapeStays
  <1>6. ASSUME p \in DOMAIN qs, qs[p] = ps[p] PROVE Stays(ps, qs, p, w)
    <2> HIDE DEF ps, qs, p, w
    <2> QED BY <1>2, <1>6, SameStays
  <1>7. ASSUME NEW r \in inflight, WorktreeRemoved(r), Has(r.p, r.w) PROVE Stays(ps, qs, p, w)
    <2>1. CASE p # r.p
      <3>1. p \in DOMAIN qs /\ qs[p] = ps[p] BY <1>2, <1>7, <2>1, WorktreeRemovedTree
      <3> QED BY <1>6, <3>1
    <2>2. CASE p = r.p
      <3>1. r.op = "rmwt" BY <1>7 DEF WorktreeRemoved
      <3>2. ~(w >= r.w) BY <2>2, <3>1 DEF Clean, Crossing
      <3>3. r.w \in Nat BY DEF Types, RequestTypes, Requests
      <3>4. w < r.w BY <1>1, <3>2, <3>3
      <3>5. /\ r.w \in DOMAIN ps[p].wts /\ p \in DOMAIN qs
            /\ qs[p].slug = ps[p].slug /\ qs[p].repo = ps[p].repo
            /\ qs[p].sup = ps[p].sup /\ Shortened(ps[p].wts, r.w, qs[p].wts)
        BY <1>2, <1>7, <2>2, WorktreeRemovedTree DEF Has
      <3> HIDE DEF ps, qs, p, w
      <3> QED BY <1>1, <1>2, <3>4, <3>5, ShortStays
    <2> QED BY <2>1, <2>2
  <1>8. ASSUME NEW r \in inflight, ProjectRemoved(r), IndexOf(r.slug) # 0
        PROVE  p \in DOMAIN qs /\ qs[p] = ps[p]
    <2>1. r.op = "rmproj" BY <1>8 DEF ProjectRemoved
    <2>2. ~(p >= IndexOf(r.slug)) BY <2>1 DEF Clean, Crossing
    <2>3. /\ DOMAIN qs = 1 .. Len(ps) - 1 /\ IndexOf(r.slug) \in DOMAIN ps
          /\ \A x \in DOMAIN qs : qs[x] = ps[IF x < IndexOf(r.slug) THEN x ELSE x + 1]
      BY <1>8, ProjectRemovedTree
    <2> DEFINE i == IndexOf(r.slug)
    <2>4. i \in DOMAIN ps /\ ~(p >= i)
          /\ \A x \in DOMAIN qs : qs[x] = ps[IF x < i THEN x ELSE x + 1]
      BY <2>2, <2>3
    <2> HIDE DEF i, ps, qs, p, w
    <2>5. i \in Nat /\ p < i BY <1>1, <2>4
    <2>6. p \in DOMAIN qs BY <1>1, <1>2, <2>3, <2>4, <2>5
    <2> QED BY <2>4, <2>5, <2>6
  <1> HIDE DEF ps, qs, p, w
  <1> QED BY <1>4, <1>5, <1>6, <1>7, <1>8, StepKinds

\* Prompts keep standing.
LEMMA PromptStandsStep ==
  ASSUME PositionInv, Tree, Clean, PromptStands, RequestsStand, Next
  PROVE  PromptStands'
  <1>0. Types BY DEF PositionInv
  <1>1. CASE popup' = NoPopup
    <2>1. popup'.k = "none" BY <1>1 DEF NoPopup
    <2> QED BY <2>1 DEF PromptStands
  <1>2. CASE popup' = popup
    <2> SUFFICES ASSUME popup.k # "none"
                 PROVE  /\ Points(projects', popup.p, popup.w, popup.asked)
                        /\ popup.k \in {"worktree", "project"} => popup.w = 0
      BY <1>2 DEF PromptStands
    <2>1. /\ Points(projects, popup.p, popup.w, popup.asked)
          /\ popup.k \in {"worktree", "project"} => popup.w = 0
      BY DEF PromptStands
    <2> QED BY <1>0, <2>1, PromptStays
  <1>3. CASE UserStep
    <2>1. CASE /\ projects' = projects
               /\ Points(projects, popup'.p, popup'.w, popup'.asked)
               /\ popup'.k \in {"worktree", "project"} => popup'.w = 0
      BY <2>1 DEF PromptStands
    <2> QED BY <1>1, <1>2, <1>3, <2>1, PromptOpened
  <1>4. UserStep \/ popup' = popup BY AppliedLeaves, OtherLeaves DEF Next
  <1> QED BY <1>2, <1>3, <1>4

\* The rows that an import adds, each new and each once.
LEMMA ImportedRows ==
  ASSUME Types, Tree, NEW r \in inflight, WorktreesImported(r), r.p \in DOMAIN projects
  PROVE  /\ DOMAIN projects[r.p].wts \subseteq DOMAIN projects'[r.p].wts
         /\ \A w \in DOMAIN projects'[r.p].wts \ DOMAIN projects[r.p].wts :
              projects'[r.p].wts[w].path \in Unlisted(projects[r.p].wts, r.found)
         /\ \A v, w \in DOMAIN projects'[r.p].wts \ DOMAIN projects[r.p].wts :
              projects'[r.p].wts[v].path = projects'[r.p].wts[w].path => v = w
  <1> DEFINE found == Unlisted(projects[r.p].wts, r.found)
             old == projects[r.p].wts
  <1>1. PICK order \in SetToSeqs(found) :
            projects' = [projects EXCEPT ![r.p].wts =
                              @ \o [i \in DOMAIN order |-> NewWorktree(order[i])]]
    BY DEF WorktreesImported
  <1> DEFINE more == [i \in DOMAIN order |-> NewWorktree(order[i])]
             wts == old \o more
             now == projects'[r.p].wts
  <1>2. r \in Requests /\ projects \in Seq(Project) BY DEF Types, RequestTypes, Tree
  <1>3. projects[r.p] \in Project /\ old \in Seq(Worktree) BY <1>2, RowsPositive
  <1>4. now = wts
    <2>1. projects' = [projects EXCEPT ![r.p] = [projects[r.p] EXCEPT !.wts = wts]] BY <1>1
    <2> HIDE DEF wts
    <2> QED BY <1>3, <2>1 DEF Project
  <1>5. found \subseteq Paths /\ IsFiniteSet(found)
    <2>1. r.found \in SUBSET Paths BY <1>2 DEF Requests
    <2>2. found \in SUBSET Paths BY <2>1 DEF Unlisted
    <2> HIDE DEF found
    <2> QED BY <2>2, PathsFinite, FS_Subset
  <1>6. /\ order \in Seq(found) /\ DOMAIN order = 1 .. Len(order)
        /\ \A i, j \in DOMAIN order : order[i] = order[j] => i = j
    <2> HIDE DEF found
    <2> QED BY <1>5, OrderIs
  <1>7. more \in Seq(Worktree) /\ Len(more) = Len(order)
    <2>1. \A i \in DOMAIN order : order[i] \in Paths
      <3> HIDE DEF found
      <3> QED BY <1>5, <1>6
    <2>2. \A i \in DOMAIN order : NewWorktree(order[i]) \in Worktree BY <2>1, NewRow
    <2>3. more \in [1 .. Len(order) -> Worktree] /\ Len(order) \in Nat
      <3>1. Len(order) \in Nat
        <4> HIDE DEF found
        <4> QED BY <1>6
      <3> QED BY <1>6, <2>2, <3>1
    <2> HIDE DEF more
    <2> QED BY <2>3
  <1>8. \A i \in DOMAIN order : more[i].path = order[i] BY DEF NewWorktree
  <1>9. /\ DOMAIN old \subseteq DOMAIN wts
        /\ \A w \in DOMAIN wts \ DOMAIN old :
             w \in Nat /\ w - Len(old) \in DOMAIN order /\ wts[w] = more[w - Len(old)]
    <2>1. wts = old \o more OBVIOUS
    <2> HIDE DEF old, more, wts, found
    <2>2. DOMAIN more = DOMAIN order BY <1>6, <1>7
    <2> QED BY <1>3, <1>7, <2>1, <2>2
  <1>10. ASSUME NEW w \in DOMAIN wts \ DOMAIN old
         PROVE  /\ w \in Nat /\ w - Len(old) \in DOMAIN order
                /\ wts[w].path = order[w - Len(old)]
    <2> HIDE DEF more, wts, old
    <2> QED BY <1>8, <1>9
  <1>11. ASSUME NEW v \in DOMAIN wts \ DOMAIN old, NEW w \in DOMAIN wts \ DOMAIN old,
                wts[v].path = wts[w].path
         PROVE  v = w
    <2> DEFINE n == Len(old)
    <2>1. /\ v \in Nat /\ v - n \in DOMAIN order /\ wts[v].path = order[v - n]
          /\ w \in Nat /\ w - n \in DOMAIN order /\ wts[w].path = order[w - n]
      BY <1>10
    <2>2. n \in Nat BY <1>3
    <2> HIDE DEF wts, old, n
    <2>3. order[v - n] = order[w - n] BY <1>11, <2>1
    <2>4. v - n = w - n BY <1>6, <2>1, <2>3
    <2> QED BY <2>1, <2>2, <2>4
  <1>12. \A w \in DOMAIN wts \ DOMAIN old : wts[w].path \in found
    <2> HIDE DEF wts, old, found
    <2> QED BY <1>6, <1>10
  <1> HIDE DEF wts, old, found
  <1> QED BY <1>4, <1>9, <1>11, <1>12 DEF old, found

\* The row that an addition adds.
LEMMA AddedRow ==
  ASSUME Types, Tree, NEW r \in inflight, WorktreeAdded(r), r.p \in DOMAIN projects
  PROVE  /\ DOMAIN projects[r.p].wts \subseteq DOMAIN projects'[r.p].wts
         /\ \A w \in DOMAIN projects'[r.p].wts \ DOMAIN projects[r.p].wts :
              /\ projects'[r.p].wts[w].path = r.path
              /\ w = Len(projects[r.p].wts) + 1
  <1> DEFINE old == projects[r.p].wts
             row == NewWorktree(r.path)
             wts == Append(old, row)
             now == projects'[r.p].wts
  <1>1. r \in Requests /\ projects \in Seq(Project) BY DEF Types, RequestTypes, Tree
  <1>2. projects[r.p] \in Project /\ old \in Seq(Worktree) BY <1>1, RowsPositive
  <1>3. row \in Worktree /\ row.path = r.path
    <2>1. r.path \in Paths BY <1>1 DEF Requests
    <2> QED BY <2>1, NewRow
  <1>4. now = wts
    <2>1. projects' = [projects EXCEPT ![r.p] = [projects[r.p] EXCEPT !.wts = wts]]
      BY DEF WorktreeAdded
    <2> HIDE DEF wts
    <2> QED BY <1>2, <2>1 DEF Project
  <1>5. /\ DOMAIN old \subseteq DOMAIN wts
        /\ \A w \in DOMAIN wts \ DOMAIN old : wts[w] = row /\ w = Len(old) + 1
    <2>1. wts = Append(old, row) OBVIOUS
    <2> HIDE DEF old, row, wts
    <2> QED BY <1>2, <1>3, <2>1
  <1> HIDE DEF wts, old, row
  <1> QED BY <1>3, <1>4, <1>5 DEF old

\* The row of a project that is opened.
LEMMA ValidatedRow ==
  ASSUME Types, Tree, NEW r \in inflight, ProjectValidated(r), NEW p,
         p \in DOMAIN projects' \ DOMAIN projects
  PROVE  /\ projects'[p].wts = <<NewWorktree(r.path)>> /\ projects'[p].repo = r.path[1]
         /\ p = Len(projects) + 1
  <1> DEFINE new == [slug |-> ComputeSlug, repo |-> r.path[1], sup |-> r.sup, gh |-> TRUE,
                     wts |-> <<NewWorktree(r.path)>>]
  <1>1. projects' = Append(projects, new) /\ projects \in Seq(Project)
    BY DEF ProjectValidated, Tree
  <1>2. new.wts = <<NewWorktree(r.path)>> /\ new.repo = r.path[1] OBVIOUS
  <1> HIDE DEF new
  <1>3. p = Len(projects) + 1 /\ projects'[p] = new BY <1>1
  <1> QED BY <1>2, <1>3

\* A worktree that is listed is of its project's repository.
LEMMA RowsOwnStep ==
  ASSUME PositionInv, Tree, RequestsStand, FoundOwn, RowsOwn, Next
  PROVE  RowsOwn'
  <1>0. Types /\ projects \in Seq(Project) BY DEF PositionInv, Tree
  <1> SUFFICES ASSUME NEW p \in DOMAIN projects', NEW w \in DOMAIN projects'[p].wts
               PROVE  projects'[p].wts[w].path[1] = projects'[p].repo
    BY DEF RowsOwn
  <1>1. CASE Redecorated BY <1>1 DEF Redecorated, SameShape, RowsOwn
  <1>2. ASSUME p \in DOMAIN projects, projects'[p] = projects[p]
        PROVE  projects'[p].wts[w].path[1] = projects'[p].repo
    BY <1>2 DEF RowsOwn
  <1>3. ASSUME TreeGrown, p \in DOMAIN projects, w \in DOMAIN projects[p].wts
        PROVE  projects'[p].wts[w].path[1] = projects'[p].repo
    BY <1>3 DEF RowsOwn, TreeGrown, Grown
  <1>4. ASSUME NEW r \in inflight, ProjectValidated(r)
        PROVE  projects'[p].wts[w].path[1] = projects'[p].repo
    <2>1. CASE p \in DOMAIN projects BY <1>0, <1>2, <1>4, <2>1, ValidatedTree
    <2>2. CASE p \notin DOMAIN projects
      <3>1. projects'[p].wts = <<NewWorktree(r.path)>> /\ projects'[p].repo = r.path[1]
        BY <1>0, <1>4, <2>2, ValidatedRow
      <3> DEFINE row == NewWorktree(r.path)
      <3>2. row.path = r.path BY DEF NewWorktree
      <3> HIDE DEF row
      <3>3. projects'[p].wts[w] = row BY <3>1 DEF row
      <3> QED BY <3>1, <3>2, <3>3
    <2> QED BY <2>1, <2>2
  <1>5. ASSUME NEW r \in inflight, WorktreesImported(r) \/ WorktreeAdded(r)
        PROVE  projects'[p].wts[w].path[1] = projects'[p].repo
    <2>1. TreeGrown /\ p \in DOMAIN projects /\ (p # r.p => projects'[p] = projects[p])
      BY <1>0, <1>5, GrownAt
    <2>2. CASE p = r.p /\ w \notin DOMAIN projects[p].wts
      <3>1. r.op \in {"import", "add"} /\ Sound(projects, r)
        BY <1>5 DEF WorktreesImported, WorktreeAdded, RequestsStand
      <3>2. r.path[1] = projects[p].repo BY <2>2, <3>1 DEF Sound, Stands
      <3>3. projects'[p].repo = projects[p].repo BY <2>1 DEF TreeGrown, Grown
      <3>4. CASE WorktreesImported(r)
        <4>1. projects'[p].wts[w].path \in r.found
          BY <1>0, <2>1, <2>2, <3>4, ImportedRows DEF Unlisted
        <4>2. projects'[p].wts[w].path[1] = r.path[1] BY <4>1 DEF FoundOwn
        <4> QED BY <3>2, <3>3, <4>2
      <3>5. CASE WorktreeAdded(r)
        <4>1. projects'[p].wts[w].path = r.path BY <1>0, <2>1, <2>2, <3>5, AddedRow
        <4> QED BY <3>2, <3>3, <4>1
      <3> QED BY <1>5, <3>4, <3>5
    <2> QED BY <1>2, <1>3, <2>1, <2>2
  <1>6. ASSUME NEW r \in inflight, WorktreeRemoved(r), Has(r.p, r.w)
        PROVE  projects'[p].wts[w].path[1] = projects'[p].repo
    <2>1. p \in DOMAIN projects /\ (p # r.p => projects'[p] = projects[p])
      BY <1>0, <1>6, WorktreeRemovedTree
    <2>2. CASE p = r.p
      <3>1. /\ projects'[p].repo = projects[p].repo
            /\ Shortened(projects[p].wts, r.w, projects'[p].wts)
        BY <1>0, <1>6, <2>2, WorktreeRemovedTree
      <3>2. \E v \in DOMAIN projects[p].wts : projects'[p].wts[w] = projects[p].wts[v]
        <4> DEFINE s == projects[p].wts
                   t == projects'[p].wts
        <4>1. s \in Seq(Worktree) /\ Shortened(s, r.w, t) /\ w \in DOMAIN t
          BY <1>0, <2>1, <3>1, RowsPositive
        <4> HIDE DEF s, t
        <4>2. w \in 1 .. Len(s) - 1 /\ t[w] = IF w < r.w THEN s[w] ELSE s[w + 1]
          BY <4>1 DEF Shortened
        <4>3. w \in DOMAIN s /\ w + 1 \in DOMAIN s BY <4>1, <4>2
        <4>4. \E v \in DOMAIN s : t[w] = s[v] BY <4>2, <4>3
        <4> QED BY <4>4 DEF s, t
      <3> QED BY <2>1, <3>1, <3>2 DEF RowsOwn
    <2> QED BY <1>2, <2>1, <2>2
  <1>7. ASSUME NEW r \in inflight, ProjectRemoved(r), IndexOf(r.slug) # 0
        PROVE  projects'[p].wts[w].path[1] = projects'[p].repo
    <2>1. \E q \in DOMAIN projects : projects'[p] = projects[q]
      <3>1. /\ DOMAIN projects' = 1 .. Len(projects) - 1
            /\ projects'[p] = projects[IF p < IndexOf(r.slug) THEN p ELSE p + 1]
        BY <1>0, <1>7, ProjectRemovedTree
      <3>2. p \in DOMAIN projects /\ p + 1 \in DOMAIN projects BY <1>0, <3>1
      <3> QED BY <3>1, <3>2
    <2> QED BY <2>1 DEF RowsOwn
  <1> QED BY <1>0, <1>1, <1>4, <1>5, <1>6, <1>7, StepKinds

\* A request that stands has the place its names say.
LEMMA StandingPlace ==
  ASSUME Types, SlugsApart(projects), RequestsStand, NEW r \in inflight, r.op # "open"
  PROVE  /\ r.p \in DOMAIN projects /\ IndexOf(r.slug) = r.p
         /\ projects[r.p].slug = r.slug /\ projects[r.p].sup = r.sup
         /\ r.w # 0 => Has(r.p, r.w)
         /\ Denotes(r.p, r.w) = r.asked
         /\ \A row \in r.rows : /\ row[1] \in Nat \ {0} /\ Has(r.p, row[1])
                                /\ projects[r.p].wts[row[1]].path = row[2]
  <1>1. projects \in Seq(Project) /\ r \in Requests BY DEF Types, TreeTypes, RequestTypes
  <1>2. Sound(projects, r) BY DEF RequestsStand
  <1>3. /\ Stands(projects, r) /\ r.p \in DOMAIN projects /\ projects[r.p].slug = r.slug
        /\ projects[r.p].sup = r.sup
        /\ r.w # 0 => r.w \in DOMAIN projects[r.p].wts
        /\ \A row \in r.rows : /\ row[1] \in Nat \ {0} /\ row[1] \in DOMAIN projects[r.p].wts
                               /\ projects[r.p].wts[row[1]].path = row[2]
    BY <1>1, <1>2, SoundIs
  <1>4. IndexOf(r.slug) = r.p
    <2>1. /\ IndexOf(r.slug) # 0 => /\ IndexOf(r.slug) \in DOMAIN projects
                                    /\ projects[IndexOf(r.slug)].slug = r.slug
          /\ IndexOf(r.slug) = 0 => \A p \in DOMAIN projects : projects[p].slug # r.slug
      BY <1>1, IndexIs
    <2> QED BY <1>3, <2>1 DEF SlugsApart
  <1>5. Denotes(r.p, r.w) = r.asked BY <1>3, DenotesRow DEF Stands, Points
  <1> QED BY <1>3, <1>4, <1>5 DEF Has

\* Nothing is applied to what it was not for.
LEMMA MisledStep ==
  ASSUME PositionInv, SlugsApart(projects), RequestsStand, PromptStands, Next
  PROVE  misled' = misled
  <1>0. Types BY DEF PositionInv
  <1>1. CASE UserStep
    <2>1. popup.k # "none" => Denotes(popup.p, popup.w) = popup.asked
      BY DenotesRow DEF PromptStands, Points
    <2>2. popup.k \in {"worktree", "project"} => Denotes(popup.p, 0) = popup.asked
      BY <2>1 DEF PromptStands
    <2>3. CASE Launch BY <2>1, <2>3 DEF Launch, Landed
    <2>4. CASE \E b \in Branches : SubmitBranch(b) BY <2>2, <2>4 DEF SubmitBranch, Landed
    <2>5. CASE \E delete \in Deletes : ConfirmRemoveProject(delete)
      BY <2>2, <2>5 DEF ConfirmRemoveProject, Landed
    <2> QED
      BY <1>1, <2>3, <2>4, <2>5
         DEF UserStep, MoveSelection, ClickRow, ActivateSelection, SwitchTab, OpenNewTab,
             CloseTab, OpenLauncher, CancelPrompt, AddWorktree, AskBranch, ImportWorktrees,
             AskRemoveWorktree, ConfirmRemoveWorktree, AskRemoveProject, RemoveProject,
             OpenProject, PeriodicPrCheck
  <1>2. ASSUME NEW r \in inflight, Applied(r)
        PROVE  misled' = misled
    <2>1. r.op # "open" =>
            /\ IndexOf(r.slug) = r.p /\ r.p \in DOMAIN projects
            /\ r.w # 0 => Has(r.p, r.w)
            /\ Denotes(r.p, r.w) = r.asked
            /\ \A row \in r.rows : Has(r.p, row[1]) /\ projects[r.p].wts[row[1]].path = row[2]
      BY <1>0, StandingPlace
    <2>2. r.op # "open" => Right(r) BY <2>1 DEF Right
    <2>3. r.op # "open" => Shaped(r) BY DEF RequestsStand, Sound
    <2>4. CASE SessionSpawned(r) BY <2>2, <2>4 DEF SessionSpawned, Landed
    <2>5. CASE WorktreesImported(r) \/ WorktreeAdded(r) \/ WorktreeRemoved(r)
      BY <2>2, <2>5 DEF WorktreesImported, WorktreeAdded, WorktreeRemoved, Landed
    <2>6. CASE ProjectRemoved(r)
      <3>1. r.op = "rmproj" BY <2>6 DEF ProjectRemoved
      <3>2. r.w = 0 BY <2>3, <3>1 DEF Shaped
      <3>3. Denotes(IndexOf(r.slug), 0) = r.asked BY <2>1, <3>1, <3>2
      <3> QED BY <2>6, <3>3 DEF ProjectRemoved, Landed
    <2>7. CASE \E hit \in SUBSET r.rows : PrStatusesFetched(r, hit)
      <3> DEFINE p == IndexOf(r.slug)
      <3>1. r.op = "fetch" BY <2>7 DEF PrStatusesFetched
      <3>2. \A row \in r.rows : Has(p, row[1]) /\ projects[p].wts[row[1]].path = row[2]
        BY <2>1, <3>1
      <3>3. \A row \in r.rows : Denotes(p, row[1])[2] = row[2]
        <4>1. SUFFICES ASSUME NEW row \in r.rows PROVE Denotes(p, row[1])[2] = row[2] OBVIOUS
        <4>2. row[1] # 0
          <5>1. row[1] \in DOMAIN projects[p].wts /\ p \in DOMAIN projects BY <3>2 DEF Has
          <5>2. projects \in Seq(Project) BY <1>0 DEF Types, TreeTypes
          <5> HIDE DEF p
          <5> QED BY <5>1, <5>2, RowsPositive
        <4> HIDE DEF p
        <4> QED BY <3>2, <4>2 DEF Denotes, Has
      <3> QED BY <2>7, <3>3 DEF PrStatusesFetched, Landed
    <2> QED
      BY <1>2, <2>4, <2>5, <2>6, <2>7
         DEF Applied, ProjectValidated, OperationFailed, PrFetchFailed
  <1>3. CASE SupervisorStep \/ LinkStep \/ \E s \in exited : SessionExited(s)
    BY <1>3, OtherLeaves
  <1> QED BY <1>1, <1>2, <1>3 DEF Next

\* A PR status stands beside the row with its path.
StatusesStand == \A t \in pr_statuses : RowAt(projects, <<t[1], t[2]>>)[2] = t[3]

\* The removal of a row that is there takes that row out and no other.
LEMMA RowRemoval ==
  ASSUME Types, Tree, SlugsApart(projects), RequestsStand,
         NEW r \in inflight, WorktreeRemoved(r)
  PROVE  /\ Has(r.p, r.w) /\ r.w \in Nat \ {0} /\ projects' \in Seq(Project)
         /\ RowGone(projects, projects', r.p, r.w)
         /\ projects'[r.p].slug = projects[r.p].slug
         /\ projects'[r.p].repo = projects[r.p].repo
         /\ projects'[r.p].sup = projects[r.p].sup
  <1>1. r.op = "rmwt" BY DEF WorktreeRemoved
  <1>2. r.w # 0 /\ r.w \in Nat BY <1>1 DEF Types, RequestTypes, Requests
  <1>3. Has(r.p, r.w) BY <1>1, <1>2, StandingPlace
  <1> QED BY <1>2, <1>3, WorktreeRemovedTree DEF RowGone, Held, Has

\* The removal of a project takes out the one at its position and no other.
LEMMA ProjectRemoval ==
  ASSUME Types, Tree, SlugsApart(projects), RequestsStand,
         NEW r \in inflight, ProjectRemoved(r)
  PROVE  /\ IndexOf(r.slug) = r.p /\ r.p \in DOMAIN projects /\ r.p # 0
         /\ projects[r.p].slug = r.slug
         /\ projects' \in Seq(Project) /\ ProjectGone(projects, projects', r.p)
  <1>1. r.op = "rmproj" BY DEF ProjectRemoved
  <1>2. IndexOf(r.slug) = r.p /\ r.p \in DOMAIN projects /\ projects[r.p].slug = r.slug
    BY <1>1, StandingPlace
  <1>3. r.p # 0
    <2>1. projects \in Seq(Project) BY DEF Tree
    <2> QED BY <1>2, <2>1, RowsPositive
  <1>4. IndexOf(r.slug) # 0 BY <1>2, <1>3
  <1>5. /\ projects' \in Seq(Project)
        /\ DOMAIN projects' = 1 .. Len(projects) - 1
        /\ \A q \in DOMAIN projects' :
             projects'[q] = projects[IF q < IndexOf(r.slug) THEN q ELSE q + 1]
    BY <1>4, ProjectRemovedTree
  <1> QED BY <1>2, <1>3, <1>5 DEF ProjectGone

\* Where nothing is removed, every row is what it was.
LEMMA RowStays ==
  ASSUME Tree, Redecorated \/ TreeGrown, NEW p, NEW w, Held(projects, p, w)
  PROVE  Held(projects', p, w) /\ RowAt(projects', <<p, w>>) = RowAt(projects, <<p, w>>)
         /\ projects'[p].sup = projects[p].sup
  <1> DEFINE asked == RowAt(projects, <<p, w>>)
  <1>1. p \in DOMAIN projects /\ w \in DOMAIN projects[p].wts /\ projects \in Seq(Project)
    BY DEF Held, Tree
  <1>2. w # 0 BY <1>1, RowsPositive
  <1>3. SameShape(projects, projects') \/ Grown(projects, projects') BY DEF Redecorated, TreeGrown
  <1>4. Stays(projects, projects', p, w) BY <1>1, <1>3, ShapeStays
  <1>5. Points(projects, p, w, asked) BY <1>1 DEF Points, Held
  <1> HIDE DEF asked
  <1>6. Points(projects', p, w, asked) BY <1>4, <1>5, PointsKept
  <1>7. projects'[p].sup = projects[p].sup BY <1>4 DEF Stays
  <1> QED BY <1>2, <1>6, <1>7 DEF Points, asked

\* Statuses move with their rows, unless two that are adjacent move.
LEMMA StatusesStep ==
  ASSUME PositionInv, SlugsApart(projects), RequestsStand, StatusesStand, Next,
         \A r \in inflight \ inflight' : ~Scatters(r)
  PROVE  StatusesStand'
  <1>0. Types /\ Tree /\ StatusesIn BY DEF PositionInv, Tree, AllShown, TabsShown, Types, TreeTypes
  <1>1. \A t \in pr_statuses : /\ t = <<t[1], t[2], t[3]>> /\ t[1] \in Nat /\ t[2] \in Nat
                               /\ Held(projects, t[1], t[2])
    BY <1>0 DEF Types, PointerTypes, StatusesIn, Held, Has
  <1>2. ASSUME NEW r \in inflight, WorktreeRemoved(r)
        PROVE  StatusesStand'
    <2>1. SUFFICES ASSUME NEW t \in pr_statuses'
                   PROVE  RowAt(projects', <<t[1], t[2]>>)[2] = t[3]
      BY DEF StatusesStand
    <2>2. PICK s \in pr_statuses :
             /\ s[1] # r.p \/ s[2] # r.w
             /\ t = <<ShiftRow(s, r.p, r.w)[1], ShiftRow(s, r.p, r.w)[2], s[3]>>
      <3>1. r \notin inflight' BY <1>2 DEF WorktreeRemoved, Answer
      <3>2. ~Scatters(r) BY <3>1
      <3> QED BY <1>0, <1>2, <3>2, StatusesMoved
    <2> DEFINE at == <<s[1], s[2]>>
               to == ShiftRow(at, r.p, r.w)
    <2>3. at \in Nat \X Nat /\ Held(projects, at[1], at[2]) /\ at # <<r.p, r.w>>
      BY <1>1, <2>2
    <2>4. /\ Has(r.p, r.w) /\ r.w \in Nat \ {0} /\ projects' \in Seq(Project)
          /\ RowGone(projects, projects', r.p, r.w)
          /\ projects'[r.p].slug = projects[r.p].slug
      BY <1>0, <1>2, RowRemoval
    <2>5. to \in TabRows(projects') /\ RowAt(projects', to) = RowAt(projects, at)
      <3> DEFINE p == r.p
                 w == r.w
                 qs == projects'
      <3>1. Held(projects, p, w) BY <2>4 DEF Has, Held
      <3>2. projects \in Seq(Project) BY <1>0 DEF Tree
      <3>3. to = ShiftRow(at, p, w) OBVIOUS
      <3>4. /\ w \in Nat \ {0} /\ qs \in Seq(Project) /\ RowGone(projects, qs, p, w)
            /\ qs[p].slug = projects[p].slug
        BY <2>4
      <3>5. at # <<p, w>> BY <2>3
      <3> HIDE DEF at, to, p, w, qs
      <3>6. to \in TabRows(qs) /\ RowAt(qs, to) = RowAt(projects, at)
        BY <2>3, <3>1, <3>2, <3>3, <3>4, <3>5, RowFollows
      <3> QED BY <3>6 DEF qs
    <2>6. to = <<t[1], t[2]>> /\ t[3] = s[3]
      BY <2>2, <1>1 DEF ShiftRow
    <2>7. RowAt(projects, at)[2] = s[3] BY DEF StatusesStand
    <2> QED BY <2>5, <2>6, <2>7
  <1>3. ASSUME NEW r \in inflight, ProjectRemoved(r)
        PROVE  StatusesStand'
    <2>1. SUFFICES ASSUME NEW t \in pr_statuses'
                   PROVE  RowAt(projects', <<t[1], t[2]>>)[2] = t[3]
      BY DEF StatusesStand
    <2>2. /\ IndexOf(r.slug) = r.p /\ r.p # 0 /\ ProjectGone(projects, projects', r.p)
      BY <1>0, <1>3, ProjectRemoval
    <2>3. PICK s \in pr_statuses :
             s[1] # r.p /\ t = <<ShiftProject(s[1], r.p), s[2], s[3]>>
      BY <1>3, <2>2 DEF ProjectRemoved
    <2> DEFINE to == ShiftProject(s[1], r.p)
    <2>4. to \in DOMAIN projects' /\ projects'[to] = projects[s[1]]
      <3>1. s[1] \in DOMAIN projects /\ projects \in Seq(Project) BY <1>0, <1>1 DEF Held, Tree
      <3> QED BY <2>2, <2>3, <3>1, ProjectShifted
    <2>5. s[1] \in DOMAIN projects BY <1>1 DEF Held
    <2>6. RowAt(projects', <<to, s[2]>>) = RowAt(projects, <<s[1], s[2]>>)
      <3> HIDE DEF to
      <3> QED BY <2>4, <2>5 DEF RowAt, Held
    <2>7. RowAt(projects, <<s[1], s[2]>>)[2] = s[3] BY DEF StatusesStand
    <2> QED BY <2>3, <2>6, <2>7
  <1>4. ASSUME NEW r \in inflight, NEW hit \in SUBSET r.rows, PrStatusesFetched(r, hit)
        PROVE  StatusesStand'
    <2> DEFINE p == IndexOf(r.slug)
    <2>1. projects' = projects /\ r.op = "fetch" BY <1>4 DEF PrStatusesFetched, treeVars
    <2>2. \A row \in r.rows : row[1] # 0 /\ Has(p, row[1]) /\ projects[p].wts[row[1]].path = row[2]
      BY <1>0, <2>1, StandingPlace
    <2>3. SUFFICES ASSUME NEW t \in pr_statuses'
                   PROVE  RowAt(projects, <<t[1], t[2]>>)[2] = t[3]
      BY <2>1 DEF StatusesStand
    <2>4. t \in pr_statuses \/ \E row \in r.rows : t = <<p, row[1], row[2]>>
      BY <1>4 DEF PrStatusesFetched
    <2>5. CASE t \in pr_statuses BY <2>5 DEF StatusesStand
    <2>6. ASSUME NEW row \in r.rows, t = <<p, row[1], row[2]>>
          PROVE  RowAt(projects, <<t[1], t[2]>>)[2] = t[3]
      <3> HIDE DEF p
      <3> QED BY <2>2, <2>6 DEF RowAt, Has, Held
    <2> QED BY <2>4, <2>5, <2>6
  <1>5. CASE /\ pr_statuses' = pr_statuses
             /\ Redecorated \/ TreeGrown
    <2>1. SUFFICES ASSUME NEW t \in pr_statuses
                   PROVE  RowAt(projects', <<t[1], t[2]>>)[2] = t[3]
      BY <1>5 DEF StatusesStand
    <2>2. RowAt(projects', <<t[1], t[2]>>) = RowAt(projects, <<t[1], t[2]>>)
      BY <1>0, <1>1, <1>5, RowStays
    <2> QED BY <2>2 DEF StatusesStand
  <1>6. \/ Redecorated \/ TreeGrown
        \/ \E r \in inflight : WorktreeRemoved(r)
        \/ \E r \in inflight : ProjectRemoved(r)
    BY <1>0, TreeStep
  <1>7. \/ pr_statuses' = pr_statuses
        \/ \E r \in inflight : WorktreeRemoved(r)
        \/ \E r \in inflight : ProjectRemoved(r)
        \/ \E r \in inflight : \E hit \in SUBSET r.rows : PrStatusesFetched(r, hit)
    <2>1. CASE UserStep BY <2>1, UserLeaves
    <2>2. CASE SupervisorStep \/ LinkStep \/ \E s \in exited : SessionExited(s)
      BY <2>2, OtherLeaves
    <2>3. CASE \E r \in inflight : Applied(r)
      BY <2>3 DEF Applied, SessionSpawned, ProjectValidated, WorktreesImported, WorktreeAdded,
           OperationFailed, PrFetchFailed, uiVars
    <2> QED BY <2>1, <2>2, <2>3 DEF Next
  <1> QED BY <1>2, <1>3, <1>4, <1>5, <1>6, <1>7

\* No row has a tab that it had not.
Fewer == \A y \in TabRows(projects) : TabsAt(projects', y) \subseteq TabsAt(projects, y)

\* Replacing a row changes its tabs and no others.
LEMMA RowTabs ==
  ASSUME Tree, NEW p, NEW w, Has(p, w), NEW x \in Worktree,
         projects' = WithRow(projects, p, w, x)
  PROVE  \A y \in TabRows(projects) :
           TabsAt(projects', y) = IF y = <<p, w>> THEN ToSet(x.tabs) ELSE TabsAt(projects, y)
  <1> DEFINE ps == projects
             qs == projects'
  <1>1. /\ ps \in Seq(Project) /\ p \in DOMAIN ps /\ w \in DOMAIN ps[p].wts
        /\ qs = WithRow(ps, p, w, x)
    BY DEF Tree, Has
  <1> HIDE DEF ps, qs
  <1>2. /\ \A q \in DOMAIN ps : q # p => qs[q] = ps[q]
        /\ \A v \in DOMAIN ps[p].wts : v # w => qs[p].wts[v] = ps[p].wts[v]
        /\ qs[p].wts[w] = x
    BY <1>1, RowReplaced
  <1>3. ASSUME NEW y \in TabRows(ps)
        PROVE  TabsAt(qs, y) = IF y = <<p, w>> THEN ToSet(x.tabs) ELSE TabsAt(ps, y)
    <2>1. y = <<y[1], y[2]>> /\ y[1] \in DOMAIN ps /\ y[2] \in DOMAIN ps[y[1]].wts
      BY <1>1, RowOf
    <2>2. CASE y = <<p, w>> BY <1>2, <2>2 DEF TabsAt
    <2>3. CASE y # <<p, w>>
      <3>1. qs[y[1]].wts[y[2]] = ps[y[1]].wts[y[2]]
        <4>1. CASE y[1] # p BY <1>2, <2>1, <4>1
        <4>2. CASE y[1] = p /\ y[2] # w BY <1>2, <2>1, <4>2
        <4> QED BY <2>1, <2>3, <4>1, <4>2
      <3> QED BY <2>3, <3>1 DEF TabsAt
    <2> QED BY <2>2, <2>3
  <1> QED BY <1>3 DEF ps, qs

\* A row replaced by one with no more tabs leaves every row with no more.
LEMMA RowFewer ==
  ASSUME Tree, NEW p, NEW w, Has(p, w), NEW x \in Worktree,
         projects' = WithRow(projects, p, w, x),
         ToSet(x.tabs) \subseteq ToSet(projects[p].wts[w].tabs)
  PROVE  Fewer
  <1>1. \A y \in TabRows(projects) :
           TabsAt(projects', y) = IF y = <<p, w>> THEN ToSet(x.tabs) ELSE TabsAt(projects, y)
    BY RowTabs
  <1>2. TabsAt(projects, <<p, w>>) = ToSet(projects[p].wts[w].tabs) BY DEF TabsAt
  <1> QED BY <1>1, <1>2 DEF Fewer

\* Activating a worktree may show a tab of it.
LEMMA ActivateFewer ==
  ASSUME Tree, NEW p, NEW w, ActivateWorktree(p, w)
  PROVE  Fewer
  <1>1. CASE Has(p, w) /\ projects[p].wts[w].tabs # <<>> /\ projects[p].wts[w].tab = 0
    <2> DEFINE wt == projects[p].wts[w]
               x == [wt EXCEPT !.tab = 1]
    <2>1. wt \in Worktree /\ wt.tabs \in Seq(Handles) BY <1>1, RowHas DEF Tree
    <2>2. 1 \in DOMAIN wt.tabs BY <1>1, <2>1, EmptySeq
    <2>3. projects' = WithRow(projects, p, w, x) BY <1>1 DEF ActivateWorktree, WithRow
    <2>4. x \in Worktree /\ x.tabs = wt.tabs
      <3>1. x = [wt EXCEPT !.tab = 1] OBVIOUS
      <3> HIDE DEF wt, x
      <3> QED BY <2>1, <2>2, <3>1, TabSelected
    <2>5. ToSet(x.tabs) \subseteq ToSet(projects[p].wts[w].tabs) BY <2>4
    <2> HIDE DEF x
    <2> QED BY <1>1, <2>3, <2>4, <2>5, RowFewer
  <1>2. CASE ~(Has(p, w) /\ projects[p].wts[w].tabs # <<>> /\ projects[p].wts[w].tab = 0)
    BY <1>2 DEF ActivateWorktree, Fewer
  <1> QED BY <1>1, <1>2

\* So may bringing one to the front.
LEMMA SwitchFewer ==
  ASSUME Tree, NEW t, SwitchTab(t)
  PROVE  Fewer
  <1> DEFINE p == active_worktree[1]
             w == active_worktree[2]
             wt == projects[p].wts[w]
             x == [wt EXCEPT !.tab = t]
  <1>1. Has(p, w) /\ t \in DOMAIN wt.tabs BY DEF SwitchTab
  <1>2. wt \in Worktree BY <1>1, RowHas DEF Tree
  <1>3. projects' = WithRow(projects, p, w, x) BY DEF SwitchTab, WithRow
  <1>4. x \in Worktree /\ x.tabs = wt.tabs
    <2>1. x = [wt EXCEPT !.tab = t] OBVIOUS
    <2> HIDE DEF wt, x
    <2> QED BY <1>1, <1>2, <2>1, TabSelected
  <1>5. ToSet(x.tabs) \subseteq ToSet(projects[p].wts[w].tabs) BY <1>4
  <1> HIDE DEF p, w, x
  <1> QED BY <1>1, <1>3, <1>4, <1>5, RowFewer

\* A tab that is taken out is no other.
LEMMA RemovedFewer ==
  ASSUME NEW S, NEW s \in Seq(S), NEW i \in DOMAIN s, NEW t, t = RemoveAt(s, i)
  PROVE  ToSet(t) \subseteq ToSet(s)
  <1>1. /\ t \in Seq(S) /\ Len(t) = Len(s) - 1
        /\ \A j \in 1 .. Len(t) : t[j] = IF j < i THEN s[j] ELSE s[j + 1]
    BY RemovedAt, SMTT(60)
  <1>2. Len(s) \in Nat /\ DOMAIN s = 1 .. Len(s) /\ DOMAIN t = 1 .. Len(t) BY <1>1
  <1>3. ASSUME NEW j \in DOMAIN t PROVE t[j] \in ToSet(s)
    <2>1. j \in DOMAIN s /\ j + 1 \in DOMAIN s BY <1>1, <1>2
    <2>2. t[j] = s[j] \/ t[j] = s[j + 1] BY <1>1, <1>2
    <2> QED BY <2>1, <2>2 DEF ToSet
  <1> QED BY <1>3 DEF ToSet

\* Closing a tab takes it out.
LEMMA CloseFewer ==
  ASSUME Tree, CloseTab
  PROVE  Fewer
  <1> DEFINE p == active_worktree[1]
             w == active_worktree[2]
             wt == projects[p].wts[w]
             x == WithoutTab(wt, wt.tab)
  <1>1. Has(p, w) /\ wt.tab \in DOMAIN wt.tabs BY DEF CloseTab
  <1>2. wt \in Worktree /\ TabShown(wt) /\ wt.tabs \in Seq(Handles)
    BY <1>1, RowHas DEF Tree, AllShown
  <1>3. projects' = WithRow(projects, p, w, x) BY DEF CloseTab, WithRow
  <1>4. x \in Worktree /\ x.tabs = RemoveAt(wt.tabs, wt.tab)
    <2>1. x = WithoutTab(wt, wt.tab) OBVIOUS
    <2> HIDE DEF wt, x
    <2> QED BY <1>1, <1>2, <2>1, TabRemoved
  <1>5. ToSet(x.tabs) \subseteq ToSet(projects[p].wts[w].tabs)
    <2> DEFINE s == wt.tabs
               t == x.tabs
               i == wt.tab
    <2>1. s \in Seq(Handles) /\ i \in DOMAIN s /\ t = RemoveAt(s, i) BY <1>1, <1>2, <1>4
    <2>2. ToSet(t) \subseteq ToSet(s)
      <3> HIDE DEF s, t, i
      <3> QED BY <2>1, RemovedFewer
    <2> QED BY <2>2
  <1> HIDE DEF p, w, x
  <1> QED BY <1>1, <1>3, <1>4, <1>5, RowFewer

\* The user gives no row a tab, and only closing one takes any.
LEMMA UserFewer ==
  ASSUME Tree, UserStep
  PROVE  Fewer /\ (CloseTab \/ UNCHANGED <<sessions, live>>)
  <1>1. \/ projects' = projects
        \/ \E p, w : ActivateWorktree(p, w)
        \/ \E t : SwitchTab(t)
        \/ CloseTab
    BY DEF UserStep, MoveSelection, ClickRow, ActivateSelection, SwitchTab, OpenNewTab, CloseTab,
         OpenLauncher, Launch, CancelPrompt, AddWorktree, SubmitBranch, AskBranch,
         ImportWorktrees, AskRemoveWorktree, ConfirmRemoveWorktree, AskRemoveProject,
         RemoveProject, ConfirmRemoveProject, OpenProject, PeriodicPrCheck, treeVars
  <1>2. CloseTab \/ UNCHANGED <<sessions, live>>
    BY DEF UserStep, MoveSelection, ClickRow, ActivateSelection, SwitchTab, OpenNewTab,
         OpenLauncher, Launch, CancelPrompt, AddWorktree, SubmitBranch, AskBranch,
         ImportWorktrees, AskRemoveWorktree, ConfirmRemoveWorktree, AskRemoveProject,
         RemoveProject, ConfirmRemoveProject, OpenProject, PeriodicPrCheck, treeVars, supVars
  <1>3. projects' = projects => Fewer BY DEF Fewer
  <1> QED BY <1>1, <1>2, <1>3, ActivateFewer, SwitchFewer, CloseFewer

\* The end of a shell takes its tab out, wherever that is.
LEMMA ExitedFewer ==
  ASSUME Tree, NEW s, SessionExited(s)
  PROVE  Redecorated /\ Fewer
  <1> DEFINE id == GlobalId(s)
  <1>1. /\ Redecorated
        /\ \A p \in DOMAIN projects : projects'[p].wts = RowsWithout(id)[p]
    <2> HIDE DEF id
    <2>1. projects' = WithoutSession(projects, id) BY DEF SessionExited, id
    <2> QED BY <2>1, ExitedTree
  <1> HIDE DEF id
  <1>2. ASSUME NEW p \in DOMAIN projects, NEW w \in DOMAIN projects[p].wts
        PROVE  ToSet(projects'[p].wts[w].tabs) \subseteq ToSet(projects[p].wts[w].tabs)
    <2> DEFINE wt == projects[p].wts[w]
               s0 == wt.tabs
               at == PlaceOf(s0, id)
               x == projects'[p].wts[w]
    <2>1. wt \in Worktree /\ TabShown(wt) /\ s0 \in Seq(Handles)
      BY RowHas DEF Tree, AllShown, Has
    <2>2. x = IF at = 0 THEN wt ELSE WithoutTab(wt, at) BY <1>1 DEF RowsWithout
    <2>3. at # 0 => at \in DOMAIN s0
      <3>1. at = PlaceOf(s0, id) OBVIOUS
      <3> HIDE DEF at, s0
      <3> QED BY <2>1, <3>1, PlaceIs
    <2> HIDE DEF at
    <2>4. CASE at = 0
      <3>1. x = wt BY <2>2, <2>4
      <3> QED BY <3>1
    <2>5. CASE at # 0
      <3> DEFINE t == x.tabs
      <3>1. t = RemoveAt(s0, at)
        <4>1. x = WithoutTab(wt, at) BY <2>2, <2>5
        <4> HIDE DEF wt, x
        <4> QED BY <2>1, <2>3, <2>5, <4>1, TabRemoved
      <3>2. ToSet(t) \subseteq ToSet(s0)
        <4> HIDE DEF t, s0
        <4> QED BY <2>1, <2>3, <2>5, <3>1, RemovedFewer
      <3> QED BY <3>2
    <2> QED BY <2>4, <2>5
  <1>3. Fewer BY <1>2 DEF Fewer, TabRows, Held, TabsAt
  <1> QED BY <1>1, <1>3

\* The tabs of every row come from a row of the same worktree.
Traces ==
  \A x \in TabRows(projects') :
    \/ TabsAt(projects', x) = {}
    \/ \E y \in TabRows(projects) :
         /\ RowAt(projects', x) = RowAt(projects, y)
         /\ projects'[x[1]].sup = projects[y[1]].sup
         /\ TabsAt(projects', x) \subseteq TabsAt(projects, y)

\* A shell's worktree is at row x.
Home(ps, x, s) ==
  x \in TabRows(ps) /\ RowAt(ps, x) = <<s.slug, s.path>> /\ ps[x[1]].sup = s.sup

\* Where nothing is removed, a home stays one.
LEMMA HomeStays ==
  ASSUME Tree, Redecorated \/ TreeGrown, NEW x, NEW s, Home(projects, x, s)
  PROVE  Home(projects', x, s)
  <1>1. x \in TabRows(projects) /\ RowAt(projects, x) = <<s.slug, s.path>>
        /\ projects[x[1]].sup = s.sup /\ Held(projects, x[1], x[2]) /\ x \in Nat \X Nat
    BY DEF Home, TabRows
  <1>2. x = <<x[1], x[2]>> BY <1>1
  <1>3. /\ Held(projects', x[1], x[2]) /\ RowAt(projects', x) = RowAt(projects, x)
        /\ projects'[x[1]].sup = projects[x[1]].sup
    <2> DEFINE p == x[1]
               w == x[2]
    <2>1. x = <<p, w>> /\ Held(projects, p, w) BY <1>1, <1>2
    <2> HIDE DEF p, w
    <2>2. /\ Held(projects', p, w) /\ RowAt(projects', <<p, w>>) = RowAt(projects, <<p, w>>)
          /\ projects'[p].sup = projects[p].sup
      BY <2>1, RowStays
    <2> QED BY <2>1, <2>2 DEF p, w
  <1> QED BY <1>1, <1>3 DEF Home, TabRows

\* The rows of a tree of the same shape are the same.
LEMMA SameRows ==
  ASSUME Redecorated
  PROVE  TabRows(projects') = TabRows(projects)
  <1>1. \A p, w : Held(projects', p, w) <=> Held(projects, p, w)
    BY DEF Redecorated, SameShape, Held
  <1> QED BY <1>1 DEF TabRows

\* Rows that lose tabs at most keep theirs where they are.
LEMMA FewerTraces ==
  ASSUME Tree, Redecorated, Fewer
  PROVE  Traces
  <1>1. SUFFICES ASSUME NEW x \in TabRows(projects')
                 PROVE  /\ x \in TabRows(projects)
                        /\ RowAt(projects', x) = RowAt(projects, x)
                        /\ projects'[x[1]].sup = projects[x[1]].sup
                        /\ TabsAt(projects', x) \subseteq TabsAt(projects, x)
    BY DEF Traces
  <1>2. x \in TabRows(projects) BY SameRows
  <1>3. x = <<x[1], x[2]>> /\ Held(projects, x[1], x[2]) BY <1>2 DEF TabRows
  <1>4. RowAt(projects', x) = RowAt(projects, x) /\ projects'[x[1]].sup = projects[x[1]].sup
    <2> DEFINE p == x[1]
               w == x[2]
    <2>1. x = <<p, w>> /\ Held(projects, p, w) BY <1>3
    <2> HIDE DEF p, w
    <2>2. RowAt(projects', <<p, w>>) = RowAt(projects, <<p, w>>)
          /\ projects'[p].sup = projects[p].sup
      BY <2>1, RowStays
    <2> QED BY <2>1, <2>2 DEF p, w
  <1>5. TabsAt(projects', x) \subseteq TabsAt(projects, x) BY <1>2 DEF Fewer
  <1> QED BY <1>2, <1>4, <1>5

\* New rows have no tabs.
LEMMA GrownTraces ==
  ASSUME Tree, TreeGrown
  PROVE  Traces /\ \A y \in TabRows(projects) : TabsAt(projects', y) = TabsAt(projects, y)
  <1>1. ASSUME NEW y \in TabRows(projects)
        PROVE  /\ TabsAt(projects', y) = TabsAt(projects, y)
               /\ RowAt(projects', y) = RowAt(projects, y)
               /\ projects'[y[1]].sup = projects[y[1]].sup
    <2> DEFINE p == y[1]
               w == y[2]
    <2>1. y = <<p, w>> /\ Held(projects, p, w) BY DEF TabRows
    <2> HIDE DEF p, w
    <2>2. RowAt(projects', <<p, w>>) = RowAt(projects, <<p, w>>)
          /\ projects'[p].sup = projects[p].sup
      BY <2>1, RowStays
    <2>3. projects'[p].wts[w] = projects[p].wts[w] BY <2>1 DEF TreeGrown, Grown, Held
    <2>4. y[1] = p /\ y[2] = w BY <2>1
    <2> QED BY <2>1, <2>2, <2>3, <2>4 DEF TabsAt
  <1>2. ASSUME NEW x \in TabRows(projects'), x \notin TabRows(projects)
        PROVE  TabsAt(projects', x) = {}
    <2>1. x \in Nat \X Nat /\ Held(projects', x[1], x[2]) /\ ~Held(projects, x[1], x[2])
      BY <1>2 DEF TabRows
    <2>2. projects'[x[1]].wts[x[2]].tabs = <<>> BY <2>1 DEF TreeGrown, Grown, Held
    <2> QED BY <2>2 DEF TabsAt, ToSet
  <1>3. Traces
    <2>1. SUFFICES ASSUME NEW x \in TabRows(projects'), x \in TabRows(projects)
                   PROVE  /\ RowAt(projects', x) = RowAt(projects, x)
                          /\ projects'[x[1]].sup = projects[x[1]].sup
                          /\ TabsAt(projects', x) \subseteq TabsAt(projects, x)
      BY <1>2 DEF Traces
    <2> QED BY <1>1, <2>1
  <1> QED BY <1>1, <1>3

\* The rows behind a removed one keep their tabs as they move up.
LEMMA RemovedTraces ==
  ASSUME Types, Tree, SlugsApart(projects), RequestsStand,
         NEW r \in inflight, WorktreeRemoved(r)
  PROVE  Traces
  <1> DEFINE ps == projects
             qs == projects'
             p == r.p
             w == r.w
  <1>1. /\ Held(ps, p, w) /\ w \in Nat \ {0} /\ qs \in Seq(Project) /\ RowGone(ps, qs, p, w)
        /\ qs[p].slug = ps[p].slug /\ qs[p].repo = ps[p].repo /\ qs[p].sup = ps[p].sup
        /\ ps \in Seq(Project)
    BY RowRemoval DEF Tree, Has, Held
  <1> HIDE DEF ps, qs, p, w
  <1>2. ASSUME NEW x \in TabRows(qs)
        PROVE  \E y \in TabRows(ps) :
                 /\ RowAt(qs, x) = RowAt(ps, y) /\ qs[x[1]].sup = ps[y[1]].sup
                 /\ TabsAt(qs, x) \subseteq TabsAt(ps, y)
    <2> DEFINE a == x[1]
               b == x[2]
    <2>1. x = <<a, b>> /\ a \in Nat /\ b \in Nat /\ Held(qs, a, b) BY DEF TabRows
    <2>2. a \in DOMAIN ps /\ DOMAIN qs = DOMAIN ps BY <1>1, <2>1 DEF RowGone, Held
    <2> HIDE DEF a, b
    <2>3. b # 0 BY <1>1, <2>1, RowsPositive DEF Held
    <2>4. CASE a # p
      <3>1. qs[a] = ps[a] BY <1>1, <2>2, <2>4 DEF RowGone
      <3>2. x \in TabRows(ps) BY <2>1, <3>1, <2>2 DEF TabRows, Held
      <3>3. RowAt(qs, x) = RowAt(ps, x) BY <2>1, <2>2, <3>1 DEF RowAt, Held
      <3>4. TabsAt(qs, x) = TabsAt(ps, x) BY <2>1, <3>1 DEF TabsAt
      <3>5. qs[x[1]].sup = ps[x[1]].sup BY <2>1, <3>1
      <3> QED BY <3>2, <3>3, <3>4, <3>5
    <2>5. CASE a = p
      <3> DEFINE c == IF b < w THEN b ELSE b + 1
                 y == <<p, c>>
      <3>1. Shortened(ps[p].wts, w, qs[p].wts) BY <1>1 DEF RowGone
      <3>2. b \in DOMAIN qs[p].wts BY <2>1, <2>5 DEF Held
      <3>3. ps[p].wts \in Seq(Worktree) BY <1>1, <2>2, <2>5, RowsPositive
      <3>4. c \in DOMAIN ps[p].wts /\ qs[p].wts[b] = ps[p].wts[c] /\ c \in Nat /\ c # 0
        <4> DEFINE old == ps[p].wts
                   now == qs[p].wts
        <4>1. old \in Seq(Worktree) /\ b \in DOMAIN now /\ b \in Nat /\ b # 0 /\ w \in Nat
          BY <1>1, <2>1, <2>3, <3>2, <3>3
        <4>2. DOMAIN now = 1 .. Len(old) - 1 /\ now[b] = IF b < w THEN old[b] ELSE old[b + 1]
          BY <3>1, <3>2 DEF Shortened
        <4>3. Len(old) \in Nat /\ DOMAIN old = 1 .. Len(old) BY <4>1
        <4> HIDE DEF old, now
        <4>4. c \in DOMAIN old /\ now[b] = old[c] /\ c \in Nat /\ c # 0 BY <4>1, <4>2, <4>3
        <4> QED BY <4>4 DEF old, now
      <3> HIDE DEF c
      <3>5. p \in Nat /\ p \in DOMAIN ps BY <2>1, <2>2, <2>5
      <3>6. y \in TabRows(ps) /\ y[1] = p /\ y[2] = c BY <3>4, <3>5 DEF TabRows, Held
      <3>7. RowAt(qs, x) = RowAt(ps, y)
        BY <1>1, <2>1, <2>2, <2>3, <2>5, <3>2, <3>4, <3>5 DEF RowAt, Held
      <3>8. TabsAt(qs, x) = TabsAt(ps, y) BY <2>1, <2>5, <3>4, <3>6 DEF TabsAt
      <3>9. qs[x[1]].sup = ps[y[1]].sup BY <1>1, <2>1, <2>5, <3>6
      <3> QED BY <3>6, <3>7, <3>8, <3>9
    <2> QED BY <2>4, <2>5
  <1> QED BY <1>2 DEF ps, qs, Traces

\* The projects behind a removed one keep their rows.
LEMMA ProjectRemovedTraces ==
  ASSUME Types, Tree, SlugsApart(projects), RequestsStand,
         NEW r \in inflight, ProjectRemoved(r)
  PROVE  Traces
  <1> DEFINE ps == projects
             qs == projects'
             p == r.p
  <1>1. ProjectGone(ps, qs, p) /\ ps \in Seq(Project) BY ProjectRemoval DEF Tree
  <1> HIDE DEF ps, qs, p
  <1>2. ASSUME NEW x \in TabRows(qs)
        PROVE  \E y \in TabRows(ps) :
                 /\ RowAt(qs, x) = RowAt(ps, y) /\ qs[x[1]].sup = ps[y[1]].sup
                 /\ TabsAt(qs, x) \subseteq TabsAt(ps, y)
    <2> DEFINE a == x[1]
               b == x[2]
               c == IF a < p THEN a ELSE a + 1
               y == <<c, b>>
    <2>1. x = <<a, b>> /\ a \in Nat /\ b \in Nat /\ Held(qs, a, b) BY DEF TabRows
    <2>2. a \in DOMAIN qs BY <2>1 DEF Held
    <2>3. c \in DOMAIN ps /\ c \in Nat /\ qs[a] = ps[c] BY <1>1, <2>1, <2>2 DEF ProjectGone
    <2> HIDE DEF a, b, c
    <2>4. y \in TabRows(ps) /\ y[1] = c /\ y[2] = b BY <2>1, <2>3 DEF TabRows, Held
    <2>5. RowAt(qs, x) = RowAt(ps, y) BY <2>1, <2>2, <2>3, <2>4 DEF RowAt, Held
    <2>6. TabsAt(qs, x) = TabsAt(ps, y) BY <2>1, <2>3, <2>4 DEF TabsAt
    <2>7. qs[x[1]].sup = ps[y[1]].sup BY <2>1, <2>3, <2>4
    <2> QED BY <2>4, <2>5, <2>6, <2>7
  <1> QED BY <1>2 DEF ps, qs, Traces

\* A home other than the removed row is one still.
LEMMA HomeMoves ==
  ASSUME Types, Tree, SlugsApart(projects), RequestsStand,
         NEW r \in inflight, WorktreeRemoved(r),
         NEW y, NEW s, Home(projects, y, s), y # <<r.p, r.w>>
  PROVE  \E x : Home(projects', x, s)
  <1> DEFINE ps == projects
             qs == projects'
             p == r.p
             w == r.w
             to == ShiftRow(y, p, w)
  <1>1. /\ Held(ps, p, w) /\ w \in Nat \ {0} /\ qs \in Seq(Project) /\ RowGone(ps, qs, p, w)
        /\ qs[p].slug = ps[p].slug /\ qs[p].repo = ps[p].repo /\ qs[p].sup = ps[p].sup
        /\ ps \in Seq(Project)
    BY RowRemoval DEF Tree, Has, Held
  <1>2. /\ y \in TabRows(ps) /\ RowAt(ps, y) = <<s.slug, s.path>> /\ ps[y[1]].sup = s.sup
        /\ y # <<p, w>>
    BY DEF Home
  <1> HIDE DEF ps, qs, p, w, to
  <1>3. y \in Nat \X Nat /\ Held(ps, y[1], y[2]) BY <1>2 DEF TabRows
  <1>4. to \in TabRows(qs) /\ RowAt(qs, to) = RowAt(ps, y)
    BY <1>1, <1>2, <1>3, RowFollows DEF to
  <1>5. to[1] = y[1] BY <1>3 DEF to, ShiftRow
  <1>6. qs[y[1]].sup = ps[y[1]].sup
    BY <1>1, <1>3 DEF RowGone, Held
  <1>7. Home(qs, to, s) BY <1>2, <1>4, <1>5, <1>6 DEF Home
  <1> QED BY <1>7 DEF qs

\* So is one of another project than the removed.
LEMMA HomeMovesUp ==
  ASSUME Types, Tree, SlugsApart(projects), RequestsStand,
         NEW r \in inflight, ProjectRemoved(r),
         NEW y, NEW s, Home(projects, y, s), y[1] # r.p
  PROVE  \E x : Home(projects', x, s)
  <1> DEFINE ps == projects
             qs == projects'
             p == r.p
             c == ShiftProject(y[1], p)
             x == <<c, y[2]>>
  <1>1. ProjectGone(ps, qs, p) /\ ps \in Seq(Project) BY ProjectRemoval DEF Tree
  <1>2. /\ y \in TabRows(ps) /\ RowAt(ps, y) = <<s.slug, s.path>> /\ ps[y[1]].sup = s.sup
        /\ y[1] # p
    BY DEF Home
  <1> HIDE DEF ps, qs, p, c
  <1>3. y \in Nat \X Nat /\ Held(ps, y[1], y[2]) /\ y[1] \in DOMAIN ps BY <1>2 DEF TabRows, Held
  <1>4. c \in Nat /\ c \in DOMAIN qs /\ qs[c] = ps[y[1]]
    BY <1>1, <1>2, <1>3, ProjectShifted DEF c
  <1>5. x \in TabRows(qs) /\ x[1] = c /\ x[2] = y[2] BY <1>3, <1>4 DEF TabRows, Held
  <1>6. RowAt(qs, x) = RowAt(ps, y) BY <1>3, <1>4, <1>5 DEF RowAt, Held
  <1>7. Home(qs, x, s) BY <1>2, <1>4, <1>5, <1>6 DEF Home
  <1> QED BY <1>7 DEF qs

\* The reply to a spawn gives one row one tab.
LEMMA SpawnedTabs ==
  ASSUME Types, Tree, NEW r \in inflight, SessionSpawned(r), Has(r.p, r.w)
  PROVE  /\ Redecorated
         /\ \A y \in TabRows(projects) :
              TabsAt(projects', y) \subseteq
                TabsAt(projects, y) \cup
                  (IF y = <<r.p, r.w>> THEN {<<r.n, Link(r.sup)>>} ELSE {})
  <1> DEFINE h == <<r.n, Link(r.sup)>>
             p == r.p
             w == r.w
             wt == projects[p].wts[w]
             x == WithTab(wt, h)
  <1>1. Redecorated BY SpawnedTree
  <1>2. wt \in Worktree /\ wt.tabs \in Seq(Handles) BY RowHas DEF Tree
  <1>3. projects' = WithRow(projects, p, w, x) BY DEF SessionSpawned, WithRow
  <1>4. h \in Handles
    <2>1. r \in Requests /\ losses \in Nat
      BY BoundsAssumption DEF Types, RequestTypes, LinkTypes
    <2>2. r.n \in Nat \ {0} BY <2>1 DEF Requests
    <2> QED BY <2>1, <2>2, HandleIs
  <1>5. x \in Worktree /\ x.tabs = Append(wt.tabs, h)
    <2>1. x = WithTab(wt, h) OBVIOUS
    <2> HIDE DEF wt, x, h
    <2> QED BY <1>2, <1>4, <2>1, TabAdded
  <1>6. ToSet(x.tabs) \subseteq ToSet(wt.tabs) \cup {h}
    <2> DEFINE s == wt.tabs
               t == x.tabs
    <2>1. s \in Seq(Handles) /\ t = Append(s, h) BY <1>2, <1>5
    <2> HIDE DEF s, t, h
    <2>2. \A i \in DOMAIN t : t[i] = h \/ \E j \in DOMAIN s : t[i] = s[j] BY <1>4, <2>1
    <2>3. ToSet(t) \subseteq ToSet(s) \cup {h} BY <2>2 DEF ToSet
    <2> QED BY <2>3 DEF s, t
  <1>7. TabsAt(projects, <<p, w>>) = ToSet(wt.tabs) BY DEF TabsAt
  <1> HIDE DEF h, p, w, x, wt
  <1>8. \A y \in TabRows(projects) :
           TabsAt(projects', y) = IF y = <<p, w>> THEN ToSet(x.tabs) ELSE TabsAt(projects, y)
    <2>1. Has(p, w) BY DEF p, w
    <2> QED BY <1>3, <1>5, <2>1, RowTabs
  <1>9. \A y \in TabRows(projects) :
           TabsAt(projects', y) \subseteq
             TabsAt(projects, y) \cup (IF y = <<p, w>> THEN {h} ELSE {})
    BY <1>6, <1>7, <1>8
  <1> QED BY <1>1, <1>9 DEF h, p, w

\* The loss of a supervisor empties its rows and no others.
LEMMA LostTabs ==
  ASSUME Tree, NEW sup, SupervisorLost(sup)
  PROVE  /\ Redecorated
         /\ \A y \in TabRows(projects) :
              TabsAt(projects', y) =
                IF projects[y[1]].sup = sup THEN {} ELSE TabsAt(projects, y)
  <1>1. /\ Redecorated
        /\ \A p \in DOMAIN projects : projects'[p].wts = RowsLost(sup)[p]
    BY LostTree
  <1>2. ASSUME NEW p \in DOMAIN projects, NEW w \in DOMAIN projects[p].wts
        PROVE  ToSet(projects'[p].wts[w].tabs) =
                 IF projects[p].sup = sup THEN {} ELSE ToSet(projects[p].wts[w].tabs)
    <2>1. CASE projects[p].sup = sup
      <3>1. RowsLost(sup)[p] = [v \in DOMAIN projects[p].wts |->
                                  NewWorktree(projects[p].wts[v].path)]
        BY <2>1 DEF RowsLost
      <3>2. RowsLost(sup)[p][w] = NewWorktree(projects[p].wts[w].path) BY <3>1
      <3>3. projects'[p].wts[w] = NewWorktree(projects[p].wts[w].path) BY <1>1, <3>2
      <3>4. projects'[p].wts[w].tabs = <<>> BY <3>3 DEF NewWorktree
      <3>5. ToSet(<<>>) = {} BY DEF ToSet
      <3> QED BY <2>1, <3>4, <3>5
    <2>2. CASE projects[p].sup # sup
      <3>1. projects'[p].wts[w].tabs = projects[p].wts[w].tabs BY <1>1, <2>2 DEF RowsLost
      <3> QED BY <2>2, <3>1
    <2> QED BY <2>1, <2>2
  <1> QED BY <1>1, <1>2 DEF TabRows, Held, TabsAt

\* A shell is put back into a row of its project, with the name of its worktree.
LEMMA LocatedNames ==
  ASSUME Tree, NEW s, Located(s) # None
  PROVE  /\ Located(s) \in TabRows(projects)
         /\ projects[Located(s)[1]].slug = s.slug
         /\ projects[Located(s)[1]].wts[Located(s)[2]].path[2] = s.path[2]
  <1> DEFINE p == IndexOf(s.slug)
             w == IF p = 0 THEN 0
                  ELSE SelectInSeq(projects[p].wts, LAMBDA wt : wt.path[2] = s.path[2])
  <1>1. w # 0 /\ Located(s) = <<p, w>> BY DEF Located
  <1>2. p # 0 BY <1>1
  <1>3. p \in DOMAIN projects /\ p \in Nat /\ projects[p].slug = s.slug
    <2>1. /\ p \in 0 .. Len(projects)
          /\ p # 0 => p \in DOMAIN projects /\ projects[p].slug = s.slug
      <3> HIDE DEF w
      <3> QED BY IndexIs DEF Tree
    <2> HIDE DEF w, p
    <2> QED BY <1>2, <2>1
  <1>4. w \in DOMAIN projects[p].wts /\ w \in Nat /\ projects[p].wts[w].path[2] = s.path[2]
    <2> DEFINE wts == projects[p].wts
               I == {i \in 1 .. Len(wts) : wts[i].path[2] = s.path[2]}
    <2>1. w = IF I # {} THEN Min(I) ELSE 0 BY <1>2 DEF SelectInSeq
    <2>2. wts \in Seq(Worktree) BY <1>3, ProjectHas DEF Tree
    <2>3. I \in SUBSET (1 .. Len(wts)) /\ Len(wts) \in Nat BY <2>2
    <2>4. w \in I
      <3> HIDE DEF I, w
      <3> QED BY <1>1, <2>1, <2>3, FirstOf
    <2>5. w \in DOMAIN wts /\ w \in Nat /\ wts[w].path[2] = s.path[2]
      <3> HIDE DEF w, p
      <3> QED BY <2>2, <2>4
    <2> QED BY <2>5
  <1> HIDE DEF p, w
  <1> QED BY <1>1, <1>3, <1>4 DEF TabRows, Held

\* Sequences joined have the elements of both.
LEMMA JoinedHas ==
  ASSUME NEW S, NEW s \in Seq(S), NEW o \in Seq(S), NEW t, t = Joined(s, o)
  PROVE  ToSet(t) \subseteq ToSet(s) \cup ToSet(o)
  <1>1. \A i \in DOMAIN t : (\E j \in DOMAIN s : t[i] = s[j]) \/ (\E j \in DOMAIN o : t[i] = o[j])
    <2>1. SUFFICES ASSUME NEW i \in DOMAIN t
                   PROVE  (\E j \in DOMAIN s : t[i] = s[j]) \/ (\E j \in DOMAIN o : t[i] = o[j])
      OBVIOUS
    <2>2. /\ Len(s) \in Nat /\ Len(o) \in Nat /\ i \in 1 .. Len(s) + Len(o)
          /\ DOMAIN s = 1 .. Len(s) /\ DOMAIN o = 1 .. Len(o)
          /\ t[i] = IF i <= Len(s) THEN s[i] ELSE o[i - Len(s)]
      BY DEF Joined
    <2>3. CASE i <= Len(s) BY <2>2, <2>3
    <2>4. CASE i > Len(s)
      <3>1. i - Len(s) \in DOMAIN o /\ t[i] = o[i - Len(s)] BY <2>2, <2>4
      <3> QED BY <3>1
    <2> QED BY <2>2, <2>3, <2>4
  <1> QED BY <1>1 DEF ToSet

\* A connection gives a row the shells that are put back into it.
LEMMA ConnectedTabs ==
  ASSUME Types, Tree, NEW sup, SupervisorConnected(sup)
  PROVE  /\ Redecorated
         /\ \A y \in TabRows(projects) : \A h \in TabsAt(projects', y) :
              \/ h \in TabsAt(projects, y)
              \/ \E t \in Homed(sup) : Located(t) = y /\ h = <<t.id, losses>>
  <1>1. Redecorated BY ConnectedTree
  <1>2. PICK new :
          /\ \A h \in Homes(sup) :
               /\ new[h] \in SetToSeqs(Adopted(sup, h[1], h[2]))
               /\ new[h] \in Seq(Handles) /\ new[h] # <<>>
          /\ \A p \in DOMAIN projects : projects'[p].wts = RowsConnected(Homes(sup), new)[p]
    BY ConnectedTree
  <1>3. SUFFICES ASSUME NEW x \in TabRows(projects), NEW h \in TabsAt(projects', x)
                 PROVE  \/ h \in TabsAt(projects, x)
                        \/ \E t \in Homed(sup) : Located(t) = x /\ h = <<t.id, losses>>
    BY <1>1
  <1> DEFINE ps == projects
             qs == projects'
             old == ps[x[1]].wts[x[2]].tabs
             now == qs[x[1]].wts[x[2]].tabs
  <1>4. /\ x = <<x[1], x[2]>> /\ x[1] \in DOMAIN ps /\ x[2] \in DOMAIN ps[x[1]].wts
        /\ old \in Seq(Handles) /\ ps[x[1]].wts[x[2]] \in Worktree
    BY RowOf DEF Tree
  <1>5. qs[x[1]].wts[x[2]] =
          IF x \notin Homes(sup) THEN ps[x[1]].wts[x[2]]
          ELSE WithTabs(ps[x[1]].wts[x[2]], new[x])
    <2> DEFINE p == x[1]
               w == x[2]
    <2>1. RowsConnected(Homes(sup), new)[p] = [v \in DOMAIN ps[p].wts |->
            IF <<p, v>> \notin Homes(sup) THEN ps[p].wts[v]
            ELSE WithTabs(ps[p].wts[v], new[<<p, v>>])]
      BY <1>4 DEF RowsConnected, WithTabs
    <2>2. RowsConnected(Homes(sup), new)[p][w] =
            IF <<p, w>> \notin Homes(sup) THEN ps[p].wts[w]
            ELSE WithTabs(ps[p].wts[w], new[<<p, w>>])
      BY <1>4, <2>1
    <2>3. qs[p].wts = RowsConnected(Homes(sup), new)[p] BY <1>2, <1>4
    <2> QED BY <1>4, <2>2, <2>3
  <1>6. CASE x \notin Homes(sup)
    <2>1. now = old BY <1>5, <1>6
    <2> QED BY <1>3, <2>1 DEF TabsAt
  <1>7. CASE x \in Homes(sup)
    <2> DEFINE order == new[x]
               B == Adopted(sup, x[1], x[2])
    <2>1. \A s \in Homed(sup) : Located(s) = <<Located(s)[1], Located(s)[2]>>
      BY LocatedIs DEF Homed
    <2>2. order \in SetToSeqs(B) /\ order \in Seq(Handles) BY <1>2, <1>7
    <2>3. IsFiniteSet(B)
      <3>1. ShellTypes /\ losses \in Nat BY BoundsAssumption DEF Types, LinkTypes
      <3> QED BY <1>7, <2>1, <3>1, AdoptedIs
    <2>4. ToSet(order) = B
      <3> HIDE DEF order, B
      <3> QED BY <2>2, <2>3, OnceOrdered
    <2>5. now = Joined(old, order) BY <1>4, <1>5, <1>7 DEF WithTabs, Worktree, Joined
    <2>6. ToSet(now) \subseteq ToSet(old) \cup ToSet(order)
      <3> HIDE DEF now, old, order
      <3> QED BY <1>4, <2>2, <2>5, JoinedHas
    <2>7. h \in ToSet(old) \/ h \in B BY <1>3, <2>4, <2>6 DEF TabsAt
    <2>8. ASSUME h \in B PROVE \E t \in Homed(sup) : Located(t) = x /\ h = <<t.id, losses>>
      <3>1. PICK t \in live : t.sup = sup /\ Located(t) = <<x[1], x[2]>> /\ h = <<t.id, losses>>
        BY <2>8 DEF Adopted
      <3>2. Located(t) = x BY <1>4, <3>1
      <3>3. x # None
        <4>1. x[1] # 0 BY <1>4, RowsPositive DEF Tree
        <4> QED BY <4>1 DEF None
      <3> QED BY <3>1, <3>2, <3>3 DEF Homed
    <2> QED BY <2>7, <2>8 DEF TabsAt
  <1> QED BY <1>6, <1>7

-----------------------------------------------------------------------------
(* Shells and the rows they are in.                                            *)

\* A tab is in the worktree its shell runs in.
TabsHome ==
  \A x \in TabRows(projects), s \in live :
    GlobalId(s) \in TabsAt(projects, x) => Home(projects, x, s)
\* A shell of a connected supervisor has a tab, or its reply is on its way.
ShellsHeld ==
  \A s \in live : s.sup \in connected =>
    GlobalId(s) \in sessions \/ \E r \in inflight : r.op = "spawn" /\ r.n = s.id
\* One of a supervisor that is away has a worktree to be put back into.
ShellsAway == \A s \in live : s.sup \notin connected => \E x : Home(projects, x, s)
\* A shell is what its spawn asked for.
SpawnsLive ==
  \A r \in inflight, s \in live :
    r.op = "spawn" /\ s.id = r.n => s.slug = r.slug /\ s.path = r.path
\* Nothing runs in a worktree or a project that was removed.
RowsEmptied ==
  \A r \in inflight, s \in live :
    r.op = "rmwt" /\ r.done = "ok" => GlobalId(s) \notin TabsAt(projects, <<r.p, r.w>>)
ProjectsEmptied ==
  \A r \in inflight, s \in live : r.op = "rmproj" /\ r.done = "ok" => s.slug # r.slug
\* A shell whose end is on its way to the client is not another's, nor to be started.
ExitsApart ==
  /\ \A s \in exited, t \in live : s.id # t.id
  /\ \A s \in exited, r \in inflight : r.op = "spawn" /\ r.done = "no" => r.n # s.id

ShellsInv ==
  /\ TabsHome /\ ShellsHeld /\ ShellsAway /\ SpawnsLive
  /\ RowsEmptied /\ ProjectsEmptied /\ ExitsApart

\* What holds whether or not requests cross, and what holds while they do not.
Ground == PositionInv /\ FilesAreShown /\ TabsAreHeld /\ HandlesInv
Landing ==
  /\ RequestsStand /\ FoundOwn /\ PromptStands /\ RowsOwn
  /\ scattered \/ StatusesStand
  /\ misled = {} /\ ShellsInv

\* The parts of the ground that the lemmas name.
LEMMA GroundIs ==
  ASSUME Ground
  PROVE  /\ Types /\ Tree /\ SlugsApart(projects) /\ sessions = AllTabs(projects)
         /\ TabsApart(projects) /\ ActiveIn /\ projects \in Seq(Project)
  BY DEF Ground, PositionInv, FilesAreShown, TabsAreHeld, Tree, AllShown, TabsShown, Types,
         TreeTypes

\* A handle is the same where no connection is lost.
LEMMA HandleStays ==
  ASSUME UNCHANGED losses, NEW s
  PROVE  GlobalId(s)' = GlobalId(s)
  BY DEF GlobalId, Link

\* Where the rows of tabs can be traced, tabs stay at home.
LEMMA HomeTraced ==
  ASSUME TabsHome, Traces, live' \subseteq live, UNCHANGED losses
  PROVE  TabsHome'
  <1>1. SUFFICES ASSUME NEW x \in TabRows(projects'), NEW s \in live',
                        GlobalId(s)' \in TabsAt(projects', x)
                 PROVE  Home(projects', x, s)
    BY DEF TabsHome
  <1>2. s \in live /\ GlobalId(s) \in TabsAt(projects', x) BY <1>1, HandleStays
  <1>3. PICK y \in TabRows(projects) :
          /\ RowAt(projects', x) = RowAt(projects, y)
          /\ projects'[x[1]].sup = projects[y[1]].sup
          /\ TabsAt(projects', x) \subseteq TabsAt(projects, y)
    BY <1>2 DEF Traces
  <1>4. Home(projects, y, s) BY <1>2, <1>3 DEF TabsHome
  <1> QED BY <1>3, <1>4 DEF Home

\* Every shell has a worktree that is listed.
LEMMA Housed ==
  ASSUME Ground, Landing, NEW s \in live
  PROVE  \E x : Home(projects, x, s)
  <1>0. /\ Types /\ SlugsApart(projects) /\ sessions = AllTabs(projects)
        /\ RequestsStand /\ TabsHome /\ ShellsHeld /\ ShellsAway /\ SpawnsLive
        /\ SpawnsHandled
    BY GroundIs DEF Landing, ShellsInv, Ground, HandlesInv
  <1>1. CASE s.sup \notin connected BY <1>0, <1>1 DEF ShellsAway
  <1>2. CASE s.sup \in connected /\ GlobalId(s) \in sessions
    <2>1. PICK x \in TabRows(projects) : GlobalId(s) \in TabsAt(projects, x)
      BY <1>0, <1>2 DEF AllTabs
    <2> QED BY <1>0, <2>1 DEF TabsHome
  <1>3. ASSUME NEW r \in inflight, r.op = "spawn", r.n = s.id
        PROVE  \E x : Home(projects, x, s)
    <2>1. s.slug = r.slug /\ s.path = r.path /\ s.sup = r.sup
      BY <1>0, <1>3 DEF SpawnsLive, SpawnsHandled
    <2> DEFINE p == r.p
               w == r.w
               x == <<p, w>>
    <2>2. Sound(projects, r) BY <1>0 DEF RequestsStand
    <2>3. Shaped(r) BY <1>3, <2>2 DEF Sound
    <2>4. w # 0 /\ r.rows = {<<w, r.path>>} BY <1>3, <2>3 DEF Shaped
    <2>5. /\ p \in DOMAIN projects /\ projects[p].slug = r.slug /\ projects[p].sup = r.sup
          /\ w # 0 => Has(p, w)
          /\ \A row \in r.rows : projects[p].wts[row[1]].path = row[2]
      BY <1>0, <1>3, StandingPlace
    <2>6. projects[p].wts[w].path = r.path
      <3>1. <<w, r.path>> \in r.rows BY <2>4
      <3> QED BY <2>5, <3>1
    <2> HIDE DEF p, w
    <2>7. Has(p, w) BY <2>4, <2>5
    <2>8. p \in Nat /\ w \in Nat BY <1>0, <2>7, RowHas DEF Types, TreeTypes
    <2>9. x \in TabRows(projects) /\ x[1] = p /\ x[2] = w
      BY <2>7, <2>8 DEF TabRows, Held, Has
    <2>10. RowAt(projects, x) = <<s.slug, s.path>>
      BY <2>1, <2>4, <2>5, <2>6, <2>7, <2>9 DEF RowAt, Has, Held
    <2>11. Home(projects, x, s) BY <2>1, <2>5, <2>9, <2>10 DEF Home
    <2> QED BY <2>11
  <1> QED BY <1>0, <1>1, <1>2, <1>3 DEF ShellsHeld

\* A shell is started by the spawn that asks for it, and by nothing else.
LEMMA LiveStep ==
  ASSUME Next, NEW s \in live', s \notin live
  PROVE  \E r \in inflight :
           /\ Handle(r, TRUE) /\ r.op = "spawn" /\ r.done = "no"
           /\ s.id = r.n /\ s.sup = r.sup /\ s.path = r.path /\ s.slug = r.slug
  <1>1. CASE UserStep BY <1>1, UserLive
  <1>2. CASE \E r \in inflight : Applied(r) BY <1>2, AppliedLeaves
  <1>3. ASSUME NEW r \in inflight, NEW ok \in BOOLEAN, Handle(r, ok)
        PROVE  /\ Handle(r, TRUE) /\ r.op = "spawn" /\ r.done = "no"
               /\ s.id = r.n /\ s.sup = r.sup /\ s.path = r.path /\ s.slug = r.slug
    <2>1. PICK stopped :
            live' = (live \ stopped) \cup
              (IF ok /\ r.op = "spawn"
               THEN {[id |-> r.n, sup |-> r.sup, path |-> r.path, slug |-> r.slug]} ELSE {})
      BY <1>3 DEF Handle
    <2>2. ok /\ r.op = "spawn"
          /\ s = [id |-> r.n, sup |-> r.sup, path |-> r.path, slug |-> r.slug]
      BY <2>1
    <2>3. ok = TRUE BY <2>2
    <2>4. Handle(r, TRUE) BY <1>3, <2>3
    <2>5. r.done = "no" BY <1>3 DEF Handle
    <2> QED BY <2>2, <2>4, <2>5
  <1>4. CASE (\E x \in live : ShellExits(x)) \/ (\E x \in exited : SessionExited(x)) \/ LinkStep
    BY <1>4 DEF ShellExits, SessionExited, LinkStep, SupervisorLost, SupervisorConnected
  <1> QED BY <1>1, <1>2, <1>3, <1>4 DEF Next, SupervisorStep

\* So is a request answered.
LEMMA AnsweredStep ==
  ASSUME Ground, Landing, Next, NEW r \in inflight', r \notin inflight, r.done # "no"
  PROVE  \E q \in inflight, ok \in BOOLEAN :
           /\ Handle(q, ok) /\ r.done = (IF ok THEN "ok" ELSE "fail")
           /\ inflight' = (inflight \ {q}) \cup {r}
           /\ r.n = q.n /\ r.op = q.op /\ r.sup = q.sup /\ r.p = q.p /\ r.w = q.w
           /\ r.slug = q.slug /\ r.path = q.path /\ r.rows = q.rows
  <1>0. Types /\ Tree /\ ActiveIn /\ RequestsStand /\ FoundOwn /\ PromptStands
    BY GroundIs DEF Landing
  <1>1. CASE UserStep BY <1>0, <1>1, UserFresh DEF Sends, Fresh
  <1>2. CASE \E q \in inflight : Applied(q) BY <1>0, <1>2, AppliedFresh DEF Fresh
  <1>3. ASSUME NEW q \in inflight, NEW ok \in BOOLEAN, Handle(q, ok)
        PROVE  /\ r.done = (IF ok THEN "ok" ELSE "fail")
               /\ inflight' = (inflight \ {q}) \cup {r}
               /\ r.n = q.n /\ r.op = q.op /\ r.sup = q.sup /\ r.p = q.p /\ r.w = q.w
               /\ r.slug = q.slug /\ r.path = q.path /\ r.rows = q.rows
    <2>1. PICK y : /\ inflight' = (inflight \ {q}) \cup {y}
                   /\ y.n = q.n /\ y.op = q.op /\ y.sup = q.sup /\ y.p = q.p /\ y.w = q.w
                   /\ y.slug = q.slug /\ y.path = q.path /\ y.rows = q.rows
                   /\ y.done = (IF ok THEN "ok" ELSE "fail")
      BY <1>0, <1>3, HandledIs
    <2>2. r = y BY <2>1
    <2> QED BY <2>1, <2>2
  <1>4. CASE (\E x \in live : ShellExits(x)) \/ (\E x \in exited : SessionExited(x)) \/ LinkStep
    <2>1. inflight' \subseteq inflight
      BY <1>4 DEF ShellExits, SessionExited, LinkStep, SupervisorLost, SupervisorConnected, reqVars
    <2> QED BY <2>1
  <1> QED BY <1>1, <1>2, <1>3, <1>4 DEF Next, SupervisorStep

\* A lost or a connected supervisor is the remote one.
LEMMA LinkIs ==
  ASSUME LinkStep
  PROVE  \E sup \in Sups : /\ SupervisorLost(sup) \/ SupervisorConnected(sup)
                           /\ sup = REMOTE_SUP
  BY HostAssumption, SupsAre DEF LinkStep, SupervisorLost, SupervisorConnected

\* Tabs can be traced through every step but those that give rows new ones.
LEMMA TracesStep ==
  ASSUME Types, Tree, SlugsApart(projects), RequestsStand, Next
  PROVE  \/ Traces /\ live' \subseteq live /\ UNCHANGED linkVars
         \/ \E r \in inflight : SessionSpawned(r)
         \/ \E r \in inflight, ok \in BOOLEAN : Handle(r, ok)
         \/ LinkStep
  <1>1. CASE UserStep BY <1>1, UserTree, UserFewer, UserLive, UserLeaves, FewerTraces
  <1>2. ASSUME NEW r \in inflight, Applied(r), ~SessionSpawned(r)
        PROVE  Traces /\ live' \subseteq live /\ UNCHANGED linkVars
    <2>1. live' \subseteq live /\ UNCHANGED linkVars BY <1>2, AppliedLeaves
    <2>2. CASE ProjectValidated(r) \/ WorktreesImported(r) \/ WorktreeAdded(r)
      BY <2>1, <2>2, ValidatedTree, ImportedTree, AddedTree, GrownTraces
    <2>3. CASE WorktreeRemoved(r) BY <2>1, <2>3, RemovedTraces
    <2>4. CASE ProjectRemoved(r) BY <2>1, <2>4, ProjectRemovedTraces
    <2>5. CASE \/ OperationFailed(r) \/ PrFetchFailed(r)
               \/ \E hit \in SUBSET r.rows : PrStatusesFetched(r, hit)
      <3>1. projects' = projects
        BY <2>5 DEF OperationFailed, PrFetchFailed, PrStatusesFetched, treeVars
      <3>2. Fewer BY <3>1 DEF Fewer
      <3> QED BY <2>1, <3>1, <3>2, TreeUnchanged, FewerTraces
    <2> QED BY <1>2, <2>2, <2>3, <2>4, <2>5 DEF Applied
  <1>3. CASE \E s \in live : ShellExits(s)
    <2>1. projects' = projects /\ live' \subseteq live /\ UNCHANGED linkVars
      BY <1>3 DEF ShellExits, treeVars
    <2>2. Fewer BY <2>1 DEF Fewer
    <2> QED BY <2>1, <2>2, TreeUnchanged, FewerTraces
  <1>4. CASE \E s \in exited : SessionExited(s)
    <2>1. live' \subseteq live /\ UNCHANGED linkVars BY <1>4 DEF SessionExited
    <2> QED BY <1>4, <2>1, ExitedFewer, FewerTraces
  <1> QED BY <1>1, <1>2, <1>3, <1>4 DEF Next, SupervisorStep

\* A home stays or moves, unless it is removed.
LEMMA HomesStep ==
  ASSUME Types, Tree, SlugsApart(projects), RequestsStand, Next,
         NEW y, NEW s, Home(projects, y, s),
         \A r \in inflight : /\ WorktreeRemoved(r) => y # <<r.p, r.w>>
                             /\ ProjectRemoved(r) => y[1] # r.p
  PROVE  \E x : Home(projects', x, s)
  <1>1. CASE Redecorated \/ TreeGrown BY <1>1, HomeStays
  <1>2. CASE \E r \in inflight : WorktreeRemoved(r) BY <1>2, HomeMoves
  <1>3. CASE \E r \in inflight : ProjectRemoved(r) BY <1>3, HomeMovesUp
  <1> QED BY <1>1, <1>2, <1>3, TreeStep

\* The reply to a spawn puts its shell's tab where it runs.
LEMMA SpawnedHome ==
  ASSUME Ground, Landing, NEW r \in inflight, SessionSpawned(r)
  PROVE  TabsHome'
  <1>0. /\ Types /\ Tree /\ SlugsApart(projects) /\ RequestsStand /\ TabsHome /\ SpawnsLive
        /\ SpawnsHandled
    BY GroundIs DEF Landing, ShellsInv, Ground, HandlesInv
  <1>1. r.op = "spawn" /\ UNCHANGED losses
    BY DEF SessionSpawned, linkVars
  <1>2. Shaped(r) /\ r.w # 0
    BY <1>0, <1>1 DEF RequestsStand, Sound, Shaped
  <1>3. /\ r.p \in DOMAIN projects /\ projects[r.p].slug = r.slug /\ projects[r.p].sup = r.sup
        /\ Has(r.p, r.w)
        /\ \A row \in r.rows : projects[r.p].wts[row[1]].path = row[2]
    BY <1>0, <1>1, <1>2, StandingPlace
  <1>4. projects[r.p].wts[r.w].path = r.path
    <2>1. <<r.w, r.path>> \in r.rows BY <1>1, <1>2 DEF Shaped
    <2> QED BY <1>3, <2>1
  <1>5. live' = live BY <1>3 DEF SessionSpawned
  <1>6. /\ Redecorated
        /\ \A y \in TabRows(projects) :
             TabsAt(projects', y) \subseteq
               TabsAt(projects, y) \cup
                 (IF y = <<r.p, r.w>> THEN {<<r.n, Link(r.sup)>>} ELSE {})
    BY <1>0, <1>3, SpawnedTabs
  <1>7. SUFFICES ASSUME NEW x \in TabRows(projects), NEW s \in live,
                        GlobalId(s) \in TabsAt(projects', x)
                 PROVE  Home(projects, x, s)
    <2>1. TabRows(projects') = TabRows(projects) BY <1>6, SameRows
    <2>2. \A s : GlobalId(s)' = GlobalId(s) BY <1>1, HandleStays
    <2> QED BY <1>0, <1>5, <1>6, <2>1, <2>2, HomeStays DEF TabsHome
  <1>8. CASE GlobalId(s) \in TabsAt(projects, x) BY <1>0, <1>8 DEF TabsHome
  <1>9. CASE x = <<r.p, r.w>> /\ GlobalId(s) = <<r.n, Link(r.sup)>>
    <2>1. s.id = r.n BY <1>9 DEF GlobalId
    <2>2. s.slug = r.slug /\ s.path = r.path /\ s.sup = r.sup
      BY <1>0, <1>1, <2>1 DEF SpawnsLive, SpawnsHandled
    <2> DEFINE p == r.p
               w == r.w
    <2>3. x = <<p, w>> /\ x[1] = p /\ x[2] = w /\ Held(projects, p, w) /\ w # 0
      BY <1>2, <1>3, <1>9 DEF Has, Held
    <2>4. projects[p].slug = s.slug /\ projects[p].sup = s.sup /\ projects[p].wts[w].path = s.path
      BY <1>3, <1>4, <2>2
    <2> HIDE DEF p, w
    <2>5. RowAt(projects, x) = <<s.slug, s.path>> BY <2>3, <2>4 DEF RowAt, Held
    <2> QED BY <2>3, <2>4, <2>5 DEF Home
  <1> QED BY <1>6, <1>7, <1>8, <1>9

\* An answer to a spawn has a handle that no row has.
LEMMA HandledHome ==
  ASSUME Ground, Landing, NEW r \in inflight, NEW ok \in BOOLEAN, Handle(r, ok)
  PROVE  TabsHome'
  <1>0. /\ Types /\ sessions = AllTabs(projects) /\ TabsHome /\ SpawnsNew /\ Next
    BY GroundIs DEF Landing, ShellsInv, Ground, HandlesInv, Next, SupervisorStep
  <1>1. projects' = projects /\ UNCHANGED losses BY DEF Handle, treeVars, linkVars
  <1>2. \A s : GlobalId(s)' = GlobalId(s) BY <1>1, HandleStays
  <1>3. SUFFICES ASSUME NEW x \in TabRows(projects), NEW s \in live',
                        GlobalId(s) \in TabsAt(projects, x)
                 PROVE  s \in live
    BY <1>0, <1>1, <1>2 DEF TabsHome
  <1>4. SUFFICES ASSUME s \notin live PROVE FALSE OBVIOUS
  <1>5. PICK q \in inflight : q.op = "spawn" /\ s.id = q.n /\ s.sup = q.sup
    BY <1>0, <1>4, LiveStep
  <1>6. GlobalId(s) = <<q.n, Link(q.sup)>> BY <1>5 DEF GlobalId
  <1>7. GlobalId(s) \in sessions BY <1>0, <1>3 DEF AllTabs
  <1> QED BY <1>0, <1>5, <1>6, <1>7 DEF SpawnsNew

\* With the connection its handles go.
LEMMA LostHome ==
  ASSUME Ground, Landing, NEW sup \in Sups, SupervisorLost(sup)
  PROVE  TabsHome'
  <1>0. /\ Types /\ Tree /\ sessions = AllTabs(projects) /\ TabsHome /\ SessionsNumbered
    BY GroundIs DEF Landing, ShellsInv, Ground, HandlesInv
  <1>1. /\ losses' = losses + 1 /\ live' = live /\ losses \in Nat
    BY <1>0, BoundsAssumption DEF SupervisorLost, Types, LinkTypes
  <1>2. /\ Redecorated
        /\ \A y \in TabRows(projects) : TabsAt(projects', y) \subseteq TabsAt(projects, y)
    BY <1>0, LostTabs
  <1>3. SUFFICES ASSUME NEW x \in TabRows(projects), NEW s \in live,
                        GlobalId(s)' \in TabsAt(projects, x)
                 PROVE  GlobalId(s)' = GlobalId(s)
    <2>1. TabRows(projects') = TabRows(projects) BY <1>2, SameRows
    <2> QED BY <1>0, <1>1, <1>2, <2>1, HomeStays DEF TabsHome
  <1>4. GlobalId(s)' \in sessions BY <1>0, <1>3 DEF AllTabs
  <1>5. CASE s.sup = LOCAL_SUP BY <1>5 DEF GlobalId, Link
  <1>6. CASE s.sup # LOCAL_SUP
    <2>1. GlobalId(s)' = <<s.id, losses + 1>> BY <1>1, <1>6 DEF GlobalId, Link
    <2>2. losses + 1 <= losses BY <1>0, <1>4, <2>1 DEF SessionsNumbered
    <2> QED BY <1>1, <2>2
  <1> QED BY <1>5, <1>6

\* A shell comes back where it was.
LEMMA ConnectedHome ==
  ASSUME Ground, Landing, NEW sup \in Sups, SupervisorConnected(sup)
  PROVE  TabsHome'
  <1>0. /\ Types /\ Tree /\ TabsHome /\ ShellsApart /\ ShellsAway /\ RowsOwn
        /\ SlugsApart(projects) /\ projects \in Seq(Project)
    BY GroundIs DEF Landing, ShellsInv, Ground, HandlesInv
  <1>1. /\ UNCHANGED losses /\ live' \subseteq live /\ sup \notin connected
    BY DEF SupervisorConnected
  <1>2. /\ Redecorated
        /\ \A y \in TabRows(projects) : \A h \in TabsAt(projects', y) :
             \/ h \in TabsAt(projects, y)
             \/ \E t \in Homed(sup) : Located(t) = y /\ h = <<t.id, losses>>
    BY <1>0, ConnectedTabs
  <1>3. SUFFICES ASSUME NEW x \in TabRows(projects), NEW s \in live,
                        GlobalId(s) \in TabsAt(projects', x)
                 PROVE  Home(projects, x, s)
    <2>1. TabRows(projects') = TabRows(projects) BY <1>2, SameRows
    <2>2. \A s : GlobalId(s)' = GlobalId(s) BY <1>1, HandleStays
    <2> QED BY <1>0, <1>1, <1>2, <2>1, <2>2, HomeStays DEF TabsHome
  <1>4. CASE GlobalId(s) \in TabsAt(projects, x) BY <1>0, <1>4 DEF TabsHome
  <1>5. ASSUME NEW t \in Homed(sup), Located(t) = x, GlobalId(s) = <<t.id, losses>>
        PROVE  Home(projects, x, s)
    <2>1. t \in live /\ t.sup = sup /\ Located(t) # None BY DEF Homed
    <2>2. s = t BY <1>0, <1>5, <2>1 DEF GlobalId, ShellsApart
    <2>3. /\ projects[x[1]].slug = s.slug /\ projects[x[1]].wts[x[2]].path[2] = s.path[2]
          /\ projects[x[1]].sup = s.sup
      BY <1>0, <1>5, <2>1, <2>2, LocatedNames, LocatedIs
    <2>4. PICK y : Home(projects, y, s) BY <1>0, <1>1, <2>1, <2>2 DEF ShellsAway
    <2> DEFINE p == x[1]
               w == x[2]
               v == y[2]
    <2>5. y \in TabRows(projects) /\ RowAt(projects, y) = <<s.slug, s.path>> BY <2>4 DEF Home
    <2>6. /\ y[1] \in DOMAIN projects /\ v \in DOMAIN projects[y[1]].wts
          /\ p \in DOMAIN projects /\ w \in DOMAIN projects[p].wts
          /\ projects[y[1]].wts[v] \in Worktree /\ projects[p].wts[w] \in Worktree
      BY <1>0, <1>3, <2>5, RowOf
    <2>7. RowAt(projects, y) = <<projects[y[1]].slug, projects[y[1]].wts[v].path>>
          /\ RowAt(projects, x) = <<projects[p].slug, projects[p].wts[w].path>>
      BY <1>0, <2>6, RowAtIs DEF Held
    <2>8. projects[y[1]].slug = s.slug /\ projects[y[1]].wts[v].path = s.path
      BY <2>5, <2>7
    <2>9. y[1] = p BY <1>0, <2>3, <2>6, <2>8 DEF SlugsApart
    <2>10. projects[p].wts[w].path[1] = projects[p].wts[v].path[1]
      BY <1>0, <2>6, <2>9 DEF RowsOwn
    <2>11. projects[p].wts[w].path \in Paths /\ s.path \in Paths
      BY <2>6, <2>8 DEF Worktree
    <2>12. projects[p].wts[w].path[1] = s.path[1] /\ projects[p].wts[w].path[2] = s.path[2]
      BY <2>3, <2>8, <2>9, <2>10
    <2>13. projects[p].wts[w].path = s.path
      <3> DEFINE a == projects[p].wts[w].path
                 b == s.path
      <3>1. a \in Paths /\ b \in Paths /\ a[1] = b[1] /\ a[2] = b[2] BY <2>11, <2>12
      <3> HIDE DEF a, b
      <3>2. a = <<a[1], a[2]>> /\ b = <<b[1], b[2]>> BY <3>1 DEF Paths
      <3>3. a = b BY <3>1, <3>2
      <3> QED BY <3>3 DEF a, b
    <2>14. RowAt(projects, x) = <<s.slug, s.path>> BY <2>3, <2>7, <2>13
    <2> QED BY <1>3, <2>3, <2>14 DEF Home
  <1> QED BY <1>2, <1>3, <1>4, <1>5

\* Tabs stay at home in every step.
LEMMA TabsHomeStep ==
  ASSUME Ground, Landing, Next
  PROVE  TabsHome'
  <1>0. Types /\ Tree /\ SlugsApart(projects) /\ RequestsStand /\ TabsHome
    BY GroundIs DEF Landing, ShellsInv
  <1>1. CASE Traces /\ live' \subseteq live /\ UNCHANGED linkVars
    BY <1>0, <1>1, HomeTraced DEF linkVars
  <1>2. CASE \E r \in inflight : SessionSpawned(r) BY <1>2, SpawnedHome
  <1>3. CASE \E r \in inflight, ok \in BOOLEAN : Handle(r, ok) BY <1>3, HandledHome
  <1>4. CASE LinkStep BY <1>4, LinkIs, LostHome, ConnectedHome
  <1> QED BY <1>0, <1>1, <1>2, <1>3, <1>4, TracesStep

\* The shells of a supervisor that is away keep their worktrees.
LEMMA ShellsAwayStep ==
  ASSUME Ground, Landing, Next
  PROVE  ShellsAway'
  <1>0. Types /\ Tree /\ SlugsApart(projects) /\ RequestsStand /\ ShellsAway
    BY GroundIs DEF Landing, ShellsInv
  <1>1. SUFFICES ASSUME NEW s \in live', s.sup \notin connected'
                 PROVE  \E x : Home(projects', x, s)
    BY DEF ShellsAway
  <1>2. CASE s \notin live
    <2>1. PICK r \in inflight : Handle(r, TRUE) /\ s.sup = r.sup BY <1>2, LiveStep
    <2>2. r.sup \in connected /\ connected' = connected
      BY <1>0, <2>1 DEF Handle, linkVars, Types, RequestTypes
    <2> QED BY <1>1, <2>1, <2>2
  <1>3. CASE s \in live
    <2>1. PICK y : Home(projects, y, s) BY <1>3, Housed
    <2>2. ASSUME NEW r \in inflight, WorktreeRemoved(r)
          PROVE  y # <<r.p, r.w>>
      <3>1. r.sup \in connected /\ connected' = connected /\ r.op = "rmwt"
        BY <1>0, <2>2 DEF WorktreeRemoved, linkVars, Types, RequestTypes
      <3>2. projects[r.p].sup = r.sup BY <1>0, <3>1, StandingPlace
      <3>3. projects[y[1]].sup = s.sup BY <2>1 DEF Home
      <3> QED BY <1>1, <3>1, <3>2, <3>3
    <2>3. ASSUME NEW r \in inflight, ProjectRemoved(r)
          PROVE  y[1] # r.p
      <3>1. r.sup \in connected /\ connected' = connected /\ r.op = "rmproj"
        BY <1>0, <2>3 DEF ProjectRemoved, linkVars, Types, RequestTypes
      <3>2. projects[r.p].sup = r.sup BY <1>0, <3>1, StandingPlace
      <3>3. projects[y[1]].sup = s.sup BY <2>1 DEF Home
      <3> QED BY <1>1, <3>1, <3>2, <3>3
    <2> QED BY <1>0, <2>1, <2>2, <2>3, HomesStep
  <1> QED BY <1>2, <1>3

\* Spawns are sent one at a time, or answered.
LEMMA SpawnsStep ==
  ASSUME Types, Next
  PROVE  Spawning \/ \E r \in inflight, ok \in BOOLEAN : Handle(r, ok)
  <1>1. CASE (\E x \in live : ShellExits(x)) \/ (\E x \in exited : SessionExited(x)) \/ LinkStep
    <2>1. inflight' \subseteq inflight
      BY <1>1 DEF ShellExits, SessionExited, LinkStep, SupervisorLost, SupervisorConnected, reqVars
    <2> QED BY <2>1, SentNothing
  <1> QED BY <1>1, UserSpawns, AppliedSpawns DEF Next, SupervisorStep

\* A shell stays what its spawn asked for.
LEMMA SpawnsLiveStep ==
  ASSUME Ground, Landing, Next
  PROVE  SpawnsLive'
  <1>0. Types /\ SpawnsLive /\ SpawnsApart
    BY GroundIs DEF Landing, ShellsInv, Ground, HandlesInv
  <1>1. SUFFICES ASSUME NEW r \in inflight', NEW s \in live', r.op = "spawn", s.id = r.n
                 PROVE  s.slug = r.slug /\ s.path = r.path
    BY DEF SpawnsLive
  <1>2. s \notin live =>
          \E q \in inflight : Handle(q, TRUE) /\ q.op = "spawn" /\ s.id = q.n
                              /\ s.path = q.path /\ s.slug = q.slug
    BY LiveStep
  <1>3. ASSUME NEW q \in inflight, NEW ok \in BOOLEAN, Handle(q, ok)
        PROVE  s.slug = r.slug /\ s.path = r.path
    <2>1. PICK y : /\ inflight' = (inflight \ {q}) \cup {y}
                   /\ y.n = q.n /\ y.op = q.op /\ y.slug = q.slug /\ y.path = q.path
      BY <1>0, <1>3, HandledIs
    <2>2. PICK z \in inflight : z.op = "spawn" /\ z.n = r.n /\ z.slug = r.slug /\ z.path = r.path
      BY <1>1, <2>1
    <2>3. CASE s \in live BY <1>0, <1>1, <2>2, <2>3 DEF SpawnsLive
    <2>4. CASE s \notin live
      <3>1. PICK x \in inflight : x.op = "spawn" /\ s.id = x.n /\ s.path = x.path /\ s.slug = x.slug
        BY <1>2, <2>4
      <3>2. x = z BY <1>0, <1>1, <2>2, <3>1 DEF SpawnsApart
      <3> QED BY <2>2, <3>1, <3>2
    <2> QED BY <2>3, <2>4
  <1>4. CASE Spawning
    <2>1. CASE s \in live
      <3>1. s.id <= issued /\ s.id \in Nat /\ issued \in Nat
        BY <1>0, <2>1 DEF Types, ShellTypes, Shells, RequestTypes
      <3>2. r \in inflight \/ r.n = issued + 1 BY <1>1, <1>4 DEF Spawning
      <3>3. r \in inflight BY <1>1, <3>1, <3>2
      <3> QED BY <1>0, <1>1, <2>1, <3>3 DEF SpawnsLive
    <2>2. CASE s \notin live
      <3>1. TRUE \in BOOLEAN OBVIOUS
      <3> QED BY <1>2, <1>3, <2>2, <3>1
    <2> QED BY <2>1, <2>2
  <1> QED BY <1>0, <1>3, <1>4, SpawnsStep

\* The end of a shell is not noticed before it ends.
LEMMA ExitedStep ==
  ASSUME Next, NEW s \in exited', s \notin exited
  PROVE  /\ s \in live
         /\ s \notin live' \/ \E r \in inflight, ok \in BOOLEAN : Handle(r, ok)
  <1>1. CASE UserStep BY <1>1, UserLeaves
  <1>2. CASE \E r \in inflight : Applied(r) BY <1>2, AppliedLeaves
  <1>3. ASSUME NEW r \in inflight, NEW ok \in BOOLEAN, Handle(r, ok)
        PROVE  s \in live
    <2>1. PICK stopped \in SUBSET Stopped(r) : exited' = exited \cup stopped BY <1>3 DEF Handle
    <2>2. Stopped(r) \subseteq live BY DEF Stopped
    <2> QED BY <2>1, <2>2
  <1>4. CASE (\E x \in live : ShellExits(x)) \/ (\E x \in exited : SessionExited(x)) \/ LinkStep
    BY <1>4 DEF ShellExits, SessionExited, LinkStep, SupervisorLost, SupervisorConnected
  <1> QED BY <1>1, <1>2, <1>3, <1>4 DEF Next, SupervisorStep

\* Numbers are not used again while the end of their shell is on its way.
LEMMA ExitsApartStep ==
  ASSUME Ground, Landing, Next
  PROVE  ExitsApart'
  <1>0. /\ Types /\ ExitsApart /\ SpawnsApart /\ ShellsApart /\ SpawnsHandled
        /\ issued \in Nat /\ \A s \in live \cup exited : s.id <= issued /\ s.id \in Nat
    BY GroundIs DEF Landing, ShellsInv, Ground, HandlesInv, Types, RequestTypes, ShellTypes, Shells
  <1>1. ASSUME NEW q \in inflight, NEW ok \in BOOLEAN, Handle(q, ok)
        PROVE  ExitsApart'
    <2>1. PICK stopped :
            /\ stopped \subseteq live /\ exited' = exited \cup stopped
            /\ live' = (live \ stopped) \cup
                 (IF ok /\ q.op = "spawn"
                  THEN {[id |-> q.n, sup |-> q.sup, path |-> q.path, slug |-> q.slug]} ELSE {})
      BY <1>1 DEF Handle, Stopped
    <2>2. PICK y : /\ inflight' = (inflight \ {q}) \cup {y}
                   /\ y.done = (IF ok THEN "ok" ELSE "fail")
      BY <1>0, <1>1, HandledIs
    <2>3. q.done = "no" BY <1>1 DEF Handle
    <2>4. q.op = "spawn" => \A s \in exited \cup live : s.id # q.n
      BY <1>0, <2>3 DEF ExitsApart, SpawnsHandled
    <2>5. \A t \in live' : t \in live \ stopped \/ (q.op = "spawn" /\ t.id = q.n) BY <2>1
    <2>6. ASSUME NEW s \in exited', NEW t \in live' PROVE s.id # t.id
      <3>1. s \in exited \/ (s \in stopped /\ s \in live) BY <2>1
      <3>2. CASE t \in live \ stopped BY <1>0, <3>1, <3>2 DEF ExitsApart, ShellsApart
      <3>3. CASE q.op = "spawn" /\ t.id = q.n BY <2>4, <3>1, <3>3
      <3> QED BY <2>5, <3>2, <3>3
    <2>7. ASSUME NEW s \in exited', NEW r \in inflight', r.op = "spawn", r.done = "no"
          PROVE  r.n # s.id
      <3>1. r \in inflight BY <2>2, <2>7
      <3>2. s \in exited \/ s \in live BY <2>1
      <3> QED BY <1>0, <2>7, <3>1, <3>2 DEF ExitsApart, SpawnsHandled
    <2> QED BY <2>6, <2>7 DEF ExitsApart
  <1>2. CASE Spawning /\ ~\E r \in inflight, ok \in BOOLEAN : Handle(r, ok)
    <2>1. live' \subseteq live
      <3>1. TRUE \in BOOLEAN OBVIOUS
      <3> QED BY <1>2, <3>1, LiveStep
    <2>2. \A s \in exited' : s \in exited \/ (s \in live /\ s \notin live') BY <1>2, ExitedStep
    <2>3. ASSUME NEW s \in exited', NEW t \in live' PROVE s.id # t.id
      BY <1>0, <2>1, <2>2 DEF ExitsApart, ShellsApart
    <2>4. ASSUME NEW s \in exited', NEW r \in inflight', r.op = "spawn", r.done = "no"
          PROVE  r.n # s.id
      <3>1. r \in inflight \/ r.n = issued + 1 BY <1>2, <2>4 DEF Spawning
      <3>2. CASE r \in inflight BY <1>0, <2>2, <2>4, <3>2 DEF ExitsApart, SpawnsHandled
      <3>3. CASE r.n = issued + 1
        <4>1. s \in live \cup exited BY <2>2
        <4>2. s.id <= issued /\ s.id \in Nat BY <1>0, <4>1
        <4> QED BY <1>0, <3>3, <4>2
      <3> QED BY <3>1, <3>2, <3>3
    <2> QED BY <2>3, <2>4 DEF ExitsApart
  <1> QED BY <1>0, <1>1, <1>2, SpawnsStep

\* Nothing is started in a project while it is removed.
LEMMA ProjectsEmptiedStep ==
  ASSUME Ground, Landing, Clean, Next
  PROVE  ProjectsEmptied'
  <1>0. /\ Types /\ Tree /\ SlugsApart(projects) /\ RequestsStand /\ ProjectsEmptied
        /\ projects \in Seq(Project)
    BY GroundIs DEF Landing, ShellsInv
  <1>1. SUFFICES ASSUME NEW r \in inflight', NEW s \in live', r.op = "rmproj", r.done = "ok",
                        s.slug = r.slug
                 PROVE  FALSE
    BY DEF ProjectsEmptied
  <1>2. CASE r \in inflight
    <2>1. CASE s \in live BY <1>0, <1>1, <1>2, <2>1 DEF ProjectsEmptied
    <2>2. CASE s \notin live
      <3>1. PICK q \in inflight : q.op = "spawn" /\ s.slug = q.slug BY <2>2, LiveStep
      <3>2. q # r /\ Displaces(r, q) BY <1>1, <3>1 DEF Displaces
      <3> QED BY <1>2, <3>2, NotDisplaced
    <2> QED BY <2>1, <2>2
  <1>3. CASE r \notin inflight
    <2>1. PICK q \in inflight, ok \in BOOLEAN :
            /\ Handle(q, ok) /\ r.done = (IF ok THEN "ok" ELSE "fail")
            /\ r.op = q.op /\ r.slug = q.slug
      BY <1>1, <1>3, AnsweredStep
    <2>2. ok /\ q.op = "rmproj" BY <1>1, <2>1
    <2>3. s \in live /\ s \notin Stopped(q) BY <2>1, <2>2 DEF Handle
    <2>4. PICK x : Home(projects, x, s) BY <2>3, Housed
    <2> DEFINE p == x[1]
               w == x[2]
    <2>5. /\ x = <<p, w>> /\ p \in DOMAIN projects /\ w \in DOMAIN projects[p].wts
          /\ projects[p].sup = s.sup /\ RowAt(projects, x) = <<s.slug, s.path>>
      BY <1>0, <2>4, RowOf DEF Home
    <2>6. projects[p].slug = s.slug /\ projects[p].wts[w].path = s.path
      <3>1. RowAt(projects, x) = <<projects[p].slug, projects[p].wts[w].path>>
        BY <1>0, <2>5, RowAtIs DEF Held
      <3> QED BY <2>5, <3>1
    <2>7. /\ q.p \in DOMAIN projects /\ projects[q.p].slug = q.slug /\ projects[q.p].sup = q.sup
      BY <1>0, <2>2, StandingPlace
    <2>8. q.p = p BY <1>0, <1>1, <2>1, <2>5, <2>6, <2>7 DEF SlugsApart
    <2>9. Stands(projects, q) BY <1>0, <2>2 DEF RequestsStand, Sound
    <2>10. <<w, s.path>> \in q.rows
      <3>1. \A v \in DOMAIN projects[q.p].wts : <<v, projects[q.p].wts[v].path>> \in q.rows
        BY <2>2, <2>9 DEF Stands
      <3> HIDE DEF p, w
      <3> QED BY <2>5, <2>6, <2>8, <3>1
    <2>11. s.path \in {row[2] : row \in q.rows}
      <3> HIDE DEF w
      <3>1. <<w, s.path>>[2] = s.path OBVIOUS
      <3> QED BY <2>10, <3>1
    <2>12. s.sup = q.sup BY <2>5, <2>7, <2>8
    <2> QED BY <2>2, <2>3, <2>11, <2>12 DEF Stopped
  <1> QED BY <1>2, <1>3

\* A handle that a row had before the loss of a connection is not of that connection.
LEMMA LostHandle ==
  ASSUME Ground, NEW sup, SupervisorLost(sup), NEW s, GlobalId(s)' \in sessions
  PROVE  GlobalId(s)' = GlobalId(s)
  <1>1. losses' = losses + 1 /\ losses \in Nat /\ SessionsNumbered
    BY GroundIs, BoundsAssumption DEF SupervisorLost, Types, LinkTypes, Ground, HandlesInv
  <1>2. CASE s.sup = LOCAL_SUP BY <1>2 DEF GlobalId, Link
  <1>3. CASE s.sup # LOCAL_SUP
    <2>1. GlobalId(s)' = <<s.id, losses + 1>> BY <1>1, <1>3 DEF GlobalId, Link
    <2>2. losses + 1 <= losses BY <1>1, <2>1 DEF SessionsNumbered
    <2> QED BY <1>1, <2>2
  <1> QED BY <1>2, <1>3

\* A row that gets no tab has none of a shell that it had none of.
LEMMA EmptyStays ==
  ASSUME Ground, Next, UNCHANGED losses, NEW x \in TabRows(projects),
         TabsAt(projects', x) \subseteq TabsAt(projects, x),
         \A s \in live : GlobalId(s) \notin TabsAt(projects, x)
  PROVE  \A s \in live' : GlobalId(s)' \notin TabsAt(projects', x)
  <1>1. SUFFICES ASSUME NEW s \in live', GlobalId(s) \in TabsAt(projects, x)
                 PROVE  s \in live
    BY HandleStays
  <1>2. SUFFICES ASSUME s \notin live PROVE FALSE OBVIOUS
  <1>3. PICK q \in inflight : q.op = "spawn" /\ s.id = q.n /\ s.sup = q.sup
    BY <1>2, LiveStep
  <1>4. GlobalId(s) = <<q.n, Link(q.sup)>> BY <1>3 DEF GlobalId
  <1>5. GlobalId(s) \in sessions BY <1>1, GroundIs DEF AllTabs
  <1> QED BY <1>3, <1>4, <1>5 DEF Ground, HandlesInv, SpawnsNew

\* No step gives a tab to a row that is being removed.
LEMMA RemovedRowTabs ==
  ASSUME Ground, Landing, Clean, Next,
         NEW r \in inflight, r \in inflight', r.op = "rmwt"
  PROVE  /\ <<r.p, r.w>> \in TabRows(projects)
         /\ TabsAt(projects', <<r.p, r.w>>) \subseteq TabsAt(projects, <<r.p, r.w>>)
  <1> DEFINE p == r.p
             w == r.w
             x == <<p, w>>
  <1>0. /\ Types /\ Tree /\ SlugsApart(projects) /\ RequestsStand /\ projects \in Seq(Project)
    BY GroundIs DEF Landing
  <1>1. r.w # 0 /\ Has(p, w) /\ projects[p].sup = r.sup
    <2>1. r.w # 0 BY <1>0 DEF Types, RequestTypes
    <2> QED BY <1>0, <2>1, StandingPlace
  <1>2. x \in TabRows(projects)
    <2> HIDE DEF p, w
    <2>1. p \in Nat /\ w \in Nat BY <1>0, <1>1, RowHas
    <2> QED BY <1>1, <2>1 DEF TabRows, Held, Has
  <1> SUFFICES TabsAt(projects', x) \subseteq TabsAt(projects, x) BY <1>2
  <1>3. Fewer => TabsAt(projects', x) \subseteq TabsAt(projects, x) BY <1>2 DEF Fewer
  <1>4. projects' = projects => TabsAt(projects', x) \subseteq TabsAt(projects, x) OBVIOUS
  <1>5. CASE UserStep BY <1>0, <1>2, <1>3, <1>5, UserFewer
  <1>6. CASE SupervisorStep
    BY <1>2, <1>4, <1>6 DEF SupervisorStep, Handle, ShellExits, treeVars
  <1>7. CASE \E s \in exited : SessionExited(s) BY <1>0, <1>2, <1>3, <1>7, ExitedFewer
  <1>8. ASSUME NEW q \in inflight, Applied(q)
        PROVE  TabsAt(projects', x) \subseteq TabsAt(projects, x)
    <2>1. CASE SessionSpawned(q)
      <3>1. q.op = "spawn" BY <2>1 DEF SessionSpawned
      <3>2. q.w # 0 BY <1>0, <3>1 DEF RequestsStand, Sound, Shaped
      <3>3. Has(q.p, q.w) BY <1>0, <3>1, <3>2, StandingPlace
      <3>4. x # <<q.p, q.w>>
        <4>1. q # r BY <3>1
        <4>2. q.p = r.p => q.w < r.w BY <1>0, <3>1, <4>1, BeforeTheRow
        <4>3. r.w \in Nat BY <1>0 DEF Types, RequestTypes, Requests
        <4> QED BY <4>2, <4>3
      <3>5. TabsAt(projects', x) \subseteq
              TabsAt(projects, x) \cup
                (IF x = <<q.p, q.w>> THEN {<<q.n, Link(q.sup)>>} ELSE {})
        BY <1>0, <1>2, <2>1, <3>3, SpawnedTabs
      <3> QED BY <3>4, <3>5
    <2>2. CASE ProjectValidated(q) \/ WorktreesImported(q) \/ WorktreeAdded(q)
      <3>1. TreeGrown BY <1>0, <2>2, ValidatedTree, ImportedTree, AddedTree
      <3> HIDE DEF x
      <3> QED BY <1>0, <1>2, <3>1, GrownTraces
    <2>3. CASE WorktreeRemoved(q)
      <3>1. q.op = "rmwt" /\ q # r
        <4>1. q.op = "rmwt" BY <2>3 DEF WorktreeRemoved
        <4>2. inflight' = (inflight \ {q}) \cup {y \in {} : y.sup \in connected}
          BY <2>3 DEF WorktreeRemoved, Answer
        <4> QED BY <4>1, <4>2
      <3>2. r.p # q.p
        <4>1. r.w \in Nat /\ q.w \in Nat BY <1>0 DEF Types, RequestTypes, Requests
        <4>2. r.p = q.p => r.w < q.w BY <1>0, <3>1, BeforeTheRow
        <4>3. r.p = q.p => q.w < r.w BY <1>0, <3>1, BeforeTheRow
        <4> QED BY <4>1, <4>2, <4>3
      <3>3. projects'[r.p] = projects[r.p]
        <4>1. RowGone(projects, projects', q.p, q.w) BY <1>0, <2>3, RowRemoval
        <4>2. r.p \in DOMAIN projects BY <1>1 DEF Has
        <4> QED BY <3>2, <4>1, <4>2 DEF RowGone
      <3> QED BY <3>3 DEF TabsAt
    <2>4. CASE ProjectRemoved(q)
      <3>1. q.op = "rmproj" BY <2>4 DEF ProjectRemoved
      <3>2. IndexOf(q.slug) = q.p /\ q.p # 0 /\ ProjectGone(projects, projects', q.p)
        BY <1>0, <2>4, ProjectRemoval
      <3>3. r # q BY <3>1
      <3>4. r.p < q.p BY <1>0, <3>1, <3>2, <3>3, BeforeTheProject
      <3>5. p \in DOMAIN projects BY <1>1 DEF Has
      <3>6. projects'[p] = projects[p]
        <4> DEFINE i == q.p
        <4>1. p \in DOMAIN projects /\ p < i /\ ProjectGone(projects, projects', i)
          BY <3>2, <3>4, <3>5
        <4>2. i \in DOMAIN projects BY <4>1 DEF ProjectGone
        <4> HIDE DEF p, i
        <4>3. p \in 1 .. Len(projects) /\ i \in 1 .. Len(projects) /\ Len(projects) \in Nat
          BY <1>0, <4>1, <4>2
        <4>4. p \in 1 .. Len(projects) - 1 BY <4>1, <4>3
        <4> QED BY <4>1, <4>4 DEF ProjectGone
      <3> QED BY <3>6 DEF TabsAt
    <2>5. CASE \/ OperationFailed(q) \/ PrFetchFailed(q)
               \/ \E hit \in SUBSET q.rows : PrStatusesFetched(q, hit)
      BY <1>4, <2>5 DEF OperationFailed, PrFetchFailed, PrStatusesFetched, treeVars
    <2> QED BY <1>8, <2>1, <2>2, <2>3, <2>4, <2>5 DEF Applied
  <1>9. CASE LinkStep
    <2>1. PICK sup \in Sups : SupervisorLost(sup) \/ SupervisorConnected(sup) BY <1>9, LinkIs
    <2>2. CASE SupervisorLost(sup)
      <3> HIDE DEF x
      <3> QED BY <1>0, <1>2, <2>2, LostTabs
    <2>3. CASE SupervisorConnected(sup)
      <3>1. \A t \in Homed(sup) : Located(t) # x
        <4>1. SUFFICES ASSUME NEW t \in Homed(sup), Located(t) = x PROVE FALSE OBVIOUS
        <4>2. t.sup = sup /\ Located(t) # None BY DEF Homed
        <4>3. projects[Located(t)[1]].sup = sup BY <1>0, <4>2, LocatedIs
        <4>4. r.sup = sup BY <1>1, <4>1, <4>3
        <4>5. sup \notin connected BY <2>3 DEF SupervisorConnected
        <4> QED BY <1>0, <4>4, <4>5 DEF Types, RequestTypes
      <3> HIDE DEF x
      <3>2. \A h \in TabsAt(projects', x) :
              \/ h \in TabsAt(projects, x)
              \/ \E t \in Homed(sup) : Located(t) = x /\ h = <<t.id, losses>>
        BY <1>0, <1>2, <2>3, ConnectedTabs
      <3> QED BY <3>1, <3>2
    <2> QED BY <2>1, <2>2, <2>3
  <1> QED BY <1>2, <1>5, <1>6, <1>7, <1>8, <1>9 DEF Next

\* A removed worktree stays empty until it is taken off the list.
LEMMA RowsEmptiedStep ==
  ASSUME Ground, Landing, Clean, Next
  PROVE  RowsEmptied'
  <1>0. /\ Types /\ Tree /\ SlugsApart(projects) /\ RequestsStand /\ RowsEmptied /\ TabsHome
        /\ projects \in Seq(Project) /\ sessions = AllTabs(projects)
    BY GroundIs DEF Landing, ShellsInv
  <1>1. SUFFICES ASSUME NEW r \in inflight', r.op = "rmwt", r.done = "ok"
                 PROVE  \A s \in live' : GlobalId(s)' \notin TabsAt(projects', <<r.p, r.w>>)
    BY DEF RowsEmptied
  <1>2. CASE r \in inflight
    <2> DEFINE x == <<r.p, r.w>>
    <2>1. x \in TabRows(projects) /\ TabsAt(projects', x) \subseteq TabsAt(projects, x)
      BY <1>1, <1>2, RemovedRowTabs
    <2>2. \A s \in live : GlobalId(s) \notin TabsAt(projects, x)
      BY <1>0, <1>1, <1>2 DEF RowsEmptied
    <2>3. ASSUME UNCHANGED losses
          PROVE  \A s \in live' : GlobalId(s)' \notin TabsAt(projects', x)
      <3> HIDE DEF x
      <3> QED BY <2>1, <2>2, <2>3, EmptyStays
    <2>4. ASSUME NEW sup, SupervisorLost(sup), NEW s \in live',
                 GlobalId(s)' \in TabsAt(projects', x)
          PROVE  FALSE
      <3>1. live' = live BY <2>4 DEF SupervisorLost
      <3>2. GlobalId(s)' \in TabsAt(projects, x) BY <2>1, <2>4
      <3>3. GlobalId(s)' \in sessions BY <1>0, <2>1, <3>2 DEF AllTabs
      <3>4. GlobalId(s)' = GlobalId(s) BY <2>4, <3>3, LostHandle
      <3> QED BY <2>2, <2>4, <3>1, <3>2, <3>4
    <2>5. UNCHANGED losses \/ \E sup : SupervisorLost(sup)
      <3>1. CASE UserStep BY <3>1, UserLeaves DEF linkVars
      <3>2. CASE \E q \in inflight : Applied(q) BY <3>2, AppliedLeaves DEF linkVars
      <3>3. CASE SupervisorStep \/ (\E s \in exited : SessionExited(s))
        BY <3>3 DEF SupervisorStep, Handle, ShellExits, SessionExited, linkVars
      <3>4. CASE LinkStep BY <3>4 DEF LinkStep, SupervisorConnected
      <3> QED BY <3>1, <3>2, <3>3, <3>4 DEF Next
    <2> QED BY <2>3, <2>4, <2>5
  <1>3. CASE r \notin inflight
    <2>1. PICK q \in inflight, ok \in BOOLEAN :
            /\ Handle(q, ok) /\ r.done = (IF ok THEN "ok" ELSE "fail")
            /\ r.op = q.op /\ r.p = q.p /\ r.w = q.w
      BY <1>1, <1>3, AnsweredStep
    <2>2. ok /\ q.op = "rmwt" BY <1>1, <2>1
    <2>3. SUFFICES ASSUME NEW s \in live, s \notin Stopped(q),
                          GlobalId(s) \in TabsAt(projects, <<q.p, q.w>>)
                   PROVE  FALSE
      <3>1. live' = live \ Stopped(q) /\ projects' = projects /\ UNCHANGED losses
        BY <2>1, <2>2 DEF Handle, treeVars, linkVars
      <3>2. \A s : GlobalId(s)' = GlobalId(s) BY <3>1, HandleStays
      <3> QED BY <2>1, <3>1, <3>2
    <2> DEFINE p == q.p
               w == q.w
               x == <<p, w>>
    <2>4. w # 0 /\ Has(p, w) /\ projects[p].sup = q.sup /\ <<w, q.path>> \in q.rows
          /\ projects[p].wts[w].path = q.path
      <3>1. q.w # 0 /\ q.rows = {<<q.w, q.path>>}
        BY <1>0, <2>2 DEF RequestsStand, Sound, Shaped
      <3>2. /\ Has(p, w) /\ projects[p].sup = q.sup
            /\ \A row \in q.rows : projects[p].wts[row[1]].path = row[2]
        BY <1>0, <2>2, <3>1, StandingPlace
      <3>3. <<w, q.path>> \in q.rows BY <3>1
      <3>4. projects[p].wts[w].path = q.path BY <3>2, <3>3
      <3> QED BY <3>1, <3>2, <3>3, <3>4
    <2> HIDE DEF p, w
    <2>5. x \in TabRows(projects) /\ x[1] = p /\ x[2] = w
      <3>1. p \in Nat /\ w \in Nat BY <1>0, <2>4, RowHas
      <3> QED BY <2>4, <3>1 DEF TabRows, Held, Has
    <2>6. Home(projects, x, s) BY <1>0, <2>3, <2>5 DEF TabsHome, p, w
    <2>7. RowAt(projects, x) = <<projects[p].slug, projects[p].wts[w].path>>
      BY <1>0, <2>4, <2>5, RowAtIs DEF Held, Has
    <2>8. s.path = q.path /\ s.sup = q.sup BY <2>4, <2>5, <2>6, <2>7 DEF Home
    <2>9. s.path \in {row[2] : row \in q.rows}
      <3>1. <<w, s.path>> \in q.rows BY <2>4, <2>8
      <3>2. <<w, s.path>>[2] = s.path OBVIOUS
      <3> QED BY <3>1, <3>2
    <2> QED BY <2>2, <2>3, <2>8, <2>9 DEF Stopped
  <1> QED BY <1>2, <1>3

\* A reply takes its own request off the table and no other.
LEMMA AppliedDrops ==
  ASSUME NEW r \in inflight, Applied(r)
  PROVE  \A q \in inflight : q # r => q \in inflight'
  <1>1. \E reqs, pending : Answer(r, reqs, pending)
    BY DEF Applied, SessionSpawned, ProjectValidated, WorktreesImported, WorktreeAdded,
         WorktreeRemoved, ProjectRemoved, OperationFailed, PrFetchFailed, PrStatusesFetched
  <1> QED BY <1>1 DEF Answer

\* A spawn's reply gives its shell a handle, if there is one.
LEMMA SpawnedHolds ==
  ASSUME Ground, Landing, NEW r \in inflight, SessionSpawned(r),
         NEW s \in live, s.id = r.n
  PROVE  GlobalId(s)' \in sessions'
  <1>0. Types /\ SlugsApart(projects) /\ RequestsStand /\ SpawnsHandled
    BY GroundIs DEF Landing, ShellsInv, Ground, HandlesInv
  <1>1. r.op = "spawn" /\ UNCHANGED losses BY DEF SessionSpawned, linkVars
  <1>2. r.w # 0 BY <1>0, <1>1 DEF RequestsStand, Sound, Shaped
  <1>3. Has(r.p, r.w) BY <1>0, <1>1, <1>2, StandingPlace
  <1>4. <<r.n, Link(r.sup)>> \in sessions' BY <1>3 DEF SessionSpawned
  <1>5. s.sup = r.sup BY <1>0, <1>1 DEF SpawnsHandled
  <1>6. GlobalId(s)' = GlobalId(s) BY <1>1, HandleStays
  <1> QED BY <1>4, <1>5, <1>6 DEF GlobalId

\* The handles of a removed row are of no shell.
LEMMA RemovedHolds ==
  ASSUME Ground, Landing, NEW r \in inflight, WorktreeRemoved(r),
         NEW s \in live, GlobalId(s) \in sessions
  PROVE  GlobalId(s) \in sessions'
  <1>0. RowsEmptied BY DEF Landing, ShellsInv
  <1>1. r.op = "rmwt" /\ r.done = "ok" BY DEF WorktreeRemoved
  <1>2. GlobalId(s) \notin ToSet(projects[r.p].wts[r.w].tabs)
    <2>1. GlobalId(s) \notin TabsAt(projects, <<r.p, r.w>>) BY <1>0, <1>1 DEF RowsEmptied
    <2> QED BY <2>1 DEF TabsAt
  <1>3. \/ sessions' = sessions
        \/ sessions' = sessions \ ToSet(projects[r.p].wts[r.w].tabs)
    BY DEF WorktreeRemoved
  <1> QED BY <1>2, <1>3

\* So are those of a removed project.
LEMMA ProjectRemovedHolds ==
  ASSUME Ground, Landing, NEW r \in inflight, ProjectRemoved(r),
         NEW s \in live, GlobalId(s) \in sessions
  PROVE  GlobalId(s) \in sessions'
  <1>0. /\ Types /\ Tree /\ SlugsApart(projects) /\ RequestsStand /\ ProjectsEmptied /\ TabsHome
        /\ projects \in Seq(Project)
    BY GroundIs DEF Landing, ShellsInv
  <1>1. r.op = "rmproj" /\ r.done = "ok" BY DEF ProjectRemoved
  <1>2. /\ IndexOf(r.slug) = r.p /\ r.p # 0 /\ r.p \in DOMAIN projects
        /\ projects[r.p].slug = r.slug
    BY <1>0, ProjectRemoval
  <1>3. sessions' = sessions \ TabsOf(r.p) BY <1>2 DEF ProjectRemoved
  <1>4. SUFFICES ASSUME GlobalId(s) \in TabsOf(r.p) PROVE FALSE BY <1>3
  <1>5. PICK x \in TabRows(projects) : x[1] = r.p /\ GlobalId(s) \in TabsAt(projects, x)
    BY <1>0, <1>2, <1>4, TabsOfIs DEF TabsIn, RowsOf
  <1>6. Home(projects, x, s) BY <1>0, <1>5 DEF TabsHome
  <1>7. RowAt(projects, x) = <<projects[r.p].slug, projects[r.p].wts[x[2]].path>>
    <2>1. Held(projects, x[1], x[2]) BY <1>5 DEF TabRows
    <2> QED BY <1>0, <1>5, <2>1, RowAtIs
  <1>8. s.slug = r.slug BY <1>2, <1>6, <1>7 DEF Home
  <1> QED BY <1>0, <1>1, <1>8 DEF ProjectsEmptied

\* A reply takes no shell's handle away, nor the request of one that has none yet.
LEMMA AppliedHolds ==
  ASSUME Ground, Landing, NEW r \in inflight, Applied(r), NEW s \in live,
         GlobalId(s) \in sessions \/ \E q \in inflight : q.op = "spawn" /\ q.n = s.id
  PROVE  GlobalId(s)' \in sessions' \/ \E q \in inflight' : q.op = "spawn" /\ q.n = s.id
  <1>0. SpawnsHandled /\ UNCHANGED losses
    BY AppliedLeaves DEF Ground, HandlesInv, linkVars
  <1>1. GlobalId(s)' = GlobalId(s) BY <1>0, HandleStays
  <1>2. ASSUME GlobalId(s) \in sessions PROVE GlobalId(s) \in sessions'
    <2>1. CASE WorktreeRemoved(r) BY <1>2, <2>1, RemovedHolds
    <2>2. CASE ProjectRemoved(r) BY <1>2, <2>2, ProjectRemovedHolds
    <2>3. CASE ~WorktreeRemoved(r) /\ ~ProjectRemoved(r)
      <3>1. sessions \subseteq sessions'
        BY <2>3 DEF Applied, SessionSpawned, ProjectValidated, WorktreesImported, WorktreeAdded,
             OperationFailed, PrFetchFailed, PrStatusesFetched, treeVars
      <3> QED BY <1>2, <3>1
    <2> QED BY <2>1, <2>2, <2>3
  <1>3. ASSUME NEW q \in inflight, q.op = "spawn", q.n = s.id
        PROVE  GlobalId(s)' \in sessions' \/ q \in inflight'
    <2>1. CASE q # r BY <2>1, AppliedDrops
    <2>2. CASE q = r
      <3>1. r.done = "ok" BY <1>0, <1>3, <2>2 DEF SpawnsHandled
      <3>2. SessionSpawned(r)
        BY <1>3, <2>2, <3>1 DEF Applied, ProjectValidated, WorktreesImported, WorktreeAdded,
             WorktreeRemoved, ProjectRemoved, OperationFailed, PrFetchFailed, PrStatusesFetched
      <3> QED BY <1>3, <2>2, <3>2, SpawnedHolds
    <2> QED BY <2>1, <2>2
  <1> QED BY <1>1, <1>2, <1>3

\* Shells of connected supervisors keep their tabs.
LEMMA ShellsHeldStep ==
  ASSUME Ground, Landing, Next
  PROVE  ShellsHeld'
  <1>0. /\ Types /\ Tree /\ SlugsApart(projects) /\ RequestsStand /\ TabsHome /\ ShellsHeld
        /\ SpawnsHandled /\ ActiveIn /\ PromptStands /\ sessions = AllTabs(projects)
        /\ ExitsApart /\ projects \in Seq(Project)
    BY GroundIs DEF Landing, ShellsInv, Ground, HandlesInv
  <1>1. SUFFICES ASSUME NEW s \in live', s.sup \in connected'
                 PROVE  \/ GlobalId(s)' \in sessions'
                        \/ \E r \in inflight' : r.op = "spawn" /\ r.n = s.id
    BY DEF ShellsHeld
  <1>2. s \in live /\ s.sup \in connected =>
          GlobalId(s) \in sessions \/ \E r \in inflight : r.op = "spawn" /\ r.n = s.id
    BY <1>0 DEF ShellsHeld
  <1>3. CASE UserStep
    <2>1. s \in live /\ connected' = connected /\ UNCHANGED losses /\ inflight \subseteq inflight'
      BY <1>0, <1>3, UserLive, UserLeaves, UserFresh DEF linkVars, Sends
    <2>2. GlobalId(s)' = GlobalId(s) BY <2>1, HandleStays
    <2>3. GlobalId(s) \in sessions => GlobalId(s) \in sessions'
      <3>1. CASE UNCHANGED <<sessions, live>> BY <3>1
      <3>2. CASE CloseTab
        <4> DEFINE h == projects[active_worktree[1]].wts[active_worktree[2]].tabs[
                          projects[active_worktree[1]].wts[active_worktree[2]].tab]
        <4>1. /\ sessions' = sessions \ {h}
              /\ live' = IF h \in sessions THEN {t \in live : GlobalId(t) # h} ELSE live
          BY <3>2 DEF CloseTab
        <4> HIDE DEF h
        <4> QED BY <4>1
      <3> QED BY <1>0, <1>3, <3>1, <3>2, UserFewer
    <2> QED BY <1>1, <1>2, <2>1, <2>2, <2>3
  <1>4. ASSUME NEW q \in inflight, NEW ok \in BOOLEAN, Handle(q, ok)
        PROVE  \/ GlobalId(s)' \in sessions'
               \/ \E r \in inflight' : r.op = "spawn" /\ r.n = s.id
    <2>1. sessions' = sessions /\ connected' = connected /\ UNCHANGED losses
      BY <1>4 DEF Handle, treeVars, linkVars
    <2>2. GlobalId(s)' = GlobalId(s) BY <2>1, HandleStays
    <2>3. PICK y : /\ inflight' = (inflight \ {q}) \cup {y}
                   /\ y.n = q.n /\ y.op = q.op
      BY <1>0, <1>4, HandledIs
    <2>4. \A r \in inflight : \E z \in inflight' : z.n = r.n /\ z.op = r.op BY <2>3
    <2>5. CASE s \in live BY <1>1, <1>2, <2>1, <2>2, <2>4, <2>5
    <2>6. CASE s \notin live
      <3>1. \E r \in inflight : r.op = "spawn" /\ s.id = r.n BY <2>6, LiveStep
      <3> QED BY <2>4, <3>1
    <2> QED BY <2>5, <2>6
  <1>5. CASE \E x \in live : ShellExits(x)
    <2>1. /\ s \in live /\ sessions' = sessions /\ connected' = connected /\ UNCHANGED losses
          /\ inflight' = inflight
      BY <1>5 DEF ShellExits, treeVars, reqVars, linkVars
    <2>2. GlobalId(s)' = GlobalId(s) BY <2>1, HandleStays
    <2> QED BY <1>1, <1>2, <2>1, <2>2
  <1>6. ASSUME NEW x \in exited, SessionExited(x)
        PROVE  \/ GlobalId(s)' \in sessions'
               \/ \E r \in inflight' : r.op = "spawn" /\ r.n = s.id
    <2>1. /\ s \in live /\ sessions' = sessions \ {GlobalId(x)} /\ connected' = connected
          /\ UNCHANGED losses /\ inflight' = inflight
      BY <1>6 DEF SessionExited, reqVars, linkVars
    <2>2. GlobalId(s)' = GlobalId(s) BY <2>1, HandleStays
    <2>3. x.id # s.id BY <1>0, <2>1 DEF ExitsApart
    <2>4. GlobalId(s) # GlobalId(x) BY <2>3 DEF GlobalId
    <2> QED BY <1>1, <1>2, <2>1, <2>2, <2>4
  <1>7. CASE \E r \in inflight : Applied(r)
    <2>1. PICK r \in inflight : Applied(r) BY <1>7
    <2>2. s \in live /\ connected' = connected BY <2>1, AppliedLeaves DEF linkVars
    <2> QED BY <1>1, <1>2, <2>1, <2>2, AppliedHolds
  <1>8. ASSUME NEW sup \in Sups, SupervisorLost(sup), sup = REMOTE_SUP
        PROVE  \/ GlobalId(s)' \in sessions'
               \/ \E r \in inflight' : r.op = "spawn" /\ r.n = s.id
    <2>1. /\ s \in live /\ connected' = connected \ {sup}
          /\ inflight' = {r \in inflight : r.sup # sup}
      BY <1>8 DEF SupervisorLost
    <2>2. s.sup # sup /\ s.sup \in connected BY <1>1, <2>1
    <2>3. s.sup = LOCAL_SUP BY <1>0, <1>8, <2>2, SupsAre DEF Types, LinkTypes
    <2>4. GlobalId(s)' = GlobalId(s) BY <2>3 DEF GlobalId, Link
    <2>5. ASSUME GlobalId(s) \in sessions PROVE GlobalId(s) \in sessions'
      <3>1. SUFFICES ASSUME NEW p \in DOMAIN projects, projects[p].sup = sup,
                            GlobalId(s) \in TabsOf(p)
                     PROVE  FALSE
        BY <1>8, <2>5 DEF SupervisorLost
      <3>2. PICK x \in TabRows(projects) : x[1] = p /\ GlobalId(s) \in TabsAt(projects, x)
        BY <1>0, <3>1, TabsOfIs DEF TabsIn, RowsOf
      <3>3. Home(projects, x, s) BY <1>0, <2>1, <3>2 DEF TabsHome
      <3> QED BY <2>2, <3>1, <3>2, <3>3 DEF Home
    <2>6. ASSUME NEW r \in inflight, r.op = "spawn", r.n = s.id PROVE r \in inflight'
      <3>1. r.sup = s.sup BY <1>0, <2>1, <2>6 DEF SpawnsHandled
      <3> QED BY <2>1, <2>2, <3>1
    <2> QED BY <1>2, <2>1, <2>2, <2>4, <2>5, <2>6
  <1>9. ASSUME NEW sup \in Sups, SupervisorConnected(sup), sup = REMOTE_SUP
        PROVE  \/ GlobalId(s)' \in sessions'
               \/ \E r \in inflight' : r.op = "spawn" /\ r.n = s.id
    <2>1. /\ sessions' = sessions \cup {<<t.id, losses>> : t \in Homed(sup)}
      BY <1>0, <1>9, ConnectedTree
    <2>2. /\ inflight' = inflight /\ UNCHANGED losses
          /\ connected' = connected \cup {sup}
      BY <1>9 DEF SupervisorConnected, reqVars
    <2>6. live' = {t \in live : t.sup = sup => t \in Homed(sup)}
      BY <1>9 DEF SupervisorConnected, Homed
    <2>3. GlobalId(s)' = GlobalId(s) BY <2>2, HandleStays
    <2>4. CASE s.sup = sup
      <3>3. s \in Homed(sup) BY <2>4, <2>6 DEF Homed
      <3>1. <<s.id, losses>> \in sessions' BY <2>1, <3>3
      <3>2. GlobalId(s) = <<s.id, losses>> BY <1>9, <2>4, SupsAre DEF GlobalId, Link
      <3> QED BY <2>3, <3>1, <3>2
    <2>5. CASE s.sup # sup
      <3>1. s.sup \in connected BY <1>1, <2>2, <2>5
      <3> QED BY <1>2, <2>1, <2>2, <2>3, <2>6, <3>1
    <2> QED BY <2>4, <2>5
  <1> QED
    BY <1>3, <1>4, <1>5, <1>6, <1>7, <1>8, <1>9, LinkIs DEF Next, SupervisorStep

-----------------------------------------------------------------------------
(* Replies land where they were asked                                          *)

\* At first nothing is outstanding, nothing runs, and the rows are of their projects'
\* repositories.
LEMMA LandingInit ==
  ASSUME Init
  PROVE  Ground /\ Landing
  <1>1. Ground BY PositionInit, FilesInit, HandlesInit DEF Ground
  <1>2. /\ inflight = {} /\ live = {} /\ exited = {} /\ pr_statuses = {} /\ misled = {}
        /\ popup = NoPopup /\ projects = Loaded
    BY DEF Init
  <1>3. RowsOwn BY <1>2, OrderlyAssumption DEF RowsOwn
  <1>4. RequestsStand /\ FoundOwn /\ StatusesStand
    BY <1>2 DEF RequestsStand, FoundOwn, StatusesStand
  <1>5. PromptStands BY <1>2 DEF PromptStands, NoPopup
  <1>6. ShellsInv
    BY <1>2 DEF ShellsInv, TabsHome, ShellsHeld, ShellsAway, SpawnsLive, RowsEmptied,
         ProjectsEmptied, ExitsApart
  <1> QED BY <1>1, <1>2, <1>3, <1>4, <1>5, <1>6 DEF Landing

\* What the other proofs rest on, kept.
LEMMA GroundStep ==
  ASSUME Ground, [Next]_vars
  PROVE  Ground'
  <1>1. PositionInv' BY PositionStep DEF Ground
  <1>2. FilesAreShown' BY FilesStep DEF Ground
  <1>3. HandlesInv' BY HandlesStep DEF Ground
  <1>4. TabsAreHeld' BY HeldStep DEF Ground
  <1> QED BY <1>1, <1>2, <1>3, <1>4 DEF Ground

\* As long as nothing crossed, what was asked for is found.
LEMMA LandingStep ==
  ASSUME Ground, Landing, Clean, Next
  PROVE  Landing'
  <1>1. PositionInv /\ Types /\ Tree /\ SlugsApart(projects) BY GroundIs DEF Ground
  <1>2. /\ RequestsStand /\ FoundOwn /\ PromptStands /\ RowsOwn /\ misled = {}
        /\ scattered \/ StatusesStand
    BY DEF Landing
  <1>3. RequestsStand' /\ FoundOwn' BY <1>1, <1>2, RequestsStep
  <1>4. PromptStands' BY <1>1, <1>2, PromptStandsStep
  <1>5. RowsOwn' BY <1>1, <1>2, RowsOwnStep
  <1>6. scattered' \/ StatusesStand'
    <2>1. Track BY UserLeaves, AppliedLeaves, OtherLeaves DEF Next
    <2>2. CASE scattered' BY <2>2
    <2>3. CASE ~scattered'
      <3>1. ~scattered /\ \A r \in inflight \ inflight' : ~Scatters(r) BY <2>1, <2>3 DEF Track
      <3>2. StatusesStand BY <1>2, <3>1
      <3>3. StatusesStand' BY <1>1, <1>2, <3>1, <3>2, StatusesStep
      <3> QED BY <3>3
    <2> QED BY <2>2, <2>3
  <1>7. misled' = {} BY <1>1, <1>2, MisledStep
  <1>8. ShellsInv'
    <2>1. TabsHome' BY TabsHomeStep
    <2>2. ShellsHeld' BY ShellsHeldStep
    <2>3. ShellsAway' BY ShellsAwayStep
    <2>4. SpawnsLive' BY SpawnsLiveStep
    <2>5. RowsEmptied' BY RowsEmptiedStep
    <2>6. ProjectsEmptied' BY ProjectsEmptiedStep
    <2>7. ExitsApart' BY ExitsApartStep
    <2> QED BY <2>1, <2>2, <2>3, <2>4, <2>5, <2>6, <2>7 DEF ShellsInv
  <1> QED BY <1>3, <1>4, <1>5, <1>6, <1>7, <1>8 DEF Landing

\* Where nothing happens, it stays.
LEMMA LandingIdle ==
  ASSUME Landing, UNCHANGED vars
  PROVE  Landing'
  <1>1. /\ UNCHANGED <<projects, sessions, inflight, live, exited, pr_statuses>>
        /\ UNCHANGED <<misled, popup, connected, losses, scattered>>
    BY DEF vars, uiVars, treeVars, reqVars, supVars, linkVars
  <1>2. /\ RequestsStand' /\ FoundOwn' /\ PromptStands' /\ RowsOwn' /\ misled' = {}
        /\ scattered' \/ StatusesStand'
    BY <1>1 DEF Landing, RequestsStand, FoundOwn, PromptStands, RowsOwn, StatusesStand
  <1>3. \A s : GlobalId(s)' = GlobalId(s) BY <1>1 DEF GlobalId, Link
  <1>4. TabsHome' /\ ShellsHeld' /\ RowsEmptied'
    BY <1>1, <1>3 DEF Landing, ShellsInv, TabsHome, ShellsHeld, RowsEmptied
  <1>5. ShellsAway' /\ SpawnsLive' /\ ProjectsEmptied' /\ ExitsApart'
    BY <1>1 DEF Landing, ShellsInv, ShellsAway, SpawnsLive, ProjectsEmptied, ExitsApart
  <1> QED BY <1>2, <1>4, <1>5 DEF Landing, ShellsInv

\* Then shells and statuses stand beside what they are of.
LEMMA LandingLands ==
  ASSUME Ground, Landing
  PROVE  LandsUnlessCrossed
  <1>1. misled = {} /\ TabsHome /\ (scattered \/ StatusesStand) BY DEF Landing, ShellsInv
  <1>2. projects \in Seq(Project) BY GroundIs
  <1>3. ASSUME NEW s \in live, NEW p \in DOMAIN projects, NEW w \in DOMAIN projects[p].wts,
               GlobalId(s) \in ToSet(projects[p].wts[w].tabs)
        PROVE  Denotes(p, w) = <<s.slug, s.path>>
    <2>1. p \in Nat /\ w \in Nat BY <1>2, RowsPositive
    <2>2. <<p, w>> \in TabRows(projects) BY <2>1 DEF TabRows, Held
    <2>3. GlobalId(s) \in TabsAt(projects, <<p, w>>) BY <1>3 DEF TabsAt
    <2>4. Home(projects, <<p, w>>, s) BY <1>1, <2>2, <2>3 DEF TabsHome
    <2> QED BY <2>4, DenotesRow DEF Home
  <1>4. ASSUME ~scattered, NEW t \in pr_statuses PROVE Denotes(t[1], t[2])[2] = t[3]
    BY <1>1, <1>4, DenotesRow DEF StatusesStand
  <1> QED BY <1>1, <1>3, <1>4 DEF LandsUnlessCrossed

\* Unless a removal and a request it displaces were outstanding at once, a reply or a prompt
\* is applied to what it was for and a shell is shown in the worktree it runs in: the positions
\* of the reducer name what they named when the request was sent.  A PR status is beside its
\* own worktree until a removal has moved up two adjacent rows that have one: whatever the
\* order the loop of WorktreeRemoved takes the others in, it moves each by one.
THEOREM RepliesLand == Spec => []LandsUnlessCrossed
  <1> DEFINE Inv == Ground /\ (Clean => Landing)
  <1>1. Init => Inv BY LandingInit
  <1>2. Inv /\ [Next]_vars => Inv'
    <2> SUFFICES ASSUME Inv, [Next]_vars PROVE Inv' OBVIOUS
    <2>1. Ground' BY GroundStep
    <2>2. ASSUME UNCHANGED vars, Clean' PROVE Landing'
      <3>1. Clean BY <2>2, CleanIdle
      <3> QED BY <2>2, <3>1, LandingIdle
    <2>3. ASSUME Next, Clean' PROVE Landing'
      <3>1. Clean BY <2>3, CleanBefore
      <3> QED BY <2>3, <3>1, LandingStep
    <2> QED BY <2>1, <2>2, <2>3
  <1>3. Inv => LandsUnlessCrossed
    <2>1. CASE Clean BY <2>1, LandingLands
    <2>2. CASE ~Clean BY <2>2 DEF LandsUnlessCrossed
    <2> QED BY <2>1, <2>2
  <1> HIDE DEF Inv
  <1> QED BY <1>1, <1>2, <1>3, PTL DEF Spec

-----------------------------------------------------------------------------
(* No worktree is listed twice                                                 *)

RowsApart ==
  \A p \in DOMAIN projects : \A v, w \in DOMAIN projects[p].wts :
    projects[p].wts[v].path = projects[p].wts[w].path => v = w
\* A row that lists the path of a worktree just added is on its way out.
AddsNew ==
  \A r \in inflight : r.op = "add" /\ r.done = "ok" =>
    \A w \in DOMAIN projects[r.p].wts : projects[r.p].wts[w].path = r.path =>
      \E g \in inflight : g.op = "rmwt" /\ g.done = "ok" /\ g.p = r.p /\ g.w = w
\* The same worktree is not added twice to a project.
AddsApart ==
  \A r, s \in inflight :
    /\ r.op = "add" /\ r.done = "ok" /\ s.op = "add" /\ s.done = "ok"
    /\ r.p = s.p /\ r.path = s.path
    => r = s
Listed == RowsApart /\ AddsNew /\ AddsApart

\* An addition just carried out is of a worktree that was not on disk.
LEMMA AddedIsNew ==
  ASSUME Ground, Landing, Next, NEW r \in inflight', r \notin inflight,
         r.op = "add", r.done = "ok"
  PROVE  /\ r.path \notin git /\ projects' = projects
         /\ \E q \in inflight : /\ q.op = "add" /\ q.p = r.p /\ q.slug = r.slug
                                /\ inflight' = (inflight \ {q}) \cup {r}
  <1>1. PICK q \in inflight, ok \in BOOLEAN :
          /\ Handle(q, ok) /\ r.done = (IF ok THEN "ok" ELSE "fail")
          /\ inflight' = (inflight \ {q}) \cup {r}
          /\ r.op = q.op /\ r.p = q.p /\ r.slug = q.slug /\ r.path = q.path
    BY AnsweredStep
  <1>2. ok BY <1>1
  <1>3. Possible(q) /\ projects' = projects BY <1>1, <1>2 DEF Handle, treeVars
  <1>4. q.op = "add" BY <1>1
  <1>5. q.path \notin git BY <1>3, <1>4 DEF Possible
  <1> QED BY <1>1, <1>3, <1>4, <1>5

\* As long as nothing listed was gone from disk, additions are of different worktrees.
LEMMA AddsApartStep ==
  ASSUME Ground, Landing, ~Outdated, AddsApart, Next
  PROVE  AddsApart'
  <1>1. SUFFICES ASSUME NEW r \in inflight', NEW s \in inflight',
                        r.op = "add", r.done = "ok", s.op = "add", s.done = "ok",
                        r.p = s.p, r.path = s.path
                 PROVE  r = s
    BY DEF AddsApart
  <1>2. \A q \in inflight : q.op = "add" /\ q.done = "ok" => q.path \in git BY DEF Outdated
  <1>3. CASE r \in inflight /\ s \in inflight BY <1>1, <1>3 DEF AddsApart
  <1>4. CASE r \notin inflight
    <2>1. r.path \notin git /\ \E q : inflight' = (inflight \ {q}) \cup {r}
      BY <1>1, <1>4, AddedIsNew
    <2> QED BY <1>1, <1>2, <2>1
  <1>5. CASE s \notin inflight
    <2>1. s.path \notin git /\ \E q : inflight' = (inflight \ {q}) \cup {s}
      BY <1>1, <1>5, AddedIsNew
    <2> QED BY <1>1, <1>2, <2>1
  <1> QED BY <1>3, <1>4, <1>5

\* The reply to a removal is not lost without the other replies of its supervisor.
LEMMA RemovalStays ==
  ASSUME Types, ActiveIn, PromptStands, Next,
         NEW g \in inflight, g.op = "rmwt", g.done = "ok",
         NEW r \in inflight, r \in inflight', r.sup = g.sup
  PROVE  g \in inflight' \/ WorktreeRemoved(g)
  <1>1. CASE UserStep BY <1>1, UserFresh DEF Sends
  <1>2. CASE \E a \in inflight : Applied(a)
    <2>1. PICK a \in inflight : Applied(a) BY <1>2
    <2>2. CASE a # g BY <2>1, <2>2, AppliedDrops
    <2>3. CASE a = g
      BY <2>1, <2>3 DEF Applied, SessionSpawned, ProjectValidated, WorktreesImported,
           WorktreeAdded, ProjectRemoved, OperationFailed, PrFetchFailed, PrStatusesFetched
    <2> QED BY <2>2, <2>3
  <1>3. CASE \E q \in inflight, ok \in BOOLEAN : Handle(q, ok) BY <1>3 DEF Handle
  <1>4. CASE (\E x \in live : ShellExits(x)) \/ (\E x \in exited : SessionExited(x))
    BY <1>4 DEF ShellExits, SessionExited, reqVars
  <1>5. CASE LinkStep
    <2>1. PICK sup \in Sups : SupervisorLost(sup) \/ SupervisorConnected(sup)
      BY <1>5, LinkIs
    <2>2. CASE SupervisorLost(sup)
      <3>1. inflight' = {q \in inflight : q.sup # sup} BY <2>2 DEF SupervisorLost
      <3> QED BY <3>1
    <2>3. CASE SupervisorConnected(sup)
      <3>1. inflight' = inflight BY <2>3 DEF SupervisorConnected, reqVars
      <3> QED BY <3>1
    <2> QED BY <2>1, <2>2, <2>3
  <1> QED BY <1>1, <1>2, <1>3, <1>4, <1>5 DEF Next, SupervisorStep

\* Where a row is kept, with the reply to its removal.
LEMMA OutgoingStays ==
  ASSUME Ground, Landing, AddsNew, Next, NEW r \in inflight, r \in inflight',
         r.op = "add", r.done = "ok",
         NEW w \in DOMAIN projects[r.p].wts, projects[r.p].wts[w].path = r.path,
         \A a \in inflight : WorktreeRemoved(a) => a.p # r.p
  PROVE  \E g \in inflight' : g.op = "rmwt" /\ g.done = "ok" /\ g.p = r.p /\ g.w = w
  <1>0. /\ Types /\ SlugsApart(projects) /\ RequestsStand /\ ActiveIn /\ PromptStands
    BY GroundIs DEF Landing
  <1>1. PICK g \in inflight : g.op = "rmwt" /\ g.done = "ok" /\ g.p = r.p /\ g.w = w
    BY DEF AddsNew
  <1>2. r.sup = g.sup
    <2>1. projects[r.p].sup = r.sup BY <1>0, StandingPlace
    <2>2. projects[g.p].sup = g.sup BY <1>0, <1>1, StandingPlace
    <2> QED BY <1>1, <2>1, <2>2
  <1>3. g \in inflight' \/ WorktreeRemoved(g) BY <1>0, <1>1, <1>2, RemovalStays
  <1> QED BY <1>1, <1>3

\* A row of that path goes out before the new one comes in.
LEMMA AddsNewStep ==
  ASSUME Ground, Landing, Clean, ~Outdated, AddsNew, AddsApart, Next
  PROVE  AddsNew'
  <1>0. /\ Types /\ Tree /\ SlugsApart(projects) /\ RequestsStand /\ projects \in Seq(Project)
    BY GroundIs DEF Landing
  <1>1. SUFFICES ASSUME NEW r \in inflight', r.op = "add", r.done = "ok",
                        NEW w \in DOMAIN projects'[r.p].wts, projects'[r.p].wts[w].path = r.path
                 PROVE  \E g \in inflight' : g.op = "rmwt" /\ g.done = "ok" /\ g.p = r.p /\ g.w = w
    BY DEF AddsNew
  <1>2. CASE r \notin inflight
    <2>1. /\ r.path \notin git /\ projects' = projects
          /\ \E q \in inflight : /\ q.op = "add" /\ q.p = r.p /\ q.slug = r.slug
                                 /\ inflight' = (inflight \ {q}) \cup {r}
      BY <1>1, <1>2, AddedIsNew
    <2>2. PICK q \in inflight : /\ q.op = "add" /\ q.p = r.p /\ q.slug = r.slug
                                /\ inflight' = (inflight \ {q}) \cup {r}
      BY <2>1
    <2>3. q.p \in DOMAIN projects /\ IndexOf(q.slug) = q.p /\ projects[q.p].slug = q.slug
      BY <1>0, <2>2, StandingPlace
    <2>4. Going(r.p, w) BY <1>1, <2>1, <2>2, <2>3 DEF Outdated
    <2>5. PICK g \in inflight : /\ g.done = "ok" /\ g.slug = projects[r.p].slug
                                /\ g.op = "rmproj" \/ (g.op = "rmwt" /\ g.w = w)
      BY <2>4 DEF Going
    <2>6. g # q /\ g.slug = q.slug BY <2>2, <2>3, <2>5
    <2>7. g.op # "rmproj"
      <3>1. ~Displaces(g, q) BY <2>6, NotDisplaced
      <3> QED BY <2>2, <2>6, <3>1 DEF Displaces
    <2>8. g.op = "rmwt" /\ g.w = w BY <2>5, <2>7
    <2>9. IndexOf(g.slug) = g.p BY <1>0, <2>8, StandingPlace
    <2> QED BY <2>2, <2>3, <2>5, <2>6, <2>8, <2>9
  <1>3. CASE r \in inflight
    <2>1. /\ r.p \in DOMAIN projects /\ IndexOf(r.slug) = r.p /\ projects[r.p].slug = r.slug
      BY <1>0, <1>1, <1>3, StandingPlace
    <2>2. ASSUME w \in DOMAIN projects[r.p].wts, projects[r.p].wts[w].path = r.path,
                 \A a \in inflight : WorktreeRemoved(a) => a.p # r.p
          PROVE  \E g \in inflight' : g.op = "rmwt" /\ g.done = "ok" /\ g.p = r.p /\ g.w = w
      BY <1>1, <1>3, <2>2, OutgoingStays
    <2>3. ASSUME projects'[r.p] = projects[r.p],
                 \A a \in inflight : WorktreeRemoved(a) => a.p # r.p
          PROVE  \E g \in inflight' : g.op = "rmwt" /\ g.done = "ok" /\ g.p = r.p /\ g.w = w
      BY <1>1, <2>2, <2>3
    <2>4. ASSUME NEW a \in inflight, WorktreeRemoved(a), a.p = r.p PROVE FALSE
      <3>1. /\ Has(a.p, a.w) /\ a.w \in Nat \ {0} /\ RowGone(projects, projects', a.p, a.w)
        BY <1>0, <2>4, RowRemoval
      <3> DEFINE old == projects[r.p].wts
                 new == projects'[r.p].wts
      <3>2. Shortened(old, a.w, new) BY <2>4, <3>1 DEF RowGone, Held, Has
      <3>3. old \in Seq(Worktree) BY <1>0, <2>1, RowsPositive
      <3>4. w \in DOMAIN new /\ new[w].path = r.path BY <1>1
      <3>5. PICK v \in DOMAIN old : v # a.w /\ old[v].path = r.path
        <4> HIDE DEF old, new
        <4>1. /\ w \in 1 .. Len(old) - 1 /\ new[w] = IF w < a.w THEN old[w] ELSE old[w + 1]
              /\ Len(old) \in Nat /\ DOMAIN old = 1 .. Len(old)
          BY <3>2, <3>3, <3>4 DEF Shortened
        <4>2. CASE w < a.w
          <5>1. w \in DOMAIN old /\ w # a.w BY <3>1, <4>1, <4>2
          <5> QED BY <3>4, <4>1, <4>2, <5>1
        <4>3. CASE ~(w < a.w)
          <5>1. w + 1 \in DOMAIN old /\ w + 1 # a.w BY <3>1, <4>1, <4>3
          <5> QED BY <3>4, <4>1, <4>3, <5>1
        <4> QED BY <4>2, <4>3
      <3>6. PICK g \in inflight : g.op = "rmwt" /\ g.p = r.p /\ g.w = v
        BY <1>1, <1>3, <3>5 DEF AddsNew
      <3>7. g # a /\ a.op = "rmwt" BY <2>4, <3>5, <3>6 DEF WorktreeRemoved
      <3>8. a.w < g.w BY <1>0, <2>4, <3>6, <3>7, BeforeTheRow
      <3>9. g.w < a.w BY <1>0, <2>4, <3>6, <3>7, BeforeTheRow
      <3>10. g.w \in Nat
        <4>1. g \in Requests BY <1>0 DEF Types, RequestTypes
        <4> QED BY <4>1 DEF Requests
      <3> QED BY <3>1, <3>8, <3>9, <3>10
    <2>5. CASE Redecorated
      <3>1. w \in DOMAIN projects[r.p].wts /\ projects[r.p].wts[w].path = r.path
        BY <1>1, <2>1, <2>5 DEF Redecorated, SameShape
      <3> QED BY <2>2, <2>4, <3>1
    <2>6. ASSUME NEW a \in inflight, ProjectValidated(a) PROVE projects'[r.p] = projects[r.p]
      <3> DEFINE x == [slug |-> ComputeSlug, repo |-> a.path[1], sup |-> a.sup, gh |-> TRUE,
                       wts |-> <<NewWorktree(a.path)>>]
      <3>1. projects' = Append(projects, x) BY <2>6 DEF ProjectValidated
      <3> HIDE DEF x
      <3> QED BY <1>0, <2>1, <3>1
    <2>7. ASSUME NEW a \in inflight, WorktreesImported(a) PROVE projects'[r.p] = projects[r.p]
      <3>1. a.op = "import" BY <2>7 DEF WorktreesImported
      <3>2. a.p # r.p
        <4>1. ~(a.slug = r.slug) BY <1>1, <1>3, <3>1, NotDisplaced
        <4>2. projects[a.p].slug = a.slug BY <1>0, <3>1, StandingPlace
        <4> QED BY <2>1, <4>1, <4>2
      <3> QED BY <1>0, <2>1, <2>7, <3>2, GrownAt
    <2>8. ASSUME NEW a \in inflight, WorktreeAdded(a)
          PROVE  w \in DOMAIN projects[r.p].wts /\ projects[r.p].wts[w].path = r.path
      <3>1. TreeGrown /\ \A p \in DOMAIN projects : p # a.p => projects'[p] = projects[p]
        BY <1>0, <2>8, GrownAt
      <3>2. w \in DOMAIN projects[r.p].wts
        <4>1. CASE a.p # r.p BY <1>1, <2>1, <3>1, <4>1
        <4>2. CASE a.p = r.p
          <5>1. a.op = "add" /\ a.done = "ok" BY <2>8 DEF WorktreeAdded
          <5>2. a # r
            <6>1. r \in inflight' /\ r.op = "add" BY <1>1
            <6>2. \A q \in inflight' : q # a \/ q.op = "spawn"
              <7>1. CASE a.p \notin DOMAIN projects
                BY <2>1, <4>2, <7>1
              <7>2. CASE a.p \in DOMAIN projects
                <8> DEFINE z == Len(projects[a.p].wts) + 1
                           y == Request("spawn", a.p, z, a.path, {<<z, a.path>>})
                           x == [y EXCEPT !.asked = <<projects[a.p].slug, a.path>>]
                <8>1. Answer(a, {x}, FALSE) BY <2>8, <7>2 DEF WorktreeAdded
                <8>2. x.op = "spawn" BY DEF Request
                <8> HIDE DEF x
                <8>3. inflight' = (inflight \ {a}) \cup {q \in {x} : q.sup \in connected}
                  BY <8>1 DEF Answer
                <8> QED BY <8>2, <8>3
              <7> QED BY <7>1, <7>2
            <6> QED BY <6>1, <6>2
          <5>3. a.path # r.path BY <1>1, <1>3, <4>2, <5>1, <5>2 DEF AddsApart
          <5> QED BY <1>0, <1>1, <2>1, <2>8, <4>2, <5>3, AddedRow
        <4> QED BY <4>1, <4>2
      <3>3. projects'[r.p].wts[w] = projects[r.p].wts[w]
        BY <2>1, <3>1, <3>2 DEF TreeGrown, Grown
      <3> QED BY <1>1, <3>2, <3>3
    <2>9. ASSUME NEW a \in inflight, WorktreeRemoved(a) PROVE projects'[r.p] = projects[r.p]
      <3>1. a.p # r.p /\ RowGone(projects, projects', a.p, a.w) BY <1>0, <2>4, <2>9, RowRemoval
      <3> QED BY <2>1, <3>1 DEF RowGone
    <2>10. ASSUME NEW a \in inflight, ProjectRemoved(a) PROVE projects'[r.p] = projects[r.p]
      <3>1. IndexOf(a.slug) = a.p /\ a.p # 0 /\ ProjectGone(projects, projects', a.p)
        BY <1>0, <2>10, ProjectRemoval
      <3>2. a.op = "rmproj" /\ a # r BY <1>1, <2>10 DEF ProjectRemoved
      <3>3. r.p < a.p BY <1>0, <1>1, <1>3, <3>1, <3>2, BeforeTheProject
      <3>4. r.p \in DOMAIN projects' BY <1>0, <2>1, <3>1, <3>3 DEF ProjectGone
      <3> QED BY <3>1, <3>3, <3>4 DEF ProjectGone
    <2>11. CASE \E a \in inflight : ProjectValidated(a) \/ WorktreesImported(a)
      BY <2>3, <2>4, <2>6, <2>7, <2>11
    <2>12. CASE \E a \in inflight : WorktreeAdded(a) BY <2>2, <2>4, <2>8, <2>12
    <2>13. CASE \E a \in inflight : WorktreeRemoved(a) \/ ProjectRemoved(a)
      BY <2>3, <2>4, <2>9, <2>10, <2>13
    <2> QED BY <1>0, <2>5, <2>11, <2>12, <2>13, StepKinds
  <1> QED BY <1>2, <1>3

\* The shell asked for in a row that was added is displaced by any removal before it.
LEMMA AddedSpawn ==
  ASSUME Ground, Landing, NEW r \in inflight, WorktreeAdded(r)
  PROVE  \E y \in inflight' : /\ y.op = "spawn" /\ y.slug = r.slug /\ y \notin inflight
                              /\ y.rows = {<<Len(projects[r.p].wts) + 1, r.path>>}
  <1>0. /\ Types /\ SlugsApart(projects) /\ RequestsStand /\ SpawnsNew
    BY GroundIs DEF Landing, Ground, HandlesInv
  <1>1. r.op = "add" BY DEF WorktreeAdded
  <1>2. r.p \in DOMAIN projects /\ projects[r.p].slug = r.slug /\ projects[r.p].sup = r.sup
    BY <1>0, <1>1, StandingPlace
  <1>3. r.sup \in connected BY <1>0 DEF Types, RequestTypes
  <1> DEFINE z == Len(projects[r.p].wts) + 1
             y == Request("spawn", r.p, z, r.path, {<<z, r.path>>})
             x == [y EXCEPT !.asked = <<projects[r.p].slug, r.path>>]
  <1>4. Answer(r, {x}, FALSE) BY <1>2 DEF WorktreeAdded
  <1>5. x.op = "spawn" /\ x.slug = r.slug /\ x.rows = {<<z, r.path>>} /\ x.sup = r.sup
        /\ x.n = issued + 1
    <2>1. /\ y.op = "spawn" /\ y.slug = projects[r.p].slug /\ y.rows = {<<z, r.path>>}
          /\ y.sup = projects[r.p].sup /\ y.n = issued + 1
      BY DEF Request
    <2>2. /\ x.op = y.op /\ x.slug = y.slug /\ x.rows = y.rows /\ x.sup = y.sup /\ x.n = y.n
      BY DEF Request
    <2> HIDE DEF x, y
    <2> QED BY <1>2, <2>1, <2>2
  <1> HIDE DEF x, z
  <1>6. x \in inflight' BY <1>3, <1>4, <1>5 DEF Answer
  <1>7. x \notin inflight BY <1>0, <1>5 DEF Types, RequestTypes, SpawnsNew, Requests
  <1> QED BY <1>5, <1>6, <1>7 DEF z

\* So no row of a project that stays is of the path of the new one.
LEMMA AddedApart ==
  ASSUME Ground, Landing, AddsNew, Clean', Next, NEW r \in inflight, WorktreeAdded(r),
         NEW v \in DOMAIN projects[r.p].wts
  PROVE  projects[r.p].wts[v].path # r.path
  <1>0. /\ Types /\ SlugsApart(projects) /\ RequestsStand /\ projects \in Seq(Project)
        /\ ActiveIn /\ PromptStands
    BY GroundIs DEF Landing
  <1>1. SUFFICES ASSUME projects[r.p].wts[v].path = r.path PROVE FALSE OBVIOUS
  <1>2. r.op = "add" /\ r.done = "ok" BY DEF WorktreeAdded
  <1>3. PICK g \in inflight : g.op = "rmwt" /\ g.done = "ok" /\ g.p = r.p /\ g.w = v
    BY <1>1, <1>2 DEF AddsNew
  <1>4. g \in inflight' BY <1>2, <1>3, AppliedDrops DEF Applied
  <1>5. g.slug = r.slug
    <2>1. projects[r.p].slug = r.slug BY <1>0, <1>2, StandingPlace
    <2>2. projects[g.p].slug = g.slug BY <1>0, <1>3, StandingPlace
    <2> QED BY <1>3, <2>1, <2>2
  <1> DEFINE z == Len(projects[r.p].wts) + 1
  <1>6. PICK y \in inflight' : /\ y.op = "spawn" /\ y.slug = r.slug /\ y \notin inflight
                               /\ y.rows = {<<z, r.path>>}
    BY AddedSpawn
  <1>7. z >= g.w
    <2>1. projects[r.p].wts \in Seq(Worktree) BY <1>0, <1>2, StandingPlace, RowsPositive
    <2> QED BY <1>3, <2>1
  <1>8. \E row \in y.rows : row[1] >= g.w
    <2> HIDE DEF z
    <2>1. <<z, r.path>> \in y.rows /\ <<z, r.path>>[1] = z BY <1>6
    <2> QED BY <1>7, <2>1
  <1>9. Displaces(g, y)' BY <1>3, <1>5, <1>6, <1>8 DEF Displaces
  <1>10. Crossing' BY <1>4, <1>6, <1>9 DEF Crossing
  <1> QED BY <1>10 DEF Clean

\* No step makes two rows of one worktree.
LEMMA RowsApartStep ==
  ASSUME Ground, Landing, RowsApart, AddsNew, Clean', Next
  PROVE  RowsApart'
  <1>0. /\ Types /\ Tree /\ SlugsApart(projects) /\ RequestsStand /\ projects \in Seq(Project)
    BY GroundIs DEF Landing
  <1>1. SUFFICES ASSUME NEW p \in DOMAIN projects',
                        NEW v \in DOMAIN projects'[p].wts, NEW w \in DOMAIN projects'[p].wts,
                        projects'[p].wts[v].path = projects'[p].wts[w].path
                 PROVE  v = w
    BY DEF RowsApart
  <1>2. ASSUME p \in DOMAIN projects, projects'[p] = projects[p] PROVE v = w
    BY <1>1, <1>2 DEF RowsApart
  <1>3. CASE Redecorated
    <2>1. /\ p \in DOMAIN projects /\ v \in DOMAIN projects[p].wts /\ w \in DOMAIN projects[p].wts
          /\ projects'[p].wts[v].path = projects[p].wts[v].path
          /\ projects'[p].wts[w].path = projects[p].wts[w].path
      BY <1>1, <1>3 DEF Redecorated, SameShape
    <2> QED BY <1>1, <2>1 DEF RowsApart
  <1>4. ASSUME NEW a \in inflight, ProjectValidated(a) PROVE v = w
    <2>1. CASE p \notin DOMAIN projects
      <3>1. projects'[p].wts = <<NewWorktree(a.path)>>
        BY <1>0, <1>1, <1>4, <2>1, ValidatedRow
      <3> QED BY <1>1, <3>1
    <2>2. CASE p \in DOMAIN projects
      <3> DEFINE x == [slug |-> ComputeSlug, repo |-> a.path[1], sup |-> a.sup, gh |-> TRUE,
                       wts |-> <<NewWorktree(a.path)>>]
      <3>1. projects' = Append(projects, x) BY <1>4 DEF ProjectValidated
      <3> HIDE DEF x
      <3>2. projects'[p] = projects[p] BY <1>0, <2>2, <3>1
      <3> QED BY <1>2, <2>2, <3>2
    <2> QED BY <2>1, <2>2
  <1>5. ASSUME NEW a \in inflight, WorktreesImported(a) \/ WorktreeAdded(a) PROVE v = w
    <2>1. /\ TreeGrown /\ DOMAIN projects' = DOMAIN projects
          /\ \A q \in DOMAIN projects : q # a.p => projects'[q] = projects[q]
      BY <1>0, <1>5, GrownAt
    <2>2. CASE p # a.p BY <1>1, <1>2, <2>1, <2>2
    <2>3. CASE p = a.p
      <3> DEFINE old == DOMAIN projects[p].wts
      <3>1. /\ p \in DOMAIN projects
            /\ \A u \in old : u \in DOMAIN projects'[p].wts
                              /\ projects'[p].wts[u].path = projects[p].wts[u].path
        BY <1>1, <2>1 DEF TreeGrown, Grown
      <3>2. CASE v \in old /\ w \in old BY <1>1, <3>1, <3>2 DEF RowsApart
      <3>3. ASSUME NEW x \in DOMAIN projects'[p].wts, x \notin old, NEW y \in old
            PROVE  projects'[p].wts[x].path # projects'[p].wts[y].path
        <4>1. CASE WorktreesImported(a)
          <5>1. projects'[p].wts[x].path \in Unlisted(projects[p].wts, a.found)
            BY <1>0, <2>3, <3>1, <3>3, <4>1, ImportedRows
          <5> QED BY <3>1, <3>3, <5>1 DEF Unlisted
        <4>2. CASE WorktreeAdded(a)
          <5>1. projects'[p].wts[x].path = a.path
            BY <1>0, <2>3, <3>1, <3>3, <4>2, AddedRow
          <5>2. projects[p].wts[y].path # a.path BY <2>3, <3>3, <4>2, AddedApart
          <5> QED BY <3>1, <3>3, <5>1, <5>2
        <4> QED BY <1>5, <4>1, <4>2
      <3>4. CASE v \notin old /\ w \notin old
        <4>1. CASE WorktreesImported(a) BY <1>0, <1>1, <2>3, <3>1, <3>4, <4>1, ImportedRows
        <4>2. CASE WorktreeAdded(a)
          <5>1. \A x \in DOMAIN projects'[p].wts \ old : x = Len(projects[p].wts) + 1
            BY <1>0, <2>3, <3>1, <4>2, AddedRow
          <5> QED BY <1>1, <3>4, <5>1
        <4> QED BY <1>5, <4>1, <4>2
      <3> HIDE DEF old
      <3> QED BY <1>1, <3>2, <3>3, <3>4
    <2> QED BY <2>2, <2>3
  <1>6. ASSUME NEW a \in inflight, WorktreeRemoved(a) PROVE v = w
    <2>1. /\ Has(a.p, a.w) /\ a.w \in Nat \ {0} /\ RowGone(projects, projects', a.p, a.w)
      BY <1>0, <1>6, RowRemoval
    <2>2. /\ DOMAIN projects' = DOMAIN projects
          /\ \A q \in DOMAIN projects : q # a.p => projects'[q] = projects[q]
          /\ Shortened(projects[a.p].wts, a.w, projects'[a.p].wts)
      BY <2>1 DEF RowGone, Held, Has
    <2>3. CASE p # a.p BY <1>1, <1>2, <2>2, <2>3
    <2>4. CASE p = a.p
      <3> DEFINE old == projects[p].wts
                 new == projects'[p].wts
                 At(u) == IF u < a.w THEN u ELSE u + 1
      <3>1. Shortened(old, a.w, new) /\ p \in DOMAIN projects BY <1>1, <2>2, <2>4
      <3>2. old \in Seq(Worktree) BY <1>0, <3>1, RowsPositive
      <3>3. v \in DOMAIN new /\ w \in DOMAIN new /\ new[v].path = new[w].path BY <1>1
      <3>4. \A x, y \in DOMAIN old : old[x].path = old[y].path => x = y BY <3>1 DEF RowsApart
      <3> HIDE DEF old, new
      <3>5. /\ v \in 1 .. Len(old) - 1 /\ w \in 1 .. Len(old) - 1 /\ Len(old) \in Nat
            /\ DOMAIN old = 1 .. Len(old)
            /\ new[v] = (IF v < a.w THEN old[v] ELSE old[v + 1])
            /\ new[w] = (IF w < a.w THEN old[w] ELSE old[w + 1])
        BY <3>1, <3>2, <3>3 DEF Shortened
      <3>6. /\ At(v) \in DOMAIN old /\ At(w) \in DOMAIN old
            /\ new[v] = old[At(v)] /\ new[w] = old[At(w)]
        BY <2>1, <3>5
      <3>7. At(v) = At(w) => v = w BY <2>1, <3>5
      <3> HIDE DEF At
      <3>8. At(v) = At(w) BY <3>3, <3>4, <3>6
      <3> QED BY <3>7, <3>8
    <2> QED BY <2>3, <2>4
  <1>7. ASSUME NEW a \in inflight, ProjectRemoved(a) PROVE v = w
    <2>1. ProjectGone(projects, projects', a.p) BY <1>0, <1>7, ProjectRemoval
    <2> DEFINE q == IF p < a.p THEN p ELSE p + 1
    <2>2. q \in DOMAIN projects /\ projects'[p] = projects[q]
      <3>1. /\ p \in 1 .. Len(projects) - 1 /\ Len(projects) \in Nat
            /\ DOMAIN projects = 1 .. Len(projects)
        BY <1>0, <1>1, <2>1 DEF ProjectGone
      <3>2. projects'[p] = projects[q] BY <1>1, <2>1 DEF ProjectGone
      <3>3. q \in DOMAIN projects BY <2>1, <3>1 DEF ProjectGone
      <3> QED BY <3>2, <3>3
    <2> HIDE DEF q
    <2> QED BY <1>1, <2>2 DEF RowsApart
  <1> QED BY <1>0, <1>3, <1>4, <1>5, <1>6, <1>7, StepKinds

\* As long as nothing crossed, no shell of a connected supervisor is left without a tab; and
\* as long as, besides, what was listed was on disk or on its way out, the rows that the
\* replies to worktree-add and worktree-import append (reducer.rs) list no worktree twice.
THEOREM NoStrays == Spec => []NothingStray
  <1> DEFINE Inv == Ground /\ (Clean => Landing) /\ (Clean /\ ~outdated => Listed)
  <1>1. Init => Inv
    <2> SUFFICES ASSUME Init PROVE Inv OBVIOUS
    <2>1. inflight = {} /\ projects = Loaded BY DEF Init
    <2>2. Listed BY <2>1, OrderlyAssumption DEF Listed, RowsApart, AddsNew, AddsApart
    <2> QED BY <2>2, LandingInit
  <1>2. Inv /\ [Next]_vars => Inv'
    <2> SUFFICES ASSUME Inv, [Next]_vars PROVE Inv' OBVIOUS
    <2>1. Ground' BY GroundStep
    <2>2. CASE UNCHANGED vars
      <3>1. Clean' => Clean BY <2>2, CleanIdle
      <3>2. Landing => Landing' BY <2>2, LandingIdle
      <3>3. outdated' = outdated /\ (Listed => Listed')
        BY <2>2 DEF vars, treeVars, reqVars, Listed, RowsApart, AddsNew, AddsApart
      <3> QED BY <2>1, <3>1, <3>2, <3>3
    <2>3. CASE Next
      <3>1. Clean' => Clean BY <2>3, CleanBefore
      <3>2. ASSUME Clean' PROVE Landing' BY <2>3, <3>1, <3>2, LandingStep
      <3>3. ASSUME Clean', ~outdated' PROVE Listed'
        <4>1. Track BY <2>3, UserLeaves, AppliedLeaves, OtherLeaves DEF Next
        <4>2. Clean /\ ~outdated /\ ~Outdated BY <3>1, <3>3, <4>1 DEF Track
        <4>3. Landing /\ RowsApart /\ AddsNew /\ AddsApart BY <4>2 DEF Listed
        <4>4. RowsApart' BY <2>3, <3>3, <4>3, RowsApartStep
        <4>5. AddsNew' BY <2>3, <4>2, <4>3, AddsNewStep
        <4>6. AddsApart' BY <2>3, <4>2, <4>3, AddsApartStep
        <4> QED BY <4>4, <4>5, <4>6 DEF Listed
      <3> QED BY <2>1, <3>2, <3>3
    <2> QED BY <2>2, <2>3
  <1>3. Inv => NothingStray
    <2> SUFFICES ASSUME Inv, Clean PROVE NothingStray BY DEF NothingStray
    <2>1. ShellsHeld BY DEF Landing, ShellsInv
    <2>2. outdated \/ RowsApart BY DEF Listed
    <2> QED BY <2>1, <2>2 DEF NothingStray, ShellsHeld, RowsApart
  <1> HIDE DEF Inv
  <1> QED BY <1>1, <1>2, <1>3, PTL DEF Spec
==============================================================================
