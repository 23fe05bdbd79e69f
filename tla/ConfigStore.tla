----------------------------- MODULE ConfigStore -----------------------------
(***************************************************************************)
(* The configuration directory: config.toml, which lists the projects by    *)
(* slug, and one file per project (config.rs), written by the commands that *)
(* opening, editing and removing a project emit (reducer.rs, runtime.rs)    *)
(* and read at startup.  The client can be killed between any two steps, a  *)
(* write can fail, and the user edits the files by hand while no client     *)
(* runs.                                                                    *)
(*                                                                         *)
(* A slug is <<name, n>>: the slugified name of the repository, with "-n"   *)
(* after it from the second project of that name on.  What a project file   *)
(* holds is the number of the opening that made the project.                *)
(*                                                                         *)
(* What is shown and what is listed are sets: both the sidebar and the list *)
(* are in the order of sorted_project_indices (supervisor, name, slug),     *)
(* which the projects themselves decide.                                    *)
(***************************************************************************)
EXTENDS Naturals, Sequences

CONSTANTS
  Names,        \* repository names
  NameLength,   \* their lengths as slugs
  MaxOpens,     \* bound on the projects opened
  MaxCrashes,   \* bound on the restarts
  MaxMishaps    \* bound on the failed writes and hand edits

ASSUME ConfigAssumption == NameLength \in [Names -> Nat] /\ MaxOpens \in Nat

VARIABLES
  running,      \* a client runs
  shown,        \* its projects: [id, slug]
  queue,        \* the writes of the command being executed
  staged,       \* the temporary file of the first of them is complete
  listed,       \* config.toml: the slugs
  files,        \* projects/<slug>.toml: [id, ok], id 0 for no file
  opens, crashes, mishaps,
  durable,      \* projects written in full, under a valid slug
  removed,      \* projects removed
  undeleted,    \* of those, the ones whose file could not be deleted
  unreadable,   \* projects a start could not read
  failed        \* a write failed since the start

cfgVars == <<running, shown, queue, staged, listed, files, opens, crashes, mishaps, durable, removed,
             undeleted, unreadable, failed>>
history == <<durable, removed, undeleted, unreadable, failed>>
counts == <<opens, crashes, mishaps>>

Slugs == Names \X (1 .. MaxOpens)
NoFile == [id |-> 0, ok |-> TRUE]

\* is_valid_slug: at most 64 bytes; the suffixes here have two.
IsValidSlug(slug) == NameLength[slug[1]] + (IF slug[2] = 1 THEN 0 ELSE 2) <= 64

Ids(projects) == {p.id : p \in projects}
SlugsOf(projects) == {p.slug : p \in projects}

\* compute_slug: the first that no project shown has.
FreeSlug(name) ==
  LET taken == SlugsOf(shown)
  IN <<name, CHOOSE n \in 1 .. MaxOpens :
               /\ <<name, n>> \notin taken
               /\ \A m \in 1 .. n - 1 : <<name, m>> \in taken>>

---------------------------------------------------------------------------
(* Loading.                                                                *)

\* (Faulty.)  A project is loaded whether or not its slug is a legal one.
LoadableUnchecked(slug) == files[slug].id # 0 /\ files[slug].ok

\* load_project
Loadable(slug) == IsValidSlug(slug) /\ files[slug].id # 0 /\ files[slug].ok

\* load_or_default: what does not load is skipped, and stays listed.
LoadOrDefault ==
  {[id |-> files[slug].id, slug |-> slug] : slug \in {t \in listed : Loadable(t)}}

CfgInit ==
  /\ running = TRUE
  /\ shown = {} /\ queue = <<>> /\ staged = FALSE /\ listed = {}
  /\ files = [slug \in Slugs |-> NoFile]
  /\ opens = 0 /\ crashes = 0 /\ mishaps = 0
  /\ durable = {} /\ removed = {} /\ undeleted = {} /\ unreadable = {}
  /\ failed = FALSE

Start ==
  /\ ~running
  /\ running' = TRUE
  /\ shown' = LoadOrDefault
  /\ failed' = FALSE
  /\ unreadable' = unreadable \cup {files[slug].id : slug \in {t \in listed : ~files[t].ok}}
  /\ UNCHANGED <<queue, staged, listed, files, counts, durable, removed, undeleted>>

---------------------------------------------------------------------------
(* What the user does; the writes follow before anything else.              *)

Idle == running /\ queue = <<>>
Global == [op |-> "global", slug |-> <<>>, id |-> 0]

OpenProjectAs(name) ==
  /\ Idle /\ opens < MaxOpens
  /\ LET p == [id |-> opens + 1, slug |-> FreeSlug(name)]
     IN /\ shown' = shown \cup {p}
        /\ queue' = <<Global, [op |-> "project", slug |-> p.slug, id |-> p.id]>>
  /\ opens' = opens + 1
  /\ UNCHANGED <<running, staged, listed, files, crashes, mishaps, history>>

\* Setup script, worktrees, expansion, GitHub switch: SaveProjectConfig.
ChangeProject(p) ==
  /\ Idle
  /\ queue' = <<[op |-> "project", slug |-> p.slug, id |-> p.id]>>
  /\ UNCHANGED <<running, shown, staged, listed, files, counts, history>>

\* Sidebar width and visibility, theme: SaveGlobalConfig.
ChangeSettings ==
  /\ Idle
  /\ queue' = <<Global>>
  /\ UNCHANGED <<running, shown, staged, listed, files, counts, history>>

\* (Faulty.)  The file is left behind.
RemoveFromListOnly(p) ==
  /\ Idle
  /\ shown' = shown \ {p}
  /\ queue' = <<Global>>
  /\ removed' = removed \cup {p.id}
  /\ UNCHANGED <<running, staged, listed, files, counts, durable, undeleted, unreadable, failed>>

\* ProjectRemoved: DeleteProjectConfig, then SaveGlobalConfig.
RemoveShown(p) ==
  /\ Idle
  /\ shown' = shown \ {p}
  /\ queue' = <<[op |-> "delete", slug |-> p.slug, id |-> p.id], Global>>
  /\ removed' = removed \cup {p.id}
  /\ UNCHANGED <<running, staged, listed, files, counts, durable, undeleted, unreadable, failed>>

---------------------------------------------------------------------------
(* The writes.                                                             *)

\* (Faulty.)  The target is truncated and written in place.
StageInPlace ==
  /\ queue # <<>> /\ ~staged /\ Head(queue).op # "delete"
  /\ staged' = TRUE
  /\ listed' = IF Head(queue).op = "global" THEN {} ELSE listed
  /\ files' = IF Head(queue).op = "project"
              THEN [files EXCEPT ![Head(queue).slug].ok = FALSE] ELSE files
  /\ UNCHANGED <<running, shown, queue, counts, history>>

\* write_toml_atomic, up to the rename.
Stage ==
  /\ queue # <<>> /\ ~staged /\ Head(queue).op # "delete"
  /\ staged' = TRUE
  /\ UNCHANGED <<running, shown, queue, listed, files, counts, history>>

\* The rename, which replaces what the file held, or the deletion, refused for
\* a slug that is not valid.
Commit ==
  /\ queue # <<>>
  /\ LET w == Head(queue) IN
     /\ staged \/ w.op = "delete"
     /\ listed' = IF w.op = "global" THEN SlugsOf(shown) ELSE listed
     /\ files' = IF w.op = "project" THEN [files EXCEPT ![w.slug] = [id |-> w.id, ok |-> TRUE]]
                 ELSE IF w.op = "delete" /\ IsValidSlug(w.slug)
                 THEN [files EXCEPT ![w.slug] = NoFile]
                 ELSE files
     /\ durable' = IF w.op = "project" /\ ~failed /\ IsValidSlug(w.slug)
                   THEN durable \cup {w.id} ELSE durable
     /\ undeleted' = IF w.op = "delete" /\ ~IsValidSlug(w.slug)
                     THEN undeleted \cup {w.id} ELSE undeleted
  /\ queue' = Tail(queue)
  /\ staged' = FALSE
  /\ UNCHANGED <<running, shown, counts, removed, unreadable, failed>>

\* A full disk, a permission: the client warns in its log and goes on.
WriteFails ==
  /\ queue # <<>> /\ mishaps < MaxMishaps
  /\ queue' = Tail(queue)
  /\ staged' = FALSE
  /\ failed' = TRUE
  /\ undeleted' = IF Head(queue).op = "delete" THEN undeleted \cup {Head(queue).id} ELSE undeleted
  /\ mishaps' = mishaps + 1
  /\ UNCHANGED <<running, shown, listed, files, opens, crashes, durable, removed, unreadable>>

---------------------------------------------------------------------------
\* The client quits or is killed, also between two writes.
Quit ==
  /\ running /\ crashes < MaxCrashes
  /\ running' = FALSE
  /\ crashes' = crashes + 1
  /\ shown' = {} /\ queue' = <<>> /\ staged' = FALSE
  /\ undeleted' = undeleted \cup
       {queue[i].id : i \in {j \in DOMAIN queue : queue[j].op = "delete"}}
  /\ UNCHANGED <<listed, files, opens, mishaps, durable, removed, unreadable, failed>>

\* The user breaks a project file by hand, or mends it.
HandEdit(slug) ==
  /\ ~running /\ mishaps < MaxMishaps
  /\ files[slug].id # 0
  /\ files' = [files EXCEPT ![slug].ok = ~@]
  /\ mishaps' = mishaps + 1
  /\ UNCHANGED <<running, shown, queue, staged, listed, opens, crashes, history>>

CfgNext ==
  \/ Start \/ Stage \/ Commit \/ WriteFails \/ Quit \/ ChangeSettings
  \/ \E name \in Names : OpenProjectAs(name)
  \/ \E p \in shown : ChangeProject(p) \/ RemoveShown(p)
  \/ \E slug \in Slugs : HandEdit(slug)

CfgSpec == CfgInit /\ [][CfgNext]_cfgVars

---------------------------------------------------------------------------
\* A restart would show the projects on screen, no more and no fewer, whatever
\* crashes, failed writes and broken files came before this start, but for
\* those whose slug is too long to be read back (load_or_default; compute_slug
\* in config.rs).
RestartShows ==
  Idle /\ ~failed =>
    LoadOrDefault = {p \in shown : IsValidSlug(p.slug)}

\* A project that was removed does not come back, also when its slug is used
\* again and a crash cuts that short, unless its file could not be deleted
\* (ProjectRemoved in reducer.rs; delete_project in config.rs).
NothingReturns == Ids(shown) \cap removed \subseteq undeleted

\* A project that was written, with a slug that can be read, is shown by every
\* client until it is removed, whatever is cut short by a crash, unless a start
\* found its file broken: the next write of the list then forgets it
\* (load_or_default; write_toml_atomic).
WrittenIsKept ==
  Idle => durable \ (removed \cup unreadable) \subseteq Ids(shown)
=============================================================================
