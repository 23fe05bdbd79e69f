# imbuia: a TLA+ verification development

imbuia is a terminal workspace manager: a *client* (TUI) shows projects, their
git worktrees and, per worktree, tabs with shells; the shells live in a
*supervisor* process that survives the client, on this machine (Unix socket) or
on another (TLS over TCP). This directory holds the TLA+ models of its
concurrent core, their TLC configurations and the TLAPS proofs about them.
Source references are to `src/src/*.rs`.

## 1. Inventory

| component | state it keeps | operations | what is hard | what makes it correct |
|---|---|---|---|---|
| attach slot (`supervisor.rs` `handle_conn`) | `Shared.active`, `active_generation`, `Registry.active_client_pid`; per connection a channel, a `CancellationToken` | handshake, snapshot, steal, notice to the displaced client, cancellation, cleanup | a steal may happen at any point of the displaced connection's life; its cleanup runs beside its successor | one holder at a time; a displaced connection is cancelled and ends; nobody empties the slot of another |
| command loop and sessions (`command_loop`, `spawn_session`, `kill_session`) | `Registry.sessions`, `next_id`, per session a PTY, an input queue, reader, writer and reaper threads | Spawn, WriteBytes, Resize, Kill, Attach, Shutdown | threads and tasks block on bounded queues; a shell may end at any moment | exits reach the holder of the slot; the reply to a spawn precedes its dump; nobody blocks for ever on a client that was displaced |
| PTY output path (reader thread, `push_output_log`, `build_dump`, `client.rs` reader) | parser, replay log with a cap, the reader's lock-free cache; the client's parser | read, log, forward, dump, replay | dump and live output come from two threads; the cache is checked by generation, outside the lock | the attached client misses nothing; a replay rebuilds the screen |
| usage sampler (`spawn_usage_sampler`) | `usage_subscribed`, `usage_thread_alive` | subscribe, unsubscribe, a round per second | the thread's decision to stop races with a subscription; the flag outlives a steal | one thread at most; no subscription without one |
| client link (`client.rs`, `runtime.rs` `rebind_one`) | `sessions` (id to tab), `initial_sessions`, pending spawns, ops, uploads | adopt, rebind, requests, the reader task | frames arrive while the tabs are being set up; numbers of requests restart with every link | tabs and sessions agree; an answer goes to who asked |
| uploads (`IncomingUpload`, `pending_uploads`) | the open file, bytes received, a remainder to discard | start, chunk, finish, cancel | streamed without acknowledgements | one result per upload, never a short file accepted |
| git operations (`run_git_op`, `OpReplyGuard`, `close_sessions_in_paths`) | pending operations of the client; processes to stop | worktree add/remove, project remove, import, list directory | run in threads; replies go to whoever holds the slot; sessions may be spawned while a removal runs | every operation is answered; no shell is left in a removed directory |
| GitHub worker (`spawn_gh_worker`, `github.rs`) | its inbox, a job in hand | fetch, coalesce | jobs of one repository are merged | every request is answered, with statuses no older than the request |
| workspace and reducer (`reducer.rs`, `app.rs`, `commands.rs`) | projects, worktrees, tabs, statuses, pending operation, input mode | one per `Action`, key, mouse event | asynchronous results address projects and worktrees by position | a result is applied to what it was asked for |
| remote supervisors (`runtime.rs`, `client.rs` `connect_*`) | links by supervisor id | dial, reconnect, restart, lost | several dials in flight, losses not told apart | what the registry lists is connected, and what is connected is listed |
| transport trust (`transport.rs`) | identity file, pins, authorized keys | first use, verify | check and write are separate steps of concurrent dials | trust once given lasts; a changed key is never accepted silently |
| keybindings, modes, popups (`keybinds.rs`, `reducer.rs` `handle_key`) | overlay, mode, pending chord, held keys, popups, focus | lookup, key, mouse, paste | chords with common prefixes, a chord left pending while mode or focus changes | what is typed in a session reaches that session, once and in order |
| config store (`config.rs`) | global and per-project files | load, save, slug | a crash between two files, a write that fails, hand edits | what is loaded was saved, what was removed stays removed |
| self-update (`updater.rs`) | latest version known, install in progress | check, install | concurrent checks whose results carry no identity | one install at a time, and only if asked for |
| keyboard tracker, clipboard sniffer (`input.rs`) | scanners' state, stack of keyboard modes | feed, prelude | input split anywhere, a log that is cut, dumps that replay | client and supervisor infer the same keyboard mode |
| wire codec (`ipc.rs`) | none | frame, parse | | not modelled |
| rendering, palette, theme, entry point | none | | | not modelled: functions of the state, or pure I/O |

How they interact. A client opens one connection per supervisor and sends
`ClientMsg` frames; the connection's task handles them one at a time and shares
the `Registry` mutex with the session threads, the sampler and the other
connections' tasks. Everything the supervisor sends goes through one bounded
channel per connection (512 frames) to a writer task, and at the other end
through the client's reader task, which turns frames into `Action`s for the
reducer. Session output takes a second way that avoids the mutex: the PTY
reader thread keeps the active connection in a cache, valid as long as
`active_generation` has not moved.

`PROJECT.json` lists, under "hazards", each place where this can go wrong in a
way a test would hardly reach, and the properties that watch it.

## 2. Plan

All modules of the plan exist:

1. **AttachSlot**, **Supervisor**: the slot's promise, and the supervisor's tasks
   and threads that implement it. Proofs: **SupervisorProofs**.
2. **OutputFeed**: the output of one session, from PTY to client. Proofs:
   **OutputFeedProofs**. **KeyboardModes**: what both ends infer from it about the
   keyboard. Proofs: **KeyboardProofs**.
3. **Workspace**: the reducer's projects, worktrees, tabs and statuses, the
   operations of the supervisors on git and on shells, and their replies, which
   address rows by position. Proofs: **WorkspaceProofs** (types, positions, files,
   tabs, operations) and **LandingProofs** (where replies land), which extends it.
4. **Requests**: streamed uploads, operations and the gh worker, and whose
   pending table an answer meets. Proofs: **RequestsProofs**.
5. **RemoteLinks**: dials in flight, trust files, losses and the registry. Proofs:
   **LinksProofs**.
6. **Updates**, **ConfigStore**, **Interface**, **ProjectPopups**: the smaller
   state machines of the client. Proofs: **ClientProofs** (of all four).

Every safety property of the passing runs is also a theorem; section 5 says why
liveness is left to TLC.

## 3. Modules and the code

### AttachSlot

What the supervisor promises about its slot: `owner`, the connections that were
`served`, those `leaving`. `Attach` takes the slot from whoever holds it,
`Leave` is the end of a command loop, `Release` empties the slot and is open
only to the owner itself on its way out. `FairSpec` adds that an owner on its
way out does release.

### Supervisor

One step is one critical section of the registry mutex, one channel operation,
or one synchronous stretch that touches nothing shared.

| code | model |
|---|---|
| `handle_conn` up to the reply: snapshot of the sessions | `Handshake`, `HandshakeFails` |
| swap of `active`, `active_generation`, `active_client_pid` in one lock | `Steal` |
| `old.tx.try_send(Detached)`, then `old.cancel.cancel()` | `Detach`, `CancelOld` |
| dumps of the snapshot; of a spawned or attached session | `Dump` looks a session up and builds its dump, which the task then holds in `frame`; `SendDump` is the send, which may have to wait while the session ends; `DumpsDone` (`todo` is what is still to be looked up) |
| biased `select!` of cancellation and read | `ReadFrame`, `LeaveLoop` |
| handlers | `Spawn` + `Announce`, `Attach`, `Kill`, `WriteBytes`, `SubscribeUsage`, `UnsubscribeUsage` |
| generation check, then `cancel`, `writer.await`, drop of the stream | `Cleanup`, `Closed` |
| writer task, socket, client reader task | `Deliver`, `WriterStops`; one queue `out` stands for the channel, the socket's buffer and what the reader has not handled |
| reaper thread: remove and read `active` in one lock; `blocking_send` | `Reap`, `SendExited` (`exitTo` is the channel it holds) |
| PTY writer thread and the program behind it | `ReadInput` on `input`, the length of the queue of 256 |
| sampler's rounds | `SamplerCheck`, `SamplerSend` |
| `rebind_one`, `adopt`, the reader's table of sessions | `Rebind`, `Deliver` on `initial`, `known`, `want` |
| client exits, link breaks | `ClientQuits` |

`owed` and `asked` are history: what a connection must be told of, and whether
its last usage frame was a subscription (`asked` also decides which usage frame
its user can send next: the popup is open or closed). A dump that is held or queued is sent although its session
has been reaped meanwhile, as in the code. A send to a closed channel
is lost, as in tokio; a spawn's reply that cannot be sent ends the loop (`?` in the
code), other failed sends are ignored, as the code
ignores them.

### OutputFeed

The same steal, finer: `Swap` and `Bump` are the two atomic writes under the
mutex, because the PTY reader loads the generation (`LoadGeneration`) and the
slot (`LoadActive`) without it. Output is counted in chunks; the log holds the
chunks `evicted + 1 .. logged`; `truncated` is the flag that turns `build_dump`
from the log (`DumpLog`) to the screen (`DumpScreen`). The client processes
frames only once it has adopted the session (`Adopt`, which also asks for one
more dump). Mode and keyboard preludes are left out: they are recomputed for
every dump and do not interact with the order of frames; KeyboardModes has them.

### Workspace

A step is one key, one mouse event or one `Action` of the client's loop with the
commands it emits, or one request handled by a supervisor.

| code | model |
|---|---|
| `AppState.projects`, `sessions`, `active_worktree`, `sidebar_selection`, `pr_statuses`, `pending_op` | the variables of these names; `popup` is whichever prompt is open, with the position it holds |
| `pending_spawns`, `pending_ops`, the frames and the supervisor's threads | `inflight`: one record per request with the positions the client keeps for the reply (`p`, `w`), the names the supervisor gets (`slug`, `path`, `rows`) and, as history, what it was `asked` for |
| sidebar, mouse, tabs | `MoveSelection`, `ActivateSelection`, `ClickRow`, `SwitchTab`, `OpenNewTab`, `CloseTab` |
| commands and prompts | `AddWorktree`, `AskBranch` + `SubmitBranch`, `ImportWorktrees`, `AskRemoveWorktree` + `ConfirmRemoveWorktree`, `RemoveProject`, `AskRemoveProject` + `ConfirmRemoveProject`, `OpenProject`, `OpenLauncher` + `Launch`, `CancelPrompt` |
| `command_loop`, `run_git_op`, `close_sessions_in_paths` | `Handle`; spawns in the order sent (`Turn`), operations in threads, hence in any order; `git` is the worktrees on disk |
| `reduce` on replies and notices | one action per `Action`: `SessionSpawned`, `SessionExited`, `ProjectValidated`, `WorktreesImported`, `WorktreeAdded`, `WorktreeRemoved`, `ProjectRemoved`, `OperationFailed`, `PrStatusesFetched`, `PrFetchFailed` |
| `SaveProjectConfig`, `DeleteProjectConfig` | `saved` |
| `SupervisorLost`, `on_supervisor_connected`, `rebind_one`, `locate` | `SupervisorLost`, `SupervisorConnected`, `Located` |

`misled`, `crossed`, `outdated` and `scattered` are history. `misled` collects the kinds of requests and
prompts that were applied to something else than they were for. `crossed` is set
once a removal was outstanding together with a request or a prompt that it
displaces: one for the removed row, a row behind it, or anything in a project
that goes or moves. The positional scheme is right exactly outside these
crossings, and that is what `LandsUnlessCrossed` says; inside them
`LandsWhereAsked` fails. `scattered` is about the PR statuses alone. A removal collects
the rows behind it that have one from the keys of a hash map and moves their statuses up
one at a time (`MovedUp`, folded by `MovedUpEach` over any sequence of
`StatusesBehind`). As long as no two of those rows are adjacent the order is of no
consequence; of two adjacent ones the lower, if it goes first, lands on the upper,
whose status is lost, and is then moved on in its stead. `scattered` is set once a removal
met such rows, in whatever order they went; it stays set although a refresh may
put the statuses right. `outdated` is set once a worktree is listed, or about to be by
a reply on its way, that is gone from disk and that no reply is about to take off the
list. git then lets its branch be added again, and `reducer.rs:164` appends the row
without looking for one of the same path: `NothingStray` holds a project to listing no
worktree twice until then. There are four ways into it: a project removal that fails
half-way, the loss of a connection with the reply to a removal on it, another project
of the same repository that removes what this one lists, and a removal that overtakes
the reply to an import. An earlier form of the property knew the first only, held on the
runs' instances, and turned out false on a larger one when it was to be proved.

A tab is a handle, the shell's number and the connection it was adopted on, because
`adopt` gives a session a new global id on every connection. With the shell's number
alone `TabsAreSessions` is false: after a reconnection the reply to a spawn of the
lost link, or an exit notice of it, would name a tab that was adopted again. The
order of adopted tabs is that of a hash map, hence any ordering of the set; sorted
projects are stated by their first (`Standing`).

Abstractions. All repositories have the same directory name, the hard case for
slugs, so that a slug is a number. A path is a repository and a branch, and the
branch number is git's order of worktrees. Folding, scrolling, modes and layout
do not change what a position means. Saving replaces a file at once. A kill takes
effect when it is sent; a request that cannot be sent fails in the same step (the
code posts the failure to its own queue). What a supervisor was doing for a link
that is lost ends with the link without an effect. A spawn in a directory that is
gone succeeds, as portable-pty then starts the shell in the home directory. `gh`
answers any subset of rows with a PR; the merging of its jobs is in Requests.
`SupervisorLost` of the local supervisor ends the client.

### Requests

The requests of a client and their answers, over connections that displace one
another. A connection's frames are a queue each way and are lost with it.

| code | model |
|---|---|
| `upload_file`, `send_op`, `next_request`, `pending_uploads`, `pending_ops` | `Upload`, `SendOp`; `nextId`, `pend` |
| the writer task streaming a file | `StreamStart`, `StreamNext` (`stream`) |
| `command_loop` on upload frames; `IncomingUpload`, `discarded_upload` | `UploadStart`, `UploadChunk`, `UploadFinish`; `incoming`, `discarded` |
| `Op`: the channel in the slot is captured, the work handed to a thread or the worker | `DispatchOp` |
| `OpReplyGuard` | `OpReply`, with success or the error its drop sends |
| `spawn_gh_worker`, `run_fetch_pr` | `GhRecv`, `GhDrain`, `GhLookup` (a row each), `GhReply` (an answer each: the superseded jobs in order, then the newest) |
| the reader task, `op_result_to_action`, `PrStatusesFetched` | `IgnoreAnswer`, `ApplyUpload`, `ApplyOp`, `SeeExit` |
| steal, cancellation, disconnect | `Attach`, `Cancelled`, `Disconnect` |

A file is its number of chunks, a status the version of the PR state it was read
from. Each disjunct of an upload step is a way the code can fail there: a file that
cannot be created, a chunk out of place, a write or a rename that fails.

### RemoteLinks

A dial goes through the pcs "identity", "verify", "pin", "hello", "up", each a step
that reads or writes a file or meets the other side; the remote's half is
`Admit`, `TakeSlot`, `NoticeEof`. `inbox` is the queue of actions to the main task.

| code | model |
|---|---|
| `connect_all`, `spawn_remote_connect`, `cmd_reconnect` | `LinksInit`, `NewDial`, `Reconnect` |
| `load_or_create_identity`, `write_private` | `LoadIdentity`, `CreateIdentity`, `WriteIdentity` (a file exists before it is written) |
| `verify_server_cert`, `append_known_host` | `VerifyServer`, `PinServer` |
| `verify_client_cert` | `Admit` |
| `handshake`, reader task | `Welcome`, `PostConnected`, `PostLost` |
| `handle_action`, `on_supervisor_connected` | `OnConnected`, `OnLost` on `registry` |

### Updates, ConfigStore, Interface, ProjectPopups, KeyboardModes

* **Updates**: `UpdateStatus`, `available_update` and `auto_install_after_check`, the
  checks and installs that run, an action per command and per result.
* **ConfigStore**: what a client shows, the writes its last command queued, and the
  files. The projects shown and the slugs listed are sets: `state_slugs` writes the
  list, and the sidebar is drawn, in the order of `sorted_project_indices` (supervisor,
  name, slug), so the projects themselves decide it and no write or restart can
  change it. `LoadOrDefault` takes the entries that load. `Stage` is `write_toml_atomic` up to the rename, `Commit` the rename or
  the deletion, `WriteFails` the failure the runtime only logs, `Quit` a crash
  between any two of them, `Start` is `load_or_default`; the user breaks and mends
  project files while no client runs.
* **Interface**: `Key` follows `handle_key` through the popups in their order to the
  modes: `NormalKey`, `TerminalKey`, `CommandKey`, `PaletteKey`, `HelpKey`,
  `PromptKey`; `Dispatch` is `dispatch_action`, `Exact` and `IsChordPrefix` are
  `KeyMap::lookup` over the overlay of the user's bindings on the defaults. Mouse
  and paste, and tabs that come and go, are the events around it. A key stands for
  all keys handled alike.
* **ProjectPopups**: the open-project popup with its directory browser and the
  script editor, while listings arrive and projects are removed and added.
* **KeyboardModes**: a `KbdTracker` at either end of a session's output, fed in
  pieces (the start of an escape sequence, its rest, a line), the replay log with
  its cap and its cut at a line, and `Prelude` and `Dumped` for what a client that
  attaches late is fed.

## 4. Runs

| run | instance | shows |
|---|---|---|
| `supervisor_safety` | 2 connections, queue of 1; either 2 sessions, with Spawn, Kill and Attach, or 2 sampler threads and usage frames | `TypeOK`; `ExitNotMissed`: the holder of the slot is told of every exit; `SpawnedFirst`: a dump never overtakes its Spawned reply; `OneSampler`, `NoLostSampler`; `StolenIsCancelled`: a displaced connection is cancelled |
| `supervisor_live` | 2 connections, 1 session, queues of 1; Spawn, WriteBytes; fairness | `StolenClosesIfRead`: a displaced connection ends if shells read their input; `ReaperFreed`; `TabCloses`; `SlotFairSpec`: the supervisor implements `AttachSlot!FairSpec` |
| `output_feed` | 2 connections, 3 chunks, log of 1, queue of 1 | `TypeOK`; `FeedComplete`: once attached, nothing the log still holds is missing |
| `workspace_ops` | a local project with two worktrees and one not listed, a remote project; 2 requests; every user operation but the launcher and moving the selection alone; one loss of the remote | `TypeOK`; `PointersInRange`: no position dangles; `TabsAreSessions`; `SavedIsShown`: files match the sidebar, slugs are unique; `LandsUnlessCrossed`: replies, shells and statuses are where they belong; `NothingStray`: no shell is without a tab, and, until the list is outdated, no worktree listed twice; `NotWedged`: a shown operation is running; `PointersFollow`: removals leave active row and selection on their worktree |
| `workspace_rows` | one project with four linked worktrees; 3 requests among polls (which refresh PR statuses), tabs, launches and worktree removals; clicks; shells that end | `LandsUnlessCrossed`, `PointersFollow` where two removals meet another request or one meets two, with statuses on up to three rows behind a removed one, moved up in any order |
| `requests` | 2 connections of which the second may displace the first; four workloads of up to three requests each; upload queue of 1; 2 repositories of 2 rows | `TypeOK`; `ToldTheTruth`: a pasted path names a whole file, a refused upload left none; `RejectedOnce`: one error per rejected stream; `OwnAnswers`: an answer goes to who asked; `FreshStatuses`, `NeverBackward`: PR statuses are no older than their request nor than what was shown; `Answered`: every request is, or its connection ends |
| `client` | six parts, one per behaviour, below | `RegistryIsTrue`: links listed are up and links up are listed; `TrustLasts`: an admitted client stays admitted, a pinned server is not refused; `DialSettles`; `InstallsAsked`, `OneInstall`; `RestartShows`, `NothingReturns`, `WrittenIsKept`: a restart shows what was saved, whatever crashed; `TypedKeysArrive`: typed keys reach their session, once and in order; `PopupsMeanWhatTheyShow`; `KeyboardAgrees`: client and supervisor infer one keyboard mode |
| `workspace_misled` | one project of three worktrees; clicks, tabs, removals | violation, below |
| `workspace_scattered` | one project with three linked worktrees; a poll and a removal | violation, below |
| `supervisor_ghosttab` | 2 connections, 1 session | violation, below |
| `supervisor_wedgedpty` | as `supervisor_live` | violation, below |
| `output_replay` | 2 connections, 2 chunks | violation, below |

Why these bounds. The slot's hazards need a holder and a displacing connection;
with the generation check there may be a third, which displaces the second while
the first is still leaving. The runs have two, so that the sessions' part stays
within minutes; for any number there are the theorems `DisplacedIsCancelled` and
`SlotImplemented`. Spawns and usage frames are in separate parts of one run
(`MCSupervisorParts`), as they meet only in the queues, where either is a frame
like others. There a connection that finds sessions in its handshake attaches to
them and spawns none, and shells, which end by themselves at any time, are killed
only if their worktree is unknown; the theorems know no such limits. A
connection is used once; a client that reconnects is another connection. A queue
of one makes every send block or be dropped somewhere. Two sessions let one end
while the other is spawned. A log of one with three chunks has eviction,
truncation and a chunk in the reader's hands at once. Two sampler threads are
enough to have one too many. `MaxSessions`, `MaxChunks` bound what would grow
for ever; `InputCap` and `ChanCap` are the code's 256 and 512.

In Workspace the user stops asking after `MaxRequests` (a reply may still send
one more request: the shell of a new worktree, the import of a new project). Two
requests are what it takes for one to cross another, and with two projects one
of them may be behind a removed one. The main worktree cannot be removed, so two
rows with a status behind a removed one take four rows (`workspace_scattered`),
and five if they are not to be adjacent (`workspace_rows`); three requests there
let two removals meet a third operation. Rows are selected
by clicks, which activate a worktree as well, and by keys only to activate it; the
selection leaves the active worktree when it is moved to a project's own row or
when a row is removed. One loss, and one reconnection, meet
every state of the remote's requests.

In Requests the four workloads are: three files at once, one more than the queue
holds, with the session exiting; jobs of one repository queued behind each other
and behind another's, with the PR state changing; and twice a client displaced by
one that asks other things, so that numbers meet. An upload of two chunks has a
first and a last. `MCClient` runs six modules in one behaviour space: the variable
`part` picks the one that moves, and since they share no variable the states
visited are the union of theirs, not the product. Two dials, of one remote, of two,
or of two on one host, and two failures let each race with the other at every
step: every hazard listed for them is about a pair of dials. Three openings of two names,
one of which is too long with a suffix, one crash and one failed write or hand edit
let a slug be used again after a crash in a removal. Three typed keys, three
mouse or background events and two sessions in two worktrees suffice for a chord
with a key held, an event within it and what follows. A log of five pieces with a
scan window of four holds two sequences and a line, and four sequences fill and
cut it. Four checks and three commands let a result arrive under an install.

Symmetry is used in the supervisor's safety runs only: connections are interchangeable.

Deadlock is checked in the runs of Supervisor and OutputFeed: they may stop only in
`AllClosed`, or `Finished` (every connection of the bound used; otherwise some task
can move). It is not checked in those of Workspace, Requests and the client, where
everything stops once the requests, dials, faults or events of the bounds are
used; that nothing stops short of its end there is what `Answered`, `DialSettles`
and `NotWedged` say.

### Fairness

`Supervisor!Fairness` is weak fairness of each connection's task, of its writer
task, of each reaper and sampler: tokio and the OS keep running what can run.
Nothing is assumed of clients, users, shells or the network: a client may stop
reading without closing. Where a property needs more, the assumption is its
premise: `TabCloses` assumes that the clients keep reading,
`StolenClosesIfRead` that the programs read their input and that a sender blocked
on a full queue gets its turn (std channels wake blocked senders in their order,
hence strong fairness of `WriteBytes`).

`Requests!Fairness` is weak fairness of each connection's command loop, of its
writer and reader tasks, of the threads of git operations and of the gh worker;
`LinksFairness` of each dial's task, of the remote's tasks and of the main task that
empties the queue of actions. The user need ask for nothing, a session need not
exit, and no dial or link need fail.

### Disagreements between comments and code

* `supervisor_ghosttab`. The reaper's comment (`supervisor.rs:933-937`) concludes
  that an attaching client comes fully before or fully after an exit. The session
  list is taken before the steal, in a critical section of its own: a shell that
  ends in between is announced to the old client, and the new one has a tab for
  a session that is gone.
* `supervisor_wedgedpty`. The comment on `write_tx` (`supervisor.rs:102-105`) says
  that pushing returns immediately; the push is a blocking send that
  cancellation does not reach, so a displaced connection can stay for ever while
  a program ignores its input.
* `output_replay`. `build_dump` (`supervisor.rs:1388`) is to rebuild the screen; a
  chunk logged and not yet sent is both in the dump and in the delta that
  follows, and the client processes it twice.
* `workspace_misled`. The comment in `SessionSpawned` (`reducer.rs:25-28`) says that
  a shell whose worktree was removed meanwhile is killed as an orphan. The code
  looks for a worktree at the recorded position, where the next one has moved
  up: the tab appears there, with a shell that was started for the removed one.
* `workspace_scattered`. The comment in `WorktreeRemoved` (`reducer.rs:251-253`) says that
  the statuses behind a removed row are shifted down by one, mirroring the re-key of
  the active worktree. The loop (260-264) moves them one at a time in the order of a hash
  map (`app.rs:450`): with statuses on two adjacent rows behind the removed one, the lower
  may go first, and then the upper's is lost and the lower's stands two rows up, beside
  another's worktree, until the next refresh. Nothing needs to cross for it. The
  test of the shift (`reducer_tests.rs:2178`) has one status behind the removed row.

### Conditions the properties carry

Where a property excludes a case, the case happens in the code; each exclusion is
needed, in that the run fails without it.

* Workspace. `pending_op` stays set when a remote is lost while it runs an operation,
  or when the project of a removal prompt is gone at the answer: `:project-remove`
  is refused until some other operation ends. A worktree is listed twice when an
  addition crosses an import, or when its branch is added again after a project
  removal that failed half-way: only the import looks for rows with the same path.
  A removal of a worktree may scatter the PR statuses of adjacent rows behind it
  (`scattered`, above): `LandsUnlessCrossed` then says nothing of statuses any more.
* `NoLostSampler` is about the sampler's decision to stop; its premise is that the flag
  stands, and a displaced connection that clears it makes the premise false
  (`UnsubscribeUsage`, `supervisor.rs:610`, does not look at who holds the slot): the
  holder's popup is then fed no more until it is opened again. No property covers that.
* `OwnAnswers`. A displaced command loop that still dispatches an operation captures
  its successor's channel: the answer meets the successor's request of the same
  number. An answer of another kind is dropped, but uses the request up.
* `RegistryIsTrue`, `DialSettles`. The spare client of a second dial is dropped from
  the registry, but its tasks keep the remote's slot, and the first link's loss takes
  the entry down although the second is up (`overlapped`). A loss that is posted
  before its connection is applied to nothing; the dead client is then listed and
  `:reconnect` refuses (`early`).
* `TrustLasts`. Dials that start together at first use each generate an identity, and
  the last to write wins (`raced`). `known_hosts` is looked up by host although
  `config.rs:314` says `host:port`: a second supervisor on the same machine is
  refused.
* `OneInstall`. A check that runs when an install begins resets the status at its
  result, and `:update` installs once more beside the first.
* `RestartShows`, `NothingReturns`, `WrittenIsKept`. A name whose slug is longer than 64
  bytes with its suffix is written and cannot be read or deleted. A project whose
  file a start finds broken is dropped from the list by the next write of
  `config.toml`. A failed write is only logged.
* `TypedKeysArrive`. A chord and the keys it holds back survive a change of mode or
  focus by the mouse, the end of a session or a removal; they are then sent to
  another session or dropped. A paste overtakes held keys.
* `PopupsMeanWhatTheyShow`. A listing names neither its request nor its supervisor: one
  that was on its way when another supervisor was picked is shown as that one's.
  Picking a supervisor empties the browser but not the path, so Ctrl-S before the
  next listing opens the previous supervisor's directory on the new one. The script
  editor saves by position: a removal that completes meanwhile redirects it.
* `KeyboardAgrees`. A dump's prelude holds the top of the stack of keyboard modes and is
  pushed under the replayed log, which pushes again what it still holds: after a
  reattach the pop of a program that pushed before leaves its mode on at the
  client. The same for pops whose push the log has lost, and for a dump that falls
  within a sequence.

Two more the models pass by. `keybinds.rs:16-18` says that bindings that start with
`<C-\>` are refused; `is_reserved` looks at bare `<Esc>` and `<C-q>` only, so
`Interface` has such a binding. And a client that starts with the sidebar hidden has the focus
on it all the same, which the comment in `set_sidebar_hidden` (`reducer.rs:1693`)
means to exclude.


## 5. Proofs

Every theorem holds for every value of the constants that the named assumptions of
the component's module allow; TLC evaluates those on every run of it. They say what
the code cannot but do (bounds are naturals, channels have room for one message,
a workload is a sequence of requests per connection, frames are of the protocol).
Each inductive invariant was first checked by TLC on a run's instance.

Two assumptions say what a start finds rather than what a parameter may be.
`LoadedAssumption`: one file per project, no tabs. `OrderlyAssumption`: the worktrees a
file lists are of the project's own repository, none twice. The client writes files that
way as long as no requests crossed and no listing was outdated (that is what
`RepliesLand` and `NoStrays` show of its own steps, with `SavedIsShown` for the files);
`load_or_default` does not look, so after a client that ended otherwise, or an edit by
hand, the theorems of LandingProofs say nothing until the file is right again. Those of
WorkspaceProofs do not use it.

**SupervisorProofs**

* `TypeCorrect`: `Spec => []TypeOK`. Strengthened by what `Announce` sends: a
  connection in phase "announcing" holds a `Reply` in `frame`, otherwise a
  queue could receive a frame of the client's side.
* `DisplacedIsCancelled`: `Spec => []StolenIsCancelled`. The invariant `SlotInv`
  orders the steals by generation: no generation is above `active_generation`,
  no two connections share one, and the owner has the last. Only so does the
  comparison of generations in `Cleanup` mean "the slot is still mine".
* `SlotImplemented`: `Spec => SlotSpec`, step by step from `SlotInv`: each step of
  the supervisor maps to an attachment, a departure, a release or a stutter.
* `AtMostOneSampler` and `SubscriberIsServed`: from `UsageInv`, which says that the
  alive flag is up exactly when a thread runs, and that a subscription without a
  thread belongs to nobody in the slot.
* `ExitsReachTheOwner`: `Spec => []ExitNotMissed`. The owner's debts shrink only with
  what it receives; that the reaper removes the session and reads the slot in one
  step leaves no state in which a session is neither registered nor announced.
* `DumpsFollowTheirName`: `Spec => []SpawnedFirst`, from `NameInv`. A dump is followed
  from the client's wish through the Attach frame and the loop to the queue; at each
  stop its session was listed, named, is named earlier in the queue, or is over; a dump that
  the loop holds counts with those it has still to look up (`Planned`). It
  rests on ids never being reused (`IdsInOrder`) and on a channel being empty until
  it has a receiver (`Unborn`).

**OutputFeedProofs**

* `FeedTypeCorrect`, and `FeedIsComplete`: `Spec => []FeedComplete` from `FeedInv`. The
  argument is `CacheTrusted`: a cached channel whose generation is current is that of
  the connection in the slot, so a chunk in the reader's hands goes to it or was
  logged before its dump. It fails as soon as the generation is loaded before the
  chunk is logged.

**KeyboardProofs**

* `KeysAgree`: `KbdSpec => []KeyboardAgrees`, from `KbdInv` and `LogCapAssumption` (the cap
  is a number). `Told` says that the supervisor's tracker is what the log makes of some
  tracker between sequences, which outlasts a cut at a line (`ToldCut`). A client is fed
  the same after the prelude, so after each piece of the log both have the same on the
  levels pushed since, and under them what they began with, changed alike (`Replays`,
  `Alike`); if the log ends on that level, the prelude brought what the supervisor's
  tracker ended with, which is therefore what the client's has (`AlikeSame`). After the
  dump both are fed the same chunks, and the client is in doubt as soon as a pop uncovers
  what it was not told (`Tells`). `Feed` is a fold of the community modules: `FeedFolds` and
  the lemmas after it show that it goes piece by piece, from a least
  counterexample (`AllNumbers`), since the library's induction theorems cannot be cited.

**RequestsProofs**

* `RequestTypes` and `AnswersAreOwn`: every request on the way belongs to the
  connection whose queue holds it, and is *the* pending request of its number
  (`Known`); jobs of operations too unless `late`. `late` is thus the only way in
  which an answer reaches another's continuation.
* `StatusesAreFresh`, `StatusesNeverGoBack` (an action property): what a client shows,
  what is queued for it and what the worker has got, in that order, are of one version
  after another (`Line`), because one thread does the lookups.
* `ClientsAreToldTheTruth`: the frames of an upload come in order, uploads by number
  (`Orderly`), so that nothing of a finished upload follows its finish (`FilesAreDone`)
  and no failed one is finished later (`AnswersAreTrue`).
* `RejectionsComeOnce`: of a rejected upload all that follows is discarded by the one
  number the loop keeps, or its start is still to come (`RestDiscarded`).

**ClientProofs**

* `NothingInstallsUnasked`, `InstallsDoNotOverlap`: a wish to install is spent by the
  install it begins, and one task runs at a time unless a check was overtaken.
* `PopupsDoWhatTheyShow`: listings on their way are of the browser's supervisor, the
  editor's project is where it was, unless marked otherwise.
* `TypedKeysReachTheirSession`: keys that were typed are sent or held (`Conserved`),
  and what is held is the pending Terminal chord; `NoChordThere` says that no chord
  survives in the places from which a command can change the mode.
* `RestartsShowTheScreen`, `RemovedStaysRemoved`, `WrittenProjectsLast`: the three of
  ConfigStore, from `CfgInv`. The writes that can be pending are a list, a project that is
  shown with or without the list before it, or a deletion with the list after it
  (`Queued`); a slug has one project on screen and on disk (`Owners`); what was removed
  is gone or its deletion is pending or failed (`Removals`); what was written is listed
  with its file (`Durables`); and the files are those of the screen, or the queue still
  makes them so (`Restorable`). That an opening finds a slug that is free
  (`FreeSlugIs`) is by counting the projects shown.

**LinksProofs**

* `TrustIsKept`: unless two dials raced, one dial at most makes an identity
  (`OneIdentity`), and every dial past it and every supervisor goes by the same key;
  lines of `known_hosts` are at the host of who is pinned there (`LinesTrue`).
* `RegistryTellsTheTruth`: a loss follows its connection in the inbox (`LossComes`),
  and, where no dial crossed another, one dial of a supervisor lives at a time
  (`OneLives`), a loss lies between two connections (`Separated`), and what lives is
  listed or about to be (`LiveListed`).

**WorkspaceProofs**

* `WorkspaceTypes` and `PositionsInRange`, from `PositionInv`: types, and that every
  pointer denotes a row. A step redecorates the tree (tabs change), grows it (rows are
  appended, so positions keep their meaning) or takes out one row or one project; the
  first two are covered by one lemma each, and for the third `RowShifted`,
  `SelectionShifted` and `ProjectShifted` say where each pointer lands. The removals need
  that the pointers were in range before. For the statuses, `OneMovedUp` follows one turn of the
  loop and `AllMovedUp` the loop over any order of the rows, which is a fold of the
  community modules (`FoldingExists` and the lemmas after it): each status comes to stand
  where one belongs, and it is that one unless two rows were adjacent. From `FiniteAssumption`: an import lists
  finitely many worktrees.
* `FilesListWhatIsShown`: `Spec => []SavedIsShown`. A save rewrites one file and a
  deletion removes one, and both are right only since no two projects share a slug
  (`SlugsApart`); that `ComputeSlug` returns a free one is lemma `ComputeSlugIs`. From
  `LoadedAssumption`: a configuration is a file per project.
* `TabsShowTheSessions`: `Spec => []TabsAreSessions`, from `TabsAreHeld` (each handle is
  in one place) and `HandlesInv`: a spawn on its way has a number of its own and no
  tab yet, a live shell that is adopted was not adopted on this connection before
  (`AwayUnshown`), and no handle is of a connection to come (`SessionsNumbered`).
* `OperationsEnd`: `Spec => []NotWedged`. A step that ends where nothing has crossed
  began there (`CleanBefore`), so the invariant is only asked of such states: what is
  shown as running runs (`RunningInv`). It needs that the prompt to remove a worktree is
  for a project that is there (`PromptHeld`, which a removal that crosses it breaks):
  then what is sent is a git operation, and each answer ends it, leaves another
  running, or sends an import in its place.
* `PointersStayOnTheirRows`: `Spec => PointersFollow`. Only the answers to removals leave
  fewer rows (`TreeStep`, `RowsStay`); when one row or one project is gone, each pointer
  denotes after the shift what it denoted before, or lost it (`RowGoneFollow`,
  `ProjectGoneFollow`). That a project's rows are gone with it needs `SlugsApart`, so
  the invariant is that of positions with that of the files.

**LandingProofs**

* `RepliesLand`: `Spec => []LandsUnlessCrossed`. The invariant is `Ground`, which holds
  always (positions, files, tabs, handles, from WorkspaceProofs), and `Landing`, asked
  only of states in which nothing has crossed. `RequestsStand` says of every request that
  its position denotes what it was asked for and that its rows are where it lists them:
  a removal shifts only what it would displace, and nothing displaced is outstanding
  (`BeforeTheRow`, `BeforeTheProject`). `PromptStands` says so of the open prompt. Hence
  no step misleads (`MisledStep`). Statuses stand beside their rows until a removal has
  scattered them (`StatusesMoved`, from WorkspaceProofs). For shells:
  `TabsHome` (a tab is in the row its shell was started for), `ShellsHeld` (a shell of a
  connected supervisor has a tab, or its reply is on its way), `ShellsAway` (one of a lost
  supervisor has a row to go back to), `SpawnsLive`, `RowsEmptied` and `ProjectsEmptied`
  (nothing runs in what was removed while the reply is on its way, which is why the
  reducer may drop the row's tabs without killing anything) and `ExitsApart` (an exit
  notice is of no living shell).
* `NoStrays`: `Spec => []NothingStray`, from these and, while nothing was outdated,
  `RowsApart`, `AddsNew` and `AddsApart`: git refuses to add what is on disk, so what an
  addition on its way brings is not listed, unless by a row whose own removal is on its
  way; and if that came second, the new row's shell would be displaced by it.

Model-checked only: liveness and the fair part of the refinement (`ReaperFreed`,
`TabCloses`, `StolenClosesIfRead`, `SlotFairSpec`, `Answered`, `DialSettles`). Fairness and
ENABLED are out of the prover's reach.

## 6. Not modelled

`Resize` (stores a size) and `Shutdown`; `:restart-supervisor` and `:restart`;
`UploadCancel`, names and hashes of uploads; enabling and disabling PR statuses and
`pr_refresh_in_flight`; how the answers of `gh` become statuses (`github.rs`); the
supervisor's own identity file; a broken `config.toml`, with which the client does
not start, and edits by hand while a client runs; parsing and printing of key
names and seeding the config with the defaults; quitting, folding, scrolling,
themes; `encode_key` and the `ClipboardSniffer`; the content of other output, usage
reports and handshakes beyond the session list. The wire codec, rendering, layout,
palette, argument parsing, the clipboard and the process helpers have no state
that several steps could corrupt: they are functions of their input, for which unit
tests are the better tool, or pure I/O.

Abstractions to keep in mind: a session is killed by SIGHUP, which a shell may
survive (`Kill` chooses); a spawn may fail (`Spawn` chooses); poisoned mutexes
(a panic while holding the registry) are left out; the channel, the socket's
buffer and the client's unread frames are one bounded queue.
