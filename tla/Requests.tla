------------------------------ MODULE Requests ------------------------------
(***************************************************************************)
(* The requests a client makes over its connection and their answers:      *)
(* clipboard uploads, streamed as frames without a round trip              *)
(* (client.rs: upload_file and the writer task; supervisor.rs:             *)
(* UploadStart, UploadChunk, UploadFinish, IncomingUpload), git operations *)
(* run on a thread each (OpReplyGuard) and PR fetches run by the singleton *)
(* gh worker, which coalesces queued jobs of a repository.                 *)
(*                                                                         *)
(* Connections are numbered in the order they attach; an attach displaces  *)
(* the holder of the active slot, whose command loop may still dispatch a  *)
(* frame until it is cancelled.  Every connection numbers its requests     *)
(* from 1.  The frames each way of a connection are a queue, lost with it. *)
(* A frame carries the request it is about; the code compares only the     *)
(* number in it, and so does the model.                                    *)
(***************************************************************************)
EXTENDS Naturals, Sequences

CONSTANTS
  MaxConns,      \* connections that attach, one after the other
  Workloads,     \* what happens in a behaviour: the requests every connection makes,
                 \* in order; whether the session may exit; the changes upstream
  UploadQueue,   \* capacity of a connection's upload queue (2 in the code)
  Repos, Rows    \* the repositories, the positions of their worktrees

Conns == 1 .. MaxConns

\* What a request asks for; repo 0 when it is about none.
Ask == [kind : {"upload", "git", "fetch"}, size : Nat, repo : Repos \cup {0}, rows : SUBSET Rows]

ASSUME BoundsAssumption == MaxConns \in Nat \ {0} /\ UploadQueue \in Nat /\ Rows \subseteq Nat
ASSUME WorkloadsAssumption ==
  \A w \in Workloads : w.asks \in Seq(Seq(Ask)) /\ w.asks # <<>> /\ w.changes \in Nat

VARIABLES
  work,       \* the workload of this behaviour
  conn,       \* of a connection: unborn, active, displaced or gone
  active,     \* the connection in the supervisor's active slot, or 0
  nextId,     \* SupervisorClient.next_request
  pend,       \* pending_ops and pending_uploads: the requests unanswered
  queue,      \* the upload jobs queued for the writer task
  stream,     \* the job the writer task is streaming, and the chunks sent
  up, down,   \* frames to the supervisor, frames to the client
  incoming,   \* command_loop's upload, and the chunks received
  discarded,  \* command_loop's discarded_upload, or 0
  begun,      \* uploads whose start was accepted
  files,      \* the uploads renamed to their final path
  alive,      \* whether the session pasted into is in the registry
  known,      \* whether the client still lists it
  pasted,     \* uploads whose path the client pasted into the session
  refused,    \* uploads the client was told have failed
  ops,        \* threads running a git operation, with the channel each holds
  ghq,        \* the gh worker's inbox
  gh,         \* the job the gh worker has in hand
  version,    \* the PR state upstream, as a count of its changes
  shown,      \* AppState.pr_statuses: the version shown, 0 for no bar
  late,       \* whether a displaced loop has dispatched an operation
  misled      \* requests that took the answer to another connection's

vars == <<work, conn, active, nextId, pend, queue, stream, up, down, incoming, discarded, begun,
          files, alive, known, pasted, refused, ops, ghq, gh, version, shown, late,
          misled>>
client == <<nextId, pend, queue, stream, known, pasted, refused, shown, misled>>
loop   == <<incoming, discarded, begun, files, late>>
tasks  == <<ops, ghq, gh>>
slot   == <<conn, active>>
world  == <<work, alive, version>>

NoRequest == [c |-> 0, id |-> 0, kind |-> "none", size |-> 0, repo |-> 0, rows |-> {}, at |-> 0]
Idle == [r |-> NoRequest, n |-> 0]

NoStatuses == [repo \in Repos |-> [row \in Rows |-> 0]]
NoJob == [r |-> NoRequest, chan |-> 0]
IdleGh == [job |-> NoJob, superseded |-> <<>>, hand |-> NoJob, left |-> {}, got |-> <<>>,
           failed |-> FALSE, pc |-> "recv"]

Init ==
  /\ work \in Workloads
  /\ conn = [c \in Conns |-> IF c = 1 THEN "active" ELSE "unborn"]
  /\ active = 1
  /\ nextId = [c \in Conns |-> 1]
  /\ pend = [c \in Conns |-> {}]
  /\ queue = [c \in Conns |-> <<>>]
  /\ stream = [c \in Conns |-> Idle]
  /\ up = [c \in Conns |-> <<>>]
  /\ down = [c \in Conns |-> <<>>]
  /\ incoming = [c \in Conns |-> Idle]
  /\ discarded = [c \in Conns |-> 0]
  /\ begun = {} /\ files = {} /\ pasted = {} /\ refused = {} /\ misled = {}
  /\ alive = TRUE
  /\ known = [c \in Conns |-> c = 1]
  /\ ops = {}
  /\ ghq = <<>>
  /\ gh = IdleGh
  /\ version = 1
  /\ shown = [c \in Conns |-> NoStatuses]
  /\ late = FALSE

Linked(c) == conn[c] \in {"active", "displaced"}

---------------------------------------------------------------------------
(* The client: making requests.                                            *)

\* The next request of the workload, numbered.
Wanted(c) == nextId[c] \in DOMAIN work.asks[c]
Request(c) ==
  LET w == work.asks[c][nextId[c]]
  IN [c |-> c, id |-> nextId[c], kind |-> w.kind, size |-> w.size, repo |-> w.repo,
      rows |-> w.rows, at |-> IF w.kind = "fetch" THEN version ELSE 0]

Number(c) == nextId' = [nextId EXCEPT ![c] = @ + 1]

\* Faulty variant: the job is queued however full the queue is.
UploadUnbounded(c) ==
  /\ Linked(c) /\ Wanted(c) /\ Request(c).kind = "upload"
  /\ known[c]
  /\ Number(c)
  /\ pend' = [pend EXCEPT ![c] = @ \cup {Request(c)}]
  /\ queue' = [queue EXCEPT ![c] = Append(@, Request(c))]
  /\ UNCHANGED <<stream, known, pasted, refused, shown, misled, up, down, slot, loop, tasks, world>>

\* upload_file: the job is refused when the queue is full, its number is spent.
Upload(c) ==
  /\ Linked(c) /\ Wanted(c) /\ Request(c).kind = "upload"
  /\ known[c]
  /\ Number(c)
  /\ IF Len(queue[c]) < UploadQueue
     THEN /\ pend' = [pend EXCEPT ![c] = @ \cup {Request(c)}]
          /\ queue' = [queue EXCEPT ![c] = Append(@, Request(c))]
     ELSE UNCHANGED <<pend, queue>>
  /\ UNCHANGED <<stream, known, pasted, refused, shown, misled, up, down, slot, loop, tasks, world>>

Frame(t, r, n) == [t |-> t, r |-> r, n |-> n]
Send(c, f) == up' = [up EXCEPT ![c] = Append(@, f)]

\* send_op, of a git operation, of a refresh of a project's PR statuses or of
\* one worktree's: record the continuation, then ship the operation.
SendOp(c) ==
  /\ Linked(c) /\ Wanted(c) /\ Request(c).kind \in {"git", "fetch"}
  /\ Number(c)
  /\ pend' = [pend EXCEPT ![c] = @ \cup {Request(c)}]
  /\ Send(c, Frame("op", Request(c), 0))
  /\ UNCHANGED <<queue, stream, known, pasted, refused, shown, misled, down, slot, loop, tasks,
                 world>>

\* The writer task: start, one frame a chunk, finish.
StreamStart(c) ==
  /\ Linked(c) /\ stream[c] = Idle /\ queue[c] # <<>>
  /\ queue' = [queue EXCEPT ![c] = Tail(@)]
  /\ stream' = [stream EXCEPT ![c] = [r |-> Head(queue[c]), n |-> 0]]
  /\ Send(c, Frame("start", Head(queue[c]), 0))
  /\ UNCHANGED <<nextId, pend, known, pasted, refused, shown, misled, down, slot, loop, tasks,
                 world>>

StreamNext(c) ==
  /\ Linked(c) /\ stream[c] # Idle
  /\ LET s == stream[c]
     IN IF s.n < s.r.size
        THEN /\ Send(c, Frame("chunk", s.r, s.n))
             /\ stream' = [stream EXCEPT ![c].n = @ + 1]
        ELSE /\ Send(c, Frame("finish", s.r, 0))
             /\ stream' = [stream EXCEPT ![c] = Idle]
  /\ UNCHANGED <<nextId, pend, queue, known, pasted, refused, shown, misled, down, slot, loop,
                 tasks, world>>

---------------------------------------------------------------------------
(* The supervisor's command loop of a connection.                          *)

Answer(t, r, ok, st) == [t |-> t, r |-> r, ok |-> ok, st |-> st]

\* A channel whose connection is gone drops what is sent on it.
Reply(chan, ms) ==
  down' = [c \in Conns |-> IF c = chan /\ Linked(c) THEN down[c] \o ms ELSE down[c]]
UploadResult(c, r, ok) == Reply(c, <<Answer("upload", r, ok, <<>>)>>)

FrameIs(c, t) == Linked(c) /\ up[c] # <<>> /\ Head(up[c]).t = t
TakeFrame(c) == up' = [up EXCEPT ![c] = Tail(@)]

\* Rejected when another is active, the session is gone or the file cannot be
\* created; the frames that follow are then to be discarded.
UploadStart(c) ==
  /\ FrameIs(c, "start")
  /\ TakeFrame(c)
  /\ LET r == Head(up[c]).r
     IN \/ /\ incoming[c] = Idle /\ alive
           /\ incoming' = [incoming EXCEPT ![c] = [r |-> r, n |-> 0]]
           /\ begun' = begun \cup {r}
           /\ UNCHANGED <<discarded, down>>
        \/ /\ discarded' = [discarded EXCEPT ![c] = r.id]
           /\ UploadResult(c, r, FALSE)
           /\ UNCHANGED <<incoming, begun>>
  /\ UNCHANGED <<files, late, client, tasks, slot, world>>

\* Faulty variant: a failed write is reported but the upload goes on.
ChunkKept(c) ==
  /\ FrameIs(c, "chunk")
  /\ TakeFrame(c)
  /\ LET f == Head(up[c])
         matches == incoming[c].r.id = f.r.id
     IN \/ /\ discarded[c] = f.r.id
           /\ UNCHANGED <<incoming, down>>
        \/ /\ discarded[c] # f.r.id /\ ~matches
           /\ UploadResult(c, f.r, FALSE)
           /\ UNCHANGED incoming
        \/ /\ discarded[c] # f.r.id /\ matches
           /\ f.n = incoming[c].n /\ f.n < incoming[c].r.size
           /\ incoming' = [incoming EXCEPT ![c].n = @ + 1]
           /\ UNCHANGED down
        \/ /\ discarded[c] # f.r.id /\ matches
           /\ incoming' = [incoming EXCEPT ![c].n = @ + 1]
           /\ UploadResult(c, f.r, FALSE)
  /\ UNCHANGED <<discarded, begun, files, late, client, tasks, slot, world>>

\* Faulty variant: chunks of a rejected upload are not discarded.
ChunkAnswered(c) ==
  /\ FrameIs(c, "chunk")
  /\ TakeFrame(c)
  /\ LET f == Head(up[c])
     IN IF incoming[c].r.id = f.r.id
        THEN incoming' = [incoming EXCEPT ![c].n = @ + 1] /\ UNCHANGED down
        ELSE UploadResult(c, f.r, FALSE) /\ UNCHANGED incoming
  /\ UNCHANGED <<discarded, begun, files, late, client, tasks, slot, world>>

UploadChunk(c) ==
  /\ FrameIs(c, "chunk")
  /\ TakeFrame(c)
  /\ LET f == Head(up[c])
         matches == incoming[c].r.id = f.r.id
     IN \/ /\ discarded[c] = f.r.id
           /\ UNCHANGED <<incoming, down>>
        \/ /\ discarded[c] # f.r.id /\ ~matches
           /\ UploadResult(c, f.r, FALSE)
           /\ UNCHANGED incoming
        \/ /\ discarded[c] # f.r.id /\ matches
           /\ f.n = incoming[c].n /\ f.n < incoming[c].r.size
           /\ incoming' = [incoming EXCEPT ![c].n = @ + 1]
           /\ UNCHANGED down
        \* Out of place, or the write failed: the upload is dropped.
        \/ /\ discarded[c] # f.r.id /\ matches
           /\ incoming' = [incoming EXCEPT ![c] = Idle]
           /\ UploadResult(c, f.r, FALSE)
  /\ UNCHANGED <<discarded, begun, files, late, client, tasks, slot, world>>

UploadFinish(c) ==
  /\ FrameIs(c, "finish")
  /\ TakeFrame(c)
  /\ LET r == Head(up[c]).r
         matches == incoming[c].r.id = r.id
     IN \/ /\ discarded[c] = r.id
           /\ discarded' = [discarded EXCEPT ![c] = 0]
           /\ UNCHANGED <<incoming, files, down>>
        \/ /\ discarded[c] # r.id /\ matches /\ incoming[c].n = r.size
           /\ files' = files \cup {r}
           /\ incoming' = [incoming EXCEPT ![c] = Idle]
           /\ UploadResult(c, r, TRUE)
           /\ UNCHANGED discarded
        \* Short, not renamed, or with no matching start.
        \/ /\ discarded[c] # r.id
           /\ incoming' = [incoming EXCEPT ![c] = IF matches THEN Idle ELSE @]
           /\ UploadResult(c, r, FALSE)
           /\ UNCHANGED <<discarded, files>>
  /\ UNCHANGED <<begun, late, client, tasks, slot, world>>

\* The answer will go to the channel in the active slot now, which need not
\* be that of the connection the operation came on.
DispatchOp(c) ==
  /\ FrameIs(c, "op")
  /\ TakeFrame(c)
  /\ late' = (late \/ active # c)
  /\ LET r == Head(up[c]).r
         job == [r |-> r, chan |-> active]
     IN \/ active = 0 /\ UNCHANGED tasks
        \/ active # 0 /\ r.kind = "git" /\ ops' = ops \cup {job} /\ UNCHANGED <<ghq, gh>>
        \/ active # 0 /\ r.kind = "fetch" /\ ghq' = Append(ghq, job) /\ UNCHANGED <<ops, gh>>
  /\ UNCHANGED <<incoming, discarded, begun, files, client, down, slot, world>>

\* Faulty variant: the reply goes to the client that is active when the operation ends.
OpReplyActive(job, ok) ==
  /\ job \in ops
  /\ ops' = ops \ {job}
  /\ Reply(active, <<Answer("op", job.r, ok, <<>>)>>)
  /\ UNCHANGED <<ghq, gh, up, client, loop, slot, world>>

\* A git operation ends; should its thread panic, the guard sends an error.
OpReply(job, ok) ==
  /\ job \in ops
  /\ ops' = ops \ {job}
  /\ Reply(job.chan, <<Answer("op", job.r, ok, <<>>)>>)
  /\ UNCHANGED <<ghq, gh, up, client, loop, slot, world>>

---------------------------------------------------------------------------
(* The gh worker.                                                          *)

GhRecv ==
  /\ gh.pc = "recv" /\ ghq # <<>>
  /\ gh' = [IdleGh EXCEPT !.job = Head(ghq), !.pc = "drain"]
  /\ ghq' = Tail(ghq)
  /\ UNCHANGED <<ops, up, down, client, loop, slot, world>>

StartFetch(hand) == [gh EXCEPT !.pc = "fetch", !.left = gh.job.r.rows, !.hand = hand]

\* Faulty variant: jobs that arrive during the lookups are coalesced too.
GhDrainLate ==
  /\ gh.pc \in {"drain", "fetch"}
  /\ \/ /\ ghq # <<>> /\ Head(ghq).r.repo = gh.job.r.repo
        /\ gh' = [gh EXCEPT !.superseded = Append(@, gh.job), !.job = Head(ghq)]
        /\ ghq' = Tail(ghq)
     \/ /\ gh.pc = "drain"
        /\ IF ghq = <<>> THEN TRUE ELSE Head(ghq).r.repo # gh.job.r.repo
        /\ gh' = StartFetch(IF ghq = <<>> THEN NoJob ELSE Head(ghq))
        /\ ghq' = IF ghq = <<>> THEN ghq ELSE Tail(ghq)
  /\ UNCHANGED <<ops, up, down, client, loop, slot, world>>

\* A queued job of the same repository supersedes the one in hand; another
\* repository's is kept in hand while the first is run.
GhDrain ==
  /\ gh.pc = "drain"
  /\ \/ /\ ghq # <<>> /\ Head(ghq).r.repo = gh.job.r.repo
        /\ gh' = [gh EXCEPT !.superseded = Append(@, gh.job), !.job = Head(ghq)]
        /\ ghq' = Tail(ghq)
     \/ /\ ghq # <<>> /\ Head(ghq).r.repo # gh.job.r.repo
        /\ gh' = StartFetch(Head(ghq))
        /\ ghq' = Tail(ghq)
     \/ /\ ghq = <<>>
        /\ gh' = StartFetch(NoJob)
        /\ UNCHANGED ghq
  /\ UNCHANGED <<ops, up, down, client, loop, slot, world>>

\* One row is looked up: a status, none, or an error.
GhLookup(row) ==
  /\ gh.pc = "fetch" /\ row \in gh.left /\ \A other \in gh.left : row <= other
  /\ \/ \E v \in {0, version} :
          gh' = [gh EXCEPT !.left = @ \ {row}, !.got = Append(@, <<row, v>>)]
     \/ gh' = [gh EXCEPT !.left = @ \ {row}, !.failed = TRUE]
  /\ UNCHANGED <<ops, ghq, up, down, client, loop, slot, world>>

\* The lookups are over; unless every one failed the result is a success.
Fetched == gh.pc = "fetch" /\ gh.left = {}
GhAnswer(r) == Answer("op", r, gh.got # <<>> \/ ~gh.failed, gh.got)

\* The next job to run, which ended the drain, or the next to receive.
GhNext == IF gh.hand = NoJob THEN IdleGh ELSE [IdleGh EXCEPT !.job = gh.hand, !.pc = "drain"]

\* Faulty variant: answers overtake those already on their way.
GhReplyFirst ==
  /\ Fetched
  /\ down' = [c \in Conns |-> IF Linked(c) /\ c = gh.job.chan
                             THEN <<GhAnswer(gh.job.r)>> \o down[c]
                             ELSE down[c]]
  /\ gh' = GhNext
  /\ UNCHANGED <<ops, ghq, up, client, loop, slot, world>>

\* Faulty variant: superseded jobs are not acknowledged.
GhReplyNewest ==
  /\ Fetched
  /\ Reply(gh.job.chan, <<GhAnswer(gh.job.r)>>)
  /\ gh' = GhNext
  /\ UNCHANGED <<ops, ghq, up, client, loop, slot, world>>

\* The superseded jobs are acknowledged, one after the other, with the result of
\* the newest; its own answer is the last.
GhReply ==
  /\ Fetched
  /\ \/ /\ gh.superseded # <<>>
        /\ LET job == Head(gh.superseded) IN Reply(job.chan, <<GhAnswer(job.r)>>)
        /\ gh' = [gh EXCEPT !.superseded = Tail(@)]
     \/ /\ gh.superseded = <<>>
        /\ Reply(gh.job.chan, <<GhAnswer(gh.job.r)>>)
        /\ gh' = GhNext
  /\ UNCHANGED <<ops, ghq, up, client, loop, slot, world>>

---------------------------------------------------------------------------
(* The client: answers.                                                    *)

\* PrStatusesFetched: the statuses fetched go to the project that was asked.
Refreshed(old, st) ==
  [row \in Rows |-> IF \E i \in DOMAIN st : st[i][1] = row
                    THEN st[CHOOSE i \in DOMAIN st : st[i][1] = row][2]
                    ELSE old[row]]

AnswerIs(c, ts) == Linked(c) /\ down[c] # <<>> /\ Head(down[c]).t \in ts
TakeAnswer(c) == down' = [down EXCEPT ![c] = Tail(@)]
Asked(c, m) == {p \in pend[c] : p.id = m.r.id /\ (p.kind = "upload") = (m.t = "upload")}

\* The reader finds no continuation under the answer's number.
IgnoreAnswer(c) ==
  /\ AnswerIs(c, {"upload", "op"})
  /\ Asked(c, Head(down[c])) = {}
  /\ TakeAnswer(c)
  /\ UNCHANGED <<client, up, loop, tasks, slot, world>>

ApplyUpload(c) ==
  /\ AnswerIs(c, {"upload"})
  /\ TakeAnswer(c)
  /\ \E p \in Asked(c, Head(down[c])) :
       /\ pend' = [pend EXCEPT ![c] = @ \ {p}]
       /\ IF Head(down[c]).ok
          THEN pasted' = (IF known[c] THEN pasted \cup {p} ELSE pasted) /\ UNCHANGED refused
          ELSE refused' = refused \cup {p} /\ UNCHANGED pasted
  /\ UNCHANGED <<nextId, queue, stream, known, shown, misled, up, loop, tasks, slot, world>>

\* op_result_to_action: a success of another kind than was asked is dropped.
ApplyOp(c) ==
  /\ AnswerIs(c, {"op"})
  /\ TakeAnswer(c)
  /\ LET m == Head(down[c])
     IN \E p \in Asked(c, m) :
          /\ pend' = [pend EXCEPT ![c] = @ \ {p}]
          /\ misled' = IF p = m.r THEN misled ELSE misled \cup {p}
          /\ shown' = IF m.ok /\ p.kind = "fetch" /\ m.r.kind = "fetch"
                      THEN [shown EXCEPT ![c][p.repo] = Refreshed(@, m.st)]
                      ELSE shown
  /\ UNCHANGED <<nextId, queue, stream, known, pasted, refused, up, loop, tasks, slot, world>>

SeeExit(c) ==
  /\ AnswerIs(c, {"exited"})
  /\ TakeAnswer(c)
  /\ known' = [known EXCEPT ![c] = FALSE]
  /\ UNCHANGED <<nextId, pend, queue, stream, pasted, refused, shown, misled, up, loop, tasks,
                 slot, world>>

---------------------------------------------------------------------------
(* Attach, cancel, disconnect; the world.                                  *)

Attach(c) ==
  /\ c <= Len(work.asks) /\ conn[c] = "unborn" /\ \A d \in Conns : d < c => conn[d] # "unborn"
  /\ conn' = [d \in Conns |-> IF d = c THEN "active"
                              ELSE IF d = active THEN "displaced" ELSE conn[d]]
  /\ active' = c
  /\ known' = [known EXCEPT ![c] = alive]
  /\ UNCHANGED <<nextId, pend, queue, stream, pasted, refused, shown, misled, up, down, loop,
                 tasks, world>>

\* The tasks of a connection end and what is under way on it is lost: a
\* part file is removed when its upload is dropped.
End(c) ==
  /\ conn' = [conn EXCEPT ![c] = "gone"]
  /\ up' = [up EXCEPT ![c] = <<>>]
  /\ down' = [down EXCEPT ![c] = <<>>]
  /\ incoming' = [incoming EXCEPT ![c] = Idle]
  /\ discarded' = [discarded EXCEPT ![c] = 0]
  /\ pend' = [pend EXCEPT ![c] = {}]
  /\ queue' = [queue EXCEPT ![c] = <<>>]
  /\ stream' = [stream EXCEPT ![c] = Idle]
  /\ known' = [known EXCEPT ![c] = FALSE]
  /\ shown' = [shown EXCEPT ![c] = NoStatuses]
  /\ UNCHANGED <<nextId, pasted, refused, misled, begun, files, late, tasks, world>>

Cancelled(c) == conn[c] = "displaced" /\ End(c) /\ UNCHANGED active
Disconnect(c) == conn[c] = "active" /\ End(c) /\ active' = 0

SessionExit ==
  /\ work.exit /\ alive
  /\ alive' = FALSE
  /\ Reply(active, <<Answer("exited", NoRequest, TRUE, <<>>)>>)
  /\ UNCHANGED <<work, version, up, client, loop, tasks, slot>>

Upstream ==
  /\ version <= work.changes
  /\ version' = version + 1
  /\ UNCHANGED <<work, alive, up, down, client, loop, tasks, slot>>

---------------------------------------------------------------------------
MakeRequest(c) == Upload(c) \/ SendOp(c)
Stream(c) == StreamStart(c) \/ StreamNext(c)
Handle(c) == UploadStart(c) \/ UploadChunk(c) \/ UploadFinish(c) \/ DispatchOp(c)
Receive(c) == IgnoreAnswer(c) \/ ApplyUpload(c) \/ ApplyOp(c) \/ SeeExit(c)
GitEnds == \E job \in ops, ok \in BOOLEAN : OpReply(job, ok)
GhWorker == GhRecv \/ GhDrain \/ (\E row \in Rows : GhLookup(row)) \/ GhReply

Next ==
  \/ \E c \in Conns : MakeRequest(c) \/ Stream(c) \/ Handle(c) \/ Receive(c)
  \/ GitEnds
  \/ GhWorker
  \/ \E c \in Conns : Attach(c) \/ Cancelled(c) \/ Disconnect(c)
  \/ SessionExit
  \/ Upstream

Spec == Init /\ [][Next]_vars

\* The tasks and threads of both processes run; users and shells need not.
Fairness ==
  /\ \A c \in Conns : /\ WF_vars(Stream(c)) /\ WF_vars(Handle(c))
                      /\ WF_vars(Receive(c)) /\ WF_vars(Cancelled(c))
  /\ WF_vars(GitEnds)
  /\ WF_vars(GhWorker)

FairSpec == Spec /\ Fairness

---------------------------------------------------------------------------
\* Types of the control state.
TypeOK ==
  /\ conn \in [Conns -> {"unborn", "active", "displaced", "gone"}]
  /\ active \in Conns \cup {0}
  /\ \A c \in Conns : /\ Len(queue[c]) <= UploadQueue
                      /\ \A p \in pend[c] : p.c = c /\ p.id < nextId[c]
                      /\ \A p, q \in pend[c] : p.id = q.id => p = q
  /\ gh.pc \in {"recv", "drain", "fetch"}
  /\ gh.hand # NoJob => gh.pc = "fetch"

\* What the client is told of an upload is so, whatever failed on the way and
\* although the frames are streamed without waiting for an answer: the path it
\* pastes names the whole file, and an upload reported as failed has not been
\* put in place (supervisor.rs, UploadChunk, UploadFinish and finish).
ToldTheTruth == pasted \subseteq files /\ refused \cap files = {}

\* A rejected start is answered once: the rest of the request's frames are
\* consumed without "one error response per chunk" (supervisor.rs:427-430).
RejectedOnce ==
  \A c \in Conns : \A i \in DOMAIN down[c] :
    LET m == down[c][i]
    IN m.t = "upload" /\ m.r \notin begun =>
         /\ m.r \in pend[c]
         /\ \A j \in DOMAIN down[c] : down[c][j].t = "upload" /\ down[c][j].r = m.r => j = i

\* A client takes the answer to another connection's operation only if a
\* displaced command loop has dispatched one after the slot changed hands:
\* operations are numbered from 1 by every connection and answered on the
\* channel captured when they were dispatched (supervisor.rs:613-636, OpReplyGuard).
OwnAnswers == misled # {} => late

\* The statuses that answer a fetch are of the PR state at the time it was
\* asked or later, also when the job was superseded and acknowledged with the
\* result of another ("an older poll would observe the same upstream state
\* anyway", supervisor.rs, spawn_gh_worker).
FreshStatuses ==
  \A c \in Conns : \A i \in DOMAIN down[c] :
    LET m == down[c][i]
    IN \A k \in DOMAIN m.st : m.st[k][2] = 0 \/ m.st[k][2] >= m.r.at

\* The status of a worktree never goes back to an older PR state: one worker
\* does the lookups and its answers come in order (run_fetch_pr, PrStatusesFetched).
NeverBackward ==
  [][\A c \in Conns, repo \in Repos, row \in Rows :
       conn'[c] # "gone" =>
         shown'[c][repo][row] = 0 \/ shown'[c][repo][row] >= shown[c][repo][row]]_vars

\* Every request is answered, or its connection ends: neither a rejected or
\* failed upload nor a superseded fetch nor a panicking operation leaves its
\* continuation pending (supervisor.rs: OpReplyGuard, spawn_gh_worker;
\* client.rs: pending_ops, pending_uploads).
Answered == \A c \in Conns : pend[c] # {} ~> (pend[c] = {} \/ conn[c] = "gone")
=============================================================================
