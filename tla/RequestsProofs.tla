--------------------------- MODULE RequestsProofs ---------------------------
(***************************************************************************)
(* Theorems of Requests, for every number of connections, every workload    *)
(* of requests and every capacity of the upload queue.                      *)
(***************************************************************************)
EXTENDS Requests, TLAPS

-----------------------------------------------------------------------------
(* What things are *)

Reqs == [c : Conns, id : Nat \ {0}, kind : {"upload", "git", "fetch"}, size : Nat,
         repo : Repos \cup {0}, rows : SUBSET Rows, at : Nat]
Uploads == [r : Reqs, n : Nat]
Frames == [t : {"start", "chunk", "finish", "op"}, r : Reqs, n : Nat]
Statuses == Seq(Rows \X Nat)
Answers == [t : {"upload", "op", "exited"}, r : Reqs \cup {NoRequest}, ok : BOOLEAN,
            st : Statuses]
Jobs == [r : Reqs, chan : Conns]
GhStates == [job : Jobs \cup {NoJob}, superseded : Seq(Jobs), hand : Jobs \cup {NoJob},
             left : SUBSET Rows, got : Statuses, failed : BOOLEAN,
             pc : {"recv", "drain", "fetch"}]

ClientType ==
  /\ nextId \in [Conns -> Nat \ {0}]
  /\ pend \in [Conns -> SUBSET Reqs]
  /\ queue \in [Conns -> Seq(Reqs)]
  /\ \A c \in Conns : Len(queue[c]) <= UploadQueue
  /\ stream \in [Conns -> Uploads \cup {Idle}]
  /\ known \in [Conns -> BOOLEAN]
  /\ pasted \subseteq Reqs /\ refused \subseteq Reqs
  /\ shown \in [Conns -> [Repos -> [Rows -> Nat]]]

SupervisorType ==
  /\ incoming \in [Conns -> Uploads \cup {Idle}]
  /\ discarded \in [Conns -> Nat]
  /\ files \subseteq Reqs
  /\ ops \subseteq Jobs
  /\ ghq \in Seq(Jobs)
  /\ gh \in GhStates
  /\ gh.pc # "recv" => gh.job \in Jobs
  /\ gh.hand # NoJob => gh.pc = "fetch"
  /\ late \in BOOLEAN

WorldType ==
  /\ work \in Workloads
  /\ conn \in [Conns -> {"unborn", "active", "displaced", "gone"}]
  /\ \A c \in Conns : Linked(c) => c \in DOMAIN work.asks
  /\ active \in Conns \cup {0}
  /\ active # 0 => conn[active] = "active"
  /\ up \in [Conns -> Seq(Frames)]
  /\ down \in [Conns -> Seq(Answers)]
  /\ version \in Nat
  /\ alive \in BOOLEAN

Types == ClientType /\ SupervisorType /\ WorldType

-----------------------------------------------------------------------------
(* Whose a request is *)

\* r is a request of connection c, and the pending request of its number, if any.
Known(c, r) ==
  /\ r \in Reqs /\ r.c = c /\ r.id < nextId[c] /\ r.at <= version
  /\ \A p \in pend[c] : p.id = r.id => p = r

AsUpload(c, r) == Known(c, r) /\ r.kind = "upload"

\* The frames of a connection, its queues and the answers to its uploads are about its
\* own requests.
OwnFrame(c, f) == Known(c, f.r) /\ (f.t # "op" => f.r.kind = "upload")
OwnAnswer(c, m) == m.t = "upload" => AsUpload(c, m.r)
Own(c) ==
  /\ \A p \in pend[c] : Known(c, p)
  /\ \A k \in DOMAIN queue[c] : AsUpload(c, queue[c][k])
  /\ stream[c] # Idle => AsUpload(c, stream[c].r)
  /\ \A k \in DOMAIN up[c] : OwnFrame(c, up[c][k])
  /\ incoming[c] # Idle => AsUpload(c, incoming[c].r)
  /\ \A k \in DOMAIN down[c] : OwnAnswer(c, down[c][k])
OwnRequests == \A c \in Conns : Own(c)

\* A job is answered on the channel of the connection that asked, unless a displaced
\* loop has dispatched one.
OwnJob(j) == j.r.at <= version /\ (late \/ Known(j.chan, j.r))
OwnOp(c, m) == m.t = "op" => late \/ Known(c, m.r)
OwnJobs ==
  /\ \A j \in ops : OwnJob(j)
  /\ \A k \in DOMAIN ghq : OwnJob(ghq[k])
  /\ gh.pc # "recv" => OwnJob(gh.job)
  /\ \A k \in DOMAIN gh.superseded : OwnJob(gh.superseded[k])
  /\ gh.hand # NoJob => OwnJob(gh.hand)
  /\ \A c \in Conns : \A k \in DOMAIN down[c] : OwnOp(c, down[c][k])

OwnInv == Types /\ OwnRequests /\ OwnJobs /\ OwnAnswers

-----------------------------------------------------------------------------
(* Sequences *)

\* What an append leaves alone and what it adds.
LEMMA Appends ==
  ASSUME NEW S, NEW s \in Seq(S), NEW e \in S
  PROVE  /\ Append(s, e) \in Seq(S)
         /\ s \o <<e>> = Append(s, e)
         /\ Len(s) \in Nat /\ Len(Append(s, e)) = Len(s) + 1
         /\ \A k \in DOMAIN s : k \in DOMAIN Append(s, e) /\ Append(s, e)[k] = s[k]
         /\ Len(s) + 1 \in DOMAIN Append(s, e) /\ Append(s, e)[Len(s) + 1] = e
         /\ \A k \in DOMAIN Append(s, e) : k \in Nat \ {0} /\
              (k \in DOMAIN s \/ k = Len(s) + 1)
         /\ \A k \in DOMAIN s : k < Len(s) + 1
  OBVIOUS

\* Taking the head moves the others up by one.
LEMMA Tails ==
  ASSUME NEW S, NEW s \in Seq(S), s # <<>>
  PROVE  /\ 1 \in DOMAIN s /\ Head(s) = s[1] /\ Head(s) \in S
         /\ Tail(s) \in Seq(S)
         /\ Len(s) \in Nat /\ Len(Tail(s)) = Len(s) - 1 /\ Len(Tail(s)) \in Nat
         /\ \A k \in DOMAIN Tail(s) : k \in Nat /\ k + 1 \in DOMAIN s /\ Tail(s)[k] = s[k + 1]
         /\ \A k \in DOMAIN s : k \in Nat /\ k >= 1
         /\ \A k \in DOMAIN s : k # 1 => k - 1 \in DOMAIN Tail(s) /\ Tail(s)[k - 1] = s[k]
  OBVIOUS

\* A queue that loses its head, or is emptied, holds nothing new.
Shrinks(s, t) == t = s \/ (s # <<>> /\ t = Tail(s)) \/ t = <<>>

\* What a queue holds that has shrunk, it held before.
LEMMA Kept ==
  ASSUME NEW S, NEW s \in Seq(S), NEW t, Shrinks(s, t)
  PROVE  \A k \in DOMAIN t : \E i \in DOMAIN s : t[k] = s[i]
  <1>1. CASE s # <<>> /\ t = Tail(s) BY <1>1, Tails
  <1>2. CASE t = <<>> BY <1>2
  <1> QED BY <1>1, <1>2 DEF Shrinks

\* The empty sequence.
LEMMA EmptySeq == \A S : <<>> \in Seq(S) /\ DOMAIN <<>> = {} /\ Len(<<>>) = 0
  OBVIOUS

\* A reply is appended to the queue of its channel, if that is linked, or dropped.
LEMMA Replies ==
  ASSUME down \in [Conns -> Seq(Answers)], NEW chan, NEW m \in Answers, Reply(chan, <<m>>)
  PROVE  /\ down' \in [Conns -> Seq(Answers)]
         /\ \A c \in Conns : \/ down'[c] = down[c]
                             \/ c = chan /\ Linked(c) /\ down'[c] = Append(down[c], m)
  <1>1. \A c \in Conns : down[c] \o <<m>> = Append(down[c], m)
                         /\ Append(down[c], m) \in Seq(Answers)
    BY Appends
  <1> QED BY <1>1 DEF Reply

\* A frame is appended to the queue of its connection.
LEMMA Sends ==
  ASSUME up \in [Conns -> Seq(Frames)], NEW c \in Conns, NEW f \in Frames, Send(c, f)
  PROVE  /\ up' \in [Conns -> Seq(Frames)]
         /\ up'[c] = Append(up[c], f)
         /\ \A d \in Conns \ {c} : up'[d] = up[d]
  <1>1. Append(up[c], f) \in Seq(Frames) BY Appends
  <1> QED BY <1>1 DEF Send

\* The first frame of a connection is taken.
LEMMA FrameTaken ==
  ASSUME up \in [Conns -> Seq(Frames)], NEW c \in Conns, up[c] # <<>>, TakeFrame(c)
  PROVE  /\ up' \in [Conns -> Seq(Frames)]
         /\ up'[c] = Tail(up[c])
         /\ Head(up[c]) \in Frames /\ Head(up[c]) = up[c][1] /\ 1 \in DOMAIN up[c]
         /\ \A d \in Conns \ {c} : up'[d] = up[d]
  <1>1. Tail(up[c]) \in Seq(Frames) /\ Head(up[c]) \in Frames
        /\ Head(up[c]) = up[c][1] /\ 1 \in DOMAIN up[c]
    BY Tails
  <1> QED BY <1>1 DEF TakeFrame

\* The first answer of a connection is taken.
LEMMA AnswerTaken ==
  ASSUME down \in [Conns -> Seq(Answers)], NEW c \in Conns, down[c] # <<>>, TakeAnswer(c)
  PROVE  /\ down' \in [Conns -> Seq(Answers)]
         /\ down'[c] = Tail(down[c])
         /\ Head(down[c]) \in Answers /\ Head(down[c]) = down[c][1] /\ 1 \in DOMAIN down[c]
         /\ \A d \in Conns \ {c} : down'[d] = down[d]
  <1>1. Tail(down[c]) \in Seq(Answers) /\ Head(down[c]) \in Answers
        /\ Head(down[c]) = down[c][1] /\ 1 \in DOMAIN down[c]
    BY Tails
  <1> QED BY <1>1 DEF TakeAnswer

-----------------------------------------------------------------------------
(* Types *)

\* 0 is no connection.
LEMMA NoZero == 0 \notin Conns
  BY BoundsAssumption DEF Conns

\* The request a client is about to make is a request, with a number of its own.
LEMMA NewRequest ==
  ASSUME Types, NEW c \in Conns, Linked(c), Wanted(c)
  PROVE  /\ Request(c) \in Reqs /\ Request(c).c = c /\ Request(c).id = nextId[c]
         /\ Request(c).at <= version
  <1> DEFINE w == work.asks[c][nextId[c]]
  <1>1. work.asks \in Seq(Seq(Ask)) /\ c \in DOMAIN work.asks
    BY WorkloadsAssumption DEF Types, WorldType
  <1>2. work.asks[c] \in Seq(Ask) BY <1>1
  <1>3. w \in Ask BY <1>2 DEF Wanted
  <1>4. nextId[c] \in Nat \ {0} /\ version \in Nat BY DEF Types, ClientType, WorldType
  <1> HIDE DEF w
  <1>5. Request(c) = [c |-> c, id |-> nextId[c], kind |-> w.kind, size |-> w.size,
                      repo |-> w.repo, rows |-> w.rows,
                      at |-> IF w.kind = "fetch" THEN version ELSE 0]
    BY DEF Request, w
  <1> QED BY <1>3, <1>4, <1>5 DEF Ask, Reqs

\* The records the queues are made of.
LEMMA Records ==
  /\ \A t \in {"start", "chunk", "finish", "op"}, r \in Reqs, n \in Nat :
       Frame(t, r, n) \in Frames
  /\ \A t \in {"upload", "op", "exited"}, r \in Reqs \cup {NoRequest}, ok \in BOOLEAN,
        st \in Statuses : Answer(t, r, ok, st) \in Answers
  /\ <<>> \in Statuses
  /\ Idle.n \in Nat /\ Idle.r = NoRequest /\ NoRequest.id = 0
  /\ Idle \notin Uploads /\ NoJob \notin Jobs
  <1>1. NoRequest \notin Reqs
    <2>1. NoRequest.id = 0 BY DEF NoRequest
    <2>2. \A r \in Reqs : r.id # 0 BY DEF Reqs
    <2> QED BY <2>1, <2>2
  <1>2. <<>> \in Statuses BY EmptySeq DEF Statuses
  <1>3. Idle \notin Uploads BY <1>1 DEF Idle, Uploads
  <1>4. NoJob \notin Jobs BY <1>1 DEF NoJob, Jobs
  <1> QED BY <1>2, <1>3, <1>4 DEF Frame, Frames, Answer, Answers, Idle, NoRequest

\* The worker answers one of the jobs it has.
LEMMA Acknowledged ==
  ASSUME Types
  PROVE  /\ \A j \in Jobs : GhAnswer(j.r) \in Answers
         /\ GhReply => \E j \in Jobs :
              /\ j = gh.job \/ \E k \in DOMAIN gh.superseded : j = gh.superseded[k]
              /\ Reply(j.chan, <<GhAnswer(j.r)>>)
  <1>1. gh.superseded \in Seq(Jobs) /\ gh.got \in Statuses /\ gh.failed \in BOOLEAN
    BY DEF Types, SupervisorType, GhStates
  <1>2. \A j \in Jobs : GhAnswer(j.r) \in Answers BY <1>1, Records DEF GhAnswer, Jobs
  <1>3. ASSUME GhReply
        PROVE  \E j \in Jobs :
                 /\ j = gh.job \/ \E k \in DOMAIN gh.superseded : j = gh.superseded[k]
                 /\ Reply(j.chan, <<GhAnswer(j.r)>>)
    <2>1. gh.job \in Jobs BY <1>3 DEF GhReply, Fetched, Types, SupervisorType
    <2>2. CASE gh.superseded # <<>> /\ Reply(Head(gh.superseded).chan,
                                             <<GhAnswer(Head(gh.superseded).r)>>)
      <3>1. /\ Head(gh.superseded) \in Jobs /\ 1 \in DOMAIN gh.superseded
            /\ Head(gh.superseded) = gh.superseded[1]
        BY <1>1, <2>2, Tails
      <3> QED BY <2>2, <3>1
    <2>3. CASE Reply(gh.job.chan, <<GhAnswer(gh.job.r)>>) BY <2>1, <2>3
    <2> QED BY <1>3, <2>2, <2>3 DEF GhReply
  <1> QED BY <1>2, <1>3

\* The steps by which a client makes requests and streams files keep the types.
LEMMA ClientTypes ==
  ASSUME Types, NEW c \in Conns, MakeRequest(c) \/ Stream(c)
  PROVE  Types'
  <1> USE DEF client, loop, tasks, slot, world, Types
  <1>1. up \in [Conns -> Seq(Frames)] /\ c \in Conns BY DEF WorldType
  <1>2. CASE MakeRequest(c)
    <2> DEFINE r == Request(c)
    <2>1. r \in Reqs /\ Linked(c)
      BY <1>2, NewRequest DEF MakeRequest, Upload, SendOp
    <2>2. nextId' \in [Conns -> Nat \ {0}]
      BY <1>2 DEF MakeRequest, Upload, SendOp, Number, ClientType
    <2> HIDE DEF r
    <2>3. CASE Upload(c)
      <3>1. pend' = pend \/ pend' = [pend EXCEPT ![c] = @ \cup {r}]
        BY <2>3 DEF Upload, r
      <3>2. pend' \in [Conns -> SUBSET Reqs]
        <4>1. pend \in [Conns -> SUBSET Reqs] BY DEF ClientType
        <4>2. pend[c] \cup {r} \in SUBSET Reqs BY <2>1, <4>1
        <4> QED BY <3>1, <4>1, <4>2
      <3>3. \/ queue' = queue
            \/ Len(queue[c]) < UploadQueue /\ queue' = [queue EXCEPT ![c] = Append(@, r)]
        BY <2>3 DEF Upload, r
      <3>4. /\ queue' \in [Conns -> Seq(Reqs)]
            /\ \A d \in Conns : Len(queue'[d]) <= UploadQueue
        <4>1. Append(queue[c], r) \in Seq(Reqs) /\ Len(Append(queue[c], r)) = Len(queue[c]) + 1
              /\ Len(queue[c]) \in Nat
          BY <2>1, Appends DEF ClientType
        <4>2. Len(queue[c]) < UploadQueue => Len(queue[c]) + 1 <= UploadQueue
          BY <4>1, BoundsAssumption
        <4> QED BY <3>3, <4>1, <4>2 DEF ClientType
      <3>5. ClientType' BY <2>2, <2>3, <3>2, <3>4 DEF ClientType, Upload
      <3>6. SupervisorType' BY <2>3 DEF SupervisorType, Upload
      <3>7. WorldType' BY <2>3 DEF WorldType, Upload, Linked
      <3> QED BY <3>5, <3>6, <3>7
    <2>4. CASE SendOp(c)
      <3>1. pend' \in [Conns -> SUBSET Reqs] BY <2>1, <2>4 DEF ClientType, SendOp, r
      <3>2. ClientType' BY <2>2, <2>4, <3>1 DEF ClientType, SendOp
      <3>3. SupervisorType' BY <2>4 DEF SupervisorType, SendOp
      <3>4. Frame("op", r, 0) \in Frames BY <2>1, Records
      <3>5. up' \in [Conns -> Seq(Frames)] BY <1>1, <2>4, <3>4, Sends DEF SendOp, r
      <3>6. WorldType' BY <2>4, <3>5 DEF WorldType, SendOp, Linked
      <3> QED BY <3>2, <3>3, <3>6
    <2> QED BY <1>2, <2>3, <2>4 DEF MakeRequest
  <1>3. CASE StreamStart(c)
    <2>1. Head(queue[c]) \in Reqs /\ Tail(queue[c]) \in Seq(Reqs)
          /\ Len(Tail(queue[c])) <= UploadQueue
      <3>1. queue[c] \in Seq(Reqs) /\ queue[c] # <<>> /\ Len(queue[c]) <= UploadQueue
        BY <1>3 DEF StreamStart, ClientType
      <3>2. Len(queue[c]) \in Nat /\ Len(Tail(queue[c])) = Len(queue[c]) - 1
        BY <3>1, Tails
      <3> QED BY <3>1, <3>2, Tails, BoundsAssumption
    <2>2. Frame("start", Head(queue[c]), 0) \in Frames BY <2>1, Records
    <2>3. up' \in [Conns -> Seq(Frames)] BY <1>1, <1>3, <2>2, Sends DEF StreamStart
    <2>4. [r |-> Head(queue[c]), n |-> 0] \in Uploads BY <2>1 DEF Uploads
    <2>5. stream' \in [Conns -> Uploads \cup {Idle}]
      BY <1>3, <2>4 DEF StreamStart, ClientType
    <2>6. ClientType' BY <1>3, <2>1, <2>5 DEF StreamStart, ClientType
    <2>7. SupervisorType' BY <1>3 DEF StreamStart, SupervisorType
    <2>8. WorldType' BY <1>3, <2>3 DEF StreamStart, WorldType, Linked
    <2> QED BY <2>6, <2>7, <2>8
  <1>4. CASE StreamNext(c)
    <2>1. stream[c] \in Uploads BY <1>4 DEF StreamNext, ClientType
    <2>2. stream[c].r \in Reqs /\ stream[c].n \in Nat BY <2>1 DEF Uploads
    <2>3. Frame("chunk", stream[c].r, stream[c].n) \in Frames
          /\ Frame("finish", stream[c].r, 0) \in Frames
      BY <2>2, Records
    <2>4. up' \in [Conns -> Seq(Frames)] BY <1>1, <1>4, <2>3, Sends DEF StreamNext
    <2>5. stream' = [stream EXCEPT ![c].n = @ + 1] \/ stream' = [stream EXCEPT ![c] = Idle]
      BY <1>4 DEF StreamNext
    <2>6. stream' \in [Conns -> Uploads \cup {Idle}]
      <3>1. [stream[c] EXCEPT !.n = @ + 1] \in Uploads BY <2>1 DEF Uploads
      <3> QED BY <2>5, <3>1 DEF ClientType
    <2>7. ClientType' BY <1>4, <2>6 DEF StreamNext, ClientType
    <2>8. SupervisorType' BY <1>4 DEF StreamNext, SupervisorType
    <2>9. WorldType' BY <1>4, <2>4 DEF StreamNext, WorldType, Linked
    <2> QED BY <2>7, <2>8, <2>9
  <1> QED BY <1>2, <1>3, <1>4 DEF Stream

\* So do the steps of the command loop.
LEMMA LoopTypes ==
  ASSUME Types, NEW c \in Conns, Handle(c)
  PROVE  Types'
  <1> USE DEF client, loop, tasks, slot, world, Types
  <1> DEFINE f == Head(up[c])
  <1>1. /\ up' \in [Conns -> Seq(Frames)] /\ f \in Frames
    <2>1. up[c] # <<>> /\ TakeFrame(c)
      BY DEF Handle, UploadStart, UploadChunk, UploadFinish, DispatchOp, FrameIs
    <2> QED BY <2>1, FrameTaken DEF WorldType
  <1>2. f.r \in Reqs BY <1>1 DEF Frames
  <1>3. Answer("upload", f.r, FALSE, <<>>) \in Answers
        /\ Answer("upload", f.r, TRUE, <<>>) \in Answers
    BY <1>2, Records
  <1>4. ASSUME down' = down \/ UploadResult(c, f.r, FALSE) \/ UploadResult(c, f.r, TRUE)
        PROVE  down' \in [Conns -> Seq(Answers)]
    BY <1>3, <1>4, Replies DEF UploadResult, WorldType
  <1>5. ClientType'
    BY DEF ClientType, Handle, UploadStart, UploadChunk, UploadFinish, DispatchOp
  <1>6. incoming[c] \in Uploads \cup {Idle} BY DEF SupervisorType
  <1> HIDE DEF f
  <1>7. CASE UploadStart(c)
    <2>1. WorldType' BY <1>1, <1>4, <1>7 DEF UploadStart, WorldType, Linked, f
    <2>2. [r |-> f.r, n |-> 0] \in Uploads BY <1>2 DEF Uploads
    <2>3. incoming' \in [Conns -> Uploads \cup {Idle}] /\ discarded' \in [Conns -> Nat]
      BY <1>2, <1>7, <2>2 DEF UploadStart, SupervisorType, Reqs, f
    <2>4. SupervisorType' BY <1>7, <2>3 DEF UploadStart, SupervisorType
    <2> QED BY <1>5, <2>1, <2>4
  <1>8. CASE UploadChunk(c)
    <2>1. WorldType' BY <1>1, <1>4, <1>8 DEF UploadChunk, WorldType, Linked, f
    <2>2. incoming' = incoming \/ incoming' = [incoming EXCEPT ![c] = Idle]
          \/ /\ incoming[c].r.id = f.r.id
             /\ incoming' = [incoming EXCEPT ![c].n = @ + 1]
      BY <1>8 DEF UploadChunk, f
    <2>3. incoming[c].r.id = f.r.id => [incoming[c] EXCEPT !.n = @ + 1] \in Uploads
      <3>1. f.r.id # 0 BY <1>2 DEF Reqs
      <3>2. Idle.r.id = 0 BY Records
      <3> QED BY <1>6, <3>1, <3>2 DEF Uploads
    <2>4. incoming' \in [Conns -> Uploads \cup {Idle}]
      BY <2>2, <2>3 DEF SupervisorType
    <2>5. SupervisorType' BY <1>8, <2>4 DEF UploadChunk, SupervisorType
    <2> QED BY <1>5, <2>1, <2>5
  <1>9. CASE UploadFinish(c)
    <2>1. WorldType' BY <1>1, <1>4, <1>9 DEF UploadFinish, WorldType, Linked, f
    <2>2. incoming' = incoming \/ incoming' = [incoming EXCEPT ![c] = Idle]
      BY <1>9 DEF UploadFinish, SupervisorType
    <2>3. incoming' \in [Conns -> Uploads \cup {Idle}] BY <2>2 DEF SupervisorType
    <2>4. files' \subseteq Reqs BY <1>2, <1>9 DEF UploadFinish, SupervisorType, f
    <2>5. discarded' \in [Conns -> Nat]
      <3>1. discarded' = discarded \/ discarded' = [discarded EXCEPT ![c] = 0]
        BY <1>9 DEF UploadFinish
      <3> QED BY <3>1 DEF SupervisorType
    <2>6. SupervisorType' BY <1>9, <2>3, <2>4, <2>5 DEF UploadFinish, SupervisorType
    <2> QED BY <1>5, <2>1, <2>6
  <1>10. CASE DispatchOp(c)
    <2>1. WorldType' BY <1>1, <1>10 DEF DispatchOp, WorldType, Linked
    <2> DEFINE job == [r |-> f.r, chan |-> active]
    <2>2. active # 0 => job \in Jobs BY <1>2 DEF Jobs, WorldType
    <2>3. gh' = gh BY <1>10 DEF DispatchOp
    <2>4. ops' \subseteq Jobs /\ ghq' \in Seq(Jobs)
      <3>1. \/ ops' = ops /\ ghq' = ghq
            \/ active # 0 /\ ops' = ops \cup {job} /\ ghq' = ghq
            \/ active # 0 /\ ops' = ops /\ ghq' = Append(ghq, job)
        BY <1>10 DEF DispatchOp, f
      <3> HIDE DEF job
      <3>2. active # 0 => Append(ghq, job) \in Seq(Jobs)
        BY <2>2, Appends DEF SupervisorType
      <3> QED BY <2>2, <3>1, <3>2 DEF SupervisorType
    <2>5. SupervisorType' BY <1>10, <2>3, <2>4 DEF DispatchOp, SupervisorType
    <2> QED BY <1>5, <2>1, <2>5
  <1> QED BY <1>7, <1>8, <1>9, <1>10 DEF Handle

\* What Refreshed shows of a row is a version.
LEMMA RefreshedType ==
  ASSUME NEW old \in [Rows -> Nat], NEW st \in Statuses
  PROVE  /\ Refreshed(old, st) \in [Rows -> Nat]
         /\ \A row \in Rows : \/ Refreshed(old, st)[row] = old[row]
                              \/ \E i \in DOMAIN st : /\ st[i][1] = row
                                                      /\ Refreshed(old, st)[row] = st[i][2]
  <1> SUFFICES ASSUME NEW row \in Rows
               PROVE  /\ Refreshed(old, st)[row] \in Nat
                      /\ \/ Refreshed(old, st)[row] = old[row]
                         \/ \E i \in DOMAIN st : /\ st[i][1] = row
                                                 /\ Refreshed(old, st)[row] = st[i][2]
    BY DEF Refreshed
  <1>1. CASE \E i \in DOMAIN st : st[i][1] = row
    <2> DEFINE k == CHOOSE i \in DOMAIN st : st[i][1] = row
    <2>1. k \in DOMAIN st /\ st[k][1] = row BY <1>1
    <2>2. Refreshed(old, st)[row] = st[k][2] BY <1>1 DEF Refreshed
    <2>3. st[k] \in Rows \X Nat BY <2>1 DEF Statuses
    <2> HIDE DEF k
    <2> QED BY <2>1, <2>2, <2>3
  <1>2. CASE ~\E i \in DOMAIN st : st[i][1] = row
    BY <1>2 DEF Refreshed
  <1> QED BY <1>1, <1>2

\* So do the client's reader, ...
LEMMA ReceiveTypes ==
  ASSUME Types, NEW c \in Conns, Receive(c)
  PROVE  Types'
  <1> USE DEF client, loop, tasks, slot, world, Types
  <1> DEFINE m == Head(down[c])
  <1>1. down' \in [Conns -> Seq(Answers)] /\ m \in Answers
    <2>1. down[c] # <<>> /\ TakeAnswer(c)
      BY DEF Receive, IgnoreAnswer, ApplyUpload, ApplyOp, SeeExit, AnswerIs
    <2> QED BY <2>1, AnswerTaken DEF WorldType
  <1>2. WorldType'
    BY <1>1 DEF Receive, IgnoreAnswer, ApplyUpload, ApplyOp, SeeExit, WorldType, Linked
  <1>3. SupervisorType'
    BY DEF Receive, IgnoreAnswer, ApplyUpload, ApplyOp, SeeExit, SupervisorType
  <1>4. ClientType'
    <2>1. CASE IgnoreAnswer(c) BY <2>1 DEF IgnoreAnswer, ClientType
    <2>2. CASE ApplyUpload(c)
      <3>1. PICK p \in Asked(c, m) :
              /\ pend' = [pend EXCEPT ![c] = @ \ {p}]
              /\ pasted' \subseteq pasted \cup {p} /\ refused' \subseteq refused \cup {p}
        BY <2>2 DEF ApplyUpload
      <3>2. p \in Reqs BY DEF Asked, ClientType
      <3>3. pend' \in [Conns -> SUBSET Reqs]
        <4>1. pend \in [Conns -> SUBSET Reqs] BY DEF ClientType
        <4>2. pend[c] \ {p} \in SUBSET Reqs BY <4>1
        <4> QED BY <3>1, <4>1, <4>2
      <3>4. pasted' \subseteq Reqs /\ refused' \subseteq Reqs
        BY <3>1, <3>2 DEF ClientType
      <3> QED BY <2>2, <3>3, <3>4 DEF ApplyUpload, ClientType
    <2>3. CASE ApplyOp(c)
      <3>1. PICK p \in Asked(c, m) :
              /\ pend' = [pend EXCEPT ![c] = @ \ {p}]
              /\ \/ shown' = [shown EXCEPT ![c][p.repo] = Refreshed(@, m.st)]
                 \/ shown' = shown
        BY <2>3 DEF ApplyOp
      <3>2. pend' \in [Conns -> SUBSET Reqs]
        <4>1. pend \in [Conns -> SUBSET Reqs] BY DEF ClientType
        <4>2. pend[c] \ {p} \in SUBSET Reqs BY <4>1
        <4> QED BY <3>1, <4>1, <4>2
      <3>3. m.st \in Statuses BY <1>1 DEF Answers
      <3>4. shown' \in [Conns -> [Repos -> [Rows -> Nat]]]
        <4>1. shown[c] \in [Repos -> [Rows -> Nat]] BY DEF ClientType
        <4>2. p.repo \in Repos => Refreshed(shown[c][p.repo], m.st) \in [Rows -> Nat]
          BY <3>3, <4>1, RefreshedType
        <4>3. [shown[c] EXCEPT ![p.repo] = Refreshed(@, m.st)] \in [Repos -> [Rows -> Nat]]
          BY <4>1, <4>2
        <4> QED BY <3>1, <4>3 DEF ClientType
      <3> QED BY <2>3, <3>2, <3>4 DEF ApplyOp, ClientType
    <2>4. CASE SeeExit(c) BY <2>4 DEF SeeExit, ClientType
    <2> QED BY <2>1, <2>2, <2>3, <2>4 DEF Receive
  <1> QED BY <1>2, <1>3, <1>4

\* ... the threads of the operations and the worker, ...
LEMMA WorkerTypes ==
  ASSUME Types, GitEnds \/ GhWorker
  PROVE  Types'
  <1> USE DEF client, loop, tasks, slot, world, Types
  <1> SUFFICES SupervisorType' /\ WorldType'
    <2>1. ClientType'
      BY DEF ClientType, GitEnds, OpReply, GhWorker, GhRecv, GhDrain, GhLookup, GhReply
    <2> QED BY <2>1
  <1>1. CASE GitEnds
    <2>1. PICK job \in ops, ok \in BOOLEAN : OpReply(job, ok) BY <1>1 DEF GitEnds
    <2>2. Answer("op", job.r, ok, <<>>) \in Answers
      BY Records DEF SupervisorType, Jobs
    <2>3. down' \in [Conns -> Seq(Answers)]
      BY <2>1, <2>2, Replies DEF OpReply, WorldType
    <2>4. SupervisorType' BY <2>1 DEF OpReply, SupervisorType
    <2>5. WorldType' BY <2>1, <2>3 DEF OpReply, WorldType, Linked
    <2> QED BY <2>4, <2>5
  <1>2. ghq # <<>> => Head(ghq) \in Jobs /\ Tail(ghq) \in Seq(Jobs)
    BY Tails DEF SupervisorType
  <1>3. gh \in GhStates BY DEF SupervisorType
  <1>4. IdleGh \in GhStates BY EmptySeq DEF IdleGh, GhStates, Statuses
  <1>6. gh.superseded \in Seq(Jobs) /\ gh.got \in Statuses BY <1>3 DEF GhStates
  <1>7. CASE GhRecv
    <2>1. gh' = [IdleGh EXCEPT !.job = Head(ghq), !.pc = "drain"] /\ ghq' = Tail(ghq)
          /\ ghq # <<>> /\ ops' = ops
      BY <1>7 DEF GhRecv
    <2>2. gh' \in GhStates /\ gh'.pc = "drain" /\ gh'.job \in Jobs /\ gh'.hand = NoJob
      BY <1>2, <1>4, <2>1 DEF GhStates, IdleGh
    <2>3. SupervisorType' BY <1>2, <1>7, <2>1, <2>2 DEF GhRecv, SupervisorType
    <2>4. WorldType' BY <1>7 DEF GhRecv, WorldType, Linked
    <2> QED BY <2>3, <2>4
  <1>8. CASE GhDrain
    <2>0. gh.job \in Jobs /\ gh.pc = "drain" BY <1>8 DEF GhDrain, SupervisorType
    <2>1. gh'.job \in Jobs /\ gh' \in GhStates /\ (gh'.hand # NoJob => gh'.pc = "fetch")
      <3>1. CASE ghq # <<>> /\ gh' = [gh EXCEPT !.superseded = Append(@, gh.job), !.job = Head(ghq)]
        <4>1. Append(gh.superseded, gh.job) \in Seq(Jobs) BY <1>6, <2>0, Appends
        <4>2. gh.hand = NoJob BY <2>0 DEF SupervisorType
        <4> QED BY <1>2, <1>3, <3>1, <4>1, <4>2 DEF GhStates
      <3>2. CASE \E hand \in Jobs \cup {NoJob} : gh' = StartFetch(hand)
        <4>1. gh.job.r.rows \in SUBSET Rows BY <2>0 DEF Jobs, Reqs
        <4> QED BY <1>3, <2>0, <3>2, <4>1 DEF GhStates, StartFetch
      <3> QED BY <1>2, <1>8, <3>1, <3>2 DEF GhDrain
    <2>2. ghq' \in Seq(Jobs) BY <1>2, <1>8 DEF GhDrain, SupervisorType
    <2>3. SupervisorType' BY <1>8, <2>1, <2>2 DEF GhDrain, SupervisorType
    <2>4. WorldType' BY <1>8 DEF GhDrain, WorldType, Linked
    <2> QED BY <2>3, <2>4
  <1>9. ASSUME NEW row \in Rows, GhLookup(row) PROVE SupervisorType' /\ WorldType'
    <2>1. \/ \E v \in {0, version} :
               gh' = [gh EXCEPT !.left = @ \ {row}, !.got = Append(@, <<row, v>>)]
          \/ gh' = [gh EXCEPT !.left = @ \ {row}, !.failed = TRUE]
      BY <1>9 DEF GhLookup
    <2>2. gh.left \ {row} \in SUBSET Rows BY <1>3 DEF GhStates
    <2>3. \A v \in {0, version} : Append(gh.got, <<row, v>>) \in Statuses
      <3>1. \A v \in {0, version} : <<row, v>> \in Rows \X Nat BY DEF WorldType
      <3> QED BY <1>6, <3>1, Appends DEF Statuses
    <2>4. gh' \in GhStates /\ gh'.job = gh.job /\ gh'.pc = gh.pc /\ gh'.hand = gh.hand
      BY <1>3, <2>1, <2>2, <2>3 DEF GhStates
    <2>5. SupervisorType' BY <1>9, <2>4 DEF GhLookup, SupervisorType
    <2>6. WorldType' BY <1>9 DEF GhLookup, WorldType, Linked
    <2> QED BY <2>5, <2>6
  <1>10. CASE GhReply
    <2>0. gh.job \in Jobs /\ gh.pc = "fetch" BY <1>10 DEF GhReply, Fetched, SupervisorType
    <2>1. \A j \in Jobs : GhAnswer(j.r) \in Answers BY Acknowledged
    <2>2. PICK j \in Jobs : Reply(j.chan, <<GhAnswer(j.r)>>) BY <1>10, Acknowledged
    <2>3. down' \in [Conns -> Seq(Answers)] BY <2>1, <2>2, Replies DEF WorldType
    <2>4. /\ gh' \in GhStates
          /\ gh'.pc # "recv" => gh'.job \in Jobs
          /\ gh'.hand # NoJob => gh'.pc = "fetch"
      <3>1. CASE gh.superseded # <<>> /\ gh' = [gh EXCEPT !.superseded = Tail(@)]
        <4>1. Tail(gh.superseded) \in Seq(Jobs) BY <1>6, <3>1, Tails
        <4> QED BY <1>3, <2>0, <3>1, <4>1 DEF GhStates
      <3>2. CASE gh' = GhNext
        <4>1. CASE gh.hand = NoJob
          BY <1>4, <3>2, <4>1 DEF GhNext, IdleGh, GhStates
        <4>2. CASE gh.hand # NoJob
          <5>1. gh.hand \in Jobs BY <1>3, <4>2 DEF GhStates
          <5> QED BY <1>4, <3>2, <4>2, <5>1 DEF GhNext, IdleGh, GhStates
        <4> QED BY <4>1, <4>2
      <3> QED BY <1>10, <3>1, <3>2 DEF GhReply
    <2>5. SupervisorType' BY <1>10, <2>4 DEF GhReply, SupervisorType
    <2>6. WorldType' BY <1>10, <2>3 DEF GhReply, WorldType, Linked
    <2> QED BY <2>5, <2>6
  <1> QED BY <1>1, <1>7, <1>8, <1>9, <1>10 DEF GhWorker

\* ... the attaches and the ends of connections, and the world.
LEMMA SlotTypes ==
  ASSUME Types,
         \/ \E c \in Conns : Attach(c) \/ Cancelled(c) \/ Disconnect(c)
         \/ SessionExit \/ Upstream \/ UNCHANGED vars
  PROVE  Types'
  <1> USE DEF client, loop, tasks, slot, world, Types
  <1>1. ASSUME NEW c \in Conns, Attach(c) PROVE Types'
    <2>1. SupervisorType' BY <1>1 DEF Attach, SupervisorType
    <2>2. ClientType'
      <3>1. known' \in [Conns -> BOOLEAN] BY <1>1 DEF Attach, ClientType, WorldType
      <3> QED BY <1>1, <3>1 DEF Attach, ClientType
    <2>3. WorldType'
      <3>1. c \in DOMAIN work.asks
        <4>1. work.asks \in Seq(Seq(Ask)) BY WorkloadsAssumption DEF WorldType
        <4>2. Len(work.asks) \in Nat /\ DOMAIN work.asks = 1..Len(work.asks) BY <4>1
        <4>3. c \in 1..MaxConns /\ c <= Len(work.asks) BY <1>1 DEF Attach, Conns
        <4> QED BY <4>2, <4>3, BoundsAssumption
      <3>2. conn' \in [Conns -> {"unborn", "active", "displaced", "gone"}]
        BY <1>1 DEF Attach, WorldType
      <3>3. \A d \in Conns : Linked(d)' => d = c \/ d = active \/ Linked(d)
        BY <1>1 DEF Attach, Linked, WorldType
      <3>4. \A d \in Conns : Linked(d)' => Linked(d) \/ d = c
        BY <3>3, NoZero DEF WorldType, Linked
      <3> QED BY <1>1, <3>1, <3>2, <3>4 DEF Attach, WorldType
    <2> QED BY <2>1, <2>2, <2>3
  <1>2. ASSUME NEW c \in Conns, Cancelled(c) \/ Disconnect(c) PROVE Types'
    <2>1. End(c) /\ active' \in {active, 0} BY <1>2 DEF Cancelled, Disconnect
    <2>2. /\ <<>> \in Seq(Reqs) /\ <<>> \in Seq(Frames) /\ <<>> \in Seq(Answers)
          /\ Len(<<>>) <= UploadQueue
      BY EmptySeq, BoundsAssumption
    <2>3. SupervisorType' BY <2>1 DEF End, SupervisorType
    <2>4. ClientType'
      <3>1. NoStatuses \in [Repos -> [Rows -> Nat]] BY DEF NoStatuses
      <3>2. pend' \in [Conns -> SUBSET Reqs] BY <2>1 DEF End, ClientType
      <3>3. /\ queue' \in [Conns -> Seq(Reqs)]
            /\ \A d \in Conns : Len(queue'[d]) <= UploadQueue
        BY <2>1, <2>2 DEF End, ClientType
      <3>4. shown' \in [Conns -> [Repos -> [Rows -> Nat]]]
        BY <2>1, <3>1 DEF End, ClientType
      <3> QED BY <2>1, <3>2, <3>3, <3>4 DEF End, ClientType
    <2>5. WorldType'
      <3>1. /\ up' \in [Conns -> Seq(Frames)] /\ down' \in [Conns -> Seq(Answers)]
            /\ conn' \in [Conns -> {"unborn", "active", "displaced", "gone"}]
        BY <2>1, <2>2 DEF End, WorldType
      <3>2. \A d \in Conns : Linked(d)' => Linked(d) BY <2>1 DEF End, Linked, WorldType
      <3>3. active' # 0 => active' = active /\ c # active /\ conn'[active] = conn[active]
        BY <1>2, <2>1 DEF Cancelled, Disconnect, End, WorldType
      <3> QED BY <2>1, <3>1, <3>2, <3>3 DEF End, WorldType
    <2> QED BY <2>3, <2>4, <2>5
  <1>3. CASE SessionExit
    <2>1. Answer("exited", NoRequest, TRUE, <<>>) \in Answers BY Records
    <2>2. down' \in [Conns -> Seq(Answers)] BY <1>3, <2>1, Replies DEF SessionExit, WorldType
    <2>3. WorldType' BY <1>3, <2>2 DEF SessionExit, WorldType, Linked
    <2>4. ClientType' BY <1>3 DEF SessionExit, ClientType
    <2>5. SupervisorType' BY <1>3 DEF SessionExit, SupervisorType
    <2> QED BY <2>3, <2>4, <2>5
  <1>4. CASE Upstream
    <2>1. WorldType' BY <1>4 DEF Upstream, WorldType, Linked
    <2>2. ClientType' BY <1>4 DEF Upstream, ClientType
    <2>3. SupervisorType' BY <1>4 DEF Upstream, SupervisorType
    <2> QED BY <2>1, <2>2, <2>3
  <1>5. CASE UNCHANGED vars
    <2>1. WorldType' BY <1>5 DEF vars, WorldType, Linked
    <2>2. ClientType' BY <1>5 DEF vars, ClientType
    <2>3. SupervisorType' BY <1>5 DEF vars, SupervisorType
    <2> QED BY <2>1, <2>2, <2>3
  <1> QED BY <1>1, <1>2, <1>3, <1>4, <1>5

\* The types hold initially.
LEMMA InitTypes == Init => Types
  <1> SUFFICES ASSUME Init PROVE Types
    OBVIOUS
  <1>1. /\ <<>> \in Seq(Reqs) /\ <<>> \in Seq(Frames) /\ <<>> \in Seq(Answers)
        /\ <<>> \in Seq(Jobs) /\ <<>> \in Statuses /\ Len(<<>>) <= UploadQueue
    BY EmptySeq, BoundsAssumption DEF Statuses
  <1>2. 1 \in Conns BY BoundsAssumption DEF Conns
  <1>3. ClientType
    <2>1. NoStatuses \in [Repos -> [Rows -> Nat]] BY DEF NoStatuses
    <2>2. /\ queue \in [Conns -> Seq(Reqs)] /\ \A c \in Conns : Len(queue[c]) <= UploadQueue
      BY <1>1 DEF Init
    <2> QED BY <2>1, <2>2 DEF Init, ClientType
  <1>4. SupervisorType
    <2>1. IdleGh \in GhStates /\ IdleGh.pc = "recv" /\ IdleGh.hand = NoJob
      BY <1>1 DEF IdleGh, GhStates
    <2> QED BY <1>1, <2>1 DEF Init, SupervisorType
  <1>5. WorldType
    <2>1. up \in [Conns -> Seq(Frames)] /\ down \in [Conns -> Seq(Answers)]
      BY <1>1 DEF Init
    <2>2. \A c \in Conns : Linked(c) => c = 1 BY DEF Init, Linked
    <2>3. 1 \in DOMAIN work.asks
      <3>1. work.asks \in Seq(Seq(Ask)) /\ work.asks # <<>>
        BY WorkloadsAssumption DEF Init
      <3> QED BY <3>1
    <2> QED BY <1>2, <2>1, <2>2, <2>3 DEF Init, WorldType
  <1> QED BY <1>3, <1>4, <1>5 DEF Types

\* Every step keeps the types.
LEMMA TypesNext == Types /\ [Next]_vars => Types'
  BY ClientTypes, LoopTypes, ReceiveTypes, WorkerTypes, SlotTypes DEF Next

-----------------------------------------------------------------------------
(* Whose a request is *)

\* What a step does to the numbers of a connection and to the state upstream.
Counts(c) ==
  /\ nextId'[c] = nextId[c] \/ nextId'[c] = nextId[c] + 1
  /\ version' = version \/ version' = version + 1
  /\ \A p \in pend'[c] : p \in pend[c] \/ p.id = nextId[c]

\* A request known stays known: numbers are not given twice.
LEMMA KnownStays ==
  ASSUME Types, NEW c \in Conns, Counts(c), NEW r \in Reqs, Known(c, r)
  PROVE  Known(c, r)'
  <1>1. r.c = c /\ r.id < nextId[c] /\ r.at <= version /\ \A p \in pend[c] : p.id = r.id => p = r
    BY DEF Known
  <1>2. nextId[c] \in Nat /\ version \in Nat /\ r.id \in Nat /\ r.at \in Nat
    BY DEF Types, ClientType, WorldType, Reqs
  <1>3. r.id < nextId[c] + 1 /\ r.at <= version + 1 /\ r.id # nextId[c]
    BY <1>1, <1>2
  <1>4. \A p \in pend'[c] : p.id = r.id => p = r BY <1>1, <1>3 DEF Counts
  <1>5. r.id < nextId'[c] BY <1>1, <1>3 DEF Counts
  <1>6. r.at <= version' BY <1>1, <1>3 DEF Counts
  <1> QED BY <1>1, <1>4, <1>5, <1>6 DEF Known

\* A step that makes no request forwards, of connection c, only what c has asked.
Forwards(c) ==
  /\ pend'[c] \subseteq pend[c]
  /\ Shrinks(queue[c], queue'[c])
  /\ \/ stream'[c] = Idle
     \/ stream'[c].r \in Reqs /\ AsUpload(c, stream'[c].r)
  /\ \/ Shrinks(up[c], up'[c])
     \/ \E f \in Frames : OwnFrame(c, f) /\ up'[c] = Append(up[c], f)
  /\ \/ incoming'[c] = Idle
     \/ incoming'[c].r \in Reqs /\ AsUpload(c, incoming'[c].r)
  /\ \/ Shrinks(down[c], down'[c])
     \/ \E m \in Answers : OwnAnswer(c, m) /\ down'[c] = Append(down[c], m)

\* What is known of it stays known.
LEMMA OwnStep ==
  ASSUME Types, NEW c \in Conns, Own(c), Counts(c), Forwards(c)
  PROVE  Own(c)'
  <1> USE DEF Forwards
  <1>0. queue[c] \in Seq(Reqs) /\ up[c] \in Seq(Frames) /\ down[c] \in Seq(Answers)
        /\ pend[c] \subseteq Reqs
    BY DEF Types, ClientType, WorldType
  <1>1. ASSUME NEW r \in Reqs, Known(c, r) PROVE Known(c, r)' BY <1>1, KnownStays
  <1>2. ASSUME NEW r \in Reqs, AsUpload(c, r) PROVE AsUpload(c, r)'
    BY <1>1, <1>2 DEF AsUpload
  <1>3. \A p \in pend'[c] : Known(c, p)' BY <1>0, <1>1 DEF Own
  <1>4. \A k \in DOMAIN queue'[c] : AsUpload(c, queue[c][k])'
    <2> SUFFICES ASSUME NEW k \in DOMAIN queue'[c] PROVE AsUpload(c, queue[c][k])'
      OBVIOUS
    <2>1. PICK i \in DOMAIN queue[c] : queue'[c][k] = queue[c][i] BY <1>0, Kept
    <2>2. PICK r \in Reqs : r = queue[c][i] BY <1>0
    <2>3. AsUpload(c, r)' BY <1>2, <2>2 DEF Own
    <2> QED BY <2>1, <2>2, <2>3 DEF AsUpload, Known
  <1>5. stream'[c] # Idle => AsUpload(c, stream[c].r)'
    <2> SUFFICES ASSUME stream'[c] # Idle PROVE AsUpload(c, stream[c].r)'
      OBVIOUS
    <2>1. PICK r \in Reqs : r = stream'[c].r /\ AsUpload(c, r) OBVIOUS
    <2>2. AsUpload(c, r)' BY <1>2, <2>1
    <2> QED BY <2>1, <2>2 DEF AsUpload, Known
  <1>6. incoming'[c] # Idle => AsUpload(c, incoming[c].r)'
    <2> SUFFICES ASSUME incoming'[c] # Idle PROVE AsUpload(c, incoming[c].r)'
      OBVIOUS
    <2>1. PICK r \in Reqs : r = incoming'[c].r /\ AsUpload(c, r) OBVIOUS
    <2>2. AsUpload(c, r)' BY <1>2, <2>1
    <2> QED BY <2>1, <2>2 DEF AsUpload, Known
  <1>7. \A k \in DOMAIN up'[c] : OwnFrame(c, up[c][k])'
    <2> SUFFICES ASSUME NEW k \in DOMAIN up'[c] PROVE OwnFrame(c, up[c][k])'
      OBVIOUS
    <2>1. PICK f \in Frames : f = up'[c][k] /\ OwnFrame(c, f)
      <3>1. CASE \E i \in DOMAIN up[c] : up'[c][k] = up[c][i]
        BY <1>0, <3>1 DEF Own
      <3>2. CASE \E f \in Frames : OwnFrame(c, f) /\ up'[c] = Append(up[c], f)
        <4>1. PICK f \in Frames : OwnFrame(c, f) /\ up'[c] = Append(up[c], f) BY <3>2
        <4>2. k \in DOMAIN up[c] \/ k = Len(up[c]) + 1 BY <1>0, <4>1, Appends
        <4>3. k \in DOMAIN up[c] => up'[c][k] = up[c][k] BY <1>0, <4>1, Appends
        <4>4. k = Len(up[c]) + 1 => up'[c][k] = f BY <1>0, <4>1, Appends
        <4> QED BY <1>0, <4>1, <4>2, <4>3, <4>4 DEF Own
      <3> QED BY <1>0, <3>1, <3>2, Kept
    <2>2. f.r \in Reqs BY DEF Frames
    <2>3. Known(c, f.r) /\ (f.t # "op" => f.r.kind = "upload") BY <2>1 DEF OwnFrame
    <2>4. PICK r \in Reqs : r = f.r BY <2>2
    <2>5. Known(c, r)' BY <1>1, <2>3, <2>4
    <2> QED BY <2>1, <2>3, <2>4, <2>5 DEF OwnFrame, Known
  <1>8. \A k \in DOMAIN down'[c] : OwnAnswer(c, down[c][k])'
    <2> SUFFICES ASSUME NEW k \in DOMAIN down'[c] PROVE OwnAnswer(c, down[c][k])'
      OBVIOUS
    <2>1. PICK m \in Answers : m = down'[c][k] /\ OwnAnswer(c, m)
      <3>1. CASE \E i \in DOMAIN down[c] : down'[c][k] = down[c][i] BY <1>0, <3>1 DEF Own
      <3>2. CASE \E m \in Answers : OwnAnswer(c, m) /\ down'[c] = Append(down[c], m)
        <4>1. PICK m \in Answers : OwnAnswer(c, m) /\ down'[c] = Append(down[c], m)
          BY <3>2
        <4>2. k \in DOMAIN down[c] \/ k = Len(down[c]) + 1 BY <1>0, <4>1, Appends
        <4>3. k \in DOMAIN down[c] => down'[c][k] = down[c][k] BY <1>0, <4>1, Appends
        <4>4. k = Len(down[c]) + 1 => down'[c][k] = m BY <1>0, <4>1, Appends
        <4> QED BY <1>0, <4>1, <4>2, <4>3, <4>4 DEF Own
      <3> QED BY <1>0, <3>1, <3>2, Kept
    <2>2. m.t = "upload" => m.r \in Reqs /\ AsUpload(c, m.r)
      BY <2>1 DEF OwnAnswer, AsUpload, Known
    <2>3. ASSUME m.t = "upload" PROVE AsUpload(c, down[c][k].r)'
      <3>1. PICK r \in Reqs : r = m.r BY <2>2, <2>3
      <3>2. AsUpload(c, r)' BY <1>2, <2>2, <2>3, <3>1
      <3> QED BY <2>1, <3>1, <3>2 DEF AsUpload, Known
    <2> QED BY <2>1, <2>3 DEF OwnAnswer
  <1> QED BY <1>3, <1>4, <1>5, <1>6, <1>7, <1>8 DEF Own

\* Numbers are spent only by the making of a request, which is pending then.
LEMMA CountsNext ==
  ASSUME Types, [Next]_vars, NEW c \in Conns
  PROVE  Counts(c)
  <1> USE DEF Counts, client, loop, tasks, slot, world
  <1>0. nextId \in [Conns -> Nat \ {0}] /\ pend \in [Conns -> SUBSET Reqs]
    BY DEF Types, ClientType
  <1>1. ASSUME NEW d \in Conns, MakeRequest(d) PROVE Counts(c)
    <2>1. Linked(d) /\ Wanted(d) BY <1>1 DEF MakeRequest, Upload, SendOp
    <2>2. Request(d).id = nextId[d] BY <2>1, NewRequest
    <2>3. /\ nextId' = [nextId EXCEPT ![d] = @ + 1] /\ version' = version
          /\ pend' = pend \/ pend' = [pend EXCEPT ![d] = @ \cup {Request(d)}]
      BY <1>1 DEF MakeRequest, Upload, SendOp, Number
    <2>4. \A p \in pend'[c] : p \in pend[c] \/ (c = d /\ p = Request(d))
      BY <1>0, <2>3
    <2> HIDE DEF Counts
    <2>5. nextId'[c] = nextId[c] \/ nextId'[c] = nextId[c] + 1
      BY <1>0, <2>3
    <2> QED BY <2>2, <2>3, <2>4, <2>5 DEF Counts
  <1>2. ASSUME NEW d \in Conns, Stream(d) PROVE Counts(c)
    BY <1>2 DEF Stream, StreamStart, StreamNext
  <1>3. ASSUME NEW d \in Conns, Handle(d) PROVE Counts(c)
    BY <1>3 DEF Handle, UploadStart, UploadChunk, UploadFinish, DispatchOp
  <1>4. ASSUME NEW d \in Conns, Receive(d) PROVE Counts(c)
    BY <1>0, <1>4 DEF Receive, IgnoreAnswer, ApplyUpload, ApplyOp, SeeExit
  <1>5. CASE GitEnds BY <1>5 DEF GitEnds, OpReply
  <1>6. CASE GhWorker BY <1>6 DEF GhWorker, GhRecv, GhDrain, GhLookup, GhReply
  <1>7. ASSUME NEW d \in Conns, Attach(d) \/ Cancelled(d) \/ Disconnect(d) PROVE Counts(c)
    BY <1>0, <1>7 DEF Attach, Cancelled, Disconnect, End
  <1>8. CASE SessionExit \/ Upstream \/ UNCHANGED vars
    BY <1>8 DEF SessionExit, Upstream, vars
  <1> QED BY <1>1, <1>2, <1>3, <1>4, <1>5, <1>6, <1>7, <1>8 DEF Next

\* A new request is known to its connection, and so is what was known before.
LEMMA OwnNew ==
  ASSUME Types, Types', NEW c \in Conns, Own(c), Counts(c), MakeRequest(c)
  PROVE  Own(c)'
  <1> USE DEF client, loop, tasks, slot, world
  <1>0. queue[c] \in Seq(Reqs) /\ up[c] \in Seq(Frames) /\ pend[c] \subseteq Reqs
        /\ nextId[c] \in Nat /\ queue'[c] \in Seq(Reqs) /\ up'[c] \in Seq(Frames)
    BY DEF Types, ClientType, WorldType
  <1>r. PICK r \in Reqs : r = Request(c)
    BY NewRequest DEF MakeRequest, Upload, SendOp
  <1>1. r.c = c /\ r.id = nextId[c] /\ r.at <= version
    BY <1>r, NewRequest DEF MakeRequest, Upload, SendOp
  <1>2. nextId'[c] = nextId[c] + 1 /\ version' = version
    BY DEF MakeRequest, Upload, SendOp, Number, Types, ClientType
  <1>3. ASSUME NEW q \in Reqs, Known(c, q) PROVE Known(c, q)' BY <1>3, KnownStays
  <1>4. \A p \in pend'[c] : p \in pend[c] \/ p = r
    BY <1>r DEF MakeRequest, Upload, SendOp, Types, ClientType
  <1>5. Known(c, r)'
    <2>1. \A p \in pend[c] : p.id # r.id
      <3>1. \A p \in pend[c] : p.id < nextId[c] /\ p.id \in Nat BY <1>0 DEF Own, Known, Reqs
      <3> QED BY <1>0, <1>1, <3>1
    <2>2. r.id < nextId'[c]
      <3>1. r.id < nextId[c] + 1 BY <1>0, <1>1
      <3> QED BY <1>2, <3>1
    <2> QED BY <1>1, <1>2, <1>4, <2>1, <2>2 DEF Known
  <1>6. \A p \in pend'[c] : Known(c, p)' BY <1>0, <1>3, <1>4, <1>5 DEF Own
  <1>7. \A k \in DOMAIN queue'[c] : AsUpload(c, queue[c][k])'
    <2> SUFFICES ASSUME NEW k \in DOMAIN queue'[c] PROVE AsUpload(c, queue[c][k])'
      OBVIOUS
    <2>1. PICK q \in Reqs : q = queue'[c][k] BY <1>0
    <2>2. \/ \E i \in DOMAIN queue[c] : q = queue[c][i]
          \/ r.kind = "upload" /\ q = r
      <3>1. \/ queue'[c] = queue[c]
            \/ r.kind = "upload" /\ queue'[c] = Append(queue[c], r)
        BY <1>r DEF MakeRequest, Upload, SendOp, Types, ClientType
      <3>2. CASE queue'[c] = queue[c] BY <2>1, <3>2
      <3>3. CASE r.kind = "upload" /\ queue'[c] = Append(queue[c], r)
        BY <1>0, <1>1, <2>1, <3>3, Appends
      <3> QED BY <3>1, <3>2, <3>3
    <2>3. Known(c, q)' /\ q.kind = "upload"
      BY <1>3, <1>5, <2>2 DEF Own, AsUpload
    <2> QED BY <2>1, <2>3 DEF AsUpload, Known
  <1>8. \A k \in DOMAIN up'[c] : OwnFrame(c, up[c][k])'
    <2> SUFFICES ASSUME NEW k \in DOMAIN up'[c] PROVE OwnFrame(c, up[c][k])'
      OBVIOUS
    <2>1. PICK f \in Frames : f = up'[c][k] BY <1>0
    <2>2. \/ \E i \in DOMAIN up[c] : f = up[c][i]
          \/ f.t = "op" /\ f.r = r
      <3>1. up'[c] = up[c] \/ up'[c] = Append(up[c], Frame("op", r, 0))
        BY <1>r DEF MakeRequest, Upload, SendOp, Send, Types, WorldType
      <3>2. CASE up'[c] = up[c] BY <2>1, <3>2
      <3>3. CASE up'[c] = Append(up[c], Frame("op", r, 0))
        <4>1. Frame("op", r, 0) \in Frames BY <1>1, Records
        <4>2. (\E i \in DOMAIN up[c] : f = up[c][i]) \/ f = Frame("op", r, 0)
          BY <1>0, <2>1, <3>3, <4>1, Appends
        <4> QED BY <4>2 DEF Frame
      <3> QED BY <3>1, <3>2, <3>3
    <2>3. f.r \in Reqs BY DEF Frames
    <2>4. PICK q \in Reqs : q = f.r BY <2>3
    <2>5. Known(c, q)' /\ (f.t # "op" => q.kind = "upload")
      BY <1>3, <1>5, <2>2, <2>4 DEF Own, OwnFrame
    <2> QED BY <2>1, <2>4, <2>5 DEF OwnFrame, Known
  <1>9. stream'[c] = stream[c] /\ incoming'[c] = incoming[c] /\ down'[c] = down[c]
    BY DEF MakeRequest, Upload, SendOp
  <1>10. \A q \in Reqs : AsUpload(c, q) => AsUpload(c, q)' BY <1>3 DEF AsUpload
  <1>11. stream'[c] # Idle => AsUpload(c, stream[c].r)'
    <2> SUFFICES ASSUME stream'[c] # Idle PROVE AsUpload(c, stream[c].r)'
      OBVIOUS
    <2>1. PICK q \in Reqs : q = stream[c].r BY <1>9 DEF Own, AsUpload, Known
    <2>2. AsUpload(c, q)' BY <1>9, <1>10, <2>1 DEF Own
    <2> QED BY <1>9, <2>1, <2>2 DEF AsUpload, Known
  <1>12. incoming'[c] # Idle => AsUpload(c, incoming[c].r)'
    <2> SUFFICES ASSUME incoming'[c] # Idle PROVE AsUpload(c, incoming[c].r)'
      OBVIOUS
    <2>1. PICK q \in Reqs : q = incoming[c].r BY <1>9 DEF Own, AsUpload, Known
    <2>2. AsUpload(c, q)' BY <1>9, <1>10, <2>1 DEF Own
    <2> QED BY <1>9, <2>1, <2>2 DEF AsUpload, Known
  <1>13. \A k \in DOMAIN down'[c] : OwnAnswer(c, down[c][k])'
    <2> SUFFICES ASSUME NEW k \in DOMAIN down'[c], down'[c][k].t = "upload"
                 PROVE  AsUpload(c, down[c][k].r)'
      BY DEF OwnAnswer
    <2>1. PICK q \in Reqs : q = down[c][k].r BY <1>9 DEF Own, OwnAnswer, AsUpload, Known
    <2>2. AsUpload(c, q)' BY <1>9, <1>10, <2>1 DEF Own, OwnAnswer
    <2> QED BY <1>9, <2>1, <2>2 DEF AsUpload, Known
  <1> QED BY <1>6, <1>7, <1>8, <1>11, <1>12, <1>13 DEF Own

\* What is left alone is kept, and what an operation or an exit appends says nothing
\* of uploads.
LEMMA Untouched ==
  ASSUME Types, NEW c \in Conns, Own(c),
         pend'[c] = pend[c], queue'[c] = queue[c], stream'[c] = stream[c], up'[c] = up[c],
         incoming'[c] = incoming[c],
         \/ Shrinks(down[c], down'[c])
         \/ \E m \in Answers : m.t # "upload" /\ down'[c] = Append(down[c], m)
  PROVE  Forwards(c)
  <1>1. stream[c] # Idle => stream[c].r \in Reqs /\ AsUpload(c, stream[c].r)
    BY DEF Own, AsUpload, Known
  <1>2. incoming[c] # Idle => incoming[c].r \in Reqs /\ AsUpload(c, incoming[c].r)
    BY DEF Own, AsUpload, Known
  <1>3. \A m \in Answers : m.t # "upload" => OwnAnswer(c, m) BY DEF OwnAnswer
  <1> QED BY <1>1, <1>2, <1>3 DEF Forwards, Shrinks

\* The client's tasks and the loop forward what they hold.
LEMMA Forwarding ==
  ASSUME Types, NEW c \in Conns, Own(c), NEW d \in Conns, Stream(d) \/ Handle(d) \/ Receive(d)
  PROVE  Forwards(c)
  <1> USE DEF client, loop, tasks, slot, world
  <1>0. /\ queue[c] \in Seq(Reqs) /\ up[c] \in Seq(Frames) /\ down[c] \in Seq(Answers)
        /\ pend \in [Conns -> SUBSET Reqs] /\ queue \in [Conns -> Seq(Reqs)]
        /\ up \in [Conns -> Seq(Frames)] /\ down \in [Conns -> Seq(Answers)]
        /\ stream \in [Conns -> Uploads \cup {Idle}] /\ incoming \in [Conns -> Uploads \cup {Idle}]
    BY DEF Types, ClientType, WorldType, SupervisorType
  <1>1. /\ stream[c] # Idle => stream[c].r \in Reqs /\ AsUpload(c, stream[c].r)
        /\ incoming[c] # Idle => incoming[c].r \in Reqs /\ AsUpload(c, incoming[c].r)
    BY DEF Own, AsUpload, Known
  <1>2. CASE c # d
    <2>1. CASE Stream(d)
      <3>1. up'[c] = up[c] BY <1>0, <1>2, <2>1 DEF Stream, StreamStart, StreamNext, Send
      <3>2. /\ pend'[c] = pend[c] /\ queue'[c] = queue[c] /\ stream'[c] = stream[c]
            /\ incoming'[c] = incoming[c] /\ down'[c] = down[c]
        BY <1>0, <1>2, <2>1 DEF Stream, StreamStart, StreamNext
      <3> QED BY <3>1, <3>2, Untouched DEF Shrinks
    <2>2. CASE Handle(d)
      <3>1. down'[c] = down[c]
        BY <1>0, <1>2, <2>2
        DEF Handle, UploadStart, UploadChunk, UploadFinish, DispatchOp, UploadResult, Reply
      <3>2. /\ pend'[c] = pend[c] /\ queue'[c] = queue[c] /\ stream'[c] = stream[c]
            /\ up'[c] = up[c] /\ incoming'[c] = incoming[c]
        BY <1>0, <1>2, <2>2
        DEF Handle, UploadStart, UploadChunk, UploadFinish, DispatchOp, TakeFrame
      <3> QED BY <3>1, <3>2, Untouched DEF Shrinks
    <2>3. CASE Receive(d)
      <3>1. /\ pend'[c] = pend[c] /\ queue'[c] = queue[c] /\ stream'[c] = stream[c]
            /\ up'[c] = up[c] /\ incoming'[c] = incoming[c] /\ down'[c] = down[c]
        BY <1>0, <1>2, <2>3
        DEF Receive, IgnoreAnswer, ApplyUpload, ApplyOp, SeeExit, TakeAnswer
      <3> QED BY <3>1, Untouched DEF Shrinks
    <2> QED BY <2>1, <2>2, <2>3
  <1>3. CASE c = d /\ Stream(d)
    <2>1. /\ pend'[c] = pend[c] /\ incoming'[c] = incoming[c] /\ down'[c] = down[c]
      BY <1>0, <1>3 DEF Stream, StreamStart, StreamNext
    <2>2. CASE StreamStart(c)
      <3>1. queue[c] # <<>> /\ Head(queue[c]) \in Reqs /\ AsUpload(c, Head(queue[c]))
        BY <1>0, <2>2, Tails DEF StreamStart, Own
      <3>2. /\ queue'[c] = Tail(queue[c]) /\ stream'[c] = [r |-> Head(queue[c]), n |-> 0]
            /\ up'[c] = Append(up[c], Frame("start", Head(queue[c]), 0))
        BY <1>0, <2>2 DEF StreamStart, Send
      <3>3. /\ Frame("start", Head(queue[c]), 0) \in Frames
            /\ OwnFrame(c, Frame("start", Head(queue[c]), 0))
        BY <3>1, Records DEF OwnFrame, Frame, AsUpload
      <3> QED BY <1>1, <2>1, <3>1, <3>2, <3>3 DEF Forwards, Shrinks, Own
    <2>3. CASE StreamNext(c)
      <3>1. stream[c] # Idle /\ queue'[c] = queue[c] BY <2>3 DEF StreamNext
      <3>2. stream'[c] = Idle \/ stream'[c].r = stream[c].r
        BY <1>0, <2>3 DEF StreamNext, Uploads
      <3>3. PICK f \in Frames : OwnFrame(c, f) /\ up'[c] = Append(up[c], f)
        <4>1. stream[c].n \in Nat BY <1>0, <3>1 DEF Uploads
        <4>2. /\ Frame("chunk", stream[c].r, stream[c].n) \in Frames
              /\ OwnFrame(c, Frame("chunk", stream[c].r, stream[c].n))
              /\ Frame("finish", stream[c].r, 0) \in Frames
              /\ OwnFrame(c, Frame("finish", stream[c].r, 0))
          BY <1>1, <3>1, <4>1, Records DEF OwnFrame, Frame, AsUpload
        <4> QED BY <1>0, <2>3, <4>2 DEF StreamNext, Send
      <3> QED BY <1>1, <2>1, <3>1, <3>2, <3>3 DEF Forwards, Shrinks
    <2> QED BY <1>3, <2>2, <2>3 DEF Stream
  <1>4. CASE c = d /\ Handle(d)
    <2>1. up[c] # <<>> /\ up'[c] = Tail(up[c])
      BY <1>0, <1>4
      DEF Handle, UploadStart, UploadChunk, UploadFinish, DispatchOp, FrameIs, TakeFrame
    <2>2. /\ pend'[c] = pend[c] /\ queue'[c] = queue[c] /\ stream'[c] = stream[c]
      BY <1>4 DEF Handle, UploadStart, UploadChunk, UploadFinish, DispatchOp
    <2>3. Head(up[c]).r \in Reqs /\ OwnFrame(c, Head(up[c]))
      <3>1. 1 \in DOMAIN up[c] /\ Head(up[c]) = up[c][1] /\ Head(up[c]) \in Frames
        BY <1>0, <2>1, Tails
      <3> QED BY <3>1 DEF Own, Frames
    <2>4. CASE DispatchOp(c)
      <3>1. incoming'[c] = incoming[c] /\ down'[c] = down[c] BY <2>4 DEF DispatchOp
      <3> QED BY <1>1, <2>1, <2>2, <3>1 DEF Forwards, Shrinks
    <2>5. CASE UploadStart(c) \/ UploadChunk(c) \/ UploadFinish(c)
      <3> DEFINE r == Head(up[c]).r
      <3>1. AsUpload(c, r)
        BY <2>3, <2>5
        DEF UploadStart, UploadChunk, UploadFinish, FrameIs, OwnFrame, AsUpload
      <3>2. /\ Answer("upload", r, TRUE, <<>>) \in Answers
            /\ Answer("upload", r, FALSE, <<>>) \in Answers
            /\ OwnAnswer(c, Answer("upload", r, TRUE, <<>>))
            /\ OwnAnswer(c, Answer("upload", r, FALSE, <<>>))
        BY <2>3, <3>1, Records DEF OwnAnswer, Answer
      <3>3. \/ Shrinks(down[c], down'[c])
            \/ \E m \in Answers : OwnAnswer(c, m) /\ down'[c] = Append(down[c], m)
        <4>1. down' = down \/ UploadResult(c, r, FALSE) \/ UploadResult(c, r, TRUE)
          BY <2>5 DEF UploadStart, UploadChunk, UploadFinish
        <4> HIDE DEF r
        <4> QED BY <1>0, <3>2, <4>1, Replies DEF Shrinks, UploadResult
      <3>4. \/ incoming'[c] = Idle
            \/ incoming'[c].r \in Reqs /\ AsUpload(c, incoming'[c].r)
        <4>1. \/ incoming'[c] = incoming[c] \/ incoming'[c] = Idle
              \/ incoming'[c] = [r |-> r, n |-> 0]
              \/ incoming[c].r.id = r.id /\ incoming'[c] = [incoming[c] EXCEPT !.n = @ + 1]
          BY <1>0, <2>5 DEF UploadStart, UploadChunk, UploadFinish
        <4>2. r.id # 0 /\ Idle.r.id = 0 BY <2>3, Records DEF Reqs
        <4>3. incoming[c] # Idle => [incoming[c] EXCEPT !.n = @ + 1].r = incoming[c].r
          BY <1>0 DEF Uploads
        <4>4. r \in Reqs BY <2>3
        <4> HIDE DEF r
        <4>5. CASE incoming'[c] = incoming[c] BY <1>1, <4>5
        <4>6. CASE incoming'[c] = [r |-> r, n |-> 0] BY <3>1, <4>4, <4>6
        <4>7. CASE incoming[c].r.id = r.id /\ incoming'[c] = [incoming[c] EXCEPT !.n = @ + 1]
          <5>1. incoming[c] # Idle BY <4>2, <4>7
          <5>2. incoming'[c].r = incoming[c].r BY <4>3, <4>7, <5>1
          <5> QED BY <1>1, <5>1, <5>2
        <4> QED BY <4>1, <4>5, <4>6, <4>7
      <3> QED BY <1>1, <2>1, <2>2, <3>3, <3>4 DEF Forwards, Shrinks
    <2> QED BY <1>4, <2>4, <2>5 DEF Handle
  <1>5. CASE c = d /\ Receive(d)
    <2>1. down[c] # <<>> /\ down'[c] = Tail(down[c])
      BY <1>0, <1>5
      DEF Receive, IgnoreAnswer, ApplyUpload, ApplyOp, SeeExit, AnswerIs, TakeAnswer
    <2>2. /\ queue'[c] = queue[c] /\ stream'[c] = stream[c] /\ up'[c] = up[c]
          /\ incoming'[c] = incoming[c]
      BY <1>5 DEF Receive, IgnoreAnswer, ApplyUpload, ApplyOp, SeeExit
    <2>3. pend'[c] \subseteq pend[c]
      BY <1>0, <1>5 DEF Receive, IgnoreAnswer, ApplyUpload, ApplyOp, SeeExit
    <2> QED BY <1>1, <2>1, <2>2, <2>3 DEF Forwards, Shrinks
  <1> QED BY <1>2, <1>3, <1>4, <1>5

\* Every step keeps each connection's requests its own.
LEMMA OwnRequestsNext ==
  ASSUME Types, OwnRequests, [Next]_vars
  PROVE  OwnRequests'
  <1> USE DEF client, loop, tasks, slot, world
  <1> SUFFICES ASSUME NEW c \in Conns PROVE Own(c)'
    BY DEF OwnRequests
  <1>0. /\ queue[c] \in Seq(Reqs) /\ up[c] \in Seq(Frames) /\ down[c] \in Seq(Answers)
        /\ down \in [Conns -> Seq(Answers)] /\ pend \in [Conns -> SUBSET Reqs]
        /\ queue \in [Conns -> Seq(Reqs)] /\ up \in [Conns -> Seq(Frames)]
        /\ stream \in [Conns -> Uploads \cup {Idle}] /\ incoming \in [Conns -> Uploads \cup {Idle}]
    BY DEF Types, ClientType, WorldType, SupervisorType
  <1>1. Own(c) /\ Counts(c) /\ Types' BY CountsNext, TypesNext DEF OwnRequests
  <1>2. ASSUME Forwards(c) PROVE Own(c)' BY <1>1, <1>2, OwnStep
  <1>3. ASSUME NEW d \in Conns, MakeRequest(d) PROVE Own(c)'
    <2>1. CASE c = d BY <1>1, <1>3, <2>1, OwnNew
    <2>2. CASE c # d
      <3>1. /\ pend'[c] = pend[c] /\ queue'[c] = queue[c] /\ stream'[c] = stream[c]
            /\ up'[c] = up[c] /\ incoming'[c] = incoming[c] /\ down'[c] = down[c]
        BY <1>0, <1>3, <2>2 DEF MakeRequest, Upload, SendOp, Send
      <3> QED BY <1>1, <1>2, <3>1, Untouched DEF Shrinks
    <2> QED BY <2>1, <2>2
  <1>4. ASSUME NEW d \in Conns, Stream(d) \/ Handle(d) \/ Receive(d) PROVE Own(c)'
    BY <1>1, <1>2, <1>4, Forwarding
  <1>5. ASSUME UNCHANGED <<pend, queue, stream, up, incoming>>,
               \/ Shrinks(down[c], down'[c])
               \/ \E m \in Answers : m.t # "upload" /\ down'[c] = Append(down[c], m)
        PROVE  Own(c)'
    BY <1>1, <1>2, <1>5, Untouched
  <1>6. CASE GitEnds
    <2>1. PICK job \in ops, ok \in BOOLEAN : OpReply(job, ok) BY <1>6 DEF GitEnds
    <2>2. PICK m \in Answers : m.t = "op" /\ Reply(job.chan, <<m>>)
      <3>1. job.r \in Reqs BY DEF Types, SupervisorType, Jobs
      <3>2. Answer("op", job.r, ok, <<>>) \in Answers BY <3>1, Records
      <3> QED BY <2>1, <3>2 DEF OpReply, Answer
    <2>3. down'[c] = down[c] \/ down'[c] = Append(down[c], m) BY <1>0, <2>2, Replies
    <2>4. UNCHANGED <<pend, queue, stream, up, incoming>> BY <2>1 DEF OpReply
    <2> QED BY <1>5, <2>2, <2>3, <2>4 DEF Shrinks
  <1>7. CASE GhWorker
    <2>1. UNCHANGED <<pend, queue, stream, up, incoming>>
      BY <1>7 DEF GhWorker, GhRecv, GhDrain, GhLookup, GhReply
    <2>2. down' = down \/ \E j \in Jobs : Reply(j.chan, <<GhAnswer(j.r)>>)
      <3>1. GhReply => \E j \in Jobs : Reply(j.chan, <<GhAnswer(j.r)>>) BY Acknowledged
      <3> QED BY <1>7, <3>1 DEF GhWorker, GhRecv, GhDrain, GhLookup
    <2>3. CASE down' = down BY <1>5, <2>1, <2>3 DEF Shrinks
    <2>4. ASSUME NEW j \in Jobs, Reply(j.chan, <<GhAnswer(j.r)>>) PROVE Own(c)'
      <3>1. GhAnswer(j.r) \in Answers /\ GhAnswer(j.r).t = "op" BY Acknowledged DEF GhAnswer, Answer
      <3>2. PICK m \in Answers : m = GhAnswer(j.r) /\ m.t = "op" BY <3>1
      <3>3. down'[c] = down[c] \/ down'[c] = Append(down[c], m)
        BY <1>0, <2>4, <3>2, Replies
      <3> QED BY <1>5, <2>1, <3>2, <3>3 DEF Shrinks
    <2> QED BY <2>2, <2>3, <2>4
  <1>8. ASSUME NEW d \in Conns, Attach(d) \/ Cancelled(d) \/ Disconnect(d) PROVE Own(c)'
    <2>1. CASE Attach(d) BY <1>5, <2>1 DEF Attach, Shrinks
    <2>2. CASE Cancelled(d) \/ Disconnect(d)
      <3>1. End(d) BY <2>2 DEF Cancelled, Disconnect
      <3>2. CASE c = d
        <4>1. /\ pend'[c] = {} /\ queue'[c] = <<>> /\ stream'[c] = Idle /\ up'[c] = <<>>
              /\ incoming'[c] = Idle /\ down'[c] = <<>>
          BY <1>0, <3>1, <3>2 DEF End
        <4> QED BY <1>2, <4>1 DEF Forwards, Shrinks
      <3>3. CASE c # d
        <4>1. /\ pend'[c] = pend[c] /\ queue'[c] = queue[c] /\ stream'[c] = stream[c]
              /\ up'[c] = up[c] /\ incoming'[c] = incoming[c] /\ down'[c] = down[c]
          BY <1>0, <3>1, <3>3 DEF End
        <4> QED BY <1>1, <1>2, <4>1, Untouched DEF Shrinks
      <3> QED BY <3>2, <3>3
    <2> QED BY <1>8, <2>1, <2>2
  <1>9. CASE SessionExit
    <2>1. PICK m \in Answers : m.t = "exited" /\ Reply(active, <<m>>)
      <3>1. Answer("exited", NoRequest, TRUE, <<>>) \in Answers BY Records
      <3> QED BY <1>9, <3>1 DEF SessionExit, Answer
    <2>2. down'[c] = down[c] \/ down'[c] = Append(down[c], m) BY <1>0, <2>1, Replies
    <2>3. UNCHANGED <<pend, queue, stream, up, incoming>> BY <1>9 DEF SessionExit
    <2> QED BY <1>5, <2>1, <2>2, <2>3 DEF Shrinks
  <1>10. CASE Upstream \/ UNCHANGED vars
    BY <1>5, <1>10 DEF Upstream, vars, Shrinks
  <1> QED BY <1>3, <1>4, <1>6, <1>7, <1>8, <1>9, <1>10 DEF Next

\* The jobs in the worker's hands.
Held(j) ==
  \/ gh.pc # "recv" /\ j = gh.job
  \/ \E k \in DOMAIN gh.superseded : j = gh.superseded[k]
  \/ gh.hand # NoJob /\ j = gh.hand
Queued(j) == \E k \in DOMAIN ghq : j = ghq[k]

\* Every job the worker has after a step it had before, or was dispatched by it.
LEMMA JobsMove ==
  ASSUME Types, GhWorker
  PROVE  \A j \in Jobs : /\ Held(j)' => Held(j) \/ Queued(j)
                         /\ Queued(j)' => Queued(j)
  <1> SUFFICES ASSUME NEW j \in Jobs
               PROVE  /\ Held(j)' => Held(j) \/ Queued(j)
                      /\ Queued(j)' => Queued(j)
    OBVIOUS
  <1>0. ghq \in Seq(Jobs) /\ gh \in GhStates /\ gh.superseded \in Seq(Jobs)
    BY DEF Types, SupervisorType, GhStates
  <1>1. ghq # <<>> => /\ Queued(Head(ghq))
                      /\ \A k \in DOMAIN Tail(ghq) : \E i \in DOMAIN ghq : Tail(ghq)[k] = ghq[i]
    BY <1>0, Tails DEF Queued
  <1>2. ghq' = ghq \/ (ghq # <<>> /\ ghq' = Tail(ghq))
    BY DEF GhWorker, GhRecv, GhDrain, GhLookup, GhReply
  <1>3. Queued(j)' => Queued(j) BY <1>1, <1>2 DEF Queued
  <1>4. IdleGh.superseded = <<>> /\ IdleGh.hand = NoJob /\ IdleGh.pc = "recv"
    BY DEF IdleGh
  <1>5. DOMAIN <<>> = {} OBVIOUS
  <1>6. Held(j)' => Held(j) \/ Queued(j)
    <2>1. CASE GhRecv
      <3>1. /\ ghq # <<>> /\ gh'.job = Head(ghq) /\ gh'.superseded = <<>> /\ gh'.hand = NoJob
        BY <2>1 DEF GhRecv, IdleGh
      <3> QED BY <1>1, <1>5, <3>1 DEF Held
    <2>2. CASE GhDrain
      <3>0. gh.pc = "drain" /\ gh.job \in Jobs BY <2>2 DEF GhDrain, Types, SupervisorType
      <3>1. CASE ghq # <<>>
                 /\ gh' = [gh EXCEPT !.superseded = Append(@, gh.job), !.job = Head(ghq)]
        <4>1. /\ gh'.job = Head(ghq) /\ gh'.superseded = Append(gh.superseded, gh.job)
              /\ gh'.hand = gh.hand
          BY <1>0, <3>1 DEF GhStates
        <4>2. \A k \in DOMAIN gh'.superseded :
                gh'.superseded[k] = gh.job
                \/ \E i \in DOMAIN gh.superseded : gh'.superseded[k] = gh.superseded[i]
          BY <1>0, <3>0, <4>1, Appends
        <4> QED BY <1>1, <3>0, <3>1, <4>1, <4>2 DEF Held
      <3>2. CASE ghq # <<>> /\ gh' = StartFetch(Head(ghq))
        <4>1. /\ gh'.job = gh.job /\ gh'.superseded = gh.superseded /\ gh'.hand = Head(ghq)
          BY <1>0, <3>2 DEF StartFetch, GhStates
        <4> QED BY <1>1, <3>0, <3>2, <4>1 DEF Held
      <3>3. CASE gh' = StartFetch(NoJob)
        <4>1. /\ gh'.job = gh.job /\ gh'.superseded = gh.superseded /\ gh'.hand = NoJob
          BY <1>0, <3>3 DEF StartFetch, GhStates
        <4> QED BY <3>0, <4>1 DEF Held
      <3> QED BY <2>2, <3>1, <3>2, <3>3 DEF GhDrain
    <2>3. ASSUME NEW row \in Rows, GhLookup(row) PROVE Held(j)' => Held(j)
      <3>1. /\ gh'.job = gh.job /\ gh'.superseded = gh.superseded /\ gh'.hand = gh.hand
            /\ gh'.pc = gh.pc
        BY <1>0, <2>3 DEF GhLookup, GhStates
      <3> QED BY <3>1 DEF Held
    <2>4. CASE GhReply
      <3>1. CASE gh.superseded # <<>> /\ gh' = [gh EXCEPT !.superseded = Tail(@)]
        <4>1. /\ gh'.job = gh.job /\ gh'.superseded = Tail(gh.superseded) /\ gh'.hand = gh.hand
              /\ gh'.pc = gh.pc
          BY <1>0, <3>1 DEF GhStates
        <4>2. \A k \in DOMAIN Tail(gh.superseded) : \E i \in DOMAIN gh.superseded :
                Tail(gh.superseded)[k] = gh.superseded[i]
          BY <1>0, <3>1, Tails
        <4> QED BY <4>1, <4>2 DEF Held
      <3>2. CASE gh' = GhNext
        <4>1. CASE gh.hand = NoJob
          BY <1>4, <1>5, <3>2, <4>1 DEF GhNext, Held
        <4>2. CASE gh.hand # NoJob
          <5>1. /\ gh'.job = gh.hand /\ gh'.superseded = <<>> /\ gh'.hand = NoJob
            BY <3>2, <4>2 DEF GhNext, IdleGh
          <5> QED BY <1>5, <4>2, <5>1 DEF Held
        <4> QED BY <4>1, <4>2
      <3> QED BY <2>4, <3>1, <3>2 DEF GhReply
    <2> QED BY <2>1, <2>2, <2>3, <2>4 DEF GhWorker
  <1> QED BY <1>3, <1>6

OwnHeld == \A j \in Jobs : j \in ops \/ Held(j) \/ Queued(j) => OwnJob(j)
OwnOps == \A c \in Conns : \A k \in DOMAIN down[c] : OwnOp(c, down[c][k])

\* OwnJobs, place by place.
LEMMA JobPlaces == Types => (OwnJobs <=> OwnHeld /\ OwnOps)
  <1> SUFFICES ASSUME Types PROVE OwnJobs <=> OwnHeld /\ OwnOps
    OBVIOUS
  <1>1. /\ ops \subseteq Jobs /\ ghq \in Seq(Jobs) /\ gh.superseded \in Seq(Jobs)
        /\ gh.pc # "recv" => gh.job \in Jobs
        /\ gh.hand # NoJob => gh.hand \in Jobs
    BY DEF Types, SupervisorType, GhStates
  <1>2. OwnJobs => OwnHeld BY DEF OwnJobs, OwnHeld, Held, Queued
  <1>3. OwnHeld => /\ \A j \in ops : OwnJob(j)
                   /\ gh.pc # "recv" => OwnJob(gh.job)
                   /\ gh.hand # NoJob => OwnJob(gh.hand)
    BY <1>1 DEF OwnHeld, Held
  <1>4. OwnHeld => /\ \A k \in DOMAIN ghq : OwnJob(ghq[k])
                   /\ \A k \in DOMAIN gh.superseded : OwnJob(gh.superseded[k])
    BY <1>1 DEF OwnHeld, Held, Queued
  <1> QED BY <1>2, <1>3, <1>4 DEF OwnJobs, OwnOps

\* What holds of a job, or of an answer under way, holds on.
LEMMA JobsStay ==
  ASSUME Types, [Next]_vars
  PROVE  /\ \A j \in Jobs : OwnJob(j) => OwnJob(j)'
         /\ \A c \in Conns, m \in Answers : OwnOp(c, m) => OwnOp(c, m)'
  <1>0. late => late'
    BY DEF Next, MakeRequest, Upload, SendOp, Stream, StreamStart, StreamNext, Handle,
           UploadStart, UploadChunk, UploadFinish, DispatchOp, Receive, IgnoreAnswer,
           ApplyUpload, ApplyOp, SeeExit, GitEnds, OpReply, GhWorker, GhRecv, GhDrain,
           GhLookup, GhReply, Attach, Cancelled, Disconnect, End, SessionExit, Upstream,
           vars, loop
  <1>1. \A c \in Conns : \A r \in Reqs : Known(c, r) => Known(c, r)'
    BY CountsNext, KnownStays
  <1>2. ASSUME NEW j \in Jobs, OwnJob(j) PROVE OwnJob(j)'
    <2>1. j.chan \in Conns /\ j.r \in Reqs BY DEF Jobs
    <2>2. j.r.at <= version'
      <3>1. version' = version \/ version' = version + 1
        BY <2>1, CountsNext DEF Counts
      <3>2. j.r.at \in Nat /\ version \in Nat BY <2>1 DEF Reqs, Types, WorldType
      <3>3. j.r.at <= version /\ j.r.at <= version + 1 BY <1>2, <3>2 DEF OwnJob
      <3> QED BY <3>1, <3>3
    <2>3. PICK c \in Conns, r \in Reqs : c = j.chan /\ r = j.r BY <2>1
    <2>4. late' \/ Known(c, r)' BY <1>0, <1>1, <1>2, <2>3 DEF OwnJob
    <2> QED BY <2>2, <2>3, <2>4 DEF OwnJob
  <1>3. ASSUME NEW c \in Conns, NEW m \in Answers, OwnOp(c, m) PROVE OwnOp(c, m)'
    <2> SUFFICES ASSUME m.t = "op", ~late' PROVE Known(c, m.r)'
      BY DEF OwnOp
    <2>1. Known(c, m.r) BY <1>0, <1>3 DEF OwnOp
    <2>2. PICK r \in Reqs : r = m.r BY <2>1 DEF Known
    <2>3. Known(c, r)' BY <1>1, <2>1, <2>2
    <2> QED BY <2>2, <2>3
  <1> QED BY <1>2, <1>3

\* What is appended to the answers of a connection: the outcome of an upload or an exit,
\* the reply to a git operation, or the worker's answer to a job.
Brings(c, m) ==
  \/ m.t # "op" /\ m.st = <<>> /\ UNCHANGED <<ops, ghq, gh>>
  \/ \E j \in ops : m.t = "op" /\ m.r = j.r /\ m.st = <<>> /\ c = j.chan /\ GitEnds
  \/ \E j \in Jobs : /\ j = gh.job \/ \E k \in DOMAIN gh.superseded : j = gh.superseded[k]
                     /\ m = GhAnswer(j.r) /\ c = j.chan /\ GhReply

\* The answers of a connection after a step: some of those there were, and what the step
\* brings.
LEMMA AnswersStep ==
  ASSUME Types, [Next]_vars, NEW c \in Conns
  PROVE  \/ Shrinks(down[c], down'[c])
         \/ \E m \in Answers : Brings(c, m) /\ down'[c] = Append(down[c], m)
  <1> USE DEF client, loop, tasks, slot, world
  <1>0. /\ down \in [Conns -> Seq(Answers)] /\ down[c] \in Seq(Answers)
        /\ up \in [Conns -> Seq(Frames)]
    BY DEF Types, WorldType
  <1>1. ASSUME down' = down PROVE Shrinks(down[c], down'[c]) BY <1>1 DEF Shrinks
  <1>2. ASSUME NEW d \in Conns, MakeRequest(d) \/ Stream(d) \/ Attach(d)
        PROVE  Shrinks(down[c], down'[c])
    BY <1>1, <1>2 DEF MakeRequest, Upload, SendOp, Stream, StreamStart, StreamNext, Attach
  <1>3. ASSUME NEW d \in Conns, Handle(d)
        PROVE  \/ Shrinks(down[c], down'[c])
               \/ \E m \in Answers : Brings(c, m) /\ down'[c] = Append(down[c], m)
    <2> DEFINE r == Head(up[d]).r
    <2>1. down' = down \/ UploadResult(d, r, FALSE) \/ UploadResult(d, r, TRUE)
      BY <1>3 DEF Handle, UploadStart, UploadChunk, UploadFinish, DispatchOp
    <2>2. ASSUME NEW ok \in BOOLEAN, UploadResult(d, r, ok)
          PROVE  \/ Shrinks(down[c], down'[c])
                 \/ \E m \in Answers : Brings(c, m) /\ down'[c] = Append(down[c], m)
      <3>1. r \in Reqs
        <4>1. up[d] \in Seq(Frames) /\ up[d] # <<>>
          BY <1>0, <1>3
          DEF Handle, UploadStart, UploadChunk, UploadFinish, DispatchOp, FrameIs
        <4>2. Head(up[d]) \in Frames BY <4>1, Tails
        <4> QED BY <4>2 DEF Frames
      <3> DEFINE m == Answer("upload", r, ok, <<>>)
      <3>2. m \in Answers /\ m.t # "op" /\ m.st = <<>> BY <3>1, Records DEF Answer
      <3>3. DispatchOp(d) => down' = down BY DEF DispatchOp
      <3>4. down' = down \/ UNCHANGED <<ops, ghq, gh>>
        BY <1>3, <3>3 DEF Handle, UploadStart, UploadChunk, UploadFinish
      <3>5. Reply(d, <<m>>) BY <2>2 DEF UploadResult
      <3> HIDE DEF m, r
      <3>6. down'[c] = down[c] \/ down'[c] = Append(down[c], m)
        BY <1>0, <3>2, <3>5, Replies
      <3> QED BY <1>1, <3>2, <3>4, <3>6 DEF Shrinks, Brings
    <2> QED BY <1>1, <2>1, <2>2
  <1>4. ASSUME NEW d \in Conns, Receive(d) PROVE Shrinks(down[c], down'[c])
    BY <1>0, <1>4
    DEF Shrinks, Receive, IgnoreAnswer, ApplyUpload, ApplyOp, SeeExit, AnswerIs, TakeAnswer
  <1>5. CASE GitEnds
    <2>1. PICK j \in ops, ok \in BOOLEAN : OpReply(j, ok) BY <1>5 DEF GitEnds
    <2> DEFINE m == Answer("op", j.r, ok, <<>>)
    <2>0. j.r \in Reqs BY DEF Types, SupervisorType, Jobs
    <2>2. m \in Answers /\ m.t = "op" /\ m.r = j.r /\ m.st = <<>>
      BY <2>0, Records DEF Answer
    <2>3. Reply(j.chan, <<m>>) BY <2>1 DEF OpReply
    <2> HIDE DEF m
    <2>4. down'[c] = down[c] \/ (c = j.chan /\ down'[c] = Append(down[c], m))
      BY <1>0, <2>2, <2>3, Replies
    <2> QED BY <1>5, <2>2, <2>4 DEF Shrinks, Brings
  <1>6. CASE GhWorker
    <2>1. CASE ~GhReply
      <3>1. down' = down BY <1>6, <2>1 DEF GhWorker, GhRecv, GhDrain, GhLookup
      <3> QED BY <1>1, <3>1
    <2>2. CASE GhReply
      <3>1. PICK j \in Jobs :
              /\ j = gh.job \/ \E k \in DOMAIN gh.superseded : j = gh.superseded[k]
              /\ Reply(j.chan, <<GhAnswer(j.r)>>)
        BY <2>2, Acknowledged
      <3>2. PICK m \in Answers : m = GhAnswer(j.r) BY Acknowledged
      <3>3. down'[c] = down[c] \/ (c = j.chan /\ down'[c] = Append(down[c], m))
        BY <1>0, <3>1, <3>2, Replies
      <3> QED BY <2>2, <3>1, <3>2, <3>3 DEF Shrinks, Brings
    <2> QED BY <2>1, <2>2
  <1>7. ASSUME NEW d \in Conns, Cancelled(d) \/ Disconnect(d) PROVE Shrinks(down[c], down'[c])
    BY <1>0, <1>7 DEF Shrinks, Cancelled, Disconnect, End
  <1>8. CASE SessionExit
    <2> DEFINE m == Answer("exited", NoRequest, TRUE, <<>>)
    <2>1. m \in Answers /\ m.t # "op" /\ m.st = <<>> BY Records DEF Answer
    <2>2. Reply(active, <<m>>) /\ UNCHANGED <<ops, ghq, gh>> BY <1>8 DEF SessionExit
    <2> HIDE DEF m
    <2>3. down'[c] = down[c] \/ down'[c] = Append(down[c], m) BY <1>0, <2>1, <2>2, Replies
    <2> QED BY <2>1, <2>2, <2>3 DEF Shrinks, Brings
  <1>9. CASE Upstream \/ UNCHANGED vars BY <1>1, <1>9 DEF Upstream, vars
  <1> QED BY <1>2, <1>3, <1>4, <1>5, <1>6, <1>7, <1>8, <1>9 DEF Next

\* Every step keeps the jobs with the connections that asked for them, unless a
\* displaced loop has dispatched one.
LEMMA OwnJobsNext ==
  ASSUME Types, OwnRequests, OwnJobs, [Next]_vars
  PROVE  OwnJobs'
  <1> USE DEF client, loop, tasks, slot, world
  <1>0. /\ Types' /\ OwnHeld /\ OwnOps
        /\ \A j \in Jobs : OwnJob(j) => OwnJob(j)'
        /\ \A c \in Conns, m \in Answers : OwnOp(c, m) => OwnOp(c, m)'
    BY TypesNext, JobPlaces, JobsStay
  <1>1. ASSUME NEW j \in Jobs,
               (j \in ops \/ Held(j) \/ Queued(j))' => j \in ops \/ Held(j) \/ Queued(j)
        PROVE  (j \in ops \/ Held(j) \/ Queued(j))' => OwnJob(j)'
    BY <1>0, <1>1 DEF OwnHeld
  <1>2. ASSUME UNCHANGED <<ops, ghq, gh>> PROVE OwnHeld'
    <2> SUFFICES ASSUME NEW j \in Jobs PROVE (j \in ops \/ Held(j) \/ Queued(j))' => OwnJob(j)'
      BY DEF OwnHeld
    <2> QED BY <1>1, <1>2 DEF Held, Queued
  <1>3. ASSUME NEW d \in Conns, DispatchOp(d) PROVE OwnHeld'
    <2> DEFINE r == Head(up[d]).r
    <2>1. /\ r \in Reqs /\ Known(d, r)
      <3>1. /\ 1 \in DOMAIN up[d] /\ Head(up[d]) = up[d][1] /\ Head(up[d]) \in Frames
        <4>1. up[d] \in Seq(Frames) /\ up[d] # <<>>
          BY <1>3 DEF DispatchOp, FrameIs, Types, WorldType
        <4> QED BY <4>1, Tails
      <3> QED BY <3>1 DEF OwnRequests, Own, OwnFrame, Frames
    <2>2. late' = (late \/ active # d) BY <1>3 DEF DispatchOp
    <2> SUFFICES ASSUME NEW j \in Jobs PROVE (j \in ops \/ Held(j) \/ Queued(j))' => OwnJob(j)'
      BY DEF OwnHeld
    <2>3. CASE j = [r |-> r, chan |-> active]
      <3>1. j.r = r /\ j.chan = active /\ j.r.at <= version BY <2>1, <2>3 DEF Known
      <3>2. CASE active = d BY <1>0, <2>1, <3>1, <3>2 DEF OwnJob
      <3>3. CASE active # d
        <4>1. late' BY <2>2, <3>3
        <4>2. version' = version BY <1>3 DEF DispatchOp
        <4> QED BY <3>1, <4>1, <4>2 DEF OwnJob
      <3> QED BY <3>2, <3>3
    <2>4. CASE j # [r |-> r, chan |-> active]
      <3> DEFINE job == [r |-> r, chan |-> active]
      <3>1. gh' = gh /\ (ops' = ops \/ ops' = ops \cup {job})
        BY <1>3 DEF DispatchOp
      <3>2. ghq' = ghq \/ (active # 0 /\ ghq' = Append(ghq, job)) BY <1>3 DEF DispatchOp
      <3>3. active # 0 => job \in Jobs BY <2>1 DEF Jobs, Types, WorldType
      <3>4. ghq \in Seq(Jobs) BY DEF Types, SupervisorType
      <3>5. j # job BY <2>4
      <3> HIDE DEF job
      <3>6. Queued(j)' => Queued(j)
        <4>1. CASE ghq' = ghq BY <4>1 DEF Queued
        <4>2. CASE active # 0 /\ ghq' = Append(ghq, job)
          <5>1. \A k \in DOMAIN ghq' : ghq'[k] = job \/ \E i \in DOMAIN ghq : ghq'[k] = ghq[i]
            BY <3>3, <3>4, <4>2, Appends
          <5> QED BY <3>5, <5>1 DEF Queued
        <4> QED BY <3>2, <4>1, <4>2
      <3>7. Held(j)' => Held(j) BY <3>1 DEF Held
      <3> QED BY <1>1, <3>1, <3>5, <3>6, <3>7
    <2> QED BY <2>3, <2>4
  <1>4. ASSUME GitEnds \/ GhWorker PROVE OwnHeld'
    <2> SUFFICES ASSUME NEW j \in Jobs PROVE (j \in ops \/ Held(j) \/ Queued(j))' => OwnJob(j)'
      BY DEF OwnHeld
    <2>1. CASE GitEnds
      <3>1. ops' \subseteq ops /\ UNCHANGED <<ghq, gh>> BY <2>1 DEF GitEnds, OpReply
      <3> QED BY <1>1, <3>1 DEF Held, Queued
    <2>2. CASE GhWorker
      <3>1. ops' = ops BY <2>2 DEF GhWorker, GhRecv, GhDrain, GhLookup, GhReply
      <3> QED BY <1>1, <2>2, <3>1, JobsMove
    <2> QED BY <1>4, <2>1, <2>2
  <1>5. OwnHeld'
    <2>1. ASSUME NEW d \in Conns, Handle(d), ~DispatchOp(d) PROVE UNCHANGED <<ops, ghq, gh>>
      BY <2>1 DEF Handle, UploadStart, UploadChunk, UploadFinish
    <2>2. \/ \E d \in Conns : DispatchOp(d)
          \/ GitEnds \/ GhWorker
          \/ UNCHANGED <<ops, ghq, gh>>
      BY <2>1
      DEF Next, MakeRequest, Upload, SendOp, Stream, StreamStart, StreamNext, Receive,
          IgnoreAnswer, ApplyUpload, ApplyOp, SeeExit, Attach, Cancelled, Disconnect, End,
          SessionExit, Upstream, vars
    <2> QED BY <1>2, <1>3, <1>4, <2>2
  <1>6. OwnOps'
    <2> SUFFICES ASSUME NEW c \in Conns, NEW k \in DOMAIN down'[c]
                 PROVE  OwnOp(c, down[c][k])'
      BY DEF OwnOps
    <2>1. ASSUME NEW m \in Answers, m = down'[c][k], OwnOp(c, m)'
          PROVE  OwnOp(c, down[c][k])'
      BY <2>1 DEF OwnOp, Known
    <2>2. CASE \E i \in DOMAIN down[c] : down'[c][k] = down[c][i]
      <3>1. PICK i \in DOMAIN down[c] : down'[c][k] = down[c][i] BY <2>2
      <3>2. PICK m \in Answers : m = down[c][i] BY DEF Types, WorldType
      <3> QED BY <1>0, <2>1, <3>1, <3>2 DEF OwnOps
    <2>3. ASSUME NEW m \in Answers, down'[c] = Append(down[c], m), down'[c][k] = m, Brings(c, m)
          PROVE  OwnOp(c, down[c][k])'
      <3>1. CASE m.t # "op"
        <4>1. OwnOp(c, m)' BY <3>1 DEF OwnOp
        <4> QED BY <2>1, <2>3, <4>1
      <3>2. ASSUME NEW j \in Jobs, j \in ops \/ Held(j) \/ Queued(j), c = j.chan, m.r = j.r
            PROVE  OwnOp(c, m)
        <4>1. OwnJob(j) BY <1>0, <3>2 DEF OwnHeld
        <4> QED BY <3>2, <4>1 DEF OwnJob, OwnOp
      <3>3. CASE m.t = "op"
        <4>1. PICK j \in Jobs : (j \in ops \/ Held(j) \/ Queued(j)) /\ c = j.chan /\ m.r = j.r
          <5>1. ops \subseteq Jobs BY DEF Types, SupervisorType
          <5>2. GhReply => gh.pc # "recv" BY DEF GhReply, Fetched
          <5>3. \A j \in Jobs : GhAnswer(j.r).r = j.r BY DEF GhAnswer, Answer
          <5> QED BY <2>3, <3>3, <5>1, <5>2, <5>3 DEF Brings, Held
        <4>2. OwnOp(c, m) BY <3>2, <4>1
        <4> QED BY <1>0, <2>1, <2>3, <4>2
      <3> QED BY <3>1, <3>3
    <2>4. \/ \E i \in DOMAIN down[c] : down'[c][k] = down[c][i]
          \/ \E m \in Answers : Brings(c, m) /\ down'[c] = Append(down[c], m) /\ down'[c][k] = m
      <3>1. CASE Shrinks(down[c], down'[c])
        BY <3>1, Kept DEF Types, WorldType
      <3>2. ASSUME NEW m \in Answers, Brings(c, m), down'[c] = Append(down[c], m)
            PROVE  (\E i \in DOMAIN down[c] : down'[c][k] = down[c][i]) \/ down'[c][k] = m
        <4>1. down[c] \in Seq(Answers) BY DEF Types, WorldType
        <4> QED BY <3>2, <4>1, Appends
      <3> QED BY <3>1, <3>2, AnswersStep
    <2> QED BY <2>2, <2>3, <2>4
  <1>7. (Types => (OwnJobs <=> OwnHeld /\ OwnOps))' BY JobPlaces, PTL
  <1> QED BY <1>0, <1>5, <1>6, <1>7

\* A client misled has taken an answer that a displaced loop let astray.
LEMMA OwnAnswersNext ==
  ASSUME Types, OwnRequests, OwnJobs, OwnAnswers, [Next]_vars
  PROVE  OwnAnswers'
  <1> USE DEF client, loop, tasks, slot, world
  <1>1. late => late'
    BY DEF Next, MakeRequest, Upload, SendOp, Stream, StreamStart, StreamNext, Handle,
           UploadStart, UploadChunk, UploadFinish, DispatchOp, Receive, IgnoreAnswer,
           ApplyUpload, ApplyOp, SeeExit, GitEnds, OpReply, GhWorker, GhRecv, GhDrain,
           GhLookup, GhReply, Attach, Cancelled, Disconnect, End, SessionExit, Upstream,
           vars
  <1>2. ASSUME NEW c \in Conns, ApplyOp(c), misled' # misled PROVE late
    <2> DEFINE m == Head(down[c])
    <2>1. PICK p \in Asked(c, m) : misled' = IF p = m.r THEN misled ELSE misled \cup {p}
      BY <1>2 DEF ApplyOp
    <2>2. p \in pend[c] /\ p.id = m.r.id /\ p # m.r BY <1>2, <2>1 DEF Asked
    <2>3. m.t = "op" /\ 1 \in DOMAIN down[c] /\ m = down[c][1]
      <3>1. down[c] \in Seq(Answers) /\ down[c] # <<>> /\ m.t = "op"
        BY <1>2 DEF ApplyOp, AnswerIs, Types, WorldType
      <3> QED BY <3>1, Tails
    <2>4. OwnOp(c, m) BY <2>3 DEF OwnJobs
    <2> HIDE DEF m
    <2> QED BY <2>2, <2>3, <2>4 DEF OwnOp, Known
  <1>3. misled' = misled \/ \E c \in Conns : ApplyOp(c)
    BY DEF Next, MakeRequest, Upload, SendOp, Stream, StreamStart, StreamNext, Handle,
           UploadStart, UploadChunk, UploadFinish, DispatchOp, Receive, IgnoreAnswer,
           ApplyUpload, SeeExit, GitEnds, OpReply, GhWorker, GhRecv, GhDrain,
           GhLookup, GhReply, Attach, Cancelled, Disconnect, End, SessionExit, Upstream,
           vars
  <1> QED BY <1>1, <1>2, <1>3 DEF OwnAnswers

\* The invariant holds in every reachable state.
LEMMA OwnInvAlways == Spec => []OwnInv
  <1>1. Init => OwnInv
    <2> SUFFICES ASSUME Init PROVE OwnInv
      OBVIOUS
    <2>1. \A c \in Conns : /\ pend[c] = {} /\ queue[c] = <<>> /\ stream[c] = Idle
                           /\ up[c] = <<>> /\ incoming[c] = Idle /\ down[c] = <<>>
      BY DEF Init
    <2>2. OwnRequests BY <2>1 DEF OwnRequests, Own
    <2>3. OwnJobs
      <3>1. IdleGh.pc = "recv" /\ IdleGh.superseded = <<>> /\ IdleGh.hand = NoJob
        BY DEF IdleGh
      <3> QED BY <2>1, <3>1 DEF Init, OwnJobs
    <2>4. OwnAnswers BY DEF Init, OwnAnswers
    <2> QED BY <2>2, <2>3, <2>4, InitTypes DEF OwnInv
  <1>2. OwnInv /\ [Next]_vars => OwnInv'
    BY TypesNext, OwnRequestsNext, OwnJobsNext, OwnAnswersNext DEF OwnInv
  <1> QED BY <1>1, <1>2, PTL DEF Spec

\* Type correctness, with the bound of the upload queue: pending requests are their
\* connection's own and are told apart by their numbers.
THEOREM RequestTypes == Spec => []TypeOK
  <1>1. OwnInv => TypeOK
    <2> SUFFICES ASSUME OwnInv PROVE TypeOK
      OBVIOUS
    <2>1. \A c \in Conns : /\ \A p \in pend[c] : p.c = c /\ p.id < nextId[c]
                           /\ \A p, q \in pend[c] : p.id = q.id => p = q
      BY DEF OwnInv, OwnRequests, Own, Known
    <2>2. gh.pc \in {"recv", "drain", "fetch"}
      BY DEF OwnInv, Types, SupervisorType, GhStates
    <2> QED
      BY <2>1, <2>2 DEF OwnInv, Types, ClientType, SupervisorType, WorldType, TypeOK
  <1> QED BY <1>1, OwnInvAlways, PTL

\* OwnAnswers of Requests: every connection numbers its operations from 1, and yet a
\* client takes the answer to another's only after a displaced loop's dispatch.
THEOREM AnswersAreOwn == Spec => []OwnAnswers
  <1>1. OwnInv => OwnAnswers BY DEF OwnInv
  <1> QED BY <1>1, OwnInvAlways, PTL

-----------------------------------------------------------------------------
(* PR statuses: what the gh worker looks up, on its way to the clients and as   *)
(* they show it.                                                               *)

\* The statuses are of version v or before; a row has one.
Upto(st, v) == \A k \in DOMAIN st : st[k][2] <= v
RowsOnce(st) == \A k, l \in DOMAIN st : st[k][1] = st[l][1] => k = l

\* The statuses that there are are of a version, or of a later one.
Since(st, at) == \A k \in DOMAIN st : st[k][2] = 0 \/ st[k][2] >= at

\* The statuses t, where they are of a row that s has too, are not older.
Newer(s, t) ==
  \A k \in DOMAIN s, l \in DOMAIN t :
    s[k][1] = t[l][1] /\ t[l][2] # 0 => s[k][2] <= t[l][2]

\* The statuses t are not older than what is shown of their rows, whatever the project.
Over(sh, t) ==
  \A repo \in Repos : \A l \in DOMAIN t : t[l][2] # 0 => sh[repo][t[l][1]] <= t[l][2]

\* A row is looked up once, and no sooner than the jobs it answers were asked.
Lookups ==
  /\ gh.pc # "fetch" => gh.got = <<>>
  /\ \A k \in DOMAIN gh.got : gh.got[k][1] \notin gh.left
  /\ Upto(gh.got, version) /\ RowsOnce(gh.got)
  /\ Since(gh.got, gh.job.r.at)
  /\ \A i \in DOMAIN gh.superseded : Since(gh.got, gh.superseded[i].r.at)

\* What is shown, what is on its way and what the worker has got, in that order, are
\* of one version after the other, and of none after v.
Line(sh, d, got, v) ==
  /\ \A repo \in Repos, row \in Rows : sh[repo][row] <= v
  /\ Over(sh, got)
  /\ \A i \in DOMAIN d : /\ Upto(d[i].st, v) /\ RowsOnce(d[i].st)
                         /\ Newer(d[i].st, got)
                         /\ Over(sh, d[i].st)
  /\ \A i, j \in DOMAIN d : i < j => Newer(d[i].st, d[j].st)

InOrder == \A c \in Conns : Line(shown[c], down[c], gh.got, version)

StatusInv == OwnInv /\ Lookups /\ InOrder /\ FreshStatuses

-----------------------------------------------------------------------------
(* A line moves on *)

\* Answers are taken in order, or lost.
LEMMA LineShrinks ==
  ASSUME NEW sh, NEW d \in Seq(Answers), NEW got, NEW v, NEW e,
         Line(sh, d, got, v), Shrinks(d, e)
  PROVE  Line(sh, e, got, v)
  <1>1. CASE d # <<>> /\ e = Tail(d)
    <2>1. \A k \in DOMAIN e : k \in Nat /\ k + 1 \in DOMAIN d /\ e[k] = d[k + 1]
      BY <1>1, Tails
    <2>2. \A i, j \in DOMAIN e : i < j => i + 1 < j + 1 BY <2>1
    <2>3. \A i, j \in DOMAIN e : i < j => Newer(e[i].st, e[j].st) BY <2>1, <2>2 DEF Line
    <2> QED BY <2>1, <2>3 DEF Line
  <1>2. CASE e = <<>>
    <2>1. DOMAIN e = {} BY <1>2
    <2> QED BY <2>1 DEF Line
  <1> QED BY <1>1, <1>2 DEF Shrinks

\* An answer follows, with the statuses the worker has got or with none.
LEMMA LineAppends ==
  ASSUME NEW sh, NEW d \in Seq(Answers), NEW got, NEW v, NEW m \in Answers,
         Line(sh, d, got, v),
         m.st = <<>> \/ (m.st = got /\ Upto(got, v) /\ RowsOnce(got))
  PROVE  Line(sh, Append(d, m), got, v)
  <1> DEFINE e == Append(d, m)
  <1>0. m.st \in Statuses BY DEF Answers
  <1>1. /\ \A k \in DOMAIN d : k \in DOMAIN e /\ e[k] = d[k] /\ k < Len(d) + 1
        /\ \A k \in DOMAIN e : k \in Nat /\ (k \in DOMAIN d \/ k = Len(d) + 1)
        /\ e[Len(d) + 1] = m /\ Len(d) \in Nat
    BY Appends
  <1>2. /\ Upto(m.st, v) /\ RowsOnce(m.st) /\ Newer(m.st, got) /\ Over(sh, m.st)
        /\ \A i \in DOMAIN d : Newer(d[i].st, m.st)
    <2>1. CASE m.st = <<>>
      <3>1. DOMAIN m.st = {} BY <2>1
      <3> QED BY <3>1 DEF Upto, RowsOnce, Newer, Over
    <2>2. CASE m.st = got /\ Upto(got, v) /\ RowsOnce(got)
      <3>1. \A k \in DOMAIN got : got[k][2] \in Nat
        <4>1. \A k \in DOMAIN got : got[k] \in Rows \X Nat BY <1>0, <2>2 DEF Statuses
        <4> QED BY <4>1
      <3>2. Newer(got, got) BY <2>2, <3>1 DEF Newer, RowsOnce
      <3> QED BY <2>2, <3>2 DEF Line
    <2> QED BY <2>1, <2>2
  <1> HIDE DEF e
  <1>3. \A i \in DOMAIN e : /\ Upto(e[i].st, v) /\ RowsOnce(e[i].st)
                            /\ Newer(e[i].st, got) /\ Over(sh, e[i].st)
    BY <1>1, <1>2 DEF Line
  <1>4. ASSUME NEW i \in DOMAIN e, NEW j \in DOMAIN e, i < j PROVE Newer(e[i].st, e[j].st)
    <2>1. i \in DOMAIN d
      <3>1. CASE i = Len(d) + 1
        <4>1. j < i \/ j = i BY <1>1, <3>1
        <4> QED BY <1>1, <1>4, <4>1
      <3> QED BY <1>1, <3>1
    <2> QED BY <1>1, <1>2, <1>4, <2>1 DEF Line
  <1> QED BY <1>3, <1>4 DEF Line, e

\* The worker is done with what it has got.
LEMMA LineReset ==
  ASSUME NEW sh, NEW d, NEW got, NEW v, Line(sh, d, got, v)
  PROVE  Line(sh, d, <<>>, v)
  <1>1. DOMAIN <<>> = {} OBVIOUS
  <1> QED BY <1>1 DEF Line, Newer, Over

\* The worker looks up one row more.
LEMMA LineLooksUp ==
  ASSUME NEW sh \in [Repos -> [Rows -> Nat]], NEW d \in Seq(Answers), NEW got \in Statuses,
         NEW v \in Nat, NEW row \in Rows, NEW x \in {0, v}, Line(sh, d, got, v)
  PROVE  Line(sh, d, Append(got, <<row, x>>), v)
  <1> DEFINE new == Append(got, <<row, x>>)
  <1>1. got \in Seq(Rows \X Nat) /\ <<row, x>> \in Rows \X Nat BY DEF Statuses
  <1>2. \A l \in DOMAIN new : (l \in DOMAIN got /\ new[l] = got[l]) \/ new[l] = <<row, x>>
    BY <1>1, Appends
  <1> HIDE DEF new
  <1>3. Over(sh, new)
    <2> SUFFICES ASSUME NEW repo \in Repos, NEW l \in DOMAIN new, new[l][2] # 0
                 PROVE  sh[repo][new[l][1]] <= new[l][2]
      BY DEF Over
    <2>1. CASE l \in DOMAIN got /\ new[l] = got[l] BY <2>1 DEF Line, Over
    <2>2. CASE new[l] = <<row, x>>
      <3>1. new[l][1] = row /\ new[l][2] = v BY <2>2
      <3> QED BY <3>1 DEF Line
    <2> QED BY <1>2, <2>1, <2>2
  <1>4. ASSUME NEW i \in DOMAIN d PROVE Newer(d[i].st, new)
    <2>1. Upto(d[i].st, v) /\ Newer(d[i].st, got) BY DEF Line
    <2> SUFFICES ASSUME NEW k \in DOMAIN d[i].st, NEW l \in DOMAIN new,
                        d[i].st[k][1] = new[l][1], new[l][2] # 0
                 PROVE  d[i].st[k][2] <= new[l][2]
      BY DEF Newer
    <2>2. CASE l \in DOMAIN got /\ new[l] = got[l] BY <2>1, <2>2 DEF Newer
    <2>3. CASE new[l] = <<row, x>>
      <3>1. new[l][2] = v BY <2>3
      <3> QED BY <2>1, <3>1 DEF Upto
    <2> QED BY <1>2, <2>2, <2>3
  <1> QED BY <1>3, <1>4 DEF Line, new

\* The state upstream changes.
LEMMA LineAges ==
  ASSUME NEW sh \in [Repos -> [Rows -> Nat]], NEW d \in Seq(Answers), NEW got,
         NEW v \in Nat, Line(sh, d, got, v)
  PROVE  Line(sh, d, got, v + 1)
  <1>1. \A n \in Nat : n <= v => n <= v + 1 OBVIOUS
  <1>2. \A repo \in Repos, row \in Rows : sh[repo][row] <= v + 1 BY <1>1 DEF Line
  <1>3. ASSUME NEW i \in DOMAIN d PROVE Upto(d[i].st, v + 1)
    <2>1. \A k \in DOMAIN d[i].st : d[i].st[k][2] \in Nat
      <3>1. d[i] \in Answers OBVIOUS
      <3>2. d[i].st \in Seq(Rows \X Nat) BY <3>1 DEF Answers, Statuses
      <3>3. \A k \in DOMAIN d[i].st : d[i].st[k] \in Rows \X Nat BY <3>2
      <3> QED BY <3>3
    <2> QED BY <1>1, <2>1 DEF Line, Upto
  <1> QED BY <1>2, <1>3 DEF Line

\* The client shows the statuses of the first answer for one of its projects.
LEMMA LineApplies ==
  ASSUME NEW sh \in [Repos -> [Rows -> Nat]], NEW d \in Seq(Answers), NEW got \in Statuses,
         NEW v, d # <<>>, NEW new,
         \A repo \in Repos :
           new[repo] = sh[repo] \/ new[repo] = Refreshed(sh[repo], Head(d).st),
         Line(sh, d, got, v)
  PROVE  Line(new, Tail(d), got, v)
  <1> DEFINE st == Head(d).st
  <1>1. /\ 1 \in DOMAIN d /\ Head(d) = d[1] /\ Head(d) \in Answers
        /\ \A k \in DOMAIN Tail(d) : /\ k + 1 \in DOMAIN d /\ Tail(d)[k] = d[k + 1]
                                     /\ 1 < k + 1
    <2>1. \A k \in DOMAIN d : k \in Nat /\ k >= 1 BY Tails
    <2>2. \A k \in DOMAIN Tail(d) : k \in Nat /\ k >= 1 OBVIOUS
    <2> QED BY <2>2, Tails
  <1>2. st \in Statuses BY <1>1 DEF Answers
  <1>3. Upto(st, v) /\ Newer(st, got) /\ \A k \in DOMAIN Tail(d) : Newer(st, Tail(d)[k].st)
    BY <1>1 DEF Line
  <1>4. ASSUME NEW repo \in Repos, NEW row \in Rows
        PROVE  \/ new[repo][row] = sh[repo][row]
               \/ \E i \in DOMAIN st : st[i][1] = row /\ new[repo][row] = st[i][2]
    <2>1. sh[repo] \in [Rows -> Nat] OBVIOUS
    <2> HIDE DEF st
    <2>2. \/ Refreshed(sh[repo], st)[row] = sh[repo][row]
          \/ \E i \in DOMAIN st : st[i][1] = row /\ Refreshed(sh[repo], st)[row] = st[i][2]
      BY <1>2, <2>1, RefreshedType
    <2>3. new[repo] = sh[repo] \/ new[repo] = Refreshed(sh[repo], st) BY DEF st
    <2> QED BY <2>2, <2>3
  <1>5. ASSUME NEW t \in Statuses, Over(sh, t), Newer(st, t)
        PROVE  Over(new, t)
    <2> SUFFICES ASSUME NEW repo \in Repos, NEW l \in DOMAIN t, t[l][2] # 0
                 PROVE  new[repo][t[l][1]] <= t[l][2]
      BY DEF Over
    <2>1. t[l] \in Rows \X Nat BY DEF Statuses
    <2>2. PICK row \in Rows : row = t[l][1] BY <2>1
    <2>3. CASE new[repo][row] = sh[repo][row] BY <1>5, <2>2, <2>3 DEF Over
    <2>4. CASE \E i \in DOMAIN st : st[i][1] = row /\ new[repo][row] = st[i][2]
      BY <1>5, <2>2, <2>4 DEF Newer
    <2> QED BY <1>4, <2>3, <2>4
  <1>6. \A repo \in Repos, row \in Rows : new[repo][row] <= v
    <2> SUFFICES ASSUME NEW repo \in Repos, NEW row \in Rows PROVE new[repo][row] <= v
      OBVIOUS
    <2>1. CASE new[repo][row] = sh[repo][row] BY <2>1 DEF Line
    <2>2. CASE \E i \in DOMAIN st : st[i][1] = row /\ new[repo][row] = st[i][2]
      BY <1>3, <2>2 DEF Upto
    <2> QED BY <1>4, <2>1, <2>2
  <1>7. Over(new, got) BY <1>3, <1>5 DEF Line
  <1>8. ASSUME NEW k \in DOMAIN Tail(d)
        PROVE  /\ Upto(Tail(d)[k].st, v) /\ RowsOnce(Tail(d)[k].st)
               /\ Newer(Tail(d)[k].st, got) /\ Over(new, Tail(d)[k].st)
    <2>1. Tail(d)[k] = d[k + 1] /\ k + 1 \in DOMAIN d BY <1>1
    <2>2. d[k + 1].st \in Statuses
      <3>1. d[k + 1] \in Answers BY <2>1
      <3> QED BY <3>1 DEF Answers
    <2>3. Over(sh, d[k + 1].st) /\ Newer(st, d[k + 1].st) BY <1>3, <2>1 DEF Line
    <2> HIDE DEF st
    <2> QED BY <1>5, <2>1, <2>2, <2>3 DEF Line
  <1>9. Line(sh, Tail(d), got, v) BY LineShrinks DEF Shrinks
  <1> QED BY <1>6, <1>7, <1>8, <1>9 DEF Line

-----------------------------------------------------------------------------
(* The worker's lookups *)

\* Who touches the worker, and the state upstream.
LEMMA WorkerSteps ==
  [Next]_vars => \/ GhWorker /\ version' = version
                 \/ gh' = gh /\ (version' = version \/ Upstream)
  BY DEF Next, MakeRequest, Upload, SendOp, Stream, StreamStart, StreamNext, Handle,
         UploadStart, UploadChunk, UploadFinish, DispatchOp, Receive, IgnoreAnswer,
         ApplyUpload, ApplyOp, SeeExit, GitEnds, OpReply, GhWorker, GhRecv, GhDrain,
         GhLookup, GhReply, Attach, Cancelled, Disconnect, End, SessionExit, Upstream,
         vars, client, loop, tasks, slot, world

\* What it gets is of the jobs it has in hand, which were asked before.
LEMMA LookupsNext ==
  ASSUME OwnInv, Lookups, [Next]_vars
  PROVE  Lookups'
  <1>0. /\ gh \in GhStates /\ gh.got \in Statuses /\ gh.got \in Seq(Rows \X Nat)
        /\ gh.superseded \in Seq(Jobs) /\ version \in Nat /\ gh.left \subseteq Rows
        /\ gh.pc # "recv" => gh.job \in Jobs
    BY DEF OwnInv, Types, SupervisorType, WorldType, GhStates, Statuses
  <1>1. ASSUME gh'.got = <<>> PROVE Lookups'
    <2>1. DOMAIN gh'.got = {} BY <1>1
    <2> QED BY <1>1, <2>1 DEF Lookups, Upto, RowsOnce, Since
  <1>2. ASSUME gh' = gh, Upstream PROVE Lookups'
    <2>1. version' = version + 1 BY <1>2 DEF Upstream
    <2>2. PICK n \in Nat : n = version + 1 BY <1>0
    <2>3. \A k \in DOMAIN gh.got : gh.got[k][2] \in Nat
      <3>1. \A k \in DOMAIN gh.got : gh.got[k] \in Rows \X Nat BY <1>0
      <3> QED BY <3>1
    <2>4. Upto(gh.got, n)
      <3>1. \A m \in Nat : m <= version => m <= n BY <1>0, <2>2
      <3> QED BY <2>3, <3>1 DEF Lookups, Upto
    <2> QED BY <1>2, <2>1, <2>2, <2>4 DEF Lookups
  <1>3. CASE GhRecv
    <2>1. gh'.got = <<>> BY <1>3 DEF GhRecv, IdleGh
    <2> QED BY <1>1, <2>1
  <1>4. CASE GhDrain
    <2>1. gh.got = <<>> BY <1>4 DEF GhDrain, Lookups
    <2>2. gh'.got = gh.got BY <1>0, <1>4 DEF GhDrain, StartFetch, GhStates
    <2> QED BY <1>1, <2>1, <2>2
  <1>5. ASSUME NEW row \in Rows, GhLookup(row) PROVE Lookups'
    <2>1. row \in gh.left /\ gh.pc = "fetch" /\ version' = version
      BY <1>5 DEF GhLookup, world
    <2>2. /\ gh'.left = gh.left \ {row} /\ gh'.job = gh.job /\ gh'.pc = "fetch"
          /\ gh'.superseded = gh.superseded
          /\ \/ gh'.got = gh.got
             \/ \E x \in {0, version} : gh'.got = Append(gh.got, <<row, x>>)
      BY <1>0, <1>5 DEF GhLookup, GhStates
    <2>3. CASE gh'.got = gh.got BY <2>1, <2>2, <2>3 DEF Lookups
    <2>4. ASSUME NEW x \in {0, version}, gh'.got = Append(gh.got, <<row, x>>)
          PROVE  Lookups'
      <3>1. PICK g \in Seq(Rows \X Nat) : g = gh.got BY <1>0
      <3>2. PICK h : h = Append(g, <<row, x>>) OBVIOUS
      <3>3. <<row, x>> \in Rows \X Nat BY <1>0
      <3>4. /\ \A k \in DOMAIN h : (k \in DOMAIN g /\ h[k] = g[k])
                                   \/ (k = Len(g) + 1 /\ h[k] = <<row, x>>)
            /\ <<row, x>>[1] = row /\ <<row, x>>[2] = x
        BY <3>2, <3>3, Appends
      <3>5. Upto(h, version)
        <4>1. \A k \in DOMAIN g : g[k][2] <= version BY <3>1 DEF Lookups, Upto
        <4>2. x <= version BY <1>0
        <4> QED BY <3>4, <4>1, <4>2 DEF Upto
      <3>6. RowsOnce(h)
        <4>1. RowsOnce(g) /\ \A k \in DOMAIN g : g[k][1] # row
          BY <2>1, <3>1 DEF Lookups
        <4> QED BY <3>4, <4>1 DEF RowsOnce
      <3>7. ASSUME NEW at \in Nat, at <= version, Since(g, at) PROVE Since(h, at)
        <4>1. x = 0 \/ x >= at BY <1>0, <3>7
        <4> QED BY <3>4, <3>7, <4>1 DEF Since
      <3>8. ASSUME NEW j \in Jobs, Held(j) PROVE j.r.at \in Nat /\ j.r.at <= version
        <4>1. OwnHeld BY JobPlaces DEF OwnInv
        <4> QED BY <3>8, <4>1 DEF OwnHeld, OwnJob, Jobs, Reqs
      <3>9. Since(h, gh.job.r.at)
        <4>1. gh.job \in Jobs /\ Held(gh.job) BY <1>0, <2>1 DEF Held
        <4>2. Since(g, gh.job.r.at) BY <3>1 DEF Lookups
        <4> QED BY <3>7, <3>8, <4>1, <4>2
      <3>10. \A i \in DOMAIN gh.superseded : Since(h, gh.superseded[i].r.at)
        <4> SUFFICES ASSUME NEW i \in DOMAIN gh.superseded
                     PROVE  Since(h, gh.superseded[i].r.at)
          OBVIOUS
        <4>1. gh.superseded[i] \in Jobs /\ Held(gh.superseded[i]) BY <1>0 DEF Held
        <4>2. Since(g, gh.superseded[i].r.at) BY <3>1 DEF Lookups
        <4> QED BY <3>7, <3>8, <4>1, <4>2
      <3>11. \A k \in DOMAIN h : h[k][1] \notin gh.left \ {row}
        BY <3>1, <3>4 DEF Lookups
      <3>12. gh'.got = h BY <2>4, <3>1, <3>2
      <3> QED
        BY <2>1, <2>2, <3>5, <3>6, <3>9, <3>10, <3>11, <3>12 DEF Lookups
    <2> QED BY <2>2, <2>3, <2>4
  <1>6. CASE GhReply
    <2>1. CASE gh.superseded # <<>> /\ gh' = [gh EXCEPT !.superseded = Tail(@)]
      <3>1. /\ gh'.got = gh.got /\ gh'.left = gh.left /\ gh'.job = gh.job /\ gh'.pc = gh.pc
            /\ gh'.superseded = Tail(gh.superseded)
        BY <1>0, <2>1 DEF GhStates
      <3>2. version' = version BY <1>6 DEF GhReply, world
      <3>3. \A k \in DOMAIN Tail(gh.superseded) : \E i \in DOMAIN gh.superseded :
              Tail(gh.superseded)[k] = gh.superseded[i]
        BY <1>0, <2>1, Tails
      <3>4. \A k \in DOMAIN Tail(gh.superseded) : Since(gh.got, Tail(gh.superseded)[k].r.at)
        BY <3>3 DEF Lookups
      <3> QED BY <3>1, <3>2, <3>4 DEF Lookups
    <2>2. CASE gh' = GhNext
      <3>1. gh'.got = <<>> BY <2>2 DEF GhNext, IdleGh
      <3> QED BY <1>1, <3>1
    <2> QED BY <1>6, <2>1, <2>2 DEF GhReply
  <1>7. CASE gh' = gh /\ version' = version BY <1>7 DEF Lookups
  <1> QED BY <1>2, <1>3, <1>4, <1>5, <1>6, <1>7, WorkerSteps DEF GhWorker

\* What the worker has got grows by a lookup, or is let go.
LEMMA GotStep ==
  ASSUME OwnInv, Lookups, [Next]_vars
  PROVE  \/ gh'.got = gh.got /\ (version' = version \/ version' = version + 1)
         \/ gh'.got = <<>> /\ version' = version
         \/ /\ version' = version
            /\ \E row \in Rows, x \in {0, version} : gh'.got = Append(gh.got, <<row, x>>)
  <1>0. gh \in GhStates BY DEF OwnInv, Types, SupervisorType
  <1>1. CASE gh' = gh BY <1>1, WorkerSteps DEF Upstream
  <1>2. CASE GhWorker /\ version' = version
    <2>1. CASE GhRecv BY <1>2, <2>1 DEF GhRecv, IdleGh
    <2>2. CASE GhDrain
      <3>1. gh'.got = gh.got BY <1>0, <2>2 DEF GhDrain, StartFetch, GhStates
      <3> QED BY <1>2, <3>1
    <2>3. ASSUME NEW row \in Rows, GhLookup(row)
          PROVE  \/ gh'.got = gh.got
                 \/ \E x \in {0, version} : gh'.got = Append(gh.got, <<row, x>>)
      BY <1>0, <2>3 DEF GhLookup, GhStates
    <2>4. CASE GhReply
      <3>1. CASE gh' = [gh EXCEPT !.superseded = Tail(@)]
        <4>1. gh'.got = gh.got BY <1>0, <3>1 DEF GhStates
        <4> QED BY <1>2, <4>1
      <3>2. CASE gh' = GhNext BY <1>2, <3>2 DEF GhNext, IdleGh
      <3> QED BY <2>4, <3>1, <3>2 DEF GhReply
    <2> QED BY <1>2, <2>1, <2>2, <2>3, <2>4 DEF GhWorker
  <1> QED BY <1>1, <1>2, WorkerSteps

-----------------------------------------------------------------------------
(* What is shown *)

\* A client shows the statuses of an answer as it takes it, until it ends.
Applies(c) ==
  /\ down[c] # <<>> /\ down'[c] = Tail(down[c])
  /\ \A repo \in Repos :
       \/ shown'[c][repo] = shown[c][repo]
       \/ shown'[c][repo] = Refreshed(shown[c][repo], Head(down[c]).st)
  /\ gh' = gh /\ version' = version

Ends(c) ==
  /\ down'[c] = <<>> /\ shown'[c] = NoStatuses /\ conn'[c] = "gone"
  /\ gh' = gh /\ version' = version

\* What a step does to the statuses shown: nothing, unless an answer is applied or the
\* connection ends.
LEMMA ShownStep ==
  ASSUME OwnInv, [Next]_vars, NEW c \in Conns
  PROVE  shown'[c] = shown[c] \/ Applies(c) \/ Ends(c)
  <1>0. /\ shown \in [Conns -> [Repos -> [Rows -> Nat]]] /\ down \in [Conns -> Seq(Answers)]
        /\ conn \in [Conns -> {"unborn", "active", "displaced", "gone"}]
    BY DEF OwnInv, Types, ClientType, WorldType
  <1>1. ASSUME NEW d \in Conns, ApplyOp(d) PROVE shown'[c] = shown[c] \/ Applies(c)
    <2>1. PICK p \in Asked(d, Head(down[d])) :
            \/ shown' = shown
            \/ shown' = [shown EXCEPT ![d][p.repo] = Refreshed(@, Head(down[d]).st)]
      BY <1>1 DEF ApplyOp
    <2>2. CASE c # d BY <1>0, <2>1, <2>2
    <2>3. CASE c = d
      <3>1. /\ down[c] # <<>> /\ down'[c] = Tail(down[c]) /\ gh' = gh /\ version' = version
        BY <1>0, <1>1, <2>3 DEF ApplyOp, AnswerIs, TakeAnswer, tasks, world
      <3>2. \A repo \in Repos :
              \/ shown'[c][repo] = shown[c][repo]
              \/ shown'[c][repo] = Refreshed(shown[c][repo], Head(down[c]).st)
        <4>1. CASE shown' = shown BY <4>1
        <4>2. CASE shown' = [shown EXCEPT ![d][p.repo] = Refreshed(@, Head(down[d]).st)]
          <5>1. shown'[c] = [shown[c] EXCEPT ![p.repo] = Refreshed(@, Head(down[c]).st)]
            BY <1>0, <2>3, <4>2
          <5>2. shown[c] \in [Repos -> [Rows -> Nat]] BY <1>0
          <5> QED BY <5>1, <5>2
        <4> QED BY <2>1, <4>1, <4>2
      <3> QED BY <3>1, <3>2 DEF Applies
    <2> QED BY <2>2, <2>3
  <1>2. ASSUME NEW d \in Conns, End(d) PROVE shown'[c] = shown[c] \/ Ends(c)
    BY <1>0, <1>2 DEF End, Ends, tasks, world
  <1>3. \/ shown' = shown
        \/ \E d \in Conns : ApplyOp(d) \/ End(d)
    BY DEF Next, MakeRequest, Upload, SendOp, Stream, StreamStart, StreamNext, Handle,
           UploadStart, UploadChunk, UploadFinish, DispatchOp, Receive, IgnoreAnswer,
           ApplyUpload, SeeExit, GitEnds, OpReply, GhWorker, GhRecv, GhDrain,
           GhLookup, GhReply, Attach, Cancelled, Disconnect, SessionExit, Upstream,
           vars, client
  <1> QED BY <1>1, <1>2, <1>3

\* Every step keeps the order.
LEMMA InOrderNext ==
  ASSUME OwnInv, Lookups, InOrder, [Next]_vars
  PROVE  InOrder'
  <1> SUFFICES ASSUME NEW c \in Conns
               PROVE  Line(shown'[c], down'[c], gh'.got, version')
    BY DEF InOrder
  <1>0. /\ down[c] \in Seq(Answers) /\ gh.got \in Statuses /\ version \in Nat
        /\ shown[c] \in [Repos -> [Rows -> Nat]]
    BY DEF OwnInv, Types, ClientType, SupervisorType, WorldType, GhStates
  <1>a. Types' BY TypesNext DEF OwnInv
  <1>1. Line(shown[c], down[c], gh.got, version) BY DEF InOrder
  <1>2. CASE Applies(c)
    <2>1. Line(shown'[c], Tail(down[c]), gh.got, version)
      BY <1>0, <1>1, <1>2, LineApplies DEF Applies
    <2> QED BY <1>2, <2>1 DEF Applies
  <1>3. CASE Ends(c)
    <2>1. Over(NoStatuses, gh.got)
      <3>1. \A l \in DOMAIN gh.got : gh.got[l] \in Rows \X Nat BY <1>0 DEF Statuses
      <3> QED BY <3>1 DEF Over, NoStatuses
    <2>2. \A repo \in Repos, row \in Rows : NoStatuses[repo][row] <= version
      BY <1>0 DEF NoStatuses
    <2>3. DOMAIN <<>> = {} OBVIOUS
    <2>4. Line(NoStatuses, <<>>, gh.got, version) BY <2>1, <2>2, <2>3 DEF Line
    <2> QED BY <1>3, <2>4 DEF Ends
  <1>4. CASE shown'[c] = shown[c]
    <2>1. Line(shown[c], down'[c], gh.got, version)
      <3>1. CASE Shrinks(down[c], down'[c]) BY <1>0, <1>1, <3>1, LineShrinks
      <3>2. ASSUME NEW m \in Answers, Brings(c, m), down'[c] = Append(down[c], m)
            PROVE  Line(shown[c], down'[c], gh.got, version)
        <4>1. m.st = <<>> \/ m.st = gh.got BY <3>2 DEF Brings, GhAnswer, Answer
        <4>2. Upto(gh.got, version) /\ RowsOnce(gh.got) BY DEF Lookups
        <4> QED BY <1>0, <1>1, <3>2, <4>1, <4>2, LineAppends
      <3> QED BY <3>1, <3>2, AnswersStep DEF OwnInv
    <2>2. down'[c] \in Seq(Answers) BY <1>a DEF Types, WorldType
    <2>3. CASE gh'.got = gh.got /\ version' = version BY <1>4, <2>1, <2>3
    <2>4. CASE gh'.got = gh.got /\ version' = version + 1
      <3>1. Line(shown[c], down'[c], gh.got, version + 1) BY <1>0, <2>1, <2>2, LineAges
      <3> QED BY <1>4, <2>4, <3>1
    <2>5. CASE gh'.got = <<>> /\ version' = version
      <3>1. Line(shown[c], down'[c], <<>>, version) BY <2>1, LineReset
      <3> QED BY <1>4, <2>5, <3>1
    <2>6. ASSUME NEW row \in Rows, NEW x \in {0, version}, version' = version,
                 gh'.got = Append(gh.got, <<row, x>>)
          PROVE  Line(shown'[c], down'[c], gh'.got, version')
      <3>1. Line(shown[c], down'[c], Append(gh.got, <<row, x>>), version)
        BY <1>0, <2>1, <2>2, LineLooksUp
      <3> QED BY <1>4, <2>6, <3>1
    <2> QED BY <2>3, <2>4, <2>5, <2>6, GotStep
  <1> QED BY <1>2, <1>3, <1>4, ShownStep

\* Every step keeps the answers no older than their requests.
LEMMA FreshNext ==
  ASSUME OwnInv, Lookups, FreshStatuses, [Next]_vars
  PROVE  FreshStatuses'
  <1> SUFFICES ASSUME NEW c \in Conns, NEW i \in DOMAIN down'[c]
               PROVE  Since(down'[c][i].st, down'[c][i].r.at)
    BY DEF FreshStatuses, Since
  <1>0. down[c] \in Seq(Answers) BY DEF OwnInv, Types, WorldType
  <1>1. \A k \in DOMAIN down[c] : Since(down[c][k].st, down[c][k].r.at)
    BY DEF FreshStatuses, Since
  <1>2. CASE Shrinks(down[c], down'[c])
    <2>1. \E k \in DOMAIN down[c] : down'[c][i] = down[c][k] BY <1>0, <1>2, Kept
    <2> QED BY <1>1, <2>1
  <1>3. ASSUME NEW m \in Answers, Brings(c, m), down'[c] = Append(down[c], m)
        PROVE  Since(down'[c][i].st, down'[c][i].r.at)
    <2>1. (\E k \in DOMAIN down[c] : down'[c][i] = down[c][k]) \/ down'[c][i] = m
      BY <1>0, <1>3, Appends
    <2>2. Since(m.st, m.r.at)
      <3>1. CASE m.st = <<>>
        <4>1. DOMAIN m.st = {} BY <3>1
        <4> QED BY <4>1 DEF Since
      <3>2. ASSUME NEW j \in Jobs, j = gh.job \/ \E k \in DOMAIN gh.superseded : j = gh.superseded[k],
                   m = GhAnswer(j.r)
            PROVE  Since(m.st, m.r.at)
        <4>1. m.st = gh.got /\ m.r = j.r BY <3>2 DEF GhAnswer, Answer
        <4>2. Since(gh.got, j.r.at) BY <3>2 DEF Lookups
        <4> QED BY <4>1, <4>2
      <3> QED BY <1>3, <3>1, <3>2 DEF Brings
    <2> QED BY <1>1, <2>1, <2>2
  <1> QED BY <1>2, <1>3, AnswersStep DEF OwnInv

\* The invariant of the statuses holds always.
LEMMA StatusInvAlways == Spec => []StatusInv
  <1>1. Init /\ OwnInv => StatusInv
    <2> SUFFICES ASSUME Init, OwnInv PROVE StatusInv
      OBVIOUS
    <2>1. /\ gh.got = <<>> /\ gh.superseded = <<>> /\ DOMAIN <<>> = {}
      BY DEF Init, IdleGh
    <2>2. Lookups BY <2>1 DEF Lookups, Upto, RowsOnce, Since
    <2>3. ASSUME NEW c \in Conns PROVE down[c] = <<>> /\ shown[c] = NoStatuses /\ version = 1
      BY DEF Init
    <2>4. InOrder BY <2>1, <2>3 DEF InOrder, Line, Over, NoStatuses
    <2>5. FreshStatuses BY <2>1, <2>3 DEF FreshStatuses
    <2> QED BY <2>2, <2>4, <2>5 DEF StatusInv
  <1>2. StatusInv /\ OwnInv' /\ [Next]_vars => StatusInv'
    BY LookupsNext, InOrderNext, FreshNext DEF StatusInv
  <1> QED BY <1>1, <1>2, OwnInvAlways, PTL DEF Spec

-----------------------------------------------------------------------------
(* The theorems *)

\* FreshStatuses of Requests: the answer to a fetch, also to one that was superseded, is
\* of the PR state at the time it was asked or later.
THEOREM StatusesAreFresh == Spec => []FreshStatuses
  <1>1. StatusInv => FreshStatuses BY DEF StatusInv
  <1> QED BY <1>1, StatusInvAlways, PTL

\* NeverBackward of Requests: what a client shows of a worktree never goes back to an
\* older PR state.
THEOREM StatusesNeverGoBack == Spec => NeverBackward
  <1>1. ASSUME StatusInv, [Next]_vars
        PROVE  \A c \in Conns, repo \in Repos, row \in Rows :
                 conn'[c] # "gone" =>
                   shown'[c][repo][row] = 0 \/ shown'[c][repo][row] >= shown[c][repo][row]
    <2> SUFFICES ASSUME NEW c \in Conns, NEW repo \in Repos, NEW row \in Rows,
                        conn'[c] # "gone"
                 PROVE  shown'[c][repo][row] = 0 \/ shown'[c][repo][row] >= shown[c][repo][row]
      OBVIOUS
    <2>0. /\ down[c] \in Seq(Answers) /\ shown[c][repo] \in [Rows -> Nat]
          /\ shown[c][repo][row] \in Nat
      <3>1. shown[c] \in [Repos -> [Rows -> Nat]] /\ down[c] \in Seq(Answers)
        BY <1>1 DEF StatusInv, OwnInv, Types, ClientType, WorldType
      <3>2. shown[c][repo] \in [Rows -> Nat] BY <3>1
      <3> QED BY <3>1, <3>2
    <2>1. CASE shown'[c][repo] = shown[c][repo] BY <2>0, <2>1
    <2>2. CASE /\ down[c] # <<>>
               /\ shown'[c][repo] = Refreshed(shown[c][repo], Head(down[c]).st)
      <3> DEFINE st == Head(down[c]).st
      <3>1. 1 \in DOMAIN down[c] /\ Head(down[c]) = down[c][1] /\ Head(down[c]) \in Answers
        BY <2>0, <2>2, Tails
      <3>2. st \in Statuses /\ Over(shown[c], st)
        BY <1>1, <3>1 DEF StatusInv, InOrder, Line, Answers
      <3>3. shown'[c][repo] = Refreshed(shown[c][repo], st) BY <2>2
      <3> HIDE DEF st
      <3>4. \/ shown'[c][repo][row] = shown[c][repo][row]
            \/ \E i \in DOMAIN st : st[i][1] = row /\ shown'[c][repo][row] = st[i][2]
        <4>1. PICK old \in [Rows -> Nat], t \in Statuses : old = shown[c][repo] /\ t = st
          BY <2>0, <3>2
        <4>2. \/ Refreshed(old, t)[row] = old[row]
              \/ \E i \in DOMAIN t : t[i][1] = row /\ Refreshed(old, t)[row] = t[i][2]
          BY <4>1, RefreshedType
        <4> QED BY <3>3, <4>1, <4>2
      <3>5. ASSUME NEW i \in DOMAIN st, st[i][1] = row, shown'[c][repo][row] = st[i][2]
            PROVE  shown'[c][repo][row] = 0 \/ shown'[c][repo][row] >= shown[c][repo][row]
        <4>1. st[i][2] \in Nat
          <5>1. st[i] \in Rows \X Nat BY <3>2, <3>5 DEF Statuses
          <5> QED BY <5>1
        <4>2. st[i][2] # 0 => shown[c][repo][row] <= st[i][2] BY <3>2, <3>5 DEF Over
        <4>3. st[i][2] = 0 \/ st[i][2] >= shown[c][repo][row] BY <2>0, <4>1, <4>2
        <4> QED BY <3>5, <4>3
      <3> QED BY <2>0, <3>4, <3>5
    <2> QED BY <1>1, <2>1, <2>2, ShownStep DEF StatusInv, Applies, Ends
  <1> QED BY <1>1, StatusInvAlways, PTL DEF Spec, NeverBackward

-----------------------------------------------------------------------------
(* Uploads, whose frames are streamed without waiting for an answer: what the client
   is told of them. *)

\* The frames of an upload follow each other, its start first and its finish last,
\* and uploads in the order of their numbers.
Precedes(f, g) ==
  /\ f.r.id <= g.r.id
  /\ f.t = "finish" \/ g.t = "start" => f.r.id < g.r.id

\* So do the frames u, the job s that is streamed and the queue q of those to come.
Orderly(u, s, q) ==
  /\ \A i, j \in DOMAIN u : i < j /\ u[i].t # "op" /\ u[j].t # "op" => Precedes(u[i], u[j])
  /\ \A i \in DOMAIN u : u[i].t # "op" /\ s # Idle =>
       u[i].r.id <= s.r.id /\ (u[i].t = "finish" => u[i].r.id < s.r.id)
  /\ \A i \in DOMAIN u, k \in DOMAIN q : u[i].t # "op" => u[i].r.id < q[k].id
  /\ \A k \in DOMAIN q : s # Idle => s.r.id < q[k].id
  /\ \A k, l \in DOMAIN q : k < l => q[k].id < q[l].id

\* Number n is below those of the uploads whose start was not handled yet.
Before(u, q, n) ==
  /\ \A i \in DOMAIN u : u[i].t = "start" => n < u[i].r.id
  /\ \A k \in DOMAIN q : n < q[k].id

\* Nothing more comes of upload n.
Done(u, s, n) ==
  /\ \A i \in DOMAIN u : u[i].t # "op" => u[i].r.id # n
  /\ s # Idle => s.r.id # n

Serial == \A c \in Conns : Orderly(up[c], stream[c], queue[c])

\* What was dealt with has had its start.
Dealt(c, n) == n < nextId[c] /\ Before(up[c], queue[c], n)
InTurn ==
  /\ \A c \in Conns : /\ Dealt(c, incoming[c].r.id) /\ Dealt(c, discarded[c])
                      /\ \A i \in DOMAIN down[c] : down[c][i].t = "upload" =>
                           Dealt(c, down[c][i].r.id)
  /\ \A q \in files \cup refused : q.c \in Conns /\ Dealt(q.c, q.id)

FilesAreDone == \A q \in files : Done(up[q.c], stream[q.c], q.id)

\* The upload of an answer, or of a notice, is what it says.
Failed(c, r) == r \notin files /\ r.id # incoming[c].r.id
AnswersAreTrue ==
  /\ \A c \in Conns : \A i \in DOMAIN down[c] : down[c][i].t = "upload" =>
       IF down[c][i].ok THEN down[c][i].r \in files ELSE Failed(c, down[c][i].r)
  /\ \A q \in refused : Failed(q.c, q)
  /\ pasted \subseteq files

TruthInv == OwnInv /\ Serial /\ InTurn /\ FilesAreDone /\ AnswersAreTrue

\* The start of upload n is among the first frames of u, before the k-th.
StartIn(u, n, k) == \E j \in DOMAIN u : j < k /\ u[j].t = "start" /\ u[j].r.id = n

\* What follows a start rejected, if it was not one of b, is discarded by d, the number
\* kept for that, or will be.
Discarded(u, s, d, b) ==
  /\ \A i \in DOMAIN u : u[i].t \in {"chunk", "finish"} /\ u[i].r \notin b =>
       d = u[i].r.id \/ StartIn(u, u[i].r.id, i)
  /\ s # Idle /\ s.r \notin b => d = s.r.id \/ StartIn(u, s.r.id, Len(u) + 1)

RestDiscarded == \A c \in Conns : Discarded(up[c], stream[c], discarded[c], begun)

\* An upload is pending until its start is handled.
StillPending ==
  \A c \in Conns :
    /\ \A k \in DOMAIN queue[c] : queue[c][k] \in pend[c]
    /\ \A i \in DOMAIN up[c] : up[c][i].t = "start" => up[c][i].r \in pend[c]

RejectInv == TruthInv /\ RestDiscarded /\ StillPending /\ RejectedOnce

-----------------------------------------------------------------------------
(* How the frames of a connection move on *)

\* From frames u, job s and queue q to v, t and p, k being the next number: nothing
\* moves, a job is queued, an operation is sent, ...
Rests(u, s, q, v, t, p) == v = u /\ t = s /\ p = q
Queues(u, s, q, v, t, p, k) == v = u /\ t = s /\ \E r \in Reqs : r.id = k /\ p = Append(q, r)
SendsOp(u, s, q, v, t, p) == t = s /\ p = q /\ \E f \in Frames : f.t = "op" /\ v = Append(u, f)
\* ... a file is streamed, ...
Starts(u, s, q, v, t, p) ==
  /\ s = Idle /\ q # <<>> /\ p = Tail(q) /\ t = [r |-> Head(q), n |-> 0]
  /\ v = Append(u, Frame("start", Head(q), 0))
GoesOn(u, s, q, v, t, p) ==
  /\ s # Idle /\ p = q /\ t \in Uploads /\ t.r = s.r
  /\ \E n \in Nat : v = Append(u, Frame("chunk", s.r, n))
Finishes(u, s, q, v, t, p) ==
  s # Idle /\ p = q /\ t = Idle /\ v = Append(u, Frame("finish", s.r, 0))
\* ... the loop takes a frame, or all is lost.
Takes(u, s, q, v, t, p) == u # <<>> /\ v = Tail(u) /\ t = s /\ p = q
Lost(v, t, p) == v = <<>> /\ t = Idle /\ p = <<>>

Flow(u, s, q, v, t, p, k) ==
  \/ Rests(u, s, q, v, t, p) \/ Queues(u, s, q, v, t, p, k) \/ SendsOp(u, s, q, v, t, p)
  \/ Starts(u, s, q, v, t, p) \/ GoesOn(u, s, q, v, t, p) \/ Finishes(u, s, q, v, t, p)
  \/ Takes(u, s, q, v, t, p) \/ Lost(v, t, p)

\* What a flow appends to the frames: an operation's, or the next of a file's.
LEMMA FlowAppends ==
  ASSUME NEW u \in Seq(Frames), NEW s \in Uploads \cup {Idle}, NEW q \in Seq(Reqs),
         NEW v, NEW t, NEW p, NEW f,
         \/ f \in Frames /\ f.t = "op"
         \/ f = Frame("start", Head(q), 0) /\ q # <<>>
         \/ s # Idle /\ \E n \in Nat : f = Frame("chunk", s.r, n)
         \/ s # Idle /\ f = Frame("finish", s.r, 0)
  PROVE  f \in Frames
  <1>1. q # <<>> => Head(q) \in Reqs BY Tails
  <1>2. s # Idle => s.r \in Reqs BY DEF Uploads
  <1> QED BY <1>1, <1>2, Records

\* The order is kept.
LEMMA OrderlyFlow ==
  ASSUME NEW u \in Seq(Frames), NEW s \in Uploads \cup {Idle}, NEW q \in Seq(Reqs),
         NEW v, NEW t, NEW p, NEW k \in Nat, Flow(u, s, q, v, t, p, k), Orderly(u, s, q),
         \A i \in DOMAIN u : u[i].r.id < k,
         \A i \in DOMAIN q : q[i].id < k,
         s # Idle => s.r.id < k
  PROVE  Orderly(v, t, p)
  <1>0. /\ \A i \in DOMAIN u : u[i].r.id \in Nat
        /\ \A i \in DOMAIN q : q[i].id \in Nat
        /\ s # Idle => s.r.id \in Nat
    <2>1. \A i \in DOMAIN u : u[i] \in Frames OBVIOUS
    <2>2. \A i \in DOMAIN q : q[i] \in Reqs OBVIOUS
    <2> QED BY <2>1, <2>2 DEF Frames, Uploads, Reqs
  <1>1. ASSUME NEW f \in Frames
        PROVE  LET w == Append(u, f)
               IN /\ \A i \in DOMAIN u : i \in DOMAIN w /\ w[i] = u[i] /\ i < Len(u) + 1
                  /\ \A i \in DOMAIN w : i \in Nat /\ (i \in DOMAIN u \/ i = Len(u) + 1)
                  /\ w[Len(u) + 1] = f /\ Len(u) \in Nat
    BY Appends
  <1>2. ASSUME NEW f \in Frames,
               f.t # "op" => \A i \in DOMAIN u : u[i].t # "op" => Precedes(u[i], f)
        PROVE  LET w == Append(u, f)
               IN \A i, j \in DOMAIN w :
                    i < j /\ w[i].t # "op" /\ w[j].t # "op" => Precedes(w[i], w[j])
    <2> DEFINE w == Append(u, f)
    <2> SUFFICES ASSUME NEW i \in DOMAIN w, NEW j \in DOMAIN w, i < j, w[i].t # "op",
                        w[j].t # "op"
                 PROVE  Precedes(w[i], w[j])
      OBVIOUS
    <2>1. i \in DOMAIN u /\ w[i] = u[i]
      <3>1. i # Len(u) + 1 \/ j # Len(u) + 1 BY <1>1
      <3>2. CASE i = Len(u) + 1
        <4>1. j \in DOMAIN u BY <1>1, <3>1, <3>2
        <4>2. j < i /\ i \in Nat /\ j \in Nat BY <1>1, <3>2, <4>1
        <4> QED BY <4>2
      <3> QED BY <1>1, <3>2
    <2>2. CASE j \in DOMAIN u BY <1>1, <2>1, <2>2 DEF Orderly
    <2>3. CASE j = Len(u) + 1 BY <1>1, <1>2, <2>1, <2>3
    <2> QED BY <1>1, <2>2, <2>3
  <1>3. CASE Rests(u, s, q, v, t, p) BY <1>3 DEF Rests
  <1>4. CASE Queues(u, s, q, v, t, p, k)
    <2>1. PICK r \in Reqs : r.id = k /\ p = Append(q, r) BY <1>4 DEF Queues
    <2>2. /\ \A i \in DOMAIN p : i \in Nat /\ (i \in DOMAIN q \/ i = Len(q) + 1)
          /\ \A i \in DOMAIN q : p[i] = q[i] /\ i < Len(q) + 1
          /\ p[Len(q) + 1] = r /\ Len(q) \in Nat
      BY <2>1, Appends
    <2>3. ASSUME NEW i \in DOMAIN p, NEW j \in DOMAIN p, i < j PROVE p[i].id < p[j].id
      <3>1. i \in DOMAIN q
        <4>1. CASE i = Len(q) + 1
          <5>1. j < i \/ j = i BY <2>2, <4>1
          <5> QED BY <2>2, <2>3, <5>1
        <4> QED BY <2>2, <4>1
      <3>2. CASE j \in DOMAIN q BY <2>2, <2>3, <3>1, <3>2 DEF Orderly
      <3>3. CASE j = Len(q) + 1 BY <2>1, <2>2, <3>1, <3>3
      <3> QED BY <2>2, <3>2, <3>3
    <2>4. ASSUME NEW n \in Nat, n < k, \A i \in DOMAIN q : n < q[i].id
          PROVE  \A i \in DOMAIN p : n < p[i].id
      BY <2>1, <2>2, <2>4
    <2>5. \A i \in DOMAIN u : u[i].t # "op" => \A j \in DOMAIN p : u[i].r.id < p[j].id
      BY <1>0, <2>4 DEF Orderly
    <2>6. s # Idle => \A i \in DOMAIN p : s.r.id < p[i].id
      BY <1>0, <2>4 DEF Orderly
    <2> QED BY <1>4, <2>3, <2>5, <2>6 DEF Queues, Orderly
  <1>5. CASE SendsOp(u, s, q, v, t, p)
    <2>1. PICK f \in Frames : f.t = "op" /\ v = Append(u, f) BY <1>5 DEF SendsOp
    <2>2. \A i \in DOMAIN v : v[i].t # "op" => i \in DOMAIN u /\ v[i] = u[i]
      BY <1>1, <2>1
    <2> QED BY <1>2, <1>5, <2>1, <2>2 DEF SendsOp, Orderly
  <1>6. CASE Starts(u, s, q, v, t, p)
    <2>1. PICK f \in Frames : f = Frame("start", Head(q), 0) BY <1>6, FlowAppends DEF Starts
    <2>2. v = Append(u, f) /\ f.t = "start" /\ f.r = q[1] /\ 1 \in DOMAIN q
      BY <1>6, <2>1, Tails DEF Starts, Frame
    <2>3. \A i \in DOMAIN p : i \in Nat /\ i + 1 \in DOMAIN q /\ p[i] = q[i + 1] /\ 1 < i + 1
      <3>1. \A i \in DOMAIN Tail(q) : i \in Nat /\ i >= 1 OBVIOUS
      <3> QED BY <1>6, <3>1, Tails DEF Starts
    <2>4. t.r = q[1] BY <1>6, <2>2, Tails DEF Starts
    <2>5. \A i \in DOMAIN u : u[i].t # "op" => u[i].r.id < q[1].id
      BY <2>2 DEF Orderly
    <2>6. \A i \in DOMAIN p : q[1].id < p[i].id BY <2>2, <2>3 DEF Orderly
    <2>7. q[1].id \in Nat BY <1>0, <2>2
    <2>8. \A i, j \in DOMAIN v :
            i < j /\ v[i].t # "op" /\ v[j].t # "op" => Precedes(v[i], v[j])
      <3>1. \A i \in DOMAIN u : u[i].t # "op" => Precedes(u[i], f)
        BY <1>0, <2>2, <2>5, <2>7 DEF Precedes
      <3> QED BY <1>2, <2>2, <3>1
    <2>9. ASSUME NEW i \in DOMAIN v, v[i].t # "op"
          PROVE  /\ v[i].r.id <= t.r.id /\ (v[i].t = "finish" => v[i].r.id < t.r.id)
                 /\ \A j \in DOMAIN p : v[i].r.id < p[j].id
      <3>1. CASE i \in DOMAIN u
        <4>1. v[i] = u[i] /\ u[i].r.id < q[1].id BY <1>1, <2>2, <2>5, <2>9, <3>1
        <4>2. \A j \in DOMAIN p : u[i].r.id < p[j].id BY <2>3, <2>9, <3>1, <4>1 DEF Orderly
        <4> QED BY <1>0, <2>4, <2>7, <3>1, <4>1, <4>2
      <3>2. CASE i = Len(u) + 1
        <4>1. v[i] = f BY <1>1, <2>2, <3>2
        <4> QED BY <2>2, <2>4, <2>6, <2>7, <4>1
      <3> QED BY <1>1, <2>2, <3>1, <3>2
    <2>10. \A i, j \in DOMAIN p : i < j => p[i].id < p[j].id
      <3>1. \A i, j \in DOMAIN p : i < j => i + 1 < j + 1 BY <2>3
      <3> QED BY <2>3, <3>1 DEF Orderly
    <2> QED BY <2>4, <2>6, <2>8, <2>9, <2>10 DEF Orderly
  <1>7. CASE GoesOn(u, s, q, v, t, p) \/ Finishes(u, s, q, v, t, p)
    <2>1. PICK f \in Frames :
            /\ v = Append(u, f) /\ f.r = s.r
            /\ f.t = "chunk" \/ (f.t = "finish" /\ t = Idle)
      <3>1. CASE GoesOn(u, s, q, v, t, p)
        <4>1. PICK n \in Nat : v = Append(u, Frame("chunk", s.r, n)) BY <3>1 DEF GoesOn
        <4>2. Frame("chunk", s.r, n) \in Frames BY <3>1, FlowAppends DEF GoesOn
        <4> QED BY <4>1, <4>2 DEF Frame
      <3>2. CASE Finishes(u, s, q, v, t, p)
        <4>1. Frame("finish", s.r, 0) \in Frames BY <3>2, FlowAppends DEF Finishes
        <4> QED BY <3>2, <4>1 DEF Frame, Finishes
      <3> QED BY <1>7, <3>1, <3>2
    <2>2. s # Idle /\ p = q /\ (t # Idle => t.r = s.r) BY <1>7 DEF GoesOn, Finishes
    <2>3. \A i \in DOMAIN u : u[i].t # "op" => Precedes(u[i], f)
      BY <1>0, <2>1, <2>2 DEF Orderly, Precedes
    <2>4. \A i, j \in DOMAIN v :
            i < j /\ v[i].t # "op" /\ v[j].t # "op" => Precedes(v[i], v[j])
      BY <1>2, <2>1, <2>3
    <2>5. ASSUME NEW i \in DOMAIN v, v[i].t # "op"
          PROVE  /\ t # Idle => /\ v[i].r.id <= t.r.id
                                /\ v[i].t = "finish" => v[i].r.id < t.r.id
                 /\ \A j \in DOMAIN p : v[i].r.id < p[j].id
      <3>1. CASE i \in DOMAIN u
        <4>1. v[i] = u[i] BY <1>1, <2>1, <3>1
        <4> QED BY <2>2, <2>5, <3>1, <4>1 DEF Orderly
      <3>2. CASE i = Len(u) + 1
        <4>1. v[i] = f BY <1>1, <2>1, <3>2
        <4> QED BY <1>0, <2>1, <2>2, <4>1 DEF Orderly
      <3> QED BY <1>1, <2>1, <3>1, <3>2
    <2> QED BY <2>2, <2>4, <2>5 DEF Orderly
  <1>8. CASE Takes(u, s, q, v, t, p)
    <2>1. \A i \in DOMAIN v : i \in Nat /\ i + 1 \in DOMAIN u /\ v[i] = u[i + 1]
      BY <1>8, Tails DEF Takes
    <2>2. \A i, j \in DOMAIN v : i < j => i + 1 < j + 1 BY <2>1
    <2>3. \A i, j \in DOMAIN v :
            i < j /\ v[i].t # "op" /\ v[j].t # "op" => Precedes(v[i], v[j])
      BY <2>1, <2>2 DEF Orderly
    <2> QED BY <1>8, <2>1, <2>3 DEF Takes, Orderly
  <1>9. CASE Lost(v, t, p)
    <2>1. DOMAIN v = {} /\ DOMAIN p = {} BY <1>9 DEF Lost
    <2> QED BY <1>9, <2>1 DEF Lost, Orderly
  <1> QED BY <1>3, <1>4, <1>5, <1>6, <1>7, <1>8, <1>9 DEF Flow

\* A number is behind the uploads to come as long as it was, ...
LEMMA BeforeFlow ==
  ASSUME NEW u \in Seq(Frames), NEW s \in Uploads \cup {Idle}, NEW q \in Seq(Reqs),
         NEW v, NEW t, NEW p, NEW k \in Nat, Flow(u, s, q, v, t, p, k),
         NEW n \in Nat, n < k, Before(u, q, n)
  PROVE  Before(v, p, n)
  <1>1. ASSUME NEW f \in Frames, f.t = "start" => n < f.r.id, v = Append(u, f)
        PROVE  \A i \in DOMAIN v : v[i].t = "start" => n < v[i].r.id
    <2>1. \A i \in DOMAIN v : (i \in DOMAIN u /\ v[i] = u[i]) \/ v[i] = f
      BY <1>1, Appends
    <2> QED BY <1>1, <2>1 DEF Before
  <1>2. CASE Rests(u, s, q, v, t, p) BY <1>2 DEF Rests
  <1>3. CASE Queues(u, s, q, v, t, p, k)
    <2>1. PICK r \in Reqs : r.id = k /\ p = Append(q, r) BY <1>3 DEF Queues
    <2>2. \A i \in DOMAIN p : (i \in DOMAIN q /\ p[i] = q[i]) \/ p[i] = r
      BY <2>1, Appends
    <2> QED BY <1>3, <2>1, <2>2 DEF Queues, Before
  <1>4. CASE SendsOp(u, s, q, v, t, p)
    <2>1. PICK f \in Frames : f.t = "op" /\ v = Append(u, f) BY <1>4 DEF SendsOp
    <2> QED BY <1>1, <1>4, <2>1 DEF SendsOp, Before
  <1>5. CASE Starts(u, s, q, v, t, p)
    <2>1. PICK f \in Frames : f = Frame("start", Head(q), 0) BY <1>5, FlowAppends DEF Starts
    <2>2. v = Append(u, f) /\ f.r = q[1] /\ 1 \in DOMAIN q
      BY <1>5, <2>1, Tails DEF Starts, Frame
    <2>3. \A i \in DOMAIN p : i + 1 \in DOMAIN q /\ p[i] = q[i + 1]
      BY <1>5, Tails DEF Starts
    <2> QED BY <1>1, <2>2, <2>3 DEF Before
  <1>6. CASE GoesOn(u, s, q, v, t, p)
    <2>1. PICK m \in Nat : v = Append(u, Frame("chunk", s.r, m)) BY <1>6 DEF GoesOn
    <2>2. PICK f \in Frames : f = Frame("chunk", s.r, m) BY <1>6, FlowAppends DEF GoesOn
    <2>3. f.t # "start" BY <2>2 DEF Frame
    <2> QED BY <1>1, <1>6, <2>1, <2>2, <2>3 DEF GoesOn, Before
  <1>7. CASE Finishes(u, s, q, v, t, p)
    <2>1. PICK f \in Frames : f = Frame("finish", s.r, 0) BY <1>7, FlowAppends DEF Finishes
    <2>2. f.t # "start" BY <2>1 DEF Frame
    <2> QED BY <1>1, <1>7, <2>1, <2>2 DEF Finishes, Before
  <1>8. CASE Takes(u, s, q, v, t, p)
    <2>1. \A i \in DOMAIN v : i + 1 \in DOMAIN u /\ v[i] = u[i + 1]
      BY <1>8, Tails DEF Takes
    <2> QED BY <1>8, <2>1 DEF Takes, Before
  <1>9. CASE Lost(v, t, p)
    <2>1. DOMAIN v = {} /\ DOMAIN p = {} BY <1>9 DEF Lost
    <2> QED BY <2>1 DEF Before
  <1> QED BY <1>2, <1>3, <1>4, <1>5, <1>6, <1>7, <1>8, <1>9 DEF Flow

\* ... and an upload behind them is done with once and for all.
LEMMA DoneFlow ==
  ASSUME NEW u \in Seq(Frames), NEW s \in Uploads \cup {Idle}, NEW q \in Seq(Reqs),
         NEW v, NEW t, NEW p, NEW k \in Nat, Flow(u, s, q, v, t, p, k),
         NEW n \in Nat, Before(u, q, n), Done(u, s, n)
  PROVE  Done(v, t, n)
  <1>1. ASSUME NEW f \in Frames, f.t # "op" => f.r.id # n, v = Append(u, f)
        PROVE  \A i \in DOMAIN v : v[i].t # "op" => v[i].r.id # n
    <2>1. \A i \in DOMAIN v : (i \in DOMAIN u /\ v[i] = u[i]) \/ v[i] = f
      BY <1>1, Appends
    <2> QED BY <1>1, <2>1 DEF Done
  <1>2. CASE Rests(u, s, q, v, t, p) \/ Queues(u, s, q, v, t, p, k)
    BY <1>2 DEF Rests, Queues, Done
  <1>3. CASE SendsOp(u, s, q, v, t, p)
    <2>1. PICK f \in Frames : f.t = "op" /\ v = Append(u, f) BY <1>3 DEF SendsOp
    <2> QED BY <1>1, <1>3, <2>1 DEF SendsOp, Done
  <1>4. CASE Starts(u, s, q, v, t, p)
    <2>1. PICK f \in Frames : f = Frame("start", Head(q), 0) BY <1>4, FlowAppends DEF Starts
    <2>2. v = Append(u, f) /\ f.r = q[1] /\ 1 \in DOMAIN q /\ t.r = q[1]
      BY <1>4, <2>1, Tails DEF Starts, Frame
    <2>3. q[1].id # n
      <3>1. n < q[1].id BY <2>2 DEF Before
      <3>2. q[1] \in Reqs BY <2>2
      <3>3. q[1].id \in Nat BY <3>2 DEF Reqs
      <3> QED BY <3>1, <3>3
    <2> QED BY <1>1, <2>2, <2>3 DEF Done
  <1>5. CASE GoesOn(u, s, q, v, t, p)
    <2>1. PICK m \in Nat : v = Append(u, Frame("chunk", s.r, m)) BY <1>5 DEF GoesOn
    <2>2. PICK f \in Frames : f = Frame("chunk", s.r, m) BY <1>5, FlowAppends DEF GoesOn
    <2>3. f.r = s.r BY <2>2 DEF Frame
    <2> QED BY <1>1, <1>5, <2>1, <2>2, <2>3 DEF GoesOn, Done
  <1>6. CASE Finishes(u, s, q, v, t, p)
    <2>1. PICK f \in Frames : f = Frame("finish", s.r, 0) BY <1>6, FlowAppends DEF Finishes
    <2>2. f.r = s.r BY <2>1 DEF Frame
    <2> QED BY <1>1, <1>6, <2>1, <2>2 DEF Finishes, Done
  <1>7. CASE Takes(u, s, q, v, t, p)
    <2>1. \A i \in DOMAIN v : i + 1 \in DOMAIN u /\ v[i] = u[i + 1]
      BY <1>7, Tails DEF Takes
    <2> QED BY <1>7, <2>1 DEF Takes, Done
  <1>8. CASE Lost(v, t, p)
    <2>1. DOMAIN v = {} BY <1>8 DEF Lost
    <2> QED BY <1>8, <2>1 DEF Done, Lost
  <1> QED BY <1>2, <1>3, <1>4, <1>5, <1>6, <1>7, <1>8 DEF Flow

\* The frames of a connection move on by the streaming of its client and the handling of
\* its loop, and no others.
FlowOf(c) ==
  Flow(up[c], stream[c], queue[c], up'[c], stream'[c], queue'[c], nextId[c])

\* Every step is one of those flows.
LEMMA FlowStep ==
  ASSUME Types, [Next]_vars, NEW c \in Conns
  PROVE  FlowOf(c)
  <1> USE DEF FlowOf, Flow
  <1>0. /\ up \in [Conns -> Seq(Frames)] /\ queue \in [Conns -> Seq(Reqs)]
        /\ stream \in [Conns -> Uploads \cup {Idle}] /\ nextId \in [Conns -> Nat \ {0}]
    BY DEF Types, ClientType, WorldType
  <1>1. ASSUME up'[c] = up[c], stream'[c] = stream[c], queue'[c] = queue[c] PROVE FlowOf(c)
    BY <1>1 DEF Rests
  <1>2. ASSUME NEW d \in Conns, MakeRequest(d) PROVE FlowOf(c)
    <2>1. stream' = stream BY <1>2 DEF MakeRequest, Upload, SendOp
    <2>2. PICK r \in Reqs : r = Request(d) /\ r.id = nextId[d]
      BY <1>2, NewRequest DEF MakeRequest, Upload, SendOp
    <2>3. CASE c # d
      BY <1>0, <1>1, <1>2, <2>1, <2>3 DEF MakeRequest, Upload, SendOp, Send
    <2>4. CASE c = d /\ Upload(d)
      <3>1. up' = up /\ (queue' = queue \/ queue' = [queue EXCEPT ![d] = Append(@, r)])
        BY <2>2, <2>4 DEF Upload
      <3>2. CASE queue' = queue BY <1>1, <2>1, <3>1, <3>2
      <3>3. CASE queue' = [queue EXCEPT ![d] = Append(@, r)]
        <4>1. queue'[c] = Append(queue[c], r) BY <1>0, <2>4, <3>3
        <4> QED BY <2>1, <2>2, <2>4, <3>1, <4>1 DEF Queues
      <3> QED BY <3>1, <3>2, <3>3
    <2>5. CASE c = d /\ SendOp(d)
      <3>1. PICK f \in Frames : f = Frame("op", r, 0) BY Records
      <3>2. f.t = "op" BY <3>1 DEF Frame
      <3>3. up'[c] = Append(up[c], f) /\ queue' = queue
        BY <1>0, <2>2, <2>5, <3>1, Sends DEF SendOp
      <3> QED BY <2>1, <3>2, <3>3 DEF SendsOp
    <2> QED BY <1>2, <2>3, <2>4, <2>5 DEF MakeRequest
  <1>3. ASSUME NEW d \in Conns, Stream(d) PROVE FlowOf(c)
    <2>1. CASE c # d
      BY <1>0, <1>1, <1>3, <2>1 DEF Stream, StreamStart, StreamNext, Send
    <2>2. CASE c = d /\ StreamStart(d)
      <3>1. /\ stream[c] = Idle /\ queue[c] # <<>> /\ queue'[c] = Tail(queue[c])
            /\ stream'[c] = [r |-> Head(queue[c]), n |-> 0]
            /\ up'[c] = Append(up[c], Frame("start", Head(queue[c]), 0))
        BY <1>0, <2>2 DEF StreamStart, Send
      <3> QED BY <3>1 DEF Starts
    <2>3. CASE c = d /\ StreamNext(d)
      <3>1. stream[c] # Idle /\ queue' = queue /\ stream[c] \in Uploads
        BY <1>0, <2>3 DEF StreamNext
      <3>2. CASE /\ Send(d, Frame("chunk", stream[d].r, stream[d].n))
                 /\ stream' = [stream EXCEPT ![d].n = @ + 1]
        <4>1. stream'[c] = [stream[c] EXCEPT !.n = @ + 1] BY <1>0, <2>3, <3>2
        <4>2. stream'[c] \in Uploads /\ stream'[c].r = stream[c].r
          BY <3>1, <4>1 DEF Uploads
        <4>3. up'[c] = Append(up[c], Frame("chunk", stream[c].r, stream[c].n))
              /\ stream[c].n \in Nat
          BY <1>0, <2>3, <3>1, <3>2 DEF Send, Uploads
        <4> QED BY <3>1, <4>2, <4>3 DEF GoesOn
      <3>3. CASE /\ Send(d, Frame("finish", stream[d].r, 0))
                 /\ stream' = [stream EXCEPT ![d] = Idle]
        <4>1. up'[c] = Append(up[c], Frame("finish", stream[c].r, 0)) /\ stream'[c] = Idle
          BY <1>0, <2>3, <3>3 DEF Send
        <4> QED BY <3>1, <4>1 DEF Finishes
      <3> QED BY <2>3, <3>2, <3>3 DEF StreamNext
    <2> QED BY <1>3, <2>1, <2>2, <2>3 DEF Stream
  <1>4. ASSUME NEW d \in Conns, Handle(d) PROVE FlowOf(c)
    <2>1. /\ up[d] # <<>> /\ up' = [up EXCEPT ![d] = Tail(@)]
          /\ stream' = stream /\ queue' = queue
      BY <1>4
      DEF Handle, UploadStart, UploadChunk, UploadFinish, DispatchOp, FrameIs, TakeFrame, client
    <2>2. CASE c # d BY <1>0, <1>1, <2>1, <2>2
    <2>3. CASE c = d BY <1>0, <2>1, <2>3 DEF Takes
    <2> QED BY <2>2, <2>3
  <1>5. ASSUME NEW d \in Conns, Cancelled(d) \/ Disconnect(d) PROVE FlowOf(c)
    <2>1. CASE c # d BY <1>0, <1>1, <1>5, <2>1 DEF Cancelled, Disconnect, End
    <2>2. CASE c = d BY <1>0, <1>5, <2>2 DEF Cancelled, Disconnect, End, Lost
    <2> QED BY <2>1, <2>2
  <1>6. \/ UNCHANGED <<up, stream, queue>>
        \/ \E d \in Conns : \/ MakeRequest(d) \/ Stream(d) \/ Handle(d)
                            \/ Cancelled(d) \/ Disconnect(d)
    BY DEF Next, Receive, IgnoreAnswer, ApplyUpload, ApplyOp, SeeExit, GitEnds, OpReply,
           GhWorker, GhRecv, GhDrain, GhLookup, GhReply, Attach, SessionExit, Upstream,
           vars, client
  <1> QED BY <1>1, <1>2, <1>3, <1>4, <1>5, <1>6

-----------------------------------------------------------------------------
(* What is dealt with *)

\* Every step keeps the frames in order.
LEMMA SerialNext ==
  ASSUME OwnInv, Serial, [Next]_vars
  PROVE  Serial'
  <1> SUFFICES ASSUME NEW c \in Conns PROVE Orderly(up'[c], stream'[c], queue'[c])
    BY DEF Serial
  <1>0. /\ up[c] \in Seq(Frames) /\ stream[c] \in Uploads \cup {Idle}
        /\ queue[c] \in Seq(Reqs) /\ nextId[c] \in Nat
    BY DEF OwnInv, Types, ClientType, WorldType
  <1>1. /\ \A i \in DOMAIN up[c] : up[c][i].r.id < nextId[c]
        /\ \A i \in DOMAIN queue[c] : queue[c][i].id < nextId[c]
        /\ stream[c] # Idle => stream[c].r.id < nextId[c]
    BY DEF OwnInv, OwnRequests, Own, OwnFrame, AsUpload, Known
  <1>2. Flow(up[c], stream[c], queue[c], up'[c], stream'[c], queue'[c], nextId[c])
    BY FlowStep DEF OwnInv, FlowOf
  <1>3. Orderly(up[c], stream[c], queue[c]) BY DEF Serial
  <1> QED BY <1>0, <1>1, <1>2, <1>3, OrderlyFlow

\* What was dealt with stays so, and so does what is done with.
LEMMA DealtStays ==
  ASSUME OwnInv, [Next]_vars, NEW c \in Conns, NEW n \in Nat, Dealt(c, n)
  PROVE  Dealt(c, n)'
  <1>0. /\ up[c] \in Seq(Frames) /\ stream[c] \in Uploads \cup {Idle}
        /\ queue[c] \in Seq(Reqs) /\ nextId[c] \in Nat
    BY DEF OwnInv, Types, ClientType, WorldType
  <1>1. Flow(up[c], stream[c], queue[c], up'[c], stream'[c], queue'[c], nextId[c])
    BY FlowStep DEF OwnInv, FlowOf
  <1>2. Before(up'[c], queue'[c], n) BY <1>0, <1>1, BeforeFlow DEF Dealt
  <1>3. n < nextId[c] /\ n < nextId[c] + 1 BY <1>0 DEF Dealt
  <1>4. nextId'[c] = nextId[c] \/ nextId'[c] = nextId[c] + 1
    BY CountsNext DEF OwnInv, Counts
  <1>5. n < nextId'[c] BY <1>3, <1>4
  <1> QED BY <1>2, <1>5 DEF Dealt

\* Nothing more comes of an upload that is done.
LEMMA DoneStays ==
  ASSUME OwnInv, [Next]_vars, NEW c \in Conns, NEW n \in Nat, Dealt(c, n),
         Done(up[c], stream[c], n)
  PROVE  Done(up'[c], stream'[c], n)
  <1>0. /\ up[c] \in Seq(Frames) /\ stream[c] \in Uploads \cup {Idle}
        /\ queue[c] \in Seq(Reqs) /\ nextId[c] \in Nat
    BY DEF OwnInv, Types, ClientType, WorldType
  <1>1. Flow(up[c], stream[c], queue[c], up'[c], stream'[c], queue'[c], nextId[c])
    BY FlowStep DEF OwnInv, FlowOf
  <1> QED BY <1>0, <1>1, DoneFlow DEF Dealt

\* Numbers are from 1.
LEMMA ZeroDealt ==
  ASSUME Types, NEW c \in Conns
  PROVE  Dealt(c, 0)
  <1>1. up[c] \in Seq(Frames) /\ queue[c] \in Seq(Reqs) /\ 0 < nextId[c]
    BY DEF Types, ClientType, WorldType
  <1>2. \A r \in Reqs : 0 < r.id BY DEF Reqs
  <1>3. \A i \in DOMAIN up[c] : up[c][i] \in Frames BY <1>1
  <1>4. \A i \in DOMAIN up[c] : up[c][i].r \in Reqs BY <1>3 DEF Frames
  <1>5. \A k \in DOMAIN queue[c] : queue[c][k] \in Reqs BY <1>1
  <1> QED BY <1>1, <1>2, <1>4, <1>5 DEF Dealt, Before

\* The loop handles a frame of an upload.
HandlesUpload(c) == UploadStart(c) \/ UploadChunk(c) \/ UploadFinish(c)

\* That frame is the first, and of an upload whose other frames are in order behind it.
LEMMA Handled ==
  ASSUME OwnInv, Serial, NEW c \in Conns, HandlesUpload(c)
  PROVE  /\ up[c] # <<>> /\ 1 \in DOMAIN up[c] /\ Head(up[c]) = up[c][1]
         /\ Head(up[c]) \in Frames
         /\ Head(up[c]).r \in Reqs /\ Head(up[c]).r.kind = "upload" /\ Known(c, Head(up[c]).r)
         /\ up'[c] = Tail(up[c]) /\ queue' = queue /\ stream' = stream /\ pend' = pend
         /\ nextId' = nextId
         /\ Head(up[c]).r.id < nextId[c] /\ Before(up'[c], queue'[c], Head(up[c]).r.id)
  <1> DEFINE f == Head(up[c])
  <1>0. up \in [Conns -> Seq(Frames)] /\ queue[c] \in Seq(Reqs)
    BY DEF OwnInv, Types, ClientType, WorldType
  <1>1. /\ up[c] # <<>> /\ up'[c] = Tail(up[c]) /\ f.t \in {"start", "chunk", "finish"}
        /\ queue' = queue /\ stream' = stream /\ pend' = pend /\ nextId' = nextId
    BY <1>0
    DEF HandlesUpload, UploadStart, UploadChunk, UploadFinish, FrameIs, TakeFrame, client
  <1>2. 1 \in DOMAIN up[c] /\ f = up[c][1] /\ f \in Frames BY <1>0, <1>1, Tails
  <1>3. f.r \in Reqs BY <1>2 DEF Frames
  <1>4. Known(c, f.r) /\ f.r.kind = "upload"
    BY <1>1, <1>2 DEF OwnInv, OwnRequests, Own, OwnFrame
  <1>5. \A i \in DOMAIN Tail(up[c]) :
          /\ i + 1 \in DOMAIN up[c] /\ 1 < i + 1 /\ Tail(up[c])[i] = up[c][i + 1]
    <2>1. Tail(up[c]) \in Seq(Frames) BY <1>0, <1>1, Tails
    <2>2. \A i \in DOMAIN Tail(up[c]) : i \in Nat /\ 1 < i + 1 BY <2>1
    <2> QED BY <1>0, <1>1, <2>2, Tails
  <1>6. Orderly(up[c], stream[c], queue[c]) BY DEF Serial
  <1> HIDE DEF f
  <1>7. Before(Tail(up[c]), queue[c], f.r.id)
    <2>1. \A i \in DOMAIN Tail(up[c]) : Tail(up[c])[i].t = "start" => f.r.id < Tail(up[c])[i].r.id
      BY <1>1, <1>2, <1>5, <1>6 DEF Orderly, Precedes
    <2>2. \A k \in DOMAIN queue[c] : f.r.id < queue[c][k].id
      BY <1>1, <1>2, <1>6 DEF Orderly
    <2> QED BY <2>1, <2>2 DEF Before
  <1> QED BY <1>1, <1>2, <1>3, <1>4, <1>7 DEF f, Known

\* What is dealt with after a step was before, or is by this step.
LEMMA DealtNext ==
  ASSUME OwnInv, Serial, [Next]_vars, NEW c \in Conns, NEW n \in Nat,
         Dealt(c, n) \/ n = 0 \/ (HandlesUpload(c) /\ n = Head(up[c]).r.id)
  PROVE  Dealt(c, n)'
  <1>1. CASE Dealt(c, n) \/ n = 0 BY <1>1, DealtStays, ZeroDealt DEF OwnInv
  <1>2. CASE HandlesUpload(c) /\ n = Head(up[c]).r.id
    <2>1. n < nextId[c] /\ Before(up'[c], queue'[c], n) /\ nextId' = nextId
      BY <1>2, Handled
    <2> QED BY <2>1 DEF Dealt
  <1> QED BY <1>1, <1>2

\* Who touches the uploads.
LEMMA UploadSteps ==
  [Next]_vars =>
    \/ \E c \in Conns : HandlesUpload(c) \/ ApplyUpload(c) \/ End(c)
    \/ UNCHANGED <<incoming, discarded, begun, files, pasted, refused>>
  BY DEF Next, MakeRequest, Upload, SendOp, Stream, StreamStart, StreamNext, Handle,
         HandlesUpload, DispatchOp, Receive, IgnoreAnswer, ApplyOp, SeeExit, GitEnds,
         OpReply, GhWorker, GhRecv, GhDrain, GhLookup, GhReply, Attach, Cancelled,
         Disconnect, SessionExit, Upstream, vars, client, loop

\* What a step does to the upload that a loop receives, and to the one it discards.
LEMMA LoopStep ==
  ASSUME OwnInv, [Next]_vars, NEW c \in Conns
  PROVE  /\ \/ incoming'[c].r = incoming[c].r \/ incoming'[c] = Idle
            \/ UploadStart(c) /\ incoming'[c].r = Head(up[c]).r
         /\ \/ discarded'[c] = discarded[c] \/ discarded'[c] = 0
            \/ UploadStart(c) /\ discarded'[c] = Head(up[c]).r.id
  <1>0. /\ incoming \in [Conns -> Uploads \cup {Idle}] /\ discarded \in [Conns -> Nat]
    BY DEF OwnInv, Types, SupervisorType
  <1>1. \A x \in Uploads \cup {Idle} : \A n : [x EXCEPT !.n = n].r = x.r
    BY DEF Uploads, Idle
  <1>2. ASSUME NEW d \in Conns, UploadStart(d)
        PROVE  /\ \/ incoming'[c].r = incoming[c].r
                  \/ UploadStart(c) /\ incoming'[c].r = Head(up[c]).r
               /\ \/ discarded'[c] = discarded[c]
                  \/ UploadStart(c) /\ discarded'[c] = Head(up[c]).r.id
    <2>1. CASE c # d BY <1>0, <1>2, <2>1 DEF UploadStart
    <2>2. CASE c = d
      <3>1. /\ \/ incoming' = incoming
               \/ incoming' = [incoming EXCEPT ![c] = [r |-> Head(up[c]).r, n |-> 0]]
            /\ \/ discarded' = discarded
               \/ discarded' = [discarded EXCEPT ![c] = Head(up[c]).r.id]
        BY <1>2, <2>2 DEF UploadStart
      <3>2. /\ incoming'[c].r = incoming[c].r \/ incoming'[c].r = Head(up[c]).r
            /\ discarded'[c] = discarded[c] \/ discarded'[c] = Head(up[c]).r.id
        BY <1>0, <3>1
      <3> QED BY <1>2, <2>2, <3>2
    <2> QED BY <2>1, <2>2
  <1>3. ASSUME NEW d \in Conns, UploadChunk(d)
        PROVE  (incoming'[c].r = incoming[c].r \/ incoming'[c] = Idle) /\ discarded' = discarded
    <2>1. \/ incoming' = incoming \/ incoming' = [incoming EXCEPT ![d] = Idle]
          \/ incoming' = [incoming EXCEPT ![d].n = @ + 1]
      BY <1>3 DEF UploadChunk
    <2>2. discarded' = discarded BY <1>3 DEF UploadChunk
    <2>3. CASE incoming' = [incoming EXCEPT ![d].n = @ + 1]
      <3>1. incoming'[c] = incoming[c] \/ incoming'[c] = [incoming[c] EXCEPT !.n = @ + 1]
        BY <1>0, <2>3
      <3> QED BY <1>0, <1>1, <2>2, <3>1
    <2> QED BY <1>0, <2>1, <2>2, <2>3
  <1>4. ASSUME NEW d \in Conns, UploadFinish(d)
        PROVE  /\ incoming'[c].r = incoming[c].r \/ incoming'[c] = Idle
               /\ discarded'[c] = discarded[c] \/ discarded'[c] = 0
    BY <1>0, <1>4 DEF UploadFinish
  <1>5. ASSUME NEW d \in Conns, End(d)
        PROVE  /\ incoming'[c].r = incoming[c].r \/ incoming'[c] = Idle
               /\ discarded'[c] = discarded[c] \/ discarded'[c] = 0
    BY <1>0, <1>5 DEF End
  <1>6. ASSUME NEW d \in Conns, ApplyUpload(d) PROVE incoming' = incoming /\ discarded' = discarded
    BY <1>6 DEF ApplyUpload, loop
  <1> QED BY <1>2, <1>3, <1>4, <1>5, <1>6, UploadSteps DEF HandlesUpload

\* The answers of a connection after a step: some of those there were, and what the step
\* says of an operation, of an exit, or of the upload that is handled.
SaysOf(c, m) ==
  \/ m.t # "upload"
  \/ HandlesUpload(c) /\ \E ok \in BOOLEAN : m = Answer("upload", Head(up[c]).r, ok, <<>>)

\* No step brings a connection another answer.
LEMMA UploadAnswers ==
  ASSUME OwnInv, Serial, [Next]_vars, NEW c \in Conns
  PROVE  \/ Shrinks(down[c], down'[c])
         \/ \E m \in Answers : SaysOf(c, m) /\ down'[c] = Append(down[c], m)
  <1> USE DEF client, loop, tasks, slot, world
  <1>0. /\ down \in [Conns -> Seq(Answers)] /\ down[c] \in Seq(Answers)
    BY DEF OwnInv, Types, WorldType
  <1>1. ASSUME NEW d \in Conns, HandlesUpload(d)
        PROVE  \/ Shrinks(down[c], down'[c])
               \/ \E m \in Answers : SaysOf(c, m) /\ down'[c] = Append(down[c], m)
    <2> DEFINE r == Head(up[d]).r
    <2>1. down' = down \/ UploadResult(d, r, FALSE) \/ UploadResult(d, r, TRUE)
      BY <1>1 DEF HandlesUpload, UploadStart, UploadChunk, UploadFinish
    <2>2. r \in Reqs BY <1>1, Handled
    <2>3. ASSUME NEW ok \in BOOLEAN, UploadResult(d, r, ok)
          PROVE  \/ down'[c] = down[c]
                 \/ \E m \in Answers : SaysOf(c, m) /\ down'[c] = Append(down[c], m)
      <3>1. PICK m \in Answers : m = Answer("upload", r, ok, <<>>) BY <2>2, Records
      <3>2. Reply(d, <<m>>) BY <2>3, <3>1 DEF UploadResult
      <3>3. down'[c] = down[c] \/ (c = d /\ down'[c] = Append(down[c], m))
        BY <1>0, <3>2, Replies
      <3> QED BY <1>1, <3>1, <3>3 DEF SaysOf
    <2> QED BY <2>1, <2>3 DEF Shrinks
  <1>2. ASSUME NEW m \in Answers, NEW chan, m.t # "upload", Reply(chan, <<m>>)
        PROVE  \/ Shrinks(down[c], down'[c])
               \/ \E x \in Answers : SaysOf(c, x) /\ down'[c] = Append(down[c], x)
    <2>1. down'[c] = down[c] \/ down'[c] = Append(down[c], m) BY <1>0, <1>2, Replies
    <2> QED BY <1>2, <2>1 DEF Shrinks, SaysOf
  <1>3. CASE GitEnds
    <2>1. PICK job \in ops, ok \in BOOLEAN : OpReply(job, ok) BY <1>3 DEF GitEnds
    <2>2. job.r \in Reqs BY DEF OwnInv, Types, SupervisorType, Jobs
    <2>3. PICK m \in Answers : m = Answer("op", job.r, ok, <<>>) BY <2>2, Records
    <2>4. m.t # "upload" /\ Reply(job.chan, <<m>>) BY <2>1, <2>3 DEF OpReply, Answer
    <2> QED BY <1>2, <2>4
  <1>4. CASE GhReply
    <2>1. PICK j \in Jobs : Reply(j.chan, <<GhAnswer(j.r)>>)
      BY <1>4, Acknowledged DEF OwnInv
    <2>2. GhAnswer(j.r) \in Answers /\ GhAnswer(j.r).t # "upload"
      BY Acknowledged DEF OwnInv, GhAnswer, Answer
    <2> QED BY <1>2, <2>1, <2>2
  <1>5. CASE SessionExit
    <2>1. PICK m \in Answers : m = Answer("exited", NoRequest, TRUE, <<>>) BY Records
    <2>2. m.t # "upload" /\ Reply(active, <<m>>) BY <1>5, <2>1 DEF SessionExit, Answer
    <2> QED BY <1>2, <2>2
  <1>6. ASSUME NEW d \in Conns, Receive(d) \/ End(d) PROVE Shrinks(down[c], down'[c])
    BY <1>0, <1>6
    DEF Shrinks, Receive, IgnoreAnswer, ApplyUpload, ApplyOp, SeeExit, AnswerIs, TakeAnswer, End
  <1>7. \/ down' = down
        \/ \E d \in Conns : HandlesUpload(d) \/ Receive(d) \/ End(d)
        \/ GitEnds \/ GhReply \/ SessionExit
    BY DEF Next, MakeRequest, Upload, SendOp, Stream, StreamStart, StreamNext, Handle,
           HandlesUpload, DispatchOp, GhWorker, GhRecv, GhDrain, GhLookup, Attach,
           Cancelled, Disconnect, Upstream, vars
  <1> QED BY <1>1, <1>3, <1>4, <1>5, <1>6, <1>7 DEF Shrinks

\* As a set: the uploads they are about.
LEMMA UploadAnswered ==
  ASSUME OwnInv, Serial, [Next]_vars, NEW c \in Conns, NEW i \in DOMAIN down'[c],
         down'[c][i].t = "upload"
  PROVE  \/ \E k \in DOMAIN down[c] : down'[c][i] = down[c][k]
         \/ /\ HandlesUpload(c)
            /\ \E ok \in BOOLEAN : /\ down'[c][i] = Answer("upload", Head(up[c]).r, ok, <<>>)
                                   /\ down'[c] = Append(down[c], down'[c][i])
  <1>0. down[c] \in Seq(Answers) BY DEF OwnInv, Types, WorldType
  <1>1. CASE Shrinks(down[c], down'[c]) BY <1>0, <1>1, Kept
  <1>2. ASSUME NEW m \in Answers, SaysOf(c, m), down'[c] = Append(down[c], m)
        PROVE  \/ \E k \in DOMAIN down[c] : down'[c][i] = down[c][k]
               \/ /\ HandlesUpload(c)
                  /\ \E ok \in BOOLEAN :
                       /\ down'[c][i] = Answer("upload", Head(up[c]).r, ok, <<>>)
                       /\ down'[c] = Append(down[c], down'[c][i])
    <2>1. (i \in DOMAIN down[c] /\ down'[c][i] = down[c][i]) \/ down'[c][i] = m
      BY <1>0, <1>2, Appends
    <2> QED BY <1>2, <2>1 DEF SaysOf
  <1> QED BY <1>1, <1>2, UploadAnswers

\* A client is told of an upload of its own that it has asked for.
LEMMA UploadTaken ==
  ASSUME OwnInv, NEW c \in Conns, ApplyUpload(c)
  PROVE  LET m == Head(down[c])
         IN /\ down[c] # <<>> /\ 1 \in DOMAIN down[c] /\ m = down[c][1] /\ m.t = "upload"
            /\ m.r \in pend[c] /\ m.r.c = c
            /\ pend' = [pend EXCEPT ![c] = @ \ {m.r}]
            /\ down'[c] = Tail(down[c])
            /\ pasted' = pasted \/ (m.ok /\ pasted' = pasted \cup {m.r})
            /\ refused' = refused \/ (~m.ok /\ refused' = refused \cup {m.r})
  <1> DEFINE m == Head(down[c])
  <1>0. down \in [Conns -> Seq(Answers)] BY DEF OwnInv, Types, WorldType
  <1>1. down[c] # <<>> /\ m.t = "upload" /\ down'[c] = Tail(down[c])
    BY <1>0 DEF ApplyUpload, AnswerIs, TakeAnswer
  <1>2. 1 \in DOMAIN down[c] /\ m = down[c][1] BY <1>0, <1>1, Tails
  <1>3. Known(c, m.r) BY <1>1, <1>2 DEF OwnInv, OwnRequests, Own, OwnAnswer, AsUpload
  <1>4. PICK p \in Asked(c, m) :
          /\ pend' = [pend EXCEPT ![c] = @ \ {p}]
          /\ pasted' = pasted \/ (m.ok /\ pasted' = pasted \cup {p})
          /\ refused' = refused \/ (~m.ok /\ refused' = refused \cup {p})
    BY DEF ApplyUpload
  <1>5. p \in pend[c] /\ p = m.r BY <1>3, <1>4 DEF Asked, Known
  <1> QED BY <1>1, <1>2, <1>3, <1>4, <1>5 DEF Known

\* What is put in place or told to have failed by a step: the upload whose finish is
\* handled, or the one of the answer taken.
LEMMA NewFiles ==
  ASSUME OwnInv, Serial, [Next]_vars, NEW q \in files'
  PROVE  \/ q \in files
         \/ \E c \in Conns : /\ UploadFinish(c) /\ q = Head(up[c]).r
                             /\ incoming[c].r.id = q.id /\ incoming'[c] = Idle
                             /\ discarded[c] # q.id
  <1>0. incoming \in [Conns -> Uploads \cup {Idle}] BY DEF OwnInv, Types, SupervisorType
  <1>1. files' = files \/ \E c \in Conns : UploadFinish(c)
    BY UploadSteps DEF HandlesUpload, UploadStart, UploadChunk, ApplyUpload, End, loop
  <1>2. ASSUME NEW c \in Conns, UploadFinish(c), q \notin files
        PROVE  /\ q = Head(up[c]).r /\ incoming[c].r.id = q.id /\ incoming'[c] = Idle
               /\ discarded[c] # q.id
    BY <1>0, <1>2 DEF UploadFinish
  <1> QED BY <1>1, <1>2

\* An upload is refused as an answer to it is taken that says so.
LEMMA NewRefused ==
  ASSUME OwnInv, [Next]_vars, NEW q \in refused'
  PROVE  \/ q \in refused
         \/ \E c \in Conns : ApplyUpload(c) /\ q = Head(down[c]).r /\ ~Head(down[c]).ok
  <1>1. refused' = refused \/ \E c \in Conns : ApplyUpload(c)
    BY UploadSteps
    DEF HandlesUpload, UploadStart, UploadChunk, UploadFinish, End, client
  <1> QED BY <1>1, UploadTaken

\* Every step keeps what was dealt with behind what is to come.
LEMMA InTurnNext ==
  ASSUME OwnInv, Serial, InTurn, [Next]_vars
  PROVE  InTurn'
  <1>0. /\ Types' /\ Idle.r.id = 0
        /\ incoming \in [Conns -> Uploads \cup {Idle}] /\ discarded \in [Conns -> Nat]
        /\ files \subseteq Reqs /\ refused \subseteq Reqs
    BY TypesNext, Records DEF OwnInv, Types, SupervisorType, ClientType
  <1>t. /\ incoming' \in [Conns -> Uploads \cup {Idle}] /\ discarded' \in [Conns -> Nat]
        /\ files' \subseteq Reqs /\ refused' \subseteq Reqs
    BY <1>0 DEF Types, SupervisorType, ClientType
  <1>1. ASSUME NEW c \in Conns PROVE Dealt(c, incoming[c].r.id)'
    <2>1. incoming'[c].r.id \in Nat
      <3>1. incoming'[c] \in Uploads \cup {Idle} BY <1>t
      <3> QED BY <1>0, <3>1 DEF Uploads, Reqs
    <2>2. PICK n \in Nat : n = incoming'[c].r.id BY <2>1
    <2>3. Dealt(c, n) \/ n = 0 \/ (HandlesUpload(c) /\ n = Head(up[c]).r.id)
      BY <1>0, <2>2, LoopStep DEF HandlesUpload, InTurn
    <2>4. Dealt(c, n)' BY <2>3, DealtNext
    <2> QED BY <2>2, <2>4 DEF Dealt
  <1>2. ASSUME NEW c \in Conns PROVE Dealt(c, discarded[c])'
    <2>1. PICK n \in Nat : n = discarded'[c] BY <1>t
    <2>2. Dealt(c, n) \/ n = 0 \/ (HandlesUpload(c) /\ n = Head(up[c]).r.id)
      BY <2>1, LoopStep DEF HandlesUpload, InTurn
    <2>3. Dealt(c, n)' BY <2>2, DealtNext
    <2> QED BY <2>1, <2>3 DEF Dealt
  <1>3. ASSUME NEW c \in Conns, NEW i \in DOMAIN down'[c], down'[c][i].t = "upload"
        PROVE  Dealt(c, down[c][i].r.id)'
    <2>1. down[c] \in Seq(Answers) BY DEF OwnInv, Types, WorldType
    <2>2. CASE \E k \in DOMAIN down[c] : down'[c][i] = down[c][k]
      <3>1. PICK k \in DOMAIN down[c] : down'[c][i] = down[c][k] BY <2>2
      <3>2. down[c][k].r.id \in Nat /\ Dealt(c, down[c][k].r.id)
        <4>1. AsUpload(c, down[c][k].r)
          BY <1>3, <3>1 DEF OwnInv, OwnRequests, Own, OwnAnswer
        <4> QED BY <1>3, <3>1, <4>1 DEF AsUpload, Known, Reqs, InTurn
      <3>3. PICK n \in Nat : n = down[c][k].r.id BY <3>2
      <3>4. Dealt(c, n)' BY <3>2, <3>3, DealtNext
      <3> QED BY <3>1, <3>3, <3>4 DEF Dealt
    <2>3. CASE HandlesUpload(c) /\ down'[c][i].r = Head(up[c]).r
      <3>1. Head(up[c]).r.id \in Nat BY <2>3, Handled DEF Reqs
      <3>2. PICK n \in Nat : n = Head(up[c]).r.id BY <3>1
      <3>3. Dealt(c, n)' BY <2>3, <3>2, DealtNext
      <3> QED BY <2>3, <3>2, <3>3 DEF Dealt
    <2>4. \/ \E k \in DOMAIN down[c] : down'[c][i] = down[c][k]
          \/ HandlesUpload(c) /\ down'[c][i].r = Head(up[c]).r
      <3>1. \A r, ok : Answer("upload", r, ok, <<>>).r = r BY DEF Answer
      <3>2. \/ \E k \in DOMAIN down[c] : down'[c][i] = down[c][k]
            \/ /\ HandlesUpload(c)
               /\ \E ok \in BOOLEAN : down'[c][i] = Answer("upload", Head(up[c]).r, ok, <<>>)
        BY <1>3, UploadAnswered
      <3> QED BY <3>1, <3>2
    <2> QED BY <2>2, <2>3, <2>4
  <1>4. ASSUME NEW q \in files' \cup refused'
        PROVE  q.c \in Conns /\ Dealt(q.c, q.id)'
    <2>1. q \in Reqs /\ q.c \in Conns /\ q.id \in Nat BY <1>t DEF Reqs
    <2>2. PICK d \in Conns, n \in Nat : d = q.c /\ n = q.id BY <2>1
    <2>3. Dealt(d, n) \/ (HandlesUpload(d) /\ n = Head(up[d]).r.id)
      <3>1. CASE q \in files \cup refused BY <2>2, <3>1 DEF InTurn
      <3>2. ASSUME NEW c \in Conns, UploadFinish(c), q = Head(up[c]).r
            PROVE  HandlesUpload(d) /\ n = Head(up[d]).r.id
        <4>1. c = d BY <2>2, <3>2, Handled DEF HandlesUpload, Known
        <4> QED BY <2>2, <3>2, <4>1 DEF HandlesUpload
      <3>3. ASSUME NEW c \in Conns, ApplyUpload(c), q = Head(down[c]).r
            PROVE  Dealt(d, n)
        <4>1. /\ 1 \in DOMAIN down[c] /\ q = down[c][1].r /\ down[c][1].t = "upload"
              /\ q.c = c
          BY <3>3, UploadTaken
        <4> QED BY <2>2, <4>1 DEF InTurn
      <3> QED BY <3>1, <3>2, <3>3, NewFiles, NewRefused
    <2>4. Dealt(d, n)' BY <2>3, DealtNext
    <2> QED BY <2>1, <2>2, <2>4
  <1> QED BY <1>1, <1>2, <1>3, <1>4 DEF InTurn

\* Every step keeps the files in place done with.
LEMMA FilesNext ==
  ASSUME OwnInv, Serial, InTurn, FilesAreDone, [Next]_vars
  PROVE  FilesAreDone'
  <1> SUFFICES ASSUME NEW q \in files' PROVE Done(up'[q.c], stream'[q.c], q.id)
    BY DEF FilesAreDone
  <1>0. files' \subseteq Reqs BY TypesNext DEF OwnInv, Types, SupervisorType
  <1>1. q \in Reqs /\ q.c \in Conns /\ q.id \in Nat BY <1>0 DEF Reqs
  <1>2. CASE q \in files
    <2>1. Dealt(q.c, q.id) /\ Done(up[q.c], stream[q.c], q.id)
      BY <1>2 DEF InTurn, FilesAreDone
    <2> QED BY <1>1, <2>1, DoneStays
  <1>3. ASSUME NEW c \in Conns, UploadFinish(c), q = Head(up[c]).r
        PROVE  Done(up'[q.c], stream'[q.c], q.id)
    <2>1. HandlesUpload(c) BY <1>3 DEF HandlesUpload
    <2>2. /\ up[c] # <<>> /\ 1 \in DOMAIN up[c] /\ Head(up[c]) = up[c][1]
          /\ up'[c] = Tail(up[c]) /\ stream' = stream /\ q.c = c
      BY <1>3, <2>1, Handled DEF Known
    <2>3. up[c][1].t = "finish" /\ up[c][1].r = q BY <1>3, <2>2 DEF UploadFinish, FrameIs
    <2>4. up[c] \in Seq(Frames) /\ stream[c] \in Uploads \cup {Idle}
      BY DEF OwnInv, Types, ClientType, WorldType
    <2>5. \A i \in DOMAIN Tail(up[c]) :
            /\ i + 1 \in DOMAIN up[c] /\ 1 < i + 1 /\ Tail(up[c])[i] = up[c][i + 1]
            /\ up[c][i + 1].r.id \in Nat
      <3>1. Tail(up[c]) \in Seq(Frames) BY <2>2, <2>4, Tails
      <3>2. \A i \in DOMAIN Tail(up[c]) : i \in Nat /\ 1 < i + 1 BY <3>1
      <3>3. \A i \in DOMAIN up[c] : up[c][i].r.id \in Nat
        <4>1. \A i \in DOMAIN up[c] : up[c][i] \in Frames BY <2>4
        <4> QED BY <4>1 DEF Frames, Reqs
      <3> QED BY <2>2, <2>4, <3>2, <3>3, Tails
    <2>6. Orderly(up[c], stream[c], queue[c]) BY DEF Serial
    <2>7. \A i \in DOMAIN Tail(up[c]) : Tail(up[c])[i].t # "op" => q.id < Tail(up[c])[i].r.id
      BY <2>2, <2>3, <2>5, <2>6 DEF Orderly, Precedes
    <2>8. stream[c] # Idle => q.id < stream[c].r.id /\ stream[c].r.id \in Nat
      BY <2>2, <2>3, <2>4, <2>6 DEF Orderly, Uploads, Reqs
    <2>9. \A i \in DOMAIN Tail(up[c]) : Tail(up[c])[i].t # "op" => Tail(up[c])[i].r.id # q.id
      BY <1>1, <2>5, <2>7
    <2>10. stream[c] # Idle => stream[c].r.id # q.id BY <1>1, <2>8
    <2>11. Done(Tail(up[c]), stream[c], q.id) BY <2>9, <2>10 DEF Done
    <2> QED BY <2>2, <2>11
  <1> QED BY <1>2, <1>3, NewFiles

-----------------------------------------------------------------------------
(* What the client is told *)

\* What the loop says of an upload, as it handles a frame of it.
LEMMA Verdict ==
  ASSUME OwnInv, Serial, NEW c \in Conns, HandlesUpload(c), NEW m \in Answers,
         down'[c] = Append(down[c], m)
  PROVE  LET r == Head(up[c]).r
         IN \/ m.ok /\ r \in files' /\ UploadFinish(c) /\ discarded[c] # r.id
            \/ /\ ~m.ok /\ files' = files
               /\ \/ UploadStart(c) /\ incoming' = incoming /\ discarded'[c] = r.id
                  \/ /\ UploadChunk(c) \/ UploadFinish(c)
                     /\ discarded[c] # r.id
                     /\ \/ incoming'[c] = Idle
                        \/ incoming'[c] = incoming[c] /\ incoming[c].r.id # r.id
  <1> DEFINE r == Head(up[c]).r
  <1>0. /\ down \in [Conns -> Seq(Answers)] /\ down[c] \in Seq(Answers) /\ r \in Reqs
        /\ incoming \in [Conns -> Uploads \cup {Idle}] /\ discarded \in [Conns -> Nat]
    BY Handled DEF OwnInv, Types, WorldType, SupervisorType
  <1> HIDE DEF r
  <1>1. \A x \in Answers : Append(down[c], x) # down[c]
    <2>1. \A x \in Answers : Len(Append(down[c], x)) = Len(down[c]) + 1 /\ Len(down[c]) \in Nat
      BY <1>0, Appends
    <2> QED BY <2>1
  <1>2. down' # down BY <1>1
  <1>3. ASSUME NEW ok \in BOOLEAN, UploadResult(c, r, ok) PROVE m.ok = ok
    <2>1. PICK x \in Answers : x = Answer("upload", r, ok, <<>>) BY <1>0, Records
    <2>2. Reply(c, <<x>>) BY <1>3, <2>1 DEF UploadResult
    <2>3. down'[c] = Append(down[c], x) BY <1>0, <1>1, <2>2, Replies
    <2>4. Append(down[c], x)[Len(down[c]) + 1] = x /\ Append(down[c], m)[Len(down[c]) + 1] = m
      BY <1>0, Appends
    <2>5. x = m BY <2>3, <2>4
    <2> QED BY <2>1, <2>5 DEF Answer
  <1>4. CASE UploadStart(c)
    <2>1. /\ discarded' = [discarded EXCEPT ![c] = r.id] /\ UploadResult(c, r, FALSE)
          /\ incoming' = incoming /\ files' = files
      BY <1>2, <1>4 DEF UploadStart, r
    <2> QED BY <1>0, <1>3, <1>4, <2>1 DEF r
  <1>5. CASE UploadChunk(c)
    <2>1. /\ UploadResult(c, r, FALSE) /\ files' = files /\ discarded[c] # r.id
          /\ \/ incoming' = [incoming EXCEPT ![c] = Idle]
             \/ incoming' = incoming /\ incoming[c].r.id # r.id
      BY <1>2, <1>5 DEF UploadChunk, r
    <2>2. incoming'[c] = Idle \/ (incoming'[c] = incoming[c] /\ incoming[c].r.id # r.id)
      BY <1>0, <2>1
    <2> QED BY <1>3, <1>5, <2>1, <2>2 DEF r
  <1>6. CASE UploadFinish(c)
    <2>1. \/ UploadResult(c, r, TRUE) /\ files' = files \cup {r} /\ discarded[c] # r.id
          \/ /\ UploadResult(c, r, FALSE) /\ files' = files /\ discarded[c] # r.id
             /\ incoming' = [incoming EXCEPT ![c] = IF incoming[c].r.id = r.id THEN Idle ELSE @]
      BY <1>2, <1>6 DEF UploadFinish, r
    <2>2. CASE UploadResult(c, r, TRUE) /\ files' = files \cup {r} /\ discarded[c] # r.id
      BY <1>3, <1>6, <2>2 DEF r
    <2>3. CASE /\ UploadResult(c, r, FALSE) /\ files' = files /\ discarded[c] # r.id
               /\ incoming' = [incoming EXCEPT ![c] = IF incoming[c].r.id = r.id THEN Idle ELSE @]
      <3>1. incoming'[c] = Idle \/ (incoming'[c] = incoming[c] /\ incoming[c].r.id # r.id)
        BY <1>0, <2>3
      <3> QED BY <1>3, <1>6, <2>3, <3>1 DEF r
    <2> QED BY <2>1, <2>2, <2>3
  <1> QED BY <1>4, <1>5, <1>6 DEF HandlesUpload

\* An upload that has failed is not put in place later: its number does not come again.
LEMMA FailedStays ==
  ASSUME TruthInv, [Next]_vars, NEW c \in Conns, NEW r \in Reqs, r.c = c,
         Dealt(c, r.id), Failed(c, r)
  PROVE  Failed(c, r)'
  <1>0. /\ r.id \in Nat /\ r.id # 0 /\ Idle.r.id = 0 BY Records DEF Reqs
  <1>1. r \notin files'
    <2> SUFFICES ASSUME r \in files' PROVE FALSE
      OBVIOUS
    <2>1. PICK d \in Conns : UploadFinish(d) /\ r = Head(up[d]).r /\ incoming[d].r.id = r.id
      BY NewFiles DEF TruthInv, Failed
    <2>2. d = c BY <2>1, Handled DEF TruthInv, HandlesUpload, Known
    <2> QED BY <2>1, <2>2 DEF Failed
  <1>2. r.id # incoming'[c].r.id
    <2>1. ASSUME UploadStart(c), incoming'[c].r = Head(up[c]).r PROVE r.id # Head(up[c]).r.id
      <3>1. /\ 1 \in DOMAIN up[c] /\ Head(up[c]) = up[c][1] /\ Head(up[c]).r \in Reqs
        BY <2>1, Handled DEF HandlesUpload, TruthInv
      <3>2. up[c][1].t = "start" BY <2>1, <3>1 DEF UploadStart, FrameIs
      <3>3. r.id < up[c][1].r.id BY <3>1, <3>2 DEF Dealt, Before
      <3> QED BY <1>0, <3>1, <3>3 DEF Reqs
    <2> QED BY <1>0, <2>1, LoopStep DEF TruthInv, Failed
  <1> QED BY <1>1, <1>2 DEF Failed

\* A frame that is handled is not of a file in place.
LEMMA HandledIsNew ==
  ASSUME TruthInv, NEW c \in Conns, HandlesUpload(c)
  PROVE  Head(up[c]).r \notin files
  <1>1. /\ 1 \in DOMAIN up[c] /\ Head(up[c]) = up[c][1] /\ Head(up[c]).r.c = c
    BY Handled DEF TruthInv, Known
  <1>2. up[c][1].t # "op"
    BY <1>1 DEF HandlesUpload, UploadStart, UploadChunk, UploadFinish, FrameIs
  <1> QED BY <1>1, <1>2 DEF TruthInv, FilesAreDone, Done

\* Every step keeps to the truth.
LEMMA AnswersAreTrueNext ==
  ASSUME TruthInv, [Next]_vars
  PROVE  AnswersAreTrue'
  <1> USE DEF TruthInv
  <1>0. /\ files \subseteq Reqs /\ refused \subseteq Reqs /\ Idle.r.id = 0
        /\ \A r \in Reqs : r.id \in Nat /\ r.id # 0
    BY Records DEF OwnInv, Types, SupervisorType, ClientType, Reqs
  <1>1. files \subseteq files'
    BY UploadSteps
    DEF HandlesUpload, UploadStart, UploadChunk, UploadFinish, ApplyUpload, End, loop
  <1>2. ASSUME NEW c \in Conns, NEW i \in DOMAIN down'[c], down'[c][i].t = "upload"
        PROVE  IF down'[c][i].ok THEN down'[c][i].r \in files'
               ELSE /\ down'[c][i].r \notin files'
                    /\ down'[c][i].r.id # incoming'[c].r.id
    <2>1. CASE \E k \in DOMAIN down[c] : down'[c][i] = down[c][k]
      <3>1. PICK k \in DOMAIN down[c] : down'[c][i] = down[c][k] BY <2>1
      <3>2. AsUpload(c, down[c][k].r)
        BY <1>2, <3>1 DEF OwnInv, OwnRequests, Own, OwnAnswer
      <3>3. PICK r \in Reqs : r = down[c][k].r /\ r.c = c BY <3>2 DEF AsUpload, Known
      <3>4. CASE down[c][k].ok BY <1>1, <1>2, <3>1, <3>4 DEF AnswersAreTrue
      <3>5. CASE ~down[c][k].ok
        <4>1. Failed(c, r) /\ Dealt(c, r.id)
          BY <1>2, <3>1, <3>3, <3>5 DEF AnswersAreTrue, InTurn
        <4>2. Failed(c, r)' BY <3>3, <4>1, FailedStays
        <4> QED BY <3>1, <3>3, <3>5, <4>2 DEF Failed
      <3> QED BY <3>4, <3>5
    <2>2. CASE /\ HandlesUpload(c)
               /\ \E ok \in BOOLEAN : /\ down'[c][i] = Answer("upload", Head(up[c]).r, ok, <<>>)
                                      /\ down'[c] = Append(down[c], down'[c][i])
      <3>1. PICK r \in Reqs : r = Head(up[c]).r BY <2>2, Handled
      <3>2. PICK ok \in BOOLEAN : /\ down'[c][i] = Answer("upload", r, ok, <<>>)
                                  /\ down'[c] = Append(down[c], down'[c][i])
        BY <2>2, <3>1
      <3>3. PICK m \in Answers : m = down'[c][i] BY <3>1, <3>2, Records
      <3>4. m.r = r BY <3>2, <3>3 DEF Answer
      <3>5. down'[c] = Append(down[c], m) BY <3>2, <3>3
      <3>6. \/ m.ok /\ r \in files'
            \/ /\ ~m.ok /\ files' = files
               /\ \/ UploadStart(c) /\ incoming' = incoming
                  \/ incoming'[c] = Idle
                  \/ incoming'[c] = incoming[c] /\ incoming[c].r.id # r.id
        BY <2>2, <3>1, <3>5, Verdict
      <3>7. r \notin files BY <2>2, <3>1, HandledIsNew
      <3>8. UploadStart(c) => incoming[c].r.id # r.id
        <4> SUFFICES ASSUME UploadStart(c) PROVE incoming[c].r.id # r.id
          OBVIOUS
        <4>1. /\ 1 \in DOMAIN up[c] /\ up[c][1].t = "start" /\ up[c][1].r = r
          BY <2>2, <3>1, Handled DEF UploadStart, FrameIs
        <4>2. incoming[c].r.id < r.id BY <4>1 DEF InTurn, Dealt, Before
        <4>3. r.id \in Nat BY <1>0
        <4> QED BY <4>2, <4>3
      <3>9. CASE m.ok /\ r \in files' BY <3>3, <3>4, <3>9
      <3>10. CASE ~m.ok /\ files' = files /\ r.id # incoming'[c].r.id
        BY <3>3, <3>4, <3>7, <3>10
      <3> QED BY <1>0, <3>6, <3>8, <3>9, <3>10
    <2> QED BY <1>2, <2>1, <2>2, UploadAnswered
  <1>3. ASSUME NEW q \in refused' PROVE Failed(q.c, q)'
    <2>1. q \in Reqs /\ q.c \in Conns /\ Dealt(q.c, q.id) /\ Failed(q.c, q)
      <3>1. CASE q \in refused BY <1>0, <3>1 DEF InTurn, AnswersAreTrue
      <3>2. ASSUME NEW c \in Conns, ApplyUpload(c), q = Head(down[c]).r, ~Head(down[c]).ok
            PROVE  q \in Reqs /\ q.c \in Conns /\ Dealt(q.c, q.id) /\ Failed(q.c, q)
        <4>1. /\ 1 \in DOMAIN down[c] /\ Head(down[c]) = down[c][1] /\ down[c][1].t = "upload"
              /\ q \in pend[c] /\ q.c = c
          BY <3>2, UploadTaken
        <4>2. q \in Reqs BY <4>1 DEF OwnInv, Types, ClientType
        <4>3. Dealt(c, q.id) BY <3>2, <4>1 DEF InTurn
        <4>4. Failed(c, q) BY <3>2, <4>1 DEF AnswersAreTrue
        <4> QED BY <4>1, <4>2, <4>3, <4>4
      <3> QED BY <3>1, <3>2, NewRefused
    <2>2. PICK c \in Conns : c = q.c BY <2>1
    <2>3. Failed(c, q)' BY <2>1, <2>2, FailedStays
    <2> QED BY <2>2, <2>3 DEF Failed
  <1>4. pasted' \subseteq files'
    <2>1. pasted' = pasted \/ \E c \in Conns : ApplyUpload(c)
      BY UploadSteps
      DEF HandlesUpload, UploadStart, UploadChunk, UploadFinish, End, client
    <2>2. ASSUME NEW c \in Conns, ApplyUpload(c) PROVE pasted' \subseteq files
      <3>1. LET m == Head(down[c])
            IN /\ 1 \in DOMAIN down[c] /\ m = down[c][1] /\ m.t = "upload"
               /\ pasted' = pasted \/ (m.ok /\ pasted' = pasted \cup {m.r})
        BY <2>2, UploadTaken
      <3> QED BY <3>1 DEF AnswersAreTrue
    <2> QED BY <1>1, <2>1, <2>2 DEF AnswersAreTrue
  <1> QED BY <1>2, <1>3, <1>4 DEF AnswersAreTrue, Failed

\* The invariant of what the client is told holds always.
LEMMA TruthInvAlways == Spec => []TruthInv
  <1>1. Init /\ OwnInv => TruthInv
    <2> SUFFICES ASSUME Init, OwnInv PROVE TruthInv
      OBVIOUS
    <2>0. \A c \in Conns : /\ up[c] = <<>> /\ stream[c] = Idle /\ queue[c] = <<>>
                           /\ down[c] = <<>> /\ incoming[c] = Idle /\ discarded[c] = 0
      BY DEF Init
    <2>1. files = {} /\ refused = {} /\ pasted = {} /\ Idle.r.id = 0
      BY Records DEF Init
    <2>2. Serial BY <2>0 DEF Serial, Orderly
    <2>3. \A c \in Conns : Dealt(c, 0) BY ZeroDealt DEF OwnInv
    <2>4. InTurn BY <2>0, <2>1, <2>3 DEF InTurn
    <2>5. FilesAreDone /\ AnswersAreTrue BY <2>0, <2>1 DEF FilesAreDone, AnswersAreTrue
    <2> QED BY <2>2, <2>4, <2>5 DEF TruthInv
  <1>2. TruthInv /\ OwnInv' /\ [Next]_vars => TruthInv'
    <2> SUFFICES ASSUME TruthInv, OwnInv', [Next]_vars PROVE TruthInv'
      OBVIOUS
    <2>1. OwnInv /\ Serial /\ InTurn /\ FilesAreDone BY DEF TruthInv
    <2> QED BY <2>1, SerialNext, InTurnNext, FilesNext, AnswersAreTrueNext DEF TruthInv
  <1> QED BY <1>1, <1>2, OwnInvAlways, PTL DEF Spec

\* ToldTheTruth of Requests: the path a client pastes names a whole file, and an upload
\* reported as failed has not been put in place.
THEOREM ClientsAreToldTheTruth == Spec => []ToldTheTruth
  <1>1. TruthInv => ToldTheTruth BY DEF TruthInv, AnswersAreTrue, Failed, ToldTheTruth
  <1> QED BY <1>1, TruthInvAlways, PTL

-----------------------------------------------------------------------------
(* What is rejected *)

\* As long as the loop takes no frame, what follows a rejected start stays so.
LEMMA DiscardedFlow ==
  ASSUME NEW u \in Seq(Frames), NEW s \in Uploads \cup {Idle}, NEW q \in Seq(Reqs),
         NEW v, NEW t, NEW p, NEW k \in Nat, Flow(u, s, q, v, t, p, k),
         ~Takes(u, s, q, v, t, p), NEW d, NEW b, Discarded(u, s, d, b)
  PROVE  Discarded(v, t, d, b)
  <1>1. ASSUME NEW f \in Frames, v = Append(u, f)
        PROVE  /\ \A i \in DOMAIN v : i \in Nat /\
                    ((i \in DOMAIN u /\ v[i] = u[i]) \/ (i = Len(u) + 1 /\ v[i] = f))
               /\ \A n, m : StartIn(u, n, m) => StartIn(v, n, m)
               /\ Len(u) \in Nat /\ Len(v) = Len(u) + 1 /\ Len(u) + 1 < Len(v) + 1
               /\ Len(u) + 1 \in DOMAIN v /\ v[Len(u) + 1] = f
               /\ \A i \in DOMAIN u : i \in DOMAIN v /\ v[i] = u[i] /\ i < Len(v) + 1
    <2>1. /\ \A i \in DOMAIN u : i \in DOMAIN v /\ v[i] = u[i]
          /\ \A i \in DOMAIN v : i \in Nat /\ (i \in DOMAIN u \/ i = Len(u) + 1)
          /\ Len(u) + 1 \in DOMAIN v /\ v[Len(u) + 1] = f
          /\ Len(u) \in Nat /\ Len(v) = Len(u) + 1 /\ \A i \in DOMAIN u : i < Len(u) + 1
      BY <1>1, Appends
    <2>2. \A i \in DOMAIN u : i \in Nat /\ i < Len(v) + 1 BY <2>1
    <2> QED BY <2>1, <2>2 DEF StartIn
  <1>2. ASSUME NEW n, StartIn(u, n, Len(u) + 1), NEW f \in Frames, v = Append(u, f)
        PROVE  StartIn(v, n, Len(v) + 1)
    BY <1>1, <1>2 DEF StartIn
  <1>3. CASE Rests(u, s, q, v, t, p) \/ Queues(u, s, q, v, t, p, k)
    BY <1>3 DEF Rests, Queues
  <1>4. CASE SendsOp(u, s, q, v, t, p)
    <2>1. PICK f \in Frames : f.t = "op" /\ v = Append(u, f) BY <1>4 DEF SendsOp
    <2>2. \A i \in DOMAIN v : v[i].t \in {"chunk", "finish"} => i \in DOMAIN u /\ v[i] = u[i]
      BY <1>1, <2>1
    <2>3. \A n, m : StartIn(u, n, m) => StartIn(v, n, m) BY <1>1, <2>1
    <2>4. \A i \in DOMAIN v : v[i].t \in {"chunk", "finish"} /\ v[i].r \notin b =>
            d = v[i].r.id \/ StartIn(v, v[i].r.id, i)
      BY <2>2, <2>3 DEF Discarded
    <2>5. t = s BY <1>4 DEF SendsOp
    <2>6. t # Idle /\ t.r \notin b => d = t.r.id \/ StartIn(v, t.r.id, Len(v) + 1)
      BY <1>2, <2>1, <2>5 DEF Discarded
    <2> QED BY <2>4, <2>6 DEF Discarded
  <1>5. CASE Starts(u, s, q, v, t, p)
    <2>1. PICK f \in Frames : f = Frame("start", Head(q), 0) BY <1>5, FlowAppends DEF Starts
    <2>2. v = Append(u, f) /\ f.t = "start" /\ f.r = t.r BY <1>5, <2>1 DEF Starts, Frame
    <2>3. \A i \in DOMAIN v : v[i].t \in {"chunk", "finish"} => i \in DOMAIN u /\ v[i] = u[i]
      BY <1>1, <2>2
    <2>4. \A n, m : StartIn(u, n, m) => StartIn(v, n, m) BY <1>1, <2>2
    <2>5. \A i \in DOMAIN v : v[i].t \in {"chunk", "finish"} /\ v[i].r \notin b =>
            d = v[i].r.id \/ StartIn(v, v[i].r.id, i)
      BY <2>3, <2>4 DEF Discarded
    <2>6. StartIn(v, t.r.id, Len(v) + 1) BY <1>1, <2>2 DEF StartIn
    <2> QED BY <2>5, <2>6 DEF Discarded
  <1>6. CASE GoesOn(u, s, q, v, t, p) \/ Finishes(u, s, q, v, t, p)
    <2>1. PICK f \in Frames : v = Append(u, f) /\ f.r = s.r
      <3>1. CASE GoesOn(u, s, q, v, t, p)
        <4>1. PICK n \in Nat : v = Append(u, Frame("chunk", s.r, n)) BY <3>1 DEF GoesOn
        <4>2. Frame("chunk", s.r, n) \in Frames BY <3>1, FlowAppends DEF GoesOn
        <4> QED BY <4>1, <4>2 DEF Frame
      <3>2. CASE Finishes(u, s, q, v, t, p)
        <4>1. Frame("finish", s.r, 0) \in Frames BY <3>2, FlowAppends DEF Finishes
        <4> QED BY <3>2, <4>1 DEF Frame, Finishes
      <3> QED BY <1>6, <3>1, <3>2
    <2>2. s # Idle /\ (t # Idle => t.r = s.r) BY <1>6 DEF GoesOn, Finishes
    <2>3. s.r \notin b => d = s.r.id \/ StartIn(u, s.r.id, Len(u) + 1)
      BY <2>2 DEF Discarded
    <2>4. \A n, m : StartIn(u, n, m) => StartIn(v, n, m) BY <1>1, <2>1
    <2>5. ASSUME NEW i \in DOMAIN v, v[i].t \in {"chunk", "finish"}, v[i].r \notin b
          PROVE  d = v[i].r.id \/ StartIn(v, v[i].r.id, i)
      <3>1. CASE i \in DOMAIN u /\ v[i] = u[i] BY <2>4, <2>5, <3>1 DEF Discarded
      <3>2. CASE i = Len(u) + 1 /\ v[i] = f BY <2>1, <2>3, <2>4, <2>5, <3>2
      <3> QED BY <1>1, <2>1, <3>1, <3>2
    <2>6. t # Idle /\ t.r \notin b => d = t.r.id \/ StartIn(v, t.r.id, Len(v) + 1)
      BY <1>2, <2>1, <2>2, <2>3
    <2> QED BY <2>5, <2>6 DEF Discarded
  <1>7. CASE Lost(v, t, p)
    <2>1. DOMAIN v = {} BY <1>7 DEF Lost
    <2> QED BY <1>7, <2>1 DEF Lost, Discarded
  <1> QED BY <1>3, <1>4, <1>5, <1>6, <1>7 DEF Flow

\* The loop takes a frame: a start rejected is kept in e for discarding, a start accepted
\* is among those of a, and the finish that is discarded, the last frame of its upload,
\* ends that.
LEMMA DiscardedTakes ==
  ASSUME NEW u \in Seq(Frames), NEW s \in Uploads \cup {Idle}, NEW q, u # <<>>,
         NEW d \in Nat, NEW b, NEW e, NEW a, b \subseteq a,
         Orderly(u, s, q), Before(u, q, d), Discarded(u, s, d, b),
         \/ u[1].t # "start" /\ e = d
         \/ u[1].t = "finish" /\ d = u[1].r.id
         \/ /\ u[1].t = "start" /\ e = d /\ u[1].r \in a
            /\ \A i \in DOMAIN u : u[i].t # "op" /\ u[i].r.id = u[1].r.id => u[i].r = u[1].r
            /\ s # Idle /\ s.r.id = u[1].r.id => s.r = u[1].r
         \/ u[1].t = "start" /\ e = u[1].r.id
  PROVE  Discarded(Tail(u), s, e, a)
  <1> DEFINE v == Tail(u)
  <1>0. /\ 1 \in DOMAIN u /\ v \in Seq(Frames) /\ Len(u) \in Nat /\ Len(v) = Len(u) - 1
        /\ \A i \in DOMAIN v : i \in Nat /\ i + 1 \in DOMAIN u /\ v[i] = u[i + 1]
        /\ \A i \in DOMAIN u : i \in Nat /\ i >= 1
        /\ \A i \in DOMAIN u : i # 1 => i - 1 \in DOMAIN v /\ v[i - 1] = u[i]
    BY Tails
  <1>1. \A i \in DOMAIN v : 1 < i + 1 BY <1>0
  <1> HIDE DEF v
  <1>n. /\ \A i \in DOMAIN u : u[i].r.id \in Nat
        /\ s # Idle => s.r.id \in Nat
    <2>1. \A i \in DOMAIN u : u[i] \in Frames OBVIOUS
    <2> QED BY <2>1 DEF Frames, Uploads, Reqs
  <1>2. ASSUME NEW n \in Nat, NEW k \in Nat, d = n \/ StartIn(u, n, k + 1),
               u[1].t # "op" => u[1].r.id <= n,
               u[1].t = "finish" => u[1].r.id < n,
               u[1].t = "start" /\ e = d => n # u[1].r.id
        PROVE  e = n \/ StartIn(v, n, k)
    <2>1. CASE d = n
      <3>1. u[1].t = "finish" /\ d = u[1].r.id => FALSE BY <1>2, <2>1
      <3>2. u[1].t = "start" => d < u[1].r.id BY <1>0 DEF Before
      <3>3. ~(u[1].t = "start" /\ e # d)
        <4> SUFFICES ASSUME u[1].t = "start" PROVE FALSE
          OBVIOUS
        <4>1. d < u[1].r.id /\ u[1].r.id <= n BY <1>2, <3>2
        <4>2. u[1].r.id \in Nat BY <1>0, <1>n
        <4> QED BY <2>1, <4>1, <4>2
      <3> QED BY <2>1, <3>1, <3>3
    <2>2. CASE StartIn(u, n, k + 1)
      <3>1. PICK j \in DOMAIN u : j < k + 1 /\ u[j].t = "start" /\ u[j].r.id = n
        BY <2>2 DEF StartIn
      <3>2. CASE j = 1 BY <1>2, <3>1, <3>2
      <3>3. CASE j # 1
        <4>1. j - 1 \in DOMAIN v /\ v[j - 1] = u[j] BY <1>0, <3>3
        <4>2. j - 1 < k BY <1>0, <3>1
        <4> QED BY <3>1, <4>1, <4>2 DEF StartIn
      <3> QED BY <3>2, <3>3
    <2> QED BY <1>2, <2>1, <2>2
  <1>3. ASSUME NEW i \in DOMAIN v, v[i].t \in {"chunk", "finish"}, v[i].r \notin a
        PROVE  e = v[i].r.id \/ StartIn(v, v[i].r.id, i)
    <2>1. /\ i + 1 \in DOMAIN u /\ v[i] = u[i + 1] /\ u[i + 1].t # "op" /\ 1 < i + 1 /\ i \in Nat
      BY <1>0, <1>1, <1>3
    <2>2. d = v[i].r.id \/ StartIn(u, v[i].r.id, i + 1)
      BY <1>3, <2>1 DEF Discarded
    <2>3. u[1].t # "op" => /\ u[1].r.id <= v[i].r.id
                           /\ u[1].t = "finish" => u[1].r.id < v[i].r.id
      BY <1>0, <2>1 DEF Orderly, Precedes
    <2>4. u[1].t = "start" /\ e = d => v[i].r.id # u[1].r.id
      <3> SUFFICES ASSUME u[1].t = "start", e = d, v[i].r.id = u[1].r.id PROVE FALSE
        OBVIOUS
      <3>1. d # u[1].r.id BY <1>0, <1>n DEF Before
      <3>2. u[1].r \in a /\ v[i].r = u[1].r BY <2>1, <3>1
      <3> QED BY <1>3, <3>2
    <2>5. v[i].r.id \in Nat BY <1>n, <2>1
    <2> QED BY <1>2, <2>1, <2>2, <2>3, <2>4, <2>5
  <1>4. ASSUME s # Idle, s.r \notin a
        PROVE  e = s.r.id \/ StartIn(v, s.r.id, Len(v) + 1)
    <2>1. d = s.r.id \/ StartIn(u, s.r.id, Len(u) + 1) BY <1>4 DEF Discarded
    <2>2. Len(u) + 1 = (Len(v) + 1) + 1 /\ Len(v) + 1 \in Nat BY <1>0
    <2>3. u[1].t # "op" => /\ u[1].r.id <= s.r.id
                           /\ u[1].t = "finish" => u[1].r.id < s.r.id
      BY <1>0, <1>4 DEF Orderly
    <2>4. u[1].t = "start" /\ e = d => s.r.id # u[1].r.id
      <3> SUFFICES ASSUME u[1].t = "start", e = d, s.r.id = u[1].r.id PROVE FALSE
        OBVIOUS
      <3>1. d # u[1].r.id BY <1>0, <1>n DEF Before
      <3>2. u[1].r \in a /\ s.r = u[1].r BY <1>4, <3>1
      <3> QED BY <1>4, <3>2
    <2>5. s.r.id \in Nat BY <1>n, <1>4
    <2>6. PICK l \in Nat : l = Len(v) + 1 BY <2>2
    <2>7. d = s.r.id \/ StartIn(u, s.r.id, l + 1) BY <2>1, <2>2, <2>6
    <2>8. e = s.r.id \/ StartIn(v, s.r.id, l) BY <1>2, <2>3, <2>4, <2>5, <2>7
    <2> QED BY <2>6, <2>8
  <1> QED BY <1>3, <1>4 DEF Discarded, v

\* Frames of a connection are taken by its loop, and lost when it ends; and only then
\* does the number change that is kept for discarding.
LEMMA LoopTakes ==
  ASSUME OwnInv, [Next]_vars, NEW c \in Conns, ~Handle(c), ~End(c)
  PROVE  /\ ~Takes(up[c], stream[c], queue[c], up'[c], stream'[c], queue'[c])
         /\ discarded'[c] = discarded[c]
  <1>0. /\ up \in [Conns -> Seq(Frames)] /\ discarded \in [Conns -> Nat]
    BY DEF OwnInv, Types, WorldType, SupervisorType
  <1>1. ASSUME up[c] # <<>> PROVE Len(Tail(up[c])) < Len(up[c]) /\ Tail(up[c]) # up[c]
    <2>1. up[c] \in Seq(Frames) BY <1>0
    <2>2. Len(Tail(up[c])) = Len(up[c]) - 1 /\ Len(up[c]) \in Nat BY <1>1, <2>1, Tails
    <2>3. Len(Tail(up[c])) < Len(up[c]) BY <2>2
    <2>4. ASSUME Tail(up[c]) = up[c] PROVE FALSE
      <3>1. Len(Tail(up[c])) = Len(up[c]) BY <2>4
      <3> QED BY <2>2, <3>1
    <2> QED BY <2>3, <2>4
  <1>2. ASSUME NEW f, up[c] # <<>> PROVE Append(up[c], f) # Tail(up[c])
    <2>1. Len(Append(up[c], f)) = Len(up[c]) + 1 /\ Len(up[c]) \in Nat BY <1>0
    <2> QED BY <1>2, <1>1, <2>1
  <1>3. ASSUME NEW d \in Conns, NEW f, Send(d, f), up[c] # <<>> PROVE up'[c] # Tail(up[c])
    <2>1. up'[c] = up[c] \/ up'[c] = Append(up[c], f) BY <1>0, <1>3 DEF Send
    <2> QED BY <1>1, <1>2, <1>3, <2>1
  <1>4. ASSUME NEW d \in Conns, MakeRequest(d) \/ Stream(d), up[c] # <<>>
        PROVE  up'[c] # Tail(up[c])
    <2>1. up' = up \/ \E f : Send(d, f)
      BY <1>4 DEF MakeRequest, Upload, SendOp, Stream, StreamStart, StreamNext
    <2> QED BY <1>1, <1>3, <1>4, <2>1
  <1>5. ASSUME NEW d \in Conns, Handle(d) \/ End(d)
        PROVE  up'[c] = up[c] /\ discarded'[c] = discarded[c]
    <2>1. c # d BY <1>5
    <2> QED BY <1>0, <1>5, <2>1
        DEF Handle, UploadStart, UploadChunk, UploadFinish, DispatchOp, TakeFrame, End
  <1>6. \/ up' = up
        \/ \E d \in Conns : MakeRequest(d) \/ Stream(d) \/ Handle(d) \/ End(d)
    BY DEF Next, Receive, IgnoreAnswer, ApplyUpload, ApplyOp, SeeExit, GitEnds,
           OpReply, GhWorker, GhRecv, GhDrain, GhLookup, GhReply, Attach, Cancelled,
           Disconnect, SessionExit, Upstream, vars
  <1>7. ~Takes(up[c], stream[c], queue[c], up'[c], stream'[c], queue'[c])
    BY <1>1, <1>4, <1>5, <1>6 DEF Takes
  <1>8. discarded'[c] = discarded[c]
    BY <1>5, UploadSteps DEF HandlesUpload, Handle, ApplyUpload, loop
  <1> QED BY <1>7, <1>8

\* Every step keeps the rest of what is rejected discarded.
LEMMA RestDiscardedNext ==
  ASSUME TruthInv, RestDiscarded, StillPending, [Next]_vars
  PROVE  RestDiscarded'
  <1> SUFFICES ASSUME NEW c \in Conns
               PROVE  Discarded(up'[c], stream'[c], discarded'[c], begun')
    BY DEF RestDiscarded
  <1> USE DEF TruthInv
  <1>0. /\ up \in [Conns -> Seq(Frames)] /\ up[c] \in Seq(Frames)
        /\ stream \in [Conns -> Uploads \cup {Idle}] /\ stream[c] \in Uploads \cup {Idle}
        /\ queue[c] \in Seq(Reqs) /\ nextId[c] \in Nat
        /\ discarded \in [Conns -> Nat] /\ discarded[c] \in Nat
    BY DEF OwnInv, Types, WorldType, ClientType, SupervisorType
  <1>1. begun \subseteq begun'
    BY UploadSteps
    DEF HandlesUpload, UploadStart, UploadChunk, UploadFinish, ApplyUpload, End, loop
  <1>2. /\ Orderly(up[c], stream[c], queue[c]) /\ Before(up[c], queue[c], discarded[c])
        /\ Discarded(up[c], stream[c], discarded[c], begun)
    BY DEF Serial, InTurn, Dealt, RestDiscarded
  <1>3. CASE Handle(c)
    <2>1. /\ up[c] # <<>> /\ up'[c] = Tail(up[c]) /\ stream' = stream
          /\ 1 \in DOMAIN up[c] /\ Head(up[c]) = up[c][1]
      <3>1. up[c] # <<>> BY <1>3
        DEF Handle, UploadStart, UploadChunk, UploadFinish, DispatchOp, FrameIs
      <3>2. 1 \in DOMAIN up[c] /\ Head(up[c]) = up[c][1] BY <1>0, <3>1, Tails
      <3> QED BY <1>0, <1>3, <3>1, <3>2
          DEF Handle, UploadStart, UploadChunk, UploadFinish, DispatchOp, TakeFrame, client
    <2>2. PICK e, a : e = discarded'[c] /\ a = begun' OBVIOUS
    <2>3. \/ up[c][1].t # "start" /\ e = discarded[c]
          \/ up[c][1].t = "finish" /\ discarded[c] = up[c][1].r.id
          \/ up[c][1].t = "start" /\ e = discarded[c] /\ up[c][1].r \in a
          \/ up[c][1].t = "start" /\ e = up[c][1].r.id
      <3>1. CASE UploadStart(c)
        BY <1>0, <2>1, <2>2, <3>1 DEF UploadStart, FrameIs
      <3>2. CASE UploadChunk(c) BY <2>1, <2>2, <3>2 DEF UploadChunk, FrameIs
      <3>3. CASE UploadFinish(c) BY <2>1, <2>2, <3>3 DEF UploadFinish, FrameIs
      <3>4. CASE DispatchOp(c) BY <2>1, <2>2, <3>4 DEF DispatchOp, FrameIs
      <3> QED BY <1>3, <3>1, <3>2, <3>3, <3>4 DEF Handle
    <2>4. ASSUME up[c][1].t = "start"
          PROVE  /\ \A i \in DOMAIN up[c] : up[c][i].t # "op" /\ up[c][i].r.id = up[c][1].r.id =>
                      up[c][i].r = up[c][1].r
                 /\ stream[c] # Idle /\ stream[c].r.id = up[c][1].r.id => stream[c].r = up[c][1].r
      <3>1. up[c][1].r \in pend[c] BY <2>1, <2>4 DEF StillPending
      <3>2. /\ \A i \in DOMAIN up[c] : Known(c, up[c][i].r)
            /\ stream[c] # Idle => Known(c, stream[c].r)
        BY DEF OwnInv, OwnRequests, Own, OwnFrame, AsUpload
      <3> QED BY <3>1, <3>2 DEF Known
    <2>5. Discarded(Tail(up[c]), stream[c], e, a)
      BY <1>0, <1>1, <1>2, <2>1, <2>2, <2>3, <2>4, DiscardedTakes
    <2> QED BY <2>1, <2>2, <2>5
  <1>4. CASE End(c)
    <2>1. up'[c] = <<>> /\ stream'[c] = Idle BY <1>0, <1>4 DEF End
    <2>2. DOMAIN up'[c] = {} BY <2>1
    <2> QED BY <2>1, <2>2 DEF Discarded
  <1>5. CASE ~Handle(c) /\ ~End(c)
    <2>1. Flow(up[c], stream[c], queue[c], up'[c], stream'[c], queue'[c], nextId[c])
      BY FlowStep DEF OwnInv, FlowOf
    <2>2. /\ ~Takes(up[c], stream[c], queue[c], up'[c], stream'[c], queue'[c])
          /\ discarded'[c] = discarded[c]
      BY <1>5, LoopTakes
    <2>3. Discarded(up'[c], stream'[c], discarded[c], begun)
      BY <1>0, <1>2, <2>1, <2>2, DiscardedFlow
    <2> QED BY <1>1, <2>2, <2>3 DEF Discarded
  <1> QED BY <1>3, <1>4, <1>5

\* The uploads whose start is still to be handled are among those of P.
Starting(u, q, P) ==
  /\ \A k \in DOMAIN q : q[k] \in P
  /\ \A i \in DOMAIN u : u[i].t = "start" => u[i].r \in P
QueuedFrom(q, p, P) == \A r \in Reqs : p = Append(q, r) => r \in P

\* They remain so as the frames move on, if a job that is queued is one of P as well.
LEMMA StartingFlow ==
  ASSUME NEW u \in Seq(Frames), NEW s \in Uploads \cup {Idle}, NEW q \in Seq(Reqs),
         NEW v, NEW t, NEW p, NEW k \in Nat, Flow(u, s, q, v, t, p, k),
         NEW P, Starting(u, q, P), QueuedFrom(q, p, P)
  PROVE  Starting(v, p, P)
  <1>1. CASE Rests(u, s, q, v, t, p) BY <1>1 DEF Rests, Starting
  <1>2. CASE Queues(u, s, q, v, t, p, k)
    <2>1. PICK r \in Reqs : p = Append(q, r) BY <1>2 DEF Queues
    <2>2. \A i \in DOMAIN p : (i \in DOMAIN q /\ p[i] = q[i]) \/ p[i] = r
      BY <2>1, Appends
    <2>3. r \in P BY <2>1 DEF QueuedFrom
    <2> QED BY <1>2, <2>2, <2>3 DEF Queues, Starting
  <1>3. ASSUME NEW f \in Frames, v = Append(u, f), f.t = "start" => f.r \in P,
               \A i \in DOMAIN p : p[i] \in P
        PROVE  Starting(v, p, P)
    <2>1. \A i \in DOMAIN v : (i \in DOMAIN u /\ v[i] = u[i]) \/ v[i] = f
      BY <1>3, Appends
    <2> QED BY <1>3, <2>1 DEF Starting
  <1>4. CASE SendsOp(u, s, q, v, t, p)
    <2>1. PICK f \in Frames : f.t = "op" /\ v = Append(u, f) BY <1>4 DEF SendsOp
    <2>2. \A i \in DOMAIN p : p[i] \in P BY <1>4 DEF SendsOp, Starting
    <2> QED BY <1>3, <2>1, <2>2
  <1>5. CASE Starts(u, s, q, v, t, p)
    <2>1. PICK f \in Frames : f = Frame("start", Head(q), 0) BY <1>5, FlowAppends DEF Starts
    <2>2. q # <<>> /\ p = Tail(q) /\ v = Append(u, f) /\ f.r = Head(q)
      BY <1>5, <2>1 DEF Starts, Frame
    <2>3. 1 \in DOMAIN q /\ Head(q) = q[1] BY <2>2, Tails
    <2>4. \A i \in DOMAIN p : i + 1 \in DOMAIN q /\ p[i] = q[i + 1] BY <2>2, Tails
    <2>5. f.r \in P /\ \A i \in DOMAIN p : p[i] \in P BY <2>2, <2>3, <2>4 DEF Starting
    <2> QED BY <1>3, <2>2, <2>5
  <1>6. CASE GoesOn(u, s, q, v, t, p)
    <2>1. PICK n \in Nat : v = Append(u, Frame("chunk", s.r, n)) BY <1>6 DEF GoesOn
    <2>2. PICK f \in Frames : f = Frame("chunk", s.r, n) BY <1>6, FlowAppends DEF GoesOn
    <2>3. v = Append(u, f) /\ f.t = "chunk" BY <2>1, <2>2 DEF Frame
    <2>4. \A i \in DOMAIN p : p[i] \in P BY <1>6 DEF GoesOn, Starting
    <2> QED BY <1>3, <2>3, <2>4
  <1>7. CASE Finishes(u, s, q, v, t, p)
    <2>1. PICK f \in Frames : f = Frame("finish", s.r, 0) BY <1>7, FlowAppends DEF Finishes
    <2>2. v = Append(u, f) /\ f.t = "finish" BY <1>7, <2>1 DEF Frame, Finishes
    <2>3. \A i \in DOMAIN p : p[i] \in P BY <1>7 DEF Finishes, Starting
    <2> QED BY <1>3, <2>2, <2>3
  <1>8. CASE Takes(u, s, q, v, t, p)
    <2>1. u # <<>> /\ v = Tail(u) /\ p = q BY <1>8 DEF Takes
    <2>2. \A i \in DOMAIN v : i + 1 \in DOMAIN u /\ v[i] = u[i + 1] BY <2>1, Tails
    <2> QED BY <2>1, <2>2 DEF Starting
  <1>9. CASE Lost(v, t, p)
    <2>1. v = <<>> /\ p = <<>> BY <1>9 DEF Lost
    <2>2. DOMAIN v = {} /\ DOMAIN p = {} BY <2>1
    <2> QED BY <2>2 DEF Starting
  <1> QED BY <1>1, <1>2, <1>4, <1>5, <1>6, <1>7, <1>8, <1>9 DEF Flow

\* A job is queued as it is recorded among the pending ones.
LEMMA QueuedIsPending ==
  ASSUME OwnInv, [Next]_vars, NEW c \in Conns, NEW r \in Reqs,
         queue'[c] = Append(queue[c], r)
  PROVE  r \in pend'[c]
  <1>0. /\ queue \in [Conns -> Seq(Reqs)] /\ pend \in [Conns -> SUBSET Reqs]
        /\ queue[c] \in Seq(Reqs)
    BY DEF OwnInv, Types, ClientType
  <1>1. Len(queue'[c]) = Len(queue[c]) + 1 /\ Len(queue[c]) \in Nat BY <1>0, Appends
  <1>2. queue'[c] # queue[c] BY <1>1
  <1>3. queue'[c] # <<>>
    <2> SUFFICES ASSUME queue'[c] = <<>> PROVE FALSE
      OBVIOUS
    <2>1. Len(queue'[c]) = Len(<<>>) /\ Len(<<>>) = 0 BY EmptySeq
    <2> QED BY <1>1, <2>1
  <1>4. ASSUME queue[c] # <<>>, queue'[c] = Tail(queue[c]) PROVE FALSE
    <2>1. Len(Tail(queue[c])) = Len(queue[c]) - 1 BY <1>0, <1>4, Tails
    <2>2. Len(queue'[c]) = Len(queue[c]) - 1 BY <1>4, <2>1
    <2> QED BY <1>1, <2>2
  <1>5. ASSUME NEW d \in Conns, StreamStart(d) PROVE FALSE
    <2>1. queue' = [queue EXCEPT ![d] = Tail(@)] /\ queue[d] # <<>>
      BY <1>5 DEF StreamStart
    <2>2. queue'[c] = queue[c] \/ (queue[c] # <<>> /\ queue'[c] = Tail(queue[c]))
      BY <1>0, <2>1
    <2> QED BY <1>2, <1>4, <2>2
  <1>6. ASSUME NEW d \in Conns, Upload(d) PROVE r \in pend'[c]
    <2>1. PICK w \in Reqs : w = Request(d)
      BY <1>6, NewRequest DEF Upload, OwnInv
    <2>2. \/ queue' = queue
          \/ /\ queue' = [queue EXCEPT ![d] = Append(@, w)]
             /\ pend' = [pend EXCEPT ![d] = @ \cup {w}]
      BY <1>6, <2>1 DEF Upload
    <2>3. c = d /\ queue'[c] = Append(queue[c], w) /\ w \in pend'[c]
      BY <1>0, <1>2, <2>2
    <2>4. Append(queue[c], w)[Len(queue[c]) + 1] = w /\ Append(queue[c], r)[Len(queue[c]) + 1] = r
      BY <1>0, Appends
    <2> QED BY <2>3, <2>4
  <1>7. ASSUME NEW d \in Conns, End(d) PROVE FALSE
    BY <1>0, <1>2, <1>3, <1>7 DEF End
  <1>8. \/ queue' = queue
        \/ \E d \in Conns : StreamStart(d) \/ Upload(d) \/ End(d)
    BY DEF Next, MakeRequest, SendOp, Stream, StreamNext, Handle, UploadStart, UploadChunk,
           UploadFinish, DispatchOp, Receive, IgnoreAnswer, ApplyUpload, ApplyOp, SeeExit,
           GitEnds, OpReply, GhWorker, GhRecv, GhDrain, GhLookup, GhReply, Attach, Cancelled,
           Disconnect, SessionExit, Upstream, vars, client
  <1> QED BY <1>2, <1>5, <1>6, <1>7, <1>8

\* A request stays pending until an answer to it is taken, or its connection ends.
LEMMA PendingStays ==
  ASSUME OwnInv, [Next]_vars, NEW c \in Conns
  PROVE  pend[c] \subseteq pend'[c] \/ ApplyUpload(c) \/ ApplyOp(c) \/ End(c)
  <1>0. pend \in [Conns -> SUBSET Reqs] BY DEF OwnInv, Types, ClientType
  <1>1. ASSUME NEW d \in Conns, MakeRequest(d) PROVE pend[c] \subseteq pend'[c]
    BY <1>0, <1>1 DEF MakeRequest, Upload, SendOp
  <1>2. ASSUME NEW d \in Conns, d # c, ApplyUpload(d) \/ ApplyOp(d) \/ End(d)
        PROVE  pend[c] \subseteq pend'[c]
    BY <1>0, <1>2 DEF ApplyUpload, ApplyOp, End
  <1>3. \/ pend' = pend
        \/ \E d \in Conns : MakeRequest(d) \/ ApplyUpload(d) \/ ApplyOp(d) \/ End(d)
    BY DEF Next, Stream, StreamStart, StreamNext, Handle, UploadStart, UploadChunk,
           UploadFinish, DispatchOp, Receive, IgnoreAnswer, SeeExit,
           GitEnds, OpReply, GhWorker, GhRecv, GhDrain, GhLookup, GhReply, Attach, Cancelled,
           Disconnect, SessionExit, Upstream, vars, client
  <1> QED BY <1>1, <1>2, <1>3

\* Every step keeps the uploads to be started pending.
LEMMA StillPendingNext ==
  ASSUME TruthInv, StillPending, [Next]_vars
  PROVE  StillPending'
  <1> SUFFICES ASSUME NEW c \in Conns PROVE Starting(up'[c], queue'[c], pend'[c])
    BY DEF StillPending, Starting
  <1> USE DEF TruthInv
  <1>0. /\ up[c] \in Seq(Frames) /\ stream[c] \in Uploads \cup {Idle}
        /\ queue[c] \in Seq(Reqs) /\ nextId[c] \in Nat
        /\ pend \in [Conns -> SUBSET Reqs] /\ up \in [Conns -> Seq(Frames)]
        /\ queue \in [Conns -> Seq(Reqs)]
    BY DEF OwnInv, Types, WorldType, ClientType
  <1>1. Starting(up[c], queue[c], pend[c]) BY DEF StillPending, Starting
  <1>2. CASE pend[c] \subseteq pend'[c]
    <2>0. PICK v, t, p, P : v = up'[c] /\ t = stream'[c] /\ p = queue'[c] /\ P = pend'[c]
      OBVIOUS
    <2>1. Starting(up[c], queue[c], P) BY <1>1, <1>2, <2>0 DEF Starting
    <2>2. Flow(up[c], stream[c], queue[c], v, t, p, nextId[c])
      BY <2>0, FlowStep DEF OwnInv, FlowOf
    <2>3. QueuedFrom(queue[c], p, P) BY <2>0, QueuedIsPending DEF QueuedFrom
    <2>4. Starting(v, p, P) BY <1>0, <2>1, <2>2, <2>3, StartingFlow
    <2> QED BY <2>0, <2>4
  <1>3. CASE ApplyUpload(c)
    <2>1. PICK r \in pend[c] : /\ r = Head(down[c]).r /\ pend'[c] = pend[c] \ {r}
                               /\ Dealt(c, r.id)
      <3>1. LET m == Head(down[c])
            IN /\ 1 \in DOMAIN down[c] /\ m = down[c][1] /\ m.t = "upload" /\ m.r \in pend[c]
               /\ pend' = [pend EXCEPT ![c] = @ \ {m.r}]
        BY <1>3, UploadTaken
      <3>2. Dealt(c, Head(down[c]).r.id) BY <3>1 DEF InTurn
      <3> QED BY <1>0, <3>1, <3>2
    <2>2. up' = up /\ queue' = queue BY <1>3 DEF ApplyUpload
    <2>3. r \in Reqs /\ r.id \in Nat BY <1>0, <2>1 DEF Reqs
    <2>4. /\ \A k \in DOMAIN queue[c] : queue[c][k] # r
          /\ \A i \in DOMAIN up[c] : up[c][i].t = "start" => up[c][i].r # r
      BY <2>1, <2>3 DEF Dealt, Before
    <2>5. Starting(up[c], queue[c], pend[c] \ {r}) BY <1>1, <2>4 DEF Starting
    <2> QED BY <2>1, <2>2, <2>5
  <1>4. CASE ApplyOp(c)
    <2>1. PICK r \in pend[c] : r.kind # "upload" /\ pend'[c] = pend[c] \ {r}
      BY <1>0, <1>4 DEF ApplyOp, Asked, AnswerIs
    <2>2. up' = up /\ queue' = queue BY <1>4 DEF ApplyOp
    <2>3. /\ \A k \in DOMAIN queue[c] : queue[c][k].kind = "upload"
          /\ \A i \in DOMAIN up[c] : up[c][i].t = "start" => up[c][i].r.kind = "upload"
      BY DEF OwnInv, OwnRequests, Own, OwnFrame, AsUpload
    <2> QED BY <1>1, <2>1, <2>2, <2>3 DEF Starting
  <1>5. CASE End(c)
    <2>1. up'[c] = <<>> /\ queue'[c] = <<>> BY <1>0, <1>5 DEF End
    <2>2. DOMAIN up'[c] = {} /\ DOMAIN queue'[c] = {} BY <2>1
    <2> QED BY <2>2 DEF Starting
  <1> QED BY <1>2, <1>3, <1>4, <1>5, PendingStays

\* RejectedOnce of a connection: an answer of d to an upload that is not one of b is the
\* only one, and its request is one of P.
Once(d, b, P) ==
  \A i \in DOMAIN d : d[i].t = "upload" /\ d[i].r \notin b =>
    /\ d[i].r \in P
    /\ \A j \in DOMAIN d : d[j].t = "upload" /\ d[j].r = d[i].r => j = i

\* It stays so as answers are taken, or lost.
LEMMA OnceShrinks ==
  ASSUME NEW d \in Seq(Answers), NEW e, Shrinks(d, e), NEW b, NEW P, Once(d, b, P)
  PROVE  Once(e, b, P)
  <1>1. CASE d # <<>> /\ e = Tail(d)
    <2>1. \A i \in DOMAIN e : i \in Nat /\ i + 1 \in DOMAIN d /\ e[i] = d[i + 1]
      BY <1>1, Tails
    <2>2. \A i, j \in DOMAIN e : i + 1 = j + 1 => i = j BY <2>1
    <2> QED BY <2>1, <2>2 DEF Once
  <1>2. CASE e = <<>>
    <2>1. DOMAIN e = {} BY <1>2
    <2> QED BY <2>1 DEF Once
  <1> QED BY <1>1, <1>2 DEF Shrinks

\* An answer may follow that is of no upload, or of one of b, or the first of its request.
LEMMA OnceAppends ==
  ASSUME NEW d \in Seq(Answers), NEW m \in Answers, NEW b, NEW P, Once(d, b, P),
         \/ m.t # "upload" \/ m.r \in b
         \/ m.r \in P /\ \A j \in DOMAIN d : d[j].t = "upload" => d[j].r # m.r
  PROVE  Once(Append(d, m), b, P)
  <1>1. PICK n : n = Len(d) + 1 OBVIOUS
  <1>2. PICK e : e = Append(d, m) OBVIOUS
  <1>3. \A i \in DOMAIN e : (i \in DOMAIN d /\ e[i] = d[i]) \/ (i = n /\ e[i] = m)
    BY <1>1, <1>2, Appends
  <1>4. SUFFICES ASSUME NEW i \in DOMAIN e, e[i].t = "upload", e[i].r \notin b
                 PROVE  /\ e[i].r \in P
                        /\ \A j \in DOMAIN e : e[j].t = "upload" /\ e[j].r = e[i].r => j = i
    BY <1>2 DEF Once
  <1>5. CASE i \in DOMAIN d /\ e[i] = d[i]
    BY <1>3, <1>4, <1>5 DEF Once
  <1>6. CASE i = n /\ e[i] = m
    BY <1>3, <1>4, <1>6
  <1> QED BY <1>3, <1>5, <1>6

\* What is answered of an upload that was not begun: its rejection, once.
LEMMA RejectedFirst ==
  ASSUME TruthInv, RestDiscarded, StillPending, NEW c \in Conns, HandlesUpload(c),
         NEW m \in Answers, down'[c] = Append(down[c], m), m.r = Head(up[c]).r,
         m.r \notin begun
  PROVE  /\ m.r \in pend[c]
         /\ \A j \in DOMAIN down[c] : down[c][j].t = "upload" => down[c][j].r # m.r
  <1> USE DEF TruthInv
  <1>1. /\ 1 \in DOMAIN up[c] /\ Head(up[c]) = up[c][1] /\ up[c][1].r = m.r
        /\ m.r \in Reqs /\ m.r.id \in Nat /\ up[c] \in Seq(Frames)
    BY Handled DEF Reqs, OwnInv, Types, WorldType
  <1>2. ASSUME UploadChunk(c) \/ UploadFinish(c), discarded[c] # m.r.id PROVE FALSE
    <2>1. up[c][1].t \in {"chunk", "finish"}
      BY <1>1, <1>2 DEF UploadChunk, UploadFinish, FrameIs
    <2>2. StartIn(up[c], m.r.id, 1)
      BY <1>1, <1>2, <2>1 DEF RestDiscarded, Discarded
    <2>3. \A j \in DOMAIN up[c] : ~(j < 1) BY <1>1
    <2> QED BY <2>2, <2>3 DEF StartIn
  <1>3. UploadStart(c)
    BY <1>1, <1>2, Verdict
  <1>4. up[c][1].t = "start" BY <1>1, <1>3 DEF UploadStart, FrameIs
  <1>5. m.r \in pend[c] BY <1>1, <1>4 DEF StillPending
  <1>6. \A j \in DOMAIN down[c] : down[c][j].t = "upload" => down[c][j].r.id < m.r.id
    BY <1>1, <1>4 DEF InTurn, Dealt, Before
  <1> QED BY <1>1, <1>5, <1>6

\* Every step keeps rejections answered once.
LEMMA RejectedOnceNext ==
  ASSUME TruthInv, RestDiscarded, StillPending, RejectedOnce, [Next]_vars
  PROVE  RejectedOnce'
  <1> SUFFICES ASSUME NEW c \in Conns PROVE Once(down'[c], begun', pend'[c])
    BY DEF RejectedOnce, Once
  <1> USE DEF TruthInv
  <1>0. /\ down[c] \in Seq(Answers) /\ down \in [Conns -> Seq(Answers)]
        /\ pend \in [Conns -> SUBSET Reqs]
    BY DEF OwnInv, Types, WorldType, ClientType
  <1>1. Once(down[c], begun, pend[c]) BY DEF RejectedOnce, Once
  <1>2. begun \subseteq begun'
    BY UploadSteps
    DEF HandlesUpload, UploadStart, UploadChunk, UploadFinish, ApplyUpload, End, loop
  <1>3. CASE pend[c] \subseteq pend'[c]
    <2>1. Once(down[c], begun', pend'[c]) BY <1>1, <1>2, <1>3 DEF Once
    <2>2. CASE Shrinks(down[c], down'[c]) BY <1>0, <2>1, <2>2, OnceShrinks
    <2>3. ASSUME NEW m \in Answers, SaysOf(c, m), down'[c] = Append(down[c], m)
          PROVE  Once(down'[c], begun', pend'[c])
      <3>1. \/ m.t # "upload" \/ m.r \in begun
            \/ m.r \in pend[c] /\ \A j \in DOMAIN down[c] : down[c][j].t = "upload" =>
                                    down[c][j].r # m.r
        <4> SUFFICES ASSUME m.t = "upload", m.r \notin begun
                     PROVE  m.r \in pend[c] /\ \A j \in DOMAIN down[c] :
                              down[c][j].t = "upload" => down[c][j].r # m.r
          OBVIOUS
        <4>1. HandlesUpload(c) /\ m.r = Head(up[c]).r BY <2>3 DEF SaysOf, Answer
        <4> QED BY <2>3, <4>1, RejectedFirst
      <3> QED BY <1>0, <1>2, <1>3, <2>1, <2>3, <3>1, OnceAppends
    <2> QED BY <2>2, <2>3, UploadAnswers
  <1>4. CASE ApplyUpload(c)
    <2>0. PICK r : r = Head(down[c]).r OBVIOUS
    <2>1. /\ down[c] # <<>> /\ 1 \in DOMAIN down[c] /\ down[c][1].t = "upload"
          /\ down[c][1].r = r /\ pend'[c] = pend[c] \ {r} /\ down'[c] = Tail(down[c])
      <3>1. /\ down[c] # <<>> /\ 1 \in DOMAIN down[c] /\ Head(down[c]) = down[c][1]
            /\ Head(down[c]).t = "upload" /\ down'[c] = Tail(down[c])
            /\ pend' = [pend EXCEPT ![c] = @ \ {r}]
        BY <1>4, <2>0, UploadTaken
      <3> QED BY <1>0, <2>0, <3>1
    <2>2. Once(down'[c], begun', pend[c])
      <3>1. Once(down[c], begun', pend[c]) BY <1>1, <1>2 DEF Once
      <3> QED BY <1>0, <2>1, <3>1, OnceShrinks DEF Shrinks
    <2>3. \A i \in DOMAIN down'[c] : i + 1 \in DOMAIN down[c] /\ down'[c][i] = down[c][i + 1]
                                     /\ i + 1 # 1
      BY <1>0, <2>1, Tails
    <2>4. \A i \in DOMAIN down'[c] :
            down'[c][i].t = "upload" /\ down'[c][i].r \notin begun' => down'[c][i].r # r
      BY <1>1, <1>2, <2>1, <2>3 DEF Once
    <2> QED BY <2>1, <2>2, <2>4 DEF Once
  <1>5. CASE ApplyOp(c)
    <2>1. PICK r \in pend[c] : r.kind # "upload" /\ pend'[c] = pend[c] \ {r}
      BY <1>0, <1>5 DEF ApplyOp, Asked, AnswerIs
    <2>2. down[c] # <<>> /\ down'[c] = Tail(down[c])
      BY <1>0, <1>5 DEF ApplyOp, AnswerIs, TakeAnswer
    <2>3. Once(down'[c], begun', pend[c])
      <3>1. Once(down[c], begun', pend[c]) BY <1>1, <1>2 DEF Once
      <3> QED BY <1>0, <2>2, <3>1, OnceShrinks DEF Shrinks
    <2>4. \A i \in DOMAIN down[c] : down[c][i].t = "upload" => down[c][i].r.kind = "upload"
      BY DEF OwnInv, OwnRequests, Own, OwnAnswer, AsUpload
    <2>5. \A i \in DOMAIN down'[c] : i + 1 \in DOMAIN down[c] /\ down'[c][i] = down[c][i + 1]
      BY <1>0, <2>2, Tails
    <2> QED BY <2>1, <2>3, <2>4, <2>5 DEF Once
  <1>6. CASE End(c)
    <2>1. down'[c] = <<>> BY <1>0, <1>6 DEF End
    <2>2. DOMAIN down'[c] = {} BY <2>1
    <2> QED BY <2>2 DEF Once
  <1> QED BY <1>3, <1>4, <1>5, <1>6, PendingStays

\* RejectedOnce of Requests: a rejected start is answered once, however many frames of the
\* upload follow it.
THEOREM RejectionsComeOnce == Spec => []RejectedOnce
  <1>1. Init /\ TruthInv => RejectInv
    <2> SUFFICES ASSUME Init PROVE RestDiscarded /\ StillPending /\ RejectedOnce
      BY DEF RejectInv
    <2>1. \A c \in Conns : /\ up[c] = <<>> /\ stream[c] = Idle /\ queue[c] = <<>>
                           /\ down[c] = <<>>
      BY DEF Init
    <2> QED BY <2>1 DEF RestDiscarded, Discarded, StillPending, RejectedOnce
  <1>2. RejectInv /\ TruthInv' /\ [Next]_vars => RejectInv'
    BY RestDiscardedNext, StillPendingNext, RejectedOnceNext DEF RejectInv
  <1>3. RejectInv => RejectedOnce BY DEF RejectInv
  <1> QED BY <1>1, <1>2, <1>3, TruthInvAlways, PTL DEF Spec
=============================================================================
