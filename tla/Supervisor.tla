----------------------------- MODULE Supervisor -----------------------------
(***************************************************************************)
(* The supervisor process (supervisor.rs) as its threads and tasks share    *)
(* it: one task per client connection (handle_conn, command_loop), the      *)
(* writer task of each connection, a reaper thread and a PTY writer thread  *)
(* per session, and the usage sampler thread; with the part of each client  *)
(* (client.rs, runtime.rs) that decides which sessions it shows a tab for.  *)
(*                                                                         *)
(* A step is one critical section of the registry mutex, or one channel     *)
(* operation, or one synchronous stretch that touches no shared state.  The *)
(* channel to a connection's writer task, the socket and the client's       *)
(* reader are one queue, `out`.                                             *)
(***************************************************************************)
EXTENDS Naturals, Sequences

CONSTANTS
  Conns,        \* client connections, each one used once
  NoConn,       \* no connection: an empty slot, an empty cache
  MaxSessions,  \* bound: sessions ever spawned
  Samplers,     \* usage sampler threads that can exist at once
  Frames,       \* the kinds of ClientMsg the clients of this instance send
  ChanCap,      \* capacity of a connection's queue (512 in the code)
  InputCap      \* capacity of a session's input queue (256 in the code)

FrameKinds == {"Spawn", "Kill", "Attach", "WriteBytes",
               "SubscribeUsage", "UnsubscribeUsage"}

ASSUME ConnsAssumption == NoConn \notin Conns
ASSUME BoundsAssumption ==
  /\ MaxSessions \in Nat
  /\ ChanCap \in Nat \ {0}
  /\ InputCap \in Nat \ {0}
ASSUME FramesAssumption == Frames \subseteq FrameKinds

Ids == 1..MaxSessions
\* What command_loop answers a Spawn with, the dump of one session, what the task of
\* a connection may be working on, and what the supervisor sends.
Reply == [t : {"Spawned"}, id : Ids] \cup [t : {"SpawnFailed"}, id : {0}]
BuiltDump == [t : {"OutputDump"}, id : Ids]
Frame == [t : {"Kill", "Attach", "WriteBytes"}, id : Ids]
           \cup [t : {"Spawn", "SubscribeUsage", "UnsubscribeUsage"}, id : {0}]
           \cup Reply
Work == Frame \cup BuiltDump
Msg == [t : {"Exited"}, id : Ids]
         \cup [t : {"Detached", "Usage"}, id : {0}]
         \cup Reply \cup BuiltDump
NoFrame == [t |-> "Spawn", id |-> 0]

VARIABLES
  (* handle_conn, per connection *)
  pc,         \* where the connection's task is
  snap,       \* sessions_snapshot, listed in the handshake reply
  todo,       \* the sessions it still has to look up for a dump
  frame,      \* the client frame, reply or dump it is working on
  evict,      \* the connection it displaced from the slot
  gen,        \* the generation its own steal obtained, 0 before
  cancelled,  \* its CancellationToken
  open,       \* its writer task holds the receiving end of the channel
  out,        \* frames on their way to its client
  (* Shared *)
  active, active_generation, active_client_pid,
  (* Registry and the sessions' threads *)
  sessions,   \* ids registered
  next_id,
  child,      \* the shell under each PTY
  exitTo,     \* whom the reaper of a session still has to tell
  input,      \* length of the session's input queue (write_tx)
  (* usage *)
  usage_subscribed, usage_thread_alive,
  sampler,    \* where each sampler thread is
  sampleTo,   \* the connection it took its sample for
  (* clients *)
  client,     \* the client process at the other end
  initial,    \* sessions of the handshake reply it has not looked at yet
  known,      \* SupervisorClient.sessions: the sessions it has a tab for
  want,       \* frames its own bookkeeping has queued
  asked,      \* its usage popup is open: its last usage frame was SubscribeUsage
  (* history, read by properties only *)
  owed        \* sessions whose exit the connection must be told of

taskVars == <<pc, snap, todo, frame, evict, gen>>
chanVars == <<cancelled, open, out>>
slotVars == <<active, active_generation, active_client_pid>>
sessVars == <<sessions, next_id, child, exitTo, input>>
usageVars == <<usage_subscribed, usage_thread_alive, sampler, sampleTo>>
clientVars == <<client, initial, known, want>>
history == <<owed, asked>>
vars == <<taskVars, chanVars, slotVars, sessVars, usageVars, clientVars, history>>

Phases == {"new", "greeted", "detaching", "cancelling", "dumping", "sending",
           "loop", "busy", "announcing", "cleanup", "closing", "closed"}

TypeOK ==
  /\ pc \in [Conns -> Phases]
  /\ snap \in [Conns -> SUBSET Ids]
  /\ todo \in [Conns -> SUBSET Ids]
  /\ frame \in [Conns -> Work]
  /\ evict \in [Conns -> Conns \cup {NoConn}]
  /\ gen \in [Conns -> Nat]
  /\ cancelled \in [Conns -> BOOLEAN]
  /\ open \in [Conns -> BOOLEAN]
  /\ out \in [Conns -> Seq(Msg)]
  /\ active \in Conns \cup {NoConn}
  /\ active_generation \in Nat
  /\ active_client_pid \in Conns \cup {NoConn}
  /\ sessions \in SUBSET Ids
  /\ next_id \in Nat \ {0}
  /\ child \in [Ids -> {"none", "running", "dead"}]
  /\ exitTo \in [Ids -> Conns \cup {NoConn}]
  /\ input \in [Ids -> Nat]
  /\ usage_subscribed \in BOOLEAN
  /\ usage_thread_alive \in BOOLEAN
  /\ sampler \in [Samplers -> {"off", "check", "send"}]
  /\ sampleTo \in [Samplers -> Conns \cup {NoConn}]
  /\ client \in [Conns -> {"none", "up", "gone"}]
  /\ initial \in [Conns -> SUBSET Ids]
  /\ known \in [Conns -> SUBSET Ids]
  /\ want \in [Conns -> SUBSET Frame]
  /\ owed \in [Conns -> SUBSET Ids]
  /\ asked \in [Conns -> BOOLEAN]

Init ==
  /\ pc = [c \in Conns |-> "new"]
  /\ snap = [c \in Conns |-> {}]
  /\ todo = [c \in Conns |-> {}]
  /\ frame = [c \in Conns |-> NoFrame]
  /\ evict = [c \in Conns |-> NoConn]
  /\ gen = [c \in Conns |-> 0]
  /\ cancelled = [c \in Conns |-> FALSE]
  /\ open = [c \in Conns |-> FALSE]
  /\ out = [c \in Conns |-> <<>>]
  /\ active = NoConn
  /\ active_generation = 0
  /\ active_client_pid = NoConn
  /\ sessions = {}
  /\ next_id = 1
  /\ child = [id \in Ids |-> "none"]
  /\ exitTo = [id \in Ids |-> NoConn]
  /\ input = [id \in Ids |-> 0]
  /\ usage_subscribed = FALSE
  /\ usage_thread_alive = FALSE
  /\ sampler = [s \in Samplers |-> "off"]
  /\ sampleTo = [s \in Samplers |-> NoConn]
  /\ client = [c \in Conns |-> "none"]
  /\ initial = [c \in Conns |-> {}]
  /\ known = [c \in Conns |-> {}]
  /\ want = [c \in Conns |-> {}]
  /\ owed = [c \in Conns |-> {}]
  /\ asked = [c \in Conns |-> FALSE]

-----------------------------------------------------------------------------
(* The channel to a connection's writer task. *)

Message(t, id) == [t |-> t, id |-> id]

\* A blocking send can complete: there is room, or the receiver is gone.
CanSend(c) == open[c] => Len(out[c]) < ChanCap

\* The queues after a send to c: a send to a closed channel is lost.
Sent(c, m) == IF open[c] THEN [out EXCEPT ![c] = Append(@, m)] ELSE out

\* The queues after a try_send to c: a full channel loses the frame too.
TrySent(c, m) == IF Len(out[c]) < ChanCap THEN Sent(c, m) ELSE out

\* The client of c is no more, and neither are its tabs.
ClientGone(c) ==
  /\ client' = [client EXCEPT ![c] = "gone"]
  /\ initial' = [initial EXCEPT ![c] = {}]
  /\ known' = [known EXCEPT ![c] = {}]
  /\ want' = [want EXCEPT ![c] = {}]

(* command_loop, while it works on a frame. *)

Handling(c, t) == pc[c] = "busy" /\ frame[c].t = t

\* The frame is dealt with: back to reading.
Resume(c) ==
  /\ pc' = [pc EXCEPT ![c] = "loop"]
  /\ frame' = [frame EXCEPT ![c] = NoFrame]

\* ... by way of sending the dumps of the sessions S.
ResumeWithDumps(c, S) ==
  /\ todo' = [todo EXCEPT ![c] = S]
  /\ pc' = [pc EXCEPT ![c] = "dumping"]
  /\ frame' = [frame EXCEPT ![c] = NoFrame]

\* A thread that does not exist yet.
NextSampler == CHOOSE s \in Samplers : sampler[s] = "off"

-----------------------------------------------------------------------------
(* Faulty variants of the actions below: each is its action with one mistake. *)

\* The old connection is told, and not cancelled.
CancelOldNot(c) ==
  /\ pc[c] = "cancelling"
  /\ evict' = [evict EXCEPT ![c] = NoConn]
  /\ pc' = [pc EXCEPT ![c] = "dumping"]
  /\ UNCHANGED <<snap, todo, frame, gen, chanVars, slotVars, sessVars, usageVars,
                 clientVars, history>>

\* The slot is emptied by whoever leaves.
CleanupUnchecked(c) ==
  /\ pc[c] = "cleanup"
  /\ active' = NoConn
  /\ usage_subscribed' = FALSE
  /\ active_client_pid' = NoConn
  /\ cancelled' = [cancelled EXCEPT ![c] = TRUE]
  /\ pc' = [pc EXCEPT ![c] = "closing"]
  /\ UNCHANGED <<snap, todo, frame, evict, gen, open, out, active_generation,
                 sessVars, usage_thread_alive, sampler, sampleTo, clientVars,
                 history>>

\* The dump goes out ahead of the reply.
AnnounceLast(c) ==
  /\ pc[c] = "announcing"
  /\ CanSend(c)
  /\ out' = IF open[c]
            THEN [out EXCEPT ![c] = @ \o <<Message("OutputDump", frame[c].id), frame[c]>>]
            ELSE out
  /\ Resume(c)
  /\ UNCHANGED <<snap, todo, evict, gen, cancelled, open, slotVars, sessVars,
                 usageVars, clientVars, history>>

\* A dump is attempted even when the spawn failed.
AnnounceAlwaysDumps(c) ==
  /\ pc[c] = "announcing"
  /\ CanSend(c)
  /\ out' = Sent(c, frame[c])
  /\ ResumeWithDumps(c, {frame[c].id})
  /\ UNCHANGED <<snap, evict, gen, cancelled, open, slotVars, sessVars, usageVars,
                 clientVars, history>>

\* A sampler is started for every subscription.
SubscribeUsageAgain(c) ==
  /\ Handling(c, "SubscribeUsage")
  /\ usage_subscribed' = TRUE
  /\ usage_thread_alive' = TRUE
  /\ \E s \in Samplers : sampler[s] = "off"
  /\ sampler' = [sampler EXCEPT ![NextSampler] = "check"]
  /\ asked' = [asked EXCEPT ![c] = TRUE]
  /\ Resume(c)
  /\ UNCHANGED <<snap, todo, evict, gen, chanVars, slotVars, sessVars,
                 sampleTo, clientVars, owed>>

\* The reaper drops the frame when the queue is full.
SendExitedIfRoom(id) ==
  /\ exitTo[id] # NoConn
  /\ out' = TrySent(exitTo[id], Message("Exited", id))
  /\ exitTo' = [exitTo EXCEPT ![id] = NoConn]
  /\ UNCHANGED <<taskVars, cancelled, open, slotVars, sessions, next_id, child,
                 input, usageVars, clientVars, history>>

\* The sampler leaves without saying so.
SamplerCheckSilent(s) ==
  /\ sampler[s] = "check"
  /\ IF ~usage_subscribed \/ active = NoConn
     THEN /\ sampler' = [sampler EXCEPT ![s] = "off"]
          /\ UNCHANGED sampleTo
     ELSE /\ sampleTo' = [sampleTo EXCEPT ![s] = active]
          /\ sampler' = [sampler EXCEPT ![s] = "send"]
  /\ UNCHANGED <<taskVars, chanVars, slotVars, sessVars, usage_subscribed,
                 usage_thread_alive, clientVars, history>>

\* A write in progress is not raced against the cancellation.
WriterStopsOnError(c) ==
  /\ open[c]
  /\ out[c] # <<>> => client[c] = "gone"
  /\ cancelled[c] \/ client[c] = "gone"
  /\ open' = [open EXCEPT ![c] = FALSE]
  /\ out' = [out EXCEPT ![c] = <<>>]
  /\ UNCHANGED <<taskVars, cancelled, slotVars, sessVars, usageVars, clientVars,
                 history>>

-----------------------------------------------------------------------------
(* handle_conn *)

\* The handshake request is read and the sessions are snapshotted for the
\* reply; a client of another protocol version is turned away instead.
Handshake(c) ==
  /\ pc[c] = "new"
  /\ \/ /\ snap' = [snap EXCEPT ![c] = sessions]
        /\ pc' = [pc EXCEPT ![c] = "greeted"]
     \/ /\ pc' = [pc EXCEPT ![c] = "closed"]
        /\ UNCHANGED snap
  /\ UNCHANGED <<todo, frame, evict, gen, chanVars, slotVars, sessVars,
                 usageVars, clientVars, history>>

\* The client hung up before the reply could be written.
HandshakeFails(c) ==
  /\ pc[c] = "greeted"
  /\ pc' = [pc EXCEPT ![c] = "closed"]
  /\ snap' = [snap EXCEPT ![c] = {}]
  /\ UNCHANGED <<todo, frame, evict, gen, chanVars, slotVars, sessVars,
                 usageVars, clientVars, history>>

\* The reply is written, the writer task started, and the slot taken under the
\* registry mutex.
Steal(c) ==
  /\ pc[c] = "greeted"
  /\ active' = c
  /\ active_generation' = active_generation + 1
  /\ gen' = [gen EXCEPT ![c] = active_generation + 1]
  /\ active_client_pid' = c
  /\ evict' = [evict EXCEPT ![c] = active]
  /\ pc' = [pc EXCEPT ![c] = IF active = NoConn THEN "dumping" ELSE "detaching"]
  /\ todo' = [todo EXCEPT ![c] = snap[c]]
  /\ open' = [open EXCEPT ![c] = TRUE]
  /\ client' = [client EXCEPT ![c] = "up"]
  /\ initial' = [initial EXCEPT ![c] = snap[c]]
  /\ owed' = [owed EXCEPT ![c] = sessions]
  /\ UNCHANGED <<snap, frame, cancelled, out, sessVars, usageVars, known, want,
                 asked>>

\* The displaced connection is told, if its queue has room ...
Detach(c) ==
  /\ pc[c] = "detaching"
  /\ out' = TrySent(evict[c], Message("Detached", 0))
  /\ pc' = [pc EXCEPT ![c] = "cancelling"]
  /\ UNCHANGED <<snap, todo, frame, evict, gen, cancelled, open, slotVars,
                 sessVars, usageVars, clientVars, history>>

\* ... and cancelled, which is what frees its tasks.
CancelOld(c) ==
  /\ pc[c] = "cancelling"
  /\ cancelled' = [cancelled EXCEPT ![evict[c]] = TRUE]
  /\ evict' = [evict EXCEPT ![c] = NoConn]
  /\ pc' = [pc EXCEPT ![c] = "dumping"]
  /\ UNCHANGED <<snap, todo, frame, gen, open, out, slotVars, sessVars,
                 usageVars, clientVars, history>>

\* One dump is built, of a session of the snapshot or of the one just spawned or
\* asked for; a session that is no longer registered is skipped.
Dump(c) ==
  /\ pc[c] = "dumping"
  /\ \E id \in todo[c] :
       /\ todo' = [todo EXCEPT ![c] = @ \ {id}]
       /\ IF id \in sessions
          THEN /\ frame' = [frame EXCEPT ![c] = Message("OutputDump", id)]
               /\ pc' = [pc EXCEPT ![c] = "sending"]
          ELSE UNCHANGED <<frame, pc>>
  /\ UNCHANGED <<snap, evict, gen, chanVars, slotVars, sessVars, usageVars,
                 clientVars, history>>

\* ... and sent once there is room: its session may have ended in the meantime.
SendDump(c) ==
  /\ pc[c] = "sending"
  /\ CanSend(c)
  /\ out' = Sent(c, frame[c])
  /\ frame' = [frame EXCEPT ![c] = NoFrame]
  /\ pc' = [pc EXCEPT ![c] = "dumping"]
  /\ UNCHANGED <<snap, todo, evict, gen, cancelled, open, slotVars, sessVars,
                 usageVars, clientVars, history>>

DumpsDone(c) ==
  /\ pc[c] = "dumping"
  /\ todo[c] = {}
  /\ pc' = [pc EXCEPT ![c] = "loop"]
  /\ UNCHANGED <<snap, todo, frame, evict, gen, chanVars, slotVars, sessVars,
                 usageVars, clientVars, history>>

\* The command loop ends when the connection is cancelled or the client gone.
LeaveLoop(c) ==
  /\ pc[c] = "loop"
  /\ cancelled[c] \/ client[c] = "gone"
  /\ pc' = [pc EXCEPT ![c] = "cleanup"]
  /\ UNCHANGED <<snap, todo, frame, evict, gen, chanVars, slotVars, sessVars,
                 usageVars, clientVars, history>>

\* The slot is emptied only by the connection whose steal was the last one.
Cleanup(c) ==
  /\ pc[c] = "cleanup"
  /\ IF active_generation = gen[c]
     THEN /\ active' = NoConn
          /\ usage_subscribed' = FALSE
          /\ active_client_pid' = NoConn
     ELSE UNCHANGED <<active, usage_subscribed, active_client_pid>>
  /\ cancelled' = [cancelled EXCEPT ![c] = TRUE]
  /\ pc' = [pc EXCEPT ![c] = "closing"]
  /\ UNCHANGED <<snap, todo, frame, evict, gen, open, out, active_generation,
                 sessVars, usage_thread_alive, sampler, sampleTo, clientVars,
                 history>>

\* The writer task is awaited and both halves of the stream are dropped, so
\* the client reads the end of the stream.
Closed(c) ==
  /\ pc[c] = "closing"
  /\ ~open[c]
  /\ pc' = [pc EXCEPT ![c] = "closed"]
  /\ snap' = [snap EXCEPT ![c] = {}]
  /\ ClientGone(c)
  /\ owed' = [owed EXCEPT ![c] = {}]
  /\ asked' = [asked EXCEPT ![c] = FALSE]
  /\ UNCHANGED <<todo, frame, evict, gen, chanVars, slotVars, sessVars, usageVars>>

-----------------------------------------------------------------------------
(* command_loop: one frame is read, then handled. *)

\* What the user of c may ask for next, and what its bookkeeping has queued.
PossibleFrames(c) ==
  want[c]
    \cup [t : Frames \cap {IF asked[c] THEN "UnsubscribeUsage" ELSE "SubscribeUsage"},
          id : {0}]
    \cup [t : Frames \cap {"Kill", "WriteBytes"}, id : known[c]]
    \cup [t : IF next_id \in Ids THEN Frames \cap {"Spawn"} ELSE {}, id : {0}]

\* The select is biased: a cancelled connection reads no more frames.
ReadFrame(c) ==
  /\ pc[c] = "loop"
  /\ ~cancelled[c]
  /\ client[c] = "up"
  /\ \E f \in PossibleFrames(c) :
       /\ frame' = [frame EXCEPT ![c] = f]
       /\ want' = [want EXCEPT ![c] = @ \ {f}]
  /\ pc' = [pc EXCEPT ![c] = "busy"]
  /\ UNCHANGED <<snap, todo, evict, gen, chanVars, slotVars, sessVars, usageVars,
                 client, initial, known, history>>

\* spawn_session: the shell is started, the session registered under the next
\* id and its threads started; or it fails before anything is registered.
Spawn(c) ==
  /\ Handling(c, "Spawn")
  /\ \/ /\ next_id \in Ids
        /\ sessions' = sessions \cup {next_id}
        /\ next_id' = next_id + 1
        /\ child' = [child EXCEPT ![next_id] = "running"]
        /\ frame' = [frame EXCEPT ![c] = Message("Spawned", next_id)]
        /\ owed' = [d \in Conns |-> IF d = active THEN owed[d] \cup {next_id} ELSE owed[d]]
     \/ /\ frame' = [frame EXCEPT ![c] = Message("SpawnFailed", 0)]
        /\ UNCHANGED <<sessions, next_id, child, owed>>
  /\ pc' = [pc EXCEPT ![c] = "announcing"]
  /\ UNCHANGED <<snap, todo, evict, gen, chanVars, slotVars, exitTo, input,
                 usageVars, clientVars, asked>>

\* The reply to Spawn goes out ahead of the session's dump; a closed channel
\* ends the command loop.
Announce(c) ==
  /\ pc[c] = "announcing"
  /\ CanSend(c)
  /\ out' = Sent(c, frame[c])
  /\ IF open[c]
     THEN ResumeWithDumps(c, {frame[c].id} \cap Ids)
     ELSE /\ pc' = [pc EXCEPT ![c] = "cleanup"]
          /\ UNCHANGED <<todo, frame>>
  /\ UNCHANGED <<snap, evict, gen, cancelled, open, slotVars, sessVars, usageVars,
                 clientVars, history>>

\* A dump of one session, again.
Attach(c) ==
  /\ Handling(c, "Attach")
  /\ ResumeWithDumps(c, {frame[c].id})
  /\ UNCHANGED <<snap, evict, gen, chanVars, slotVars, sessVars, usageVars,
                 clientVars, history>>

\* kill_session hangs the shell up, which may or may not end it.
Kill(c) ==
  /\ Handling(c, "Kill")
  /\ Resume(c)
  /\ \/ /\ frame[c].id \in sessions
        /\ child' = [child EXCEPT ![frame[c].id] = "dead"]
     \/ UNCHANGED child
  /\ UNCHANGED <<snap, todo, evict, gen, chanVars, slotVars, sessions,
                 next_id, exitTo, input, usageVars, clientVars, history>>

\* Bytes for the shell go to the session's bounded queue with a send that
\* blocks the task, not only the future: cancellation does not reach it.
\* A dead shell's writer thread has dropped the receiving end.
WriteBytes(c) ==
  /\ Handling(c, "WriteBytes")
  /\ LET id == frame[c].id IN
       \/ /\ id \in sessions /\ child[id] = "running"
          /\ input[id] < InputCap
          /\ input' = [input EXCEPT ![id] = @ + 1]
       \/ /\ id \notin sessions \/ child[id] = "dead"
          /\ UNCHANGED input
  /\ Resume(c)
  /\ UNCHANGED <<snap, todo, evict, gen, chanVars, slotVars, sessions,
                 next_id, child, exitTo, usageVars, clientVars, history>>

\* The flag is set, and a sampler thread started unless one is alive.
SubscribeUsage(c) ==
  /\ Handling(c, "SubscribeUsage")
  /\ usage_subscribed' = TRUE
  /\ IF usage_thread_alive
     THEN UNCHANGED <<usage_thread_alive, sampler>>
     ELSE /\ usage_thread_alive' = TRUE
          /\ \E s \in Samplers : sampler[s] = "off"
          /\ sampler' = [sampler EXCEPT ![NextSampler] = "check"]
  /\ asked' = [asked EXCEPT ![c] = TRUE]
  /\ Resume(c)
  /\ UNCHANGED <<snap, todo, evict, gen, chanVars, slotVars, sessVars,
                 sampleTo, clientVars, owed>>

UnsubscribeUsage(c) ==
  /\ Handling(c, "UnsubscribeUsage")
  /\ usage_subscribed' = FALSE
  /\ asked' = [asked EXCEPT ![c] = FALSE]
  /\ Resume(c)
  /\ UNCHANGED <<snap, todo, evict, gen, chanVars, slotVars, sessVars,
                 usage_thread_alive, sampler, sampleTo, clientVars, owed>>

-----------------------------------------------------------------------------
(* The sessions' threads *)

ChildExits(id) ==
  /\ child[id] = "running"
  /\ child' = [child EXCEPT ![id] = "dead"]
  /\ UNCHANGED <<taskVars, chanVars, slotVars, sessions, next_id, exitTo, input,
                 usageVars, clientVars, history>>

\* The reaper removes the session and looks the active client up in one
\* critical section ...
Reap(id) ==
  /\ child[id] = "dead"
  /\ id \in sessions
  /\ sessions' = sessions \ {id}
  /\ exitTo' = [exitTo EXCEPT ![id] = active]
  /\ UNCHANGED <<taskVars, chanVars, slotVars, next_id, child, input, usageVars,
                 clientVars, history>>

\* ... and tells it, waiting for room in its queue.
SendExited(id) ==
  /\ exitTo[id] # NoConn
  /\ CanSend(exitTo[id])
  /\ out' = Sent(exitTo[id], Message("Exited", id))
  /\ exitTo' = [exitTo EXCEPT ![id] = NoConn]
  /\ UNCHANGED <<taskVars, cancelled, open, slotVars, sessions, next_id, child,
                 input, usageVars, clientVars, history>>

\* The program under the PTY reads some of its input, when it cares to.
ReadInput(id) ==
  /\ child[id] = "running"
  /\ input[id] > 0
  /\ input' = [input EXCEPT ![id] = @ - 1]
  /\ UNCHANGED <<taskVars, chanVars, slotVars, sessions, next_id, child, exitTo,
                 usageVars, clientVars, history>>

-----------------------------------------------------------------------------
(* The usage sampler *)

\* Once a second: give up, and say so, under the same lock that subscribers
\* take; or note whom to send the next sample to.
SamplerCheck(s) ==
  /\ sampler[s] = "check"
  /\ IF ~usage_subscribed \/ active = NoConn
     THEN /\ usage_thread_alive' = FALSE
          /\ sampler' = [sampler EXCEPT ![s] = "off"]
          /\ UNCHANGED sampleTo
     ELSE /\ sampleTo' = [sampleTo EXCEPT ![s] = active]
          /\ sampler' = [sampler EXCEPT ![s] = "send"]
          /\ UNCHANGED usage_thread_alive
  /\ UNCHANGED <<taskVars, chanVars, slotVars, sessVars, usage_subscribed,
                 clientVars, history>>

SamplerSend(s) ==
  /\ sampler[s] = "send"
  /\ out' = TrySent(sampleTo[s], Message("Usage", 0))
  /\ sampler' = [sampler EXCEPT ![s] = "check"]
  /\ sampleTo' = [sampleTo EXCEPT ![s] = NoConn]
  /\ UNCHANGED <<taskVars, cancelled, open, slotVars, sessVars, usage_subscribed,
                 usage_thread_alive, clientVars, history>>

-----------------------------------------------------------------------------
(* The writer task of c and the reader task of its client *)

\* The writer takes one frame off the queue, and the client handles it: a tab
\* for a session it spawned, no more tab for one that exited.  A Detached frame
\* ends both.
Deliver(c) ==
  /\ open[c] /\ ~cancelled[c]
  /\ client[c] = "up"
  /\ out[c] # <<>>
  /\ LET m == Head(out[c]) IN
       \/ /\ m.t = "Detached"
          /\ ClientGone(c)
          /\ open' = [open EXCEPT ![c] = FALSE]
          /\ out' = [out EXCEPT ![c] = <<>>]
          /\ UNCHANGED owed
       \/ /\ m.t # "Detached"
          /\ known' = [known EXCEPT ![c] = CASE m.t = "Spawned" -> @ \cup {m.id}
                                             [] m.t = "Exited" -> @ \ {m.id}
                                             [] OTHER -> @]
          /\ owed' = [owed EXCEPT ![c] = IF m.t = "Exited" THEN @ \ {m.id} ELSE @]
          /\ out' = [out EXCEPT ![c] = Tail(@)]
          /\ UNCHANGED <<open, client, initial, want>>
  /\ UNCHANGED <<taskVars, cancelled, slotVars, sessVars, usageVars, asked>>

\* The writer stops when cancelled or when a write fails; what is left in the
\* queue is lost.
WriterStops(c) ==
  /\ open[c]
  /\ cancelled[c] \/ (client[c] = "gone" /\ out[c] # <<>>)
  /\ open' = [open EXCEPT ![c] = FALSE]
  /\ out' = [out EXCEPT ![c] = <<>>]
  /\ UNCHANGED <<taskVars, cancelled, slotVars, sessVars, usageVars, clientVars,
                 history>>

\* rebind_one: a session of the handshake reply gets a tab, and its dump is
\* asked for; or its worktree is unknown and it is killed.
Rebind(c) ==
  /\ client[c] = "up"
  /\ \E id \in initial[c] :
       /\ initial' = [initial EXCEPT ![c] = @ \ {id}]
       /\ \/ /\ known' = [known EXCEPT ![c] = @ \cup {id}]
             /\ want' = [want EXCEPT ![c] = @ \cup [t : Frames \cap {"Attach"}, id : {id}]]
          \/ /\ want' = [want EXCEPT ![c] = @ \cup [t : Frames \cap {"Kill"}, id : {id}]]
             /\ UNCHANGED known
  /\ UNCHANGED <<taskVars, chanVars, slotVars, sessVars, usageVars, client, history>>

\* The client exits or its link breaks.
ClientQuits(c) ==
  /\ client[c] = "up"
  /\ ClientGone(c)
  /\ UNCHANGED <<taskVars, chanVars, slotVars, sessVars, usageVars, history>>

-----------------------------------------------------------------------------

ServeStep(c) ==
  \/ HandshakeFails(c) \/ Steal(c) \/ Detach(c) \/ CancelOld(c)
  \/ Dump(c) \/ SendDump(c) \/ DumpsDone(c) \/ LeaveLoop(c) \/ Cleanup(c) \/ Closed(c)

HandleStep(c) ==
  \/ Spawn(c) \/ Announce(c) \/ Attach(c) \/ Kill(c) \/ WriteBytes(c)
  \/ SubscribeUsage(c) \/ UnsubscribeUsage(c)

ClientStep(c) == Deliver(c) \/ Rebind(c) \/ ClientQuits(c)

SessionStep(id) ==
  ChildExits(id) \/ Reap(id) \/ SendExited(id) \/ ReadInput(id)

\* Every connection of the bound has been used.
AllClosed == (\A c \in Conns : pc[c] = "closed") /\ UNCHANGED vars

Next ==
  \/ \E c \in Conns : Handshake(c) \/ ServeStep(c) \/ ReadFrame(c)
                        \/ HandleStep(c) \/ WriterStops(c) \/ ClientStep(c)
  \/ \E id \in Ids : SessionStep(id)
  \/ \E s \in Samplers : SamplerCheck(s) \/ SamplerSend(s)
  \/ AllClosed

Spec == Init /\ [][Next]_vars

\* The runtime keeps running every task and thread of the supervisor that can
\* run.  Clients, users, shells and the network owe nothing: a client may stop
\* reading without closing anything.
Fairness ==
  /\ \A c \in Conns : /\ WF_vars(ServeStep(c)) /\ WF_vars(HandleStep(c))
                      /\ WF_vars(WriterStops(c))
  /\ \A id \in Ids : WF_vars(Reap(id)) /\ WF_vars(SendExited(id))
  /\ \A s \in Samplers : WF_vars(SamplerCheck(s)) /\ WF_vars(SamplerSend(s))

FairSpec == Spec /\ Fairness

-----------------------------------------------------------------------------
(* Properties *)

InQueue(c, t, id) == \E k \in DOMAIN out[c] : out[c][k] = Message(t, id)

\* The client that holds the slot learns of every exit it should: a session
\* registered when it took the slot, or since, is still registered, or its
\* reaper holds this very client, or the Exited frame is queued, or it has been
\* delivered.  This is what removing the session and reading the slot in one
\* critical section buys (the reaper of spawn_session).
ExitNotMissed ==
  \A c \in Conns : active = c /\ open[c] =>
    \A id \in owed[c] :
      id \in sessions \/ exitTo[id] = c \/ InQueue(c, "Exited", id)

\* Nobody serves two clients for long: a connection that has lost the slot is
\* cancelled already, or the one that displaced it is about to do so.
StolenIsCancelled ==
  \A c \in Conns : gen[c] > 0 /\ active # c =>
    \/ cancelled[c]
    \/ \E d \in Conns : evict[d] = c /\ pc[d] \in {"detaching", "cancelling"}

\* The wire-protocol invariant of command_loop: the dump of a session that a
\* client spawned itself never overtakes the Spawned frame that names it.
SpawnedFirst ==
  \A c \in Conns : client[c] = "up" => \A k \in DOMAIN out[c] :
    LET id == out[c][k].id IN
    out[c][k].t = "OutputDump" /\ id \notin snap[c] =>
      \/ \E j \in 1..(k - 1) : out[c][j] = Message("Spawned", id)
      \/ id \in known[c]
      \/ id \notin sessions

\* No two sampler threads run at once, however subscriptions, steals and
\* disconnections interleave with the sampler's one-second rounds.
OneSampler ==
  \A s, t \in Samplers : sampler[s] # "off" /\ sampler[t] # "off" => s = t

\* A subscription is never left without a producer: while the client that holds
\* the slot has subscribed and the flag stands, a sampler thread runs.
NoLostSampler ==
  usage_subscribed /\ active # NoConn /\ asked[active] =>
    \E s \in Samplers : sampler[s] # "off"

\* The slot behaves as AttachSlot says: in particular no connection on its way
\* out ever empties the slot of the client that displaced it.
Slot == INSTANCE AttachSlot WITH
  owner <- active,
  served <- {c \in Conns : gen[c] > 0},
  leaving <- {c \in Conns : gen[c] > 0 /\ pc[c] \in {"cleanup", "closing", "closed"}}
SlotSpec == Slot!Spec
SlotFairSpec == Slot!FairSpec

\* A connection that lost the slot ends, whatever its client does and whatever
\* runs in the sessions: what the comments on write_tx and on the steal promise.
StolenCloses ==
  \A c \in Conns : gen[c] > 0 /\ active # c ~> pc[c] = "closed"

\* What the code does: a connection that lost the slot ends, wedged client or
\* not, once the shells read their input and blocked senders get their turn.
StolenClosesIfRead ==
  (\A id \in Ids : WF_vars(ReadInput(id)) /\ \A c \in Conns : SF_vars(WriteBytes(c)))
    => StolenCloses

\* No reaper waits for ever on a client that was displaced.
ReaperFreed ==
  \A c \in Conns, id \in Ids :
    (exitTo[id] = c /\ active # c) ~> exitTo[id] # c

\* A tab does not outlive its session: when the shell under a tab ends, the
\* client drops the tab, provided it keeps reading and is not displaced.
TabCloses ==
  (\A c \in Conns : WF_vars(Deliver(c))) =>
    \A c \in Conns, id \in Ids :
      (id \in known[c] /\ id \in sessions /\ child[id] = "dead" /\ active = c)
        ~> (id \notin known[c] \/ active # c)

\* What the comment on the reaper concludes from its critical section, for a
\* session listed in the handshake reply: an attaching client comes fully before
\* the exit, and is told of it, or fully after, and never sees the session.
AttachBeforeOrAfterExit ==
  \A c \in Conns : active = c /\ client[c] = "up" =>
    \A id \in known[c] \cap snap[c] :
      id \in sessions \/ exitTo[id] = c \/ InQueue(c, "Exited", id)
=============================================================================
