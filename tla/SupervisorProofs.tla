--------------------------- MODULE SupervisorProofs ---------------------------
(***************************************************************************)
(* Theorems of Supervisor, for every value of its constants: types, the slot *)
(* and the refinement of AttachSlot, the sampler, and the frames on their    *)
(* way to a client.                                                          *)
(***************************************************************************)
EXTENDS Supervisor, TLAPS

-----------------------------------------------------------------------------
(* Frames, replies and queues. *)

\* What Message makes, with an id where the frame carries one, is a frame.
LEMMA MessageType ==
  /\ \A id \in Ids, t \in {"Spawned", "OutputDump", "Exited"} : Message(t, id) \in Msg
  /\ \A t \in {"SpawnFailed", "Detached", "Usage"} : Message(t, 0) \in Msg
  BY DEF Message, Msg, Reply, BuiltDump

\* Both answers to a Spawn are replies, and replies are frames of the queue; so are
\* dumps.
LEMMA ReplyType ==
  /\ \A id \in Ids : Message("Spawned", id) \in Reply
  /\ Message("SpawnFailed", 0) \in Reply
  /\ Reply \subseteq Frame
  /\ Reply \subseteq Msg
  /\ \A id \in Ids : Message("OutputDump", id) \in BuiltDump
  /\ Frame \subseteq Work
  /\ BuiltDump \subseteq Work
  /\ BuiltDump \subseteq Msg
  BY DEF Message, Reply, BuiltDump, Frame, Work, Msg

\* A function keeps its type when one value is replaced by one of the range.
LEMMA ExceptType ==
  ASSUME NEW S, NEW T, NEW f \in [S -> T], NEW x, NEW v \in T
  PROVE  [f EXCEPT ![x] = v] \in [S -> T]
  OBVIOUS

\* The idle value of `frame` is of its type.
LEMMA NoFrameType == NoFrame \in Work
  BY DEF NoFrame, Frame, Work

\* A send, blocking or not, leaves every queue a queue of frames.
LEMMA SentType ==
  ASSUME out \in [Conns -> Seq(Msg)], NEW c, NEW m \in Msg
  PROVE  Sent(c, m) \in [Conns -> Seq(Msg)] /\ TrySent(c, m) \in [Conns -> Seq(Msg)]
  <1>1. [out EXCEPT ![c] = Append(@, m)] \in [Conns -> Seq(Msg)]
    <2>1. CASE c \in Conns
      <3>1. Append(out[c], m) \in Seq(Msg) BY <2>1
      <3> QED BY <2>1, <3>1
    <2>2. CASE c \notin Conns
      <3>1. [out EXCEPT ![c] = Append(@, m)] = out BY <2>2
      <3> QED BY <3>1
    <2> QED BY <2>1, <2>2
  <1> QED BY <1>1 DEF Sent, TrySent

\* What a client may send is a frame.
LEMMA PossibleFramesType ==
  ASSUME TypeOK, NEW c \in Conns
  PROVE  PossibleFrames(c) \subseteq Frame
  <1>1. want[c] \subseteq Frame BY DEF TypeOK
  <1>2. ASSUME NEW S, S \subseteq {"Spawn", "SubscribeUsage", "UnsubscribeUsage"}
        PROVE  [t : S, id : {0}] \subseteq Frame
    BY <1>2 DEF Frame
  <1>3. ASSUME NEW S, S \subseteq {"Kill", "WriteBytes", "Attach"}, NEW N, N \subseteq Ids
        PROVE  [t : S, id : N] \subseteq Frame
    BY <1>3 DEF Frame
  <1>4. [t : Frames \cap {IF asked[c] THEN "UnsubscribeUsage" ELSE "SubscribeUsage"}, id : {0}]
          \subseteq Frame
    BY <1>2
  <1>5. [t : Frames \cap {"Kill", "WriteBytes"}, id : known[c]] \subseteq Frame
    <2>1. known[c] \subseteq Ids BY DEF TypeOK
    <2>2. Frames \cap {"Kill", "WriteBytes"} \subseteq {"Kill", "WriteBytes", "Attach"}
      OBVIOUS
    <2> QED BY <2>1, <2>2, <1>3, Zenon
  <1>6. [t : IF next_id \in Ids THEN Frames \cap {"Spawn"} ELSE {}, id : {0}] \subseteq Frame
    BY <1>2
  <1> QED BY <1>1, <1>4, <1>5, <1>6 DEF PossibleFrames

-----------------------------------------------------------------------------
(* Types.  TypeOK is inductive once a connection that announces is known to hold a
   reply, and one that sends a dump to hold one: both send `frame` itself. *)

TypeInv ==
  /\ TypeOK
  /\ \A c \in Conns : pc[c] = "announcing" => frame[c] \in Reply
  /\ \A c \in Conns : pc[c] = "sending" => frame[c] \in BuiltDump

\* spawn_session registers an id of the bound and leaves a reply to announce.
LEMMA SpawnType == ASSUME TypeInv, NEW c \in Conns, Spawn(c) PROVE TypeInv'
  <1> USE DEF TypeInv, TypeOK, taskVars, chanVars, slotVars, sessVars, usageVars,
              clientVars, history
  <1>1. pc' \in [Conns -> Phases] /\ pc'[c] = "announcing"
    BY DEF Spawn, Phases
  <1>2. CASE /\ next_id \in Ids
             /\ sessions' = sessions \cup {next_id}
             /\ next_id' = next_id + 1
             /\ child' = [child EXCEPT ![next_id] = "running"]
             /\ frame' = [frame EXCEPT ![c] = Message("Spawned", next_id)]
             /\ owed' = [d \in Conns |-> IF d = active THEN owed[d] \cup {next_id} ELSE owed[d]]
    <2>1. owed' \in [Conns -> SUBSET Ids] BY <1>2
    <2>2. frame' \in [Conns -> Work] /\ frame'[c] \in Reply BY <1>2, ReplyType
    <2>3. child' \in [Ids -> {"none", "running", "dead"}] BY <1>2
    <2>4. next_id' \in Nat \ {0} BY <1>2
    <2> QED BY <1>1, <1>2, <2>1, <2>2, <2>3, <2>4 DEF Spawn
  <1>3. CASE /\ frame' = [frame EXCEPT ![c] = Message("SpawnFailed", 0)]
             /\ UNCHANGED <<sessions, next_id, child, owed>>
    <2>1. frame' \in [Conns -> Work] /\ frame'[c] \in Reply BY <1>3, ReplyType
    <2> QED BY <1>1, <1>3, <2>1 DEF Spawn
  <1> QED BY <1>2, <1>3 DEF Spawn

\* A dump that is built is a frame, for as long as it waits for room.
LEMMA DumpType == ASSUME TypeInv, NEW c \in Conns, Dump(c) \/ SendDump(c) PROVE TypeInv'
  <1> USE DEF TypeInv, TypeOK, taskVars, chanVars, slotVars, sessVars, usageVars,
              clientVars, history
  <1>1. CASE Dump(c)
    <2>1. PICK id \in todo[c] :
            /\ todo' = [todo EXCEPT ![c] = @ \ {id}]
            /\ \/ /\ frame' = [frame EXCEPT ![c] = Message("OutputDump", id)]
                  /\ pc' = [pc EXCEPT ![c] = "sending"]
               \/ UNCHANGED <<frame, pc>>
      BY <1>1 DEF Dump
    <2>2. id \in Ids OBVIOUS
    <2>3. Message("OutputDump", id) \in BuiltDump /\ Message("OutputDump", id) \in Work
      BY <2>2, ReplyType
    <2>4. todo' \in [Conns -> SUBSET Ids] BY <2>1
    <2>5. pc' \in [Conns -> Phases] BY <2>1 DEF Phases
    <2>6. frame' \in [Conns -> Work] BY <2>1, <2>3
    <2>7. \A d \in Conns : /\ pc'[d] = "announcing" => frame'[d] \in Reply
                           /\ pc'[d] = "sending" => frame'[d] \in BuiltDump
      BY <2>1, <2>3
    <2> QED BY <1>1, <2>4, <2>5, <2>6, <2>7 DEF Dump
  <1>2. CASE SendDump(c)
    <2>1. frame[c] \in Msg BY <1>2, ReplyType DEF SendDump
    <2>2. out' \in [Conns -> Seq(Msg)] BY <1>2, <2>1, SentType DEF SendDump
    <2>3. pc' \in [Conns -> Phases] BY <1>2 DEF SendDump, Phases
    <2>4. frame' \in [Conns -> Work] BY <1>2, NoFrameType DEF SendDump
    <2>5. \A d \in Conns : /\ pc'[d] = "announcing" => frame'[d] \in Reply
                           /\ pc'[d] = "sending" => frame'[d] \in BuiltDump
      BY <1>2 DEF SendDump
    <2> QED BY <1>2, <2>2, <2>3, <2>4, <2>5 DEF SendDump
  <1> QED BY <1>1, <1>2

\* Announcing sends the reply and at most one dump request.
LEMMA AnnounceType == ASSUME TypeInv, NEW c \in Conns, Announce(c) PROVE TypeInv'
  <1> USE DEF TypeInv, TypeOK, taskVars, chanVars, slotVars, sessVars, usageVars,
              clientVars, history
  <1>1. out' \in [Conns -> Seq(Msg)]
    BY SentType, ReplyType DEF Announce
  <1>2. pc' \in [Conns -> Phases] /\ pc'[c] \notin {"announcing", "sending"}
    BY DEF Announce, ResumeWithDumps, Phases
  <1>3. frame' \in [Conns -> Work] /\ \A d \in Conns \ {c} : frame'[d] = frame[d] /\ pc'[d] = pc[d]
    <2>1. CASE open[c]
      <3>1. frame' = [frame EXCEPT ![c] = NoFrame] /\ pc' = [pc EXCEPT ![c] = "dumping"]
        BY <2>1 DEF Announce, ResumeWithDumps
      <3> QED BY <3>1, NoFrameType
    <2>2. CASE ~open[c] BY <2>2 DEF Announce
    <2> QED BY <2>1, <2>2
  <1>4. todo' \in [Conns -> SUBSET Ids]
    <2>1. {frame[c].id} \cap Ids \in SUBSET Ids OBVIOUS
    <2>2. CASE open[c] BY <2>1, <2>2 DEF Announce, ResumeWithDumps
    <2>3. CASE ~open[c] BY <2>3 DEF Announce
    <2> QED BY <2>2, <2>3
  <1> QED BY <1>1, <1>2, <1>3, <1>4 DEF Announce

\* What the client does with a frame keeps its tabs within the ids.
LEMMA DeliverType == ASSUME TypeInv, NEW c \in Conns, Deliver(c) PROVE TypeInv'
  <1> USE DEF TypeInv, TypeOK, taskVars, chanVars, slotVars, sessVars, usageVars,
              clientVars, history
  <1>1. Head(out[c]) \in Msg /\ Tail(out[c]) \in Seq(Msg)
    BY DEF Deliver
  <1>2. out' \in [Conns -> Seq(Msg)]
    <2>1. <<>> \in Seq(Msg) OBVIOUS
    <2>2. out' = [out EXCEPT ![c] = <<>>] \/ out' = [out EXCEPT ![c] = Tail(@)]
      BY DEF Deliver
    <2> QED BY <1>1, <2>1, <2>2
  <1>3. known' \in [Conns -> SUBSET Ids]
    <2>1. Head(out[c]).t = "Spawned" => Head(out[c]).id \in Ids
      BY <1>1 DEF Msg, Reply, BuiltDump
    <2>2. Head(out[c]).t = "Spawned" => known[c] \cup {Head(out[c]).id} \in SUBSET Ids
      BY <2>1
    <2>3. known[c] \ {Head(out[c]).id} \in SUBSET Ids /\ {} \in SUBSET Ids
      OBVIOUS
    <2>4. \/ known' = [known EXCEPT ![c] = {}]
          \/ known' = known
          \/ known' = [known EXCEPT ![c] = @ \ {Head(out[c]).id}]
          \/ /\ Head(out[c]).t = "Spawned"
             /\ known' = [known EXCEPT ![c] = @ \cup {Head(out[c]).id}]
      BY DEF Deliver, ClientGone
    <2>5. CASE Head(out[c]).t = "Spawned"
      <3>1. [known EXCEPT ![c] = known[c] \cup {Head(out[c]).id}] \in [Conns -> SUBSET Ids]
        BY <2>2, <2>5, ExceptType
      <3> QED BY <2>3, <2>4, <3>1
    <2>6. CASE Head(out[c]).t # "Spawned"
      BY <2>3, <2>4, <2>6
    <2> QED BY <2>5, <2>6
  <1>4. owed' \in [Conns -> SUBSET Ids]
    <2>1. owed[c] \ {Head(out[c]).id} \in SUBSET Ids OBVIOUS
    <2>2. owed' = owed \/ owed' = [owed EXCEPT ![c] = @ \ {Head(out[c]).id}]
      BY DEF Deliver
    <2> QED BY <2>1, <2>2
  <1>5. /\ open' \in [Conns -> BOOLEAN]
        /\ client' \in [Conns -> {"none", "up", "gone"}]
        /\ initial' \in [Conns -> SUBSET Ids]
        /\ want' \in [Conns -> SUBSET Frame]
    BY DEF Deliver, ClientGone
  <1> QED BY <1>2, <1>3, <1>4, <1>5 DEF Deliver

\* What the client queues for a listed session is a frame.
LEMMA RebindType == ASSUME TypeInv, NEW c \in Conns, Rebind(c) PROVE TypeInv'
  <1> USE DEF TypeInv, TypeOK, taskVars, chanVars, slotVars, sessVars, usageVars,
              clientVars, history
  <1>1. PICK id \in initial[c] :
           /\ initial' = [initial EXCEPT ![c] = @ \ {id}]
           /\ \/ /\ known' = [known EXCEPT ![c] = @ \cup {id}]
                 /\ want' = [want EXCEPT ![c] = @ \cup [t : Frames \cap {"Attach"}, id : {id}]]
              \/ /\ want' = [want EXCEPT ![c] = @ \cup [t : Frames \cap {"Kill"}, id : {id}]]
                 /\ UNCHANGED known
    BY DEF Rebind
  <1>2. id \in Ids OBVIOUS
  <1>3. [t : Frames \cap {"Attach"}, id : {id}] \subseteq Frame BY <1>2 DEF Frame
  <1>4. [t : Frames \cap {"Kill"}, id : {id}] \subseteq Frame BY <1>2 DEF Frame
  <1>5. want' \in [Conns -> SUBSET Frame]
    <2>1. /\ want[c] \cup [t : Frames \cap {"Attach"}, id : {id}] \in SUBSET Frame
          /\ want[c] \cup [t : Frames \cap {"Kill"}, id : {id}] \in SUBSET Frame
      BY <1>3, <1>4
    <2>2. /\ [want EXCEPT ![c] = want[c] \cup [t : Frames \cap {"Attach"}, id : {id}]]
               \in [Conns -> SUBSET Frame]
          /\ [want EXCEPT ![c] = want[c] \cup [t : Frames \cap {"Kill"}, id : {id}]]
               \in [Conns -> SUBSET Frame]
      BY <2>1, ExceptType
    <2> QED BY <1>1, <2>2
  <1>6. known' \in [Conns -> SUBSET Ids]
    <2>1. known[c] \cup {id} \in SUBSET Ids BY <1>2
    <2>2. [known EXCEPT ![c] = known[c] \cup {id}] \in [Conns -> SUBSET Ids]
      BY <2>1, ExceptType
    <2> QED BY <1>1, <2>2
  <1> QED BY <1>1, <1>5, <1>6 DEF Rebind

\* Every step keeps the types.
LEMMA TypeInvNext == TypeInv /\ [Next]_vars => TypeInv'
  <1> SUFFICES ASSUME TypeInv, [Next]_vars PROVE TypeInv'
    OBVIOUS
  <1> USE DEF TypeInv, TypeOK, taskVars, chanVars, slotVars, sessVars, usageVars,
              clientVars, history
  <1>1. ASSUME NEW c \in Conns, Handshake(c) PROVE TypeInv'
    BY <1>1 DEF Handshake, Phases
  <1>2. ASSUME NEW c \in Conns, HandshakeFails(c) PROVE TypeInv'
    BY <1>2 DEF HandshakeFails, Phases
  <1>3. ASSUME NEW c \in Conns, Steal(c) PROVE TypeInv'
    BY <1>3 DEF Steal, Phases
  <1>4. ASSUME NEW c \in Conns, Detach(c) PROVE TypeInv'
    BY <1>4, SentType, MessageType DEF Detach, Phases
  <1>5. ASSUME NEW c \in Conns, CancelOld(c) PROVE TypeInv'
    BY <1>5 DEF CancelOld, Phases
  <1>6. ASSUME NEW c \in Conns, Dump(c) \/ SendDump(c) PROVE TypeInv'
    BY <1>6, DumpType
  <1>7. ASSUME NEW c \in Conns, DumpsDone(c) PROVE TypeInv'
    BY <1>7 DEF DumpsDone, Phases
  <1>8. ASSUME NEW c \in Conns, LeaveLoop(c) PROVE TypeInv'
    BY <1>8 DEF LeaveLoop, Phases
  <1>9. ASSUME NEW c \in Conns, Cleanup(c) PROVE TypeInv'
    BY <1>9 DEF Cleanup, Phases
  <1>10. ASSUME NEW c \in Conns, Closed(c) PROVE TypeInv'
    BY <1>10 DEF Closed, ClientGone, Phases
  <1>11. ASSUME NEW c \in Conns, ReadFrame(c) PROVE TypeInv'
    BY <1>11, PossibleFramesType, ReplyType DEF ReadFrame, Phases
  <1>12. ASSUME NEW c \in Conns, Spawn(c) PROVE TypeInv'
    BY <1>12, SpawnType
  <1>13. ASSUME NEW c \in Conns, Announce(c) PROVE TypeInv'
    BY <1>13, AnnounceType
  <1>14. ASSUME NEW c \in Conns, Attach(c) PROVE TypeInv'
    <2>1. frame[c].id \in Ids
      BY <1>14 DEF Attach, Handling, Work, Frame, Reply, BuiltDump
    <2> QED BY <1>14, <2>1, NoFrameType DEF Attach, Handling, ResumeWithDumps, Phases
  <1>15. ASSUME NEW c \in Conns, Kill(c) PROVE TypeInv'
    BY <1>15, NoFrameType DEF Kill, Resume, Phases
  <1>16. ASSUME NEW c \in Conns, WriteBytes(c) PROVE TypeInv'
    BY <1>16, NoFrameType DEF WriteBytes, Resume, Phases
  <1>17. ASSUME NEW c \in Conns, SubscribeUsage(c) PROVE TypeInv'
    BY <1>17, NoFrameType DEF SubscribeUsage, Resume, Phases
  <1>18. ASSUME NEW c \in Conns, UnsubscribeUsage(c) PROVE TypeInv'
    BY <1>18, NoFrameType DEF UnsubscribeUsage, Resume, Phases
  <1>19. ASSUME NEW id \in Ids, ChildExits(id) PROVE TypeInv'
    BY <1>19 DEF ChildExits
  <1>20. ASSUME NEW id \in Ids, Reap(id) PROVE TypeInv'
    BY <1>20 DEF Reap
  <1>21. ASSUME NEW id \in Ids, SendExited(id) PROVE TypeInv'
    BY <1>21, SentType, MessageType DEF SendExited
  <1>22. ASSUME NEW id \in Ids, ReadInput(id) PROVE TypeInv'
    BY <1>22 DEF ReadInput
  <1>23. ASSUME NEW s \in Samplers, SamplerCheck(s) PROVE TypeInv'
    BY <1>23 DEF SamplerCheck
  <1>24. ASSUME NEW s \in Samplers, SamplerSend(s) PROVE TypeInv'
    BY <1>24, SentType, MessageType DEF SamplerSend
  <1>25. ASSUME NEW c \in Conns, Deliver(c) PROVE TypeInv'
    BY <1>25, DeliverType
  <1>26. ASSUME NEW c \in Conns, WriterStops(c) PROVE TypeInv'
    BY <1>26 DEF WriterStops
  <1>27. ASSUME NEW c \in Conns, Rebind(c) PROVE TypeInv'
    BY <1>27, RebindType
  <1>28. ASSUME NEW c \in Conns, ClientQuits(c) PROVE TypeInv'
    BY <1>28 DEF ClientQuits, ClientGone
  <1>29. CASE UNCHANGED vars BY <1>29 DEF vars
  <1> QED
    BY <1>1, <1>2, <1>3, <1>4, <1>5, <1>6, <1>7, <1>8, <1>9, <1>10, <1>11, <1>12,
       <1>13, <1>14, <1>15, <1>16, <1>17, <1>18, <1>19, <1>20, <1>21, <1>22, <1>23,
       <1>24, <1>25, <1>26, <1>27, <1>28, <1>29
    DEF Next, ServeStep, HandleStep, ClientStep, SessionStep, AllClosed

\* The program starts with every variable of its type.
LEMMA TypeInvInit == Init => TypeInv
  <1> SUFFICES ASSUME Init PROVE TypeInv
    OBVIOUS
  <1>1. frame \in [Conns -> Work] BY NoFrameType DEF Init
  <1>2. out \in [Conns -> Seq(Msg)]
    <2>1. <<>> \in Seq(Msg) OBVIOUS
    <2> QED BY <2>1 DEF Init
  <1>3. /\ {} \in SUBSET Ids /\ {} \in SUBSET Frame
        /\ 0 \in Nat /\ 1 \in Nat \ {0}
    OBVIOUS
  <1>4. /\ pc \in [Conns -> Phases]
        /\ \A c \in Conns : pc[c] \notin {"announcing", "sending"}
    BY DEF Init, Phases
  <1>5. /\ snap \in [Conns -> SUBSET Ids] /\ todo \in [Conns -> SUBSET Ids]
        /\ initial \in [Conns -> SUBSET Ids] /\ known \in [Conns -> SUBSET Ids]
        /\ owed \in [Conns -> SUBSET Ids] /\ want \in [Conns -> SUBSET Frame]
    BY <1>3 DEF Init
  <1> QED BY <1>1, <1>2, <1>3, <1>4, <1>5 DEF Init, TypeInv, TypeOK

\* ... and keeps them so.
LEMMA TypeInvAlways == Spec => []TypeInv
  <1>1. Init => TypeInv BY TypeInvInit
  <1>2. TypeInv /\ [Next]_vars => TypeInv' BY TypeInvNext
  <1> QED BY <1>1, <1>2, PTL DEF Spec

\* Type correctness: whatever the connections, sessions and frames of an instance,
\* every queue holds frames the protocol has and every id was given out.
THEOREM TypeCorrect == Spec => []TypeOK
  <1>1. TypeInv => TypeOK BY DEF TypeInv
  <1> QED BY <1>1, TypeInvAlways, PTL

-----------------------------------------------------------------------------
(* The slot.  Generations order the steals: no two connections share one, and the
   connection in the slot holds the last.  So the check of Cleanup, which
   compares generations, tells exactly whether the slot is still its own. *)

Early == {"new", "greeted"}        \* before the steal
Serving == {"dumping", "sending", "loop", "busy",
            "announcing"}          \* the slot taken, no way out yet

GenBound == \A c \in Conns : gen[c] <= active_generation
GenUnique == \A c, d \in Conns : gen[c] > 0 /\ gen[c] = gen[d] => c = d
OwnerIsLast == active # NoConn => gen[active] > 0 /\ gen[active] = active_generation
SteppedIn == \A c \in Conns : /\ pc[c] \in Early => gen[c] = 0
                              /\ pc[c] \notin Early \cup {"closed"} => gen[c] > 0
PidIsOwner == active_client_pid = active

SlotInv ==
  /\ TypeInv
  /\ GenBound /\ GenUnique /\ OwnerIsLast /\ SteppedIn /\ PidIsOwner
  /\ StolenIsCancelled

\* The steps that concern neither the slot nor who is on its way out.
Aside ==
  /\ UNCHANGED <<gen, evict, cancelled, slotVars>>
  /\ \A c \in Conns : pc'[c] = pc[c] \/ (pc[c] \in Serving /\ pc'[c] \in Serving)

\* The end of a command loop, for whatever reason.
Leaves(c) ==
  /\ pc[c] \in Serving
  /\ pc' = [pc EXCEPT ![c] = "cleanup"]
  /\ UNCHANGED <<gen, evict, cancelled, slotVars>>

\* Every step is one of those or one of the steps of handle_conn around the loop.
LEMMA SlotSteps ==
  ASSUME TypeInv, [Next]_vars
  PROVE  \/ Aside
         \/ \E c \in Conns : \/ Handshake(c) \/ HandshakeFails(c) \/ Steal(c) \/ Detach(c)
                             \/ CancelOld(c) \/ Leaves(c) \/ Cleanup(c) \/ Closed(c)
  <1> USE DEF TypeInv, TypeOK, taskVars, chanVars, slotVars, sessVars, usageVars,
              clientVars, history, Aside, Serving
  <1>1. CASE UNCHANGED vars BY <1>1 DEF vars
  <1>2. ASSUME NEW c \in Conns, Dump(c) \/ SendDump(c) \/ DumpsDone(c) PROVE Aside
    BY <1>2 DEF Dump, SendDump, DumpsDone
  <1>3. ASSUME NEW c \in Conns, LeaveLoop(c) PROVE Leaves(c)
    BY <1>3 DEF LeaveLoop, Leaves
  <1>4. ASSUME NEW c \in Conns, ReadFrame(c) PROVE Aside
    BY <1>4 DEF ReadFrame
  <1>5. ASSUME NEW c \in Conns, Spawn(c) PROVE Aside
    BY <1>5 DEF Spawn, Handling
  <1>6. ASSUME NEW c \in Conns, Announce(c) PROVE Aside \/ Leaves(c)
    BY <1>6 DEF Announce, ResumeWithDumps, Leaves
  <1>7. ASSUME NEW c \in Conns, Attach(c) PROVE Aside
    BY <1>7 DEF Attach, Handling, ResumeWithDumps
  <1>8. ASSUME NEW c \in Conns,
               Kill(c) \/ WriteBytes(c) \/ SubscribeUsage(c) \/ UnsubscribeUsage(c)
        PROVE  Aside
    BY <1>8 DEF Kill, WriteBytes, SubscribeUsage, UnsubscribeUsage, Handling, Resume
  <1>9. ASSUME NEW c \in Conns, WriterStops(c) \/ ClientStep(c) PROVE Aside
    BY <1>9 DEF WriterStops, ClientStep, Deliver, Rebind, ClientQuits
  <1>10. ASSUME NEW id \in Ids, SessionStep(id) PROVE Aside
    BY <1>10 DEF SessionStep, ChildExits, Reap, SendExited, ReadInput
  <1>11. ASSUME NEW s \in Samplers, SamplerCheck(s) \/ SamplerSend(s) PROVE Aside
    BY <1>11 DEF SamplerCheck, SamplerSend
  <1> QED
    BY <1>1, <1>2, <1>3, <1>4, <1>5, <1>6, <1>7, <1>8, <1>9, <1>10, <1>11
    DEF Next, ServeStep, HandleStep, AllClosed

\* What any step keeps that touches no part of SlotInv.
LEMMA SlotAside == SlotInv /\ TypeInv' /\ Aside => SlotInv'
  <1> SUFFICES ASSUME SlotInv, TypeInv', Aside PROVE SlotInv'
    OBVIOUS
  <1> USE DEF SlotInv, Aside, slotVars
  <1>1. GenBound' /\ GenUnique' /\ OwnerIsLast' /\ PidIsOwner'
    BY DEF GenBound, GenUnique, OwnerIsLast, PidIsOwner
  <1>2. SteppedIn'
    BY DEF SteppedIn, Early, Serving
  <1>3. StolenIsCancelled'
    BY DEF StolenIsCancelled, Serving
  <1> QED BY <1>1, <1>2, <1>3

\* A steal gives out a generation above all others, and the connection it
\* displaces is the one it will cancel.
LEMMA SlotSteal == ASSUME SlotInv, NEW c \in Conns, Steal(c), TypeInv' PROVE SlotInv'
  <1> USE DEF SlotInv, TypeInv, TypeOK, Steal
  <1>1. gen[c] = 0 /\ gen'[c] = active_generation + 1 /\ \A d \in Conns \ {c} : gen'[d] = gen[d]
    BY DEF SteppedIn, Early
  <1>2. GenBound' BY <1>1 DEF GenBound
  <1>3. GenUnique' BY <1>1 DEF GenUnique, GenBound
  <1>4. OwnerIsLast' /\ PidIsOwner' BY <1>1 DEF OwnerIsLast, PidIsOwner
  <1>5. SteppedIn' BY <1>1 DEF SteppedIn, Early
  <1>6. StolenIsCancelled'
    <2> SUFFICES ASSUME NEW d \in Conns, gen'[d] > 0, active' # d
                 PROVE  cancelled'[d] \/ \E e \in Conns : evict'[e] = d
                                            /\ pc'[e] \in {"detaching", "cancelling"}
      BY DEF StolenIsCancelled
    <2>1. d # c /\ gen[d] > 0 BY <1>1
    <2>2. CASE d = active
      BY <2>1, <2>2, ConnsAssumption
    <2>3. CASE d # active
      <3>1. CASE cancelled[d] BY <3>1
      <3>2. CASE ~cancelled[d]
        <4>1. PICK e \in Conns : evict[e] = d /\ pc[e] \in {"detaching", "cancelling"}
          BY <2>1, <2>3, <3>2 DEF StolenIsCancelled
        <4>2. e # c BY <4>1
        <4> QED BY <4>1, <4>2
      <3> QED BY <3>1, <3>2
    <2> QED BY <2>2, <2>3
  <1> QED BY <1>2, <1>3, <1>4, <1>5, <1>6

\* Once the old connection is cancelled, it needs nobody to do it any more.
LEMMA SlotCancelOld == ASSUME SlotInv, NEW c \in Conns, CancelOld(c), TypeInv' PROVE SlotInv'
  <1> USE DEF SlotInv, TypeInv, TypeOK, CancelOld, slotVars
  <1>1. GenBound' /\ GenUnique' /\ OwnerIsLast' /\ PidIsOwner'
    BY DEF GenBound, GenUnique, OwnerIsLast, PidIsOwner
  <1>2. SteppedIn' BY DEF SteppedIn, Early
  <1>3. StolenIsCancelled'
    <2> SUFFICES ASSUME NEW d \in Conns, gen'[d] > 0, active' # d
                 PROVE  cancelled'[d] \/ \E e \in Conns : evict'[e] = d
                                            /\ pc'[e] \in {"detaching", "cancelling"}
      BY DEF StolenIsCancelled
    <2>1. CASE d = evict[c] BY <2>1
    <2>2. CASE d # evict[c] BY <2>2 DEF StolenIsCancelled
    <2> QED BY <2>1, <2>2
  <1> QED BY <1>1, <1>2, <1>3

\* Cleanup empties the slot only if its own generation is the last, that is, if
\* nobody else can be in it.
LEMMA SlotCleanup == ASSUME SlotInv, NEW c \in Conns, Cleanup(c), TypeInv' PROVE SlotInv'
  <1> USE DEF SlotInv, TypeInv, TypeOK, Cleanup
  <1>1. gen[c] > 0 BY DEF SteppedIn, Early
  <1>2. GenBound' /\ GenUnique' BY DEF GenBound, GenUnique
  <1>3. OwnerIsLast' /\ PidIsOwner' BY DEF OwnerIsLast, PidIsOwner
  <1>4. SteppedIn' BY <1>1 DEF SteppedIn, Early
  <1>5. active' # active => active = c
    BY <1>1 DEF OwnerIsLast, GenUnique
  <1>6. StolenIsCancelled'
    <2> SUFFICES ASSUME NEW d \in Conns, gen'[d] > 0, active' # d
                 PROVE  cancelled'[d] \/ \E e \in Conns : evict'[e] = d
                                            /\ pc'[e] \in {"detaching", "cancelling"}
      BY DEF StolenIsCancelled
    <2>1. CASE d = c BY <2>1
    <2>2. CASE d # c
      <3>1. active # d /\ gen[d] > 0 /\ cancelled'[d] = cancelled[d] BY <1>5, <2>2
      <3>2. CASE ~cancelled[d]
        <4>1. PICK e \in Conns : evict[e] = d /\ pc[e] \in {"detaching", "cancelling"}
          BY <3>1, <3>2 DEF StolenIsCancelled
        <4>2. evict'[e] = evict[e] /\ pc'[e] = pc[e] BY <4>1
        <4> QED BY <4>1, <4>2
      <3> QED BY <3>1, <3>2
    <2> QED BY <2>1, <2>2
  <1> QED BY <1>2, <1>3, <1>4, <1>6

\* The rest of handle_conn.
LEMMA SlotRest ==
  ASSUME SlotInv, NEW c \in Conns, TypeInv',
         Handshake(c) \/ HandshakeFails(c) \/ Detach(c) \/ Leaves(c) \/ Closed(c)
  PROVE  SlotInv'
  <1> USE DEF SlotInv, TypeInv, TypeOK, Handshake, HandshakeFails, Detach, Leaves, Closed,
              slotVars, chanVars
  <1>1. GenBound' /\ GenUnique' /\ OwnerIsLast' /\ PidIsOwner'
    BY DEF GenBound, GenUnique, OwnerIsLast, PidIsOwner
  <1>2. UNCHANGED <<gen, evict, cancelled, active>>
    OBVIOUS
  <1>3. SteppedIn'
    <2>1. CASE Handshake(c) \/ HandshakeFails(c)
      <3>1. /\ gen[c] = 0 /\ pc'[c] \in {"greeted", "closed"}
            /\ \A d \in Conns \ {c} : pc'[d] = pc[d]
        BY <2>1 DEF SteppedIn, Early
      <3> QED BY <1>2, <3>1 DEF SteppedIn, Early
    <2>2. CASE Detach(c) \/ Leaves(c) \/ Closed(c)
      <3>1. /\ gen[c] > 0 /\ pc'[c] \in {"cancelling", "cleanup", "closed"}
            /\ \A d \in Conns \ {c} : pc'[d] = pc[d]
        BY <2>2 DEF SteppedIn, Early, Serving
      <3> QED BY <1>2, <3>1 DEF SteppedIn, Early
    <2> QED BY <2>1, <2>2
  <1>4. StolenIsCancelled'
    <2>1. \A e \in Conns : pc[e] \in {"detaching", "cancelling"}
                            => pc'[e] \in {"detaching", "cancelling"}
      BY DEF Serving
    <2> QED BY <1>2, <2>1 DEF StolenIsCancelled
  <1> QED BY <1>1, <1>3, <1>4

\* Every step keeps the slot's invariant.
LEMMA SlotInvNext == SlotInv /\ [Next]_vars => SlotInv'
  <1> SUFFICES ASSUME SlotInv, [Next]_vars PROVE SlotInv'
    OBVIOUS
  <1>1. TypeInv /\ TypeInv' BY TypeInvNext DEF SlotInv
  <1> QED
    BY <1>1, SlotSteps, SlotAside, SlotSteal, SlotCancelOld, SlotCleanup, SlotRest

\* It holds before the first connection.
LEMMA SlotInvInit == Init => SlotInv
  <1> SUFFICES ASSUME Init PROVE SlotInv
    OBVIOUS
  <1>1. TypeInv BY TypeInvInit
  <1> QED
    BY <1>1 DEF Init, SlotInv, GenBound, GenUnique, OwnerIsLast, SteppedIn, Early,
                PidIsOwner, StolenIsCancelled

\* However connections come, go and displace one another, one that lost the slot
\* is cancelled, or its successor is on the way to cancel it.
THEOREM DisplacedIsCancelled == Spec => []StolenIsCancelled
  <1>1. Init => SlotInv BY SlotInvInit
  <1>2. SlotInv /\ [Next]_vars => SlotInv' BY SlotInvNext
  <1>3. SlotInv => StolenIsCancelled BY DEF SlotInv
  <1> QED BY <1>1, <1>2, <1>3, PTL DEF Spec

\* The slot's invariant holds in every reachable state.
LEMMA SlotInvAlways == Spec => []SlotInv
  <1>1. Init => SlotInv BY SlotInvInit
  <1>2. SlotInv /\ [Next]_vars => SlotInv' BY SlotInvNext
  <1> QED BY <1>1, <1>2, PTL DEF Spec

-----------------------------------------------------------------------------
(* The supervisor implements AttachSlot. *)

served == {c \in Conns : gen[c] > 0}
leaving == {c \in Conns : gen[c] > 0 /\ pc[c] \in {"cleanup", "closing", "closed"}}

\* The slot is empty and nobody has left it.
LEMMA SlotRefinedInit == Init => Slot!Init
  BY DEF Init, Slot!Init

\* Each step of the supervisor is an attachment, a departure or a release, or does
\* not show at the slot.
LEMMA SlotRefinedNext == SlotInv /\ SlotInv' /\ [Next]_vars => [Slot!Next]_(Slot!vars)
  <1> SUFFICES ASSUME SlotInv, SlotInv', [Next]_vars PROVE [Slot!Next]_(Slot!vars)
    OBVIOUS
  <1> USE DEF SlotInv, TypeInv, TypeOK, slotVars
  <1>1. ASSUME UNCHANGED <<active, served, leaving>> PROVE [Slot!Next]_(Slot!vars)
    BY <1>1 DEF Slot!vars, served, leaving
  <1>2. ASSUME Aside PROVE UNCHANGED <<active, served, leaving>>
    <2>1. UNCHANGED <<gen, active>> BY <1>2 DEF Aside
    <2>2. \A c \in Conns : pc'[c] \in {"cleanup", "closing", "closed"}
                            <=> pc[c] \in {"cleanup", "closing", "closed"}
      BY <1>2 DEF Aside, Serving
    <2> QED BY <2>1, <2>2 DEF served, leaving
  <1>3. ASSUME NEW c \in Conns, Handshake(c) \/ HandshakeFails(c)
        PROVE  UNCHANGED <<active, served, leaving>>
    <2>1. gen[c] = 0 /\ UNCHANGED <<gen, active>> /\ \A d \in Conns \ {c} : pc'[d] = pc[d]
      BY <1>3 DEF Handshake, HandshakeFails, SteppedIn, Early
    <2> QED BY <2>1 DEF served, leaving
  <1>4. ASSUME NEW c \in Conns, Detach(c) \/ CancelOld(c) \/ Closed(c)
        PROVE  UNCHANGED <<active, served, leaving>>
    BY <1>4 DEF Detach, CancelOld, Closed, served, leaving
  <1>5. ASSUME NEW c \in Conns, Steal(c) PROVE Slot!Attach(c)
    <2>1. /\ gen[c] = 0 /\ gen'[c] > 0 /\ active' = c
          /\ pc'[c] \in {"dumping", "detaching"}
          /\ \A d \in Conns \ {c} : gen'[d] = gen[d] /\ pc'[d] = pc[d]
      BY <1>5 DEF Steal, SteppedIn, Early
    <2>2. served' = served \cup {c} BY <2>1 DEF served
    <2>3. leaving' = leaving
      <3>1. c \notin leaving BY <2>1 DEF leaving
      <3>2. c \notin leaving' BY <2>1 DEF leaving
      <3>3. \A d \in Conns \ {c} : d \in leaving' <=> d \in leaving BY <2>1 DEF leaving
      <3> QED BY <3>1, <3>2, <3>3 DEF leaving
    <2>4. c \notin served BY <2>1 DEF served
    <2> QED BY <2>1, <2>2, <2>3, <2>4 DEF Slot!Attach, served, leaving
  <1>6. ASSUME NEW c \in Conns, Leaves(c) PROVE Slot!Leave(c)
    <2>1. /\ gen[c] > 0 /\ UNCHANGED <<gen, active>> /\ pc'[c] = "cleanup"
          /\ \A d \in Conns \ {c} : pc'[d] = pc[d]
      BY <1>6 DEF Leaves, SteppedIn, Early, Serving
    <2>2. served' = served BY <2>1 DEF served
    <2>3. leaving' = leaving \cup {c} BY <2>1 DEF leaving
    <2> QED BY <2>1, <2>2, <2>3 DEF Slot!Leave, served, leaving
  <1>7. ASSUME NEW c \in Conns, Cleanup(c)
        PROVE  Slot!Release(c) \/ UNCHANGED <<active, served, leaving>>
    <2>1. /\ gen[c] > 0 /\ UNCHANGED gen /\ pc[c] = "cleanup" /\ pc'[c] = "closing"
          /\ \A d \in Conns \ {c} : pc'[d] = pc[d]
      BY <1>7 DEF Cleanup, SteppedIn, Early
    <2>2. UNCHANGED <<served, leaving>>
      <3>1. \A d \in Conns : d \in leaving' <=> d \in leaving BY <2>1 DEF leaving
      <3> QED BY <2>1, <3>1 DEF served, leaving
    <2>3. active' = active \/ (active = c /\ active' = NoConn)
      BY <1>7, <2>1 DEF Cleanup, OwnerIsLast, GenUnique
    <2>4. c \in leaving BY <2>1 DEF leaving
    <2> QED BY <2>2, <2>3, <2>4 DEF Slot!Release, served, leaving
  <1> QED
    BY <1>1, <1>2, <1>3, <1>4, <1>5, <1>6, <1>7, SlotSteps DEF Slot!Next

\* The safety part of the refinement the liveness run checks: the steal under the
\* registry mutex and the generation check of the cleanup give one owner at a
\* time, who leaves the slot to nobody else's departure.
THEOREM SlotImplemented == Spec => SlotSpec
  <1>1. Init => Slot!Init BY SlotRefinedInit
  <1>2. SlotInv /\ SlotInv' /\ [Next]_vars => [Slot!Next]_(Slot!vars) BY SlotRefinedNext
  <1> QED BY <1>1, <1>2, SlotInvAlways, PTL DEF Spec, SlotSpec, Slot!Spec

-----------------------------------------------------------------------------
(* The usage sampler.  The flag says whether a thread runs, because each side
   changes the flag and its own mind in one critical section; what is left is a
   flag without a subscription, or a subscription nobody in the slot asked for. *)

AliveIsRunning == usage_thread_alive <=> \E s \in Samplers : sampler[s] # "off"
Unserved == usage_subscribed /\ ~usage_thread_alive => active = NoConn \/ ~asked[active]
AskedInside == \A c \in Conns : asked[c] => pc[c] \notin Early

UsageInv ==
  /\ SlotInv
  /\ AliveIsRunning /\ OneSampler /\ Unserved /\ AskedInside

\* The steps outside the usage protocol change neither the sampler nor the
\* subscriptions, and nobody who asked goes back before the steal.
LEMMA UsageSteps ==
  ASSUME TypeInv, [Next]_vars
  PROVE  \/ /\ UNCHANGED <<usageVars, asked>>
            /\ \A c \in Conns : pc'[c] \in Early => pc[c] \in Early
            /\ active' = active \/ (active' \in Conns /\ pc[active'] \in Early)
         \/ \E c \in Conns : Cleanup(c) \/ Closed(c) \/ SubscribeUsage(c) \/ UnsubscribeUsage(c)
         \/ \E s \in Samplers : SamplerCheck(s) \/ SamplerSend(s)
  <1> DEFINE Elsewhere ==
        /\ UNCHANGED <<usageVars, asked>>
        /\ \A c \in Conns : pc'[c] \in Early => pc[c] \in Early
        /\ active' = active \/ (active' \in Conns /\ pc[active'] \in Early)
  <1> USE DEF TypeInv, TypeOK, taskVars, chanVars, slotVars, sessVars, clientVars, history, Early
  <1>1. CASE UNCHANGED vars BY <1>1 DEF vars
  <1>2. ASSUME NEW c \in Conns, Handshake(c) \/ HandshakeFails(c) \/ Steal(c) PROVE Elsewhere
    BY <1>2 DEF Handshake, HandshakeFails, Steal
  <1>3. ASSUME NEW c \in Conns, \/ Detach(c) \/ CancelOld(c) \/ Dump(c) \/ SendDump(c)
                               \/ DumpsDone(c) \/ LeaveLoop(c)
        PROVE  Elsewhere
    BY <1>3 DEF Detach, CancelOld, Dump, SendDump, DumpsDone, LeaveLoop
  <1>4. ASSUME NEW c \in Conns, ReadFrame(c) PROVE Elsewhere
    BY <1>4 DEF ReadFrame
  <1>5. ASSUME NEW c \in Conns, Spawn(c) \/ Announce(c) PROVE Elsewhere
    BY <1>5 DEF Spawn, Announce, ResumeWithDumps
  <1>6. ASSUME NEW c \in Conns, Attach(c) \/ Kill(c) \/ WriteBytes(c) PROVE Elsewhere
    BY <1>6 DEF Attach, Kill, WriteBytes, Resume, ResumeWithDumps
  <1>7. ASSUME NEW c \in Conns, WriterStops(c) \/ ClientStep(c) PROVE Elsewhere
    BY <1>7 DEF WriterStops, ClientStep, Deliver, Rebind, ClientQuits
  <1>8. ASSUME NEW id \in Ids, SessionStep(id) PROVE Elsewhere
    BY <1>8 DEF SessionStep, ChildExits, Reap, SendExited, ReadInput
  <1> QED
    BY <1>1, <1>2, <1>3, <1>4, <1>5, <1>6, <1>7, <1>8
    DEF Next, ServeStep, HandleStep, AllClosed

\* Every step keeps the usage invariant: the flag, the threads and the check of one
\* sampler change under the registry mutex only.
LEMMA UsageInvNext == UsageInv /\ [Next]_vars => UsageInv'
  <1> SUFFICES ASSUME UsageInv, [Next]_vars PROVE UsageInv'
    OBVIOUS
  <1> USE DEF UsageInv, AliveIsRunning, OneSampler, Unserved, AskedInside
  <1>0. SlotInv' /\ TypeOK BY SlotInvNext DEF SlotInv, TypeInv
  <1>1. CASE /\ UNCHANGED <<usageVars, asked>>
             /\ \A c \in Conns : pc'[c] \in Early => pc[c] \in Early
             /\ active' = active \/ (active' \in Conns /\ pc[active'] \in Early)
    BY <1>0, <1>1 DEF usageVars
  <1>2. ASSUME NEW c \in Conns, Cleanup(c) PROVE UsageInv'
    BY <1>0, <1>2 DEF Cleanup, TypeOK, Early, history
  <1>3. ASSUME NEW c \in Conns, Closed(c) PROVE UsageInv'
    BY <1>0, <1>3, ConnsAssumption DEF Closed, TypeOK, Early, usageVars, slotVars
  <1>4. ASSUME NEW c \in Conns, SubscribeUsage(c) PROVE UsageInv'
    <2>1. CASE usage_thread_alive
      BY <1>0, <1>4, <2>1 DEF SubscribeUsage, Resume, Handling, TypeOK, Early, slotVars
    <2>2. CASE ~usage_thread_alive
      <3>1. NextSampler \in Samplers /\ sampler[NextSampler] = "off"
        BY <1>4, <2>2 DEF SubscribeUsage, NextSampler
      <3>2. sampler' = [sampler EXCEPT ![NextSampler] = "check"] /\ usage_thread_alive'
        BY <1>4, <2>2 DEF SubscribeUsage
      <3>3. \A s \in Samplers : sampler'[s] # "off" <=> s = NextSampler
        BY <1>0, <2>2, <3>1, <3>2 DEF TypeOK
      <3>4. AskedInside'
        BY <1>0, <1>4 DEF SubscribeUsage, Resume, Handling, TypeOK, Early
      <3> QED BY <1>0, <3>1, <3>2, <3>3, <3>4
    <2> QED BY <2>1, <2>2
  <1>5. ASSUME NEW c \in Conns, UnsubscribeUsage(c) PROVE UsageInv'
    BY <1>0, <1>5 DEF UnsubscribeUsage, Resume, Handling, TypeOK, Early
  <1>6. ASSUME NEW s \in Samplers, SamplerCheck(s) PROVE UsageInv'
    <2>1. /\ sampler[s] = "check"
          /\ \A t \in Samplers \ {s} : sampler[t] = "off" /\ sampler'[t] = "off"
          /\ UNCHANGED <<pc, active, usage_subscribed, asked>>
      BY <1>0, <1>6 DEF SamplerCheck, TypeOK, taskVars, slotVars, history
    <2>2. CASE ~usage_subscribed \/ active = NoConn
      <3>1. sampler'[s] = "off" /\ ~usage_thread_alive'
        BY <1>0, <1>6, <2>2 DEF SamplerCheck, TypeOK
      <3> QED BY <1>0, <2>1, <2>2, <3>1
    <2>3. CASE usage_subscribed /\ active # NoConn
      <3>1. sampler'[s] = "send" /\ usage_thread_alive' = usage_thread_alive
        BY <1>0, <1>6, <2>3 DEF SamplerCheck, TypeOK
      <3> QED BY <1>0, <2>1, <2>3, <3>1
    <2> QED BY <2>2, <2>3
  <1>7. ASSUME NEW s \in Samplers, SamplerSend(s) PROVE UsageInv'
    BY <1>0, <1>7 DEF SamplerSend, TypeOK, taskVars, slotVars, history
  <1>8. TypeInv BY DEF SlotInv
  <1> QED
    BY <1>1, <1>2, <1>3, <1>4, <1>5, <1>6, <1>7, <1>8, UsageSteps

\* The usage invariant holds in every reachable state.
LEMMA UsageInvAlways == Spec => []UsageInv
  <1>1. Init => UsageInv
    <2> SUFFICES ASSUME Init PROVE UsageInv
      OBVIOUS
    <2>1. SlotInv BY SlotInvInit
    <2> QED BY <2>1 DEF Init, UsageInv, AliveIsRunning, OneSampler, Unserved, AskedInside
  <1>2. UsageInv /\ [Next]_vars => UsageInv' BY UsageInvNext
  <1> QED BY <1>1, <1>2, PTL DEF Spec

\* The flag does prevent a second sampler, for any number of connections.
THEOREM AtMostOneSampler == Spec => []OneSampler
  <1>1. UsageInv => OneSampler BY DEF UsageInv
  <1> QED BY <1>1, UsageInvAlways, PTL

\* The sampler's check and its flag in one critical section leave no subscriber of
\* the slot without a producer, stale frames of displaced connections included.
THEOREM SubscriberIsServed == Spec => []NoLostSampler
  <1>1. UsageInv => NoLostSampler
    BY DEF UsageInv, AliveIsRunning, Unserved, NoLostSampler
  <1> QED BY <1>1, UsageInvAlways, PTL

-----------------------------------------------------------------------------
(* Queues. *)

\* A send appends to one open queue, or changes nothing.
LEMMA SentAppends ==
  ASSUME out \in [Conns -> Seq(Msg)], NEW c, NEW m \in Msg, NEW q,
         q = Sent(c, m) \/ q = TrySent(c, m), NEW d \in Conns
  PROVE  q[d] = out[d] \/ (d = c /\ open[c] /\ q[d] = Append(out[d], m))
  BY DEF Sent, TrySent

\* What was queued stays where it is when a frame is appended.
LEMMA AppendKeeps ==
  ASSUME NEW s \in Seq(Msg), NEW m \in Msg
  PROVE  /\ Append(s, m) \in Seq(Msg)
         /\ DOMAIN Append(s, m) = DOMAIN s \cup {Len(s) + 1}
         /\ \A k \in DOMAIN s : k \in 1..Len(s) /\ Append(s, m)[k] = s[k]
         /\ Append(s, m)[Len(s) + 1] = m
  OBVIOUS

\* Taking the head moves the others up by one.
LEMMA TailMoves ==
  ASSUME NEW s \in Seq(Msg), s # <<>>
  PROVE  /\ 1 \in DOMAIN s /\ Head(s) = s[1]
         /\ \A k \in DOMAIN Tail(s) : k \in Nat \ {0} /\ k + 1 \in DOMAIN s
                                       /\ Tail(s)[k] = s[k + 1]
         /\ \A k \in DOMAIN s : k # 1 => k \in Nat /\ k - 1 \in DOMAIN Tail(s)
                                          /\ Tail(s)[k - 1] = s[k]
  OBVIOUS

\* The frames queued for c stay queued, at their places.
Keeps(c) == \A k \in DOMAIN out[c] : k \in DOMAIN out'[c] /\ out'[c][k] = out[c][k]

\* ... which a send to any connection guarantees.
LEMMA SentKeeps ==
  ASSUME out \in [Conns -> Seq(Msg)], NEW c, NEW m \in Msg,
         out' = Sent(c, m) \/ out' = TrySent(c, m), NEW d \in Conns
  PROVE  Keeps(d)
  <1>1. out[d] \in Seq(Msg) OBVIOUS
  <1>2. CASE out'[d] = out[d] BY <1>2 DEF Keeps
  <1>3. CASE out'[d] = Append(out[d], m) BY <1>1, <1>3, AppendKeeps DEF Keeps
  <1> QED BY <1>2, <1>3, SentAppends

-----------------------------------------------------------------------------
(* Exits.  ExitNotMissed is inductive: the reaper's critical section hands an exit
   from the registry to the client in the slot, and the send hands it to its queue. *)

\* The steps that owe nothing new and take nothing back, for a client that still
\* holds the slot.
NoExit ==
  /\ UNCHANGED <<owed, sessions, exitTo>>
  /\ \A c \in Conns : active' = c /\ open'[c] => active = c /\ open[c] /\ Keeps(c)

\* Every step is one of those, or one of the six that an exit passes through.
LEMMA ExitSteps ==
  ASSUME TypeInv, [Next]_vars
  PROVE  \/ NoExit
         \/ \E c \in Conns : Steal(c) \/ Spawn(c) \/ Deliver(c) \/ Closed(c)
         \/ \E id \in Ids : Reap(id) \/ SendExited(id)
  <1> USE DEF TypeInv, TypeOK, taskVars, chanVars, slotVars, sessVars, usageVars,
              clientVars, history
  <1>0. UNCHANGED out => \A c \in Conns : Keeps(c) BY DEF Keeps
  <1>1. CASE UNCHANGED vars BY <1>0, <1>1 DEF vars, NoExit
  <1>2. ASSUME NEW c \in Conns, Handshake(c) \/ HandshakeFails(c) PROVE NoExit
    BY <1>0, <1>2 DEF Handshake, HandshakeFails, NoExit
  <1>3. ASSUME NEW c \in Conns, Detach(c) PROVE NoExit
    <2>1. \A d \in Conns : Keeps(d) BY <1>3, SentKeeps, MessageType DEF Detach
    <2> QED BY <1>3, <2>1 DEF Detach, NoExit
  <1>4. ASSUME NEW c \in Conns, CancelOld(c) \/ Dump(c) \/ DumpsDone(c) \/ LeaveLoop(c)
        PROVE  NoExit
    BY <1>0, <1>4 DEF CancelOld, Dump, DumpsDone, LeaveLoop, NoExit
  <1>5. ASSUME NEW c \in Conns, SendDump(c) PROVE NoExit
    <2>1. frame[c] \in Msg BY <1>5, ReplyType DEF SendDump
    <2>2. \A d \in Conns : Keeps(d) BY <1>5, <2>1, SentKeeps DEF SendDump
    <2> QED BY <1>5, <2>2 DEF SendDump, NoExit
  <1>6. ASSUME NEW c \in Conns, Cleanup(c) PROVE NoExit
    BY <1>0, <1>6, ConnsAssumption DEF Cleanup, NoExit
  <1>7. ASSUME NEW c \in Conns, ReadFrame(c) PROVE NoExit
    BY <1>0, <1>7 DEF ReadFrame, NoExit
  <1>8. ASSUME NEW c \in Conns, Announce(c) PROVE NoExit
    <2>1. \A d \in Conns : Keeps(d)
      BY <1>8, SentKeeps, ReplyType DEF Announce
    <2> QED BY <1>8, <2>1 DEF Announce, NoExit
  <1>9. ASSUME NEW c \in Conns, Attach(c) \/ Kill(c) \/ WriteBytes(c) PROVE NoExit
    BY <1>0, <1>9 DEF Attach, Kill, WriteBytes, NoExit
  <1>10. ASSUME NEW c \in Conns, SubscribeUsage(c) \/ UnsubscribeUsage(c) PROVE NoExit
    BY <1>0, <1>10 DEF SubscribeUsage, UnsubscribeUsage, NoExit
  <1>11. ASSUME NEW c \in Conns, WriterStops(c) PROVE NoExit
    BY <1>11 DEF WriterStops, NoExit, Keeps
  <1>12. ASSUME NEW c \in Conns, Rebind(c) \/ ClientQuits(c) PROVE NoExit
    BY <1>0, <1>12 DEF Rebind, ClientQuits, NoExit
  <1>13. ASSUME NEW id \in Ids, ChildExits(id) \/ ReadInput(id) PROVE NoExit
    BY <1>0, <1>13 DEF ChildExits, ReadInput, NoExit
  <1>14. ASSUME NEW s \in Samplers, SamplerCheck(s) PROVE NoExit
    BY <1>0, <1>14 DEF SamplerCheck, NoExit
  <1>15. ASSUME NEW s \in Samplers, SamplerSend(s) PROVE NoExit
    <2>1. \A d \in Conns : Keeps(d) BY <1>15, SentKeeps, MessageType DEF SamplerSend
    <2> QED BY <1>15, <2>1 DEF SamplerSend, NoExit
  <1> QED
    BY <1>1, <1>2, <1>3, <1>4, <1>5, <1>6, <1>7, <1>8, <1>9, <1>10, <1>11, <1>12,
       <1>13, <1>14, <1>15
    DEF Next, ServeStep, HandleStep, ClientStep, SessionStep, AllClosed

\* Every step keeps ExitNotMissed.
LEMMA ExitNotMissedNext == TypeInv /\ ExitNotMissed /\ [Next]_vars => ExitNotMissed'
  <1> SUFFICES ASSUME TypeInv, ExitNotMissed, [Next]_vars,
                      NEW c \in Conns, active' = c, open'[c], NEW i \in owed'[c]
               PROVE  i \in sessions' \/ exitTo'[i] = c \/ InQueue(c, "Exited", i)'
    BY DEF ExitNotMissed
  <1> USE DEF TypeInv, TypeOK
  <1>0. out[c] \in Seq(Msg) /\ (i \in owed[c] => i \in Ids) OBVIOUS
  <1>00. ASSUME Keeps(c), InQueue(c, "Exited", i) PROVE InQueue(c, "Exited", i)'
    BY <1>00 DEF Keeps, InQueue
  <1>01. ASSUME active = c, open[c], i \in owed[c]
         PROVE  i \in sessions \/ exitTo[i] = c \/ InQueue(c, "Exited", i)
    BY <1>01 DEF ExitNotMissed
  <1>02. out'[c] = out[c] => Keeps(c) BY DEF Keeps
  <1>1. CASE NoExit BY <1>1, <1>00, <1>01 DEF NoExit
  <1>2. ASSUME NEW d \in Conns, Steal(d) PROVE i \in sessions'
    BY <1>2 DEF Steal, sessVars
  <1>3. CASE \E d \in Conns : Spawn(d)
    BY <1>3, <1>00, <1>01, <1>02 DEF Spawn, slotVars, chanVars
  <1>4. ASSUME NEW d \in Conns, Deliver(d)
        PROVE  i \in sessions' \/ exitTo'[i] = c \/ InQueue(c, "Exited", i)'
    <2>1. active = c /\ UNCHANGED <<sessions, exitTo>> BY <1>4 DEF Deliver, slotVars, sessVars
    <2>2. CASE d # c
      BY <1>4, <2>1, <2>2, <1>00, <1>01, <1>02 DEF Deliver
    <2>3. CASE d = c
      <3>1. /\ open[c] /\ out[c] # <<>> /\ out'[c] = Tail(out[c])
            /\ owed'[c] = IF Head(out[c]).t = "Exited" THEN owed[c] \ {Head(out[c]).id} ELSE owed[c]
        BY <1>4, <2>3 DEF Deliver
      <3>2. i \in owed[c] /\ Head(out[c]) # Message("Exited", i)
        BY <3>1 DEF Message
      <3>3. ASSUME NEW k \in DOMAIN out[c], out[c][k] = Message("Exited", i)
            PROVE  InQueue(c, "Exited", i)'
        <4>1. k # 1 BY <1>0, <3>1, <3>2, <3>3, TailMoves
        <4>2. k - 1 \in DOMAIN out'[c] /\ out'[c][k - 1] = out[c][k]
          BY <1>0, <3>1, <4>1, TailMoves
        <4> QED BY <3>3, <4>2 DEF InQueue
      <3>4. InQueue(c, "Exited", i) => InQueue(c, "Exited", i)' BY <3>3 DEF InQueue
      <3> QED BY <2>1, <3>1, <3>2, <3>4, <1>01
    <2> QED BY <2>2, <2>3
  <1>5. CASE \E d \in Conns : Closed(d)
    BY <1>5, <1>00, <1>01, <1>02 DEF Closed, slotVars, chanVars, sessVars
  <1>6. CASE \E id \in Ids : Reap(id)
    BY <1>6, <1>00, <1>01, <1>02 DEF Reap, history, slotVars, chanVars
  <1>7. ASSUME NEW id \in Ids, SendExited(id)
        PROVE  i \in sessions' \/ exitTo'[i] = c \/ InQueue(c, "Exited", i)'
    <2>1. active = c /\ open[c] /\ i \in owed[c] /\ sessions' = sessions
      BY <1>7 DEF SendExited, history, slotVars
    <2>2. Keeps(c) BY <1>7, SentKeeps, MessageType DEF SendExited
    <2>3. CASE exitTo[id] = c /\ i = id
      <3>1. out'[c] = Append(out[c], Message("Exited", i))
        BY <1>7, <2>1, <2>3 DEF SendExited, Sent
      <3>2. Message("Exited", i) \in Msg BY <2>3, MessageType
      <3>3. /\ Len(out[c]) + 1 \in DOMAIN out'[c]
            /\ out'[c][Len(out[c]) + 1] = Message("Exited", i)
        BY <1>0, <3>1, <3>2, AppendKeeps
      <3> QED BY <3>3 DEF InQueue
    <2>4. CASE ~(exitTo[id] = c /\ i = id)
      <3>1. exitTo[i] = c => exitTo'[i] = c BY <1>0, <1>7, <2>1, <2>4 DEF SendExited
      <3> QED BY <2>1, <2>2, <3>1, <1>00, <1>01
    <2> QED BY <2>3, <2>4
  <1> QED BY <1>1, <1>2, <1>3, <1>4, <1>5, <1>6, <1>7, ExitSteps

\* No exit is missed by the client that holds the slot, whatever steals, reaps and
\* spawns interleave, because the reaper reads the slot in the critical section
\* that removes the session.
THEOREM ExitsReachTheOwner == Spec => []ExitNotMissed
  <1>1. Init => ExitNotMissed BY ConnsAssumption DEF Init, ExitNotMissed
  <1>2. TypeInv /\ ExitNotMissed /\ [Next]_vars => ExitNotMissed' BY ExitNotMissedNext
  <1> QED BY <1>1, <1>2, TypeInvAlways, PTL DEF Spec

-----------------------------------------------------------------------------
(* Names.  SpawnedFirst is about the head of a long way: ids come from the registry,
   through the snapshot, the handshake reply, the client's own Attach and the list
   of dumps to the queue.  At every stop an id is one the client can know. *)

\* The session is over: ids are not given out twice.
Past(id) == id < next_id /\ id \notin sessions

\* Ids are given out in order, and an exit is announced once the session is gone.
IdsInOrder ==
  /\ \A id \in sessions : id < next_id
  /\ \A id \in Ids : exitTo[id] # NoConn => Past(id)
  /\ \A c \in Conns : \A k \in DOMAIN out[c] : out[c][k].t = "Exited" => Past(out[c][k].id)

\* A channel without receiver is empty, and before the steal there is none.
Unborn ==
  /\ \A c \in Conns : ~open[c] => out[c] = <<>>
  /\ \A c \in Conns : pc[c] \in Early =>
       ~open[c] /\ client[c] = "none" /\ want[c] = {} /\ frame[c] = NoFrame

\* The client of c was told of the session, or will not need to be.
Told(c, id) == id \in snap[c] \/ id \in known[c] \/ Past(id)

\* The client asks for dumps of listed sessions only.
AsksForListed ==
  \A c \in Conns : open[c] /\ client[c] = "up" =>
    /\ initial[c] \subseteq snap[c]
    /\ \A f \in want[c] : f.t = "Attach" => f.id \in snap[c]
    /\ frame[c].t = "Attach" => frame[c].id \in snap[c]

\* The dumps a connection has still to send, the one it holds included.
Planned(c) == todo[c] \cup {id \in Ids : frame[c] = Message("OutputDump", id)}

\* A dump to be sent is of a session the client was told of, or will have been.
DumpsOfNamed ==
  \A c \in Conns : open[c] /\ client[c] = "up" =>
    \A id \in Planned(c) : Told(c, id) \/ InQueue(c, "Spawned", id)

\* The same of a dump that is queued.
QueuedAfterName ==
  \A c \in Conns : client[c] = "up" =>
    \A k \in DOMAIN out[c] : out[c][k].t = "OutputDump" =>
      \/ Told(c, out[c][k].id)
      \/ \E j \in DOMAIN out[c] : j < k /\ out[c][j] = Message("Spawned", out[c][k].id)

NameInv ==
  /\ TypeInv
  /\ IdsInOrder /\ Unborn /\ AsksForListed /\ DumpsOfNamed /\ QueuedAfterName

\* The steps that name no session: they send at most a frame without one.
NoName ==
  /\ UNCHANGED <<snap, client, known, initial, want, open, todo, sessions, next_id, exitTo>>
  /\ \A c \in Conns : /\ frame'[c] \in {frame[c], NoFrame}
                      /\ pc'[c] \in Early => pc[c] \in Early
  /\ \/ UNCHANGED out
     \/ \E d \in Conns \cup {NoConn}, m \in Msg :
          m.t \in {"Detached", "Usage"} /\ out' = TrySent(d, m)

\* Every step is one of those or one of the listed ones.
LEMMA NameSteps ==
  ASSUME TypeInv, [Next]_vars
  PROVE  \/ NoName
         \/ \E c \in Conns :
              \/ Handshake(c) \/ HandshakeFails(c) \/ Steal(c) \/ Dump(c) \/ SendDump(c) \/ Closed(c)
              \/ ReadFrame(c) \/ Spawn(c) \/ Announce(c) \/ Attach(c)
              \/ Deliver(c) \/ WriterStops(c) \/ Rebind(c) \/ ClientQuits(c)
         \/ \E id \in Ids : Reap(id) \/ SendExited(id)
  <1> USE DEF TypeInv, TypeOK, taskVars, chanVars, slotVars, sessVars, usageVars,
              clientVars, history, NoName, Early
  <1>1. CASE UNCHANGED vars BY <1>1 DEF vars
  <1>2. ASSUME NEW c \in Conns, Detach(c) PROVE NoName
    <2>1. Message("Detached", 0) \in Msg /\ Message("Detached", 0).t = "Detached"
      BY MessageType DEF Message
    <2> QED BY <1>2, <2>1 DEF Detach
  <1>3. ASSUME NEW c \in Conns, CancelOld(c) \/ DumpsDone(c) \/ LeaveLoop(c) \/ Cleanup(c)
        PROVE  NoName
    BY <1>3 DEF CancelOld, DumpsDone, LeaveLoop, Cleanup
  <1>4. ASSUME NEW c \in Conns,
               Kill(c) \/ WriteBytes(c) \/ SubscribeUsage(c) \/ UnsubscribeUsage(c)
        PROVE  NoName
    BY <1>4 DEF Kill, WriteBytes, SubscribeUsage, UnsubscribeUsage, Resume
  <1>5. ASSUME NEW id \in Ids, ChildExits(id) \/ ReadInput(id) PROVE NoName
    BY <1>5 DEF ChildExits, ReadInput
  <1>6. ASSUME NEW s \in Samplers, SamplerCheck(s) PROVE NoName
    BY <1>6 DEF SamplerCheck
  <1>7. ASSUME NEW s \in Samplers, SamplerSend(s) PROVE NoName
    <2>1. Message("Usage", 0) \in Msg /\ Message("Usage", 0).t = "Usage"
      BY MessageType DEF Message
    <2> QED BY <1>7, <2>1 DEF SamplerSend
  <1> QED
    BY <1>1, <1>2, <1>3, <1>4, <1>5, <1>6, <1>7
    DEF Next, ServeStep, HandleStep, ClientStep, SessionStep, AllClosed

\* What a step adds to a queue: at most one frame at its end, sent by this step.
LEMMA QueueSteps ==
  ASSUME TypeInv, [Next]_vars, NEW c \in Conns
  PROVE  \/ out'[c] = out[c]
         \/ out[c] # <<>> /\ out'[c] = Tail(out[c])
         \/ out'[c] = <<>>
         \/ \E m \in Msg :
              /\ open[c] /\ out'[c] = Append(out[c], m)
              /\ m.t = "Exited" => exitTo[m.id] # NoConn /\ m.id \in Ids
              /\ m.t = "OutputDump" => m.id \in Planned(c)
  <1> DEFINE New == \E m \in Msg :
              /\ open[c] /\ out'[c] = Append(out[c], m)
              /\ m.t = "Exited" => exitTo[m.id] # NoConn /\ m.id \in Ids
              /\ m.t = "OutputDump" => m.id \in Planned(c)
  <1> USE DEF TypeInv, TypeOK, chanVars
  <1>0. ASSUME NEW d \in Conns \cup {NoConn}, NEW m \in Msg,
               out' = Sent(d, m) \/ out' = TrySent(d, m),
               m.t = "Exited" => exitTo[m.id] # NoConn /\ m.id \in Ids,
               m.t = "OutputDump" /\ d = c => m.id \in Planned(c)
        PROVE  out'[c] = out[c] \/ New
    <2>1. out'[c] = out[c] \/ (d = c /\ open[c] /\ out'[c] = Append(out[c], m))
      BY <1>0, SentAppends
    <2>2. CASE d = c /\ open[c] /\ out'[c] = Append(out[c], m)
      <3>1. /\ open[c] /\ out'[c] = Append(out[c], m)
            /\ m.t = "Exited" => exitTo[m.id] # NoConn /\ m.id \in Ids
            /\ m.t = "OutputDump" => m.id \in Planned(c)
        BY <1>0, <2>2
      <3> QED BY <3>1, Zenon
    <2> QED BY <2>1, <2>2
  <1> HIDE DEF New
  <1>1. ASSUME NoName PROVE out'[c] = out[c] \/ New
    <2>1. CASE UNCHANGED out BY <2>1
    <2>2. ASSUME NEW d \in Conns \cup {NoConn}, NEW m \in Msg, m.t \in {"Detached", "Usage"},
                 out' = TrySent(d, m)
          PROVE  out'[c] = out[c] \/ New
      BY <2>2, <1>0
    <2> QED BY <1>1, <2>1, <2>2 DEF NoName
  <1>2. ASSUME NEW d \in Conns,
               \/ Handshake(d) \/ HandshakeFails(d) \/ Steal(d) \/ Closed(d) \/ ReadFrame(d)
               \/ Spawn(d) \/ Attach(d) \/ Rebind(d) \/ ClientQuits(d) \/ Dump(d)
        PROVE  out'[c] = out[c]
    BY <1>2 DEF Handshake, HandshakeFails, Steal, Closed, ReadFrame, Spawn, Attach, Rebind,
                ClientQuits, Dump
  <1>3. ASSUME NEW d \in Conns, SendDump(d) PROVE out'[c] = out[c] \/ New
    <2>1. frame[d] \in BuiltDump /\ frame[d] \in Msg BY <1>3, ReplyType DEF SendDump
    <2>2. frame[d].t = "OutputDump" /\ frame[d].id \in Planned(d)
      BY <2>1 DEF BuiltDump, Planned, Message
    <2>3. out' = Sent(d, frame[d]) BY <1>3 DEF SendDump
    <2> QED BY <2>1, <2>2, <2>3, <1>0
  <1>4. ASSUME NEW d \in Conns, Announce(d) PROVE out'[c] = out[c] \/ New
    <2>1. frame[d] \in Msg /\ frame[d].t \in {"Spawned", "SpawnFailed"}
      BY <1>4, ReplyType DEF Announce, Reply
    <2>2. out' = Sent(d, frame[d]) BY <1>4 DEF Announce
    <2> QED BY <2>1, <2>2, <1>0
  <1>5. ASSUME NEW d \in Conns, Deliver(d) \/ WriterStops(d)
        PROVE  \/ out'[c] = out[c]
               \/ out[c] # <<>> /\ out'[c] = Tail(out[c])
               \/ out'[c] = <<>>
    BY <1>5 DEF Deliver, WriterStops
  <1>6. ASSUME NEW id \in Ids, Reap(id) PROVE out'[c] = out[c]
    BY <1>6 DEF Reap
  <1>7. ASSUME NEW id \in Ids, SendExited(id) PROVE out'[c] = out[c] \/ New
    <2>1. /\ Message("Exited", id) \in Msg
          /\ Message("Exited", id).t = "Exited" /\ Message("Exited", id).id = id
      BY MessageType DEF Message
    <2>2. /\ out' = Sent(exitTo[id], Message("Exited", id)) /\ exitTo[id] # NoConn
          /\ exitTo[id] \in Conns \cup {NoConn}
      BY <1>7 DEF SendExited
    <2> QED BY <2>1, <2>2, <1>0
  <1>8. \/ out'[c] = out[c]
        \/ out[c] # <<>> /\ out'[c] = Tail(out[c])
        \/ out'[c] = <<>>
        \/ New
    BY <1>1, <1>2, <1>3, <1>4, <1>5, <1>6, <1>7, NameSteps
  <1> QED BY <1>8 DEF New

\* Who is registered, and who is over.
LEMMA SessionSteps ==
  ASSUME TypeInv, [Next]_vars
  PROVE  \/ UNCHANGED <<sessions, next_id>> /\ \A id \in Ids : exitTo'[id] \in {exitTo[id], NoConn}
         \/ /\ next_id \in Ids /\ sessions' = sessions \cup {next_id} /\ next_id' = next_id + 1
            /\ exitTo' = exitTo
         \/ \E id \in sessions :
              /\ sessions' = sessions \ {id} /\ next_id' = next_id
              /\ exitTo' = [exitTo EXCEPT ![id] = active]
  <1> USE DEF TypeInv, TypeOK, sessVars
  <1>1. CASE NoName BY <1>1 DEF NoName
  <1>2. ASSUME NEW d \in Conns,
               \/ Handshake(d) \/ HandshakeFails(d) \/ Steal(d) \/ Closed(d) \/ ReadFrame(d)
               \/ Dump(d) \/ SendDump(d) \/ Announce(d) \/ Attach(d) \/ Deliver(d)
               \/ WriterStops(d) \/ Rebind(d) \/ ClientQuits(d)
        PROVE  UNCHANGED <<sessions, next_id, exitTo>>
    BY <1>2 DEF Handshake, HandshakeFails, Steal, Closed, ReadFrame, Dump, SendDump, Announce,
                Attach, Deliver, WriterStops, Rebind, ClientQuits
  <1>3. CASE \E d \in Conns : Spawn(d) BY <1>3 DEF Spawn
  <1>4. CASE \E id \in Ids : Reap(id) BY <1>4 DEF Reap
  <1>5. CASE \E id \in Ids : SendExited(id) BY <1>5, ConnsAssumption DEF SendExited
  <1> QED BY <1>1, <1>2, <1>3, <1>4, <1>5, NameSteps

\* A session that is over stays over.
LEMMA PastStays ==
  ASSUME TypeInv, IdsInOrder, [Next]_vars, NEW id \in Ids, Past(id)
  PROVE  id < next_id' /\ id \notin sessions'
  <1> USE DEF TypeInv, TypeOK, IdsInOrder, Past
  <1>1. CASE UNCHANGED <<sessions, next_id>> BY <1>1
  <1>2. CASE sessions' = sessions \cup {next_id} /\ next_id' = next_id + 1
    BY <1>2 DEF Ids
  <1>3. CASE \E i \in sessions : sessions' = sessions \ {i} /\ next_id' = next_id
    BY <1>3
  <1> QED BY <1>1, <1>2, <1>3, SessionSteps

\* Ids stay in order.
LEMMA IdsNext == ASSUME TypeInv, IdsInOrder, [Next]_vars PROVE IdsInOrder'
  <1> USE DEF TypeInv, TypeOK
  <1>1. \A id \in sessions' : id < next_id'
    <2> USE DEF IdsInOrder, Ids
    <2>1. CASE UNCHANGED <<sessions, next_id>> BY <2>1
    <2>2. CASE sessions' = sessions \cup {next_id} /\ next_id' = next_id + 1 BY <2>2
    <2>3. CASE \E i \in sessions : sessions' = sessions \ {i} /\ next_id' = next_id BY <2>3
    <2> QED BY <2>1, <2>2, <2>3, SessionSteps
  <1>2. ASSUME NEW id \in Ids, exitTo'[id] # NoConn PROVE id < next_id' /\ id \notin sessions'
    <2>1. CASE exitTo[id] # NoConn BY <2>1, PastStays DEF IdsInOrder
    <2>2. CASE exitTo[id] = NoConn
      <3>1. id \in sessions /\ sessions' = sessions \ {id} /\ next_id' = next_id
        BY <1>2, <2>2, SessionSteps
      <3> QED BY <3>1 DEF IdsInOrder
    <2> QED BY <2>1, <2>2
  <1>3. ASSUME NEW c \in Conns, NEW k \in DOMAIN out'[c], out'[c][k].t = "Exited"
        PROVE  out'[c][k].id < next_id' /\ out'[c][k].id \notin sessions'
    <2>0. out[c] \in Seq(Msg) OBVIOUS
    <2>1. ASSUME NEW j \in DOMAIN out[c], out'[c][k] = out[c][j]
          PROVE  out'[c][k].id < next_id' /\ out'[c][k].id \notin sessions'
      <3>1. out[c][j] \in Msg BY <2>0
      <3>2. out[c][j].id \in Ids BY <1>3, <2>1, <3>1 DEF Msg, Reply, BuiltDump
      <3>3. Past(out[c][j].id) BY <1>3, <2>1 DEF IdsInOrder
      <3> QED BY <2>1, <3>2, <3>3, PastStays
    <2>2. CASE out'[c] = out[c] BY <2>1, <2>2
    <2>3. CASE out[c] # <<>> /\ out'[c] = Tail(out[c])
      BY <2>0, <2>1, <2>3, TailMoves
    <2>4. CASE out'[c] = <<>> BY <2>4
    <2>5. ASSUME NEW m \in Msg, out'[c] = Append(out[c], m),
                 m.t = "Exited" => exitTo[m.id] # NoConn /\ m.id \in Ids
          PROVE  out'[c][k].id < next_id' /\ out'[c][k].id \notin sessions'
      <3>1. CASE k \in DOMAIN out[c] BY <2>0, <2>1, <2>5, <3>1, AppendKeeps
      <3>2. CASE k \notin DOMAIN out[c]
        <4>1. out'[c][k] = m BY <2>0, <2>5, <3>2, AppendKeeps
        <4>2. Past(m.id) /\ m.id \in Ids BY <1>3, <2>5, <4>1 DEF IdsInOrder
        <4> QED BY <4>1, <4>2, PastStays
      <3> QED BY <3>1, <3>2
    <2> QED BY <2>2, <2>3, <2>4, <2>5, QueueSteps
  <1> QED BY <1>1, <1>2, <1>3 DEF IdsInOrder, Past

\* How a connection with a live client, a while after its steal, goes through a step.
Kept(c) ==
  /\ open[c] /\ client[c] = "up"
  /\ snap'[c] = snap[c] /\ initial'[c] \subseteq initial[c]
  /\ \A f \in want'[c] : f \in want[c] \/ f.t # "Attach" \/ f.id \in initial[c]
  /\ frame'[c].t = "Attach" => frame'[c] \in {frame[c]} \cup want[c]
  /\ \A id \in Planned(c)' :
       id \in Planned(c) \/ (frame[c].t = "Attach" /\ id = frame[c].id)
         \/ \E k \in DOMAIN out'[c] : out'[c][k] = Message("Spawned", id)
  /\ \A id \in known[c] : id \in known'[c] \/ Past(id)
  /\ \/ Keeps(c)
     \/ /\ out[c] # <<>> /\ out'[c] = Tail(out[c])
        /\ Head(out[c]).t = "Spawned" => Head(out[c]).id \in known'[c]

\* Only the steal makes a client live.
LEMMA KeptSteps ==
  ASSUME TypeInv, IdsInOrder, Unborn, [Next]_vars, NEW c \in Conns, open'[c], client'[c] = "up"
  PROVE  Steal(c) \/ Kept(c)
  <1> USE DEF TypeInv, TypeOK, chanVars, clientVars, taskVars
  <1>00. todo'[c] \subseteq todo[c] /\ (frame'[c] = frame[c] \/ frame'[c].t # "OutputDump")
           => \A id \in Planned(c)' : id \in Planned(c)
    BY DEF Planned, Message
  <1>0. /\ out[c] \in Seq(Msg) /\ NoFrame.t = "Spawn"
        /\ out'[c] = out[c] => Keeps(c)
    BY DEF NoFrame, Keeps
  <1>1. CASE NoName
    <2>1. Keeps(c) BY <1>00, <1>0, <1>1, SentKeeps DEF NoName
    <2>2. frame'[c].t = "Attach" => frame'[c] = frame[c]
      <3>1. frame'[c] = frame[c] \/ frame'[c] = NoFrame BY <1>1 DEF NoName
      <3> QED BY <1>00, <1>0, <3>1
    <2>3. UNCHANGED <<snap, client, known, initial, want, open, todo>> BY <1>1 DEF NoName
    <2>4. frame'[c] = frame[c] \/ frame'[c].t # "OutputDump"
      <3>1. frame'[c] = frame[c] \/ frame'[c] = NoFrame BY <1>1 DEF NoName
      <3> QED BY <1>0, <3>1
    <2> QED BY <1>00, <2>1, <2>2, <2>3, <2>4 DEF Kept
  <1>2. ASSUME NEW d \in Conns, Handshake(d) \/ HandshakeFails(d) PROVE Kept(c)
    <2>1. d # c BY <1>2 DEF Handshake, HandshakeFails, Unborn, Early
    <2> QED BY <1>00, <1>0, <1>2, <2>1 DEF Handshake, HandshakeFails, Kept
  <1>3. ASSUME NEW d \in Conns \ {c}, Steal(d) PROVE Kept(c)
    BY <1>00, <1>0, <1>3 DEF Steal, Kept
  <1>4. ASSUME NEW d \in Conns, Dump(d) PROVE Kept(c)
    <2>1. PICK id \in todo[d] :
            /\ todo' = [todo EXCEPT ![d] = @ \ {id}]
            /\ \/ frame' = [frame EXCEPT ![d] = Message("OutputDump", id)]
               \/ UNCHANGED frame
      BY <1>4 DEF Dump
    <2>2. Planned(c)' \subseteq Planned(c)
      BY <2>1 DEF Planned, Message
    <2>3. frame'[c].t = "Attach" => frame'[c] = frame[c]
      BY <2>1 DEF Message
    <2> QED BY <1>0, <1>4, <2>2, <2>3 DEF Dump, Kept
  <1>16. ASSUME NEW d \in Conns, SendDump(d) PROVE Kept(c)
    <2>1. frame[d] \in Msg BY <1>16, ReplyType DEF SendDump
    <2>2. Keeps(c) BY <1>16, <2>1, SentKeeps DEF SendDump
    <2>3. frame'[c] = frame[c] \/ frame'[c] = NoFrame BY <1>16 DEF SendDump
    <2>4. todo'[c] = todo[c] BY <1>16 DEF SendDump
    <2>5. \A id \in Planned(c)' : id \in Planned(c) BY <1>00, <1>0, <2>3, <2>4
    <2>6. frame'[c].t = "Attach" => frame'[c] = frame[c] BY <1>0, <2>3
    <2> QED BY <1>16, <2>2, <2>5, <2>6 DEF SendDump, Kept
  <1>5. ASSUME NEW d \in Conns, Closed(d) PROVE Kept(c)
    BY <1>00, <1>0, <1>5 DEF Closed, ClientGone, Kept
  <1>6. ASSUME NEW d \in Conns, ReadFrame(d) PROVE Kept(c)
    <2>1. ASSUME NEW f \in PossibleFrames(d), f.t = "Attach" PROVE f \in want[d]
      <3>1. ASSUME NEW S, NEW N, f \in [t : S, id : N] PROVE "Attach" \in S
        BY <2>1, <3>1
      <3>2. f \notin [t : Frames \cap {IF asked[d] THEN "UnsubscribeUsage" ELSE "SubscribeUsage"},
                      id : {0}]
        BY <3>1
      <3>3. f \notin [t : Frames \cap {"Kill", "WriteBytes"}, id : known[d]]
        BY <3>1
      <3>4. f \notin [t : IF next_id \in Ids THEN Frames \cap {"Spawn"} ELSE {}, id : {0}]
        BY <3>1
      <3> QED BY <2>1, <3>2, <3>3, <3>4 DEF PossibleFrames
    <2>5. \A f \in PossibleFrames(d) : f.t # "OutputDump"
      BY PossibleFramesType DEF Frame, Reply
    <2>2. PICK f \in PossibleFrames(d) : /\ frame' = [frame EXCEPT ![d] = f]
                                         /\ want' = [want EXCEPT ![d] = @ \ {f}]
      BY <1>6 DEF ReadFrame
    <2>3. CASE d # c BY <1>00, <1>0, <1>6, <2>2, <2>3 DEF ReadFrame, Kept
    <2>4. CASE d = c
      <3>1. frame'[c] = f /\ want'[c] = want[c] \ {f} BY <2>2, <2>4
      <3>2. frame'[c].t = "Attach" => frame'[c] \in want[c] BY <2>1, <2>4, <3>1
      <3>3. frame'[c].t # "OutputDump" BY <2>4, <2>5, <3>1
      <3> QED BY <1>00, <1>0, <1>6, <2>4, <3>1, <3>2, <3>3 DEF ReadFrame, Kept
    <2> QED BY <2>3, <2>4
  <1>7. ASSUME NEW d \in Conns, Spawn(d) PROVE Kept(c)
    BY <1>00, <1>0, <1>7 DEF Spawn, Kept, Message
  <1>8. ASSUME NEW d \in Conns, Announce(d) PROVE Kept(c)
    <2>1. frame[d] \in Reply /\ frame[d] \in Msg BY <1>8, ReplyType DEF Announce
    <2>2. Keeps(c) BY <1>8, <2>1, SentKeeps DEF Announce
    <2>3. CASE d # c BY <1>00, <1>8, <2>2, <2>3 DEF Announce, ResumeWithDumps, Kept
    <2>4. CASE d = c
      <3>1. open[c] BY <1>8 DEF Announce
      <3>2. out'[c] = Append(out[c], frame[c]) /\ todo'[c] = {frame[c].id} \cap Ids
        BY <1>8, <2>4, <3>1 DEF Announce, Sent, ResumeWithDumps
      <3>3. out'[c][Len(out[c]) + 1] = frame[c] /\ Len(out[c]) + 1 \in DOMAIN out'[c]
        BY <1>00, <1>0, <2>1, <2>4, <3>2, AppendKeeps
      <3>4. ASSUME NEW id \in todo'[c] PROVE frame[c] = Message("Spawned", id)
        BY <2>1, <2>4, <3>2, <3>4 DEF Reply, Message, Ids
      <3>5. frame'[c] = NoFrame BY <1>8, <2>4, <3>1 DEF Announce, ResumeWithDumps
      <3>6. ASSUME NEW id \in Planned(c)' PROVE id \in todo'[c]
        BY <1>0, <3>5, <3>6 DEF Planned, Message
      <3> QED BY <1>0, <1>8, <2>2, <2>4, <3>1, <3>3, <3>4, <3>5, <3>6
              DEF Announce, ResumeWithDumps, Kept
    <2> QED BY <2>3, <2>4
  <1>9. ASSUME NEW d \in Conns, Attach(d) PROVE Kept(c)
    <2>1. CASE d # c BY <1>00, <1>0, <1>9, <2>1 DEF Attach, Handling, ResumeWithDumps, Kept
    <2>2. CASE d = c
      <3>1. /\ frame[c].t = "Attach" /\ todo'[c] = {frame[c].id} /\ frame'[c] = NoFrame
            /\ out' = out
        BY <1>9, <2>2 DEF Attach, Handling, ResumeWithDumps
      <3>2. ASSUME NEW id \in Planned(c)' PROVE id = frame[c].id
        BY <1>0, <3>1, <3>2 DEF Planned, Message
      <3> QED BY <1>0, <1>9, <2>2, <3>1, <3>2 DEF Attach, Kept
    <2> QED BY <2>1, <2>2
  <1>10. ASSUME NEW d \in Conns, Deliver(d) PROVE Kept(c)
    <2>1. CASE d # c BY <1>00, <1>0, <1>10, <2>1 DEF Deliver, ClientGone, Kept
    <2>2. CASE d = c
      <3> DEFINE m == Head(out[c])
      <3>1. /\ open[c] /\ client[c] = "up" /\ out[c] # <<>> /\ out'[c] = Tail(out[c])
            /\ known'[c] = CASE m.t = "Spawned" -> known[c] \cup {m.id}
                             [] m.t = "Exited" -> known[c] \ {m.id}
                             [] OTHER -> known[c]
            /\ UNCHANGED <<snap, initial, want, frame, todo>>
        BY <1>10, <2>2 DEF Deliver
      <3>2. m.t = "Exited" => Past(m.id)
        BY <1>00, <1>0, <3>1, TailMoves DEF IdsInOrder
      <3>3. \A id \in known[c] : id \in known'[c] \/ Past(id)
        BY <3>1, <3>2
      <3> QED BY <1>00, <3>1, <3>3 DEF Kept
    <2> QED BY <2>1, <2>2
  <1>11. ASSUME NEW d \in Conns, WriterStops(d) PROVE Kept(c)
    BY <1>00, <1>0, <1>11 DEF WriterStops, Kept
  <1>12. ASSUME NEW d \in Conns, Rebind(d) PROVE Kept(c)
    <2>1. PICK id \in initial[d] :
            /\ initial' = [initial EXCEPT ![d] = @ \ {id}]
            /\ \/ /\ known' = [known EXCEPT ![d] = @ \cup {id}]
                  /\ want' = [want EXCEPT ![d] = @ \cup [t : Frames \cap {"Attach"}, id : {id}]]
               \/ /\ want' = [want EXCEPT ![d] = @ \cup [t : Frames \cap {"Kill"}, id : {id}]]
                  /\ UNCHANGED known
      BY <1>12 DEF Rebind
    <2>2. CASE d # c BY <1>00, <1>0, <1>12, <2>1, <2>2 DEF Rebind, Kept
    <2>3. CASE d = c
      <3>1. /\ \A f \in [t : Frames \cap {"Attach"}, id : {id}] : f.id = id
            /\ \A f \in [t : Frames \cap {"Kill"}, id : {id}] : f.t = "Kill"
        OBVIOUS
      <3>2. \/ want'[c] = want[c] \cup [t : Frames \cap {"Attach"}, id : {id}]
            \/ want'[c] = want[c] \cup [t : Frames \cap {"Kill"}, id : {id}]
        BY <2>1, <2>3
      <3>3. \A f \in want'[c] : f \in want[c] \/ f.t # "Attach" \/ f.id \in initial[c]
        BY <2>3, <3>1, <3>2
      <3> QED BY <1>00, <1>0, <1>12, <2>1, <2>3, <3>3 DEF Rebind, Kept
    <2> QED BY <2>2, <2>3
  <1>13. ASSUME NEW d \in Conns, ClientQuits(d) PROVE Kept(c)
    BY <1>00, <1>0, <1>13 DEF ClientQuits, ClientGone, Kept
  <1>14. ASSUME NEW id \in Ids, Reap(id) PROVE Kept(c)
    BY <1>00, <1>0, <1>14 DEF Reap, Kept
  <1>15. ASSUME NEW id \in Ids, SendExited(id) PROVE Kept(c)
    <2>1. Keeps(c) BY <1>15, SentKeeps, MessageType DEF SendExited
    <2> QED BY <1>00, <1>0, <1>15, <2>1 DEF SendExited, Kept
  <1> QED
    BY <1>1, <1>2, <1>3, <1>4, <1>5, <1>6, <1>7, <1>8, <1>9, <1>10, <1>11, <1>12, <1>13,
       <1>14, <1>15, <1>16, NameSteps

\* A channel is opened by the steal, and closed only with its queue; before the steal
\* nothing moves.
LEMMA UnbornNext == ASSUME TypeInv, Unborn, [Next]_vars PROVE Unborn'
  <1> USE DEF TypeInv, TypeOK, chanVars, clientVars, taskVars
  <1> SUFFICES ASSUME NEW c \in Conns
               PROVE  /\ ~open'[c] => out'[c] = <<>>
                      /\ pc'[c] \in Early =>
                           ~open'[c] /\ client'[c] = "none" /\ want'[c] = {} /\ frame'[c] = NoFrame
    BY DEF Unborn
  <1> DEFINE Idle == /\ pc'[c] \in Early => pc[c] \in Early /\ client'[c] = client[c]
                                              /\ want'[c] = want[c] /\ frame'[c] \in {frame[c], NoFrame}
                     /\ open'[c] = open[c]
  <1>0. ~open[c] => out[c] = <<>> BY DEF Unborn
  <1>1. CASE Idle
    <2>1. ~open'[c] => out'[c] = <<>> BY <1>0, <1>1, QueueSteps
    <2> QED BY <1>1, <2>1 DEF Unborn
  <1>2. ASSUME NoName PROVE Idle BY <1>2 DEF NoName
  <1>3. ASSUME NEW d \in Conns, Handshake(d) \/ HandshakeFails(d) PROVE Idle
    BY <1>3 DEF Handshake, HandshakeFails, Early
  <1>4. ASSUME NEW d \in Conns, Steal(d)
        PROVE  Idle \/ (pc'[c] \notin Early /\ open'[c])
    BY <1>4 DEF Steal, Early
  <1>5. ASSUME NEW d \in Conns, Dump(d) \/ SendDump(d) PROVE Idle
    BY <1>5 DEF Dump, SendDump, Early
  <1>6. ASSUME NEW d \in Conns, Closed(d) PROVE Idle
    BY <1>6 DEF Closed, ClientGone, Early
  <1>7. ASSUME NEW d \in Conns, ReadFrame(d) \/ Spawn(d) PROVE Idle
    BY <1>7 DEF ReadFrame, Spawn, Early
  <1>8. ASSUME NEW d \in Conns, Announce(d) \/ Attach(d) PROVE Idle
    BY <1>8 DEF Announce, Attach, ResumeWithDumps, Early
  <1>9. ASSUME NEW d \in Conns, Deliver(d)
        PROVE  Idle \/ (pc'[c] \notin Early /\ ~open'[c] /\ out'[c] = <<>>)
    <2>1. CASE d # c BY <1>9, <2>1 DEF Deliver, ClientGone
    <2>2. CASE d = c
      <3>1. pc[c] \notin Early BY <1>9, <2>2 DEF Deliver, Unborn
      <3> QED BY <1>9, <2>2, <3>1 DEF Deliver
    <2> QED BY <2>1, <2>2
  <1>10. ASSUME NEW d \in Conns, WriterStops(d)
        PROVE  Idle \/ (pc'[c] \notin Early /\ ~open'[c] /\ out'[c] = <<>>)
    <2>1. CASE d # c BY <1>10, <2>1 DEF WriterStops
    <2>2. CASE d = c BY <1>10, <2>2 DEF WriterStops, Unborn
    <2> QED BY <2>1, <2>2
  <1>11. ASSUME NEW d \in Conns, Rebind(d) \/ ClientQuits(d) PROVE Idle
    <2>1. CASE d # c BY <1>11, <2>1 DEF Rebind, ClientQuits, ClientGone
    <2>2. CASE d = c
      <3>1. pc[c] \notin Early BY <1>11, <2>2 DEF Rebind, ClientQuits, Unborn
      <3> QED BY <1>11, <3>1 DEF Rebind, ClientQuits
    <2> QED BY <2>1, <2>2
  <1>12. ASSUME NEW id \in Ids, Reap(id) \/ SendExited(id) PROVE Idle
    BY <1>12 DEF Reap, SendExited
  <1> HIDE DEF Idle
  <1> QED
    BY <1>1, <1>2, <1>3, <1>4, <1>5, <1>6, <1>7, <1>8, <1>9, <1>10, <1>11, <1>12, NameSteps

\* A client asks for listed sessions only, as the steal has made initial what the
\* reply listed.
LEMMA AsksNext ==
  ASSUME TypeInv, IdsInOrder, Unborn, AsksForListed, [Next]_vars PROVE AsksForListed'
  <1> SUFFICES ASSUME NEW c \in Conns, open'[c], client'[c] = "up"
               PROVE  /\ initial'[c] \subseteq snap'[c]
                      /\ \A f \in want'[c] : f.t = "Attach" => f.id \in snap'[c]
                      /\ frame'[c].t = "Attach" => frame'[c].id \in snap'[c]
    BY DEF AsksForListed
  <1>1. CASE Steal(c)
    <2>1. want[c] = {} /\ frame[c].t = "Spawn"
      BY <1>1 DEF Steal, Unborn, Early, NoFrame
    <2>2. initial'[c] = snap'[c] /\ want' = want /\ frame' = frame
      BY <1>1 DEF Steal, TypeInv, TypeOK
    <2> QED BY <2>1, <2>2
  <1>2. CASE Kept(c) BY <1>2 DEF Kept, AsksForListed
  <1> QED BY <1>1, <1>2, KeptSteps

\* What a client was told, it stays told; a Spawned frame stays queued until it is.
LEMMA ToldStays ==
  ASSUME TypeInv, IdsInOrder, [Next]_vars, NEW c \in Conns, Kept(c), NEW id \in Ids
  PROVE  /\ Told(c, id) => Told(c, id)'
         /\ InQueue(c, "Spawned", id) => Told(c, id)' \/ InQueue(c, "Spawned", id)'
  <1>0. out[c] \in Seq(Msg) BY DEF TypeInv, TypeOK
  <1>1. ASSUME Told(c, id) PROVE Told(c, id)'
    BY <1>1, PastStays DEF Told, Kept, Past
  <1>2. ASSUME NEW k \in DOMAIN out[c], out[c][k] = Message("Spawned", id)
        PROVE  Told(c, id)' \/ InQueue(c, "Spawned", id)'
    <2>1. CASE Keeps(c) BY <1>2, <2>1 DEF Keeps, InQueue
    <2>2. CASE /\ out[c] # <<>> /\ out'[c] = Tail(out[c])
               /\ Head(out[c]).t = "Spawned" => Head(out[c]).id \in known'[c]
      <3>1. CASE k = 1
        <4>1. Head(out[c]) = Message("Spawned", id) BY <1>0, <1>2, <2>2, <3>1, TailMoves
        <4>2. id \in known'[c] BY <2>2, <4>1 DEF Message
        <4> QED BY <4>2 DEF Told
      <3>2. CASE k # 1
        <4>1. k - 1 \in DOMAIN out'[c] /\ out'[c][k - 1] = out[c][k]
          BY <1>0, <2>2, <3>2, TailMoves
        <4> QED BY <1>2, <4>1 DEF InQueue
      <3> QED BY <3>1, <3>2
    <2> QED BY <2>1, <2>2 DEF Kept
  <1> QED BY <1>1, <1>2 DEF InQueue

\* The dumps to be sent are of named sessions: a spawned one was announced first.
LEMMA DumpsNext ==
  ASSUME TypeInv, IdsInOrder, Unborn, AsksForListed, DumpsOfNamed, [Next]_vars
  PROVE  DumpsOfNamed'
  <1> SUFFICES ASSUME NEW c \in Conns, open'[c], client'[c] = "up",
                      NEW id \in Planned(c)'
               PROVE  Told(c, id)' \/ InQueue(c, "Spawned", id)'
    BY DEF DumpsOfNamed
  <1>0. id \in Ids BY TypeInvNext DEF Planned, TypeInv, TypeOK
  <1>1. CASE Steal(c)
    <2>1. todo'[c] = snap[c] /\ snap'[c] = snap[c] /\ frame'[c] = NoFrame
      BY <1>1 DEF Steal, TypeInv, TypeOK, Unborn, Early
    <2>2. id \in snap'[c] BY <2>1 DEF Planned, NoFrame, Message
    <2> QED BY <2>2 DEF Told
  <1>2. CASE Kept(c)
    <2>1. CASE id \in Planned(c)
      BY <1>0, <1>2, <2>1, ToldStays DEF Kept, DumpsOfNamed
    <2>2. CASE frame[c].t = "Attach" /\ id = frame[c].id
      BY <1>2, <2>2 DEF Kept, AsksForListed, Told
    <2>3. CASE \E k \in DOMAIN out'[c] : out'[c][k] = Message("Spawned", id)
      BY <2>3 DEF InQueue
    <2> QED BY <1>2, <2>1, <2>2, <2>3 DEF Kept
  <1> QED BY <1>1, <1>2, KeptSteps

\* A queued dump stays behind the name of its session, or the name reaches the client.
LEMMA QueuedNext == NameInv /\ [Next]_vars => QueuedAfterName'
  <1> SUFFICES ASSUME NameInv, [Next]_vars, NEW c \in Conns, client'[c] = "up",
                      NEW k \in DOMAIN out'[c], out'[c][k].t = "OutputDump",
                      NEW id, id = out'[c][k].id
               PROVE  \/ Told(c, id)'
                      \/ \E j \in DOMAIN out'[c] : j < k /\ out'[c][j] = Message("Spawned", id)
    BY DEF QueuedAfterName, Told, Past
  <1> DEFINE Named == \/ Told(c, id)'
                      \/ \E j \in DOMAIN out'[c] : j < k /\ out'[c][j] = Message("Spawned", id)
  <1> USE DEF NameInv
  <1>0. /\ out[c] \in Seq(Msg) /\ out'[c] \in Seq(Msg)
        /\ out'[c] # <<>> /\ id \in Ids
    <2>1. TypeInv' BY TypeInvNext
    <2>2. out[c] \in Seq(Msg) /\ out'[c] \in Seq(Msg) BY <2>1 DEF TypeInv, TypeOK
    <2>3. out'[c][k] \in Msg BY <2>2
    <2> QED BY <2>2, <2>3 DEF Msg, Reply, BuiltDump
  <1>1. open'[c] BY <1>0, UnbornNext DEF Unborn
  <1>2. CASE Steal(c)
    BY <1>0, <1>2 DEF Steal, Unborn, Early
  <1>3. CASE Kept(c)
    <2>1. client[c] = "up" /\ open[c] BY <1>3 DEF Kept
    <2>2. CASE Keeps(c)
      <3>1. CASE k \in DOMAIN out[c]
        <4>1. out'[c][k] = out[c][k] BY <2>2, <3>1 DEF Keeps
        <4>2. CASE Told(c, id) BY <1>0, <1>3, <4>2, ToldStays
        <4>3. ASSUME NEW j \in DOMAIN out[c], j < k, out[c][j] = Message("Spawned", id)
              PROVE  Named
          BY <2>2, <4>3 DEF Keeps
        <4> QED BY <2>1, <3>1, <4>1, <4>2, <4>3 DEF QueuedAfterName
      <3>2. CASE k \notin DOMAIN out[c]
        <4>1. PICK m \in Msg : /\ out'[c] = Append(out[c], m)
                               /\ m.t = "OutputDump" => m.id \in Planned(c)
          <5>1. out'[c] # out[c] BY <3>2
          <5>2. ~(out[c] # <<>> /\ out'[c] = Tail(out[c]))
            <6> SUFFICES ASSUME out[c] # <<>>, out'[c] = Tail(out[c]) PROVE FALSE
              OBVIOUS
            <6>1. k \in Nat \ {0} /\ k + 1 \in DOMAIN out[c] BY <1>0, TailMoves
            <6> QED BY <1>0, <3>2, <6>1
          <5>3. \E m \in Msg :
                  /\ open[c] /\ out'[c] = Append(out[c], m)
                  /\ m.t = "Exited" => exitTo[m.id] # NoConn /\ m.id \in Ids
                  /\ m.t = "OutputDump" => m.id \in Planned(c)
            BY <1>0, <5>1, <5>2, QueueSteps, Zenon
          <5> QED BY <5>3
        <4>2. k = Len(out[c]) + 1 /\ out'[c][k] = m
          BY <1>0, <3>2, <4>1, AppendKeeps
        <4>3. id \in Planned(c) BY <4>1, <4>2
        <4>4. CASE Told(c, id) BY <1>0, <1>3, <4>4, ToldStays
        <4>5. ASSUME NEW j \in DOMAIN out[c], out[c][j] = Message("Spawned", id)
              PROVE  Named
          <5>1. j < k BY <1>0, <4>2
          <5> QED BY <2>2, <4>5, <5>1 DEF Keeps
        <4> QED BY <2>1, <4>3, <4>4, <4>5 DEF DumpsOfNamed, InQueue
      <3> QED BY <3>1, <3>2
    <2>3. CASE /\ out[c] # <<>> /\ out'[c] = Tail(out[c])
               /\ Head(out[c]).t = "Spawned" => Head(out[c]).id \in known'[c]
      <3>1. k \in Nat /\ k + 1 \in DOMAIN out[c] /\ out'[c][k] = out[c][k + 1]
        BY <1>0, <2>3, TailMoves
      <3>2. CASE Told(c, id) BY <1>0, <1>3, <3>2, ToldStays
      <3>3. ASSUME NEW j \in DOMAIN out[c], j < k + 1, out[c][j] = Message("Spawned", id)
            PROVE  Named
        <4>1. CASE j = 1
          <5>1. Head(out[c]) = Message("Spawned", id) BY <1>0, <2>3, <3>3, <4>1, TailMoves
          <5>2. id \in known'[c] BY <2>3, <5>1 DEF Message
          <5> QED BY <5>2 DEF Told
        <4>2. CASE j # 1
          <5>1. j \in Nat /\ j - 1 \in DOMAIN out'[c] /\ out'[c][j - 1] = out[c][j]
            BY <1>0, <2>3, <4>2, TailMoves
          <5> QED BY <3>1, <3>3, <5>1
        <4> QED BY <4>1, <4>2
      <3> QED BY <2>1, <3>1, <3>2, <3>3 DEF QueuedAfterName
    <2> QED BY <1>3, <2>2, <2>3 DEF Kept
  <1> QED BY <1>1, <1>2, <1>3, KeptSteps

\* The invariant of names holds in every reachable state.
LEMMA NameInvAlways == Spec => []NameInv
  <1>1. Init => NameInv
    <2> SUFFICES ASSUME Init PROVE NameInv
      OBVIOUS
    <2>1. TypeInv BY TypeInvInit
    <2>2. IdsInOrder /\ Unborn BY DEF Init, IdsInOrder, Unborn, Past, Early
    <2>3. AsksForListed /\ DumpsOfNamed /\ QueuedAfterName
      BY DEF Init, AsksForListed, DumpsOfNamed, Planned, NoFrame, Message, QueuedAfterName
    <2> QED BY <2>1, <2>2, <2>3 DEF NameInv
  <1>2. NameInv /\ [Next]_vars => NameInv'
    BY TypeInvNext, IdsNext, UnbornNext, AsksNext, DumpsNext, QueuedNext DEF NameInv
  <1> QED BY <1>1, <1>2, PTL DEF Spec

\* The protocol invariant that command_loop states: for every client and every session
\* it spawned, the name goes ahead of the first dump, whatever else is sent meanwhile.
THEOREM DumpsFollowTheirName == Spec => []SpawnedFirst
  <1>1. ASSUME NameInv, NEW c \in Conns, client[c] = "up", NEW k \in DOMAIN out[c],
               NEW id, id = out[c][k].id, out[c][k].t = "OutputDump", id \notin snap[c]
        PROVE  \/ \E j \in 1..(k - 1) : out[c][j] = Message("Spawned", id)
               \/ id \in known[c]
               \/ id \notin sessions
    <2>1. out[c] \in Seq(Msg) BY <1>1 DEF NameInv, TypeInv, TypeOK
    <2>2. CASE Told(c, id) BY <1>1, <2>2 DEF Told, Past
    <2>3. ASSUME NEW j \in DOMAIN out[c], j < k, out[c][j] = Message("Spawned", id)
          PROVE  \E i \in 1..(k - 1) : out[c][i] = Message("Spawned", id)
      <3>1. j \in 1..(k - 1) BY <2>1, <2>3
      <3> QED BY <2>3, <3>1
    <2>4. Told(c, id) \/ \E j \in DOMAIN out[c] : j < k /\ out[c][j] = Message("Spawned", id)
      BY <1>1 DEF NameInv, QueuedAfterName
    <2> QED BY <2>2, <2>3, <2>4
  <1>2. NameInv => SpawnedFirst BY <1>1 DEF SpawnedFirst
  <1> QED BY <1>2, NameInvAlways, PTL
=============================================================================
