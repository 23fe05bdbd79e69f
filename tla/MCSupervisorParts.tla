--------------------------- MODULE MCSupervisorParts ---------------------------
(***************************************************************************)
(* Two parts in one run: connections have sessions, or they subscribe to    *)
(* usage reports.  A connection whose handshake finds sessions attaches to  *)
(* them, and one that finds none spawns them; shells end by themselves at   *)
(* any time, so a client kills only those of a worktree it does not know.   *)
(***************************************************************************)
EXTENDS MCSupervisor

UsageFrames == {"SubscribeUsage", "UnsubscribeUsage"}

UsageSoFar == next_id = 1 /\ \A d \in Conns : pc[d] = "busy" => frame[d].t \in UsageFrames
SessionsSoFar ==
  /\ \A d \in Conns : ~asked[d] /\ frame[d].t \notin UsageFrames
  /\ ~usage_subscribed /\ \A s \in Samplers : sampler[s] = "off"

ReadInParts(c) ==
  /\ ReadFrame(c)
  /\ \/ frame'[c] \in want[c]
     \/ frame'[c].t \in UsageFrames /\ UsageSoFar
     \/ frame'[c].t = "Spawn" /\ SessionsSoFar /\ snap[c] = {}

PartsNext ==
  \/ \E c \in Conns : Handshake(c) \/ ServeStep(c) \/ ReadInParts(c)
                        \/ HandleStep(c) \/ WriterStops(c) \/ ClientStep(c)
  \/ \E id \in Ids : SessionStep(id)
  \/ \E s \in Samplers : SamplerCheck(s) \/ SamplerSend(s)
  \/ AllClosed
PartsSpec == Init /\ [][PartsNext]_vars
=============================================================================
