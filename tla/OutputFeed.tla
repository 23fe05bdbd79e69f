----------------------------- MODULE OutputFeed -----------------------------
(***************************************************************************)
(* How the output of one session reaches the client's terminal: the PTY     *)
(* reader thread of spawn_session, which keeps a lock-free cache of the     *)
(* attached client; the replay log; build_dump, run by the connection's     *)
(* task; and the client's reader, which feeds every frame to its own        *)
(* parser once the session is adopted.                                      *)
(*                                                                         *)
(* Output is counted in chunks, one per read of the PTY: chunk n is the     *)
(* n-th.  A step is one lock, one atomic load or one channel operation of   *)
(* the code; the registry mutex is held from Swap to Bump.                  *)
(***************************************************************************)
EXTENDS Naturals, Sequences

CONSTANTS
  Conns,      \* client connections, each one used once
  NoConn,     \* no connection
  MaxChunks,  \* bound: chunks the shell writes
  LogCap,     \* chunks the replay log keeps (2 MiB in the code)
  ChanCap     \* capacity of a connection's queue (512 in the code)

ASSUME ConnsAssumption == NoConn \notin Conns
ASSUME BoundsAssumption ==
  MaxChunks \in Nat /\ LogCap \in Nat \ {0} /\ ChanCap \in Nat \ {0}

VARIABLES
  (* the PTY reader thread *)
  reader,       \* where it is
  cached,       \* the connection in its cache, NoConn for None
  cached_gen,   \* the generation that goes with it
  (* Supervised *)
  parsed,       \* chunks the parser has processed
  logged,       \* chunks pushed to the log
  evicted,      \* of those, the chunks evicted from its front
  truncated,    \* the log may start inside an escape sequence
  (* Shared *)
  active, active_generation,
  (* handle_conn, per connection *)
  pc, gen,
  old,          \* the connection it displaced
  dump,         \* the dump it has built
  cancelled, open,
  out,          \* frames on their way to its client
  (* clients *)
  client,
  adopted,      \* the client has a ProxySession for the session
  wants,        \* its Attach frame has not been read yet
  shown,        \* the chunks its parser has processed
  tip,          \* the last chunk of the last frame it has processed
  torn          \* a delta since the last dump did not follow on what was before it

readerVars == <<reader, cached, cached_gen>>
sessVars == <<parsed, logged, evicted, truncated>>
slotVars == <<active, active_generation>>
taskVars == <<pc, gen, old, dump>>
chanVars == <<cancelled, open, out>>
clientVars == <<client, adopted, wants, shown, tip, torn>>
vars == <<readerVars, sessVars, slotVars, taskVars, chanVars, clientVars>>

\* A frame covers the chunks lo..hi.  A delta covers one; a dump of the log what
\* the log holds; a dump of the screen stands for all that was parsed.
Frame == [t : {"delta", "log", "screen"}, lo : Nat, hi : Nat]
NoDump == [t |-> "screen", lo |-> 1, hi |-> 0]
Covers(f, n) == f.lo <= n /\ n <= f.hi

TypeOK ==
  /\ reader \in {"read", "parsed", "logged", "load", "send"}
  /\ cached_gen \in Nat
  /\ cached \in Conns \cup {NoConn}
  /\ reader = "send" => cached # NoConn
  /\ parsed \in 0..MaxChunks /\ logged \in 0..parsed /\ evicted \in 0..logged
  /\ truncated \in BOOLEAN
  /\ active \in Conns \cup {NoConn}
  /\ active_generation \in Nat
  /\ pc \in [Conns -> {"new", "swapped", "cancelling", "dump", "screen", "sending",
                       "loop", "closed"}]
  /\ gen \in [Conns -> Nat]
  /\ old \in [Conns -> Conns \cup {NoConn}]
  /\ dump \in [Conns -> Frame]
  /\ cancelled \in [Conns -> BOOLEAN]
  /\ open \in [Conns -> BOOLEAN]
  /\ out \in [Conns -> Seq(Frame)]
  /\ client \in [Conns -> {"up", "gone"}]
  /\ adopted \in [Conns -> BOOLEAN]
  /\ wants \in [Conns -> BOOLEAN]
  /\ shown \in [Conns -> SUBSET (1..MaxChunks)]
  /\ tip \in [Conns -> 0..MaxChunks]
  /\ torn \in [Conns -> BOOLEAN]

Init ==
  /\ reader = "read" /\ cached = NoConn /\ cached_gen = 0
  /\ parsed = 0 /\ logged = 0 /\ evicted = 0 /\ truncated = FALSE
  /\ active = NoConn /\ active_generation = 0
  /\ pc = [c \in Conns |-> "new"]
  /\ gen = [c \in Conns |-> 0]
  /\ old = [c \in Conns |-> NoConn]
  /\ dump = [c \in Conns |-> NoDump]
  /\ cancelled = [c \in Conns |-> FALSE]
  /\ open = [c \in Conns |-> FALSE]
  /\ out = [c \in Conns |-> <<>>]
  /\ client = [c \in Conns |-> "up"]
  /\ adopted = [c \in Conns |-> FALSE]
  /\ wants = [c \in Conns |-> FALSE]
  /\ shown = [c \in Conns |-> {}]
  /\ tip = [c \in Conns |-> 0]
  /\ torn = [c \in Conns |-> FALSE]

\* A send to c can complete: there is room, or the receiver is gone.
CanSend(c) == open[c] => Len(out[c]) < ChanCap

\* The queues after a send to c; nothing is queued on a closed channel.
Sent(c, f) == IF open[c] THEN [out EXCEPT ![c] = Append(@, f)] ELSE out

Delta(n) == [t |-> "delta", lo |-> n, hi |-> n]

-----------------------------------------------------------------------------
(* Faulty variants of the actions below, each with one mistake. *)

\* The cache is trusted whatever the generation says.
LoadGenerationIgnored ==
  /\ reader = "logged"
  /\ reader' = IF cached # NoConn THEN "send" ELSE "load"
  /\ cached_gen' = active_generation
  /\ UNCHANGED <<cached, sessVars, slotVars, taskVars, chanVars, clientVars>>

\* A chunk is sent though nobody is attached.
LoadActiveUnchecked ==
  /\ reader = "load"
  /\ cached' = active
  /\ reader' = "send"
  /\ UNCHANGED <<cached_gen, sessVars, slotVars, taskVars, chanVars, clientVars>>

-----------------------------------------------------------------------------
(* The PTY reader thread *)

\* A read returns, and the parser processes the chunk.
ReadChunk ==
  /\ reader = "read"
  /\ parsed < MaxChunks
  /\ parsed' = parsed + 1
  /\ reader' = "parsed"
  /\ UNCHANGED <<cached, cached_gen, logged, evicted, truncated, slotVars, taskVars,
                 chanVars, clientVars>>

\* The chunk is logged.  A log above its cap loses its front, and unless a newline
\* is near it is marked for good.
PushLog ==
  /\ reader = "parsed"
  /\ logged' = parsed
  /\ \/ /\ logged' - evicted <= LogCap
        /\ UNCHANGED <<evicted, truncated>>
     \/ /\ logged' - evicted > LogCap
        /\ evicted' = logged' - LogCap
        /\ truncated' \in {truncated, TRUE}
  /\ reader' = "logged"
  /\ UNCHANGED <<cached, cached_gen, parsed, slotVars, taskVars, chanVars, clientVars>>

\* The generation tells whether the cache still holds.
LoadGeneration ==
  /\ reader = "logged"
  /\ reader' = IF cached # NoConn /\ cached_gen = active_generation THEN "send" ELSE "load"
  /\ cached_gen' = active_generation
  /\ UNCHANGED <<cached, sessVars, slotVars, taskVars, chanVars, clientVars>>

\* The cache is reloaded; with no client attached the chunk is only logged.
LoadActive ==
  /\ reader = "load"
  /\ cached' = active
  /\ reader' = IF active = NoConn THEN "read" ELSE "send"
  /\ UNCHANGED <<cached_gen, sessVars, slotVars, taskVars, chanVars, clientVars>>

\* blocking_send: waits for room; a closed channel clears the cache.
SendDelta ==
  /\ reader = "send"
  /\ CanSend(cached)
  /\ out' = Sent(cached, Delta(parsed))
  /\ cached' = IF open[cached] THEN cached ELSE NoConn
  /\ reader' = "read"
  /\ UNCHANGED <<cached_gen, sessVars, slotVars, taskVars, cancelled, open, clientVars>>

-----------------------------------------------------------------------------
(* handle_conn *)

\* The registry mutex is free: only a steal holds it for more than one step.
RegistryFree == \A c \in Conns : pc[c] # "swapped"

\* The steal stores the new connection ...
Swap(c) ==
  /\ pc[c] = "new"
  /\ RegistryFree
  /\ active' = c
  /\ old' = [old EXCEPT ![c] = active]
  /\ open' = [open EXCEPT ![c] = TRUE]
  /\ pc' = [pc EXCEPT ![c] = "swapped"]
  /\ UNCHANGED <<readerVars, sessVars, active_generation, gen, dump, cancelled, out, clientVars>>

\* ... then moves the generation, which the reader threads watch.
Bump(c) ==
  /\ pc[c] = "swapped"
  /\ active_generation' = active_generation + 1
  /\ gen' = [gen EXCEPT ![c] = active_generation + 1]
  /\ pc' = [pc EXCEPT ![c] = IF old[c] = NoConn THEN "dump" ELSE "cancelling"]
  /\ UNCHANGED <<readerVars, sessVars, active, old, dump, chanVars, clientVars>>

\* The displaced connection is cancelled.
CancelOld(c) ==
  /\ pc[c] = "cancelling"
  /\ cancelled' = [cancelled EXCEPT ![old[c]] = TRUE]
  /\ old' = [old EXCEPT ![c] = NoConn]
  /\ pc' = [pc EXCEPT ![c] = "dump"]
  /\ UNCHANGED <<readerVars, sessVars, slotVars, gen, dump, open, out, clientVars>>

\* build_dump copies the log under its lock, if it can be replayed ...
DumpLog(c) ==
  /\ pc[c] = "dump"
  /\ IF logged = 0 \/ truncated
     THEN /\ pc' = [pc EXCEPT ![c] = "screen"]
          /\ UNCHANGED dump
     ELSE /\ dump' = [dump EXCEPT ![c] = [t |-> "log", lo |-> evicted + 1, hi |-> logged]]
          /\ pc' = [pc EXCEPT ![c] = "sending"]
  /\ UNCHANGED <<readerVars, sessVars, slotVars, gen, old, chanVars, clientVars>>

\* ... or formats the screen, under the parser's lock.
DumpScreen(c) ==
  /\ pc[c] = "screen"
  /\ dump' = [dump EXCEPT ![c] = [t |-> "screen", lo |-> 1, hi |-> parsed]]
  /\ pc' = [pc EXCEPT ![c] = "sending"]
  /\ UNCHANGED <<readerVars, sessVars, slotVars, gen, old, chanVars, clientVars>>

SendDump(c) ==
  /\ pc[c] = "sending"
  /\ CanSend(c)
  /\ out' = Sent(c, dump[c])
  /\ dump' = [dump EXCEPT ![c] = NoDump]
  /\ pc' = [pc EXCEPT ![c] = "loop"]
  /\ UNCHANGED <<readerVars, sessVars, slotVars, gen, old, cancelled, open, clientVars>>

\* The client asks for one more dump, for the session it has just adopted.
Attach(c) ==
  /\ pc[c] = "loop"
  /\ ~cancelled[c]
  /\ wants[c]
  /\ wants' = [wants EXCEPT ![c] = FALSE]
  /\ pc' = [pc EXCEPT ![c] = "dump"]
  /\ UNCHANGED <<readerVars, sessVars, slotVars, gen, old, dump, chanVars, client, adopted,
                 shown, tip, torn>>

\* The command loop ends; the slot is emptied if it is still this connection's.
Cleanup(c) ==
  /\ pc[c] = "loop"
  /\ cancelled[c] \/ client[c] = "gone"
  /\ RegistryFree
  /\ active' = IF active_generation = gen[c] THEN NoConn ELSE active
  /\ cancelled' = [cancelled EXCEPT ![c] = TRUE]
  /\ pc' = [pc EXCEPT ![c] = "closed"]
  /\ UNCHANGED <<readerVars, sessVars, active_generation, gen, old, dump, open, out, clientVars>>

\* The writer task stops when cancelled or when a write fails.
WriterStops(c) ==
  /\ open[c]
  /\ cancelled[c] \/ (client[c] = "gone" /\ out[c] # <<>>)
  /\ open' = [open EXCEPT ![c] = FALSE]
  /\ out' = [out EXCEPT ![c] = <<>>]
  /\ UNCHANGED <<readerVars, sessVars, slotVars, taskVars, cancelled, clientVars>>

-----------------------------------------------------------------------------
(* Clients *)

\* The client, told of the session by the handshake reply, adopts it and sends
\* Attach; its reader is already running.
Adopt(c) ==
  /\ pc[c] # "new"
  /\ client[c] = "up"
  /\ ~adopted[c]
  /\ adopted' = [adopted EXCEPT ![c] = TRUE]
  /\ wants' = [wants EXCEPT ![c] = TRUE]
  /\ UNCHANGED <<readerVars, sessVars, slotVars, taskVars, chanVars, client, shown, tip,
                 torn>>

\* A frame goes to the parser of the adopted session, appended to what it has
\* processed before; before the adoption it is dropped.
Process(c, f) ==
  /\ shown' = [shown EXCEPT ![c] = @ \cup (f.lo)..(f.hi)]
  /\ tip' = [tip EXCEPT ![c] = f.hi]
  /\ torn' = [torn EXCEPT ![c] = f.t = "delta" /\ (@ \/ tip[c] + 1 # f.lo)]

Deliver(c) ==
  /\ open[c] /\ ~cancelled[c]
  /\ client[c] = "up"
  /\ out[c] # <<>>
  /\ out' = [out EXCEPT ![c] = Tail(@)]
  /\ IF adopted[c] THEN Process(c, Head(out[c])) ELSE UNCHANGED <<shown, tip, torn>>
  /\ UNCHANGED <<readerVars, sessVars, slotVars, taskVars, cancelled, open, client, adopted,
                 wants>>

\* The client exits or its link breaks.
ClientQuits(c) ==
  /\ pc[c] # "new"
  /\ client[c] = "up"
  /\ client' = [client EXCEPT ![c] = "gone"]
  /\ adopted' = [adopted EXCEPT ![c] = FALSE]
  /\ wants' = [wants EXCEPT ![c] = FALSE]
  /\ shown' = [shown EXCEPT ![c] = {}]
  /\ tip' = [tip EXCEPT ![c] = 0]
  /\ torn' = [torn EXCEPT ![c] = FALSE]
  /\ UNCHANGED <<readerVars, sessVars, slotVars, taskVars, chanVars>>

-----------------------------------------------------------------------------

ReaderStep == PushLog \/ LoadGeneration \/ LoadActive \/ SendDelta

TaskStep(c) ==
  \/ Bump(c) \/ CancelOld(c) \/ DumpLog(c) \/ DumpScreen(c) \/ SendDump(c) \/ Attach(c)
  \/ Cleanup(c)

\* All the output of the bound is written, and every connection used.
Finished ==
  /\ parsed = MaxChunks /\ reader = "read"
  /\ \A c \in Conns : pc[c] = "closed" /\ ~open[c]
  /\ UNCHANGED vars

Next ==
  \/ ReadChunk \/ ReaderStep
  \/ \E c \in Conns : \/ Swap(c) \/ TaskStep(c) \/ WriterStops(c)
                      \/ Adopt(c) \/ Deliver(c) \/ ClientQuits(c)
  \/ Finished

Spec == Init /\ [][Next]_vars

-----------------------------------------------------------------------------
(* Properties *)

\* c has adopted the session and its Attach is dealt with.
Settled(c) == adopted[c] /\ ~wants[c] /\ pc[c] = "loop"

\* Chunk n is on its way from the reader thread to c.
InHand(c, n) ==
  /\ n = parsed
  /\ \/ reader \in {"logged", "load"}
     \/ reader = "send" /\ cached = c

\* The attached client loses nothing: once its Attach is answered, every chunk the
\* log still holds was processed, or is queued for it, or is in the reader thread's
\* hands and goes to it.  The order of the code is what this rests on: log, then
\* load the generation; swap, then bump, then dump; adopt, then ask for a dump.
FeedComplete ==
  \A c \in Conns : active = c /\ open[c] /\ client[c] = "up" /\ Settled(c) =>
    \A n \in (evicted + 1)..logged :
      n \in shown[c] \/ InHand(c, n) \/ \E k \in DOMAIN out[c] : Covers(out[c][k], n)

\* The contract build_dump states: a replay rebuilds the screen, so when all is
\* quiet what the client's parser has processed from the last dump on is the output
\* in its order, each chunk once, up to the present.
Quiet(c) == reader = "read" /\ Settled(c) /\ out[c] = <<>>
ScreenRebuilt ==
  \A c \in Conns : active = c /\ client[c] = "up" /\ Quiet(c) =>
    ~torn[c] /\ tip[c] = parsed
=============================================================================
