--------------------------- MODULE OutputFeedProofs ---------------------------
(***************************************************************************)
(* Theorems of OutputFeed, for every number of connections and chunks and   *)
(* every capacity of the log and of the queues.                             *)
(***************************************************************************)
EXTENDS OutputFeed, TLAPS

-----------------------------------------------------------------------------
(* Types.  TypeOK is inductive once the frames under way are known to cover chunks
   that were read: the client's parser takes over what a frame covers. *)

\* A frame of chunks of the bound.
Chunks(f) == f.lo >= 1 /\ f.hi <= MaxChunks

\* From the read on, the reader thread has a chunk in hand; it is logged second.
OneChunk ==
  /\ reader # "read" => parsed >= 1
  /\ parsed = IF reader = "parsed" THEN logged + 1 ELSE logged

FramesOfChunks ==
  /\ \A c \in Conns : Chunks(dump[c])
  /\ \A c \in Conns : \A k \in DOMAIN out[c] : Chunks(out[c][k])

FeedType == TypeOK /\ OneChunk /\ FramesOfChunks

\* What was queued stays where it is when a frame is appended.
LEMMA AppendKeeps ==
  ASSUME NEW s \in Seq(Frame), NEW f \in Frame
  PROVE  /\ Append(s, f) \in Seq(Frame)
         /\ DOMAIN Append(s, f) = DOMAIN s \cup {Len(s) + 1}
         /\ \A k \in DOMAIN s : k \in 1..Len(s) /\ Append(s, f)[k] = s[k]
         /\ Append(s, f)[Len(s) + 1] = f
  OBVIOUS

\* Taking the head moves the others up by one.
LEMMA TailMoves ==
  ASSUME NEW s \in Seq(Frame), s # <<>>
  PROVE  /\ 1 \in DOMAIN s /\ Head(s) = s[1] /\ Head(s) \in Frame /\ Tail(s) \in Seq(Frame)
         /\ \A k \in DOMAIN Tail(s) : k + 1 \in DOMAIN s /\ Tail(s)[k] = s[k + 1]
         /\ \A k \in DOMAIN s : k # 1 => k - 1 \in DOMAIN Tail(s) /\ Tail(s)[k - 1] = s[k]
  OBVIOUS

\* A send appends to one queue, if it is open, and touches no other.
LEMMA SentAppends ==
  ASSUME out \in [Conns -> Seq(Frame)], NEW c \in Conns, NEW f \in Frame
  PROVE  /\ Sent(c, f) \in [Conns -> Seq(Frame)]
         /\ \A d \in Conns \ {c} : Sent(c, f)[d] = out[d]
         /\ Sent(c, f)[c] = IF open[c] THEN Append(out[c], f) ELSE out[c]
  <1>1. Append(out[c], f) \in Seq(Frame) OBVIOUS
  <1> QED BY <1>1 DEF Sent

\* A send of chunks leaves frames of chunks in the queues.
LEMMA SentChunks ==
  ASSUME FeedType, NEW c \in Conns, NEW f \in Frame, Chunks(f), out' = Sent(c, f)
  PROVE  /\ out' \in [Conns -> Seq(Frame)]
         /\ \A d \in Conns : \A k \in DOMAIN out'[d] : Chunks(out'[d][k])
  <1>1. out \in [Conns -> Seq(Frame)] BY DEF FeedType, TypeOK
  <1>2. ASSUME NEW d \in Conns, NEW k \in DOMAIN out'[d] PROVE Chunks(out'[d][k])
    <2>1. CASE out'[d] = out[d] BY <2>1 DEF FeedType, FramesOfChunks
    <2>2. CASE out'[d] = Append(out[d], f)
      <3>1. out[d] \in Seq(Frame) BY <1>1
      <3>2. CASE k \in DOMAIN out[d]
        BY <2>2, <3>1, <3>2, AppendKeeps DEF FeedType, FramesOfChunks
      <3>3. CASE k = Len(out[d]) + 1
        BY <2>2, <3>1, <3>3, AppendKeeps
      <3> QED BY <2>2, <3>1, <3>2, <3>3, AppendKeeps
    <2> QED BY <1>1, <2>1, <2>2, SentAppends
  <1> QED BY <1>1, <1>2, SentAppends

\* A queue of chunks that is emptied, or loses its head, is one still.
LEMMA TakenChunks ==
  ASSUME FeedType, NEW c \in Conns,
         \/ out' = [out EXCEPT ![c] = <<>>]
         \/ out[c] # <<>> /\ out' = [out EXCEPT ![c] = Tail(@)]
  PROVE  /\ out' \in [Conns -> Seq(Frame)]
         /\ \A d \in Conns : \A k \in DOMAIN out'[d] : Chunks(out'[d][k])
  <1>1. out \in [Conns -> Seq(Frame)] BY DEF FeedType, TypeOK
  <1>2. <<>> \in Seq(Frame) OBVIOUS
  <1>3. out' \in [Conns -> Seq(Frame)]
    <2>1. CASE out' = [out EXCEPT ![c] = <<>>] BY <1>1, <1>2, <2>1
    <2>2. CASE out[c] # <<>> /\ out' = [out EXCEPT ![c] = Tail(@)]
      <3>1. Tail(out[c]) \in Seq(Frame) BY <1>1, <2>2, TailMoves
      <3> QED BY <1>1, <2>2, <3>1
    <2> QED BY <2>1, <2>2
  <1>4. ASSUME NEW d \in Conns, NEW k \in DOMAIN out'[d] PROVE Chunks(out'[d][k])
    <2>1. CASE out'[d] = out[d] BY <2>1 DEF FeedType, FramesOfChunks
    <2>2. CASE out'[d] = <<>> BY <2>2
    <2>3. CASE d = c /\ out[d] # <<>> /\ out'[d] = Tail(out[d])
      BY <1>1, <2>3, TailMoves DEF FeedType, FramesOfChunks
    <2> QED BY <1>1, <2>1, <2>2, <2>3
  <1> QED BY <1>3, <1>4

\* The counts of chunks are numbers.
LEMMA ChunksCounted == FeedType => parsed \in Nat /\ logged \in Nat /\ evicted \in Nat
  <1> SUFFICES ASSUME FeedType PROVE parsed \in Nat /\ logged \in Nat /\ evicted \in Nat
    OBVIOUS
  <1>1. parsed \in Nat /\ MaxChunks \in Nat BY BoundsAssumption DEF FeedType, TypeOK
  <1>2. logged \in Nat BY <1>1 DEF FeedType, TypeOK
  <1>3. evicted \in Nat BY <1>2 DEF FeedType, TypeOK
  <1> QED BY <1>1, <1>2, <1>3

\* Every step keeps the types.
LEMMA FeedTypeNext == FeedType /\ [Next]_vars => FeedType'
  <1> SUFFICES ASSUME FeedType, [Next]_vars PROVE FeedType'
    OBVIOUS
  <1> USE BoundsAssumption
      DEF TypeOK, OneChunk, readerVars, sessVars, slotVars, taskVars, chanVars, clientVars
  <1>0. ASSUME UNCHANGED <<out, dump>> PROVE FramesOfChunks'
    BY <1>0 DEF FeedType, FramesOfChunks
  <1> USE DEF FeedType
  <1>1. CASE ReadChunk
    <2>1. /\ parsed' \in 0..MaxChunks /\ logged' \in 0..parsed' /\ evicted' \in 0..logged'
          /\ OneChunk'
      BY <1>1 DEF ReadChunk
    <2> QED BY <1>0, <1>1, <2>1 DEF ReadChunk
  <1>2. CASE PushLog
    <2>1. parsed = logged + 1 /\ logged' = parsed /\ parsed' = parsed
      BY <1>2 DEF PushLog
    <2>2. logged' \in 0..parsed' /\ OneChunk' BY <1>2, <2>1 DEF PushLog
    <2>3. evicted' \in 0..logged'
      <3>1. evicted' = evicted \/ (logged' - evicted > LogCap /\ evicted' = logged' - LogCap)
        BY <1>2 DEF PushLog
      <3> QED BY <2>1, <3>1
    <2> QED BY <1>0, <1>2, <2>2, <2>3 DEF PushLog
  <1>3. CASE LoadGeneration BY <1>0, <1>3 DEF LoadGeneration
  <1>4. CASE LoadActive BY <1>0, <1>4 DEF LoadActive
  <1>5. CASE SendDelta
    <2>1. cached \in Conns /\ Delta(parsed) \in Frame /\ Chunks(Delta(parsed))
      BY <1>5 DEF SendDelta, Delta, Frame, Chunks
    <2>2. /\ out' \in [Conns -> Seq(Frame)]
          /\ \A d \in Conns : \A k \in DOMAIN out'[d] : Chunks(out'[d][k])
      BY <1>5, <2>1, SentChunks DEF SendDelta
    <2>3. FramesOfChunks' BY <1>5, <2>2 DEF SendDelta, FramesOfChunks
    <2> QED BY <1>5, <2>2, <2>3 DEF SendDelta
  <1>6. ASSUME NEW c \in Conns, Swap(c) PROVE FeedType' BY <1>0, <1>6 DEF Swap
  <1>7. ASSUME NEW c \in Conns, Bump(c) PROVE FeedType' BY <1>0, <1>7 DEF Bump
  <1>8. ASSUME NEW c \in Conns, CancelOld(c) PROVE FeedType' BY <1>0, <1>8 DEF CancelOld
  <1>9. ASSUME NEW c \in Conns, DumpLog(c) PROVE FeedType'
    <2> DEFINE f == [t |-> "log", lo |-> evicted + 1, hi |-> logged]
    <2>1. f \in Frame /\ Chunks(f) BY DEF Frame, Chunks
    <2>2. dump' = dump \/ dump' = [dump EXCEPT ![c] = f] BY <1>9 DEF DumpLog
    <2>3. dump' \in [Conns -> Frame] BY <2>1, <2>2
    <2>4. FramesOfChunks' BY <1>9, <2>1, <2>2 DEF FramesOfChunks, DumpLog
    <2> QED BY <1>9, <2>3, <2>4 DEF DumpLog
  <1>10. ASSUME NEW c \in Conns, DumpScreen(c) PROVE FeedType'
    <2> DEFINE f == [t |-> "screen", lo |-> 1, hi |-> parsed]
    <2>1. f \in Frame /\ Chunks(f) BY DEF Frame, Chunks
    <2>2. dump' = [dump EXCEPT ![c] = f] BY <1>10 DEF DumpScreen
    <2>3. dump' \in [Conns -> Frame] BY <2>1, <2>2
    <2>4. FramesOfChunks' BY <1>10, <2>1, <2>2 DEF FramesOfChunks, DumpScreen
    <2> QED BY <1>10, <2>3, <2>4 DEF DumpScreen
  <1>11. ASSUME NEW c \in Conns, SendDump(c) PROVE FeedType'
    <2>1. NoDump \in Frame /\ Chunks(NoDump) BY DEF NoDump, Frame, Chunks
    <2>2. Chunks(dump[c]) /\ dump[c] \in Frame BY DEF FramesOfChunks
    <2>3. dump' = [dump EXCEPT ![c] = NoDump] /\ out' = Sent(c, dump[c])
      BY <1>11 DEF SendDump
    <2>4. /\ out' \in [Conns -> Seq(Frame)]
          /\ \A d \in Conns : \A k \in DOMAIN out'[d] : Chunks(out'[d][k])
      BY <2>2, <2>3, SentChunks
    <2>5. FramesOfChunks' BY <2>1, <2>3, <2>4 DEF FramesOfChunks
    <2> QED BY <1>11, <2>1, <2>3, <2>4, <2>5 DEF SendDump
  <1>12. ASSUME NEW c \in Conns, Attach(c) PROVE FeedType' BY <1>0, <1>12 DEF Attach
  <1>13. ASSUME NEW c \in Conns, Cleanup(c) PROVE FeedType' BY <1>0, <1>13 DEF Cleanup
  <1>14. ASSUME NEW c \in Conns, WriterStops(c) PROVE FeedType'
    <2>1. out' = [out EXCEPT ![c] = <<>>] /\ dump' = dump BY <1>14 DEF WriterStops
    <2>2. FramesOfChunks' BY <2>1, TakenChunks DEF FramesOfChunks
    <2> QED BY <1>14, <2>1, <2>2, TakenChunks DEF WriterStops
  <1>15. ASSUME NEW c \in Conns, Adopt(c) PROVE FeedType' BY <1>0, <1>15 DEF Adopt
  <1>16. ASSUME NEW c \in Conns, Deliver(c) PROVE FeedType'
    <2>1. out[c] # <<>> /\ out' = [out EXCEPT ![c] = Tail(@)] /\ dump' = dump
      BY <1>16 DEF Deliver
    <2>2. FramesOfChunks' BY <2>1, TakenChunks DEF FramesOfChunks
    <2>3. Head(out[c]) \in Frame /\ Chunks(Head(out[c]))
      BY <2>1, TailMoves DEF FramesOfChunks
    <2>4. /\ shown' \in [Conns -> SUBSET (1..MaxChunks)]
          /\ tip' \in [Conns -> 0..MaxChunks]
          /\ torn' \in [Conns -> BOOLEAN]
      <3>1. CASE adopted[c]
        <4> DEFINE f == Head(out[c])
        <4>1. Process(c, f) BY <1>16, <3>1 DEF Deliver
        <4>2. (f.lo)..(f.hi) \subseteq 1..MaxChunks /\ f.hi \in 0..MaxChunks
          <5>1. f.lo \in Nat /\ f.hi \in Nat BY <2>3 DEF Frame
          <5>2. f.lo >= 1 /\ f.hi <= MaxChunks BY <2>3 DEF Chunks
          <5> HIDE DEF f
          <5> QED BY <5>1, <5>2
        <4> HIDE DEF f
        <4>3. shown' \in [Conns -> SUBSET (1..MaxChunks)]
          BY <4>1, <4>2 DEF Process
        <4> QED BY <4>1, <4>2, <4>3 DEF Process
      <3>2. CASE ~adopted[c] BY <1>16, <3>2 DEF Deliver
      <3> QED BY <3>1, <3>2
    <2> QED BY <1>16, <2>1, <2>2, <2>4, TakenChunks DEF Deliver
  <1>17. ASSUME NEW c \in Conns, ClientQuits(c) PROVE FeedType'
    BY <1>0, <1>17 DEF ClientQuits
  <1>18. CASE UNCHANGED vars BY <1>0, <1>18 DEF vars
  <1> QED
    BY <1>1, <1>2, <1>3, <1>4, <1>5, <1>6, <1>7, <1>8, <1>9, <1>10, <1>11, <1>12, <1>13,
       <1>14, <1>15, <1>16, <1>17, <1>18
    DEF Next, ReaderStep, TaskStep, Finished

\* The initial state has its types.
LEMMA InitFeedType == Init => FeedType
  <1> SUFFICES ASSUME Init PROVE FeedType
    OBVIOUS
  <1>1. NoDump \in Frame /\ Chunks(NoDump) /\ <<>> \in Seq(Frame)
    BY BoundsAssumption DEF NoDump, Frame, Chunks
  <1>2. FramesOfChunks
    <2>1. \A c \in Conns : dump[c] = NoDump /\ out[c] = <<>> BY DEF Init
    <2> QED BY <1>1, <2>1 DEF FramesOfChunks
  <1>3. OneChunk BY DEF Init, OneChunk
  <1>4. dump \in [Conns -> Frame] /\ out \in [Conns -> Seq(Frame)] BY <1>1 DEF Init
  <1>5. shown \in [Conns -> SUBSET (1..MaxChunks)]
    <2>1. {} \in SUBSET (1..MaxChunks) OBVIOUS
    <2> QED BY <2>1 DEF Init
  <1>6. /\ parsed \in 0..MaxChunks /\ logged \in 0..parsed /\ evicted \in 0..logged
        /\ tip \in [Conns -> 0..MaxChunks]
    BY BoundsAssumption DEF Init
  <1>7. TypeOK BY <1>4, <1>5, <1>6 DEF Init, TypeOK
  <1> QED BY <1>2, <1>3, <1>7 DEF FeedType

\* The types hold in every reachable state.
LEMMA FeedTypeAlways == Spec => []FeedType
  BY InitFeedType, FeedTypeNext, PTL DEF Spec

\* Type correctness: in particular the log never covers a chunk that was not parsed,
\* and no client is shown one that was not written.
THEOREM FeedTypeCorrect == Spec => []TypeOK
  <1>1. FeedType => TypeOK BY DEF FeedType
  <1> QED BY <1>1, FeedTypeAlways, PTL

-----------------------------------------------------------------------------
(* Completeness of the feed.  The cache of the reader thread may be stale; what makes
   that harmless is that a generation it still trusts is the owner's, unless the new
   owner is inside its steal, and then its dump is still to come. *)

GenBound == cached_gen <= active_generation

\* A steal is one critical section.
OneSteal == \A c \in Conns : pc[c] = "swapped" => active = c

\* A cache the thread will trust names the client in the slot.
CacheTrusted ==
  reader # "load" /\ cached # NoConn /\ cached_gen = active_generation =>
    cached = active \/ active = NoConn \/ pc[active] = "swapped"

\* Whatever reaches the client's parser, a dump it has not been sent yet included.
Coming(c, n) ==
  \/ n \in shown[c]
  \/ InHand(c, n)
  \/ \E k \in DOMAIN out[c] : Covers(out[c][k], n)
  \/ pc[c] = "sending" /\ Covers(dump[c], n)

\* The client in the slot, from the moment the dump it asked for is built.
Fed(c) ==
  /\ active = c /\ open[c] /\ client[c] = "up"
  /\ adopted[c] /\ ~wants[c] /\ pc[c] \in {"sending", "loop"}

\* It misses nothing.
AllComing == \A c \in Conns : Fed(c) => \A n \in (evicted + 1)..logged : Coming(c, n)

FeedInv == FeedType /\ GenBound /\ OneSteal /\ CacheTrusted /\ AllComing

\* The generation only grows, a steal is finished before the next begins, and the
\* thread takes over no connection but the one in the slot.
LEMMA CacheNext ==
  ASSUME FeedType, GenBound, OneSteal, CacheTrusted, [Next]_vars
  PROVE  GenBound' /\ OneSteal' /\ CacheTrusted'
  <1> USE ConnsAssumption
      DEF FeedType, TypeOK, GenBound, OneSteal, CacheTrusted, RegistryFree,
          readerVars, sessVars, slotVars, taskVars, chanVars, clientVars
  <1> DEFINE Good == GenBound' /\ OneSteal' /\ CacheTrusted'
  <1>1. CASE ReadChunk \/ PushLog BY <1>1 DEF ReadChunk, PushLog
  <1>2. CASE LoadGeneration BY <1>2 DEF LoadGeneration
  <1>3. CASE LoadActive BY <1>3 DEF LoadActive
  <1>4. CASE SendDelta BY <1>4 DEF SendDelta
  <1>5. ASSUME NEW c \in Conns, Swap(c) PROVE Good
    BY <1>5 DEF Swap
  <1>6. ASSUME NEW c \in Conns, Bump(c) PROVE Good
    <2>1. active = c /\ active' = c /\ active_generation' = active_generation + 1
          /\ UNCHANGED <<reader, cached, cached_gen>>
      BY <1>6 DEF Bump
    <2>2. \A d \in Conns : pc'[d] # "swapped" BY <1>6 DEF Bump
    <2> QED BY <2>1, <2>2
  <1>7. ASSUME NEW c \in Conns,
               CancelOld(c) \/ DumpLog(c) \/ DumpScreen(c) \/ SendDump(c) \/ Attach(c)
        PROVE  Good
    <2>1. UNCHANGED <<reader, cached, cached_gen, active, active_generation>>
      BY <1>7 DEF CancelOld, DumpLog, DumpScreen, SendDump, Attach
    <2>2. \A d \in Conns : pc'[d] = "swapped" <=> pc[d] = "swapped"
      BY <1>7 DEF CancelOld, DumpLog, DumpScreen, SendDump, Attach
    <2> QED BY <2>1, <2>2
  <1>8. ASSUME NEW c \in Conns, Cleanup(c) PROVE Good
    BY <1>8 DEF Cleanup
  <1>9. ASSUME NEW c \in Conns, WriterStops(c) \/ Adopt(c) \/ Deliver(c) \/ ClientQuits(c)
        PROVE  Good
    BY <1>9 DEF WriterStops, Adopt, Deliver, ClientQuits
  <1>10. CASE UNCHANGED vars BY <1>10 DEF vars
  <1> QED
    BY <1>1, <1>2, <1>3, <1>4, <1>5, <1>6, <1>7, <1>8, <1>9, <1>10
    DEF Next, ReaderStep, TaskStep, Finished

\* What stays in the queue of c still covers what it covered.
LEMMA CoverStays ==
  ASSUME FeedType, NEW c \in Conns, NEW n, \E k \in DOMAIN out[c] : Covers(out[c][k], n),
         \/ out'[c] = out[c]
         \/ \E f \in Frame : out'[c] = Append(out[c], f)
  PROVE  \E k \in DOMAIN out'[c] : Covers(out'[c][k], n)
  <1>1. out[c] \in Seq(Frame) BY DEF FeedType, TypeOK
  <1>2. PICK k \in DOMAIN out[c] : Covers(out[c][k], n) OBVIOUS
  <1>3. k \in DOMAIN out'[c] /\ out'[c][k] = out[c][k] BY <1>1, AppendKeeps
  <1> QED BY <1>2, <1>3

\* A frame sent to c, whose queue is open, covers there what it covers.
LEMMA SentCovers ==
  ASSUME FeedType, NEW c \in Conns, NEW f \in Frame, open[c], out' = Sent(c, f), NEW n,
         Covers(f, n)
  PROVE  \E k \in DOMAIN out'[c] : Covers(out'[c][k], n)
  <1>1. out[c] \in Seq(Frame) BY DEF FeedType, TypeOK
  <1>2. out'[c] = Append(out[c], f) BY SentAppends DEF FeedType, TypeOK
  <1>3. Len(out[c]) + 1 \in DOMAIN out'[c] /\ out'[c][Len(out[c]) + 1] = f
    BY <1>1, <1>2, AppendKeeps
  <1> QED BY <1>3

\* A chunk the log holds now, other than the last, it held before.
LEMMA LoggedBefore ==
  ASSUME NEW e \in Nat, NEW l \in Nat, NEW from \in Nat, from >= e, NEW to, to = l + 1,
         NEW n \in (from + 1)..to, n # to
  PROVE  n \in (e + 1)..l
  OBVIOUS

\* The steps of the reader thread lose nothing on the way to the client in the slot:
\* a chunk is logged before the generation is loaded.
LEMMA ReaderComing ==
  ASSUME FeedInv, NEW c \in Conns, Fed(c), ReadChunk \/ ReaderStep,
         NEW from \in Nat, from = evicted', NEW to \in Nat, to = logged',
         NEW n \in (from + 1)..to
  PROVE  Coming(c, n)'
  <1> USE DEF FeedInv, readerVars, sessVars, slotVars, taskVars, chanVars, clientVars
  <1>n. parsed \in Nat /\ logged \in Nat /\ evicted \in Nat
    BY ChunksCounted
  <1>0. n \in (evicted + 1)..logged => Coming(c, n)
    BY DEF AllComing
  <1>c. c # NoConn /\ active = c /\ open[c]
    BY ConnsAssumption DEF Fed
  <1>00. UNCHANGED <<taskVars, clientVars>>
    BY DEF ReadChunk, ReaderStep, PushLog, LoadGeneration, LoadActive, SendDelta
  <1>1. CASE ReadChunk
    BY <1>0, <1>00, <1>1 DEF ReadChunk, Coming, InHand
  <1>2. CASE PushLog
    <2>1. reader = "parsed" /\ reader' = "logged" /\ parsed = logged + 1 /\ logged' = parsed
          /\ parsed' = parsed /\ out' = out
      BY <1>2 DEF PushLog, FeedType, OneChunk
    <2>2. from >= evicted /\ to = parsed
      <3>1. evicted' = evicted \/ (parsed - evicted > LogCap /\ evicted' = parsed - LogCap)
        BY <1>2, <2>1 DEF PushLog
      <3> QED BY <1>n, <2>1, <3>1, BoundsAssumption
    <2>3. CASE n = parsed BY <2>1, <2>3 DEF Coming, InHand
    <2>4. CASE n # parsed
      <3>0. parsed = logged + 1 BY <2>1
      <3>1. n \in (evicted + 1)..logged BY <1>n, <2>2, <2>4, <3>0, LoggedBefore
      <3>2. ~InHand(c, n) BY <2>1 DEF InHand
      <3>3. Coming(c, n) BY <1>0, <3>1
      <3>4. CASE n \in shown[c] BY <1>00, <3>4 DEF Coming
      <3>5. CASE \E k \in DOMAIN out[c] : Covers(out[c][k], n)
        BY <2>1, <3>5 DEF Coming
      <3>6. CASE pc[c] = "sending" /\ Covers(dump[c], n) BY <1>00, <3>6 DEF Coming
      <3> QED BY <3>2, <3>3, <3>4, <3>5, <3>6 DEF Coming
    <2> QED BY <2>3, <2>4
  <1>3. CASE LoadGeneration
    <2>1. UNCHANGED <<parsed, logged, evicted, out, active>> /\ reader = "logged"
          /\ cached' = cached
      BY <1>3 DEF LoadGeneration
    <2>2. Coming(c, n) BY <1>0, <2>1
    <2>3. InHand(c, n) => InHand(c, n)'
      <3>1. reader' = "load" \/ (reader' = "send" /\ cached # NoConn /\ cached_gen = active_generation)
        BY <1>3 DEF LoadGeneration
      <3>2. reader' = "send" => cached' = c
        BY <2>1, <3>1, <1>c DEF CacheTrusted, Fed
      <3> QED BY <2>1, <3>1, <3>2 DEF InHand
    <2> QED BY <1>00, <2>1, <2>2, <2>3 DEF Coming
  <1>4. CASE LoadActive
    <2>1. UNCHANGED <<parsed, logged, evicted, out, active>> /\ reader = "load"
          /\ cached' = c /\ reader' = "send"
      BY <1>c, <1>4 DEF LoadActive, Fed
    <2>2. Coming(c, n) BY <1>0, <2>1
    <2> QED BY <1>00, <2>1, <2>2 DEF Coming, InHand
  <1>5. CASE SendDelta
    <2>1. UNCHANGED <<parsed, logged, evicted, active>> /\ reader = "send"
          /\ cached \in Conns /\ out' = Sent(cached, Delta(parsed))
      BY <1>5 DEF SendDelta, FeedType, TypeOK
    <2>2. Delta(parsed) \in Frame /\ Covers(Delta(parsed), parsed)
      BY DEF Delta, Frame, Covers, FeedType, TypeOK
    <2>3. Coming(c, n) BY <1>0, <2>1
    <2>4. InHand(c, n) => \E k \in DOMAIN out'[c] : Covers(out'[c][k], n)
      <3> SUFFICES ASSUME n = parsed, cached = c
                   PROVE  \E k \in DOMAIN out'[c] : Covers(out'[c][k], n)
        BY <2>1 DEF InHand
      <3>1. out' = Sent(c, Delta(parsed)) /\ Covers(Delta(parsed), n) /\ open[c]
        BY <2>1, <2>2 DEF Fed
      <3> QED BY <2>2, <3>1, SentCovers
    <2>5. out'[c] = out[c] \/ \E f \in Frame : out'[c] = Append(out[c], f)
      BY <2>1, <2>2, SentAppends DEF FeedType, TypeOK
    <2>6. (\E k \in DOMAIN out[c] : Covers(out[c][k], n))
            => \E k \in DOMAIN out'[c] : Covers(out'[c][k], n)
      BY <2>5, CoverStays
    <2> QED BY <1>00, <2>3, <2>4, <2>6 DEF Coming
  <1> QED BY <1>1, <1>2, <1>3, <1>4, <1>5 DEF ReaderStep

\* What comes to c comes still when nothing of c is touched.
LEMMA ComingStays ==
  ASSUME NEW c \in Conns, NEW n, Coming(c, n), UNCHANGED <<reader, cached, parsed>>,
         shown'[c] = shown[c], out'[c] = out[c], pc'[c] = pc[c], dump'[c] = dump[c]
  PROVE  Coming(c, n)'
  BY DEF Coming, InHand

\* The steps of the connections and the clients: the one that completes the feed of c
\* is the dump, which holds all that is in the log; the swap, the adoption and the
\* request for a dump leave it incomplete, and the others take nothing from it.
LEMMA TaskComing ==
  ASSUME FeedInv, NEW d \in Conns,
         \/ Swap(d) \/ TaskStep(d) \/ WriterStops(d) \/ Adopt(d) \/ Deliver(d) \/ ClientQuits(d),
         NEW c \in Conns, Fed(c)', NEW n \in (evicted + 1)..logged
  PROVE  Coming(c, n)'
  <1> USE DEF FeedInv, readerVars, sessVars, slotVars, taskVars, chanVars, clientVars
  <1>0. UNCHANGED <<reader, cached, parsed>>
    BY DEF Swap, TaskStep, Bump, CancelOld, DumpLog, DumpScreen, SendDump, Attach, Cleanup,
           WriterStops, Adopt, Deliver, ClientQuits
  <1>1. c # NoConn /\ out[c] \in Seq(Frame) /\ dump[c] \in Frame
    BY ConnsAssumption DEF FeedType, TypeOK
  <1>2. Fed(c) => Coming(c, n) BY DEF AllComing
  <1>3. CASE d # c
    <2>1. active = c
      BY <1>1, <1>3
      DEF Fed, Swap, TaskStep, Bump, CancelOld, DumpLog, DumpScreen, SendDump, Attach, Cleanup,
          WriterStops, Adopt, Deliver, ClientQuits
    <2>2. /\ pc'[c] = pc[c] /\ dump'[c] = dump[c] /\ open'[c] = open[c]
          /\ client'[c] = client[c] /\ adopted'[c] = adopted[c] /\ wants'[c] = wants[c]
          /\ shown'[c] = shown[c]
      BY <1>3
      DEF FeedType, TypeOK, Swap, TaskStep, Bump, CancelOld, DumpLog, DumpScreen, SendDump,
          Attach, Cleanup, WriterStops, Adopt, Deliver, ClientQuits, Process
    <2>3. out'[c] = out[c]
      <3>1. CASE SendDump(d)
        <4>1. dump[d] \in Frame /\ out' = Sent(d, dump[d])
          BY <3>1 DEF SendDump, FeedType, TypeOK
        <4> QED BY <1>3, <4>1, SentAppends DEF FeedType, TypeOK
      <3>2. CASE ~SendDump(d)
        BY <1>3, <3>2
        DEF FeedType, TypeOK, Swap, TaskStep, Bump, CancelOld, DumpLog, DumpScreen, Attach,
            Cleanup, WriterStops, Adopt, Deliver, ClientQuits
      <3> QED BY <3>1, <3>2
    <2>4. Fed(c) BY <2>1, <2>2 DEF Fed
    <2> QED BY <1>0, <1>2, <2>2, <2>3, <2>4, ComingStays
  <1>4. CASE d = c
    <2>1. CASE Swap(c) \/ Bump(c) \/ CancelOld(c) \/ Attach(c) \/ Cleanup(c)
      <3>1. pc'[c] \notin {"sending", "loop"}
        BY <2>1 DEF FeedType, TypeOK, Swap, Bump, CancelOld, Attach, Cleanup
      <3> QED BY <3>1 DEF Fed
    <2>2. CASE WriterStops(c) \/ Adopt(c) \/ ClientQuits(c)
      <3>1. ~open'[c] \/ wants'[c] \/ client'[c] # "up"
        BY <2>2 DEF FeedType, TypeOK, WriterStops, Adopt, ClientQuits
      <3> QED BY <3>1 DEF Fed
    <2>3. CASE DumpLog(c)
      <3>1. pc' = [pc EXCEPT ![c] = "screen"]
            \/ /\ pc' = [pc EXCEPT ![c] = "sending"]
               /\ dump' = [dump EXCEPT ![c] = [t |-> "log", lo |-> evicted + 1, hi |-> logged]]
        BY <2>3 DEF DumpLog
      <3>2. pc'[c] # "screen" BY DEF Fed
      <3>3. pc'[c] = "sending" /\ dump'[c].lo = evicted + 1 /\ dump'[c].hi = logged
        BY <3>1, <3>2 DEF FeedType, TypeOK
      <3>4. evicted + 1 <= n /\ n <= logged BY ChunksCounted
      <3>5. Covers(dump[c], n)'
        BY <3>3, <3>4 DEF Covers
      <3> QED BY <3>3, <3>5 DEF Coming
    <2>4. CASE DumpScreen(c)
      <3>1. pc'[c] = "sending" /\ dump'[c].lo = 1 /\ dump'[c].hi = parsed
        BY <2>4 DEF DumpScreen, FeedType, TypeOK
      <3>2. 1 <= n /\ n <= parsed
        BY ChunksCounted DEF FeedType, OneChunk
      <3>3. Covers(dump[c], n)'
        BY <3>1, <3>2 DEF Covers
      <3> QED BY <3>1, <3>3 DEF Coming
    <2>5. CASE SendDump(c)
      <3>1. /\ out' = Sent(c, dump[c]) /\ pc[c] = "sending"
            /\ UNCHANGED <<active, open, client, adopted, wants, shown>>
        BY <2>5 DEF SendDump
      <3>2. Fed(c) /\ open[c] BY <3>1 DEF Fed
      <3>3. Coming(c, n) BY <1>2, <3>2
      <3>4. CASE n \in shown[c] \/ InHand(c, n)
        BY <1>0, <3>1, <3>4 DEF Coming, InHand
      <3>5. CASE \E k \in DOMAIN out[c] : Covers(out[c][k], n)
        <4>1. out'[c] = Append(out[c], dump[c])
          BY <1>1, <3>1, <3>2, SentAppends DEF FeedType, TypeOK
        <4>2. \E k \in DOMAIN out'[c] : Covers(out'[c][k], n)
          BY <1>1, <3>5, <4>1, CoverStays
        <4> QED BY <4>2 DEF Coming
      <3>6. CASE Covers(dump[c], n)
        <4>1. \E k \in DOMAIN out'[c] : Covers(out'[c][k], n)
          BY <1>1, <3>1, <3>2, <3>6, SentCovers
        <4> QED BY <4>1 DEF Coming
      <3> QED BY <3>3, <3>4, <3>5, <3>6 DEF Coming
    <2>6. CASE Deliver(c)
      <3>1. /\ out[c] # <<>> /\ out'[c] = Tail(out[c])
            /\ UNCHANGED <<active, open, client, adopted, wants, pc, dump>>
        BY <2>6 DEF Deliver, FeedType, TypeOK
      <3>2. Fed(c) /\ adopted[c] BY <3>1 DEF Fed
      <3>3. Coming(c, n) BY <1>2, <3>2
      <3>4. shown'[c] = shown[c] \cup (Head(out[c]).lo)..(Head(out[c]).hi)
        BY <2>6, <3>2 DEF Deliver, Process, FeedType, TypeOK
      <3>5. CASE n \in shown[c] \/ InHand(c, n) \/ (pc[c] = "sending" /\ Covers(dump[c], n))
        BY <1>0, <3>1, <3>4, <3>5 DEF Coming, InHand
      <3>6. CASE \E k \in DOMAIN out[c] : Covers(out[c][k], n)
        <4>1. PICK k \in DOMAIN out[c] : Covers(out[c][k], n) BY <3>6
        <4>2. CASE k = 1
          <5>1. Head(out[c]) \in Frame /\ Covers(Head(out[c]), n)
            BY <1>1, <3>1, <4>1, <4>2, TailMoves
          <5>2. n \in (Head(out[c]).lo)..(Head(out[c]).hi)
            BY <5>1, ChunksCounted DEF Covers, Frame
          <5> QED BY <3>4, <5>2 DEF Coming
        <4>3. CASE k # 1
          <5>1. k - 1 \in DOMAIN out'[c] /\ out'[c][k - 1] = out[c][k]
            BY <1>1, <3>1, <4>3, TailMoves
          <5>2. \E j \in DOMAIN out'[c] : Covers(out'[c][j], n)
            BY <4>1, <5>1
          <5> QED BY <5>2 DEF Coming
        <4> QED BY <4>2, <4>3
      <3> QED BY <3>3, <3>5, <3>6 DEF Coming
    <2> QED BY <1>4, <2>1, <2>2, <2>3, <2>4, <2>5, <2>6 DEF TaskStep
  <1> QED BY <1>3, <1>4

\* No step takes a chunk from the client in the slot.
LEMMA AllComingNext ==
  ASSUME FeedInv, [Next]_vars, FeedType'
  PROVE  AllComing'
  <1> USE DEF FeedInv, readerVars, sessVars, slotVars, taskVars, chanVars, clientVars
  <1>1. CASE ReadChunk \/ ReaderStep
    <2> SUFFICES ASSUME NEW c \in Conns, Fed(c)'
                 PROVE  (\A n \in (evicted + 1)..logged : Coming(c, n))'
      BY DEF AllComing
    <2>1. Fed(c)
      BY <1>1
      DEF Fed, ReadChunk, ReaderStep, PushLog, LoadGeneration, LoadActive, SendDelta
    <2>2. evicted' \in Nat /\ logged' \in Nat
      <3>1. (FeedType => parsed \in Nat /\ logged \in Nat /\ evicted \in Nat)'
        BY ChunksCounted, PTL
      <3> QED BY <3>1
    <2>3. PICK from \in Nat : from = evicted' BY <2>2
    <2>4. PICK to \in Nat : to = logged' BY <2>2
    <2>5. \A n \in (from + 1)..to : Coming(c, n)'
      BY <1>1, <2>1, <2>3, <2>4, ReaderComing
    <2> QED BY <2>3, <2>4, <2>5
  <1>2. ASSUME NEW d \in Conns,
               \/ Swap(d) \/ TaskStep(d) \/ WriterStops(d) \/ Adopt(d) \/ Deliver(d)
               \/ ClientQuits(d)
        PROVE  AllComing'
    <2>1. UNCHANGED <<evicted, logged>>
      BY <1>2
      DEF Swap, TaskStep, Bump, CancelOld, DumpLog, DumpScreen, SendDump, Attach, Cleanup,
          WriterStops, Adopt, Deliver, ClientQuits
    <2>2. \A c \in Conns : Fed(c)' => \A n \in (evicted + 1)..logged : Coming(c, n)'
      BY <1>2, TaskComing
    <2> QED BY <2>1, <2>2 DEF AllComing
  <1>3. CASE UNCHANGED vars
    <2>1. /\ UNCHANGED <<evicted, logged, reader, cached, parsed, active, open, client,
                         adopted, wants, pc, shown, out, dump>>
      BY <1>3 DEF vars
    <2> QED BY <2>1 DEF AllComing, Fed, Coming, InHand
  <1> QED BY <1>1, <1>2, <1>3 DEF Next, Finished

\* The invariant holds in every reachable state.
LEMMA FeedInvAlways == Spec => []FeedInv
  <1>1. Init => FeedInv
    <2>1. Init => GenBound /\ OneSteal /\ CacheTrusted
      BY DEF Init, GenBound, OneSteal, CacheTrusted
    <2>2. Init => AllComing BY DEF Init, AllComing, Fed
    <2>3. Init => FeedType BY InitFeedType
    <2> QED BY <2>1, <2>2, <2>3 DEF FeedInv
  <1>2. FeedInv /\ [Next]_vars => FeedInv'
    BY FeedTypeNext, CacheNext, AllComingNext DEF FeedInv
  <1> QED BY <1>1, <1>2, PTL DEF Spec

\* FeedComplete of OutputFeed: whatever the interleaving of the reader thread with
\* steals, dumps and adoptions, a client in the slot that has its dump misses nothing
\* the log still holds.
THEOREM FeedIsComplete == Spec => []FeedComplete
  <1>1. FeedInv => FeedComplete
    BY DEF FeedInv, AllComing, Fed, FeedComplete, Settled, Coming
  <1> QED BY <1>1, FeedInvAlways, PTL
=============================================================================
