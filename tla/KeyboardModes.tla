----------------------------- MODULE KeyboardModes -----------------------------
(***************************************************************************)
(* The keyboard protocol of the program in a session, as both ends infer it *)
(* from its output: a KbdTracker (input.rs) in the supervisor is fed by the *)
(* PTY reader, one in the client by dumps and deltas, and encode_key sends   *)
(* modified keys as the client's says.  A dump is a prelude with the state   *)
(* of the supervisor's tracker, then the replay log, which is cut at its cap *)
(* (supervisor.rs, push_output_log and build_dump), or the screen.           *)
(*                                                                         *)
(* Output is counted in pieces: "head" is ESC [, a tail is the rest of one   *)
(* sequence, "line" is a newline.  A chunk may end after a head.  Dumps are  *)
(* taken between chunks here; OutputFeed is about those within one.          *)
(***************************************************************************)
EXTENDS Integers, Sequences, FiniteSets, SequencesExt

CONSTANTS
  LogCap,        \* OUTPUT_LOG_CAP, in pieces
  ScanWindow,    \* how far push_output_log looks for a newline
  MaxSequences   \* bound on the sequences and lines of the program

ASSUME LogCapAssumption == LogCap \in Nat

VARIABLES
  kbd,           \* the supervisor's tracker: [stack: kitty_stack, other: modify_other_keys
                 \* is set, scan]
  log,           \* the replay log: [buf, truncated]
  client,        \* the attached client's tracker
  dumps,         \* dumps it has processed
  produced,      \* sequences and lines so far
  level,         \* programs nested since the start of what the last dump replayed
  nested,        \* of them, some were when that dump was taken
  doubtful       \* the client cannot know: see KeyboardAgrees

kbdVars == <<kbd, log, client, dumps, produced, level, nested, doubtful>>

\* A set of flags is a set of bits.
Tails == [op : {"push"}, flags : {{}, {1}}] \cup [op : {"pop"}, flags : {{}}]
         \cup [op : {"set", "add", "clear"}, flags : {{1, 2}}]
         \cup [op : {"other", "legacy"}, flags : {{}}]
Plain(op) == [op |-> op, flags |-> {}]

Fresh == [stack |-> <<>>, other |-> FALSE, scan |-> "Ground"]
Top(t) == IF t.stack = <<>> THEN {} ELSE Last(t.stack)

\* KbdTracker::dispatch; CSI = on an empty stack pushes.
Dispatched(t, tail) ==
  LET Put(flags) == [t EXCEPT !.stack = IF @ = <<>> THEN <<flags>> ELSE Append(Front(@), flags)]
  IN CASE tail.op = "push" -> [t EXCEPT !.stack = Append(@, tail.flags)]
       [] tail.op = "pop" -> [t EXCEPT !.stack = IF @ = <<>> THEN @ ELSE Front(@)]
       [] tail.op = "set" -> Put(tail.flags)
       [] tail.op = "add" -> Put(Top(t) \cup tail.flags)
       [] tail.op = "clear" -> Put(Top(t) \ tail.flags)
       [] OTHER -> [t EXCEPT !.other = tail.op = "other"]

\* feed and csi_byte: an ESC within a sequence ends it and begins none.
FeedPiece(t, piece) ==
  IF t.scan = "Ground" THEN [t EXCEPT !.scan = IF piece.op = "head" THEN "Csi" ELSE "Ground"]
  ELSE [(IF piece.op \in {"head", "line", "mode"} THEN t ELSE Dispatched(t, piece))
          EXCEPT !.scan = "Ground"]
Feed(t, pieces) == FoldLeft(FeedPiece, t, pieces)

\* KbdTracker::encoding
Encoding(t) ==
  IF Top(t) # {} THEN <<"Kitty", Top(t)>>
  ELSE <<IF t.other THEN "ModifyOtherKeys" ELSE "Legacy", {}>>

\* (Faulty.)  Without modifyOtherKeys.
PreludeKittyOnly(t) ==
  IF Top(t) # {} THEN <<Plain("head"), [op |-> "push", flags |-> Top(t)]>> ELSE <<>>

\* KbdTracker::prelude: the top of the stack, not what is under it.
Prelude(t) ==
  (IF Top(t) # {} THEN <<Plain("head"), [op |-> "push", flags |-> Top(t)]>> ELSE <<>>)
  \o (IF t.other THEN <<Plain("head"), Plain("other")>> ELSE <<>>)

\* push_output_log: cut at the cap, then at the next line.
Logged(chunk) ==
  LET all == log.buf \o chunk
      cut == IF Len(all) <= LogCap THEN all ELSE SubSeq(all, Len(all) - LogCap + 1, Len(all))
      lines == {i \in DOMAIN cut : i <= ScanWindow /\ cut[i].op = "line"}
      first == CHOOSE i \in lines : \A j \in lines : i <= j
  IN IF Len(all) <= LogCap THEN [log EXCEPT !.buf = all]
     ELSE IF lines = {} THEN [buf |-> cut, truncated |-> TRUE]
     ELSE [log EXCEPT !.buf = SubSeq(cut, first + 1, Len(cut))]

KbdInit ==
  /\ kbd = Fresh /\ client = Fresh
  /\ log = [buf |-> <<>>, truncated |-> FALSE]
  /\ dumps = 0 /\ produced = 0
  /\ level = 0 /\ nested = FALSE /\ doubtful = FALSE

---------------------------------------------------------------------------
\* The reader thread: tracker, log, delta; a piece that ends a sequence may have
\* popped what the client does not know, or uncovered it.
Output(chunk) ==
  LET step == CASE Last(chunk).op = "push" -> 1 [] Last(chunk).op = "pop" -> -1 [] OTHER -> 0
  IN /\ kbd' = Feed(kbd, chunk)
     /\ log' = Logged(chunk)
     /\ client' = IF dumps = 0 THEN client ELSE Feed(client, chunk)
     /\ level' = level + step
     /\ doubtful' = (doubtful \/ (step = -1 /\ (level' < 0 \/ (nested /\ level' = 0))))
     /\ UNCHANGED <<dumps, nested>>

\* A program writes a sequence, in one chunk or in two, or a line.
Write ==
  \/ /\ kbd.scan = "Ground" /\ produced < MaxSequences
     /\ produced' = produced + 1
     /\ \/ Output(<<Plain("head")>>)
        \/ Output(<<Plain("line")>>)
        \/ \E tail \in Tails : Output(<<Plain("head"), tail>>)
  \/ /\ kbd.scan = "Csi"
     /\ UNCHANGED produced
     /\ \E tail \in Tails : Output(<<tail>>)

\* Levels over the replayed log: <<at its end, lowest>>.
Levels(pieces) ==
  LET Count(op, i) == Cardinality({j \in 1 .. i : pieces[j].op = op})
      At(i) == Count("push", i) - Count("pop", i)
  IN [end |-> At(Len(pieces)), below |-> \E i \in DOMAIN pieces : At(i) < 0]

\* build_dump, fed to a tracker; the modes of the screen come first, if any is set.
Dumped(t) ==
  LET screen == log.buf = <<>> \/ log.truncated
      replayed == IF screen THEN <<>> ELSE log.buf
      levels == Levels(replayed)
  IN /\ \E modes \in {<<>>, <<Plain("head"), Plain("mode")>>} :
          client' = Feed(t, modes \o Prelude(kbd) \o replayed)
     /\ level' = levels.end
     /\ nested' = (levels.end > 0)
     /\ doubtful' = ((dumps' > 1 /\ doubtful) \/ levels.below
                    \/ (kbd.scan = "Csi" /\ (screen \/ dumps' > 1)))
     /\ UNCHANGED <<kbd, log, produced>>

\* A client attaches, and adopts the session: the dump of the handshake, if it
\* is not dropped, and the one it asks for then.
Attach == dumps' = 1 /\ Dumped(Fresh)
Adopt == dumps = 1 /\ dumps' = 2 /\ Dumped(client)

KbdNext == Write \/ Attach \/ Adopt

KbdSpec == KbdInit /\ [][KbdNext]_kbdVars

---------------------------------------------------------------------------
\* The client encodes modified keys as the program expects, whatever it was
\* attached late for, the log has lost, or a chunk has split: the prelude brings
\* "a reattaching client's own KbdTracker ... on the same state" (input.rs,
\* prelude).  It does not when a program pops more than was pushed since the
\* start of the log, or the first of what was pushed in the log a dump replayed
\* (the prelude holds the top of the stack only, and is pushed under the log's),
\* or when a dump falls within a sequence, and is of the screen or not the first.
KeyboardAgrees == dumps > 0 /\ ~doubtful => Encoding(client) = Encoding(kbd)
=============================================================================
