---------------------------- MODULE KeyboardProofs ----------------------------
(***************************************************************************)
(* Theorem of KeyboardModes, for every capacity of the log and any output.  *)
(* Feed is a fold over any number of pieces.  That it goes piece by piece,  *)
(* and what holds after each, is shown with AllNumbers: by the least number *)
(* for which it would not hold.                                             *)
(*                                                                          *)
(* The inductive invariant says where the supervisor's tracker comes from:  *)
(* some tracker between sequences, fed the log.  So a client that is fed the*)
(* log is fed what the supervisor's was, and two trackers fed the same      *)
(* differ only in what neither has changed since.                           *)
(***************************************************************************)
EXTENDS KeyboardModes, FiniteSetTheorems, SequenceTheorems, WellFoundedInduction,
        NaturalsInduction, TLAPS

---------------------------------------------------------------------------
(* Folds. *)

\* The minimum of a set of numbers is one of them.
LEMMA LeastOf ==
  ASSUME NEW S \in SUBSET Nat, S # {}
  PROVE  \E x \in S : \A y \in S : x <= y
  <1> DEFINE R == OpToRel(<, Nat)
  <1>1. IsWellFoundedOn(R, Nat) BY NatLessThanWellFounded
  <1> HIDE DEF R
  <1>2. PICK x \in S : \A y \in S : ~(<<y, x>> \in R) BY <1>1, WFMin
  <1>3. \A y \in S : ~(y < x) BY <1>2 DEF R, OpToRel
  <1> QED BY <1>3

\* So a set that has 0, and with each number the next, has them all.
LEMMA AllNumbers ==
  ASSUME NEW G, 0 \in G, \A n \in Nat : n \in G => n + 1 \in G
  PROVE  Nat \subseteq G
  <1> SUFFICES ASSUME Nat \ G # {} PROVE FALSE OBVIOUS
  <1>1. PICK x \in Nat \ G : \A y \in Nat \ G : x <= y BY LeastOf
  <1>2. x # 0 OBVIOUS
  <1>3. x - 1 \in Nat BY <1>2
  <1>4. x - 1 \in G BY <1>1, <1>3
  <1>5. (x - 1) + 1 \in G BY <1>3, <1>4
  <1> QED BY <1>5

\* What is tracked, and the pieces: tails with any flags, as a prelude pushes any.
Trackers == [stack : Seq(SUBSET {1, 2}), other : BOOLEAN, scan : {"Ground", "Csi"}]
TailPieces == [op : {"push", "pop", "set", "add", "clear", "other", "legacy"},
               flags : SUBSET {1, 2}]
Pieces == TailPieces \cup {Plain("head"), Plain("line"), Plain("mode")}

\* The fold of the first n pieces, as the community modules define it.
Folded(t, ps, n, g) ==
  [s \in SUBSET (1 .. n) |->
     IF s = {} THEN t ELSE FeedPiece(g[s \ {Max(s)}], ps[Max(s)])]
Folding(t, ps, n) == CHOOSE g : g = Folded(t, ps, n, g)

\* The largest of the numbers up to n is n, if it is there.
LEMMA MaxIs ==
  ASSUME NEW n \in Nat, NEW s \in SUBSET (1 .. n), n \in s
  PROVE  Max(s) = n
  <1>1. \A y \in s : n >= y OBVIOUS
  <1>2. \A x \in s : (\A y \in s : x >= y) => x = n
    <2> SUFFICES ASSUME NEW x \in s, \A y \in s : x >= y PROVE x = n OBVIOUS
    <2>1. x >= n /\ x \in 1 .. n OBVIOUS
    <2> QED BY <2>1
  <1> QED BY <1>1, <1>2 DEF Max

\* A set of numbers has its largest, which is one of those up to n.
LEMMA MaxIn ==
  ASSUME NEW n \in Nat, NEW s \in SUBSET (1 .. n), s # {}
  PROVE  Max(s) \in s
  <1> DEFINE S == {n - y : y \in s}
  <1>1. S \in SUBSET Nat /\ S # {}
    <2>1. \A y \in s : n - y \in Nat OBVIOUS
    <2> QED BY <2>1
  <1>2. PICK d \in S : \A e \in S : d <= e
    <2> HIDE DEF S
    <2> QED BY <1>1, LeastOf
  <1>3. PICK x \in s : d = n - x OBVIOUS
  <1>4. \A y \in s : x >= y
    <2> SUFFICES ASSUME NEW y \in s PROVE x >= y OBVIOUS
    <2>1. n - x <= n - y BY <1>2, <1>3
    <2>2. x \in 1 .. n /\ y \in 1 .. n OBVIOUS
    <2> QED BY <2>1, <2>2
  <1> QED BY <1>4 DEF Max

\* There is such a fold.
LEMMA FoldingExists ==
  ASSUME NEW t, NEW ps, NEW n \in Nat
  PROVE  \E g : g = Folded(t, ps, n, g)
  <1> DEFINE G == {m \in Nat : \E g : g = Folded(t, ps, m, g)}
  <1>1. 0 \in G
    <2> DEFINE g == [s \in {{}} |-> t]
    <2>1. 1 .. 0 = {} OBVIOUS
    <2>2. SUBSET {} = {{}} OBVIOUS
    <2>3. g = Folded(t, ps, 0, g) BY <2>1, <2>2 DEF Folded
    <2> HIDE DEF g
    <2> QED BY <2>3
  <1>2. ASSUME NEW m \in Nat, m \in G PROVE m + 1 \in G
    <2>1. PICK g : g = Folded(t, ps, m, g) BY <1>2
    <2> DEFINE I == 1 .. m
               J == 1 .. (m + 1)
               h == [s \in SUBSET J |-> IF m + 1 \in s THEN FeedPiece(g[s \ {m + 1}], ps[m + 1])
                                        ELSE g[s]]
    <2>2. J = I \cup {m + 1} /\ m + 1 \notin I OBVIOUS
    <2>3. ASSUME NEW s \in SUBSET J
          PROVE  h[s] = IF s = {} THEN t ELSE FeedPiece(h[s \ {Max(s)}], ps[Max(s)])
      <3>1. CASE s = {}
        <4>1. h[s] = g[s] /\ s \in SUBSET I BY <3>1
        <4>2. g[s] = t BY <2>1, <3>1, <4>1 DEF Folded
        <4> QED BY <3>1, <4>1, <4>2
      <3>2. CASE m + 1 \in s
        <4>1. Max(s) = m + 1 BY <3>2, MaxIs
        <4>2. h[s] = FeedPiece(g[s \ {m + 1}], ps[m + 1]) BY <3>2
        <4>3. s \ {m + 1} \in SUBSET J /\ m + 1 \notin s \ {m + 1} OBVIOUS
        <4>4. h[s \ {m + 1}] = g[s \ {m + 1}] BY <4>3
        <4> HIDE DEF h
        <4> QED BY <3>2, <4>1, <4>2, <4>4
      <3>3. CASE s # {} /\ m + 1 \notin s
        <4>1. s \in SUBSET I BY <2>2, <3>3
        <4>2. Max(s) \in s BY <3>3, MaxIn
        <4>3. s \ {Max(s)} \in SUBSET J /\ m + 1 \notin s \ {Max(s)} BY <3>3
        <4>4. h[s \ {Max(s)}] = g[s \ {Max(s)}] BY <4>3
        <4>5. h[s] = g[s] BY <3>3
        <4>6. g[s] = FeedPiece(g[s \ {Max(s)}], ps[Max(s)]) BY <2>1, <3>3, <4>1 DEF Folded
        <4> HIDE DEF h
        <4> QED BY <3>3, <4>4, <4>5, <4>6
      <3> QED BY <3>1, <3>2, <3>3
    <2>4. h = Folded(t, ps, m + 1, h)
      <3>1. h = [s \in SUBSET J |-> h[s]] OBVIOUS
      <3> HIDE DEF h
      <3> QED BY <2>3, <3>1 DEF Folded
    <2>5. m + 1 \in Nat OBVIOUS
    <2> HIDE DEF h
    <2> QED BY <2>4, <2>5
  <1>3. Nat \subseteq G
    <2> HIDE DEF G
    <2> QED BY <1>1, <1>2, AllNumbers
  <1> QED BY <1>3

\* What it has for the first k pieces.
LEMMA FoldingSteps ==
  ASSUME NEW t, NEW ps, NEW n \in Nat, NEW g, g = Folding(t, ps, n)
  PROVE  /\ g[1 .. 0] = t
         /\ \A k \in 1 .. n : g[1 .. k] = FeedPiece(g[1 .. (k - 1)], ps[k])
  <1>1. g = Folded(t, ps, n, g) BY FoldingExists DEF Folding
  <1>2. 1 .. 0 = {} /\ 1 .. 0 \in SUBSET (1 .. n) OBVIOUS
  <1>3. g[1 .. 0] = t BY <1>1, <1>2 DEF Folded
  <1>4. ASSUME NEW k \in 1 .. n PROVE g[1 .. k] = FeedPiece(g[1 .. (k - 1)], ps[k])
    <2>1. 1 .. k \in SUBSET (1 .. n) /\ k \in 1 .. k /\ k \in Nat OBVIOUS
    <2>2. Max(1 .. k) = k BY <2>1, MaxIs
    <2>3. (1 .. k) \ {k} = 1 .. (k - 1) OBVIOUS
    <2>4. g[1 .. k] = FeedPiece(g[(1 .. k) \ {Max(1 .. k)}], ps[Max(1 .. k)])
      BY <1>1, <2>1 DEF Folded
    <2> QED BY <2>2, <2>3, <2>4
  <1> QED BY <1>3, <1>4

\* Feed is that fold.
LEMMA FeedFolds ==
  ASSUME NEW t, NEW ps, NEW n \in Nat, DOMAIN ps = 1 .. n
  PROVE  Feed(t, ps) = Folding(t, ps, n)[1 .. n]
  BY DEF Feed, FoldLeft, MapThenFoldSet, Folding, Folded

\* It depends on the pieces only.
LEMMA FoldingSame ==
  ASSUME NEW t, NEW ps, NEW qs, NEW n \in Nat, NEW m \in Nat, n <= m,
         \A k \in 1 .. n : ps[k] = qs[k]
  PROVE  Folding(t, ps, n)[1 .. n] = Folding(t, qs, m)[1 .. n]
  <1> DEFINE g == Folding(t, ps, n)
             h == Folding(t, qs, m)
             G == {k \in Nat : k <= n => g[1 .. k] = h[1 .. k]}
  <1>1. /\ g[1 .. 0] = t
        /\ \A k \in 1 .. n : g[1 .. k] = FeedPiece(g[1 .. (k - 1)], ps[k])
    <2> HIDE DEF g
    <2> QED BY FoldingSteps DEF g
  <1>2. /\ h[1 .. 0] = t
        /\ \A k \in 1 .. m : h[1 .. k] = FeedPiece(h[1 .. (k - 1)], qs[k])
    <2> HIDE DEF h
    <2> QED BY FoldingSteps DEF h
  <1> HIDE DEF g, h
  <1>3. 0 \in G BY <1>1, <1>2
  <1>4. ASSUME NEW k \in Nat, k \in G PROVE k + 1 \in G
    <2> SUFFICES ASSUME k + 1 <= n PROVE g[1 .. (k + 1)] = h[1 .. (k + 1)] OBVIOUS
    <2>1. g[1 .. k] = h[1 .. k] BY <1>4
    <2>2. k + 1 \in 1 .. n /\ k + 1 \in 1 .. m /\ (k + 1) - 1 = k OBVIOUS
    <2>3. /\ g[1 .. (k + 1)] = FeedPiece(g[1 .. k], ps[k + 1])
          /\ h[1 .. (k + 1)] = FeedPiece(h[1 .. k], qs[k + 1])
      BY <1>1, <1>2, <2>2
    <2> QED BY <2>1, <2>2, <2>3
  <1>5. Nat \subseteq G
    <2> HIDE DEF G
    <2> QED BY <1>3, <1>4, AllNumbers
  <1> QED BY <1>5 DEF g, h

\* Feeding piece by piece.
LEMMA FeedNone ==
  ASSUME NEW t
  PROVE  Feed(t, <<>>) = t
  <1>1. DOMAIN <<>> = 1 .. 0 OBVIOUS
  <1>2. Feed(t, <<>>) = Folding(t, <<>>, 0)[1 .. 0] BY <1>1, FeedFolds
  <1> QED BY <1>2, FoldingSteps

\* It takes one more piece last.
LEMMA FeedAppend ==
  ASSUME NEW t, NEW s \in Seq(Pieces), NEW x \in Pieces
  PROVE  Feed(t, Append(s, x)) = FeedPiece(Feed(t, s), x)
  <1> DEFINE n == Len(s)
             r == Append(s, x)
             g == Folding(t, r, n + 1)
  <1>1. /\ n \in Nat /\ DOMAIN s = 1 .. n /\ DOMAIN r = 1 .. (n + 1) /\ r[n + 1] = x
        /\ \A k \in 1 .. n : s[k] = r[k]
    OBVIOUS
  <1> HIDE DEF n, r
  <1>2. Feed(t, r) = g[1 .. (n + 1)] BY <1>1, FeedFolds
  <1>3. Feed(t, s) = Folding(t, s, n)[1 .. n] BY <1>1, FeedFolds
  <1>4. Folding(t, s, n)[1 .. n] = g[1 .. n] BY <1>1, FoldingSame
  <1>5. n + 1 \in 1 .. (n + 1) /\ (n + 1) - 1 = n BY <1>1
  <1>6. g[1 .. (n + 1)] = FeedPiece(g[1 .. n], r[n + 1])
    <2> HIDE DEF g
    <2>1. \A k \in 1 .. (n + 1) : g[1 .. k] = FeedPiece(g[1 .. (k - 1)], r[k])
      BY <1>1, FoldingSteps DEF g
    <2> QED BY <1>5, <2>1
  <1> QED BY <1>1, <1>2, <1>3, <1>4, <1>6 DEF r

---------------------------------------------------------------------------
(* Runs: the trackers after each piece. *)

\* What a run of a tracker over some pieces is.
Run(tr, ps) == \A i \in 1 .. Len(ps) : tr[i] = FeedPiece(tr[i - 1], ps[i])

\* Feeding pieces gives the end of a run of them from the tracker, and only that.
LEMMA FeedRuns ==
  ASSUME NEW t, NEW ps \in Seq(Pieces)
  PROVE  \E tr : tr[0] = t /\ Run(tr, ps) /\ Feed(t, ps) = tr[Len(ps)]
  <1> DEFINE n == Len(ps)
             g == Folding(t, ps, n)
             tr == [i \in 0 .. n |-> g[1 .. i]]
  <1>1. n \in Nat /\ DOMAIN ps = 1 .. n OBVIOUS
  <1> HIDE DEF n
  <1>2. Feed(t, ps) = g[1 .. n] BY <1>1, FeedFolds
  <1>3. /\ g[1 .. 0] = t
        /\ \A k \in 1 .. n : g[1 .. k] = FeedPiece(g[1 .. (k - 1)], ps[k])
    <2> HIDE DEF g
    <2> QED BY <1>1, FoldingSteps DEF g
  <1> HIDE DEF g
  <1>4. \A i \in 0 .. n : tr[i] = g[1 .. i] OBVIOUS
  <1>5. \A k \in 1 .. n : k \in 0 .. n /\ k - 1 \in 0 .. n BY <1>1
  <1>6. 0 \in 0 .. n /\ n \in 0 .. n BY <1>1
  <1> HIDE DEF tr
  <1>7. tr[0] = t /\ Feed(t, ps) = tr[n] BY <1>2, <1>3, <1>4, <1>6
  <1>8. \A k \in 1 .. n : tr[k] = FeedPiece(tr[k - 1], ps[k]) BY <1>3, <1>4, <1>5
  <1> QED BY <1>7, <1>8 DEF Run, n

\* Two runs from one tracker are the same.
LEMMA RunsSame ==
  ASSUME NEW ps \in Seq(Pieces), NEW tr, NEW tq, Run(tr, ps), Run(tq, ps), tr[0] = tq[0]
  PROVE  \A i \in 0 .. Len(ps) : tr[i] = tq[i]
  <1> DEFINE n == Len(ps)
             G == {k \in Nat : k <= n => tr[k] = tq[k]}
  <1>1. n \in Nat OBVIOUS
  <1>2. 0 \in G OBVIOUS
  <1>3. ASSUME NEW k \in Nat, k \in G PROVE k + 1 \in G
    <2> SUFFICES ASSUME k + 1 <= n PROVE tr[k + 1] = tq[k + 1] OBVIOUS
    <2>1. tr[k] = tq[k] BY <1>1, <1>3
    <2>2. k + 1 \in 1 .. n /\ (k + 1) - 1 = k BY <1>1
    <2> QED BY <2>1, <2>2 DEF Run
  <1>4. Nat \subseteq G
    <2> HIDE DEF G
    <2> QED BY <1>2, <1>3, AllNumbers
  <1> QED BY <1>1, <1>4

\* Feeding two sequences of pieces is feeding one, then the other.
LEMMA FeedConcat ==
  ASSUME NEW t, NEW ps \in Seq(Pieces), NEW qs \in Seq(Pieces)
  PROVE  Feed(t, ps \o qs) = Feed(Feed(t, ps), qs)
  <1> DEFINE all == ps \o qs
             n == Len(ps)
             m == Len(qs)
  <1>1. /\ all \in Seq(Pieces) /\ Len(all) = n + m /\ n \in Nat /\ m \in Nat
        /\ \A i \in 1 .. n : all[i] = ps[i]
        /\ \A i \in 1 .. m : all[n + i] = qs[i]
    OBVIOUS
  <1> HIDE DEF all, n, m
  <1>2. PICK tr : tr[0] = t /\ Run(tr, all) /\ Feed(t, all) = tr[n + m] BY <1>1, FeedRuns
  <1>3. PICK tp : tp[0] = t /\ Run(tp, ps) /\ Feed(t, ps) = tp[n] BY FeedRuns DEF n
  <1>4. PICK tq : tq[0] = Feed(t, ps) /\ Run(tq, qs) /\ Feed(Feed(t, ps), qs) = tq[m]
    BY FeedRuns DEF m
  <1>5. Run(tr, ps)
    <2> SUFFICES ASSUME NEW i \in 1 .. n PROVE tr[i] = FeedPiece(tr[i - 1], ps[i]) BY DEF Run, n
    <2>1. i \in 1 .. Len(all) /\ all[i] = ps[i] BY <1>1
    <2> QED BY <1>2, <2>1 DEF Run
  <1>6. tr[n] = Feed(t, ps)
    <2>1. n \in 0 .. Len(ps) BY <1>1 DEF n
    <2> QED BY <1>2, <1>3, <1>5, <2>1, RunsSame
  <1> DEFINE ts == [i \in 0 .. m |-> tr[n + i]]
  <1>7. Run(ts, qs)
    <2> SUFFICES ASSUME NEW i \in 1 .. m PROVE ts[i] = FeedPiece(ts[i - 1], qs[i]) BY DEF Run, m
    <2>1. n + i \in 1 .. Len(all) /\ all[n + i] = qs[i] /\ (n + i) - 1 = n + (i - 1) BY <1>1
    <2>2. i \in 0 .. m /\ i - 1 \in 0 .. m BY <1>1
    <2>3. ts[i] = tr[n + i] /\ ts[i - 1] = tr[n + (i - 1)] BY <2>2
    <2> HIDE DEF ts
    <2> QED BY <1>2, <2>1, <2>3 DEF Run
  <1>8. ts[0] = Feed(t, ps) /\ ts[m] = tr[n + m]
    <2>1. 0 \in 0 .. m /\ m \in 0 .. m /\ n + 0 = n BY <1>1
    <2> QED BY <1>6, <2>1
  <1> HIDE DEF ts
  <1>9. ts[m] = tq[m]
    <2>1. m \in 0 .. Len(qs) BY <1>1 DEF m
    <2> QED BY <1>4, <1>7, <1>8, <2>1, RunsSame
  <1> QED BY <1>2, <1>4, <1>8, <1>9 DEF all

\* Feeding one piece, or two.
LEMMA FeedOne ==
  ASSUME NEW t, NEW p \in Pieces, NEW q \in Pieces
  PROVE  /\ Feed(t, <<p>>) = FeedPiece(t, p)
         /\ Feed(t, <<p, q>>) = FeedPiece(FeedPiece(t, p), q)
  <1>1. <<>> \in Seq(Pieces) /\ <<p>> \in Seq(Pieces) OBVIOUS
  <1>2. <<p>> = Append(<<>>, p) /\ <<p, q>> = Append(<<p>>, q) OBVIOUS
  <1>3. Feed(t, <<p>>) = FeedPiece(Feed(t, <<>>), p) BY <1>1, <1>2, FeedAppend
  <1>4. Feed(t, <<p, q>>) = FeedPiece(Feed(t, <<p>>), q) BY <1>1, <1>2, FeedAppend
  <1> QED BY <1>3, <1>4, FeedNone

---------------------------------------------------------------------------
(* What one piece does to a tracker. *)

\* The flags i levels under the top of a stack, and what is under the n-th.
Under(t, i) == t.stack[Len(t.stack) - i]
TopAt(t, n) == IF Len(t.stack) = n THEN {} ELSE Under(t, n)

\* What a tail makes of the flags at the top, if it neither pushes nor pops.
Changed(tail, flags) ==
  CASE tail.op = "set" -> tail.flags
    [] tail.op = "add" -> flags \cup tail.flags
    [] tail.op = "clear" -> flags \ tail.flags
    [] OTHER -> flags
Nesting(p) == CASE p.op = "push" -> 1 [] p.op = "pop" -> -1 [] OTHER -> 0

\* The tails are these.
LEMMA TailsAre ==
  ASSUME NEW p \in TailPieces
  PROVE  /\ p.op \in {"push", "pop", "set", "add", "clear", "other", "legacy"}
         /\ p.flags \in SUBSET {1, 2}
         /\ p # Plain("head") /\ p # Plain("line") /\ p # Plain("mode")
  BY DEF TailPieces, Plain

\* Dispatch, field by field.
LEMMA DispatchedIs ==
  ASSUME NEW t \in Trackers, NEW p \in TailPieces
  PROVE  /\ Dispatched(t, p) \in Trackers /\ Dispatched(t, p).scan = t.scan
         /\ Dispatched(t, p).other =
              (IF p.op = "other" THEN TRUE ELSE IF p.op = "legacy" THEN FALSE ELSE t.other)
         /\ p.op = "push" => Dispatched(t, p).stack = Append(t.stack, p.flags)
         /\ p.op = "pop" /\ t.stack = <<>> => Dispatched(t, p).stack = <<>>
         /\ p.op = "pop" /\ t.stack # <<>> => Dispatched(t, p).stack = Front(t.stack)
         /\ p.op \in {"set", "add", "clear"} /\ t.stack = <<>> =>
              Dispatched(t, p).stack = <<Changed(p, {})>>
         /\ p.op \in {"set", "add", "clear"} /\ t.stack # <<>> =>
              Dispatched(t, p).stack = Append(Front(t.stack), Changed(p, Top(t)))
         /\ p.op \in {"other", "legacy"} => Dispatched(t, p).stack = t.stack
  <1> DEFINE d == Dispatched(t, p)
  <1>1. /\ p.op \in {"push", "pop", "set", "add", "clear", "other", "legacy"}
        /\ p.flags \in SUBSET {1, 2}
    BY TailsAre
  <1>2. /\ t.stack \in Seq(SUBSET {1, 2}) /\ t.other \in BOOLEAN /\ t.scan \in {"Ground", "Csi"}
        /\ t = [stack |-> t.stack, other |-> t.other, scan |-> t.scan]
    BY DEF Trackers
  <1>3. t.stack # <<>> => Front(t.stack) \in Seq(SUBSET {1, 2}) /\ Top(t) \in SUBSET {1, 2}
    BY <1>2 DEF Front, Top, Last
  <1>4. Changed(p, {}) \in SUBSET {1, 2} /\ (t.stack # <<>> => Changed(p, Top(t)) \in SUBSET {1, 2})
    BY <1>1, <1>3 DEF Changed
  <1>5. CASE p.op = "push"
    <2>1. d = [t EXCEPT !.stack = Append(@, p.flags)] BY <1>5 DEF Dispatched
    <2> QED BY <1>1, <1>2, <1>5, <2>1 DEF Trackers
  <1>6. CASE p.op = "pop"
    <2>1. d = [t EXCEPT !.stack = IF @ = <<>> THEN @ ELSE Front(@)] BY <1>6 DEF Dispatched
    <2> QED BY <1>1, <1>2, <1>3, <1>6, <2>1 DEF Trackers
  <1>7. CASE p.op \in {"set", "add", "clear"}
    <2>1. t.stack = <<>> => Top(t) = {} BY DEF Top
    <2>2. d = [t EXCEPT !.stack = IF @ = <<>> THEN <<Changed(p, Top(t))>>
                                  ELSE Append(Front(@), Changed(p, Top(t)))]
      BY <1>7 DEF Dispatched, Changed
    <2>3. d.stack = IF t.stack = <<>> THEN <<Changed(p, {})>>
                    ELSE Append(Front(t.stack), Changed(p, Top(t)))
      BY <1>2, <2>1, <2>2
    <2>4. d.stack \in Seq(SUBSET {1, 2})
      <3> HIDE DEF d
      <3>1. CASE t.stack = <<>> BY <1>4, <2>3, <3>1
      <3>2. CASE t.stack # <<>>
        <4>1. Front(t.stack) \in Seq(SUBSET {1, 2}) /\ Changed(p, Top(t)) \in SUBSET {1, 2}
          BY <1>3, <1>4, <3>2
        <4> QED BY <2>3, <3>2, <4>1
      <3> QED BY <3>1, <3>2
    <2>5. d.other = t.other /\ d.scan = t.scan
          /\ d = [stack |-> d.stack, other |-> t.other, scan |-> t.scan]
      BY <1>2, <2>2
    <2>6. d \in Trackers BY <1>2, <2>4, <2>5 DEF Trackers
    <2> QED BY <1>7, <2>3, <2>5, <2>6
  <1>8. CASE p.op \in {"other", "legacy"}
    <2>1. d = [t EXCEPT !.other = p.op = "other"] BY <1>8 DEF Dispatched
    <2> QED BY <1>2, <1>8, <2>1 DEF Trackers
  <1> QED BY <1>1, <1>5, <1>6, <1>7, <1>8

\* A piece fed between sequences begins one, or does nothing; one fed within a
\* sequence ends it.
LEMMA FedIs ==
  ASSUME NEW t \in Trackers, NEW p \in Pieces, NEW d, d = FeedPiece(t, p)
  PROVE  /\ d \in Trackers
         /\ t.scan = "Ground" =>
              /\ d.stack = t.stack /\ d.other = t.other
              /\ d.scan = IF p.op = "head" THEN "Csi" ELSE "Ground"
         /\ t.scan = "Csi" =>
              /\ d.scan = "Ground"
              /\ p \in TailPieces => /\ d.stack = Dispatched(t, p).stack
                                /\ d.other = Dispatched(t, p).other
              /\ p \notin TailPieces => d.stack = t.stack /\ d.other = t.other
  <1>1. /\ t.stack \in Seq(SUBSET {1, 2}) /\ t.other \in BOOLEAN /\ t.scan \in {"Ground", "Csi"}
        /\ t = [stack |-> t.stack, other |-> t.other, scan |-> t.scan]
    BY DEF Trackers
  <1>2. CASE t.scan = "Ground"
    <2>1. d = [t EXCEPT !.scan = IF p.op = "head" THEN "Csi" ELSE "Ground"] BY <1>2 DEF FeedPiece
    <2> QED BY <1>1, <1>2, <2>1 DEF Trackers
  <1>3. CASE t.scan = "Csi" /\ p \in TailPieces
    <2> DEFINE e == Dispatched(t, p)
    <2>1. e \in Trackers BY <1>3, DispatchedIs
    <2>2. p.op \notin {"head", "line", "mode"} BY <1>3, TailsAre
    <2>3. d = [e EXCEPT !.scan = "Ground"] BY <1>3, <2>2 DEF FeedPiece
    <2> HIDE DEF e
    <2>4. d \in Trackers /\ d.stack = e.stack /\ d.other = e.other /\ d.scan = "Ground"
      BY <2>1, <2>3 DEF Trackers
    <2> QED BY <1>3, <2>4 DEF e
  <1>4. CASE t.scan = "Csi" /\ p \notin TailPieces
    <2>1. p.op \in {"head", "line", "mode"} BY <1>4 DEF Pieces, Plain
    <2>2. d = [t EXCEPT !.scan = "Ground"] BY <1>4, <2>1 DEF FeedPiece
    <2> QED BY <1>1, <1>4, <2>2 DEF Trackers
  <1> QED BY <1>1, <1>2, <1>3, <1>4

\* What a tail does to the levels above the n-th, which a tracker has.
LEMMA LevelsOfOne ==
  ASSUME NEW t \in Trackers, NEW p \in TailPieces, NEW d \in Trackers, NEW n \in Nat, NEW m \in Nat,
         d.stack = Dispatched(t, p).stack, n <= Len(t.stack), m = n + Nesting(p)
  PROVE  /\ m <= Len(d.stack)
         /\ p.op \in {"push", "pop"} => TopAt(d, m) = TopAt(t, n)
         /\ p.op \notin {"push", "pop"} =>
              TopAt(d, m) = IF n = 0 THEN Changed(p, TopAt(t, 0)) ELSE TopAt(t, n)
         /\ \A i \in 0 .. (m - 1) :
              Under(d, i) =
                CASE p.op = "push" -> IF i = 0 THEN p.flags ELSE Under(t, i - 1)
                  [] p.op = "pop" -> Under(t, i + 1)
                  [] OTHER -> IF i = 0 THEN Changed(p, Under(t, 0)) ELSE Under(t, i)
  <1>1. p.op \in {"push", "pop", "set", "add", "clear", "other", "legacy"} BY TailsAre
  <1>2. t.stack \in Seq(SUBSET {1, 2}) /\ d.stack \in Seq(SUBSET {1, 2}) BY DEF Trackers
  <1>3. CASE p.op = "push"
    <2>1. m = n + 1 /\ d.stack = Append(t.stack, p.flags) BY <1>3, DispatchedIs DEF Nesting
    <2>2. /\ Len(d.stack) = Len(t.stack) + 1 /\ d.stack[Len(t.stack) + 1] = p.flags
          /\ \A i \in 1 .. Len(t.stack) : d.stack[i] = t.stack[i]
      BY <1>2, <2>1
    <2>3. TopAt(d, m) = TopAt(t, n) BY <1>2, <2>1, <2>2 DEF TopAt, Under
    <2>4. ASSUME NEW i \in 0 .. (m - 1)
          PROVE  Under(d, i) = IF i = 0 THEN p.flags ELSE Under(t, i - 1)
      BY <1>2, <2>1, <2>2 DEF Under
    <2> QED BY <1>2, <1>3, <2>1, <2>2, <2>3, <2>4
  <1>4. CASE p.op = "pop"
    <2>1. n = m + 1 /\ t.stack # <<>> BY <1>2, <1>4 DEF Nesting
    <2>2. d.stack = Front(t.stack) BY <1>4, <2>1, DispatchedIs
    <2>3. /\ Len(d.stack) = Len(t.stack) - 1
          /\ \A i \in 1 .. Len(d.stack) : d.stack[i] = t.stack[i]
      BY <1>2, <2>1, <2>2 DEF Front
    <2>6. Len(t.stack) \in Nat /\ Len(d.stack) \in Nat BY <1>2
    <2>7. \A i \in 0 .. (Len(t.stack) - 2) : Under(d, i) = Under(t, i + 1)
      <3> SUFFICES ASSUME NEW i \in 0 .. (Len(t.stack) - 2) PROVE Under(d, i) = Under(t, i + 1)
        OBVIOUS
      <3>1. Len(t.stack) - (i + 1) = Len(d.stack) - i /\ Len(d.stack) - i \in 1 .. Len(d.stack)
        BY <2>3, <2>6
      <3> QED BY <2>3, <3>1 DEF Under
    <2>4. TopAt(d, m) = TopAt(t, n)
      <3>1. CASE Len(t.stack) = n BY <2>1, <2>3, <2>6, <3>1 DEF TopAt
      <3>2. CASE Len(t.stack) # n
        <4>1. m \in 0 .. (Len(t.stack) - 2) /\ Len(d.stack) # m BY <2>1, <2>3, <2>6, <3>2
        <4> QED BY <2>1, <2>7, <3>2, <4>1 DEF TopAt
      <3> QED BY <3>1, <3>2
    <2>5. ASSUME NEW i \in 0 .. (m - 1) PROVE Under(d, i) = Under(t, i + 1)
      <3>1. i \in 0 .. (Len(t.stack) - 2) BY <2>1, <2>6
      <3> QED BY <2>7, <3>1
    <2> QED BY <1>2, <1>4, <2>1, <2>3, <2>4, <2>5
  <1>5. CASE p.op \in {"set", "add", "clear"}
    <2>1. m = n BY <1>5 DEF Nesting
    <2>2. CASE t.stack = <<>>
      <3>1. n = 0 /\ d.stack = <<Changed(p, {})>>
        <4>1. d.stack = <<Changed(p, {})>> BY <1>5, <2>2, DispatchedIs
        <4>2. Len(t.stack) = 0 BY <2>2
        <4> QED BY <4>1, <4>2
      <3>2. Len(d.stack) = 1 /\ d.stack[1] = Changed(p, {}) BY <3>1
      <3>3. TopAt(d, 0) = Changed(p, {}) /\ TopAt(t, 0) = {} BY <2>2, <3>2 DEF TopAt, Under
      <3> QED
        <4>1. 0 .. (m - 1) = {} /\ m = 0 BY <2>1, <3>1
        <4>2. TopAt(d, m) = Changed(p, TopAt(t, 0)) BY <3>3, <4>1
        <4>3. m <= Len(d.stack) BY <3>2, <4>1
        <4>4. p.op \notin {"push", "pop"} BY <1>5
        <4> QED BY <3>1, <4>1, <4>2, <4>3, <4>4
    <2>3. CASE t.stack # <<>>
      <3>1. d.stack = Append(Front(t.stack), Changed(p, Top(t))) BY <1>5, <2>3, DispatchedIs
      <3>2. Top(t) = Under(t, 0) /\ Len(t.stack) \in Nat \ {0} BY <1>2, <2>3 DEF Top, Last, Under
      <3>3. /\ Front(t.stack) \in Seq(SUBSET {1, 2}) /\ Len(Front(t.stack)) = Len(t.stack) - 1
            /\ \A i \in 1 .. (Len(t.stack) - 1) : Front(t.stack)[i] = t.stack[i]
        BY <1>2, <2>3 DEF Front
      <3>4. /\ Len(d.stack) = Len(t.stack) /\ d.stack[Len(t.stack)] = Changed(p, Under(t, 0))
            /\ \A i \in 1 .. (Len(t.stack) - 1) : d.stack[i] = t.stack[i]
        BY <3>1, <3>2, <3>3
      <3>5. ASSUME NEW i \in 0 .. (Len(t.stack) - 1)
            PROVE  Under(d, i) = IF i = 0 THEN Changed(p, Under(t, 0)) ELSE Under(t, i)
        <4>1. CASE i = 0
          <5>1. Len(d.stack) - 0 = Len(t.stack) BY <3>2, <3>4
          <5> QED BY <3>4, <4>1, <5>1 DEF Under
        <4>2. CASE i # 0
          <5>1. Len(d.stack) - i = Len(t.stack) - i /\ Len(t.stack) - i \in 1 .. (Len(t.stack) - 1)
            BY <3>2, <3>4, <4>2
          <5> QED BY <3>4, <4>2, <5>1 DEF Under
        <4> QED BY <4>1, <4>2
      <3>6. TopAt(d, n) = IF n = 0 THEN Changed(p, TopAt(t, 0)) ELSE TopAt(t, n)
        BY <3>2, <3>4, <3>5 DEF TopAt
      <3> QED BY <1>5, <2>1, <3>2, <3>4, <3>5, <3>6
    <2> QED BY <2>2, <2>3
  <1>6. CASE p.op \in {"other", "legacy"}
    <2>1. m = n /\ d.stack = t.stack
      <3>1. Dispatched(t, p).stack = t.stack BY <1>6, DispatchedIs
      <3>2. Nesting(p) = 0 BY <1>6 DEF Nesting
      <3> QED BY <3>1, <3>2
    <2>2. \A flags : Changed(p, flags) = flags BY <1>6 DEF Changed
    <2> QED BY <1>6, <2>1, <2>2 DEF TopAt, Under
  <1> QED BY <1>1, <1>3, <1>4, <1>5, <1>6

---------------------------------------------------------------------------
(* Two trackers that are fed the same. *)

\* Two trackers have the same flags on the levels above the n-th.
SameAbove(k, c, n) ==
  /\ n \in Nat /\ n <= Len(k.stack) /\ n <= Len(c.stack)
  /\ \A i \in 0 .. (n - 1) : Under(k, i) = Under(c, i)

\* Of some flags, those kept, and those set.
Mix(flags, kept, put) == (flags \cap kept) \cup put
\* Two sets of flags, as changes that were the same for both have left them.
Alike(a, b, x, y) == \E kept \in SUBSET {1, 2}, put \in SUBSET {1, 2} :
                       a = Mix(x, kept, put) /\ b = Mix(y, kept, put)

\* Output in which a tail follows each head, and nothing else.
WellFormed(ps) ==
  /\ ps \in Seq(Pieces)
  /\ \A i \in 1 .. Len(ps) : ps[i] \in TailPieces <=> (i > 1 /\ ps[i - 1] = Plain("head"))

\* What is under a level is a set of flags.
LEMMA FlagsAt ==
  ASSUME NEW t \in Trackers, NEW n \in Nat, n <= Len(t.stack)
  PROVE  TopAt(t, n) \in SUBSET {1, 2}
  <1>1. t.stack \in Seq(SUBSET {1, 2}) BY DEF Trackers
  <1>2. CASE Len(t.stack) = n BY <1>2 DEF TopAt
  <1>3. CASE Len(t.stack) # n
    <2>1. Len(t.stack) - n \in 1 .. Len(t.stack) BY <1>1, <1>3
    <2> QED BY <1>1, <1>3, <2>1 DEF TopAt, Under
  <1> QED BY <1>2, <1>3

\* Sets of flags that are alike stay so.
LEMMA AlikeChanges ==
  ASSUME NEW p \in TailPieces, NEW a, NEW b, NEW x, NEW y, Alike(a, b, x, y)
  PROVE  Alike(Changed(p, a), Changed(p, b), x, y)
  <1>1. PICK kept \in SUBSET {1, 2}, put \in SUBSET {1, 2} :
          a = Mix(x, kept, put) /\ b = Mix(y, kept, put)
    BY DEF Alike
  <1>2. p.flags \in SUBSET {1, 2} BY TailsAre
  <1>3. CASE p.op = "set"
    <2>1. Changed(p, a) = Mix(x, {}, p.flags) /\ Changed(p, b) = Mix(y, {}, p.flags)
      BY <1>3 DEF Changed, Mix
    <2> QED BY <1>2, <2>1 DEF Alike
  <1>4. CASE p.op = "add"
    <2>1. /\ Changed(p, a) = Mix(x, kept, put \cup p.flags)
          /\ Changed(p, b) = Mix(y, kept, put \cup p.flags)
      BY <1>1, <1>4 DEF Changed, Mix
    <2>2. put \cup p.flags \in SUBSET {1, 2} BY <1>2
    <2> QED BY <2>1, <2>2 DEF Alike
  <1>5. CASE p.op = "clear"
    <2>1. /\ Changed(p, a) = Mix(x, kept \ p.flags, put \ p.flags)
          /\ Changed(p, b) = Mix(y, kept \ p.flags, put \ p.flags)
      BY <1>1, <1>5 DEF Changed, Mix
    <2>2. kept \ p.flags \in SUBSET {1, 2} /\ put \ p.flags \in SUBSET {1, 2} OBVIOUS
    <2> QED BY <2>1, <2>2 DEF Alike
  <1>6. CASE p.op \notin {"set", "add", "clear"}
    <2>1. Changed(p, a) = a /\ Changed(p, b) = b BY <1>6 DEF Changed
    <2> QED BY <2>1
  <1> QED BY <1>3, <1>4, <1>5, <1>6

\* If what came out alike of x and y is what y was, both came out the same.
LEMMA AlikeSame ==
  ASSUME NEW a, NEW b, NEW x, NEW y, Alike(a, b, x, y), y = a
  PROVE  a = b
  BY DEF Alike, Mix

\* Dispatching one tail to two trackers that have the same above a level.
LEMMA LevelsOfTwo ==
  ASSUME NEW k \in Trackers, NEW c \in Trackers, NEW kk \in Trackers, NEW cc \in Trackers,
         NEW p \in TailPieces, NEW n, NEW m \in Nat, SameAbove(k, c, n), m = n + Nesting(p),
         kk.stack = Dispatched(k, p).stack, cc.stack = Dispatched(c, p).stack
  PROVE  /\ SameAbove(kk, cc, m)
         /\ TopAt(k, n) = TopAt(c, n) => TopAt(kk, m) = TopAt(cc, m)
         /\ \A x, y : Alike(TopAt(k, n), TopAt(c, n), x, y) => Alike(TopAt(kk, m), TopAt(cc, m), x, y)
  <1>1. n \in Nat /\ n <= Len(k.stack) /\ n <= Len(c.stack) BY DEF SameAbove
  <1>2. /\ m <= Len(kk.stack)
        /\ p.op \in {"push", "pop"} => TopAt(kk, m) = TopAt(k, n)
        /\ p.op \notin {"push", "pop"} =>
             TopAt(kk, m) = IF n = 0 THEN Changed(p, TopAt(k, 0)) ELSE TopAt(k, n)
        /\ \A i \in 0 .. (m - 1) :
             Under(kk, i) =
               CASE p.op = "push" -> IF i = 0 THEN p.flags ELSE Under(k, i - 1)
                 [] p.op = "pop" -> Under(k, i + 1)
                 [] OTHER -> IF i = 0 THEN Changed(p, Under(k, 0)) ELSE Under(k, i)
    BY <1>1, LevelsOfOne
  <1>3. /\ m <= Len(cc.stack)
        /\ p.op \in {"push", "pop"} => TopAt(cc, m) = TopAt(c, n)
        /\ p.op \notin {"push", "pop"} =>
             TopAt(cc, m) = IF n = 0 THEN Changed(p, TopAt(c, 0)) ELSE TopAt(c, n)
        /\ \A i \in 0 .. (m - 1) :
             Under(cc, i) =
               CASE p.op = "push" -> IF i = 0 THEN p.flags ELSE Under(c, i - 1)
                 [] p.op = "pop" -> Under(c, i + 1)
                 [] OTHER -> IF i = 0 THEN Changed(p, Under(c, 0)) ELSE Under(c, i)
    BY <1>1, LevelsOfOne
  <1>4. ASSUME NEW i \in 0 .. (m - 1) PROVE Under(kk, i) = Under(cc, i)
    <2>1. CASE p.op = "push"
      <3>1. m = n + 1 BY <2>1 DEF Nesting
      <3>2. CASE i = 0 BY <1>2, <1>3, <2>1, <3>2
      <3>3. CASE i # 0
        <4>1. i - 1 \in 0 .. (n - 1) BY <1>1, <3>1, <3>3
        <4>2. Under(k, i - 1) = Under(c, i - 1) BY <4>1 DEF SameAbove
        <4>3. Under(kk, i) = Under(k, i - 1) BY <1>2, <2>1, <3>3
        <4>4. Under(cc, i) = Under(c, i - 1) BY <1>3, <2>1, <3>3
        <4> QED BY <4>2, <4>3, <4>4
      <3> QED BY <3>2, <3>3
    <2>2. CASE p.op = "pop"
      <3>1. m = n - 1 BY <1>1, <2>2 DEF Nesting
      <3>2. i + 1 \in 0 .. (n - 1) BY <1>1, <3>1
      <3>3. Under(k, i + 1) = Under(c, i + 1) BY <3>2 DEF SameAbove
      <3>4. Under(kk, i) = Under(k, i + 1) BY <1>2, <2>2
      <3>5. Under(cc, i) = Under(c, i + 1) BY <1>3, <2>2
      <3> QED BY <3>3, <3>4, <3>5
    <2>3. CASE p.op \notin {"push", "pop"}
      <3>1. m = n BY <1>1, <2>3 DEF Nesting
      <3>2. Under(k, i) = Under(c, i) BY <3>1 DEF SameAbove
      <3>3. Under(kk, i) = IF i = 0 THEN Changed(p, Under(k, 0)) ELSE Under(k, i) BY <1>2, <2>3
      <3>4. Under(cc, i) = IF i = 0 THEN Changed(p, Under(c, 0)) ELSE Under(c, i) BY <1>3, <2>3
      <3> QED BY <3>2, <3>3, <3>4
    <2> QED BY <2>1, <2>2, <2>3
  <1>5. SameAbove(kk, cc, m) BY <1>2, <1>3, <1>4 DEF SameAbove
  <1>6. TopAt(k, n) = TopAt(c, n) => TopAt(kk, m) = TopAt(cc, m)
    <2>1. CASE p.op \in {"push", "pop"} BY <1>2, <1>3, <2>1
    <2>2. CASE p.op \notin {"push", "pop"} BY <1>2, <1>3, <2>2
    <2> QED BY <2>1, <2>2
  <1>7. ASSUME NEW x, NEW y, Alike(TopAt(k, n), TopAt(c, n), x, y)
        PROVE  Alike(TopAt(kk, m), TopAt(cc, m), x, y)
    <2>1. CASE p.op \in {"push", "pop"} \/ n # 0
      <3>1. TopAt(kk, m) = TopAt(k, n) /\ TopAt(cc, m) = TopAt(c, n) BY <1>2, <1>3, <2>1
      <3> QED BY <1>7, <3>1
    <2>2. CASE p.op \notin {"push", "pop"} /\ n = 0
      <3>1. TopAt(kk, m) = Changed(p, TopAt(k, n)) /\ TopAt(cc, m) = Changed(p, TopAt(c, n))
        BY <1>2, <1>3, <2>2
      <3>2. Alike(Changed(p, TopAt(k, n)), Changed(p, TopAt(c, n)), x, y) BY <1>7, AlikeChanges
      <3> QED BY <3>1, <3>2
    <2> QED BY <2>1, <2>2
  <1> QED BY <1>5, <1>6, <1>7

\* In well-formed output a tracker is within a sequence after its head only.
LEMMA ScanAt ==
  ASSUME NEW ps, WellFormed(ps), NEW tr, Run(tr, ps), tr[0] \in Trackers, tr[0].scan = "Ground"
  PROVE  \A i \in 0 .. Len(ps) :
           tr[i] \in Trackers /\ (tr[i].scan = "Csi" <=> i > 0 /\ ps[i] = Plain("head"))
  <1> DEFINE n == Len(ps)
             Good(i) == tr[i] \in Trackers /\ (tr[i].scan = "Csi" <=> i > 0 /\ ps[i] = Plain("head"))
             G == {i \in Nat : i <= n => Good(i)}
  <1>1. ps \in Seq(Pieces) /\ n \in Nat BY DEF WellFormed
  <1>2. 0 \in G OBVIOUS
  <1>3. ASSUME NEW i \in Nat, i \in G PROVE i + 1 \in G
    <2> SUFFICES ASSUME i + 1 <= n PROVE Good(i + 1) OBVIOUS
    <2>1. Good(i) BY <1>1, <1>3
    <2>2. i + 1 \in 1 .. Len(ps) /\ (i + 1) - 1 = i BY <1>1
    <2>3. tr[i + 1] = FeedPiece(tr[i], ps[i + 1]) BY <2>2 DEF Run
    <2>4. ps[i + 1] \in Pieces BY <1>1, <2>2
    <2>5. ps[i + 1] \in TailPieces <=> (i + 1 > 1 /\ ps[i] = Plain("head")) BY <2>2 DEF WellFormed
    <2>6. CASE tr[i].scan = "Csi"
      <3>1. ps[i + 1] \in TailPieces BY <2>1, <2>5, <2>6
      <3>2. ps[i + 1] # Plain("head") BY <3>1, TailsAre
      <3>3. tr[i + 1] \in Trackers /\ tr[i + 1].scan = "Ground" BY <2>1, <2>3, <2>4, <2>6, FedIs
      <3> QED BY <3>2, <3>3
    <2>7. CASE tr[i].scan # "Csi"
      <3>1. ps[i + 1] \notin TailPieces BY <2>1, <2>5, <2>7
      <3>2. ps[i + 1] = Plain("head") <=> ps[i + 1].op = "head" BY <2>4, <3>1 DEF Pieces, Plain
      <3>3. tr[i].scan = "Ground" BY <2>1, <2>7 DEF Trackers
      <3>4. /\ tr[i + 1] \in Trackers
            /\ tr[i + 1].scan = IF ps[i + 1].op = "head" THEN "Csi" ELSE "Ground"
        BY <2>1, <2>3, <2>4, <3>3, FedIs
      <3> QED BY <3>2, <3>4
    <2> QED BY <2>6, <2>7
  <1>4. Nat \subseteq G
    <2> HIDE DEF G
    <2> QED BY <1>2, <1>3, AllNumbers
  <1> QED BY <1>1, <1>4

\* The levels after the first i pieces, as Levels counts them.
PieceCount(ps, op, i) == Cardinality({j \in 1 .. i : ps[j].op = op})
LevelAt(ps, i) == PieceCount(ps, "push", i) - PieceCount(ps, "pop", i)

\* Levels says what these are at the end, and whether they fell under the start.
LEMMA LevelsAre ==
  ASSUME NEW ps
  PROVE  /\ Levels(ps).end = LevelAt(ps, Len(ps))
         /\ Levels(ps).below <=> \E i \in DOMAIN ps : LevelAt(ps, i) < 0
  BY DEF Levels, LevelAt, PieceCount

\* Pieces of a kind among the first i, and the next.
LEMMA CountSteps ==
  ASSUME NEW ps, NEW op, NEW i \in Nat
  PROVE  /\ PieceCount(ps, op, i) \in Nat
         /\ PieceCount(ps, op, 0) = 0
         /\ PieceCount(ps, op, i + 1) = PieceCount(ps, op, i) + IF ps[i + 1].op = op THEN 1 ELSE 0
  <1> DEFINE Those(m) == {j \in 1 .. m : ps[j].op = op}
  <1>1. \A m \in Nat : IsFiniteSet(Those(m))
    <2> SUFFICES ASSUME NEW m \in Nat PROVE IsFiniteSet(Those(m)) OBVIOUS
    <2>1. IsFiniteSet(1 .. m) BY FS_Interval
    <2> QED BY <2>1, FS_Subset
  <1>2. PieceCount(ps, op, i) \in Nat BY <1>1, FS_CardinalityType DEF PieceCount
  <1>3. PieceCount(ps, op, 0) = 0
    <2>1. Those(0) = {} OBVIOUS
    <2> QED BY <2>1, FS_EmptySet DEF PieceCount
  <1>4. CASE ps[i + 1].op = op
    <2>1. Those(i + 1) = Those(i) \cup {i + 1} /\ i + 1 \notin Those(i) BY <1>4
    <2>2. IsFiniteSet(Those(i)) BY <1>1
    <2> HIDE DEF Those
    <2>3. Cardinality(Those(i + 1)) = Cardinality(Those(i)) + 1 BY <2>1, <2>2, FS_AddElement
    <2>4. PieceCount(ps, op, i + 1) = PieceCount(ps, op, i) + 1
      BY <2>3 DEF PieceCount, Those
    <2> QED BY <1>2, <1>3, <1>4, <2>4
  <1>5. CASE ps[i + 1].op # op
    <2>1. Those(i + 1) = Those(i) BY <1>5
    <2>2. PieceCount(ps, op, i + 1) = PieceCount(ps, op, i) BY <2>1 DEF PieceCount
    <2>3. PieceCount(ps, op, i + 1) = PieceCount(ps, op, i) + 0 BY <1>2, <2>2
    <2> QED BY <1>2, <1>3, <1>5, <2>3
  <1> QED BY <1>2, <1>3, <1>4, <1>5

\* A push is one level more, a pop one less.
LEMMA LevelSteps ==
  ASSUME NEW ps, NEW i \in Nat
  PROVE  /\ LevelAt(ps, i) \in Int
         /\ LevelAt(ps, 0) = 0
         /\ LevelAt(ps, i + 1) = LevelAt(ps, i) + Nesting(ps[i + 1])
  <1>1. /\ PieceCount(ps, "push", i) \in Nat /\ PieceCount(ps, "pop", i) \in Nat
        /\ PieceCount(ps, "push", 0) = 0 /\ PieceCount(ps, "pop", 0) = 0
        /\ PieceCount(ps, "push", i + 1)
             = PieceCount(ps, "push", i) + IF ps[i + 1].op = "push" THEN 1 ELSE 0
        /\ PieceCount(ps, "pop", i + 1)
             = PieceCount(ps, "pop", i) + IF ps[i + 1].op = "pop" THEN 1 ELSE 0
    BY CountSteps
  <1>2. CASE ps[i + 1].op = "push" BY <1>1, <1>2 DEF LevelAt, Nesting
  <1>3. CASE ps[i + 1].op = "pop" BY <1>1, <1>3 DEF LevelAt, Nesting
  <1>4. CASE ps[i + 1].op \notin {"push", "pop"} BY <1>1, <1>4 DEF LevelAt, Nesting
  <1> QED BY <1>2, <1>3, <1>4

\* A replay: two trackers are fed the same output, which pops no more than it
\* pushes.  What is above the start becomes the same, what was there is changed alike.
LEMMA Replays ==
  ASSUME NEW ps, WellFormed(ps), NEW tr, NEW tc, Run(tr, ps), Run(tc, ps),
         tr[0] \in Trackers, tc[0] \in Trackers, tr[0].scan = "Ground", tc[0].scan = "Ground",
         \A i \in DOMAIN ps : ~(LevelAt(ps, i) < 0)
  PROVE  \A i \in 0 .. Len(ps) :
           /\ tr[i] \in Trackers /\ tc[i] \in Trackers /\ tr[i].scan = tc[i].scan
           /\ SameAbove(tr[i], tc[i], LevelAt(ps, i))
           /\ Alike(TopAt(tr[i], LevelAt(ps, i)), TopAt(tc[i], LevelAt(ps, i)),
                    TopAt(tr[0], 0), TopAt(tc[0], 0))
           /\ tr[i].other = tc[i].other \/ (tr[i].other = tr[0].other /\ tc[i].other = tc[0].other)
  <1> DEFINE n == Len(ps)
             x == TopAt(tr[0], 0)
             y == TopAt(tc[0], 0)
             Good(i) ==
               /\ SameAbove(tr[i], tc[i], LevelAt(ps, i))
               /\ Alike(TopAt(tr[i], LevelAt(ps, i)), TopAt(tc[i], LevelAt(ps, i)), x, y)
               /\ tr[i].other = tc[i].other \/ (tr[i].other = tr[0].other /\ tc[i].other = tc[0].other)
             G == {i \in Nat : i <= n => Good(i)}
  <1>1. ps \in Seq(Pieces) /\ n \in Nat /\ DOMAIN ps = 1 .. n BY DEF WellFormed
  <1>2. \A i \in 0 .. n :
          /\ tr[i] \in Trackers /\ (tr[i].scan = "Csi" <=> i > 0 /\ ps[i] = Plain("head"))
          /\ tc[i] \in Trackers /\ (tc[i].scan = "Csi" <=> i > 0 /\ ps[i] = Plain("head"))
    BY ScanAt
  <1>3. \A i \in 0 .. n : tr[i].scan = tc[i].scan BY <1>2 DEF Trackers
  <1>4. 0 \in G
    <2>1. LevelAt(ps, 0) = 0 BY LevelSteps
    <2>2. Len(tr[0].stack) \in Nat /\ Len(tc[0].stack) \in Nat BY DEF Trackers
    <2>3. SameAbove(tr[0], tc[0], 0) BY <2>2 DEF SameAbove
    <2>4. x \in SUBSET {1, 2} /\ y \in SUBSET {1, 2} BY <2>2, FlagsAt
    <2>5. Alike(x, y, x, y)
      <3> HIDE DEF x, y
      <3>1. x = Mix(x, {1, 2}, {}) /\ y = Mix(y, {1, 2}, {}) BY <2>4 DEF Mix
      <3> QED BY <3>1 DEF Alike
    <2> QED BY <2>1, <2>3, <2>5
  <1>5. ASSUME NEW i \in Nat, i \in G PROVE i + 1 \in G
    <2> SUFFICES ASSUME i + 1 <= n PROVE Good(i + 1) OBVIOUS
    <2>1. Good(i) BY <1>1, <1>5
    <2>2. i \in 0 .. n /\ i + 1 \in 0 .. n /\ i + 1 \in 1 .. n /\ (i + 1) - 1 = i BY <1>1
    <2> DEFINE p == ps[i + 1]
               k == tr[i]
               c == tc[i]
               kk == tr[i + 1]
               cc == tc[i + 1]
               l == LevelAt(ps, i)
               m == LevelAt(ps, i + 1)
    <2>3. kk = FeedPiece(k, p) /\ cc = FeedPiece(c, p) BY <2>2 DEF Run
    <2>4. p \in Pieces BY <1>1, <2>2
    <2>5. /\ k \in Trackers /\ c \in Trackers /\ kk \in Trackers /\ cc \in Trackers
          /\ k.scan = c.scan /\ k.scan \in {"Ground", "Csi"}
      BY <1>2, <1>3, <2>2 DEF Trackers
    <2>6. p \in TailPieces <=> k.scan = "Csi"
      <3>1. p \in TailPieces <=> (i + 1 > 1 /\ ps[i] = Plain("head")) BY <2>2 DEF WellFormed
      <3> QED BY <1>2, <2>2, <3>1
    <2>7. m \in Nat /\ m = l + Nesting(p)
      <3>1. m \in Int /\ m = l + Nesting(p) BY LevelSteps
      <3>2. ~(m < 0) BY <1>1, <2>2
      <3> QED BY <3>1, <3>2
    <2>8. CASE k.scan = "Ground"
      <3>1. kk.stack = k.stack /\ kk.other = k.other BY <2>3, <2>4, <2>5, <2>8, FedIs
      <3>2. cc.stack = c.stack /\ cc.other = c.other
        <4>1. c.scan = "Ground" BY <2>5, <2>8
        <4> QED BY <2>3, <2>4, <2>5, <4>1, FedIs
      <3>3. Nesting(p) = 0
        <4>1. p \notin TailPieces BY <2>6, <2>8
        <4> QED BY <2>4, <4>1 DEF Pieces, Plain, Nesting
      <3>4. m = l BY <2>1, <2>7, <3>3 DEF SameAbove
      <3>5. SameAbove(kk, cc, l) BY <2>1, <3>1, <3>2 DEF SameAbove, Under
      <3>6. TopAt(kk, l) = TopAt(k, l) /\ TopAt(cc, l) = TopAt(c, l)
        BY <3>1, <3>2 DEF TopAt, Under
      <3> QED BY <2>1, <3>1, <3>2, <3>4, <3>5, <3>6
    <2>9. CASE k.scan = "Csi"
      <3>1. p \in TailPieces BY <2>6, <2>9
      <3>2. kk.stack = Dispatched(k, p).stack /\ kk.other = Dispatched(k, p).other
        BY <2>3, <2>4, <2>5, <2>9, <3>1, FedIs
      <3>3. cc.stack = Dispatched(c, p).stack /\ cc.other = Dispatched(c, p).other
        <4>1. c.scan = "Csi" BY <2>5, <2>9
        <4> QED BY <2>3, <2>4, <2>5, <3>1, <4>1, FedIs
      <3>4. /\ Dispatched(k, p).other
                 = (IF p.op = "other" THEN TRUE ELSE IF p.op = "legacy" THEN FALSE ELSE k.other)
            /\ Dispatched(c, p).other
                 = (IF p.op = "other" THEN TRUE ELSE IF p.op = "legacy" THEN FALSE ELSE c.other)
        BY <2>5, <3>1, DispatchedIs
      <3>5. SameAbove(k, c, l) /\ Alike(TopAt(k, l), TopAt(c, l), x, y) BY <2>1
      <3> HIDE DEF p, k, c, kk, cc, l, m, x, y
      <3>6. /\ SameAbove(kk, cc, m)
            /\ \A u, v : Alike(TopAt(k, l), TopAt(c, l), u, v) => Alike(TopAt(kk, m), TopAt(cc, m), u, v)
        BY <2>5, <2>7, <3>1, <3>2, <3>3, <3>5, LevelsOfTwo
      <3>7. SameAbove(kk, cc, m) /\ Alike(TopAt(kk, m), TopAt(cc, m), x, y) BY <3>5, <3>6
      <3>8. kk.other = cc.other \/ (kk.other = tr[0].other /\ cc.other = tc[0].other)
        BY <2>1, <3>2, <3>3, <3>4 DEF k, c
      <3> QED BY <3>7, <3>8 DEF kk, cc, m
    <2> QED BY <2>5, <2>8, <2>9
  <1>6. Nat \subseteq G
    <2> HIDE DEF G
    <2> QED BY <1>4, <1>5, AllNumbers
  <1>7. \A i \in 0 .. n : Good(i) BY <1>1, <1>6
  <1> QED BY <1>2, <1>3, <1>7

---------------------------------------------------------------------------
(* What a dump brings. *)

\* What a program writes is among the tails a tracker takes.
LEMMA TailsAreThese == Tails \subseteq TailPieces
  BY DEF Tails, TailPieces

\* The pieces named in the module are pieces.
LEMMA PiecesAre ==
  /\ Plain("head") \in Pieces /\ Plain("line") \in Pieces /\ Plain("mode") \in Pieces
  /\ Plain("other") \in TailPieces /\ TailPieces \subseteq Pieces /\ Tails \subseteq Pieces
  BY TailsAreThese DEF Pieces, TailPieces, Plain

\* Fed pieces, a tracker stays one.
LEMMA FeedTyped ==
  ASSUME NEW t \in Trackers, NEW ps \in Seq(Pieces)
  PROVE  Feed(t, ps) \in Trackers
  <1>1. PICK tr : tr[0] = t /\ Run(tr, ps) /\ Feed(t, ps) = tr[Len(ps)] BY FeedRuns
  <1> DEFINE n == Len(ps)
             G == {i \in Nat : i <= n => tr[i] \in Trackers}
  <1>2. n \in Nat OBVIOUS
  <1>3. 0 \in G BY <1>1
  <1>4. ASSUME NEW i \in Nat, i \in G PROVE i + 1 \in G
    <2> SUFFICES ASSUME i + 1 <= n PROVE tr[i + 1] \in Trackers OBVIOUS
    <2>1. i + 1 \in 1 .. Len(ps) /\ (i + 1) - 1 = i /\ tr[i] \in Trackers BY <1>2, <1>4
    <2>2. tr[i + 1] = FeedPiece(tr[i], ps[i + 1]) BY <1>1, <2>1 DEF Run
    <2> QED BY <2>1, <2>2, FedIs
  <1>5. Nat \subseteq G
    <2> HIDE DEF G
    <2> QED BY <1>3, <1>4, AllNumbers
  <1> QED BY <1>1, <1>2, <1>5

\* A whole sequence fed to a tracker between sequences.
LEMMA SequenceFed ==
  ASSUME NEW t \in Trackers, t.scan = "Ground", NEW p \in Pieces
  PROVE  LET d == Feed(t, <<Plain("head"), p>>) IN
         /\ d \in Trackers /\ d.scan = "Ground"
         /\ p = Plain("mode") => d.stack = t.stack /\ d.other = t.other
         /\ p \in TailPieces /\ p.op = "push" =>
              d.stack = Append(t.stack, p.flags) /\ d.other = t.other
         /\ p = Plain("other") => d.stack = t.stack /\ d.other = TRUE
  <1>1. PICK s : s = FeedPiece(t, Plain("head")) OBVIOUS
  <1>2. PICK d : d = Feed(t, <<Plain("head"), p>>) OBVIOUS
  <1>3. Feed(t, <<Plain("head"), p>>) = FeedPiece(FeedPiece(t, Plain("head")), p)
    BY FeedOne, PiecesAre
  <1>4. d = FeedPiece(s, p) BY <1>1, <1>2, <1>3
  <1>5. Plain("head").op = "head" /\ Plain("head") \in Pieces BY PiecesAre DEF Plain
  <1>6. s \in Trackers /\ s.scan = "Csi" /\ s.stack = t.stack /\ s.other = t.other
    BY <1>1, <1>5, FedIs
  <1>7. /\ d \in Trackers /\ d.scan = "Ground"
        /\ p \in TailPieces => /\ d.stack = Dispatched(s, p).stack
                              /\ d.other = Dispatched(s, p).other
        /\ p \notin TailPieces => d.stack = s.stack /\ d.other = s.other
    BY <1>4, <1>6, FedIs
  <1>8. Plain("mode") \notin TailPieces BY DEF Plain, TailPieces
  <1>9. Plain("other") \in TailPieces /\ Plain("other").op = "other" BY PiecesAre DEF Plain
  <1>10. p \in TailPieces =>
           /\ Dispatched(s, p).other
                = (IF p.op = "other" THEN TRUE ELSE IF p.op = "legacy" THEN FALSE ELSE s.other)
           /\ p.op = "push" => Dispatched(s, p).stack = Append(s.stack, p.flags)
           /\ p.op \in {"other", "legacy"} => Dispatched(s, p).stack = s.stack
    BY <1>6, DispatchedIs
  <1>11. p \in TailPieces /\ p.op = "push" =>
           d.stack = Append(t.stack, p.flags) /\ d.other = t.other
    BY <1>6, <1>7, <1>10
  <1>12. p = Plain("other") => d.stack = t.stack /\ d.other = TRUE BY <1>6, <1>7, <1>9, <1>10
  <1>13. p = Plain("mode") => d.stack = t.stack /\ d.other = t.other BY <1>6, <1>7, <1>8
  <1> QED BY <1>2, <1>7, <1>11, <1>12, <1>13

\* What comes before the log in a dump.
ModeSets == {<<>>, <<Plain("head"), Plain("mode")>>}

\* A prelude is made of pieces, and so are its parts.
LEMMA PreludeTyped ==
  ASSUME NEW k \in Trackers, NEW modes \in ModeSets
  PROVE  /\ modes \in Seq(Pieces) /\ Prelude(k) \in Seq(Pieces)
         /\ k.other => <<Plain("head"), Plain("other")>> \in Seq(Pieces)
         /\ [op |-> "push", flags |-> Top(k)] \in TailPieces
         /\ <<Plain("head"), [op |-> "push", flags |-> Top(k)]>> \in Seq(Pieces)
  <1> DEFINE push == [op |-> "push", flags |-> Top(k)]
             a == IF Top(k) # {} THEN <<Plain("head"), push>> ELSE <<>>
             b == IF k.other THEN <<Plain("head"), Plain("other")>> ELSE <<>>
  <1>1. Top(k) \in SUBSET {1, 2}
    <2>1. k.stack \in Seq(SUBSET {1, 2}) BY DEF Trackers
    <2> QED BY <2>1 DEF Top, Last
  <1>2. push \in TailPieces /\ push \in Pieces BY <1>1 DEF TailPieces, Pieces
  <1>3. Plain("head") \in Pieces /\ Plain("mode") \in Pieces /\ Plain("other") \in Pieces
    BY PiecesAre
  <1>4. \A p \in Pieces, q \in Pieces : <<p, q>> \in Seq(Pieces) OBVIOUS
  <1>5. <<>> \in Seq(Pieces) OBVIOUS
  <1>6. modes \in Seq(Pieces) BY <1>3, <1>4, <1>5 DEF ModeSets
  <1>7. <<Plain("head"), push>> \in Seq(Pieces) BY <1>2, <1>3, <1>4
  <1>8. <<Plain("head"), Plain("other")>> \in Seq(Pieces) BY <1>3, <1>4
  <1>9. a \in Seq(Pieces) /\ b \in Seq(Pieces) BY <1>5, <1>7, <1>8
  <1>10. Prelude(k) = a \o b BY DEF Prelude
  <1>11. Prelude(k) \in Seq(Pieces)
    <2> HIDE DEF a, b
    <2> QED BY <1>9, <1>10
  <1> QED BY <1>2, <1>6, <1>7, <1>8, <1>11

\* Fed it, a tracker between sequences has the top of the stack it tells of, if it
\* had none that is not, and its modifyOtherKeys.
LEMMA PreludeTells ==
  ASSUME NEW t \in Trackers, t.scan = "Ground", NEW k \in Trackers, NEW modes \in ModeSets,
         Top(k) = {} => Top(t) = {}, t.other => k.other,
         NEW c, c = Feed(t, modes \o Prelude(k))
  PROVE  /\ modes \o Prelude(k) \in Seq(Pieces)
         /\ c \in Trackers /\ c.scan = "Ground" /\ Top(c) = Top(k) /\ c.other = k.other
  <1> DEFINE a == IF Top(k) # {} THEN <<Plain("head"), [op |-> "push", flags |-> Top(k)]>> ELSE <<>>
             b == IF k.other THEN <<Plain("head"), Plain("other")>> ELSE <<>>
             u == Feed(t, modes)
             v == Feed(u, a)
             w == Feed(v, b)
  <1>1. Top(k) \in SUBSET {1, 2} /\ t.other \in BOOLEAN /\ k.other \in BOOLEAN
    <2>1. k.stack \in Seq(SUBSET {1, 2}) BY DEF Trackers
    <2> QED BY <2>1 DEF Top, Last, Trackers
  <1> DEFINE push == [op |-> "push", flags |-> Top(k)]
  <1>2. push \in TailPieces /\ push \in Pieces BY <1>1 DEF TailPieces, Pieces
  <1>3. modes \in Seq(Pieces) /\ a \in Seq(Pieces) /\ b \in Seq(Pieces)
    <2>1. <<>> \in Seq(Pieces) OBVIOUS
    <2> QED BY <2>1, PreludeTyped
  <1>4. Prelude(k) = a \o b BY DEF Prelude
  <1>5. c = w /\ modes \o Prelude(k) \in Seq(Pieces)
    <2> HIDE DEF a, b
    <2>1. a \o b \in Seq(Pieces) BY <1>3
    <2>2. Feed(t, modes \o (a \o b)) = Feed(Feed(t, modes), a \o b) BY <1>3, <2>1, FeedConcat
    <2>3. Feed(u, a \o b) = w BY <1>3, FeedConcat
    <2> QED BY <1>3, <1>4, <2>1, <2>2, <2>3
  <1>6. u \in Trackers /\ u.scan = "Ground" /\ u.stack = t.stack /\ u.other = t.other
    <2>1. CASE modes = <<>> BY <2>1, FeedNone
    <2>2. CASE modes = <<Plain("head"), Plain("mode")>> BY <2>2, SequenceFed, PiecesAre
    <2> QED BY <2>1, <2>2 DEF ModeSets
  <1> HIDE DEF u
  <1>7. v \in Trackers /\ v.scan = "Ground" /\ Top(v) = Top(k) /\ v.other = t.other
    <2>1. CASE Top(k) = {}
      <3>1. a = <<>> BY <2>1
      <3>2. v = u BY <3>1, FeedNone
      <3> QED BY <1>6, <2>1, <3>2 DEF Top
    <2>2. CASE Top(k) # {}
      <3>1. v = Feed(u, <<Plain("head"), push>>) BY <2>2
      <3>2. push.op = "push" /\ push.flags = Top(k) OBVIOUS
      <3> HIDE DEF push, v
      <3>3. /\ v \in Trackers /\ v.scan = "Ground" /\ v.other = u.other
            /\ v.stack = Append(u.stack, Top(k))
        <4>1. Feed(u, <<Plain("head"), push>>) \in Trackers BY <1>2, <1>6, SequenceFed
        <4>2. Feed(u, <<Plain("head"), push>>).scan = "Ground" BY <1>2, <1>6, SequenceFed
        <4>3. /\ Feed(u, <<Plain("head"), push>>).other = u.other
              /\ Feed(u, <<Plain("head"), push>>).stack = Append(u.stack, push.flags)
          BY <1>2, <1>6, <3>2, SequenceFed
        <4> QED BY <3>1, <3>2, <4>1, <4>2, <4>3
      <3>4. u.stack \in Seq(SUBSET {1, 2}) BY <1>6 DEF Trackers
      <3>5. Top(v) = Top(k) BY <1>1, <3>3, <3>4 DEF Top, Last
      <3> QED BY <1>6, <3>3, <3>5
    <2> QED BY <2>1, <2>2
  <1> HIDE DEF v
  <1>8. w \in Trackers /\ w.scan = "Ground" /\ w.stack = v.stack /\ w.other = k.other
    <2>1. CASE ~k.other
      <3>1. b = <<>> BY <2>1
      <3>2. w = v BY <3>1, FeedNone
      <3> QED BY <1>1, <1>7, <2>1, <3>2
    <2>2. CASE k.other
      <3>1. w = Feed(v, <<Plain("head"), Plain("other")>>) BY <2>2
      <3> HIDE DEF w
      <3>2. w \in Trackers /\ w.scan = "Ground" /\ w.stack = v.stack /\ w.other = TRUE
        BY <1>7, <3>1, SequenceFed, PiecesAre
      <3> QED BY <1>1, <2>2, <3>2
    <2> QED BY <1>1, <2>1, <2>2
  <1> HIDE DEF w
  <1> QED BY <1>5, <1>7, <1>8 DEF Top

\* The top of a stack is what is under its zeroth level.
LEMMA TopIs ==
  ASSUME NEW t \in Trackers
  PROVE  Top(t) = TopAt(t, 0) /\ (Len(t.stack) > 0 => Top(t) = Under(t, 0))
  <1>1. t.stack \in Seq(SUBSET {1, 2}) BY DEF Trackers
  <1>2. Len(t.stack) \in Nat /\ (t.stack = <<>> <=> Len(t.stack) = 0) BY <1>1
  <1>3. Len(t.stack) - 0 = Len(t.stack) BY <1>2
  <1> QED BY <1>2, <1>3 DEF Top, TopAt, Under, Last

\* What a client knows of the tracker k, if its own is c: what is pending in both,
\* modifyOtherKeys, the levels since the dump, and what is under them if it was the
\* same then.
Tells(k, c, n, below) ==
  /\ c.scan = k.scan /\ c.other = k.other
  /\ SameAbove(k, c, n)
  /\ IF below THEN n > 0 ELSE TopAt(k, n) = TopAt(c, n)

\* Then the tops of the two stacks are the same.
LEMMA TellingTops ==
  ASSUME NEW k \in Trackers, NEW c \in Trackers, NEW n, NEW below \in BOOLEAN, Tells(k, c, n, below)
  PROVE  Top(k) = Top(c)
  <1>1. n \in Nat /\ n <= Len(k.stack) /\ n <= Len(c.stack) BY DEF Tells, SameAbove
  <1>2. k.stack \in Seq(SUBSET {1, 2}) /\ c.stack \in Seq(SUBSET {1, 2}) BY DEF Trackers
  <1>3. CASE n = 0 BY <1>3, TopIs DEF Tells
  <1>4. CASE n # 0
    <2>1. 0 \in 0 .. (n - 1) /\ Len(k.stack) > 0 /\ Len(c.stack) > 0 BY <1>1, <1>2, <1>4
    <2>2. Under(k, 0) = Under(c, 0) BY <2>1 DEF Tells, SameAbove
    <2> QED BY <2>1, <2>2, TopIs
  <1> QED BY <1>3, <1>4

\* So the client encodes as the program expects.
LEMMA TellingAgrees ==
  ASSUME NEW k \in Trackers, NEW c \in Trackers, NEW n, NEW below \in BOOLEAN, Tells(k, c, n, below)
  PROVE  Encoding(c) = Encoding(k)
  BY TellingTops DEF Encoding, Tells

---------------------------------------------------------------------------
(* What a chunk brings, to the client and to the log. *)

\* Client and supervisor stay agreed when both are fed a piece that the client can
\* follow: one that uncovers nothing it was not told of.
LEMMA PieceTells ==
  ASSUME NEW k \in Trackers, NEW c \in Trackers, NEW n, NEW below \in BOOLEAN, Tells(k, c, n, below),
         NEW p \in Pieces, p \in TailPieces <=> k.scan = "Csi",
         NEW m, m = n + Nesting(p),
         ~(Nesting(p) = -1 /\ (m < 0 \/ (below /\ m = 0))),
         NEW kk, kk = FeedPiece(k, p), NEW cc, cc = FeedPiece(c, p)
  PROVE  kk \in Trackers /\ cc \in Trackers /\ Tells(kk, cc, m, below)
  <1>1. kk \in Trackers /\ cc \in Trackers BY FedIs
  <1>2. n \in Nat /\ c.scan = k.scan /\ c.other = k.other /\ SameAbove(k, c, n)
    BY DEF Tells, SameAbove
  <1>3. CASE k.scan = "Ground"
    <2>1. p \notin TailPieces BY <1>3
    <2>2. Nesting(p) = 0 BY <2>1 DEF Pieces, Plain, Nesting
    <2>3. m = n BY <1>2, <2>2
    <2>4. /\ kk.stack = k.stack /\ kk.other = k.other
          /\ kk.scan = IF p.op = "head" THEN "Csi" ELSE "Ground"
      BY <1>3, FedIs
    <2>5. /\ cc.stack = c.stack /\ cc.other = c.other
          /\ cc.scan = IF p.op = "head" THEN "Csi" ELSE "Ground"
      BY <1>2, <1>3, FedIs
    <2>6. SameAbove(kk, cc, n) BY <1>2, <2>4, <2>5 DEF SameAbove, Under
    <2>7. TopAt(kk, n) = TopAt(k, n) /\ TopAt(cc, n) = TopAt(c, n) BY <2>4, <2>5 DEF TopAt, Under
    <2> QED BY <1>1, <1>2, <2>3, <2>4, <2>5, <2>6, <2>7 DEF Tells
  <1>4. CASE k.scan = "Csi"
    <2>1. p \in TailPieces BY <1>4
    <2>2. Nesting(p) \in {-1, 0, 1} BY DEF Nesting
    <2>3. m \in Nat /\ (below => m > 0) BY <1>2, <2>2 DEF Tells
    <2>4. kk.stack = Dispatched(k, p).stack /\ kk.other = Dispatched(k, p).other /\ kk.scan = "Ground"
      BY <1>4, <2>1, FedIs
    <2>5. cc.stack = Dispatched(c, p).stack /\ cc.other = Dispatched(c, p).other /\ cc.scan = "Ground"
      BY <1>2, <1>4, <2>1, FedIs
    <2>6. /\ Dispatched(k, p).other
               = (IF p.op = "other" THEN TRUE ELSE IF p.op = "legacy" THEN FALSE ELSE k.other)
          /\ Dispatched(c, p).other
               = (IF p.op = "other" THEN TRUE ELSE IF p.op = "legacy" THEN FALSE ELSE c.other)
      BY <2>1, DispatchedIs
    <2>7. SameAbove(kk, cc, m) /\ (TopAt(k, n) = TopAt(c, n) => TopAt(kk, m) = TopAt(cc, m))
      BY <1>1, <1>2, <2>1, <2>3, <2>4, <2>5, LevelsOfTwo
    <2> QED BY <1>1, <1>2, <2>3, <2>4, <2>5, <2>6, <2>7 DEF Tells
  <1> QED BY <1>3, <1>4 DEF Trackers

\* The chunks a program writes to a tracker k.
Chunk(k, chunk) ==
  \/ /\ k.scan = "Ground"
     /\ \/ chunk = <<Plain("head")>>
        \/ chunk = <<Plain("line")>>
        \/ \E tail \in Tails : chunk = <<Plain("head"), tail>>
  \/ k.scan = "Csi" /\ \E tail \in Tails : chunk = <<tail>>

\* A chunk is one piece, or a head and a tail.
LEMMA ChunkIs ==
  ASSUME NEW k, NEW chunk, Chunk(k, chunk)
  PROVE  /\ chunk \in Seq(Pieces)
         /\ \/ \E p \in Pieces : chunk = <<p>> /\ (p \in TailPieces <=> k.scan = "Csi")
            \/ k.scan = "Ground" /\ \E p \in TailPieces : chunk = <<Plain("head"), p>>
  <1>1. Plain("head") \notin TailPieces /\ Plain("line") \notin TailPieces
    BY DEF Plain, TailPieces
  <1>2. CASE k.scan = "Ground" /\ chunk = <<Plain("head")>>
    <2>1. Plain("head") \in Pieces BY PiecesAre
    <2> QED BY <1>1, <1>2, <2>1
  <1>3. CASE k.scan = "Ground" /\ chunk = <<Plain("line")>>
    <2>1. Plain("line") \in Pieces BY PiecesAre
    <2> QED BY <1>1, <1>3, <2>1
  <1>4. ASSUME k.scan = "Ground", NEW tail \in Tails, chunk = <<Plain("head"), tail>>
        PROVE  chunk \in Seq(Pieces) /\ \E p \in TailPieces : chunk = <<Plain("head"), p>>
    <2>1. tail \in TailPieces /\ tail \in Pieces /\ Plain("head") \in Pieces
      BY TailsAreThese, PiecesAre
    <2> QED BY <1>4, <2>1
  <1>5. ASSUME k.scan = "Csi", NEW tail \in Tails, chunk = <<tail>>
        PROVE  chunk \in Seq(Pieces) /\ \E p \in TailPieces : p \in Pieces /\ chunk = <<p>>
    <2>1. tail \in TailPieces /\ tail \in Pieces BY TailsAreThese, PiecesAre
    <2> QED BY <1>5, <2>1
  <1> QED BY <1>2, <1>3, <1>4, <1>5 DEF Chunk

\* The same for a chunk.
LEMMA ChunkTells ==
  ASSUME NEW k \in Trackers, NEW c \in Trackers, NEW n, NEW below \in BOOLEAN, Tells(k, c, n, below),
         NEW chunk, Chunk(k, chunk), NEW m, m = n + Nesting(Last(chunk)),
         ~(Nesting(Last(chunk)) = -1 /\ (m < 0 \/ (below /\ m = 0)))
  PROVE  Tells(Feed(k, chunk), Feed(c, chunk), m, below)
  <1>1. ASSUME NEW p \in Pieces, chunk = <<p>>, p \in TailPieces <=> k.scan = "Csi"
        PROVE  Tells(Feed(k, chunk), Feed(c, chunk), m, below)
    <2>1. Last(chunk) = p BY <1>1 DEF Last
    <2>2. Feed(k, chunk) = FeedPiece(k, p) /\ Feed(c, chunk) = FeedPiece(c, p) BY <1>1, FeedOne
    <2>3. Tells(FeedPiece(k, p), FeedPiece(c, p), m, below) BY <1>1, <2>1, PieceTells
    <2> QED BY <2>2, <2>3
  <1>2. ASSUME k.scan = "Ground", NEW p \in TailPieces, chunk = <<Plain("head"), p>>
        PROVE  Tells(Feed(k, chunk), Feed(c, chunk), m, below)
    <2>1. Last(chunk) = p BY <1>2 DEF Last
    <2>2. PICK h : h = Plain("head") OBVIOUS
    <2>3. h \in Pieces /\ p \in Pieces /\ h.op = "head" /\ h \notin TailPieces
      BY <2>2, PiecesAre DEF Plain, TailPieces
    <2>4. PICK kk : kk = FeedPiece(k, h) OBVIOUS
    <2>5. PICK cc : cc = FeedPiece(c, h) OBVIOUS
    <2>6. Feed(k, chunk) = FeedPiece(kk, p) /\ Feed(c, chunk) = FeedPiece(cc, p)
      BY <1>2, <2>2, <2>3, <2>4, <2>5, FeedOne
    <2>7. Nesting(h) = 0 /\ n = n + Nesting(h) /\ n \in Nat
      BY <2>3 DEF Nesting, Tells, SameAbove
    <2>8. kk \in Trackers /\ cc \in Trackers /\ Tells(kk, cc, n, below)
      BY <1>2, <2>3, <2>4, <2>5, <2>7, PieceTells
    <2>9. kk.scan = "Csi" BY <1>2, <2>3, <2>4, FedIs
    <2>10. Tells(FeedPiece(kk, p), FeedPiece(cc, p), m, below)
      BY <2>1, <2>3, <2>8, <2>9, PieceTells
    <2> QED BY <2>6, <2>10
  <1> QED BY <1>1, <1>2, ChunkIs

\* Output of which the tracker k is what it makes of some tracker between sequences.
Told(k, ps) ==
  /\ WellFormed(ps)
  /\ \E tr : Run(tr, ps) /\ tr[0] \in Trackers /\ tr[0].scan = "Ground" /\ tr[Len(ps)] = k

\* The same with one more piece.
LEMMA ToldPiece ==
  ASSUME NEW k, NEW ps, Told(k, ps), NEW p \in Pieces, p \in TailPieces <=> k.scan = "Csi"
  PROVE  Told(FeedPiece(k, p), Append(ps, p)) /\ k \in Trackers
  <1> DEFINE n == Len(ps)
             qs == Append(ps, p)
  <1>1. PICK tr : Run(tr, ps) /\ tr[0] \in Trackers /\ tr[0].scan = "Ground" /\ tr[n] = k
    BY DEF Told
  <1>2. WellFormed(ps) /\ ps \in Seq(Pieces) /\ n \in Nat BY DEF Told, WellFormed
  <1>3. /\ qs \in Seq(Pieces) /\ Len(qs) = n + 1 /\ qs[n + 1] = p
        /\ \A i \in 1 .. n : qs[i] = ps[i]
    BY <1>2
  <1>4. k \in Trackers /\ (k.scan = "Csi" <=> n > 0 /\ ps[n] = Plain("head"))
    <2>1. n \in 0 .. Len(ps) BY <1>2
    <2> QED BY <1>1, <1>2, <2>1, ScanAt
  <1> HIDE DEF qs, n
  <1>5. WellFormed(qs)
    <2> SUFFICES ASSUME NEW i \in 1 .. (n + 1)
                 PROVE  qs[i] \in TailPieces <=> (i > 1 /\ qs[i - 1] = Plain("head"))
      BY <1>3 DEF WellFormed
    <2>1. CASE i = n + 1
      <3>1. n > 0 => n \in 1 .. n /\ i - 1 = n BY <1>2, <2>1
      <3>2. i > 1 <=> n > 0 BY <1>2, <2>1
      <3>3. n > 0 => qs[i - 1] = ps[n] BY <1>3, <3>1
      <3> QED BY <1>3, <1>4, <2>1, <3>2, <3>3
    <2>2. CASE i # n + 1
      <3>1. i \in 1 .. n /\ (i > 1 => i - 1 \in 1 .. n) BY <1>2, <2>2
      <3>2. ps[i] \in TailPieces <=> (i > 1 /\ ps[i - 1] = Plain("head"))
        BY <1>2, <3>1 DEF WellFormed, n
      <3>3. qs[i] = ps[i] /\ (i > 1 => qs[i - 1] = ps[i - 1]) BY <1>3, <3>1
      <3> QED BY <3>2, <3>3
    <2> QED BY <2>1, <2>2
  <1> DEFINE tq == [i \in 0 .. (n + 1) |-> IF i = n + 1 THEN FeedPiece(k, p) ELSE tr[i]]
  <1>6. tq[n + 1] = FeedPiece(k, p) /\ \A i \in 0 .. n : tq[i] = tr[i] BY <1>2
  <1> HIDE DEF tq
  <1>7. Run(tq, qs)
    <2> SUFFICES ASSUME NEW i \in 1 .. (n + 1) PROVE tq[i] = FeedPiece(tq[i - 1], qs[i])
      BY <1>3 DEF Run
    <2>1. CASE i = n + 1
      <3>1. i - 1 = n /\ n \in 0 .. n BY <1>2, <2>1
      <3> QED BY <1>1, <1>3, <1>6, <2>1, <3>1
    <2>2. CASE i # n + 1
      <3>1. i \in 1 .. n /\ i \in 0 .. n /\ i - 1 \in 0 .. n BY <1>2, <2>2
      <3>2. tr[i] = FeedPiece(tr[i - 1], ps[i]) BY <1>1, <3>1 DEF Run, n
      <3> QED BY <1>3, <1>6, <3>1, <3>2
    <2> QED BY <2>1, <2>2
  <1>8. tq[0] = tr[0] BY <1>2, <1>6
  <1>9. Told(FeedPiece(k, p), qs) BY <1>1, <1>3, <1>5, <1>6, <1>7, <1>8 DEF Told
  <1> QED BY <1>4, <1>9 DEF qs

\* With one more chunk.
LEMMA ToldChunk ==
  ASSUME NEW k, NEW ps, Told(k, ps), NEW chunk, Chunk(k, chunk)
  PROVE  Told(Feed(k, chunk), ps \o chunk)
  <1>1. ps \in Seq(Pieces) BY DEF Told, WellFormed
  <1>2. ASSUME NEW p \in Pieces, chunk = <<p>>, p \in TailPieces <=> k.scan = "Csi"
        PROVE  Told(Feed(k, chunk), ps \o chunk)
    <2>1. ps \o chunk = Append(ps, p) BY <1>1, <1>2
    <2>2. Feed(k, chunk) = FeedPiece(k, p) BY <1>2, FeedOne
    <2> QED BY <1>2, <2>1, <2>2, ToldPiece
  <1>3. ASSUME k.scan = "Ground", NEW p \in TailPieces, chunk = <<Plain("head"), p>>
        PROVE  Told(Feed(k, chunk), ps \o chunk)
    <2>1. PICK h : h = Plain("head") OBVIOUS
    <2>2. h \in Pieces /\ p \in Pieces /\ h.op = "head" /\ h \notin TailPieces
      BY <2>1, PiecesAre DEF Plain, TailPieces
    <2>3. PICK kk : kk = FeedPiece(k, h) OBVIOUS
    <2>4. Feed(k, chunk) = FeedPiece(kk, p) BY <1>3, <2>1, <2>2, <2>3, FeedOne
    <2>5. ps \o chunk = Append(Append(ps, h), p) BY <1>1, <1>3, <2>1, <2>2
    <2>6. Told(kk, Append(ps, h)) /\ k \in Trackers BY <1>3, <2>2, <2>3, ToldPiece
    <2>7. kk.scan = "Csi" BY <1>3, <2>2, <2>3, <2>6, FedIs
    <2>8. Told(FeedPiece(kk, p), Append(Append(ps, h), p)) BY <2>2, <2>6, <2>7, ToldPiece
    <2> QED BY <2>4, <2>5, <2>8
  <1> QED BY <1>2, <1>3, ChunkIs

\* Without what comes before a newline.
LEMMA ToldCut ==
  ASSUME NEW k, NEW ps, Told(k, ps), NEW e \in 1 .. Len(ps), ps[e].op = "line"
  PROVE  Told(k, SubSeq(ps, e + 1, Len(ps)))
  <1> DEFINE n == Len(ps)
             qs == SubSeq(ps, e + 1, n)
             m == n - e
  <1>1. PICK tr : Run(tr, ps) /\ tr[0] \in Trackers /\ tr[0].scan = "Ground" /\ tr[n] = k
    BY DEF Told
  <1>2. WellFormed(ps) /\ ps \in Seq(Pieces) /\ n \in Nat /\ e \in Nat \ {0} /\ m \in Nat
    BY DEF Told, WellFormed
  <1>3. qs \in Seq(Pieces) /\ Len(qs) = m /\ \A i \in 1 .. m : qs[i] = ps[e + i]
    <2>1. \A i \in (e + 1) .. n : ps[i] \in Pieces BY <1>2
    <2> QED BY <1>2, <2>1
  <1>4. ps[e] # Plain("head") BY DEF Plain
  <1>5. tr[e] \in Trackers /\ tr[e].scan = "Ground"
    <2>1. e \in 0 .. Len(ps) BY <1>2
    <2>2. tr[e] \in Trackers /\ tr[e].scan # "Csi" BY <1>1, <1>2, <1>4, <2>1, ScanAt
    <2> QED BY <2>2 DEF Trackers
  <1> HIDE DEF n, qs, m
  <1>6. n = e + m BY <1>2 DEF m
  <1>7. WellFormed(qs)
    <2> SUFFICES ASSUME NEW i \in 1 .. m
                 PROVE  qs[i] \in TailPieces <=> (i > 1 /\ qs[i - 1] = Plain("head"))
      BY <1>3 DEF WellFormed
    <2>1. e + i \in 1 .. Len(ps) BY <1>2, <1>6 DEF n
    <2>2. ps[e + i] \in TailPieces <=> (e + i > 1 /\ ps[(e + i) - 1] = Plain("head"))
      BY <1>2, <2>1 DEF WellFormed
    <2>3. CASE i = 1
      <3>1. (e + i) - 1 = e BY <1>2, <2>3
      <3> QED BY <1>3, <1>4, <2>2, <2>3, <3>1
    <2>4. CASE i # 1
      <3>1. i > 1 /\ e + i > 1 /\ i - 1 \in 1 .. m /\ (e + i) - 1 = e + (i - 1) BY <1>2, <2>4
      <3> QED BY <1>3, <2>2, <3>1
    <2> QED BY <2>3, <2>4
  <1> DEFINE tq == [i \in 0 .. m |-> tr[e + i]]
  <1>8. \A i \in 0 .. m : tq[i] = tr[e + i] OBVIOUS
  <1> HIDE DEF tq
  <1>9. Run(tq, qs)
    <2> SUFFICES ASSUME NEW i \in 1 .. m PROVE tq[i] = FeedPiece(tq[i - 1], qs[i])
      BY <1>3 DEF Run
    <2>1. e + i \in 1 .. Len(ps) /\ (e + i) - 1 = e + (i - 1) BY <1>2, <1>6 DEF n
    <2>2. i \in 0 .. m /\ i - 1 \in 0 .. m BY <1>2
    <2>3. tr[e + i] = FeedPiece(tr[e + (i - 1)], ps[e + i]) BY <1>1, <2>1 DEF Run
    <2> QED BY <1>3, <1>8, <2>2, <2>3
  <1>10. tq[0] = tr[e] /\ tq[m] = tr[n]
    <2>1. 0 \in 0 .. m /\ m \in 0 .. m /\ e + 0 = e BY <1>2
    <2> QED BY <1>6, <1>8, <2>1
  <1>11. Told(k, qs) BY <1>1, <1>3, <1>5, <1>7, <1>9, <1>10 DEF Told
  <1> QED BY <1>11 DEF qs, n

Logs == [buf : Seq(Pieces), truncated : BOOLEAN]

\* The log with one more chunk: unless it has been cut within a line, it is again
\* output that the tracker has come from.
LEMMA LogTells ==
  ASSUME log \in Logs, NEW chunk, Chunk(kbd, chunk), ~log.truncated => Told(kbd, log.buf)
  PROVE  /\ Logged(chunk) \in Logs
         /\ ~Logged(chunk).truncated => Told(Feed(kbd, chunk), Logged(chunk).buf)
  <1> DEFINE all == log.buf \o chunk
             size == Len(all)
             cut == IF size <= LogCap THEN all ELSE SubSeq(all, size - LogCap + 1, size)
             lines == {i \in DOMAIN cut : i <= ScanWindow /\ cut[i].op = "line"}
             first == CHOOSE i \in lines : \A j \in lines : i <= j
             k == Feed(kbd, chunk)
  <1>1. /\ log.buf \in Seq(Pieces) /\ log.truncated \in BOOLEAN
        /\ log = [buf |-> log.buf, truncated |-> log.truncated]
    BY DEF Logs
  <1>2. chunk \in Seq(Pieces) BY ChunkIs
  <1>3. all \in Seq(Pieces) /\ size \in Nat BY <1>1, <1>2
  <1>4. ~log.truncated => Told(k, all) BY ToldChunk
  <1>5. LogCap \in Nat BY LogCapAssumption
  <1>6. Logged(chunk) = IF size <= LogCap THEN [log EXCEPT !.buf = all]
                        ELSE IF lines = {} THEN [buf |-> cut, truncated |-> TRUE]
                        ELSE [log EXCEPT !.buf = SubSeq(cut, first + 1, Len(cut))]
    BY DEF Logged
  <1> HIDE DEF all, size, k
  <1>7. CASE size <= LogCap
    <2>1. Logged(chunk) = [buf |-> all, truncated |-> log.truncated] BY <1>1, <1>6, <1>7
    <2> QED BY <1>1, <1>3, <1>4, <2>1 DEF Logs, k
  <1>8. CASE ~(size <= LogCap)
    <2> DEFINE d == size - LogCap
    <2>1. d \in Nat /\ d + LogCap = size /\ d > 0 BY <1>3, <1>5, <1>8
    <2>2. cut = SubSeq(all, d + 1, size) BY <1>8
    <2> HIDE DEF d
    <2>3. cut \in Seq(Pieces) /\ Len(cut) = LogCap /\ DOMAIN cut = 1 .. LogCap
          /\ \A i \in 1 .. LogCap : cut[i] = all[d + i]
      <3> HIDE DEF cut
      <3>1. \A i \in (d + 1) .. size : all[i] \in Pieces BY <1>3, <2>1 DEF size
      <3> QED BY <1>3, <1>5, <2>1, <2>2, <3>1 DEF size
    <2> HIDE DEF cut
    <2>4. CASE lines = {}
      <3>1. Logged(chunk) = [buf |-> cut, truncated |-> TRUE] BY <1>6, <1>8, <2>4
      <3> QED BY <2>3, <3>1 DEF Logs
    <2>5. CASE lines # {}
      <3>1. lines \in SUBSET Nat BY <2>3
      <3>2. first \in lines
        <4>1. \E i \in lines : \A j \in lines : i <= j
          <5> HIDE DEF lines
          <5> QED BY <2>5, <3>1, LeastOf
        <4> QED BY <4>1
      <3>3. first \in 1 .. LogCap /\ cut[first].op = "line" BY <2>3, <3>2
      <3> HIDE DEF first, lines
      <3> DEFINE rest == SubSeq(cut, first + 1, Len(cut))
                 e == d + first
                 tail == SubSeq(all, e + 1, size)
      <3>4. Logged(chunk) = [buf |-> rest, truncated |-> log.truncated] BY <1>1, <1>6, <1>8, <2>5
      <3>5. e \in 1 .. size /\ all[e].op = "line" BY <1>5, <2>1, <2>3, <3>3
      <3>6. rest = tail
        <4>1. /\ rest \in Seq(Pieces) /\ Len(rest) = LogCap - first
              /\ \A i \in 1 .. (LogCap - first) : rest[i] = cut[first + i]
          BY <1>5, <2>3, <3>3
        <4>2. /\ tail \in Seq(Pieces) /\ Len(tail) = size - e
              /\ \A i \in 1 .. (size - e) : tail[i] = all[e + i]
          <5>1. \A i \in (e + 1) .. size : all[i] \in Pieces BY <1>3, <3>5 DEF size
          <5> QED BY <1>3, <3>5, <5>1 DEF size
        <4>3. size - e = LogCap - first BY <1>5, <2>1, <3>3
        <4> HIDE DEF rest, tail
        <4>4. ASSUME NEW i \in 1 .. (LogCap - first) PROVE rest[i] = tail[i]
          <5>1. first + i \in 1 .. LogCap /\ d + (first + i) = e + i BY <1>5, <2>1, <3>3
          <5>2. i \in 1 .. (size - e) BY <4>3
          <5>3. rest[i] = cut[first + i] /\ cut[first + i] = all[d + (first + i)]
            BY <2>3, <4>1, <5>1
          <5>4. tail[i] = all[e + i] BY <4>2, <5>2
          <5> QED BY <5>1, <5>3, <5>4
        <4>5. Len(rest) = Len(tail) /\ \A i \in 1 .. Len(rest) : rest[i] = tail[i]
          BY <4>1, <4>2, <4>3, <4>4
        <4> QED BY <4>1, <4>2, <4>5, SeqEqual
      <3>7. rest \in Seq(Pieces) BY <1>5, <2>3, <3>3
      <3>8. ~log.truncated => Told(k, tail) BY <1>4, <3>5, ToldCut DEF size
      <3> HIDE DEF rest, tail
      <3>9. ~log.truncated => Told(k, rest) BY <3>6, <3>8
      <3> QED BY <1>1, <3>4, <3>7, <3>9 DEF Logs, k
    <2> QED BY <2>4, <2>5
  <1> QED BY <1>7, <1>8

\* A dump tells a client of the tracker k that has come from the output replayed, if
\* that pops no more than it pushes, and the client knows nothing else.
LEMMA DumpTells ==
  ASSUME NEW k \in Trackers, NEW ps, Told(k, ps), NEW t \in Trackers, t.scan = "Ground",
         NEW modes \in ModeSets, Top(k) = {} => Top(t) = {}, t.other => k.other,
         ~Levels(ps).below
  PROVE  Tells(k, Feed(t, modes \o Prelude(k) \o ps), Levels(ps).end, Levels(ps).end > 0)
  <1> DEFINE n == Len(ps)
             pre == modes \o Prelude(k)
             l == LevelAt(ps, n)
  <1>1. PICK tr : Run(tr, ps) /\ tr[0] \in Trackers /\ tr[0].scan = "Ground" /\ tr[n] = k
    BY DEF Told
  <1>2. WellFormed(ps) /\ ps \in Seq(Pieces) /\ n \in Nat BY DEF Told, WellFormed
  <1>3. PICK b : b = Feed(t, pre) OBVIOUS
  <1>4. /\ pre \in Seq(Pieces)
        /\ b \in Trackers /\ b.scan = "Ground" /\ Top(b) = Top(k) /\ b.other = k.other
    BY <1>3, PreludeTells
  <1> HIDE DEF pre
  <1>5. PICK c : c = Feed(b, ps) OBVIOUS
  <1>6. Feed(t, pre \o ps) = c BY <1>2, <1>3, <1>4, <1>5, FeedConcat
  <1>7. PICK tc : tc[0] = b /\ Run(tc, ps) /\ tc[n] = c BY <1>2, <1>5, FeedRuns
  <1>8. Levels(ps).end = l /\ \A i \in DOMAIN ps : ~(LevelAt(ps, i) < 0) BY LevelsAre
  <1>9. n \in 0 .. Len(ps) BY <1>2
  <1>10. /\ k \in Trackers /\ c \in Trackers /\ k.scan = c.scan
         /\ SameAbove(k, c, l)
         /\ Alike(TopAt(k, l), TopAt(c, l), TopAt(tr[0], 0), TopAt(b, 0))
         /\ k.other = c.other \/ (k.other = tr[0].other /\ c.other = b.other)
    <2> HIDE DEF n
    <2>1. \A i \in 0 .. Len(ps) :
            /\ tr[i] \in Trackers /\ tc[i] \in Trackers /\ tr[i].scan = tc[i].scan
            /\ SameAbove(tr[i], tc[i], LevelAt(ps, i))
            /\ Alike(TopAt(tr[i], LevelAt(ps, i)), TopAt(tc[i], LevelAt(ps, i)),
                     TopAt(tr[0], 0), TopAt(tc[0], 0))
            /\ tr[i].other = tc[i].other \/ (tr[i].other = tr[0].other /\ tc[i].other = tc[0].other)
      BY <1>1, <1>2, <1>4, <1>7, <1>8, Replays
    <2> QED BY <1>1, <1>7, <1>9, <2>1
  <1>11. k.other = c.other BY <1>4, <1>10
  <1>12. ~(l > 0) => TopAt(k, l) = TopAt(c, l)
    <2> SUFFICES ASSUME ~(l > 0) PROVE TopAt(k, l) = TopAt(c, l) OBVIOUS
    <2>1. l = 0
      <3>1. l \in Nat BY <1>10 DEF SameAbove
      <3> HIDE DEF l
      <3> QED BY <3>1
    <2>2. Top(k) = TopAt(k, 0) /\ Top(b) = TopAt(b, 0) BY <1>4, <1>10, TopIs
    <2>3. TopAt(b, 0) = TopAt(k, 0) BY <1>4, <2>2
    <2>4. Alike(TopAt(k, 0), TopAt(c, 0), TopAt(tr[0], 0), TopAt(b, 0)) BY <1>10, <2>1
    <2>5. TopAt(k, 0) = TopAt(c, 0) BY <2>3, <2>4, AlikeSame
    <2> QED BY <2>1, <2>5
  <1> HIDE DEF l
  <1>13. Tells(k, c, l, l > 0) BY <1>10, <1>11, <1>12 DEF Tells
  <1> QED BY <1>6, <1>8, <1>13 DEF pre

---------------------------------------------------------------------------
(* The invariant. *)

KbdTypeOK ==
  /\ kbd \in Trackers /\ client \in Trackers /\ log \in Logs
  /\ dumps \in {0, 1, 2} /\ level \in Int /\ nested \in BOOLEAN /\ doubtful \in BOOLEAN

\* The inductive invariant: the log is output that the supervisor's tracker has come
\* from, and a client that can know does.
KbdInv ==
  /\ KbdTypeOK
  /\ ~log.truncated => Told(kbd, log.buf)
  /\ dumps > 0 /\ ~doubtful => Tells(kbd, client, level, nested)

\* A tracker between sequences has come from itself.
LEMMA ToldNothing ==
  ASSUME NEW k \in Trackers, k.scan = "Ground"
  PROVE  Told(k, <<>>)
  <1> DEFINE tr == [i \in {0} |-> k]
  <1>1. tr[0] = k OBVIOUS
  <1> HIDE DEF tr
  <1>2. <<>> \in Seq(Pieces) /\ Len(<<>>) = 0 OBVIOUS
  <1>3. Run(tr, <<>>) BY <1>2 DEF Run
  <1>4. WellFormed(<<>>) BY <1>2 DEF WellFormed
  <1> QED BY <1>1, <1>2, <1>3, <1>4 DEF Told

\* It holds at first.
LEMMA KbdInvInit == KbdInit => KbdInv
  <1> SUFFICES ASSUME KbdInit PROVE KbdInv OBVIOUS
  <1>1. Fresh \in Trackers /\ Fresh.scan = "Ground" BY DEF Fresh, Trackers
  <1>2. <<>> \in Seq(Pieces) /\ Len(<<>>) = 0 OBVIOUS
  <1>3. KbdTypeOK
    <2>1. log \in Logs BY <1>2 DEF KbdInit, Logs
    <2>2. kbd \in Trackers /\ client \in Trackers BY <1>1 DEF KbdInit
    <2>3. dumps \in {0, 1, 2} /\ level \in Int BY DEF KbdInit
    <2>4. nested \in BOOLEAN /\ doubtful \in BOOLEAN BY DEF KbdInit
    <2> QED BY <2>1, <2>2, <2>3, <2>4 DEF KbdTypeOK
  <1>4. Told(kbd, <<>>) BY <1>1, ToldNothing DEF KbdInit
  <1> QED BY <1>3, <1>4 DEF KbdInit, KbdInv

\* Output keeps it.
LEMMA KbdInvOutput ==
  ASSUME KbdInv, NEW chunk, Chunk(kbd, chunk), Output(chunk)
  PROVE  KbdInv'
  <1> DEFINE step == Nesting(Last(chunk))
  <1>1. /\ kbd' = Feed(kbd, chunk) /\ log' = Logged(chunk)
        /\ client' = IF dumps = 0 THEN client ELSE Feed(client, chunk)
        /\ level' = level + step
        /\ doubtful' = (doubtful \/ (step = -1 /\ (level' < 0 \/ (nested /\ level' = 0))))
        /\ dumps' = dumps /\ nested' = nested
    BY DEF Output, Nesting
  <1>2. /\ kbd \in Trackers /\ client \in Trackers /\ log \in Logs
        /\ dumps \in {0, 1, 2} /\ level \in Int /\ nested \in BOOLEAN /\ doubtful \in BOOLEAN
    BY DEF KbdInv, KbdTypeOK
  <1>3. chunk \in Seq(Pieces) BY ChunkIs
  <1>4. Logged(chunk) \in Logs /\ (~Logged(chunk).truncated => Told(Feed(kbd, chunk), Logged(chunk).buf))
    BY <1>2, LogTells DEF KbdInv
  <1>5. Feed(kbd, chunk) \in Trackers /\ Feed(client, chunk) \in Trackers BY <1>2, <1>3, FeedTyped
  <1>6. step \in Int BY DEF Nesting
  <1> HIDE DEF step
  <1>7. KbdTypeOK' BY <1>1, <1>2, <1>4, <1>5, <1>6 DEF KbdTypeOK
  <1>8. ~log'.truncated => Told(kbd', log'.buf) BY <1>1, <1>4
  <1>9. ASSUME dumps' > 0, ~doubtful' PROVE Tells(kbd', client', level', nested')
    <2>1. dumps > 0 /\ dumps # 0 /\ ~doubtful BY <1>1, <1>2, <1>9
    <2>2. Tells(kbd, client, level, nested) BY <2>1 DEF KbdInv
    <2>3. ~(step = -1 /\ (level' < 0 \/ (nested /\ level' = 0))) BY <1>1, <1>9
    <2>4. PICK m : m = level' OBVIOUS
    <2>5. Tells(Feed(kbd, chunk), Feed(client, chunk), m, nested)
      BY <1>1, <1>2, <2>2, <2>3, <2>4, ChunkTells DEF step
    <2> QED BY <1>1, <2>1, <2>4, <2>5
  <1> QED BY <1>7, <1>8, <1>9 DEF KbdInv

\* So does a dump, to a client that has just connected or has had one.
LEMMA KbdInvDumped ==
  ASSUME KbdInv, NEW t \in Trackers, Dumped(t), dumps' \in {1, 2},
         dumps' = 1 \/ (~doubtful /\ kbd.scan = "Ground") =>
           t.scan = "Ground" /\ (Top(kbd) = {} => Top(t) = {}) /\ (t.other => kbd.other)
  PROVE  KbdInv'
  <1> DEFINE screen == log.buf = <<>> \/ log.truncated
             replayed == IF screen THEN <<>> ELSE log.buf
             end == Levels(replayed).end
             below == Levels(replayed).below
  <1>1. PICK modes \in ModeSets : client' = Feed(t, modes \o Prelude(kbd) \o replayed)
    BY DEF Dumped, ModeSets
  <1>2. /\ level' = end /\ nested' = (end > 0)
        /\ doubtful' = ((dumps' > 1 /\ doubtful) \/ below
                        \/ (kbd.scan = "Csi" /\ (screen \/ dumps' > 1)))
        /\ kbd' = kbd /\ log' = log
    BY DEF Dumped
  <1>3. kbd \in Trackers /\ log \in Logs /\ log.buf \in Seq(Pieces) BY DEF KbdInv, KbdTypeOK, Logs
  <1>4. replayed \in Seq(Pieces) /\ Len(replayed) \in Nat BY <1>3
  <1> HIDE DEF replayed
  <1>5. end \in Int
    <2>1. end = LevelAt(replayed, Len(replayed)) BY LevelsAre
    <2> QED BY <1>4, <2>1, LevelSteps
  <1>6. client' \in Trackers
    <2>1. modes \in Seq(Pieces) /\ Prelude(kbd) \in Seq(Pieces)
      BY <1>3, PreludeTyped
    <2>2. modes \o Prelude(kbd) \in Seq(Pieces) BY <2>1
    <2>3. modes \o Prelude(kbd) \o replayed \in Seq(Pieces) BY <1>4, <2>2
    <2> QED BY <1>1, <2>3, FeedTyped
  <1>7. (end > 0) \in BOOLEAN /\ doubtful' \in BOOLEAN
    <2>1. (end > 0) \in BOOLEAN OBVIOUS
    <2>2. doubtful' \in BOOLEAN BY <1>2
    <2> QED BY <2>1, <2>2
  <1>8. KbdTypeOK' BY <1>2, <1>3, <1>5, <1>6, <1>7 DEF KbdTypeOK
  <1>9. ASSUME ~doubtful' PROVE Tells(kbd', client', level', nested')
    <2>1. ~below /\ ~(dumps' > 1 /\ doubtful) /\ ~(kbd.scan = "Csi" /\ (screen \/ dumps' > 1))
      BY <1>2, <1>9
    <2>2. dumps' = 1 \/ (~doubtful /\ kbd.scan = "Ground") BY <1>3, <2>1 DEF Trackers
    <2>3. t.scan = "Ground" /\ (Top(kbd) = {} => Top(t) = {}) /\ (t.other => kbd.other) BY <2>2
    <2>4. Told(kbd, replayed)
      <3>1. CASE screen
        <4>1. kbd.scan = "Ground" BY <1>3, <2>1, <3>1 DEF Trackers
        <4>2. replayed = <<>> BY <3>1 DEF replayed
        <4> QED BY <1>3, <4>1, <4>2, ToldNothing
      <3>2. CASE ~screen
        <4>1. replayed = log.buf BY <3>2 DEF replayed
        <4>2. ~log.truncated BY <3>2
        <4> QED BY <4>1, <4>2 DEF KbdInv
      <3> QED BY <3>1, <3>2
    <2>5. Tells(kbd, Feed(t, modes \o Prelude(kbd) \o replayed), end, end > 0)
      BY <1>3, <2>1, <2>3, <2>4, DumpTells
    <2> QED BY <1>1, <1>2, <2>5
  <1>10. ~log'.truncated => Told(kbd', log'.buf) BY <1>2 DEF KbdInv
  <1> QED BY <1>8, <1>9, <1>10 DEF KbdInv

\* Every step keeps it.
LEMMA KbdInvNext ==
  ASSUME KbdInv, [KbdNext]_kbdVars
  PROVE  KbdInv'
  <1>1. CASE Write
    <2>1. PICK chunk : Chunk(kbd, chunk) /\ Output(chunk) BY <1>1 DEF Write, Chunk
    <2> QED BY <2>1, KbdInvOutput
  <1>2. CASE Attach
    <2>1. Dumped(Fresh) /\ dumps' = 1 BY <1>2 DEF Attach
    <2>2. Fresh \in Trackers /\ Fresh.scan = "Ground" /\ Top(Fresh) = {} /\ ~Fresh.other
      BY DEF Fresh, Trackers, Top
    <2> QED BY <2>1, <2>2, KbdInvDumped
  <1>3. CASE Adopt
    <2>1. Dumped(client) /\ dumps = 1 /\ dumps' = 2 BY <1>3 DEF Adopt
    <2>2. kbd \in Trackers /\ client \in Trackers BY DEF KbdInv, KbdTypeOK
    <2>3. ASSUME ~doubtful, kbd.scan = "Ground"
          PROVE  client.scan = "Ground" /\ (Top(kbd) = {} => Top(client) = {})
                 /\ (client.other => kbd.other)
      <3>1. Tells(kbd, client, level, nested) BY <2>1, <2>3 DEF KbdInv
      <3>2. Top(client) = Top(kbd) BY <2>2, <3>1, TellingTops DEF KbdInv, KbdTypeOK
      <3> QED BY <2>3, <3>1, <3>2 DEF Tells
    <2> QED BY <2>1, <2>2, <2>3, KbdInvDumped
  <1>4. CASE UNCHANGED kbdVars
    BY <1>4 DEF kbdVars, KbdInv, KbdTypeOK
  <1> QED BY <1>1, <1>2, <1>3, <1>4 DEF KbdNext

\* So it always holds.
LEMMA KbdInvHolds == KbdSpec => []KbdInv
  <1> QED BY KbdInvInit, KbdInvNext, PTL DEF KbdSpec

\* The client encodes modified keys as the program expects, unless it cannot know.
THEOREM KeysAgree == KbdSpec => []KeyboardAgrees
  <1>1. KbdInv => KeyboardAgrees
    <2> SUFFICES ASSUME KbdInv, dumps > 0, ~doubtful PROVE Encoding(client) = Encoding(kbd)
      BY DEF KeyboardAgrees
    <2>1. Tells(kbd, client, level, nested) BY DEF KbdInv
    <2>2. kbd \in Trackers /\ client \in Trackers /\ nested \in BOOLEAN BY DEF KbdInv, KbdTypeOK
    <2> QED BY <2>1, <2>2, TellingAgrees
  <1> QED BY <1>1, KbdInvHolds, PTL
=============================================================================
