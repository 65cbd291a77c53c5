---------------------------- MODULE KissProofs ----------------------------
(***************************************************************************)
(* Lemmas about the codec of kiss.c: the type of the parser's result, how  *)
(* it follows the frame being received byte by byte, and, after the line,  *)
(* what escaping a sequence of bytes gives, byte by byte.  That part       *)
(* is by induction over the sequence.  The induction theorems of the       *)
(* library take a predicate as parameter, which the provers cannot         *)
(* instantiate: Induction and SeqInduction are about a set of numbers or   *)
(* of sequences instead, and follow from the well-foundedness of <.        *)
(***************************************************************************)
EXTENDS Kiss, SequenceTheorems, WellFoundedInduction, TLAPS

\* A byte fed to a parser gives a parser (kiss_feed, every branch).
LEMMA FeedType ==
  ASSUME NEW kiss \in KissState, NEW byte \in Byte, NEW now \in Clock
  PROVE  kiss_feed(kiss, byte, now) \in KissState
<1> DEFINE live == Refresh(kiss, now)
<1>1. live \in KissState
  BY DEF Refresh, kiss_init, KissState
<1>2. kiss_feed(kiss, byte, now) =
        IF byte = FEND THEN FeedFend(live, now) ELSE FeedData(live, byte)
  BY DEF kiss_feed
<1> HIDE DEF live
<1>3. FeedFend(live, now) \in KissState
  <2>1. [live EXCEPT !.sawFend = TRUE] \in KissState
    BY <1>1 DEF KissState
  <2>2. [live EXCEPT !.haveFrame = TRUE] \in KissState
    BY <1>1 DEF KissState
  <2>3. [kiss_init(now) EXCEPT !.sawFend = TRUE] \in KissState
    <3>1. kiss_init(now) \in KissState
      BY DEF KissState, kiss_init
    <3> QED
      BY <3>1 DEF KissState
  <2> QED
    BY <2>1, <2>2, <2>3 DEF FeedFend
<1>4. FEND \in Byte /\ FESC \in Byte
  BY DEF FEND, FESC, Byte
<1>5. FeedData(live, byte) \in KissState
  <2>1. [live EXCEPT !.inFrame = TRUE, !.inEscape = TRUE] \in KissState
    BY <1>1 DEF KissState
  <2>2. ASSUME NEW b \in Byte
        PROVE  /\ [live EXCEPT !.inFrame = TRUE, !.inEscape = FALSE,
                               !.buffer = Append(@, b)] \in KissState
               /\ [live EXCEPT !.inFrame = TRUE, !.buffer = Append(@, b)] \in KissState
    <3>1. Append(live.buffer, b) \in Seq(Byte)
      BY <1>1 DEF KissState
    <3> QED
      BY <1>1, <3>1 DEF KissState
  <2>3. (IF byte = TFEND THEN FEND ELSE FESC) \in Byte
    BY <1>4
  <2> QED
    BY <2>1, <2>2, <2>3 DEF FeedData
<1> QED
  BY <1>2, <1>3, <1>5

---------------------------------------------------------------------------
(* The peer is sending content: body says that it is inside the frame, i   *)
(* how many bytes of it are out, e whether the FESC of the next one is.    *)
(* A parser that has no complete frame tracks it when it holds exactly     *)
(* that part, or knows (by sawFend) that it missed the beginning.          *)

Tracks(kiss, body, content, i, e) ==
  /\ ~kiss.inFrame => /\ kiss.buffer = <<>> /\ ~kiss.inEscape
                      /\ body /\ kiss.sawFend => i = 0 /\ ~e
  /\ kiss.inFrame => body /\ Len(kiss.buffer) <= i
  /\ kiss.inFrame /\ kiss.sawFend =>
       kiss.buffer = SubSeq(content, 1, i) /\ kiss.inEscape = e

\* The reset after a long silence keeps track: the parser then knows that it
\* has not seen the beginning of the frame.
LEMMA RefreshTracks ==
  ASSUME NEW kiss \in KissState, NEW now \in Clock, ~kiss.haveFrame,
         NEW body \in BOOLEAN, NEW content \in Seq(Byte), NEW i \in Nat, NEW e \in BOOLEAN,
         Tracks(kiss, body, content, i, e)
  PROVE  LET live == Refresh(kiss, now)
         IN  /\ live \in KissState /\ ~live.haveFrame
             /\ Tracks(live, body, content, i, e)
             /\ ~Expired(kiss, now) => live.sawFend = kiss.sawFend /\ live.inFrame = kiss.inFrame
<1>1. CASE Expired(kiss, now)
  BY <1>1 DEF Refresh, kiss_init, KissState, Tracks
<1>2. CASE ~Expired(kiss, now)
  <2>1. Refresh(kiss, now) = [kiss EXCEPT !.last_feed_ms = now]
    BY <1>2 DEF Refresh
  <2>2. [kiss EXCEPT !.last_feed_ms = now] \in KissState
    BY DEF KissState
  <2> QED
    BY <1>2, <2>1, <2>2 DEF KissState, Tracks
<1> QED
  BY <1>1, <1>2

\* A prefix grows by the next element.
LEMMA GrowPrefix ==
  ASSUME NEW content \in Seq(Byte), NEW i \in Nat, i < Len(content)
  PROVE  Append(SubSeq(content, 1, i), content[i + 1]) = SubSeq(content, 1, i + 1)
<1>1. content[i + 1] \in Byte
  OBVIOUS
<1>2. SubSeq(content, 1, i) \in Seq(Byte) /\ Len(SubSeq(content, 1, i)) = i
  BY SubSeqProperties
<1>3. SubSeq(content, 1, i + 1) \in Seq(Byte) /\ Len(SubSeq(content, 1, i + 1)) = i + 1
  BY SubSeqProperties
<1> QED
  BY <1>1, <1>2, <1>3, SeqEqual

\* An unescaped byte extends what the parser holds.
LEMMA PlainTracks ==
  ASSUME NEW kiss \in KissState, NEW now \in Clock, ~kiss.haveFrame,
         NEW content \in Seq(Byte), NEW i \in Nat, i < Len(content),
         content[i + 1] \notin {FEND, FESC},
         Tracks(kiss, TRUE, content, i, FALSE)
  PROVE  LET fed == kiss_feed(kiss, content[i + 1], now)
         IN  /\ ~fed.haveFrame
             /\ Tracks(fed, TRUE, content, i + 1, FALSE)
             /\ ~Expired(kiss, now) /\ kiss.sawFend => fed.sawFend /\ fed.inFrame
<1> DEFINE live == Refresh(kiss, now)
           byte == content[i + 1]
           fed  == FeedData(live, byte)
<1>1. /\ live \in KissState /\ ~live.haveFrame
      /\ Tracks(live, TRUE, content, i, FALSE)
      /\ ~Expired(kiss, now) => live.sawFend = kiss.sawFend /\ live.inFrame = kiss.inFrame
  BY RefreshTracks
<1>2. kiss_feed(kiss, byte, now) = fed
  BY DEF kiss_feed
<1> HIDE DEF live
<1>3. byte \in Byte
  OBVIOUS
<1>4. /\ fed.inFrame /\ fed.haveFrame = live.haveFrame /\ fed.sawFend = live.sawFend
      /\ Len(fed.buffer) = Len(live.buffer) + 1
      /\ ~live.inEscape => fed.buffer = Append(live.buffer, byte) /\ ~fed.inEscape
  BY <1>1, <1>3 DEF FeedData, KissState, Byte, FESC, FEND
<1>5. ASSUME live.sawFend
      PROVE  live.buffer = SubSeq(content, 1, i) /\ ~live.inEscape
  <2>1. CASE live.inFrame
    BY <1>1, <1>5, <2>1 DEF Tracks
  <2>2. CASE ~live.inFrame
    <3>1. i = 0 /\ live.buffer = <<>> /\ ~live.inEscape
      BY <1>1, <1>5, <2>2 DEF Tracks
    <3> QED
      BY <3>1, SubSeqEmpty
  <2> QED
    BY <1>1, <2>1, <2>2 DEF KissState
<1>6. Len(live.buffer) <= i
  BY <1>1 DEF Tracks
<1>7. fed.sawFend => fed.buffer = SubSeq(content, 1, i + 1) /\ fed.inEscape = FALSE
  <2>1. fed.inEscape \in BOOLEAN
    BY <1>1, <1>3 DEF FeedData, KissState
  <2> QED
    BY <1>4, <1>5, <2>1, GrowPrefix
<1>8. Tracks(fed, TRUE, content, i + 1, FALSE)
  <2>1. Len(live.buffer) \in Nat
    BY <1>1 DEF KissState
  <2> QED
    BY <1>4, <1>6, <1>7, <2>1 DEF Tracks
<1> QED
  BY <1>1, <1>2, <1>4, <1>8

\* FESC announces an escaped byte and stores nothing.
LEMMA EscapeTracks ==
  ASSUME NEW kiss \in KissState, NEW now \in Clock, ~kiss.haveFrame,
         NEW content \in Seq(Byte), NEW i \in Nat, i < Len(content),
         Tracks(kiss, TRUE, content, i, FALSE)
  PROVE  LET fed == kiss_feed(kiss, FESC, now)
         IN  /\ ~fed.haveFrame
             /\ Tracks(fed, TRUE, content, i, TRUE)
             /\ ~Expired(kiss, now) /\ kiss.sawFend => fed.sawFend /\ fed.inFrame
<1> DEFINE live == Refresh(kiss, now)
           fed  == FeedData(live, FESC)
<1>1. /\ live \in KissState /\ ~live.haveFrame
      /\ Tracks(live, TRUE, content, i, FALSE)
      /\ ~Expired(kiss, now) => live.sawFend = kiss.sawFend /\ live.inFrame = kiss.inFrame
  BY RefreshTracks
<1>2. kiss_feed(kiss, FESC, now) = fed
  BY DEF kiss_feed, FESC, FEND
<1> HIDE DEF live
<1>3. /\ fed.inFrame /\ fed.inEscape
      /\ fed.haveFrame = live.haveFrame /\ fed.sawFend = live.sawFend
      /\ fed.buffer = live.buffer
  BY <1>1 DEF FeedData, KissState
<1>4. ASSUME live.sawFend
      PROVE  live.buffer = SubSeq(content, 1, i)
  <2>1. CASE live.inFrame
    BY <1>1, <1>4, <2>1 DEF Tracks
  <2>2. CASE ~live.inFrame
    <3>1. i = 0 /\ live.buffer = <<>>
      BY <1>1, <1>4, <2>2 DEF Tracks
    <3> QED
      BY <3>1, SubSeqEmpty
  <2> QED
    BY <2>1, <2>2
<1>5. Len(live.buffer) <= i
  BY <1>1 DEF Tracks
<1>6. fed.inEscape = TRUE
  BY <1>1 DEF FeedData, KissState
<1>7. Tracks(fed, TRUE, content, i, TRUE)
  BY <1>3, <1>4, <1>5, <1>6 DEF Tracks
<1> QED
  BY <1>1, <1>2, <1>3, <1>7

\* TFEND and TFESC store the byte they stand for.
LEMMA EscapedTracks ==
  ASSUME NEW kiss \in KissState, NEW now \in Clock, ~kiss.haveFrame,
         NEW content \in Seq(Byte), NEW i \in Nat, i < Len(content),
         content[i + 1] \in {FEND, FESC},
         Tracks(kiss, TRUE, content, i, TRUE)
  PROVE  LET fed == kiss_feed(kiss, IF content[i + 1] = FEND THEN TFEND ELSE TFESC, now)
         IN  /\ ~fed.haveFrame
             /\ Tracks(fed, TRUE, content, i + 1, FALSE)
             /\ ~Expired(kiss, now) /\ kiss.sawFend => fed.sawFend /\ fed.inFrame
<1> DEFINE live == Refresh(kiss, now)
           byte == IF content[i + 1] = FEND THEN TFEND ELSE TFESC
           fed  == FeedData(live, byte)
<1>1. /\ live \in KissState /\ ~live.haveFrame
      /\ Tracks(live, TRUE, content, i, TRUE)
      /\ ~Expired(kiss, now) => live.sawFend = kiss.sawFend /\ live.inFrame = kiss.inFrame
  BY RefreshTracks
<1>2. /\ byte \in {TFEND, TFESC} /\ byte # FEND /\ byte # FESC
      /\ (IF byte = TFEND THEN FEND ELSE FESC) = content[i + 1]
  BY DEF FEND, FESC, TFEND, TFESC
<1>3. kiss_feed(kiss, byte, now) = fed
  BY <1>2 DEF kiss_feed
<1> SUFFICES /\ ~fed.haveFrame
             /\ Tracks(fed, TRUE, content, i + 1, FALSE)
             /\ ~Expired(kiss, now) /\ kiss.sawFend => fed.sawFend /\ fed.inFrame
  BY <1>3
<1> HIDE DEF live, byte
<1>4. byte \in Byte /\ content[i + 1] \in Byte
  <2>1. TFEND \in Byte /\ TFESC \in Byte
    BY DEF Byte, TFEND, TFESC
  <2> QED
    BY <1>2, <2>1
<1>5. CASE live.inEscape
  <2>1. fed = [live EXCEPT !.inFrame = TRUE, !.inEscape = FALSE,
                           !.buffer = Append(@, content[i + 1])]
    BY <1>2, <1>5 DEF FeedData
  <2>2. /\ fed.inFrame /\ fed.inEscape = FALSE
        /\ fed.haveFrame = live.haveFrame /\ fed.sawFend = live.sawFend
        /\ fed.buffer = Append(live.buffer, content[i + 1])
    BY <1>1, <2>1 DEF KissState
  <2>3. live.inFrame
    BY <1>1, <1>5 DEF Tracks
  <2>4. Len(live.buffer) \in Nat /\ Len(fed.buffer) = Len(live.buffer) + 1
    BY <1>1, <1>4, <2>2 DEF KissState
  <2>5. live.sawFend => fed.buffer = SubSeq(content, 1, i + 1)
    BY <1>1, <2>2, <2>3, GrowPrefix DEF Tracks
  <2>6. Tracks(fed, TRUE, content, i + 1, FALSE)
    BY <1>1, <2>2, <2>3, <2>4, <2>5 DEF Tracks
  <2> QED
    BY <1>1, <2>2, <2>6
<1>6. CASE ~live.inEscape
  <2>1. fed = [live EXCEPT !.inFrame = TRUE, !.buffer = Append(@, byte)]
    BY <1>2, <1>6 DEF FeedData
  <2>2. /\ fed.inFrame /\ fed.haveFrame = live.haveFrame /\ fed.sawFend = live.sawFend
        /\ fed.buffer = Append(live.buffer, byte)
    BY <1>1, <2>1 DEF KissState
  <2>3. Len(live.buffer) \in Nat /\ Len(fed.buffer) = Len(live.buffer) + 1
    BY <1>1, <1>4, <2>2 DEF KissState
  <2>4. ~live.sawFend
    BY <1>1, <1>6 DEF Tracks
  <2>5. Len(live.buffer) <= i
    BY <1>1 DEF Tracks
  <2>6. Tracks(fed, TRUE, content, i + 1, FALSE)
    BY <2>2, <2>3, <2>4, <2>5 DEF Tracks
  <2> QED
    BY <1>1, <2>2, <2>4, <2>6
<1> QED
  BY <1>5, <1>6

\* Between two frames a FEND makes the parser ready for the next.
LEMMA OpenTracks ==
  ASSUME NEW kiss \in KissState, NEW now \in Clock, ~kiss.haveFrame,
         NEW old \in Seq(Byte), NEW i \in Nat,
         Tracks(kiss, FALSE, old, i, FALSE),
         NEW content \in Seq(Byte)
  PROVE  LET fed == kiss_feed(kiss, FEND, now)
         IN  ~fed.haveFrame /\ fed.sawFend /\ Tracks(fed, TRUE, content, 0, FALSE)
<1> DEFINE live == Refresh(kiss, now)
<1>1. /\ live \in KissState /\ ~live.haveFrame
      /\ Tracks(live, FALSE, old, i, FALSE)
      /\ ~Expired(kiss, now) => live.sawFend = kiss.sawFend /\ live.inFrame = kiss.inFrame
  BY RefreshTracks
<1>2. kiss_feed(kiss, FEND, now) = FeedFend(live, now)
  BY DEF kiss_feed
<1> HIDE DEF live
<1>3. ~live.inFrame /\ live.buffer = <<>> /\ ~live.inEscape
  BY <1>1 DEF Tracks
<1>4. FeedFend(live, now) = [live EXCEPT !.sawFend = TRUE]
  BY <1>3 DEF FeedFend
<1> QED
  BY <1>1, <1>2, <1>3, <1>4 DEF Tracks, KissState

\* The closing FEND completes the frame, and then the parser holds all of it
\* and nothing else; or the parser missed a part, and it starts afresh.
LEMMA CloseTracks ==
  ASSUME NEW kiss \in KissState, NEW now \in Clock, ~kiss.haveFrame,
         NEW content \in Seq(Byte),
         Tracks(kiss, TRUE, content, Len(content), FALSE)
  PROVE  LET fed == kiss_feed(kiss, FEND, now)
         IN  /\ fed.haveFrame => fed.buffer = content
             /\ ~fed.haveFrame => fed.sawFend /\ Tracks(fed, FALSE, content, Len(content), FALSE)
             /\ ~Expired(kiss, now) /\ kiss.sawFend /\ kiss.inFrame => fed.haveFrame
<1> DEFINE live == Refresh(kiss, now)
           fed  == FeedFend(live, now)
<1>1. /\ live \in KissState /\ ~live.haveFrame
      /\ Tracks(live, TRUE, content, Len(content), FALSE)
      /\ ~Expired(kiss, now) => live.sawFend = kiss.sawFend /\ live.inFrame = kiss.inFrame
  <2>1. Len(content) \in Nat
    OBVIOUS
  <2> QED
    BY <2>1, RefreshTracks
<1>2. kiss_feed(kiss, FEND, now) = fed
  BY DEF kiss_feed
<1> HIDE DEF live
<1>3. CASE ~live.inFrame
  <2>1. fed = [live EXCEPT !.sawFend = TRUE]
    BY <1>3 DEF FeedFend
  <2>2. /\ fed.haveFrame = live.haveFrame /\ fed.inFrame = live.inFrame
        /\ fed.inEscape = live.inEscape /\ fed.buffer = live.buffer /\ fed.sawFend
    BY <1>1, <2>1 DEF KissState
  <2> QED
    BY <1>1, <1>2, <1>3, <2>2 DEF Tracks
<1>4. CASE live.inFrame /\ live.sawFend
  <2>1. fed = [live EXCEPT !.haveFrame = TRUE]
    BY <1>4 DEF FeedFend
  <2>2. fed.haveFrame /\ fed.buffer = live.buffer
    BY <1>1, <2>1 DEF KissState
  <2>3. live.buffer = content
    BY <1>1, <1>4, SubSeqFull DEF Tracks
  <2> QED
    BY <1>2, <2>2, <2>3
<1>5. CASE live.inFrame /\ ~live.sawFend
  <2>1. fed = [kiss_init(now) EXCEPT !.sawFend = TRUE]
    BY <1>5 DEF FeedFend
  <2>2. ~fed.haveFrame /\ ~fed.inFrame /\ ~fed.inEscape /\ fed.buffer = <<>> /\ fed.sawFend
    BY <2>1 DEF kiss_init
  <2> QED
    BY <1>1, <1>2, <1>5, <2>2 DEF Tracks
<1> QED
  BY <1>3, <1>4, <1>5

---------------------------------------------------------------------------

\* A set of numbers that is not empty has a least one.
LEMMA LeastNumber ==
  ASSUME NEW T, T \subseteq Nat, T # {}
  PROVE  \E n \in T : \A m \in T : n <= m
<1> DEFINE R == OpToRel(<, Nat)
<1>1. IsWellFoundedOn(R, Nat)
  BY NatLessThanWellFounded
<1>2. \A x, y \in Nat : x < y => <<x, y>> \in R
  BY DEF OpToRel
<1> HIDE DEF R
<1>3. PICK n \in T : \A m \in T : <<m, n>> \notin R
  BY <1>1, WFMin
<1>4. ASSUME NEW m \in T PROVE n <= m
  <2>1. n \in Nat /\ m \in Nat
    OBVIOUS
  <2>2. m < n => <<m, n>> \in R
    BY <1>2, <2>1, Zenon
  <2>3. ~ (m < n)
    BY <1>3, <2>2, Zenon
  <2> QED
    BY <2>1, <2>3
<1> QED
  BY <1>4

\* A set with 0 and with the successor of each of its members is Nat.
LEMMA Induction ==
  ASSUME NEW S \in SUBSET Nat, 0 \in S, \A n \in S : n + 1 \in S
  PROVE  S = Nat
<1> SUFFICES ASSUME Nat \ S # {} PROVE FALSE
  OBVIOUS
<1>1. PICK n \in Nat \ S : \A m \in Nat \ S : n <= m
  BY LeastNumber
<1>2. n - 1 \in S
  BY <1>1
<1> QED
  BY <1>1, <1>2

\* The same over sequences, by their length.
LEMMA SeqInduction ==
  ASSUME NEW B, NEW P, P \subseteq Seq(B), <<>> \in P,
         \A s \in P, b \in B : Append(s, b) \in P
  PROVE  P = Seq(B)
<1> DEFINE L == {n \in Nat : \A s \in Seq(B) : Len(s) = n => s \in P}
<1>1. 0 \in L
  BY EmptySeq
<1>2. ASSUME NEW n \in L PROVE n + 1 \in L
  <2>1. ASSUME NEW s \in Seq(B), Len(s) = n + 1
        PROVE  s \in P
    <3>1. s # <<>>
      BY <2>1, EmptySeq, n \in Nat
    <3>2. PICK t \in Seq(B), b \in B : s = Append(t, b)
      BY <3>1, SequenceEmptyOrAppend
    <3>3. Len(t) = n
      BY <2>1, <3>2, n \in Nat
    <3> QED
      BY <1>2, <3>2, <3>3
  <2> QED
    BY <2>1
<1>3. L = Nat
  <2> HIDE DEF L
  <2>1. L \subseteq Nat
    BY DEF L
  <2> QED
    BY <1>1, <1>2, <2>1, Induction
<1>4. ASSUME NEW s \in Seq(B) PROVE s \in P
  <2>1. Len(s) \in L
    BY <1>3
  <2> QED
    BY <2>1
<1> QED
  BY <1>4

\* The greatest of a set of indices, which FoldLeft takes first.
LEMMA MaxInterval ==
  ASSUME NEW n \in Nat, NEW t, t \subseteq 1..n, n \in t
  PROVE  Max(t) = n
<1>1. \A x \in t : (\A y \in t : x >= y) => x = n
  OBVIOUS
<1>2. \A y \in t : n >= y
  OBVIOUS
<1> QED
  BY <1>1, <1>2 DEF Max

\* The greatest index of a set is one of it.
LEMMA MaxIn ==
  ASSUME NEW n \in Nat, NEW t, t \subseteq 1..n, t # {}
  PROVE  Max(t) \in t
<1> DEFINE T == {d \in Nat : n - d \in t}
<1>1. T \subseteq Nat /\ T # {}
  <2>1. PICK x \in t : TRUE
    OBVIOUS
  <2>2. n - x \in Nat /\ n - (n - x) = x
    OBVIOUS
  <2> QED
    BY <2>1, <2>2
<1>2. PICK d \in T : \A m \in T : d <= m
  BY <1>1, LeastNumber
<1>3. n - d \in t /\ \A y \in t : n - d >= y
  <2>1. ASSUME NEW y \in t PROVE n - d >= y
    <3>1. n - y \in Nat /\ n - (n - y) = y /\ y \in Nat
      OBVIOUS
    <3>2. n - y \in T
      BY <3>1
    <3>3. d <= n - y /\ d \in Nat
      BY <1>2, <3>2
    <3> QED
      BY <3>1, <3>3
  <2> QED
    BY <1>2, <2>1
<1> QED
  BY <1>3 DEF Max

\* The recursion that FoldLeft stands for: MapThenFoldSet is defined as any
\* function over the sets of indices of s that satisfies it.
Unfolds(F, base, s, g) ==
  \A t \in SUBSET (1..Len(s)) :
    g[t] = IF t = {} THEN base ELSE F[<<g[t \ {Max(t)}], s[Max(t)]>>]

\* There is one, built up one index at a time.
LEMMA FoldExists ==
  ASSUME NEW A, NEW B, NEW F \in [A \X B -> A], NEW base \in A, NEW s \in Seq(B)
  PROVE  \E g \in [SUBSET (1..Len(s)) -> A] : Unfolds(F, base, s, g)
<1> DEFINE Folds(g, n) ==
             /\ g \in [SUBSET (1..n) -> A]
             /\ \A t \in SUBSET (1..n) :
                  g[t] = IF t = {} THEN base ELSE F[<<g[t \ {Max(t)}], s[Max(t)]>>]
           S == {n \in Nat : n <= Len(s) => \E g : Folds(g, n)}
<1>1. 0 \in S
  <2> DEFINE g == [t \in SUBSET (1..0) |-> base]
  <2>1. \A t \in SUBSET (1..0) : t = {}
    OBVIOUS
  <2>2. Folds(g, 0)
    BY <2>1
  <2> QED
    BY <2>2
<1>2. ASSUME NEW n \in S
      PROVE  n + 1 \in S
  <2> HIDE DEF Folds
  <2>1. n + 1 \in Nat
    OBVIOUS
  <2>2. SUFFICES ASSUME n + 1 <= Len(s) PROVE \E h : Folds(h, n + 1)
    BY <2>1, Zenon
  <2>3. n <= Len(s)
    BY <2>2
  <2>4. PICK g : Folds(g, n)
    BY <2>3
  <2> USE DEF Folds
  <2> DEFINE h == [t \in SUBSET (1..(n + 1)) |->
                     IF n + 1 \in t THEN F[<<g[t \ {n + 1}], s[n + 1]>>] ELSE g[t]]
  <2>5. s[n + 1] \in B
    BY <2>2
  <2>6. \A t \in SUBSET (1..(n + 1)) : t \ {n + 1} \in SUBSET (1..n)
    OBVIOUS
  <2>7. h \in [SUBSET (1..(n + 1)) -> A]
    BY <2>4, <2>5, <2>6
  <2>8. ASSUME NEW t \in SUBSET (1..(n + 1))
        PROVE  h[t] = IF t = {} THEN base ELSE F[<<h[t \ {Max(t)}], s[Max(t)]>>]
    <3>1. CASE n + 1 \in t
      <4>1. Max(t) = n + 1
        BY <3>1, MaxInterval, n + 1 \in Nat
      <4>2. h[t \ {n + 1}] = g[t \ {n + 1}]
        BY <2>6
      <4> QED
        BY <3>1, <4>1, <4>2
    <3>2. CASE n + 1 \notin t
      <4>1. t \in SUBSET (1..n) /\ h[t] = g[t]
        BY <3>2, <2>6
      <4>2. ASSUME NEW m PROVE h[t \ {m}] = g[t \ {m}]
        <5>1. t \ {m} \in SUBSET (1..(n + 1)) /\ n + 1 \notin t \ {m}
          BY <3>2
        <5> QED
          BY <5>1
      <4> QED
        BY <4>1, <4>2, <2>4
    <3> QED
      BY <3>1, <3>2
  <2> QED
    BY <2>7, <2>8
<1>3. S = Nat
  <2> HIDE DEF S
  <2>1. S \subseteq Nat
    BY DEF S
  <2> QED
    BY <1>1, <1>2, <2>1, Induction
<1>4. PICK g : Folds(g, Len(s))
  <2> HIDE DEF Folds
  <2>1. Len(s) \in Nat /\ Len(s) <= Len(s)
    OBVIOUS
  <2> QED
    BY <1>3, <2>1
<1> QED
  BY <1>4 DEF Unfolds

\* The intermediate results of a fold over s: v[k] is that of its first k.
Steps(F, base, s, v) == v[0] = base /\ \A k \in 1..Len(s) : v[k] = F[<<v[k - 1], s[k]>>]

\* The first k indices are the first k - 1 and k.
LEMMA Interval ==
  ASSUME NEW m \in Nat, NEW k \in 1..m
  PROVE  /\ 1..k \in SUBSET (1..m) /\ 1..k # {}
         /\ Max(1..k) = k /\ (1..k) \ {k} = 1..(k - 1)
<1>1. k \in Nat /\ k \in 1..k /\ 1..k \subseteq 1..k
  OBVIOUS
<1>2. Max(1..k) = k
  BY <1>1, MaxInterval
<1> QED
  BY <1>1, <1>2

\* A step of the fold is only known to be one where its argument has its type.
TypedSteps(A, F, base, s, v) ==
  /\ v[0] = base
  /\ \A k \in 1..Len(s) : v[k - 1] \in A => v[k] = F[<<v[k - 1], s[k]>>]

\* Every intermediate result has the type of the fold.
LEMMA StepsType ==
  ASSUME NEW A, NEW B, NEW F \in [A \X B -> A], NEW base \in A, NEW s \in Seq(B), NEW v,
         TypedSteps(A, F, base, s, v)
  PROVE  Steps(F, base, s, v) /\ \A k \in 0..Len(s) : v[k] \in A
<1> DEFINE S == {k \in Nat : k <= Len(s) => v[k] \in A}
<1> USE DEF TypedSteps
<1>1. 0 \in S
  OBVIOUS
<1>2. ASSUME NEW k \in S PROVE k + 1 \in S
  <2>1. CASE k + 1 <= Len(s)
    <3>1. k + 1 \in 1..Len(s) /\ (k + 1) - 1 = k /\ v[k] \in A /\ s[k + 1] \in B
      BY <2>1
    <3>2. v[k + 1] = F[<<v[k], s[k + 1]>>]
      BY <3>1
    <3>3. v[k + 1] \in A
      BY <3>1, <3>2
    <3> QED
      BY <3>3
  <2>2. CASE ~(k + 1 <= Len(s))
    BY <2>2
  <2> QED
    BY <2>1, <2>2
<1>3. S = Nat
  <2> HIDE DEF S
  <2>1. S \subseteq Nat
    BY DEF S
  <2> QED
    BY <1>1, <1>2, <2>1, Induction
<1>4. \A k \in 0..Len(s) : v[k] \in A
  BY <1>3
<1>5. \A k \in 1..Len(s) : k - 1 \in 0..Len(s)
  OBVIOUS
<1> QED
  BY <1>4, <1>5 DEF Steps

\* Folding one more element is one more step.
LEMMA StepsAppend ==
  ASSUME NEW B, NEW s \in Seq(B), NEW b \in B, NEW F, NEW base, NEW v, NEW w,
         Steps(F, base, s, v), Steps(F, base, Append(s, b), w)
  PROVE  w[Len(Append(s, b))] = F[<<v[Len(s)], b>>]
<1> DEFINE t == Append(s, b)
           S == {k \in Nat : k <= Len(s) => v[k] = w[k]}
<1>1. Len(s) \in Nat /\ Len(t) = Len(s) + 1 /\ t[Len(s) + 1] = b /\ \A k \in 1..Len(s) : s[k] = t[k]
  BY AppendProperties
<1> HIDE DEF t
<1>2. Steps(F, base, t, w)
  BY DEF t
<1>3. 0 \in S
  BY <1>2 DEF Steps
<1>4. ASSUME NEW k \in S PROVE k + 1 \in S
  <2>1. CASE k + 1 <= Len(s)
    <3>1. k + 1 \in 1..Len(s) /\ k + 1 \in 1..Len(t) /\ (k + 1) - 1 = k
      BY <1>1, <2>1
    <3>2. v[k + 1] = F[<<v[k], s[k + 1]>>] /\ w[k + 1] = F[<<w[k], t[k + 1]>>]
      BY <1>2, <3>1 DEF Steps
    <3>3. v[k] = w[k] /\ s[k + 1] = t[k + 1]
      BY <1>1, <2>1, <3>1
    <3> QED
      BY <3>1, <3>2, <3>3
  <2>2. CASE ~(k + 1 <= Len(s))
    BY <2>2
  <2> QED
    BY <2>1, <2>2
<1>5. S = Nat
  <2> HIDE DEF S
  <2>1. S \subseteq Nat
    BY DEF S
  <2> QED
    BY <1>3, <1>4, <2>1, Induction
<1>6. v[Len(s)] = w[Len(s)]
  BY <1>1, <1>5
<1>7. w[Len(s) + 1] = F[<<w[Len(s)], t[Len(s) + 1]>>]
  <2>1. Len(s) + 1 \in 1..Len(t) /\ (Len(s) + 1) - 1 = Len(s)
    BY <1>1
  <2> QED
    BY <1>2, <2>1 DEF Steps
<1>8. w[Len(t)] = F[<<v[Len(s)], b>>]
  BY <1>1, <1>6, <1>7
<1> QED
  BY <1>8 DEF t

\* Escaping a byte gives bytes (kiss_encode's cases).
LEMMA EscapeType == \A byte \in Byte : Escape(byte) \in Seq(Byte)
<1>1. FEND \in Byte /\ FESC \in Byte /\ TFEND \in Byte /\ TFESC \in Byte
  BY DEF Byte, FEND, FESC, TFEND, TFESC
<1> QED
  BY <1>1 DEF Escape

\* One round of kiss_encode's loop over the payload.
EscapeStep == [x \in Seq(Byte) \X Byte |-> x[1] \o Escape(x[2])]

\* Escaping a payload takes those rounds, one per byte and in order.
LEMMA EscapeAllSteps ==
  ASSUME NEW s \in Seq(Byte)
  PROVE  \E v \in [0..Len(s) -> Seq(Byte)] :
           EscapeAll(s) = v[Len(s)] /\ Steps(EscapeStep, <<>>, s, v)
<1> DEFINE Is(iter) == iter = [t \in SUBSET DOMAIN s |->
                         IF t = {} THEN <<>> ELSE iter[t \ {Max(t)}] \o Escape(s[Max(t)])]
           Pick == CHOOSE iter : Is(iter)
<1>1. EscapeAll(s) = Pick[DOMAIN s]
  BY DEF EscapeAll, FoldLeft, MapThenFoldSet
<1>2. /\ <<>> \in Seq(Byte) /\ EscapeStep \in [Seq(Byte) \X Byte -> Seq(Byte)]
      /\ DOMAIN s = 1..Len(s) /\ Len(s) \in 0..Len(s)
  BY EscapeType DEF EscapeStep
<1>3. PICK g \in [SUBSET (1..Len(s)) -> Seq(Byte)] : Unfolds(EscapeStep, <<>>, s, g)
  BY <1>2, FoldExists
<1>4. ASSUME NEW t \in SUBSET (1..Len(s)), t # {}
      PROVE  Max(t) \in t
  BY <1>2, <1>4, MaxIn, Len(s) \in Nat
<1>5. g = [t \in SUBSET (1..Len(s)) |->
             IF t = {} THEN <<>> ELSE g[t \ {Max(t)}] \o Escape(s[Max(t)])]
  <2>1. ASSUME NEW t \in SUBSET (1..Len(s)), t # {}
        PROVE  g[t] = g[t \ {Max(t)}] \o Escape(s[Max(t)])
    <3>1. Max(t) \in t
      BY <1>4, <2>1
    <3>2. t \ {Max(t)} \in SUBSET (1..Len(s)) /\ Max(t) \in 1..Len(s)
      BY <3>1
    <3>3. g[t \ {Max(t)}] \in Seq(Byte) /\ s[Max(t)] \in Byte
      BY <3>2
    <3>4. g[t] = EscapeStep[<<g[t \ {Max(t)}], s[Max(t)]>>]
      BY <1>3, <2>1 DEF Unfolds
    <3> QED
      BY <3>3, <3>4 DEF EscapeStep
  <2>2. ASSUME NEW t \in SUBSET (1..Len(s)), t = {}
        PROVE  g[t] = <<>>
    BY <1>3, <2>2 DEF Unfolds
  <2> QED
    BY <2>1, <2>2
<1>6. Is(g)
  BY <1>2, <1>5
<1>7. Is(Pick)
  <2> HIDE DEF Is
  <2> QED
    BY <1>6, Zenon
<1> DEFINE v == [k \in 0..Len(s) |-> Pick[1..k]]
<1>8. v[0] = <<>>
  <2>1. 1..0 = {} /\ {} \in SUBSET DOMAIN s /\ 0 \in 0..Len(s)
    OBVIOUS
  <2> HIDE DEF Pick
  <2> QED
    BY <1>7, <2>1
<1>9. ASSUME NEW k \in 1..Len(s), v[k - 1] \in Seq(Byte)
      PROVE  v[k] = EscapeStep[<<v[k - 1], s[k]>>]
  <2>1. /\ 1..k \in SUBSET DOMAIN s /\ 1..k # {}
        /\ Max(1..k) = k /\ (1..k) \ {k} = 1..(k - 1)
    BY <1>2, Interval, Len(s) \in Nat
  <2> HIDE DEF Pick
  <2>2. Pick[1..k] = Pick[1..(k - 1)] \o Escape(s[k])
    BY <1>7, <2>1
  <2>3. k \in 0..Len(s) /\ k - 1 \in 0..Len(s) /\ s[k] \in Byte
    OBVIOUS
  <2>4. v[k] = v[k - 1] \o Escape(s[k])
    BY <2>2, <2>3
  <2> HIDE DEF v
  <2> QED
    BY <1>9, <2>3, <2>4 DEF EscapeStep
<1>10. EscapeAll(s) = v[Len(s)]
  BY <1>1, <1>2
<1> HIDE DEF v
<1>11. Steps(EscapeStep, <<>>, s, v) /\ \A k \in 0..Len(s) : v[k] \in Seq(Byte)
  <2>1. TypedSteps(Seq(Byte), EscapeStep, <<>>, s, v)
    BY <1>8, <1>9 DEF TypedSteps
  <2> QED
    BY <1>2, <2>1, StepsType
<1>12. v \in [0..Len(s) -> Seq(Byte)]
  BY <1>11 DEF v
<1> QED
  BY <1>10, <1>11, <1>12

\* It gives bytes.
LEMMA EscapeAllType ==
  ASSUME NEW s \in Seq(Byte)
  PROVE  EscapeAll(s) \in Seq(Byte)
<1>1. PICK v \in [0..Len(s) -> Seq(Byte)] :
        EscapeAll(s) = v[Len(s)] /\ Steps(EscapeStep, <<>>, s, v)
  BY EscapeAllSteps
<1> QED
  BY <1>1

\* One more byte of payload is one more escaped byte on the wire.
LEMMA EscapeAllAppend ==
  ASSUME NEW s \in Seq(Byte), NEW byte \in Byte
  PROVE  EscapeAll(Append(s, byte)) = EscapeAll(s) \o Escape(byte)
<1>1. PICK v : EscapeAll(s) = v[Len(s)] /\ Steps(EscapeStep, <<>>, s, v)
  BY EscapeAllSteps
<1>2. Append(s, byte) \in Seq(Byte)
  OBVIOUS
<1>3. PICK w : /\ EscapeAll(Append(s, byte)) = w[Len(Append(s, byte))]
               /\ Steps(EscapeStep, <<>>, Append(s, byte), w)
  BY <1>2, EscapeAllSteps
<1>4. w[Len(Append(s, byte))] = EscapeStep[<<v[Len(s)], byte>>]
  BY <1>1, <1>3, StepsAppend
<1>5. v[Len(s)] \in Seq(Byte)
  BY <1>1, EscapeAllType
<1> QED
  BY <1>1, <1>3, <1>4, <1>5 DEF EscapeStep

\* No payload, no bytes on the wire.
LEMMA EscapeAllEmpty == EscapeAll(<<>>) = <<>>
<1>1. <<>> \in Seq(Byte) /\ Len(<<>>) = 0
  OBVIOUS
<1>2. PICK v \in [0..Len(<<>>) -> Seq(Byte)] :
        EscapeAll(<<>>) = v[Len(<<>>)] /\ Steps(EscapeStep, <<>>, <<>>, v)
  BY <1>1, EscapeAllSteps
<1> QED
  BY <1>1, <1>2 DEF Steps

\* An escaped payload has no FEND: the first one on the wire ends the frame.
LEMMA NoFend ==
  ASSUME NEW s \in Seq(Byte)
  PROVE  \A i \in DOMAIN EscapeAll(s) : EscapeAll(s)[i] # FEND
<1> DEFINE P == {u \in Seq(Byte) : \A i \in DOMAIN EscapeAll(u) : EscapeAll(u)[i] # FEND}
<1>1. <<>> \in P
  BY EscapeAllEmpty
<1>2. ASSUME NEW u \in P, NEW b \in Byte PROVE Append(u, b) \in P
  <2>1. EscapeAll(u) \in Seq(Byte) /\ Escape(b) \in Seq(Byte)
    BY EscapeAllType, EscapeType
  <2>2. \A i \in DOMAIN Escape(b) : Escape(b)[i] # FEND
    BY DEF Escape, FEND, FESC, TFEND, TFESC
  <2>3. EscapeAll(Append(u, b)) = EscapeAll(u) \o Escape(b)
    BY EscapeAllAppend
  <2>4. \A i \in DOMAIN EscapeAll(u) : EscapeAll(u)[i] # FEND
    OBVIOUS
  <2>5. \A i \in DOMAIN (EscapeAll(u) \o Escape(b)) : (EscapeAll(u) \o Escape(b))[i] # FEND
    BY <2>1, <2>2, <2>4
  <2> QED
    BY <2>3, <2>5
<1>3. P = Seq(Byte)
  <2> HIDE DEF P
  <2>1. P \subseteq Seq(Byte)
    BY DEF P
  <2> QED
    BY <1>1, <1>2, <2>1, SeqInduction
<1> QED
  BY <1>3

\* Where a frame is put together in two ways.
LEMMA Reassociate ==
  ASSUME NEW a \in Seq(Byte), NEW b \in Seq(Byte), NEW c \in Seq(Byte)
  PROVE  a \o (b \o c) = (a \o b) \o c
BY ConcatAssociative

\* The two halves of the header byte make it (kiss_read, kiss_encode).
LEMMA Header == \A b \in Byte : (b \div 16) * 16 + (b % 16) = b
<1>1. \A b \in Nat : (b \div 16) * 16 + (b % 16) = b
  BY Z3
<1> QED
  BY <1>1 DEF Byte

\* The last byte of s.
Ends(s, byte) == s # <<>> /\ s[Len(s)] = byte

\* Escaping, case by case.
LEMMA EscapeForm ==
  ASSUME NEW b \in Byte
  PROVE  \/ b = FEND /\ Escape(b) = <<FESC, TFEND>>
         \/ b = FESC /\ Escape(b) = <<FESC, TFESC>>
         \/ b \notin {FEND, FESC} /\ Escape(b) = <<b>>
BY DEF Escape, FEND, FESC

\* In an escaped payload every FESC is followed by TFEND or TFESC.
LEMMA EscapesArePairs ==
  ASSUME NEW s \in Seq(Byte)
  PROVE  \A j \in 1..Len(EscapeAll(s)) :
           EscapeAll(s)[j] = FESC => j < Len(EscapeAll(s)) /\ EscapeAll(s)[j + 1] \in {TFEND, TFESC}
<1> DEFINE Pairs(e) == \A j \in 1..Len(e) : e[j] = FESC => j < Len(e) /\ e[j + 1] \in {TFEND, TFESC}
           P == {u \in Seq(Byte) : Pairs(EscapeAll(u))}
<1>1. <<>> \in P
  BY EscapeAllEmpty
<1>2. ASSUME NEW u \in P, NEW b \in Byte PROVE Append(u, b) \in P
  <2> DEFINE e == EscapeAll(u)
             x == Escape(b)
  <2>1. e \in Seq(Byte) /\ x \in Seq(Byte) /\ Pairs(e)
    BY EscapeAllType, EscapeType
  <2>2. Pairs(x)
    BY EscapeForm DEF FEND, FESC, TFEND, TFESC
  <2> HIDE DEF e, x
  <2>3. Pairs(e \o x)
    <3>1. ASSUME NEW j \in 1..Len(e \o x), (e \o x)[j] = FESC
          PROVE  j < Len(e \o x) /\ (e \o x)[j + 1] \in {TFEND, TFESC}
      <4>1. Len(e \o x) = Len(e) + Len(x) /\ Len(e) \in Nat /\ Len(x) \in Nat
        BY <2>1
      <4>2. CASE j <= Len(e)
        <5>1. e[j] = FESC /\ j \in 1..Len(e)
          BY <2>1, <3>1, <4>1, <4>2
        <5>2. j < Len(e) /\ e[j + 1] \in {TFEND, TFESC}
          BY <2>1, <5>1
        <5>3. (e \o x)[j + 1] = e[j + 1]
          BY <2>1, <4>1, <5>2
        <5> QED
          BY <4>1, <5>2, <5>3
      <4>3. CASE ~(j <= Len(e))
        <5>1. j - Len(e) \in 1..Len(x) /\ x[j - Len(e)] = FESC
          BY <2>1, <3>1, <4>1, <4>3
        <5>2. j - Len(e) < Len(x) /\ x[(j - Len(e)) + 1] \in {TFEND, TFESC}
          BY <2>2, <5>1
        <5>3. (e \o x)[j + 1] = x[(j - Len(e)) + 1]
          BY <2>1, <4>1, <4>3, <5>2
        <5> QED
          BY <4>1, <4>3, <5>2, <5>3
      <4> QED
        BY <4>2, <4>3
    <3> QED
      BY <3>1
  <2>4. EscapeAll(Append(u, b)) = e \o x
    BY EscapeAllAppend DEF e, x
  <2>5. Append(u, b) \in Seq(Byte)
    OBVIOUS
  <2> HIDE DEF Pairs
  <2> QED
    BY <2>3, <2>4, <2>5
<1>3. P = Seq(Byte)
  <2> HIDE DEF P
  <2>1. P \subseteq Seq(Byte)
    BY DEF P
  <2> QED
    BY <1>1, <1>2, <2>1, SeqInduction
<1> QED
  BY <1>3

\* A byte that needs no escape stays the first one.
LEMMA EscapeAllFirst ==
  ASSUME NEW h \in Byte, h \notin {FEND, FESC}, NEW s \in Seq(Byte)
  PROVE  EscapeAll(<<h>> \o s) = <<h>> \o EscapeAll(s)
<1> DEFINE P == {u \in Seq(Byte) : EscapeAll(<<h>> \o u) = <<h>> \o EscapeAll(u)}
<1>1. <<>> \in P
  <2>1. <<>> \in Seq(Byte) /\ <<h>> \o <<>> = Append(<<>>, h) /\ <<>> \o <<h>> = <<h>> \o <<>>
    OBVIOUS
  <2>2. Escape(h) = <<h>>
    BY EscapeForm
  <2> QED
    BY <2>1, <2>2, EscapeAllAppend, EscapeAllEmpty
<1>2. ASSUME NEW u \in P, NEW b \in Byte PROVE Append(u, b) \in P
  <2>1. /\ EscapeAll(u) \in Seq(Byte) /\ Escape(b) \in Seq(Byte) /\ <<h>> \in Seq(Byte)
        /\ Append(u, b) \in Seq(Byte) /\ <<h>> \o u \in Seq(Byte)
    BY EscapeAllType, EscapeType
  <2>2. <<h>> \o Append(u, b) = Append(<<h>> \o u, b)
    OBVIOUS
  <2>3. EscapeAll(Append(<<h>> \o u, b)) = EscapeAll(<<h>> \o u) \o Escape(b)
    BY <2>1, EscapeAllAppend
  <2>4. EscapeAll(Append(u, b)) = EscapeAll(u) \o Escape(b)
    BY EscapeAllAppend
  <2>5. <<h>> \o (EscapeAll(u) \o Escape(b)) = (<<h>> \o EscapeAll(u)) \o Escape(b)
    BY <2>1, Reassociate
  <2>6. EscapeAll(<<h>> \o u) = <<h>> \o EscapeAll(u)
    OBVIOUS
  <2> QED
    BY <2>1, <2>2, <2>3, <2>4, <2>5, <2>6
<1>3. P = Seq(Byte)
  <2> HIDE DEF P
  <2>1. P \subseteq Seq(Byte)
    BY DEF P
  <2> QED
    BY <1>1, <1>2, <2>1, SeqInduction
<1> QED
  BY <1>3

\* A sequence that one byte joined is that sequence and that byte.
LEMMA AppendByte ==
  ASSUME NEW u \in Seq(Byte), NEW v \in Seq(Byte), NEW x \in Byte, NEW y \in Byte,
         Append(u, x) = Append(v, y)
  PROVE  u = v /\ x = y
BY AppendInjective

\* What escapes to the same bytes ends with the same byte.
LEMMA LastEscape ==
  \A p, q \in Seq(Byte), b, c \in Byte :
    ~Ends(p, FESC) /\ ~Ends(q, FESC) /\ p \o Escape(b) = q \o Escape(c) => p = q /\ b = c
<1> SUFFICES ASSUME NEW p \in Seq(Byte), NEW q \in Seq(Byte), ~Ends(p, FESC), ~Ends(q, FESC),
                    NEW b \in Byte, NEW c \in Byte, p \o Escape(b) = q \o Escape(c)
             PROVE  p = q /\ b = c
  OBVIOUS
<1>1. FESC \in Byte /\ TFEND \in Byte /\ TFESC \in Byte /\ TFEND # TFESC /\ TFEND # FESC /\ TFESC # FESC
  BY DEF FESC, TFEND, TFESC, Byte
<1>2. /\ Len(p) \in Nat /\ Len(q) \in Nat
      /\ p # <<>> => Len(p) \in 1..Len(p)
      /\ q # <<>> => Len(q) \in 1..Len(q)
      /\ Len(p) > 0 => p # <<>>
      /\ Len(q) > 0 => q # <<>>
  OBVIOUS
<1>3. ASSUME NEW u \in Seq(Byte), NEW v \in Seq(Byte), NEW x \in Byte, NEW y \in Byte,
             u \o <<x>> = v \o <<y>>
      PROVE  u = v /\ x = y
  <2>1. u \o <<x>> = Append(u, x) /\ v \o <<y>> = Append(v, y)
    OBVIOUS
  <2>2. Append(u, x) = Append(v, y)
    BY <1>3, <2>1, Zenon
  <2> QED
    BY <2>2, AppendInjective
<1>4. ASSUME NEW t \in Byte, Escape(b) = <<FESC, t>>, NEW r \in Byte, Escape(c) = <<FESC, r>>
      PROVE  p = q /\ t = r
  <2>1. p \o <<FESC, t>> = Append(Append(p, FESC), t) /\ q \o <<FESC, r>> = Append(Append(q, FESC), r)
    BY <1>1
  <2>2. Append(p, FESC) \in Seq(Byte) /\ Append(q, FESC) \in Seq(Byte)
    BY <1>1
  <2>3. Append(Append(p, FESC), t) = Append(Append(q, FESC), r)
    BY <1>4, <2>1, Zenon
  <2>4. Append(p, FESC) = Append(q, FESC) /\ t = r
    BY <2>2, <2>3, AppendByte
  <2> QED
    BY <1>1, <2>4, AppendByte
<1>5. ASSUME NEW t \in Byte, Escape(b) = <<FESC, t>>, Escape(c) = <<c>>
      PROVE  FALSE
  <2>1. p \o <<FESC, t>> = Append(Append(p, FESC), t) /\ q \o <<c>> = Append(q, c)
    BY <1>1
  <2>2. Append(p, FESC) \in Seq(Byte)
    BY <1>1
  <2>3. Append(Append(p, FESC), t) = Append(q, c)
    BY <1>5, <2>1, Zenon
  <2>4. Append(p, FESC) = q
    BY <2>2, <2>3, AppendByte
  <2> QED
    BY <1>1, <2>4 DEF Ends
<1>6. ASSUME NEW t \in Byte, Escape(c) = <<FESC, t>>, Escape(b) = <<b>>
      PROVE  FALSE
  <2>1. q \o <<FESC, t>> = Append(Append(q, FESC), t) /\ p \o <<b>> = Append(p, b)
    BY <1>1
  <2>2. Append(q, FESC) \in Seq(Byte)
    BY <1>1
  <2>3. Append(Append(q, FESC), t) = Append(p, b)
    BY <1>6, <2>1, Zenon
  <2>4. Append(q, FESC) = p
    <3> DEFINE w == Append(q, FESC)
    <3>1. w \in Seq(Byte) /\ Append(w, t) = Append(p, b)
      BY <2>2, <2>3
    <3> HIDE DEF w
    <3>2. w = p
      BY <3>1, AppendInjective
    <3> QED
      BY <3>2 DEF w
  <2> QED
    BY <1>1, <2>4 DEF Ends
<1>7. CASE b \in {FEND, FESC} /\ c \in {FEND, FESC}
  <2>1. ASSUME NEW x \in {FEND, FESC}
        PROVE  Escape(x) = <<FESC, IF x = FEND THEN TFEND ELSE TFESC>>
    <3>1. FEND # FESC
      BY DEF FEND, FESC
    <3> QED
      BY <3>1 DEF Escape
  <2>2. /\ Escape(b) = <<FESC, IF b = FEND THEN TFEND ELSE TFESC>>
        /\ Escape(c) = <<FESC, IF c = FEND THEN TFEND ELSE TFESC>>
    BY <1>7, <2>1
  <2>3. /\ (IF b = FEND THEN TFEND ELSE TFESC) \in Byte
        /\ (IF c = FEND THEN TFEND ELSE TFESC) \in Byte
    BY <1>1
  <2>4. p = q /\ (IF b = FEND THEN TFEND ELSE TFESC) = (IF c = FEND THEN TFEND ELSE TFESC)
    BY <1>4, <2>2, <2>3
  <2> QED
    BY <1>1, <1>7, <2>4
<1>8. CASE b \in {FEND, FESC} /\ c \notin {FEND, FESC}
  BY <1>1, <1>5, <1>8, EscapeForm
<1>9. CASE b \notin {FEND, FESC} /\ c \in {FEND, FESC}
  BY <1>1, <1>6, <1>9, EscapeForm
<1>10. CASE b \notin {FEND, FESC} /\ c \notin {FEND, FESC}
  <2>1. Escape(b) = <<b>> /\ Escape(c) = <<c>>
    BY <1>10, EscapeForm
  <2> QED
    BY <1>3, <2>1
<1> QED
  BY <1>7, <1>8, <1>9, <1>10

\* No two payloads have the same escaping: the bytes of a complete frame are
\* the only ones the sender can have meant (kiss_encode loses nothing).
THEOREM EscapingIsOneToOne ==
  \A p, q \in Seq(Byte) : EscapeAll(p) = EscapeAll(q) => p = q
<1> DEFINE P == {u \in Seq(Byte) : \A v \in Seq(Byte) : EscapeAll(u) = EscapeAll(v) => u = v}
<1>1. ASSUME NEW u \in Seq(Byte), NEW b \in Byte
      PROVE  EscapeAll(Append(u, b)) # <<>>
  <2>1. EscapeAll(u) \in Seq(Byte) /\ Escape(b) \in Seq(Byte) /\ Len(Escape(b)) > 0
    <3>1. Len(Escape(b)) > 0
      BY DEF Escape
    <3> QED
      BY <3>1, EscapeAllType, EscapeType
  <2>2. EscapeAll(u) \o Escape(b) # <<>>
    BY <2>1
  <2> QED
    BY <2>2, EscapeAllAppend
<1>2. <<>> \in P
  <2>1. ASSUME NEW v \in Seq(Byte), EscapeAll(<<>>) = EscapeAll(v), v # <<>>
        PROVE  FALSE
    <3>1. PICK t \in Seq(Byte), c \in Byte : v = Append(t, c)
      BY <2>1, SequenceEmptyOrAppend
    <3> QED
      BY <1>1, <2>1, <3>1, EscapeAllEmpty
  <2>2. <<>> \in Seq(Byte)
    OBVIOUS
  <2> QED
    BY <2>1, <2>2
<1>3. ASSUME NEW u \in P, NEW b \in Byte PROVE Append(u, b) \in P
  <2>1. ASSUME NEW v \in Seq(Byte), EscapeAll(Append(u, b)) = EscapeAll(v)
        PROVE  Append(u, b) = v
    <3>1. v # <<>>
      BY <1>1, <2>1, EscapeAllEmpty
    <3>2. PICK t \in Seq(Byte), c \in Byte : v = Append(t, c)
      BY <3>1, SequenceEmptyOrAppend
    <3>3. EscapeAll(u) \o Escape(b) = EscapeAll(t) \o Escape(c)
      <4>1. EscapeAll(Append(u, b)) = EscapeAll(u) \o Escape(b)
        BY EscapeAllAppend
      <4>2. EscapeAll(Append(t, c)) = EscapeAll(t) \o Escape(c)
        BY EscapeAllAppend
      <4> QED
        BY <2>1, <3>2, <4>1, <4>2
    <3>4. ASSUME NEW s \in Seq(Byte)
          PROVE  EscapeAll(s) \in Seq(Byte) /\ ~Ends(EscapeAll(s), FESC)
      <4>1. EscapeAll(s) \in Seq(Byte)
        BY EscapeAllType
      <4>2. EscapeAll(s) # <<>> => Len(EscapeAll(s)) \in 1..Len(EscapeAll(s))
        BY <4>1
      <4>3. EscapeAll(s) # <<>> /\ EscapeAll(s)[Len(EscapeAll(s))] = FESC
              => Len(EscapeAll(s)) < Len(EscapeAll(s))
        BY <4>2, EscapesArePairs
      <4> QED
        BY <4>1, <4>3 DEF Ends
    <3>5. EscapeAll(u) = EscapeAll(t) /\ b = c
      <4>1. /\ EscapeAll(u) \in Seq(Byte) /\ ~Ends(EscapeAll(u), FESC)
            /\ EscapeAll(t) \in Seq(Byte) /\ ~Ends(EscapeAll(t), FESC)
        BY <3>4
      <4> DEFINE e == EscapeAll(u)
                 f == EscapeAll(t)
      <4> HIDE DEF e, f
      <4>2. e \in Seq(Byte) /\ f \in Seq(Byte) /\ ~Ends(e, FESC) /\ ~Ends(f, FESC)
        BY <4>1 DEF e, f
      <4>3. e \o Escape(b) = f \o Escape(c)
        BY <3>3 DEF e, f
      <4>4. e = f /\ b = c
        BY <4>2, <4>3, LastEscape
      <4> QED
        BY <4>4 DEF e, f
    <3> QED
      BY <3>2, <3>5
  <2>2. Append(u, b) \in Seq(Byte)
    OBVIOUS
  <2> QED
    BY <2>1, <2>2
<1>4. P = Seq(Byte)
  <2> HIDE DEF P
  <2>1. P \subseteq Seq(Byte)
    BY DEF P
  <2> QED
    BY <1>2, <1>3, <2>1, SeqInduction
<1> QED
  BY <1>4

---------------------------------------------------------------------------
(* The escaping of a frame, and what a parser holds of it.                 *)

\* No byte of the segment so far breaks an escape; the last may open one.
Escaping(seg) == \A k \in 1..(Len(seg) - 1) : seg[k] = FESC => seg[k + 1] \in {TFEND, TFESC}

\* The parser holds the bytes whose escaping the segment so far is.
Holds(k, seg) == seg = EscapeAll(k.buffer) \o (IF k.inEscape THEN <<FESC>> ELSE <<>>)

\* The parts of the escaped segment that one more byte adds to.
LEMMA HoldsStep ==
  ASSUME NEW k \in KissState, NEW seg \in Seq(Byte), NEW byte \in Byte, byte # FEND,
         Escaping(seg) => Holds(k, seg), Escaping(Append(seg, byte))
  PROVE  Holds(FeedData(k, byte), Append(seg, byte))
<1> DEFINE fed  == FeedData(k, byte)
           text == EscapeAll(k.buffer)
<1>1. k.buffer \in Seq(Byte) /\ text \in Seq(Byte) /\ k.inEscape \in BOOLEAN
  BY EscapeAllType DEF KissState
<1>2. Len(seg) \in Nat /\ Len(Append(seg, byte)) = Len(seg) + 1
      /\ \A j \in 1..Len(seg) : Append(seg, byte)[j] = seg[j]
      /\ Append(seg, byte)[Len(seg) + 1] = byte
  OBVIOUS
<1>3. Escaping(seg)
  BY <1>2 DEF Escaping
<1>4. Holds(k, seg)
  BY <1>3
<1>5. seg # <<>> /\ seg[Len(seg)] = FESC => byte \in {TFEND, TFESC}
  BY <1>2 DEF Escaping
<1>6. /\ \A b \in Byte : EscapeAll(Append(k.buffer, b)) = text \o Escape(b)
      /\ FEND \in Byte /\ FESC \in Byte
  <2>1. ASSUME NEW b \in Byte PROVE EscapeAll(Append(k.buffer, b)) = EscapeAll(k.buffer) \o Escape(b)
    BY <1>1, EscapeAllAppend
  <2>2. FEND \in Byte /\ FESC \in Byte
    BY DEF Byte, FEND, FESC
  <2> QED
    BY <2>1, <2>2
<1> HIDE DEF text
<1>7. CASE k.inEscape
  <2>1. seg = text \o <<FESC>>
    BY <1>4, <1>7 DEF Holds, text
  <2>2. seg # <<>> /\ seg[Len(seg)] = FESC
    BY <1>1, <1>6, <2>1
  <2>3. byte \in {TFEND, TFESC} /\ byte # FESC
    BY <1>5, <2>2 DEF TFEND, TFESC, FESC
  <2> DEFINE b == IF byte = TFEND THEN FEND ELSE FESC
  <2>4. fed = [k EXCEPT !.inFrame = TRUE, !.inEscape = FALSE, !.buffer = Append(@, b)]
    BY <1>7, <2>3 DEF FeedData
  <2>5. fed.inEscape = FALSE /\ fed.buffer = Append(k.buffer, b)
    BY <2>4 DEF KissState
  <2>6. b \in Byte /\ Escape(b) = <<FESC, byte>>
    BY <1>6, <2>3 DEF Escape, FEND, FESC, TFEND, TFESC
  <2> HIDE DEF b, fed
  <2>7. EscapeAll(fed.buffer) = text \o <<FESC, byte>>
    BY <1>6, <2>5, <2>6
  <2>8. Append(seg, byte) = text \o <<FESC, byte>>
    BY <1>1, <1>6, <2>1
  <2>9. EscapeAll(fed.buffer) \o <<>> = EscapeAll(fed.buffer)
    BY <1>1, <1>6, <2>7
  <2> QED
    BY <2>5, <2>7, <2>8, <2>9 DEF Holds, fed
<1>8. CASE ~k.inEscape
  <2>1. seg = text
    BY <1>1, <1>4, <1>8 DEF Holds, text
  <2>2. CASE byte = FESC
    <3>1. fed.inEscape /\ fed.buffer = k.buffer
      BY <2>2 DEF FeedData, KissState
    <3>2. Append(seg, byte) = text \o <<FESC>>
      BY <1>1, <1>6, <2>1, <2>2
    <3> QED
      BY <3>1, <3>2 DEF Holds, text
  <2>3. CASE byte # FESC
    <3>1. fed = [k EXCEPT !.inFrame = TRUE, !.buffer = Append(@, byte)]
      BY <1>8, <2>3 DEF FeedData
    <3>2. ~fed.inEscape /\ fed.buffer = Append(k.buffer, byte)
      BY <1>8, <3>1 DEF KissState
    <3>3. Escape(byte) = <<byte>>
      BY <2>3 DEF Escape
    <3> HIDE DEF fed
    <3>4. EscapeAll(fed.buffer) = text \o <<byte>>
      BY <1>6, <3>2, <3>3
    <3>5. Append(seg, byte) = text \o <<byte>> /\ EscapeAll(fed.buffer) \o <<>> = text \o <<byte>>
      BY <1>1, <2>1, <3>4
    <3> QED
      BY <3>2, <3>5 DEF Holds, fed
  <2> QED
    BY <2>2, <2>3
<1> QED
  BY <1>7, <1>8
==========================================================================
