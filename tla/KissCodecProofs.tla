-------------------------- MODULE KissCodecProofs --------------------------
(***************************************************************************)
(* The parser of kiss.c finds the frames of every byte stream and undoes   *)
(* the escaping, and a frame that is encoded again arrives as it was: for  *)
(* every alphabet, timeout, clock and silence.                             *)
(***************************************************************************)
EXTENDS KissCodec, KissProofs

\* i is the last FEND of the stream, and data came after it.
InSegment(s, i) == i \in FendsIn(s) /\ i < Len(s) /\ FendsIn(s) \cap (i + 1)..Len(s) = {}

\* What a parser without a complete frame knows of the stream so far.
OpenInv(k, s) ==
  /\ k.sawFend <=> FendsIn(s) # {}
  /\ k.inFrame <=> s # <<>> /\ s[Len(s)] # FEND
  /\ ~k.inFrame => k.buffer = <<>> /\ ~k.inEscape
  /\ k.inFrame /\ k.sawFend =>
       \E i \in DOMAIN s : /\ InSegment(s, i)
                           /\ Escaping(SubSeq(s, i + 1, Len(s))) => Holds(k, SubSeq(s, i + 1, Len(s)))

\* What a parser with a complete frame knows.
ClosedInv(k, s) ==
  \E i \in DOMAIN s : /\ Delimits(s, i, Len(s))
                      /\ WellFormed(Segment(s, i, Len(s))) => EscapeAll(k.buffer) = Segment(s, i, Len(s))

\* The parser and the stream it was fed.
StreamInv ==
  IF kiss.haveFrame THEN ClosedInv(kiss, stream)
  ELSE OpenInv(kiss, stream) /\ ~\E i \in DOMAIN stream : Delimits(stream, i, Len(stream))

\* The buffer never gets longer than the stream (pos stays in bounds).
LengthInv == Len(kiss.buffer) <= Len(stream) /\ Len(stream) <= MaxBytes

\* The unsigned subtraction finds the silence, across the clock's wrap too.
LEMMA ClockStep ==
  ASSUME NEW last \in Clock, NEW gap \in Clock
  PROVE  /\ (last + gap) % ClockRange \in Clock
         /\ (((last + gap) % ClockRange) - last) % ClockRange = gap
<1>1. /\ ClockRange \in Nat /\ last \in Nat /\ gap \in Nat
      /\ last < ClockRange /\ gap < ClockRange
  BY ClockAssumption DEF Clock
<1>2. CASE last + gap < ClockRange
  <2>1. (last + gap) % ClockRange = last + gap
    BY <1>1, <1>2
  <2>2. gap % ClockRange = gap
    BY <1>1
  <2> QED
    BY <1>1, <1>2, <2>1, <2>2 DEF Clock
<1>3. CASE last + gap >= ClockRange
  <2>1. (last + gap) % ClockRange = last + gap - ClockRange
    BY <1>1, <1>3
  <2>2. (gap - ClockRange) % ClockRange = gap
    BY <1>1
  <2>3. last + gap - ClockRange - last = gap - ClockRange
    BY <1>1
  <2> QED
    BY <1>1, <1>3, <2>1, <2>2, <2>3 DEF Clock
<1> QED
  BY <1>1, <1>2, <1>3

\* An initialised parser is one.
LEMMA InitType == \A now \in Clock : kiss_init(now) \in KissState
BY DEF kiss_init, KissState

\* What the parser forgets after a silence, and what it goes on with.
LEMMA HeardInv ==
  ASSUME TypeOK, StreamInv, LengthInv, ~kiss.haveFrame, NEW gap \in Clock
  PROVE  LET now   == (kiss.last_feed_ms + gap) % ClockRange
             live  == Refresh(kiss, now)
             heard == IF gap > KISS_FEED_TIMEOUT_MS THEN <<>> ELSE stream
         IN  /\ now \in Clock /\ live \in KissState /\ ~live.haveFrame
             /\ heard \in Seq(Input) /\ OpenInv(live, heard)
             /\ Len(live.buffer) <= Len(heard)
<1> DEFINE now   == (kiss.last_feed_ms + gap) % ClockRange
           live  == Refresh(kiss, now)
           heard == IF gap > KISS_FEED_TIMEOUT_MS THEN <<>> ELSE stream
<1>1. kiss \in KissState /\ stream \in Seq(Input) /\ kiss.last_feed_ms \in Clock
  BY DEF TypeOK, KissState
<1>2. now \in Clock /\ (Expired(kiss, now) <=> gap > KISS_FEED_TIMEOUT_MS)
  BY <1>1, ClockStep DEF Expired
<1> HIDE DEF now
<1>3. CASE gap > KISS_FEED_TIMEOUT_MS
  <2>1. live = kiss_init(now) /\ heard = <<>>
    BY <1>2, <1>3 DEF Refresh
  <2>2. OpenInv(kiss_init(now), <<>>)
    BY DEF OpenInv, kiss_init, FendsIn
  <2>3. ~live.haveFrame /\ live.buffer = <<>>
    BY <2>1 DEF kiss_init
  <2> HIDE DEF live, heard
  <2>4. /\ live \in KissState /\ heard \in Seq(Input) /\ OpenInv(live, heard)
        /\ Len(live.buffer) <= Len(heard)
    BY <1>2, <2>1, <2>2, <2>3, InitType
  <2> QED
    BY <1>2, <2>3, <2>4 DEF now, live, heard
<1>4. CASE ~(gap > KISS_FEED_TIMEOUT_MS)
  <2>1. live = [kiss EXCEPT !.last_feed_ms = now] /\ heard = stream
    BY <1>2, <1>4 DEF Refresh
  <2>2. /\ live \in KissState /\ live.haveFrame = kiss.haveFrame
        /\ live.sawFend = kiss.sawFend /\ live.inFrame = kiss.inFrame
        /\ live.buffer = kiss.buffer /\ live.inEscape = kiss.inEscape
    BY <1>1, <1>2, <2>1 DEF KissState
  <2>3. OpenInv(live, stream)
    <3>1. OpenInv(kiss, stream)
      BY DEF StreamInv
    <3> HIDE DEF live
    <3> QED
      BY <2>2, <3>1 DEF OpenInv, Holds
  <2>4. /\ live \in KissState /\ heard \in Seq(Input) /\ OpenInv(live, heard)
        /\ Len(live.buffer) <= Len(heard) /\ ~live.haveFrame
    BY <1>1, <2>1, <2>2, <2>3 DEF LengthInv
  <2> QED
    BY <1>2, <2>4 DEF now
<1> QED
  BY <1>3, <1>4

\* The FENDs of a stream that one more byte joined.
LEMMA FendsAppend ==
  ASSUME NEW s \in Seq(Byte), NEW byte \in Byte
  PROVE  /\ Append(s, byte) \in Seq(Byte) /\ Len(Append(s, byte)) = Len(s) + 1
         /\ \A j \in 1..Len(s) : Append(s, byte)[j] = s[j]
         /\ Append(s, byte)[Len(s) + 1] = byte
         /\ FendsIn(s) \subseteq 1..Len(s)
         /\ FendsIn(Append(s, byte)) = FendsIn(s) \cup (IF byte = FEND THEN {Len(s) + 1} ELSE {})
<1>1. /\ Append(s, byte) \in Seq(Byte) /\ Len(Append(s, byte)) = Len(s) + 1
      /\ \A j \in 1..Len(s) : Append(s, byte)[j] = s[j]
      /\ Append(s, byte)[Len(s) + 1] = byte
      /\ DOMAIN s = 1..Len(s) /\ DOMAIN Append(s, byte) = 1..(Len(s) + 1) /\ Len(s) \in Nat
  OBVIOUS
<1> QED
  BY <1>1 DEF FendsIn

\* The segment after i grows with the stream.
LEMMA AppendSegment ==
  ASSUME NEW s \in Seq(Byte), NEW byte \in Byte, NEW i \in 1..Len(s)
  PROVE  /\ SubSeq(s, i + 1, Len(s)) \in Seq(Byte)
         /\ SubSeq(Append(s, byte), i + 1, Len(s) + 1) = Append(SubSeq(s, i + 1, Len(s)), byte)
<1> DEFINE n == Len(s)
           t == Append(s, byte)
<1>1. /\ t \in Seq(Byte) /\ Len(t) = n + 1 /\ n \in Nat /\ i \in Nat /\ i <= n
      /\ \A j \in 1..n : t[j] = s[j]
      /\ t[n + 1] = byte
  OBVIOUS
<1> HIDE DEF t
<1> DEFINE seg == SubSeq(s, i + 1, n)
           cut == SubSeq(t, i + 1, n + 1)
<1>2. seg \in Seq(Byte) /\ Len(seg) = n - i /\ \A j \in 1..(n - i) : seg[j] = s[i + j]
  <2>1. i + 1 \in 1..(n + 1) /\ n \in i..n /\ Len(seg) = n - i
    BY <1>1
  <2> QED
    BY <1>1
<1>3. cut \in Seq(Byte) /\ Len(cut) = n + 1 - i /\ \A j \in 1..(n + 1 - i) : cut[j] = t[i + j]
  BY <1>1
<1> HIDE DEF seg, cut
<1>4. /\ Append(seg, byte) \in Seq(Byte) /\ Len(Append(seg, byte)) = n - i + 1
      /\ \A j \in 1..(n - i) : Append(seg, byte)[j] = seg[j]
      /\ Append(seg, byte)[n - i + 1] = byte
  <2>1. /\ Append(seg, byte) \in Seq(Byte) /\ Len(Append(seg, byte)) = Len(seg) + 1
        /\ \A j \in 1..Len(seg) : Append(seg, byte)[j] = seg[j]
        /\ Append(seg, byte)[Len(seg) + 1] = byte
    BY <1>2, FendsAppend
  <2> QED
    BY <1>2, <2>1
<1>5. ASSUME NEW j \in 1..(n + 1 - i)
      PROVE  cut[j] = Append(seg, byte)[j]
  <2>1. CASE j = n + 1 - i
    BY <1>1, <1>3, <1>4, <2>1
  <2>2. CASE j \in 1..(n - i)
    <3>1. i + j \in 1..n
      BY <1>1, <2>2
    <3> QED
      BY <1>1, <1>2, <1>3, <1>4, <2>2, <3>1
  <2>3. j = n + 1 - i \/ j \in 1..(n - i)
    BY <1>1
  <2> QED
    BY <2>1, <2>2, <2>3
<1>6. cut = Append(seg, byte)
  <2>1. Len(cut) = Len(Append(seg, byte)) /\ \A j \in 1..Len(cut) : cut[j] = Append(seg, byte)[j]
    BY <1>1, <1>3, <1>4, <1>5
  <2> QED
    BY <1>3, <1>4, <2>1, SeqEqual
<1> QED
  BY <1>2, <1>6 DEF seg, cut, t

\* A FEND: the frame is complete exactly when there is data since the last one.
LEMMA FendInv ==
  ASSUME NEW k \in KissState, ~k.haveFrame, NEW s \in Seq(Byte), OpenInv(k, s), NEW now \in Clock
  PROVE  LET fed == FeedFend(k, now)
             t   == Append(s, FEND)
         IN  /\ Len(fed.buffer) <= Len(k.buffer)
             /\ IF fed.haveFrame THEN ClosedInv(fed, t)
                ELSE OpenInv(fed, t) /\ ~\E i \in DOMAIN t : Delimits(t, i, Len(t))
<1> DEFINE fed == FeedFend(k, now)
           t   == Append(s, FEND)
           n   == Len(s)
<1>1. /\ t \in Seq(Byte) /\ Len(t) = n + 1 /\ n \in Nat
      /\ \A j \in 1..n : t[j] = s[j]
      /\ t[n + 1] = FEND
      /\ FendsIn(s) \subseteq 1..n
      /\ FendsIn(t) = FendsIn(s) \cup {n + 1}
      /\ DOMAIN t = 1..(n + 1) /\ DOMAIN s = 1..n
  <2>1. FEND \in Byte
    BY DEF FEND, Byte
  <2> QED
    BY <2>1, FendsAppend
<1>2. n = 0 <=> s = <<>>
  OBVIOUS
<1> HIDE DEF t
<1>3. CASE ~k.inFrame
  <2>1. fed = [k EXCEPT !.sawFend = TRUE]
    BY <1>3 DEF FeedFend
  <2>2. /\ fed.sawFend = TRUE /\ ~fed.inFrame /\ ~fed.haveFrame
        /\ fed.buffer = <<>> /\ ~fed.inEscape /\ k.buffer = <<>>
    BY <1>3, <2>1 DEF KissState, OpenInv
  <2>3. n = 0 \/ n \in FendsIn(s)
    BY <1>1, <1>2, <1>3 DEF OpenInv, FendsIn
  <2>4. ASSUME NEW i \in DOMAIN t, Delimits(t, i, n + 1)
        PROVE  FALSE
    <3>1. i \in FendsIn(t) /\ i + 1 < n + 1 /\ FendsIn(t) \cap (i + 1)..((n + 1) - 1) = {}
      BY <2>4 DEF Delimits
    <3>2. n \in FendsIn(s) /\ n \in (i + 1)..((n + 1) - 1)
      BY <1>1, <2>3, <3>1
    <3> QED
      BY <1>1, <3>1, <3>2
  <2>5. OpenInv(fed, t)
    BY <1>1, <2>2 DEF OpenInv
  <2> HIDE DEF fed
  <2> QED
    BY <1>1, <2>2, <2>4, <2>5 DEF fed, t
<1>4. CASE k.inFrame /\ k.sawFend
  <2>1. fed = [k EXCEPT !.haveFrame = TRUE]
    BY <1>4 DEF FeedFend
  <2>2. fed.haveFrame = TRUE /\ fed.buffer = k.buffer
    BY <2>1 DEF KissState
  <2>3. PICK i \in DOMAIN s : /\ InSegment(s, i)
                              /\ Escaping(SubSeq(s, i + 1, n)) => Holds(k, SubSeq(s, i + 1, n))
    BY <1>4 DEF OpenInv
  <2>4. Delimits(t, i, n + 1)
    BY <1>1, <2>3 DEF InSegment, Delimits
  <2> DEFINE seg == SubSeq(s, i + 1, n)
  <2>5. Segment(t, i, n + 1) = seg
    <3>1. i \in Nat /\ i < n
      BY <1>1, <2>3 DEF InSegment
    <3> QED
      BY <1>1, <3>1 DEF Segment, t
  <2>6. seg \in Seq(Byte)
    BY <1>1, SubSeqProperties
  <2> HIDE DEF seg
  <2>7. ASSUME WellFormed(seg)
        PROVE  EscapeAll(k.buffer) = seg
    <3>1. Holds(k, seg)
      <4>1. Escaping(seg)
        BY <2>6, <2>7 DEF WellFormed, Escaping
      <4> QED
        BY <2>3, <4>1 DEF seg
    <3>2. EscapeAll(k.buffer) \in Seq(Byte) /\ FESC \in Byte
      BY EscapeAllType DEF KissState, FESC, Byte
    <3>3. CASE k.inEscape
      <4>1. seg = EscapeAll(k.buffer) \o <<FESC>>
        BY <3>1, <3>3 DEF Holds
      <4>2. Len(seg) \in DOMAIN seg /\ seg[Len(seg)] = FESC
        BY <3>2, <4>1
      <4> QED
        BY <2>6, <2>7, <4>2 DEF WellFormed
    <3>4. CASE ~k.inEscape
      BY <3>1, <3>2, <3>4 DEF Holds
    <3> QED
      BY <3>3, <3>4
  <2>8. ClosedInv(fed, t)
    BY <1>1, <2>2, <2>4, <2>5, <2>7 DEF ClosedInv
  <2>9. Len(k.buffer) \in Nat
    BY DEF KissState
  <2> HIDE DEF fed
  <2> QED
    BY <2>2, <2>8, <2>9 DEF fed, t
<1>5. CASE k.inFrame /\ ~k.sawFend
  <2>1. fed = [kiss_init(now) EXCEPT !.sawFend = TRUE]
    BY <1>5 DEF FeedFend
  <2>2. fed.sawFend = TRUE /\ ~fed.inFrame /\ ~fed.haveFrame /\ fed.buffer = <<>> /\ ~fed.inEscape
    BY <2>1 DEF kiss_init
  <2>3. FendsIn(s) = {}
    BY <1>5 DEF OpenInv
  <2>4. ASSUME NEW i \in DOMAIN t, Delimits(t, i, n + 1)
        PROVE  FALSE
    BY <1>1, <2>3, <2>4 DEF Delimits
  <2>5. OpenInv(fed, t)
    BY <1>1, <2>2 DEF OpenInv
  <2>6. Len(k.buffer) \in Nat
    BY DEF KissState
  <2> HIDE DEF fed
  <2> QED
    BY <1>1, <2>2, <2>4, <2>5, <2>6 DEF fed, t
<1> QED
  BY <1>3, <1>4, <1>5

\* Any other byte belongs to the segment.
LEMMA DataInv ==
  ASSUME NEW k \in KissState, ~k.haveFrame, NEW s \in Seq(Byte), OpenInv(k, s),
         NEW byte \in Byte, byte # FEND
  PROVE  LET fed == FeedData(k, byte)
             t   == Append(s, byte)
         IN  /\ Len(fed.buffer) <= Len(k.buffer) + 1 /\ ~fed.haveFrame
             /\ OpenInv(fed, t) /\ ~\E i \in DOMAIN t : Delimits(t, i, Len(t))
<1> DEFINE fed == FeedData(k, byte)
           t   == Append(s, byte)
           n   == Len(s)
<1>1. /\ t \in Seq(Byte) /\ Len(t) = n + 1 /\ n \in Nat
      /\ \A j \in 1..n : t[j] = s[j]
      /\ t[n + 1] = byte
      /\ FendsIn(s) \subseteq 1..n
      /\ FendsIn(t) = FendsIn(s)
      /\ DOMAIN t = 1..(n + 1) /\ DOMAIN s = 1..n /\ t # <<>>
  <2>1. FendsIn(t) = FendsIn(s) \cup {}
    BY FendsAppend
  <2>2. t \in Seq(Byte) /\ Len(t) = n + 1 /\ n \in Nat
    BY FendsAppend
  <2>3. t[n + 1] = byte /\ FendsIn(s) \subseteq 1..n /\ \A j \in 1..n : t[j] = s[j]
    BY FendsAppend
  <2> HIDE DEF t
  <2> QED
    BY <2>1, <2>2, <2>3
<1>2. /\ fed.inFrame = TRUE /\ fed.sawFend = k.sawFend /\ ~fed.haveFrame
      /\ Len(fed.buffer) <= Len(k.buffer) + 1
  BY DEF FeedData, KissState, FEND, FESC, Byte
<1>3. ~\E i \in DOMAIN t : Delimits(t, i, n + 1)
  BY <1>1 DEF Delimits
<1> HIDE DEF t
<1>4. ASSUME k.sawFend
      PROVE  \E i \in DOMAIN t : /\ InSegment(t, i)
                                 /\ Escaping(SubSeq(t, i + 1, n + 1)) => Holds(fed, SubSeq(t, i + 1, n + 1))
  <2>1. PICK i \in 1..n : /\ i \in FendsIn(s) /\ FendsIn(s) \cap (i + 1)..n = {}
                          /\ Escaping(SubSeq(s, i + 1, n)) => Holds(k, SubSeq(s, i + 1, n))
    <3>1. CASE k.inFrame
      BY <1>1, <1>4, <3>1 DEF OpenInv, InSegment
    <3>2. CASE ~k.inFrame
      <4>1. n \in FendsIn(s)
        BY <1>1, <1>4, <3>2 DEF OpenInv, FendsIn
      <4>2. n \in 1..n /\ (n + 1)..n = {}
        BY <1>1, <4>1
      <4>3. SubSeq(s, n + 1, n) = <<>>
        BY <1>1, SubSeqEmpty
      <4>4. Holds(k, <<>>)
        BY <3>2, EscapeAllEmpty DEF Holds, OpenInv
      <4> QED
        BY <4>1, <4>2, <4>3, <4>4
    <3> QED
      BY <3>1, <3>2
  <2> DEFINE seg == SubSeq(s, i + 1, n)
  <2>2. seg \in Seq(Byte) /\ SubSeq(t, i + 1, n + 1) = Append(seg, byte)
    BY <1>1, AppendSegment DEF t
  <2> HIDE DEF seg, fed
  <2>3. Escaping(Append(seg, byte)) => Holds(fed, Append(seg, byte))
    BY <2>1, <2>2, HoldsStep DEF seg, fed
  <2>4. InSegment(t, i)
    BY <1>1, <2>1 DEF InSegment
  <2>5. i \in DOMAIN t
    BY <1>1
  <2> QED
    BY <2>2, <2>3, <2>4, <2>5
<1>5. OpenInv(fed, t)
  <2>1. k.sawFend <=> FendsIn(s) # {}
    BY DEF OpenInv
  <2> HIDE DEF fed
  <2> QED
    BY <1>1, <1>2, <1>4, <2>1 DEF OpenInv
<1> HIDE DEF fed
<1> QED
  BY <1>1, <1>2, <1>3, <1>5 DEF fed, t

---------------------------------------------------------------------------

\* The inductive invariant: the segment since the last FEND is what the
\* parser holds, escaped.
IInv == TypeOK /\ StreamInv /\ LengthInv

\* It holds of a parser that was fed nothing.
LEMMA InitInv == Init => IInv
<1> SUFFICES ASSUME Init PROVE IInv
  OBVIOUS
<1>1. PICK now \in Clock : kiss = kiss_init(now)
  BY DEF Init
<1>2. kiss \in KissState /\ stream = <<>> /\ kiss.buffer = <<>> /\ ~kiss.haveFrame
  BY <1>1, InitType DEF Init, kiss_init
<1>3. OpenInv(kiss, stream)
  BY <1>1, <1>2 DEF OpenInv, FendsIn, kiss_init
<1>4. DOMAIN stream = {}
  BY <1>2
<1> QED
  BY <1>2, <1>3, <1>4, CodecAssumption DEF IInv, TypeOK, StreamInv, LengthInv

\* kiss_feed keeps it, for every byte and every silence.
LEMMA FeedInv ==
  ASSUME IInv, NEW byte \in Input, NEW gap \in Gaps, Feed(byte, gap)
  PROVE  IInv'
<1> DEFINE now   == (kiss.last_feed_ms + gap) % ClockRange
           live  == Refresh(kiss, now)
           heard == IF gap > KISS_FEED_TIMEOUT_MS THEN <<>> ELSE stream
<1>1. /\ ~kiss.haveFrame /\ Len(stream) < MaxBytes
      /\ kiss' = kiss_feed(kiss, byte, now) /\ stream' = Append(heard, byte)
  BY DEF Feed
<1>2. gap \in Clock /\ byte \in Byte /\ Seq(Input) \subseteq Seq(Byte) /\ MaxBytes \in Nat
  BY CodecAssumption
<1>3. /\ now \in Clock /\ live \in KissState /\ ~live.haveFrame
      /\ heard \in Seq(Input) /\ OpenInv(live, heard) /\ Len(live.buffer) <= Len(heard)
  BY <1>1, <1>2, HeardInv DEF IInv
<1>4. Len(heard) \in Nat /\ Len(heard) <= Len(stream) /\ Len(stream) \in Nat
  BY DEF IInv, TypeOK
<1>5. stream' \in Seq(Input) /\ Len(stream') = Len(heard) + 1
  BY <1>1, <1>3
<1>6. kiss' \in KissState
  BY <1>1, <1>2, <1>3, FeedType DEF IInv, TypeOK
<1>7. kiss' = IF byte = FEND THEN FeedFend(live, now) ELSE FeedData(live, byte)
  BY <1>1 DEF kiss_feed
<1>8. Len(live.buffer) \in Nat /\ Len(kiss'.buffer) \in Nat
  BY <1>3, <1>6 DEF KissState
<1> HIDE DEF live, heard, now
<1>9. CASE byte = FEND
  <2>1. /\ Len(kiss'.buffer) <= Len(live.buffer)
        /\ IF kiss'.haveFrame THEN ClosedInv(kiss', stream')
           ELSE OpenInv(kiss', stream') /\ ~\E i \in DOMAIN stream' : Delimits(stream', i, Len(stream'))
    BY <1>1, <1>2, <1>3, <1>7, <1>9, FendInv
  <2>2. StreamInv'
    BY <2>1 DEF StreamInv
  <2>3. LengthInv'
    BY <1>1, <1>2, <1>3, <1>4, <1>5, <1>8, <2>1 DEF LengthInv
  <2> QED
    BY <1>5, <1>6, <2>2, <2>3 DEF IInv, TypeOK
<1>10. CASE byte # FEND
  <2>1. /\ Len(kiss'.buffer) <= Len(live.buffer) + 1 /\ ~kiss'.haveFrame
        /\ OpenInv(kiss', stream') /\ ~\E i \in DOMAIN stream' : Delimits(stream', i, Len(stream'))
    BY <1>1, <1>2, <1>3, <1>7, <1>10, DataInv
  <2>2. StreamInv'
    BY <2>1 DEF StreamInv
  <2>3. LengthInv'
    BY <1>1, <1>2, <1>3, <1>4, <1>5, <1>8, <2>1 DEF LengthInv
  <2> QED
    BY <1>5, <1>6, <2>2, <2>3 DEF IInv, TypeOK
<1> QED
  BY <1>9, <1>10

\* The callers' kiss_init after a frame keeps it.
LEMMA ResetInv == ASSUME IInv, Reset PROVE IInv'
<1>1. kiss.last_feed_ms \in Clock
  BY DEF IInv, TypeOK, KissState
<1>2. /\ kiss' = kiss_init(kiss.last_feed_ms) /\ stream' = <<>> /\ kiss' \in KissState
      /\ kiss'.buffer = <<>> /\ ~kiss'.haveFrame
  BY <1>1, InitType DEF Reset, kiss_init
<1>3. OpenInv(kiss', stream')
  BY <1>2 DEF OpenInv, FendsIn, kiss_init
<1>4. DOMAIN stream' = {}
  BY <1>2
<1> QED
  BY <1>2, <1>3, <1>4, CodecAssumption DEF IInv, TypeOK, StreamInv, LengthInv

\* So does every step.
LEMMA StepInv == IInv /\ [Next]_vars => IInv'
<1> SUFFICES ASSUME IInv, [Next]_vars PROVE IInv'
  OBVIOUS
<1>1. CASE UNCHANGED vars
  BY <1>1 DEF IInv, TypeOK, StreamInv, LengthInv, vars
<1>2. CASE Reset
  BY <1>2, ResetInv
<1>3. ASSUME NEW byte \in Input, NEW gap \in Gaps, Feed(byte, gap)
      PROVE  IInv'
  BY <1>3, FeedInv
<1> QED
  BY <1>1, <1>2, <1>3 DEF Next

\* The inductive invariant holds in every reachable state.
THEOREM Invariance == Spec => []IInv
<1> QED
  BY InitInv, StepInv, PTL DEF Spec

\* The parser's state has its type, and the clock it remembers is one.
THEOREM TypeCorrect == Spec => []TypeOK
<1>1. IInv => TypeOK
  BY DEF IInv
<1> QED
  BY <1>1, Invariance, PTL

\* kiss_feed returns true exactly at the end of FEND data FEND, for every
\* stream and every silence in it.
THEOREM Delimited == Spec => []FrameIffDelimited
<1>1. IInv => FrameIffDelimited
  BY DEF IInv, StreamInv, ClosedInv, FrameIffDelimited
<1> QED
  BY <1>1, Invariance, PTL

\* The frame that ends at n starts at one place.
LEMMA OneSegment ==
  ASSUME NEW s \in Seq(Byte), NEW i, NEW j, NEW n, Delimits(s, i, n), Delimits(s, j, n)
  PROVE  i = j
<1>1. i \in 1..Len(s) /\ j \in 1..Len(s) /\ n \in 1..Len(s)
  BY DEF Delimits, FendsIn
<1>2. ~(i < j)
  BY <1>1 DEF Delimits
<1>3. ~(j < i)
  BY <1>1 DEF Delimits
<1> QED
  BY <1>1, <1>2, <1>3

\* A complete frame is the segment between its FENDs with the escaping undone.
THEOREM Unescaped == Spec => []UnescapesTheSegment
<1>1. ASSUME IInv PROVE UnescapesTheSegment
  <2>1. SUFFICES ASSUME kiss.haveFrame, NEW i \in DOMAIN stream,
                        Delimits(stream, i, Len(stream)),
                        WellFormed(Segment(stream, i, Len(stream)))
                 PROVE  EscapeAll(kiss.buffer) = Segment(stream, i, Len(stream))
    BY DEF UnescapesTheSegment
  <2>2. PICK j \in DOMAIN stream :
          /\ Delimits(stream, j, Len(stream))
          /\ WellFormed(Segment(stream, j, Len(stream))) =>
               EscapeAll(kiss.buffer) = Segment(stream, j, Len(stream))
    BY <1>1, <2>1 DEF IInv, StreamInv, ClosedInv
  <2>3. stream \in Seq(Byte)
    BY <1>1, CodecAssumption DEF IInv, TypeOK
  <2>4. i = j
    BY <2>1, <2>2, <2>3, OneSegment
  <2> QED
    BY <2>1, <2>2, <2>4
<1> QED
  BY <1>1, Invariance, PTL
---------------------------------------------------------------------------

\* One round of Decode.
DecodeStep == [x \in KissState \X Byte |-> kiss_feed(x[1], x[2], 0)]

\* A parser can be started at time 0.
LEMMA Start == 0 \in Clock /\ kiss_init(0) \in KissState
<1>1. 0 \in Clock
  BY ClockAssumption DEF Clock
<1> QED
  BY <1>1, InitType

\* The relayed bytes are fed in order, one at a time.
LEMMA DecodeSteps ==
  ASSUME NEW s \in Seq(Byte)
  PROVE  \E v \in [0..Len(s) -> KissState] :
           Decode(s) = v[Len(s)] /\ Steps(DecodeStep, kiss_init(0), s, v)
<1> DEFINE Is(iter) == iter = [t \in SUBSET DOMAIN s |->
                         IF t = {} THEN kiss_init(0) ELSE kiss_feed(iter[t \ {Max(t)}], s[Max(t)], 0)]
           Pick == CHOOSE iter : Is(iter)
<1>1. Decode(s) = Pick[DOMAIN s]
  BY DEF Decode, FoldLeft, MapThenFoldSet
<1>2. /\ kiss_init(0) \in KissState /\ DecodeStep \in [KissState \X Byte -> KissState]
      /\ DOMAIN s = 1..Len(s) /\ Len(s) \in 0..Len(s)
  <2>1. ASSUME NEW k \in KissState, NEW b \in Byte PROVE kiss_feed(k, b, 0) \in KissState
    BY FeedType, Start
  <2> QED
    BY <2>1, Start DEF DecodeStep
<1>3. PICK g \in [SUBSET (1..Len(s)) -> KissState] : Unfolds(DecodeStep, kiss_init(0), s, g)
  BY <1>2, FoldExists
<1>4. ASSUME NEW t \in SUBSET (1..Len(s)), t # {}
      PROVE  Max(t) \in t
  BY <1>2, <1>4, MaxIn, Len(s) \in Nat
<1>5. g = [t \in SUBSET (1..Len(s)) |->
             IF t = {} THEN kiss_init(0) ELSE kiss_feed(g[t \ {Max(t)}], s[Max(t)], 0)]
  <2>1. ASSUME NEW t \in SUBSET (1..Len(s)), t # {}
        PROVE  g[t] = kiss_feed(g[t \ {Max(t)}], s[Max(t)], 0)
    <3>1. Max(t) \in t
      BY <1>4, <2>1
    <3>2. t \ {Max(t)} \in SUBSET (1..Len(s)) /\ Max(t) \in 1..Len(s)
      BY <3>1
    <3>3. g[t \ {Max(t)}] \in KissState /\ s[Max(t)] \in Byte
      BY <3>2
    <3>4. g[t] = DecodeStep[<<g[t \ {Max(t)}], s[Max(t)]>>]
      BY <1>3, <2>1 DEF Unfolds
    <3> QED
      BY <3>3, <3>4 DEF DecodeStep
  <2>2. ASSUME NEW t \in SUBSET (1..Len(s)), t = {}
        PROVE  g[t] = kiss_init(0)
    BY <1>3, <2>2 DEF Unfolds
  <2> QED
    BY <2>1, <2>2
<1>6. Is(g)
  BY <1>2, <1>5
<1>7. Is(Pick)
  <2> HIDE DEF Is
  <2> QED
    BY <1>6, Zenon
<1> DEFINE v == [k \in 0..Len(s) |-> Pick[1..k]]
<1>8. v[0] = kiss_init(0)
  <2>1. 1..0 = {} /\ {} \in SUBSET DOMAIN s /\ 0 \in 0..Len(s)
    OBVIOUS
  <2> HIDE DEF Pick
  <2> QED
    BY <1>7, <2>1
<1>9. ASSUME NEW k \in 1..Len(s), v[k - 1] \in KissState
      PROVE  v[k] = DecodeStep[<<v[k - 1], s[k]>>]
  <2>1. /\ 1..k \in SUBSET DOMAIN s /\ 1..k # {}
        /\ Max(1..k) = k /\ (1..k) \ {k} = 1..(k - 1)
    BY <1>2, Interval, Len(s) \in Nat
  <2> HIDE DEF Pick
  <2>2. Pick[1..k] = kiss_feed(Pick[1..(k - 1)], s[k], 0)
    BY <1>7, <2>1
  <2>3. k \in 0..Len(s) /\ k - 1 \in 0..Len(s) /\ s[k] \in Byte
    OBVIOUS
  <2>4. v[k] = kiss_feed(v[k - 1], s[k], 0)
    BY <2>2, <2>3
  <2> HIDE DEF v
  <2> QED
    BY <1>9, <2>3, <2>4 DEF DecodeStep
<1>10. Decode(s) = v[Len(s)]
  BY <1>1, <1>2
<1> HIDE DEF v
<1>11. Steps(DecodeStep, kiss_init(0), s, v) /\ \A k \in 0..Len(s) : v[k] \in KissState
  <2>1. TypedSteps(KissState, DecodeStep, kiss_init(0), s, v)
    BY <1>8, <1>9 DEF TypedSteps
  <2> QED
    BY <1>2, <2>1, StepsType
<1>12. v \in [0..Len(s) -> KissState]
  BY <1>11 DEF v
<1> QED
  BY <1>10, <1>11, <1>12

\* A parser comes out.
LEMMA DecodeType ==
  ASSUME NEW s \in Seq(Byte)
  PROVE  Decode(s) \in KissState
<1>1. PICK v \in [0..Len(s) -> KissState] :
        Decode(s) = v[Len(s)] /\ Steps(DecodeStep, kiss_init(0), s, v)
  BY DecodeSteps
<1> QED
  BY <1>1

\* One more byte is one more kiss_feed.
LEMMA DecodeAppend ==
  ASSUME NEW s \in Seq(Byte), NEW byte \in Byte
  PROVE  Decode(Append(s, byte)) = kiss_feed(Decode(s), byte, 0)
<1>1. PICK v : Decode(s) = v[Len(s)] /\ Steps(DecodeStep, kiss_init(0), s, v)
  BY DecodeSteps
<1>2. Append(s, byte) \in Seq(Byte)
  OBVIOUS
<1>3. PICK w : /\ Decode(Append(s, byte)) = w[Len(Append(s, byte))]
               /\ Steps(DecodeStep, kiss_init(0), Append(s, byte), w)
  BY <1>2, DecodeSteps
<1>4. w[Len(Append(s, byte))] = DecodeStep[<<v[Len(s)], byte>>]
  BY <1>1, <1>3, StepsAppend
<1>5. v[Len(s)] \in KissState
  BY <1>1, DecodeType
<1> QED
  BY <1>1, <1>3, <1>4, <1>5 DEF DecodeStep

\* Before the first byte the parser is the initialised one.
LEMMA DecodeEmpty == Decode(<<>>) = kiss_init(0)
<1>1. <<>> \in Seq(Byte) /\ Len(<<>>) = 0
  OBVIOUS
<1>2. PICK v \in [0..Len(<<>>) -> KissState] :
        Decode(<<>>) = v[Len(<<>>)] /\ Steps(DecodeStep, kiss_init(0), <<>>, v)
  BY <1>1, DecodeSteps
<1> QED
  BY <1>1, <1>2 DEF Steps

\* A parser that heard its last byte a moment ago.
Prompt(k) == k \in KissState /\ k.last_feed_ms = 0

\* Such a parser takes a byte without forgetting the ones before it.
LEMMA PromptFeed ==
  ASSUME NEW k, Prompt(k), NEW byte \in Byte
  PROVE  LET fed == kiss_feed(k, byte, 0)
         IN  Prompt(fed) /\ fed = IF byte = FEND THEN FeedFend(k, 0) ELSE FeedData(k, byte)
<1>1. ~Expired(k, 0)
  BY ClockAssumption DEF Expired, Prompt
<1>2. Refresh(k, 0) = k
  BY <1>1 DEF Refresh, Prompt, KissState
<1>3. kiss_feed(k, byte, 0) = IF byte = FEND THEN FeedFend(k, 0) ELSE FeedData(k, byte)
  BY <1>2 DEF kiss_feed
<1>4. kiss_feed(k, byte, 0) \in KissState
  BY Start, FeedType DEF Prompt
<1>5. kiss_feed(k, byte, 0).last_feed_ms = 0
  BY <1>3 DEF FeedFend, FeedData, kiss_init, Prompt, KissState
<1> QED
  BY <1>3, <1>4, <1>5 DEF Prompt

\* The next parser hears no silence within a relayed frame.
LEMMA DecodePrompt ==
  ASSUME NEW s \in Seq(Byte)
  PROVE  Prompt(Decode(s))
<1> DEFINE P == {u \in Seq(Byte) : Prompt(Decode(u))}
<1>1. <<>> \in P
  <2>1. Prompt(kiss_init(0))
    BY Start DEF Prompt, kiss_init
  <2> QED
    BY <2>1, DecodeEmpty
<1>2. ASSUME NEW u \in P, NEW b \in Byte PROVE Append(u, b) \in P
  BY DecodeAppend, PromptFeed
<1>3. P = Seq(Byte)
  <2> HIDE DEF P
  <2>1. P \subseteq Seq(Byte)
    BY DEF P
  <2> QED
    BY <1>1, <1>2, <2>1, SeqInduction
<1> QED
  BY <1>3

\* What it makes of one more byte.
LEMMA DecodeNext ==
  ASSUME NEW s \in Seq(Byte), NEW b \in Byte
  PROVE  Decode(Append(s, b)) = IF b = FEND THEN FeedFend(Decode(s), 0) ELSE FeedData(Decode(s), b)
<1>1. Prompt(Decode(s))
  BY DecodePrompt
<1> QED
  BY <1>1, DecodeAppend, PromptFeed

\* A parser in the middle of a frame whose start it saw.
Holding(bytes) ==
  [buffer |-> bytes, inFrame |-> TRUE, inEscape |-> FALSE, sawFend |-> TRUE,
   haveFrame |-> FALSE, last_feed_ms |-> 0]

\* After the FEND and a header byte that needs no escape.
LEMMA DecodeStart ==
  ASSUME NEW h \in Byte, h \notin {FEND, FESC}
  PROVE  Decode(<<FEND, h>>) = Holding(<<h>>)
<1>1. /\ <<>> \in Seq(Byte) /\ FEND \in Byte
      /\ Append(<<>>, FEND) = <<FEND>> /\ <<FEND>> \in Seq(Byte)
      /\ Append(<<FEND>>, h) = <<FEND, h>>
  <2>1. FEND \in Byte /\ <<>> \in Seq(Byte)
    BY DEF FEND, Byte
  <2>2. Append(<<>>, FEND) = <<FEND>> /\ <<FEND>> \in Seq(Byte)
    BY <2>1
  <2> DEFINE two == Append(<<FEND>>, h)
  <2>3. two \in Seq(Byte) /\ Len(two) = 2 /\ two[1] = FEND /\ two[2] = h
    BY <2>2
  <2>4. <<FEND, h>> \in Seq(Byte) /\ Len(<<FEND, h>>) = 2 /\ <<FEND, h>>[1] = FEND /\ <<FEND, h>>[2] = h
    BY <2>1
  <2> HIDE DEF two
  <2>5. \A i \in 1..Len(two) : two[i] = <<FEND, h>>[i]
    BY <2>3, <2>4
  <2>6. two = <<FEND, h>>
    BY <2>3, <2>4, <2>5, SeqEqual
  <2> QED
    BY <2>1, <2>2, <2>6 DEF two
<1>2. Decode(<<FEND>>) = FeedFend(kiss_init(0), 0)
  BY <1>1, DecodeNext, DecodeEmpty
<1>3. Decode(<<FEND>>) = [kiss_init(0) EXCEPT !.sawFend = TRUE]
  BY <1>2 DEF FeedFend, kiss_init
<1>4. Decode(<<FEND, h>>) = FeedData(Decode(<<FEND>>), h)
  BY <1>1, DecodeNext
<1>5. FeedData(Decode(<<FEND>>), h) =
        [Decode(<<FEND>>) EXCEPT !.inFrame = TRUE, !.buffer = Append(@, h)]
  BY <1>3 DEF FeedData, kiss_init
<1>6. Append(<<>>, h) = <<h>>
  OBVIOUS
<1> QED
  BY <1>3, <1>4, <1>5, <1>6 DEF kiss_init, Holding

\* One escaped byte adds one byte to what the parser holds.
LEMMA HoldingFeed ==
  ASSUME NEW w \in Seq(Byte), NEW held \in Seq(Byte), Decode(w) = Holding(held), NEW b \in Byte
  PROVE  Decode(w \o Escape(b)) = Holding(Append(held, b))
<1>1. FESC \in Byte /\ TFEND \in Byte /\ TFESC \in Byte /\ FESC # FEND /\ TFEND # FEND /\ TFESC # FEND
  BY DEF Byte, FESC, TFEND, TFESC, FEND
<1>2. ASSUME NEW t \in {TFEND, TFESC}
      PROVE  Decode(w \o <<FESC, t>>) = Holding(Append(held, IF t = TFEND THEN FEND ELSE FESC))
  <2>1. w \o <<FESC, t>> = Append(Append(w, FESC), t) /\ Append(w, FESC) \in Seq(Byte)
    BY <1>1
  <2>2. Decode(Append(w, FESC)) = FeedData(Holding(held), FESC)
    BY <1>1, DecodeNext
  <2>3. Decode(Append(Append(w, FESC), t)) = FeedData(Decode(Append(w, FESC)), t)
    BY <1>1, <2>1, DecodeNext
  <2>4. t # FESC
    BY DEF FESC, TFEND, TFESC
  <2> DEFINE open == [Holding(held) EXCEPT !.inFrame = TRUE, !.inEscape = TRUE]
             byte == IF t = TFEND THEN FEND ELSE FESC
  <2>5. Decode(Append(w, FESC)) = open
    BY <2>2 DEF FeedData
  <2>6. open.inEscape
    BY DEF Holding
  <2>7. FeedData(open, t) = [open EXCEPT !.inFrame = TRUE, !.inEscape = FALSE, !.buffer = Append(@, byte)]
    BY <2>4, <2>6 DEF FeedData
  <2>8. FeedData(open, t) = Holding(Append(held, byte))
    BY <2>7 DEF Holding
  <2> HIDE DEF open
  <2> QED
    BY <2>1, <2>3, <2>5, <2>8
<1>3. CASE b = FEND
  BY <1>2, <1>3 DEF Escape
<1>4. CASE b = FESC
  <2>1. Escape(b) = <<FESC, TFESC>> /\ TFESC # TFEND
    BY <1>4 DEF Escape, FEND, FESC, TFESC, TFEND
  <2> QED
    BY <1>2, <1>4, <2>1
<1>5. CASE b \notin {FEND, FESC}
  <2>1. w \o Escape(b) = Append(w, b)
    BY <1>5 DEF Escape
  <2>2. Decode(Append(w, b)) = FeedData(Holding(held), b)
    BY <1>5, DecodeNext
  <2> QED
    BY <1>5, <2>1, <2>2 DEF FeedData, Holding
<1> QED
  BY <1>3, <1>4, <1>5

\* After the escaped payload the next parser holds the payload.
LEMMA DecodePayload ==
  ASSUME NEW h \in Byte, h \notin {FEND, FESC}, NEW p \in Seq(Byte)
  PROVE  Decode(<<FEND, h>> \o EscapeAll(p)) = Holding(<<h>> \o p)
<1> DEFINE P == {u \in Seq(Byte) : Decode(<<FEND, h>> \o EscapeAll(u)) = Holding(<<h>> \o u)}
<1>1. <<FEND, h>> \in Seq(Byte) /\ <<h>> \in Seq(Byte)
  BY DEF FEND, Byte
<1>2. <<>> \in P
  <2>1. <<>> \in Seq(Byte) /\ <<FEND, h>> \o <<>> = <<FEND, h>> /\ <<h>> \o <<>> = <<h>>
    BY <1>1
  <2> QED
    BY <2>1, EscapeAllEmpty, DecodeStart
<1>3. ASSUME NEW u \in P, NEW b \in Byte PROVE Append(u, b) \in P
  <2>1. EscapeAll(u) \in Seq(Byte) /\ Escape(b) \in Seq(Byte)
    BY EscapeAllType, EscapeType
  <2>2. EscapeAll(Append(u, b)) = EscapeAll(u) \o Escape(b)
    BY EscapeAllAppend
  <2>3. <<FEND, h>> \o (EscapeAll(u) \o Escape(b)) = (<<FEND, h>> \o EscapeAll(u)) \o Escape(b)
    BY <1>1, <2>1, Reassociate
  <2>4. <<h>> \o Append(u, b) = Append(<<h>> \o u, b)
    OBVIOUS
  <2>5. <<FEND, h>> \o EscapeAll(u) \in Seq(Byte) /\ <<h>> \o u \in Seq(Byte)
    BY <1>1, <2>1
  <2>6. Decode(<<FEND, h>> \o EscapeAll(u)) = Holding(<<h>> \o u)
    OBVIOUS
  <2>7. Decode((<<FEND, h>> \o EscapeAll(u)) \o Escape(b)) = Holding(Append(<<h>> \o u, b))
    BY <2>5, <2>6, HoldingFeed
  <2>8. Append(u, b) \in Seq(Byte)
    OBVIOUS
  <2> QED
    BY <2>2, <2>3, <2>4, <2>7, <2>8
<1>4. P = Seq(Byte)
  <2> HIDE DEF P
  <2>1. P \subseteq Seq(Byte)
    BY DEF P
  <2> QED
    BY <1>2, <1>3, <2>1, SeqInduction
<1> QED
  BY <1>4

\* Without a second FEND no frame is complete.
LEMMA DecodeOpen ==
  ASSUME NEW s \in Seq(Byte), \A i \in 2..Len(s) : s[i] # FEND
  PROVE  ~Decode(s).haveFrame
<1> DEFINE Open(u) == \A i \in 2..Len(u) : u[i] # FEND
           P == {u \in Seq(Byte) : Open(u) => ~Decode(u).haveFrame}
<1>1. <<>> \in P
  BY DecodeEmpty DEF kiss_init
<1>2. ASSUME NEW u \in P, NEW b \in Byte PROVE Append(u, b) \in P
  <2>1. SUFFICES ASSUME Open(Append(u, b))
                 PROVE  ~Decode(Append(u, b)).haveFrame
    <3>1. Append(u, b) \in Seq(Byte)
      OBVIOUS
    <3> HIDE DEF Open
    <3> QED
      BY <3>1
  <2>2. /\ Len(Append(u, b)) = Len(u) + 1 /\ Append(u, b)[Len(u) + 1] = b /\ Len(u) \in Nat
        /\ \A i \in 1..Len(u) : Append(u, b)[i] = u[i]
    BY AppendProperties
  <2>3. Open(u)
    BY <2>1, <2>2
  <2>4. ~Decode(u).haveFrame /\ Decode(u) \in KissState
    BY <2>3, DecodeType
  <2>5. Decode(Append(u, b)) = IF b = FEND THEN FeedFend(Decode(u), 0) ELSE FeedData(Decode(u), b)
    BY DecodeNext
  <2>6. CASE b # FEND
    BY <2>4, <2>5, <2>6 DEF FeedData, KissState
  <2>7. CASE b = FEND
    <3>1. u = <<>>
      <4>1. Len(u) = 0
        BY <2>1, <2>2, <2>7
      <4> QED
        BY <4>1, EmptySeq
    <3>2. Decode(u) = kiss_init(0)
      BY <3>1, DecodeEmpty
    <3> QED
      BY <2>5, <2>7, <3>2 DEF FeedFend, kiss_init
  <2> QED
    BY <2>6, <2>7
<1>3. P = Seq(Byte)
  <2> HIDE DEF P
  <2>1. P \subseteq Seq(Byte)
    BY DEF P
  <2> QED
    BY <1>1, <1>2, <2>1, SeqInduction
<1> QED
  BY <1>3

\* What one parser holds and another one makes of it.
LEMMA Relayed ==
  ASSUME NEW h \in Byte, h \notin {FEND, FESC}, NEW p \in Seq(Byte)
  PROVE  LET wire == <<FEND, h>> \o EscapeAll(p) \o <<FEND>>
         IN  /\ Decode(wire).haveFrame
             /\ Decode(wire).buffer = <<h>> \o p
             /\ \A n \in 0..(Len(wire) - 1) : ~Decode(SubSeq(wire, 1, n)).haveFrame
<1> DEFINE body == <<FEND, h>> \o EscapeAll(p)
           wire == body \o <<FEND>>
<1>1. EscapeAll(p) \in Seq(Byte) /\ FEND \in Byte
  BY EscapeAllType DEF FEND, Byte
<1>2. body \in Seq(Byte) /\ Len(body) \in Nat
  BY <1>1
<1>3. \A i \in 2..Len(body) : body[i] # FEND
  BY <1>1, NoFend
<1>4. Decode(body) = Holding(<<h>> \o p)
  BY DecodePayload
<1> HIDE DEF body
<1>5. wire = Append(body, FEND) /\ Len(wire) = Len(body) + 1
      /\ \A i \in 1..Len(body) : wire[i] = body[i]
  BY <1>1, <1>2
<1>6. Decode(wire) = FeedFend(Holding(<<h>> \o p), 0)
  <2>1. Decode(Append(body, FEND)) = FeedFend(Decode(body), 0)
    BY <1>1, <1>2, DecodeNext
  <2> HIDE DEF wire
  <2> QED
    BY <1>4, <1>5, <2>1
<1>7. Decode(wire).haveFrame /\ Decode(wire).buffer = <<h>> \o p
  BY <1>6 DEF FeedFend, Holding
<1>8. ASSUME NEW n \in 0..(Len(wire) - 1)
      PROVE  ~Decode(SubSeq(wire, 1, n)).haveFrame
  <2> DEFINE cut == SubSeq(wire, 1, n)
  <2>1. n \in Nat /\ n <= Len(body)
    BY <1>2, <1>5
  <2>2. \A i \in 1..n : wire[i] \in Byte
    BY <1>2, <1>5, <2>1
  <2>3. cut \in Seq(Byte) /\ Len(cut) = n /\ \A i \in 1..n : cut[i] = wire[i]
    BY <2>1, <2>2, SubSeqProperties
  <2>4. \A i \in 2..Len(cut) : cut[i] # FEND
    BY <1>3, <1>5, <2>1, <2>3
  <2> QED
    BY <2>3, <2>4, DecodeOpen
<1> QED
  BY <1>7, <1>8 DEF body

\* The length that kiss_read takes from the parser is not cut to 16 bits.
LEMMA BufferLength ==
  ASSUME NEW len \in Nat, len # 0, NEW bound \in 0..U16, len <= bound
  PROVE  len \in 1..U16 /\ (len - 1) % U16 = len - 1
<1>1. U16 \in Nat
  BY DEF U16
<1> QED
  BY <1>1

\* A frame that is relayed reaches the next parser intact and is complete at
\* its last byte and no earlier, whatever bytes it is made of.
THEOREM RoundTrip == Spec => []RelayRoundTrip
<1>1. ASSUME IInv PROVE RelayRoundTrip
  <2> DEFINE b == kiss.buffer
             h == b[1]
             p == SubSeq(b, 2, Len(b))
  <2>1. SUFFICES ASSUME kiss.haveFrame, b # <<>>, h \notin {FEND, FESC}
                 PROVE  LET frame == kiss_read(kiss)
                            wire  == kiss_encode(frame, Payload(kiss, frame))
                        IN  /\ Decode(wire).haveFrame
                            /\ Decode(wire).buffer = b
                            /\ \A n \in 0..(Len(wire) - 1) : ~Decode(SubSeq(wire, 1, n)).haveFrame
    BY DEF RelayRoundTrip
  <2>2. b \in Seq(Byte) /\ Len(b) \in 1..U16 /\ (Len(b) - 1) % U16 = Len(b) - 1
    <3>1. b \in Seq(Byte) /\ stream \in Seq(Byte)
      BY <1>1, CodecAssumption DEF IInv, TypeOK, KissState
    <3>2. Len(b) \in Nat /\ Len(b) # 0 /\ Len(stream) \in Nat
      BY <2>1, <3>1
    <3>3. Len(b) <= Len(stream) /\ Len(stream) <= MaxBytes
      BY <1>1 DEF IInv, LengthInv
    <3>4. MaxBytes \in Nat /\ MaxBytes \in 0..U16
      <4>1. U16 \in Nat
        BY DEF U16
      <4> QED
        BY <4>1, CodecAssumption
    <3>5. Len(b) <= MaxBytes
      BY <3>2, <3>3, <3>4
    <3> QED
      BY <3>1, <3>2, <3>4, <3>5, BufferLength
  <2>3. h \in Byte /\ p \in Seq(Byte)
    <3>1. \A i \in 2..Len(b) : b[i] \in Byte
      BY <2>2
    <3> QED
      BY <2>2, <3>1, SubSeqProperties
  <2>4. b = <<h>> \o p
    BY <2>2
  <2> HIDE DEF b
  <2> DEFINE frame == kiss_read(kiss)
  <2>6. frame.hdlc * 16 + frame.type = h /\ frame.len = Len(b) - 1
    BY <2>2, <2>3, Header DEF kiss_read, b
  <2>7. Payload(kiss, frame) = p
    BY <2>2, <2>6 DEF Payload, b
  <2> HIDE DEF frame, h, p
  <2>8. kiss_encode(frame, Payload(kiss, frame)) = <<FEND, h>> \o EscapeAll(p) \o <<FEND>>
    BY <2>6, <2>7 DEF kiss_encode
  <2> QED
    BY <2>1, <2>3, <2>4, <2>8, Relayed DEF frame
<1> QED
  BY <1>1, Invariance, PTL
=============================================================================
