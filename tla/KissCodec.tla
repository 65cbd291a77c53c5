----------------------------- MODULE KissCodec -----------------------------
(***************************************************************************)
(* One parser of kiss.c fed with arbitrary bytes at arbitrary times, as     *)
(* ble_write_callback and spp_write_callback of main_aprs.c feed theirs:    *)
(* a complete frame is read, encoded and the parser reset before the next   *)
(* byte.  The properties compare the parser with a reference that looks at  *)
(* the whole byte stream at once, and the encoder with the parser.          *)
(***************************************************************************)
EXTENDS Kiss

CONSTANTS
  Input,     \* the bytes the peer sends, a subset of Byte
  Gaps,      \* the milliseconds that may pass between two bytes
  MaxBytes   \* bound: bytes fed between two resets of the parser

\* The parser has room for 400 bytes and counts them with 16 bits (kiss.h).
ASSUME CodecAssumption ==
  /\ Input \subseteq Byte
  /\ Gaps \subseteq Clock
  /\ MaxBytes \in 0..U16

VARIABLES
  kiss,     \* the parser
  stream    \* ghost: the bytes fed since kiss_init or the last long silence

vars == <<kiss, stream>>

Init ==
  /\ \E now \in Clock : kiss = kiss_init(now)
  /\ stream = <<>>

\* Every caller stops at a complete frame, so the clock of a caller is the
\* parser's last_feed_ms plus the silence since.
Feed(byte, gap) ==
  LET heard == IF gap > KISS_FEED_TIMEOUT_MS THEN <<>> ELSE stream
  IN  /\ ~kiss.haveFrame
      /\ Len(stream) < MaxBytes
      /\ kiss' = kiss_feed(kiss, byte, (kiss.last_feed_ms + gap) % ClockRange)
      /\ stream' = Append(heard, byte)

Reset ==
  /\ kiss.haveFrame
  /\ kiss' = kiss_init(kiss.last_feed_ms)
  /\ stream' = <<>>

Next ==
  \/ \E byte \in Input, gap \in Gaps : Feed(byte, gap)
  \/ Reset

Spec == Init /\ [][Next]_vars

---------------------------------------------------------------------------

TypeOK ==
  /\ kiss \in KissState
  /\ stream \in Seq(Input)

FendsIn(s) == {i \in DOMAIN s : s[i] = FEND}

\* The first FEND of the stream, and the first one with data since the FEND
\* before it: the reference for where the first frame ends.
Segment(s, i, j) == SubSeq(s, i + 1, j - 1)
Delimits(s, i, j) ==
  /\ i \in FendsIn(s) /\ j \in FendsIn(s)
  /\ i + 1 < j
  /\ FendsIn(s) \cap (i + 1)..(j - 1) = {}

\* A frame is complete exactly when the stream since the last silence ends
\* with FEND data FEND: the data before the first FEND, runs of FENDs, the
\* clock's wrap and a silence at any byte never make or lose one.
FrameIffDelimited ==
  kiss.haveFrame <=> \E i \in DOMAIN stream : Delimits(stream, i, Len(stream))

\* Every FESC of a well-formed segment is followed by TFEND or TFESC.
WellFormed(seg) ==
  \A i \in DOMAIN seg : seg[i] = FESC => i < Len(seg) /\ seg[i + 1] \in {TFEND, TFESC}

\* A complete frame holds the unique bytes whose KISS escaping is the
\* segment between its delimiters (kiss_feed undoes the escaping exactly).
UnescapesTheSegment ==
  kiss.haveFrame =>
    \A i \in DOMAIN stream :
      LET seg == Segment(stream, i, Len(stream))
      IN  Delimits(stream, i, Len(stream)) /\ WellFormed(seg) => EscapeAll(kiss.buffer) = seg

\* What a parser holds after the bytes of s arrive without a silence.
Decode(s) == FoldLeft(LAMBDA k, byte : kiss_feed(k, byte, 0), kiss_init(0), s)

\* A relayed frame reaches the next KISS parser intact and is complete there
\* at its last byte, not earlier, when there is a header byte and it needs no
\* escape: kiss_encode writes the header as it is (kiss.c:93), and kiss_read
\* of a frame without one has a length of 65535 (kiss.c:83).
RelayRoundTrip ==
  LET frame == kiss_read(kiss)
      wire == kiss_encode(frame, Payload(kiss, frame))
  IN  kiss.haveFrame /\ kiss.buffer # <<>> /\ kiss.buffer[1] \notin {FEND, FESC} =>
        /\ Decode(wire).haveFrame
        /\ Decode(wire).buffer = kiss.buffer
        /\ \A n \in 0..(Len(wire) - 1) : ~Decode(SubSeq(wire, 1, n)).haveFrame
==========================================================================
