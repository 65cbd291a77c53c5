------------------------------- MODULE Kiss -------------------------------
(***************************************************************************)
(* The KISS codec of firmware/kiss.c, as operators on a parser record.     *)
(* tncKiss, bleKiss and sppKiss are three such parsers.                    *)
(*                                                                         *)
(* Bytes are numbers in 0..255.  The array buffer[400] and the index pos   *)
(* become one sequence, buffer, with pos = Len(buffer).                    *)
(***************************************************************************)
EXTENDS Integers, Sequences, SequencesExt

CONSTANTS
  KISS_FEED_TIMEOUT_MS,  \* 3000 in kiss.h
  ClockRange             \* the millisecond clock is a uint32_t: 2^32

ASSUME ClockAssumption ==
  /\ KISS_FEED_TIMEOUT_MS \in Nat
  /\ ClockRange \in Nat
  /\ KISS_FEED_TIMEOUT_MS < ClockRange

FEND  == 192
FESC  == 219
TFEND == 220
TFESC == 221

KISS_DATA == 0
KISS_N9600A_HDLC_PORT == 14

Byte  == 0..255
Clock == 0..(ClockRange - 1)
U16   == 65536

KissState ==
  [buffer: Seq(Byte), inFrame: BOOLEAN, inEscape: BOOLEAN, sawFend: BOOLEAN,
   haveFrame: BOOLEAN, last_feed_ms: Clock]

---------------------------------------------------------------------------

\* Mutant: remembers a time the clock has not reached.
kiss_initAhead(now) ==
  [buffer |-> <<>>, inFrame |-> FALSE, inEscape |-> FALSE, sawFend |-> FALSE,
   haveFrame |-> FALSE, last_feed_ms |-> now + 1]

kiss_init(now) ==
  [buffer |-> <<>>, inFrame |-> FALSE, inEscape |-> FALSE, sawFend |-> FALSE,
   haveFrame |-> FALSE, last_feed_ms |-> now]

\* Unsigned subtraction: the difference survives one wrap of the clock.
Expired(kiss, now) ==
  (now - kiss.last_feed_ms) % ClockRange > KISS_FEED_TIMEOUT_MS

\* Every byte first forgets what a long silence left unfinished.
Refresh(kiss, now) ==
  IF Expired(kiss, now) THEN kiss_init(now) ELSE [kiss EXCEPT !.last_feed_ms = now]

\* Mutant: the end of a half-heard frame does not discard it.
FeedFendKeep(kiss, now) ==
  IF kiss.inFrame /\ kiss.sawFend THEN [kiss EXCEPT !.haveFrame = TRUE]
                                 ELSE [kiss EXCEPT !.sawFend = TRUE]

\* Mutant: the end of a half-heard frame cannot be the start of the next.
FeedFendForget(kiss, now) ==
  IF ~kiss.inFrame THEN [kiss EXCEPT !.sawFend = TRUE]
  ELSE IF kiss.sawFend THEN [kiss EXCEPT !.haveFrame = TRUE]
  ELSE kiss_init(now)

\* A FEND opens a frame, closes one, or ends a frame whose start was missed.
FeedFend(kiss, now) ==
  IF ~kiss.inFrame THEN [kiss EXCEPT !.sawFend = TRUE]
  ELSE IF kiss.sawFend THEN [kiss EXCEPT !.haveFrame = TRUE]
  ELSE [kiss_init(now) EXCEPT !.sawFend = TRUE]

\* Mutant: an escape never ends.
FeedDataSticky(kiss, byte) ==
  IF byte = FESC
  THEN [kiss EXCEPT !.inFrame = TRUE, !.inEscape = TRUE]
  ELSE IF kiss.inEscape /\ byte \in {TFEND, TFESC}
  THEN [kiss EXCEPT !.inFrame = TRUE,
                    !.buffer = Append(@, IF byte = TFEND THEN FEND ELSE FESC)]
  ELSE [kiss EXCEPT !.inFrame = TRUE, !.buffer = Append(@, byte)]

\* After FESC only TFEND and TFESC end the escape: any other byte is stored
\* as it is and the parser stays in the escape.
FeedData(kiss, byte) ==
  IF byte = FESC
  THEN [kiss EXCEPT !.inFrame = TRUE, !.inEscape = TRUE]
  ELSE IF kiss.inEscape /\ byte \in {TFEND, TFESC}
  THEN [kiss EXCEPT !.inFrame = TRUE, !.inEscape = FALSE,
                    !.buffer = Append(@, IF byte = TFEND THEN FEND ELSE FESC)]
  ELSE [kiss EXCEPT !.inFrame = TRUE, !.buffer = Append(@, byte)]

\* The C function returns true exactly when it sets haveFrame.
kiss_feed(kiss, byte, now) ==
  LET live == Refresh(kiss, now)
  IN  IF byte = FEND THEN FeedFend(live, now) ELSE FeedData(live, byte)

---------------------------------------------------------------------------

\* KissFrame.buffer points at buffer[1] of the parser, so the payload of a
\* frame is what the parser holds when it is looked at.
\* An empty buffer would give len = 65535.
kiss_read(kiss) ==
  [hdlc |-> kiss.buffer[1] \div 16, type |-> kiss.buffer[1] % 16,
   len |-> (Len(kiss.buffer) - 1) % U16]

Payload(kiss, frame) == SubSeq(kiss.buffer, 2, 1 + frame.len)

\* Mutant: the escape byte itself is not escaped.
EscapeFendOnly(byte) == IF byte = FEND THEN <<FESC, TFEND>> ELSE <<byte>>

Escape(byte) ==
  CASE byte = FEND -> <<FESC, TFEND>>
    [] byte = FESC -> <<FESC, TFESC>>
    [] OTHER       -> <<byte>>

EscapeAll(bytes) == FoldLeft(LAMBDA out, byte : out \o Escape(byte), <<>>, bytes)

\* The header byte is written as it is: only the payload is escaped.
kiss_encode(frame, payload) ==
  <<FEND, frame.hdlc * 16 + frame.type>> \o EscapeAll(payload) \o <<FEND>>
==========================================================================
