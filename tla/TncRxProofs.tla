---------------------------- MODULE TncRxProofs ----------------------------
(***************************************************************************)
(* Proofs about TncRx for every set of frames, every clock and every       *)
(* number of frames: types, the safety invariants of the run and the       *)
(* safety part of the refinement.                                          *)
(***************************************************************************)
EXTENDS TncRx, KissProofs

(* The inductive invariant.  The invariants of the run say what comes out  *)
(* of the parser; to be preserved they need what is in it at every moment. *)

\* Where the TNC is.
SenderInv ==
  /\ inBody => sent # <<>> /\ idx <= Len(cur)
  /\ esc => inBody /\ idx < Len(cur) /\ cur[idx + 1] \in {FEND, FESC}

\* An unfinished parser holds the beginning of the current frame, or knows
\* that it does not.
ParserInv ==
  /\ pc \in {"handle", "init", "clear"} => tncKiss.haveFrame
  /\ ~tncKiss.haveFrame /\ inBody => Tracks(tncKiss, TRUE, cur, idx, esc)
  /\ ~tncKiss.haveFrame /\ ~inBody => Tracks(tncKiss, FALSE, <<>>, 0, FALSE)

\* A complete frame is the one its closing FEND was sent for, until kiss_init
\* empties the parser.
CompleteInv ==
  /\ origin <= Len(sent) /\ (inBody => origin < Len(sent))
  /\ tncKiss.haveFrame /\ pc # "clear" => origin \in DOMAIN sent /\ tncKiss.buffer = sent[origin]
  /\ pc = "clear" => /\ tncKiss.buffer = <<>>
                     /\ ~tncKiss.inFrame /\ ~tncKiss.inEscape /\ ~tncKiss.sawFend
  /\ pc = "handle" => kissFrame = kiss_read(tncKiss)

\* What was handled is older than what waits.
DeliveredInv ==
  /\ OnlySentFrames
  /\ \A i \in DOMAIN delivered : delivered[i].seq <= origin
  /\ tncKiss.haveFrame /\ pc \in {"loop", "check", "handle"} =>
       \A i \in DOMAIN delivered : delivered[i].seq < origin

\* A frame heard so far has its opening FEND and its first byte in the parser;
\* a closing FEND that may open the next frame is still there.
HeardInv ==
  /\ HeardIsComplete
  /\ heard /\ inBody =>
       ~tncKiss.haveFrame /\ tncKiss.sawFend /\ (idx > 0 \/ esc => tncKiss.inFrame)
  /\ opened /\ ~inBody => ~tncKiss.haveFrame /\ tncKiss.sawFend

IInv == TypeOK /\ SenderInv /\ ParserInv /\ CompleteInv /\ DeliveredInv /\ HeardInv

---------------------------------------------------------------------------

\* The frame being sent is a frame: a byte sequence the parser has room for.
LEMMA CurIsContent ==
  ASSUME TypeOK, SenderInv, inBody
  PROVE  /\ Len(sent) \in DOMAIN sent
         /\ cur \in Seq(Byte) /\ Len(cur) \in 1..KISS_BUFFER_SIZE
         /\ idx \in 0..Len(cur)
<1>1. sent \in Seq(Contents) /\ sent # <<>>
  BY DEF TypeOK, SenderInv
<1>2. Len(sent) \in 1..Len(sent)
  BY <1>1, EmptySeq
<1>3. cur \in Contents
  BY <1>1, <1>2, ElementOfSeq DEF cur
<1>4. cur \in Seq(Byte) /\ Len(cur) \in 1..KISS_BUFFER_SIZE
  BY <1>3, ContentsAssumption
<1> QED
  BY <1>1, <1>2, <1>4 DEF TypeOK, SenderInv

\* What one byte does to the parser and to the ghost origin.
LEMMA UartStep ==
  ASSUME IInv, NEW byte \in Byte, Uart(byte)
  PROVE  /\ tncKiss' \in KissState
         /\ tncKiss.haveFrame => tncKiss' = tncKiss /\ origin' = origin
         /\ ~tncKiss.haveFrame => tncKiss' = kiss_feed(tncKiss, byte, async_now_ms)
         /\ ~tncKiss.haveFrame /\ ~tncKiss'.haveFrame => origin' = origin
         /\ ~tncKiss.haveFrame /\ tncKiss'.haveFrame => origin' = Len(sent)
         /\ UNCHANGED <<async_now_ms, pc, kissFrame, n9600_present, delivered>>
<1>1. tncKiss \in KissState /\ async_now_ms \in Clock
  BY DEF IInv, TypeOK
<1>2. kiss_feed(tncKiss, byte, async_now_ms) \in KissState
  BY <1>1, FeedType
<1> QED
  BY <1>1, <1>2 DEF Uart, on_uart_rx

\* A byte inside a frame that does not complete it: only the parser, the
\* position of the TNC and heard move.  tracked and taken are what the lemmas
\* of KissProofs give for the three kinds of byte.
LEMMA BodyByte ==
  ASSUME IInv, inBody, NEW byte \in Byte, Uart(byte),
         inBody' = inBody, sent' = sent,
         heard' = (heard /\ Taken), opened' = opened,
         idx' \in 0..Len(cur), esc' \in BOOLEAN,
         esc' => idx' < Len(cur) /\ cur[idx' + 1] \in {FEND, FESC},
         ~tncKiss.haveFrame => /\ ~tncKiss'.haveFrame
                               /\ Tracks(tncKiss', TRUE, cur, idx', esc')
                               /\ ~Expired(tncKiss, async_now_ms) /\ tncKiss.sawFend =>
                                    tncKiss'.sawFend /\ tncKiss'.inFrame
  PROVE  IInv'
<1>1. /\ tncKiss' \in KissState
      /\ tncKiss.haveFrame => tncKiss' = tncKiss
      /\ tncKiss'.haveFrame = tncKiss.haveFrame
      /\ origin' = origin
      /\ UNCHANGED <<async_now_ms, pc, kissFrame, n9600_present, delivered>>
  <2>1. tncKiss.haveFrame \in BOOLEAN /\ tncKiss'.haveFrame \in BOOLEAN
    BY UartStep DEF IInv, TypeOK, KissState
  <2> QED
    BY <2>1, UartStep
<1>2. cur' = cur
  BY DEF cur
<1>3. cur \in Seq(Byte) /\ Len(cur) \in 1..KISS_BUFFER_SIZE /\ idx' \in Nat
  BY CurIsContent, ContentsAssumption DEF IInv
<1>4. TypeOK'
  <2>1. heard' \in BOOLEAN
    OBVIOUS
  <2> QED
    BY <1>1, <1>3, <2>1 DEF IInv, TypeOK
<1>5. SenderInv'
  BY <1>2 DEF IInv, SenderInv
<1>6. ParserInv'
  BY <1>1, <1>2 DEF IInv, ParserInv
<1>7. CompleteInv'
  <2>1. tncKiss.haveFrame => (pc = "handle" => kissFrame' = kiss_read(tncKiss'))
    BY <1>1 DEF IInv, CompleteInv
  <2>2. pc = "handle" \/ pc = "clear" => tncKiss.haveFrame
    BY DEF IInv, ParserInv
  <2> QED
    BY <1>1, <2>1, <2>2 DEF IInv, CompleteInv
<1>8. DeliveredInv'
  BY <1>1 DEF IInv, DeliveredInv, OnlySentFrames
<1>9. HeardInv'
  BY <1>1 DEF IInv, HeardInv, HeardIsComplete, Taken
<1> QED
  BY <1>4, <1>5, <1>6, <1>7, <1>8, <1>9 DEF IInv

LEMMA SendPlainInv ==
  ASSUME IInv, SendPlain
  PROVE  IInv'
<1>1. /\ cur \in Seq(Byte) /\ idx \in Nat /\ idx < Len(cur)
      /\ cur[idx + 1] \in Byte /\ cur[idx + 1] \notin {FEND, FESC}
  <2>1. cur \in Seq(Byte) /\ idx \in Nat /\ idx < Len(cur)
    BY CurIsContent DEF IInv, TypeOK, SendPlain
  <2> QED
    BY <2>1 DEF SendPlain
<1>2. ~esc /\ esc = FALSE
  BY DEF IInv, TypeOK, SenderInv, SendPlain
<1>3. tncKiss \in KissState /\ async_now_ms \in Clock
  BY DEF IInv, TypeOK
<1>4. ASSUME ~tncKiss.haveFrame
      PROVE  /\ ~tncKiss'.haveFrame
             /\ Tracks(tncKiss', TRUE, cur, idx + 1, FALSE)
             /\ ~Expired(tncKiss, async_now_ms) /\ tncKiss.sawFend =>
                  tncKiss'.sawFend /\ tncKiss'.inFrame
  <2>1. Tracks(tncKiss, TRUE, cur, idx, FALSE)
    BY <1>2, <1>4 DEF IInv, ParserInv, SendPlain
  <2>2. tncKiss' = kiss_feed(tncKiss, cur[idx + 1], async_now_ms)
    BY <1>1, <1>4, UartStep DEF SendPlain
  <2> QED
    BY <1>1, <1>3, <1>4, <2>1, <2>2, PlainTracks
<1>5. idx' = idx + 1 /\ esc' = FALSE /\ idx' \in 0..Len(cur)
  BY <1>1, <1>2 DEF SendPlain
<1> QED
  BY <1>1, <1>4, <1>5, BodyByte DEF SendPlain

LEMMA SendEscapeInv ==
  ASSUME IInv, SendEscape
  PROVE  IInv'
<1>1. cur \in Seq(Byte) /\ idx \in Nat /\ idx < Len(cur) /\ cur[idx + 1] \in {FEND, FESC}
  BY CurIsContent DEF IInv, TypeOK, SendEscape
<1>2. esc = FALSE
  BY DEF IInv, TypeOK, SendEscape
<1>3. tncKiss \in KissState /\ async_now_ms \in Clock /\ FESC \in Byte
  BY DEF IInv, TypeOK, FESC, Byte
<1>4. ASSUME ~tncKiss.haveFrame
      PROVE  /\ ~tncKiss'.haveFrame
             /\ Tracks(tncKiss', TRUE, cur, idx, TRUE)
             /\ ~Expired(tncKiss, async_now_ms) /\ tncKiss.sawFend =>
                  tncKiss'.sawFend /\ tncKiss'.inFrame
  <2>1. Tracks(tncKiss, TRUE, cur, idx, FALSE)
    BY <1>2, <1>4 DEF IInv, ParserInv, SendEscape
  <2>2. tncKiss' = kiss_feed(tncKiss, FESC, async_now_ms)
    BY <1>3, <1>4, UartStep DEF SendEscape
  <2> QED
    BY <1>1, <1>3, <1>4, <2>1, <2>2, EscapeTracks
<1>5. idx' = idx /\ esc' = TRUE /\ idx' \in 0..Len(cur)
  BY <1>1 DEF SendEscape
<1> QED
  BY <1>1, <1>3, <1>4, <1>5, BodyByte DEF SendEscape

LEMMA SendEscapedInv ==
  ASSUME IInv, SendEscaped
  PROVE  IInv'
<1> DEFINE byte == IF cur[idx + 1] = FEND THEN TFEND ELSE TFESC
<1>1. cur \in Seq(Byte) /\ idx \in Nat /\ idx < Len(cur) /\ cur[idx + 1] \in {FEND, FESC}
  BY CurIsContent DEF IInv, TypeOK, SenderInv, SendEscaped
<1>2. esc = TRUE
  BY DEF IInv, TypeOK, SendEscaped
<1>3. tncKiss \in KissState /\ async_now_ms \in Clock /\ byte \in Byte
  BY DEF IInv, TypeOK, TFEND, TFESC, Byte
<1>4. Uart(byte)
  BY DEF SendEscaped
<1>5. ASSUME ~tncKiss.haveFrame
      PROVE  /\ ~tncKiss'.haveFrame
             /\ Tracks(tncKiss', TRUE, cur, idx + 1, FALSE)
             /\ ~Expired(tncKiss, async_now_ms) /\ tncKiss.sawFend =>
                  tncKiss'.sawFend /\ tncKiss'.inFrame
  <2>1. Tracks(tncKiss, TRUE, cur, idx, TRUE)
    BY <1>2, <1>5 DEF IInv, ParserInv, SendEscaped
  <2>2. tncKiss' = kiss_feed(tncKiss, byte, async_now_ms)
    BY <1>3, <1>4, <1>5, UartStep
  <2> QED
    BY <1>1, <1>3, <1>5, <2>1, <2>2, EscapedTracks
<1>6. idx' = idx + 1 /\ esc' = FALSE /\ idx' \in 0..Len(cur)
  BY <1>1 DEF SendEscaped
<1> HIDE DEF byte
<1> QED
  BY <1>1, <1>3, <1>4, <1>5, <1>6, BodyByte DEF SendEscaped

\* The frame's closing FEND.
LEMMA CloseFrameInv ==
  ASSUME IInv, CloseFrame
  PROVE  IInv'
<1>1. /\ cur \in Seq(Byte) /\ idx = Len(cur) /\ Len(cur) \in 1..KISS_BUFFER_SIZE
      /\ Len(sent) \in DOMAIN sent /\ inBody /\ ~inBody'
  BY CurIsContent DEF IInv, CloseFrame
<1>2. esc = FALSE /\ esc' = FALSE
  BY <1>1 DEF IInv, TypeOK, SenderInv, CloseFrame
<1>3. tncKiss \in KissState /\ async_now_ms \in Clock /\ FEND \in Byte
  BY DEF IInv, TypeOK, FEND, Byte
<1>4. /\ tncKiss' \in KissState
      /\ tncKiss.haveFrame => tncKiss' = tncKiss /\ origin' = origin
      /\ ~tncKiss.haveFrame /\ ~tncKiss'.haveFrame => origin' = origin
      /\ ~tncKiss.haveFrame /\ tncKiss'.haveFrame => origin' = Len(sent)
      /\ UNCHANGED <<async_now_ms, pc, kissFrame, n9600_present, delivered, sent, idx>>
  BY <1>3, UartStep DEF CloseFrame
<1>5. ASSUME ~tncKiss.haveFrame
      PROVE  /\ tncKiss'.haveFrame => tncKiss'.buffer = cur
             /\ ~tncKiss'.haveFrame => /\ tncKiss'.sawFend
                                       /\ Tracks(tncKiss', FALSE, cur, Len(cur), FALSE)
             /\ ~Expired(tncKiss, async_now_ms) /\ tncKiss.sawFend /\ tncKiss.inFrame =>
                  tncKiss'.haveFrame
  <2>1. Tracks(tncKiss, TRUE, cur, Len(cur), FALSE)
    BY <1>1, <1>2, <1>5 DEF IInv, ParserInv
  <2>2. tncKiss' = kiss_feed(tncKiss, FEND, async_now_ms)
    BY <1>3, <1>5, UartStep DEF CloseFrame
  <2> QED
    BY <1>1, <1>3, <1>5, <2>1, <2>2, CloseTracks
<1>6. /\ heard' = (heard /\ Taken)
      /\ opened' = (~tncKiss.haveFrame /\ ~tncKiss'.haveFrame)
  BY DEF CloseFrame
<1>7. origin \in Nat /\ Len(sent) \in Nat /\ Len(sent) <= MaxFrames /\ origin < Len(sent)
  BY <1>1 DEF IInv, TypeOK, CompleteInv
<1>8. tncKiss.haveFrame \in BOOLEAN /\ tncKiss'.haveFrame \in BOOLEAN
  BY <1>3, <1>4 DEF KissState
<1>9. pc \in {"handle", "init", "clear"} => tncKiss.haveFrame
  BY DEF IInv, ParserInv
<1>10. TypeOK'
  <2>1. heard' \in BOOLEAN /\ inBody' \in BOOLEAN /\ opened' \in BOOLEAN
    BY <1>6 DEF CloseFrame
  <2>2. origin' \in 0..MaxFrames
    BY <1>4, <1>7, <1>8 DEF IInv, TypeOK
  <2> QED
    BY <1>2, <1>4, <2>1, <2>2 DEF IInv, TypeOK
<1>11. SenderInv'
  BY <1>1, <1>2 DEF SenderInv
<1>12. ParserInv'
  <2>1. ~tncKiss'.haveFrame => Tracks(tncKiss', FALSE, <<>>, 0, FALSE)
    BY <1>4, <1>5, <1>8 DEF Tracks
  <2> QED
    BY <1>1, <1>4, <1>9, <2>1 DEF ParserInv
<1>13. CompleteInv'
  <2>1. ASSUME ~tncKiss.haveFrame, tncKiss'.haveFrame
        PROVE  origin' \in DOMAIN sent' /\ tncKiss'.buffer = sent'[origin']
    BY <1>1, <1>4, <1>5, <2>1 DEF cur
  <2> QED
    BY <1>1, <1>4, <1>7, <1>8, <1>9, <2>1 DEF IInv, CompleteInv
<1>14. DeliveredInv'
  <2>1. OnlySentFrames'
    BY <1>4 DEF IInv, DeliveredInv, OnlySentFrames
  <2>2. origin <= origin' /\ (~tncKiss.haveFrame /\ tncKiss'.haveFrame => origin < origin')
    BY <1>4, <1>7, <1>8
  <2>3. \A i \in DOMAIN delivered : delivered[i].seq \in Nat /\ delivered[i].seq <= origin
    <3>1. \A i \in DOMAIN delivered : delivered[i] \in Delivery
      BY DEF IInv, TypeOK
    <3> QED
      BY <3>1 DEF IInv, DeliveredInv, Delivery
  <2>4. origin' \in Nat
    BY <1>4, <1>7, <1>8
  <2>5. \A i \in DOMAIN delivered : delivered[i].seq <= origin'
    BY <1>7, <2>2, <2>3, <2>4
  <2>6. ASSUME tncKiss'.haveFrame, pc' \in {"loop", "check", "handle"}
        PROVE  \A i \in DOMAIN delivered : delivered[i].seq < origin'
    <3>1. CASE tncKiss.haveFrame
      BY <1>4, <2>6, <3>1 DEF IInv, DeliveredInv
    <3>2. CASE ~tncKiss.haveFrame
      BY <1>7, <2>2, <2>3, <2>4, <2>6, <3>2
    <3> QED
      BY <3>1, <3>2
  <2> QED
    BY <1>4, <2>1, <2>5, <2>6 DEF DeliveredInv
<1>15. HeardInv'
  <2>1. ASSUME heard'
        PROVE  origin' = Len(sent)
    <3>1. heard /\ ~tncKiss.haveFrame /\ ~Expired(tncKiss, async_now_ms)
      BY <1>6, <2>1 DEF Taken
    <3>2. tncKiss.sawFend /\ tncKiss.inFrame
      BY <1>1, <3>1 DEF IInv, HeardInv
    <3> QED
      BY <1>4, <1>5, <3>1, <3>2
  <2>2. opened' => ~tncKiss'.haveFrame /\ tncKiss'.sawFend
    BY <1>5, <1>6
  <2> QED
    BY <1>1, <1>4, <2>1, <2>2 DEF HeardInv, HeardIsComplete
<1> QED
  BY <1>10, <1>11, <1>12, <1>13, <1>14, <1>15 DEF IInv

\* The start of a frame, with its own FEND or with that of the frame before.
LEMMA BeginInv ==
  ASSUME IInv, NEW content \in Contents, Begin(content),
         UNCHANGED <<async_now_ms, pc, kissFrame, n9600_present, origin, delivered>>,
         tncKiss' \in KissState,
         tncKiss.haveFrame => tncKiss' = tncKiss,
         ~tncKiss.haveFrame => ~tncKiss'.haveFrame /\ Tracks(tncKiss', TRUE, content, 0, FALSE),
         heard' \in BOOLEAN,
         heard' => ~tncKiss'.haveFrame /\ tncKiss'.sawFend
  PROVE  IInv'
<1>1. sent \in Seq(Contents) /\ Len(sent) \in Nat /\ Len(sent) < MaxFrames
  BY DEF IInv, TypeOK, Begin
<1>2. /\ sent' = Append(sent, content) /\ Len(sent') = Len(sent) + 1
      /\ sent' \in Seq(Contents) /\ sent' # <<>>
      /\ \A n \in DOMAIN sent : n \in DOMAIN sent' /\ sent'[n] = sent[n]
      /\ sent'[Len(sent')] = content
  BY <1>1 DEF Begin
<1>3. cur' = content
  BY <1>2 DEF cur
<1>4. content \in Seq(Byte) /\ Len(content) \in Nat
  BY ContentsAssumption
<1>5. inBody' = TRUE /\ idx' = 0 /\ esc' = FALSE
  BY DEF Begin
<1>6. tncKiss'.haveFrame = tncKiss.haveFrame
  BY DEF IInv, TypeOK, KissState
<1>7. TypeOK'
  <2>1. Len(sent') <= MaxFrames
    BY <1>1, <1>2, ContentsAssumption
  <2>2. /\ async_now_ms' \in Clock /\ pc' \in {"loop", "check", "handle", "init", "clear"}
        /\ kissFrame' \in [hdlc: 0..15, type: 0..15, len: 0..(U16 - 1)]
        /\ n9600_present' \in BOOLEAN /\ origin' \in 0..MaxFrames
        /\ delivered' \in Seq(Delivery) /\ opened' \in BOOLEAN
    BY DEF IInv, TypeOK, Begin
  <2> QED
    BY <1>2, <1>5, <2>1, <2>2 DEF TypeOK
<1>8. SenderInv'
  BY <1>2, <1>3, <1>4, <1>5 DEF SenderInv
<1>9. ParserInv'
  BY <1>3, <1>5, <1>6 DEF IInv, ParserInv
<1>10. CompleteInv'
  <2>1. origin <= Len(sent) /\ origin \in Nat
    BY DEF IInv, TypeOK, CompleteInv
  <2>2. pc \in {"handle", "clear"} => tncKiss' = tncKiss
    BY DEF IInv, ParserInv
  <2>3. tncKiss'.haveFrame /\ pc # "clear" =>
          origin \in DOMAIN sent' /\ tncKiss'.buffer = sent'[origin]
    BY <1>2, <1>6 DEF IInv, CompleteInv
  <2> QED
    BY <1>1, <1>2, <1>5, <2>1, <2>2, <2>3 DEF IInv, CompleteInv
<1>11. DeliveredInv'
  <2>1. OnlySentFrames'
    BY <1>2 DEF IInv, DeliveredInv, OnlySentFrames
  <2> QED
    BY <1>6, <2>1 DEF IInv, DeliveredInv
<1>12. HeardInv'
  BY <1>5 DEF HeardInv, HeardIsComplete
<1> QED
  BY <1>7, <1>8, <1>9, <1>10, <1>11, <1>12 DEF IInv

LEMMA OpenFrameInv ==
  ASSUME IInv, NEW content \in Contents, OpenFrame(content)
  PROVE  IInv'
<1>1. tncKiss \in KissState /\ async_now_ms \in Clock /\ FEND \in Byte /\ content \in Seq(Byte)
  BY ContentsAssumption DEF IInv, TypeOK, FEND, Byte
<1>2. ASSUME ~tncKiss.haveFrame
      PROVE  /\ ~tncKiss'.haveFrame /\ tncKiss'.sawFend
             /\ Tracks(tncKiss', TRUE, content, 0, FALSE)
  <2>1. Tracks(tncKiss, FALSE, <<>>, 0, FALSE)
    BY <1>2 DEF IInv, ParserInv, OpenFrame, Begin
  <2>2. tncKiss' = kiss_feed(tncKiss, FEND, async_now_ms)
    BY <1>1, <1>2, UartStep DEF OpenFrame
  <2>3. <<>> \in Seq(Byte) /\ 0 \in Nat
    OBVIOUS
  <2> QED
    BY <1>1, <1>2, <2>1, <2>2, <2>3, OpenTracks
<1>3. /\ tncKiss' \in KissState
      /\ tncKiss.haveFrame => tncKiss' = tncKiss
      /\ UNCHANGED <<async_now_ms, pc, kissFrame, n9600_present, origin, delivered>>
  BY <1>1, <1>2, UartStep DEF OpenFrame
<1>4. heard' \in BOOLEAN /\ (heard' => ~tncKiss.haveFrame)
  BY DEF OpenFrame
<1> QED
  BY <1>2, <1>3, <1>4, BeginInv DEF OpenFrame

LEMMA ShareFendInv ==
  ASSUME IInv, NEW content \in Contents, ShareFend(content)
  PROVE  IInv'
<1>1. /\ tncKiss' \in KissState /\ tncKiss' = tncKiss /\ heard' \in BOOLEAN
      /\ UNCHANGED <<async_now_ms, pc, kissFrame, n9600_present, origin, delivered>>
  BY DEF IInv, TypeOK, ShareFend
<1>2. ~tncKiss.haveFrame => Tracks(tncKiss, TRUE, content, 0, FALSE)
  BY DEF IInv, ParserInv, ShareFend, Begin, Tracks
<1>3. heard' => ~tncKiss'.haveFrame /\ tncKiss'.sawFend
  BY <1>1 DEF IInv, HeardInv, ShareFend, Begin
<1> QED
  BY <1>1, <1>2, <1>3, BeginInv DEF ShareFend

---------------------------------------------------------------------------
(* The main loop moves neither the TNC nor the ghosts origin and heard.    *)

LEMMA LoopTopInv ==
  ASSUME IInv, LoopTop
  PROVE  IInv'
<1>1. /\ UNCHANGED <<tncKiss, kissFrame, n9600_present, uart, origin, delivered>> /\ cur' = cur
      /\ inBody' = inBody /\ idx' = idx /\ esc' = esc /\ sent' = sent
      /\ heard' = heard /\ opened' = opened
      /\ pc = "loop" /\ pc' = "check"
  BY DEF LoopTop, uart, cur
<1>2. TypeOK'
  BY <1>1 DEF IInv, TypeOK, LoopTop, uart
<1>3. SenderInv' /\ ParserInv'
  BY <1>1 DEF IInv, SenderInv, ParserInv
<1>4. CompleteInv'
  BY <1>1 DEF IInv, CompleteInv, LoopTop, uart
<1>5. DeliveredInv' /\ HeardInv'
  BY <1>1 DEF IInv, DeliveredInv, OnlySentFrames, HeardInv, HeardIsComplete, LoopTop, uart
<1> QED
  BY <1>2, <1>3, <1>4, <1>5 DEF IInv

LEMMA ModSmall ==
  ASSUME NEW n \in Int, NEW m \in Nat, 0 <= n, n < m
  PROVE  n % m = n
OBVIOUS

LEMMA Nibbles ==
  ASSUME NEW byte \in Byte
  PROVE  byte \div 16 \in 0..15 /\ byte % 16 \in 0..15
<1>1. byte \in Int /\ 0 <= byte /\ byte <= 255
  BY DEF Byte
<1> QED
  BY <1>1

\* What kiss_read returns for a frame with a header byte.
LEMMA ReadType ==
  ASSUME NEW kiss \in KissState, kiss.buffer # <<>>, Len(kiss.buffer) <= U16
  PROVE  /\ kiss_read(kiss) \in [hdlc: 0..15, type: 0..15, len: 0..(U16 - 1)]
         /\ kiss_read(kiss).len = Len(kiss.buffer) - 1
<1>1. kiss.buffer \in Seq(Byte) /\ Len(kiss.buffer) \in Nat \ {0} /\ U16 \in Nat
  BY EmptySeq DEF KissState, U16
<1>2. kiss.buffer[1] \in Byte
  BY <1>1, ElementOfSeq
<1>3. kiss.buffer[1] \div 16 \in 0..15 /\ kiss.buffer[1] % 16 \in 0..15
  BY <1>2, Nibbles
<1>4. (Len(kiss.buffer) - 1) % U16 = Len(kiss.buffer) - 1
  <2>1. Len(kiss.buffer) - 1 \in Int /\ 0 <= Len(kiss.buffer) - 1 /\ Len(kiss.buffer) - 1 < U16
    BY <1>1
  <2> QED
    BY <1>1, <2>1, ModSmall
<1>5. Len(kiss.buffer) - 1 \in 0..(U16 - 1)
  BY <1>1
<1> QED
  BY <1>3, <1>4, <1>5 DEF kiss_read

\* A complete frame is a frame the TNC sent.
LEMMA HeldIsSent ==
  ASSUME IInv, tncKiss.haveFrame, pc # "clear"
  PROVE  /\ origin \in DOMAIN sent /\ origin \in 1..MaxFrames
         /\ sent[origin] \in Contents /\ tncKiss.buffer = sent[origin]
         /\ tncKiss.buffer \in Seq(Byte)
         /\ Len(tncKiss.buffer) \in 1..KISS_BUFFER_SIZE /\ tncKiss.buffer # <<>>
         /\ Len(tncKiss.buffer) <= U16
<1>1. origin \in DOMAIN sent /\ tncKiss.buffer = sent[origin] /\ sent \in Seq(Contents)
  BY DEF IInv, TypeOK, CompleteInv
<1>2. sent[origin] \in Contents /\ origin \in 1..Len(sent) /\ Len(sent) <= MaxFrames
  BY <1>1 DEF IInv, TypeOK
<1>3. tncKiss.buffer \in Seq(Byte) /\ Len(tncKiss.buffer) \in 1..KISS_BUFFER_SIZE
  BY <1>1, <1>2, ContentsAssumption
<1>4. tncKiss.buffer # <<>>
  BY <1>3
<1>5. Len(tncKiss.buffer) <= U16
  <2>1. U16 \in Nat
    BY DEF U16
  <2> QED
    BY <1>3, <2>1, ContentsAssumption
<1> QED
  BY <1>1, <1>2, <1>3, <1>4, <1>5, ContentsAssumption

LEMMA CheckFrameInv ==
  ASSUME IInv, CheckFrame
  PROVE  IInv'
<1>1. UNCHANGED <<tncKiss, async_now_ms, n9600_present, uart, origin, delivered>> /\ cur' = cur
  BY DEF CheckFrame, uart, cur
<1>2. /\ pc = "check"
      /\ tncKiss.haveFrame => pc' = "handle" /\ kissFrame' = kiss_read(tncKiss)
      /\ ~tncKiss.haveFrame => pc' = "loop" /\ kissFrame' = kissFrame
  BY DEF CheckFrame
<1>3. TypeOK'
  <2>1. kissFrame' \in [hdlc: 0..15, type: 0..15, len: 0..(U16 - 1)]
    <3>1. CASE tncKiss.haveFrame
      <4>1. tncKiss \in KissState /\ tncKiss.buffer # <<>> /\ Len(tncKiss.buffer) <= U16
        BY <1>2, <3>1, HeldIsSent DEF IInv, TypeOK
      <4> QED
        BY <1>2, <3>1, <4>1, ReadType
    <3>2. CASE ~tncKiss.haveFrame
      BY <1>2, <3>2 DEF IInv, TypeOK
    <3> QED
      BY <3>1, <3>2
  <2>2. pc' \in {"loop", "handle"}
    BY <1>2
  <2> QED
    BY <1>1, <2>1, <2>2 DEF IInv, TypeOK, uart
<1>4. SenderInv' /\ ParserInv' /\ CompleteInv'
  BY <1>1, <1>2 DEF IInv, SenderInv, ParserInv, CompleteInv, uart, kiss_read
<1>5. DeliveredInv' /\ HeardInv'
  BY <1>1, <1>2 DEF IInv, DeliveredInv, OnlySentFrames, HeardInv, HeardIsComplete, uart
<1> QED
  BY <1>3, <1>4, <1>5 DEF IInv

\* The frame seen through kissFrame is the one the parser holds.
LEMMA SeenIsSent ==
  ASSUME IInv, pc = "handle"
  PROVE  Seen = FrameOf(sent[origin])
<1>1. /\ tncKiss \in KissState /\ tncKiss.haveFrame
      /\ tncKiss.buffer = sent[origin] /\ tncKiss.buffer \in Seq(Byte)
      /\ tncKiss.buffer # <<>> /\ Len(tncKiss.buffer) <= U16
  BY HeldIsSent DEF IInv, TypeOK, ParserInv
<1>2. kissFrame = kiss_read(tncKiss)
  BY DEF IInv, CompleteInv
<1>3. kissFrame.len = Len(tncKiss.buffer) - 1
  BY <1>1, <1>2, ReadType
<1>4. Payload(tncKiss, kissFrame) = Tail(tncKiss.buffer)
  <2>1. Len(tncKiss.buffer) \in Nat
    BY <1>1
  <2>2. 1 + kissFrame.len = Len(tncKiss.buffer)
    BY <1>3, <2>1
  <2> QED
    BY <1>1, <2>2, TailIsSubSeq DEF Payload
<1> QED
  BY <1>1, <1>2, <1>4 DEF Seen, FrameOf, kiss_read

LEMMA HandleFrameInv ==
  ASSUME IInv, HandleFrame
  PROVE  IInv'
<1> DEFINE new == [seq |-> origin, frame |-> Seen]
<1>1. /\ UNCHANGED <<tncKiss, async_now_ms, kissFrame, uart, origin>> /\ cur' = cur
      /\ inBody' = inBody /\ idx' = idx /\ esc' = esc /\ sent' = sent
      /\ heard' = heard /\ opened' = opened
      /\ pc = "handle" /\ pc' = "init" /\ delivered' = Append(delivered, new)
  BY DEF HandleFrame, uart, cur
<1>2. /\ tncKiss.haveFrame /\ origin \in DOMAIN sent /\ origin \in 1..MaxFrames
      /\ Seen = FrameOf(sent[origin])
      /\ sent[origin] \in Seq(Byte) /\ sent[origin] # <<>>
  BY <1>1, HeldIsSent, SeenIsSent DEF IInv, ParserInv
<1>3. new \in Delivery
  <2>1. sent[origin][1] \in Byte /\ Tail(sent[origin]) \in Seq(Byte)
    <3>1. Len(sent[origin]) \in Nat \ {0}
      BY <1>2, EmptySeq
    <3> QED
      BY <1>2, <3>1, ElementOfSeq, HeadTailProperties
  <2> QED
    BY <1>2, <2>1, Nibbles DEF Delivery, FrameOf
<1>4. /\ delivered \in Seq(Delivery) /\ delivered' \in Seq(Delivery)
      /\ Len(delivered') = Len(delivered) + 1
      /\ \A i \in DOMAIN delivered : delivered'[i] = delivered[i]
      /\ delivered'[Len(delivered) + 1] = new
      /\ DOMAIN delivered = 1..Len(delivered) /\ DOMAIN delivered' = 1..(Len(delivered) + 1)
      /\ Len(delivered) \in Nat
  BY <1>1, <1>3 DEF IInv, TypeOK
<1> HIDE DEF new
<1>5. new.seq = origin /\ new.frame = FrameOf(sent[origin])
  BY <1>2 DEF new
<1>6. TypeOK'
  <2>1. n9600_present' \in BOOLEAN
    BY DEF IInv, TypeOK, HandleFrame
  <2> QED
    BY <1>1, <1>4, <2>1 DEF IInv, TypeOK
<1>7. SenderInv' /\ ParserInv' /\ CompleteInv'
  BY <1>1, <1>2 DEF IInv, SenderInv, ParserInv, CompleteInv
<1>8. DeliveredInv'
  <2>1. \A i \in DOMAIN delivered : delivered[i].seq < origin
    BY <1>1, <1>2 DEF IInv, DeliveredInv
  <2>2. \A i \in DOMAIN delivered : delivered[i].seq \in 1..MaxFrames
    <3>1. \A i \in DOMAIN delivered : delivered[i] \in Delivery
      BY <1>4, ElementOfSeq
    <3> QED
      BY <3>1 DEF Delivery
  <2>3. \A i \in DOMAIN delivered' : i \in DOMAIN delivered \/ i = Len(delivered) + 1
    BY <1>4
  <2>4. OnlySentFrames'
    <3>1. \A i \in DOMAIN delivered' :
            /\ delivered'[i].seq \in DOMAIN sent'
            /\ delivered'[i].frame = FrameOf(sent'[delivered'[i].seq])
      BY <1>1, <1>2, <1>4, <1>5, <2>3 DEF IInv, DeliveredInv, OnlySentFrames
    <3>2. ASSUME NEW i \in DOMAIN delivered', NEW j \in DOMAIN delivered', i < j
          PROVE  delivered'[i].seq < delivered'[j].seq
      <4>1. i \in DOMAIN delivered
        BY <1>4, <3>2
      <4>2. CASE j \in DOMAIN delivered
        BY <1>4, <3>2, <4>1, <4>2 DEF IInv, DeliveredInv, OnlySentFrames
      <4>3. CASE j = Len(delivered) + 1
        BY <1>4, <1>5, <2>1, <4>1, <4>3
      <4> QED
        BY <2>3, <4>2, <4>3
    <3> QED
      BY <3>1, <3>2 DEF OnlySentFrames
  <2>5. \A i \in DOMAIN delivered' : delivered'[i].seq <= origin
    BY <1>2, <1>4, <1>5, <2>1, <2>2, <2>3
  <2> QED
    BY <1>1, <2>4, <2>5 DEF DeliveredInv
<1>9. HeardInv'
  BY <1>1 DEF IInv, HeardInv, HeardIsComplete
<1> QED
  BY <1>6, <1>7, <1>8, <1>9 DEF IInv

LEMMA InitFieldsInv ==
  ASSUME IInv, InitFields
  PROVE  IInv'
<1>1. /\ UNCHANGED <<async_now_ms, kissFrame, n9600_present, uart, origin, delivered>>
      /\ cur' = cur
      /\ inBody' = inBody /\ idx' = idx /\ esc' = esc /\ sent' = sent
      /\ heard' = heard /\ opened' = opened
      /\ pc = "init" /\ pc' = "clear"
  BY DEF InitFields, uart, cur
<1>2. /\ tncKiss' \in KissState /\ tncKiss.haveFrame /\ tncKiss'.haveFrame
      /\ tncKiss'.buffer = <<>> /\ ~tncKiss'.inFrame
      /\ ~tncKiss'.inEscape /\ ~tncKiss'.sawFend
  <2>1. tncKiss \in KissState /\ tncKiss.haveFrame
    BY <1>1 DEF IInv, TypeOK, ParserInv
  <2>2. tncKiss' = [tncKiss EXCEPT !.buffer = <<>>, !.inFrame = FALSE,
                                   !.inEscape = FALSE, !.sawFend = FALSE]
    BY DEF InitFields, FirstStores
  <2>3. <<>> \in Seq(Byte)
    OBVIOUS
  <2> QED
    BY <2>1, <2>2, <2>3 DEF KissState
<1>3. TypeOK'
  BY <1>1, <1>2 DEF IInv, TypeOK
<1>4. SenderInv' /\ ParserInv' /\ CompleteInv'
  BY <1>1, <1>2 DEF IInv, SenderInv, ParserInv, CompleteInv
<1>5. DeliveredInv' /\ HeardInv'
  BY <1>1, <1>2 DEF IInv, DeliveredInv, OnlySentFrames, HeardInv, HeardIsComplete
<1> QED
  BY <1>3, <1>4, <1>5 DEF IInv

LEMMA InitHaveFrameInv ==
  ASSUME IInv, InitHaveFrame
  PROVE  IInv'
<1>1. /\ UNCHANGED <<async_now_ms, kissFrame, n9600_present, uart, origin, delivered>>
      /\ cur' = cur
      /\ inBody' = inBody /\ idx' = idx /\ esc' = esc /\ sent' = sent
      /\ heard' = heard /\ opened' = opened
      /\ pc = "clear" /\ pc' = "loop"
  BY DEF InitHaveFrame, uart, cur
<1>2. /\ tncKiss' \in KissState /\ tncKiss.haveFrame /\ ~tncKiss'.haveFrame
      /\ tncKiss'.buffer = <<>> /\ ~tncKiss'.inFrame
      /\ ~tncKiss'.inEscape /\ ~tncKiss'.sawFend
  <2>1. tncKiss \in KissState /\ tncKiss.haveFrame /\ async_now_ms \in Clock
    BY <1>1 DEF IInv, TypeOK, ParserInv
  <2>2. tncKiss' = [tncKiss EXCEPT !.haveFrame = FALSE, !.last_feed_ms = async_now_ms]
    BY DEF InitHaveFrame, LastStores
  <2>3. tncKiss' \in KissState /\ ~tncKiss'.haveFrame
    BY <2>1, <2>2 DEF KissState
  <2>4. /\ tncKiss'.buffer = tncKiss.buffer /\ tncKiss'.inFrame = tncKiss.inFrame
        /\ tncKiss'.inEscape = tncKiss.inEscape /\ tncKiss'.sawFend = tncKiss.sawFend
    BY <2>1, <2>2 DEF KissState
  <2> QED
    BY <1>1, <2>1, <2>3, <2>4 DEF IInv, CompleteInv
<1>3. TypeOK'
  BY <1>1, <1>2 DEF IInv, TypeOK
<1>4. SenderInv' /\ CompleteInv'
  BY <1>1, <1>2 DEF IInv, SenderInv, CompleteInv
<1>5. ParserInv'
  BY <1>1, <1>2 DEF ParserInv, Tracks
<1>6. DeliveredInv'
  BY <1>1, <1>2 DEF IInv, DeliveredInv, OnlySentFrames
<1>7. HeardInv'
  BY <1>1, <1>2 DEF IInv, HeardInv, HeardIsComplete
<1> QED
  BY <1>3, <1>4, <1>5, <1>6, <1>7 DEF IInv

---------------------------------------------------------------------------
(* The invariant is inductive.                                             *)

LEMMA InitInv == Init => IInv
<1> SUFFICES ASSUME Init PROVE IInv
  OBVIOUS
<1>1. /\ tncKiss = kiss_init(async_now_ms) /\ async_now_ms \in Clock /\ pc = "loop"
      /\ kissFrame = [hdlc |-> 0, type |-> 0, len |-> 0] /\ n9600_present = FALSE
      /\ inBody = FALSE /\ idx = 0 /\ esc = FALSE /\ sent = <<>>
      /\ heard = FALSE /\ opened = FALSE
      /\ origin = 0 /\ delivered = <<>>
  BY DEF Init
<1>2. TypeOK
  <2>1. tncKiss \in KissState
    BY <1>1 DEF kiss_init, KissState
  <2>2. 0 \in 0..(U16 - 1)
    BY DEF U16
  <2>3. kissFrame \in [hdlc: 0..15, type: 0..15, len: 0..(U16 - 1)]
    BY <1>1, <2>2
  <2>4. sent \in Seq(Contents) /\ Len(sent) <= MaxFrames /\ origin \in 0..MaxFrames
    BY <1>1, ContentsAssumption
  <2>5. delivered \in Seq(Delivery)
    BY <1>1
  <2> QED
    BY <1>1, <2>1, <2>3, <2>4, <2>5 DEF TypeOK
<1>3. ~tncKiss.haveFrame /\ ~tncKiss.inFrame /\ ~tncKiss.inEscape /\ tncKiss.buffer = <<>>
  BY <1>1 DEF kiss_init
<1>4. SenderInv /\ ParserInv /\ CompleteInv
  BY <1>1, <1>3 DEF SenderInv, ParserInv, CompleteInv, Tracks
<1>5. DeliveredInv /\ HeardInv
  BY <1>1 DEF DeliveredInv, OnlySentFrames, HeardInv, HeardIsComplete
<1> QED
  BY <1>2, <1>4, <1>5 DEF IInv

LEMMA StepInv == IInv /\ [Next]_vars => IInv'
<1> SUFFICES ASSUME IInv, [Next]_vars PROVE IInv'
  OBVIOUS
<1>1. ASSUME NEW content \in Contents, OpenFrame(content) PROVE IInv'
  BY <1>1, OpenFrameInv
<1>2. ASSUME NEW content \in Contents, ShareFend(content) PROVE IInv'
  BY <1>2, ShareFendInv
<1>3. CASE SendPlain
  BY <1>3, SendPlainInv
<1>4. CASE SendEscape
  BY <1>4, SendEscapeInv
<1>5. CASE SendEscaped
  BY <1>5, SendEscapedInv
<1>6. CASE CloseFrame
  BY <1>6, CloseFrameInv
<1>7. CASE LoopTop
  BY <1>7, LoopTopInv
<1>8. CASE CheckFrame
  BY <1>8, CheckFrameInv
<1>9. CASE HandleFrame
  BY <1>9, HandleFrameInv
<1>10. CASE InitFields
  BY <1>10, InitFieldsInv
<1>11. CASE InitHaveFrame
  BY <1>11, InitHaveFrameInv
<1>12. CASE UNCHANGED vars
  <2>1. /\ UNCHANGED <<tncKiss, async_now_ms, pc, kissFrame, n9600_present, origin, delivered>>
        /\ UNCHANGED <<inBody, idx, esc, sent, heard, opened>> /\ cur' = cur
    BY <1>12 DEF vars, uart, cur
  <2>2. TypeOK' /\ SenderInv' /\ ParserInv' /\ CompleteInv'
    BY <2>1 DEF IInv, TypeOK, SenderInv, ParserInv, CompleteInv
  <2>3. DeliveredInv' /\ HeardInv'
    BY <2>1 DEF IInv, DeliveredInv, OnlySentFrames, HeardInv, HeardIsComplete
  <2> QED
    BY <2>2, <2>3 DEF IInv
<1> QED
  BY <1>1, <1>2, <1>3, <1>4, <1>5, <1>6, <1>7, <1>8, <1>9, <1>10, <1>11, <1>12
     DEF Next, Tnc, Main

THEOREM Invariance == Spec => []IInv
<1> QED
  BY InitInv, StepInv, PTL DEF Spec

\* Types: TypeOK of the run, for every instance.
THEOREM TypeCorrect == Spec => []TypeOK
<1>1. IInv => TypeOK
  BY DEF IInv
<1> QED
  BY <1>1, Invariance, PTL

\* Every frame the main loop handles is one the TNC sent, whole, at most once
\* and in order, whatever the interrupt interleaves (the run's OnlySentFrames), while no
\* alarm writes into tncKiss, which TncRx leaves out.
THEOREM Integrity == Spec => []OnlySentFrames
<1>1. IInv => OnlySentFrames
  BY DEF IInv, DeliveredInv
<1> QED
  BY <1>1, Invariance, PTL

\* kiss_feed never writes past the parser's buffer while no frame of the TNC
\* is longer than it (the run's BufferBound).
THEOREM NoOverrun == Spec => []BufferBound
<1>1. ASSUME IInv PROVE BufferBound
  <2>1. tncKiss \in KissState /\ tncKiss.haveFrame \in BOOLEAN /\ KISS_BUFFER_SIZE \in Nat
    BY <1>1, ContentsAssumption DEF IInv, TypeOK, KissState
  <2>2. CASE tncKiss.haveFrame /\ pc # "clear"
    BY <1>1, <2>2, HeldIsSent DEF BufferBound
  <2>3. CASE tncKiss.buffer = <<>>
    BY <2>1, <2>3 DEF BufferBound
  <2>4. CASE ~tncKiss.haveFrame /\ inBody /\ tncKiss.inFrame
    <3>1. Len(tncKiss.buffer) <= idx
      BY <1>1, <2>4 DEF IInv, ParserInv, Tracks
    <3>2. idx <= Len(cur) /\ Len(cur) <= KISS_BUFFER_SIZE /\ idx \in Nat /\ Len(cur) \in Nat
      BY <1>1, <2>4, CurIsContent DEF IInv
    <3>3. Len(tncKiss.buffer) \in Nat
      BY <2>1 DEF KissState
    <3> QED
      BY <2>1, <3>1, <3>2, <3>3 DEF BufferBound
  <2>5. CASE ~tncKiss.haveFrame /\ ~(inBody /\ tncKiss.inFrame)
    <3>1. tncKiss.buffer = <<>>
      BY <1>1, <2>5 DEF IInv, ParserInv, Tracks
    <3> QED
      BY <2>3, <3>1
  <2>6. pc = "clear" => tncKiss.buffer = <<>>
    BY <1>1 DEF IInv, CompleteInv
  <2> QED
    BY <2>1, <2>2, <2>3, <2>4, <2>5, <2>6
<1> QED
  BY <1>1, Invariance, PTL

\* A frame the parser took byte by byte without a timeout is complete when its
\* closing FEND is out (the run's HeardIsComplete).
THEOREM NoSilentLoss == Spec => []HeardIsComplete
<1>1. IInv => HeardIsComplete
  BY DEF IInv, HeardInv
<1> QED
  BY <1>1, Invariance, PTL

---------------------------------------------------------------------------
(* The path implements the lossy link of LossyFrames.                      *)

Frames == {FrameOf(c) : c \in Contents}
Mapped == [i \in DOMAIN sent |-> FrameOf(sent[i])]

\* Starting a frame appends it to what the link was given.
LEMMA MappedAppend ==
  ASSUME sent \in Seq(Contents), NEW content \in Contents, sent' = Append(sent, content)
  PROVE  Mapped' = Append(Mapped, FrameOf(content))
<1>1. /\ Len(sent) \in Nat /\ DOMAIN sent = 1..Len(sent)
      /\ sent' \in Seq(Contents) /\ Len(sent') = Len(sent) + 1
      /\ DOMAIN sent' = 1..(Len(sent) + 1)
      /\ \A i \in 1..Len(sent) : sent[i] \in Contents /\ sent'[i] = sent[i]
      /\ sent'[Len(sent) + 1] = content
  OBVIOUS
<1>2. Mapped \in [1..Len(sent) -> Frames]
  BY <1>1 DEF Mapped, Frames
<1>3. Mapped \in Seq(Frames) /\ Len(Mapped) = Len(sent)
  BY <1>1, <1>2, SeqDef
<1>4. FrameOf(content) \in Frames /\ \A i \in 1..(Len(sent) + 1) : FrameOf(sent'[i]) \in Frames
  <2>1. \A i \in 1..(Len(sent) + 1) : sent'[i] \in Contents
    BY <1>1
  <2> QED
    BY <2>1 DEF Frames
<1>5. Mapped' = [i \in 1..(Len(sent) + 1) |-> FrameOf(sent'[i])]
  BY <1>1 DEF Mapped
<1> HIDE DEF Mapped
<1>6. Mapped' \in [1..(Len(sent) + 1) -> Frames]
  BY <1>4, <1>5
<1>7. Mapped' \in Seq(Frames) /\ Len(Mapped') = Len(sent) + 1
  BY <1>1, <1>6, SeqDef
<1>8. Append(Mapped, FrameOf(content)) \in Seq(Frames)
      /\ Len(Append(Mapped, FrameOf(content))) = Len(sent) + 1
  BY <1>3, <1>4
<1>9. \A i \in 1..(Len(sent) + 1) : Mapped'[i] = Append(Mapped, FrameOf(content))[i]
  <2>1. \A i \in 1..Len(sent) : Mapped'[i] = FrameOf(sent[i]) /\ Mapped[i] = FrameOf(sent[i])
    BY <1>1, <1>5 DEF Mapped
  <2>2. Mapped'[Len(sent) + 1] = FrameOf(content)
    BY <1>1, <1>5
  <2> QED
    BY <1>1, <1>3, <1>4, <2>1, <2>2
<1> QED
  BY <1>7, <1>8, <1>9, SeqEqual

\* Handling a frame is one delivery of the abstract link; the start of a
\* frame is one send; every other step changes nothing the link shows.
THEOREM Refinement == Spec => ImplementsLossyFrames
<1>1. Init => Lossy!Init
  <2> SUFFICES ASSUME Init PROVE Mapped = <<>> /\ delivered = <<>>
    BY DEF Lossy!Init, Mapped
  <2>1. sent = <<>> /\ delivered = <<>>
    BY DEF Init
  <2> QED
    BY <2>1 DEF Mapped
<1>2. ASSUME IInv, [Next]_vars
      PROVE  [Lossy!Next]_(Lossy!vars)
  <2>1. sent \in Seq(Contents) /\ delivered \in Seq(Delivery)
    BY <1>2 DEF IInv, TypeOK
  <2>2. ASSUME NEW content \in Contents, Begin(content), delivered' = delivered
        PROVE  Lossy!Next
    <3>1. Mapped' = Append(Mapped, FrameOf(content))
      BY <2>1, <2>2, MappedAppend DEF Begin
    <3>2. FrameOf(content) \in Frames
      BY DEF Frames
    <3> QED
      BY <2>2, <3>1, <3>2 DEF Lossy!Next, Lossy!Send, Mapped, Frames
  <2>3. CASE HandleFrame
    <3>1. /\ pc = "handle" /\ sent' = sent
          /\ delivered' = Append(delivered, [seq |-> origin, frame |-> Seen])
      BY <2>3 DEF HandleFrame, uart
    <3>2. /\ origin \in DOMAIN sent /\ origin \in 1..MaxFrames
          /\ Seen = FrameOf(sent[origin]) /\ tncKiss.haveFrame
      BY <1>2, <3>1, HeldIsSent, SeenIsSent DEF IInv, ParserInv
    <3>3. Lossy!Newest < origin
      <4>1. CASE delivered = <<>>
        BY <3>2, <4>1 DEF Lossy!Newest
      <4>2. CASE delivered # <<>>
        <5>1. Len(delivered) \in DOMAIN delivered
          BY <2>1, <4>2, EmptySeq
        <5>2. delivered[Len(delivered)].seq < origin
          BY <1>2, <3>1, <3>2, <5>1 DEF IInv, DeliveredInv
        <5> QED
          BY <4>2, <5>2 DEF Lossy!Newest
      <4> QED
        BY <4>1, <4>2
    <3>4. Mapped' = Mapped /\ origin \in DOMAIN Mapped /\ Mapped[origin] = FrameOf(sent[origin])
      BY <3>1, <3>2 DEF Mapped
    <3>5. Lossy!Deliver(origin)
      BY <3>1, <3>2, <3>3, <3>4 DEF Lossy!Deliver, Mapped
    <3> QED
      BY <3>4, <3>5 DEF Lossy!Next, Mapped
  <2>4. ASSUME sent' = sent, delivered' = delivered
        PROVE  UNCHANGED Lossy!vars
    BY <2>4 DEF Lossy!vars
  <2>5. ASSUME NEW byte, Uart(byte) PROVE delivered' = delivered
    BY <2>5 DEF Uart
  <2>6. ASSUME NEW content \in Contents, OpenFrame(content) PROVE Lossy!Next
    BY <2>2, <2>5, <2>6 DEF OpenFrame
  <2>7. ASSUME NEW content \in Contents, ShareFend(content) PROVE Lossy!Next
    BY <2>2, <2>7 DEF ShareFend
  <2>8. CASE SendPlain \/ SendEscape \/ SendEscaped \/ CloseFrame
    BY <2>4, <2>5, <2>8 DEF SendPlain, SendEscape, SendEscaped, CloseFrame
  <2>9. CASE LoopTop \/ CheckFrame \/ InitFields \/ InitHaveFrame
    BY <2>4, <2>9 DEF LoopTop, CheckFrame, InitFields, InitHaveFrame, uart
  <2>10. CASE UNCHANGED vars
    BY <2>4, <2>10 DEF vars, uart
  <2> QED
    BY <1>2, <2>3, <2>6, <2>7, <2>8, <2>9, <2>10 DEF Next, Tnc, Main
<1> QED
  BY <1>1, <1>2, Invariance, PTL DEF Spec, ImplementsLossyFrames, Lossy!Spec
==========================================================================
