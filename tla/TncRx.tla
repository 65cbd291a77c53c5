------------------------------- MODULE TncRx -------------------------------
(***************************************************************************)
(* The path from the TNC to the firmware: the TNC sends KISS frames over   *)
(* the UART, the RX interrupt (on_uart_rx) feeds each byte to tncKiss, and *)
(* the main loop reads a complete frame in place and resets the parser.    *)
(* The interrupt preempts the main loop between any two of its steps; the  *)
(* two share tncKiss with no lock, only the flag haveFrame.                *)
(* main_sniffer.c has the same interrupt and loop.                         *)
(*                                                                         *)
(* The alarm of send_our_info_to_bt, which writes through kissFrame.buffer *)
(* into a tncKiss that holds a frame (main_aprs.c:131), is left to Bridge: *)
(* what is shown here is shown of the interrupt and the loop alone.        *)
(***************************************************************************)
EXTENDS Kiss

CONSTANTS
  Contents,         \* the frames the TNC may send: header byte and payload
  MaxFrames,        \* bound: frames the TNC sends in a behaviour
  KISS_BUFFER_SIZE  \* 400, the size of KissState.buffer

ASSUME ContentsAssumption ==
  /\ Contents \subseteq Seq(Byte)
  /\ \A c \in Contents : Len(c) \in 1..KISS_BUFFER_SIZE
  /\ KISS_BUFFER_SIZE \in 1..(U16 - 1)
  /\ MaxFrames \in Nat

VARIABLES
  tncKiss,         \* the parser shared by the interrupt and the main loop
  async_now_ms,    \* the clock the interrupt uses: set by the main loop only
  pc,              \* where the main loop is
  kissFrame,       \* header and length of the frame being handled
  n9600_present,   \* the TNC has answered the firmware query
  inBody,          \* the TNC is inside a frame, and has sent ...
  idx,             \* ... so many of its bytes
  esc,             \* ... and the FESC of the next one
  sent,            \* the frames the TNC began, oldest first
  origin,          \* ghost: the number of the last frame tncKiss completed
  heard,           \* ghost: tncKiss took every byte of the current frame
  opened,          \* ghost: tncKiss took the last closing FEND, and it ended no frame
  delivered        \* the frames the main loop handled, with their origins

uart == <<inBody, idx, esc, sent, heard, opened>>
vars == <<tncKiss, async_now_ms, pc, kissFrame, n9600_present, uart, origin, delivered>>

cur == sent[Len(sent)]

FrameOf(content) ==
  [hdlc |-> content[1] \div 16, type |-> content[1] % 16, payload |-> Tail(content)]

Init ==
  /\ async_now_ms \in Clock
  /\ tncKiss = kiss_init(async_now_ms)
  /\ pc = "loop"
  /\ kissFrame = [hdlc |-> 0, type |-> 0, len |-> 0]
  /\ n9600_present = FALSE
  /\ inBody = FALSE /\ idx = 0 /\ esc = FALSE /\ sent = <<>>
  /\ heard = FALSE /\ opened = FALSE
  /\ origin = 0
  /\ delivered = <<>>

---------------------------------------------------------------------------
(* The UART interrupt.  One step per byte: the loop in on_uart_rx only     *)
(* does several in a row.                                                  *)

on_uart_rx(byte) ==
  IF tncKiss.haveFrame THEN tncKiss ELSE kiss_feed(tncKiss, byte, async_now_ms)

Uart(byte) ==
  /\ tncKiss' = on_uart_rx(byte)
  /\ origin' = IF tncKiss'.haveFrame /\ ~tncKiss.haveFrame THEN Len(sent) ELSE origin
  /\ UNCHANGED <<async_now_ms, pc, kissFrame, n9600_present, delivered>>

\* The parser takes the byte as part of what it already holds.
Taken == ~tncKiss.haveFrame /\ ~Expired(tncKiss, async_now_ms)

---------------------------------------------------------------------------
(* The TNC, which is not part of the repository: it sends each frame       *)
(* between FENDs, escaped as KISS demands, with pauses of any length.      *)

Begin(content) ==
  /\ ~inBody
  /\ Len(sent) < MaxFrames
  /\ sent' = Append(sent, content)
  /\ inBody' = TRUE /\ idx' = 0 /\ esc' = FALSE
  /\ UNCHANGED opened

OpenFrame(content) ==
  /\ Begin(content)
  /\ heard' = ~tncKiss.haveFrame
  /\ Uart(FEND)

\* The FEND that closed the frame before this one opens this one too.
ShareFend(content) ==
  /\ sent # <<>>
  /\ Begin(content)
  /\ heard' = opened
  /\ UNCHANGED <<tncKiss, async_now_ms, pc, kissFrame, n9600_present, origin, delivered>>

SendPlain ==
  /\ inBody /\ idx < Len(cur) /\ cur[idx + 1] \notin {FEND, FESC}
  /\ idx' = idx + 1
  /\ heard' = (heard /\ Taken)
  /\ Uart(cur[idx + 1])
  /\ UNCHANGED <<inBody, esc, sent, opened>>

SendEscape ==
  /\ inBody /\ idx < Len(cur) /\ cur[idx + 1] \in {FEND, FESC} /\ ~esc
  /\ esc' = TRUE
  /\ heard' = (heard /\ Taken)
  /\ Uart(FESC)
  /\ UNCHANGED <<inBody, idx, sent, opened>>

SendEscaped ==
  /\ inBody /\ idx < Len(cur) /\ esc
  /\ idx' = idx + 1 /\ esc' = FALSE
  /\ heard' = (heard /\ Taken)
  /\ Uart(IF cur[idx + 1] = FEND THEN TFEND ELSE TFESC)
  /\ UNCHANGED <<inBody, sent, opened>>

CloseFrame ==
  /\ inBody /\ idx = Len(cur)
  /\ inBody' = FALSE
  /\ heard' = (heard /\ Taken)
  /\ Uart(FEND)
  /\ opened' = (~tncKiss.haveFrame /\ ~tncKiss'.haveFrame)
  /\ UNCHANGED <<idx, esc, sent>>

Tnc ==
  \/ \E content \in Contents : OpenFrame(content) \/ ShareFend(content)
  \/ SendPlain \/ SendEscape \/ SendEscaped \/ CloseFrame

---------------------------------------------------------------------------
(* The main loop.                                                          *)

\* Any time may have passed since the last pass of the loop.
LoopTop ==
  /\ pc = "loop"
  /\ async_now_ms' \in Clock
  /\ pc' = "check"
  /\ UNCHANGED <<tncKiss, kissFrame, n9600_present, uart, origin, delivered>>

\* Mutant: a frame for another port is neither handled nor discarded.
CheckFrameDataOnly ==
  /\ pc = "check"
  /\ IF tncKiss.haveFrame /\ kiss_read(tncKiss).hdlc = 0
     THEN kissFrame' = kiss_read(tncKiss) /\ pc' = "handle"
     ELSE pc' = "loop" /\ UNCHANGED kissFrame
  /\ UNCHANGED <<tncKiss, async_now_ms, n9600_present, uart, origin, delivered>>

CheckFrame ==
  /\ pc = "check"
  /\ IF tncKiss.haveFrame
     THEN kissFrame' = kiss_read(tncKiss) /\ pc' = "handle"
     ELSE pc' = "loop" /\ UNCHANGED kissFrame
  /\ UNCHANGED <<tncKiss, async_now_ms, n9600_present, uart, origin, delivered>>

IsVersion == kissFrame.type = KISS_DATA /\ kissFrame.hdlc = KISS_N9600A_HDLC_PORT

Seen == [hdlc |-> kissFrame.hdlc, type |-> kissFrame.type,
         payload |-> Payload(tncKiss, kissFrame)]

\* Mutant: the branch for the firmware version forgets kiss_init.
HandleFrameNoReset ==
  /\ pc = "handle"
  /\ delivered' = Append(delivered, [seq |-> origin, frame |-> Seen])
  /\ n9600_present' = (n9600_present \/ IsVersion)
  /\ pc' = IF IsVersion THEN "loop" ELSE "init"
  /\ UNCHANGED <<tncKiss, async_now_ms, kissFrame, uart, origin>>

\* The frame is used through the pointer into tncKiss: kept as the TNC's
\* firmware version, or displayed, logged and relayed (ax25_init accepts all).
HandleFrame ==
  /\ pc = "handle"
  /\ delivered' = Append(delivered, [seq |-> origin, frame |-> Seen])
  /\ n9600_present' = (n9600_present \/ IsVersion)
  /\ pc' = "init"
  /\ UNCHANGED <<tncKiss, async_now_ms, kissFrame, uart, origin>>

\* kiss_init stores field by field, haveFrame after the others: until that
\* store the interrupt leaves the parser alone.
\* Mutant: only haveFrame is cleared.
FirstStoresNone(kiss) == kiss

FirstStores(kiss) ==
  [kiss EXCEPT !.buffer = <<>>, !.inFrame = FALSE, !.inEscape = FALSE, !.sawFend = FALSE]
LastStores(kiss, now) == [kiss EXCEPT !.haveFrame = FALSE, !.last_feed_ms = now]

InitFields ==
  /\ pc = "init"
  /\ tncKiss' = FirstStores(tncKiss)
  /\ pc' = "clear"
  /\ UNCHANGED <<async_now_ms, kissFrame, n9600_present, uart, origin, delivered>>

InitHaveFrame ==
  /\ pc = "clear"
  /\ tncKiss' = LastStores(tncKiss, async_now_ms)
  /\ pc' = "loop"
  /\ UNCHANGED <<async_now_ms, kissFrame, n9600_present, uart, origin, delivered>>

Main == LoopTop \/ CheckFrame \/ HandleFrame \/ InitFields \/ InitHaveFrame

Next == Tnc \/ Main

Spec == Init /\ [][Next]_vars

\* The main loop always comes round: interrupts return.
FairSpec == Spec /\ WF_vars(Main)

---------------------------------------------------------------------------

Delivery == [seq: 1..MaxFrames, frame: [hdlc: 0..15, type: 0..15, payload: Seq(Byte)]]

TypeOK ==
  /\ tncKiss \in KissState
  /\ async_now_ms \in Clock
  /\ pc \in {"loop", "check", "handle", "init", "clear"}
  /\ kissFrame \in [hdlc: 0..15, type: 0..15, len: 0..(U16 - 1)]
  /\ n9600_present \in BOOLEAN
  /\ inBody \in BOOLEAN /\ idx \in Nat /\ esc \in BOOLEAN
  /\ heard \in BOOLEAN /\ opened \in BOOLEAN
  /\ sent \in Seq(Contents) /\ Len(sent) <= MaxFrames
  /\ origin \in 0..MaxFrames
  /\ delivered \in Seq(Delivery)

\* Whatever the interleaving of interrupt and loop, and whatever bytes were
\* dropped while a frame was waiting, each frame handled is one the TNC sent,
\* whole, at most once and in order (main_aprs.c, on_uart_rx and main loop):
\* the interrupt leaves a frame alone that is used through kissFrame.buffer.
OnlySentFrames ==
  /\ \A i \in DOMAIN delivered :
       /\ delivered[i].seq \in DOMAIN sent
       /\ delivered[i].frame = FrameOf(sent[delivered[i].seq])
  /\ \A i, j \in DOMAIN delivered : i < j => delivered[i].seq < delivered[j].seq

\* The parser never writes past KissState.buffer: kiss_feed does not check
\* pos, so this rests on every FEND ending what came before it.
BufferBound == Len(tncKiss.buffer) <= KISS_BUFFER_SIZE

\* A frame whose every byte reached the parser, with no timeout between them,
\* is complete once its closing FEND is sent; its opening FEND may be the one
\* that ended a frame whose start was missed.
HeardIsComplete == heard /\ ~inBody => origin = Len(sent)

\* Every completed frame is handled, and the interrupt is let in again.
CompletedIsHandled ==
  \A n \in 1..MaxFrames :
    (origin = n) ~> (~tncKiss.haveFrame /\ \E i \in DOMAIN delivered : delivered[i].seq = n)

\* The path implements the lossy link.
Lossy == INSTANCE LossyFrames WITH
           Frame <- {FrameOf(c) : c \in Contents},
           sent <- [i \in DOMAIN sent |-> FrameOf(sent[i])]
ImplementsLossyFrames == Lossy!Spec
==========================================================================
