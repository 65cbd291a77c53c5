------------------------------- MODULE BleTx -------------------------------
(***************************************************************************)
(* The path from a BLE client to the TNC.  BTstack's callback stores a     *)
(* write in the mailbox char_tx_value; the main loop feeds what it finds   *)
(* there to bleKiss, byte by byte, and sends each complete frame to the    *)
(* UART.  The callback preempts the main loop between any two of its       *)
(* steps.  The characteristic is written without response: a write that    *)
(* finds the mailbox in use is dropped and the client does not know.       *)
(*                                                                         *)
(* The parser, the mailbox and scratch are arrays of one size, and nothing *)
(* compares an index with it.  A byte stored behind one of them lands on   *)
(* what the linker put there, for the parser on its own index pos: what    *)
(* the program then does is undefined, and the model ends (overrun): the   *)
(* main loop is left in front of that byte, and the client is not heard.   *)
(***************************************************************************)
EXTENDS Kiss

CONSTANTS
  BUFFER_SIZE, \* 400: KissState.buffer, scratch and char_tx_value alike
  CALLS_SIZE,  \* at most 21: what log_ax25_packet puts into scratch around a
               \* payload: two call signs, two spaces, the end of the string
  Contents,    \* the frames the client may send: header byte and payload
  WriteSizes,  \* how much of a frame one write may carry: MTU - 3
  MaxFrames    \* bound: frames the client begins in a behaviour

VARIABLES
  char_tx_value,      \* the mailbox: the bytes ever copied into it
  char_tx_value_len,  \* how many of them wait for the main loop, 0: it is free
  bleKiss,            \* the parser, which only the main loop uses
  async_now_ms,       \* the clock of this pass of the main loop
  pc,                 \* where the main loop is
  len, i,             \* parameter and loop counter of ble_write_callback
  toTnc,              \* the frames written to the UART, each with the number
                      \* of the client's frame whose byte completed it
  sent,               \* the frames the client began, oldest first
  rest,               \* what the client has still to write of the last
  size,               \* the size of the writes it is cut into
  slot,               \* ghost: frame and offset of the bytes in the mailbox
  got, lost,          \* ghost: frames with a write accepted, with one missing
  stale,              \* ghost: frames cut by the parser's timeout
  overrun             \* a byte was stored behind the end of a buffer

mailbox == <<char_tx_value, char_tx_value_len, slot>>
main    == <<bleKiss, async_now_ms, pc, len, i, toTnc, stale, overrun>>
client  == <<sent, rest, size>>
vars    == <<mailbox, main, client, got, lost>>

Wire(content) ==
  kiss_encode([hdlc |-> content[1] \div 16, type |-> content[1] % 16], Tail(content))

\* A client's frame fits in every buffer on its own, and is not empty; its header
\* byte is written as it is.  pos has 16 bits.
ASSUME ContentsAssumption ==
  /\ BUFFER_SIZE \in 1..(U16 - 1) /\ CALLS_SIZE \in Nat
  /\ Contents \subseteq Seq(Byte)
  /\ \A c \in Contents :
       /\ c # <<>> /\ c[1] \notin {FEND, FESC}
       /\ Len(Wire(c)) <= BUFFER_SIZE /\ CALLS_SIZE + Len(c) - 1 <= BUFFER_SIZE
  /\ WriteSizes \subseteq 2..BUFFER_SIZE
  /\ MaxFrames \in Nat

Init ==
  /\ char_tx_value = <<>> /\ char_tx_value_len = 0
  /\ async_now_ms \in Clock
  /\ bleKiss = kiss_init(async_now_ms)
  /\ pc = "loop" /\ len = 0 /\ i = 0
  /\ toTnc = <<>>
  /\ sent = <<>> /\ rest = <<>> /\ size \in WriteSizes
  /\ slot = [frame |-> 0, at |-> 0]
  /\ got = {} /\ lost = {} /\ stale = {}
  /\ overrun = FALSE

---------------------------------------------------------------------------
(* The client, which is not part of the repository, and BTstack, which     *)
(* calls att_write_callback for each write it receives.                    *)

\* Mutant: the value is stored behind what the buffer holds.
CopiedBehind(value) == char_tx_value \o value

\* memcpy leaves what lies beyond the new value.
Copied(value) ==
  value \o SubSeq(char_tx_value, Len(value) + 1, Len(char_tx_value))

\* Mutant: the write overwrites one the main loop has not finished with.
att_write_callbackAlways(value, frame, at) ==
  /\ char_tx_value' = Copied(value)
  /\ char_tx_value_len' = Len(value)
  /\ slot' = [frame |-> frame, at |-> at]
  /\ got' = got \cup {frame}
  /\ UNCHANGED lost

att_write_callback(value, frame, at) ==
  \/ /\ char_tx_value_len # 0
     /\ lost' = lost \cup {frame}
     /\ UNCHANGED <<mailbox, got>>
  \/ /\ char_tx_value_len = 0
     /\ char_tx_value' = Copied(value)
     /\ char_tx_value_len' = Len(value)
     /\ slot' = [frame |-> frame, at |-> at]
     /\ got' = got \cup {frame}
     /\ UNCHANGED lost

Begin ==
  /\ ~overrun /\ rest = <<>> /\ Len(sent) < MaxFrames
  /\ \E content \in Contents : sent' = Append(sent, content) /\ rest' = Wire(content)
  /\ size' \in WriteSizes
  /\ UNCHANGED <<mailbox, main, got, lost>>

Write ==
  LET n == IF size < Len(rest) THEN size ELSE Len(rest)
  IN  /\ ~overrun /\ rest # <<>>
      /\ rest' = SubSeq(rest, n + 1, Len(rest))
      /\ att_write_callback(SubSeq(rest, 1, n), Len(sent),
                            Len(Wire(sent[Len(sent)])) - Len(rest))
      /\ UNCHANGED <<main, sent, size>>

\* The client disconnects in the middle of a frame: nothing is reset.
Leave ==
  /\ ~overrun /\ rest # <<>>
  /\ rest' = <<>>
  /\ lost' = lost \cup {Len(sent)}
  /\ UNCHANGED <<mailbox, main, got, sent, size>>

Client == Begin \/ Write \/ Leave

---------------------------------------------------------------------------
(* The main loop.                                                          *)

LoopTop ==
  /\ pc = "loop"
  /\ async_now_ms' \in Clock
  /\ pc' = "ble"
  /\ UNCHANGED <<mailbox, bleKiss, len, i, toTnc, stale, overrun, client, got, lost>>

\* Mutant: one byte is not enough.
ble_has_tx_dataMany == char_tx_value_len > 1

ble_has_tx_data == char_tx_value_len > 0

\* handle_ble_tx_data passes the length on by value.
CheckBle ==
  /\ pc = "ble"
  /\ IF ble_has_tx_data
     THEN pc' = "feed" /\ len' = char_tx_value_len /\ i' = 0
     ELSE pc' = "loop" /\ UNCHANGED <<len, i>>
  /\ UNCHANGED <<mailbox, bleKiss, async_now_ms, toTnc, stale, overrun, client, got, lost>>

\* A silence before this byte discards the beginning of the byte's frame.
CutsFrame == Expired(bleKiss, async_now_ms) /\ slot.at + i > 0

\* The parser after the next byte of the mailbox.
NextKiss == kiss_feed(bleKiss, char_tx_value[i + 1], async_now_ms)

FeedByte ==
  /\ pc = "feed" /\ i < len
  /\ Len(NextKiss.buffer) <= BUFFER_SIZE
  /\ bleKiss' = NextKiss
  /\ stale' = IF CutsFrame THEN stale \cup {slot.frame} ELSE stale
  /\ IF bleKiss'.haveFrame THEN pc' = "forward" /\ UNCHANGED i
                           ELSE i' = i + 1 /\ UNCHANGED pc
  /\ UNCHANGED <<mailbox, async_now_ms, len, toTnc, overrun, client, got, lost>>

\* kiss_feed stores at pos without a look at it.
FeedBeyond ==
  /\ pc = "feed" /\ i < len
  /\ Len(NextKiss.buffer) > BUFFER_SIZE
  /\ overrun' = TRUE
  /\ UNCHANGED <<mailbox, bleKiss, async_now_ms, pc, len, i, toTnc, stale,
                 client, got, lost>>

Relayed == LET frame == kiss_read(bleKiss) IN kiss_encode(frame, Payload(bleKiss, frame))

\* kiss_encode writes the frame into scratch, log_ax25_packet its payload.
ScratchHolds ==
  Len(Relayed) <= BUFFER_SIZE /\ CALLS_SIZE + kiss_read(bleKiss).len <= BUFFER_SIZE

\* Mutant: kiss_init leaves the bytes in the buffer.
ForwardNoPos ==
  /\ pc = "forward" /\ ScratchHolds
  /\ toTnc' = Append(toTnc, [frame |-> slot.frame, bytes |-> Relayed])
  /\ bleKiss' = [kiss_init(async_now_ms) EXCEPT !.buffer = bleKiss.buffer]
  /\ pc' = "feed" /\ i' = i + 1
  /\ UNCHANGED <<mailbox, async_now_ms, len, stale, overrun, client, got, lost>>

\* kiss_read, kiss_encode, the blocking write to the UART, the log, kiss_init.
Forward ==
  /\ pc = "forward" /\ ScratchHolds
  /\ toTnc' = Append(toTnc, [frame |-> slot.frame, bytes |-> Relayed])
  /\ bleKiss' = kiss_init(async_now_ms)
  /\ pc' = "feed" /\ i' = i + 1
  /\ UNCHANGED <<mailbox, async_now_ms, len, stale, overrun, client, got, lost>>

\* Neither of them looks at the size of scratch.
ForwardBeyond ==
  /\ pc = "forward" /\ ~ScratchHolds
  /\ overrun' = TRUE
  /\ UNCHANGED <<mailbox, bleKiss, async_now_ms, pc, len, i, toTnc, stale,
                 client, got, lost>>

\* Mutant: the mailbox is freed only while a frame is open.
FreeMailboxOpen ==
  /\ pc = "feed" /\ i = len
  /\ char_tx_value_len' = IF bleKiss.inFrame \/ bleKiss.sawFend THEN 0 ELSE len
  /\ pc' = "loop" /\ len' = 0 /\ i' = 0
  /\ UNCHANGED <<char_tx_value, slot, bleKiss, async_now_ms, toTnc, stale,
                 overrun, client, got, lost>>

\* char_tx_value_len is cleared after the callback has returned.
FreeMailbox ==
  /\ pc = "feed" /\ i = len
  /\ char_tx_value_len' = 0
  /\ pc' = "loop" /\ len' = 0 /\ i' = 0
  /\ UNCHANGED <<char_tx_value, slot, bleKiss, async_now_ms, toTnc, stale,
                 overrun, client, got, lost>>

Main ==
  LoopTop \/ CheckBle \/ FeedByte \/ FeedBeyond \/ Forward \/ ForwardBeyond \/ FreeMailbox

Next == Client \/ Main

Spec == Init /\ [][Next]_vars

\* The main loop always comes round: callbacks return, the UART takes bytes.
FairSpec == Spec /\ WF_vars(Main)

---------------------------------------------------------------------------

TypeOK ==
  /\ char_tx_value \in Seq(Byte) /\ char_tx_value_len \in 0..Len(char_tx_value)
  /\ bleKiss \in KissState /\ Len(bleKiss.buffer) <= BUFFER_SIZE
  /\ async_now_ms \in Clock
  /\ pc \in {"loop", "ble", "feed", "forward"}
  /\ len \in Nat /\ i \in 0..len
  /\ toTnc \in Seq([frame: 1..MaxFrames, bytes: Seq(Byte)])
  /\ sent \in Seq(Contents) /\ Len(sent) <= MaxFrames
  /\ rest \in Seq(Byte) /\ size \in WriteSizes
  /\ slot \in [frame: 0..MaxFrames, at: Nat]
  /\ got \subseteq 1..MaxFrames /\ lost \subseteq 1..MaxFrames
  /\ stale \subseteq 1..MaxFrames
  /\ overrun \in BOOLEAN

\* A frame is torn when a part of it, not all of it, reached the parser.
Torn == (got \cap lost) \cup stale

\* A torn frame may take the next one that reaches the parser with it.
Unharmed(n) ==
  /\ n \notin Torn
  /\ \A m \in 1..(n - 1) :
       m \in Torn => \E between \in (m + 1)..(n - 1) : between \in got

\* As long as no buffer is overrun, what a torn frame does ends with the frame
\* after it: any later one goes to the TNC exactly as the client wrote it,
\* whatever the sizes of the writes and wherever callback and loop meet
\* (att_write_callback, ble_write_callback).
UnharmedIsExact ==
  \A k \in DOMAIN toTnc :
    Unharmed(toTnc[k].frame) => toTnc[k].bytes = Wire(sent[toTnc[k].frame])

\* As long as no buffer is overrun: once the main loop has emptied the mailbox,
\* an unharmed frame that was accepted to its last write has been sent to the TNC.
UnharmedIsForwarded ==
  \A n \in got \ lost :
    /\ Unharmed(n)
    /\ n < Len(sent) \/ (rest = <<>> /\ char_tx_value_len = 0)
    /\ n < slot.frame \/ char_tx_value_len = 0
    => \E k \in DOMAIN toTnc : toTnc[k].frame = n

\* No frame with a dropped write, its own or the one before it, is in the parser
\* together with bytes of n.
Apart(n) ==
  /\ n \notin got \cap lost
  /\ \A m \in 1..(n - 1) :
       m \in got \cap lost => \E between \in (m + 1)..(n - 1) : between \in got

\* Nothing compares pos with the size of buffer, or a length with that of scratch
\* (kiss.c:68, main_aprs.c:355 and 102): only frames joined by a dropped write
\* overrun one of them.  Neither a long run of frames nor what a silence leaves in
\* the parser does.
OverrunIsJoined == overrun => ~Apart(slot.frame)

\* However frames are cut and joined, no client frame completes two frames for
\* the TNC, and the order of the client is kept, as long as no buffer is overrun.
OncePerFrame ==
  \A j, k \in DOMAIN toTnc : j < k => toTnc[j].frame < toTnc[k].frame

\* A mailbox in use is emptied, and the client's next write is accepted, unless the
\* bytes in it overrun a buffer.
MailboxIsFreed == (char_tx_value_len > 0) ~> (char_tx_value_len = 0 \/ overrun)

\* The comment of ble_write_callback (main_aprs.c:342-343): the parser ensures
\* that a valid frame was received, also when it exceeds the BLE packet size.
\* So what is sent to the TNC is a frame of the client.
OnlyClientFrames ==
  \A k \in DOMAIN toTnc : \E n \in DOMAIN sent : toTnc[k].bytes = Wire(sent[n])
==========================================================================
