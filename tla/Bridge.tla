------------------------------ MODULE Bridge ------------------------------
(***************************************************************************)
(* What the contexts of firmware/main_aprs.c share: kissFrame, which points*)
(* into the parser of the last frame read, the buffer scratch, the UART to *)
(* the TNC, the buffer char_rx_value and the lock of the SD card.  The     *)
(* main loop relays frames from the TNC and from BLE; BTstack's context    *)
(* preempts it between any two steps and relays frames from SPP; an alarm  *)
(* preempts both and runs to its end.  The parsers and the buffers towards *)
(* the clients have modules of their own; here a buffer is two halves, and *)
(* each half holds one of a frame's, or something else.                    *)
(***************************************************************************)
EXTENDS Integers, Sequences

CONSTANTS
  Kinds,       \* the kinds of frames of each sender that a behaviour may have
  MaxEvents,   \* bound: the frames begun by the TNC and the clients, and the BLE
               \* connections and disconnections, together
  MaxAlarms    \* bound: the status frames, pending and written

Parser  == {"tnc", "ble", "spp"}
Sender  == Parser \cup {"alarm"}
Context == {"main", "stack"}

ASSUME BridgeAssumption ==
  /\ Kinds \in [Parser -> SUBSET {"plain", "test", "version"}]
  /\ MaxEvents \in Nat /\ MaxAlarms \in Nat

VARIABLES
  parser,         \* tncKiss, bleKiss, sppKiss: halves fed, of which frame,
                  \* and the two halves of the payload in the buffer
  kissFrame,      \* buffer: the parser it points into; head: the frame whose
                  \* type, hdlc and len it has
  scratch,        \* the two halves of what is encoded there
  char_rx_value,  \* the two halves of the buffer towards the clients
  queued,         \* the frame char_rx_value_len was set for, Junk: it is 0
  card,           \* who has the SD card's mutex
  uart,           \* the last two halves written to the TNC: of which frame each
                  \* should be, and what it was
  sent,           \* the last packet BTstack took from char_rx_value, likewise
  pc,             \* job, step and frame of the main loop and of BTstack
  alarms,         \* alarms that will call send_our_info_to_bt
  query,          \* the alarm that asks the TNC for its version is pending
  begun,          \* how many frames each sender has begun
  events,         \* BLE connections and disconnections so far
  faulted,        \* the processor has stopped
  hit             \* ghost: frames another context came across

shared == <<parser, kissFrame, scratch, char_rx_value, queued, card, uart>>
vars   == <<shared, sent, pc, alarms, query, begun, events, faulted, hit>>

Frame(from, n, kind) == [from |-> from, n |-> n, kind |-> kind]

\* Log text, a mixture of two frames, what is read through a null pointer.
Junk  == Frame("none", 0, "none")
Query == Frame("none", 0, "query")

---------------------------------------------------------------------------
(* The steps of each job: those of run_main_loop's branch for a frame of   *)
(* the TNC, of ble_write_callback and spp_write_callback after kiss_feed,  *)
(* and of ble_connection_callback.                                         *)

\* Mutant: the frame is encoded before the log writes its text.
RxStepsEncodedFirst ==
  <<"read", "display", "lock", "unlock", "encode", "encodeTail", "text", "lock", "unlock",
    "offer", "copy", "copyTail", "copy", "copyTail", "init">>

RxSteps ==
  <<"read", "display",
    "lock", "unlock",                    \* logger_write_pcap
    "text", "lock", "unlock",            \* log_ax25_packet
    "encode", "encodeTail",
    "offer",                             \* handle_tnc_rx_data
    "copy", "copyTail",                  \* ... for the BLE client
    "copy", "copyTail",                  \* ... for the SPP client
    "init">>

\* Mutant: the packet is logged before it is sent.
TxStepsLoggedFirst ==
  <<"read", "encode", "encodeTail", "display", "lock", "unlock", "text", "lock", "unlock",
    "uart", "uartTail", "init">>

TxSteps ==
  <<"read", "encode", "encodeTail", "uart", "uartTail", "display",
    "lock", "unlock", "text", "lock", "unlock", "init">>

Steps == [tnc        |-> RxSteps,
          version    |-> <<"read", "lock", "unlock", "init">>,
          ble        |-> TxSteps,
          spp        |-> TxSteps,
          connect    |-> <<"lock", "unlock", "schedule">>,
          disconnect |-> <<"lock", "unlock", "forget">>]

Copy   == 2  \* the steps of one memcpy
Job    == DOMAIN Steps
Relays == [tnc |-> "tnc", version |-> "tnc", ble |-> "ble", spp |-> "spp"]

Idle == [job |-> "none", at |-> 0, frame |-> Junk]
Begin(job, frame) == [job |-> job, at |-> 1, frame |-> frame]

At(ctx) == IF pc[ctx] = Idle THEN "idle" ELSE Steps[pc[ctx].job][pc[ctx].at]

\* The main loop goes on when BTstack's callback has returned.
Runs(ctx) == ~faulted /\ (ctx = "main" => pc["stack"] = Idle)

Skip(ctx, n) ==
  LET at == pc[ctx].at + n
  IN  pc' = [pc EXCEPT ![ctx] = IF at > Len(Steps[@.job]) THEN Idle ELSE [@ EXCEPT !.at = at]]

Do(ctx, step) == Runs(ctx) /\ At(ctx) = step /\ Skip(ctx, 1)

\* From kiss_read to the last use of scratch, a context depends on what it shares.
Window(ctx) ==
  /\ pc[ctx] # Idle
  /\ \/ pc[ctx].job = "tnc" /\ At(ctx) \notin {"read", "init"}
     \/ pc[ctx].job \in {"ble", "spp"} /\ At(ctx) \in {"encode", "encodeTail", "uart", "uartTail"}

InWindow == {pc[ctx].frame : ctx \in {c \in Context : Window(c)}}

Nothing == [for |-> Junk, half |-> 0, is |-> Junk]
Empty   == [fed |-> 0, frame |-> Junk, body |-> <<Junk, Junk>>]

Init ==
  /\ parser = [p \in Parser |-> Empty]
  /\ kissFrame = [buffer |-> "null", head |-> Junk]
  /\ scratch = <<Junk, Junk>> /\ char_rx_value = <<Junk, Junk>>
  /\ queued = Junk /\ card = "free"
  /\ uart = <<Nothing, Nothing>>
  /\ sent = [for |-> Junk, head |-> Junk, tail |-> Junk]
  /\ pc = [ctx \in Context |-> Idle]
  /\ alarms = 0 /\ query = TRUE
  /\ begun = [sender \in Sender |-> 0] /\ events = 0
  /\ faulted = FALSE /\ hit = {}

---------------------------------------------------------------------------
(* Frames arrive.  The UART interrupt feeds tncKiss, the main loop bleKiss *)
(* and BTstack sppKiss; a write, or the bytes in one interrupt, may hold   *)
(* half a frame.                                                           *)

Feeds(p) ==
  CASE p = "tnc" -> TRUE
    [] p = "ble" -> pc["stack"] = Idle /\ pc["main"] = Idle
    [] p = "spp" -> pc["stack"] = Idle

More == begun["tnc"] + begun["ble"] + begun["spp"] + events < MaxEvents

FeedHead(p, kind) ==
  LET frame == Frame(p, begun[p] + 1, kind)
  IN  /\ ~faulted /\ Feeds(p) /\ parser[p].fed = 0 /\ More
      /\ begun' = [begun EXCEPT ![p] = @ + 1]
      /\ parser' = [parser EXCEPT ![p].fed = 1, ![p].frame = frame, ![p].body[1] = frame]
      /\ UNCHANGED <<kissFrame, scratch, char_rx_value, queued, card, uart, sent, pc, alarms,
                     query, events, faulted, hit>>

\* Mutant: the interrupt does not look at haveFrame.
FeedTailAlways(p) ==
  /\ ~faulted /\ Feeds(p) /\ parser[p].fed > 0
  /\ parser' = [parser EXCEPT ![p].fed = @ + 1, ![p].body[2] = parser[p].frame]
  /\ pc' = CASE p = "tnc" -> pc
             [] p = "ble" -> [pc EXCEPT !["main"] = Begin(p, parser[p].frame)]
             [] p = "spp" -> [pc EXCEPT !["stack"] = Begin(p, parser[p].frame)]
  /\ UNCHANGED <<kissFrame, scratch, char_rx_value, queued, card, uart, sent, alarms, query,
                 begun, events, faulted, hit>>

\* The byte that completes the frame: the callbacks go on with it at once.
FeedTail(p) ==
  /\ ~faulted /\ Feeds(p) /\ parser[p].fed = 1
  /\ parser' = [parser EXCEPT ![p].fed = 2, ![p].body[2] = parser[p].frame]
  /\ pc' = CASE p = "tnc" -> pc
             [] p = "ble" -> [pc EXCEPT !["main"] = Begin(p, parser[p].frame)]
             [] p = "spp" -> [pc EXCEPT !["stack"] = Begin(p, parser[p].frame)]
  /\ UNCHANGED <<kissFrame, scratch, char_rx_value, queued, card, uart, sent, alarms, query,
                 begun, events, faulted, hit>>

Arrive == \E p \in Parser : (\E kind \in Kinds[p] : FeedHead(p, kind)) \/ FeedTail(p)

---------------------------------------------------------------------------
(* Both contexts relay frames, with the same steps.                        *)

\* run_main_loop sees tncKiss.haveFrame.
CheckTnc ==
  LET frame == parser["tnc"].frame
  IN  /\ Runs("main") /\ pc["main"] = Idle /\ parser["tnc"].fed = 2
      /\ pc' = [pc EXCEPT !["main"] =
                  Begin(IF frame.kind = "version" THEN "version" ELSE "tnc", frame)]
      /\ UNCHANGED <<shared, sent, alarms, query, begun, events, faulted, hit>>

\* kiss_read: whoever depends on kissFrame at this moment is left with another frame.
Read(ctx) ==
  LET p == Relays[pc[ctx].job]
  IN  /\ Do(ctx, "read")
      /\ kissFrame' = [buffer |-> p, head |-> parser[p].frame]
      /\ hit' = hit \cup InWindow
      /\ UNCHANGED <<parser, scratch, char_rx_value, queued, card, uart, sent, alarms, query,
                     begun, events, faulted>>

\* The half of the payload that the header and the length of kissFrame fit.
Payload(half) ==
  LET piece == parser[kissFrame.buffer].body[half]
  IN  IF piece = kissFrame.head THEN piece ELSE Junk

\* kiss_encode, in two halves.
Encode(ctx) ==
  /\ \/ Do(ctx, "encode")     /\ scratch' = [scratch EXCEPT ![1] = Payload(1)]
     \/ Do(ctx, "encodeTail") /\ scratch' = [scratch EXCEPT ![2] = Payload(2)]
  /\ UNCHANGED <<parser, kissFrame, char_rx_value, queued, card, uart, sent, alarms, query,
                 begun, events, faulted, hit>>

\* add_alarm_in_ms: without a free alarm it fails, and nobody looks.
AddAlarm ==
  alarms' = IF alarms + begun["alarm"] < MaxAlarms THEN alarms + 1 ELSE alarms

\* display_aprs_packet_oled sets the alarm when it is shown a Test TX frame.
Display(ctx) ==
  /\ Do(ctx, "display")
  /\ IF Payload(1) = Payload(2) /\ Payload(1).kind = "test" THEN AddAlarm ELSE UNCHANGED alarms
  /\ UNCHANGED <<shared, sent, query, begun, events, faulted, hit>>

\* log_ax25_packet builds its line in scratch.
Text(ctx) ==
  /\ Do(ctx, "text")
  /\ scratch' = <<Junk, Junk>>
  /\ UNCHANGED <<parser, kissFrame, char_rx_value, queued, card, uart, sent, alarms, query,
                 begun, events, faulted, hit>>

\* f_sync, at the end of both functions of the logger, waits for the card's mutex.
Lock(ctx) ==
  /\ card = "free" /\ Do(ctx, "lock")
  /\ card' = ctx
  /\ UNCHANGED <<parser, kissFrame, scratch, char_rx_value, queued, uart, sent, alarms, query,
                 begun, events, faulted, hit>>

\* Mutant: the card is not released.
UnlockNot(ctx) ==
  /\ Do(ctx, "unlock")
  /\ UNCHANGED <<shared, sent, alarms, query, begun, events, faulted, hit>>

Unlock(ctx) ==
  /\ Do(ctx, "unlock")
  /\ card' = "free"
  /\ UNCHANGED <<parser, kissFrame, scratch, char_rx_value, queued, uart, sent, alarms, query,
                 begun, events, faulted, hit>>

\* uart_write_blocking, in two halves.
WriteUart(ctx) ==
  LET half == IF At(ctx) = "uart" THEN 1 ELSE 2
  IN  /\ Do(ctx, "uart") \/ Do(ctx, "uartTail")
      /\ uart' = <<uart[2], [for |-> pc[ctx].frame, half |-> half, is |-> scratch[half]]>>
      /\ UNCHANGED <<parser, kissFrame, scratch, char_rx_value, queued, card, sent, alarms, query,
                     begun, events, faulted, hit>>

\* kiss_init of the frame's own parser.
InitParser(ctx) ==
  /\ Do(ctx, "init")
  /\ parser' = [parser EXCEPT ![Relays[pc[ctx].job]].fed = 0]
  /\ UNCHANGED <<kissFrame, scratch, char_rx_value, queued, card, uart, sent, alarms, query,
                 begun, events, faulted, hit>>

Relay(ctx) ==
  \/ Read(ctx) \/ Encode(ctx) \/ Display(ctx) \/ Text(ctx) \/ Lock(ctx) \/ Unlock(ctx)
  \/ WriteUart(ctx) \/ InitParser(ctx)

---------------------------------------------------------------------------
(* handle_tnc_rx_data, as the main loop calls it.                          *)

Offer ==
  /\ Runs("main") /\ At("main") = "offer"
  /\ Skip("main", IF queued = Junk THEN 1 ELSE 1 + 2 * Copy)
  /\ UNCHANGED <<shared, sent, alarms, query, begun, events, faulted, hit>>

CopyHead ==
  /\ Do("main", "copy")
  /\ char_rx_value' = [char_rx_value EXCEPT ![1] = scratch[1]]
  /\ UNCHANGED <<parser, kissFrame, scratch, queued, card, uart, sent, alarms, query, begun,
                 events, faulted, hit>>

CopyTail ==
  /\ Do("main", "copyTail")
  /\ char_rx_value' = [char_rx_value EXCEPT ![2] = scratch[2]]
  /\ queued' = pc["main"].frame
  /\ UNCHANGED <<parser, kissFrame, scratch, card, uart, sent, alarms, query, begun, events,
                 faulted, hit>>

\* This client is not there.
NoClient ==
  /\ Runs("main") /\ At("main") = "copy"
  /\ Skip("main", Copy)
  /\ UNCHANGED <<shared, sent, alarms, query, begun, events, faulted, hit>>

Main == CheckTnc \/ Relay("main") \/ Offer \/ CopyHead \/ CopyTail \/ NoClient

---------------------------------------------------------------------------
(* BTstack's other callbacks.                                              *)

\* ble_connection_callback begins with a line in the log.
ConnectionEvent ==
  /\ ~faulted /\ pc["stack"] = Idle /\ More
  /\ events' = events + 1
  /\ \E job \in {"connect", "disconnect"} : pc' = [pc EXCEPT !["stack"] = Begin(job, Junk)]
  /\ UNCHANGED <<shared, sent, alarms, query, begun, faulted, hit>>

\* ... and a connection sets the alarm.
Schedule ==
  /\ Do("stack", "schedule")
  /\ AddAlarm
  /\ UNCHANGED <<shared, sent, query, begun, events, faulted, hit>>

\* ... and after a disconnection nothing waits to be sent any more.
Forget ==
  /\ Do("stack", "forget")
  /\ queued' = Junk
  /\ UNCHANGED <<parser, kissFrame, scratch, char_rx_value, card, uart, sent, alarms, query, begun,
                 events, faulted, hit>>

\* A packet goes out, and char_rx_value_len is cleared.
SendToClient ==
  /\ ~faulted /\ pc["stack"] = Idle /\ queued # Junk
  /\ sent' = [for |-> queued, head |-> char_rx_value[1], tail |-> char_rx_value[2]]
  /\ queued' = Junk
  /\ UNCHANGED <<parser, kissFrame, scratch, char_rx_value, card, uart, pc, alarms, query, begun,
                 events, faulted, hit>>

Stack == Relay("stack") \/ ConnectionEvent \/ Schedule \/ Forget \/ SendToClient

---------------------------------------------------------------------------
(* The alarms.                                                             *)

\* init_tnc may come between the halves of a frame on the UART.
QueryTnc ==
  /\ ~faulted /\ query
  /\ query' = FALSE
  /\ uart' = <<uart[2], [for |-> Query, half |-> 0, is |-> Query]>>
  /\ hit' = hit \cup {pc[ctx].frame : ctx \in {c \in Context : At(c) = "uartTail"}}
  /\ UNCHANGED <<parser, kissFrame, scratch, char_rx_value, queued, card, sent, pc, alarms,
                 begun, events, faulted>>

\* handle_tnc_rx_data with nothing in between; a client is there or not.
OfferAtOnce(frame, pieces) ==
  \/ /\ queued = Junk
     /\ queued' = frame /\ char_rx_value' = pieces
  \/ UNCHANGED <<queued, char_rx_value>>

\* A frame is in the parser, and no context has taken it to its window yet.
Waiting(p) ==
  /\ parser[p].fed > 0
  /\ \A ctx \in Context : pc[ctx].frame = parser[p].frame => At(ctx) = "read"

\* The frames that a status frame written now disturbs, itself among them.
Disturbed(frame) ==
  InWindow
    \cup {parser[p].frame : p \in {q \in Parser \cap {kissFrame.buffer} : Waiting(q)}}
    \cup (IF At("main") \in {"copy", "copyTail"} THEN {frame} ELSE {})

\* send_our_info_to_bt writes the status through kissFrame.buffer, into the
\* parser of the last frame read.  Before the first frame that is a null
\* pointer, at which this processor has its read-only boot code: it stops, or
\* the store has no effect and what is encoded is the code.
SendOurInfo ==
  LET frame  == Frame("alarm", begun["alarm"] + 1, "status")
      null   == kissFrame.buffer = "null"
      pieces == IF null THEN <<Junk, Junk>> ELSE <<frame, frame>>
  IN  /\ ~faulted /\ alarms > 0
      /\ alarms' = alarms - 1
      /\ begun' = [begun EXCEPT !["alarm"] = @ + 1]
      /\ \/ /\ null /\ faulted' = TRUE
            /\ UNCHANGED <<parser, kissFrame, scratch, queued, char_rx_value, hit>>
         \/ /\ UNCHANGED faulted
            /\ parser' = IF null THEN parser ELSE [parser EXCEPT ![kissFrame.buffer].body = pieces]
            /\ kissFrame' = [kissFrame EXCEPT !.head = frame]
            /\ scratch' = pieces
            /\ OfferAtOnce(frame, pieces)
            /\ hit' = hit \cup Disturbed(frame) \cup (IF null THEN {frame} ELSE {})
      /\ UNCHANGED <<card, uart, sent, pc, query, events>>

Alarm == QueryTnc \/ SendOurInfo

Next == Arrive \/ Main \/ Stack \/ Alarm

Spec == Init /\ [][Next]_vars

\* One processor, which does not stand still: BTstack's context goes on with what it
\* began, and the main loop when BTstack has nothing to do.
FairSpec == Spec /\ WF_vars(Main \/ Relay("stack") \/ Schedule \/ Forget)

---------------------------------------------------------------------------

\* The frames begun so far, and what else half a buffer may hold.
Own(p) == [from: {p}, n: 1..begun[p], kind: Kinds[p]]

Piece == {Junk, Query} \cup [from: {"alarm"}, n: 1..begun["alarm"], kind: {"status"}]
           \cup UNION {Own(p) : p \in Parser}

Written == [for: Piece, half: 0..2, is: Piece]

TypeOK ==
  /\ parser \in [Parser -> [fed: 0..2, frame: Piece, body: Piece \X Piece]]
  /\ kissFrame \in [buffer: Parser \cup {"null"}, head: Piece]
  /\ scratch \in Piece \X Piece /\ char_rx_value \in Piece \X Piece
  /\ queued \in Piece /\ card \in {"free"} \cup Context
  /\ uart \in Written \X Written
  /\ sent \in [for: Piece, head: Piece, tail: Piece]
  /\ pc \in [Context -> [job: Job \cup {"none"}, at: Nat, frame: Piece]]
  /\ \A ctx \in Context :
       pc[ctx] = Idle \/ (pc[ctx].job \in Job /\ pc[ctx].at \in DOMAIN Steps[pc[ctx].job])
  /\ alarms \in Nat /\ query \in BOOLEAN
  /\ begun \in [Sender -> Nat] /\ alarms + begun["alarm"] <= MaxAlarms
  /\ events \in 0..MaxEvents /\ faulted \in BOOLEAN /\ hit \subseteq Piece

\* What goes to the TNC of a frame that nobody came across between kiss_read
\* and the end of uart_write_blocking, or while it was half fed, is that
\* frame, and its second half follows its first at once: whatever
\* preempts the main loop at any other point does no harm.
ToTncWhole ==
  uart[2].for \notin hit =>
    /\ uart[2].is = uart[2].for
    /\ uart[2].half = 2 => uart[1].for = uart[2].for /\ uart[1].half = 1

\* A packet for the clients is the frame for which the length was set, the
\* TNC's or the alarm's, unless another context came across it: scratch and
\* char_rx_value may be shared as long as the windows do not meet.
ToClientsWhole == sent.for \notin hit => sent.head = sent.for /\ sent.tail = sent.for

\* BTstack's context waits for the card, and the main loop it has preempted
\* has it; or the alarm's store through a null pointer was fatal.
Stuck == faulted \/ (At("stack") = "lock" /\ card = "main")

\* A frame that the main loop has begun with is finished, whoever preempts it: there are two
\* ways for it to hang, the alarm before the first frame, and BTstack's log (a
\* connection, an SPP frame) during its own.
FrameIsFinished == pc["main"] # Idle ~> pc["main"] = Idle \/ Stuck
==========================================================================
