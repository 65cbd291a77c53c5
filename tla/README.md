# NinoBLE: TLA+ specifications

NinoBLE is the firmware of a Raspberry Pi Pico W board that sits between a
NinoTNC (a packet-radio modem that speaks KISS over a UART) and the phone or
computer of a radio operator (Bluetooth LE, Bluetooth Classic SPP, or USB).  It
is a small program in which nearly everything happens in several contexts that
share state without locks: a UART interrupt, the main loop, BTstack's callbacks,
timer alarms, and in passthru mode a second core.  The modules here model those
contexts, TLC checks them on small instances, and TLAPS proves the central
results for every value of the constants.

Paths are relative to `src/firmware/` unless they begin with `src/`.

1. [The system](#1-the-system)
2. [The modules](#2-the-modules)
3. [The runs](#3-the-runs)
4. [The proofs](#4-the-proofs)
5. [Findings](#5-findings)
6. [What is not modelled](#6-what-is-not-modelled)
7. [Plan](#7-plan)

## 1. The system

### Contexts

| Context | Code | Preempts |
|---|---|---|
| main loop | `run_main_loop`, main_aprs.c | - |
| BTstack | `packet_handler`, `att_*_callback` (bt.c), `spp_write_callback` (main_aprs.c), run by the CYW43 background interrupt | main loop |
| alarm | `send_our_info_to_bt`, main_aprs.c:110, 500 ms after a client configures notifications or the Test TX button's frame is shown | main loop, BTstack |
| UART interrupt | `on_uart_rx`, or `passthru_uart_irq` in passthru mode | main loop |
| core 1 (passthru mode only) | `passthru_usb_entry` | runs in parallel with core 0 |

### Components

**KISS codec** (kiss.c).  *State*: one `KissState` per source (`tncKiss`,
`bleKiss`, `sppKiss`): a 400-byte buffer with its position, `inFrame`, `sawFend`,
`inEscape`, `haveFrame`, the time of the last byte.  *Operations*: `kiss_init`,
`kiss_feed`, `kiss_read`, `kiss_encode`.  `kiss_read` copies nothing: `KissFrame`
points into the parser.  *Hard*: the parser can be let in at any byte and must
find the frame boundaries again; a silence of more than 3000 ms discards what is
half heard, on a clock that wraps; `pos` is never compared with the buffer size, and
lies right behind the buffer.
*Correct when* a frame is complete exactly at `FEND data FEND`, unescaping is
exact, what `kiss_encode` writes is what the next parser reads, and the buffer
is never overrun by frames the TNC may send.

**TNC receive path** (`on_uart_rx` and the main loop's `haveFrame` branch in
main_aprs.c, the same in main_sniffer.c).  *State*: `tncKiss`, the
clock `async_now_ms` written by the main loop and read by the interrupt,
`kissFrame`, `n9600_present`.  *Interaction*: the flag `haveFrame` is the only
synchronisation: while it is set the interrupt drops every byte.  *Hard*: bytes
are dropped in the middle of frames, so parsing resumes anywhere; `kiss_init`
runs in the loop while the interrupt may preempt it between two stores; the frame
is used through a pointer into the parser.  *Correct when* each frame handled is
one the TNC sent, whole, once and in order, a frame all of whose bytes were taken
is not lost, and every complete frame is handled and lets the interrupt in again.

**Bluetooth, TNC to client** (bt.c).  *State*: the buffer `char_rx_value` with
`char_rx_value_len`, `char_rx_value_sending`, `con_handle`,
`char_rx_client_configuration`, `rfcomm_channel_id`.  *Operations*:
`handle_tnc_rx_data` (main loop and alarm) queues a frame and requests a moment
to send; the events `ATT_EVENT_CAN_SEND_NOW`, `RFCOMM_EVENT_CAN_SEND_NOW`,
`HCI_EVENT_TRANSPORT_PACKET_SENT`, `HCI_EVENT_DISCONNECTION_COMPLETE` and the
RFCOMM channel events send it or free the buffer.  *Hard*: one buffer for two
links; the callbacks come between any two statements of `handle_tnc_rx_data`;
events that do not say what they are about; clients that come and go.  *Correct
when* a packet to a client is of one frame, never parts of two, in order and not twice,
it is the whole frame if that has fewer than 256 bytes encoded, and a queued frame that
blocks the next is really under way.

**Bluetooth, client to TNC** (`att_write_callback`, `ble_has_tx_data`,
`handle_ble_tx_data` in bt.c; `ble_write_callback`, `spp_write_callback` in
main_aprs.c).  *State*: the mailbox `char_tx_value` with `char_tx_value_len`,
`bleKiss`, `sppKiss`, and, shared with the receive path, `kissFrame`, `scratch`,
`packet` and the UART.  *Hard*: a BLE write that finds the mailbox full is
dropped, and a frame longer than one write is then joined from the wrong parts;
`spp_write_callback` runs in BTstack's context and uses the same `kissFrame` and
`scratch` as the main loop it preempts; parser, mailbox and `scratch` have 400 bytes
each, which nothing checks, and a dropped write joins frames to longer ones.  *Correct
when* what goes to the UART is whole frames a client sent, and a buffer is overrun by joined
frames only.

**Alarm** (`send_our_info_to_bt`).  Writes a status frame *through
`kissFrame.buffer`*, that is into the parser of the last frame read, encodes it
into `scratch` and calls `handle_tnc_rx_data`.  *Correct when* it disturbs no
frame another context is working on.

**Passthru mode** (passthru/passthru.c).  *State*: two buffers with positions,
each under a critical section, the UART's register and the USB device's FIFOs.
*Operations*: `passthru_uart_irq` and `passthru_uart_loop` on core 0,
`passthru_usb_read` and `passthru_usb_write` on core 1.  *Hard*: two cores and an
interrupt on two locks; positions tested outside the lock and used inside;
partial writes; full buffers.  *Correct when* no byte is lost, doubled or
reordered towards the TNC, none that the UART took is lost towards the
computer, and neither direction stops the other for good.

**Logger** (logger.c).  *State*: `latest_log`, the open files, and on the card
`/data/latest` and the numbered logs.  *Operations*: `logger_init`,
`roll_log_file`, `logger_write_*`.  *Hard*: power lost between truncating
`latest` and writing it; a failure of one of several opens.  *Correct when*
nothing logged is overwritten, no log mixes two starts, and each start finds a
number that no log has.

**What they share.**  `kissFrame`, `scratch`, the UART to the TNC, `char_rx_value` and
the mutex of the SD card are used by the main loop, BTstack's context and the
alarms.  *Hard*: BTstack's context preempts the main loop between any two
statements of a branch of several calls, an alarm preempts both, and only the SD
driver has a lock.  *Correct when* a frame goes out whole unless it was
overtaken at one of the points known to be unsafe, and no context waits for
another for ever.

**USB shell** (shell.c).  *State*: `cmd_buffer`, `cmd_pos`.  *Operations*:
`shell_feed` per byte typed, `shell_complete` per line.  *Hard*: `cmd_buffer` has ten
bytes with `cmd_pos` behind them, which nothing checks.  *Correct when* a line that fits runs
the command it names, and what was typed before takes no room from it.

**Status LED** (blink.h).  *State*: the pulses to come, `next_pulse_ms`, `led_state`.
*Operations*: `blink_morse` from four places of the main loop, `check_led_state` once a pass.
*Hard*: passes of any length, letters that cut one another off, a clock that
wraps.  *Correct when* a letter is shown from its beginning with no pulse
shortened, and the LED does not stay on.

**AX.25 and APRS decoding** (ax25.c, aprs.c) and **OLED** (oled.c).  Pure functions on a
frame's bytes, and what `display_aprs_packet_oled` makes of them; it also
remembers that the operator sent a beacon, and answers a Test TX with the alarm.  *Correct when*
what is shown is what the frame says.

**Flash configuration** (pconfig.c), read once; **start and mode selection** (`main`),
a choice made once; FatFs, the SD driver, BTstack and the Pico SDK, external.

### Hazards

`PROJECT.json` lists every hazard at its line with the properties that would
catch it.  Four have no property and carry a note: what follows has no outcome a model
could give it (a payload of length 65535), or the code does what it does and nothing says it
should not (a header that is not escaped, a packet cut modulo 256, a subscription lost with
the other client's connection).

## 2. The modules

| Module | Models | Kind |
|---|---|---|
| `Kiss` | kiss.c as operators on a parser record | operators, no state |
| `KissCodec` | one parser fed with any bytes and silences | system |
| `LossyFrames` | what one direction of the bridge promises | abstract specification |
| `TncRx` | TNC, UART interrupt, main loop | system, EXTENDS `Kiss`, implements `LossyFrames` |
| `BtLink` | bt.c towards the clients: main loop, BTstack, alarm | system |
| `Passthru` | both cores, the interrupt, the FIFOs and both ends | system, its TNC-to-host direction implements `LossyFrames` |
| `BleTx` | BLE client, BTstack's write callback, main loop, `bleKiss` | system, EXTENDS `Kiss`; with one write a frame it implements `LossyFrames` |
| `Logger` | logger.c and the card across restarts | system |
| `Bridge` | main loop, BTstack's context and alarms on what they share | system |
| `Led` | blink.h as operators on an LED record | operators, no state |
| `Shell` | shell.c as operators on the line buffer | operators, no state |
| `Ax25` | ax25.c, and the status frame and data type of aprs.c | operators, no state |
| `FrontPanel` | the passes of the main loop with LED, display and USB port | system, EXTENDS `Led`, `Shell`, `Ax25` |
| `KissProofs` | what a parser holds while a frame is fed to it, and what escaping does to a sequence | lemmas |
| `KissCodecProofs` | the theorems about `KissCodec` | theorems |
| `TncRxProofs` | the theorems about `TncRx` | theorems |
| `BleTxProofs` | the theorems about `BleTx` | theorems |
| `PassthruProofs` | the theorems about `Passthru` | theorems |
| `BtLinkProofs` | the theorems about `BtLink` | theorems |
| `PeripheralProofs` | the theorems about `Logger` and `FrontPanel` | theorems |
| `BridgeProofs` | the theorems about `Bridge` | theorems |
| `MC*` | values of the constants for TLC | |

An operator between "Mutant:" comments is a plausible mistake in the definition
that follows it.  No specification uses it; it documents which property would
notice that mistake.

**Kiss.**  Bytes are numbers; the array `buffer[400]` and its index `pos` are one
sequence.  `kiss_feed` is `Refresh` (the timeout, kiss.c:17), then `FeedFend` or
`FeedData`.  The silence is an unsigned difference, `% ClockRange`.  An escape
survives any byte but TFEND and TFESC, as in the code.  `kiss_encode` escapes the
payload and not the header byte, as in the code.

**TncRx.**  One step of `Tnc` is one byte on the wire and one round of the loop in
`on_uart_rx`.  The steps of the main loop are the points between which the
interrupt may come: the clock (`LoopTop`), the test of `haveFrame` with
`kiss_read` (`CheckFrame`), the use of the frame (`HandleFrame`), and the stores
of `kiss_init` in two groups (`InitFields`, `InitHaveFrame`).  The grouping takes
the order of the source (kiss.c:7-12), `haveFrame` last of the flags; `tncKiss` is not
volatile, and a compiler that moved that store up would leave the model.
`last_feed_ms` comes after `haveFrame` in the source and with it in the model: an
interrupt between the two finds an empty parser, which a timeout leaves empty, and stores the
same clock.  Single-step feeding of a byte is justified because the main loop
cannot run inside the interrupt.  The TNC's pauses are not steps: what the parser
sees of time is `async_now_ms`, and `LoopTop` may move it anywhere.  The alarm that writes
through `kissFrame.buffer` into this parser (main_aprs.c:131) is left to `Bridge`: what
`TncRx` shows of a waiting frame it shows of the interrupt and the loop alone.  `heard` and
`opened` are ghosts that say whether the parser took every byte of the frame
being sent; `origin` numbers the last completed frame.

**BtLink.**  `handle_tnc_rx_data` is five steps (`HandOver`, then per link
`TestAttached`, `CopyHead`, `CopyTail`, `Request`): `memcpy` is split in two
halves so that a callback can meet a half-copied frame.  The alarm preempts
everything and so makes the same call in one step (`SendOurInfo`).  Each BTstack
callback is one step; an alarm inside a callback is not modelled.  A buffer's
content is the pair of frame numbers its halves come from.  `len` is a `uint8_t`
(bt.c:312) while both callers pass a `uint16_t`, hence `CutLen`.  BTstack is
external and modelled by how bt.c uses it: a request for a can-send-now event is
kept as a set, an event comes when the single outgoing buffer is free, and
`TransportPacketSent` follows every packet, also BTstack's own.  The RFCOMM event
sends without a look at the length, so it may send an empty packet; `sent` leaves
those out.

**Passthru.**  A buffer and its position are one sequence.  `passthru_uart_loop`
runs only when no byte is pending (`LoopRuns`), unless its critical section has the
interrupt disabled.  `passthru_usb_write` reads from the buffer inside its lock
(`UsbWrite`) and moves the rest down (`UsbFixup`).  The UART holds one byte,
because `main` turns the FIFO off in this mode (main_aprs.c:672), and loses a byte
that finds it full.

**BleTx.**  The client is external: it encodes a frame as KISS and writes it in
pieces of one size, the last shorter, and may leave after any of them.  A write is
one step, because BTstack's callback is not interrupted by the main loop;
`att_write_callback` drops it or copies it (`Copied` keeps what `memcpy` does not
reach).  The main loop is cut where the callback may come: the clock (`LoopTop`), the
test with the length that `handle_ble_tx_data` passes on by value (`CheckBle`), each byte
(`FeedByte`), a complete frame with `kiss_read`, `kiss_encode`, the write to the UART and
`kiss_init` (`Forward`), and the store that frees the mailbox (`FreeMailbox`).  `slot` is a
ghost: it says which bytes of which frame the mailbox holds; `got`, `lost` and
`stale` say which frames were accepted, missed or cut by the timeout in part.  The display
and the log of the frame are left out, but for the size of what the log puts into `scratch`.
The parser, `scratch` and the mailbox have `BUFFER_SIZE` bytes.  A byte stored behind one of
the first two (`FeedBeyond`, `ForwardBeyond`) sets `overrun` and ends the behaviour with nothing
else changed: in the parser that byte is `pos` (kiss.h:40), and what the program
does from there on is undefined.  Up to that byte every step is the code's.  Writes longer than the
mailbox (bt.c:264) are left out: BTstack's MTU bounds them.

**Logger.**  FatFs is external: each call may fail, a file created and not yet flushed by
an `f_sync` may be gone after a power loss, and `/data/latest` is empty from
`FA_CREATE_ALWAYS` until `f_close`.  A log is what starts wrote to it, `lines` the pairs
of file and start.  `PowerLoss` may follow any step; it is the only way a start ends,
because `run_main_loop` never leaves its loop.  The names that every module has begin with `Card`
(`CardInit`, `CardNext`, `CardSpec`, `CardTypeOK`), because `PeripheralProofs` extends `FrontPanel` as well.

**Bridge.**  The other modules take one path each at the granularity of bytes; `Bridge`
puts the paths together and takes a frame as two halves.  `Steps` is the sequence of calls
of each job (the branch for a frame of the TNC, `ble_write_callback`,
`spp_write_callback`, `ble_connection_callback`); the main loop goes on only when BTstack's context
has returned, and an alarm runs in one step between any two others.  What a context reads it reads
as it then is: `Payload` follows `kissFrame.buffer` into the parser and fits what is
there to the header and the length, `log_ax25_packet` overwrites `scratch` with
its text, `send_our_info_to_bt` writes through `kissFrame.buffer` into whichever parser
that is, and through a null pointer before the first frame.  `Lock` and `Unlock` stand for the
mutex the SD driver takes in `f_sync`, one pair for each call of the logger; the driver's
mutex is not recursive (`sd_lock`, sd_card.c:47).  Left out: `n9600_present` and its text,
the global `packet` (written and read with `kissFrame`), the contents of the files, a card that
is not there (no mutex is taken then), and the locks of the SDK's heap and of `printf`.  `uart` keeps the last two halves
written, `sent` the last packet; the parsers of kiss.c and when `char_rx_value` is
freed are the matter of `TncRx`, `BleTx` and `BtLink`, and a timeout between two
halves of a frame is left out.  `hit` is a ghost: the frames whose window (from `kiss_read` to the last use of `scratch`, or half
fed while `kissFrame` points there) another context came into.

**FrontPanel.**  A pass of the main loop is four steps: the clock with the refresh or
`check_led_state` (`Top`), a frame from the TNC, one from a BLE client, and the
bytes typed (`Typing`, `EndPass`).  A behaviour has one *scene*: the frames, typed lines and
durations of passes it may meet, so that the three parts, which share only the loop, are not
multiplied with one another.  `Check` inside a refresh is the same call as outside.  Frames
are records of what they mean; `Bytes` makes the bytes a station would send, with the
reserved bits set that the code must not take for a part of the SSID, and `Shown` reads them
back with the operators of `Ax25`.  `lit` is a ghost: how long the LED was on and off, in turn.
A byte is a one-letter string or one of `SP`, `CR`, `LF`; a mask and a shift of the code is
`Bits`.  A frame has at most three digipeaters (`Sendable`), as many as `AX25Packet` has room
for (ax25.h:56), and a call sign has no space or null character within.
`cmd_buffer` has `CMD_BUFFER_SIZE` bytes: the next one, which would be stored on `cmd_pos`
(shell.c:37), ends the behaviour (`TypeBeyond`, `pc` is `overrun`).
The second half of `shell_feed` is unreachable, because the caller initialises the shell after each
command.  Positions, times and distances (text and floating point), the PIN that
`spp_pin_callback` shows, and `blink`, which has no caller, are left out.

**LossyFrames.**  Frames go in; some come out, each unchanged, once, and never
overtaken by an older one.  `TncRx` refines it with its `delivered`, `Passthru`
byte by byte, and `BleTxProofs` shows that `BleTx` does with its `toTnc` for a client whose frames fit in one write each: with
longer frames it does not, which is the finding of `ble_joined_frame`.

## 3. The runs

| Run | Question | Properties | States | Time |
|---|---|---|---|---|
| `kiss_codec` | Does the parser agree with a reference that sees the whole stream? | `FrameIffDelimited`, `UnescapesTheSegment`, `RelayRoundTrip` | 199,228 | 8 s |
| `tnc_rx` | Does the interrupt/loop protocol deliver only sent frames, and all that were heard? | `OnlySentFrames`, `BufferBound`, `HeardIsComplete`, `CompletedIsHandled`, `ImplementsLossyFrames` | 140,712 | 25 s |
| `bt_link` | Are the clients sent unmixed frames, once, with no frame stuck? | `SentUnmixed`, `AtMostOnce`, `InFlightWhileAttached`, `BufferIsFreed` | 264,603 | 40 s |
| `passthru` | Do two cores and an interrupt keep every byte in its place? | `ToTncExact`, `KeptInOrder`, `ImplementsLossyBytes`, `HostByteArrives`, `TncByteArrives` | 33,680 | 70 s |
| `ble_tx` | Does a frame written in pieces reach the TNC whole, how far does a dropped piece reach, and what overruns a buffer? | `UnharmedIsExact`, `UnharmedIsForwarded`, `OncePerFrame`, `OverrunIsJoined`, `MailboxIsFreed` | 802,017 | 110 s |
| `logger` | Do restarts, power losses and failures leave every log as it was? | `OneStartPerNumber`, `NumberIsFresh`, `LogsKept` | 827,891 | 15 s |
| `bridge` | What may preempt what without harm, and can the loop hang? | `ToTncWhole`, `ToClientsWhole`, `FrameIsFinished` | 571,406 | 130 s |
| `front_panel` | Do LED, display and USB port say and do what was meant? | `PulsesSpellTheLetter`, `ShownIsSent`, `CommandIsTyped`, `LedGoesOff` | 297,948 | 35 s |
| `bt_queued_not_in_flight` | Is a frame that blocks the next in flight, as bt.c:314 says? | `QueuedIsInFlight` (violated) | | |
| `bt_cleared_before_sent` | Is the length kept until the packet is sent, as bt.c:143 says? | `ClearedWhenSent` (violated) | | |
| `ble_joined_frame` | Is what goes to the TNC a frame of the client, as main_aprs.c:342 says? | `OnlyClientFrames` (violated) | | |
| `logger_name_taken` | Does each start find a name for a new log, as src/README.md:50 says? | `EachStartNewLog` (violated) | | |

Every passing run checks its module's `TypeOK` too.  `CHECK_DEADLOCK FALSE` stands
in every cfg: each environment sends a bounded number of frames or bytes, after
which the system may rest, and a behaviour of `front_panel` ends with an overrun.

**Bounds.**

- `KissCodec`: the input is the four control bytes and two header bytes (port 0 and
  the TNC's own 0xE0); the code treats all other bytes alike.  Six bytes between resets
  are enough for a missed start, a run of FENDs, an escape and its end, and the
  closing FEND.  With a timeout of 1 and a clock of 4 values the gaps
  are none, the longest tolerated, the shortest that resets and the longest the
  clock can tell, and the clock wraps.
- `TncRx`: three frames (one being handled, one of which bytes are dropped, one on
  which the parser must be in step again), of four contents: plain data, a payload
  with both escapes, a header that is itself escaped, the TNC's own version frame.
  The buffer is as long as the longest frame, so one byte too many is an overrun.
  The clock has three values and the timeout is 1: the elapsed time can be
  tolerated, too long, or have wrapped.
- `BtLink`: two frames, one in the buffer and one to be refused, mixed with it or
  overtaken by it; lengths 40 and 256, the first a `uint8_t` cannot hold; one alarm pending.  The invariants were
  also run once with three frames (5.2 million states), beyond the time of a run.
- `Passthru`: three bytes in each direction, buffers of two and FIFOs of one, so
  that every queue is full, partly written and empty.
- `BleTx`: three frames, one torn, the one it may harm, and one on which the parser must be
  in step again, of two contents, one with an escape.  Encoded both are five bytes, and a
  write carries two or five: a frame in one write, cut behind the FESC, and cut between the
  payload and the closing FEND.  Parser and `scratch` have six bytes, of which the log needs four
  beside the payload: each frame fits everywhere, two joined ones overrun `scratch`, by their
  encoding alone or by the log too, and three the parser.  The clock is as in `TncRx`.
- `Logger`: five starts.  Numbers can collide from the fourth on: two to
  create log 0 and log 1, one that loses `latest`, and one that begins again at 1.

- `Bridge`: three frames begun or connection events, in any mixture, and one alarm: two contexts in
  their windows at once and a third frame that meets what they left.  The TNC
  sends a Test TX frame or its version, the clients plain frames.  A larger
  instance (two alarms, or four events) is beyond the time of a run.
- `FrontPanel`: a dot of 1, a pause of 2, a dash of 3, in a clock of 16 values that
  wraps; refreshes after 9 and 11; passes of 1 and 3, shorter and longer than a dot, from
  every start of the clock.  Frames with none, one and two digipeaters, five control
  fields, two protocols, three data types, and the Test TX frame with one field
  changed; call signs of two characters.  Lines of up to three bytes of two letters, space
  and CR, and SAVE, CONFIG, HELP and ? in full, with spaces before or behind.  `cmd_buffer`
  has seven bytes: CONFIG and its CR fill it, and CONFIGS, or CONFIG after a blank line, is too long.

**Fairness.**

- `TncRx`: `WF(Main)`.  The main loop never blocks, and the interrupt returns after
  a bounded number of bytes.  Nothing is assumed of the TNC.
- `BtLink`: weak fairness of the main loop's steps inside the call and of
  `TransportPacketSent` (the controller takes every packet); strong fairness of
  the two can-send-now events, because the outgoing buffer is taken and freed all the time
  and BTstack serves requests in turn.  Clients owe nothing.
- `BleTx`: `WF(Main)`: the callbacks return and the UART takes its bytes.  The client owes
  nothing.
- `Bridge`: one weak fairness for the processor: it runs BTstack's context, or, when that has
  nothing to do, the main loop.  Each context may wait for the card only.
- `FrontPanel`: `WF(Main)`: the loop goes round, and the operator types slower than it
  reads.  The assumption that a pass is shorter than what the clock has left after a refresh
  period (49 days in the code) is in `FrontPanelAssumption`.
- `Logger`: none; it has safety properties only.
- `Passthru`: both cores run (`WF`).  A core that waits for a critical section polls
  it, and the other releases it between any two uses, hence `SF` of the steps that
  enter one.  `LoopCheck` and `LoopEnter` are `SF` because interrupts come and go.  The host
  reads what it is sent; without that, nothing could be promised of a full FIFO.

**Exclusions in the properties.**  `SentUnmixed`, `AtMostOnce`, `InFlightWhileAttached`
and `ClearedWhenSent` say nothing once an alarm has run inside the main loop's call (`overlap`):
the code has no protection against it, and nothing in the repository claims any.
`SentUnmixed` takes a packet for what it is, its frame's length modulo 256.  The properties of
`BleTx` and `CommandIsTyped` end with the first byte stored behind a buffer; which bytes these
are is a property too (`OverrunIsJoined`, and the second part of `CommandIsTyped`).
`AtMostOnce` is about a single kind of client, and `InFlightWhileAttached` about clients that have not
left.  `ToTncWhole` and `ToClientsWhole` leave out frames in `hit`, the ones another context came across inside
their window, and `FrameIsFinished` names the two ways to hang (`Stuck`); each part of `hit` is needed, as
dropping any one gives a counterexample.  `PulsesSpellTheLetter` leaves out the letter
during which the clock wraps, and `CommandIsTyped` blank lines and the line after one.
`RelayRoundTrip` leaves out a frame with no header byte (`kiss_read` gives it the
length 65535) and a header that would need an escape (`kiss_encode` does not write
one).

## 4. The proofs

Of the properties that the passing runs check, TLAPS proves every invariant, the
refinements and the action properties; liveness is what it leaves to TLC.

### The codec

`KissCodecProofs` proves, for every alphabet, timeout and clock, and for streams of any
length up to `MaxBytes`:

| Theorem | States |
|---|---|
| `TypeCorrect` | `Spec => []TypeOK` |
| `Delimited` | `Spec => []FrameIffDelimited` |
| `Unescaped` | `Spec => []UnescapesTheSegment` |
| `RoundTrip` | `Spec => []RelayRoundTrip` |

*Assumptions*: `ClockAssumption`, and that the bytes between two resets are at most
2^16 (`MaxBytes`): `kiss_read` gives the length of a longer payload modulo 2^16, and
`RelayRoundTrip` would not hold of it.  The parser's own buffer has 400 bytes.

*Sequences of any length.*  `kiss_encode` and the reference of the run are folds over a
sequence.  What a fold computes is proved by induction, which needs a detour, because the provers cannot
instantiate the library's induction theorems.  `LeastNumber` is the well-foundedness of `<`,
stated for a set of numbers; from it follow `Induction` and `SeqInduction`, which say
that a set of sequences that has the empty one, and with each also the longer ones, has
all.  A fold is a `CHOOSE` over functions, so `FoldExists` shows by the same induction that there is one
to choose, and `EscapeAllAppend` and `EscapeAllEmpty` are then the recursive equations of
escaping.  Everything else about it rests on those two: its result is bytes (`EscapeAllType`), with no FEND
among them (`NoFend`) and every FESC followed by TFEND or TFESC (`EscapesArePairs`); and the theorem
`EscapingIsOneToOne` of `KissProofs`: no two payloads have the same escaping.

*The inductive invariant.*  `StreamInv` says what a parser knows of all the bytes since the last
reset.  Without a complete frame (`OpenInv`): whether there was a FEND, whether the last byte
was one, and, between them, that the bytes since the last FEND are the escaping of the
buffer, with a FESC behind it if one is pending (`Holds`), as long as they are
an escaping of anything (`Escaping`).  With one (`ClosedInv`): the stream ends with the frame that
the buffer holds.  `LengthInv` bounds the buffer by the stream.  `FendInv` and `DataInv`
are the steps for the two kinds of byte.

`RoundTrip` is about a second parser, `Decode`, a fold of `kiss_feed`: `DecodePayload` shows by
induction over the payload that it is still inside the frame and holds what was encoded, hence it
is complete at the closing FEND and not before.

### The receive path

`TncRxProofs` proves, for every set of frames, number of frames, buffer size,
timeout and clock:

| Theorem | States |
|---|---|
| `TypeCorrect` | `Spec => []TypeOK` |
| `Integrity` | `Spec => []OnlySentFrames` |
| `NoOverrun` | `Spec => []BufferBound` |
| `NoSilentLoss` | `Spec => []HeardIsComplete` |
| `Refinement` | `Spec => ImplementsLossyFrames` |

*Assumptions*: `ClockAssumption` (the timeout is below the clock's range) and
`ContentsAssumption` (a frame is a sequence of 1 to `KISS_BUFFER_SIZE` bytes, and that
size fits 16 bits; the number of frames is a natural number).  The alarm is left out, as in
the model.

*The inductive invariant.*  None of the properties is inductive: that a handled
frame is one the TNC sent depends on what the parser holds while it is fed.
`IInv` is the conjunction of

- `TypeOK`;
- `SenderInv`: how far the TNC is in its frame;
- `ParserInv`: a parser that is inside a delimited frame holds exactly the bytes of
  the current frame sent so far, with the pending escape, or it has no opening
  FEND and will discard what it holds at the next one; either way at most as many bytes as
  the TNC has sent of the frame;
- `CompleteInv`: a complete frame in the parser is frame `origin`, and is newer than
  everything delivered;
- `DeliveredInv`: the delivered frames are frames sent, with rising numbers;
- `HeardInv`: a frame all of whose bytes were taken is held from its opening FEND.

`KissProofs` has the lemmas under it: each kind of byte (plain, FESC, TFEND or TFESC,
opening and closing FEND) takes a parser that tracks a frame to one that tracks it
one byte further, whether or not the timeout strikes first.  `StepInv` has one lemma per
action, and `InitInv`, `StepInv` and PTL give `Invariance`; the properties follow from it.
`Refinement` maps each step: beginning a frame is `Send`, `HandleFrame` is `Deliver`,
all others stutter.

### From the BLE client

`BleTxProofs` proves, for any frames that fit in the buffers on their own, any sizes of the
buffers and of the writes, timeout, clock and number of frames:

| Theorem | States |
|---|---|
| `TypeCorrect` | `Spec => []TypeOK` |
| `Exact` | `Spec => []UnharmedIsExact` |
| `Forwarded` | `Spec => []UnharmedIsForwarded` |
| `Once` | `Spec => []OncePerFrame` |
| `Overruns` | `Spec => []OverrunIsJoined` |
| `WholeFrames` | `OneWriteEach => (Spec => []OnlyClientFrames)` |
| `NoOverrun` | `OneWriteEach => (Spec => []~overrun)` |
| `Refinement` | `OneWriteEach => (Spec => ImplementsLossyFrames)` |

`Exact`, `Forwarded` and `Once` say what they say until a buffer is overrun: a behaviour of the
model ends there, and nothing is claimed of the program from then on.  `Overruns` says when that
may be, and `NoOverrun` that for a client whose frames fit in one write each it never is.

*Assumptions*: `ClockAssumption` and `ContentsAssumption`: a frame fits in `BUFFER_SIZE` bytes as
the client encodes it, and in `scratch` with what the log puts around it; its header is not one that
needs an escape, which `kiss_encode` does not write; a write carries two bytes or more (an MTU is at
least 23).  The last of these is needed: if a FEND, a FESC and the closing FEND were writes of their own
and the writes between them were lost, the parser would complete a frame with nothing in it.

*The argument.*  The parser has one place: `Fed` bytes into the newest frame that had a write
accepted, `slot.frame`.

- `ClientInv`, `SlotInv` and `MailInv` say where the bytes are: what the client has still to write
  is the end of its frame, the mailbox holds a part of `slot.frame` at its offset, and that
  part ends where the client's last write did, if no write of that frame was lost;
- `LoopInv`: the main loop works on what it found in the mailbox, within one pass no time passes,
  and a complete frame waits exactly while `pc` is `forward`;
- `ParserInv`: no frame is completed with nothing in it, so `kiss_read` finds a header;
- `SyncInv`: in an unharmed frame the parser holds the escaped bytes it was fed of it (`Holds`, as
  in the codec), is outside a frame before its first byte, and at its last byte
  holds all of it; after any frame that is not torn, harmed or not, it is outside a frame.  That is
  how far harm reaches: a torn frame can leave the parser inside, the next one brings it out.
  With `DoneInv` (what is before `slot.frame` is done) and `FirstInv` it is inductive;
- `QuietInv`: in a frame of which no write was dropped, nor of the one before it (`Apart`), the
  parser holds no more than it was fed of that frame, whether or not a silence cut it: a
  timeout discards, it joins nothing.  What completes is then the frame itself.  So every buffer has room for
  it, and `Overruns` follows;
- `OnceInv`: after a frame has completed one for the TNC, the parser has no opening FEND until
  that frame is over.  The FENDs of a frame are its first byte and its last (`WireBytes`),
  so no other byte of it can give the parser one.

`Exact` needs in the end that a parser that holds all of an escaped frame holds the frame
(`HoldsAll`, from `EscapingIsOneToOne`), and that `kiss_read` and `kiss_encode` give the same
bytes again (`RelayedFrame`).  `UnharmedBefore` says that harm is not undone, so what a state
knows of a frame need only be kept while it is unharmed.  TLC checks each part of the
invariant on the run's instance too.

*One write a frame.*  `OneWriteEach` says of the constants that no frame is longer, once encoded,
than the smallest write.  Then `WholeInv` holds beside `IInv`: the mailbox never begins in the middle of a frame, and no
frame is both accepted and lost or cut by the timeout, because no time passes within a pass
(`LoopInv`).  So every frame is unharmed, `Exact` holds of all of them (`WholeFrames`), and
`Begin` and `Forward` are the steps of the lossy link; that `Forward` delivers a newer frame than the last
is `Once`.  The hypothesis is needed: without it `ble_joined_frame` violates `OnlyClientFrames`.
TLC agrees with both theorems on the contents of `MCBleTx`, four frames and writes of five bytes (28,773 states),
an instance checked by hand and no run of its own.

### Passthru mode

`PassthruProofs` proves, for every size of the buffers and FIFOs and every number of
bytes:

| Theorem | States |
|---|---|
| `TypeCorrect` | `Spec => []TypeOK`, the bounds of all buffers included |
| `HostToTnc` | `Spec => []ToTncExact` |
| `OrderKept` | `Spec => KeptInOrder` |
| `Refinement` | `Spec => ImplementsLossyBytes` |

*Assumption*: `PassthruAssumption` (the sizes are positive).

*The argument.*  The inductive invariant is `TypeOK` with `LockInv`: the program
counters say who holds which lock, so the two cores (and the interrupt) exclude each
other; and what was tested outside a critical section still holds inside it
(`usb_available` bytes are still in the device, the buffer still has the length
`uart_writer` was given), because the other side only adds.  Without it `ToTncExact` is not
inductive: a byte appended between `LoopEnter` and `LoopExit` would be cut off.  Then
`InFlightKept` and `PipeKept` show, action by action, that every step but the ones that send a
byte leaves the concatenation of all queues of a direction as it is, by the lemmas
`MovePart`, `MoveNext` and `MoveHead` on cutting sequences.  The refinement adds
`PipeInv`: the numbers in the pipe rise and none exceeds what the TNC has sent.

### The logs

The first part of `PeripheralProofs` proves, for any number of starts:

| Theorem | States |
|---|---|
| `CardTypeCorrect` | `CardSpec => []CardTypeOK` |
| `OneStart` | `CardSpec => []OneStartPerNumber` |
| `Fresh` | `CardSpec => []NumberIsFresh` |
| `Kept` | `CardSpec => LogsKept` |

*The argument.*  `NumberInv` keeps the numbers below the count of starts.  `LinesInv`
says that a log which holds a line is flushed together with the text log of its number,
so a start that gets `log.N.txt` created knows that no start before it
wrote to either file of that number: this is why the unchecked open of the pcap file
(logger.c:47) does no harm to older logs.  `FreshInv` says that, unless it was lost, `latest` (or
`latest_log` while the file is being rewritten) is as high as every number on the card.
TLC was run once with the three as invariants of the run's instance too.

### The front panel

The second part of `PeripheralProofs` proves, for any lengths of dot, dash and pause, any range
of the clock, any scenes (frames, lines typed, lengths of passes) and any size of `cmd_buffer`:

| Theorem | States |
|---|---|
| `TypeCorrect` | `Spec => []TypeOK` |
| `Spelled` | `Spec => []PulsesSpellTheLetter` |
| `DisplayTrue` | `Spec => []ShownIsSent` |
| `CommandTyped` | `Spec => []CommandIsTyped` |

*Assumptions*: `LedAssumption`, `CmdBufferAssumption`, `CallLenAssumption` and
`FrontPanelAssumption` (a dot, a dash and a
pause last some time and less than the clock's range, a pass is shorter than what the clock has
left after a refresh, and the frames are `Sendable`).

*The argument.*  The LED, the display and the USB port share the scene only, and each has an
inductive invariant of its own, which steps of the others leave as it is (`LightKept`,
`PanelKept`, `UsbKept`).  TLC was run once with the three as invariants of the run's instance.

- `LightInv`: `PulsesSpellTheLetter` speaks of the pulses that are over and is silent on when the
  next change is due, so it is not inductive.  `PulsesInv` says that `pulse_timings`, which the code
  takes from its end, is what is left of the letter; `TimesInv` that, while nothing wrapped,
  `next_pulse_ms` is the last change plus the pulse or pause that runs, and the clock
  has not reached it.  The first pass that reaches it is then late by less than its own length,
  hence by less than the longest pass.  The cases of a step are a letter that begins
  (`BlinkInv`), a refresh (`RefreshInv`), and a check that finds nothing due, a pulse to begin
  or a pulse to end (`CheckNotDue`, `CheckOn`, `CheckOff`).
- `PanelInv`: the ghost `beacons` and the code's `saw_our_beacon` agree.  Everything else is about
  one frame.  `AddressEncodes` and `OurCallEncodes` say what a station, and the firmware itself,
  put into an address, and `DecodeCall` that decoding gives the call back whatever the reserved
  bits are.  `Framed` is what a buffer holds of a frame, byte by byte; `BytesFramed` shows it of
  `Bytes`, for none to three digipeaters (`FlattenOne` and its like unfold `FlattenSeq`, which is
  recursive, as far as that needs), `LastIsFound` that the control byte is found behind the first
  address that says it is the last, and `Unnumbered` that the masks let through the two control
  bytes of an information frame, with and without the poll bit, and no other.
- `UsbInv`: `cmd_buffer` is the line as typed so far, without the spaces before it, or, after a blank
  line, with its line feed before it, and it fits in its array, until a byte was stored
  behind that (`TypeTooMany`: only in a line that is too long).  `CompleteIsMeant` shows that `shell_complete` runs the
  command whose name begins with the text, there being no text but the empty one that begins
  two.

### Towards the clients

`BtLinkProofs` proves, for every set of clients, any lengths of frames, and any number of
frames and alarms:

| Theorem | States |
|---|---|
| `TypeCorrect` | `Spec => []TypeOK` |
| `Frames` | `Spec => []SentUnmixed` |
| `ShortFramesWhole` | `ShortFrames => (Spec => []SentInFull)` |
| `Flight` | `Spec => []InFlightWhileAttached` |
| `Duplicates` | `Spec => []AtMostOnce` |

*Assumption*: `BtLinkAssumption` (the clients are BLE and SPP, a frame has at least one
byte, the bounds are natural numbers).  As the properties do, the theorems except
`TypeCorrect` speak of behaviours in which no alarm cuts into the main loop's call
(`overlap`); `Bridge` has what happens when one does.  `Frames` says that a packet is never
of two frames; that it is the whole of one is `ShortFramesWhole`, which needs that every encoded frame
is shorter than 256 bytes (`ShortFrames`): a longer one is cut (bt.c:312).

*The argument.*  `IInv` has one part per question:

- `CallInv`: the call is about the newest frame, and the head it has copied is in the
  buffer.  `TypeOK` needs it: `CutLen` looks up the length of the call's frame;
- `BufferInv`: a buffer whose length is not zero holds both halves of one frame, and
  while a call goes on it is the call's frame.  This is why the second memcpy, for the
  SPP client, does no harm to the frame the BLE client still waits for: it writes the
  same bytes;
- `SentInv`: no packet is newer than the buffer, which makes `SentUnmixed` inductive;
- `ClientInv` and `FlightInv`: while no client has left, what `bt.c` knows of a client is
  so, hence a copied frame is followed by a request that BTstack accepts, and the request
  stands until the packet is in the outgoing buffer;
- `OnlyInv` and `OnceInv`: with one kind of client the other link is never asked for,
  and a frame in the buffer is newer than all that was sent, or is itself on its way and will be
  cleared when the packet has gone.

The properties of the callbacks as a whole (`StackKeeps`, `StackSends`,
`StackOnTheWay`) keep the proof from splitting on each of them: no callback
touches the call or the bytes of the buffer, all one does to the length is to clear it,
and only two send.

### What the contexts share

`BridgeProofs` proves, for any kinds of frames and any number of frames, connection events and
alarms:

| Theorem | States |
|---|---|
| `TypeCorrect` | `Spec => []TypeOK` |
| `ToTnc` | `Spec => []ToTncWhole` |
| `ToClients` | `Spec => []ToClientsWhole` |
| `Hangs` | `Spec => []WaitsOnlyForMain` |

*Assumption*: `BridgeAssumption` (three kinds of frames, the bounds are natural numbers).
The theorems say that `hit` is complete: `Read`, `QueryTnc` and `SendOurInfo` at the moments
that `hit` records are the only ways in which one context spoils another's frame.

*The argument.*  A frame is followed from its parser to where it goes out:

- `JobInv`: the frame a context relays stays complete in its own parser until
  `kiss_init`, so nothing is fed to it, and the two contexts never relay from the
  same parser;
- `WaitingInv`: a frame that waits in its parser is whole there, unless the alarm's
  status frame was written over it;
- `WindowInv`: from `kiss_read` on, the parser, `kissFrame`, `scratch` and the UART hold what
  the context's last steps put there.  It needs the three others: `WaitingInv` when the
  window opens, `JobInv` for the parser, and, for what the other context does,
- `StackInv`: the main loop stands still while BTstack's context has a job (`Runs`), and a
  frame of SPP past its `kiss_read` has hit what the main loop was doing; before it, and in the
  jobs of a connection, BTstack's context writes none of these;
- `QueuedInv`: `char_rx_value` holds the frame its length was set for, and while the main loop
  copies, the only frame that can be set is its own or the alarm's, which is then in `hit`.

`WaitsOnlyForMain`, which no run has as a property, is the safety part of `FrameIsFinished`: a
context that waits for the card is a callback of BTstack in the middle of the main loop's
`f_sync`.  It follows from `MutexInv` (the mutex is with the context between its lock and its
unlock, and with no other), which is inductive beside `TypeOK` because in every job an unlock
follows each lock and nothing else (`LockPairs`).  Were `logger.c` to log while it
logs, `LockPairs` would fail.  TLC was run once with both as invariants of the run's instance.

`Advances` (where a step leads) and `Effects` (what a step does to the buffers, by its name)
are proved once from the tables of `Steps`, and the invariants are shown from them without
looking at the tables again.

### Left to TLC

Liveness (`CompletedIsHandled`, `BufferIsFreed`, `HostByteArrives`, `TncByteArrives`,
`MailboxIsFreed`, `FrameIsFinished`, `LedGoesOff`) and the fairness it rests on: the proof
system has no rule for it.

## 5. Findings

- *A frame can block the link without being in flight* (run
  `bt_queued_not_in_flight`).  `handle_tnc_rx_data` refuses a frame whenever
  `char_rx_value_len > 0`, with the comment "Check in-flight send to client"
  (bt.c:314).  If a client unsubscribes between the request and its event, or an
  RFCOMM open fails after the channel number was stored, the buffer keeps a frame
  that nobody will send, and later frames are refused until a disconnection or a
  new subscription.
- *The buffer is cleared before it is sent* (run `bt_cleared_before_sent`).  The
  comment at bt.c:143 says the length stays until `HCI_EVENT_TRANSPORT_PACKET_SENT`.
  `char_rx_value_sending` is reset only by a disconnection, so after the first
  notification *any* sent packet clears a frame that still waits for its turn, and
  the frame is lost.
- *A dropped write joins two parts of a frame* (run `ble_joined_frame`).  The comment
  at main_aprs.c:342 says the parser ensures that a valid frame was received and so
  handles packets longer than a BLE packet.  A write that finds the mailbox in use is
  dropped without a response (bt.c:259), and the parser cannot see the gap: it completes a
  frame from the writes around it, which goes to the TNC.  `ble_tx` shows how far the
  damage reaches: to the next frame the parser is given and no further, as long as what was
  joined fits in the 400 bytes of the parser and of `scratch`, and never to a client whose frames
  fit in one write each.
- *A start may find its log taken* (run `logger_name_taken`).  src/README.md:50 says each
  start creates a new log.  If power goes between the truncation of `latest` and its
  rewriting, the next start counts from 0 again, `FA_CREATE_NEW` refuses the old
  name, and nothing is logged until the numbers have passed the old logs.

Four more things the models showed, which are no findings of a run, as nothing in the
repository says otherwise or, for the second, the model only names the places where it happens:

- BTstack's context can wait for ever for the card's mutex: it logs (a frame of an SPP
  client, a connection) while the main loop it has preempted is inside `f_sync`.  `Stuck` in
  `FrameIsFinished` names this state; without it the property fails, and the theorem `Hangs`
  says that there is no other wait for the card.
- The alarm writes through `kissFrame.buffer` although kiss.c:75-77 says that it is valid only
  until the next `kiss_init`; the frame it destroys is in `hit`.
- Two frames that a dropped write joined may be longer than the parser, whose index is stored
  behind its buffer (kiss.c:68), or than `scratch` (main_aprs.c:355 and 102).  `OverrunIsJoined` says
  that nothing else of what a client sends overruns them.  The shell's `cmd_buffer` is overrun by
  a line of eleven bytes (shell.c:37).
- A blank line's line feed becomes the first byte of the next command (shell.c:37), and a
  blank line with a carriage return runs SAVE, the last command of which no byte
  differs (shell.c:79).

## 6. What is not modelled

- Most of the repository by size is the vendored FatFs, the SD driver with its examples, and tables of
  Unicode: `no-OS-FatFS-SD-SDIO-SPI-RPi-Pico`.  It is not the project's own code;
  `Logger` and `Bridge` model what the firmware relies on in it (the outcomes of each call, and the
  mutex).  The firmware's own sources are covered for the most part.
- Flash configuration: `read_config_from_mem` and `check_config` run once, before anything else, and
  their result is printed; `write_config_to_mem` has no caller.
- Positions, times and distances of APRS, and the drawing on the OLED.
- `logger_deinit` (never reached), `blink` (no caller), `aprs_time` and the passages of ax25.c
  that are commented out.
- `att_read_callback`: clients are notified, they do not read.
- Pairing and advertising, which change none of the state above.
- More than three digipeaters, or bytes read or stored past the end of an array (a frame of length 65535, joined frames
  in `BleTx`, a long line in `FrontPanel`): they have no outcome that a model could give them, and `BleTx`
  and `FrontPanel` end a behaviour there.
- Overruns of `sppKiss`: RFCOMM drops nothing, but a client that leaves inside a frame and is back within
  the timeout joins two frames there as well.

## 7. Plan

The modules of the plan are written: `Kiss` with `KissCodec`, `TncRx` with `LossyFrames`,
`BtLink`, `Passthru`, `BleTx`, `Logger`, `Bridge`, and `Led`, `Shell` and `Ax25` with
`FrontPanel`.

The safety invariants and action properties that their runs check are proved, for every value of
the constants, and so are the refinements.  Still to come is a proof of what the findings leave
over: for `BtLink`, that a frame a BLE client was not sent was refused, cleared or cut off at one
of the three places named in section 5.
