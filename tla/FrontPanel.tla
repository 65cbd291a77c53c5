---------------------------- MODULE FrontPanel ----------------------------
(***************************************************************************)
(* What the operator sees and types: the LED, the OLED and the USB port of *)
(* firmware/main_aprs.c.  One pass of the main loop is four steps: the     *)
(* clock and the LED, a frame from the TNC, a frame from a BLE client, and *)
(* the bytes typed.  BTstack's context shows the frames of SPP clients, and*)
(* has_connection is its.  How frames get here, and what happens to a frame*)
(* that another one overtakes, is the matter of other modules.             *)
(***************************************************************************)
EXTENDS Led, Shell, Ax25

CONSTANTS
  Scenes,    \* what a behaviour may have: the times it may start at, the frames
             \* received from the TNC and sent by clients, the lines typed,
             \* the time a pass of the main loop takes
  IdleMs,    \* led_refresh_ms with no connection, and ...
  BusyMs     \* ... with one

\* A call sign in a frame has neither a space nor a null character within.
Station ==
  {call \in [callsign: Seq(1..127 \ {32}), ssid: 0..15] : Len(call.callsign) <= CallLen}

\* Of three digipeaters at most: AX25Packet has room for no more.
Sendable(f) ==
  /\ f.source \in Station /\ f.dest \in Station
  /\ f.path \in Seq(Station) /\ Len(f.path) <= 3
  /\ f.control \in 0..255 /\ f.pid \in 0..255 /\ f.type \in 0..255

\* What is typed in a line.
Key == STRING \ {LF}

\* A pass is much shorter than the range of the clock.
ASSUME FrontPanelAssumption ==
  /\ IdleMs \in Clock /\ BusyMs \in Clock
  /\ \A s \in Scenes : /\ s.starts \subseteq Clock
                       /\ s.passes # {} /\ s.passes \subseteq Clock \ {0}
                       /\ \A p \in s.passes : p + IdleMs < ClockRange /\ p + BusyMs < ClockRange
                       /\ \A f \in s.received \cup s.sent : Sendable(f)
                       /\ s.typed \subseteq Seq(Key)

VARIABLES
  scene,           \* what may happen in this behaviour
  pc,              \* the part of the pass to come; "overrun": a byte was stored
                   \* behind cmd_buffer, and what follows is undefined
  async_now_ms,    \* the clock of this pass
  led,
  last_led_update_ms, led_refresh_ms,
  connected,       \* has_connection(), which BTstack's callbacks change
  oled,            \* what the display says of the last frame shown
  saw_our_beacon,
  cmd_buffer,      \* shell.cmd_buffer
  \* ghosts
  letter,          \* the letter last given to blink_morse
  lit, changed,    \* how long the LED was on and off in turn, and since when it is
  wrapped,         \* the clock, or next_pulse_ms, wrapped since this letter began
  frame,           \* the frame last shown, who sent it, and ...
  beacons,         \* ... whether a beacon of the operator's went before it
  typed,           \* the bytes typed since the last line feed
  afterBlank,      \* they follow a blank line
  ran              \* the line just completed, and its command

clock == <<async_now_ms, last_led_update_ms, led_refresh_ms>>
light == <<led, letter, lit, changed, wrapped>>
panel == <<oled, saw_our_beacon, frame, beacons>>
usb   == <<cmd_buffer, typed, afterBlank, ran>>
vars  == <<scene, pc, clock, light, connected, panel, usb>>

Nothing == [none |-> TRUE]

Init ==
  /\ scene \in Scenes
  /\ pc = "top" /\ async_now_ms \in scene.starts
  /\ led = blink_morse(async_now_ms, "S")
  /\ letter = "S" /\ lit = <<>> /\ changed = async_now_ms /\ wrapped = FALSE
  /\ last_led_update_ms = 0 /\ led_refresh_ms = IdleMs
  /\ connected = FALSE
  /\ oled = Nothing /\ saw_our_beacon = FALSE /\ frame = Nothing /\ beacons = FALSE
  /\ cmd_buffer = shell_init
  /\ typed = <<>> /\ afterBlank = FALSE /\ ran = Nothing

---------------------------------------------------------------------------
(* The LED.                                                                *)

Since(before, now) == (now - before) % ClockRange

Blink(l) ==
  /\ led' = blink_morse(async_now_ms, l)
  /\ letter' = l /\ lit' = <<>> /\ changed' = async_now_ms /\ wrapped' = FALSE

\* Mutant: the refresh compares two times of the clock.
OverdueAbsolute(now) == now > last_led_update_ms + led_refresh_ms

Overdue(now) == Since(last_led_update_ms, now) > led_refresh_ms

Refresh(now) ==
  LET l == IF connected THEN "E" ELSE "M"
      start == blink_morse(now, l)
  IN  /\ Overdue(now)
      /\ last_led_update_ms' = now
      /\ led_refresh_ms' = IF connected THEN BusyMs ELSE IdleMs
      /\ led' = check_led_state(start, now)
      /\ letter' = l /\ lit' = <<>> /\ changed' = now
      /\ wrapped' = (led'.next_pulse_ms < now)

Check(now) ==
  /\ ~Overdue(now)
  /\ led' = check_led_state(led, now)
  /\ IF led'.led_state = led.led_state THEN UNCHANGED <<lit, changed>>
     ELSE /\ changed' = now
          /\ lit' = IF lit = <<>> /\ led'.led_state THEN <<>> ELSE Append(lit, Since(changed, now))
  /\ wrapped' = (wrapped \/ now < async_now_ms \/ (led' # led /\ led'.next_pulse_ms < now))
  /\ UNCHANGED <<last_led_update_ms, led_refresh_ms, letter>>

\* A pass with nothing to do sleeps for a millisecond, any other takes longer.
Top ==
  /\ pc = "top" /\ pc' = "tnc"
  /\ \E d \in scene.passes :
       LET now == (async_now_ms + d) % ClockRange
       IN  async_now_ms' = now /\ (Refresh(now) \/ Check(now))
  /\ UNCHANGED <<scene, connected, panel, usb>>

---------------------------------------------------------------------------
(* The display.  A frame is a record of what it means; Bytes are those the *)
(* code sees.                                                              *)

TestSource == [callsign |-> <<78, 65>>, ssid |-> 4]  \* n9600a
TestDest   == [callsign |-> <<67, 81>>, ssid |-> 5]  \* cqbeep5

Located == {33, 47, 61, 64}  \* '!', '/', '=', '@'
Beacon  == {33, 64}          \* '!', '@'

\* display_aprs_packet_oled.
Shown(buffer, from) ==
  LET packet == ax25_init(buffer)
      aprs   == /\ ax25_frame_type(packet, buffer) = "U" /\ IsUI(packet, buffer)
                /\ ax25_packet_pid_field(packet, buffer) = "NO_LAYER_3"
      test   == /\ aprs
                /\ ax25_call_eq(packet.source_call, TestSource)
                /\ ax25_call_eq(packet.dest_call, TestDest)
      type   == IF aprs THEN aprs_data_type(packet, buffer) ELSE 0
  IN  [callsign |-> packet.source_call.callsign,
       ssid     |-> packet.source_call.ssid,
       type     |-> type,
       test     |-> test,
       beacon   |-> ~test /\ from = "client" /\ type \in Beacon,
       distance |-> ~test /\ from = "tnc" /\ type \in Located /\ saw_our_beacon]

\* What a station puts in an address; it sets the reserved bits.
Address(call, last) ==
  [i \in 1..CallLen |-> 2 * (IF i <= Len(call.callsign) THEN call.callsign[i] ELSE 32)]
    \o <<96 + 2 * call.ssid + (IF last THEN 1 ELSE 0)>>

\* The calls that send_our_info_to_bt gives to aprs_status.
OurCall(call, dest) ==
  [callsign |-> call.callsign, ssid |-> call.ssid, rr |-> 0, c_flag |-> dest, last |-> ~dest]

IsOurStatus(f) == f.control = 3 /\ f.pid = 240 /\ f.type = STATUS /\ f.path = <<>>

\* A client may send the TNC our own status frame, which it was sent.
Bytes(f) ==
  IF IsOurStatus(f) THEN aprs_status(OurCall(f.source, FALSE), OurCall(f.dest, TRUE), <<>>)
  ELSE Address(f.dest, FALSE) \o Address(f.source, f.path = <<>>)
         \o FlattenSeq([i \in DOMAIN f.path |-> Address(f.path[i], i = Len(f.path))])
         \o <<f.control, f.pid, f.type>>

IsAprs(f) == f.control \in {3, 19} /\ f.pid = 240
IsTest(f) == IsAprs(f) /\ f.source = TestSource /\ f.dest = TestDest

Show(f, from) ==
  /\ oled' = Shown(Bytes(f), from)
  /\ saw_our_beacon' = (saw_our_beacon \/ oled'.beacon)
  /\ frame' = [content |-> f, from |-> from, beaconed |-> beacons]
  /\ beacons' = (beacons \/ (from = "client" /\ IsAprs(f) /\ ~IsTest(f) /\ f.type \in Beacon))

Tnc ==
  /\ pc = "tnc" /\ pc' = "ble"
  /\ \/ UNCHANGED <<light, panel>>
     \/ \E f \in scene.received : Blink("R") /\ Show(f, "tnc")
  /\ UNCHANGED <<scene, clock, connected, usb>>

\* What a client wrote may not complete a frame.
Ble ==
  /\ pc = "ble" /\ pc' = "usb"
  /\ \/ UNCHANGED <<light, panel>>
     \/ Blink("T") /\ scene.sent # {} /\ (UNCHANGED panel \/ \E f \in scene.sent : Show(f, "client"))
  /\ UNCHANGED <<scene, clock, connected, usb>>

\* spp_write_callback preempts the main loop; it does not blink.
Spp ==
  /\ pc # "overrun"
  /\ \E f \in scene.sent : Show(f, "client")
  /\ UNCHANGED <<scene, pc, clock, light, connected, usb>>

---------------------------------------------------------------------------
(* The USB port.                                                           *)

OnlySpaces(bytes) == \A i \in DOMAIN bytes : bytes[i] = SP

Type(byte) ==
  LET fed == shell_feed(cmd_buffer, byte)
  IN  /\ Fits(fed.cmd_buffer)
      /\ cmd_buffer' = IF fed.found_cmd THEN shell_init ELSE fed.cmd_buffer
      /\ typed' = IF byte = LF THEN <<>> ELSE Append(typed, byte)
      /\ afterBlank' = IF byte = LF THEN OnlySpaces(typed) /\ ~afterBlank ELSE afterBlank
      /\ ran' = IF byte # LF THEN Nothing
                ELSE [line |-> typed, afterBlank |-> afterBlank,
                      cmd |-> IF fed.found_cmd THEN shell_complete(fed.cmd_buffer) ELSE "none"]
      /\ UNCHANGED <<scene, pc, clock, light, connected, panel>>

\* Byte CMD_BUFFER_SIZE + 1 of cmd_buffer is cmd_pos.
TypeBeyond(byte) ==
  /\ ~Fits(shell_feed(cmd_buffer, byte).cmd_buffer)
  /\ pc' = "overrun"
  /\ UNCHANGED <<scene, clock, light, connected, panel, usb>>

\* How the lines that begin with what is typed go on.
NextBytes ==
  {line[Len(typed) + 1] :
     line \in {l \in scene.typed : Len(typed) < Len(l) /\ IsPrefix(typed, l)}}

\* The operator goes on with one of the lines, or ends what there is of it.
Typing ==
  /\ pc = "usb"
  /\ \/ scene.typed # {} /\ Type(LF)
     \/ \E byte \in NextBytes : Type(byte)
     \/ \E byte \in NextBytes : TypeBeyond(byte)

EndPass ==
  /\ pc = "usb" /\ pc' = "top"
  /\ UNCHANGED <<scene, clock, light, connected, panel, usb>>

\* Seen only at the top of a pass.
Connection ==
  /\ pc = "top"
  /\ connected' = ~connected
  /\ UNCHANGED <<scene, pc, clock, light, panel, usb>>

Main == Top \/ Tnc \/ Ble \/ EndPass

Next == Main \/ Spp \/ Connection \/ Typing

Spec == Init /\ [][Next]_vars

\* The loop goes round; the operator types slower than it reads.
FairSpec == Spec /\ WF_vars(Main)

---------------------------------------------------------------------------

TypeOK ==
  /\ scene \in Scenes /\ pc \in {"top", "tnc", "ble", "usb", "overrun"}
  /\ async_now_ms \in Clock /\ last_led_update_ms \in Clock /\ led_refresh_ms \in {IdleMs, BusyMs}
  /\ led \in LED /\ letter \in Letter /\ Len(led.pulse_timings) <= Len(letters[letter])
  /\ lit \in Seq(Clock) /\ changed \in Clock /\ wrapped \in BOOLEAN
  /\ connected \in BOOLEAN /\ saw_our_beacon \in BOOLEAN /\ beacons \in BOOLEAN
  /\ oled = Nothing <=> frame = Nothing
  /\ typed \in Seq(Key) /\ Fits(cmd_buffer) /\ afterBlank \in BOOLEAN

\* However long the passes of the main loop are, and whenever another letter takes
\* over, the LED shows the letter from its beginning: each pulse is as long as its
\* mark and each pause as long as it should be, or longer by less than the
\* longest pass.  A clock that wraps meanwhile may cut them short (blink.h:81).
PulsesSpellTheLetter ==
  LET marks   == letters[letter]
      Mark(k) == IF k % 2 = 1 THEN Timing(marks[(k + 1) \div 2]) ELSE pulse_off_ms
      shown   == (Len(lit) + 1) \div 2
      longest == CHOOSE d \in scene.passes : \A p \in scene.passes : p <= d
  IN  /\ shown + Len(led.pulse_timings) = Len(marks)
      /\ ~wrapped => \A k \in DOMAIN lit : lit[k] >= Mark(k) /\ lit[k] < Mark(k) + longest

\* The LED does not stay on, not even when next_pulse_ms is not reached before the
\* clock wraps: the refresh compares a difference of times and starts anew.
LedGoesOff == led.led_state ~> (~led.led_state \/ pc = "overrun")

Expected(f, from, beaconed) ==
  [callsign |-> f.source.callsign,
   ssid     |-> f.source.ssid,
   type     |-> IF IsAprs(f) THEN f.type ELSE 0,
   test     |-> IsTest(f),
   beacon   |-> from = "client" /\ IsAprs(f) /\ ~IsTest(f) /\ f.type \in Beacon,
   distance |-> from = "tnc" /\ IsAprs(f) /\ ~IsTest(f) /\ f.type \in Located /\ beaconed]

\* What the display says is what the frame means, for up to three digipeaters and any
\* control field, protocol and SSID; a status frame that a client sends back is not
\* taken for a Test TX, which would be answered with another one; and a
\* distance is shown once the operator's own position went out, never before.
ShownIsSent ==
  frame # Nothing => oled = Expected(frame.content, frame.from, frame.beaconed)

\* A line without the spaces it begins with and the carriage return it ends with.
Text(bytes) ==
  LET first == SelectInSeq(bytes, LAMBDA b : b # SP)
      text  == IF first = 0 THEN <<>> ELSE SubSeq(bytes, first, Len(bytes))
  IN  IF text # <<>> /\ Last(text) = CR THEN Front(text) ELSE text

Meant(text) ==
  LET named == {i \in DOMAIN shell_commands : IsPrefix(text, shell_commands[i].name)}
  IN  CASE named # {} -> shell_commands[CHOOSE i \in named : TRUE].cmd
        [] named = {} /\ Len(text) = 1 -> "HELP"
        [] OTHER -> "UNKNOWN"

\* A line that cmd_buffer has room for runs the command that it names, in full or by
\* its beginning, wherever the passes of the main loop cut it.  What was typed before
\* it takes no room from it, but for the line feed of a blank line, which is kept as
\* the first byte of the next line (shell.c:37): what that line runs is not meant
\* here, nor is a blank line with a carriage return, which runs SAVE (shell.c:79).
\* After a line that is too long nothing is claimed.
CommandIsTyped ==
  /\ ran # Nothing /\ Text(ran.line) # <<>> /\ ~ran.afterBlank =>
       ran.cmd = Meant(Text(ran.line))
  /\ pc = "overrun" =>
       Len(typed) + 1 > CMD_BUFFER_SIZE - (IF afterBlank THEN 1 ELSE 0)
==========================================================================
