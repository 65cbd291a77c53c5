------------------------------- MODULE Ax25 -------------------------------
(***************************************************************************)
(* firmware/ax25.c, and the status frame and data type of aprs.c: operators*)
(* on the bytes of a frame.  Positions count from 0, as in the code.       *)
(***************************************************************************)
EXTENDS Integers, Sequences, SequencesExt

CONSTANT CallLen  \* the characters of a call sign in a frame: 6 in the code

ASSUME CallLenAssumption == CallLen \in Nat \ {0}

\* The bits of a mask, shifted to the right: unit is the value of the lowest, and
\* they have so many values.
Bits(byte, unit, values) == (byte \div unit) % values

\* Text up to its first null character, as which ax25_decode_call stores a space.
CString(chars) ==
  LET end == SelectInSeq(chars, LAMBDA c : c = 0)
  IN  IF end = 0 THEN chars ELSE SubSeq(chars, 1, end - 1)

\* Mutant: the SSID is taken with the reserved bits.
ax25_decode_callWide(buffer, pos) ==
  LET Char(i) == LET c == buffer[pos + i] \div 2 IN IF c = 32 THEN 0 ELSE c
      ssid    == buffer[pos + CallLen + 1]
  IN  [callsign |-> CString([i \in 1..CallLen |-> Char(i)]),
       ssid     |-> Bits(ssid, 2, 64),
       rr       |-> Bits(ssid, 32, 4),
       c_flag   |-> Bits(ssid, 128, 2) = 1,
       last     |-> Bits(ssid, 1, 2) = 1]

ax25_decode_call(buffer, pos) ==
  LET Char(i) == LET c == buffer[pos + i] \div 2 IN IF c = 32 THEN 0 ELSE c
      ssid    == buffer[pos + CallLen + 1]
  IN  [callsign |-> CString([i \in 1..CallLen |-> Char(i)]),
       ssid     |-> Bits(ssid, 2, 16),
       rr       |-> Bits(ssid, 32, 4),
       c_flag   |-> Bits(ssid, 128, 2) = 1,
       last     |-> Bits(ssid, 1, 2) = 1]

\* Without the C flag the reserved bits are lost.
ax25_encode_call(call) ==
  LET Char(i) == 2 * (IF i <= Len(call.callsign) THEN call.callsign[i] ELSE 32)
      last    == IF call.last THEN 1 ELSE 0
  IN  [i \in 1..CallLen |-> Char(i)]
        \o <<2 * (call.ssid % 16) + last + (IF call.c_flag THEN 32 * call.rr + 128 ELSE 0)>>

ax25_call_eq(call1, call2) == call1.callsign = call2.callsign /\ call1.ssid = call2.ssid

AddressPos(i) == i * (CallLen + 1)

\* The addresses end with the first after the destination that says so.
LastAddress(buffer) ==
  Min({i \in 1..(Len(buffer) \div (CallLen + 1) - 1) :
         ax25_decode_call(buffer, AddressPos(i)).last})

ax25_init(buffer) ==
  [dest_call        |-> ax25_decode_call(buffer, AddressPos(0)),
   source_call      |-> ax25_decode_call(buffer, AddressPos(1)),
   control_byte_pos |-> AddressPos(LastAddress(buffer) + 1)]

\* The byte of the frame that is n bytes after its control byte.
After(packet, buffer, n) == buffer[packet.control_byte_pos + n + 1]

ax25_frame_type(packet, buffer) ==
  LET control_byte == After(packet, buffer, 0)
  IN  CASE Bits(control_byte, 1, 2) = 0 -> "I"
        [] Bits(control_byte, 1, 4) = 3 -> "U"
        [] OTHER -> "S"

\* The bits of 0b11101100; all clear are those of an unnumbered information frame.
IsUI(packet, buffer) ==
  LET control_byte == After(packet, buffer, 0)
  IN  /\ Bits(control_byte, 1, 4) = 3
      /\ Bits(control_byte, 4, 4) = 0 /\ Bits(control_byte, 32, 8) = 0

ax25_packet_pid_field(packet, buffer) ==
  LET pid_byte == After(packet, buffer, 1)
  IN  CASE pid_byte = 207 -> "NET_ROM" [] pid_byte = 240 -> "NO_LAYER_3" [] OTHER -> "UNKNOWN"

aprs_data_type(packet, buffer) == After(packet, buffer, 2)

STATUS == 62  \* '>'

aprs_status(src_call, dest_call, text) ==
  ax25_encode_call(dest_call) \o ax25_encode_call(src_call) \o <<3, 240, STATUS>> \o text
==========================================================================
