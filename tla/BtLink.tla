------------------------------ MODULE BtLink ------------------------------
(***************************************************************************)
(* The way out to the Bluetooth clients (firmware/bt.c): a frame from the  *)
(* TNC is put in the one buffer char_rx_value, and BTstack is asked for a  *)
(* moment to send it to the BLE client, to the SPP client, or to both.     *)
(*                                                                         *)
(* Three contexts run here.  handle_tnc_rx_data is called by the main      *)
(* loop, where BTstack's callbacks (packet_handler, att_write_callback)    *)
(* preempt it between any two steps, and by an alarm (send_our_info_to_bt, *)
(* 500 ms after a BLE client writes its configuration or the TNC's Test TX *)
(* button sends a frame), which preempts both and runs to its end.  BTstack*)
(* itself is external: it grants a requested moment when its single        *)
(* outgoing packet buffer is free.                                         *)
(***************************************************************************)
EXTENDS Integers, Sequences, FiniteSets

CONSTANTS
  ClientSets,  \* which clients a behaviour may have: sets of "ble" and "spp"
  Lens,        \* lengths of encoded frames
  MaxFrames,   \* bound: frames handed over, by the main loop and the alarm
  MaxAlarms    \* bound: alarms waiting at a time

Link == {"ble", "spp"}
U8   == 256

ASSUME BtLinkAssumption ==
  /\ ClientSets \subseteq SUBSET Link
  /\ Lens \subseteq Nat \ {0}
  /\ MaxFrames \in Nat /\ MaxAlarms \in Nat

VARIABLES
  clients,                 \* the clients of this behaviour
  \* bt.c
  con_handle,              \* a BLE connection handle is known (non-zero)
  ccc,                     \* char_rx_client_configuration: BLE notifications on
  char_rx_value,           \* numbers of the frames its two halves come from
  char_rx_value_len,
  char_rx_value_sending,
  rfcomm_channel_id,       \* an RFCOMM channel is known (non-zero)
  \* BTstack
  le,                      \* the LE connection is up
  classic,                 \* the classic connection and its RFCOMM channel
  request,                 \* links a can-send-now event is owed to
  outgoing,                \* what is in the outgoing packet buffer
  \* the callers
  pc,                      \* where the main loop is in handle_tnc_rx_data
  alarms,                  \* alarms waiting to call send_our_info_to_bt
  frames,                  \* lengths of the frames handed over, oldest first
  \* ghosts
  overlap,                 \* an alarm ran inside the main loop's call
  left,                    \* a client went while its link was up or coming up
  sent                     \* the packets each link was given, empty ones left out

bt    == <<con_handle, ccc, char_rx_value, char_rx_value_len, char_rx_value_sending,
           rfcomm_channel_id>>
stack == <<le, classic, request, outgoing>>
vars  == <<clients, bt, stack, pc, alarms, frames, overlap, left, sent>>

Idle == [at |-> "idle", link |-> "ble", frame |-> 0]

Init ==
  /\ clients \in ClientSets
  /\ con_handle = FALSE /\ ccc = FALSE
  /\ char_rx_value = <<0, 0>> /\ char_rx_value_len = 0 /\ char_rx_value_sending = FALSE
  /\ rfcomm_channel_id = FALSE
  /\ le = FALSE /\ classic = "down"
  /\ request = {} /\ outgoing = "none"
  /\ pc = Idle /\ alarms = 0 /\ frames = <<>>
  /\ overlap = FALSE /\ left = FALSE
  /\ sent = [link \in Link |-> <<>>]

---------------------------------------------------------------------------
(* handle_tnc_rx_data.  The parameter len is a uint8_t, and both callers   *)
(* pass a uint16_t.                                                        *)

Attached(link) == IF link = "ble" THEN ccc ELSE rfcomm_channel_id

\* BTstack knows whom to ask for: a request for a connection or a channel
\* that is gone is answered with an error that bt.c does not look at.
Known(link) == IF link = "ble" THEN con_handle ELSE classic \in {"opening", "open"}

\* Mutant: the parameter is as wide as the callers' length.
CutLenWide(frame) == frames[frame]

CutLen(frame) == frames[frame] % U8

\* Mutant: the frame already in the buffer is not looked at.
HandOverAlways(len, testTx) ==
  /\ pc = Idle
  /\ Len(frames) < MaxFrames
  /\ frames' = Append(frames, len)
  /\ testTx => alarms < MaxAlarms
  /\ alarms' = IF testTx THEN alarms + 1 ELSE alarms
  /\ pc' = [at |-> "test", link |-> "ble", frame |-> Len(frames')]
  /\ UNCHANGED <<clients, bt, stack, overlap, left, sent>>

\* The main loop displays the next frame, which sets the alarm when it is the
\* Test TX button's, and calls handle_tnc_rx_data: a frame is in the buffer
\* already, or there is a link to try.
HandOver(len, testTx) ==
  /\ pc = Idle
  /\ Len(frames) < MaxFrames
  /\ frames' = Append(frames, len)
  /\ testTx => alarms < MaxAlarms
  /\ alarms' = IF testTx THEN alarms + 1 ELSE alarms
  /\ pc' = IF char_rx_value_len > 0 THEN Idle
           ELSE [at |-> "test", link |-> "ble", frame |-> Len(frames')]
  /\ UNCHANGED <<clients, bt, stack, overlap, left, sent>>

NextLink == IF pc.link = "ble" THEN [pc EXCEPT !.at = "test", !.link = "spp"] ELSE Idle

TestAttached ==
  /\ pc.at = "test"
  /\ pc' = IF Attached(pc.link) THEN [pc EXCEPT !.at = "copy"] ELSE NextLink
  /\ UNCHANGED <<clients, bt, stack, alarms, frames, overlap, left, sent>>

\* memcpy, in two halves, ...
CopyHead ==
  /\ pc.at = "copy"
  /\ char_rx_value' = [char_rx_value EXCEPT ![1] = pc.frame]
  /\ pc' = [pc EXCEPT !.at = "tail"]
  /\ UNCHANGED <<clients, con_handle, ccc, char_rx_value_len, char_rx_value_sending,
                 rfcomm_channel_id, stack, alarms, frames, overlap, left, sent>>

\* ... then the length, ...
CopyTail ==
  /\ pc.at = "tail"
  /\ char_rx_value' = [char_rx_value EXCEPT ![2] = pc.frame]
  /\ char_rx_value_len' = CutLen(pc.frame)
  /\ pc' = [pc EXCEPT !.at = "request"]
  /\ UNCHANGED <<clients, con_handle, ccc, char_rx_value_sending, rfcomm_channel_id,
                 stack, alarms, frames, overlap, left, sent>>

\* ... then the request for a moment to send.
Request ==
  /\ pc.at = "request"
  /\ request' = IF Known(pc.link) THEN request \cup {pc.link} ELSE request
  /\ pc' = NextLink
  /\ UNCHANGED <<clients, bt, le, classic, outgoing, alarms, frames, overlap, left, sent>>

Main ==
  \/ \E len \in Lens, testTx \in BOOLEAN : HandOver(len, testTx)
  \/ TestAttached \/ CopyHead \/ CopyTail \/ Request

\* The alarm's call: the same function, with nothing in between.
SendOurInfo(len) ==
  LET links == {link \in Link : char_rx_value_len = 0 /\ Attached(link)}
  IN  /\ alarms > 0
      /\ Len(frames) < MaxFrames
      /\ alarms' = alarms - 1
      /\ frames' = Append(frames, len)
      /\ IF links = {} THEN UNCHANGED <<char_rx_value, char_rx_value_len>>
         ELSE /\ char_rx_value' = <<Len(frames'), Len(frames')>>
              /\ char_rx_value_len' = len % U8
      /\ request' = request \cup {link \in links : Known(link)}
      /\ overlap' = (overlap \/ pc # Idle)
      /\ UNCHANGED <<clients, con_handle, ccc, char_rx_value_sending, rfcomm_channel_id,
                     le, classic, outgoing, pc, left, sent>>

---------------------------------------------------------------------------
(* BTstack's callbacks: att_write_callback and the cases of packet_handler.*)

Nobody == UNCHANGED <<clients, pc, frames, overlap>>

LeConnect ==
  /\ "ble" \in clients /\ ~le
  /\ le' = TRUE
  /\ Nobody /\ UNCHANGED <<bt, classic, request, outgoing, alarms, left, sent>>

\* The BLE client writes the client characteristic configuration.
WriteCcc(on) ==
  /\ le /\ alarms < MaxAlarms
  /\ ccc' = on
  /\ con_handle' = TRUE
  /\ request' = IF on THEN request \cup {"ble"} ELSE request
  /\ alarms' = alarms + 1
  /\ left' = (left \/ ~on)
  /\ Nobody
  /\ UNCHANGED <<char_rx_value, char_rx_value_len, char_rx_value_sending, rfcomm_channel_id,
                 le, classic, outgoing, sent>>

Content == [head |-> char_rx_value[1], tail |-> char_rx_value[2], len |-> char_rx_value_len]

Sending(link) ==
  sent' = IF char_rx_value_len = 0 THEN sent ELSE [sent EXCEPT ![link] = Append(@, Content)]

\* Mutant: the flag that lets the next event clear the buffer is not set.
AttCanSendNowNoFlag ==
  LET ready == con_handle /\ ccc /\ char_rx_value_len > 0
  IN  /\ "ble" \in request /\ outgoing = "none"
      /\ request' = request \ {"ble"}
      /\ IF ready THEN outgoing' = "ble" /\ Sending("ble") ELSE UNCHANGED <<outgoing, sent>>
      /\ Nobody
      /\ UNCHANGED <<bt, le, classic, alarms, left>>

AttCanSendNow ==
  LET ready == con_handle /\ ccc /\ char_rx_value_len > 0
  IN  /\ "ble" \in request /\ outgoing = "none"
      /\ request' = request \ {"ble"}
      /\ IF ready
         THEN /\ char_rx_value_sending' = TRUE
              /\ outgoing' = "ble"
              /\ Sending("ble")
         ELSE UNCHANGED <<char_rx_value_sending, outgoing, sent>>
      /\ Nobody
      /\ UNCHANGED <<con_handle, ccc, char_rx_value, char_rx_value_len, rfcomm_channel_id,
                     le, classic, alarms, left>>

\* Mutant: the flag is cleared instead of the buffer.
TransportPacketSentKeeps ==
  /\ outgoing # "none"
  /\ outgoing' = "none"
  /\ char_rx_value_sending' = FALSE
  /\ Nobody
  /\ UNCHANGED <<con_handle, ccc, char_rx_value, char_rx_value_len, rfcomm_channel_id,
                 le, classic, request, alarms, left, sent>>

\* HCI_EVENT_TRANSPORT_PACKET_SENT does not say which packet it was.
TransportPacketSent ==
  /\ outgoing # "none"
  /\ outgoing' = "none"
  /\ char_rx_value_len' = IF char_rx_value_sending THEN 0 ELSE char_rx_value_len
  /\ Nobody
  /\ UNCHANGED <<con_handle, ccc, char_rx_value, char_rx_value_sending, rfcomm_channel_id,
                 le, classic, request, alarms, left, sent>>

\* BTstack sends a packet of its own, an ATT response or an L2CAP signal.
OtherPacket ==
  /\ outgoing = "none" /\ (le \/ classic # "down")
  /\ outgoing' = "other"
  /\ Nobody /\ UNCHANGED <<bt, le, classic, request, alarms, left, sent>>

\* HCI_EVENT_DISCONNECTION_COMPLETE is handled alike for either connection.
DisconnectionComplete ==
  /\ con_handle' = FALSE /\ ccc' = FALSE
  /\ char_rx_value_len' = 0 /\ char_rx_value_sending' = FALSE
  /\ Nobody
  /\ UNCHANGED <<char_rx_value, rfcomm_channel_id, outgoing, alarms, sent>>

LeDisconnect ==
  /\ le /\ le' = FALSE
  /\ request' = request \ {"ble"}
  /\ left' = TRUE
  /\ DisconnectionComplete
  /\ UNCHANGED classic

ClassicDisconnect ==
  /\ classic = "acl" /\ classic' = "down"
  /\ left' = TRUE
  /\ DisconnectionComplete
  /\ UNCHANGED <<le, request>>

RfcommIncomingConnection ==
  /\ "spp" \in clients /\ classic \in {"down", "acl"}
  /\ classic' = "opening"
  /\ rfcomm_channel_id' = TRUE
  /\ Nobody
  /\ UNCHANGED <<con_handle, ccc, char_rx_value, char_rx_value_len, char_rx_value_sending,
                 le, request, outgoing, alarms, left, sent>>

\* A failed open leaves rfcomm_channel_id as the incoming connection set it.
RfcommChannelOpened(ok) ==
  /\ classic = "opening"
  /\ classic' = IF ok THEN "open" ELSE "acl"
  /\ request' = IF ok THEN request ELSE request \ {"spp"}
  /\ left' = (left \/ ~ok)
  /\ Nobody
  /\ UNCHANGED <<bt, le, outgoing, alarms, sent>>

\* Mutant: the buffer is not free again after the frame is sent.
RfcommCanSendNowKeeps ==
  /\ "spp" \in request /\ classic = "open" /\ outgoing = "none"
  /\ request' = request \ {"spp"}
  /\ outgoing' = "spp"
  /\ Sending("spp")
  /\ Nobody
  /\ UNCHANGED <<bt, le, classic, alarms, left>>

\* The length is not looked at.
RfcommCanSendNow ==
  /\ "spp" \in request /\ classic = "open" /\ outgoing = "none"
  /\ request' = request \ {"spp"}
  /\ outgoing' = "spp"
  /\ Sending("spp")
  /\ char_rx_value_len' = 0
  /\ Nobody
  /\ UNCHANGED <<con_handle, ccc, char_rx_value, char_rx_value_sending, rfcomm_channel_id,
                 le, classic, alarms, left>>

RfcommChannelClosed ==
  /\ classic = "open" /\ classic' = "acl"
  /\ rfcomm_channel_id' = FALSE
  /\ request' = request \ {"spp"}
  /\ left' = TRUE
  /\ Nobody
  /\ UNCHANGED <<con_handle, ccc, char_rx_value, char_rx_value_len, char_rx_value_sending,
                 le, outgoing, alarms, sent>>

Stack ==
  \/ LeConnect \/ LeDisconnect \/ ClassicDisconnect
  \/ \E on \in BOOLEAN : WriteCcc(on) \/ RfcommChannelOpened(on)
  \/ AttCanSendNow \/ TransportPacketSent \/ OtherPacket
  \/ RfcommIncomingConnection \/ RfcommCanSendNow \/ RfcommChannelClosed

Next == Main \/ (\E len \in Lens : SendOurInfo(len)) \/ Stack

Spec == Init /\ [][Next]_vars

\* The main loop goes on, the controller takes every packet, and BTstack owes
\* each request its event: it serves them in turn when the buffer is free.
FairSpec ==
  /\ Spec
  /\ WF_vars(TestAttached \/ CopyHead \/ CopyTail \/ Request)
  /\ WF_vars(TransportPacketSent)
  /\ SF_vars(AttCanSendNow)
  /\ SF_vars(RfcommCanSendNow)

---------------------------------------------------------------------------

Number == 0..MaxFrames
Packet == [head: Number, tail: Number, len: 1..(U8 - 1)]

TypeOK ==
  /\ clients \in ClientSets
  /\ con_handle \in BOOLEAN /\ ccc \in BOOLEAN
  /\ char_rx_value \in Number \X Number /\ char_rx_value_len \in 0..(U8 - 1)
  /\ char_rx_value_sending \in BOOLEAN /\ rfcomm_channel_id \in BOOLEAN
  /\ le \in BOOLEAN /\ classic \in {"down", "acl", "opening", "open"}
  /\ request \subseteq Link /\ outgoing \in {"none", "ble", "spp", "other"}
  /\ pc \in [at: {"idle", "test", "copy", "tail", "request"}, link: Link, frame: Number]
  /\ alarms \in 0..MaxAlarms
  /\ frames \in Seq(Lens) /\ Len(frames) <= MaxFrames
  /\ overlap \in BOOLEAN /\ left \in BOOLEAN
  /\ sent \in [Link -> Seq(Packet)]

\* A packet is what handle_tnc_rx_data makes of one frame: both halves of its copy
\* come from it, and its length modulo 256.
OfOneFrame(packet) == packet.head = packet.tail /\ packet.len = CutLen(packet.head)

\* Unless the alarm cuts into the main loop's call, every packet a link is
\* given is of one frame, in the order the frames came: callbacks at any
\* point of handle_tnc_rx_data, clients that come and go, and the buffer
\* shared by the two links never mix two frames.  The frame need not be all
\* there: of one of 256 bytes or more, a packet has the length modulo 256.
SentUnmixed ==
  ~overlap =>
    \A link \in Link : \A i \in DOMAIN sent[link] :
      /\ OfOneFrame(sent[link][i])
      /\ \A j \in DOMAIN sent[link] : i < j => sent[link][i].head <= sent[link][j].head

\* With one kind of client, no client is sent a frame twice.
AtMostOnce ==
  ~overlap /\ Cardinality(clients) = 1 =>
    \A link \in Link : \A i, j \in DOMAIN sent[link] :
      i < j => sent[link][i].head # sent[link][j].head

InFlight == request # {} \/ outgoing = "ble"

\* The frame that makes handle_tnc_rx_data refuse the next one is in flight,
\* as its comment has it (bt.c:314), as long as every client stays.
InFlightWhileAttached ==
  char_rx_value_len > 0 /\ pc = Idle /\ ~left /\ ~overlap => InFlight

\* A frame in the buffer does not stay there while the only client, a BLE
\* client, is subscribed: the buffer is free again for the next frame.
BufferIsFreed ==
  clients = {"ble"} /\ char_rx_value_len > 0 /\ ccc ~> char_rx_value_len = 0 \/ ~ccc

---------------------------------------------------------------------------
(* What the comments of bt.c say, and the code does not do.                *)

\* bt.c:314, "Check in-flight send to client".
QueuedIsInFlight == char_rx_value_len > 0 /\ pc = Idle => InFlight

\* bt.c:143, "Don't set char_rx_value_len to zero until we see the
\* HCI_EVENT_TRANSPORT_PACKET_SENT".
ClearedWhenSent ==
  [][~overlap /\ char_rx_value_len > 0 /\ char_rx_value_len' = 0 /\ le' = le /\ classic' = classic
       => outgoing = "ble" \/ sent' # sent]_vars
==========================================================================
