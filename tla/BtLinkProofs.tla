--------------------------- MODULE BtLinkProofs ---------------------------
(***************************************************************************)
(* Theorems about BtLink, for any lengths of frames and any number of      *)
(* frames and alarms.                                                      *)
(***************************************************************************)
EXTENDS BtLink, FiniteSetTheorems, TLAPS

---------------------------------------------------------------------------
(* The inductive invariant.                                                *)

Copying == pc.at \in {"copy", "tail", "request"}

\* The main loop's call is about the last frame, unless the alarm came inside.
CallInv ==
  /\ pc.at = "idle" => pc = Idle
  /\ pc.at # "idle" => pc.frame \in 1..Len(frames)
  /\ pc.at # "idle" /\ ~overlap => pc.frame = Len(frames)
  /\ pc.at = "tail" /\ ~overlap => char_rx_value[1] = pc.frame

\* A buffer that is in use holds one frame, that of the call if there is one.
BufferInv ==
  ~overlap /\ char_rx_value_len > 0 =>
    /\ char_rx_value[1] = char_rx_value[2]
    /\ char_rx_value[1] \in 1..Len(frames)
    /\ char_rx_value_len = CutLen(char_rx_value[1])
    /\ pc.at # "idle" => char_rx_value[1] = pc.frame

\* What was sent are frames, and none is newer than that in the buffer.
SentInv ==
  ~overlap =>
    \A link \in Link : \A i \in DOMAIN sent[link] :
      /\ OfOneFrame(sent[link][i])
      /\ sent[link][i].head \in 1..Len(frames)
      /\ char_rx_value_len > 0 => sent[link][i].head <= char_rx_value[1]
      /\ \A j \in DOMAIN sent[link] : i < j => sent[link][i].head <= sent[link][j].head

\* As long as every client stays, what bt.c knows of them is so.
ClientInv ==
  /\ ccc => con_handle
  /\ ~left =>
       /\ Copying => Attached(pc.link)
       /\ rfcomm_channel_id => classic \in {"opening", "open"}
       /\ "ble" \in request => ccc
       /\ outgoing = "ble" => char_rx_value_sending

\* A buffer that is in use is in flight, or about to be.
FlightInv ==
  ~left /\ ~overlap /\ char_rx_value_len > 0 => InFlight \/ pc.at = "request"

\* One kind of client, c: the other link is never used.
Only(c) == /\ clients = {c}
           /\ c = "ble" => ~rfcomm_channel_id /\ classic = "down" /\ "spp" \notin request
           /\ c = "spp" => ~ccc /\ ~le /\ ~con_handle /\ "ble" \notin request

OnlyInv == \A c \in Link : clients = {c} => Only(c)

\* ... and each frame is sent to it before the buffer is used again.
Below(c, n)   == \A i \in DOMAIN sent[c] : sent[c][i].head < n
Increasing(c) == \A i, j \in DOMAIN sent[c] : i < j => sent[c][i].head < sent[c][j].head

Trying(c)  == pc.at \in {"test", "copy", "tail"} /\ pc.link \in {c, "ble"}
OnTheWay(c) == c = "ble" /\ outgoing = "ble" /\ char_rx_value_sending

Once(c) ==
  /\ Copying => pc.link = c
  /\ Trying(c) => char_rx_value_len = 0 /\ Below(c, pc.frame)
  /\ char_rx_value_len > 0 => Below(c, char_rx_value[1]) \/ OnTheWay(c)
  /\ \A k \in Link \ {c} : sent[k] = <<>>
  /\ Increasing(c)

OnceInv == ~overlap => \A c \in Link : clients = {c} => Once(c)

IInv == TypeOK /\ CallInv /\ BufferInv /\ SentInv /\ ClientInv /\ FlightInv /\ OnlyInv /\ OnceInv

---------------------------------------------------------------------------
(* The type invariant.  It needs CallInv: the length of a frame is looked  *)
(* up under the number that the main loop has for it.                      *)

LEMMA InitTypes == Init => TypeOK
<1> SUFFICES ASSUME Init PROVE TypeOK
  OBVIOUS
<1>1. 0 \in Number /\ 0 \in 0..(U8 - 1) /\ 0 \in 0..MaxAlarms /\ "ble" \in Link
  BY BtLinkAssumption DEF Number, U8, Link
<1>2. pc \in [at: {"idle", "test", "copy", "tail", "request"}, link: Link, frame: Number]
  BY <1>1 DEF Init, Idle
<1>3. frames \in Seq(Lens) /\ Len(frames) <= MaxFrames  BY BtLinkAssumption DEF Init
<1>4. sent \in [Link -> Seq(Packet)]  BY DEF Init
<1> QED  BY <1>1, <1>2, <1>3, <1>4 DEF Init, TypeOK

\* A frame's length, as handle_tnc_rx_data has it.
LEMMA CutLenType ==
  ASSUME frames \in Seq(Lens), NEW n \in 1..Len(frames)
  PROVE  CutLen(n) \in 0..(U8 - 1)
<1>1. frames[n] \in Lens  OBVIOUS
<1>2. frames[n] \in Nat  BY <1>1, BtLinkAssumption
<1>3. \A k \in Nat : k % 256 \in 0..255  OBVIOUS
<1>4. CutLen(n) = frames[n] % 256 /\ U8 - 1 = 255  BY DEF CutLen, U8
<1>5. frames[n] % 256 \in 0..255  BY <1>2, <1>3, Zenon
<1> QED  BY <1>4, <1>5

LEMMA AppendFrame ==
  ASSUME frames \in Seq(Lens), NEW len \in Lens, frames' = Append(frames, len)
  PROVE  /\ frames' \in Seq(Lens) /\ Len(frames') = Len(frames) + 1
         /\ \A n \in 1..Len(frames) : frames'[n] = frames[n]
         /\ frames'[Len(frames')] = len
OBVIOUS

\* What Sending does to what a link was sent, element by element.
LEMMA SendingSent ==
  ASSUME TypeOK, NEW to \in Link, Sending(to)
  PROVE  /\ sent' \in [Link -> Seq(Packet)]
         /\ \A link \in Link : link # to => sent'[link] = sent[link]
         /\ char_rx_value_len = 0 => sent' = sent
         /\ char_rx_value_len > 0 =>
              /\ Len(sent'[to]) = Len(sent[to]) + 1
              /\ \A i \in 1..Len(sent[to]) : sent'[to][i] = sent[to][i]
              /\ sent'[to][Len(sent'[to])] = Content
<1>1. sent \in [Link -> Seq(Packet)] /\ sent[to] \in Seq(Packet)  BY DEF TypeOK
<1>2. CASE char_rx_value_len = 0
  BY <1>1, <1>2 DEF Sending
<1>3. CASE char_rx_value_len # 0
  <2>1. char_rx_value_len \in 1..(U8 - 1) /\ char_rx_value[1] \in Number /\ char_rx_value[2] \in Number
    BY <1>3 DEF TypeOK, U8
  <2>2. Content \in Packet  BY <2>1 DEF Content, Packet
  <2>3. sent' = [sent EXCEPT ![to] = Append(sent[to], Content)]  BY <1>3 DEF Sending
  <2>4. Append(sent[to], Content) \in Seq(Packet)  BY <1>1, <2>2
  <2>5. sent' \in [Link -> Seq(Packet)] /\ sent'[to] = Append(sent[to], Content)
    BY <1>1, <2>3, <2>4
  <2>6. \A link \in Link : link # to => sent'[link] = sent[link]  BY <1>1, <2>3
  <2>7. /\ Len(sent'[to]) = Len(sent[to]) + 1
        /\ \A i \in 1..Len(sent[to]) : sent'[to][i] = sent[to][i]
        /\ sent'[to][Len(sent'[to])] = Content
    BY <1>1, <2>2, <2>5
  <2> QED  BY <1>3, <2>5, <2>6, <2>7
<1> QED  BY <1>2, <1>3

\* Where the main loop goes on in handle_tnc_rx_data.
LEMMA NextLinkType ==
  ASSUME TypeOK
  PROVE  /\ NextLink \in [at: {"idle", "test"}, link: Link, frame: Number]
         /\ pc.link = "ble" =>
              NextLink.at = "test" /\ NextLink.link = "spp" /\ NextLink.frame = pc.frame
         /\ pc.link = "spp" => NextLink = Idle
<1>1. pc \in [at: {"idle", "test", "copy", "tail", "request"}, link: Link, frame: Number]
  BY DEF TypeOK
<1>2. CASE pc.link = "ble"
  <2> DEFINE q == [pc EXCEPT !.at = "test"]
  <2>1. q \in [at: {"idle", "test"}, link: Link, frame: Number] /\ q.at = "test" /\ q.frame = pc.frame
    BY <1>1
  <2> HIDE DEF q
  <2>2. [q EXCEPT !.link = "spp"] \in [at: {"idle", "test"}, link: Link, frame: Number]
    BY <2>1 DEF Link
  <2>3. /\ [q EXCEPT !.link = "spp"].at = "test" /\ [q EXCEPT !.link = "spp"].link = "spp"
        /\ [q EXCEPT !.link = "spp"].frame = pc.frame
    BY <2>1
  <2>4. NextLink = [q EXCEPT !.link = "spp"]
    <3>1. NextLink = [pc EXCEPT !.at = "test", !.link = "spp"]  BY <1>2 DEF NextLink
    <3> QED  BY <3>1, Zenon DEF q
  <2> QED  BY <1>2, <2>2, <2>3, <2>4
<1>3. CASE pc.link = "spp"
  <2>1. NextLink = Idle  BY <1>3 DEF NextLink
  <2>2. Idle \in [at: {"idle", "test"}, link: Link, frame: Number]
    BY BtLinkAssumption DEF Idle, Link, Number
  <2> QED  BY <1>3, <2>1, <2>2
<1> QED  BY <1>1, <1>2, <1>3 DEF Link

LEMMA Disconnected ==
  ASSUME DisconnectionComplete
  PROVE  /\ con_handle' = FALSE /\ ccc' = FALSE /\ char_rx_value_sending' = FALSE
         /\ con_handle' \in BOOLEAN /\ ccc' \in BOOLEAN /\ char_rx_value_sending' \in BOOLEAN
         /\ char_rx_value_len' = 0 /\ char_rx_value_len' \in 0..(U8 - 1)
         /\ clients' = clients /\ pc' = pc /\ frames' = frames /\ overlap' = overlap
         /\ char_rx_value' = char_rx_value /\ rfcomm_channel_id' = rfcomm_channel_id
         /\ outgoing' = outgoing /\ alarms' = alarms /\ sent' = sent
<1>1. con_handle' = FALSE /\ ccc' = FALSE /\ char_rx_value_sending' = FALSE /\ char_rx_value_len' = 0
  BY Zenon DEF DisconnectionComplete
<1>2. 0 \in 0..(U8 - 1)  BY DEF U8
<1>3. /\ clients' = clients /\ pc' = pc /\ frames' = frames /\ overlap' = overlap
      /\ char_rx_value' = char_rx_value /\ rfcomm_channel_id' = rfcomm_channel_id
      /\ outgoing' = outgoing /\ alarms' = alarms /\ sent' = sent
  BY DEF DisconnectionComplete, Nobody
<1>4. con_handle' \in BOOLEAN /\ ccc' \in BOOLEAN /\ char_rx_value_sending' \in BOOLEAN
  BY <1>1
<1> QED  BY <1>1, <1>2, <1>3, <1>4

LEMMA TypesKept ==
  ASSUME TypeOK, CallInv, [Next]_vars
  PROVE  TypeOK'
<1> USE DEF TypeOK, Nobody
<1>1. ASSUME NEW len \in Lens, NEW testTx \in BOOLEAN, HandOver(len, testTx)
      PROVE  TypeOK'
  <2>1. frames' \in Seq(Lens) /\ Len(frames') = Len(frames) + 1  BY <1>1, AppendFrame DEF HandOver
  <2>2. Len(frames') \in Number  BY <1>1, <2>1, BtLinkAssumption DEF HandOver, Number
  <2>3. pc' \in [at: {"idle", "test", "copy", "tail", "request"}, link: Link, frame: Number]
    BY <1>1, <2>2, BtLinkAssumption DEF HandOver, Idle, Link, Number
  <2>4. alarms' \in 0..MaxAlarms  BY <1>1, BtLinkAssumption DEF HandOver
  <2> QED  BY <1>1, <2>1, <2>2, <2>3, <2>4, BtLinkAssumption DEF HandOver, bt, stack, Number
<1>2. CASE TestAttached
  <2>1. pc' \in [at: {"idle", "test", "copy", "tail", "request"}, link: Link, frame: Number]
    BY <1>2, NextLinkType DEF TestAttached
  <2> QED  BY <1>2, <2>1 DEF TestAttached, bt, stack
<1>3. CASE CopyHead
  <2>1. pc' \in [at: {"idle", "test", "copy", "tail", "request"}, link: Link, frame: Number]
    BY <1>3 DEF CopyHead
  <2>2. char_rx_value' \in Number \X Number  BY <1>3 DEF CopyHead
  <2> QED  BY <1>3, <2>1, <2>2 DEF CopyHead, stack
<1>4. CASE CopyTail
  <2>1. CutLen(pc.frame) \in 0..(U8 - 1)  BY <1>4, CutLenType DEF CopyTail, CallInv
  <2>2. pc' \in [at: {"idle", "test", "copy", "tail", "request"}, link: Link, frame: Number]
    BY <1>4 DEF CopyTail
  <2>3. char_rx_value' \in Number \X Number  BY <1>4 DEF CopyTail
  <2> QED  BY <1>4, <2>1, <2>2, <2>3 DEF CopyTail, stack
<1>5. CASE Request
  <2>1. pc' \in [at: {"idle", "test", "copy", "tail", "request"}, link: Link, frame: Number]
    BY <1>5, NextLinkType DEF Request
  <2>2. request' \subseteq Link  BY <1>5 DEF Request
  <2> QED  BY <1>5, <2>1, <2>2 DEF Request, bt
<1>6. ASSUME NEW len \in Lens, SendOurInfo(len)
      PROVE  TypeOK'
  <2>1. frames' \in Seq(Lens) /\ Len(frames') = Len(frames) + 1  BY <1>6, AppendFrame DEF SendOurInfo
  <2>2. Len(frames') \in Number  BY <1>6, <2>1, BtLinkAssumption DEF SendOurInfo, Number
  <2>3. len % U8 \in 0..(U8 - 1)  BY BtLinkAssumption DEF U8
  <2>4. /\ char_rx_value' \in Number \X Number /\ char_rx_value_len' \in 0..(U8 - 1)
    BY <1>6, <2>2, <2>3 DEF SendOurInfo
  <2>5. request' \subseteq Link  BY <1>6 DEF SendOurInfo
  <2>6. alarms' \in 0..MaxAlarms  BY <1>6, BtLinkAssumption DEF SendOurInfo
  <2>7. overlap' \in BOOLEAN  BY <1>6 DEF SendOurInfo
  <2>8. Len(frames') <= MaxFrames  BY <1>6, <2>1, BtLinkAssumption DEF SendOurInfo
  <2>9. /\ clients' = clients /\ con_handle' = con_handle /\ ccc' = ccc
        /\ char_rx_value_sending' = char_rx_value_sending /\ rfcomm_channel_id' = rfcomm_channel_id
        /\ le' = le /\ classic' = classic /\ outgoing' = outgoing /\ pc' = pc /\ left' = left /\ sent' = sent
    BY <1>6 DEF SendOurInfo
  <2> QED  BY <2>1, <2>4, <2>5, <2>6, <2>7, <2>8, <2>9 DEF TypeOK
<1>7. CASE LeConnect
  BY <1>7 DEF LeConnect, bt
<1>8. CASE LeDisconnect
  <2>1. DisconnectionComplete /\ le' = FALSE /\ request' = request \ {"ble"} /\ left' = TRUE /\ classic' = classic
    BY <1>8 DEF LeDisconnect
  <2> QED  BY <2>1, Disconnected
<1>9. CASE ClassicDisconnect
  <2>1. DisconnectionComplete /\ classic' = "down" /\ left' = TRUE /\ le' = le /\ request' = request
    BY <1>9 DEF ClassicDisconnect
  <2> QED  BY <2>1, Disconnected
<1>10. ASSUME NEW on \in BOOLEAN, WriteCcc(on)
       PROVE  TypeOK'
  <2>1. alarms' \in 0..MaxAlarms  BY <1>10, BtLinkAssumption DEF WriteCcc
  <2> QED  BY <1>10, <2>1 DEF WriteCcc, Link
<1>11. ASSUME NEW ok \in BOOLEAN, RfcommChannelOpened(ok)
       PROVE  TypeOK'
  BY <1>11 DEF RfcommChannelOpened, bt
<1>12. CASE AttCanSendNow
  <2>1. sent' \in [Link -> Seq(Packet)]
    BY <1>12, SendingSent DEF AttCanSendNow, Link
  <2>2. request' \subseteq Link
    BY <1>12 DEF AttCanSendNow
  <2>3. char_rx_value_sending' \in BOOLEAN /\ outgoing' \in {"none", "ble", "spp", "other"}
    BY <1>12 DEF AttCanSendNow
  <2>4. UNCHANGED <<clients, con_handle, ccc, char_rx_value, char_rx_value_len,
                    rfcomm_channel_id, le, classic, pc, alarms, frames, overlap, left>>
    BY <1>12 DEF AttCanSendNow
  <2> QED  BY <2>1, <2>2, <2>3, <2>4
<1>13. CASE TransportPacketSent
  BY <1>13 DEF TransportPacketSent, U8
<1>14. CASE OtherPacket
  BY <1>14 DEF OtherPacket, bt
<1>15. CASE RfcommIncomingConnection
  BY <1>15 DEF RfcommIncomingConnection
<1>16. CASE RfcommCanSendNow
  <2>1. sent' \in [Link -> Seq(Packet)]
    BY <1>16, SendingSent DEF RfcommCanSendNow, Link
  <2> QED  BY <1>16, <2>1 DEF RfcommCanSendNow, U8
<1>17. CASE RfcommChannelClosed
  BY <1>17 DEF RfcommChannelClosed
<1>18. CASE UNCHANGED vars
  BY <1>18 DEF vars, bt, stack
<1> QED
  BY <1>1, <1>2, <1>3, <1>4, <1>5, <1>6, <1>7, <1>8, <1>9, <1>10, <1>11, <1>12, <1>13, <1>14,
     <1>15, <1>16, <1>17, <1>18 DEF Next, Main, Stack

---------------------------------------------------------------------------
(* What a step does to the call and to the buffer.                         *)

\* The steps of the main loop, field by field.
LEMMA CallSteps ==
  ASSUME TypeOK, CallInv
  PROVE  /\ TestAttached =>
              /\ pc.at = "test"
              /\ Attached(pc.link) => pc'.at = "copy" /\ pc'.link = pc.link /\ pc'.frame = pc.frame
              /\ ~Attached(pc.link) => pc' = NextLink
         /\ CopyHead => /\ pc.at = "copy" /\ pc'.at = "tail"
                        /\ pc'.link = pc.link /\ pc'.frame = pc.frame
                        /\ char_rx_value'[1] = pc.frame /\ char_rx_value'[2] = char_rx_value[2]
         /\ CopyTail => /\ pc.at = "tail" /\ pc'.at = "request"
                        /\ pc'.link = pc.link /\ pc'.frame = pc.frame
                        /\ char_rx_value'[1] = char_rx_value[1] /\ char_rx_value'[2] = pc.frame
         /\ Request => pc.at = "request" /\ pc' = NextLink
<1>1. /\ pc \in [at: {"idle", "test", "copy", "tail", "request"}, link: Link, frame: Number]
      /\ char_rx_value \in Number \X Number
  BY DEF TypeOK
<1> QED  BY <1>1 DEF TestAttached, CopyHead, CopyTail, Request

\* No callback touches the call, the frames or the bytes in the buffer, and all a
\* callback does to the length is to clear it.
LEMMA StackKeeps ==
  ASSUME Stack
  PROVE  /\ clients' = clients /\ pc' = pc /\ frames' = frames /\ overlap' = overlap
         /\ char_rx_value' = char_rx_value
         /\ char_rx_value_len' \in {char_rx_value_len, 0}
<1>1. ASSUME NEW on \in BOOLEAN, WriteCcc(on) \/ RfcommChannelOpened(on)
      PROVE  /\ Nobody /\ char_rx_value' = char_rx_value
             /\ char_rx_value_len' \in {char_rx_value_len, 0}
  BY <1>1 DEF WriteCcc, RfcommChannelOpened, bt
<1>2. CASE LeDisconnect \/ ClassicDisconnect
  BY <1>2 DEF LeDisconnect, ClassicDisconnect, DisconnectionComplete, Nobody
<1>3. CASE AttCanSendNow \/ RfcommCanSendNow
  BY <1>3 DEF AttCanSendNow, RfcommCanSendNow, Nobody
<1>4. CASE LeConnect \/ TransportPacketSent \/ OtherPacket
  BY <1>4 DEF LeConnect, TransportPacketSent, OtherPacket, bt, Nobody
<1>5. CASE RfcommIncomingConnection \/ RfcommChannelClosed
  BY <1>5 DEF RfcommIncomingConnection, RfcommChannelClosed, Nobody
<1> QED  BY <1>1, <1>2, <1>3, <1>4, <1>5 DEF Stack, Nobody

LEMMA CallKept ==
  ASSUME TypeOK, CallInv, [Next]_vars
  PROVE  CallInv'
<1> USE DEF CallInv
<1>1. pc.frame \in Int /\ Len(frames) \in Nat  BY BtLinkAssumption DEF TypeOK, Number
<1>2. ASSUME NEW len \in Lens, NEW testTx \in BOOLEAN, HandOver(len, testTx)
      PROVE  CallInv'
  <2>1. Len(frames') = Len(frames) + 1  BY <1>2, AppendFrame DEF HandOver, TypeOK
  <2>2. pc' = Idle \/ pc' = [at |-> "test", link |-> "ble", frame |-> Len(frames')]
    BY <1>2 DEF HandOver
  <2>3. Len(frames') \in 1..Len(frames')  BY <1>1, <2>1
  <2> QED  BY <2>2, <2>3 DEF Idle
<1>3. CASE TestAttached
  <2>1. frames' = frames /\ overlap' = overlap  BY <1>3 DEF TestAttached
  <2> QED  BY <1>3, <2>1, CallSteps, NextLinkType DEF Idle, TypeOK, Link
<1>4. CASE CopyHead
  <2>1. frames' = frames /\ overlap' = overlap  BY <1>4 DEF CopyHead
  <2> QED  BY <1>4, <2>1, CallSteps
<1>5. CASE CopyTail
  <2>1. frames' = frames /\ overlap' = overlap  BY <1>5 DEF CopyTail
  <2> QED  BY <1>5, <2>1, CallSteps
<1>6. CASE Request
  <2>1. frames' = frames /\ overlap' = overlap  BY <1>6 DEF Request
  <2> QED  BY <1>6, <2>1, CallSteps, NextLinkType DEF Idle, TypeOK, Link
<1>7. ASSUME NEW len \in Lens, SendOurInfo(len)
      PROVE  CallInv'
  <2>1. Len(frames') = Len(frames) + 1  BY <1>7, AppendFrame DEF SendOurInfo, TypeOK
  <2>2. pc' = pc /\ overlap' = (overlap \/ pc # Idle)  BY <1>7 DEF SendOurInfo
  <2>3. pc.at # "idle" => pc # Idle  BY DEF Idle
  <2>4. pc.at # "idle" => pc.frame \in 1..Len(frames')  BY <1>1, <2>1
  <2> QED  BY <2>2, <2>3, <2>4
<1>8. CASE Stack
  BY <1>8, StackKeeps
<1>9. CASE UNCHANGED vars
  BY <1>9 DEF vars, bt
<1> QED  BY <1>2, <1>3, <1>4, <1>5, <1>6, <1>7, <1>8, <1>9 DEF Next, Main

LEMMA InitCall == Init => CallInv
BY DEF Init, CallInv, Idle

LEMMA BufferKept ==
  ASSUME TypeOK, CallInv, BufferInv, [Next]_vars
  PROVE  BufferInv'
<1> USE DEF BufferInv
<1>1. Len(frames) \in Nat /\ char_rx_value_len \in Nat  BY DEF TypeOK, U8
<1>2. ASSUME NEW len \in Lens, NEW testTx \in BOOLEAN, HandOver(len, testTx)
      PROVE  BufferInv'
  <2>1. Len(frames') = Len(frames) + 1 /\ \A n \in 1..Len(frames) : frames'[n] = frames[n]
    BY <1>2, AppendFrame DEF HandOver, TypeOK
  <2>2. /\ char_rx_value' = char_rx_value /\ char_rx_value_len' = char_rx_value_len /\ overlap' = overlap
        /\ pc = Idle /\ char_rx_value_len > 0 => pc' = Idle
    BY <1>2 DEF HandOver, bt
  <2>3. SUFFICES ASSUME ~overlap, char_rx_value_len > 0
                 PROVE  BufferInv'
    BY <2>2
  <2>4. char_rx_value[1] \in 1..Len(frames')  BY <1>1, <2>1, <2>3
  <2>5. CutLen(char_rx_value[1])' = CutLen(char_rx_value[1])  BY <2>1, <2>2, <2>3 DEF CutLen
  <2> QED  BY <1>2, <2>2, <2>3, <2>4, <2>5 DEF Idle, HandOver
<1>3. CASE TestAttached
  <2>1. UNCHANGED <<char_rx_value, char_rx_value_len, frames, overlap>> BY <1>3 DEF TestAttached, bt
  <2>2. pc'.at # "idle" => pc.at # "idle" /\ pc'.frame = pc.frame
    BY <1>3, CallSteps, NextLinkType DEF Idle, TypeOK, Link
  <2> QED  BY <2>1, <2>2 DEF CutLen
<1>4. CASE CopyHead
  <2>1. UNCHANGED <<char_rx_value_len, frames, overlap>> BY <1>4 DEF CopyHead
  <2> QED  BY <1>4, <2>1, CallSteps DEF CutLen
<1>5. CASE CopyTail
  <2>1. UNCHANGED <<frames, overlap>> /\ char_rx_value_len' = CutLen(pc.frame)  BY <1>5 DEF CopyTail
  <2> QED  BY <1>5, <2>1, CallSteps DEF CutLen, CallInv
<1>6. CASE Request
  <2>1. UNCHANGED <<char_rx_value, char_rx_value_len, frames, overlap>> BY <1>6 DEF Request, bt
  <2>2. pc'.at # "idle" => pc.at # "idle" /\ pc'.frame = pc.frame
    BY <1>6, CallSteps, NextLinkType DEF Idle, TypeOK, Link
  <2> QED  BY <2>1, <2>2 DEF CutLen
<1>7. ASSUME NEW len \in Lens, SendOurInfo(len)
      PROVE  BufferInv'
  <2>1. /\ Len(frames') = Len(frames) + 1 /\ frames'[Len(frames')] = len
        /\ \A n \in 1..Len(frames) : frames'[n] = frames[n]
    BY <1>7, AppendFrame DEF SendOurInfo, TypeOK
  <2>2. SUFFICES ASSUME ~overlap', char_rx_value_len' > 0
                 PROVE  BufferInv'
    OBVIOUS
  <2>3. pc' = Idle /\ ~overlap  BY <1>7, <2>2 DEF SendOurInfo
  <2>4. CASE UNCHANGED <<char_rx_value, char_rx_value_len>>
    <3>1. char_rx_value[1] \in 1..Len(frames) /\ char_rx_value[1] \in 1..Len(frames')
      BY <1>1, <2>1, <2>2, <2>3, <2>4
    <3>2. CutLen(char_rx_value[1])' = CutLen(char_rx_value[1])  BY <2>1, <2>4, <3>1 DEF CutLen
    <3> QED  BY <2>2, <2>3, <2>4, <3>1, <3>2 DEF Idle
  <2>5. CASE char_rx_value' = <<Len(frames'), Len(frames')>> /\ char_rx_value_len' = len % U8
    <3>1. Len(frames') \in 1..Len(frames')  BY <1>1, <2>1
    <3> QED  BY <2>1, <2>3, <2>5, <3>1 DEF CutLen, Idle
  <2> QED  BY <1>7, <2>4, <2>5 DEF SendOurInfo
<1>8. CASE Stack
  BY <1>8, StackKeeps DEF CutLen
<1>9. CASE UNCHANGED vars
  BY <1>9 DEF vars, bt, CutLen
<1> QED  BY <1>2, <1>3, <1>4, <1>5, <1>6, <1>7, <1>8, <1>9 DEF Next, Main

\* Only two callbacks send anything.
LEMMA StackSends ==
  ASSUME Stack
  PROVE  \/ sent' = sent
         \/ AttCanSendNow /\ Sending("ble")
         \/ RfcommCanSendNow /\ Sending("spp")
<1>1. ASSUME NEW on \in BOOLEAN, WriteCcc(on) \/ RfcommChannelOpened(on)
      PROVE  sent' = sent
  BY <1>1 DEF WriteCcc, RfcommChannelOpened
<1>2. CASE LeDisconnect \/ ClassicDisconnect
  BY <1>2 DEF LeDisconnect, ClassicDisconnect, DisconnectionComplete
<1>3. CASE AttCanSendNow \/ RfcommCanSendNow
  BY <1>3 DEF AttCanSendNow, RfcommCanSendNow
<1>4. CASE LeConnect \/ TransportPacketSent \/ OtherPacket
  BY <1>4 DEF LeConnect, TransportPacketSent, OtherPacket
<1>5. CASE RfcommIncomingConnection \/ RfcommChannelClosed
  BY <1>5 DEF RfcommIncomingConnection, RfcommChannelClosed
<1> QED  BY <1>1, <1>2, <1>3, <1>4, <1>5 DEF Stack

\* The buffer goes to one more link: the new packet is of one frame, and the newest.
LEMMA SentBuffer ==
  ASSUME TypeOK, BufferInv, SentInv, NEW to \in Link, Sending(to),
         frames' = frames, overlap' = overlap, char_rx_value' = char_rx_value,
         char_rx_value_len' \in {char_rx_value_len, 0}
  PROVE  SentInv'
<1>1. CASE char_rx_value_len = 0 \/ overlap
  <2>1. CASE overlap
    BY <2>1 DEF SentInv
  <2>2. CASE char_rx_value_len = 0
    <3>1. sent' = sent /\ char_rx_value_len' = 0  BY <2>2, SendingSent
    <3> QED  BY <2>2, <3>1 DEF SentInv, OfOneFrame, CutLen
  <2> QED  BY <1>1, <2>1, <2>2
<1>2. CASE char_rx_value_len > 0 /\ ~overlap
  <2> DEFINE new == sent'[to]
             n   == Len(sent[to])
  <2>1. /\ sent[to] \in Seq(Packet) /\ new \in Seq(Packet) /\ n \in Nat /\ Len(new) = n + 1
        /\ \A i \in 1..n : new[i] = sent[to][i]
        /\ new[n + 1] = Content
        /\ \A link \in Link : link # to => sent'[link] = sent[link]
    BY <1>2, SendingSent DEF TypeOK
  <2>2. /\ char_rx_value[1] = char_rx_value[2] /\ char_rx_value[1] \in 1..Len(frames)
        /\ char_rx_value_len = CutLen(char_rx_value[1])
    BY <1>2 DEF BufferInv
  <2>3. /\ OfOneFrame(Content) /\ Content.head = char_rx_value[1]
    BY <2>2 DEF OfOneFrame, Content
  <2>4. \A i \in 1..n : /\ OfOneFrame(sent[to][i]) /\ sent[to][i].head \in 1..Len(frames)
                       /\ sent[to][i].head <= char_rx_value[1]
                       /\ \A j \in 1..n : i < j => sent[to][i].head <= sent[to][j].head
    BY <1>2, <2>1 DEF SentInv
  <2> HIDE DEF new, n
  <2>5. \A i \in 1..(n + 1) : OfOneFrame(new[i]) /\ new[i].head \in 1..Len(frames)
    BY <2>1, <2>2, <2>3, <2>4
  <2>6. \A i \in 1..(n + 1) : new[i].head <= char_rx_value[1]
    BY <2>1, <2>2, <2>3, <2>4
  <2>7. ASSUME NEW i \in 1..(n + 1), NEW j \in 1..(n + 1), i < j
        PROVE  new[i].head <= new[j].head
    <3>1. i \in 1..n /\ (j \in 1..n \/ j = n + 1)  BY <2>1, <2>7
    <3>2. CASE j \in 1..n
      BY <2>1, <2>4, <2>7, <3>1, <3>2
    <3>3. CASE j = n + 1
      BY <2>1, <2>3, <2>4, <3>1, <3>3
    <3> QED  BY <3>1, <3>2, <3>3
  <2>8. DOMAIN new = 1..(n + 1)  BY <2>1
  <2>9. \A link \in Link : \A i \in DOMAIN sent'[link] :
          /\ OfOneFrame(sent'[link][i]) /\ sent'[link][i].head \in 1..Len(frames)
          /\ sent'[link][i].head <= char_rx_value[1]
          /\ \A j \in DOMAIN sent'[link] : i < j => sent'[link][i].head <= sent'[link][j].head
    <3>1. ASSUME NEW link \in Link, link # to
          PROVE  \A i \in DOMAIN sent'[link] :
                   /\ OfOneFrame(sent'[link][i]) /\ sent'[link][i].head \in 1..Len(frames)
                   /\ sent'[link][i].head <= char_rx_value[1]
                   /\ \A j \in DOMAIN sent'[link] : i < j => sent'[link][i].head <= sent'[link][j].head
      BY <1>2, <2>1, <3>1 DEF SentInv
    <3>2. \A i \in DOMAIN sent'[to] :
            /\ OfOneFrame(sent'[to][i]) /\ sent'[to][i].head \in 1..Len(frames)
            /\ sent'[to][i].head <= char_rx_value[1]
            /\ \A j \in DOMAIN sent'[to] : i < j => sent'[to][i].head <= sent'[to][j].head
      BY <2>5, <2>6, <2>7, <2>8 DEF new
    <3> QED  BY <3>1, <3>2
  <2> QED  BY <2>9 DEF SentInv, OfOneFrame, CutLen
<1>3. char_rx_value_len \in Nat  BY DEF TypeOK, U8
<1> QED  BY <1>1, <1>2, <1>3

\* A frame is handed over while nothing is sent.
LEMMA SentLater ==
  ASSUME TypeOK, SentInv, sent' = sent, overlap' \/ ~overlap,
         Len(frames') \in Nat, Len(frames') >= Len(frames),
         \A n \in 1..Len(frames) : frames'[n] = frames[n],
         ~overlap' /\ char_rx_value_len' > 0 =>
           \/ char_rx_value_len > 0 /\ char_rx_value'[1] = char_rx_value[1]
           \/ char_rx_value'[1] \in Nat /\ char_rx_value'[1] >= Len(frames)
  PROVE  SentInv'
<1> SUFFICES ASSUME ~overlap', ~overlap, NEW link \in Link, NEW i \in DOMAIN sent[link]
             PROVE  /\ OfOneFrame(sent[link][i])'
                    /\ sent[link][i].head \in 1..Len(frames')
                    /\ char_rx_value_len' > 0 => sent[link][i].head <= char_rx_value'[1]
                    /\ \A j \in DOMAIN sent[link] : i < j => sent[link][i].head <= sent[link][j].head
  BY DEF SentInv
<1>1. /\ OfOneFrame(sent[link][i]) /\ sent[link][i].head \in 1..Len(frames)
      /\ char_rx_value_len > 0 => sent[link][i].head <= char_rx_value[1]
      /\ \A j \in DOMAIN sent[link] : i < j => sent[link][i].head <= sent[link][j].head
  BY DEF SentInv
<1>2. Len(frames) \in Nat  BY DEF TypeOK
<1>3. OfOneFrame(sent[link][i])'  BY <1>1 DEF OfOneFrame, CutLen
<1>4. sent[link][i].head \in 1..Len(frames')  BY <1>1, <1>2
<1>5. char_rx_value_len' > 0 => sent[link][i].head <= char_rx_value'[1]  BY <1>1, <1>2
<1> QED  BY <1>1, <1>3, <1>4, <1>5

LEMMA SentKept ==
  ASSUME TypeOK, CallInv, BufferInv, SentInv, [Next]_vars
  PROVE  SentInv'
<1>1. Len(frames) \in Nat /\ char_rx_value_len \in Nat /\ overlap \in BOOLEAN  BY DEF TypeOK, U8
<1>2. ASSUME NEW len \in Lens, NEW testTx \in BOOLEAN, HandOver(len, testTx)
      PROVE  SentInv'
  <2>1. Len(frames') = Len(frames) + 1 /\ \A n \in 1..Len(frames) : frames'[n] = frames[n]
    BY <1>2, AppendFrame DEF HandOver, TypeOK
  <2>2. UNCHANGED <<char_rx_value, char_rx_value_len, overlap, sent>>  BY <1>2 DEF HandOver, bt
  <2> QED  BY <1>1, <2>1, <2>2, SentLater
<1>3. CASE TestAttached \/ Request
  <2>1. UNCHANGED <<char_rx_value, char_rx_value_len, overlap, sent, frames>>
    BY <1>3 DEF TestAttached, Request, bt
  <2> QED  BY <1>1, <2>1, SentLater
<1>4. CASE CopyHead
  <2>1. UNCHANGED <<char_rx_value_len, overlap, sent, frames>> BY <1>4 DEF CopyHead
  <2>2. ~overlap /\ char_rx_value_len > 0 => char_rx_value'[1] = char_rx_value[1]
    BY <1>4, CallSteps DEF BufferInv
  <2> QED  BY <1>1, <2>1, <2>2, SentLater
<1>5. CASE CopyTail
  <2>1. UNCHANGED <<overlap, sent, frames>> BY <1>5 DEF CopyTail
  <2>2. ~overlap => char_rx_value'[1] = Len(frames)
    BY <1>5, CallSteps DEF CallInv
  <2> QED  BY <1>1, <2>1, <2>2, SentLater
<1>6. ASSUME NEW len \in Lens, SendOurInfo(len)
      PROVE  SentInv'
  <2>1. Len(frames') = Len(frames) + 1 /\ \A n \in 1..Len(frames) : frames'[n] = frames[n]
    BY <1>6, AppendFrame DEF SendOurInfo, TypeOK
  <2>2. sent' = sent /\ (overlap' \/ ~overlap)  BY <1>6 DEF SendOurInfo
  <2>3. \/ UNCHANGED <<char_rx_value, char_rx_value_len>>
        \/ char_rx_value'[1] = Len(frames')
    BY <1>6 DEF SendOurInfo
  <2> QED  BY <1>1, <2>1, <2>2, <2>3, SentLater
<1>7. CASE Stack
  <2>1. CASE sent' = sent
    BY <1>1, <1>7, <2>1, StackKeeps, SentLater
  <2>2. CASE Sending("ble") \/ Sending("spp")
    BY <1>7, <2>2, StackKeeps, SentBuffer DEF Link
  <2> QED  BY <1>7, <2>1, <2>2, StackSends
<1>8. CASE UNCHANGED vars
  BY <1>1, <1>8, SentLater DEF vars, bt
<1> QED  BY <1>2, <1>3, <1>4, <1>5, <1>6, <1>7, <1>8 DEF Next, Main

---------------------------------------------------------------------------
(* The clients, and what is in flight.                                     *)

LEMMA ClientKept ==
  ASSUME TypeOK, CallInv, ClientInv, [Next]_vars
  PROVE  ClientInv'
<1> USE DEF ClientInv
<1>1. ASSUME NEW len \in Lens, NEW testTx \in BOOLEAN, HandOver(len, testTx)
      PROVE  ClientInv'
  BY <1>1 DEF HandOver, bt, stack, Copying, Idle
<1>2. CASE TestAttached
  <2>1. Copying' => Attached(pc.link) /\ pc'.link = pc.link
    BY <1>2, CallSteps, NextLinkType DEF Copying, Idle, TypeOK, Link
  <2> QED  BY <1>2, <2>1 DEF TestAttached, bt, stack, Attached
<1>3. CASE CopyHead
  BY <1>3, CallSteps DEF CopyHead, stack, Attached, Copying
<1>4. CASE CopyTail
  BY <1>4, CallSteps DEF CopyTail, stack, Attached, Copying
<1>5. CASE Request
  <2>1. ~Copying'  BY <1>5, CallSteps, NextLinkType DEF Copying, Idle, TypeOK, Link
  <2>2. pc.link = "ble" /\ ~left => ccc  BY <1>5, CallSteps DEF Copying, Attached
  <2>3. "ble" \in request' => "ble" \in request \/ pc.link = "ble"  BY <1>5 DEF Request
  <2> QED  BY <1>5, <2>1, <2>2, <2>3 DEF Request, bt
<1>6. ASSUME NEW len \in Lens, SendOurInfo(len)
      PROVE  ClientInv'
  <2>1. "ble" \in request' => "ble" \in request \/ ccc  BY <1>6 DEF SendOurInfo, Attached
  <2>2. UNCHANGED <<con_handle, ccc, char_rx_value_sending, rfcomm_channel_id, classic, outgoing, pc, left>>
    BY <1>6 DEF SendOurInfo
  <2> QED  BY <2>1, <2>2 DEF Copying, Attached
<1>7. CASE LeConnect \/ OtherPacket
  BY <1>7 DEF LeConnect, OtherPacket, bt, Nobody, Copying, Attached
<1>8. CASE LeDisconnect \/ ClassicDisconnect
  <2>1. DisconnectionComplete /\ left' = TRUE  BY <1>8 DEF LeDisconnect, ClassicDisconnect
  <2> QED  BY <2>1, Disconnected
<1>9. ASSUME NEW on \in BOOLEAN, WriteCcc(on)
      PROVE  ClientInv'
  <2>1. /\ ccc' = on /\ con_handle' = TRUE /\ left' = (left \/ ~on)
        /\ UNCHANGED <<pc, char_rx_value_sending, rfcomm_channel_id, classic, outgoing>>
    BY <1>9 DEF WriteCcc, Nobody
  <2> QED  BY <2>1 DEF Copying, Attached
<1>10. ASSUME NEW ok \in BOOLEAN, RfcommChannelOpened(ok)
       PROVE  ClientInv'
  <2>1. /\ left' = (left \/ ~ok) /\ classic' = (IF ok THEN "open" ELSE "acl")
        /\ "ble" \in request' => "ble" \in request
        /\ UNCHANGED <<pc, con_handle, ccc, char_rx_value_sending, rfcomm_channel_id, outgoing>>
    BY <1>10 DEF RfcommChannelOpened, Nobody, bt
  <2> QED  BY <2>1 DEF Copying, Attached
<1>11. CASE AttCanSendNow
  BY <1>11 DEF AttCanSendNow, Nobody, Copying, Attached
<1>12. CASE TransportPacketSent
  BY <1>12 DEF TransportPacketSent, Nobody, Copying, Attached
<1>13. CASE RfcommIncomingConnection
  BY <1>13 DEF RfcommIncomingConnection, Nobody, Copying, Attached
<1>14. CASE RfcommCanSendNow
  BY <1>14 DEF RfcommCanSendNow, Nobody, Copying, Attached
<1>15. CASE RfcommChannelClosed
  BY <1>15 DEF RfcommChannelClosed, Nobody
<1>16. CASE UNCHANGED vars
  BY <1>16 DEF vars, bt, stack, Copying, Attached
<1> QED
  BY <1>1, <1>2, <1>3, <1>4, <1>5, <1>6, <1>7, <1>8, <1>9, <1>10, <1>11, <1>12, <1>13, <1>14,
     <1>15, <1>16 DEF Next, Main, Stack

LEMMA FlightKept ==
  ASSUME TypeOK, CallInv, ClientInv, FlightInv, [Next]_vars
  PROVE  FlightInv'
<1> USE DEF FlightInv, InFlight
<1>1. char_rx_value_len \in Nat /\ overlap \in BOOLEAN /\ left \in BOOLEAN  BY DEF TypeOK, U8
<1>2. ASSUME NEW len \in Lens, NEW testTx \in BOOLEAN, HandOver(len, testTx)
      PROVE  FlightInv'
  BY <1>2 DEF HandOver, bt, stack, Idle
<1>3. CASE TestAttached
  <2>1. pc.at = "test" /\ UNCHANGED <<char_rx_value_len, request, outgoing, left, overlap>>
    BY <1>3 DEF TestAttached, bt, stack
  <2> QED  BY <2>1
<1>4. CASE CopyHead
  BY <1>4 DEF CopyHead, stack
<1>5. CASE CopyTail
  BY <1>5, CallSteps
<1>6. CASE Request
  <2>1. UNCHANGED <<char_rx_value_len, outgoing, left, overlap>>  BY <1>6 DEF Request, bt
  <2>2. ~left => Known(pc.link)
    <3>1. ~left => Attached(pc.link)  BY <1>6, CallSteps DEF ClientInv, Copying
    <3> QED  BY <3>1 DEF ClientInv, Attached, Known
  <2>3. ~left => request' # {}  BY <1>6, <2>2 DEF Request
  <2> QED  BY <2>1, <2>3
<1>7. ASSUME NEW len \in Lens, SendOurInfo(len)
      PROVE  FlightInv'
  <2> DEFINE links == {link \in Link : char_rx_value_len = 0 /\ Attached(link)}
  <2>1. /\ UNCHANGED <<outgoing, left, pc>> /\ request' = request \cup {link \in links : Known(link)}
        /\ overlap' = (overlap \/ pc # Idle)
        /\ links = {} => char_rx_value_len' = char_rx_value_len
    BY <1>7 DEF SendOurInfo
  <2>2. \A link \in links : ~left => Known(link)  BY DEF ClientInv, Attached, Known
  <2>3. CASE links = {}
    BY <2>1, <2>3
  <2>4. CASE links # {}
    <3>1. ~left => request' # {}  BY <2>1, <2>2, <2>4
    <3> QED  BY <2>1, <3>1
  <2> QED  BY <2>3, <2>4
<1>8. CASE LeConnect \/ OtherPacket \/ RfcommIncomingConnection
  BY <1>8 DEF LeConnect, OtherPacket, RfcommIncomingConnection, bt, Nobody
<1>9. CASE LeDisconnect \/ ClassicDisconnect
  BY <1>9 DEF LeDisconnect, ClassicDisconnect, DisconnectionComplete
<1>10. ASSUME NEW on \in BOOLEAN, WriteCcc(on)
       PROVE  FlightInv'
  <2>1. left' = (left \/ ~on) /\ request \subseteq request'
        /\ UNCHANGED <<char_rx_value_len, outgoing, overlap, pc>>
    BY <1>10 DEF WriteCcc, Nobody
  <2> QED  BY <2>1
<1>11. ASSUME NEW ok \in BOOLEAN, RfcommChannelOpened(ok)
       PROVE  FlightInv'
  <2>1. left' = (left \/ ~ok) /\ (ok => request' = request)
        /\ UNCHANGED <<char_rx_value_len, outgoing, overlap, pc>>
    BY <1>11 DEF RfcommChannelOpened, Nobody, bt
  <2> QED  BY <2>1
<1>12. CASE AttCanSendNow
  <2>1. char_rx_value_len > 0 /\ ~left => con_handle /\ ccc  BY <1>12 DEF AttCanSendNow, ClientInv
  <2>2. char_rx_value_len' = char_rx_value_len /\ left' = left  BY <1>12 DEF AttCanSendNow
  <2>3. char_rx_value_len > 0 /\ ~left => outgoing' = "ble"  BY <1>12, <2>1 DEF AttCanSendNow
  <2> QED  BY <2>2, <2>3
<1>13. CASE TransportPacketSent
  <2>1. UNCHANGED <<request, pc, overlap, left>>
        /\ char_rx_value_len' = (IF char_rx_value_sending THEN 0 ELSE char_rx_value_len)
    BY <1>13 DEF TransportPacketSent, Nobody
  <2> QED  BY <2>1 DEF ClientInv
<1>14. CASE RfcommCanSendNow
  BY <1>14 DEF RfcommCanSendNow
<1>15. CASE RfcommChannelClosed
  BY <1>15 DEF RfcommChannelClosed
<1>16. CASE UNCHANGED vars
  BY <1>16 DEF vars, bt, stack
<1> QED
  BY <1>2, <1>3, <1>4, <1>5, <1>6, <1>7, <1>8, <1>9, <1>10, <1>11, <1>12, <1>13, <1>14, <1>15,
     <1>16 DEF Next, Main, Stack

---------------------------------------------------------------------------
(* One kind of client.                                                     *)

LEMMA ClientsStay ==
  ASSUME [Next]_vars
  PROVE  clients' = clients /\ (overlap' \/ ~overlap)
<1>1. ASSUME NEW len \in Lens, NEW testTx \in BOOLEAN, HandOver(len, testTx)
      PROVE  clients' = clients /\ overlap' = overlap
  BY <1>1 DEF HandOver
<1>2. ASSUME NEW len \in Lens, SendOurInfo(len)
      PROVE  clients' = clients /\ (overlap' \/ ~overlap)
  BY <1>2 DEF SendOurInfo
<1>3. CASE TestAttached \/ CopyHead \/ CopyTail \/ Request
  BY <1>3 DEF TestAttached, CopyHead, CopyTail, Request
<1>4. CASE UNCHANGED vars
  BY <1>4 DEF vars
<1> QED  BY <1>1, <1>2, <1>3, <1>4, StackKeeps DEF Next, Main

LEMMA OnlyKept ==
  ASSUME TypeOK, OnlyInv, [Next]_vars
  PROVE  OnlyInv'
<1>1. clients' = clients  BY ClientsStay
<1> SUFFICES ASSUME NEW c \in Link, clients = {c}, Only(c)
             PROVE  Only(c)'
  BY <1>1 DEF OnlyInv
<1> USE DEF Only
<1>2. ASSUME NEW len \in Lens, NEW testTx \in BOOLEAN, HandOver(len, testTx)
      PROVE  Only(c)'
  BY <1>2 DEF HandOver, bt, stack
<1>3. CASE TestAttached \/ CopyHead \/ CopyTail
  BY <1>3 DEF TestAttached, CopyHead, CopyTail, bt, stack
<1>4. CASE Request
  <2>1. UNCHANGED <<rfcomm_channel_id, classic, ccc, le, con_handle>>
    BY <1>4 DEF Request, bt
  <2>2. c = "ble" => "spp" \notin request'  BY <1>4 DEF Request, Known
  <2>3. c = "spp" => "ble" \notin request'  BY <1>4 DEF Request, Known
  <2> QED  BY <1>1, <2>1, <2>2, <2>3
<1>5. ASSUME NEW len \in Lens, SendOurInfo(len)
      PROVE  Only(c)'
  <2>1. UNCHANGED <<rfcomm_channel_id, classic, ccc, le, con_handle>>
        /\ \A link \in request' : link \in request \/ Known(link)
    BY <1>5 DEF SendOurInfo
  <2> QED  BY <1>1, <2>1 DEF Known
<1>6. CASE LeConnect \/ OtherPacket
  BY <1>1, <1>6 DEF LeConnect, OtherPacket, bt
<1>7. CASE LeDisconnect
  <2>1. DisconnectionComplete /\ le /\ request' = request \ {"ble"} /\ classic' = classic
    BY <1>7 DEF LeDisconnect
  <2> QED  BY <1>1, <2>1, Disconnected
<1>8. CASE ClassicDisconnect
  <2>1. DisconnectionComplete /\ classic = "acl" /\ request' = request /\ le' = le
    BY <1>8 DEF ClassicDisconnect
  <2> QED  BY <1>1, <2>1, Disconnected DEF Link
<1>9. ASSUME NEW on \in BOOLEAN, WriteCcc(on) \/ RfcommChannelOpened(on)
      PROVE  Only(c)'
  <2>1. CASE WriteCcc(on)
    <3>1. le /\ UNCHANGED <<rfcomm_channel_id, classic>> /\ ("spp" \in request' => "spp" \in request)
      BY <2>1 DEF WriteCcc
    <3> QED  BY <1>1, <3>1
  <2>2. CASE RfcommChannelOpened(on)
    <3>1. classic = "opening" /\ UNCHANGED <<ccc, le, con_handle>>
          /\ ("ble" \in request' => "ble" \in request)
      BY <2>2 DEF RfcommChannelOpened, bt
    <3> QED  BY <1>1, <3>1
  <2> QED  BY <1>9, <2>1, <2>2
<1>10. CASE AttCanSendNow
  BY <1>1, <1>10 DEF AttCanSendNow
<1>11. CASE TransportPacketSent
  BY <1>1, <1>11 DEF TransportPacketSent
<1>12. CASE RfcommIncomingConnection
  <2>1. "spp" \in clients /\ UNCHANGED <<ccc, le, con_handle, request>>
    BY <1>12 DEF RfcommIncomingConnection
  <2> QED  BY <1>1, <2>1
<1>13. CASE RfcommCanSendNow
  BY <1>1, <1>13 DEF RfcommCanSendNow
<1>14. CASE RfcommChannelClosed
  <2>1. classic = "open" /\ UNCHANGED <<ccc, le, con_handle>> /\ request' = request \ {"spp"}
    BY <1>14 DEF RfcommChannelClosed
  <2> QED  BY <1>1, <2>1
<1>15. CASE UNCHANGED vars
  BY <1>15 DEF vars, bt, stack
<1> QED
  BY <1>2, <1>3, <1>4, <1>5, <1>6, <1>7, <1>8, <1>9, <1>10, <1>11, <1>12, <1>13, <1>14,
     <1>15 DEF Next, Main, Stack

\* What a callback does to a packet on its way to the BLE client.
LEMMA StackOnTheWay ==
  ASSUME Stack, sent' = sent, NEW c \in Link, char_rx_value_len' > 0, OnTheWay(c)
  PROVE  OnTheWay(c)'
<1> USE DEF OnTheWay
<1>1. ASSUME NEW on \in BOOLEAN, WriteCcc(on) \/ RfcommChannelOpened(on)
      PROVE  OnTheWay(c)'
  BY <1>1 DEF WriteCcc, RfcommChannelOpened, bt
<1>2. CASE LeDisconnect \/ ClassicDisconnect
  BY <1>2 DEF LeDisconnect, ClassicDisconnect, DisconnectionComplete
<1>3. CASE AttCanSendNow \/ RfcommCanSendNow
  BY <1>3 DEF AttCanSendNow, RfcommCanSendNow
<1>4. CASE LeConnect
  BY <1>4 DEF LeConnect, bt
<1>5. CASE OtherPacket
  BY <1>5 DEF OtherPacket
<1>6. CASE TransportPacketSent
  <2>1. char_rx_value_len' = IF char_rx_value_sending THEN 0 ELSE char_rx_value_len
    BY <1>6 DEF TransportPacketSent
  <2>2. char_rx_value_len' = 0  BY <2>1
  <2> QED  BY <2>2
<1>7. CASE RfcommIncomingConnection \/ RfcommChannelClosed
  BY <1>7 DEF RfcommIncomingConnection, RfcommChannelClosed
<1> QED  BY <1>1, <1>2, <1>3, <1>4, <1>5, <1>6, <1>7 DEF Stack

\* A frame that no packet to the client is as new as is sent to it.
LEMMA SentOnce ==
  ASSUME TypeOK, NEW c \in Link, Sending(c), char_rx_value_len > 0,
         Below(c, char_rx_value[1]), Increasing(c)
  PROVE  Increasing(c)'
<1> DEFINE old == sent[c]
           new == sent'[c]
           n   == Len(sent[c])
<1>1. /\ old \in Seq(Packet) /\ new \in Seq(Packet) /\ n \in Nat /\ Len(new) = n + 1 /\ Len(old) = n
      /\ \A i \in 1..n : new[i] = old[i]
      /\ new[n + 1] = Content
  BY SendingSent DEF TypeOK
<1>2. Content.head = char_rx_value[1]  BY DEF Content
<1>3. \A i \in 1..n : old[i].head < char_rx_value[1]  BY <1>1 DEF Below
<1>4. \A i, j \in 1..n : i < j => old[i].head < old[j].head  BY <1>1 DEF Increasing
<1>5. DOMAIN new = 1..(n + 1)  BY <1>1
<1> HIDE DEF old, new, n
<1>6. ASSUME NEW i \in 1..(n + 1), NEW j \in 1..(n + 1), i < j
      PROVE  new[i].head < new[j].head
  <2>1. i \in 1..n /\ (j \in 1..n \/ j = n + 1)  BY <1>1, <1>6
  <2>2. CASE j \in 1..n
    BY <1>1, <1>4, <1>6, <2>1, <2>2
  <2>3. CASE j = n + 1
    BY <1>1, <1>2, <1>3, <2>1, <2>3
  <2> QED  BY <2>1, <2>2, <2>3
<1> QED  BY <1>5, <1>6 DEF new, Increasing

LEMMA OnceKept ==
  ASSUME TypeOK, CallInv, BufferInv, SentInv, OnlyInv, OnceInv, [Next]_vars
  PROVE  OnceInv'
<1>1. clients' = clients /\ (overlap' \/ ~overlap)  BY ClientsStay
<1> SUFFICES ASSUME NEW c \in Link, clients = {c}, ~overlap, ~overlap', Once(c), Only(c)
             PROVE  Once(c)'
  BY <1>1 DEF OnceInv, OnlyInv
<1>2. /\ Len(frames) \in Nat /\ char_rx_value_len \in Nat
      /\ pc \in [at: {"idle", "test", "copy", "tail", "request"}, link: Link, frame: Number]
  BY DEF TypeOK, U8
<1>3. Below(c, Len(frames) + 1)
  <2>1. \A i \in DOMAIN sent[c] : sent[c][i].head \in 1..Len(frames)  BY DEF SentInv
  <2> QED  BY <1>2, <2>1 DEF Below
<1>4. ASSUME sent' = sent,
             Copying' => pc'.link = c,
             Trying(c)' => char_rx_value_len' = 0 /\ Below(c, pc'.frame),
             char_rx_value_len' > 0 => Below(c, char_rx_value'[1]) \/ OnTheWay(c)'
      PROVE  Once(c)'
  BY <1>4 DEF Once, Below, Increasing
<1> DEFINE Free == char_rx_value_len > 0 => Below(c, char_rx_value[1]) \/ OnTheWay(c)
<1>5. Free  BY DEF Once
<1>6. ASSUME NEW len \in Lens, NEW testTx \in BOOLEAN, HandOver(len, testTx)
      PROVE  Once(c)'
  <2>1. Len(frames') = Len(frames) + 1  BY <1>6, AppendFrame DEF HandOver, TypeOK
  <2>2. UNCHANGED <<sent, char_rx_value, char_rx_value_len, outgoing, char_rx_value_sending>>
    BY <1>6 DEF HandOver, bt, stack
  <2>3. pc' = IF char_rx_value_len > 0 THEN Idle
              ELSE [at |-> "test", link |-> "ble", frame |-> Len(frames) + 1]
    BY <1>6, <2>1 DEF HandOver
  <2>4. ~Copying' /\ (Trying(c)' => char_rx_value_len = 0 /\ pc'.frame = Len(frames) + 1)
    BY <1>2, <2>3 DEF Copying, Trying, Idle
  <2> QED  BY <1>3, <1>4, <1>5, <2>2, <2>4 DEF OnTheWay
<1>7. CASE TestAttached
  <2>1. UNCHANGED <<sent, char_rx_value, char_rx_value_len, outgoing, char_rx_value_sending>>
    BY <1>7 DEF TestAttached, bt, stack
  <2>2. Attached(pc.link) => pc.link = c  BY <1>2 DEF Only, Attached, Link
  <2>3. (Copying' => pc'.link = c) /\ (Trying(c)' => Trying(c) /\ pc'.frame = pc.frame)
    BY <1>2, <1>7, <2>2, CallSteps, NextLinkType DEF Copying, Trying, Idle, Link
  <2> QED  BY <1>4, <1>5, <2>1, <2>3 DEF OnTheWay, Once
<1>8. CASE CopyHead
  <2>1. UNCHANGED <<sent, char_rx_value_len>>  BY <1>8 DEF CopyHead
  <2>2. pc.link = c /\ pc'.link = c /\ pc.at = "copy" /\ pc'.at = "tail" /\ pc'.frame = pc.frame
    BY <1>8, CallSteps DEF Once, Copying
  <2>3. char_rx_value_len = 0 /\ Below(c, pc.frame)  BY <2>2 DEF Once, Trying
  <2> QED  BY <1>4, <2>1, <2>2, <2>3
<1>9. CASE CopyTail
  <2>1. sent' = sent /\ char_rx_value'[1] = char_rx_value[1]  BY <1>9, CallSteps DEF CopyTail
  <2>2. pc.link = c /\ pc'.link = c /\ pc.at = "tail" /\ pc'.at = "request"
    BY <1>9, CallSteps DEF Once, Copying
  <2>3. Below(c, pc.frame) /\ char_rx_value[1] = pc.frame  BY <2>2 DEF Once, Trying, CallInv
  <2>4. ~Trying(c)'  BY <2>2 DEF Trying
  <2> QED  BY <1>4, <2>1, <2>2, <2>3, <2>4
<1>10. CASE Request
  <2>1. UNCHANGED <<sent, char_rx_value, char_rx_value_len, outgoing, char_rx_value_sending>>
    BY <1>10 DEF Request, bt
  <2>2. pc.link = c /\ pc' = NextLink  BY <1>10, CallSteps DEF Once, Copying
  <2>3. ~Copying' /\ ~Trying(c)'
    BY <1>2, <2>2, NextLinkType DEF Copying, Trying, Idle, Link
  <2> QED  BY <1>4, <1>5, <2>1, <2>3 DEF OnTheWay
<1>11. ASSUME NEW len \in Lens, SendOurInfo(len)
       PROVE  Once(c)'
  <2>1. Len(frames') = Len(frames) + 1  BY <1>11, AppendFrame DEF SendOurInfo, TypeOK
  <2>2. pc' = Idle /\ UNCHANGED <<sent, outgoing, char_rx_value_sending>>
    BY <1>11 DEF SendOurInfo
  <2>3. ~Copying' /\ ~Trying(c)'  BY <2>2 DEF Copying, Trying, Idle
  <2>4. CASE UNCHANGED <<char_rx_value, char_rx_value_len>>
    BY <1>4, <1>5, <2>2, <2>3, <2>4 DEF OnTheWay
  <2>5. CASE char_rx_value' = <<Len(frames'), Len(frames')>>
    <3>1. char_rx_value'[1] = Len(frames) + 1  BY <2>1, <2>5
    <3> QED  BY <1>3, <1>4, <2>2, <2>3, <3>1
  <2> QED  BY <1>11, <2>4, <2>5 DEF SendOurInfo
<1>12. CASE Stack
  <2>1. /\ pc' = pc /\ char_rx_value' = char_rx_value
        /\ char_rx_value_len' \in {char_rx_value_len, 0}
    BY <1>12, StackKeeps
  <2>2. Copying' => pc'.link = c  BY <2>1 DEF Once, Copying
  <2>3. Trying(c)' => Trying(c) /\ char_rx_value_len' = 0 /\ Below(c, pc'.frame)
    BY <2>1 DEF Once, Trying
  <2>4. CASE sent' = sent
    <3>1. char_rx_value_len' > 0 => Below(c, char_rx_value'[1]) \/ OnTheWay(c)'
      BY <1>5, <1>12, <2>1, <2>4, StackOnTheWay
    <3> QED  BY <1>4, <2>2, <2>3, <2>4, <3>1
  <2>5. CASE sent' # sent
    <3>1. Sending(c) /\ outgoing = "none"
      BY <1>12, <2>5, StackSends DEF Only, AttCanSendNow, RfcommCanSendNow, Link
    <3>2. char_rx_value_len > 0  BY <1>2, <2>5, <3>1, SendingSent
    <3>3. Below(c, char_rx_value[1])  BY <1>5, <3>1, <3>2 DEF OnTheWay
    <3>4. Increasing(c)'  BY <3>1, <3>2, <3>3, SentOnce DEF Once
    <3>5. \A k \in Link \ {c} : sent'[k] = <<>>  BY <3>1, SendingSent DEF Once
    <3>6. ~Trying(c)'  BY <2>3, <3>2 DEF Once
    <3>7. char_rx_value_len' > 0 => OnTheWay(c)'
      <4>1. CASE AttCanSendNow
        <5>1. c = "ble"  BY <4>1 DEF AttCanSendNow, Only, Link
        <5> QED  BY <2>5, <4>1, <5>1 DEF AttCanSendNow, OnTheWay
      <4>2. CASE RfcommCanSendNow
        BY <4>2 DEF RfcommCanSendNow
      <4> QED  BY <1>12, <2>5, <4>1, <4>2, StackSends
    <3> QED  BY <2>2, <3>4, <3>5, <3>6, <3>7 DEF Once
  <2> QED  BY <2>4, <2>5
<1>13. CASE UNCHANGED vars
  BY <1>4, <1>5, <1>13 DEF vars, bt, stack, Copying, Trying, Below, OnTheWay, Once
<1> QED
  BY <1>6, <1>7, <1>8, <1>9, <1>10, <1>11, <1>12, <1>13 DEF Next, Main

---------------------------------------------------------------------------
(* The theorems.                                                           *)

LEMMA InitInv == Init => IInv
<1> SUFFICES ASSUME Init PROVE IInv
  OBVIOUS
<1>1. TypeOK /\ CallInv  BY InitTypes, InitCall
<1>2. pc = Idle /\ char_rx_value_len = 0 /\ \A link \in Link : sent[link] = <<>>  BY DEF Init
<1>3. BufferInv /\ FlightInv  BY <1>2 DEF BufferInv, FlightInv
<1>4. SentInv  BY <1>2 DEF SentInv
<1>5. ClientInv  BY DEF Init, ClientInv, Copying, Idle
<1>6. OnlyInv  BY DEF Init, OnlyInv, Only
<1>7. OnceInv
  <2>1. ~Copying /\ \A c \in Link : ~Trying(c)  BY <1>2 DEF Copying, Trying, Idle
  <2>2. \A c \in Link : Increasing(c)  BY <1>2 DEF Increasing
  <2> QED  BY <1>2, <2>1, <2>2 DEF OnceInv, Once
<1> QED  BY <1>1, <1>3, <1>4, <1>5, <1>6, <1>7 DEF IInv

LEMMA NextInv == IInv /\ [Next]_vars => IInv'
BY TypesKept, CallKept, BufferKept, SentKept, ClientKept, FlightKept, OnlyKept, OnceKept DEF IInv

LEMMA Invariance == Spec => []IInv
BY InitInv, NextInv, PTL DEF Spec

\* bt.c keeps every variable of its own and BTstack's within its range, the length
\* a uint8_t, in every behaviour of the contexts.
THEOREM TypeCorrect == Spec => []TypeOK
<1>1. IInv => TypeOK  BY DEF IInv
<1> QED  BY Invariance, <1>1, PTL

\* As long as no alarm cuts into the main loop's call of handle_tnc_rx_data, each
\* packet a link is given is of one frame, cut modulo 256 as its length is, and never
\* of two, and frames are not given out of order.
THEOREM Frames == Spec => []SentUnmixed
<1>1. IInv => SentUnmixed  BY DEF IInv, SentInv, SentUnmixed
<1> QED  BY Invariance, <1>1, PTL

\* No encoded frame is too long for the uint8_t len (bt.c:312).
ShortFrames == \A n \in Lens : n < U8

\* Every packet is one whole frame.
SentInFull ==
  ~overlap => \A link \in Link : \A i \in DOMAIN sent[link] :
                /\ sent[link][i].head = sent[link][i].tail
                /\ sent[link][i].len = frames[sent[link][i].head]

\* If no encoded frame is as long as 256 bytes, each packet a link is given is one
\* whole frame, as long as no alarm cuts into the main loop's call.
THEOREM ShortFramesWhole == ShortFrames => (Spec => []SentInFull)
<1> SUFFICES ASSUME ShortFrames PROVE Spec => []SentInFull
  OBVIOUS
<1>1. ASSUME IInv PROVE SentInFull
  <2> SUFFICES ASSUME ~overlap, NEW link \in Link, NEW i \in DOMAIN sent[link]
               PROVE  /\ sent[link][i].head = sent[link][i].tail
                      /\ sent[link][i].len = frames[sent[link][i].head]
    BY DEF SentInFull
  <2> DEFINE n == frames[sent[link][i].head]
  <2>1. /\ sent[link][i].head = sent[link][i].tail
        /\ sent[link][i].len = n % U8
        /\ sent[link][i].head \in 1..Len(frames)
    BY <1>1 DEF IInv, SentInv, OfOneFrame, CutLen
  <2>2. frames \in Seq(Lens)
    BY <1>1 DEF IInv, TypeOK
  <2>3. n \in Lens
    BY <2>1, <2>2
  <2>4. n \in Nat /\ n < 256
    BY <2>3, BtLinkAssumption DEF ShortFrames, U8
  <2> HIDE DEF n
  <2>5. n % U8 = n
    BY <2>4 DEF U8
  <2> QED
    BY <2>1, <2>5 DEF n
<1> QED
  BY <1>1, Invariance, PTL

\* As long as every client stays and no alarm cuts in, the frame for which
\* handle_tnc_rx_data refuses the next one is in flight.
THEOREM Flight == Spec => []InFlightWhileAttached
<1>1. IInv => InFlightWhileAttached
  <2>1. Idle.at # "request"  BY DEF Idle
  <2> QED  BY <2>1 DEF IInv, FlightInv, InFlightWhileAttached
<1> QED  BY Invariance, <1>1, PTL

\* With one kind of client attached and no alarm cutting in, no frame is given to
\* the client a second time: the buffer is used again after it was sent only.
THEOREM Duplicates == Spec => []AtMostOnce
<1>1. IInv => AtMostOnce
  <2> SUFFICES ASSUME IInv, ~overlap, Cardinality(clients) = 1
               PROVE  \A link \in Link : \A i, j \in DOMAIN sent[link] :
                        i < j => sent[link][i].head # sent[link][j].head
    BY DEF AtMostOnce
  <2>1. clients \subseteq Link
    <3>1. clients \in ClientSets  BY DEF IInv, TypeOK
    <3> QED  BY <3>1, BtLinkAssumption
  <2>2. PICK c \in Link : clients = {c}
    <3>1. IsFiniteSet(Link)
      <4>1. IsFiniteSet({"ble"})  BY FS_Singleton, Zenon
      <4>2. IsFiniteSet({"ble"} \cup {"spp"})  BY <4>1, FS_AddElement, Zenon
      <4>3. Link = {"ble"} \cup {"spp"}  BY DEF Link
      <4> QED  BY <4>2, <4>3
    <3>2. IsFiniteSet(clients)  BY <2>1, <3>1, FS_Subset
    <3>3. \E c : clients = {c}  BY <3>2, FS_Singleton
    <3> QED  BY <2>1, <3>3
  <2>3. Once(c)  BY <2>2 DEF IInv, OnceInv
  <2>4. ASSUME NEW i \in DOMAIN sent[c], NEW j \in DOMAIN sent[c], i < j
        PROVE  sent[c][i].head # sent[c][j].head
    <3>1. sent[c] \in Seq(Packet) /\ sent[c][i] \in Packet /\ sent[c][j] \in Packet
      BY DEF IInv, TypeOK
    <3>2. \A p \in Packet : p.head \in Int
      <4>1. \A p \in Packet : p.head \in Number  BY DEF Packet
      <4> QED  BY <4>1, BtLinkAssumption DEF Number
    <3>3. sent[c][i].head < sent[c][j].head  BY <2>3, <2>4 DEF Once, Increasing
    <3> QED  BY <3>1, <3>2, <3>3
  <2>5. \A k \in Link \ {c} : sent[k] = <<>>  BY <2>3 DEF Once
  <2> QED  BY <2>4, <2>5
<1> QED  BY Invariance, <1>1, PTL
=============================================================================
