---------------------------- MODULE BleTxProofs ----------------------------
(***************************************************************************)
(* Proofs about the path from a BLE client to the TNC: what the parser is  *)
(* fed of a frame, through writes of any size, lost writes, clients that   *)
(* leave and silences, what reaches the UART in the end, and which frames  *)
(* can overrun a buffer.  The program is defined until one does, and so is *)
(* the model: what is proved holds of every behaviour up to there.         *)
(*                                                                         *)
(* The invariant follows the one place the parser is at: the newest frame  *)
(* that had a write accepted, and how much of it the parser has seen.      *)
(***************************************************************************)
EXTENDS BleTx, KissProofs

---------------------------------------------------------------------------
(* A frame of the client's on the wire, and what a parser has of it.       *)

\* Sizes as numbers.
LEMMA SizesAreNat ==
  /\ BUFFER_SIZE \in Nat /\ BUFFER_SIZE < U16 /\ CALLS_SIZE \in Nat
  /\ MaxFrames \in Nat /\ U16 \in Nat
  /\ \A s \in WriteSizes : s \in Nat /\ s >= 2
<1>1. U16 \in Nat
  BY DEF U16
<1> QED
  BY <1>1, ContentsAssumption

\* A frame has a length that pos can hold.
LEMMA ContentFits ==
  ASSUME NEW c \in Contents
  PROVE  /\ c \in Seq(Byte) /\ c # <<>> /\ Len(c) \in 1..U16
         /\ Len(Wire(c)) <= BUFFER_SIZE /\ CALLS_SIZE + Len(c) - 1 <= BUFFER_SIZE
<1>1. /\ c \in Seq(Byte) /\ c # <<>>
      /\ Len(Wire(c)) <= BUFFER_SIZE /\ CALLS_SIZE + Len(c) - 1 <= BUFFER_SIZE
  BY ContentsAssumption
<1>2. Len(c) \in Nat /\ Len(c) > 0
  BY <1>1
<1> QED
  BY <1>1, <1>2, SizesAreNat

\* A frame is its header byte and the payload.
LEMMA HeaderFirst ==
  ASSUME NEW c \in Seq(Byte), c # <<>>
  PROVE  /\ c[1] \in Byte /\ Tail(c) \in Seq(Byte)
         /\ c = <<c[1]>> \o Tail(c)
         /\ Tail(c) = SubSeq(c, 2, Len(c))
<1>1. Len(c) \in Nat /\ Len(c) > 0
  OBVIOUS
<1>2. c[1] \in Byte
  BY <1>1
<1>3. Tail(c) \in Seq(Byte) /\ Len(Tail(c)) = Len(c) - 1 /\ \A j \in 1..(Len(c) - 1) : Tail(c)[j] = c[j + 1]
  BY HeadTailProperties
<1> DEFINE t == Tail(c)
           j1 == <<c[1]>> \o t
           cut == SubSeq(c, 2, Len(c))
<1>4. \A j \in 2..Len(c) : c[j] \in Byte
  BY <1>1
<1>5. cut \in Seq(Byte) /\ Len(cut) = Len(c) - 1 /\ \A j \in 1..(Len(c) - 1) : cut[j] = c[j + 1]
  <2>1. ASSUME NEW n \in Nat, n >= 1, \A j \in 2..n : c[j] \in Byte
        PROVE  /\ SubSeq(c, 2, n) \in Seq(Byte) /\ Len(SubSeq(c, 2, n)) = n - 1
               /\ \A j \in 1..(n - 1) : SubSeq(c, 2, n)[j] = c[j + 1]
    BY <2>1, SubSeqProperties
  <2> DEFINE n == Len(c)
  <2>2. n \in Nat /\ n >= 1 /\ \A j \in 2..n : c[j] \in Byte
    BY <1>1, <1>4
  <2> HIDE DEF n
  <2>3. /\ SubSeq(c, 2, n) \in Seq(Byte) /\ Len(SubSeq(c, 2, n)) = n - 1
        /\ \A j \in 1..(n - 1) : SubSeq(c, 2, n)[j] = c[j + 1]
    BY <2>1, <2>2
  <2> QED
    BY <2>3 DEF n
<1>6. t = cut
  <2> HIDE DEF t, cut
  <2>1. t \in Seq(Byte) /\ Len(t) = Len(cut) /\ \A j \in 1..Len(t) : t[j] = cut[j]
    BY <1>1, <1>3, <1>5 DEF t
  <2> QED
    BY <1>5, <2>1, SeqEqual
<1>7. c = j1
  <2> HIDE DEF t
  <2>1. t \in Seq(Byte) /\ Len(t) = Len(c) - 1 /\ \A j \in 1..(Len(c) - 1) : t[j] = c[j + 1]
    BY <1>3 DEF t
  <2>2. j1 \in Seq(Byte) /\ Len(j1) = Len(c)
    BY <1>1, <1>2, <2>1
  <2>3. ASSUME NEW j \in 1..Len(c) PROVE c[j] = j1[j]
    <3>1. CASE j = 1
      BY <1>2, <2>1, <3>1
    <3>2. CASE j # 1
      <4>1. j - 1 \in 1..(Len(c) - 1) /\ j1[j] = t[j - 1]
        BY <1>1, <1>2, <2>1, <2>3, <3>2
      <4> QED
        BY <2>1, <4>1
    <3> QED
      BY <3>1, <3>2
  <2> HIDE DEF j1
  <2> QED
    BY <2>2, <2>3, SeqEqual
<1> QED
  BY <1>2, <1>3, <1>6, <1>7

\* On the wire a frame is its escaped bytes between two FENDs: the header byte,
\* which kiss_encode does not escape, needs no escape.
LEMMA WireForm ==
  ASSUME NEW c \in Contents
  PROVE  LET w == Wire(c)
             e == EscapeAll(c)
         IN  /\ w \in Seq(Byte) /\ e \in Seq(Byte) /\ Len(e) \in Nat \ {0} /\ Len(w) = Len(e) + 2
             /\ w[1] = FEND /\ w[Len(w)] = FEND /\ w[2] \notin {FEND, FESC}
             /\ \A q \in 1..Len(e) : w[q + 1] = e[q]
             /\ \A q \in 1..Len(e) : e[q] # FEND
             /\ \A q \in 1..Len(e) : e[q] = FESC => q < Len(e) /\ e[q + 1] \in {TFEND, TFESC}
<1> DEFINE w == Wire(c)
           e == EscapeAll(c)
           h == c[1]
           t == EscapeAll(Tail(c))
<1>1. c \in Seq(Byte) /\ c # <<>> /\ h \notin {FEND, FESC}
  BY ContentsAssumption
<1>2. h \in Byte /\ Tail(c) \in Seq(Byte) /\ c = <<h>> \o Tail(c)
  BY <1>1, HeaderFirst
<1>3. t \in Seq(Byte) /\ FEND \in Byte
  <2>1. FEND \in Byte
    BY DEF FEND, Byte
  <2> QED
    BY <1>2, <2>1, EscapeAllType
<1>4. e = <<h>> \o t
  BY <1>1, <1>2, EscapeAllFirst
<1>5. w = <<FEND, h>> \o t \o <<FEND>>
  <2>1. (h \div 16) * 16 + (h % 16) = h
    BY <1>2, Header
  <2> QED
    BY <2>1 DEF Wire, kiss_encode
<1>6. \A q \in DOMAIN e : e[q] # FEND
  BY <1>1, NoFend
<1>7. \A q \in 1..Len(e) : e[q] = FESC => q < Len(e) /\ e[q + 1] \in {TFEND, TFESC}
  BY <1>1, EscapesArePairs
<1> HIDE DEF w, e, h, t
<1>8. e \in Seq(Byte) /\ Len(e) = Len(t) + 1 /\ Len(t) \in Nat /\ e[1] = h
      /\ \A q \in 2..Len(e) : e[q] = t[q - 1]
  BY <1>2, <1>3, <1>4
<1> DEFINE b == <<FEND, h>> \o t
<1>9. b \in Seq(Byte) /\ Len(b) = Len(t) + 2 /\ b[1] = FEND /\ b[2] = h
      /\ \A q \in 3..(Len(t) + 2) : b[q] = t[q - 2]
  BY <1>2, <1>3
<1>10. w = b \o <<FEND>>
  BY <1>5
<1> HIDE DEF b
<1>11. w \in Seq(Byte) /\ Len(w) = Len(b) + 1 /\ w[Len(w)] = FEND /\ \A q \in 1..Len(b) : w[q] = b[q]
  BY <1>3, <1>9, <1>10
<1>12. ASSUME NEW q \in 1..Len(e) PROVE w[q + 1] = e[q]
  <2>1. CASE q = 1
    BY <1>8, <1>9, <1>11, <2>1
  <2>2. CASE q # 1
    <3>1. q \in 2..Len(e) /\ q + 1 \in 3..(Len(t) + 2) /\ q + 1 \in 1..Len(b) /\ (q + 1) - 2 = q - 1
      BY <1>8, <1>9, <2>2
    <3> QED
      BY <1>8, <1>9, <1>11, <3>1
  <2> QED
    BY <2>1, <2>2
<1>13. w[1] = FEND /\ w[2] = h
  BY <1>8, <1>9, <1>11
<1>14. \A q \in 1..Len(e) : e[q] # FEND
  BY <1>6, <1>8
<1>15. Len(e) \in Nat \ {0} /\ Len(w) = Len(e) + 2
  BY <1>8, <1>9, <1>11
<1> QED
  BY <1>1, <1>7, <1>8, <1>11, <1>12, <1>13, <1>14, <1>15 DEF w, e, h

\* The bytes of a frame, by their place.
LEMMA WireBytes ==
  ASSUME NEW c \in Contents
  PROVE  LET w == Wire(c)
             last == Len(w)
         IN  /\ w \in Seq(Byte) /\ last \in Nat /\ last >= 3
             /\ w[1] = FEND /\ w[last] = FEND /\ w[2] \notin {FEND, FESC}
             /\ \A q \in 1..last : w[q] \in Byte
             /\ \A q \in 1..last : w[q] = FEND => q = 1 \/ q = last
             /\ \A q \in 1..last : w[q] = FESC => q > 2 /\ q + 1 < last /\ w[q + 1] \in {TFEND, TFESC}
<1> DEFINE w == Wire(c)
           e == EscapeAll(c)
<1>1. /\ w \in Seq(Byte) /\ e \in Seq(Byte) /\ Len(e) \in Nat \ {0} /\ Len(w) = Len(e) + 2
      /\ w[1] = FEND /\ w[Len(w)] = FEND /\ w[2] \notin {FEND, FESC}
      /\ \A q \in 1..Len(e) : w[q + 1] = e[q]
      /\ \A q \in 1..Len(e) : e[q] # FEND
      /\ \A q \in 1..Len(e) : e[q] = FESC => q < Len(e) /\ e[q + 1] \in {TFEND, TFESC}
  BY WireForm
<1>2. FEND # FESC
  BY DEF FEND, FESC
<1> HIDE DEF w, e
<1>3. ASSUME NEW q \in 1..Len(w), q # 1, q # Len(w)
      PROVE  q - 1 \in 1..Len(e) /\ w[q] = e[q - 1] /\ w[q] # FEND
  <2>1. q - 1 \in 1..Len(e) /\ (q - 1) + 1 = q
    BY <1>1, <1>3
  <2> QED
    BY <1>1, <2>1
<1>4. ASSUME NEW q \in 1..Len(w), w[q] = FESC
      PROVE  q > 2 /\ q + 1 < Len(w) /\ w[q + 1] \in {TFEND, TFESC}
  <2>1. q # 1 /\ q # Len(w) /\ q # 2
    BY <1>1, <1>2, <1>4
  <2>2. q - 1 \in 1..Len(e) /\ e[q - 1] = FESC
    BY <1>3, <1>4, <2>1
  <2>3. q - 1 < Len(e) /\ e[(q - 1) + 1] \in {TFEND, TFESC}
    BY <1>1, <2>2
  <2>4. q \in 1..Len(e) /\ (q - 1) + 1 = q
    BY <1>1, <2>2, <2>3
  <2> QED
    BY <1>1, <2>1, <2>3, <2>4
<1>5. Len(w) \in Nat /\ Len(w) >= 3 /\ \A q \in 1..Len(w) : w[q] \in Byte
  BY <1>1
<1> QED
  BY <1>1, <1>3, <1>4, <1>5 DEF w

\* What is out of the escaped frame after q bytes on the wire.
LEMMA WireSegment ==
  ASSUME NEW c \in Contents, NEW q \in 1..(Len(Wire(c)) - 1)
  PROVE  LET w == Wire(c)
         IN  /\ SubSeq(w, 2, q) \in Seq(Byte)
             /\ Escaping(SubSeq(w, 2, q))
             /\ q = 1 => SubSeq(w, 2, q) = <<>>
             /\ q > 1 => SubSeq(w, 2, q) = Append(SubSeq(w, 2, q - 1), w[q])
             /\ q = Len(w) - 1 => SubSeq(w, 2, q) = EscapeAll(c)
<1> DEFINE w == Wire(c)
           e == EscapeAll(c)
           Seg(k) == SubSeq(w, 2, k)
<1>1. /\ w \in Seq(Byte) /\ e \in Seq(Byte) /\ Len(e) \in Nat \ {0} /\ Len(w) = Len(e) + 2
      /\ \A k \in 1..Len(e) : w[k + 1] = e[k]
      /\ \A k \in 1..Len(e) : e[k] = FESC => k < Len(e) /\ e[k + 1] \in {TFEND, TFESC}
  BY WireForm
<1> HIDE DEF w, e
<1>2. ASSUME NEW k \in 1..(Len(w) - 1)
      PROVE  Seg(k) \in Seq(Byte) /\ Len(Seg(k)) = k - 1 /\ \A j \in 1..(k - 1) : Seg(k)[j] = w[j + 1]
  <2>1. \A j \in 2..k : w[j] \in Byte
    BY <1>1
  <2>2. k \in Nat /\ k >= 1
    BY <1>1
  <2> QED
    BY <2>1, <2>2, SubSeqProperties
<1>3. q \in 1..(Len(w) - 1) /\ q \in Nat
  BY <1>1 DEF w
<1> HIDE DEF Seg
<1>4. Escaping(Seg(q))
  <2>1. ASSUME NEW k \in 1..(Len(Seg(q)) - 1), Seg(q)[k] = FESC
        PROVE  Seg(q)[k + 1] \in {TFEND, TFESC}
    <3>1. k \in 1..Len(e) /\ k + 1 \in 1..Len(e) /\ k \in 1..(q - 1) /\ k + 1 \in 1..(q - 1)
      <4>1. Len(Seg(q)) = q - 1
        BY <1>2, <1>3
      <4> QED
        BY <1>1, <1>3, <4>1
    <3>2. Seg(q)[k] = e[k] /\ Seg(q)[k + 1] = e[k + 1]
      BY <1>1, <1>2, <1>3, <3>1
    <3> QED
      BY <1>1, <2>1, <3>1, <3>2
  <2> QED
    BY <2>1 DEF Escaping
<1>5. ASSUME q > 1 PROVE Seg(q) = Append(Seg(q - 1), w[q])
  <2>1. q - 1 \in 1..(Len(w) - 1) /\ w[q] \in Byte
    BY <1>1, <1>3, <1>5
  <2> DEFINE s == Seg(q - 1)
             t == Append(s, w[q])
  <2>2. s \in Seq(Byte) /\ Len(s) = q - 2 /\ \A j \in 1..(q - 2) : s[j] = w[j + 1]
    BY <1>2, <1>3, <2>1
  <2> HIDE DEF s
  <2>3. t \in Seq(Byte) /\ Len(t) = q - 1 /\ t[q - 1] = w[q] /\ \A j \in 1..(q - 2) : t[j] = w[j + 1]
    <3>1. t \in Seq(Byte) /\ Len(t) = Len(s) + 1 /\ t[Len(s) + 1] = w[q] /\ \A j \in 1..Len(s) : t[j] = s[j]
      BY <2>1, <2>2, AppendProperties
    <3> QED
      BY <1>3, <2>2, <3>1
  <2> HIDE DEF t
  <2>4. ASSUME NEW j \in 1..(q - 1) PROVE Seg(q)[j] = t[j]
    <3>1. j \in 1..(q - 2) \/ j = q - 1
      BY <1>3
    <3>2. Seg(q)[j] = w[j + 1]
      BY <1>2, <1>3
    <3>3. CASE j \in 1..(q - 2)
      BY <2>3, <3>2, <3>3
    <3>4. CASE j = q - 1
      <4>1. (q - 1) + 1 = q
        BY <1>3
      <4> QED
        BY <2>3, <3>2, <3>4, <4>1
    <3> QED
      BY <3>1, <3>3, <3>4
  <2>5. Seg(q) = t
    <3>1. Seg(q) \in Seq(Byte) /\ Len(Seg(q)) = Len(t)
      BY <1>2, <1>3, <2>3
    <3>2. \A j \in 1..Len(Seg(q)) : Seg(q)[j] = t[j]
      BY <1>2, <1>3, <2>4
    <3> QED
      BY <2>3, <3>1, <3>2, SeqEqual
  <2> QED
    BY <2>5 DEF s, t
<1>6. ASSUME q = Len(w) - 1 PROVE Seg(q) = e
  <2>1. Seg(q) \in Seq(Byte) /\ Len(Seg(q)) = Len(e) /\ \A j \in 1..Len(Seg(q)) : Seg(q)[j] = e[j]
    <3>1. Seg(q) \in Seq(Byte) /\ Len(Seg(q)) = q - 1 /\ \A j \in 1..(q - 1) : Seg(q)[j] = w[j + 1]
      BY <1>2, <1>3
    <3>2. q - 1 = Len(e)
      BY <1>1, <1>6
    <3> QED
      BY <1>1, <3>1, <3>2
  <2> QED
    BY <1>1, <2>1, SeqEqual
<1>7. q = 1 => Seg(q) = <<>>
  BY SubSeqEmpty DEF Seg
<1> QED
  BY <1>2, <1>3, <1>4, <1>5, <1>6, <1>7 DEF Seg, w, e

\* A parser that holds all of the escaped frame holds the frame.
LEMMA HoldsAll ==
  ASSUME NEW c \in Contents, NEW k \in KissState, Holds(k, SubSeq(Wire(c), 2, Len(Wire(c)) - 1))
  PROVE  k.buffer = c
<1> DEFINE e == EscapeAll(c)
<1>1. e \in Seq(Byte) /\ Len(e) \in Nat \ {0} /\ Len(Wire(c)) = Len(e) + 2
      /\ \A q \in 1..Len(e) : e[q] = FESC => q < Len(e)
  BY WireForm
<1>2. SubSeq(Wire(c), 2, Len(Wire(c)) - 1) = e
  <2>1. Len(Wire(c)) - 1 \in 1..(Len(Wire(c)) - 1)
    BY <1>1
  <2> QED
    BY <2>1, WireSegment
<1>3. c \in Seq(Byte) /\ k.buffer \in Seq(Byte) /\ EscapeAll(k.buffer) \in Seq(Byte) /\ FESC \in Byte
  BY ContentsAssumption, EscapeAllType DEF KissState, FESC, Byte
<1> HIDE DEF e
<1>4. CASE k.inEscape
  <2>1. e = EscapeAll(k.buffer) \o <<FESC>>
    BY <1>2, <1>4 DEF Holds
  <2>2. Len(e) \in 1..Len(e) /\ e[Len(e)] = FESC
    BY <1>1, <1>3, <2>1
  <2> QED
    BY <1>1, <2>2
<1>5. CASE ~k.inEscape
  <2>1. e = EscapeAll(k.buffer)
    <3>1. e = EscapeAll(k.buffer) \o <<>>
      BY <1>2, <1>5 DEF Holds
    <3>2. EscapeAll(k.buffer) \o <<>> = EscapeAll(k.buffer)
      BY <1>3
    <3> QED
      BY <3>1, <3>2
  <2> QED
    BY <1>3, <2>1, EscapingIsOneToOne DEF e
<1> QED
  BY <1>4, <1>5

\* What goes to the TNC is the frame that the parser holds, encoded again.
LEMMA RelayedFrame ==
  ASSUME bleKiss.buffer \in Contents
  PROVE  Relayed = Wire(bleKiss.buffer)
<1> DEFINE b == bleKiss.buffer
           frame == kiss_read(bleKiss)
<1>1. b \in Seq(Byte) /\ b # <<>> /\ Len(b) \in 1..U16
  BY ContentFits
<1>2. Tail(b) = SubSeq(b, 2, Len(b))
  BY <1>1, HeaderFirst
<1>3. (Len(b) - 1) % U16 = Len(b) - 1
  <2>1. ASSUME NEW n \in 1..U16 PROVE (n - 1) % U16 = n - 1
    <3>1. U16 \in Nat
      BY DEF U16
    <3> QED
      BY <3>1
  <2> QED
    BY <1>1, <2>1
<1>4. 1 + (Len(b) - 1) = Len(b)
  BY <1>1
<1>5. Payload(bleKiss, frame) = Tail(b)
  BY <1>2, <1>3, <1>4 DEF Payload, kiss_read
<1>6. frame.hdlc = b[1] \div 16 /\ frame.type = b[1] % 16
  BY DEF kiss_read
<1> HIDE DEF frame
<1> QED
  BY <1>5, <1>6 DEF Relayed, Wire, kiss_encode, frame

\* And it is made of bytes, if the parser holds any.
LEMMA RelayedType ==
  ASSUME bleKiss \in KissState, bleKiss.buffer # <<>>
  PROVE  Relayed \in Seq(Byte)
<1> DEFINE b == bleKiss.buffer
           h == b[1]
           frame == kiss_read(bleKiss)
           p == Payload(bleKiss, frame)
<1>1. b \in Seq(Byte) /\ Len(b) \in Nat /\ Len(b) > 0 /\ h \in Byte
  BY DEF KissState
<1>2. frame.hdlc * 16 + frame.type = h
  BY <1>1, Header DEF kiss_read
<1>3. frame.len \in Nat /\ frame.len <= Len(b) - 1
  <2>1. ASSUME NEW n \in Nat PROVE n % U16 \in Nat /\ n % U16 <= n
    <3>1. U16 \in Nat \ {0}
      BY DEF U16
    <3> QED
      BY <3>1
  <2>2. Len(b) - 1 \in Nat
    BY <1>1
  <2> QED
    BY <2>1, <2>2 DEF kiss_read
<1> HIDE DEF frame
<1>4. p \in Seq(Byte)
  <2>1. \A j \in 2..(1 + frame.len) : b[j] \in Byte
    BY <1>1, <1>3
  <2>2. 1 + frame.len \in Int
    BY <1>3
  <2> QED
    BY <2>1, <2>2, SubSeqProperties DEF Payload
<1> HIDE DEF p
<1>5. EscapeAll(p) \in Seq(Byte) /\ FEND \in Byte
  BY <1>4, EscapeAllType DEF FEND, Byte
<1>6. Relayed = <<FEND, h>> \o EscapeAll(p) \o <<FEND>>
  BY <1>2 DEF Relayed, kiss_encode, p, frame
<1> QED
  BY <1>1, <1>5, <1>6

---------------------------------------------------------------------------
(* One byte more for a parser.                                             *)

\* A parser between frames holds nothing.
Idle(k) == ~k.inFrame => k.buffer = <<>> /\ ~k.inEscape

\* A long silence empties the parser, a short one changes only its clock.
LEMMA Refreshed ==
  ASSUME NEW k \in KissState, ~k.haveFrame, NEW now \in Clock
  PROVE  LET live == Refresh(k, now)
         IN  /\ live \in KissState /\ ~live.haveFrame /\ live.last_feed_ms = now
             /\ Expired(k, now) => /\ ~live.inFrame /\ ~live.sawFend
                                   /\ live.buffer = <<>> /\ ~live.inEscape
             /\ ~Expired(k, now) => /\ live.inFrame = k.inFrame /\ live.sawFend = k.sawFend
                                    /\ live.buffer = k.buffer /\ live.inEscape = k.inEscape
<1>1. CASE Expired(k, now)
  BY <1>1 DEF Refresh, kiss_init, KissState
<1>2. CASE ~Expired(k, now)
  <2>1. Refresh(k, now) = [k EXCEPT !.last_feed_ms = now]
    BY <1>2 DEF Refresh
  <2> QED
    BY <1>2, <2>1 DEF KissState
<1> QED
  BY <1>1, <1>2

\* What a FEND does to a parser without a complete frame.
LEMMA FedFend ==
  ASSUME NEW k \in KissState, ~k.haveFrame, Idle(k), NEW now \in Clock
  PROVE  LET fed == kiss_feed(k, FEND, now)
         IN  /\ fed.last_feed_ms = now
             /\ fed.haveFrame => /\ k.inFrame /\ k.sawFend /\ ~Expired(k, now)
                                 /\ fed.inFrame /\ fed.buffer = k.buffer
             /\ ~fed.haveFrame => /\ fed.sawFend /\ ~fed.inFrame
                                  /\ fed.buffer = <<>> /\ ~fed.inEscape
             /\ k.inFrame /\ k.sawFend /\ ~Expired(k, now) => fed.haveFrame
<1> DEFINE live == Refresh(k, now)
           fed  == FeedFend(live, now)
<1>1. kiss_feed(k, FEND, now) = fed
  BY DEF kiss_feed
<1>2. /\ live \in KissState /\ ~live.haveFrame /\ live.last_feed_ms = now
      /\ Expired(k, now) => ~live.inFrame /\ live.buffer = <<>> /\ ~live.inEscape
      /\ ~Expired(k, now) => /\ live.inFrame = k.inFrame /\ live.sawFend = k.sawFend
                             /\ live.buffer = k.buffer /\ live.inEscape = k.inEscape
  BY Refreshed
<1> HIDE DEF live
<1>3. /\ ~live.inFrame => fed = [live EXCEPT !.sawFend = TRUE]
      /\ live.inFrame /\ live.sawFend => fed = [live EXCEPT !.haveFrame = TRUE]
      /\ live.inFrame /\ ~live.sawFend =>
           fed = [buffer |-> <<>>, inFrame |-> FALSE, inEscape |-> FALSE, sawFend |-> TRUE,
                  haveFrame |-> FALSE, last_feed_ms |-> now]
  BY DEF FeedFend, kiss_init
<1> HIDE DEF fed
<1>4. CASE ~live.inFrame
  <2>1. /\ fed.sawFend /\ ~fed.inFrame /\ ~fed.haveFrame /\ fed.buffer = live.buffer
        /\ fed.inEscape = live.inEscape /\ fed.last_feed_ms = now
    BY <1>2, <1>3, <1>4 DEF KissState
  <2> QED
    BY <1>1, <1>2, <1>4, <2>1 DEF Idle
<1>5. CASE live.inFrame /\ live.sawFend
  <2>1. fed.haveFrame /\ fed.inFrame /\ fed.buffer = live.buffer /\ fed.last_feed_ms = now
    BY <1>2, <1>3, <1>5 DEF KissState
  <2> QED
    BY <1>1, <1>2, <1>5, <2>1
<1>6. CASE live.inFrame /\ ~live.sawFend
  <2>1. /\ fed.sawFend /\ ~fed.inFrame /\ ~fed.haveFrame /\ fed.buffer = <<>>
        /\ ~fed.inEscape /\ fed.last_feed_ms = now
    BY <1>3, <1>6
  <2>2. Expired(k, now) \/ ~k.sawFend
    BY <1>2, <1>6
  <2> QED
    BY <1>1, <2>1, <2>2
<1> QED
  BY <1>4, <1>5, <1>6

\* What any other byte does: it opens a frame and completes none.
LEMMA FedData ==
  ASSUME NEW k \in KissState, ~k.haveFrame, NEW byte \in Byte, byte # FEND, NEW now \in Clock
  PROVE  LET fed == kiss_feed(k, byte, now)
         IN  /\ fed.last_feed_ms = now /\ fed.inFrame /\ ~fed.haveFrame
             /\ fed.sawFend => k.sawFend /\ ~Expired(k, now)
             /\ ~Expired(k, now) => fed.sawFend = k.sawFend
             /\ Len(fed.buffer) <= Len(k.buffer) + 1
             /\ fed.buffer = <<>> => byte = FESC /\ fed.inEscape
             /\ fed.buffer = <<>> /\ ~Expired(k, now) => k.buffer = <<>>
             /\ ~Expired(k, now) =>
                  \A seg \in Seq(Byte) :
                    Holds(k, seg) /\ Escaping(Append(seg, byte)) => Holds(fed, Append(seg, byte))
<1> DEFINE live == Refresh(k, now)
           fed  == FeedData(live, byte)
<1>1. kiss_feed(k, byte, now) = fed
  BY DEF kiss_feed
<1>2. /\ live \in KissState /\ ~live.haveFrame /\ live.last_feed_ms = now
      /\ Expired(k, now) => ~live.sawFend /\ live.buffer = <<>>
      /\ ~Expired(k, now) => /\ live.sawFend = k.sawFend
                             /\ live.buffer = k.buffer /\ live.inEscape = k.inEscape
  BY Refreshed
<1> HIDE DEF live
<1>3. /\ fed.last_feed_ms = now /\ fed.inFrame /\ ~fed.haveFrame /\ fed.sawFend = live.sawFend
      /\ byte = FESC => fed.inEscape /\ fed.buffer = live.buffer
      /\ byte # FESC => \E b \in Byte : fed.buffer = Append(live.buffer, b)
  <2>1. CASE byte = FESC
    <3>1. fed = [live EXCEPT !.inFrame = TRUE, !.inEscape = TRUE]
      BY <2>1 DEF FeedData
    <3> QED
      BY <1>2, <2>1, <3>1 DEF KissState
  <2>2. CASE byte # FESC /\ live.inEscape /\ byte \in {TFEND, TFESC}
    <3> DEFINE b == IF byte = TFEND THEN FEND ELSE FESC
    <3>1. fed = [live EXCEPT !.inFrame = TRUE, !.inEscape = FALSE, !.buffer = Append(@, b)]
      BY <2>2 DEF FeedData
    <3>2. b \in Byte
      BY DEF FEND, FESC, Byte
    <3> HIDE DEF b
    <3> QED
      BY <1>2, <2>2, <3>1, <3>2 DEF KissState
  <2>3. CASE byte # FESC /\ ~(live.inEscape /\ byte \in {TFEND, TFESC})
    <3>1. fed = [live EXCEPT !.inFrame = TRUE, !.buffer = Append(@, byte)]
      BY <2>3 DEF FeedData
    <3> QED
      BY <1>2, <2>3, <3>1 DEF KissState
  <2> QED
    BY <2>1, <2>2, <2>3
<1>4. fed.buffer = <<>> => byte = FESC /\ fed.inEscape
  <2>1. live.buffer \in Seq(Byte)
    BY <1>2 DEF KissState
  <2>2. ASSUME NEW b \in Byte PROVE Append(live.buffer, b) # <<>>
    BY <2>1, AppendProperties
  <2> QED
    BY <1>3, <2>2
<1>5. ASSUME ~Expired(k, now), NEW seg \in Seq(Byte), Holds(k, seg), Escaping(Append(seg, byte))
      PROVE  Holds(fed, Append(seg, byte))
  <2>1. Holds(live, seg)
    BY <1>2, <1>5 DEF Holds
  <2> QED
    BY <1>2, <1>5, <2>1, HoldsStep
<1> HIDE DEF fed
<1>6. fed.buffer = <<>> /\ ~Expired(k, now) => k.buffer = <<>>
  BY <1>2, <1>3, <1>4
<1>7. Len(fed.buffer) <= Len(k.buffer) + 1
  <2>1. k.buffer \in Seq(Byte) /\ live.buffer \in Seq(Byte)
    BY <1>2 DEF KissState
  <2>2. Len(live.buffer) <= Len(k.buffer) /\ Len(live.buffer) \in Nat /\ Len(k.buffer) \in Nat
    BY <1>2, <2>1
  <2>3. \A b \in Byte : Len(Append(live.buffer, b)) = Len(live.buffer) + 1
    BY <2>1
  <2> QED
    BY <1>3, <2>2, <2>3
<1> QED
  BY <1>1, <1>2, <1>3, <1>4, <1>5, <1>6, <1>7

\* No time passes within a pass of the main loop.
LEMMA Fresh ==
  ASSUME NEW k \in KissState, NEW now \in Clock, k.last_feed_ms = now
  PROVE  ~Expired(k, now)
<1>1. ClockRange \in Nat \ {0} /\ KISS_FEED_TIMEOUT_MS \in Nat /\ now - now = 0 /\ 0 % ClockRange = 0
  BY ClockAssumption DEF Clock
<1> QED
  BY <1>1 DEF Expired

\* Harm is not undone: a frame that is unharmed after a step was so before,
\* if the step adds no write to the frames before it.
LEMMA UnharmedBefore ==
  ASSUME NEW n \in Nat, got \subseteq got', lost \subseteq lost', stale \subseteq stale',
         \A x \in got' \ got : ~(x < n)
  PROVE  /\ Unharmed(n)' => Unharmed(n)
         /\ n \notin Torn' => n \notin Torn
<1>1. Torn \subseteq Torn'
  BY DEF Torn
<1>2. ASSUME Unharmed(n)' PROVE Unharmed(n)
  <2>1. n \notin Torn
    BY <1>1, <1>2 DEF Unharmed
  <2>2. ASSUME NEW m \in 1..(n - 1), m \in Torn
        PROVE  \E between \in (m + 1)..(n - 1) : between \in got
    <3>1. PICK between \in (m + 1)..(n - 1) : between \in got'
      BY <1>1, <1>2, <2>2 DEF Unharmed
    <3>2. between < n
      BY <3>1
    <3> QED
      BY <3>1, <3>2
  <2> QED
    BY <2>1, <2>2 DEF Unharmed
<1> QED
  BY <1>1, <1>2

\* Nor does a frame come apart from one that it has been joined with.
LEMMA ApartBefore ==
  ASSUME NEW n \in Nat, got \subseteq got', lost \subseteq lost',
         \A x \in got' \ got : ~(x < n)
  PROVE  Apart(n)' => Apart(n)
<1> SUFFICES ASSUME Apart(n)' PROVE Apart(n)
  OBVIOUS
<1>1. n \notin got \cap lost
  BY DEF Apart
<1>2. ASSUME NEW m \in 1..(n - 1), m \in got \cap lost
      PROVE  \E between \in (m + 1)..(n - 1) : between \in got
  <2>1. PICK between \in (m + 1)..(n - 1) : between \in got'
    BY <1>2 DEF Apart
  <2>2. between < n
    BY <2>1
  <2> QED
    BY <2>1, <2>2
<1> QED
  BY <1>1, <1>2 DEF Apart

---------------------------------------------------------------------------
(* The invariant.                                                          *)

WireLen(n) == Len(Wire(sent[n]))

\* How much of frame n the client has written or given up.
Written(n) == IF n = Len(sent) THEN WireLen(n) - Len(rest) ELSE WireLen(n)

\* How much of the mailbox the parser has still to see.
Unfed == char_tx_value_len - i - (IF pc = "forward" THEN 1 ELSE 0)

\* How far into the newest frame in the mailbox the parser is, if no write of
\* the frame is missing.
Fed == Written(slot.frame) - Unfed

Sent(n) == \E k \in DOMAIN toTnc : toTnc[k].frame = n

\* The client has a rest of its newest frame to write.
ClientInv ==
  \/ sent = <<>> /\ rest = <<>>
  \/ LET w == Wire(sent[Len(sent)])
     IN  /\ sent # <<>> /\ Len(rest) <= Len(w)
         /\ \A j \in 1..Len(rest) : rest[j] = w[Len(w) - Len(rest) + j]

\* The mailbox had a write of no frame after slot.frame; what the client began
\* since then lost its first write.
SlotInv ==
  /\ slot.frame \in 0..Len(sent)
  /\ got \subseteq 1..slot.frame
  /\ slot.frame > 0 => slot.frame \in got
  /\ lost \subseteq 1..Len(sent) /\ stale \subseteq 1..slot.frame
  /\ slot.frame > 0 /\ slot.frame = Len(sent) => Len(rest) < WireLen(slot.frame)
  /\ slot.frame < Len(sent) /\ Len(sent) \notin lost => Len(rest) = WireLen(Len(sent))

\* A mailbox in use holds a part of its frame, at its offset.
MailInv ==
  char_tx_value_len > 0 =>
    LET w == Wire(sent[slot.frame])
    IN  /\ slot.frame > 0
        /\ slot.at + char_tx_value_len <= Written(slot.frame)
        /\ slot.frame \notin lost => slot.at + char_tx_value_len = Written(slot.frame)
        /\ \A j \in 1..char_tx_value_len : char_tx_value[j] = w[slot.at + j]
        /\ char_tx_value_len = 1 => slot.at + 1 = Len(w)

\* The main loop works on what it found in the mailbox.
LoopInv ==
  /\ pc \in {"loop", "ble"} => len = 0 /\ i = 0
  /\ pc \in {"feed", "forward"} => len = char_tx_value_len /\ len > 0
  /\ pc = "forward" => i < len /\ char_tx_value[i + 1] = FEND /\ bleKiss.last_feed_ms = async_now_ms
  /\ pc = "forward" <=> bleKiss.haveFrame
  /\ pc = "feed" /\ i > 0 =>
       /\ bleKiss.last_feed_ms = async_now_ms
       /\ ~bleKiss.inFrame => char_tx_value[i] = FEND

\* No frame ends before its first byte: a parser that is inside a frame holds
\* bytes of it, unless it has just seen a FESC.
ParserInv ==
  /\ Idle(bleKiss) /\ (bleKiss.haveFrame => bleKiss.inFrame)
  /\ bleKiss.inFrame /\ bleKiss.buffer = <<>> =>
       bleKiss.inEscape /\ pc = "feed" /\ i > 0 /\ i < len /\ char_tx_value[i] = FESC

More == Unfed > 0 \/ (slot.frame = Len(sent) /\ rest # <<>>)

\* Once a frame of the client's has completed one for the TNC, the rest of it
\* cannot complete another: the parser would first have to see a FEND.
OnceInv ==
  /\ OncePerFrame
  /\ \A k \in DOMAIN toTnc : toTnc[k].frame \in 1..slot.frame
  /\ Sent(slot.frame) =>
       /\ pc # "forward" /\ (More => ~bleKiss.sawFend)
       /\ ~(char_tx_value_len > 0 /\ slot.at + i = 0)

\* Within an unharmed frame the parser holds what it was fed of it.  At the
\* end of any frame that is not torn it is ready for the next.
SyncInv ==
  LET n == slot.frame
      w == Wire(sent[n])
  IN  n > 0 =>
      /\ n \notin Torn /\ Fed = Len(w) => pc = "forward" \/ ~bleKiss.inFrame
      /\ Unharmed(n) =>
           /\ Fed = 0 => ~bleKiss.inFrame
           /\ 0 < Fed /\ Fed < Len(w) =>
                /\ bleKiss.sawFend /\ pc # "forward"
                /\ bleKiss.inFrame <=> Fed > 1
                /\ Holds(bleKiss, SubSeq(w, 2, Fed))
           /\ Fed = Len(w) => IF pc = "forward" THEN bleKiss.buffer = sent[n] ELSE Sent(n)

\* Whatever a silence has done: within a frame that is apart the parser holds no
\* more than it was fed of it, and what completes is the frame.
QuietInv ==
  LET n == slot.frame
      w == Wire(sent[n])
  IN  n > 0 =>
      /\ n \notin got \cap lost /\ Fed = Len(w) => pc = "forward" \/ ~bleKiss.inFrame
      /\ Apart(n) =>
           /\ Fed = 0 => ~bleKiss.inFrame
           /\ 0 < Fed /\ Fed < Len(w) =>
                /\ pc # "forward" /\ Len(bleKiss.buffer) <= Fed - 1
                /\ bleKiss.sawFend => Holds(bleKiss, SubSeq(w, 2, Fed))
           /\ Fed = Len(w) => IF pc = "forward" THEN bleKiss.buffer = sent[n]
                                                ELSE ~bleKiss.inFrame

FirstInv == slot.frame = 0 => ~bleKiss.inFrame /\ toTnc = <<>>

DoneInv == \A n \in got \ lost : n < slot.frame /\ Unharmed(n) => Sent(n)

IInv ==
  /\ TypeOK /\ ClientInv /\ SlotInv /\ MailInv /\ LoopInv /\ ParserInv
  /\ OnceInv /\ SyncInv /\ QuietInv /\ FirstInv /\ DoneInv /\ UnharmedIsExact

---------------------------------------------------------------------------

\* What the client has written of a frame.
LEMMA Sizes ==
  ASSUME TypeOK, ClientInv
  PROVE  /\ Len(sent) \in Nat /\ Len(rest) \in Nat
         /\ rest # <<>> => sent # <<>>
         /\ sent # <<>> <=> Len(sent) > 0
         /\ rest # <<>> <=> Len(rest) > 0
         /\ \A n \in 1..Len(sent) :
              /\ sent[n] \in Contents
              /\ WireLen(n) \in Nat /\ WireLen(n) >= 3
              /\ Written(n) \in 0..WireLen(n)
              /\ n < Len(sent) => Written(n) = WireLen(n)
              /\ Written(n) = WireLen(n) <=> n < Len(sent) \/ rest = <<>>
<1>1. sent \in Seq(Contents) /\ rest \in Seq(Byte)
  BY DEF TypeOK
<1>2. /\ Len(sent) \in Nat /\ Len(rest) \in Nat
      /\ sent # <<>> <=> Len(sent) > 0
      /\ rest # <<>> <=> Len(rest) > 0
  BY <1>1
<1>3. rest # <<>> => sent # <<>>
  BY DEF ClientInv
<1>4. ASSUME NEW n \in 1..Len(sent)
      PROVE  /\ sent[n] \in Contents
             /\ WireLen(n) \in Nat /\ WireLen(n) >= 3
             /\ Written(n) \in 0..WireLen(n)
             /\ n < Len(sent) => Written(n) = WireLen(n)
             /\ Written(n) = WireLen(n) <=> n < Len(sent) \/ rest = <<>>
  <2>1. sent[n] \in Contents
    BY <1>1
  <2>2. WireLen(n) \in Nat /\ WireLen(n) >= 3
    BY <2>1, WireBytes DEF WireLen
  <2>3. Len(rest) <= WireLen(Len(sent))
    BY <1>2, <1>4 DEF ClientInv, WireLen
  <2> QED
    BY <1>2, <1>4, <2>1, <2>2, <2>3 DEF Written
<1> QED
  BY <1>2, <1>3, <1>4

\* The byte under the parser's eyes, and its place in the frame.
LEMMA Place ==
  ASSUME TypeOK, ClientInv, SlotInv, MailInv, LoopInv, pc \in {"feed", "forward"}, i < len
  PROVE  LET n == slot.frame
             w == Wire(sent[n])
             p == slot.at + i + 1
         IN  /\ n \in 1..Len(sent) /\ sent[n] \in Contents /\ n \in got
             /\ p \in 1..Len(w) /\ Len(w) = WireLen(n)
             /\ len = char_tx_value_len /\ i \in Nat /\ slot.at \in Nat
             /\ char_tx_value[i + 1] = w[p] /\ w[p] \in Byte
             /\ i > 0 => p > 1 /\ char_tx_value[i] = w[p - 1]
             /\ len = 1 => p = Len(w)
             /\ p = Len(w) => i + 1 = len /\ Written(n) = WireLen(n)
             /\ n \notin lost => Fed = IF pc = "forward" THEN p ELSE p - 1
<1> DEFINE n == slot.frame
           w == Wire(sent[n])
           p == slot.at + i + 1
<1>1. /\ len \in Nat /\ i \in Nat /\ len = char_tx_value_len /\ len > 0
      /\ n \in Nat /\ slot.at \in Nat
  BY DEF TypeOK, LoopInv
<1>2. n > 0 /\ n \in 1..Len(sent) /\ n \in got
  <2>1. Len(sent) \in Nat
    BY Sizes
  <2> QED
    BY <1>1, <2>1 DEF MailInv, SlotInv
<1>3. /\ sent[n] \in Contents /\ WireLen(n) \in Nat /\ Written(n) \in 0..WireLen(n)
      /\ Len(w) = WireLen(n)
  BY <1>2, Sizes DEF WireLen
<1>4. /\ slot.at + len <= Written(n)
      /\ n \notin lost => slot.at + len = Written(n)
      /\ \A j \in 1..len : char_tx_value[j] = w[slot.at + j]
      /\ len = 1 => slot.at + 1 = Len(w)
  BY <1>1 DEF MailInv
<1> HIDE DEF w
<1>5. p \in 1..Len(w)
  BY <1>1, <1>3, <1>4
<1>6. w[p] \in Byte
  BY <1>3, <1>5, WireBytes DEF w
<1>7. char_tx_value[i + 1] = w[p]
  <2>1. i + 1 \in 1..len /\ slot.at + (i + 1) = p
    BY <1>1
  <2> QED
    BY <1>4, <2>1
<1>8. ASSUME i > 0 PROVE p > 1 /\ char_tx_value[i] = w[p - 1]
  <2>1. i \in 1..len /\ slot.at + i = p - 1 /\ p > 1
    BY <1>1, <1>8
  <2> QED
    BY <1>4, <2>1
<1>9. len = 1 => p = Len(w)
  BY <1>1, <1>4
<1>10. p = Len(w) => i + 1 = len /\ Written(n) = WireLen(n)
  BY <1>1, <1>3, <1>4
<1>11. n \notin lost => Fed = IF pc = "forward" THEN p ELSE p - 1
  <2>1. Written(n) \in Int
    BY <1>3
  <2> QED
    <3> DEFINE done == Written(n)
    <3>1. /\ pc = "forward" => Fed = done - (len - i - 1)
          /\ pc # "forward" => Fed = done - (len - i - 0)
      BY <1>1 DEF Fed, Unfed
    <3>2. n \notin lost => slot.at + len = done
      BY <1>4
    <3>3. done \in Int
      BY <2>1
    <3> HIDE DEF done
    <3> QED
      <4> SUFFICES ASSUME n \notin lost
                   PROVE  Fed = IF pc = "forward" THEN p ELSE p - 1
        OBVIOUS
      <4>1. slot.at + len = done
        BY <3>2
      <4>2. done - (len - i - 1) = p /\ done - (len - i - 0) = p - 1
        BY <1>1, <4>1
      <4> QED
        BY <3>1, <4>2
<1> QED
  BY <1>1, <1>2, <1>3, <1>5, <1>6, <1>7, <1>8, <1>9, <1>10, <1>11 DEF w

\* Where the parser is not moved and the frame in the mailbox stays the same.
LEMMA SyncKept ==
  ASSUME TypeOK, SyncInv, bleKiss' = bleKiss, toTnc' = toTnc,
         pc' = "forward" <=> pc = "forward",
         slot'.frame = slot.frame, slot.frame > 0 => sent'[slot.frame] = sent[slot.frame],
         got \subseteq got', lost \subseteq lost', stale \subseteq stale',
         \A x \in got' \ got : x \in Nat /\ x > slot.frame,
         slot.frame > 0 /\ slot.frame \notin Torn' => Fed' = Fed
  PROVE  SyncInv'
<1> DEFINE n == slot.frame
<1>1. n \in Nat
  BY DEF TypeOK
<1>2. /\ Unharmed(n)' => Unharmed(n) /\ n \notin Torn'
      /\ n \notin Torn' => n \notin Torn
  <2>1. Unharmed(n)' => n \notin Torn'
    BY DEF Unharmed
  <2> QED
    <3>1. \A x \in got' \ got : ~(x < n)
      BY <1>1
    <3> QED
      BY <1>1, <2>1, <3>1, UnharmedBefore
<1>3. Sent(n)' <=> Sent(n)
  BY DEF Sent
<1>4. CASE n = 0
  BY <1>1, <1>4 DEF SyncInv
<1>5. CASE n # 0
  <2>1. n > 0 /\ sent'[n] = sent[n]
    BY <1>1, <1>5
  <2> QED
    BY <1>2, <1>3, <2>1 DEF SyncInv
<1> QED
  BY <1>4, <1>5

\* The same of QuietInv, where silences do not count.
LEMMA QuietKept ==
  ASSUME TypeOK, QuietInv, bleKiss' = bleKiss,
         pc' = "forward" <=> pc = "forward",
         slot'.frame = slot.frame, slot.frame > 0 => sent'[slot.frame] = sent[slot.frame],
         got \subseteq got', lost \subseteq lost',
         \A x \in got' \ got : x \in Nat /\ x > slot.frame,
         slot.frame > 0 /\ slot.frame \notin got' \cap lost' => Fed' = Fed
  PROVE  QuietInv'
<1> DEFINE n == slot.frame
<1>1. n \in Nat
  BY DEF TypeOK
<1>2. /\ Apart(n)' => Apart(n) /\ n \notin got' \cap lost'
      /\ n \notin got' \cap lost' => n \notin got \cap lost
  <2>1. \A x \in got' \ got : ~(x < n)
    BY <1>1
  <2>2. Apart(n)' => n \notin got' \cap lost'
    BY DEF Apart
  <2> QED
    BY <1>1, <2>1, <2>2, ApartBefore
<1>3. CASE n = 0
  BY <1>1, <1>3 DEF QuietInv
<1>4. CASE n # 0
  <2>1. n > 0 /\ sent'[n] = sent[n]
    BY <1>1, <1>4
  <2> QED
    BY <1>2, <2>1 DEF QuietInv
<1> QED
  BY <1>3, <1>4

\* Where no frame is added for the TNC, those that were sent stay as they are.
LEMMA ExactKept ==
  ASSUME TypeOK, UnharmedIsExact, OnceInv, toTnc' = toTnc,
         \A n \in 1..slot.frame : sent'[n] = sent[n],
         got \subseteq got', lost \subseteq lost', stale \subseteq stale',
         \A x \in got' \ got : x \in Nat /\ x > slot.frame
  PROVE  UnharmedIsExact'
<1> SUFFICES ASSUME NEW k \in DOMAIN toTnc, Unharmed(toTnc[k].frame)'
             PROVE  toTnc[k].bytes = Wire(sent'[toTnc[k].frame])
  BY DEF UnharmedIsExact, Wire
<1>1. toTnc[k].frame \in 1..slot.frame /\ slot.frame \in Nat
  BY DEF OnceInv, TypeOK
<1>2. \A x \in got' \ got : ~(x < toTnc[k].frame)
  BY <1>1
<1>3. Unharmed(toTnc[k].frame)
  BY <1>1, <1>2, UnharmedBefore
<1> QED
  BY <1>1, <1>3 DEF UnharmedIsExact

\* What has gone to the TNC stays there.
LEMMA DoneKept ==
  ASSUME TypeOK, DoneInv, toTnc' = toTnc, slot'.frame = slot.frame,
         got' = got, lost \subseteq lost', stale \subseteq stale'
  PROVE  DoneInv'
<1> SUFFICES ASSUME NEW n \in got \ lost, n < slot.frame, Unharmed(n)'
             PROVE  Sent(n)'
  BY DEF DoneInv
<1>1. n \in Nat
  BY DEF TypeOK
<1>2. Unharmed(n)
  BY <1>1, UnharmedBefore
<1>3. Sent(n)
  BY <1>2 DEF DoneInv
<1> QED
  BY <1>3 DEF Sent

---------------------------------------------------------------------------
(* The invariant holds, step by step.                                      *)

\* Nothing has been written and the parser is empty.
LEMMA IInvInit == Init => IInv
<1> SUFFICES ASSUME Init PROVE IInv
  OBVIOUS
<1>1. /\ char_tx_value = <<>> /\ char_tx_value_len = 0 /\ pc = "loop" /\ len = 0 /\ i = 0
      /\ toTnc = <<>> /\ sent = <<>> /\ rest = <<>> /\ size \in WriteSizes
      /\ slot = [frame |-> 0, at |-> 0] /\ got = {} /\ lost = {} /\ stale = {}
      /\ overrun = FALSE /\ async_now_ms \in Clock /\ bleKiss = kiss_init(async_now_ms) /\ bleKiss \in KissState
  BY DEF Init, kiss_init, KissState
<1>2. /\ ~bleKiss.inFrame /\ bleKiss.buffer = <<>> /\ ~bleKiss.inEscape /\ ~bleKiss.haveFrame
  BY <1>1 DEF kiss_init
<1>3. Len(<<>>) = 0 /\ DOMAIN toTnc = {} /\ slot.frame = 0 /\ MaxFrames \in Nat
  BY <1>1, ContentsAssumption
<1>4. TypeOK
  <2>1. bleKiss \in KissState /\ Len(bleKiss.buffer) <= BUFFER_SIZE
    BY <1>1, <1>2, SizesAreNat
  <2>2. async_now_ms \in Clock
    BY <1>1
  <2>3. overrun \in BOOLEAN
    BY <1>1
  <2>4. /\ char_tx_value = <<>> /\ char_tx_value_len = 0 /\ pc = "loop" /\ len = 0 /\ i = 0
        /\ toTnc = <<>> /\ sent = <<>> /\ rest = <<>> /\ size \in WriteSizes
        /\ slot = [frame |-> 0, at |-> 0] /\ got = {} /\ lost = {} /\ stale = {}
    BY <1>1
  <2> QED
    BY <1>3, <2>1, <2>2, <2>3, <2>4 DEF TypeOK
<1>5. ClientInv /\ SlotInv /\ MailInv
  BY <1>1, <1>3 DEF ClientInv, SlotInv, MailInv
<1>6. LoopInv /\ ParserInv
  BY <1>1, <1>2 DEF LoopInv, ParserInv, Idle
<1>7. OnceInv /\ UnharmedIsExact
  BY <1>3 DEF OnceInv, OncePerFrame, Sent, UnharmedIsExact
<1>8. SyncInv /\ QuietInv /\ FirstInv /\ DoneInv
  BY <1>1, <1>2, <1>3 DEF SyncInv, QuietInv, FirstInv, DoneInv
<1> QED
  BY <1>4, <1>5, <1>6, <1>7, <1>8 DEF IInv

\* A part of a sequence, element by element.
LEMMA Part ==
  ASSUME NEW u \in Seq(Byte), NEW lo \in Nat, NEW hi \in Nat, lo >= 1, lo <= hi + 1, hi <= Len(u)
  PROVE  /\ SubSeq(u, lo, hi) \in Seq(Byte) /\ Len(SubSeq(u, lo, hi)) = hi - lo + 1
         /\ \A j \in 1..(hi - lo + 1) : SubSeq(u, lo, hi)[j] = u[lo - 1 + j]
OBVIOUS

\* The next frame of the client's is nowhere in the mailbox or the parser.
LEMMA BeginStep ==
  ASSUME IInv, Begin
  PROVE  IInv'
<1> USE DEF IInv
<1> DEFINE n == slot.frame
<1>1. PICK content \in Contents : sent' = Append(sent, content) /\ rest' = Wire(content)
  BY DEF Begin
<1>2. /\ rest = <<>> /\ Len(sent) < MaxFrames /\ size' \in WriteSizes
      /\ char_tx_value' = char_tx_value /\ char_tx_value_len' = char_tx_value_len /\ slot' = slot
      /\ bleKiss' = bleKiss /\ async_now_ms' = async_now_ms /\ pc' = pc /\ len' = len /\ i' = i
      /\ toTnc' = toTnc /\ stale' = stale /\ got' = got /\ lost' = lost /\ overrun' = overrun
  BY DEF Begin, mailbox, main
<1>3. /\ sent \in Seq(Contents) /\ Len(sent) \in Nat /\ MaxFrames \in Nat
      /\ Wire(content) \in Seq(Byte) /\ Len(Wire(content)) \in Nat
      /\ n \in 0..Len(sent)
  BY WireBytes, ContentsAssumption DEF TypeOK, SlotInv
<1>4. /\ sent' \in Seq(Contents) /\ Len(sent') = Len(sent) + 1 /\ sent'[Len(sent) + 1] = content
      /\ \A m \in 1..Len(sent) : sent'[m] = sent[m]
  BY <1>1, <1>3
<1>5. \A m \in 1..Len(sent) : WireLen(m)' = WireLen(m) /\ Written(m)' = Written(m)
  <2>1. ASSUME NEW m \in 1..Len(sent) PROVE WireLen(m)' = WireLen(m)
    BY <1>4 DEF WireLen, Wire
  <2>2. ASSUME NEW m \in 1..Len(sent) PROVE Written(m) = WireLen(m)
    BY <1>2, Sizes
  <2>3. ASSUME NEW m \in 1..Len(sent) PROVE Written(m)' = WireLen(m)'
    <3>1. m # Len(sent')
      BY <1>3, <1>4
    <3> QED
      BY <3>1 DEF Written
  <2> QED
    BY <2>1, <2>2, <2>3
<1>6. TypeOK'
  BY <1>1, <1>2, <1>3, <1>4 DEF TypeOK
<1>7. ClientInv'
  <2>1. sent' # <<>> /\ Len(sent') = Len(sent) + 1
    BY <1>3, <1>4
  <2>2. Wire(sent[Len(sent)])' = Wire(content)
    BY <1>4 DEF Wire
  <2>3. \A j \in 1..Len(rest') : Len(Wire(content)) - Len(rest') + j = j
    BY <1>1, <1>3
  <2> QED
    BY <1>1, <1>3, <2>1, <2>2, <2>3 DEF ClientInv
<1>8. SlotInv'
  <2>1. n \in 0..Len(sent') /\ n # Len(sent') /\ 1..Len(sent) \subseteq 1..Len(sent')
    BY <1>3, <1>4
  <2>2. Len(rest') = WireLen(Len(sent))'
    BY <1>1, <1>4 DEF WireLen, Wire
  <2> QED
    BY <1>2, <2>1, <2>2 DEF SlotInv
<1>9. MailInv'
  <2>1. CASE char_tx_value_len > 0
    <3>1. n \in 1..Len(sent)
      BY <1>3, <2>1 DEF MailInv
    <3> QED
      BY <1>2, <1>4, <1>5, <2>1, <3>1 DEF MailInv, Wire
  <2>2. CASE ~(char_tx_value_len > 0)
    BY <1>2, <2>2 DEF MailInv
  <2> QED
    BY <2>1, <2>2
<1>10. LoopInv' /\ ParserInv' /\ FirstInv'
  BY <1>2 DEF LoopInv, ParserInv, Idle, FirstInv
<1>11. OnceInv'
  <2>1. More' => More
    <3>1. n # Len(sent') /\ Unfed' = Unfed
      BY <1>2, <1>3, <1>4 DEF Unfed
    <3> QED
      BY <1>2, <3>1 DEF More
  <2> QED
    BY <1>2, <2>1 DEF OnceInv, OncePerFrame, Sent
<1>12. SyncInv'
  <2>1. n > 0 => Fed' = Fed /\ sent'[n] = sent[n]
    <3>1. n > 0 => n \in 1..Len(sent)
      BY <1>3
    <3> QED
      BY <1>2, <1>4, <1>5, <3>1 DEF Fed, Unfed
  <2> QED
    BY <1>2, <2>1, SyncKept
<1>13. DoneInv'
  BY <1>2, DoneKept
<1>14. UnharmedIsExact'
  <2>1. \A m \in 1..n : sent'[m] = sent[m]
    BY <1>3, <1>4
  <2> QED
    BY <1>2, <2>1, ExactKept
<1>15. QuietInv'
  <2>1. n > 0 => Fed' = Fed /\ sent'[n] = sent[n]
    <3>1. n > 0 => n \in 1..Len(sent)
      BY <1>3
    <3> QED
      BY <1>2, <1>4, <1>5, <3>1 DEF Fed, Unfed
  <2> QED
    BY <1>2, <2>1, QuietKept
<1> QED
  BY <1>6, <1>7, <1>8, <1>9, <1>10, <1>11, <1>12, <1>13, <1>14, <1>15

\* A write that does not reach the mailbox: the frame it belongs to is torn, or
\* has not reached the parser at all.
LEMMA LostStep ==
  ASSUME IInv, rest # <<>>, rest' \in Seq(Byte), Len(rest') < Len(rest),
         \A j \in 1..Len(rest') : rest'[j] = rest[Len(rest) - Len(rest') + j],
         lost' = lost \cup {Len(sent)}, size' = size,
         UNCHANGED <<mailbox, main, got, sent>>
  PROVE  IInv'
<1> USE DEF IInv
<1> DEFINE n == slot.frame
           last == Len(sent)
<1>1. /\ char_tx_value' = char_tx_value /\ char_tx_value_len' = char_tx_value_len /\ slot' = slot
      /\ bleKiss' = bleKiss /\ async_now_ms' = async_now_ms /\ pc' = pc /\ len' = len /\ i' = i
      /\ toTnc' = toTnc /\ stale' = stale /\ got' = got /\ sent' = sent /\ overrun' = overrun
  BY DEF mailbox, main
<1>2. /\ last \in Nat /\ Len(rest) \in Nat /\ Len(rest') \in Nat /\ last \in 1..last
      /\ n \in 0..last /\ last <= MaxFrames /\ MaxFrames \in Nat
  <2>1. Len(sent) \in Nat /\ Len(rest) \in Nat /\ Len(sent) > 0
    BY Sizes
  <2> QED
    BY <2>1, SizesAreNat DEF TypeOK, SlotInv
<1>3. /\ WireLen(last) \in Nat /\ Len(rest) <= WireLen(last)
      /\ \A j \in 1..Len(rest) : rest[j] = Wire(sent[last])[WireLen(last) - Len(rest) + j]
  <2>1. WireLen(last) \in Nat /\ sent[last] \in Contents
    BY <1>2, Sizes
  <2>2. sent # <<>>
    BY <1>2
  <2> QED
    BY <2>1, <2>2, WireBytes DEF ClientInv, WireLen
<1>4. /\ \A m \in 1..last : WireLen(m)' = WireLen(m)
      /\ \A m \in 1..last : m # last => Written(m)' = Written(m)
      /\ Written(last)' = WireLen(last) - Len(rest') /\ Written(last) = WireLen(last) - Len(rest)
      /\ n \in 1..last => Written(n)' = IF n = last THEN WireLen(last) - Len(rest') ELSE Written(n)
      /\ WireLen(last)' = WireLen(last)
  BY <1>1 DEF WireLen, Written, Wire
<1>5. TypeOK'
  <2>1. last \in 1..MaxFrames
    BY <1>2
  <2>2. lost' \subseteq 1..MaxFrames
    BY <2>1 DEF TypeOK
  <2> QED
    BY <1>1, <2>2 DEF TypeOK
<1>6. ClientInv'
  <2>1. Wire(sent[Len(sent)])' = Wire(sent[last]) /\ sent' # <<>>
    BY <1>1, <1>2 DEF Wire
  <2>2. Len(Wire(sent[last])) = WireLen(last)
    BY DEF WireLen
  <2> HIDE DEF last
  <2>3. ASSUME NEW j \in 1..Len(rest')
        PROVE  rest'[j] = Wire(sent[last])[WireLen(last) - Len(rest') + j]
    <3>1. Len(rest) - Len(rest') + j \in 1..Len(rest)
      BY <1>2
    <3>2. WireLen(last) - Len(rest) + (Len(rest) - Len(rest') + j) = WireLen(last) - Len(rest') + j
      BY <1>2, <1>3
    <3> QED
      BY <1>3, <3>1, <3>2
  <2> QED
    BY <1>2, <1>3, <2>1, <2>2, <2>3 DEF ClientInv
<1>7. SlotInv'
  <2>1. Len(rest') < WireLen(last)'
    BY <1>2, <1>3, <1>4
  <2> QED
    BY <1>1, <1>2, <2>1 DEF SlotInv
<1>8. MailInv'
  <2>1. CASE char_tx_value_len > 0
    <3>1. n \in 1..last /\ slot.at \in Nat /\ char_tx_value_len \in Nat /\ Written(n) \in Int
      <4>1. n \in 1..last /\ slot.at \in Nat /\ char_tx_value_len \in Nat
        BY <1>2, <2>1 DEF MailInv, TypeOK
      <4> QED
        BY <4>1, Sizes
    <3>2. Written(n)' >= Written(n)
      BY <1>2, <1>3, <1>4, <3>1
    <3>3. slot.at + char_tx_value_len <= Written(n)'
      <4>1. Written(n)' \in Int
        BY <1>2, <1>3, <1>4, <3>1
      <4> QED
        BY <2>1, <3>1, <3>2, <4>1 DEF MailInv
    <3>4. n \notin lost' => slot.at + char_tx_value_len = Written(n)'
      <4>1. SUFFICES ASSUME n \notin lost' PROVE slot.at + char_tx_value_len = Written(n)'
        BY <1>1
      <4>2. n # last /\ n \notin lost
        BY <4>1
      <4> QED
        BY <1>4, <2>1, <3>1, <4>2 DEF MailInv
    <3> QED
      BY <1>1, <2>1, <3>3, <3>4 DEF MailInv, Wire
  <2>2. CASE ~(char_tx_value_len > 0)
    BY <1>1, <2>2 DEF MailInv
  <2> QED
    BY <2>1, <2>2
<1>9. LoopInv' /\ ParserInv' /\ FirstInv'
  BY <1>1 DEF LoopInv, ParserInv, Idle, FirstInv
<1>10. OnceInv'
  <2>1. More' => More
    BY <1>1 DEF More, Unfed
  <2> QED
    BY <1>1, <2>1 DEF OnceInv, OncePerFrame, Sent
<1>11. SyncInv' /\ QuietInv'
  <2>1. n > 0 /\ n \notin got' \cap lost' => Fed' = Fed
    <3>1. SUFFICES ASSUME n > 0, n \notin got' \cap lost' PROVE Fed' = Fed
      OBVIOUS
    <3>2. n \in got /\ n # last
      BY <1>1, <3>1 DEF SlotInv
    <3>3. Written(n)' = Written(n)
      BY <1>1, <1>2, <1>4, <3>1, <3>2
    <3> QED
      BY <1>1, <3>3 DEF Fed, Unfed
  <2>2. n \notin Torn' => n \notin got' \cap lost'
    BY DEF Torn
  <2>3. SyncInv'
    BY <1>1, <2>1, <2>2, SyncKept
  <2>4. QuietInv'
    BY <1>1, <2>1, QuietKept
  <2> QED
    BY <2>3, <2>4
<1>12. DoneInv'
  BY <1>1, DoneKept
<1>13. UnharmedIsExact'
  BY <1>1, ExactKept
<1> QED
  BY <1>5, <1>6, <1>7, <1>8, <1>9, <1>10, <1>11, <1>12, <1>13

\* A write that finds the mailbox free: the parser then waits for its bytes,
\* and if it is the first of a frame, every frame before it is over.
LEMMA AcceptedStep ==
  ASSUME IInv, rest # <<>>, char_tx_value_len = 0,
         NEW n \in Nat, n >= 1, n <= Len(rest), n = 1 => Len(rest) = 1,
         rest' \in Seq(Byte), Len(rest') = Len(rest) - n,
         \A j \in 1..Len(rest') : rest'[j] = rest[n + j],
         char_tx_value' \in Seq(Byte), Len(char_tx_value') >= n,
         \A j \in 1..n : char_tx_value'[j] = rest[j],
         char_tx_value_len' = n,
         slot' = [frame |-> Len(sent), at |-> WireLen(Len(sent)) - Len(rest)],
         got' = got \cup {Len(sent)}, lost' = lost,
         UNCHANGED <<main, sent, size>>
  PROVE  IInv'
<1> USE DEF IInv
<1> DEFINE last == Len(sent)
           g == slot.frame
           w == Wire(sent[last])
           at == WireLen(last) - Len(rest)
<1>1. /\ bleKiss' = bleKiss /\ async_now_ms' = async_now_ms /\ pc' = pc /\ len' = len /\ i' = i
      /\ toTnc' = toTnc /\ stale' = stale /\ lost' = lost /\ sent' = sent /\ overrun' = overrun /\ size' = size
  BY DEF main
<1>2. /\ last \in Nat /\ Len(rest) \in Nat /\ Len(rest) > 0 /\ last \in 1..last
      /\ g \in 0..last /\ g \in Nat /\ last <= MaxFrames /\ MaxFrames \in Nat /\ rest \in Seq(Byte)
  <2>1. Len(sent) \in Nat /\ Len(rest) \in Nat /\ Len(sent) > 0 /\ Len(rest) > 0
    BY Sizes
  <2> QED
    BY <2>1, SizesAreNat DEF TypeOK, SlotInv
<1>3. /\ sent[last] \in Contents /\ WireLen(last) \in Nat /\ WireLen(last) >= 3
      /\ Len(rest) <= WireLen(last) /\ Len(w) = WireLen(last)
      /\ Written(last) = at /\ at \in Nat
  <2>1. WireLen(last) \in Nat /\ sent[last] \in Contents /\ WireLen(last) >= 3
    BY <1>2, Sizes
  <2>2. sent # <<>>
    BY <1>2
  <2>3. Len(rest) <= WireLen(last)
    BY <2>2 DEF ClientInv, WireLen
  <2> QED
    BY <1>2, <2>1, <2>3 DEF WireLen, Written
<1>4. \A j \in 1..Len(rest) : rest[j] = w[at + j]
  <2>1. sent # <<>>
    BY <1>2
  <2> QED
    BY <2>1 DEF ClientInv, WireLen
<1>5. pc \in {"loop", "ble"} /\ len = 0 /\ i = 0 /\ ~bleKiss.haveFrame
  BY DEF LoopInv, TypeOK
<1>6. slot'.frame = last /\ slot'.at = at /\ slot' = [frame |-> last, at |-> at]
  OBVIOUS
<1> HIDE DEF w, at
<1>7. at + Len(rest) = WireLen(last) /\ at = WireLen(last) - Len(rest)
  BY <1>2, <1>3 DEF at
<1>8. Len(rest') \in Nat /\ Len(rest') < Len(rest) /\ Len(rest') = Len(rest) - n
  BY <1>2
<1>9. \A j \in 1..n : char_tx_value'[j] = w[at + j]
  BY <1>2, <1>4
<1>10. char_tx_value_len' \in 0..Len(char_tx_value')
  OBVIOUS
<1>11. /\ \A m \in 1..last : WireLen(m)' = WireLen(m)
       /\ Written(last)' = at + n
  <2>1. \A m \in 1..last : WireLen(m)' = WireLen(m)
    BY <1>1 DEF WireLen, Wire
  <2>2. Written(last)' = WireLen(last) - Len(rest')
    BY <1>1, <1>2, <2>1 DEF Written
  <2> QED
    BY <1>2, <1>3, <1>7, <1>8, <2>1, <2>2
<1>12. Unfed = 0 /\ Unfed' = n /\ Fed' = at
  <2>1. Unfed = 0
    <3>1. Unfed = char_tx_value_len - i - 0
      BY <1>5 DEF Unfed
    <3> QED
      BY <1>5, <3>1
  <2>2. Unfed' = n
    <3>1. Unfed' = char_tx_value_len' - i' - 0
      BY <1>1, <1>5 DEF Unfed
    <3> QED
      BY <1>1, <1>5, <3>1
  <2>3. Written(slot.frame)' = at + n
    BY <1>1, <1>6, <1>11 DEF Written, WireLen
  <2>4. Fed' = Written(slot.frame)' - Unfed'
    BY DEF Fed
  <2>5. (at + n) - n = at
    BY <1>3
  <2> QED
    <3>1. Fed' = (at + n) - n
      BY <2>2, <2>3, <2>4
    <3>2. Fed' = at
      BY <2>5, <3>1, Zenon
    <3> QED
      BY <2>1, <2>2, <3>2
<1>13. TypeOK'
  <2>1. last \in 1..MaxFrames /\ last \in 0..MaxFrames
    BY <1>2
  <2>2. slot' \in [frame: 0..MaxFrames, at: Nat]
    BY <1>3, <1>6, <2>1
  <2>3. got' \subseteq 1..MaxFrames
    BY <2>1 DEF TypeOK
  <2> QED
    BY <1>1, <1>10, <2>2, <2>3 DEF TypeOK
<1>14. ClientInv'
  <2>1. Wire(sent[Len(sent)])' = w /\ sent' # <<>>
    BY <1>1, <1>2 DEF Wire, w
  <2>2. ASSUME NEW j \in 1..Len(rest')
        PROVE  rest'[j] = w[Len(w) - Len(rest') + j]
    <3>1. n + j \in 1..Len(rest) /\ at + (n + j) = Len(w) - Len(rest') + j
      BY <1>2, <1>3, <1>7, <1>8
    <3> QED
      BY <1>4, <3>1
  <2>3. Len(rest') <= Len(w)
    BY <1>2, <1>3, <1>8
  <2> QED
    BY <2>1, <2>2, <2>3 DEF ClientInv
<1>15. SlotInv'
  <2>1. last \in 0..last /\ last \in got'
    BY <1>2
  <2>2. got' \subseteq 1..last /\ stale' \subseteq 1..last
    <3>1. 1..g \subseteq 1..last
      BY <1>2
    <3>2. got \subseteq 1..g /\ stale \subseteq 1..g
      BY DEF SlotInv
    <3> QED
      BY <1>1, <1>2, <3>1, <3>2
  <2>3. Len(rest') < WireLen(last)'
    <3>1. WireLen(last)' = WireLen(last)
      BY <1>1 DEF WireLen, Wire
    <3> QED
      BY <1>2, <1>3, <1>8, <3>1
  <2>4. WireLen(slot.frame)' = WireLen(last)'
    BY <1>1, <1>6 DEF WireLen
  <2> QED
    BY <1>1, <1>2, <1>6, <2>1, <2>2, <2>3, <2>4 DEF SlotInv
<1>16. MailInv'
  <2>1. Wire(sent[slot.frame])' = w
    BY <1>1, <1>6 DEF Wire, w
  <2>2. Written(slot.frame)' = at + n
    BY <1>1, <1>6, <1>11 DEF Written, WireLen
  <2>3. n = 1 => at + 1 = Len(w)
    BY <1>2, <1>3, <1>7
  <2>4. at + n <= Written(slot.frame)'
    BY <1>3, <2>2
  <2> QED
    BY <1>2, <1>6, <1>9, <2>1, <2>2, <2>3, <2>4 DEF MailInv
<1>17. LoopInv' /\ ParserInv' /\ FirstInv'
  <2>1. slot'.frame # 0
    BY <1>2, <1>6
  <2>2. LoopInv'
    BY <1>1, <1>5 DEF LoopInv
  <2>3. ParserInv'
    BY <1>1, <1>5 DEF ParserInv, Idle
  <2> QED
    BY <2>1, <2>2, <2>3 DEF FirstInv
<1>18. Sent(last) => g = last
  <2>1. ASSUME NEW k \in DOMAIN toTnc, toTnc[k].frame = last PROVE g = last
    <3>1. last \in 1..g
      BY <2>1 DEF OnceInv
    <3> QED
      BY <1>2, <3>1
  <2> QED
    BY <2>1 DEF Sent
<1>19. ASSUME g = last PROVE at > 0 /\ got' = got
  <2>1. Len(rest) < WireLen(last) /\ last \in got
    BY <1>2, <1>19 DEF SlotInv
  <2> QED
    BY <1>2, <1>3, <1>7, <2>1
<1>20. OnceInv'
  <2>1. OncePerFrame'
    BY <1>1 DEF OnceInv, OncePerFrame
  <2>2. \A k \in DOMAIN toTnc' : toTnc'[k].frame \in 1..slot'.frame
    <3>1. 1..g \subseteq 1..last
      BY <1>2
    <3> QED
      BY <1>1, <1>6, <3>1 DEF OnceInv
  <2>3. Sent(last)' <=> Sent(last)
    BY <1>1 DEF Sent
  <2>4. Sent(last) => ~bleKiss.sawFend
    <3>1. Sent(last) => Sent(slot.frame) /\ More
      BY <1>18 DEF More
    <3> QED
      BY <3>1 DEF OnceInv
  <2>5. Sent(last) => ~(slot'.at + i' = 0)
    BY <1>1, <1>3, <1>5, <1>6, <1>18, <1>19
  <2>6. Sent(slot.frame)' <=> Sent(last)'
    BY <1>6 DEF Sent
  <2> QED
    BY <1>1, <1>5, <2>1, <2>2, <2>3, <2>4, <2>5, <2>6 DEF OnceInv
<1>21. SyncInv'
  <2>1. CASE g = last
    <3>1. Fed' = Fed
      <4>1. Written(slot.frame) = at
        BY <1>3, <2>1
      <4> QED
        BY <1>3, <1>12, <4>1 DEF Fed
    <3>2. got' = got
      BY <1>19, <2>1
    <3> QED
      BY <1>1, <1>6, <2>1, <3>1, <3>2, SyncKept
  <2>2. CASE g # last
    <3>1. g < last
      BY <1>2, <2>2
    <3>2. last \notin got /\ last \notin stale
      <4>1. last \notin 1..g
        BY <1>2, <3>1
      <4> QED
        BY <4>1 DEF SlotInv
    <3>3. last \notin Torn' => at = 0
      <4>1. last \notin Torn' => last \notin lost
        BY <1>1 DEF Torn
      <4>2. last \notin lost => Len(rest) = WireLen(last)
        BY <3>1 DEF SlotInv
      <4> QED
        BY <1>3, <1>7, <4>1, <4>2
    <3>4. Unharmed(last)' => ~bleKiss.inFrame
      <4> SUFFICES ASSUME Unharmed(last)' PROVE ~bleKiss.inFrame
        OBVIOUS
      <4>1. CASE g = 0
        BY <4>1 DEF FirstInv
      <4>2. CASE g # 0
        <5>1. g \in 1..(last - 1) /\ g \in got
          BY <1>2, <3>1, <4>2 DEF SlotInv
        <5>2. \A between \in (g + 1)..(last - 1) : between \notin got'
          <6>1. got \subseteq 1..g
            BY DEF SlotInv
          <6>2. \A between \in (g + 1)..(last - 1) : between \notin 1..g /\ between # last
            BY <1>2
          <6> QED
            BY <6>1, <6>2
        <5>3. g \notin Torn'
          BY <5>1, <5>2 DEF Unharmed
        <5>4. g \notin Torn
          BY <1>1, <5>3 DEF Torn
        <5>5. Fed = Len(Wire(sent[g]))
          <6>1. Written(g) = WireLen(g) /\ WireLen(g) \in Nat
            <7>1. g \in 1..Len(sent) /\ g < Len(sent)
              BY <1>2, <3>1, <5>1
            <7> QED
              BY <7>1, Sizes
          <6> QED
            BY <1>12, <6>1 DEF Fed, WireLen
        <5>6. g > 0
          BY <5>1
        <5>7. pc = "forward" \/ ~bleKiss.inFrame
          BY <5>4, <5>5, <5>6 DEF SyncInv
        <5> QED
          BY <1>5, <5>7
      <4> QED
        BY <4>1, <4>2
    <3>5. Wire(sent[slot.frame])' = w
      BY <1>1, <1>6 DEF Wire, w
    <3>6. last \notin Torn' => Fed' = 0 /\ Fed' # Len(w) /\ ~(0 < Fed')
      BY <1>3, <1>12, <3>3
    <3>7. Unharmed(last)' => last \notin Torn'
      BY DEF Unharmed
    <3>8. (slot.frame \notin Torn)' => last \notin Torn'
      BY <1>6
    <3>9. Unharmed(slot.frame)' => Unharmed(last)'
      BY <1>6 DEF Unharmed
    <3> QED
      BY <1>1, <3>4, <3>5, <3>6, <3>7, <3>8, <3>9 DEF SyncInv
  <2> QED
    BY <2>1, <2>2
<1>22. DoneInv'
  <2> SUFFICES ASSUME NEW m \in got' \ lost', m < last, Unharmed(m)'
               PROVE  Sent(m)'
    BY <1>6 DEF DoneInv
  <2>1. m \in got \ lost /\ m \in Nat
    BY <1>1, <1>2 DEF TypeOK
  <2>2. Unharmed(m)
    <3>1. \A x \in got' \ got : ~(x < m)
      BY <1>2, <2>1
    <3> QED
      BY <1>1, <2>1, <3>1, UnharmedBefore
  <2>3. m \in 1..g
    BY <2>1 DEF SlotInv
  <2>4. Sent(m)
    <3>1. CASE m = g
      <4>1. Fed = Len(Wire(sent[g]))
        <5>1. g \in 1..Len(sent) /\ g < Len(sent)
          BY <1>2, <2>3, <3>1
        <5>2. Written(g) = WireLen(g) /\ WireLen(g) \in Nat
          BY <5>1, Sizes
        <5> QED
          BY <1>12, <5>2 DEF Fed, WireLen
      <4>2. g > 0 /\ pc # "forward"
        BY <1>2, <1>5, <2>3, <3>1
      <4> QED
        BY <2>2, <3>1, <4>1, <4>2 DEF SyncInv
    <3>2. CASE m # g
      <4>1. m < g
        BY <1>2, <2>3, <3>2
      <4> QED
        BY <2>1, <2>2, <4>1 DEF DoneInv
    <3> QED
      BY <3>1, <3>2
  <2> QED
    BY <1>1, <2>4 DEF Sent
<1>23. UnharmedIsExact'
  <2>1. \A x \in got' \ got : x \in Nat /\ x > g
    <3>1. last \notin got => last # g
      BY <1>2 DEF SlotInv
    <3> QED
      BY <1>2, <3>1
  <2> QED
    BY <1>1, <2>1, ExactKept
<1>24. QuietInv'
  <2>1. CASE g = last
    <3>1. Fed' = Fed
      <4>1. Written(slot.frame) = at
        BY <1>3, <2>1
      <4> QED
        BY <1>3, <1>12, <4>1 DEF Fed
    <3>2. got' = got
      BY <1>19, <2>1
    <3> QED
      BY <1>1, <1>6, <2>1, <3>1, <3>2, QuietKept
  <2>2. CASE g # last
    <3>1. g < last
      BY <1>2, <2>2
    <3>2. last \in got'
      OBVIOUS
    <3>3. last \notin got' \cap lost' => at = 0
      <4>1. last \notin got' \cap lost' => last \notin lost
        BY <1>1, <3>2
      <4>2. last \notin lost => Len(rest) = WireLen(last)
        BY <3>1 DEF SlotInv
      <4> QED
        BY <1>3, <1>7, <4>1, <4>2
    <3>4. Apart(last)' => ~bleKiss.inFrame
      <4> SUFFICES ASSUME Apart(last)' PROVE ~bleKiss.inFrame
        OBVIOUS
      <4>1. CASE g = 0
        BY <4>1 DEF FirstInv
      <4>2. CASE g # 0
        <5>1. g \in 1..(last - 1) /\ g \in got
          BY <1>2, <3>1, <4>2 DEF SlotInv
        <5>2. \A between \in (g + 1)..(last - 1) : between \notin got'
          <6>1. got \subseteq 1..g
            BY DEF SlotInv
          <6>2. \A between \in (g + 1)..(last - 1) : between \notin 1..g /\ between # last
            BY <1>2
          <6> QED
            BY <6>1, <6>2
        <5>3. g \notin got' \cap lost'
          BY <5>1, <5>2 DEF Apart
        <5>4. g \notin got \cap lost
          BY <1>1, <5>3
        <5>5. Fed = Len(Wire(sent[g]))
          <6>1. Written(g) = WireLen(g) /\ WireLen(g) \in Nat
            <7>1. g \in 1..Len(sent) /\ g < Len(sent)
              BY <1>2, <3>1, <5>1
            <7> QED
              BY <7>1, Sizes
          <6> QED
            BY <1>12, <6>1 DEF Fed, WireLen
        <5>6. g > 0
          BY <5>1
        <5>7. pc = "forward" \/ ~bleKiss.inFrame
          BY <5>4, <5>5, <5>6 DEF QuietInv
        <5> QED
          BY <1>5, <5>7
      <4> QED
        BY <4>1, <4>2
    <3>5. Wire(sent[slot.frame])' = w
      BY <1>1, <1>6 DEF Wire, w
    <3>6. last \notin got' \cap lost' => Fed' = 0 /\ Fed' # Len(w) /\ ~(0 < Fed')
      BY <1>3, <1>12, <3>3
    <3>7. Apart(last)' => last \notin got' \cap lost'
      BY DEF Apart
    <3>8. Apart(slot.frame)' => Apart(last)'
      BY <1>6 DEF Apart
    <3> QED
      BY <1>1, <1>6, <3>4, <3>5, <3>6, <3>7, <3>8 DEF QuietInv
  <2> QED
    BY <2>1, <2>2
<1> QED
  BY <1>13, <1>14, <1>15, <1>16, <1>17, <1>20, <1>21, <1>22, <1>23, <1>24

\* Every write of the client (att_write_callback, both branches).
LEMMA WriteStep ==
  ASSUME IInv, Write
  PROVE  IInv'
<1> DEFINE n == IF size < Len(rest) THEN size ELSE Len(rest)
           value == SubSeq(rest, 1, n)
<1>1. /\ rest # <<>> /\ rest' = SubSeq(rest, n + 1, Len(rest))
      /\ att_write_callback(value, Len(sent), Len(Wire(sent[Len(sent)])) - Len(rest))
      /\ UNCHANGED <<main, sent, size>>
  BY DEF Write
<1>2. /\ rest \in Seq(Byte) /\ Len(rest) \in Nat /\ n \in Nat /\ n >= 1 /\ n <= Len(rest)
      /\ n = 1 => Len(rest) = 1
  <2>1. TypeOK /\ ClientInv
    BY DEF IInv
  <2>2. Len(rest) \in Nat /\ Len(rest) > 0
    BY <1>1, <2>1, Sizes
  <2> QED
    BY <2>1, <2>2, ContentsAssumption DEF TypeOK
<1> HIDE DEF n
<1>3. /\ rest' \in Seq(Byte) /\ Len(rest') = Len(rest) - n
      /\ \A j \in 1..Len(rest') : rest'[j] = rest[n + j]
  <2> DEFINE lo == n + 1
  <2>1. lo \in Nat /\ lo >= 1 /\ lo <= Len(rest) + 1 /\ Len(rest) - lo + 1 = Len(rest) - n
    BY <1>2
  <2>2. \A j \in Nat : lo - 1 + j = n + j
    BY <1>2
  <2> HIDE DEF lo
  <2>3. /\ SubSeq(rest, lo, Len(rest)) \in Seq(Byte)
        /\ Len(SubSeq(rest, lo, Len(rest))) = Len(rest) - n
        /\ \A j \in 1..(Len(rest) - n) : SubSeq(rest, lo, Len(rest))[j] = rest[lo - 1 + j]
    BY <1>2, <2>1, Part
  <2>4. rest' = SubSeq(rest, lo, Len(rest))
    BY <1>1 DEF lo
  <2>5. ASSUME NEW j \in 1..(Len(rest) - n) PROVE rest'[j] = rest[n + j]
    <3>1. j \in Nat
      BY <1>2
    <3>2. lo - 1 + j = n + j
      BY <2>2, <3>1
    <3>3. SubSeq(rest, lo, Len(rest))[j] = rest[lo - 1 + j]
      BY <2>3
    <3> QED
      BY <2>4, <3>2, <3>3
  <2> QED
    BY <2>3, <2>4, <2>5
<1>4. CASE char_tx_value_len = 0
  <2>1. /\ char_tx_value' = Copied(value) /\ char_tx_value_len' = Len(value)
        /\ slot' = [frame |-> Len(sent), at |-> WireLen(Len(sent)) - Len(rest)]
        /\ got' = got \cup {Len(sent)} /\ lost' = lost
    BY <1>1, <1>4 DEF att_write_callback, WireLen
  <2>2. value \in Seq(Byte) /\ Len(value) = n /\ \A j \in 1..n : value[j] = rest[j]
    BY <1>2
  <2> HIDE DEF value
  <2> DEFINE kept == SubSeq(char_tx_value, Len(value) + 1, Len(char_tx_value))
  <2>3. kept \in Seq(Byte)
    BY DEF IInv, TypeOK
  <2>4. char_tx_value' = value \o kept
    BY <2>1 DEF Copied
  <2> HIDE DEF kept
  <2>5. /\ char_tx_value' \in Seq(Byte) /\ Len(char_tx_value') >= n
        /\ \A j \in 1..n : char_tx_value'[j] = rest[j]
    <3>1. /\ value \o kept \in Seq(Byte) /\ Len(value \o kept) = Len(value) + Len(kept) /\ Len(kept) \in Nat
          /\ \A j \in 1..Len(value) : (value \o kept)[j] = value[j]
      BY <2>2, <2>3
    <3> QED
      BY <1>2, <2>2, <2>4, <3>1
  <2> QED
    BY <1>1, <1>2, <1>3, <1>4, <2>1, <2>2, <2>5, AcceptedStep
<1>5. CASE char_tx_value_len # 0
  <2>1. lost' = lost \cup {Len(sent)} /\ UNCHANGED <<mailbox, got>>
    BY <1>1, <1>5 DEF att_write_callback
  <2>2. Len(rest') < Len(rest) /\ Len(rest) - Len(rest') = n
    BY <1>2, <1>3
  <2>3. UNCHANGED <<mailbox, main, got, sent>> /\ size' = size
    BY <1>1, <2>1
  <2> QED
    BY <1>1, <1>3, <2>1, <2>2, <2>3, LostStep
<1> QED
  BY <1>4, <1>5

\* The client disconnects: what is missing of its frame is lost.
LEMMA LeaveStep ==
  ASSUME IInv, Leave
  PROVE  IInv'
<1>1. rest # <<>> /\ rest' = <<>> /\ lost' = lost \cup {Len(sent)} /\ UNCHANGED <<mailbox, main, got, sent, size>>
  BY DEF Leave
<1>2. rest \in Seq(Byte) /\ Len(rest) \in Nat /\ Len(rest) > 0
  <2>1. TypeOK /\ ClientInv
    BY DEF IInv
  <2> QED
    BY <1>1, <2>1, Sizes DEF TypeOK
<1>3. Len(rest') = 0 /\ rest' \in Seq(Byte)
  BY <1>1
<1>4. \A j \in 1..Len(rest') : rest'[j] = rest[Len(rest) - Len(rest') + j]
  BY <1>3
<1>5. UNCHANGED <<mailbox, main, got, sent>> /\ size' = size
  BY <1>1
<1> QED
  BY <1>1, <1>2, <1>3, <1>4, <1>5, LostStep

\* The steps of the main loop that do not move the parser.
LEMMA IdleStep ==
  ASSUME IInv, LoopTop \/ CheckBle \/ FreeMailbox
  PROVE  IInv'
<1> USE DEF IInv
<1>1. /\ char_tx_value' = char_tx_value /\ slot' = slot /\ bleKiss' = bleKiss
      /\ toTnc' = toTnc /\ stale' = stale /\ got' = got /\ lost' = lost /\ overrun' = overrun
      /\ sent' = sent /\ rest' = rest /\ size' = size
  BY DEF LoopTop, CheckBle, FreeMailbox, mailbox, client
<1>2. /\ pc # "forward" /\ pc' # "forward" /\ pc' \in {"loop", "ble", "feed"}
      /\ async_now_ms' \in Clock /\ char_tx_value_len \in Nat
      /\ len \in Nat /\ i \in 0..len
  BY DEF LoopTop, CheckBle, FreeMailbox, TypeOK
<1>3. /\ char_tx_value_len' \in Nat /\ char_tx_value_len' \in {0, char_tx_value_len}
      /\ len' \in Nat /\ i' \in 0..len'
      /\ pc' \in {"loop", "ble"} => len' = 0 /\ i' = 0
      /\ pc' = "feed" => len' = char_tx_value_len' /\ len' > 0 /\ i' = 0
      /\ char_tx_value_len' - i' = char_tx_value_len - i
  <2>1. CASE LoopTop
    BY <1>2, <2>1 DEF LoopTop, LoopInv, mailbox
  <2>2. CASE CheckBle
    BY <1>2, <2>2 DEF CheckBle, LoopInv, mailbox, ble_has_tx_data
  <2>3. CASE FreeMailbox
    BY <1>2, <2>3 DEF FreeMailbox, LoopInv
  <2> QED
    BY <2>1, <2>2, <2>3
<1>4. ~bleKiss.haveFrame
  BY <1>2 DEF LoopInv
<1>5. /\ Unfed' = Unfed
      /\ \A n \in 0..Len(sent) : Written(n)' = Written(n)
      /\ Written(slot.frame)' = Written(slot.frame)
  <2>1. Unfed' = Unfed
    BY <1>2, <1>3 DEF Unfed
  <2> QED
    BY <1>1, <2>1 DEF Written, WireLen, Wire
<1>6. Fed' = Fed
  BY <1>5 DEF Fed
<1>7. TypeOK'
  <2>1. char_tx_value_len' \in 0..Len(char_tx_value')
    BY <1>1, <1>3 DEF TypeOK
  <2>2. pc' \in {"loop", "ble", "feed", "forward"}
    BY <1>2
  <2> QED
    BY <1>1, <1>2, <1>3, <2>1, <2>2 DEF TypeOK
<1>8. ClientInv' /\ SlotInv'
  BY <1>1 DEF ClientInv, SlotInv, WireLen, Wire
<1>9. MailInv'
  <2>1. CASE char_tx_value_len' = 0
    BY <2>1 DEF MailInv
  <2>2. CASE char_tx_value_len' # 0
    <3>1. char_tx_value_len' = char_tx_value_len
      BY <1>3, <2>2
    <3> QED
      BY <1>1, <1>5, <3>1 DEF MailInv, Wire
  <2> QED
    BY <2>1, <2>2
<1>10. LoopInv'
  BY <1>1, <1>2, <1>3, <1>4 DEF LoopInv
<1>11. ParserInv'
  <2>1. ~(bleKiss.inFrame /\ bleKiss.buffer = <<>>)
    <3>1. CASE FreeMailbox
      <4>1. i = len
        BY <3>1 DEF FreeMailbox
      <4> QED
        BY <1>2, <4>1 DEF ParserInv
    <3>2. CASE LoopTop \/ CheckBle
      <4>1. pc # "feed"
        BY <3>2 DEF LoopTop, CheckBle
      <4> QED
        BY <4>1 DEF ParserInv
    <3> QED
      BY <3>1, <3>2
  <2> QED
    BY <1>1, <2>1 DEF ParserInv, Idle
<1>12. FirstInv'
  BY <1>1 DEF FirstInv
<1>13. OnceInv'
  <2>1. More' <=> More
    BY <1>1, <1>5 DEF More
  <2>2. ASSUME char_tx_value_len' > 0, slot'.at + i' = 0
        PROVE  char_tx_value_len > 0 /\ slot.at + i = 0
    <3>1. char_tx_value_len' = char_tx_value_len /\ i' = i
      <4>1. char_tx_value_len' = char_tx_value_len
        BY <1>3, <2>2
      <4>2. i' \in Int /\ i \in Int /\ char_tx_value_len \in Int
        BY <1>2, <1>3
      <4>3. \A a, b, c \in Int : a - b = a - c => b = c
        OBVIOUS
      <4>4. char_tx_value_len - i' = char_tx_value_len - i
        BY <1>3, <4>1
      <4> QED
        BY <4>1, <4>2, <4>3, <4>4
    <3> QED
      BY <1>1, <2>2, <3>1
  <2> QED
    BY <1>1, <1>2, <2>1, <2>2 DEF OnceInv, OncePerFrame, Sent
<1>14. SyncInv' /\ QuietInv'
  BY <1>1, <1>2, <1>6, SyncKept, QuietKept
<1>15. DoneInv'
  BY <1>1, DoneKept
<1>16. UnharmedIsExact'
  BY <1>1, ExactKept
<1> QED
  BY <1>7, <1>8, <1>9, <1>10, <1>11, <1>12, <1>13, <1>14, <1>15, <1>16

\* A complete frame goes to the TNC: if the frame of the client's that
\* completed it is unharmed, it is that frame.
LEMMA ForwardStep ==
  ASSUME IInv, Forward
  PROVE  IInv'
<1> USE DEF IInv
<1> DEFINE n == slot.frame
           w == Wire(sent[n])
           p == slot.at + i + 1
           out == [frame |-> n, bytes |-> Relayed]
<1>1. /\ char_tx_value' = char_tx_value /\ char_tx_value_len' = char_tx_value_len /\ slot' = slot
      /\ async_now_ms' = async_now_ms /\ len' = len /\ i' = i + 1
      /\ stale' = stale /\ got' = got /\ lost' = lost /\ overrun' = overrun
      /\ sent' = sent /\ rest' = rest /\ size' = size
      /\ pc = "forward" /\ pc' = "feed" /\ toTnc' = Append(toTnc, out)
  BY DEF Forward, mailbox, client
<1>2. /\ bleKiss' = kiss_init(async_now_ms) /\ bleKiss' \in KissState
      /\ ~bleKiss'.inFrame /\ ~bleKiss'.inEscape /\ ~bleKiss'.sawFend /\ ~bleKiss'.haveFrame
      /\ bleKiss'.buffer = <<>> /\ bleKiss'.last_feed_ms = async_now_ms
  BY DEF Forward, kiss_init, KissState, TypeOK
<1>3. /\ i < len /\ len = char_tx_value_len /\ len > 0 /\ len \in Nat /\ i \in Nat /\ i + 1 \in 0..len
      /\ char_tx_value[i + 1] = FEND /\ bleKiss.haveFrame
  BY <1>1 DEF LoopInv, TypeOK
<1>4. /\ n \in 1..Len(sent) /\ sent[n] \in Contents /\ n \in got /\ p \in 1..Len(w) /\ Len(w) = WireLen(n)
      /\ n \notin lost => Fed = p
      /\ slot.at \in Nat
  BY <1>1, <1>3, Place
<1>5. Unfed' = Unfed /\ Fed' = Fed
  <2>1. char_tx_value_len \in Nat /\ (char_tx_value_len - (i + 1)) - 0 = (char_tx_value_len - i) - 1
    BY <1>3
  <2>2. Unfed' = Unfed
    BY <1>1, <2>1 DEF Unfed
  <2>3. Written(slot.frame)' = Written(slot.frame)
    BY <1>1 DEF Written, WireLen, Wire
  <2> QED
    BY <2>2, <2>3 DEF Fed
<1>6. toTnc \in Seq([frame: 1..MaxFrames, bytes: Seq(Byte)]) /\ out \in [frame: 1..MaxFrames, bytes: Seq(Byte)]
  <2>1. n \in 1..MaxFrames
    <3>1. Len(sent) <= MaxFrames /\ Len(sent) \in Nat /\ MaxFrames \in Nat
      BY ContentsAssumption DEF TypeOK
    <3> QED
      BY <1>4, <3>1
  <2>2. bleKiss.inFrame /\ bleKiss.buffer # <<>>
    <3>1. bleKiss.inFrame
      BY <1>3 DEF ParserInv
    <3> QED
      BY <1>1, <3>1 DEF ParserInv
  <2>3. Relayed \in Seq(Byte)
    BY <2>2, RelayedType DEF TypeOK
  <2> QED
    BY <2>1, <2>3 DEF TypeOK
<1> HIDE DEF out
<1>7. /\ toTnc' \in Seq([frame: 1..MaxFrames, bytes: Seq(Byte)])
      /\ Len(toTnc) \in Nat /\ Len(toTnc') = Len(toTnc) + 1
      /\ DOMAIN toTnc = 1..Len(toTnc) /\ DOMAIN toTnc' = 1..(Len(toTnc) + 1)
      /\ \A k \in DOMAIN toTnc : toTnc'[k] = toTnc[k]
      /\ toTnc'[Len(toTnc) + 1] = out
  BY <1>1, <1>6
<1>8. out.frame = n /\ out.bytes = Relayed
  BY DEF out
<1>9. \A m : Sent(m) => Sent(m)'
  BY <1>7 DEF Sent
<1>10. Sent(n)' /\ ~Sent(n)
  <2>1. Sent(n)'
    <3>1. Len(toTnc) + 1 \in DOMAIN toTnc' /\ toTnc'[Len(toTnc) + 1].frame = slot'.frame
      BY <1>1, <1>7, <1>8
    <3> QED
      BY <3>1 DEF Sent
  <2>2. ~Sent(n)
    BY <1>1 DEF OnceInv
  <2> QED
    BY <2>1, <2>2
<1>11. TypeOK'
  <2>1. Len(bleKiss'.buffer) <= BUFFER_SIZE
    BY <1>2, SizesAreNat
  <2> QED
    BY <1>1, <1>2, <1>3, <1>7, <2>1 DEF TypeOK
<1>12. ClientInv' /\ SlotInv' /\ MailInv'
  BY <1>1 DEF ClientInv, SlotInv, MailInv, Written, WireLen, Wire
<1>13. LoopInv'
  <2>1. i' > 0 /\ char_tx_value'[i'] = FEND
    BY <1>1, <1>3
  <2> QED
    BY <1>1, <1>2, <1>3, <2>1 DEF LoopInv
<1>14. ParserInv'
  BY <1>2 DEF ParserInv, Idle
<1>15. FirstInv'
  BY <1>1, <1>4 DEF FirstInv
<1>16. OnceInv'
  <2>1. \A k \in DOMAIN toTnc : toTnc[k].frame \in 1..n /\ toTnc[k].frame < n
    <3>1. ASSUME NEW k \in DOMAIN toTnc PROVE toTnc[k].frame \in 1..n /\ toTnc[k].frame # n
      BY <1>10 DEF OnceInv, Sent
    <3> QED
      BY <1>4, <3>1
  <2>2. OncePerFrame'
    <3> SUFFICES ASSUME NEW j \in DOMAIN toTnc', NEW k \in DOMAIN toTnc', j < k
                 PROVE  toTnc'[j].frame < toTnc'[k].frame
      BY DEF OncePerFrame
    <3>1. j \in DOMAIN toTnc /\ (k \in DOMAIN toTnc \/ k = Len(toTnc) + 1)
      BY <1>7
    <3>2. CASE k \in DOMAIN toTnc
      BY <1>7, <3>1, <3>2 DEF OnceInv, OncePerFrame
    <3>3. CASE k = Len(toTnc) + 1
      BY <1>7, <1>8, <2>1, <3>1, <3>3
    <3> QED
      BY <3>1, <3>2, <3>3
  <2>3. \A k \in DOMAIN toTnc' : toTnc'[k].frame \in 1..slot'.frame
    <3> SUFFICES ASSUME NEW k \in DOMAIN toTnc' PROVE toTnc'[k].frame \in 1..n
      BY <1>1
    <3>1. k \in DOMAIN toTnc \/ k = Len(toTnc) + 1
      BY <1>7
    <3> QED
      BY <1>4, <1>7, <1>8, <2>1, <3>1
  <2>4. ~(slot'.at + i' = 0)
    BY <1>1, <1>3, <1>4
  <2> QED
    BY <1>1, <1>2, <2>2, <2>3, <2>4 DEF OnceInv
<1>17. ASSUME Unharmed(n) PROVE Fed = Len(w) /\ bleKiss.buffer = sent[n]
  <2>1. n \notin lost /\ n > 0
    BY <1>4, <1>17 DEF Unharmed, Torn
  <2>2. Fed = p
    BY <1>4, <2>1
  <2>3. ~(0 < Fed /\ Fed < Len(w))
    BY <1>1, <1>17, <2>1 DEF SyncInv
  <2>4. Fed = Len(w)
    BY <1>4, <2>2, <2>3
  <2> QED
    BY <1>1, <1>17, <2>1, <2>4 DEF SyncInv
<1>18. /\ \A m : Unharmed(m)' <=> Unharmed(m)
       /\ Torn' = Torn
  BY <1>1 DEF Unharmed, Torn
<1>19. SyncInv'
  <2>1. Wire(sent[slot.frame])' = w /\ (Unharmed(slot.frame)' => Unharmed(n)) /\ (Sent(slot.frame)' <=> Sent(n)')
    BY <1>1, <1>18 DEF Wire, Sent, Unharmed, Torn
  <2>2. Unharmed(n) => Fed' = Len(w)
    BY <1>5, <1>17
  <2>3. Len(w) > 0 /\ Len(w) \in Nat
    BY <1>4
  <2> HIDE DEF w
  <2> QED
    BY <1>1, <1>2, <1>10, <2>1, <2>2, <2>3 DEF SyncInv
<1>20. DoneInv'
  BY <1>1, <1>9, <1>18 DEF DoneInv
<1>21. UnharmedIsExact'
  <2> SUFFICES ASSUME NEW k \in DOMAIN toTnc', Unharmed(toTnc[k].frame)'
               PROVE  toTnc'[k].bytes = Wire(sent[toTnc[k].frame])'
    BY DEF UnharmedIsExact
  <2>1. k \in DOMAIN toTnc \/ k = Len(toTnc) + 1
    BY <1>7
  <2>2. Unharmed(toTnc'[k].frame)
    BY <1>1 DEF Unharmed, Torn
  <2> SUFFICES toTnc'[k].bytes = Wire(sent[toTnc'[k].frame])
    BY <1>1 DEF Wire
  <2>3. CASE k \in DOMAIN toTnc
    BY <1>7, <2>2, <2>3 DEF UnharmedIsExact
  <2>4. CASE k = Len(toTnc) + 1
    <3>1. Unharmed(n) /\ toTnc'[k].frame = n /\ toTnc'[k].bytes = Relayed
      BY <1>7, <1>8, <2>2, <2>4
    <3>2. bleKiss.buffer = sent[n] /\ bleKiss.buffer \in Contents
      BY <1>4, <1>17, <3>1
    <3> QED
      BY <3>1, <3>2, RelayedFrame
  <2> QED
    BY <2>1, <2>3, <2>4
<1>22. QuietInv'
  <2>1. Wire(sent[slot.frame])' = w /\ slot'.frame = n
    BY <1>1 DEF Wire
  <2>2. Apart(slot.frame)' => Apart(n) /\ n \notin lost
    BY <1>1, <1>4 DEF Apart
  <2>3. Apart(n) => ~(0 < Fed /\ Fed < Len(w))
    BY <1>1, <1>4 DEF QuietInv
  <2> HIDE DEF w
  <2> QED
    BY <1>1, <1>2, <1>5, <2>1, <2>2, <2>3 DEF QuietInv
<1> QED
  BY <1>11, <1>12, <1>13, <1>14, <1>15, <1>16, <1>19, <1>20, <1>21, <1>22

\* The heart of the argument: one byte of the mailbox goes to the parser.  The
\* only FENDs of a frame are its first and its last byte.
LEMMA FeedStep ==
  ASSUME IInv, FeedByte
  PROVE  IInv'
<1> USE DEF IInv
<1> DEFINE n == slot.frame
           w == Wire(sent[n])
           p == slot.at + i + 1
           byte == char_tx_value[i + 1]
           k == bleKiss
           now == async_now_ms
           fed == bleKiss'
<1>1. /\ char_tx_value' = char_tx_value /\ char_tx_value_len' = char_tx_value_len /\ slot' = slot
      /\ async_now_ms' = async_now_ms /\ len' = len /\ toTnc' = toTnc /\ got' = got /\ lost' = lost /\ overrun' = overrun
      /\ sent' = sent /\ rest' = rest /\ size' = size
      /\ pc = "feed" /\ i < len
      /\ fed = kiss_feed(k, byte, now)
      /\ stale' = IF CutsFrame THEN stale \cup {n} ELSE stale
      /\ fed.haveFrame => pc' = "forward" /\ i' = i
      /\ ~fed.haveFrame => pc' = "feed" /\ i' = i + 1
      /\ Len(fed.buffer) <= BUFFER_SIZE
  BY DEF FeedByte, NextKiss, mailbox, client
<1>2. /\ n \in 1..Len(sent) /\ sent[n] \in Contents /\ n \in got
      /\ p \in 1..Len(w) /\ Len(w) = WireLen(n)
      /\ len = char_tx_value_len /\ i \in Nat /\ slot.at \in Nat
      /\ byte = w[p] /\ byte \in Byte
      /\ i > 0 => p > 1 /\ char_tx_value[i] = w[p - 1]
      /\ len = 1 => p = Len(w)
      /\ p = Len(w) => i + 1 = len /\ Written(n) = WireLen(n)
      /\ n \notin lost => Fed = p - 1
  BY <1>1, Place
<1>3. /\ k \in KissState /\ now \in Clock /\ Idle(k) /\ ~k.haveFrame /\ fed \in KissState /\ len \in Nat
      /\ Len(sent) \in Nat /\ Len(sent) <= MaxFrames /\ MaxFrames \in Nat
  <2>1. k \in KissState /\ now \in Clock /\ Idle(k) /\ ~k.haveFrame /\ len \in Nat
    BY <1>1 DEF TypeOK, ParserInv, LoopInv
  <2>2. Len(sent) \in Nat /\ Len(sent) <= MaxFrames /\ MaxFrames \in Nat
    BY ContentsAssumption DEF TypeOK
  <2> QED
    BY <1>1, <1>2, <2>1, <2>2, FeedType
<1>4. /\ Len(w) \in Nat /\ Len(w) >= 3
      /\ byte = FEND <=> p = 1 \/ p = Len(w)
      /\ w[2] \notin {FEND, FESC}
      /\ \A q \in 1..Len(w) : w[q] = FESC => q > 2 /\ q + 1 < Len(w) /\ w[q + 1] \in {TFEND, TFESC}
      /\ w[1] = FEND
  <2>1. /\ w \in Seq(Byte) /\ Len(w) \in Nat /\ Len(w) >= 3
        /\ w[1] = FEND /\ w[Len(w)] = FEND /\ w[2] \notin {FEND, FESC}
        /\ \A q \in 1..Len(w) : w[q] = FEND => q = 1 \/ q = Len(w)
        /\ \A q \in 1..Len(w) : w[q] = FESC => q > 2 /\ q + 1 < Len(w) /\ w[q + 1] \in {TFEND, TFESC}
    BY <1>2, WireBytes
  <2> HIDE DEF w
  <2> QED
    BY <1>2, <2>1
<1> HIDE DEF w, k, byte, fed
<1>5. i > 0 => ~Expired(k, now)
  BY <1>1, <1>3, Fresh DEF LoopInv, k
<1>6. FEND \notin {FESC, TFEND, TFESC} /\ FESC \notin {TFEND, TFESC}
  BY DEF FEND, FESC, TFEND, TFESC
\* What the parser makes of it.
<1>7. ASSUME byte = FEND
      PROVE  /\ fed.last_feed_ms = now
             /\ fed.haveFrame => /\ k.inFrame /\ k.sawFend /\ ~Expired(k, now)
                                 /\ fed.inFrame /\ fed.buffer = k.buffer
             /\ ~fed.haveFrame => /\ fed.sawFend /\ ~fed.inFrame
                                  /\ fed.buffer = <<>> /\ ~fed.inEscape
             /\ k.inFrame /\ k.sawFend /\ ~Expired(k, now) => fed.haveFrame
  <2>1. fed = kiss_feed(k, FEND, now)
    BY <1>1, <1>7
  <2> QED
    BY <1>3, <2>1, FedFend
<1>8. ASSUME byte # FEND
      PROVE  /\ fed.last_feed_ms = now /\ fed.inFrame /\ ~fed.haveFrame
             /\ fed.sawFend => k.sawFend /\ ~Expired(k, now)
             /\ ~Expired(k, now) => fed.sawFend = k.sawFend
             /\ Len(fed.buffer) <= Len(k.buffer) + 1
             /\ fed.buffer = <<>> => byte = FESC /\ fed.inEscape
             /\ fed.buffer = <<>> /\ ~Expired(k, now) => k.buffer = <<>>
             /\ ~Expired(k, now) =>
                  \A seg \in Seq(Byte) :
                    Holds(k, seg) /\ Escaping(Append(seg, byte)) => Holds(fed, Append(seg, byte))
  <2>1. k \in KissState /\ ~k.haveFrame /\ byte \in Byte /\ byte # FEND /\ now \in Clock
    BY <1>2, <1>3, <1>8
  <2>2. fed = kiss_feed(k, byte, now)
    BY <1>1
  <2> HIDE DEF now
  <2> QED
    BY <2>1, <2>2, FedData
<1>9. fed.last_feed_ms = now /\ (fed.haveFrame => byte = FEND /\ fed.inFrame)
  BY <1>7, <1>8
\* No frame ends before its first byte.
<1>10. k.inFrame /\ k.buffer = <<>> => i > 0 /\ w[p - 1] = FESC /\ byte \in {TFEND, TFESC}
  <2> SUFFICES ASSUME k.inFrame, k.buffer = <<>>
               PROVE  i > 0 /\ w[p - 1] = FESC /\ byte \in {TFEND, TFESC}
    OBVIOUS
  <2>1. i > 0 /\ char_tx_value[i] = FESC
    BY DEF ParserInv, k
  <2>2. w[p - 1] = FESC /\ p - 1 \in 1..Len(w) /\ (p - 1) + 1 = p
    BY <1>2, <2>1
  <2>3. w[p] \in {TFEND, TFESC}
    BY <1>4, <2>2
  <2> QED
    BY <1>2, <2>1, <2>2, <2>3
<1>11. fed.buffer # <<>> \/ ~fed.inFrame \/ (byte = FESC /\ fed.inEscape /\ ~fed.haveFrame /\ i + 1 < len)
  <2>1. CASE byte = FEND
    <3>1. fed.haveFrame => k.buffer # <<>>
      BY <1>6, <1>7, <1>10, <2>1
    <3> QED
      BY <1>7, <2>1, <3>1
  <2>2. CASE byte # FEND
    <3> SUFFICES ASSUME fed.buffer = <<>> PROVE i + 1 < len
      BY <1>8, <2>2
    <3>1. byte = FESC
      BY <1>8, <2>2
    <3>2. i = 0
      <4> SUFFICES ASSUME i > 0 PROVE FALSE
        BY <1>2
      <4>1. k.buffer = <<>>
        BY <1>5, <1>8, <2>2
      <4>2. CASE k.inFrame
        BY <1>6, <1>10, <3>1, <4>1, <4>2
      <4>3. CASE ~k.inFrame
        <5>1. char_tx_value[i] = FEND
          BY <1>1, <4>3 DEF LoopInv, k
        <5>2. w[p - 1] = FEND /\ p - 1 \in 1..Len(w)
          BY <1>2, <5>1
        <5>3. p > 2 /\ p < Len(w)
          <6>1. p \in 1..Len(w) /\ w[p] = FESC
            BY <1>2, <3>1
          <6>2. p > 2 /\ p + 1 < Len(w)
            BY <1>4, <6>1
          <6> QED
            BY <1>4, <6>1, <6>2
        <5>4. p - 1 = 1 \/ p - 1 = Len(w)
          BY <1>2, <5>2, WireBytes DEF w
        <5> QED
          BY <1>2, <1>4, <5>3, <5>4
      <4> QED
        BY <4>2, <4>3
    <3>3. len # 1
      BY <1>2, <1>4, <3>1, <1>6
    <3> QED
      BY <1>1, <1>2, <1>3, <3>2, <3>3
  <2> QED
    BY <2>1, <2>2
\* What the step leaves for the parser to see.
<1>12. /\ Unfed' = Unfed - 1 /\ Unfed = len - i /\ Unfed > 0 /\ Unfed \in Nat
       /\ Fed' = Fed + 1 /\ Fed \in Int
  <2>1. Unfed = len - i - 0
    BY <1>1, <1>2 DEF Unfed
  <2>2. Unfed' = (len - i) - 1
    <3>1. fed.haveFrame => Unfed' = len - i - 1
      BY <1>1, <1>2 DEF Unfed
    <3>2. ~fed.haveFrame => Unfed' = len - (i + 1) - 0
      BY <1>1, <1>2 DEF Unfed
    <3> QED
      BY <1>2, <1>3, <3>1, <3>2
  <2>3. Written(slot.frame)' = Written(n) /\ Written(n) \in Int
    <3>1. Written(slot.frame)' = Written(n)
      BY <1>1 DEF Written, WireLen, Wire
    <3>2. Written(n) \in Int
      BY <1>2, Sizes
    <3> QED
      BY <3>1, <3>2
  <2>4. Fed = Written(n) - Unfed /\ Fed' = Written(slot.frame)' - Unfed'
    BY DEF Fed
  <2>5. len - i \in Nat /\ len - i > 0
    BY <1>1, <1>2, <1>3
  <2> DEFINE done == Written(n)
             left == len - i
  <2>6. Unfed = left /\ Unfed' = left - 1
    BY <1>2, <1>3, <2>1, <2>2
  <2>7. left \in Nat /\ left > 0 /\ done \in Int /\ Fed = done - Unfed /\ Fed' = done - Unfed'
    BY <2>3, <2>4, <2>5
  <2> HIDE DEF done, left
  <2>8. Fed' = Fed + 1 /\ Fed \in Int /\ Unfed' = Unfed - 1 /\ Unfed > 0 /\ Unfed \in Nat
    BY <2>6, <2>7
  <2> QED
    BY <2>6, <2>8 DEF left
<1>13. TypeOK'
  <2>1. stale' \subseteq 1..MaxFrames
    <3>1. n \in 1..MaxFrames
      BY <1>2, <1>3
    <3> QED
      BY <1>1, <3>1 DEF TypeOK
  <2>2. i' \in 0..len' /\ pc' \in {"loop", "ble", "feed", "forward"}
    BY <1>1, <1>2, <1>3
  <2> QED
    BY <1>1, <1>3, <2>1, <2>2 DEF TypeOK, fed
<1>14. ClientInv' /\ SlotInv' /\ MailInv' /\ FirstInv'
  <2>1. stale' \subseteq 1..n
    <3>1. n \in 1..n
      BY <1>2
    <3> QED
      BY <1>1, <3>1 DEF SlotInv
  <2>2. n # 0
    BY <1>2
  <2>3. SlotInv'
    BY <1>1, <2>1 DEF SlotInv, WireLen, Wire
  <2> QED
    BY <1>1, <2>2, <2>3 DEF ClientInv, MailInv, FirstInv, Written, WireLen, Wire
<1>15. LoopInv'
  <2>1. CASE fed.haveFrame
    <3>1. byte = FEND /\ char_tx_value'[i' + 1] = FEND
      BY <1>1, <1>9, <2>1 DEF byte
    <3> QED
      BY <1>1, <1>2, <1>3, <1>9, <2>1, <3>1 DEF LoopInv, fed
  <2>2. CASE ~fed.haveFrame
    <3>1. char_tx_value'[i'] = byte /\ i' > 0
      BY <1>1, <1>2, <2>2 DEF byte
    <3>2. ~fed.inFrame => byte = FEND
      BY <1>8
    <3> QED
      BY <1>1, <1>2, <1>3, <1>9, <2>2, <3>1, <3>2 DEF LoopInv, fed
  <2> QED
    BY <2>1, <2>2
<1>16. ParserInv'
  <2>1. Idle(fed)
    BY <1>7, <1>8, <1>9 DEF Idle
  <2>2. Idle(bleKiss)'
    BY <2>1 DEF Idle, fed
  <2>3. fed.inFrame /\ fed.buffer = <<>> => /\ fed.inEscape /\ pc' = "feed" /\ i' > 0 /\ i' < len'
                                            /\ char_tx_value'[i'] = FESC
    BY <1>1, <1>2, <1>11 DEF byte
  <2> QED
    BY <1>9, <2>2, <2>3 DEF ParserInv, fed
<1>17. Sent(slot.frame)' <=> Sent(n)
  BY <1>1 DEF Sent
<1>18. ASSUME Sent(n) PROVE ~k.sawFend /\ ~(slot.at + i = 0)
  <2>1. More
    BY <1>12 DEF More
  <2>2. char_tx_value_len > 0
    BY <1>1, <1>2, <1>3
  <2> QED
    BY <1>18, <2>1, <2>2 DEF OnceInv, k
<1>19. OnceInv'
  <2>1. OncePerFrame' /\ \A j \in DOMAIN toTnc' : toTnc'[j].frame \in 1..slot'.frame
    BY <1>1 DEF OnceInv, OncePerFrame
  <2> SUFFICES ASSUME Sent(n)
               PROVE  /\ pc' # "forward" /\ (More' => ~fed.sawFend)
                      /\ ~(slot'.at + i' = 0)
    BY <1>17, <2>1 DEF OnceInv, fed
  <2>2. ~fed.haveFrame /\ pc' = "feed" /\ i' = i + 1
    BY <1>1, <1>7, <1>8, <1>18
  <2>3. ~(slot'.at + i' = 0)
    BY <1>1, <1>2, <2>2
  <2>4. ASSUME fed.sawFend PROVE ~More'
    <3>1. byte = FEND
      BY <1>8, <1>18, <2>4
    <3>2. p # 1
      BY <1>2, <1>18
    <3>3. p = Len(w)
      BY <1>4, <3>1, <3>2
    <3>4. i + 1 = len /\ Written(n) = WireLen(n)
      BY <1>2, <3>3
    <3>5. n < Len(sent) \/ rest = <<>>
      BY <1>2, <3>4, Sizes
    <3>6. Unfed' = 0
      BY <1>2, <1>12, <3>4
    <3>7. slot'.frame = Len(sent)' /\ rest' # <<>> => FALSE
      BY <1>1, <1>2, <3>5
    <3> QED
      BY <3>6, <3>7 DEF More
  <2> QED
    BY <2>2, <2>3, <2>4
<1>20. /\ \A x \in got' \ got : x \in Nat /\ x > n
       /\ \A x \in got' \ got : ~(x < n)
       /\ lost \subseteq lost' /\ got \subseteq got' /\ stale \subseteq stale'
  BY <1>1
<1>21. DoneInv' /\ UnharmedIsExact'
  BY <1>1, <1>20, DoneKept, ExactKept
<1>22. Unharmed(n)' => Unharmed(n)
  <2>1. n \in Nat
    BY <1>2
  <2> QED
    BY <1>1, <1>20, <2>1, UnharmedBefore
<1>23. ASSUME n \notin Torn' PROVE n \notin lost /\ Fed = p - 1 /\ Fed' = p
  <2>1. n \notin lost
    BY <1>1, <1>2, <1>23 DEF Torn
  <2>2. Fed = p - 1
    BY <1>2, <2>1
  <2>3. p \in Int
    BY <1>2
  <2> HIDE DEF p
  <2> QED
    BY <1>12, <2>1, <2>2, <2>3
<1>24. ASSUME n \notin Torn', p = Len(w) PROVE pc' = "forward" \/ ~fed.inFrame
  BY <1>1, <1>4, <1>7, <1>24
<1>25. ASSUME Unharmed(n)'
       PROVE  /\ n \notin Torn' /\ Unharmed(n)
              /\ p > 1 => ~Expired(k, now)
  <2>1. n \notin Torn' /\ Unharmed(n)
    BY <1>1, <1>22, <1>25 DEF Unharmed
  <2>2. n \notin stale'
    BY <2>1 DEF Torn
  <2>3. ~CutsFrame
    BY <1>1, <2>2
  <2>4. p > 1 => slot.at + i > 0
    BY <1>2
  <2> QED
    BY <2>1, <2>3, <2>4 DEF CutsFrame, k
<1>26. ASSUME Unharmed(n)', p = 1
       PROVE  /\ fed.sawFend /\ pc' # "forward" /\ ~fed.inFrame
              /\ Holds(fed, SubSeq(w, 2, p))
  <2>1. Fed = 0 /\ n > 0
    <3>1. n \notin Torn'
      BY <1>25, <1>26
    <3>2. Fed = p - 1
      BY <1>23, <3>1
    <3>3. n > 0
      BY <1>2
    <3>4. p = 1
      BY <1>26
    <3> HIDE DEF p
    <3>5. p - 1 = 0
      BY <3>4
    <3> QED
      BY <3>2, <3>3, <3>5
  <2>2. ~k.inFrame
    BY <1>25, <1>26, <2>1 DEF SyncInv, k
  <2>3. fed.sawFend /\ ~fed.haveFrame /\ ~fed.inFrame /\ fed.buffer = <<>> /\ ~fed.inEscape
    BY <1>4, <1>7, <1>26, <2>2
  <2>4. Holds(fed, <<>>)
    <3>1. EscapeAll(<<>>) \o <<>> = <<>>
      BY EscapeAllEmpty
    <3> QED
      BY <2>3, <3>1 DEF Holds
  <2>5. SubSeq(w, 2, 1) = <<>>
    BY SubSeqEmpty
  <2> QED
    BY <1>1, <1>26, <2>3, <2>4, <2>5
<1>27. ASSUME Unharmed(n)', 1 < p
       PROVE  k.sawFend /\ (k.inFrame <=> p > 2) /\ Holds(k, SubSeq(w, 2, p - 1))
  <2>1. Fed = p - 1 /\ 0 < Fed /\ Fed < Len(w) /\ n > 0 /\ (Fed > 1 <=> p > 2)
    BY <1>2, <1>4, <1>23, <1>25, <1>27
  <2>2. k.sawFend /\ (k.inFrame <=> Fed > 1) /\ Holds(k, SubSeq(w, 2, Fed))
    BY <1>25, <1>27, <2>1 DEF SyncInv, k, w
  <2> QED
    BY <2>1, <2>2
<1>28. ASSUME Unharmed(n)', 1 < p, p < Len(w)
       PROVE  /\ fed.sawFend /\ pc' # "forward" /\ fed.inFrame
              /\ Holds(fed, SubSeq(w, 2, p))
  <2>1. byte # FEND /\ ~Expired(k, now)
    BY <1>4, <1>25, <1>28
  <2>2. fed.sawFend /\ fed.inFrame /\ ~fed.haveFrame
    BY <1>8, <1>27, <1>28, <2>1
  <2>3. p \in 1..(Len(w) - 1) /\ p - 1 \in 1..(Len(w) - 1)
    BY <1>2, <1>4, <1>28
  <2>4. /\ Escaping(SubSeq(w, 2, p)) /\ SubSeq(w, 2, p) = Append(SubSeq(w, 2, p - 1), byte)
        /\ SubSeq(w, 2, p - 1) \in Seq(Byte)
    BY <1>2, <1>28, <2>3, WireSegment DEF w
  <2>5. Holds(fed, SubSeq(w, 2, p))
    BY <1>8, <1>27, <1>28, <2>1, <2>4
  <2> QED
    BY <1>1, <2>2, <2>5
<1>29. ASSUME Unharmed(n)', p = Len(w)
       PROVE  pc' = "forward" /\ fed.buffer = sent[n]
  <2>1. byte = FEND /\ ~Expired(k, now) /\ k.inFrame /\ k.sawFend /\ Holds(k, SubSeq(w, 2, Len(w) - 1))
    BY <1>4, <1>25, <1>27, <1>29
  <2>2. fed.haveFrame /\ fed.buffer = k.buffer
    BY <1>7, <2>1
  <2>3. k.buffer = sent[n]
    BY <1>2, <1>3, <2>1, HoldsAll DEF w
  <2> QED
    BY <1>1, <2>2, <2>3
<1>30. SyncInv'
  <2>1. Wire(sent[slot.frame])' = w
    BY <1>1 DEF Wire, w
  <2>2. slot'.frame = n /\ sent'[n] = sent[n]
    BY <1>1
  <2>3. (slot.frame \notin Torn)' => n \notin Torn'
    BY <1>1 DEF Torn
  <2>4. Unharmed(slot.frame)' => Unharmed(n)'
    BY <1>1 DEF Unharmed, Torn
  <2>5. p \in Nat /\ p >= 1 /\ p <= Len(w)
    BY <1>2
  <2>6. n \notin Torn' => Fed' = p
    BY <1>23
  <2>7. n \notin Torn' /\ p = Len(w) => pc' = "forward" \/ ~fed.inFrame
    BY <1>24
  <2>8. Unharmed(n)' => /\ n \notin Torn'
                        /\ p < Len(w) => /\ fed.sawFend /\ pc' # "forward"
                                         /\ fed.inFrame <=> p > 1
                                         /\ Holds(fed, SubSeq(w, 2, p))
                        /\ p = Len(w) => pc' = "forward" /\ fed.buffer = sent[n]
    <3> SUFFICES ASSUME Unharmed(n)'
                 PROVE  /\ n \notin Torn'
                        /\ p < Len(w) => /\ fed.sawFend /\ pc' # "forward"
                                         /\ fed.inFrame <=> p > 1
                                         /\ Holds(fed, SubSeq(w, 2, p))
                        /\ p = Len(w) => pc' = "forward" /\ fed.buffer = sent[n]
      OBVIOUS
    <3>1. p = 1 \/ 1 < p
      BY <2>5
    <3> QED
      BY <1>25, <1>26, <1>28, <1>29, <2>5, <3>1
  <2>9. Fed' = p => ~(Fed' = 0)
    BY <2>5
  <2> HIDE DEF p
  <2> QED
    BY <2>1, <2>2, <2>3, <2>4, <2>5, <2>6, <2>7, <2>8, <2>9 DEF SyncInv, fed
\* The same of a frame that is apart, whatever a silence has done to it.
<1>31. n \notin got' \cap lost' => Fed = p - 1 /\ Fed' = p
  <2>1. n \notin got' \cap lost' => Fed = p - 1
    BY <1>1, <1>2
  <2>2. p \in Int
    BY <1>2
  <2> HIDE DEF p
  <2> QED
    BY <1>12, <2>1, <2>2
<1>32. p = Len(w) => pc' = "forward" \/ ~fed.inFrame
  BY <1>1, <1>4, <1>7
<1>33. ASSUME Apart(n)'
       PROVE  /\ Apart(n) /\ n \notin got' \cap lost' /\ n > 0
              /\ Fed = p - 1
  <2>1. Apart(n) /\ n \notin got' \cap lost'
    BY <1>1, <1>33 DEF Apart
  <2>2. n > 0
    BY <1>2
  <2> QED
    BY <1>31, <2>1, <2>2
<1>34. ASSUME Apart(n)', p = 1
       PROVE  /\ pc' # "forward" /\ Len(fed.buffer) <= p - 1
              /\ Holds(fed, SubSeq(w, 2, p))
  <2>1. Fed = 0
    BY <1>33, <1>34
  <2>2. ~k.inFrame
    BY <1>33, <1>34, <2>1 DEF QuietInv, k
  <2>3. ~fed.haveFrame /\ fed.buffer = <<>> /\ ~fed.inEscape
    BY <1>4, <1>7, <1>34, <2>2
  <2>4. Holds(fed, <<>>) /\ Len(<<>>) = 0
    <3>1. EscapeAll(<<>>) \o <<>> = <<>>
      BY EscapeAllEmpty
    <3> QED
      BY <2>3, <3>1 DEF Holds
  <2>5. SubSeq(w, 2, 1) = <<>>
    BY SubSeqEmpty
  <2>6. p - 1 = 0 /\ SubSeq(w, 2, p) = SubSeq(w, 2, 1)
    BY <1>34
  <2>7. pc' # "forward"
    BY <1>1, <2>3
  <2> HIDE DEF p
  <2>8. Len(fed.buffer) <= p - 1
    BY <2>3, <2>4, <2>6
  <2>9. Holds(fed, SubSeq(w, 2, p))
    BY <2>4, <2>5, <2>6
  <2> QED
    BY <2>7, <2>8, <2>9
<1>35. ASSUME Apart(n)', 1 < p
       PROVE  Len(k.buffer) <= p - 2 /\ (k.sawFend => Holds(k, SubSeq(w, 2, p - 1)))
  <2>1. Fed = p - 1 /\ 0 < Fed /\ Fed < Len(w) /\ Fed - 1 = p - 2
    BY <1>2, <1>4, <1>33, <1>35
  <2>2. Len(k.buffer) <= Fed - 1 /\ (k.sawFend => Holds(k, SubSeq(w, 2, Fed)))
    <3>1. n > 0 /\ Apart(n)
      BY <1>33, <1>35
    <3> HIDE DEF p
    <3> QED
      BY <2>1, <3>1 DEF QuietInv, k, w
  <2> QED
    BY <2>1, <2>2
<1>36. ASSUME Apart(n)', 1 < p, p < Len(w)
       PROVE  /\ pc' # "forward" /\ Len(fed.buffer) <= p - 1
              /\ fed.sawFend => Holds(fed, SubSeq(w, 2, p))
  <2>1. byte # FEND
    BY <1>4, <1>36
  <2>2. Len(fed.buffer) <= Len(k.buffer) + 1 /\ ~fed.haveFrame
    BY <1>8, <2>1
  <2>3. Len(fed.buffer) <= p - 1
    <3>1. Len(k.buffer) \in Nat /\ Len(fed.buffer) \in Nat /\ p \in Nat
      BY <1>2, <1>3 DEF KissState
    <3> HIDE DEF p
    <3> QED
      BY <1>35, <1>36, <2>2, <3>1
  <2>4. p \in 1..(Len(w) - 1) /\ p - 1 \in 1..(Len(w) - 1)
    BY <1>2, <1>4, <1>36
  <2>5. /\ Escaping(SubSeq(w, 2, p)) /\ SubSeq(w, 2, p) = Append(SubSeq(w, 2, p - 1), byte)
        /\ SubSeq(w, 2, p - 1) \in Seq(Byte)
    BY <1>2, <1>36, <2>4, WireSegment DEF w
  <2>6. fed.sawFend => Holds(fed, SubSeq(w, 2, p))
    <3>1. fed.sawFend => k.sawFend /\ ~Expired(k, now)
      BY <1>8, <2>1
    <3> QED
      BY <1>8, <1>35, <1>36, <2>1, <2>5, <3>1
  <2> QED
    BY <1>1, <2>2, <2>3, <2>6
<1>37. ASSUME Apart(n)', p = Len(w), pc' = "forward"
       PROVE  fed.buffer = sent[n]
  <2>1. byte = FEND /\ fed.haveFrame /\ 1 < p
    BY <1>1, <1>4, <1>37
  <2>2. k.sawFend /\ fed.buffer = k.buffer
    BY <1>7, <2>1
  <2>3. Holds(k, SubSeq(w, 2, Len(w) - 1))
    BY <1>35, <1>37, <2>1, <2>2
  <2> QED
    BY <1>2, <1>3, <2>2, <2>3, HoldsAll DEF w
<1>38. QuietInv'
  <2>1. Wire(sent[slot.frame])' = w
    BY <1>1 DEF Wire, w
  <2>2. slot'.frame = n /\ sent'[n] = sent[n]
    BY <1>1
  <2>3. Apart(slot.frame)' => Apart(n)' /\ n \notin got' \cap lost'
    BY <1>1 DEF Apart
  <2>4. p \in Nat /\ p >= 1 /\ p <= Len(w)
    BY <1>2
  <2>5. Apart(n)' /\ p < Len(w) => /\ pc' # "forward" /\ Len(fed.buffer) <= p - 1
                                   /\ fed.sawFend => Holds(fed, SubSeq(w, 2, p))
    <3>1. p = 1 \/ 1 < p
      BY <2>4
    <3> QED
      BY <1>34, <1>36, <3>1
  <2>6. Fed' = p => ~(Fed' = 0)
    BY <2>4
  <2> HIDE DEF p
  <2> QED
    BY <1>31, <1>32, <1>37, <2>1, <2>2, <2>3, <2>4, <2>5, <2>6 DEF QuietInv, fed
<1> QED
  BY <1>13, <1>14, <1>15, <1>16, <1>19, <1>21, <1>30, <1>38

---------------------------------------------------------------------------
(* The theorems.                                                           *)

\* One lemma for each action.
LEMMA IInvNext == IInv /\ [Next]_vars => IInv'
<1> SUFFICES ASSUME IInv, [Next]_vars PROVE IInv'
  OBVIOUS
<1>1. CASE Begin
  BY <1>1, BeginStep
<1>2. CASE Write
  BY <1>2, WriteStep
<1>3. CASE Leave
  BY <1>3, LeaveStep
<1>4. CASE LoopTop \/ CheckBle \/ FreeMailbox
  BY <1>4, IdleStep
<1>5. CASE FeedByte
  BY <1>5, FeedStep
<1>6. CASE Forward
  BY <1>6, ForwardStep
<1>7. CASE UNCHANGED vars \/ FeedBeyond \/ ForwardBeyond
  <2>1. /\ char_tx_value' = char_tx_value /\ char_tx_value_len' = char_tx_value_len /\ slot' = slot
        /\ bleKiss' = bleKiss /\ async_now_ms' = async_now_ms /\ pc' = pc /\ len' = len /\ i' = i
        /\ toTnc' = toTnc /\ stale' = stale /\ sent' = sent /\ rest' = rest /\ size' = size
        /\ got' = got /\ lost' = lost /\ overrun' \in BOOLEAN
    BY <1>7 DEF vars, FeedBeyond, ForwardBeyond, mailbox, main, client, IInv, TypeOK
  <2>2. TypeOK' /\ ClientInv' /\ SlotInv' /\ MailInv' /\ LoopInv' /\ ParserInv' /\ FirstInv'
    <3>1. TypeOK'
      BY <2>1 DEF IInv, TypeOK
    <3>2. ClientInv' /\ SlotInv' /\ FirstInv'
      BY <2>1 DEF IInv, ClientInv, SlotInv, FirstInv, WireLen, Wire
    <3>3. MailInv'
      BY <2>1 DEF IInv, MailInv, Written, WireLen, Wire
    <3>4. LoopInv'
      BY <2>1 DEF IInv, LoopInv
    <3>5. ParserInv'
      BY <2>1 DEF IInv, ParserInv, Idle
    <3> QED
      BY <3>1, <3>2, <3>3, <3>4, <3>5
  <2>3. Fed' = Fed
    BY <2>1 DEF Fed, Unfed, Written, WireLen, Wire
  <2>4. OnceInv'
    BY <2>1 DEF IInv, OnceInv, OncePerFrame, Sent, More, Unfed
  <2>5. SyncInv' /\ QuietInv' /\ DoneInv' /\ UnharmedIsExact'
    BY <2>1, <2>3, SyncKept, QuietKept, DoneKept, ExactKept DEF IInv
  <2> QED
    BY <2>2, <2>4, <2>5 DEF IInv
<1> QED
  BY <1>1, <1>2, <1>3, <1>4, <1>5, <1>6, <1>7 DEF Next, Client, Main

\* The invariant holds in every reachable state.
THEOREM Invariance == Spec => []IInv
<1> QED
  BY IInvInit, IInvNext, PTL DEF Spec

\* What is in the mailbox, the parser and the UART are bytes, the loop counter of
\* ble_write_callback stays within the value, and no frame has a number the
\* client has not begun.
THEOREM TypeCorrect == Spec => []TypeOK
<1>1. IInv => TypeOK
  BY DEF IInv
<1> QED
  BY <1>1, Invariance, PTL

\* As long as no buffer is overrun (Overruns says when one may be), a frame that
\* goes to the TNC for a frame of the client's that is unharmed is that frame, byte
\* by byte: for frames of any content that fit in the buffers on their own, writes
\* of any sizes from 2 on, and any interleaving of att_write_callback with the main
\* loop.
THEOREM Exact == Spec => []UnharmedIsExact
<1>1. IInv => UnharmedIsExact
  BY DEF IInv
<1> QED
  BY <1>1, Invariance, PTL

\* The TNC is sent at most one frame for each of the client's, in the client's
\* order: the rest of a torn frame never completes a second one.
THEOREM Once == Spec => []OncePerFrame
<1>1. IInv => OncePerFrame
  BY DEF IInv, OnceInv
<1> QED
  BY <1>1, Invariance, PTL

\* As long as no buffer is overrun, no unharmed frame is left behind: when
\* ble_write_callback has seen its last byte and the mailbox is free again, the
\* frame is at the UART.
THEOREM Forwarded == Spec => []UnharmedIsForwarded
<1>1. IInv => UnharmedIsForwarded
  <2> SUFFICES ASSUME IInv, NEW n \in got \ lost, Unharmed(n),
                      n < Len(sent) \/ (rest = <<>> /\ char_tx_value_len = 0),
                      n < slot.frame \/ char_tx_value_len = 0
               PROVE  Sent(n)
    BY DEF UnharmedIsForwarded, Sent
  <2> USE DEF IInv
  <2>1. CASE n < slot.frame
    BY <2>1 DEF DoneInv
  <2>2. CASE ~(n < slot.frame)
    <3>1. char_tx_value_len = 0
      BY <2>2
    <3>2. n = slot.frame /\ n \in 1..Len(sent)
      <4>1. n \in 1..slot.frame /\ slot.frame \in 0..Len(sent) /\ Len(sent) \in Nat
        BY DEF SlotInv, TypeOK
      <4> QED
        BY <2>2, <4>1
    <3>3. pc # "feed" /\ pc # "forward" /\ i = 0
      BY <3>1 DEF LoopInv, TypeOK
    <3>4. Unfed = 0
      <4>1. Unfed = char_tx_value_len - i - 0
        BY <3>3 DEF Unfed
      <4> QED
        BY <3>1, <3>3, <4>1
    <3>5. Fed = Len(Wire(sent[n])) /\ n > 0
      <4>1. Written(n) = WireLen(n) /\ WireLen(n) \in Nat
        BY <3>2, Sizes
      <4> QED
        BY <3>2, <3>4, <4>1 DEF Fed, WireLen
    <3> QED
      BY <3>2, <3>3, <3>5 DEF SyncInv
  <2> QED
    BY <2>1, <2>2
<1> QED
  BY <1>1, Invariance, PTL

---------------------------------------------------------------------------
(* What overruns a buffer.                                                 *)

\* The parser has all it holds from frames that were joined.
LEMMA BeyondIsJoined ==
  ASSUME IInv, FeedBeyond \/ ForwardBeyond
  PROVE  ~Apart(slot.frame)
<1> USE DEF IInv
<1> SUFFICES ASSUME Apart(slot.frame) PROVE FALSE
  OBVIOUS
<1> DEFINE n == slot.frame
           w == Wire(sent[n])
           p == slot.at + i + 1
           k == bleKiss
           byte == char_tx_value[i + 1]
           now == async_now_ms
           fed == kiss_feed(k, byte, now)
<1>1. pc \in {"feed", "forward"} /\ i < len
  BY DEF FeedBeyond, ForwardBeyond, LoopInv
<1>2. /\ n \in 1..Len(sent) /\ sent[n] \in Contents /\ n \in got
      /\ p \in 1..Len(w) /\ byte = w[p] /\ byte \in Byte
      /\ n \notin lost => Fed = IF pc = "forward" THEN p ELSE p - 1
  BY <1>1, Place
<1>3. n > 0 /\ Fed = IF pc = "forward" THEN p ELSE p - 1
  BY <1>2 DEF Apart
<1>4. /\ Len(w) \in Nat /\ Len(w) <= BUFFER_SIZE /\ BUFFER_SIZE \in Nat
      /\ byte = FEND <=> p = 1 \/ p = Len(w)
  <2>1. /\ Len(w) \in Nat /\ Len(w) >= 3 /\ w[1] = FEND /\ w[Len(w)] = FEND
        /\ \A q \in 1..Len(w) : w[q] = FEND => q = 1 \/ q = Len(w)
    BY <1>2, WireBytes
  <2>2. Len(w) <= BUFFER_SIZE /\ BUFFER_SIZE \in Nat
    BY <1>2, ContentFits, SizesAreNat
  <2> HIDE DEF w
  <2> QED
    BY <1>2, <2>1, <2>2
<1>5. /\ k \in KissState /\ now \in Clock /\ Idle(k)
      /\ Len(k.buffer) \in Nat /\ Len(k.buffer) <= BUFFER_SIZE
  BY DEF TypeOK, ParserInv, KissState
<1>6. /\ Fed = 0 => ~k.inFrame
      /\ 0 < Fed /\ Fed < Len(w) => pc # "forward" /\ Len(k.buffer) <= Fed - 1
      /\ Fed = Len(w) /\ pc = "forward" => k.buffer = sent[n]
  BY <1>3 DEF QuietInv
<1> HIDE DEF w, p, byte, k, now
<1>7. CASE FeedBeyond
  <2>1. pc = "feed" /\ Len(fed.buffer) > BUFFER_SIZE
    BY <1>7 DEF FeedBeyond, NextKiss, k, byte, now
  <2>2. Fed = p - 1 /\ ~k.haveFrame
    BY <1>3, <2>1 DEF LoopInv, k
  <2>3. CASE byte = FEND
    <3>1. kiss_feed(k, FEND, now).buffer \in {k.buffer, <<>>}
      BY <1>5, <2>2, FedFend
    <3>2. Len(<<>>) = 0
      OBVIOUS
    <3> QED
      BY <1>4, <1>5, <2>1, <2>3, <3>1, <3>2
  <2>4. CASE byte # FEND
    <3>1. Len(fed.buffer) <= Len(k.buffer) + 1
      BY <1>2, <1>5, <2>2, <2>4, FedData
    <3>2. fed \in KissState
      BY <1>2, <1>5, FeedType
    <3>3. Len(fed.buffer) \in Nat
      BY <3>2 DEF KissState
    <3>4. Len(k.buffer) <= Len(w) - 2
      BY <1>2, <1>4, <1>5, <1>6, <2>2, <2>4
    <3> HIDE DEF fed
    <3> QED
      BY <1>4, <1>5, <2>1, <3>1, <3>3, <3>4
  <2> QED
    BY <2>3, <2>4
<1>8. CASE ForwardBeyond
  <2>1. pc = "forward" /\ ~ScratchHolds /\ Fed = p
    BY <1>3, <1>8 DEF ForwardBeyond
  <2>2. bleKiss.buffer = sent[n]
    BY <1>2, <1>4, <1>6, <2>1 DEF k
  <2>3. Relayed = w
    BY <1>2, <2>2, RelayedFrame DEF w
  <2>4. kiss_read(bleKiss).len = Len(sent[n]) - 1
    <3>1. kiss_read(bleKiss).len = (Len(sent[n]) - 1) % U16
      BY <2>2 DEF kiss_read
    <3>2. Len(sent[n]) \in 1..U16 /\ U16 \in Nat
      BY <1>2, ContentFits, SizesAreNat
    <3>3. \A m \in 1..U16 : (m - 1) % U16 = m - 1
      BY <3>2
    <3> QED
      BY <3>1, <3>2, <3>3
  <2>5. CALLS_SIZE + (Len(sent[n]) - 1) <= BUFFER_SIZE
    <3>1. CALLS_SIZE + Len(sent[n]) - 1 <= BUFFER_SIZE /\ Len(sent[n]) \in Int
      BY <1>2, ContentFits
    <3> QED
      BY <3>1, SizesAreNat
  <2> QED
    BY <1>4, <2>1, <2>3, <2>4, <2>5 DEF ScratchHolds
<1> QED
  BY <1>7, <1>8

LEMMA OverrunNext == IInv /\ OverrunIsJoined /\ [Next]_vars => OverrunIsJoined'
<1> SUFFICES ASSUME IInv, OverrunIsJoined, [Next]_vars PROVE OverrunIsJoined'
  OBVIOUS
<1>1. CASE Client
  BY <1>1 DEF Client, Begin, Write, Leave, main, OverrunIsJoined
<1>2. ASSUME slot' = slot, got' = got, lost' = lost
      PROVE  Apart(slot.frame)' <=> Apart(slot.frame)
  BY <1>2 DEF Apart
<1>3. CASE FeedBeyond \/ ForwardBeyond
  <2>1. slot' = slot /\ got' = got /\ lost' = lost
    BY <1>3 DEF FeedBeyond, ForwardBeyond, mailbox
  <2> QED
    BY <1>2, <1>3, <2>1, BeyondIsJoined DEF OverrunIsJoined
<1>4. CASE LoopTop \/ CheckBle \/ FeedByte \/ Forward \/ FreeMailbox \/ UNCHANGED vars
  <2>1. slot' = slot /\ got' = got /\ lost' = lost /\ overrun' = overrun
    BY <1>4 DEF LoopTop, CheckBle, FeedByte, Forward, FreeMailbox, vars, mailbox, main
  <2> QED
    BY <1>2, <2>1 DEF OverrunIsJoined
<1> QED
  BY <1>1, <1>3, <1>4 DEF Next, Main

\* Although nothing compares pos or a length with the size of a buffer, no byte is
\* stored behind one unless a dropped write has joined the frame with another: for
\* any number of frames, any silences and any sizes of the writes and the buffers.
THEOREM Overruns == Spec => []OverrunIsJoined
<1>1. Init => OverrunIsJoined
  BY DEF Init, OverrunIsJoined
<1> QED
  BY <1>1, OverrunNext, Invariance, PTL DEF Spec

---------------------------------------------------------------------------
(* A client whose frames fit in one write each.                            *)

\* Whichever of its sizes the client takes, one write carries all of a frame.
OneWriteEach == \A c \in Contents, s \in WriteSizes : Len(Wire(c)) <= s

\* No frame is torn: one that has been begun is all in or all missing, and no
\* silence cuts a frame that is fed in one pass of the main loop.
WholeInv ==
  /\ slot.at = 0
  /\ stale = {} /\ got \cap lost = {}
  /\ rest # <<>> => Len(rest) = WireLen(Len(sent)) /\ Len(sent) \notin got \cup lost

LEMMA WholeInit == Init => WholeInv
BY DEF Init, WholeInv

LEMMA WholeBegin ==
  ASSUME IInv, WholeInv, Begin
  PROVE  WholeInv'
<1>1. PICK content \in Contents : sent' = Append(sent, content) /\ rest' = Wire(content)
  BY DEF Begin
<1>2. slot' = slot /\ stale' = stale /\ got' = got /\ lost' = lost
  BY DEF Begin, mailbox, main
<1>3. sent \in Seq(Contents) /\ Len(sent) \in Nat
  BY DEF IInv, TypeOK
<1>4. Len(sent') = Len(sent) + 1 /\ sent'[Len(sent) + 1] = content
  BY <1>1, <1>3
<1>5. Len(rest') = WireLen(Len(sent))'
  BY <1>1, <1>4 DEF WireLen, Wire
<1>6. Len(sent) + 1 \notin got \cup lost
  <2>1. slot.frame \in 0..Len(sent) /\ got \subseteq 1..slot.frame /\ lost \subseteq 1..Len(sent)
    BY DEF IInv, SlotInv
  <2> QED
    BY <1>3, <2>1
<1> QED
  BY <1>2, <1>4, <1>5, <1>6 DEF WholeInv

\* The write is the whole frame: it is accepted or lost, and not both.
LEMMA WholeWrite ==
  ASSUME OneWriteEach, IInv, WholeInv, Write
  PROVE  WholeInv'
<1> DEFINE m == Len(sent)
<1>1. rest # <<>> /\ m \in 1..Len(sent) /\ sent[m] \in Contents /\ Len(rest) \in Nat
      /\ rest \in Seq(Byte)
  <2>1. rest # <<>>
    BY DEF Write
  <2> QED
    BY <2>1, Sizes DEF IInv, TypeOK
<1>2. size \in WriteSizes /\ size \in Nat
  BY ContentsAssumption DEF IInv, TypeOK
<1>3. Len(rest) = WireLen(m) /\ WireLen(m) = Len(Wire(sent[m])) /\ m \notin got \cup lost
  BY <1>1 DEF WholeInv, WireLen
<1>4. Len(rest) <= size
  BY <1>1, <1>2, <1>3 DEF OneWriteEach
<1>5. (IF size < Len(rest) THEN size ELSE Len(rest)) = Len(rest)
  BY <1>1, <1>2, <1>4
<1>6. /\ rest' = SubSeq(rest, Len(rest) + 1, Len(rest))
      /\ att_write_callback(SubSeq(rest, 1, Len(rest)), m, Len(Wire(sent[m])) - Len(rest))
      /\ stale' = stale /\ sent' = sent
  BY <1>5 DEF Write, main
<1>7. rest' = <<>>
  BY <1>1, <1>6
<1>8. Len(Wire(sent[m])) - Len(rest) = 0
  BY <1>1, <1>3
<1>9. CASE lost' = lost \cup {m} /\ slot' = slot /\ got' = got
  BY <1>3, <1>6, <1>7, <1>9 DEF WholeInv
<1>10. CASE slot' = [frame |-> m, at |-> 0] /\ got' = got \cup {m} /\ lost' = lost
  BY <1>3, <1>6, <1>7, <1>10 DEF WholeInv
<1> QED
  BY <1>6, <1>8, <1>9, <1>10 DEF att_write_callback, mailbox

LEMMA WholeNext ==
  ASSUME OneWriteEach, IInv, WholeInv, [Next]_vars
  PROVE  WholeInv'
<1>1. CASE Begin
  BY <1>1, WholeBegin
<1>2. CASE Write
  BY <1>2, WholeWrite
<1>3. CASE Leave
  BY <1>3 DEF Leave, WholeInv, mailbox, main
<1>4. ASSUME slot' = slot, stale' = stale, got' = got, lost' = lost, sent' = sent, rest' = rest
      PROVE  WholeInv'
  BY <1>4 DEF WholeInv, WireLen, Wire
<1>5. CASE LoopTop \/ CheckBle \/ FreeMailbox \/ Forward \/ FeedBeyond \/ ForwardBeyond
  BY <1>4, <1>5 DEF LoopTop, CheckBle, FreeMailbox, Forward, FeedBeyond, ForwardBeyond, mailbox, client
<1>6. CASE FeedByte
  <2>1. ~CutsFrame
    <3>1. CASE i = 0
      BY <3>1 DEF CutsFrame, WholeInv
    <3>2. CASE i # 0
      <4>1. i > 0 /\ pc = "feed" /\ bleKiss \in KissState /\ async_now_ms \in Clock
        BY <1>6, <3>2 DEF FeedByte, IInv, TypeOK
      <4>2. bleKiss.last_feed_ms = async_now_ms
        BY <4>1 DEF IInv, LoopInv
      <4>3. ~Expired(bleKiss, async_now_ms)
        BY <4>1, <4>2, Fresh
      <4> QED
        BY <4>3 DEF CutsFrame
    <3> QED
      BY <3>1, <3>2
  <2> QED
    BY <1>4, <1>6, <2>1 DEF FeedByte, mailbox, client
<1>7. CASE UNCHANGED vars
  BY <1>4, <1>7 DEF vars, mailbox, main, client
<1> QED
  BY <1>1, <1>2, <1>3, <1>5, <1>6, <1>7 DEF Next, Client, Main

\* Then every frame is unharmed.
LEMMA WholeUnharmed ==
  ASSUME WholeInv, NEW n
  PROVE  Unharmed(n)
BY DEF WholeInv, Unharmed, Torn

THEOREM WholeInvariance == OneWriteEach => (Spec => []WholeInv)
<1> SUFFICES ASSUME OneWriteEach PROVE Spec => []WholeInv
  OBVIOUS
<1>1. IInv /\ WholeInv /\ [Next]_vars => WholeInv'
  BY WholeNext
<1> QED
  BY <1>1, WholeInit, Invariance, PTL DEF Spec

\* The parser ensures that a valid frame was received (main_aprs.c:342), where it is
\* so: if each frame of the client's fits in one write, whatever goes to the TNC is
\* a frame of the client's, although writes are still dropped.
THEOREM WholeFrames == OneWriteEach => (Spec => []OnlyClientFrames)
<1> SUFFICES ASSUME OneWriteEach PROVE Spec => []OnlyClientFrames
  OBVIOUS
<1>1. ASSUME IInv, WholeInv PROVE OnlyClientFrames
  <2> SUFFICES ASSUME NEW k \in DOMAIN toTnc
               PROVE  \E n \in DOMAIN sent : toTnc[k].bytes = Wire(sent[n])
    BY DEF OnlyClientFrames
  <2>1. toTnc[k].frame \in DOMAIN sent
    BY <1>1 DEF IInv, OnceInv, SlotInv, TypeOK
  <2>2. toTnc[k].bytes = Wire(sent[toTnc[k].frame])
    BY <1>1, WholeUnharmed DEF IInv, UnharmedIsExact
  <2> QED
    BY <2>1, <2>2
<1> QED
  BY <1>1, Invariance, WholeInvariance, PTL

\* Nor is a buffer ever overrun for such a client.
THEOREM NoOverrun == OneWriteEach => (Spec => []~overrun)
<1> SUFFICES ASSUME OneWriteEach PROVE Spec => []~overrun
  OBVIOUS
<1>1. WholeInv => Apart(slot.frame)
  BY DEF WholeInv, Apart
<1>2. WholeInv /\ OverrunIsJoined => ~overrun
  BY <1>1 DEF OverrunIsJoined
<1> QED
  BY <1>2, Overruns, WholeInvariance, PTL

---------------------------------------------------------------------------
(* To such a client the path is the lossy link of LossyFrames.             *)

Lossy == INSTANCE LossyFrames WITH
           Frame <- {Wire(c) : c \in Contents},
           sent <- [n \in DOMAIN sent |-> Wire(sent[n])],
           delivered <- [k \in DOMAIN toTnc |->
                           [seq |-> toTnc[k].frame, frame |-> toTnc[k].bytes]]
ImplementsLossyFrames == Lossy!Spec

Frames    == {Wire(c) : c \in Contents}
Mapped    == [n \in DOMAIN sent |-> Wire(sent[n])]
Delivered == [k \in DOMAIN toTnc |-> [seq |-> toTnc[k].frame, frame |-> toTnc[k].bytes]]

\* A function on an initial part of the numbers is a sequence.
LEMMA FunctionIsSeq ==
  \A S : \A n \in Nat : \A f \in [1..n -> S] : f \in Seq(S) /\ Len(f) = n
BY SeqDef

\* What Append makes of a sequence, as a function.
Longer(n, f, x) == [k \in 1..(n + 1) |-> IF k <= n THEN f[k] ELSE x]

LEMMA AppendFunction ==
  ASSUME NEW S, NEW f \in Seq(S), NEW x \in S
  PROVE  Append(f, x) = Longer(Len(f), f, x)
<1> DEFINE n == Len(f)
           a == Append(f, x)
           g == Longer(n, f, x)
<1>1. n \in Nat /\ \A k \in 1..n : f[k] \in S
  OBVIOUS
<1>2. g \in [1..(n + 1) -> S]
  BY <1>1 DEF Longer
<1>3. g \in Seq(S) /\ Len(g) = n + 1
  <2> HIDE DEF g, n
  <2>1. n + 1 \in Nat
    BY <1>1
  <2> QED
    BY <1>2, <2>1, FunctionIsSeq
<1>4. a \in Seq(S) /\ Len(a) = n + 1
  OBVIOUS
<1>5. \A k \in 1..(n + 1) : a[k] = g[k]
  BY DEF Longer
<1> HIDE DEF a, g, n
<1>6. a = g
  BY <1>3, <1>4, <1>5, SeqEqual
<1> QED
  BY <1>6 DEF a, g, n

\* Beginning a frame appends it to what the link was given.
LEMMA MappedAppend ==
  ASSUME sent \in Seq(Contents), NEW content \in Contents, sent' = Append(sent, content)
  PROVE  Mapped' = Append(Mapped, Wire(content))
<1>1. /\ Len(sent) \in Nat /\ DOMAIN sent = 1..Len(sent)
      /\ DOMAIN sent' = 1..(Len(sent) + 1)
      /\ \A n \in 1..Len(sent) : sent[n] \in Contents /\ sent'[n] = sent[n]
      /\ sent'[Len(sent) + 1] = content
  OBVIOUS
<1> DEFINE m == Mapped
           x == Wire(content)
<1>2. m \in [1..Len(sent) -> Frames] /\ x \in Frames
  BY <1>1 DEF Mapped, Frames
<1>3. Mapped' = Longer(Len(sent), m, x)
  BY <1>1 DEF Mapped, Wire, Longer
<1> HIDE DEF m, x
<1>4. Append(m, x) = Longer(Len(sent), m, x)
  <2>1. m \in Seq(Frames) /\ Len(m) = Len(sent)
    BY <1>1, <1>2, FunctionIsSeq
  <2> QED
    BY <1>2, <2>1, AppendFunction
<1> QED
  BY <1>3, <1>4 DEF m, x

\* Writing a frame to the UART appends it to what came out of the link.
LEMMA DeliveredAppend ==
  ASSUME toTnc \in Seq([frame: 1..MaxFrames, bytes: Seq(Byte)]),
         NEW entry, toTnc' = Append(toTnc, entry)
  PROVE  Delivered' = Append(Delivered, [seq |-> entry.frame, frame |-> entry.bytes])
<1>1. /\ Len(toTnc) \in Nat /\ DOMAIN toTnc = 1..Len(toTnc)
      /\ DOMAIN toTnc' = 1..(Len(toTnc) + 1)
      /\ \A k \in 1..Len(toTnc) : toTnc'[k] = toTnc[k]
      /\ toTnc'[Len(toTnc) + 1] = entry
  OBVIOUS
<1> DEFINE d == Delivered
           x == [seq |-> entry.frame, frame |-> entry.bytes]
           All == {d[k] : k \in DOMAIN d} \cup {x}
<1>2. d \in [1..Len(toTnc) -> All] /\ x \in All
  BY <1>1 DEF Delivered
<1>3. Delivered' = Longer(Len(toTnc), d, x)
  BY <1>1 DEF Delivered, Longer
<1> HIDE DEF d, x, All
<1>4. Append(d, x) = Longer(Len(toTnc), d, x)
  <2>1. d \in Seq(All) /\ Len(d) = Len(toTnc)
    BY <1>1, <1>2, FunctionIsSeq
  <2> QED
    BY <1>2, <2>1, AppendFunction
<1> QED
  BY <1>3, <1>4 DEF d, x

LEMMA NewestFrame ==
  ASSUME toTnc \in Seq([frame: 1..MaxFrames, bytes: Seq(Byte)])
  PROVE  Lossy!Newest = IF toTnc = <<>> THEN 0 ELSE toTnc[Len(toTnc)].frame
<1> DEFINE d == Delivered
           All == {d[k] : k \in DOMAIN d}
<1>1. Len(toTnc) \in Nat /\ DOMAIN toTnc = 1..Len(toTnc)
  OBVIOUS
<1>2. d \in [1..Len(toTnc) -> All] /\ \A k \in 1..Len(toTnc) : d[k].seq = toTnc[k].frame
  BY <1>1 DEF Delivered
<1>3. Lossy!Newest = IF d = <<>> THEN 0 ELSE d[Len(d)].seq
  BY DEF Lossy!Newest, Delivered
<1> HIDE DEF d, All
<1>4. d \in Seq(All) /\ Len(d) = Len(toTnc)
  BY <1>1, <1>2, FunctionIsSeq
<1>5. (d = <<>> <=> Len(d) = 0) /\ (toTnc = <<>> <=> Len(toTnc) = 0)
  BY <1>4, EmptySeq
<1> QED
  BY <1>1, <1>2, <1>3, <1>4, <1>5

\* The client that begins a frame gives it to the link, and the write to the UART
\* delivers it: the frame in the mailbox, newer than all before.
THEOREM Refinement == OneWriteEach => (Spec => ImplementsLossyFrames)
<1> SUFFICES ASSUME OneWriteEach PROVE Spec => ImplementsLossyFrames
  OBVIOUS
<1>1. Init => Lossy!Init
  <2> SUFFICES ASSUME Init PROVE Mapped = <<>> /\ Delivered = <<>>
    BY DEF Lossy!Init, Mapped, Delivered
  <2>1. sent = <<>> /\ toTnc = <<>>
    BY DEF Init
  <2> QED
    BY <2>1 DEF Mapped, Delivered
<1>2. ASSUME IInv, WholeInv, [Next]_vars
      PROVE  [Lossy!Next]_(Lossy!vars)
  <2>1. sent \in Seq(Contents) /\ toTnc \in Seq([frame: 1..MaxFrames, bytes: Seq(Byte)])
    BY <1>2 DEF IInv, TypeOK
  <2>2. CASE Begin
    <3>1. PICK content \in Contents : sent' = Append(sent, content) /\ toTnc' = toTnc
      BY <2>2 DEF Begin, main
    <3>2. Mapped' = Append(Mapped, Wire(content)) /\ Wire(content) \in Frames
      BY <2>1, <3>1, MappedAppend DEF Frames
    <3>3. Delivered' = Delivered
      BY <3>1 DEF Delivered
    <3> QED
      BY <3>2, <3>3 DEF Lossy!Next, Lossy!Send, Mapped, Delivered, Frames
  <2>3. CASE Forward
    <3>1. PICK n : n = slot.frame
      OBVIOUS
    <3> DEFINE d == [seq |-> n, frame |-> Relayed]
    <3>2. toTnc' = Append(toTnc, [frame |-> n, bytes |-> Relayed]) /\ sent' = sent
      BY <2>3, <3>1 DEF Forward, client
    <3>3. Delivered' = Append(Delivered, d)
      <4> DEFINE entry == [frame |-> n, bytes |-> Relayed]
      <4>1. entry.frame = n /\ entry.bytes = Relayed /\ toTnc' = Append(toTnc, entry)
        BY <3>2
      <4> HIDE DEF entry
      <4>2. Delivered' = Append(Delivered, [seq |-> entry.frame, frame |-> entry.bytes])
        BY <2>1, <4>1, DeliveredAppend
      <4> QED
        BY <4>1, <4>2
    <3>4. n \in DOMAIN sent
      <4>1. n \in 1..Len(sent)
        BY <1>2, <2>3, <3>1, Place DEF Forward, IInv, LoopInv
      <4> QED
        BY <2>1, <4>1
    <3>5. IInv' /\ WholeInv'
      BY <1>2, IInvNext, WholeNext
    <3>6. /\ Len(toTnc) \in Nat /\ DOMAIN toTnc = 1..Len(toTnc)
          /\ DOMAIN toTnc' = 1..(Len(toTnc) + 1)
          /\ \A k \in 1..Len(toTnc) : toTnc'[k] = toTnc[k]
          /\ toTnc'[Len(toTnc) + 1].frame = n /\ toTnc'[Len(toTnc) + 1].bytes = Relayed
      BY <2>1, <3>2
    <3>7. Relayed = Wire(sent[n])
      <4>1. UnharmedIsExact' /\ got' \cap lost' = {} /\ stale' = {}
        BY <3>5 DEF IInv, WholeInv
      <4>2. toTnc'[Len(toTnc) + 1].bytes = Wire(sent'[n])
        BY <3>6, <4>1 DEF UnharmedIsExact, Unharmed, Torn, Wire
      <4> QED
        BY <3>2, <3>6, <4>2
    <3>8. Lossy!Newest < n
      <4>1. CASE toTnc = <<>>
        BY <2>1, <3>4, <4>1, NewestFrame
      <4>2. CASE toTnc # <<>>
        <5>1. Len(toTnc) \in 1..Len(toTnc) /\ Len(toTnc) < Len(toTnc) + 1
          BY <2>1, <3>6, <4>2, EmptySeq
        <5>2. toTnc[Len(toTnc)].frame < n
          BY <3>5, <3>6, <5>1 DEF IInv, OnceInv, OncePerFrame
        <5> QED
          BY <2>1, <4>2, <5>2, NewestFrame
      <4> QED
        BY <4>1, <4>2
    <3>9. Mapped' = Mapped /\ n \in DOMAIN Mapped /\ Mapped[n] = Wire(sent[n])
      BY <3>2, <3>4 DEF Mapped
    <3>10. Lossy!Deliver(n)
      BY <3>3, <3>7, <3>8, <3>9 DEF Lossy!Deliver, Mapped, Delivered
    <3>11. \E m \in DOMAIN Mapped : Lossy!Deliver(m)
      BY <3>9, <3>10
    <3> QED
      BY <3>11 DEF Lossy!Next, Mapped
  <2>4. ASSUME sent' = sent, toTnc' = toTnc
        PROVE  UNCHANGED Lossy!vars
    BY <2>4 DEF Lossy!vars
  <2>5. CASE Write \/ Leave
    BY <2>4, <2>5 DEF Write, Leave, main
  <2>6. CASE LoopTop \/ CheckBle \/ FeedByte \/ FeedBeyond \/ ForwardBeyond \/ FreeMailbox
    BY <2>4, <2>6 DEF LoopTop, CheckBle, FeedByte, FeedBeyond, ForwardBeyond, FreeMailbox, client
  <2>7. CASE UNCHANGED vars
    BY <2>4, <2>7 DEF vars, main, client
  <2> QED
    BY <1>2, <2>2, <2>3, <2>5, <2>6, <2>7 DEF Next, Client, Main
<1> QED
  BY <1>1, <1>2, Invariance, WholeInvariance, PTL DEF Spec, ImplementsLossyFrames, Lossy!Spec
==============================================================================
