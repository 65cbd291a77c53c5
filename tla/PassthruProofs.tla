--------------------------- MODULE PassthruProofs ---------------------------
(***************************************************************************)
(* Proofs about Passthru for every size of the buffers and FIFOs and every *)
(* number of bytes: types and bounds, and the order of the bytes in both   *)
(* directions.                                                             *)
(***************************************************************************)
EXTENDS Passthru, SequenceTheorems, TLAPS

---------------------------------------------------------------------------
(* Cutting a sequence, and moving what was cut off to the end of another.  *)

LEMMA Cut ==
  ASSUME NEW S, NEW s \in Seq(S), NEW n \in 0..Len(s)
  PROVE  /\ First(s, n) \in Seq(S) /\ Len(First(s, n)) = n
         /\ After(s, n) \in Seq(S) /\ Len(After(s, n)) = Len(s) - n
         /\ First(s, n) \o After(s, n) = s
<1>0. Len(s) \in Nat /\ s \in [1..Len(s) -> S]
  BY LenProperties
<1>1. First(s, n) \in Seq(S) /\ Len(First(s, n)) = n
  <2>1. \A i \in 1..n : s[i] \in S
    BY <1>0
  <2>2. 1 \in Int /\ n \in Int /\ n - 1 + 1 = n
    BY <1>0
  <2> QED  BY <2>1, <2>2, SubSeqProperties DEF First
<1>2. After(s, n) \in Seq(S) /\ Len(After(s, n)) = Len(s) - n
  <2>1. \A i \in (n + 1)..Len(s) : s[i] \in S
    BY <1>0
  <2>2. n + 1 \in Int /\ Len(s) \in Int
    BY <1>0
  <2>3. /\ SubSeq(s, n + 1, Len(s)) \in Seq(S)
        /\ Len(SubSeq(s, n + 1, Len(s))) =
             IF n + 1 <= Len(s) THEN Len(s) - (n + 1) + 1 ELSE 0
    BY <2>1, <2>2, SubSeqProperties
  <2>4. Len(SubSeq(s, n + 1, Len(s))) = Len(s) - n
    BY <2>2, <2>3
  <2> QED  BY <2>3, <2>4 DEF After
<1>3. First(s, n) \o After(s, n) = SubSeq(s, 1, Len(s))
  <2>1. 1 \in 1..(Len(s) + 1) /\ n \in (1 - 1)..Len(s) /\ Len(s) \in n..Len(s)
    BY <1>0
  <2> QED  BY <2>1, ConcatAdjacentSubSeq DEF First, After
<1> QED  BY <1>1, <1>2, <1>3, SubSeqFull

\* The head of t goes to the end of s in one piece.
LEMMA MovePart ==
  ASSUME NEW S, NEW s \in Seq(S), NEW t \in Seq(S), NEW n \in 0..Len(t)
  PROVE  (s \o First(t, n)) \o After(t, n) = s \o t
<1>1. First(t, n) \in Seq(S) /\ After(t, n) \in Seq(S) /\ First(t, n) \o After(t, n) = t
  BY Cut
<1>2. \A a, b \in Seq(S) : (s \o a) \o b = s \o (a \o b)
  <2> SUFFICES ASSUME NEW a \in Seq(S), NEW b \in Seq(S)
               PROVE  (s \o a) \o b = s \o (a \o b)
    OBVIOUS
  <2> QED  BY ConcatAssociative
<1>3. (s \o First(t, n)) \o After(t, n) = s \o (First(t, n) \o After(t, n))
  BY <1>1, <1>2, Zenon
<1> QED  BY <1>1, <1>3, Zenon

LEMMA AfterNone ==
  ASSUME NEW S, NEW s \in Seq(S)
  PROVE  After(s, 0) = s /\ After(s, Len(s)) = <<>> /\ First(s, 0) = <<>>
<1>1. Len(s) \in Nat
  BY LenProperties
<1>2. SubSeq(s, 0 + 1, Len(s)) = s
  BY <1>1, SubSeqFull
<1>3. SubSeq(s, Len(s) + 1, Len(s)) = <<>>
  BY <1>1, SubSeqEmpty
<1>4. SubSeq(s, 1, 0) = <<>>
  BY SubSeqEmpty
<1> QED  BY <1>2, <1>3, <1>4 DEF First, After

\* Element n + 1 of t goes to the end of s.
LEMMA MoveNext ==
  ASSUME NEW S, NEW s \in Seq(S), NEW t \in Seq(S), NEW n \in 0..(Len(t) - 1)
  PROVE  Append(s, t[n + 1]) \o After(t, n + 1) = s \o After(t, n)
<1>0. Len(t) \in Nat /\ t[n + 1] \in S /\ n + 1 \in 1..Len(t)
  BY LenProperties, ElementOfSeq
<1>1. After(t, n) = <<t[n + 1]>> \o After(t, n + 1)
  BY <1>0, SubSeqRecursiveFirst DEF After
<1>2. Append(s, t[n + 1]) = s \o <<t[n + 1]>>
  BY <1>0, AppendIsConcat
<1>3. After(t, n + 1) \in Seq(S) /\ <<t[n + 1]>> \in Seq(S)
  BY <1>0, Cut
<1>4. (s \o <<t[n + 1]>>) \o After(t, n + 1) = s \o (<<t[n + 1]>> \o After(t, n + 1))
  BY <1>3, ConcatAssociative
<1> QED  BY <1>1, <1>2, <1>4

LEMMA MoveHead ==
  ASSUME NEW S, NEW s \in Seq(S), NEW t \in Seq(S), t # <<>>
  PROVE  Append(s, Head(t)) \o Tail(t) = s \o t
<1>0. Len(t) \in Nat \ {0} /\ t[1] \in S
  BY EmptySeq, LenProperties, ElementOfSeq
<1>1. Head(t) = t[1] /\ Tail(t) = After(t, 1)
  BY TailIsSubSeq DEF After
<1> QED  BY <1>0, <1>1, MoveNext, AfterNone

LEMMA Associative == \A s, t, u \in Seq(Number) : (s \o t) \o u = s \o (t \o u)
BY ConcatAssociative

\* Counting one further appends the next number.
LEMMA Counting ==
  ASSUME NEW n \in Nat
  PROVE  [k \in 1..(n + 1) |-> k] = Append([k \in 1..n |-> k], n + 1)
OBVIOUS

---------------------------------------------------------------------------
(* The inductive invariant.                                                *)

\* Who is in which critical section, and what a test made before it still
\* says inside: the other core only ever adds to what it found.
LockInv ==
  /\ pc0 = "write" <=> usb_rx_lock = "core0"
  /\ pc1 = "read" <=> usb_rx_lock = "core1"
  /\ irq = "loop" <=> uart_rx_lock = "core0"
  /\ pc1 \in {"write", "fixup"} <=> uart_rx_lock = "core1"
  /\ pc0 = "write" => len = Len(usb_rx_buffer)
  /\ pc1 \in {"read_enter", "read"} => usb_available <= Len(cdc_in)
  /\ pc1 = "fixup" => written <= Len(uart_rx_buffer)

IInv == TypeOK /\ LockInv

LEMMA Buffers ==
  ASSUME IInv
  PROVE  /\ uart_rx_buffer \in Seq(Number) /\ usb_rx_buffer \in Seq(Number)
         /\ uart \in Seq(Number) /\ cdc_in \in Seq(Number) /\ cdc_out \in Seq(Number)
         /\ toTnc \in Seq(Number) /\ toHost \in Seq(Number)
BY DEF IInv, TypeOK

LEMMA Sizes ==
  ASSUME IInv
  PROVE  /\ Len(uart_rx_buffer) \in Nat /\ Len(usb_rx_buffer) \in Nat
         /\ Len(uart) \in Nat /\ Len(cdc_in) \in Nat /\ Len(cdc_out) \in Nat
         /\ PASSTHRU_UART_BUFFER_SIZE \in Nat \ {0} /\ PASSTHRU_USB_BUFFER_SIZE \in Nat \ {0}
         /\ CdcSize \in Nat \ {0} /\ MaxBytes \in Nat
         /\ tncSent \in Nat /\ hostSent \in Nat /\ out \in Nat /\ len \in Nat
         /\ usb_available \in Nat /\ written \in Nat /\ flushed \in Nat
BY PassthruAssumption, LenProperties DEF IInv, TypeOK

LEMMA Bounds ==
  ASSUME IInv
  PROVE  /\ Len(uart_rx_buffer) <= PASSTHRU_UART_BUFFER_SIZE
         /\ Len(usb_rx_buffer) <= PASSTHRU_USB_BUFFER_SIZE
         /\ Len(uart) <= UartDepth /\ Len(cdc_in) <= CdcSize /\ Len(cdc_out) <= CdcSize
         /\ flushed <= Len(cdc_out) /\ out <= len
         /\ pc0 = "write" => len = Len(usb_rx_buffer)
         /\ pc1 \in {"read_enter", "read"} => usb_available <= Len(cdc_in)
         /\ pc1 = "fixup" => written <= Len(uart_rx_buffer)
<1>1. TypeOK /\ LockInv
  BY DEF IInv
<1>2. flushed \in 0..Len(cdc_out) /\ out \in 0..len
  BY <1>1 DEF TypeOK
<1>3. flushed <= Len(cdc_out) /\ out <= len
  BY <1>2, Sizes
<1> QED  BY <1>1, <1>3 DEF TypeOK, LockInv

\* Definitions every step of the proof opens: what an idle core leaves alone.
USE DEF Locks, UartDepth, Core0Idle, Core1Idle, core0, core1, usb, ends

LEMMA InitInv == Init => IInv
BY PassthruAssumption, EmptySeq DEF Init, IInv, TypeOK, LockInv

LEMMA TncByteInv ==
  ASSUME IInv, TncByte
  PROVE  IInv'
<1>1. tncSent' \in 1..MaxBytes
  <2>1. tncSent < MaxBytes /\ tncSent' = tncSent + 1
    BY DEF TncByte
  <2>2. tncSent \in Nat /\ MaxBytes \in Nat
    BY Sizes
  <2> QED  BY <2>1, <2>2
<1>2. uart' \in Seq(Number) /\ Len(uart') <= UartDepth
  <2>1. CASE Len(uart) < UartDepth
    <3>1. Append(uart, tncSent') \in Seq(Number) /\ Len(Append(uart, tncSent')) = Len(uart) + 1
      BY <1>1, Buffers, AppendProperties DEF Number
    <3> QED  BY <2>1, <3>1, Sizes DEF TncByte
  <2>2. CASE ~(Len(uart) < UartDepth)
    BY <2>2, Buffers, Bounds DEF TncByte
  <2> QED  BY <2>1, <2>2
<1> QED  BY <1>1, <1>2 DEF TncByte, IInv, TypeOK, LockInv

LEMMA HostByteInv ==
  ASSUME IInv, HostByte
  PROVE  IInv'
<1>1. hostSent' \in 1..MaxBytes
  <2>1. hostSent < MaxBytes /\ hostSent' = hostSent + 1
    BY DEF HostByte
  <2>2. hostSent \in Nat /\ MaxBytes \in Nat
    BY Sizes
  <2> QED  BY <2>1, <2>2
<1>2. cdc_in' \in Seq(Number) /\ Len(cdc_in') = Len(cdc_in) + 1
  BY <1>1, Buffers, AppendProperties DEF HostByte, Number
<1>3. Len(cdc_in') \in 0..CdcSize /\ Len(cdc_in) <= Len(cdc_in')
  <2>1. Len(cdc_in) < CdcSize
    BY DEF HostByte
  <2>2. Len(cdc_in) \in Nat /\ CdcSize \in Nat
    BY Sizes
  <2> QED  BY <1>2, <2>1, <2>2
<1> QED  BY <1>1, <1>2, <1>3 DEF HostByte, IInv, TypeOK, LockInv

LEMMA HostReadInv ==
  ASSUME IInv, HostRead
  PROVE  IInv'
<1>1. cdc_out # <<>>
  <2>1. flushed > 0
    BY DEF HostRead
  <2>2. flushed <= Len(cdc_out) /\ Len(cdc_out) \in Nat /\ flushed \in Nat
    BY Sizes, Bounds
  <2> QED  BY <2>1, <2>2, EmptySeq
<1>2. cdc_out' \in Seq(Number) /\ Len(cdc_out') = Len(cdc_out) - 1
  BY <1>1, Buffers, HeadTailProperties DEF HostRead
<1>3. toHost' \in Seq(Number)
  BY <1>1, Buffers, HeadTailProperties, AppendProperties DEF HostRead
<1>4. Len(cdc_out') <= CdcSize /\ flushed' \in 0..Len(cdc_out')
  <2>1. flushed > 0 /\ flushed' = flushed - 1
    BY DEF HostRead
  <2>2. /\ Len(cdc_out) \in Nat /\ CdcSize \in Nat /\ flushed \in Nat
        /\ Len(cdc_out) <= CdcSize /\ flushed <= Len(cdc_out)
    BY Sizes, Bounds
  <2> QED  BY <1>2, <2>1, <2>2
<1> QED  BY <1>2, <1>3, <1>4 DEF HostRead, IInv, TypeOK, LockInv

LEMMA IrqInv ==
  ASSUME IInv, passthru_uart_irq
  PROVE  IInv'
<1>1. CASE IrqRaise
  BY <1>1 DEF IrqRaise, IInv, TypeOK, LockInv
<1>2. CASE IrqEnter
  BY <1>2 DEF IrqEnter, IInv, TypeOK, LockInv
<1>3. CASE IrqRead
  <2>1. uart' \in Seq(Number) /\ Len(uart') <= UartDepth
    BY <1>3, Buffers, Sizes, Bounds, HeadTailProperties DEF IrqRead
  <2>2. uart_rx_buffer' \in Seq(Number) /\ Len(uart_rx_buffer') = Len(uart_rx_buffer) + 1
    BY <1>3, Buffers, HeadTailProperties, AppendProperties DEF IrqRead
  <2>3. Len(uart_rx_buffer') <= PASSTHRU_UART_BUFFER_SIZE
    BY <1>3, <2>2, Sizes DEF IrqRead, Room
  <2>4. pc1 # "fixup"
    BY <1>3 DEF IrqRead, IInv, LockInv
  <2> QED  BY <1>3, <2>1, <2>2, <2>3, <2>4 DEF IrqRead, IInv, TypeOK, LockInv
<1>4. CASE IrqExit
  BY <1>4 DEF IrqExit, IInv, TypeOK, LockInv
<1> QED  BY <1>1, <1>2, <1>3, <1>4 DEF passthru_uart_irq

LEMMA LoopInv ==
  ASSUME IInv, passthru_uart_loop
  PROVE  IInv'
<1>1. CASE LoopCheck
  BY <1>1 DEF LoopCheck, IInv, TypeOK, LockInv
<1>2. CASE LoopEnter
  BY <1>2, Sizes DEF LoopEnter, IInv, TypeOK, LockInv
<1>3. CASE LoopWrite
  <2>1. out + 1 \in 1..Len(usb_rx_buffer) /\ out' \in 0..len
    <3>1. /\ out < len /\ out' = out + 1 /\ out \in Nat /\ len \in Nat
          /\ len = Len(usb_rx_buffer)
      BY <1>3, Sizes, Bounds DEF LoopWrite
    <3> QED  BY <3>1
  <2>2. toTnc' \in Seq(Number)
    BY <1>3, <2>1, Buffers, ElementOfSeq, AppendProperties DEF LoopWrite
  <2> QED  BY <1>3, <2>1, <2>2 DEF LoopWrite, IInv, TypeOK, LockInv
<1>4. CASE LoopExit
  <2>1. usb_rx_buffer' = <<>>
    <3>1. Len(usb_rx_buffer) - len = 0
      <4>1. len = Len(usb_rx_buffer) /\ len \in Nat
        BY <1>4, Sizes, Bounds DEF LoopExit
      <4> QED  BY <4>1
    <3> QED  BY <1>4, <3>1, Buffers, AfterNone DEF LoopExit
  <2>2. usb_rx_buffer' \in Seq(Number) /\ Len(usb_rx_buffer') = 0
    BY <2>1, EmptySeq
  <2> QED  BY <1>4, <2>2, Sizes DEF LoopExit, IInv, TypeOK, LockInv
<1> QED  BY <1>1, <1>2, <1>3, <1>4 DEF passthru_uart_loop

\* What UsbRead takes: there is so much, and room for it.
ReadSize == Smaller(usb_available, PASSTHRU_USB_BUFFER_SIZE - Len(usb_rx_buffer))

LEMMA SmallerFits ==
  ASSUME NEW a \in Nat, NEW b \in Nat
  PROVE  Smaller(a, b) \in Nat /\ Smaller(a, b) <= a /\ Smaller(a, b) <= b
BY DEF Smaller

LEMMA ReadSizeFits ==
  ASSUME IInv, UsbRead
  PROVE  /\ ReadSize \in 0..Len(cdc_in)
         /\ Len(usb_rx_buffer) + ReadSize <= PASSTHRU_USB_BUFFER_SIZE
         /\ usb_rx_buffer' = usb_rx_buffer \o First(cdc_in, ReadSize)
         /\ cdc_in' = After(cdc_in, ReadSize)
<1>1. PASSTHRU_USB_BUFFER_SIZE - Len(usb_rx_buffer) \in Nat
  <2>1. /\ PASSTHRU_USB_BUFFER_SIZE \in Nat /\ Len(usb_rx_buffer) \in Nat
        /\ Len(usb_rx_buffer) <= PASSTHRU_USB_BUFFER_SIZE
    BY Sizes, Bounds
  <2> QED  BY <2>1
<1>2. /\ ReadSize \in Nat /\ ReadSize <= usb_available
      /\ ReadSize <= PASSTHRU_USB_BUFFER_SIZE - Len(usb_rx_buffer)
  BY <1>1, Sizes, SmallerFits DEF ReadSize
<1>3. usb_available <= Len(cdc_in)
  BY Bounds DEF UsbRead
<1>4. /\ ReadSize \in 0..Len(cdc_in)
      /\ Len(usb_rx_buffer) + ReadSize <= PASSTHRU_USB_BUFFER_SIZE
  <2>1. /\ PASSTHRU_USB_BUFFER_SIZE \in Nat /\ Len(usb_rx_buffer) \in Nat
        /\ Len(cdc_in) \in Nat /\ usb_available \in Nat
    BY Sizes
  <2> QED  BY <1>2, <1>3, <2>1
<1> QED  BY <1>4 DEF UsbRead, ReadSize

LEMMA WrittenFits ==
  ASSUME IInv, UsbWrite
  PROVE  /\ written' \in 0..Len(uart_rx_buffer)
         /\ Len(cdc_out) + written' <= CdcSize
<1>1. CdcSize - Len(cdc_out) \in Nat
  <2>1. Len(cdc_out) \in Nat /\ CdcSize \in Nat /\ Len(cdc_out) <= CdcSize
    BY Sizes, Bounds
  <2> QED  BY <2>1
<1>2. /\ written' \in Nat /\ written' <= Len(uart_rx_buffer)
      /\ written' <= CdcSize - Len(cdc_out)
  BY <1>1, Sizes, SmallerFits DEF UsbWrite
<1>3. Len(uart_rx_buffer) \in Nat /\ Len(cdc_out) \in Nat /\ CdcSize \in Nat
  BY Sizes
<1> QED  BY <1>2, <1>3

LEMMA UsbInv ==
  ASSUME IInv, passthru_usb_entry
  PROVE  IInv'
<1>1. CASE UsbAvailable
  BY <1>1, Sizes DEF UsbAvailable, IInv, TypeOK, LockInv
<1>2. CASE UsbReadEnter
  BY <1>2 DEF UsbReadEnter, IInv, TypeOK, LockInv
<1>3. CASE UsbRead
  <2>1. cdc_in \in Seq(Number) /\ usb_rx_buffer \in Seq(Number) /\ ReadSize \in 0..Len(cdc_in)
    BY <1>3, Buffers, ReadSizeFits
  <2>2. /\ First(cdc_in, ReadSize) \in Seq(Number) /\ Len(First(cdc_in, ReadSize)) = ReadSize
        /\ After(cdc_in, ReadSize) \in Seq(Number)
        /\ Len(After(cdc_in, ReadSize)) = Len(cdc_in) - ReadSize
    BY <2>1, Cut
  <2>3. cdc_in' \in Seq(Number) /\ Len(cdc_in') \in 0..CdcSize
    <3>1. Len(cdc_in) <= CdcSize /\ Len(cdc_in) \in Nat /\ CdcSize \in Nat
      BY Sizes, Bounds
    <3>2. cdc_in' = After(cdc_in, ReadSize)
      BY <1>3, ReadSizeFits
    <3>3. Len(cdc_in) - ReadSize \in 0..CdcSize
      BY <2>1, <3>1
    <3> QED  BY <2>2, <3>2, <3>3
  <2>4. /\ usb_rx_buffer' \in Seq(Number)
        /\ Len(usb_rx_buffer') = Len(usb_rx_buffer) + ReadSize
    <3> DEFINE moved == First(cdc_in, ReadSize)
    <3>1. moved \in Seq(Number) /\ Len(moved) = ReadSize
      BY <2>2
    <3>2. usb_rx_buffer' = usb_rx_buffer \o moved
      BY <1>3, ReadSizeFits
    <3> HIDE DEF moved
    <3> QED  BY <2>1, <3>1, <3>2, ConcatProperties
  <2>5. Len(usb_rx_buffer') <= PASSTHRU_USB_BUFFER_SIZE
    BY <1>3, <2>4, ReadSizeFits
  <2> QED  BY <1>3, <2>3, <2>4, <2>5, Sizes DEF UsbRead, IInv, TypeOK, LockInv
<1>4. CASE UsbWriteCheck
  BY <1>4 DEF UsbWriteCheck, IInv, TypeOK, LockInv
<1>5. CASE UsbWriteEnter
  BY <1>5 DEF UsbWriteEnter, IInv, TypeOK, LockInv
<1>6. CASE UsbWrite
  <2>1. uart_rx_buffer \in Seq(Number) /\ cdc_out \in Seq(Number) /\ written' \in 0..Len(uart_rx_buffer)
    BY <1>6, Buffers, WrittenFits
  <2>2. /\ First(uart_rx_buffer, written') \in Seq(Number)
        /\ Len(First(uart_rx_buffer, written')) = written'
    BY <2>1, Cut
  <2>3. cdc_out' \in Seq(Number) /\ Len(cdc_out') = Len(cdc_out) + written'
    <3> DEFINE moved == First(uart_rx_buffer, written')
    <3>1. moved \in Seq(Number) /\ Len(moved) = written'
      BY <2>2
    <3>2. cdc_out' = cdc_out \o moved
      BY <1>6 DEF UsbWrite
    <3> HIDE DEF moved
    <3> QED  BY <2>1, <3>1, <3>2, ConcatProperties
  <2>4. Len(cdc_out') <= CdcSize /\ flushed \in 0..Len(cdc_out') /\ written' \in 0..CdcSize
    <3>1. flushed \in 0..Len(cdc_out) /\ Len(cdc_out) \in Nat /\ CdcSize \in Nat
      BY Sizes, Bounds
    <3>2. Len(cdc_out) + written' <= CdcSize /\ written' \in Nat
      BY <1>6, <2>1, WrittenFits, Sizes
    <3> QED  BY <2>3, <3>1, <3>2
  <2>5. uart_rx_buffer' = uart_rx_buffer /\ written' <= Len(uart_rx_buffer)
    BY <1>6, <2>1 DEF UsbWrite
  <2> QED  BY <1>6, <2>3, <2>4, <2>5, Sizes DEF UsbWrite, IInv, TypeOK, LockInv
<1>7. CASE UsbFixup
  <2>1. written \in 0..Len(uart_rx_buffer) /\ uart_rx_buffer \in Seq(Number)
    BY <1>7, Buffers, Sizes, Bounds DEF UsbFixup
  <2>2. /\ After(uart_rx_buffer, written) \in Seq(Number)
        /\ Len(After(uart_rx_buffer, written)) = Len(uart_rx_buffer) - written
    BY <2>1, Cut
  <2>3. uart_rx_buffer' = After(uart_rx_buffer, written)
    BY <1>7 DEF UsbFixup, Moved
  <2>4. Len(uart_rx_buffer') <= PASSTHRU_UART_BUFFER_SIZE
    <3>1. Len(uart_rx_buffer) <= PASSTHRU_UART_BUFFER_SIZE
      BY Bounds
    <3>2. Len(uart_rx_buffer) \in Nat /\ PASSTHRU_UART_BUFFER_SIZE \in Nat
      BY Sizes
    <3> QED  BY <2>1, <2>2, <2>3, <3>1, <3>2
  <2> QED  BY <1>7, <2>2, <2>3, <2>4 DEF UsbFixup, IInv, TypeOK, LockInv
<1>8. CASE UsbFlush
  BY <1>8, Sizes DEF UsbFlush, IInv, TypeOK, LockInv
<1> QED  BY <1>1, <1>2, <1>3, <1>4, <1>5, <1>6, <1>7, <1>8 DEF passthru_usb_entry

LEMMA StepInv == IInv /\ [Next]_vars => IInv'
<1> SUFFICES ASSUME IInv, [Next]_vars PROVE IInv'
  OBVIOUS
<1>1. CASE UNCHANGED vars
  BY <1>1 DEF vars, IInv, TypeOK, LockInv
<1>2. CASE Next
  BY <1>2, TncByteInv, HostByteInv, HostReadInv, IrqInv, LoopInv, UsbInv DEF Next
<1> QED  BY <1>1, <1>2

HIDE DEF Locks, UartDepth, Core0Idle, Core1Idle, core0, core1, usb, ends

\* The inductive invariant holds: the locks exclude each other, and what was
\* tested outside a critical section still holds in it.
THEOREM Invariance == Spec => []IInv
BY InitInv, StepInv, PTL DEF Spec

\* Types, and the bounds of both buffers and of every FIFO (passthru.c).
THEOREM TypeCorrect == Spec => []TypeOK
<1>1. IInv => TypeOK
  BY DEF IInv
<1> QED  BY <1>1, Invariance, PTL

---------------------------------------------------------------------------
(* From the computer to the TNC.                                           *)

InFlight == toTnc \o Unwritten \o cdc_in

LEMMA UnwrittenType ==
  ASSUME IInv
  PROVE  /\ toTnc \in Seq(Number) /\ cdc_in \in Seq(Number) /\ usb_rx_buffer \in Seq(Number)
         /\ Unwritten \in Seq(Number) /\ toTnc \o Unwritten \in Seq(Number)
<1>1. toTnc \in Seq(Number) /\ cdc_in \in Seq(Number) /\ usb_rx_buffer \in Seq(Number)
  BY DEF IInv, TypeOK
<1>2. pc0 = "write" => out \in 0..Len(usb_rx_buffer)
  BY DEF IInv, TypeOK, LockInv
<1>3. Unwritten \in Seq(Number)
  BY <1>1, <1>2, Cut DEF Unwritten
<1> QED  BY <1>1, <1>3, ConcatProperties

LEMMA HostByteAppends ==
  ASSUME IInv, HostByte
  PROVE  InFlight' = Append(InFlight, hostSent + 1) /\ hostSent' = hostSent + 1
<1>1. hostSent + 1 \in Number /\ cdc_in' = Append(cdc_in, hostSent + 1)
  <2>1. hostSent < MaxBytes /\ hostSent \in Nat /\ MaxBytes \in Nat
    BY Sizes DEF HostByte, IInv
  <2>2. hostSent + 1 \in Number
    BY <2>1 DEF Number
  <2> QED  BY <2>2 DEF HostByte
<1>2. toTnc' = toTnc /\ Unwritten' = Unwritten
  BY DEF HostByte, Unwritten, core0, ends
<1>3. \A s \in Seq(Number) : s \o Append(cdc_in, hostSent + 1) = Append(s \o cdc_in, hostSent + 1)
  <2> SUFFICES ASSUME NEW s \in Seq(Number)
               PROVE  s \o Append(cdc_in, hostSent + 1) = Append(s \o cdc_in, hostSent + 1)
    OBVIOUS
  <2>1. cdc_in \in Seq(Number) /\ s \o cdc_in \in Seq(Number)
    BY UnwrittenType, ConcatProperties
  <2>2. <<hostSent + 1>> \in Seq(Number)
    BY <1>1
  <2> QED  BY <1>1, <2>1, <2>2, AppendIsConcat, ConcatAssociative
<1> QED  BY <1>1, <1>2, <1>3, UnwrittenType DEF InFlight, HostByte

\* Every other step only moves bytes along.
LEMMA InFlightKept ==
  ASSUME IInv, [Next]_vars, ~HostByte
  PROVE  InFlight' = InFlight /\ hostSent' = hostSent
<1> USE DEF Core0Idle, Core1Idle, core0, core1, usb, ends
<1>1. CASE UNCHANGED vars
  BY <1>1 DEF vars, InFlight, Unwritten
<1>2. CASE TncByte \/ HostRead \/ passthru_uart_irq
  BY <1>2 DEF TncByte, HostRead, passthru_uart_irq, IrqRaise, IrqEnter, IrqRead, IrqExit,
              InFlight, Unwritten
<1>3. CASE LoopCheck
  BY <1>3 DEF LoopCheck, InFlight, Unwritten
<1>4. CASE LoopEnter
  <2>1. Unwritten' = After(usb_rx_buffer, 0) /\ Unwritten = usb_rx_buffer
    BY <1>4 DEF LoopEnter, Unwritten
  <2> QED  BY <1>4, <2>1, UnwrittenType, AfterNone DEF LoopEnter, InFlight
<1>5. CASE LoopWrite
  <2>1. out \in 0..(Len(usb_rx_buffer) - 1)
    BY <1>5, Sizes DEF LoopWrite, IInv, TypeOK, LockInv
  <2>2. Unwritten' = After(usb_rx_buffer, out + 1) /\ Unwritten = After(usb_rx_buffer, out)
    BY <1>5 DEF LoopWrite, Unwritten
  <2>3. toTnc' \o Unwritten' = toTnc \o Unwritten
    BY <1>5, <2>1, <2>2, UnwrittenType, MoveNext DEF LoopWrite
  <2> QED  BY <1>5, <2>3 DEF LoopWrite, InFlight
<1>6. CASE LoopExit
  <2>1. len = Len(usb_rx_buffer) /\ out = len
    BY <1>6 DEF LoopExit, IInv, LockInv
  <2>2. Unwritten = <<>>
    BY <1>6, <2>1, UnwrittenType, AfterNone DEF LoopExit, Unwritten
  <2>3. Unwritten' = <<>>
    <3>1. Len(usb_rx_buffer) - len = 0
      BY <2>1, Sizes DEF IInv
    <3> QED  BY <1>6, <3>1, UnwrittenType, AfterNone DEF LoopExit, Unwritten
  <2> QED  BY <1>6, <2>2, <2>3 DEF LoopExit, InFlight
<1>7. CASE UsbRead
  <2>1. pc0 # "write"
    BY <1>7 DEF UsbRead, IInv, LockInv
  <2>2. Unwritten = usb_rx_buffer /\ Unwritten' = usb_rx_buffer'
    BY <1>7, <2>1 DEF UsbRead, Unwritten
  <2>3. /\ ReadSize \in 0..Len(cdc_in) /\ cdc_in' = After(cdc_in, ReadSize)
        /\ usb_rx_buffer' = usb_rx_buffer \o First(cdc_in, ReadSize)
    BY <1>7, ReadSizeFits
  <2>4. (usb_rx_buffer \o First(cdc_in, ReadSize)) \o After(cdc_in, ReadSize)
          = usb_rx_buffer \o cdc_in
    BY <2>3, UnwrittenType, MovePart
  <2>5. First(cdc_in, ReadSize) \in Seq(Number) /\ After(cdc_in, ReadSize) \in Seq(Number)
    BY <2>3, UnwrittenType, Cut
  <2>6. usb_rx_buffer' \in Seq(Number) /\ cdc_in' \in Seq(Number)
    BY <2>3, <2>5, UnwrittenType, ConcatProperties
  <2>7. (toTnc \o usb_rx_buffer') \o cdc_in' = toTnc \o (usb_rx_buffer' \o cdc_in')
    <3>1. toTnc \in Seq(Number)
      BY UnwrittenType
    <3> QED  BY <2>6, <3>1, Associative
  <2>8. (toTnc \o usb_rx_buffer) \o cdc_in = toTnc \o (usb_rx_buffer \o cdc_in)
    BY UnwrittenType, ConcatAssociative
  <2>9. toTnc' = toTnc /\ hostSent' = hostSent
    BY <1>7 DEF UsbRead
  <2> QED  BY <2>2, <2>3, <2>4, <2>7, <2>8, <2>9 DEF InFlight
<1>8. CASE passthru_usb_entry /\ ~UsbRead
  BY <1>8 DEF passthru_usb_entry, UsbAvailable, UsbReadEnter, UsbWriteCheck, UsbWriteEnter,
              UsbWrite, UsbFixup, UsbFlush, InFlight, Unwritten
<1> QED  BY <1>1, <1>2, <1>3, <1>4, <1>5, <1>6, <1>7, <1>8 DEF Next, passthru_uart_loop

\* Nothing the computer sends is lost, doubled or reordered on its way to the
\* TNC (passthru_usb_read and passthru_uart_loop).
THEOREM HostToTnc == Spec => []ToTncExact
<1>1. Init => ToTncExact
  BY EmptySeq, ConcatEmptySeq DEF Init, ToTncExact, Unwritten
<1>2. IInv /\ ToTncExact /\ [Next]_vars => ToTncExact'
  <2> SUFFICES ASSUME IInv, ToTncExact, [Next]_vars PROVE ToTncExact'
    OBVIOUS
  <2>1. InFlight = [n \in 1..hostSent |-> n]
    BY DEF ToTncExact, InFlight
  <2>2. InFlight' = [n \in 1..(hostSent') |-> n]
    <3>1. CASE HostByte
      BY <3>1, <2>1, HostByteAppends, Counting, Sizes DEF IInv
    <3>2. CASE ~HostByte
      BY <3>2, <2>1, InFlightKept
    <3> QED  BY <3>1, <3>2
  <2> QED  BY <2>2 DEF ToTncExact, InFlight
<1> QED  BY <1>1, <1>2, Invariance, PTL DEF Spec

---------------------------------------------------------------------------
(* From the TNC to the computer.                                           *)

LEMMA UnmovedType ==
  ASSUME IInv
  PROVE  /\ toHost \in Seq(Number) /\ cdc_out \in Seq(Number)
         /\ uart_rx_buffer \in Seq(Number) /\ uart \in Seq(Number)
         /\ Unmoved \in Seq(Number) /\ toHost \o cdc_out \in Seq(Number)
         /\ (toHost \o cdc_out) \o Unmoved \in Seq(Number)
         /\ Pipe \in Seq(Number)
<1>1. /\ toHost \in Seq(Number) /\ cdc_out \in Seq(Number)
      /\ uart_rx_buffer \in Seq(Number) /\ uart \in Seq(Number)
  BY DEF IInv, TypeOK
<1>2. pc1 = "fixup" => written \in 0..Len(uart_rx_buffer)
  BY Sizes, Bounds DEF IInv
<1>3. Unmoved \in Seq(Number)
  BY <1>1, <1>2, Cut DEF Unmoved
<1>4. toHost \o cdc_out \in Seq(Number)
  BY <1>1, ConcatProperties
<1>5. (toHost \o cdc_out) \o Unmoved \in Seq(Number)
  BY <1>3, <1>4, ConcatProperties
<1>6. ((toHost \o cdc_out) \o Unmoved) \o uart \in Seq(Number)
  BY <1>1, <1>5, ConcatProperties
<1> QED  BY <1>1, <1>3, <1>4, <1>5, <1>6 DEF Pipe

\* A byte from the TNC goes to the end, or is lost.
LEMMA TncByteAppends ==
  ASSUME IInv, TncByte
  PROVE  /\ tncSent' = tncSent + 1 /\ tncSent + 1 \in Number
         /\ Pipe' = Pipe \/ Pipe' = Append(Pipe, tncSent + 1)
<1>1. tncSent' = tncSent + 1 /\ tncSent + 1 \in Number
  <2>1. tncSent < MaxBytes /\ tncSent \in Nat /\ MaxBytes \in Nat
    BY Sizes DEF TncByte, IInv
  <2> QED  BY <2>1 DEF TncByte, Number
<1>2. toHost' = toHost /\ cdc_out' = cdc_out /\ Unmoved' = Unmoved
  BY DEF TncByte, Unmoved, core1, usb
<1>3. CASE uart' = uart
  BY <1>1, <1>2, <1>3 DEF Pipe
<1>4. CASE uart' = Append(uart, tncSent + 1)
  <2>1. \A s \in Seq(Number) : s \o Append(uart, tncSent + 1) = Append(s \o uart, tncSent + 1)
    <3> SUFFICES ASSUME NEW s \in Seq(Number)
                 PROVE  s \o Append(uart, tncSent + 1) = Append(s \o uart, tncSent + 1)
      OBVIOUS
    <3>1. uart \in Seq(Number) /\ s \o uart \in Seq(Number)
      BY UnmovedType, ConcatProperties
    <3>2. <<tncSent + 1>> \in Seq(Number)
      BY <1>1
    <3> QED  BY <1>1, <3>1, <3>2, AppendIsConcat, ConcatAssociative
  <2> QED  BY <1>1, <1>2, <1>4, <2>1, UnmovedType DEF Pipe
<1> QED  BY <1>1, <1>3, <1>4 DEF TncByte

\* Every other step only moves bytes along.
LEMMA PipeKept ==
  ASSUME IInv, [Next]_vars, ~TncByte
  PROVE  Pipe' = Pipe /\ tncSent' = tncSent
<1> USE DEF Core0Idle, Core1Idle, core0, core1, usb, ends
<1>1. CASE UNCHANGED vars
  BY <1>1 DEF vars, Pipe, Unmoved
<1>2. CASE HostByte \/ passthru_uart_loop
  BY <1>2 DEF HostByte, passthru_uart_loop, LoopCheck, LoopEnter, LoopWrite, LoopExit,
              Pipe, Unmoved
<1>3. CASE HostRead
  <2>1. cdc_out # <<>>
    BY <1>3, Sizes, EmptySeq DEF HostRead, IInv, TypeOK
  <2>2. toHost' \o cdc_out' = toHost \o cdc_out
    BY <1>3, <2>1, UnmovedType, MoveHead DEF HostRead
  <2> QED  BY <1>3, <2>2 DEF HostRead, Pipe, Unmoved
<1>4. CASE passthru_uart_irq /\ ~IrqRead
  BY <1>4 DEF passthru_uart_irq, IrqRaise, IrqEnter, IrqExit, Pipe, Unmoved
<1>5. CASE IrqRead
  <2>1. pc1 # "fixup"
    BY <1>5 DEF IrqRead, IInv, LockInv
  <2>2. Unmoved = uart_rx_buffer /\ Unmoved' = Append(uart_rx_buffer, Head(uart))
    BY <1>5, <2>1 DEF IrqRead, Unmoved
  <2>3. Unmoved' \o uart' = Unmoved \o uart
    BY <1>5, <2>2, UnmovedType, MoveHead DEF IrqRead
  <2>4. Unmoved' \in Seq(Number) /\ uart' \in Seq(Number)
    BY <1>5, <2>2, UnmovedType, HeadTailProperties, AppendProperties DEF IrqRead
  <2>5. ((toHost \o cdc_out) \o Unmoved') \o uart' = (toHost \o cdc_out) \o (Unmoved' \o uart')
    <3>1. toHost \o cdc_out \in Seq(Number)
      BY UnmovedType
    <3> QED  BY <2>4, <3>1, Associative
  <2>6. ((toHost \o cdc_out) \o Unmoved) \o uart = (toHost \o cdc_out) \o (Unmoved \o uart)
    <3>1. toHost \o cdc_out \in Seq(Number) /\ Unmoved \in Seq(Number) /\ uart \in Seq(Number)
      BY UnmovedType
    <3> QED  BY <3>1, Associative
  <2>7. toHost' = toHost /\ cdc_out' = cdc_out /\ tncSent' = tncSent
    BY <1>5 DEF IrqRead
  <2> QED  BY <2>3, <2>5, <2>6, <2>7 DEF Pipe
<1>6. CASE UsbWrite
  <2>1. Unmoved = uart_rx_buffer /\ Unmoved' = After(uart_rx_buffer, written')
    BY <1>6 DEF UsbWrite, Unmoved
  <2>2. cdc_out' = cdc_out \o First(uart_rx_buffer, written')
    BY <1>6 DEF UsbWrite
  <2>3. written' \in 0..Len(uart_rx_buffer)
    BY <1>6, WrittenFits
  <2>4. First(uart_rx_buffer, written') \in Seq(Number) /\ After(uart_rx_buffer, written') \in Seq(Number)
    BY <2>3, UnmovedType, Cut
  <2>6. toHost \o cdc_out' = (toHost \o cdc_out) \o First(uart_rx_buffer, written')
    <3>1. toHost \in Seq(Number) /\ cdc_out \in Seq(Number)
      BY UnmovedType
    <3>2. (toHost \o cdc_out) \o First(uart_rx_buffer, written')
            = toHost \o (cdc_out \o First(uart_rx_buffer, written'))
      BY <2>4, <3>1, Associative
    <3> QED  BY <2>2, <3>2
  <2>7. ((toHost \o cdc_out) \o First(uart_rx_buffer, written')) \o After(uart_rx_buffer, written')
          = (toHost \o cdc_out) \o uart_rx_buffer
    BY <2>3, UnmovedType, MovePart
  <2>8. toHost' = toHost /\ uart' = uart /\ tncSent' = tncSent
    BY <1>6 DEF UsbWrite
  <2> QED  BY <2>1, <2>6, <2>7, <2>8 DEF Pipe
<1>7. CASE UsbFixup
  BY <1>7 DEF UsbFixup, Moved, Pipe, Unmoved
<1>8. CASE passthru_usb_entry /\ ~UsbWrite /\ ~UsbFixup
  BY <1>8 DEF passthru_usb_entry, UsbAvailable, UsbReadEnter, UsbRead, UsbWriteCheck,
              UsbWriteEnter, UsbFlush, Pipe, Unmoved
<1> QED  BY <1>1, <1>2, <1>3, <1>4, <1>5, <1>6, <1>7, <1>8 DEF Next

\* Once the UART has taken a byte it keeps its place in the pipe to the
\* computer (passthru_uart_irq and passthru_usb_write).
THEOREM OrderKept == Spec => KeptInOrder
<1>1. IInv /\ [Next]_vars => [IsPrefix(Pipe, Pipe')]_vars
  <2> SUFFICES ASSUME IInv, [Next]_vars PROVE IsPrefix(Pipe, Pipe')
    OBVIOUS
  <2>1. Pipe \in Seq(Number) /\ Len(Pipe) \in Nat
    BY UnmovedType, LenProperties
  <2>2. CASE Pipe' = Pipe
    BY <2>1, <2>2 DEF IsPrefix
  <2>3. CASE tncSent + 1 \in Number /\ Pipe' = Append(Pipe, tncSent + 1)
    BY <2>1, <2>3, AppendProperties, SubSeqFull DEF IsPrefix
  <2> QED  BY <2>2, <2>3, TncByteAppends, PipeKept
<1> QED  BY <1>1, Invariance, PTL DEF Spec, KeptInOrder

---------------------------------------------------------------------------
(* The direction from the TNC implements the lossy link of LossyFrames.    *)

\* The pipe holds numbers the TNC has sent, in rising order.
PipeInv ==
  /\ \A i \in DOMAIN Pipe : Pipe[i] <= tncSent
  /\ \A i, j \in DOMAIN Pipe : i < j => Pipe[i] < Pipe[j]

LEMMA PipeStep == IInv /\ PipeInv /\ [Next]_vars => PipeInv'
<1> SUFFICES ASSUME IInv, PipeInv, [Next]_vars PROVE PipeInv'
  OBVIOUS
<1>0. tncSent \in Nat
  BY Sizes DEF IInv
<1>1. Pipe \in Seq(Number)
  BY UnmovedType
<1>2. CASE Pipe' = Pipe /\ tncSent' = tncSent
  BY <1>2 DEF PipeInv
<1>3. CASE TncByte
  <2>1. /\ tncSent' = tncSent + 1 /\ tncSent + 1 \in Number
        /\ Pipe' = Pipe \/ Pipe' = Append(Pipe, tncSent + 1)
    BY <1>3, TncByteAppends
  <2> HIDE DEF Pipe
  <2>2. \A i \in DOMAIN Pipe : Pipe[i] \in Nat /\ Pipe[i] <= tncSent
    <3>1. \A i \in DOMAIN Pipe : Pipe[i] \in Number
      BY <1>1, ElementOfSeq, LenProperties
    <3> QED  BY <3>1 DEF PipeInv, Number
  <2>3. CASE Pipe' = Pipe
    BY <1>0, <2>1, <2>2, <2>3 DEF PipeInv
  <2>4. CASE Pipe' = Append(Pipe, tncSent + 1)
    <3>1. /\ DOMAIN Pipe = 1..Len(Pipe) /\ Len(Pipe) \in Nat
          /\ DOMAIN Pipe' = 1..(Len(Pipe) + 1)
          /\ \A i \in 1..Len(Pipe) : Pipe'[i] = Pipe[i]
          /\ Pipe'[Len(Pipe) + 1] = tncSent + 1
      BY <1>1, <2>1, <2>4, AppendProperties, LenProperties
    <3>2. \A i \in 1..(Len(Pipe) + 1) : i \in 1..Len(Pipe) \/ i = Len(Pipe) + 1
      BY <3>1
    <3>3. \A i \in DOMAIN Pipe' : Pipe'[i] <= tncSent'
      BY <1>0, <2>1, <2>2, <3>1, <3>2
    <3>4. ASSUME NEW i \in DOMAIN Pipe', NEW j \in DOMAIN Pipe', i < j
          PROVE  Pipe'[i] < Pipe'[j]
      <4>1. i \in 1..Len(Pipe)
        BY <3>1, <3>4
      <4>2. CASE j \in 1..Len(Pipe)
        BY <3>1, <3>4, <4>1, <4>2 DEF PipeInv
      <4>3. CASE j = Len(Pipe) + 1
        BY <1>0, <2>2, <3>1, <4>1, <4>3
      <4> QED  BY <3>1, <3>2, <4>2, <4>3
    <3> QED  BY <3>3, <3>4 DEF PipeInv
  <2> QED  BY <2>1, <2>3, <2>4
<1> QED  BY <1>2, <1>3, PipeKept

\* The next byte for the computer is newer than all it has, and was sent.
LEMMA HeadIsNext ==
  ASSUME IInv, PipeInv, cdc_out # <<>>
  PROVE  /\ Head(cdc_out) \in 1..tncSent
         /\ toHost # <<>> => toHost[Len(toHost)] < Head(cdc_out)
<1> DEFINE front == toHost \o cdc_out
           rest  == Unmoved \o uart
           n     == Len(toHost)
<1>1. /\ toHost \in Seq(Number) /\ cdc_out \in Seq(Number)
      /\ Unmoved \in Seq(Number) /\ uart \in Seq(Number)
  BY UnmovedType
<1>2. n \in Nat /\ Len(cdc_out) \in Nat \ {0} /\ Head(cdc_out) = cdc_out[1]
  BY <1>1, EmptySeq, LenProperties
<1>3. /\ front \in Seq(Number) /\ Len(front) = n + Len(cdc_out)
      /\ front[n + 1] = Head(cdc_out) /\ (n > 0 => front[n] = toHost[n])
  <2>1. \A i \in 1..(n + Len(cdc_out)) :
          (toHost \o cdc_out)[i] = IF i <= n THEN toHost[i] ELSE cdc_out[i - n]
    BY <1>1, ConcatProperties
  <2>2. n + 1 \in 1..(n + Len(cdc_out)) /\ ~(n + 1 <= n) /\ (n + 1) - n = 1
    BY <1>2
  <2>3. n > 0 => n \in 1..(n + Len(cdc_out)) /\ n <= n
    BY <1>2
  <2> QED  BY <1>1, <1>2, <2>1, <2>2, <2>3, ConcatProperties
<1>4. Pipe = front \o rest /\ rest \in Seq(Number)
  <2>1. rest \in Seq(Number)
    BY <1>1, ConcatProperties
  <2>2. (front \o Unmoved) \o uart = front \o (Unmoved \o uart)
    <3>1. front \in Seq(Number) /\ Unmoved \in Seq(Number) /\ uart \in Seq(Number)
      BY <1>1, <1>3
    <3> HIDE DEF front
    <3> QED  BY <3>1, Associative
  <2> QED  BY <2>1, <2>2 DEF Pipe
<1> HIDE DEF front, rest
<1>5. /\ DOMAIN Pipe = 1..(Len(front) + Len(rest)) /\ Len(rest) \in Nat
      /\ \A i \in 1..Len(front) : Pipe[i] = front[i]
  <2>1. /\ front \o rest \in Seq(Number) /\ Len(front \o rest) = Len(front) + Len(rest)
        /\ \A i \in 1..(Len(front) + Len(rest)) :
             (front \o rest)[i] = IF i <= Len(front) THEN front[i] ELSE rest[i - Len(front)]
    <3>1. front \in Seq(Number) /\ rest \in Seq(Number)
      BY <1>3, <1>4
    <3> QED  BY <3>1, ConcatProperties
  <2>2. /\ DOMAIN (front \o rest) = 1..Len(front \o rest)
        /\ Len(front) \in Nat /\ Len(rest) \in Nat
    BY <1>3, <1>4, <2>1, LenProperties
  <2>3. \A i \in 1..Len(front) : i \in 1..(Len(front) + Len(rest)) /\ i <= Len(front)
    BY <2>2
  <2> HIDE DEF Pipe
  <2> QED  BY <1>4, <2>1, <2>2, <2>3
<1>6. n + 1 \in DOMAIN Pipe /\ n + 1 \in 1..Len(front) /\ Pipe[n + 1] = Head(cdc_out)
  BY <1>2, <1>3, <1>5
<1>7. Head(cdc_out) \in Nat \ {0} /\ Head(cdc_out) <= tncSent
  <2>1. cdc_out[1] \in Number
    BY <1>1, <1>2, ElementOfSeq
  <2>2. Head(cdc_out) <= tncSent
    BY <1>6 DEF PipeInv
  <2> QED  BY <1>2, <2>1, <2>2 DEF Number
<1>8. ASSUME toHost # <<>> PROVE toHost[n] < Head(cdc_out)
  <2>1. n > 0
    BY <1>1, <1>8, EmptySeq
  <2>2. n \in DOMAIN Pipe /\ Pipe[n] = toHost[n] /\ n < n + 1
    BY <1>2, <1>3, <1>5, <2>1
  <2> QED  BY <1>6, <2>2 DEF PipeInv
<1>9. tncSent \in Nat
  BY Sizes DEF IInv
<1> QED  BY <1>7, <1>8, <1>9

Numbers == [n \in 1..tncSent |-> n]
Received == [i \in DOMAIN toHost |-> [seq |-> toHost[i], frame |-> toHost[i]]]

LEMMA ReceivedAppend ==
  ASSUME toHost \in Seq(Number), NEW n \in Number, toHost' = Append(toHost, n)
  PROVE  Received' = Append(Received, [seq |-> n, frame |-> n])
<1> DEFINE R == [seq: Number, frame: Number]
           e == [seq |-> n, frame |-> n]
<1>1. /\ DOMAIN toHost = 1..Len(toHost) /\ Len(toHost) \in Nat
      /\ DOMAIN toHost' = 1..(Len(toHost) + 1) /\ toHost' \in Seq(Number)
      /\ \A i \in 1..Len(toHost) : toHost[i] \in Number /\ toHost'[i] = toHost[i]
      /\ toHost'[Len(toHost) + 1] = n
  BY AppendProperties, LenProperties, ElementOfSeq
<1>2. \A i \in 1..(Len(toHost) + 1) : i \in 1..Len(toHost) \/ i = Len(toHost) + 1
  BY <1>1
<1>3. /\ Received \in [1..Len(toHost) -> R]
      /\ \A i \in 1..Len(toHost) : Received[i] = [seq |-> toHost[i], frame |-> toHost[i]]
  BY <1>1 DEF Received
<1>4. /\ Received' \in [1..(Len(toHost) + 1) -> R]
      /\ \A i \in 1..(Len(toHost) + 1) : Received'[i] = [seq |-> toHost'[i], frame |-> toHost'[i]]
  BY <1>1, <1>2 DEF Received
<1> HIDE DEF Received, R
<1>5. Received \in Seq(R) /\ Len(Received) = Len(toHost)
  BY <1>1, <1>3, SeqDef
<1>6. Received' \in Seq(R) /\ Len(Received') = Len(toHost) + 1
  BY <1>1, <1>4, SeqDef
<1>7. e \in R
  BY DEF R
<1>8. /\ Append(Received, e) \in Seq(R) /\ Len(Append(Received, e)) = Len(toHost) + 1
      /\ \A i \in 1..Len(toHost) : Append(Received, e)[i] = Received[i]
      /\ Append(Received, e)[Len(toHost) + 1] = e
  BY <1>5, <1>7, AppendProperties
<1>9. \A i \in 1..(Len(toHost) + 1) : Received'[i] = Append(Received, e)[i]
  BY <1>1, <1>2, <1>3, <1>4, <1>8
<1> QED  BY <1>6, <1>8, <1>9, SeqEqual

\* To the computer, the path is a lossy link: what arrives was sent, in order
\* and at most once (passthru_uart_irq, passthru_usb_write).
THEOREM Refinement == Spec => ImplementsLossyBytes
<1>1. Init => PipeInv /\ Lossy!Init
  <2> SUFFICES ASSUME Init PROVE PipeInv /\ Lossy!Init
    OBVIOUS
  <2>1. toHost = <<>> /\ tncSent = 0 /\ Pipe = <<>>
    BY EmptySeq, ConcatEmptySeq DEF Init, Pipe, Unmoved
  <2>2. DOMAIN Pipe = {} /\ DOMAIN toHost = {} /\ 1..tncSent = {}
    BY <2>1
  <2>3. Numbers = <<>> /\ Received = <<>>
    BY <2>1, <2>2 DEF Numbers, Received
  <2> QED  BY <2>2, <2>3 DEF PipeInv, Lossy!Init, Numbers, Received
<1>2. ASSUME IInv, PipeInv, [Next]_vars
      PROVE  [Lossy!Next]_(Lossy!vars)
  <2>1. CASE TncByte
    <3>1. tncSent' = tncSent + 1 /\ tncSent + 1 \in Number /\ tncSent \in Nat
      BY <1>2, <2>1, TncByteAppends, Sizes DEF IInv
    <3>2. Numbers' = Append(Numbers, tncSent + 1)
      BY <3>1, Counting DEF Numbers
    <3>3. Received' = Received
      BY <2>1 DEF TncByte, Received
    <3> QED  BY <3>1, <3>2, <3>3 DEF Lossy!Next, Lossy!Send, Numbers, Received
  <2>2. CASE HostRead
    <3> DEFINE n == Head(cdc_out)
    <3>1. cdc_out # <<>> /\ toHost \in Seq(Number) /\ toHost' = Append(toHost, n)
      BY <1>2, <2>2, Sizes, EmptySeq DEF HostRead, IInv, TypeOK
    <3>2. n \in 1..tncSent /\ (toHost # <<>> => toHost[Len(toHost)] < n)
      BY <1>2, <3>1, HeadIsNext
    <3>3. n \in Number
      BY <1>2, <3>1, UnmovedType, HeadTailProperties
    <3>4. tncSent' = tncSent
      BY <2>2 DEF HostRead
    <3> HIDE DEF n
    <3>5. Received' = Append(Received, [seq |-> n, frame |-> n])
      BY <3>1, <3>3, ReceivedAppend
    <3>6. Numbers' = Numbers /\ n \in DOMAIN Numbers /\ Numbers[n] = n
      BY <3>2, <3>4 DEF Numbers
    <3>7. Lossy!Newest < n
      <4>1. CASE toHost = <<>>
        <5>1. Received = <<>> /\ 0 < n
          BY <3>2, <4>1 DEF Received
        <5> QED  BY <5>1 DEF Lossy!Newest, Received
      <4>2. CASE toHost # <<>>
        <5>1. Len(toHost) \in DOMAIN toHost /\ DOMAIN toHost = 1..Len(toHost) /\ Len(toHost) \in Nat
          BY <3>1, <4>2, EmptySeq, LenProperties
        <5>2. /\ Received # <<>> /\ Len(Received) = Len(toHost)
              /\ Received[Len(toHost)].seq = toHost[Len(toHost)]
          BY <5>1 DEF Received
        <5> QED  BY <3>2, <4>2, <5>2 DEF Lossy!Newest, Received
      <4> QED  BY <4>1, <4>2
    <3>8. \E k \in DOMAIN Numbers :
            /\ Lossy!Newest < k
            /\ Received' = Append(Received, [seq |-> k, frame |-> Numbers[k]])
            /\ Numbers' = Numbers
      BY <3>5, <3>6, <3>7
    <3> QED  BY <3>8 DEF Lossy!Next, Lossy!Deliver, Numbers, Received
  <2>3. ASSUME toHost' = toHost, tncSent' = tncSent
        PROVE  UNCHANGED Lossy!vars
    BY <2>3 DEF Lossy!vars
  <2>4. CASE HostByte
    BY <2>3, <2>4 DEF HostByte
  <2>5. CASE passthru_uart_irq \/ passthru_uart_loop
    BY <2>3, <2>5 DEF passthru_uart_irq, IrqRaise, IrqEnter, IrqRead, IrqExit, passthru_uart_loop,
                      LoopCheck, LoopEnter, LoopWrite, LoopExit, Core1Idle
  <2>6. CASE passthru_usb_entry
    BY <2>3, <2>6 DEF passthru_usb_entry, UsbAvailable, UsbReadEnter, UsbRead, UsbWriteCheck,
                      UsbWriteEnter, UsbWrite, UsbFixup, UsbFlush, Core0Idle, ends
  <2>7. CASE UNCHANGED vars
    BY <2>3, <2>7 DEF vars, ends
  <2> QED  BY <1>2, <2>1, <2>2, <2>4, <2>5, <2>6, <2>7 DEF Next
<1> QED  BY <1>1, <1>2, PipeStep, Invariance, PTL DEF Spec, ImplementsLossyBytes, Lossy!Spec
==========================================================================
