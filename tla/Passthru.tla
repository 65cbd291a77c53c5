------------------------------ MODULE Passthru ------------------------------
(***************************************************************************)
(* Passthru mode (firmware/passthru/passthru.c and main of main_aprs.c):   *)
(* the Pico is a USB-to-UART bridge between a computer and the TNC.        *)
(* Core 0 runs passthru_uart_loop, which the UART interrupt                *)
(* passthru_uart_irq preempts; core 1 runs passthru_usb_read and           *)
(* passthru_usb_write in turn.  Two buffers, each under a critical section *)
(* that also turns off the interrupts of the core that holds it.           *)
(*                                                                         *)
(* A byte is its number: the TNC sends 1, 2, ... and so does the computer. *)
(* An array with its position (uart_rx_buffer, uart_rx_pos) is a sequence. *)
(***************************************************************************)
EXTENDS Integers, Sequences, SequencesExt

CONSTANTS
  PASSTHRU_UART_BUFFER_SIZE,  \* 1024
  PASSTHRU_USB_BUFFER_SIZE,   \* 1024
  CdcSize,    \* size of either FIFO of the USB CDC device
  MaxBytes    \* bound: bytes sent by the TNC, and by the computer

ASSUME PassthruAssumption ==
  /\ PASSTHRU_UART_BUFFER_SIZE \in Nat \ {0}
  /\ PASSTHRU_USB_BUFFER_SIZE \in Nat \ {0}
  /\ CdcSize \in Nat \ {0}
  /\ MaxBytes \in Nat

\* main starts the UART with its FIFO off: it holds one byte.
UartDepth == 1

VARIABLES
  \* passthru.c
  uart_rx_buffer, uart_rx_lock,
  usb_rx_buffer, usb_rx_lock,
  \* core 0: its interrupt, its loop, uart_writer's length and progress
  irq, pc0, len, out,
  \* core 1 and its locals
  pc1, usb_available, written,
  \* the UART's receive register and the device's FIFOs
  uart, cdc_in, cdc_out, flushed,
  \* the two ends: bytes sent so far, bytes received
  tncSent, hostSent, toTnc, toHost

core0 == <<irq, pc0, len, out>>
core1 == <<pc1, usb_available, written>>
usb   == <<cdc_in, cdc_out, flushed>>
ends  == <<tncSent, hostSent, toTnc, toHost>>
vars  == <<uart_rx_buffer, uart_rx_lock, usb_rx_buffer, usb_rx_lock, core0, core1,
           uart, usb, ends>>

Init ==
  /\ uart_rx_buffer = <<>> /\ uart_rx_lock = "free"
  /\ usb_rx_buffer = <<>> /\ usb_rx_lock = "free"
  /\ irq = "off" /\ pc0 = "check" /\ len = 0 /\ out = 0
  /\ pc1 = "available" /\ usb_available = 0 /\ written = 0
  /\ uart = <<>> /\ cdc_in = <<>> /\ cdc_out = <<>> /\ flushed = 0
  /\ tncSent = 0 /\ hostSent = 0 /\ toTnc = <<>> /\ toHost = <<>>

Smaller(a, b) == IF a < b THEN a ELSE b
First(s, n) == SubSeq(s, 1, n)
After(s, n) == SubSeq(s, n + 1, Len(s))

---------------------------------------------------------------------------
(* The two ends, which are not part of the repository.                     *)

\* A byte that finds the receive register full is lost.
TncByte ==
  /\ tncSent < MaxBytes
  /\ tncSent' = tncSent + 1
  /\ uart' = IF Len(uart) < UartDepth THEN Append(uart, tncSent') ELSE uart
  /\ UNCHANGED <<uart_rx_buffer, uart_rx_lock, usb_rx_buffer, usb_rx_lock, core0, core1,
                 usb, hostSent, toTnc, toHost>>

\* USB holds the computer back when the FIFO is full.
HostByte ==
  /\ hostSent < MaxBytes /\ Len(cdc_in) < CdcSize
  /\ hostSent' = hostSent + 1
  /\ cdc_in' = Append(cdc_in, hostSent')
  /\ UNCHANGED <<uart_rx_buffer, uart_rx_lock, usb_rx_buffer, usb_rx_lock, core0, core1,
                 uart, cdc_out, flushed, tncSent, toTnc, toHost>>

\* The computer takes a byte that was flushed to it, if it likes.
HostRead ==
  /\ flushed > 0
  /\ flushed' = flushed - 1
  /\ toHost' = Append(toHost, Head(cdc_out))
  /\ cdc_out' = Tail(cdc_out)
  /\ UNCHANGED <<uart_rx_buffer, uart_rx_lock, usb_rx_buffer, usb_rx_lock, core0, core1,
                 uart, cdc_in, tncSent, hostSent, toTnc>>

---------------------------------------------------------------------------
(* Core 0, passthru_uart_irq.  A byte in the register keeps it pending.    *)

Core1Idle == UNCHANGED <<core1, usb, tncSent, hostSent, toHost>>

IrqRaise ==
  /\ irq = "off" /\ uart # <<>> /\ usb_rx_lock # "core0"
  /\ irq' = "enter"
  /\ Core1Idle
  /\ UNCHANGED <<uart_rx_buffer, uart_rx_lock, usb_rx_buffer, usb_rx_lock, pc0, len, out,
                 uart, toTnc>>

IrqEnter ==
  /\ irq = "enter" /\ uart_rx_lock = "free"
  /\ irq' = "loop" /\ uart_rx_lock' = "core0"
  /\ Core1Idle
  /\ UNCHANGED <<uart_rx_buffer, usb_rx_buffer, usb_rx_lock, pc0, len, out, uart, toTnc>>

\* Mutant: one byte too many fits.
RoomOneMore == Len(uart_rx_buffer) <= PASSTHRU_UART_BUFFER_SIZE

Room == Len(uart_rx_buffer) < PASSTHRU_UART_BUFFER_SIZE

IrqRead ==
  /\ irq = "loop" /\ uart # <<>> /\ Room
  /\ uart_rx_buffer' = Append(uart_rx_buffer, Head(uart))
  /\ uart' = Tail(uart)
  /\ Core1Idle
  /\ UNCHANGED <<uart_rx_lock, usb_rx_buffer, usb_rx_lock, core0, toTnc>>

\* Mutant: the handler waits for room until the register is empty.
IrqExitDrained ==
  /\ irq = "loop" /\ uart = <<>>
  /\ irq' = "off" /\ uart_rx_lock' = "free"
  /\ Core1Idle
  /\ UNCHANGED <<uart_rx_buffer, usb_rx_buffer, usb_rx_lock, pc0, len, out, uart, toTnc>>

\* A full buffer leaves the byte in the register, and the interrupt pending.
IrqExit ==
  /\ irq = "loop" /\ (uart = <<>> \/ ~Room)
  /\ irq' = "off" /\ uart_rx_lock' = "free"
  /\ Core1Idle
  /\ UNCHANGED <<uart_rx_buffer, usb_rx_buffer, usb_rx_lock, pc0, len, out, uart, toTnc>>

---------------------------------------------------------------------------
(* Core 0, passthru_uart_loop.  A pending interrupt comes before the next  *)
(* step of the loop, unless the loop is in its critical section.           *)

LoopRuns == irq = "off" /\ (uart = <<>> \/ usb_rx_lock = "core0")

LoopCheck ==
  /\ pc0 = "check" /\ LoopRuns /\ usb_rx_buffer # <<>>
  /\ pc0' = "enter"
  /\ Core1Idle
  /\ UNCHANGED <<uart_rx_buffer, uart_rx_lock, usb_rx_buffer, usb_rx_lock, irq, len, out,
                 uart, toTnc>>

LoopEnter ==
  /\ pc0 = "enter" /\ LoopRuns /\ usb_rx_lock = "free"
  /\ pc0' = "write" /\ usb_rx_lock' = "core0"
  /\ len' = Len(usb_rx_buffer) /\ out' = 0
  /\ Core1Idle
  /\ UNCHANGED <<uart_rx_buffer, uart_rx_lock, usb_rx_buffer, irq, uart, toTnc>>

\* uart_writer is uart_write_blocking: byte after byte until all are out.
LoopWrite ==
  /\ pc0 = "write" /\ out < len
  /\ out' = out + 1
  /\ toTnc' = Append(toTnc, usb_rx_buffer[out + 1])
  /\ Core1Idle
  /\ UNCHANGED <<uart_rx_buffer, uart_rx_lock, usb_rx_buffer, usb_rx_lock, irq, pc0, len, uart>>

\* The position goes back by what was written; nothing is moved down.
LoopExit ==
  /\ pc0 = "write" /\ out = len
  /\ usb_rx_buffer' = First(usb_rx_buffer, Len(usb_rx_buffer) - len)
  /\ pc0' = "check" /\ usb_rx_lock' = "free"
  /\ Core1Idle
  /\ UNCHANGED <<uart_rx_buffer, uart_rx_lock, irq, len, out, uart, toTnc>>

---------------------------------------------------------------------------
(* Core 1, passthru_usb_read and passthru_usb_write.                       *)

Core0Idle == UNCHANGED <<core0, uart, ends>>

UsbAvailable ==
  /\ pc1 = "available"
  /\ usb_available' = Len(cdc_in)
  /\ pc1' = IF cdc_in = <<>> THEN "check" ELSE "read_enter"
  /\ Core0Idle
  /\ UNCHANGED <<uart_rx_buffer, uart_rx_lock, usb_rx_buffer, usb_rx_lock, written, usb>>

\* Mutant: the buffer is filled without the lock.
UsbReadEnterUnlocked ==
  /\ pc1 = "read_enter"
  /\ pc1' = "read"
  /\ Core0Idle
  /\ UNCHANGED <<uart_rx_buffer, uart_rx_lock, usb_rx_buffer, usb_rx_lock, usb_available,
                 written, usb>>

UsbReadEnter ==
  /\ pc1 = "read_enter" /\ usb_rx_lock = "free"
  /\ pc1' = "read" /\ usb_rx_lock' = "core1"
  /\ Core0Idle
  /\ UNCHANGED <<uart_rx_buffer, uart_rx_lock, usb_rx_buffer, usb_available, written, usb>>

\* What was available before the lock was taken, or what there is room for.
UsbRead ==
  LET size == Smaller(usb_available, PASSTHRU_USB_BUFFER_SIZE - Len(usb_rx_buffer))
  IN  /\ pc1 = "read"
      /\ usb_rx_buffer' = usb_rx_buffer \o First(cdc_in, size)
      /\ cdc_in' = After(cdc_in, size)
      /\ pc1' = "check" /\ usb_rx_lock' = "free"
      /\ Core0Idle
      /\ UNCHANGED <<uart_rx_buffer, uart_rx_lock, usb_available, written, cdc_out, flushed>>

UsbWriteCheck ==
  /\ pc1 = "check"
  /\ pc1' = IF uart_rx_buffer = <<>> THEN "available" ELSE "write_enter"
  /\ Core0Idle
  /\ UNCHANGED <<uart_rx_buffer, uart_rx_lock, usb_rx_buffer, usb_rx_lock, usb_available,
                 written, usb>>

UsbWriteEnter ==
  /\ pc1 = "write_enter" /\ uart_rx_lock = "free"
  /\ pc1' = "write" /\ uart_rx_lock' = "core1"
  /\ Core0Idle
  /\ UNCHANGED <<uart_rx_buffer, usb_rx_buffer, usb_rx_lock, usb_available, written, usb>>

UsbWrite ==
  /\ pc1 = "write"
  /\ written' = Smaller(Len(uart_rx_buffer), CdcSize - Len(cdc_out))
  /\ cdc_out' = cdc_out \o First(uart_rx_buffer, written')
  /\ pc1' = "fixup"
  /\ Core0Idle
  /\ UNCHANGED <<uart_rx_buffer, uart_rx_lock, usb_rx_buffer, usb_rx_lock, usb_available,
                 cdc_in, flushed>>

\* Mutants: what was not written is not moved down; it is dropped.
NotMoved(buffer, n) == First(buffer, Len(buffer) - n)
Dropped(buffer, n) == <<>>

Moved(buffer, n) == After(buffer, n)

UsbFixup ==
  /\ pc1 = "fixup"
  /\ uart_rx_buffer' = Moved(uart_rx_buffer, written)
  /\ uart_rx_lock' = "free"
  /\ pc1' = IF written > 0 THEN "flush" ELSE "available"
  /\ Core0Idle
  /\ UNCHANGED <<usb_rx_buffer, usb_rx_lock, usb_available, written, usb>>

\* Mutant: the FIFO waits for more bytes.
UsbFlushNone ==
  /\ pc1 = "flush"
  /\ pc1' = "available"
  /\ Core0Idle
  /\ UNCHANGED <<uart_rx_buffer, uart_rx_lock, usb_rx_buffer, usb_rx_lock, usb_available,
                 written, usb>>

UsbFlush ==
  /\ pc1 = "flush"
  /\ flushed' = Len(cdc_out)
  /\ pc1' = "available"
  /\ Core0Idle
  /\ UNCHANGED <<uart_rx_buffer, uart_rx_lock, usb_rx_buffer, usb_rx_lock, usb_available,
                 written, cdc_in, cdc_out>>

---------------------------------------------------------------------------

passthru_uart_irq == IrqRaise \/ IrqEnter \/ IrqRead \/ IrqExit
passthru_uart_loop == LoopCheck \/ LoopEnter \/ LoopWrite \/ LoopExit
passthru_usb_entry ==
  \/ UsbAvailable \/ UsbReadEnter \/ UsbRead
  \/ UsbWriteCheck \/ UsbWriteEnter \/ UsbWrite \/ UsbFixup \/ UsbFlush

Next ==
  \/ TncByte \/ HostByte \/ HostRead
  \/ passthru_uart_irq \/ passthru_uart_loop \/ passthru_usb_entry

Spec == Init /\ [][Next]_vars

\* Both cores run.  Of two that contend for a lock, none loses for ever: a
\* waiting core polls the hardware spin lock all the time, and the other lets
\* it go between any two uses.  The loop gets on between interrupts.  The
\* computer reads what it is sent.
FairSpec ==
  /\ Spec
  /\ WF_vars(passthru_uart_irq) /\ SF_vars(IrqEnter)
  /\ SF_vars(LoopCheck) /\ SF_vars(LoopEnter) /\ WF_vars(LoopWrite \/ LoopExit)
  /\ WF_vars(passthru_usb_entry) /\ SF_vars(UsbReadEnter) /\ SF_vars(UsbWriteEnter)
  /\ WF_vars(HostRead)

---------------------------------------------------------------------------

Number == 1..MaxBytes
Locks == {"free", "core0", "core1"}

TypeOK ==
  /\ uart_rx_buffer \in Seq(Number) /\ Len(uart_rx_buffer) <= PASSTHRU_UART_BUFFER_SIZE
  /\ usb_rx_buffer \in Seq(Number) /\ Len(usb_rx_buffer) <= PASSTHRU_USB_BUFFER_SIZE
  /\ uart_rx_lock \in Locks /\ usb_rx_lock \in Locks
  /\ irq \in {"off", "enter", "loop"} /\ pc0 \in {"check", "enter", "write"}
  /\ len \in 0..PASSTHRU_USB_BUFFER_SIZE /\ out \in 0..len
  /\ pc1 \in {"available", "read_enter", "read", "check", "write_enter", "write", "fixup",
              "flush"}
  /\ usb_available \in 0..CdcSize /\ written \in 0..CdcSize
  /\ uart \in Seq(Number) /\ Len(uart) <= UartDepth
  /\ cdc_in \in Seq(Number) /\ Len(cdc_in) <= CdcSize
  /\ cdc_out \in Seq(Number) /\ Len(cdc_out) <= CdcSize
  /\ flushed \in 0..Len(cdc_out)
  /\ tncSent \in 0..MaxBytes /\ hostSent \in 0..MaxBytes
  /\ toTnc \in Seq(Number) /\ toHost \in Seq(Number)

\* What is still to go to the TNC, and to the USB device.
Unwritten == IF pc0 = "write" THEN After(usb_rx_buffer, out) ELSE usb_rx_buffer
Unmoved == IF pc1 = "fixup" THEN After(uart_rx_buffer, written) ELSE uart_rx_buffer

\* From the computer to the TNC nothing is lost, doubled or reordered, although
\* passthru_uart_loop writes from a buffer the other core fills and moves
\* nothing down: a critical section spans its whole write.
ToTncExact == toTnc \o Unwritten \o cdc_in = [n \in 1..hostSent |-> n]

\* A byte the UART took stays in the pipe to the computer, in its place: full
\* FIFOs, partial writes and the interrupt between them drop or swap none.
Pipe == toHost \o cdc_out \o Unmoved \o uart
KeptInOrder == [][IsPrefix(Pipe, Pipe')]_vars

\* The direction from the TNC is a lossy link, byte by byte.
Lossy == INSTANCE LossyFrames WITH
           Frame <- Number,
           sent <- [n \in 1..tncSent |-> n],
           delivered <- [i \in DOMAIN toHost |-> [seq |-> toHost[i], frame |-> toHost[i]]]
ImplementsLossyBytes == Lossy!Spec

\* Every byte the computer sends is written to the TNC, even while the
\* interrupt of a full buffer keeps core 0 from its loop: core 1 makes room.
HostByteArrives == \A n \in Number : hostSent >= n ~> Len(toTnc) >= n

\* Every byte in the buffer, or waiting in the register for room, reaches the
\* computer: none stays behind in the device's FIFO.
TncByteArrives == \A n \in Number : n \in Range(uart \o uart_rx_buffer) ~> n \in Range(toHost)
==========================================================================
