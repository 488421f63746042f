-------------------------------- MODULE Uart --------------------------------
(***************************************************************************)
(* Output to the console: consolewrite() of kernel/console.c and the       *)
(* transmit ring of kernel/uart.c, between writing processes, the          *)
(* interrupt handler, and kernel messages and echoed characters, which go  *)
(* to the same device without the ring or its lock.                        *)
(*                                                                         *)
(* A character is <<who sent it, its number>>.  The device is a 16550 with *)
(* its FIFO enabled, as uartinit() leaves it: "idle" means an empty FIFO,  *)
(* it interrupts when the FIFO runs empty, and a write to THR or a read of *)
(* ISR cancels an interrupt that has not been taken.                       *)
(***************************************************************************)
EXTENDS Integers, Sequences

CONSTANTS
  Writers,
  NoProc, Intr, Printer,   \* model values: nobody, uartintr(), uartputc_sync()
  UART_TX_BUF_SIZE,
  MaxChars                 \* characters per writer, and messages

VARIABLES
  pc,          \* where each writer and the handler are
  sent,        \* characters each writer, and uartputc_sync(), is done with
  uart_tx_buf, uart_tx_w, uart_tx_r,
  lock,        \* holder of uart_tx_lock
  fifo,        \* the device's FIFO
  irq,         \* its transmit interrupt is pending
  out          \* what went over the line

ring == <<uart_tx_buf, uart_tx_w, uart_tx_r>>
vars == <<pc, sent, ring, lock, fifo, irq, out>>

(* uartinit() *)
Init ==
  /\ pc = [p \in Writers \cup {Intr, Printer} |-> "idle"]
  /\ sent = [p \in Writers \cup {Printer} |-> 0]
  /\ uart_tx_buf = [i \in 0..UART_TX_BUF_SIZE-1 |-> <<NoProc, 0>>]
  /\ uart_tx_w = 0 /\ uart_tx_r = 0
  /\ lock = NoProc /\ fifo = <<>> /\ irq = FALSE /\ out = <<>>

Empty == uart_tx_w = uart_tx_r

(* mutant: the ring may hold one character more than it has room for *)
Full_OffByOne == uart_tx_w = uart_tx_r + UART_TX_BUF_SIZE + 1

Full == uart_tx_w = uart_tx_r + UART_TX_BUF_SIZE

(* consolewrite() copies the next character and calls uartputc(). *)
uartputc(p) ==
  /\ pc[p] = "idle" /\ sent[p] < MaxChars /\ lock = NoProc /\ ~Full
  /\ uart_tx_buf' = [uart_tx_buf EXCEPT ![uart_tx_w % UART_TX_BUF_SIZE] = <<p, sent[p] + 1>>]
  /\ uart_tx_w' = uart_tx_w + 1
  /\ sent' = [sent EXCEPT ![p] = @ + 1]
  /\ lock' = p /\ pc' = [pc EXCEPT ![p] = "uartstart"]
  /\ UNCHANGED <<uart_tx_r, fifo, irq, out>>

uartputc_sleep(p) ==
  /\ pc[p] = "idle" /\ sent[p] < MaxChars /\ lock = NoProc /\ Full
  /\ pc' = [pc EXCEPT ![p] = "sleep"]
  /\ UNCHANGED <<sent, ring, lock, fifo, irq, out>>

(* mutant: a writer that waits for room is not woken *)
uartstart_wakeup_Lost == pc

(* wakeup(&uart_tx_r): the writers look at the ring again. *)
uartstart_wakeup == [q \in DOMAIN pc |-> IF pc[q] = "sleep" THEN "idle" ELSE pc[q]]

(* The loop of uartstart(), for a writer or the handler: the next          *)
(* character goes to the device if that is idle, ...                       *)
uartstart(p) ==
  /\ pc[p] = "uartstart"
  /\ ~Empty /\ fifo = <<>>
  /\ uart_tx_r' = uart_tx_r + 1
  /\ pc' = uartstart_wakeup
  /\ fifo' = Append(fifo, uart_tx_buf[uart_tx_r % UART_TX_BUF_SIZE])
  /\ irq' = FALSE
  /\ UNCHANGED <<sent, uart_tx_buf, uart_tx_w, lock, out>>

(* ... and the loop ends when it is busy or the ring is empty. *)
uartstart_end(p) ==
  /\ pc[p] = "uartstart"
  /\ Empty \/ fifo # <<>>
  /\ irq' = (irq /\ ~Empty)
  /\ lock' = NoProc /\ pc' = [pc EXCEPT ![p] = "idle"]
  /\ UNCHANGED <<sent, ring, fifo, out>>

(* uartintr(), after it has read the input (module Console) *)
uartintr ==
  /\ pc[Intr] = "idle" /\ irq
  /\ irq' = FALSE /\ pc' = [pc EXCEPT ![Intr] = "acquire"]
  /\ UNCHANGED <<sent, ring, lock, fifo, out>>

uartintr_start ==
  /\ pc[Intr] = "acquire" /\ lock = NoProc
  /\ lock' = Intr /\ pc' = [pc EXCEPT ![Intr] = "uartstart"]
  /\ UNCHANGED <<sent, ring, fifo, irq, out>>

(* consputc(): uartputc_sync() spins until the device is idle and writes.  *)
uartputc_sync ==
  /\ pc[Printer] = "idle" /\ sent[Printer] < MaxChars /\ fifo = <<>>
  /\ pc' = [pc EXCEPT ![Printer] = "write"]
  /\ UNCHANGED <<sent, ring, lock, fifo, irq, out>>

uartputc_sync_write ==
  /\ pc[Printer] = "write"
  /\ sent' = [sent EXCEPT ![Printer] = @ + 1]
  /\ fifo' = Append(fifo, <<Printer, sent'[Printer]>>) /\ irq' = FALSE
  /\ pc' = [pc EXCEPT ![Printer] = "idle"]
  /\ UNCHANGED <<ring, lock, out>>

(* The device sends a character, and interrupts when it has no more. *)
uart_send ==
  /\ fifo # <<>>
  /\ out' = Append(out, Head(fifo)) /\ fifo' = Tail(fifo)
  /\ irq' = (irq \/ Len(fifo) = 1)
  /\ UNCHANGED <<pc, sent, ring, lock>>

Handler == uartintr \/ uartintr_start \/ uartstart(Intr) \/ uartstart_end(Intr)
WriterStep(p) == uartputc(p) \/ uartputc_sleep(p) \/ uartstart(p) \/ uartstart_end(p)
PrinterStep == uartputc_sync \/ uartputc_sync_write

Next == (\E p \in Writers : WriterStep(p)) \/ Handler \/ PrinterStep \/ uart_send

AllSent == \A p \in DOMAIN sent : sent[p] = MaxChars
-----------------------------------------------------------------------------
(* Every character that uartputc() or uartputc_sync() took is exactly once *)
(* in the ring, the device or the output, and each sender's characters     *)
(* stay in order, whoever else writes between them.                        *)
OutputInOrder ==
  LET queued == [i \in 1..uart_tx_w - uart_tx_r |->
                   uart_tx_buf[(uart_tx_r + i - 1) % UART_TX_BUF_SIZE]]
      all == out \o fifo \o queued
      From(p) == SelectSeq(all, LAMBDA c : c[1] = p)
  IN \A p \in DOMAIN sent : From(p) = [i \in 1..sent[p] |-> <<p, i>>]

(* Writes finish and all their characters reach the line: a full ring      *)
(* empties by interrupts alone, also when messages take the device between *)
(* an interrupt and its handler.                                           *)
OutputFinishes == <>[](AllSent /\ Len(out) = uart_tx_w + MaxChars)
=============================================================================
