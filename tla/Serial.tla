------------------------------- MODULE Serial -------------------------------
(***************************************************************************)
(* A UART of components/drivers/serial/serial_v2.c over the interrupts of  *)
(* drv_usart_v2.c, without DMA.  An application uses it in one of four     *)
(* ways: the shell reads one byte at a time and waits on its semaphore;    *)
(* a reader waits until as many bytes as it asked for are there; threads   *)
(* queue what they write and go on; a writer waits until all was sent.     *)
(* The handlers run between any two steps of the threads.                  *)
(***************************************************************************)
EXTENDS Semaphore, RingBuffer

CONSTANTS
  Shell,       \* the thread tshell
  Reader,      \* the thread that reads with RT_SERIAL_RX_BLOCKING
  Queuer,      \* threads that write with RT_SERIAL_TX_NON_BLOCKING
  Writer,      \* the thread that writes with RT_SERIAL_TX_BLOCKING: two threads
               \* would both pass the test of `activated'
  Text         \* what is written at once

ASSUME SerialAssumption ==
  /\ {"rx_cpt", "tx_cpt"} \subseteq WaitList
  /\ Queuer \union {Shell, Reader, Writer} \subseteq Thread \ {Idle}
  /\ Text \subseteq Seq(Byte) \ {<<>>}

VARIABLES
  rx,          \* rx_fifo: ring, rx_cpt_index, the flag of rx_cpt
  reading,     \* the size the reader asked for, and what a read gave last
  tx,          \* tx_fifo: ring, activated, the flag of tx_cpt
  line,        \* TXEIE and TCIE of the UART, and the byte sent last
  unsent       \* what the writer has not put into the ring yet

rxVars == <<rx, reading>>
txVars == <<tx, line, unsent>>
serialVars == <<rx, reading, tx, line, unsent>>

RxLabel == {"nobyte", "index", "mirror", "length", "ask", "await", "waiting", "waited",
            "fetch", "given"}
TxLabel == {"start", "more", "transmit", "txawait", "txwaiting", "txwaited"}

SerialType ==
  /\ rx \in [ring : Ring, index : 0..BufSize, done : BOOLEAN]
  /\ reading \in [asked : 0..BufSize, got : Seq(Byte)]
  /\ tx \in [ring : Ring, active : BOOLEAN, done : BOOLEAN]
  /\ line \in [txe : BOOLEAN, tc : BOOLEAN, sent : Seq(Byte)]
  /\ unsent \in Seq(Byte)

\* rt_serial_rx_enable, rt_serial_tx_enable.  Opening a port for writes that are
\* queued turns the TXE interrupt on, before there is a byte to send.
SerialInit ==
  /\ rx = [ring |-> EmptyRing, index |-> 0, done |-> FALSE]
  /\ reading = [asked |-> 0, got |-> <<>>]
  /\ tx = [ring |-> EmptyRing, active |-> FALSE, done |-> FALSE]
  /\ line \in [txe : BOOLEAN, tc : {FALSE}, sent : {<<>>}]
  /\ unsent = <<>>

-----------------------------------------------------------------------------
(* The completions rx_cpt and tx_cpt (completion.c) *)

\* rt_completion_wait without a timeout finds the flag unset.
Suspend(t, w) == k' = SuspendTimed([k EXCEPT !.err[t] = "EOK"], w, "FIFO", t, FALSE)

\* rt_completion_done in a handler, which leaves through rt_schedule.
Complete(done, w) ==
  k' = IF done \/ k.wait[w] = <<>> THEN k
       ELSE rt_schedule(rt_thread_resume(k, Head(k.wait[w])))

-----------------------------------------------------------------------------
(* Receiving: finsh_getchar and finsh_rx_ind *)

\* The first n bytes are copied out, with interrupts disabled.
GetBytes(n) ==
  /\ reading' = [reading EXCEPT !.got = First(rx.ring, n)]
  /\ rx' = [rx EXCEPT !.ring = Rest(@, n)]

\* rt_device_read of one byte
ShellRead ==
  /\ At(Shell, "run")
  /\ \/ DataLen(rx.ring) > 0 /\ GetBytes(1) /\ UNCHANGED pc
     \/ DataLen(rx.ring) = 0 /\ Goto(Shell, "nobyte") /\ UNCHANGED rxVars
  /\ UNCHANGED <<k, sem, txVars>>

\* rt_sem_take without a timeout, and back to the read.
ShellTake ==
  /\ \/ At(Shell, "nobyte") /\ TakeToken(Shell, FALSE)
     \/ TakeSchedule(Shell)
     \/ TakeReturn(Shell)
  /\ UNCHANGED serialVars

\* uart_isr and rt_hw_serial_isr: the byte is stored or dropped, the shell's
\* semaphore is released, unless it is at its maximum.
IsrByteForShell(c) ==
  /\ rx' = [rx EXCEPT !.ring = PutChar(@, c)]
  /\ \/ IsrRelease
     \/ k.wait["sem"] = <<>> /\ sem = ValueMax /\ UNCHANGED <<k, pc, sem>>
  /\ UNCHANGED <<reading, txVars>>

-----------------------------------------------------------------------------
(* Receiving: _serial_fifo_rx with RT_SERIAL_RX_BLOCKING *)

\* The read asks rt_ringbuffer_data_len with interrupts enabled.  The build does
\* not optimise: each of its tests loads the indices anew.
ReadCall(n) ==
  /\ At(Reader, "run")
  /\ reading' = [reading EXCEPT !.asked = n]
  /\ Goto(Reader, "index")
  /\ UNCHANGED <<k, rx>>

LookAtIndex ==
  /\ At(Reader, "index")
  /\ Goto(Reader, IF SameIndex(rx.ring) THEN "mirror" ELSE "length")
  /\ UNCHANGED <<k, rxVars>>

LookAtLength ==
  /\ \E len \in 0..BufSize :
       /\ \/ At(Reader, "mirror") /\ len = EmptyOrFull(rx.ring)
          \/ At(Reader, "length") /\ len = HalfFull(rx.ring)
       /\ Goto(Reader, IF len < reading.asked THEN "ask" ELSE "fetch")
  /\ UNCHANGED <<k, rxVars>>

Ask ==
  /\ At(Reader, "ask")
  /\ rx' = [rx EXCEPT !.index = reading.asked]
  /\ Goto(Reader, "await")
  /\ UNCHANGED <<k, reading>>

AwaitBytes ==
  /\ At(Reader, "await")
  /\ \/ rx.done /\ rx' = [rx EXCEPT !.done = FALSE] /\ Goto(Reader, "given") /\ UNCHANGED k
     \/ ~rx.done /\ Suspend(Reader, "rx_cpt") /\ Goto(Reader, "waiting") /\ UNCHANGED rx
  /\ UNCHANGED reading

AwaitedBytes ==
  \/ ScheduleThen(Reader, "waiting", "waited") /\ UNCHANGED rxVars
  \/ /\ At(Reader, "waited")
     /\ rx' = [rx EXCEPT !.done = FALSE]
     /\ Goto(Reader, "given")
     /\ UNCHANGED <<k, reading>>

\* rt_ringbuffer_get of what is there, up to the size asked for.
FetchBytes ==
  /\ At(Reader, "fetch") \/ At(Reader, "given")
  /\ LET len == DataLen(rx.ring)
         n == IF len < reading.asked THEN len ELSE reading.asked
     IN  IF n = 0 THEN UNCHANGED rxVars ELSE GetBytes(n)
  /\ Goto(Reader, "run")
  /\ UNCHANGED k

\* uart_isr and rt_hw_serial_isr: enough bytes complete the read.
IsrByteForReader(c) ==
  /\ LET ring == PutChar(rx.ring, c)
         enough == rx.index # 0 /\ DataLen(ring) >= rx.index
     IN  /\ rx' = [ring |-> ring, index |-> IF enough THEN 0 ELSE rx.index,
                   done |-> rx.done \/ enough]
         /\ IF enough THEN Complete(rx.done, "rx_cpt") ELSE UNCHANGED k
  /\ UNCHANGED <<pc, reading>>

-----------------------------------------------------------------------------
(* Sending: _serial_fifo_tx_nonblocking *)

\* With interrupts disabled: the bytes that fit go into the ring.
QueueBytes(t, s) ==
  /\ At(t, "run") /\ t \in Queuer
  /\ tx' = [tx EXCEPT !.ring = Put(@, s), !.active = TRUE]
  /\ Goto(t, IF tx.active THEN "run" ELSE "start")
  /\ UNCHANGED <<k, line, unsent>>

\* The thread that found the port idle starts it: stm32_transmit.
StartSending(t) ==
  /\ At(t, "start")
  /\ line' = [line EXCEPT !.txe = TRUE]
  /\ Goto(t, "run")
  /\ UNCHANGED <<k, tx, unsent>>

-----------------------------------------------------------------------------
(* Sending: _serial_fifo_tx_blocking_buf *)

WriteCall(s) ==
  /\ At(Writer, "run") /\ ~tx.active
  /\ tx' = [tx EXCEPT !.active = TRUE]
  /\ unsent' = s
  /\ Goto(Writer, "more")
  /\ UNCHANGED <<k, line>>

\* One turn of the loop: as much as fits.
FillRing ==
  /\ At(Writer, "more") /\ unsent # <<>>
  /\ tx' = [tx EXCEPT !.ring = Put(@, unsent)]
  /\ unsent' = SubSeq(unsent, Fits(tx.ring, unsent) + 1, Len(unsent))
  /\ Goto(Writer, "transmit")
  /\ UNCHANGED <<k, line>>

\* stm32_transmit
Transmit ==
  /\ At(Writer, "transmit")
  /\ line' = [line EXCEPT !.txe = TRUE]
  /\ Goto(Writer, "txawait")
  /\ UNCHANGED <<k, tx, unsent>>

\* rt_completion_wait
AwaitSent ==
  /\ At(Writer, "txawait")
  /\ \/ tx.done /\ tx' = [tx EXCEPT !.done = FALSE] /\ Goto(Writer, "more") /\ UNCHANGED k
     \/ ~tx.done /\ Suspend(Writer, "tx_cpt") /\ Goto(Writer, "txwaiting") /\ UNCHANGED tx
  /\ UNCHANGED <<line, unsent>>

AwaitedSent ==
  \/ ScheduleThen(Writer, "txwaiting", "txwaited") /\ UNCHANGED txVars
  \/ /\ At(Writer, "txwaited")
     /\ tx' = [tx EXCEPT !.done = FALSE]
     /\ Goto(Writer, "more")
     /\ UNCHANGED <<k, line, unsent>>

WriteReturn ==
  /\ At(Writer, "more") /\ unsent = <<>>
  /\ tx' = [tx EXCEPT !.active = FALSE]
  /\ Goto(Writer, "run")
  /\ UNCHANGED <<k, line, unsent>>

-----------------------------------------------------------------------------
(* Sending: uart_isr and rt_hw_serial_isr *)

\* The transmit data register is empty: the next byte, or wait for the last
\* one to leave the shift register.
IsrTxe ==
  /\ line.txe
  /\ \/ /\ DataLen(tx.ring) > 0
        /\ line' = [line EXCEPT !.sent = First(tx.ring, 1)]
        /\ tx' = [tx EXCEPT !.ring = RestChar(@)]
     \/ /\ DataLen(tx.ring) = 0
        /\ line' = [line EXCEPT !.txe = FALSE, !.tc = TRUE]
        /\ UNCHANGED tx
  /\ UNCHANGED <<k, pc, unsent>>

\* Mutant of IsrSent: what was queued since the last TXE is not looked at.
IsrSentBlind(blocking) ==
  /\ line.tc /\ ~line.txe
  /\ line' = [line EXCEPT !.tc = FALSE]
  /\ IF blocking THEN Complete(tx.done, "tx_cpt") /\ tx' = [tx EXCEPT !.done = TRUE]
                 ELSE tx' = [tx EXCEPT !.active = FALSE] /\ UNCHANGED k
  /\ UNCHANGED <<pc, unsent>>

\* The last byte has left: done, or on with what was queued meanwhile.  TXE is
\* looked at first, and is there whenever TC is.
IsrSent(blocking) ==
  /\ line.tc /\ ~line.txe
  /\ \/ /\ DataLen(tx.ring) > 0
        /\ line' = [line EXCEPT !.tc = FALSE, !.txe = TRUE]
        /\ UNCHANGED <<k, tx>>
     \/ /\ DataLen(tx.ring) = 0
        /\ line' = [line EXCEPT !.tc = FALSE]
        /\ IF blocking THEN Complete(tx.done, "tx_cpt") /\ tx' = [tx EXCEPT !.done = TRUE]
                       ELSE tx' = [tx EXCEPT !.active = FALSE] /\ UNCHANGED k
  /\ UNCHANGED <<pc, unsent>>

-----------------------------------------------------------------------------
(* The four uses *)

ShellNext == ShellRead \/ ShellTake \/ \E c \in Byte : IsrByteForShell(c)

ReaderNext ==
  /\ \/ \E n \in 1..BufSize : ReadCall(n)
     \/ LookAtIndex \/ LookAtLength \/ Ask \/ AwaitBytes \/ AwaitedBytes \/ FetchBytes
     \/ \E c \in Byte : IsrByteForReader(c)
  /\ UNCHANGED <<sem, txVars>>

QueuerNext ==
  /\ \/ \E t \in Queuer : StartSending(t) \/ \E s \in Text : QueueBytes(t, s)
     \/ IsrTxe \/ IsrSent(FALSE)
  /\ UNCHANGED <<sem, rxVars>>

WriterNext ==
  /\ \/ \E s \in Text : WriteCall(s)
     \/ FillRing \/ Transmit \/ AwaitSent \/ AwaitedSent \/ WriteReturn
     \/ IsrTxe \/ IsrSent(TRUE)
  /\ UNCHANGED <<sem, rxVars>>

-----------------------------------------------------------------------------
(* Properties *)

\* In either direction bytes come out as they went in, around the wrap of the
\* ring and with a handler between any two steps of a thread; a byte is dropped
\* only when the ring is full, and from a writer that waits not even then.
RxPipe == INSTANCE BytePipe WITH
            Chunk <- {<<c>> : c \in Byte}, Room <- BufSize,
            pipe <- Contents(rx.ring), out <- reading.got

TxPipe == INSTANCE BytePipe WITH
            Chunk <- Text, Room <- BufSize,
            pipe <- Contents(tx.ring) \o unsent, out <- line.sent

BytesKept == RxPipe!Spec /\ TxPipe!Spec
=============================================================================
