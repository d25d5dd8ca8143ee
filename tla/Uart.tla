------------------------------- MODULE Uart -------------------------------
(***************************************************************************)
(* xv6/kernel/uart.c and the output side of console.c: processes in        *)
(* consolewrite()/uartwrite(), the handler uartintr() that echoes input    *)
(* with uartputc_sync(), and the UART itself.  Output is counted in bytes. *)
(***************************************************************************)
EXTENDS Naturals

CONSTANTS ConWriters,
          OUTBATCH,    \* sizeof(buf) in consolewrite
          MaxInput, MaxWrites, MaxOut   \* bounds

VARIABLES
  upc, un, unn,        \* the writers: where, bytes left, left of this batch
  uchan,               \* p->chan = &tx_chan
  txlock,              \* the writer that holds tx_lock, or NoWriter
  tx, txint,           \* UART: bytes being sent, "sent" interrupt raised
  rx,                  \* UART: characters waiting
  hpc, echo,           \* the handler: where, bytes consoleintr still echoes
  inputs, writes       \* what the bounds count

writerVars == <<upc, un, unn, uchan, txlock>>
uartVars == <<writerVars, tx, txint, rx, hpc, echo, inputs, writes>>

NoWriter == "nowriter"

UartInit ==
  /\ upc = [p \in ConWriters |-> "idle"]
  /\ un = [p \in ConWriters |-> 0] /\ unn = [p \in ConWriters |-> 0]
  /\ uchan = [p \in ConWriters |-> FALSE]
  /\ txlock = NoWriter
  /\ tx = 0 /\ txint = FALSE /\ rx = 0
  /\ hpc = "idle" /\ echo = 0
  /\ inputs = 0 /\ writes = 0

UartGoto(p, l) == upc' = [upc EXCEPT ![p] = l]

---------------------------------------------------------------------------
(* consolewrite() and uartwrite() *)

WriteCall(p) ==
  /\ upc[p] = "idle" /\ writes < MaxWrites
  /\ writes' = writes + 1
  /\ \E n \in 1..MaxOut : un' = [un EXCEPT ![p] = n]
  /\ UartGoto(p, "copy")
  /\ UNCHANGED <<unn, uchan, txlock, tx, txint, rx, hpc, echo, inputs>>

\* The next batch: at most sizeof(buf); either_copyin may fail.
WriteBatch(p) ==
  /\ upc[p] = "copy"
  /\ \/ /\ un[p] > 0
        /\ unn' = [unn EXCEPT ![p] = IF un[p] < OUTBATCH THEN un[p] ELSE OUTBATCH]
        /\ UartGoto(p, "acquire") /\ UNCHANGED un
     \/ UartGoto(p, "idle") /\ un' = [un EXCEPT ![p] = 0] /\ UNCHANGED unn
  /\ UNCHANGED <<uchan, txlock, tx, txint, rx, hpc, echo, inputs, writes>>

\* acquiresleep(&tx_lock); sleeplock.c is modelled in Bcache.
WriteAcquire(p) ==
  /\ upc[p] = "acquire" /\ txlock = NoWriter
  /\ txlock' = p /\ UartGoto(p, "prepare")
  /\ UNCHANGED <<un, unn, uchan, tx, txint, rx, hpc, echo, inputs, writes>>

WritePrepare(p) ==
  /\ upc[p] = "prepare"
  /\ uchan' = [uchan EXCEPT ![p] = TRUE] /\ UartGoto(p, "check")
  /\ UNCHANGED <<un, unn, txlock, tx, txint, rx, hpc, echo, inputs, writes>>

\* The channel is registered only after the UART was seen busy.
WriteCheckLate(p) ==
  /\ \/ /\ upc[p] = "check" /\ UartGoto(p, IF tx = 0 THEN "put" ELSE "register")
        /\ uchan' = [uchan EXCEPT ![p] = FALSE]
     \/ upc[p] = "register" /\ UartGoto(p, "sleep") /\ uchan' = [uchan EXCEPT ![p] = TRUE]
  /\ UNCHANGED <<un, unn, txlock, tx, txint, rx, hpc, echo, inputs, writes>>

\* LSR_TX_IDLE?
WriteCheck(p) ==
  /\ upc[p] = "check" /\ UartGoto(p, IF tx = 0 THEN "put" ELSE "sleep")
  /\ UNCHANGED <<un, unn, uchan, txlock, tx, txint, rx, hpc, echo, inputs, writes>>

\* WriteReg(THR, buf[i]); after the last byte of the batch releasesleep.
WritePut(p) ==
  /\ upc[p] = "put"
  /\ tx' = tx + 1
  /\ un' = [un EXCEPT ![p] = @ - 1]
  /\ unn' = [unn EXCEPT ![p] = @ - 1]
  /\ IF unn[p] = 1 THEN UartGoto(p, "copy") /\ txlock' = NoWriter
                   ELSE UartGoto(p, "prepare") /\ UNCHANGED txlock
  /\ UNCHANGED <<uchan, txint, rx, hpc, echo, inputs, writes>>

\* sleep() returns once chan is 0, or when a kill makes the process runnable.
WriteWoken(p) ==
  /\ upc[p] = "sleep" /\ ~uchan[p] /\ UartGoto(p, "prepare")
  /\ UNCHANGED <<un, unn, uchan, txlock, tx, txint, rx, hpc, echo, inputs, writes>>

WriteKilled(p) ==
  /\ upc[p] = "sleep" /\ uchan[p] /\ UartGoto(p, "prepare")
  /\ UNCHANGED <<un, unn, uchan, txlock, tx, txint, rx, hpc, echo, inputs, writes>>

---------------------------------------------------------------------------
(* The UART (external) and its interrupt handler *)

Typed ==
  /\ inputs < MaxInput /\ inputs' = inputs + 1
  /\ rx' = rx + 1
  /\ UNCHANGED <<writerVars, tx, txint, hpc, echo, writes>>

\* The transmitter runs empty: an interrupt.
Sent ==
  /\ tx > 0 /\ tx' = tx - 1
  /\ txint' = (txint \/ tx = 1)
  /\ UNCHANGED <<writerVars, rx, hpc, echo, inputs, writes>>

\* ReadReg(ISR): acknowledges.
IntrAck ==
  /\ hpc = "idle" /\ (txint \/ rx > 0)
  /\ txint' = FALSE /\ hpc' = "tx"
  /\ UNCHANGED <<writerVars, tx, rx, echo, inputs, writes>>

IntrTx ==
  /\ hpc = "tx" /\ hpc' = "getc"
  /\ uchan' = IF tx = 0 THEN [p \in ConWriters |-> FALSE] ELSE uchan
  /\ UNCHANGED <<upc, un, unn, txlock, tx, txint, rx, echo, inputs, writes>>

\* uartgetc(), and what consoleintr echoes: nothing, a character, or the
\* three bytes of an erased one.
IntrGetc ==
  /\ hpc = "getc"
  /\ IF rx = 0 THEN hpc' = "idle" /\ UNCHANGED <<rx, echo>>
               ELSE hpc' = "echo" /\ rx' = rx - 1 /\ echo' \in {0, 1, 3}
  /\ UNCHANGED <<writerVars, tx, txint, inputs, writes>>

\* uartputc_sync(): spins for an idle UART, then (a step later) stores.
EchoSpin ==
  /\ hpc = "echo" /\ (echo > 0 => tx = 0)
  /\ hpc' = IF echo = 0 THEN "getc" ELSE "put"
  /\ UNCHANGED <<writerVars, tx, txint, rx, echo, inputs, writes>>

EchoPut ==
  /\ hpc = "put" /\ hpc' = "echo"
  /\ tx' = tx + 1 /\ echo' = echo - 1
  /\ UNCHANGED <<writerVars, txint, rx, inputs, writes>>

---------------------------------------------------------------------------
WriteStep(p) == \/ WriteBatch(p) \/ WriteAcquire(p) \/ WritePrepare(p)
                \/ WriteCheck(p) \/ WritePut(p) \/ WriteWoken(p)

UartIntrStep == IntrAck \/ IntrTx \/ IntrGetc \/ EchoSpin \/ EchoPut

UartNext == \/ \E p \in ConWriters : WriteCall(p) \/ WriteStep(p) \/ WriteKilled(p)
            \/ Typed \/ Sent \/ UartIntrStep

UartSpec == UartInit /\ [][UartNext]_uartVars

\* Processes and the handler run; the UART sends what it was given.
UartFairness ==
  /\ \A p \in ConWriters : WF_uartVars(WriteStep(p))
  /\ WF_uartVars(UartIntrStep) /\ WF_uartVars(Sent)

---------------------------------------------------------------------------
(* Properties *)

\* Every consolewrite() returns: sleep_prepare before the test of LSR_TX_IDLE
\* keeps the interrupt that falls between the test and sleep(), even when an
\* echo makes the transmitter busy again before the handler looks.
WriteReturns == \A p \in ConWriters : []<>(upc[p] = "idle")
===========================================================================
