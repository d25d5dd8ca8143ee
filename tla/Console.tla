----------------------------- MODULE Console ------------------------------
(***************************************************************************)
(* The input side of xv6/kernel/console.c: processes in consoleread() and  *)
(* the interrupt handler consoleintr().  cons.r, cons.w and cons.e are     *)
(* counters that wrap at UIntWrap; the input buffer is a ring of           *)
(* INPUT_BUF_SIZE.  What the handler echoes is modelled in Uart.           *)
(***************************************************************************)
EXTENDS Naturals, Sequences, FiniteSets

CONSTANTS ConReaders,
          INPUT_BUF_SIZE,
          UIntWrap,    \* 2^32: a multiple of INPUT_BUF_SIZE
          KeySet,      \* what is typed: "a", "cr", "D", "U", "H", "P", "nul"
          FirstIndex,  \* where cons.r, cons.w and cons.e start
          MaxTyped, MaxReads, MaxBytes   \* bounds

ASSUME ConsoleAssumption ==
  /\ INPUT_BUF_SIZE \in Nat \ {0}
  /\ UIntWrap % INPUT_BUF_SIZE = 0 /\ UIntWrap > INPUT_BUF_SIZE

VARIABLES
  cbuf, cr, cw, ce,    \* cons.buf, cons.r, cons.w, cons.e
  conslock,            \* the reader that holds cons.lock, or Unheld
  cpc, cn, ctarget,    \* the readers: where, bytes left, bytes asked for
  cchan, ckilled,      \* p->chan = &cons.r, and p->killed
  typed, reads         \* what the bounds count

consVars == <<cbuf, cr, cw, ce>>
consoleVars == <<consVars, conslock, cpc, cn, ctarget, cchan, ckilled, typed, reads>>

Unheld == "unheld"

ConsoleInit ==
  /\ cbuf = [i \in 0..INPUT_BUF_SIZE - 1 |-> "nul"]
  /\ cr = FirstIndex /\ cw = FirstIndex /\ ce = FirstIndex
  /\ conslock = Unheld
  /\ cpc = [p \in ConReaders |-> "idle"]
  /\ cn = [p \in ConReaders |-> 0] /\ ctarget = [p \in ConReaders |-> 0]
  /\ cchan = [p \in ConReaders |-> FALSE]
  /\ ckilled = [p \in ConReaders |-> FALSE]
  /\ typed = 0 /\ reads = 0

Inc(i) == (i + 1) % UIntWrap
Gap(i, j) == (i + UIntWrap - j) % UIntWrap   \* i - j, as uints
ConGoto(p, l) == cpc' = [cpc EXCEPT ![p] = l]

---------------------------------------------------------------------------
(* consoleread() *)

ReadCall(p) ==
  /\ cpc[p] = "idle" /\ reads < MaxReads
  /\ reads' = reads + 1
  /\ \E n \in 1..MaxBytes : cn' = [cn EXCEPT ![p] = n] /\ ctarget' = [ctarget EXCEPT ![p] = n]
  /\ ConGoto(p, "lock")
  /\ UNCHANGED <<consVars, conslock, cchan, ckilled, typed>>

ReadLock(p) ==
  /\ cpc[p] = "lock" /\ conslock = Unheld
  /\ conslock' = p /\ ConGoto(p, "loop")
  /\ UNCHANGED <<consVars, cn, ctarget, cchan, ckilled, typed, reads>>

\* cons.r == cons.w: killed() returns -1, else sleep_prepare and release.
ReadEmpty(p) ==
  /\ cpc[p] = "loop" /\ cr = cw
  /\ conslock' = Unheld
  /\ IF ckilled[p] THEN ConGoto(p, "idle") /\ UNCHANGED cchan
                   ELSE ConGoto(p, "sleep") /\ cchan' = [cchan EXCEPT ![p] = TRUE]
  /\ UNCHANGED <<consVars, cn, ctarget, ckilled, typed, reads>>

\* One character; ^D ends the read and stays if something was read before.
\* fails: either_copyout does, after cons.r has moved.
ReadChar(p) ==
  /\ cpc[p] = "loop" /\ cr # cw
  /\ \E fails \in BOOLEAN :
       LET c == cbuf[cr % INPUT_BUF_SIZE]
           ends == c = "D" \/ fails \/ c = "nl" \/ cn[p] = 1 IN
         /\ cr' = IF c = "D" /\ cn[p] < ctarget[p] THEN cr ELSE Inc(cr)
         /\ cn' = IF c = "D" \/ fails THEN cn ELSE [cn EXCEPT ![p] = @ - 1]
         /\ conslock' = IF ends THEN Unheld ELSE p
         /\ ConGoto(p, IF ends THEN "idle" ELSE "loop")
  /\ UNCHANGED <<cbuf, cw, ce, ctarget, cchan, ckilled, typed, reads>>

\* sleep() returns once chan is 0.
ReadWoken(p) ==
  /\ cpc[p] = "sleep" /\ ~cchan[p]
  /\ ConGoto(p, "lock")
  /\ UNCHANGED <<consVars, conslock, cn, ctarget, cchan, ckilled, typed, reads>>

\* kkill(): also makes a sleeping process runnable, with chan as it was.
ReadKill(p) ==
  /\ ~ckilled[p] /\ cpc[p] # "idle"
  /\ ckilled' = [ckilled EXCEPT ![p] = TRUE]
  /\ ConGoto(p, IF cpc[p] = "sleep" THEN "lock" ELSE cpc[p])
  /\ UNCHANGED <<consVars, conslock, cn, ctarget, cchan, typed, reads>>

---------------------------------------------------------------------------
(* consoleintr(c): one step, under cons.lock *)

\* How many characters ^U erases: back to cons.w, or to a newline.
KillCount == CHOOSE k \in 0..Gap(ce, cw) :
               /\ k = Gap(ce, cw) \/ cbuf[(ce + UIntWrap - k - 1) % INPUT_BUF_SIZE] = "nl"
               /\ \A j \in 0..k - 1 : cbuf[(ce + UIntWrap - j - 1) % INPUT_BUF_SIZE] # "nl"

EraseBy(k) ==
  /\ ce' = (ce + UIntWrap - k) % UIntWrap
  /\ UNCHANGED <<cbuf, cw, cchan>>

\* A full buffer without a newline is not handed over.
StoreNoFull(c) ==
  LET k == IF c = "cr" THEN "nl" ELSE c IN
    /\ cbuf' = [cbuf EXCEPT ![ce % INPUT_BUF_SIZE] = k]
    /\ ce' = Inc(ce)
    /\ IF k \in {"nl", "D"} THEN cw' = Inc(ce) /\ cchan' = [p \in ConReaders |-> FALSE]
                            ELSE UNCHANGED <<cw, cchan>>

\* '\r' becomes '\n'; a whole line, ^D or a full buffer wakes the readers.
Store(c) ==
  LET k == IF c = "cr" THEN "nl" ELSE c IN
    /\ cbuf' = [cbuf EXCEPT ![ce % INPUT_BUF_SIZE] = k]
    /\ ce' = Inc(ce)
    /\ IF k \in {"nl", "D"} \/ Gap(Inc(ce), cr) = INPUT_BUF_SIZE
       THEN cw' = Inc(ce) /\ cchan' = [p \in ConReaders |-> FALSE]
       ELSE UNCHANGED <<cw, cchan>>

consoleintr(c) ==
  /\ conslock = Unheld /\ typed < MaxTyped
  /\ typed' = typed + 1
  /\ CASE c = "U" -> EraseBy(KillCount)
       [] c = "H" -> EraseBy(IF ce # cw THEN 1 ELSE 0)
       [] c \notin {"U", "H", "P", "nul"} /\ Gap(ce, cr) < INPUT_BUF_SIZE -> Store(c)
       [] OTHER -> UNCHANGED <<cbuf, cw, ce, cchan>>
  /\ UNCHANGED <<cr, conslock, cpc, cn, ctarget, ckilled, reads>>

---------------------------------------------------------------------------
ReadStep(p) == ReadLock(p) \/ ReadEmpty(p) \/ ReadChar(p) \/ ReadWoken(p)

ConsoleNext == \/ \E p \in ConReaders : ReadCall(p) \/ ReadStep(p) \/ ReadKill(p)
               \/ \E c \in KeySet : consoleintr(c)

ConsoleSpec == ConsoleInit /\ [][ConsoleNext]_consoleVars

\* Readers that can run do; nothing is assumed of who gets cons.lock first.
ConsoleFairness == \A p \in ConReaders : WF_consoleVars(ReadStep(p))

---------------------------------------------------------------------------
(* Properties *)

Chars(i, j) == [k \in 1..Gap(j, i) |-> cbuf[(i + k - 1) % INPUT_BUF_SIZE]]

\* The ring with its three wrapping counters behaves as a line editor: what a
\* read takes is what was typed, in order; erasing reaches only the
\* unfinished line; a full buffer is handed over (consoleintr, consoleread).
LineBuffer == INSTANCE LineInput WITH
  ready <- Chars(cr, cw), line <- Chars(cw, ce), Keys <- {"a", "nl", "D"},
  Enders <- {"nl", "D"}, Capacity <- INPUT_BUF_SIZE
EditsLines == LineBuffer!LineSpec

===========================================================================
