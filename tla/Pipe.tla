------------------------------- MODULE Pipe -------------------------------
(***************************************************************************)
(* pipewrite, piperead and pipeclose of xv6/kernel/pipe.c, between the     *)
(* processes that hold the two ends.  pi->lock is a variable: the bytes of *)
(* one call are copied one per step under it, so that a kill, which takes  *)
(* only p->lock, can fall between two of them.  nread and nwrite are       *)
(* unsigned and wrap at UIntMod (2^32 in the code).                        *)
(***************************************************************************)
EXTENDS Naturals, Sequences

CONSTANTS Readers, Writers,  \* processes that hold the read and the write end
          Byte,              \* contents of a byte
          PIPESIZE,
          UIntMod,
          Counts,            \* bound: the n of a read or a write
          MaxCalls           \* bound: calls made in all

NoOne == "no one"
PipeProcs == Readers \cup Writers

ASSUME PipeAssumption ==
  /\ PIPESIZE \in Nat \ {0}
  /\ UIntMod \in Nat \ {0}
  /\ UIntMod % PIPESIZE = 0
  /\ UIntMod > PIPESIZE
  /\ Counts \subseteq Nat
  /\ MaxCalls \in Nat
  /\ Readers \cap Writers = {}
  /\ NoOne \notin PipeProcs

VARIABLES
  data, nread, nwrite, readopen, writeopen,   \* struct pipe
  pilock,    \* the process that holds pi->lock, or NoOne
  ppc,       \* where each process is in its call
  count,     \* n of the call
  copied,    \* i of the call
  pchan,     \* p->chan: "nread", "nwrite" or "none"
  pkilled,   \* p->killed
  calls      \* calls made so far

pipeVars == <<data, nread, nwrite, readopen, writeopen, pilock, ppc, count,
              copied, pchan, pkilled, calls>>
fieldVars == <<data, nread, nwrite, readopen, writeopen>>

PipeInit ==
  /\ data \in [0..PIPESIZE - 1 -> {CHOOSE b \in Byte : TRUE}]
  /\ nread = 0 /\ nwrite = 0
  /\ readopen = TRUE /\ writeopen = TRUE
  /\ pilock = NoOne
  /\ ppc = [p \in PipeProcs |-> "idle"]
  /\ count = [p \in PipeProcs |-> 0]
  /\ copied = [p \in PipeProcs |-> 0]
  /\ pchan = [p \in PipeProcs |-> "none"]
  /\ pkilled = [p \in PipeProcs |-> FALSE]
  /\ calls = 0

Full == nwrite = (nread + PIPESIZE) % UIntMod

Empty == nread = nwrite

PipeGoto(p, l) == ppc' = [ppc EXCEPT ![p] = l]

\* wakeup(c): whoever is registered on c is released; who already sleeps runs.
PipeWakeup(c) == pchan' = [q \in PipeProcs |-> IF pchan[q] = c THEN "none" ELSE pchan[q]]

ReleasePi(p) == pilock = p /\ pilock' = NoOne

\* release(&pi->lock) and return: the locals of the call are gone.
PipeReturn(p) ==
  /\ ReleasePi(p)
  /\ PipeGoto(p, "idle")
  /\ count' = [count EXCEPT ![p] = 0]
  /\ copied' = [copied EXCEPT ![p] = 0]

\* A call: sys_read or sys_write on an end that is open, by its holder.  A
\* killed process makes no further call: usertrap() exits it.
PipeCall(p) ==
  /\ ppc[p] = "idle" /\ ~pkilled[p] /\ calls < MaxCalls
  /\ IF p \in Readers THEN readopen ELSE writeopen
  /\ calls' = calls + 1
  /\ \E n \in Counts : count' = [count EXCEPT ![p] = n]
  /\ PipeGoto(p, "acquire")
  /\ UNCHANGED <<fieldVars, pilock, copied, pchan, pkilled>>

AcquirePi(p) ==
  /\ ppc[p] = "acquire" /\ pilock = NoOne
  /\ pilock' = p
  /\ PipeGoto(p, IF p \in Readers THEN "wait" ELSE "write")
  /\ UNCHANGED <<fieldVars, count, copied, pchan, pkilled, calls>>

\* sleep(): returns at once if the channel was woken since sleep_prepare.
PipeSleep(p) ==
  /\ ppc[p] = "sleep"
  /\ PipeGoto(p, IF pchan[p] = "none" THEN "acquire" ELSE "asleep")
  /\ UNCHANGED <<fieldVars, pilock, count, copied, pchan, pkilled, calls>>

PipeAwake(p) ==
  /\ ppc[p] = "asleep" /\ (pchan[p] = "none" \/ pkilled[p])
  /\ PipeGoto(p, "acquire")
  /\ UNCHANGED <<fieldVars, pilock, count, copied, pchan, pkilled, calls>>

\* release and sleep, after sleep_prepare under the same lock.
PipeRelease(p) ==
  /\ ReleasePi(p)
  /\ PipeGoto(p, "sleep")
  /\ UNCHANGED <<fieldVars, count, copied, pkilled, calls>>

---------------------------------------------------------------------------
(* pipewrite *)

\* pi->readopen == 0 || killed(pr): the call gives up, without a wakeup.
WriteFails(w) ==
  /\ ppc[w] = "write" /\ copied[w] < count[w]
  /\ ~readopen \/ pkilled[w]
  /\ PipeReturn(w)
  /\ UNCHANGED <<fieldVars, pchan, pkilled, calls>>

Writable(w) ==
  /\ ppc[w] = "write" /\ copied[w] < count[w]
  /\ readopen /\ ~pkilled[w]

\* The readers are not told that there are bytes.
WriteFullNoWakeup(w) ==
  /\ Writable(w) /\ Full
  /\ pchan' = [pchan EXCEPT ![w] = "nwrite"]
  /\ PipeRelease(w)

WriteFull(w) ==
  /\ Writable(w) /\ Full
  /\ pchan' = [q \in PipeProcs |-> IF q = w THEN "nwrite"
                                   ELSE IF pchan[q] = "nread" THEN "none" ELSE pchan[q]]
  /\ PipeRelease(w)

\* One byte more than the pipe has room for.
PutByteOver(w) ==
  /\ Writable(w) /\ nwrite # (nread + PIPESIZE + 1) % UIntMod
  /\ \E b \in Byte : data' = [data EXCEPT ![nwrite % PIPESIZE] = b]
  /\ nwrite' = (nwrite + 1) % UIntMod
  /\ copied' = [copied EXCEPT ![w] = @ + 1]
  /\ UNCHANGED <<nread, readopen, writeopen, pilock, ppc, count, pchan, pkilled, calls>>

PutByte(w) ==
  /\ Writable(w) /\ ~Full
  /\ \E b \in Byte : data' = [data EXCEPT ![nwrite % PIPESIZE] = b]
  /\ nwrite' = (nwrite + 1) % UIntMod
  /\ copied' = [copied EXCEPT ![w] = @ + 1]
  /\ UNCHANGED <<nread, readopen, writeopen, pilock, ppc, count, pchan, pkilled, calls>>

\* The end of the loop, by the count or by a copyin that failed.
WriteDone(w) ==
  /\ ppc[w] = "write"
  /\ copied[w] = count[w] \/ (Writable(w) /\ ~Full)
  /\ PipeWakeup("nread")
  /\ PipeReturn(w)
  /\ UNCHANGED <<fieldVars, pkilled, calls>>

---------------------------------------------------------------------------
(* piperead *)

ReadWaits(r) == ppc[r] = "wait" /\ Empty /\ writeopen

ReadKilled(r) ==
  /\ ReadWaits(r) /\ pkilled[r]
  /\ PipeReturn(r)
  /\ UNCHANGED <<fieldVars, pchan, pkilled, calls>>

ReadPrepare(r) ==
  /\ ReadWaits(r) /\ ~pkilled[r]
  /\ pchan' = [pchan EXCEPT ![r] = "nread"]
  /\ PipeRelease(r)

ReadReady(r) ==
  /\ ppc[r] = "wait" /\ ~(Empty /\ writeopen)
  /\ PipeGoto(r, "copy")
  /\ UNCHANGED <<fieldVars, pilock, count, copied, pchan, pkilled, calls>>

GetByte(r) ==
  /\ ppc[r] = "copy" /\ copied[r] < count[r] /\ ~Empty
  /\ nread' = (nread + 1) % UIntMod
  /\ copied' = [copied EXCEPT ![r] = @ + 1]
  /\ UNCHANGED <<data, nwrite, readopen, writeopen, pilock, ppc, count, pchan, pkilled, calls>>

\* The end of the loop: the count, an empty pipe, or a copyout that failed
\* (the byte then stays in the pipe).
ReadDone(r) ==
  /\ ppc[r] = "copy"
  /\ PipeWakeup("nwrite")
  /\ PipeReturn(r)
  /\ UNCHANGED <<fieldVars, pkilled, calls>>

---------------------------------------------------------------------------
(* The ends are closed by the last fileclose(): no holder is in a call. *)

CloseWrite ==
  /\ writeopen /\ pilock = NoOne
  /\ \A w \in Writers : ppc[w] = "idle"
  /\ writeopen' = FALSE
  /\ PipeWakeup("nread")
  /\ UNCHANGED <<data, nread, nwrite, readopen, pilock, ppc, count, copied, pkilled, calls>>

CloseRead ==
  /\ readopen /\ pilock = NoOne
  /\ \A r \in Readers : ppc[r] = "idle"
  /\ readopen' = FALSE
  /\ PipeWakeup("nwrite")
  /\ UNCHANGED <<data, nread, nwrite, writeopen, pilock, ppc, count, copied, pkilled, calls>>

\* kkill(): marks the process; a process that sleeps is made runnable.
PipeKill(p) ==
  /\ ~pkilled[p]
  /\ pkilled' = [pkilled EXCEPT ![p] = TRUE]
  /\ UNCHANGED <<fieldVars, pilock, ppc, count, copied, pchan, calls>>

WriterStep(w) == \/ WriteFails(w) \/ WriteFull(w) \/ PutByte(w) \/ WriteDone(w)

ReaderStep(r) == \/ ReadKilled(r) \/ ReadPrepare(r) \/ ReadReady(r) \/ GetByte(r) \/ ReadDone(r)

PipeStep(p) == \/ AcquirePi(p) \/ PipeSleep(p) \/ PipeAwake(p)
               \/ p \in Writers /\ WriterStep(p)
               \/ p \in Readers /\ ReaderStep(p)

PipeNext ==
  \/ \E p \in PipeProcs : PipeCall(p) \/ PipeStep(p) \/ PipeKill(p)
  \/ CloseWrite \/ CloseRead

PipeSpec == PipeInit /\ [][PipeNext]_pipeVars

\* A process that can run, runs: the scheduler is fair to it, and a spinlock
\* whose holders are finitely many is got in the end.
PipeFairness == \A p \in PipeProcs : WF_pipeVars(PipeStep(p))

---------------------------------------------------------------------------
(* Properties *)

\* No wakeup is lost (the sleep_prepare / wakeup pairs of pipewrite, piperead
\* and pipeclose): while pi->lock is free, no reader is registered on a pipe
\* that has bytes or no writer left, and no writer on one that has room or no
\* reader left.  A writer that was killed between two bytes is excepted:
\* pipewrite then returns without wakeup(&pi->nread).
PipeNoLostWakeup ==
  pilock = NoOne =>
    \A p \in PipeProcs :
      /\ pchan[p] = "nread" => (Empty \/ \E w \in Writers : pkilled[w]) /\ writeopen
      /\ pchan[p] = "nwrite" => Full /\ readopen

\* Bytes leave a pipe in the order they entered, none twice, none lost and
\* never more than PIPESIZE of them in flight, across the wrap of both
\* counters (the ring buffer of pipewrite and piperead).
InFlight == (nwrite + UIntMod - nread) % UIntMod

Stream == INSTANCE ByteStream WITH
            Capacity <- PIPESIZE,
            stream <- [k \in 1..InFlight |-> data[(nread + k - 1) % PIPESIZE]],
            readable <- readopen,
            writable <- writeopen

PipeIsStream == Stream!StreamSpec

===========================================================================
