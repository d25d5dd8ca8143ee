------------------------------ MODULE Bcache ------------------------------
(***************************************************************************)
(* The buffer cache of xv6/kernel/bio.c with the sleep locks of            *)
(* xv6/kernel/sleeplock.c its buffers have.  bget, brelse and the pins are *)
(* sections under bcache.lock; acquiresleep waits with sleep_prepare and   *)
(* sleep.  virtio_disk_rw is one step here (see Virtio).  The log is what  *)
(* modifies buffers: log_write pins the ones it has modified, and          *)
(* installing a transaction writes them home and unpins them.              *)
(***************************************************************************)
EXTENDS Naturals, FiniteSets, Sequences

CONSTANTS BProcs,    \* processes
          Buf,       \* buffers: numbers, in the order of bcache.buf[]
          DiskBlock, \* block numbers
          Content,   \* contents of a block
          MaxBreads  \* bound: calls of bread() in all

NoBlock == "no block"
NoProcess == "no process"

ASSUME BcacheAssumption ==
  /\ NoBlock \notin DiskBlock
  /\ NoProcess \notin BProcs

VARIABLES
  blockno, valid, refcnt, bufdata,  \* fields of struct buf
  owner,     \* the process that holds b->lock, or NoProcess
  lru,       \* the linked list, head.next first
  platter,   \* contents of the disk
  bpinned,    \* buffers the log has bpinned
  bpc,       \* where each process is
  bno, bp,   \* the block it asked for and its buffer
  bchan,     \* p->chan: a buffer's lock, or 0
  breads,    \* calls of bread() so far
  bpanic     \* "bget: no buffers" was reached

bcacheVars == <<blockno, valid, refcnt, bufdata, owner, lru, platter, bpinned,
                bpc, bno, bp, bchan, breads, bpanic>>
bufVars == <<blockno, valid, bufdata>>
procVars == <<bno, bp, breads>>

\* binit(): each buffer is put in front of the previous one.
BcacheInit ==
  /\ blockno = [b \in Buf |-> NoBlock]
  /\ valid = [b \in Buf |-> FALSE]
  /\ refcnt = [b \in Buf |-> 0]
  /\ bufdata = [b \in Buf |-> CHOOSE v \in Content : TRUE]
  /\ owner = [b \in Buf |-> NoProcess]
  /\ lru = [i \in 1..Cardinality(Buf) |-> Cardinality(Buf) + 1 - i]
  /\ platter = [k \in DiskBlock |-> CHOOSE v \in Content : TRUE]
  /\ bpinned = {}
  /\ bpc = [p \in BProcs |-> "idle"]
  /\ bno = [p \in BProcs |-> NoBlock]
  /\ bp = [p \in BProcs |-> 0]
  /\ bchan = [p \in BProcs |-> 0]
  /\ breads = 0
  /\ bpanic = FALSE

BufGoto(p, l) == bpc' = [bpc EXCEPT ![p] = l]

Cached(k) == {b \in Buf : blockno[b] = k}

\* Buffers that bget may recycle, in list order.
BufUnused == SelectSeq(lru, LAMBDA b : refcnt[b] = 0)

\* bget(), the section under bcache.lock.
BgetHit(p, k) ==
  /\ bpc[p] = "idle" /\ breads < MaxBreads /\ Cached(k) # {}
  /\ \E b \in Cached(k) :
       /\ refcnt' = [refcnt EXCEPT ![b] = @ + 1]
       /\ bp' = [bp EXCEPT ![p] = b]
  /\ bno' = [bno EXCEPT ![p] = k]
  /\ breads' = breads + 1
  /\ BufGoto(p, "lock")
  /\ UNCHANGED <<bufVars, owner, lru, platter, bpinned, bchan, bpanic>>

BgetRecycle(p, k, b) ==
  /\ bpc[p] = "idle" /\ breads < MaxBreads /\ Cached(k) = {}
  /\ blockno' = [blockno EXCEPT ![b] = k]
  /\ valid' = [valid EXCEPT ![b] = FALSE]
  /\ refcnt' = [refcnt EXCEPT ![b] = 1]
  /\ bp' = [bp EXCEPT ![p] = b]
  /\ bno' = [bno EXCEPT ![p] = k]
  /\ breads' = breads + 1
  /\ BufGoto(p, "lock")
  /\ UNCHANGED <<bufdata, owner, lru, platter, bpinned, bchan, bpanic>>

BgetMiss(p, k) == BufUnused # <<>> /\ BgetRecycle(p, k, BufUnused[Len(BufUnused)])

BgetPanic(p, k) ==
  /\ bpc[p] = "idle" /\ breads < MaxBreads /\ Cached(k) = {} /\ BufUnused = <<>>
  /\ bpanic' = TRUE
  /\ UNCHANGED <<bufVars, refcnt, owner, lru, platter, bpinned, bpc, procVars, bchan>>

\* acquiresleep(), one turn of its loop under lk->lk.
AcquireSleep(p) ==
  /\ bpc[p] = "lock"
  /\ IF owner[bp[p]] = NoProcess
       THEN /\ owner' = [owner EXCEPT ![bp[p]] = p]
            /\ BufGoto(p, "fill")
            /\ UNCHANGED bchan
       ELSE /\ bchan' = [bchan EXCEPT ![p] = bp[p]]
            /\ BufGoto(p, "sleep")
            /\ UNCHANGED owner
  /\ UNCHANGED <<bufVars, refcnt, lru, platter, bpinned, procVars, bpanic>>

\* sleep() returns once the channel is clear, or when kkill() made p runnable.
BufSleep(p) ==
  /\ bpc[p] = "sleep"
  /\ BufGoto(p, IF bchan[p] = 0 THEN "lock" ELSE "asleep")
  /\ UNCHANGED <<bufVars, refcnt, owner, lru, platter, bpinned, procVars, bchan, bpanic>>

BufAwake(p) ==
  /\ bpc[p] = "asleep" /\ bchan[p] = 0
  /\ BufGoto(p, "lock")
  /\ UNCHANGED <<bufVars, refcnt, owner, lru, platter, bpinned, procVars, bchan, bpanic>>

BufKilled(p) ==
  /\ bpc[p] = "asleep"
  /\ BufGoto(p, "lock")
  /\ UNCHANGED <<bufVars, refcnt, owner, lru, platter, bpinned, procVars, bchan, bpanic>>

\* The rest of bread(): virtio_disk_rw(b, 0) unless the buffer is valid.
Fill(p) ==
  /\ bpc[p] = "fill"
  /\ bufdata' = [bufdata EXCEPT ![bp[p]] = IF valid[bp[p]] THEN @ ELSE platter[bno[p]]]
  /\ valid' = [valid EXCEPT ![bp[p]] = TRUE]
  /\ BufGoto(p, "held")
  /\ UNCHANGED <<blockno, refcnt, owner, lru, platter, bpinned, procVars, bchan, bpanic>>

\* log_write does not pin the buffer.
ModifyUnpinned(p) ==
  /\ bpc[p] = "held"
  /\ \E v \in Content : bufdata' = [bufdata EXCEPT ![bp[p]] = v]
  /\ UNCHANGED <<blockno, valid, refcnt, owner, lru, platter, bpinned, bpc, procVars, bchan, bpanic>>

\* b->data is modified, then log_write(b): bpin() unless it is in the log.
ModifyPinned(p) ==
  /\ bpc[p] = "held"
  /\ \E v \in Content : bufdata' = [bufdata EXCEPT ![bp[p]] = v]
  /\ bpinned' = bpinned \cup {bp[p]}
  /\ refcnt' = [refcnt EXCEPT ![bp[p]] = IF bp[p] \in bpinned THEN @ ELSE @ + 1]
  /\ UNCHANGED <<blockno, valid, owner, lru, platter, bpc, procVars, bchan, bpanic>>

\* install_trans(): bwrite(dbuf), then bunpin(dbuf).
WriteHome(p) ==
  /\ bpc[p] = "held" /\ bp[p] \in bpinned
  /\ platter' = [platter EXCEPT ![bno[p]] = bufdata[bp[p]]]
  /\ bpinned' = bpinned \ {bp[p]}
  /\ refcnt' = [refcnt EXCEPT ![bp[p]] = @ - 1]
  /\ UNCHANGED <<bufVars, owner, lru, bpc, procVars, bchan, bpanic>>

\* brelse(): releasesleep(), then the section under bcache.lock.
ReleaseSleepSilent(p) ==
  /\ bpc[p] = "held" /\ owner[bp[p]] = p
  /\ owner' = [owner EXCEPT ![bp[p]] = NoProcess]
  /\ BufGoto(p, "release")
  /\ UNCHANGED <<bufVars, refcnt, lru, platter, bpinned, procVars, bchan, bpanic>>

ReleaseSleep(p) ==
  /\ bpc[p] = "held" /\ owner[bp[p]] = p
  /\ owner' = [owner EXCEPT ![bp[p]] = NoProcess]
  /\ bchan' = [q \in BProcs |-> IF bchan[q] = bp[p] THEN 0 ELSE bchan[q]]
  /\ BufGoto(p, "release")
  /\ UNCHANGED <<bufVars, refcnt, lru, platter, bpinned, procVars, bpanic>>

BrelseKeep(p) ==
  /\ bpc[p] = "release"
  /\ BufGoto(p, "idle")
  /\ UNCHANGED <<bufVars, refcnt, owner, lru, platter, bpinned, procVars, bchan, bpanic>>

Brelse(p) ==
  /\ bpc[p] = "release"
  /\ refcnt' = [refcnt EXCEPT ![bp[p]] = @ - 1]
  /\ lru' = IF refcnt[bp[p]] = 1 THEN <<bp[p]>> \o SelectSeq(lru, LAMBDA b : b # bp[p])
                                 ELSE lru
  /\ bp' = [bp EXCEPT ![p] = 0]
  /\ bno' = [bno EXCEPT ![p] = NoBlock]
  /\ BufGoto(p, "idle")
  /\ UNCHANGED <<bufVars, owner, platter, bpinned, breads, bchan, bpanic>>

BufStep(p) == \/ AcquireSleep(p) \/ BufSleep(p) \/ BufAwake(p) \/ Fill(p)
              \/ ReleaseSleep(p) \/ Brelse(p)

\* A panic stops the machine.
BcacheNext ==
  ~bpanic /\ \E p \in BProcs :
    \/ \E k \in DiskBlock : BgetHit(p, k) \/ BgetMiss(p, k) \/ BgetPanic(p, k)
    \/ BufStep(p) \/ BufKilled(p) \/ ModifyPinned(p) \/ WriteHome(p)

BcacheSpec == BcacheInit /\ [][BcacheNext]_bcacheVars

\* A process that can run, runs, and brelse() ends every use of a buffer.
BcacheFairness == \A p \in BProcs : WF_bcacheVars(BufStep(p))

---------------------------------------------------------------------------
(* Properties *)

\* A process from bget() to brelse(), and the buffer it then refers to.
InUse(p) == bpc[p] # "idle"

\* refcnt counts the users and the log's pin, and the list stays a list of
\* all buffers, so that a buffer is recycled exactly when nobody needs it.
RefcntExact ==
  /\ \A b \in Buf : refcnt[b] = Cardinality({p \in BProcs : InUse(p) /\ bp[p] = b})
                                + (IF b \in bpinned THEN 1 ELSE 0)
  /\ {lru[i] : i \in 1..Len(lru)} = Buf /\ Len(lru) = Cardinality(Buf)

\* What a reader of block k sees next.
BlockView(k) == IF \E b \in Cached(k) : valid[b]
             THEN bufdata[CHOOSE b \in Cached(k) : valid[b]] ELSE platter[k]

\* What bread() returns for a block changes only when a process that holds its
\* buffer modifies it: no recycling, filling or writing home loses an update.
ViewChangedByHolder ==
  [][\A k \in DiskBlock : BlockView(k)' # BlockView(k) =>
       \E p \in BProcs : bpc[p] = "held" /\ bno[p] = k /\ bpc'[p] = "held"]_bcacheVars

\* A process that asked for a block gets its buffer: no wakeup of releasesleep
\* is lost while it waits for the buffer's lock.
WaiterGetsBuffer == \A p \in BProcs : []<>(bpc[p] \in {"idle", "held"})
===========================================================================
