-------------------------------- MODULE Log --------------------------------
(***************************************************************************)
(* The write-ahead log of xv6 (xv6/kernel/log.c): begin_op, log_write,     *)
(* end_op with the commit it runs, sys_sync, and recovery after a crash at *)
(* any disk write.  A block's contents are one value, a disk write is      *)
(* atomic (one sector), and the buffer cache appears as what bread()       *)
(* returns: a pinned buffer keeps the cached contents, an unpinned one may *)
(* have been recycled and read again from its home location.               *)
(*                                                                         *)
(* Each critical section of log.lock is one step.  sleep_prepare(&log)     *)
(* is called with log.lock held and wakeup(&log) clears the channel, so    *)
(* checking the condition and going to sleep are one step too.             *)
(***************************************************************************)
EXTENDS Integers, Sequences, FiniteSets

CONSTANTS Proc,         \* processes that make file system calls
          Block,        \* block numbers outside the log
          Val,          \* contents of a block
          Zero,         \* contents of a log block as mkfs writes it
          LOGBLOCKS,    \* blocks in the on-disk log
          MAXOPBLOCKS,  \* log space begin_op reserves for one operation
          OpBlocks,     \* distinct blocks one operation really modifies
          MaxOps        \* bound: operations started between two boots

ASSUME LogAssumption ==
  /\ IsFiniteSet(Proc)
  /\ Zero \in Val
  /\ LOGBLOCKS \in Nat \ {0}
  /\ MAXOPBLOCKS \in 1..LOGBLOCKS
  /\ OpBlocks \in 1..MAXOPBLOCKS
  /\ MaxOps \in Nat

VARIABLES
  \* on disk
  home,         \* home[b]: contents of block b at its home location
  dlog,         \* dlog[i]: contents of the i-th log block
  dhead,        \* block numbers in the header block, <<>> when lh->n is 0
  \* in memory
  cache,        \* cache[b]: contents of b's buffer
  pinned,       \* blocks whose buffer bpin() holds
  lh,           \* log.lh.block[0..n-1]
  outstanding,  \* log.outstanding
  committing,   \* log.committing
  ncommit,      \* log.ncommit
  pc,           \* where each process is
  target,       \* sys_sync's n
  opset,        \* blocks the current operation of each process has modified
  phase, tail,  \* where commit() or recover_from_log() is
  \* history
  started,      \* operations begun since boot
  ended,        \* operations that have called end_op since boot
  durable,      \* how many of them the last commit point covered
  owed          \* value of ended when each sys_sync was called

diskvars == <<home, dlog, dhead>>
procvars == <<pc, target, opset, owed>>
countvars == <<started, ended, durable>>
vars == <<home, dlog, dhead, cache, pinned, lh, outstanding, committing,
          ncommit, pc, target, opset, phase, tail, started, ended, durable,
          owed>>

Elems(s) == {s[i] : i \in 1..Len(s)}

PCs == {"idle", "begin", "asleep", "op", "commit", "sync", "syncasleep"}
Phases == {"none", "write_log", "write_head", "install", "clear", "done",
           "read_head", "r_install", "r_clear", "panic"}
Booting == phase \in {"read_head", "r_install", "r_clear"}

\* The contents each block has once recovery has run on the present disk.
Recovered ==
  [b \in Block |->
     IF b \in Elems(dhead)
       THEN dlog[CHOOSE i \in 1..Len(dhead) : dhead[i] = b]
       ELSE home[b]]

Init ==
  /\ home \in [Block -> Val]
  /\ dlog = [i \in 1..LOGBLOCKS |-> Zero]
  /\ dhead = <<>>
  /\ cache = home
  /\ pinned = {}
  /\ lh = <<>>
  /\ outstanding = 0
  /\ committing = 0
  /\ ncommit = 0
  /\ pc = [p \in Proc |-> "idle"]
  /\ target = [p \in Proc |-> 0]
  /\ opset = [p \in Proc |-> {}]
  /\ phase = "none"
  /\ tail = 1
  /\ started = 0
  /\ ended = 0
  /\ durable = 0
  /\ owed = [p \in Proc |-> 0]

----------------------------------------------------------------------------
\* Reading a block: only a pinned buffer is certain to be the cached one.
Bread(b) == IF b \in pinned THEN {cache[b]} ELSE {cache[b], home[b]}

WakeupNobody(pcs) == pcs

\* wakeup(&log): every process asleep on the channel checks again.
WakeupLog(pcs) ==
  [p \in Proc |-> CASE pcs[p] = "asleep" -> "begin"
                    [] pcs[p] = "syncasleep" -> "sync"
                    [] OTHER -> pcs[p]]

NoSpaceLast == Len(lh) + outstanding * MAXOPBLOCKS > LOGBLOCKS

\* This operation might exhaust the log, given what is reserved already.
NoSpace == Len(lh) + (outstanding + 1) * MAXOPBLOCKS > LOGBLOCKS

\* begin_op(), first call or after a wakeup.
BeginOp(p) ==
  /\ ~Booting
  /\ \/ pc[p] = "idle" /\ started < MaxOps /\ started' = started + 1
     \/ pc[p] = "begin" /\ UNCHANGED started
  /\ IF committing = 1 \/ NoSpace
       THEN /\ pc' = [pc EXCEPT ![p] = "asleep"]
            /\ UNCHANGED <<outstanding, opset>>
       ELSE /\ pc' = [pc EXCEPT ![p] = "op"]
            /\ outstanding' = outstanding + 1
            /\ opset' = [opset EXCEPT ![p] = {}]
  /\ UNCHANGED <<diskvars, cache, pinned, lh, committing, ncommit, target,
                 phase, tail, ended, durable, owed>>

\* bpin(): the buffer of b stays in the cache until bunpin().
Pin(b) == pinned' = pinned \cup {b}

\* Modify the buffer of b and log_write() it.
LogWrite(p, b, v) ==
  /\ pc[p] = "op"
  /\ Cardinality(opset[p] \cup {b}) <= OpBlocks
  /\ opset' = [opset EXCEPT ![p] = @ \cup {b}]
  /\ cache' = [cache EXCEPT ![b] = v]
  /\ IF Len(lh) >= LOGBLOCKS \/ outstanding < 1
       THEN phase' = "panic" /\ UNCHANGED <<lh, pinned>>
       ELSE /\ UNCHANGED phase
            /\ IF b \in Elems(lh)
                 THEN UNCHANGED <<lh, pinned>>
                 ELSE lh' = Append(lh, b) /\ Pin(b)
  /\ UNCHANGED <<diskvars, outstanding, committing, ncommit, pc, target, tail,
                 countvars, owed>>

CommitStartHeadFirst == IF Len(lh) > 0 THEN "write_head" ELSE "done"

\* The first thing commit() does.
CommitStart == IF Len(lh) > 0 THEN "write_log" ELSE "done"

\* end_op() commits when no other operation is outstanding.
LastOp == outstanding = 1

\* end_op() up to the release of log.lock before commit().
EndOp(p) ==
  /\ pc[p] = "op"
  /\ outstanding' = outstanding - 1
  /\ ended' = ended + 1
  /\ IF committing = 1
       THEN /\ phase' = "panic"
            /\ UNCHANGED <<committing, pc, tail, durable>>
       ELSE IF LastOp
       THEN /\ committing' = 1
            /\ pc' = [pc EXCEPT ![p] = "commit"]
            /\ phase' = CommitStart
            /\ tail' = 1
            /\ durable' = IF lh = <<>> THEN ended' ELSE durable
       ELSE /\ pc' = WakeupLog([pc EXCEPT ![p] = "idle"])
            /\ UNCHANGED <<committing, phase, tail, durable>>
  /\ UNCHANGED <<diskvars, cache, pinned, lh, ncommit, target, opset, started,
                 owed>>

\* One iteration of write_log(): copy a logged block to its log block.
WriteLog ==
  /\ phase = "write_log"
  /\ \E v \in Bread(lh[tail]) : dlog' = [dlog EXCEPT ![tail] = v]
  /\ IF tail = Len(lh)
       THEN phase' = "write_head" /\ UNCHANGED tail
       ELSE tail' = tail + 1 /\ UNCHANGED phase
  /\ UNCHANGED <<home, dhead, cache, pinned, lh, outstanding, committing,
                 ncommit, procvars, countvars>>

\* write_head() with lh.n > 0: the commit point.
WriteHead ==
  /\ phase = "write_head"
  /\ dhead' = lh
  /\ durable' = ended
  /\ phase' = "install"
  /\ tail' = 1
  /\ UNCHANGED <<home, dlog, cache, pinned, lh, outstanding, committing,
                 ncommit, procvars, started, ended>>

\* One iteration of install_trans(): copy a log block to its home location.
\* Recovery, which pinned nothing, unpins nothing.
InstallTrans ==
  /\ phase \in {"install", "r_install"}
  /\ IF tail > Len(lh)
       THEN /\ phase' = IF phase = "install" THEN "clear" ELSE "r_clear"
            /\ UNCHANGED <<home, cache, pinned, tail>>
       ELSE /\ home' = [home EXCEPT ![lh[tail]] = dlog[tail]]
            /\ cache' = [cache EXCEPT ![lh[tail]] = dlog[tail]]
            /\ pinned' = IF phase = "install" THEN pinned \ {lh[tail]} ELSE pinned
            /\ tail' = tail + 1
            /\ UNCHANGED phase
  /\ UNCHANGED <<dlog, dhead, lh, outstanding, committing, ncommit, procvars,
                 countvars>>

\* lh.n = 0; write_head(): erase the transaction, in commit() or in recovery.
ClearHead ==
  /\ phase \in {"clear", "r_clear"}
  /\ lh' = <<>>
  /\ dhead' = <<>>
  /\ phase' = IF phase = "clear" THEN "done" ELSE "none"
  /\ UNCHANGED <<home, dlog, cache, pinned, outstanding, committing, ncommit,
                 tail, procvars, countvars>>

\* end_op() after commit().
EndCommit(p) ==
  /\ pc[p] = "commit"
  /\ phase = "done"
  /\ phase' = "none"
  /\ committing' = 0
  /\ ncommit' = ncommit + 1
  /\ pc' = WakeupLog([pc EXCEPT ![p] = "idle"])
  /\ UNCHANGED <<diskvars, cache, pinned, lh, outstanding, target, opset, tail,
                 countvars, owed>>

SyncTargetNow == ncommit

\* The commit count sys_sync() waits for.
SyncTarget == ncommit + 1

\* sys_sync() up to its loop; with nothing in progress it does not wait.
SyncCall(p) ==
  /\ ~Booting
  /\ pc[p] = "idle"
  /\ target' = [target EXCEPT ![p] =
                  IF committing = 1 \/ outstanding > 0 THEN SyncTarget ELSE ncommit]
  /\ owed' = [owed EXCEPT ![p] = ended]
  /\ pc' = [pc EXCEPT ![p] = "sync"]
  /\ UNCHANGED <<diskvars, cache, pinned, lh, outstanding, committing, ncommit,
                 opset, phase, tail, countvars>>

\* sys_sync()'s loop test, after the call and after each wakeup.
SyncLoop(p) ==
  /\ pc[p] = "sync"
  /\ pc' = [pc EXCEPT ![p] = IF ncommit < target[p] THEN "syncasleep" ELSE "idle"]
  /\ UNCHANGED <<diskvars, cache, pinned, lh, outstanding, committing, ncommit,
                 target, opset, phase, tail, countvars, owed>>

----------------------------------------------------------------------------
\* Power fails: memory is lost, and the next boot starts with initlog().
Crash ==
  /\ cache' = home
  /\ pinned' = {}
  /\ lh' = <<>>
  /\ outstanding' = 0
  /\ committing' = 0
  /\ ncommit' = 0
  /\ pc' = [p \in Proc |-> "idle"]
  /\ target' = [p \in Proc |-> 0]
  /\ opset' = [p \in Proc |-> {}]
  /\ phase' = "read_head"
  /\ tail' = 1
  /\ started' = 0
  /\ ended' = 0
  /\ durable' = 0
  /\ owed' = [p \in Proc |-> 0]
  /\ UNCHANGED diskvars

\* read_head() in recover_from_log().
ReadHead ==
  /\ phase = "read_head"
  /\ lh' = dhead
  /\ phase' = "r_install"
  /\ tail' = 1
  /\ UNCHANGED <<diskvars, cache, pinned, outstanding, committing, ncommit,
                 procvars, countvars>>

CommitStep == WriteLog \/ WriteHead \/ InstallTrans \/ ClearHead

ProcStep(p) ==
  \/ BeginOp(p)
  \/ \E b \in Block, v \in Val : LogWrite(p, b, v)
  \/ EndOp(p)
  \/ EndCommit(p)
  \/ SyncCall(p)
  \/ SyncLoop(p)

Next ==
  \/ /\ phase # "panic"
     /\ \/ \E p \in Proc : ProcStep(p)
        \/ CommitStep
        \/ ReadHead
  \/ Crash

Spec == Init /\ [][Next]_vars

\* A process that is in a file system call goes on with it: the disk answers,
\* the scheduler runs it, and no operation stays open for ever.  Nothing is
\* assumed about new calls or crashes.
Fairness ==
  /\ \A p \in Proc :
       /\ WF_vars(phase # "panic" /\ pc[p] = "begin" /\ BeginOp(p))
       /\ WF_vars(phase # "panic" /\ (EndOp(p) \/ EndCommit(p) \/ SyncLoop(p)))
  /\ WF_vars(CommitStep \/ ReadHead)

FairSpec == Spec /\ Fairness

----------------------------------------------------------------------------
DataOK ==
  /\ home \in [Block -> Val]
  /\ dlog \in [1..LOGBLOCKS -> Val]
  /\ dhead \in Seq(Block)
  /\ cache \in [Block -> Val]
  /\ pinned \subseteq Block
  /\ lh \in Seq(Block)

CountOK ==
  /\ outstanding \in Nat
  /\ committing \in {0, 1}
  /\ ncommit \in Nat
  /\ phase \in Phases
  /\ tail \in Nat \ {0}
  /\ started \in Nat
  /\ ended \in Nat
  /\ durable \in Nat

ProcOK ==
  /\ pc \in [Proc -> PCs]
  /\ target \in [Proc -> Nat]
  /\ opset \in [Proc -> SUBSET Block]
  /\ owed \in [Proc -> Nat]

\* Disk blocks, buffers, the log header, the counters and the processes keep
\* their types; log.outstanding is never negative.
TypeOK == DataOK /\ CountOK /\ ProcOK

\* begin_op's reservation is enough: no panic of log_write or end_op is
\* reached, however operations overlap with each other and with a commit.
NoPanic == phase # "panic"

\* The log gives the file system atomic, durable commits across crashes: what
\* recovery would restore changes only at write_head, only when no operation
\* is in progress, and then to everything written so far; a crash during any
\* step of commit() or of recovery itself loses nothing that was committed.
AD == INSTANCE AtomicDisk WITH mem <- IF Booting THEN Recovered ELSE cache,
                               disk <- Recovered,
                               active <- outstanding
CrashAtomic == AD!Spec

\* When sys_sync() returns, every operation that had ended before the call is
\* on disk.
SyncDurable ==
  [][\A p \in Proc : pc[p] = "sync" /\ pc'[p] = "idle" /\ ~(phase' = "read_head")
                       => durable >= owed[p]]_vars

\* A process that begin_op() put to sleep gets its operation, or the machine
\* crashes: no wakeup(&log) is missing.
WaiterAdmitted ==
  \A p \in Proc : []<>(pc[p] \notin {"begin", "asleep"})

\* sys_sync() returns.
SyncReturns == \A p \in Proc : []<>(pc[p] \notin {"sync", "syncasleep"})

----------------------------------------------------------------------------
\* The inductive invariant behind CrashAtomic and SyncDurable.

\* Absorption keeps the logged block numbers distinct, on disk as in memory.
Distinct(s) == \A i, j \in 1..Len(s) : s[i] = s[j] => i = j
HeaderInv ==
  /\ Len(lh) <= LOGBLOCKS /\ Distinct(lh)
  /\ Len(dhead) <= LOGBLOCKS /\ Distinct(dhead)

\* outstanding counts the open operations, and none is open in a commit or a
\* recovery.
OpProcs == {p \in Proc : pc[p] = "op"}
OpInv ==
  /\ outstanding = Cardinality(OpProcs)
  /\ phase \in {"write_log", "write_head", "install", "clear", "done"} => committing = 1
  /\ phase \in {"none", "read_head", "r_install", "r_clear"} => committing = 0
  /\ phase \notin {"none", "panic"} => outstanding = 0

\* What the log blocks, the home blocks and the buffers hold in each phase.
Untouched == \A b \in Block : b \notin Elems(lh) => cache[b] = home[b]
Copied(k) == \A i \in 1..Len(lh) : i < k => dlog[i] = cache[lh[i]]
Installed(k) == \A i \in 1..Len(lh) : i < k => home[lh[i]] = dlog[i]
PhaseInv ==
  /\ phase \in {"none", "write_log", "write_head", "done"} => dhead = <<>>
  /\ phase \in {"none", "write_log", "write_head", "install"} => Untouched
  /\ phase \in {"none", "write_log"} => Elems(lh) \subseteq pinned
  /\ phase = "write_log" => tail \in 1..Len(lh) /\ Copied(tail)
  /\ phase \in {"write_head", "install", "clear"} => Copied(Len(lh) + 1)
  /\ phase \in {"install", "clear", "r_install", "r_clear"} => lh = dhead
  /\ phase \in {"install", "r_install"} => tail \in 1..Len(lh) + 1 /\ Installed(tail)
  /\ phase \in {"clear", "r_clear"} => Installed(Len(lh) + 1)
  /\ phase \in {"clear", "done", "read_head", "r_install", "r_clear"} => cache = home
  /\ phase \in {"done", "read_head"} => lh = <<>>

\* What sys_sync waits for covers what was ended when it was called.
SyncInv ==
  /\ durable <= ended
  /\ phase \in {"install", "clear", "done"} \/ Booting => durable = ended
  /\ phase = "none" /\ outstanding = 0 => durable = ended
  /\ \A p \in Proc : pc[p] \in {"sync", "syncasleep"} =>
       /\ ~Booting
       /\ owed[p] <= ended
       /\ target[p] <= ncommit + 1
       /\ target[p] <= ncommit => durable >= owed[p]

LogInv == HeaderInv /\ OpInv /\ PhaseInv /\ SyncInv

\* Behind NoPanic: what the open operations have logged and still may log fits.
\* Spent has one element for each block an open operation has modified.
Spent == {t \in OpProcs \X (1..OpBlocks) : t[2] <= Cardinality(opset[t[1]])}
ReserveInv ==
  /\ NoPanic
  /\ \A p \in OpProcs : /\ IsFiniteSet(opset[p])
                        /\ Cardinality(opset[p]) <= OpBlocks
                        /\ opset[p] \subseteq Elems(lh)
  /\ Len(lh) + outstanding * MAXOPBLOCKS <= LOGBLOCKS + Cardinality(Spent)
============================================================================
