------------------------------- MODULE Proc -------------------------------
(***************************************************************************)
(* The life of an xv6 process (xv6/kernel/proc.c, sysproc.c and the parts  *)
(* of trap.c that test p->killed): fork, exit, wait and waitx, kill,       *)
(* pause, and the sleep_prepare / sleep / wakeup protocol they rest on.    *)
(*                                                                         *)
(* A section under one p->lock is one step.  wait_lock is held over        *)
(* several such sections and is a variable.  A loop over the table made    *)
(* under wait_lock is one step: p->parent and the state ZOMBIE change only *)
(* under that lock, and a process joins a channel only under the lock that *)
(* the caller of wakeup holds, so no other process tells it from the loop. *)
(* Which process a CPU picks is the business of the schedulers (see Mlfq). *)
(***************************************************************************)
EXTENDS Integers, FiniteSets

CONSTANTS NPROC,     \* entries of the process table
          NCPU,      \* CPUs
          MaxPid,    \* bound: no fork once this many pids are used
          MaxPause,  \* bound: the longest pause, in ticks
          KillPids   \* pids that the programs pass to kill()

Procs == 1..NPROC
initproc == 1
NoProc == 0
TicksChan == NPROC + 1   \* &ticks, as a channel; an entry stands for &proc[i]

\* kill() of init makes init exit, which panics on purpose; no program does it.
ASSUME ProcAssumption ==
  /\ NPROC \in Nat \ {0}
  /\ NCPU \in Nat \ {0}
  /\ MaxPid \in Nat
  /\ MaxPause \in Nat
  /\ KillPids \subseteq Nat \ {1}

VARIABLES
  state,     \* p->state
  pid,       \* p->pid
  parent,    \* p->parent
  chan,      \* p->chan
  killed,    \* p->killed
  nextpid,   \* nextpid
  waitlock,  \* the process that holds wait_lock, or NoProc
  pc,        \* where the process is in its program or in the kernel
  np,        \* np in kfork
  left       \* n - (ticks - ticks0) in sys_pause

vars == <<state, pid, parent, chan, killed, nextpid, waitlock, pc, np, left>>

States == {"UNUSED", "USED", "SLEEPING", "RUNNABLE", "RUNNING", "ZOMBIE"}
ForkPCs == {"fork_parent", "fork_run"}
WaitPCs == {"wait_lock", "wait_killed", "wait_prep", "wait_sleep"}
PausePCs == {"pause", "pause_sleep"}
ExitPCs == {"exit_lock", "exit_wake", "exit_zombie"}
PCs == {"none", "user", "ret", "dead"} \cup ForkPCs \cup WaitPCs \cup PausePCs \cup ExitPCs

Init ==
  /\ state = [p \in Procs |-> IF p = initproc THEN "RUNNABLE" ELSE "UNUSED"]
  /\ pid = [p \in Procs |-> IF p = initproc THEN 1 ELSE 0]
  /\ parent = [p \in Procs |-> NoProc]
  /\ chan = [p \in Procs |-> NoProc]
  /\ killed = [p \in Procs |-> FALSE]
  /\ nextpid = 2
  /\ waitlock = NoProc
  /\ pc = [p \in Procs |-> IF p = initproc THEN "user" ELSE "none"]
  /\ np = [p \in Procs |-> NoProc]
  /\ left = [p \in Procs |-> 0]

\* Process p is on a CPU and about to execute the code at l.
At(p, l) == state[p] = "RUNNING" /\ pc[p] = l

Goto(p, l) == pc' = [pc EXCEPT ![p] = l]

First(S) == CHOOSE p \in S : \A q \in S : p <= q

Children(p) == {q \in Procs : parent[q] = p}

Zombies(p) == {q \in Children(p) : state[q] = "ZOMBIE"}

---------------------------------------------------------------------------
(* Scheduling *)

Dispatch(p) ==
  /\ state[p] = "RUNNABLE"
  /\ Cardinality({q \in Procs : state[q] = "RUNNING"}) < NCPU
  /\ state' = [state EXCEPT ![p] = "RUNNING"]
  /\ UNCHANGED <<pid, parent, chan, killed, nextpid, waitlock, pc, np, left>>

\* yield(), from a timer interrupt; a holder of a spinlock has interrupts off.
Yield(p) ==
  /\ state[p] = "RUNNING"
  /\ waitlock # p
  /\ state' = [state EXCEPT ![p] = "RUNNABLE"]
  /\ UNCHANGED <<pid, parent, chan, killed, nextpid, waitlock, pc, np, left>>

---------------------------------------------------------------------------
(* sleep and wakeup *)

\* wakeup(c): clears the channel of everyone registered on it and makes the
\* ones that already sleep runnable.
Woken(c) ==
  /\ state' = [p \in Procs |-> IF chan[p] = c /\ state[p] = "SLEEPING"
                                 THEN "RUNNABLE" ELSE state[p]]
  /\ chan' = [p \in Procs |-> IF chan[p] = c THEN NoProc ELSE chan[p]]

SleepUnchecked(p, l) ==
  /\ state' = [state EXCEPT ![p] = "SLEEPING"]
  /\ Goto(p, l)
  /\ UNCHANGED <<pid, parent, chan, killed, nextpid, waitlock, np, left>>

\* sleep(): stays awake if a wakeup has cleared the channel since
\* sleep_prepare(); continues at l.
Sleep(p, l) ==
  /\ state' = [state EXCEPT ![p] = IF chan[p] # NoProc THEN "SLEEPING" ELSE @]
  /\ Goto(p, l)
  /\ UNCHANGED <<pid, parent, chan, killed, nextpid, waitlock, np, left>>

---------------------------------------------------------------------------
(* usertrap() *)

ReturnUnchecked(p) ==
  /\ At(p, "ret")
  /\ Goto(p, "user")
  /\ UNCHANGED <<state, pid, parent, chan, killed, nextpid, waitlock, np, left>>

\* A trap from user space, and the test after a system call: a killed
\* process exits, another one goes (back) to its program.
Return(p) ==
  /\ At(p, "ret") \/ (At(p, "user") /\ killed[p])
  /\ Goto(p, IF killed[p] THEN "exit_lock" ELSE "user")
  /\ UNCHANGED <<state, pid, parent, chan, killed, nextpid, waitlock, np, left>>

\* A fault of the program: setkilled(), then the test above.
Fault(p) ==
  /\ At(p, "user") /\ p # initproc
  /\ killed' = [killed EXCEPT ![p] = TRUE]
  /\ Goto(p, "ret")
  /\ UNCHANGED <<state, pid, parent, chan, nextpid, waitlock, np, left>>

\* A system call starts only if the process has not been killed.
Calls(p) == At(p, "user") /\ ~killed[p]

---------------------------------------------------------------------------
(* kfork() *)

Unused == {p \in Procs : state[p] = "UNUSED"}

\* allocproc() and the copying of the parent, up to release(&np->lock).
Fork(p) ==
  /\ Calls(p)
  /\ Unused # {} /\ nextpid <= MaxPid
  /\ LET n == First(Unused) IN
       /\ state' = [state EXCEPT ![n] = "USED"]
       /\ pid' = [pid EXCEPT ![n] = nextpid]
       /\ np' = [np EXCEPT ![p] = n]
       /\ pc' = [pc EXCEPT ![p] = "fork_parent", ![n] = "user"]
  /\ nextpid' = nextpid + 1
  /\ UNCHANGED <<parent, chan, killed, waitlock, left>>

\* kalloc() or uvmcopy() fails: freeproc(np) undoes all but the pid.
ForkFail(p) ==
  /\ Calls(p)
  /\ Unused # {} /\ nextpid <= MaxPid
  /\ LET n == First(Unused) IN
       /\ killed' = [killed EXCEPT ![n] = FALSE]
       /\ chan' = [chan EXCEPT ![n] = NoProc]
  /\ nextpid' = nextpid + 1
  /\ Goto(p, "ret")
  /\ UNCHANGED <<state, pid, parent, waitlock, np, left>>

\* No entry is free.
ForkFull(p) ==
  /\ Calls(p)
  /\ Unused = {}
  /\ Goto(p, "ret")
  /\ UNCHANGED <<state, pid, parent, chan, killed, nextpid, waitlock, np, left>>

\* np->parent = p, under wait_lock.
ForkParent(p) ==
  /\ At(p, "fork_parent") /\ waitlock = NoProc
  /\ parent' = [parent EXCEPT ![np[p]] = p]
  /\ Goto(p, "fork_run")
  /\ UNCHANGED <<state, pid, chan, killed, nextpid, waitlock, np, left>>

ForkRun(p) ==
  /\ At(p, "fork_run")
  /\ state' = [state EXCEPT ![np[p]] = "RUNNABLE"]
  /\ np' = [np EXCEPT ![p] = NoProc]
  /\ Goto(p, "ret")
  /\ UNCHANGED <<pid, parent, chan, killed, nextpid, waitlock, left>>

---------------------------------------------------------------------------
(* kexit() *)

CallExit(p) ==
  /\ Calls(p) /\ p # initproc
  /\ Goto(p, "exit_lock")
  /\ UNCHANGED <<state, pid, parent, chan, killed, nextpid, waitlock, np, left>>

\* acquire(&wait_lock) and reparent(p), with its wakeup(initproc).
Reparent(p) ==
  /\ At(p, "exit_lock") /\ waitlock = NoProc
  /\ waitlock' = p
  /\ parent' = [q \in Procs |-> IF parent[q] = p THEN initproc ELSE parent[q]]
  /\ IF Children(p) # {} THEN Woken(initproc) ELSE UNCHANGED <<state, chan>>
  /\ Goto(p, "exit_wake")
  /\ UNCHANGED <<pid, killed, nextpid, np, left>>

\* wakeup(p->parent)
WakeParent(p) ==
  /\ At(p, "exit_wake")
  /\ Woken(parent[p])
  /\ Goto(p, "exit_zombie")
  /\ UNCHANGED <<pid, parent, killed, nextpid, waitlock, np, left>>

\* p->state = ZOMBIE; release(&wait_lock); sched()
BecomeZombie(p) ==
  /\ At(p, "exit_zombie")
  /\ state' = [state EXCEPT ![p] = "ZOMBIE"]
  /\ waitlock' = NoProc
  /\ Goto(p, "dead")
  /\ UNCHANGED <<pid, parent, chan, killed, nextpid, np, left>>

---------------------------------------------------------------------------
(* kwait(), and kwaitx(), whose control is the same *)

CallWait(p) ==
  /\ Calls(p)
  /\ Goto(p, "wait_lock")
  /\ UNCHANGED <<state, pid, parent, chan, killed, nextpid, waitlock, np, left>>

\* acquire(&wait_lock), at the call and after sleep(), and the scan finds a
\* zombie child: pp->parent = 0; freeproc(pp).
Reap(p) ==
  /\ At(p, "wait_lock") /\ waitlock = NoProc
  /\ Zombies(p) # {}
  /\ LET z == First(Zombies(p)) IN
       /\ parent' = [parent EXCEPT ![z] = NoProc]
       /\ state' = [state EXCEPT ![z] = "UNUSED"]
       /\ pid' = [pid EXCEPT ![z] = 0]
       /\ chan' = [chan EXCEPT ![z] = NoProc]
       /\ killed' = [killed EXCEPT ![z] = FALSE]
       /\ pc' = [pc EXCEPT ![p] = "ret", ![z] = "none"]
  /\ UNCHANGED <<nextpid, waitlock, np, left>>

ReapFailAny(p) ==
  /\ At(p, "wait_lock") /\ waitlock = NoProc
  /\ Zombies(p) # {}
  /\ Goto(p, "ret")
  /\ UNCHANGED <<state, pid, parent, chan, killed, nextpid, waitlock, np, left>>

\* copyout() of the status fails; init passes the address 0 and copies nothing.
ReapFail(p) ==
  /\ At(p, "wait_lock") /\ waitlock = NoProc
  /\ Zombies(p) # {} /\ p # initproc
  /\ Goto(p, "ret")
  /\ UNCHANGED <<state, pid, parent, chan, killed, nextpid, waitlock, np, left>>

\* The scan finds no zombie: return if there are no children, else go on.
ScanNone(p) ==
  /\ At(p, "wait_lock") /\ waitlock = NoProc
  /\ Zombies(p) = {}
  /\ IF Children(p) = {}
       THEN Goto(p, "ret") /\ UNCHANGED waitlock
       ELSE Goto(p, "wait_killed") /\ waitlock' = p
  /\ UNCHANGED <<state, pid, parent, chan, killed, nextpid, np, left>>

\* killed(p)
WaitKilled(p) ==
  /\ At(p, "wait_killed")
  /\ IF killed[p]
       THEN Goto(p, "ret") /\ waitlock' = NoProc
       ELSE Goto(p, "wait_prep") /\ UNCHANGED waitlock
  /\ UNCHANGED <<state, pid, parent, chan, killed, nextpid, np, left>>

\* sleep_prepare(p); release(&wait_lock)
WaitPrepare(p) ==
  /\ At(p, "wait_prep")
  /\ chan' = [chan EXCEPT ![p] = p]
  /\ waitlock' = NoProc
  /\ Goto(p, "wait_sleep")
  /\ UNCHANGED <<state, pid, parent, killed, nextpid, np, left>>

WaitSleep(p) ==
  /\ At(p, "wait_sleep")
  /\ Sleep(p, "wait_lock")

---------------------------------------------------------------------------
(* sys_pause() and the clock *)

CallPause(p) ==
  /\ Calls(p) /\ p # initproc
  /\ \E n \in 0..MaxPause : left' = [left EXCEPT ![p] = n]
  /\ Goto(p, "pause")
  /\ UNCHANGED <<state, pid, parent, chan, killed, nextpid, waitlock, np>>

\* One turn of the loop under tickslock, up to its release.  A kill between
\* killed() and sleep_prepare() has the effect of one just after.
PauseTest(p) ==
  /\ At(p, "pause")
  /\ IF left[p] = 0 \/ killed[p]
       THEN /\ left' = [left EXCEPT ![p] = 0]
            /\ Goto(p, "ret")
            /\ UNCHANGED chan
       ELSE /\ chan' = [chan EXCEPT ![p] = TicksChan]
            /\ Goto(p, "pause_sleep")
            /\ UNCHANGED left
  /\ UNCHANGED <<state, pid, parent, killed, nextpid, waitlock, np>>

PauseSleep(p) ==
  /\ At(p, "pause_sleep")
  /\ Sleep(p, "pause")

\* clockintr() on CPU 0: ticks++; wakeup(&ticks)
Tick ==
  /\ left' = [p \in Procs |-> IF left[p] > 0 THEN left[p] - 1 ELSE 0]
  /\ Woken(TicksChan)
  /\ UNCHANGED <<pid, parent, killed, nextpid, waitlock, pc, np>>

---------------------------------------------------------------------------
(* kkill() *)

\* The call finds no process with that pid.
KillNone(p) ==
  /\ Calls(p)
  /\ \E n \in KillPids : \A q \in Procs : pid[q] # n
  /\ Goto(p, "ret")
  /\ UNCHANGED <<state, pid, parent, chan, killed, nextpid, waitlock, np, left>>

\* The first entry with the pid is marked, and woken if it sleeps; its channel
\* stays set.  The pid 0 is that of every unused entry.
Kill(p) ==
  /\ Calls(p)
  /\ \E n \in KillPids :
       /\ \E q \in Procs : pid[q] = n
       /\ LET v == First({q \in Procs : pid[q] = n}) IN
            /\ killed' = [killed EXCEPT ![v] = TRUE]
            /\ state' = [state EXCEPT ![v] = IF @ = "SLEEPING" THEN "RUNNABLE" ELSE @]
  /\ Goto(p, "ret")
  /\ UNCHANGED <<pid, parent, chan, nextpid, waitlock, np, left>>

---------------------------------------------------------------------------

\* Steps that a process inside the kernel takes on its own.
KernelStep(p) ==
  \/ Return(p) \/ ForkParent(p) \/ ForkRun(p)
  \/ Reparent(p) \/ WakeParent(p) \/ BecomeZombie(p)
  \/ Reap(p) \/ ReapFail(p) \/ ScanNone(p) \/ WaitKilled(p) \/ WaitPrepare(p) \/ WaitSleep(p)
  \/ PauseTest(p) \/ PauseSleep(p)

\* What the program of a process may do.
UserStep(p) ==
  \/ Fault(p) \/ Fork(p) \/ ForkFail(p) \/ ForkFull(p)
  \/ CallExit(p) \/ CallWait(p) \/ CallPause(p) \/ KillNone(p) \/ Kill(p)

Next ==
  \/ \E p \in Procs : Dispatch(p) \/ Yield(p) \/ KernelStep(p) \/ UserStep(p)
  \/ Tick

Spec == Init /\ [][Next]_vars

(* The timer interrupts every running process, the round robin scheduler    *)
(* reaches every entry of the table in turn, a process goes on with the      *)
(* kernel code it is in whenever it has a CPU and gets wait_lock in the end, *)
(* and init's program calls wait() again and again (user/init.c).            *)
Fairness ==
  /\ \A p \in Procs : /\ SF_vars(Dispatch(p))
                      /\ WF_vars(Yield(p))
                      /\ SF_vars(KernelStep(p))
  /\ SF_vars(CallWait(initproc))
  /\ WF_vars(Tick)

FairSpec == Spec /\ Fairness

---------------------------------------------------------------------------
(* Properties *)

\* The fields of the process table stay in their types.
TypeOK ==
  /\ state \in [Procs -> States]
  /\ pid \in [Procs -> Nat]
  /\ parent \in [Procs -> Procs \cup {NoProc}]
  /\ chan \in [Procs -> Procs \cup {NoProc, TicksChan}]
  /\ killed \in [Procs -> BOOLEAN]
  /\ nextpid \in Nat
  /\ waitlock \in Procs \cup {NoProc}
  /\ pc \in [Procs -> PCs]
  /\ np \in [Procs -> Procs \cup {NoProc}]
  /\ left \in [Procs -> Nat]

Alive == {p \in Procs : state[p] \in {"SLEEPING", "RUNNABLE", "RUNNING"}}

\* Every process but init, dead or alive, has a living parent: exit() hands the
\* children over before the parent dies, so no zombie is left to nobody.
ParentAlive ==
  \A p \in Procs \ {initproc} :
    state[p] \in {"SLEEPING", "RUNNABLE", "RUNNING", "ZOMBIE"} => parent[p] \in Alive

\* A process that sleeps in wait() has a child, and none of its children is a
\* zombie: neither an exit nor a reparenting between the scan of kwait() and
\* its sleep() is missed.
NoLostWakeup ==
  \A p \in Procs :
    state[p] = "SLEEPING" /\ pc[p] = "wait_lock" => Children(p) # {} /\ Zombies(p) = {}

\* The holder of wait_lock is on a CPU: nobody reaches sched() with it, which
\* would panic, and nobody spins for a lock whose holder does not run.
LockHolderRuns == waitlock # NoProc => state[waitlock] = "RUNNING"

\* A zombie that has come to init is freed.
OrphanReaped ==
  \A p \in Procs : []<>~(state[p] = "ZOMBIE" /\ parent[p] = initproc)

\* A process killed during pause() dies, also when the kill comes between its
\* test of p->killed and its sleep(), where kkill() wakes nobody.
KilledPauserDies ==
  \A p \in Procs :
    killed[p] /\ pc[p] \in PausePCs /\ state[p] # "UNUSED" ~> state[p] = "ZOMBIE"

---------------------------------------------------------------------------
(* The inductive invariant behind the safety properties *)

\* Where a process may be in each of its states, and what init never does.
StateInv ==
  /\ \A p \in Procs :
       /\ state[p] = "UNUSED" <=> pc[p] = "none"
       /\ state[p] = "ZOMBIE" <=> pc[p] = "dead"
       /\ state[p] = "USED" => pc[p] = "user"
       /\ state[p] = "SLEEPING" => pc[p] \in {"wait_lock", "pause"}
  /\ pid[initproc] = 1 /\ ~killed[initproc]
  /\ state[initproc] # "USED" /\ pc[initproc] \notin ExitPCs \cup {"none", "dead"}

\* The code between acquire(&wait_lock) and its release.
Holding == {"wait_killed", "wait_prep", "exit_wake", "exit_zombie"}

LockInv ==
  \A p \in Procs : /\ pc[p] \in Holding <=> waitlock = p
                   /\ waitlock = p => state[p] = "RUNNING"

\* The entry a process is creating is its own, and not yet anybody's child
\* until the parent is set.
ForkInv ==
  \A p \in Procs : pc[p] \in ForkPCs =>
    /\ np[p] \in Procs /\ state[np[p]] = "USED"
    /\ parent[np[p]] = (IF pc[p] = "fork_run" THEN p ELSE NoProc)
    /\ \A q \in Procs \ {p} : pc[q] \in ForkPCs => np[q] # np[p]

\* Parents live, and a process that is about to become a zombie has none left
\* to leave behind.
ParentInv ==
  /\ \A q \in Procs : /\ parent[q] # NoProc => parent[q] \in Alive
                      /\ state[q] = "UNUSED" \/ q = initproc => parent[q] = NoProc
                      /\ state[q] \notin {"UNUSED", "USED"} /\ q # initproc => parent[q] # NoProc
  /\ \A p, q \in Procs : pc[p] \in {"exit_wake", "exit_zombie"} => parent[q] # p

Asleep(p) == state[p] = "SLEEPING" /\ pc[p] = "wait_lock"

Scanned(p) == pc[p] \in {"wait_killed", "wait_prep"}

\* Who is registered on its own channel; a process about to become a zombie
\* has woken its parent, which cannot register again before it is one.
ChanInv ==
  /\ \A p \in Procs : /\ pc[p] = "wait_sleep" => chan[p] \in {NoProc, p}
                      /\ Asleep(p) => chan[p] = p
  /\ \A r \in Procs : pc[r] = "exit_zombie" => chan[parent[r]] # parent[r]

\* A process on its way to sleep in wait() has a child, and no zombie child
\* unless the wakeup has already come.
WaitInv ==
  \A p \in Procs :
    /\ Scanned(p) \/ pc[p] = "wait_sleep" \/ Asleep(p) =>
         \E q \in Procs : parent[q] = p
    /\ Scanned(p) \/ (pc[p] = "wait_sleep" /\ chan[p] = p) \/ Asleep(p) =>
         \A q \in Procs : parent[q] = p => state[q] # "ZOMBIE"

ProcInv == TypeOK /\ StateInv /\ LockInv /\ ForkInv /\ ParentInv /\ ChanInv /\ WaitInv
===========================================================================
