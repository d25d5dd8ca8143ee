------------------------------- MODULE Mlfq -------------------------------
(***************************************************************************)
(* The multi-level feedback queue scheduler of xv6 (xv6/kernel/proc.c and  *)
(* xv6/kernel/trap.c built with SCHED_MLFQ): the scheduler loop of each    *)
(* CPU, the clock interrupt with update_proc_time and boost_priority, the  *)
(* time-slice check after a timer interrupt, and the process operations    *)
(* that change a scheduling field.                                         *)
(*                                                                         *)
(* A loop over the process table takes one step per entry, since p->lock   *)
(* is held for one entry at a time.  The only lock held across steps is    *)
(* that of best_p during a scan, so p is locked exactly when it is some    *)
(* CPU's best.  The trap code reads and writes the fields of its own       *)
(* process without p->lock; there the reads are one step and the writes    *)
(* another.  The accounting fields (rtime, wtime, ...) are never read by   *)
(* the scheduler and are left out.                                         *)
(***************************************************************************)
EXTENDS Integers, FiniteSets

CONSTANTS NPROC,       \* entries of the process table
          NCPU,        \* CPUs
          SliceLimit,  \* slice_limit[]: ticks a process may use in each queue
          BOOST,       \* ticks between two boosts (48)
          TickMod,     \* the tick counter wraps at this value
          Started,     \* processes that exist at first
          CpuBound     \* processes whose program only computes

Procs == 1..NPROC
CPUs == 0..NCPU - 1
Queues == 0..3
NoProc == 0

ASSUME MlfqAssumption ==
  /\ NPROC \in Nat \ {0}
  /\ NCPU \in Nat \ {0}
  /\ SliceLimit \in [Queues -> Nat \ {0}]
  /\ BOOST \in Nat \ {0}
  /\ TickMod \in Nat \ {0} /\ TickMod % BOOST = 0
  /\ Started \subseteq Procs
  /\ CpuBound \subseteq Procs

VARIABLES
  state,   \* p->state
  queue,   \* p->queue
  slice,   \* p->ticks_in_slice
  enter,   \* p->enter_time
  child,   \* the USED entry the process is creating in kfork, or NoProc
  ticks,   \* ticks
  cur,     \* c->proc
  pc,      \* what each CPU executes
  scanq,   \* q in scheduler()
  best,    \* best_p in scheduler()
  idx,     \* p in the table loops of each CPU
  reg      \* the value of p->queue that the trap code is about to store

procvars == <<state, queue, slice, enter, child>>
cpuvars == <<cur, pc, scanq, best, idx, reg>>
vars == <<state, queue, slice, enter, child, ticks, cur, pc, scanq, best, idx, reg>>

States == {"UNUSED", "USED", "SLEEPING", "RUNNABLE", "RUNNING", "ZOMBIE"}
PCs == {"loop", "next", "wfi", "scan", "user", "wake", "update", "boost", "check",
        "demote", "yield"}

\* The machine with the processes S.
StartWith(S) ==
  /\ state = [p \in Procs |-> IF p \in S THEN "RUNNABLE" ELSE "UNUSED"]
  /\ queue = [p \in Procs |-> 0]
  /\ slice = [p \in Procs |-> 0]
  /\ enter = [p \in Procs |-> 0]
  /\ child = [p \in Procs |-> NoProc]
  /\ ticks = 0
  /\ cur = [c \in CPUs |-> NoProc]
  /\ pc = [c \in CPUs |-> "loop"]
  /\ scanq = [c \in CPUs |-> 0]
  /\ best = [c \in CPUs |-> NoProc]
  /\ idx = [c \in CPUs |-> 1]
  /\ reg = [c \in CPUs |-> 0]

Init == StartWith(Started)

UnlockedAlways(p) == TRUE

\* p->lock can be taken: no CPU has kept it in a scan.
Unlocked(p) == \A c \in CPUs : best[c] # p

\* A CPU that runs kernel code with interrupts on, or handles an interrupt.
Kernel(c) == pc[c] \in {"loop", "next", "user", "wake"}

Goto(c, l) == pc' = [pc EXCEPT ![c] = l]

---------------------------------------------------------------------------
(* scheduler() *)

\* The scan starts at the second slot.
StartScanSecond(c) ==
  /\ pc[c] \in {"loop", "next"}
  /\ Goto(c, "scan")
  /\ scanq' = [scanq EXCEPT ![c] = 0]
  /\ idx' = [idx EXCEPT ![c] = 2]
  /\ UNCHANGED <<procvars, ticks, cur, best, reg>>

\* The top of the loop, after the window with interrupts on.
StartScan(c) ==
  /\ pc[c] \in {"loop", "next"}
  /\ Goto(c, "scan")
  /\ scanq' = [scanq EXCEPT ![c] = 0]
  /\ idx' = [idx EXCEPT ![c] = 1]
  /\ UNCHANGED <<procvars, ticks, cur, best, reg>>

EarlierOrSame(p, b) == b = NoProc \/ enter[p] <= enter[b]

\* The process at the head of a queue is the one that entered it first.
Earlier(p, b) == b = NoProc \/ enter[p] < enter[b]

\* One entry of the scan of queue q.
ScanEntry(c) ==
  LET p == idx[c] IN
  /\ pc[c] = "scan"
  /\ p <= NPROC
  /\ Unlocked(p)
  /\ best' = [best EXCEPT ![c] =
       IF state[p] = "RUNNABLE" /\ queue[p] = scanq[c] /\ Earlier(p, @)
         THEN p ELSE @]
  /\ idx' = [idx EXCEPT ![c] = p + 1]
  /\ UNCHANGED <<procvars, ticks, cur, pc, scanq, reg>>

\* The end of the scan of one queue: switch to best_p, or go on to the next
\* queue, or wait for an interrupt when all four were empty.
ScanDone(c) ==
  /\ pc[c] = "scan"
  /\ idx[c] > NPROC
  /\ IF best[c] # NoProc
       THEN /\ state' = [state EXCEPT ![best[c]] = "RUNNING"]
            /\ cur' = [cur EXCEPT ![c] = best[c]]
            /\ best' = [best EXCEPT ![c] = NoProc]
            /\ Goto(c, "user")
            /\ UNCHANGED <<scanq, idx>>
       ELSE IF scanq[c] < 3
       THEN /\ scanq' = [scanq EXCEPT ![c] = @ + 1]
            /\ idx' = [idx EXCEPT ![c] = 1]
            /\ UNCHANGED <<state, cur, best, pc>>
       ELSE /\ Goto(c, "wfi")
            /\ UNCHANGED <<state, cur, best, scanq, idx>>
  /\ UNCHANGED <<queue, slice, enter, child, ticks, reg>>

\* wfi returns on a pending interrupt, which the next loop iteration takes.
Resume(c) ==
  /\ pc[c] = "wfi"
  /\ Goto(c, "loop")
  /\ UNCHANGED <<procvars, ticks, cur, scanq, best, idx, reg>>

---------------------------------------------------------------------------
(* Timer interrupts *)

\* A timer interrupt in a process: CPU 0 first does the work of clockintr().
\* In the scheduler loop only CPU 0 has something to do.  clockintr() sets the
\* timer a tenth of a second ahead, time enough for a scan: a CPU at "next" has
\* just handled a tick and scans before the next one.
Timer(c) ==
  /\ pc[c] = "user" \/ (pc[c] = "loop" /\ c = 0)
  /\ IF c = 0
       THEN ticks' = (ticks + 1) % TickMod /\ Goto(c, "wake")
       ELSE Goto(c, "check") /\ UNCHANGED ticks
  /\ UNCHANGED <<procvars, cur, scanq, best, idx, reg>>

\* The end of wakeup(&ticks) in clockintr(), and the start of
\* update_proc_time().
WakeDone(c) ==
  /\ pc[c] = "wake"
  /\ Goto(c, "update")
  /\ idx' = [idx EXCEPT ![c] = 1]
  /\ UNCHANGED <<procvars, ticks, cur, scanq, best, reg>>

AfterClock(c) == IF cur[c] = NoProc THEN "next" ELSE "check"

\* One entry of update_proc_time(); after the last one the boost, if due.
UpdateEntry(c) ==
  LET p == idx[c] IN
  /\ pc[c] = "update"
  /\ IF p <= NPROC
       THEN /\ Unlocked(p)
            /\ slice' = [slice EXCEPT ![p] =
                 IF state[p] = "RUNNING" THEN @ + 1 ELSE @]
            /\ idx' = [idx EXCEPT ![c] = p + 1]
            /\ UNCHANGED pc
       ELSE /\ Goto(c, IF ticks % BOOST = 0 THEN "boost" ELSE AfterClock(c))
            /\ idx' = [idx EXCEPT ![c] = 1]
            /\ UNCHANGED slice
  /\ UNCHANGED <<state, queue, enter, child, ticks, cur, scanq, best, reg>>

\* boost_priority() skips only the free entries.
Boosted(p) == state[p] # "UNUSED"

\* One entry of boost_priority().
BoostEntry(c) ==
  LET p == idx[c] IN
  /\ pc[c] = "boost"
  /\ IF p <= NPROC
       THEN /\ Unlocked(p)
            /\ IF Boosted(p)
                 THEN /\ queue' = [queue EXCEPT ![p] = 0]
                      /\ slice' = [slice EXCEPT ![p] = 0]
                      /\ enter' = [enter EXCEPT ![p] = ticks]
                 ELSE UNCHANGED <<queue, slice, enter>>
            /\ idx' = [idx EXCEPT ![c] = p + 1]
            /\ UNCHANGED pc
       ELSE /\ Goto(c, AfterClock(c))
            /\ UNCHANGED <<queue, slice, enter, idx>>
  /\ UNCHANGED <<state, child, ticks, cur, scanq, best, reg>>

\* higher_priority_proc_runnable(), without locks.
HigherRunnable(q) == \E r \in Procs : state[r] = "RUNNABLE" /\ queue[r] < q

\* The process has used its time slice.
SliceSpent(p) == slice[p] >= SliceLimit[queue[p]]

\* The queue below, or the last one again.
Demoted(p) == IF queue[p] < 3 THEN queue[p] + 1 ELSE queue[p]

\* usertrap() and kerneltrap() after the interrupt: read the fields and decide.
Check(c) ==
  LET p == cur[c] IN
  /\ pc[c] = "check"
  /\ IF SliceSpent(p)
       THEN Goto(c, "demote") /\ reg' = [reg EXCEPT ![c] = Demoted(p)]
       ELSE Goto(c, IF HigherRunnable(queue[p]) THEN "yield" ELSE "user")
            /\ UNCHANGED reg
  /\ UNCHANGED <<procvars, ticks, cur, scanq, best, idx>>

\* The stores of a spent slice, without p->lock.
Demote(c) ==
  LET p == cur[c] IN
  /\ pc[c] = "demote"
  /\ queue' = [queue EXCEPT ![p] = reg[c]]
  /\ slice' = [slice EXCEPT ![p] = 0]
  /\ enter' = [enter EXCEPT ![p] = ticks]
  /\ reg' = [reg EXCEPT ![c] = 0]
  /\ Goto(c, "yield")
  /\ UNCHANGED <<state, child, ticks, cur, scanq, best, idx>>

\* The process gives up the CPU in state s; sched() resumes the scheduler at l.
Switch(c, s, l) ==
  /\ state' = [state EXCEPT ![cur[c]] = s]
  /\ cur' = [cur EXCEPT ![c] = NoProc]
  /\ Goto(c, l)

\* yield(): to the tail of its queue.
Yield(c) ==
  /\ pc[c] = "yield"
  /\ enter' = [enter EXCEPT ![cur[c]] = ticks]
  /\ Switch(c, "RUNNABLE", "next")
  /\ UNCHANGED <<queue, slice, child, ticks, scanq, best, idx, reg>>

---------------------------------------------------------------------------
(* Operations of the running process that change scheduling fields *)

Calls(c) == pc[c] = "user" /\ cur[c] \notin CpuBound

\* sleep(), when no wakeup came since sleep_prepare().
Sleep(c) ==
  /\ Calls(c)
  /\ child[cur[c]] = NoProc
  /\ slice' = [slice EXCEPT ![cur[c]] = 0]
  /\ Switch(c, "SLEEPING", "loop")
  /\ UNCHANGED <<queue, enter, child, ticks, scanq, best, idx, reg>>

\* wakeup() or kkill() finds p asleep; run by a process, by an interrupt
\* handler, or by clockintr() for the processes in sys_pause().
Wakeup(p) ==
  /\ state[p] = "SLEEPING"
  /\ Unlocked(p)
  /\ \E c \in CPUs : Kernel(c)
  /\ state' = [state EXCEPT ![p] = "RUNNABLE"]
  /\ enter' = [enter EXCEPT ![p] = ticks]
  /\ slice' = [slice EXCEPT ![p] = 0]
  /\ UNCHANGED <<queue, child, ticks, cpuvars>>

\* allocproc() in kfork(): the first free entry, in the highest queue.
AllocProc(c, n) ==
  /\ Calls(c)
  /\ child[cur[c]] = NoProc
  /\ state[n] = "UNUSED" /\ \A r \in 1..n - 1 : state[r] # "UNUSED"
  /\ state' = [state EXCEPT ![n] = "USED"]
  /\ queue' = [queue EXCEPT ![n] = 0]
  /\ slice' = [slice EXCEPT ![n] = 0]
  /\ enter' = [enter EXCEPT ![n] = ticks]
  /\ child' = [child EXCEPT ![cur[c]] = n]
  /\ UNCHANGED <<ticks, cpuvars>>

\* kfork() makes the child runnable, or frees it when memory runs out.
ForkDone(c) ==
  LET n == child[cur[c]] IN
  /\ Calls(c)
  /\ n # NoProc
  /\ \/ /\ state' = [state EXCEPT ![n] = "RUNNABLE"]
        /\ UNCHANGED <<queue, slice, enter>>
     \/ /\ state' = [state EXCEPT ![n] = "UNUSED"]
        /\ queue' = [queue EXCEPT ![n] = 0]
        /\ slice' = [slice EXCEPT ![n] = 0]
        /\ enter' = [enter EXCEPT ![n] = 0]
  /\ child' = [child EXCEPT ![cur[c]] = NoProc]
  /\ UNCHANGED <<ticks, cpuvars>>

\* kexit().
Exit(c) ==
  /\ Calls(c)
  /\ child[cur[c]] = NoProc
  /\ Switch(c, "ZOMBIE", "loop")
  /\ UNCHANGED <<queue, slice, enter, child, ticks, scanq, best, idx, reg>>

\* freeproc() of a zombie, by a process in kwait() or kwaitx().
Reap(c, z) ==
  /\ Calls(c)
  /\ state[z] = "ZOMBIE"
  /\ state' = [state EXCEPT ![z] = "UNUSED"]
  /\ queue' = [queue EXCEPT ![z] = 0]
  /\ slice' = [slice EXCEPT ![z] = 0]
  /\ enter' = [enter EXCEPT ![z] = 0]
  /\ UNCHANGED <<child, ticks, cpuvars>>

---------------------------------------------------------------------------
Scan(c) == StartScan(c) \/ ScanEntry(c) \/ ScanDone(c) \/ Resume(c)

Handler(c) ==
  WakeDone(c) \/ UpdateEntry(c) \/ BoostEntry(c) \/ Check(c) \/ Demote(c) \/ Yield(c)

Call(c) ==
  \/ Sleep(c)
  \/ \E n \in Procs : AllocProc(c, n)
  \/ ForkDone(c)
  \/ Exit(c)
  \/ \E z \in Procs : Reap(c, z)

Next ==
  \/ \E c \in CPUs : Scan(c) \/ Timer(c) \/ Handler(c) \/ Call(c)
  \/ \E p \in Procs : Wakeup(p)

Spec == Init /\ [][Next]_vars

\* CPUs run, and timer interrupts keep coming: one that is pending is taken as
\* soon as interrupts are on again.  Programs promise nothing.
Fairness ==
  \A c \in CPUs : /\ WF_vars(Scan(c))
                  /\ WF_vars(Handler(c))
                  /\ SF_vars(Timer(c))

FairSpec == Spec /\ Fairness

---------------------------------------------------------------------------
ControlOK ==
  /\ state \in [Procs -> States]
  /\ child \in [Procs -> Procs \cup {NoProc}]
  /\ cur \in [CPUs -> Procs \cup {NoProc}]
  /\ pc \in [CPUs -> PCs]
  /\ best \in [CPUs -> Procs \cup {NoProc}]

NumberOK ==
  /\ queue \in [Procs -> Queues]
  /\ slice \in [Procs -> Nat]
  /\ enter \in [Procs -> Nat]
  /\ ticks \in 0..TickMod - 1
  /\ scanq \in [CPUs -> Queues]
  /\ idx \in [CPUs -> 1..NPROC + 1]
  /\ reg \in [CPUs -> Queues]

\* Scheduling fields keep their ranges; p->queue always indexes slice_limit[].
TypeOK == ControlOK /\ NumberOK

\* A process is RUNNING exactly when one CPU, and only one, has it: no two
\* scheduler loops ever pick the same process.
OneCpuPerProcess ==
  /\ \A p \in Procs : state[p] = "RUNNING" <=> \E c \in CPUs : cur[c] = p
  /\ \A c, d \in CPUs : cur[c] = cur[d] /\ cur[c] # NoProc => c = d

\* scheduler() starts a process of the highest non-empty queue and in it the one
\* that entered first, table order breaking ties.
Before(p, r) ==
  \/ queue[p] < queue[r]
  \/ queue[p] = queue[r] /\ enter[p] < enter[r]
  \/ queue[p] = queue[r] /\ enter[p] = enter[r] /\ p <= r
StrictPriority ==
  [][\A c \in CPUs : cur[c] = NoProc /\ cur'[c] # NoProc
       => \A r \in Procs : state[r] = "RUNNABLE" => Before(cur'[c], r)]_vars

\* When boost_priority() returns, every active process is in queue 0.
BoostComplete ==
  [][\A c \in CPUs : pc[c] = "boost" /\ pc'[c] # "boost"
       => \A p \in Procs : state[p] # "UNUSED" => queue[p] = 0]_vars

\* A process moves down one queue at a time and only by using up its slice:
\* sleeping, being preempted or forking never costs priority.
DemotionEarned ==
  [][\A p \in Procs : queue'[p] > queue[p]
       => queue'[p] = queue[p] + 1 /\ slice[p] >= SliceLimit[queue[p]]]_vars

\* A runnable process is run, whatever the others do.
NoStarvation == \A p \in Procs : []<>(state[p] # "RUNNABLE")

---------------------------------------------------------------------------
\* The inductive invariant behind OneCpuPerProcess, for any number of CPUs: a
\* CPU has a process exactly outside the scheduler loop, a best_p is runnable
\* and held by one scan only, and a process under construction is USED.
CpuInv ==
  \A c \in CPUs :
    /\ pc[c] \in {"user", "check", "demote", "yield"} => cur[c] # NoProc
    /\ pc[c] \in {"loop", "next", "wfi", "scan"} => cur[c] = NoProc
    /\ best[c] # NoProc => pc[c] = "scan" /\ state[best[c]] = "RUNNABLE"
    /\ \A d \in CPUs : best[c] = best[d] /\ best[c] # NoProc => c = d
ForkInv ==
  \A p \in Procs : child[p] # NoProc =>
    /\ state[child[p]] = "USED"
    /\ \A r \in Procs : child[r] = child[p] => r = p
SchedInv == OneCpuPerProcess /\ CpuInv /\ ForkInv

\* What one CPU alone keeps true in the middle of a scan, of a boost and of a
\* demotion.
ScanInv(c) ==
  pc[c] = "scan" =>
    \A r \in Procs : state[r] = "RUNNABLE" =>
      /\ queue[r] >= scanq[c]
      /\ queue[r] = scanq[c] /\ r < idx[c] => best[c] # NoProc /\ Before(best[c], r)
BestInv(c) == best[c] # NoProc => queue[best[c]] = scanq[c] /\ best[c] < idx[c]
BoostInv(c) ==
  pc[c] = "boost" =>
    \A p \in Procs : p < idx[c] /\ state[p] # "UNUSED" => queue[p] = 0
DemoteInv(c) ==
  pc[c] = "demote" => reg[c] = Demoted(cur[c]) /\ SliceSpent(cur[c])
OneCpuInv == \A c \in CPUs : ScanInv(c) /\ BestInv(c) /\ BoostInv(c) /\ DemoteInv(c)
===========================================================================
