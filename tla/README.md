# RuSHELL in TLA+

A TLA+ development kept beside the RuSHELL repository. It models the parts of
the system whose correctness depends on interleavings, crashes and resource
limits, model-checks them with TLC on small instances, and proves the most
important properties with TLAPS for every value of the constants.

`PROJECT.json` is the machine-readable index: components, runs, the map from
every definition to the source lines it models, mutants, findings, hazards and
theorems.

## 1. The system

The repository holds two programs.

**`src/c-shell/`, a POSIX job-control shell.** One process, plus a SIGCHLD
handler that may run between any two of its steps, plus the children it forks.

| part | sources | modelled by |
|---|---|---|
| job control: job, group and process tables, SIGCHLD handler, foreground wait, `activities`, `ping`, `resume --timeout`, terminal, end of the shell | `jobs.c`, `resume.c`, `ping.c`, `shell.c`, parts of `redirect.c` | `ShellJobs` (jobs of one process) |
| launching: redirection helpers, pipelines, background sync pipe | `redirect.c`, signal set-up of `jobs.c` | `Launch` |
| lexer, parser, splitting into segments, stages and arguments | `lexer.c`, `parser.c`, `shell.c` | `ShellText` |
| `hop`, its visit history | `hop.c` | `Hop` |
| command lookup, `locate` | `redirect.c`, `locate.c` | `Lookup` |
| `peek` | `peek.c` | `Peek` |
| `snoop` | `snoop.c` | `Snoop` |
| history, `reveal`, `spy`, prompt | the other files | not modelled (section 6) |

The parts meet in `redirect.c`: it forks with SIGCHLD blocked, enters the child
into the tables of `jobs.c`, hands over the terminal, and waits. The handler
reaps any child at any time, so every wait can find its child gone, and no call
is restarted after a SIGCHLD (`sa_flags` is 0).

**`src/xv6/`, the xv6 kernel for RISC-V** with an MLFQ scheduler (also FIFO and
round robin builds) and `waitx`.

| part | sources | modelled by |
|---|---|---|
| write-ahead log | `log.c`, parts of `bio.c` | `Log`, refining `AtomicDisk` |
| MLFQ scheduler, clock interrupt, boost, time slices | `proc.c`, `trap.c` | `Mlfq` |
| process life cycle: fork, exit, wait, sleep, wakeup, kill | `proc.c`, `sysproc.c` | `Proc` |
| spinlocks, interrupts on and off | `spinlock.c` | `SpinLock` |
| pipes | `pipe.c` | `Pipe`, refining `ByteStream` |
| buffer cache, sleep locks | `bio.c`, `sleeplock.c` | `Bcache` |
| virtio disk | `virtio_disk.c` | `Virtio` |
| console input, UART output | `console.c`, `uart.c` | `Console`, refining `LineInput`; `Uart` |
| open files, descriptors | `file.c`, `sysfile.c` | `Files` |
| blocks of files | `fs.c`, `file.c` | `FileBlocks` |
| inodes, directories, path walks | `fs.c`, `sysfile.c` | `Inode` |
| page allocator, page tables, fork, exec, sbrk, lazy faults | `kalloc.c`, `vm.c`, `exec.c`, `proc.c` | `Vm` |
| FIFO and RR builds, `waitx` accounting, boot, assembly, printing | `proc.c`, rest of `kernel/` | not modelled (section 6) |
| user programs, `mkfs` | `user/`, `mkfs/` | clients and tests; their calls are the arbitrary calls of the kernel models |

The parts meet in `proc.c`: the log, pipes and drivers sleep and are woken
through it, and the clock interrupt drives the scheduler. What one part needs of
another is in its own module: each module that sleeps has `sleep_prepare`, the
sleep and the kill as steps of its own, and takes a spinlock section as one step
(`SpinLock` is about why it may).

## 2. Modules

| module | what it is |
|---|---|
| `Log`, `LogProofs`, `LogTheorems` | `log.c`: operations, commit, `sys_sync`, crash and recovery; types and inductive invariant; what follows from it |
| `AtomicDisk` | what the log promises: a disk that changes all at once, at commit points, and survives crashes |
| `Mlfq`, `MlfqProofs`, `MlfqPolicyProofs` | the scheduler; proofs for any number of CPUs; proofs of the policy on one CPU |
| `Proc`, `ProcProofs` | fork, exit, wait, kill, pause, sleep and wakeup; their proofs |
| `SpinLock`, `SpinProofs` | spinlocks and nested interrupt disabling; their proofs |
| `Pipe`, `PipeProofs`, `ByteStream` | pipes; their proofs; what a pipe promises |
| `Bcache`, `Virtio`, `Console`, `Uart` | the block and character devices and the cache over the disk |
| `LineInput` | what console input promises: whole lines, edited |
| `Files`, `FileBlocks`, `Inode`, `Vm` | descriptors and open files; blocks of a file; the tree; memory |
| `ShellJobs`, `ShellJobsProofs` | the shell's job control; its proofs |
| `Launch` | one command line from `pipe()` to the last `waitpid()` |
| `ShellText`, `Peek`, `Hop`, `Lookup`, `Snoop` | the other parts of the shell |
| `MCLog`, `MCMlfq`, `MCProc`, `MCShellJobs`, `MCLaunch` | values of the constants for TLC |
| `MCKernelWaits`, `MCDevices`, `MCKernel`, `MCProcess`, `MCShell` | several components in one instance: a variable `part`, chosen in `Init`, says which of them a behavior runs; the others keep their initial state |

The last row saves TLC instances, nothing else: the reachable states are the
disjoint union of those of the parts, and each property speaks of the variables
of one part. The components in one instance do not interact there.

A definition whose name varies the next one (`NoSpaceLast` before `NoSpace`,
`ReleaseSleepSilent` before `ReleaseSleep`) is a mutant: a plausible mistake in that
piece of code. Replacing the real definition by it must break the property
`PROJECT.json` lists with it.

### Log

State: the disk (`home`, `dlog`, `dhead`), memory (`cache`, `pinned`, `lh`,
`outstanding`, `committing`, `ncommit`) and, per process, where it is in its
call. A block's contents are one value and one disk write is atomic. Each
critical section of `log.lock` is one step, and so is each iteration of
`write_log` and `install_trans`. `Crash` is possible in every state, also in the
middle of recovery, and loses all memory. `Bread` gives the cached contents of a
pinned buffer and either the cached or the on-disk contents of an unpinned one:
that is what `bpin` is for. `panic()` is a phase in which nothing but a crash
happens. History variables count the operations started, ended and committed.

### Mlfq

State: the scheduling fields of the process table, and for each CPU its place in
`scheduler()` or in the trap code. Loops over the table take one step per entry,
because `p->lock` is held for one entry at a time; the scan keeps the lock of
`best_p`. The trap code reads `p->queue` in one step and stores it in another,
since it holds no lock. `ticks` wraps at a multiple of the boost interval: a
boost gives all processes the same `enter_time`, so only the ticks since the
last boost are ever compared. The accounting fields are not read by the
scheduler and are left out.

### Proc

State: `state`, `pid`, `parent`, `chan` and `killed` of each entry of the process
table, the holder of `wait_lock`, and where each process is in its program or in
the kernel. A section under one `p->lock` is one step. `wait_lock` is a variable,
because `kwait` and `kexit` hold it over several such sections; a loop over the
table under it is one step, since parents and zombies change only under it.
`sleep_prepare` and `sleep` are separate steps, and a wakeup or a kill can come in
between. The scheduler is any choice of a runnable process; a process can be
preempted wherever it does not hold `wait_lock`. Forks fail at random; a program
may fault; `copyout` of the status may fail. `kill` takes the pids in `KillPids`,
0 included (every unused entry has pid 0) but not 1: killing `init` ends in the
panic of `kexit`. `init` itself never exits, faults or pauses; that it panics when
its own fork fails or it has no child (`user/init.c`) is left out.

### ShellJobs

State: the processes as the kernel sees them, a pending SIGCHLD, the terminal's
owner, the tables, and the shell's place in its code. Code with SIGCHLD blocked
is one step. A pending signal is delivered before the next step of the shell; a
blocking call is entered and left in separate steps, so that a signal can arrive
before it, in it, or after it. A `waitpid()` that fails leaves `status` as it
was, uninitialised in `redirect.c:270`: the model takes either value.

### Launch

State: who holds which end of which pipe, what each process is doing, and where
the shell is. `fork()` copies what the shell holds; the closes a new process
makes before its first blocking call belong to the fork. A program is arbitrary:
it reads, writes, or ends whenever it likes. The line that is launched is chosen
in `LaunchInit` from the constant `Lines`. While the shell blocks in a `waitpid()`, the SIGCHLD of any
other child, also of a background job of an earlier line (`OtherJobEnds`), can cut
it short (`WaitInterrupted`, which sets the history variable `cut`). `CtrlZ` stops
the commands while the line has the terminal. The helpers never call `exec`, so they keep
the shell's handler for SIGTSTP, which restarts their calls, and go on.

### SpinLock

State: `locked` and `cpu` of each lock, `noff` and `intena` of each CPU, whether
interrupts are on, and where the thread and the handler of each CPU are. The
stores to `locked` and `cpu` are separate steps. An interrupt can cut in wherever
interrupts are on; its handler takes locks too. Code takes locks in rising order.

### Pipe, Bcache, Virtio, Console, Uart

Each has the fields of its struct, the place of each process in its call, and
`p->chan` with `sleep_prepare`, `sleep`, `wakeup` and, where the code tests it,
`kill` as separate steps. Locks that are held over several steps (`pi->lock`,
`cons.lock`, `tx_lock`, a buffer's sleep lock) are variables. Counters and ring
indices wrap at a constant, as the unsigned fields do; `FirstIdx` and `FirstIndex`
start them just before the wrap. The virtio device takes requests in ring order and finishes them
in any order, also while the handler runs. A `copyin` or `copyout` may fail at
every byte of a pipe.

### Files, FileBlocks, Inode, Vm

`Files` counts references; a section of `ftable.lock` is one step, so `open`, `pipe`,
`fork` and `exit` take several. `FileBlocks` has the bitmap, the direct and
indirect addresses and the chunks of `filewrite`; other files compete for blocks
between two iterations of `writei`. `Inode` has two images of the tree, the cached and the committed one;
a crash goes back to the committed one and `ireclaim` follows. A step reaches from
one inode lock to the next. `Vm` has three-level page tables with two entries per
level; any `kalloc` may fail.

### ShellText, Peek, Hop, Lookup, Snoop

`ShellText` has the line as its state and `lex_line`, `parse_validate` and the
segment loop of `main` as operators on it, compared with a grammar and with an
independent definition of what each segment holds. `Peek` reads sources in chunks of any
length up to `CHUNK_SIZE`. `Hop` has the list in memory, the history file, restarts, and
other programs that create and remove directories. A save may fail, and a path with
a tab in it cannot be read back. The history variables `visits` and `saved` count the
visits themselves. `Lookup` compares the two ways in which the shell reads PATH:
`resolve_command` of `redirect.c` (`exec.c` has a copy that `main` never reaches) and `locate`. `Snoop` has the tracee as the kernel sees it and the shell's own
SIGCHLD handler, which may take a report meant for `snoop`.

## 3. Runs

Seven runs pass and five end in a violation (section 5).

| run | distinct states | shows |
|---|---|---|
| `log_crash` | 721,978 | `Log`: no panic (`NoPanic`), atomic commits across crashes (`CrashAtomic`, refinement of `AtomicDisk`), `SyncDurable` |
| `kernel_waits` | 399,155 | `Log`: everyone who waits for space or for a commit gets through (`WaiterAdmitted`, `SyncReturns`). `Pipe`: `PipeNoLostWakeup`, `PipeIsStream` (refinement of `ByteStream`). `Bcache`: reference counts (`RefcntExact`), only the holder of a buffer changes what a block reads as (`ViewChangedByHolder`), `WaiterGetsBuffer` |
| `devices` | 441,239 | `Mlfq` on one CPU: `StrictPriority`, `NoStarvation`. `Virtio`: a finished request moved its data (`TransferDone`), and every request finishes (`RequestReturns`). `Console`: `EditsLines` (refinement of `LineInput`). `Uart`: `WriteReturns` |
| `kernel_state` | 752,245 | `Mlfq` on two CPUs: `OneCpuPerProcess`. `SpinLock`: `IntrOffInSection`. `Files`: the counts of entries, pipe ends and inodes (`RefsExact`). `FileBlocks`: `ContentKept`, `BlocksExact`, `ChunkFitsLog`. `Inode`: `TreeSound`, `NoOrphanLost` |
| `process_all` | 34,088 | `Proc`: `NoLostWakeup`, `OrphanReaped`, `KilledPauserDies`. `Vm`: `PagesOwnedOnce` |
| `shell_all` | 245,718 | `ShellJobs`: `ReportedOnce`, `BgListed`, `ZombieReaped`, `WaitReturns`. `ShellText`: `QuoteRoundTrip`, `SegmentsExact`. `Peek`: `PeekExact`. `Hop`: `HopsToMostVisited`. `Lookup`: `LocateShowsWhatRuns`. `Snoop`: `SnoopInStep` |
| `launch_all` | 209,339 | `Launch`: `OutputComplete` and `AllEnd` for the lines that work |
| `mlfq_starvation` | | violation of `NoStarvation`: with more CPU-bound processes than ticks between boosts, the last table entry never runs |
| `shell_abandon` | | violation of `RunningListed`: an interrupted foreground wait drops the running command |
| `shell_lostmsg` | | violation of `MessageKept`: a message added between the flush loop and `pending_count = 0` is lost |
| `launch_bgpipeline` | | violation of `CommandStarts`: background pipeline stages keep their own sync pipe open |
| `launch_abort` | | violation of `AllEnd`: clean-up after a failed redirection waits for a helper it keeps alive |

The runs keep the properties that take several steps to violate. Types,
`LogInv`, `ParentAlive`, `LockHolderRuns`, `SpinExclusion`, `SpinNoPanic`,
`BoostComplete`, `DemotionEarned`, `TerminalReclaimed`, `GroupIdsUnique`,
`JobsLineUp` and `HangupBg` are stated in the modules and proved (section 4), so that no run
repeats them.

Several liveness properties have the form `[]<>P` where one might expect
`~P ~> P`. The two say the same, and TLC checks the first much faster.

### Bounds, and why they are enough

- `log_crash`: 2 processes, 4 blocks, 2 values, a log of 4 blocks of which an
  operation reserves 2, 4 operations between two boots. Two processes overlap,
  fill the reservation, wait for space and for a commit; four operations allow a
  commit after another one; four blocks can fill the log. `OpBlocks` is 1, one
  less than the reservation (section 5 says what happens without the slack;
  `filewrite` leaves some on purpose, `file.c:153`). Processes and blocks are interchangeable, so
  symmetry is sound for these safety properties (the action properties do not
  name one of them).
- `kernel_waits`, log: 3 processes, so that one waits for space while one commits and one
  syncs. The data plays no part: one block, one value. No symmetry.
- `kernel_waits`, pipe: a reader and two writers, 3 calls, a pipe of 2 bytes and
  counters that wrap at 4. A call of 3 bytes is longer than the pipe, so a writer
  sleeps in the middle of it and both counters wrap; a failing copy cuts it to 0, 1
  or 2 bytes. Cache: two processes, two buffers and three blocks, so that a buffer is
  recycled and one of the processes finds none free.
- `devices`: 6 descriptors are enough for two requests (each takes 3), which the device
  finishes in either order, and the third process waits for theirs; with 3 requests
  from index 5 the rings of 6 wrap. Two of the processes write (`Writing`) and one
  reads (`Reading`). The console's ring of 2 fills up
  and its counters wrap. Output batches of 1 make a write of 2 bytes wait in between.
- `kernel_state`: two CPUs and two locks nest to depth 2 in threads and handlers;
  3 file entries and 2 descriptors per process run out; 5 blocks run out in the middle
  of a write that needs the indirect block; 4 inodes, 2 names, 3 calls and one
  crash give a removed current directory, a removed open file and a reclaim.
- `process_all`, memory: 16 pages for two processes of up to 6 pages; every allocation
  may fail, so running out does not depend on the number; 4 calls.
- `mlfq`: slice limits 1, 1, 1, 2 instead of 1, 4, 8, 16 keep their order;
  every queue is reached before a boost. The starvation run scales 64 processes
  and 48 ticks down to 4 and 3.
- `process_all`, life cycle: 3 entries, 2 CPUs and 3 pids give `init`, a child and a grandchild, a
  full table, an entry that is used again, and an orphan that comes to `init` alive
  or as a zombie. Pid 2, which can have a child, can be killed. The invariants,
  and `ProcInv` behind them, were also checked with 4 pids (102,400 states).
- `shell_all`, job control: 2 launched processes, so that a background job's SIGCHLD meets a
  foreground wait. One message fits in `pending_msgs[]`, so it overflows.
  `jobs[]`, `groups[]` and `procs[]` have room for every process; the same run
  with 3 processes passes as well in about 9 minutes.
- `shell_all`, the rest: every line of up to 5 characters over two alphabets (quotes
  and backslashes; words and operators), against limits of 3 arguments and 2 stages
  that such lines exceed; one or two sources read in chunks of 1 or 2 bytes, so that
  lines straddle chunks; 2 hops of up to 2 arguments around a restart, over
  directories of which one has a tab in its path and two can be removed; a PATH of up to 3
  entries, empty ones included; 2 system calls, one signal and one other child
  for `snoop`.
- `launch_all`: lines of 1 and 2 stages with at most two redirections and any
  missing commands, files of 2 units through pipes of 1, so that writers
  block. Two redirections already put two helpers beside the commands, on one stage
  or on different ones. With up to three the instance has 757,704 states, and passes as well.

### Fairness

- `Log`: a process inside a call goes on with it, the disk answers, and no
  operation stays open for ever. Weak fairness per process; no fairness for new
  calls or crashes.
- `Mlfq`: each CPU executes (weak), and timer interrupts keep coming (strong,
  since interrupts are off in parts of the loop and a pending one is taken when
  they are on again). Programs promise nothing.
- `Proc`: timer interrupts preempt every running process (weak), the round robin
  scheduler reaches every entry (strong), a process goes on with the kernel code it
  is in whenever it has a CPU and gets `wait_lock` in the end (strong: it is
  preempted, and the lock taken, again and again), the clock ticks (weak), and
  `init` calls `wait` again and again, as `user/init.c` does. With `SCHED_MLFQ` the
  scheduler's part can fail (run `mlfq_starvation`), and with `SCHED_FIFO` nobody is
  preempted; there the liveness properties hold only as far as processes get a CPU.
- `Pipe`, `Bcache`, `Virtio`, `Uart`: a process that can run does, a pending
  interrupt is taken, the device works (weak). Spinlocks are not fair, and nothing
  stronger is assumed of them: calls are bounded, so a process is overtaken finitely
  often. The result is that no wakeup is lost, not that no process can be overtaken
  for ever. Kills, closes and new calls are never assumed.
- `ShellJobs`: the kernel delivers signals and the shell runs (weak). Nothing of
  the user or of the programs.
- `Launch`: while the shell or a process of the line can take a step, one of them
  does (weak, of all their steps together). No process can step for ever, so each
  gets its turn. Programs are taken to end: `OutMax` bounds what one writes, and its
  input is finite. Nothing says that Ctrl-Z is typed or that another job ends.

In the instances with a `part` the fairness of each component is conjoined with
`part = ...`, so that it binds the behaviors that run the component.

Deadlock is checked in all passing runs but `shell_all`, where the shell may exit, after which
nothing need happen. In the instances with a `part`, the step `Rests` lets the components
whose calls are bounded, or whose readers may wait for ever for input, come to
rest; the log, the scheduler, the life cycle and the spinlocks may not. Nothing
follows a panic of the disk driver, of the inode code or of the memory code, and
`Rests` excludes it, so that the absence of deadlock shows that none is reached
there. A panic of `bget` when every buffer is in use is possible. In
`launch_all` `LaunchNext` allows stuttering only once everything has ended or
Ctrl-Z has stopped the line.

## 4. Proofs

Every theorem holds for all values of the constants that satisfy the module's
`ASSUME`, and for unbounded numbers of processes, blocks, CPUs and jobs.

**Log.** `LogInvariant`: `LogInv` with the types is inductive. `CrashAtomic` and
`SyncDurable` are not inductive by themselves. `HeaderInv` (absorption keeps the
block numbers distinct), `OpInv` (`outstanding` counts the open operations and
none is open in a commit) and `PhaseInv` (what log blocks, home blocks and
buffers hold in each phase of commit and recovery) carry them. `LogIsCrashAtomic`
then maps every step to a step or a stutter of `AtomicDisk`: only `WriteHead`
changes what recovery would restore. `SyncIsDurable` follows from `SyncInv`, that
the commit count `sys_sync` waits for covers what had ended at the call.
`LogNeverPanics` needs `OpBlocks < MAXOPBLOCKS` and the invariant `ReserveInv`:
the header plus all reservations exceeds the log by no more than what the open
operations have used, counted by the set `Spent`.

**Mlfq.** `RunsOnOneCpu` (any number of CPUs) rests on `SchedInv`: a `best_p` is
runnable and held by one scan only. `StartsHighestPriority`,
`BoostsEveryProcess` and `DemotionIsEarned` assume `NCPU = 1` and rest on
`OneCpuInv`, what holds in the middle of a scan, of a boost and of a demotion.
With `NCPU = 2` TLC finds a counterexample to each.

**Proc.** `ProcInvariant`: `ProcInv` is inductive. `ParentAlive` and `NoLostWakeup` need
more than themselves: `LockInv` (which code holds `wait_lock`, and that its holder
runs), `ForkInv` (an entry being created belongs to one process and is nobody's
child before `np->parent = p`), `ParentInv` (a process past `reparent` has no child
left), `ChanInv` (a process about to become a zombie has woken its parent, which
cannot register again before `wait_lock` is free) and `WaitInv` (from the scan to the
sleep there is a child, and no zombie unless the channel has been cleared). The
proof first reduces the 26 actions to 19 kinds of step (`StepEffects`). From it:
`ProcTypes`, `OrphansAreAdopted`, `WaitMissesNoExit`, `NoSwitchWithWaitLock`.

**ShellJobs.** `ShellTypes` includes that the handler never writes past the end of
`pending_msgs[]`. `TerminalIsReclaimed`, `GroupIdsAreUnique` (from `GroupInv`) and
`ExitsReportedOnce` (from `ReportInv`) hold for any table sizes.
`JobNumbersLineUp` (from `NumberInv`) and `BackgroundJobsKept` (from `BgInv`)
assume tables large enough for all launched processes. `BgInv` says that a
background job's group is closed only when `resume` has seen it end or has timed
it out.

**SpinLock.** `SpinInvariant`: `SpinInv` is inductive, for any number of CPUs and
locks and any depth of nesting. `SectionsExclude` and `SpinlocksNeverPanic` are
conjuncts of it, but hold only together with the others: `IntrInv` (of the thread and
the handler of a CPU only the running one is inside a section, and `noff` counts
its locks), `LockInv` and `CpuInv` (`cpu` names the CPU in the section, except around the
two ends, where `locked` and `cpu` disagree). `InterruptsStayOff` follows from `IntrInv`:
`noff` is at least the number of sections the thread is in.

**Pipe.** For any number of readers and writers, any `PIPESIZE`, and counters
that wrap at any larger multiple of it. `PipeInvariant`: `PipeNoLostWakeup` speaks of the states
in which `pi->lock` is free; `WakeInv` adds who, while it is held, is on its way to
wake the sleepers. `PipesLoseNoWakeup` follows. `RingInvariant`: the counters stay
at most `PIPESIZE` apart, and an end in use is open. `PipesAreStreams` then shows
that `Pipe` implements `ByteStream`: `PutByte` appends, because fewer than
`PIPESIZE` places apart two bytes have different slots (`ModDistinct`), and `GetByte`
takes the first, because the wrap of a counter does not move its slot
(`ModMultiple`, which needs `UIntMod % PIPESIZE = 0`; 2^32 and 512 in the code). Every other step
leaves the stream alone.

**Only model-checked.** All liveness properties: the prover does not handle
fairness and ENABLED. `Peek` and `ShellText` compute over data by recursion or
over whole sequences, which it has no induction for. The safety properties of `Launch`, `Bcache`, `Virtio`, `Console`, `Uart`, `Files`, `FileBlocks`, `Inode`, `Vm`, `Hop`,
`Lookup` and `Snoop` are not proved.

## 5. What the runs found

Five runs end in a violation on purpose; `PROJECT.json` quotes for each the
comment or document that the code disagrees with. The same models show
further behaviours, some with other constants or with a stronger property, for which
no run is kept:

- `log.c:229`: `log_write` tests the length of the header before it looks for the
  block in it. With `OpBlocks = MAXOPBLOCKS`, writing a block again when the log
  is full panics although nothing would be appended.
- `trap.c:92`: with `NCPU = 2` the unlocked demotion overwrites a concurrent boost
  (`BoostComplete` fails).
- `proc.c:432`: a kill between `killed(p)` and `sleep()` in `kwait` does not wake the
  process, which then sleeps until a child exits. `sys_pause` has the same window,
  but the next tick repairs it (`KilledPauserDies`).
- `proc.c:864`: `kill(0)` marks the first unused entry, `allocproc` does not reset
  `p->killed`, and the next process created there is killed at once.
- `redirect.c:282`: when the handler reaps the foreground command first, `status`
  is uninitialised, and a dead job may be recorded as stopped.
- `jobs.c:164`: when `groups[]` is full, `job_add` hands out a number no group has
  (`JobsLineUp` fails with `MAX_JOBS < MaxPid`).
- `resume.c:122`: a background job that ends while resumed in the foreground is
  reaped by `resume` itself, and no exit message is made for it.
- `resume.c:147`: the wait after SIGTERM also ends on EINTR; the job is then
  removed while it may still run (history variable `expired`).
- `redirect.c:274`: the SIGCHLD of any other child (a helper, another stage, a background job)
  interrupts a wait, and the prompt can return before the line has ended.
  `OutputComplete` is therefore stated for lines none of whose waits was cut short.
- `redirect.c:279`: after Ctrl-Z the shell goes on to wait for the helpers without
  `WUNTRACED`. The helper of `cmd > file` lives until the stopped command closes its
  end, so the shell does not come back by itself. `AllEnd` leaves these lines out.
- `parser.c:27`: a line that ends in `;` is rejected, although `shell.c:183` handles it
  ("e.g. trailing ";" with nothing before EOF - just stop quietly") and
  `AI_usage.md:1301` asks to allow it. `SegmentsExact` makes an exception for it.
- `redirect.c:572`: the sync pipe exists before the helpers of a background
  command are forked, and they keep its write end: a background command with
  `> file`, or with `< file` larger than a pipe, never starts.
- `pipe.c:84`: a writer that is killed after it put bytes in returns without
  `wakeup(&pi->nread)`; readers asleep wait for the next writer or for the close
  (the one exception in `PipeNoLostWakeup`).
- `jobs.c`, `snoop.c`: the SIGCHLD handler can take the report of a stop before `snoop`'s
  `waitpid()` is called; tracee and `snoop` then wait for each other. The SIGCHLD of another
  child can also end `trace_loop()` before the tracee exits (`snoop.c:109` says
  "until the tracee exits"). What has been counted by then is right (`SnoopInStep`).
- `hop.c:140`: once another program has removed the working directory, `getcwd()`
  fails and no `hop` succeeds, not even to the home directory.
- `hop.c:130`: the history file separates its fields by tabs, so a directory with a tab in its
  path is forgotten at a restart.
- `hop.c:148`, read with `reveal.c`, and not in the model: when `prev_dir.txt` cannot be written,
  or the directory's name ends in white space, `reveal -` lists another
  directory than `hop -` goes to (`AI_usage.md:1327` asks that "shortcuts like - evaluate
  identically across both hop and reveal").

## 6. Not modelled

- Job control and launching: SIGINT, and SIGTSTP sent to the shell itself (Ctrl-Z while a
  command has the terminal is modelled); resuming a stopped line with redirections; a failing `pipe()` or `fork()`; pipelines in `ShellJobs` (several processes in one group); `errno` at
  end of file (`shell.c:68`). That a timeout is punctual is not stated: the alarm
  may fire before `waitpid()` blocks, and the model has that step.
- Rest of the shell: the history list (one sequential list operation per line);
  the listings of `reveal` and `spy` and the prompt (formatting and I/O without state);
  `prev_dir.txt`; a history file of `hop` that is half written or cannot be read;
  the times and the table `snoop` prints; out of memory in the lexer; read errors in `peek`.
- Scheduler builds other than MLFQ, and the `waitx` counters, on which nothing in the kernel
  depends.
- Devices: their set-up at boot, and `printk`'s own path to the UART.
- File system: `mknod`, `stat` and device files; a failing `copyout` in
  `readi` (`writei` has its failing `copyin`). Each call on the tree is atomic with respect to crashes in `Inode`; that it
  is so is what `Log` shows. Disk writes complete in order, as `bwrite` waits for each.
- Memory: `copyin` and `copyout`, and the kernel's own page table.
- Boot, assembly, traps at register level, printing and string functions are out of TLC's
  reach or pure formatting. User programs and `mkfs` are clients of the kernel.
- Composition: the components meet through small interfaces (a wakeup, an atomic operation of the log, a
  transfer) that each module has as steps of its own; no instance runs two of the large
  modules together.

## 7. What could follow

1. Pipelines in `ShellJobs` (several processes in one group), and its composition
   with `Launch`.
2. Theorems for `Bcache` (`RefcntExact`), `Files` (`RefsExact`) and the one-CPU
   time slices of `Mlfq`.
3. `update_proc_time` and `waitx`, counters against the history of states.
