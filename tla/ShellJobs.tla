----------------------------- MODULE ShellJobs -----------------------------
(***************************************************************************)
(* Job control in the shell (c-shell/src/jobs.c, with the callers of its   *)
(* functions in shell.c, redirect.c, resume.c and ping.c): the job, group  *)
(* and process tables, the SIGCHLD handler that reaps and reports, the     *)
(* foreground wait, resume with its timeout, the terminal's owner.         *)
(*                                                                         *)
(* A command is one process, the leader of its own group, so a process     *)
(* names its job, its group and its table entries.  A stretch of shell     *)
(* code with SIGCHLD blocked, or one that shares nothing with the handler, *)
(* is one step; a pending SIGCHLD is delivered before the next step of     *)
(* the shell, and a system call that blocks is entered and left in         *)
(* separate steps.  Messages are named by the process whose exit they      *)
(* report.                                                                 *)
(***************************************************************************)
EXTENDS Integers, FiniteSets

CONSTANTS MaxPid,       \* bound: processes launched
          MAX_JOBS,     \* capacity of jobs[] and groups[]
          MAX_PENDING,  \* capacity of pending_msgs[]
          MAX_PROCS,    \* capacity of procs[]
          Cmds          \* what the user may type

AllCmds == {"fg", "bg", "activities", "ping", "resume fg", "resume timeout",
            "resume bg", "eof", "exit()"}

ASSUME ShellAssumption ==
  /\ MaxPid \in Nat
  /\ MAX_JOBS \in Nat
  /\ MAX_PENDING \in Nat
  /\ MAX_PROCS \in Nat
  /\ Cmds \subseteq AllCmds

VARIABLES
  \* the kernel
  proc,         \* state of each process; "stopping": stopped, not yet reported
  sig,          \* SIGCHLD is pending
  term,         \* foreground group of the terminal, Shell or a process
  \* the tables; entries are never removed, only made inactive
  job,          \* job_id of a process's jobs[] entry, 0 when it has none
  jobActive,    \* processes whose jobs[] entry is active
  group,        \* job_id of a process's groups[] entry, 0 when it has none
  groupActive,  \* processes whose groups[] entry is active
  groupStopped, \* processes whose groups[] entry is marked stopped
  listed,       \* processes whose procs[] entry is active
  next,         \* next_job_number
  pending,      \* pending_msgs[]
  \* the shell's control
  pc,
  fgp,          \* the job the shell waits for
  status,       \* what the last wait left in status
  alarm,        \* resume's timer: "off", "set" or "fired" (timed_out)
  ctrld,        \* prev_ctrld
  \* history
  recorded,     \* exits for which the handler made a message
  printed,      \* how often each message was printed, up to 2
  hup,          \* groups sent SIGHUP when the shell ended
  expired       \* jobs that resume removed as timed out

tables == <<job, jobActive, group, groupActive, groupStopped, listed, next>>
history == <<recorded, printed, hup, expired>>
vars == <<proc, sig, term, job, jobActive, group, groupActive, groupStopped,
          listed, next, pending, pc, fgp, status, alarm, ctrld, recorded,
          printed, hup, expired>>

Pids == 1..MaxPid
Shell == 0
Live(p) == proc[p] \in {"run", "stopping", "stopped"}
Launched == {p \in Pids : proc[p] # "none"}
Min2(a, b) == IF a < b THEN a ELSE b

PCs == {"top", "topped", "reading", "cmd", "flush", "flushed", "fg_call", "fg_wait",
        "fg_done", "r_call", "r_wait", "r_done", "k_call", "k_wait", "r_end", "exited"}

Init ==
  /\ proc = [p \in Pids |-> "none"]
  /\ sig = 0
  /\ term = Shell
  /\ job = [p \in Pids |-> 0]
  /\ jobActive = {}
  /\ group = [p \in Pids |-> 0]
  /\ groupActive = {}
  /\ groupStopped = {}
  /\ listed = {}
  /\ next = 1
  /\ pending = {}
  /\ pc = "top"
  /\ fgp = Shell
  /\ status = "exited"
  /\ alarm = "off"
  /\ ctrld = 0
  /\ recorded = {}
  /\ printed = [p \in Pids |-> 0]
  /\ hup = {}
  /\ expired = {}

----------------------------------------------------------------------------
(* The children *)

\* A process ends, by itself or by a signal; a stopped one only by SIGKILL,
\* which ping sends.
Exit(p) ==
  /\ proc[p] = "run"
  /\ proc' = [proc EXCEPT ![p] = "zombie"]
  /\ sig' = 1
  /\ UNCHANGED <<term, tables, pending, pc, fgp, status, alarm, ctrld, history>>

\* Ctrl-Z while it has the terminal, or a stop signal of its own.
Stop(p) ==
  /\ proc[p] = "run"
  /\ proc' = [proc EXCEPT ![p] = "stopping"]
  /\ sig' = 1
  /\ UNCHANGED <<term, tables, pending, pc, fgp, status, alarm, ctrld, history>>

----------------------------------------------------------------------------
(* The SIGCHLD handler *)

Zombies == {p \in Pids : proc[p] = "zombie"}

ReapOne == IF Zombies = {} THEN {{}} ELSE {{p} : p \in Zombies}

\* The children one run of the handler reaps: all that have ended.
ReapSets == {Zombies}

\* The messages for which there is room.
Queued(Z) ==
  {S \in SUBSET Z : Cardinality(S) =
                      Min2(Cardinality(Z), MAX_PENDING - Cardinality(pending))}

\* mark_proc_exited() for each reaped child.
MarkExited(Z) == listed' = listed \ Z

Handle ==
  \E Z \in ReapSets :
    LET reported == Z \cap jobActive IN
    /\ proc' = [p \in Pids |-> IF p \in Z THEN "reaped" ELSE proc[p]]
    /\ MarkExited(Z)
    /\ jobActive' = jobActive \ reported
    /\ \E S \in Queued(reported) : pending' = pending \cup S
    /\ recorded' = recorded \cup reported
    /\ sig' = 0

\* The shell is inside a system call that blocks.
Blocked == pc \in {"reading", "fg_wait", "r_wait", "k_wait"}

\* The handler runs while the shell executes.
Handler ==
  /\ sig = 1
  /\ ~Blocked /\ pc # "exited"
  /\ Handle
  /\ UNCHANGED <<term, job, group, groupActive, groupStopped, next, pc, fgp, status,
                 alarm, ctrld, printed, hup, expired>>

\* The handler interrupts a system call, which returns EINTR (sa_flags is 0).
Interrupted(l) ==
  /\ sig = 1
  /\ Handle
  /\ pc' = l
  /\ UNCHANGED <<term, job, group, groupActive, groupStopped, next, printed, hup, expired>>

----------------------------------------------------------------------------
(* The prompt *)

\* flush_pending_bg_messages(), up to the last test of pending_count.
FlushPrint ==
  /\ pc \in {"top", "flush"}
  /\ IF pending = {}
       THEN pc' \in (IF pc = "top" THEN {"reading"} ELSE {"cmd", "top"})
       ELSE pc' = IF pc = "top" THEN "topped" ELSE "flushed"
  /\ printed' = [p \in Pids |-> IF p \in pending THEN Min2(printed[p] + 1, 2)
                                                 ELSE printed[p]]
  /\ UNCHANGED <<proc, sig, term, tables, pending, fgp, status, alarm, ctrld, recorded,
                 hup, expired>>

KeepPending == UNCHANGED pending

ResetPending == pending' = {}

\* pending_count = 0.  At the top of the loop the prompt follows; after a
\* command, the next one of the line or the top of the loop.
FlushClear ==
  /\ pc \in {"topped", "flushed"}
  /\ ResetPending
  /\ pc' \in (IF pc = "topped" THEN {"reading"} ELSE {"cmd", "top"})
  /\ UNCHANGED <<proc, sig, term, tables, fgp, status, alarm, ctrld, history>>

\* fgets() returns NULL with errno EINTR: a fresh prompt.
PromptInterrupted ==
  /\ pc = "reading"
  /\ Interrupted("top")
  /\ UNCHANGED <<fgp, status, alarm, ctrld>>

\* fgets() returns a line.
ReadLine ==
  /\ pc = "reading"
  /\ pc' = "cmd"
  /\ ctrld' = 0
  /\ UNCHANGED <<proc, sig, term, tables, pending, fgp, status, alarm, history>>

\* has_stopped_jobs().
HasStopped == groupActive \cap groupStopped # {}

\* The groups hangup_all_jobs() sends SIGHUP.
HangupTargets == groupActive

EndShell == hup' = HangupTargets /\ pc' = "exited"

\* Ctrl-D on an empty line.
Eof ==
  /\ "eof" \in Cmds
  /\ pc = "reading"
  /\ IF HasStopped /\ ctrld = 0
       THEN ctrld' = 1 /\ pc' = "top" /\ UNCHANGED hup
       ELSE EndShell /\ UNCHANGED ctrld
  /\ UNCHANGED <<proc, sig, term, tables, pending, fgp, status, alarm, recorded, printed,
                 expired>>

ExitCommand ==
  /\ "exit()" \in Cmds
  /\ pc = "cmd"
  /\ EndShell
  /\ UNCHANGED <<proc, sig, term, tables, pending, fgp, status, alarm, ctrld, recorded,
                 printed, expired>>

----------------------------------------------------------------------------
(* Launching a command *)

\* fork(): the next pid, which leads a group of its own.
Fork(p) ==
  /\ proc[p] = "none" /\ \A q \in 1..p - 1 : proc[q] # "none"
  /\ proc' = [proc EXCEPT ![p] = "run"]

Entries(t) == Cardinality({p \in Pids : t[p] # 0})

\* next_job_number++ in group_add(), which gives each group its own number.
NextNumber == next + 1

\* group_add() and group_add_member().
GroupAdd(p) ==
  /\ IF Entries(group) < MAX_JOBS
       THEN /\ group' = [group EXCEPT ![p] = next]
            /\ groupActive' = groupActive \cup {p}
            /\ next' = NextNumber
       ELSE UNCHANGED <<group, groupActive, next>>
  /\ listed' = IF Cardinality(Launched) < MAX_PROCS THEN listed \cup {p} ELSE listed
  /\ UNCHANGED groupStopped

\* execute_with_redirection() with SIGCHLD blocked.
FgLaunch(p) ==
  /\ "fg" \in Cmds
  /\ pc = "cmd"
  /\ Fork(p)
  /\ GroupAdd(p)
  /\ term' = p
  /\ fgp' = p
  /\ pc' = "fg_call"
  /\ UNCHANGED <<sig, job, jobActive, pending, status, alarm, ctrld, history>>

\* The number job_add() takes, which group_add() will use up.
JobNumber == next

\* execute_background() of one command.  The child waits at the sync pipe
\* until the tables are filled in.
BgLaunch(p) ==
  /\ "bg" \in Cmds
  /\ pc = "cmd"
  /\ Fork(p)
  /\ IF Entries(job) < MAX_JOBS
       THEN /\ job' = [job EXCEPT ![p] = JobNumber]
            /\ jobActive' = jobActive \cup {p}
       ELSE UNCHANGED <<job, jobActive>>
  /\ GroupAdd(p)
  /\ pc' \in {"cmd", "top"}
  /\ UNCHANGED <<sig, term, pending, fgp, status, alarm, ctrld, history>>

----------------------------------------------------------------------------
(* The foreground wait *)

WaitResultOwn(p) ==
  \/ /\ proc[p] = "zombie"
     /\ proc' = [proc EXCEPT ![p] = "reaped"]
     /\ status' = "exited"
  \/ /\ proc[p] = "stopping"
     /\ proc' = [proc EXCEPT ![p] = "stopped"]
     /\ status' = "stopped"

\* waitpid(pid, &status, WUNTRACED) when it returns at once.  A child that the
\* handler has reaped already gives ECHILD, and status is not written.
WaitResult(p) ==
  \/ /\ proc[p] = "zombie"
     /\ proc' = [proc EXCEPT ![p] = "reaped"]
     /\ status' = "exited"
  \/ /\ proc[p] = "stopping"
     /\ proc' = [proc EXCEPT ![p] = "stopped"]
     /\ status' = "stopped"
  \/ /\ proc[p] = "reaped"
     /\ status' \in {"exited", "stopped"}
     /\ UNCHANGED proc

FgWait ==
  /\ pc \in {"fg_call", "fg_wait"}
  /\ \/ WaitResult(fgp) /\ pc' = "fg_done"
     \/ /\ pc = "fg_call" /\ proc[fgp] \in {"run", "stopped"}
        /\ pc' = "fg_wait"
        /\ UNCHANGED <<proc, status>>
  /\ UNCHANGED <<sig, term, tables, pending, fgp, alarm, ctrld, history>>

\* The wait is interrupted by the SIGCHLD of another child.
FgInterrupted ==
  /\ pc = "fg_wait"
  /\ proc[fgp] \in {"run", "stopped"}
  /\ Interrupted("fg_done")
  /\ status' \in {"exited", "stopped"}
  /\ UNCHANGED <<fgp, alarm, ctrld>>

\* reclaim_terminal().
Reclaim == term' = Shell

\* mark_group_stopped(), or group_remove().
Close(p, st) ==
  IF st = "stopped"
    THEN /\ groupStopped' = IF p \in groupActive THEN groupStopped \cup {p} ELSE groupStopped
         /\ UNCHANGED <<groupActive, listed>>
    ELSE /\ groupActive' = groupActive \ {p}
         /\ listed' = listed \ {p}
         /\ UNCHANGED groupStopped

FgDone ==
  /\ pc = "fg_done"
  /\ Reclaim
  /\ Close(fgp, status)
  /\ fgp' = Shell
  /\ pc' = "flush"
  /\ UNCHANGED <<proc, sig, job, jobActive, group, next, pending, status, alarm, ctrld,
                 history>>

----------------------------------------------------------------------------
(* Builtins *)

\* A builtin that leaves the jobs alone, or a command that is not found.
Builtin ==
  /\ pc = "cmd"
  /\ pc' = "flush"
  /\ UNCHANGED <<proc, sig, term, tables, pending, fgp, status, alarm, ctrld, history>>

AliveRunning(p) == proc[p] = "run"

\* activities_print() takes a process for alive unless it is gone or a zombie.
Alive(p) == Live(p)

Activities ==
  /\ "activities" \in Cmds
  /\ pc = "cmd"
  /\ groupActive' = {p \in groupActive : p \in listed /\ Alive(p)}
  /\ listed' = {p \in listed : p \in groupActive' => Alive(p)}
  /\ pc' = "flush"
  /\ UNCHANGED <<proc, sig, term, job, jobActive, group, groupStopped, next, pending, fgp,
                 status, alarm, ctrld, history>>

\* ping: kill, stop or continue a tracked process or an active job.  A stop
\* or a continue may also leave it as it is.
Ping(p) ==
  /\ "ping" \in Cmds
  /\ pc = "cmd"
  /\ p \in listed \cup groupActive
  /\ Live(p)
  /\ \E s \in {"zombie", "stopping", "run"} :
       /\ s = "stopping" => proc[p] = "run"
       /\ proc' = [proc EXCEPT ![p] = s]
       /\ sig' = IF proc[p] = s THEN sig ELSE 1
  /\ pc' = "flush"
  /\ UNCHANGED <<term, tables, pending, fgp, status, alarm, ctrld, history>>

\* kill(-pgid, SIGCONT).
Continue(p) ==
  IF proc[p] \in {"stopping", "stopped"}
    THEN proc' = [proc EXCEPT ![p] = "run"] /\ sig' = 1
    ELSE UNCHANGED <<proc, sig>>

\* resume_command() up to its wait, for an active group.
Resume(p, c) ==
  /\ c \in Cmds \cap {"resume fg", "resume timeout", "resume bg"}
  /\ pc = "cmd"
  /\ p \in groupActive
  /\ Continue(p)
  /\ groupStopped' = groupStopped \ {p}
  /\ IF c = "resume bg"
       THEN pc' = "flush" /\ UNCHANGED <<term, fgp, alarm>>
       ELSE /\ pc' = "r_call"
            /\ term' = p
            /\ fgp' = p
            /\ alarm' = IF c = "resume timeout" THEN "set" ELSE "off"
  /\ UNCHANGED <<job, jobActive, group, groupActive, listed, next, pending, status, ctrld,
                 history>>

\* waitpid(-pgid, &status, WUNTRACED) in resume's loop: an exit is not the end
\* of the loop, a stop or ECHILD is.
ResumeWait ==
  /\ pc \in {"r_call", "r_wait"}
  /\ \/ /\ proc[fgp] = "zombie"
        /\ proc' = [proc EXCEPT ![fgp] = "reaped"]
        /\ pc' = "r_call"
        /\ UNCHANGED status
     \/ /\ proc[fgp] = "stopping"
        /\ proc' = [proc EXCEPT ![fgp] = "stopped"]
        /\ status' = "stopped"
        /\ pc' = "r_done"
     \/ /\ proc[fgp] = "reaped"
        /\ status' = "exited"
        /\ pc' = "r_done"
        /\ UNCHANGED proc
     \/ /\ pc = "r_call" /\ proc[fgp] \in {"run", "stopped"}
        /\ pc' = "r_wait"
        /\ UNCHANGED <<proc, status>>
  /\ UNCHANGED <<sig, term, tables, pending, fgp, alarm, ctrld, history>>

\* EINTR from a SIGCHLD: the loop ends only when the timer has expired.
ResumeInterrupted ==
  /\ pc = "r_wait"
  /\ proc[fgp] \in {"run", "stopped"}
  /\ Interrupted(IF alarm = "fired" THEN "r_done" ELSE "r_call")
  /\ status' = "exited"
  /\ UNCHANGED <<fgp, alarm, ctrld>>

\* SIGALRM: alarm_handler() sets timed_out and interrupts a wait that blocks.
Alarm ==
  /\ alarm = "set"
  /\ pc \in {"r_call", "r_wait", "r_done"}
  /\ alarm' = "fired"
  /\ IF pc = "r_wait" /\ proc[fgp] \in {"run", "stopped"}
       THEN pc' = "r_done" /\ status' = "exited"
       ELSE UNCHANGED <<pc, status>>
  /\ UNCHANGED <<proc, sig, term, tables, pending, fgp, ctrld, history>>

\* After the loop: cancel the timer, or terminate what is left of the job.
ResumeDone ==
  /\ pc = "r_done"
  /\ IF alarm = "fired"
       THEN /\ Continue(fgp)
            /\ pc' = "k_call"
            /\ UNCHANGED alarm
       ELSE /\ alarm' = "off"
            /\ pc' = "r_end"
            /\ UNCHANGED <<proc, sig>>
  /\ UNCHANGED <<term, tables, pending, fgp, status, ctrld, history>>

\* while (waitpid(-pgid, &status, 0) > 0) after SIGTERM and SIGCONT.
KillWait ==
  /\ pc \in {"k_call", "k_wait"}
  /\ \/ /\ proc[fgp] = "zombie"
        /\ proc' = [proc EXCEPT ![fgp] = "reaped"]
        /\ pc' = "k_call"
     \/ /\ proc[fgp] = "reaped"
        /\ pc' = "r_end"
        /\ UNCHANGED proc
     \/ /\ pc = "k_call" /\ Live(fgp)
        /\ pc' = "k_wait"
        /\ UNCHANGED proc
  /\ UNCHANGED <<sig, term, tables, pending, fgp, status, alarm, ctrld, history>>

\* The wait for the terminated job is interrupted: the loop ends.
KillInterrupted ==
  /\ pc = "k_wait"
  /\ Live(fgp)
  /\ Interrupted("r_end")
  /\ UNCHANGED <<fgp, status, alarm, ctrld>>

ResumeEnd ==
  /\ pc = "r_end"
  /\ Reclaim
  /\ Close(fgp, IF alarm = "fired" THEN "exited" ELSE status)
  /\ expired' = IF alarm = "fired" THEN expired \cup {fgp} ELSE expired
  /\ alarm' = "off"
  /\ fgp' = Shell
  /\ pc' = "flush"
  /\ UNCHANGED <<proc, sig, job, jobActive, group, next, pending, status, ctrld, recorded,
                 printed, hup>>

----------------------------------------------------------------------------
Delivery ==
  Handler \/ PromptInterrupted \/ FgInterrupted \/ ResumeInterrupted \/ KillInterrupted

Waiting ==
  FgWait \/ FgDone \/ ResumeWait \/ ResumeDone \/ KillWait \/ ResumeEnd

Typed ==
  \/ ReadLine \/ Eof \/ ExitCommand \/ Builtin \/ Activities
  \/ \E p \in Pids : FgLaunch(p) \/ BgLaunch(p) \/ Ping(p) \/ (\E c \in Cmds : Resume(p, c))

\* The shell's own step, when no signal has to be delivered first.
Runs == (sig = 0 \/ Blocked) /\ (FlushPrint \/ FlushClear \/ Waiting)
Types == (sig = 0 \/ Blocked) /\ Typed

Next ==
  \/ \E p \in Pids : Exit(p) \/ Stop(p)
  \/ Delivery \/ Runs \/ Types \/ Alarm

Spec == Init /\ [][Next]_vars

\* The kernel delivers signals and the shell runs; nothing is assumed of the
\* user or of the programs.
FairSpec == Spec /\ WF_vars(Delivery) /\ WF_vars(Runs)

----------------------------------------------------------------------------
KernelOK ==
  /\ proc \in [Pids -> {"none", "run", "stopping", "stopped", "zombie", "reaped"}]
  /\ sig \in {0, 1}
  /\ term \in Pids \cup {Shell}

TablesOK ==
  /\ job \in [Pids -> Nat]
  /\ group \in [Pids -> Nat]
  /\ jobActive \subseteq Pids /\ groupActive \subseteq Pids
  /\ groupStopped \subseteq Pids /\ listed \subseteq Pids
  /\ next \in Nat \ {0}

MessagesOK ==
  /\ pending \subseteq Pids
  /\ Cardinality(pending) <= MAX_PENDING
  /\ recorded \subseteq Pids /\ hup \subseteq Pids
  /\ printed \in [Pids -> 0..2]

ControlOK ==
  /\ pc \in PCs
  /\ fgp \in Pids \cup {Shell}
  /\ status \in {"exited", "stopped"}
  /\ alarm \in {"off", "set", "fired"}
  /\ ctrld \in {0, 1}

\* The tables, the signal state and the shell's control keep their types, and
\* the handler never writes past the end of pending_msgs[].
TypeOK == KernelOK /\ TablesOK /\ MessagesOK /\ ControlOK

\* Whenever the shell is not waiting for a foreground job it owns the terminal,
\* however the wait ended: exit, stop, timeout, a signal or a stolen child.
TerminalReclaimed ==
  pc \in {"top", "topped", "reading", "cmd", "flush", "flushed", "exited"} => term = Shell

\* No exit message is printed twice.
ReportedOnce == \A p \in Pids : printed[p] <= 1

\* %N names one job: two active groups never share a job number.
GroupIdsUnique ==
  \A p, q \in groupActive : group[p] = group[q] => p = q

\* group_add() "lines up" with job_add(): a background job's number in jobs[],
\* the one that was printed, is its number in groups[], the one %N refers to.
JobsLineUp == \A p \in Pids : job[p] # 0 => group[p] = job[p]

\* A background job stays in the tables that activities, ping and resume use
\* until it has ended or resume has timed it out, whatever happens to other
\* jobs in the meantime.
BgListed ==
  pc = "reading" =>
    \A p \in Pids \ expired : job[p] # 0 /\ Live(p) => p \in groupActive \cap listed

\* When the shell ends, every background job that is alive is sent SIGHUP, but
\* for those that resume has timed out.
HangupBg ==
  pc = "exited" => \A p \in Pids \ expired : job[p] # 0 /\ Live(p) => p \in hup

\* A child that has ended is reaped, even when several end before one SIGCHLD
\* is delivered, unless the shell ends first.
ZombieReaped ==
  \A p \in Pids : proc[p] = "zombie" ~> proc[p] = "reaped" \/ pc = "exited"

\* A wait for a job that has ended comes back, whether the wait or the handler
\* reaped it.
WaitReturns ==
  (pc \in {"fg_call", "fg_wait", "r_call", "r_wait"} /\ proc[fgp] \in {"zombie", "reaped"})
    ~> pc = "flush"

\* At the prompt every process the shell has started and that is alive is in
\* the tables that activities prints from.
RunningListed ==
  pc = "reading" => \A p \in Pids : Live(p) => p \in groupActive \cap listed

\* An exit message that the handler made is printed or still waits to be.
MessageKept == \A p \in recorded : p \in pending \/ printed[p] > 0

----------------------------------------------------------------------------
(* The inductive invariants behind the properties above *)

\* Job numbers are handed out in increasing order and never again.
GroupInv ==
  /\ \A p \in Pids : group[p] < next
  /\ \A p, q \in Pids : group[p] = group[q] /\ group[p] # 0 => p = q
  /\ \A p \in groupActive : group[p] # 0

\* A message belongs to a reaped child, and one that waits in pending_msgs[]
\* has not been printed except between the loop of the flush and its reset.
ReportInv ==
  /\ \A p \in recorded : proc[p] = "reaped"
  /\ pending \subseteq recorded
  /\ \A p \in Pids : printed[p] <= 1 /\ (printed[p] = 1 => p \in recorded)
  /\ pc \notin {"topped", "flushed"} => \A p \in pending : printed[p] = 0

\* A process that has not been launched is in no table; with room in them a
\* background job has the same number in jobs[] and groups[].
NumberInv ==
  /\ \A p \in Pids : proc[p] = "none" => job[p] = 0 /\ group[p] = 0
  /\ JobsLineUp

\* A background job's group is closed only when resume has seen it end or has
\* timed it out.
BgInv ==
  /\ pc \in {"fg_call", "fg_wait", "fg_done"} => fgp \in Pids /\ job[fgp] = 0
  /\ pc \in {"r_call", "r_wait", "r_done", "r_end", "k_call", "k_wait"} => fgp \in Pids
  /\ pc \in {"k_call", "k_wait"} => alarm = "fired"
  /\ pc \in {"r_done", "r_end"} /\ status = "exited" /\ alarm # "fired"
       => proc[fgp] = "reaped"
  /\ \A p \in Pids \ expired : job[p] # 0 /\ Live(p) => p \in groupActive \cap listed
  /\ HangupBg
============================================================================
