------------------------------- MODULE Snoop -------------------------------
(***************************************************************************)
(* The built-in snoop of c-shell (snoop.c), which counts the system calls  *)
(* of a program with ptrace, against the program it traces, signals sent   *)
(* to that program, other children of the shell, and the shell's own       *)
(* SIGCHLD handler (jobs.c), which waits for any child and so can take the *)
(* report of a stop before snoop's waitpid() is called.                    *)
(***************************************************************************)
EXTENDS Naturals

CONSTANTS SysNos,                       \* system call numbers
          MaxSysCalls, MaxSignals, MaxOthers

VARIABLES
  spc,                      \* where snoop_command() is
  tstate, tcall, texec,     \* the tracee; its call, 0 outside; the call execs
  tevent,                   \* a stop or exit waitpid() has not reported yet
  sysgood,                  \* PTRACE_O_TRACESYSGOOD is set
  chld, others,             \* SIGCHLD is pending; other children that exited
  got,                      \* status of the last waitpid()
  in_syscall, cur_sys_no, injected, stats,
  did,                      \* history: the calls completed
  sent                      \* signals sent, which a bound counts

snoopVars == <<spc, tstate, tcall, texec, tevent, sysgood, chld, others, got, in_syscall, cur_sys_no,
               injected, stats, did, sent>>
traceeVars == <<tstate, tcall, texec, tevent, did, sent>>
loopVars == <<in_syscall, cur_sys_no, injected, stats>>

SnoopInit ==
  /\ spc = "idle"
  /\ tstate = "none" /\ tcall = 0 /\ texec = FALSE /\ tevent = "none" /\ sysgood = FALSE
  /\ chld = FALSE /\ others = 0 /\ got = "none"
  /\ in_syscall = FALSE /\ cur_sys_no = 0 /\ injected = 0
  /\ stats = [n \in SysNos |-> 0] /\ did = [n \in SysNos |-> 0]
  /\ sent = 0

\* snoop_command(): the attach, or the fork of a child that asks to be traced.
StartSnoop ==
  /\ spc = "idle" /\ spc' = "wait0" /\ tstate' = "starting"
  /\ UNCHANGED <<tcall, texec, tevent, did, sent, sysgood, chld, others, got, loopVars>>

---------------------------------------------------------------------------
(* The tracee and other children (external) *)

Report(e, st) == tevent' = e /\ tstate' = st /\ chld' = TRUE

\* execvp() after PTRACE_TRACEME stops with SIGTRAP, an attach with SIGSTOP;
\* a program that is not found exits.
TraceeStarts ==
  /\ tstate = "starting"
  /\ Report("trap", "stopped") \/ Report("exited", "dead")
  /\ UNCHANGED <<spc, tcall, texec, sysgood, others, got, loopVars, did, sent>>

TraceeEnters ==
  /\ tstate = "running" /\ tcall = 0
  /\ \E n \in SysNos : did[n] < MaxSysCalls /\ tcall' = n
  /\ texec' \in BOOLEAN
  /\ Report(IF sysgood THEN "syscall" ELSE "trap", "stopped")
  /\ UNCHANGED <<spc, sysgood, others, got, loopVars, did, sent>>

\* An execve stops once more inside, with a plain SIGTRAP.
TraceeExecs ==
  /\ tstate = "running" /\ texec
  /\ texec' = FALSE /\ Report("trap", "stopped")
  /\ UNCHANGED <<spc, tcall, sysgood, others, got, loopVars, did, sent>>

TraceeLeaves ==
  /\ tstate = "running" /\ tcall # 0 /\ ~texec
  /\ did' = [did EXCEPT ![tcall] = @ + 1] /\ tcall' = 0
  /\ Report(IF sysgood THEN "syscall" ELSE "trap", "stopped")
  /\ UNCHANGED <<spc, texec, sysgood, others, got, loopVars, sent>>

TraceeSignalled ==
  /\ tstate = "running" /\ sent < MaxSignals
  /\ sent' = sent + 1 /\ Report("signal", "stopped")
  /\ UNCHANGED <<spc, tcall, texec, sysgood, others, got, loopVars, did>>

TraceeExits ==
  /\ tstate = "running"
  /\ Report("exited", "dead")
  /\ UNCHANGED <<spc, tcall, texec, sysgood, others, got, loopVars, did, sent>>

OtherChildExits ==
  /\ others < MaxOthers /\ others' = others + 1 /\ chld' = TRUE
  /\ UNCHANGED <<spc, traceeVars, sysgood, got, loopVars>>

---------------------------------------------------------------------------
(* The shell; a pending SIGCHLD is handled before its next step *)

\* sigchld_handler(): waitpid(-1) takes whatever there is to report.
SigchldHandler ==
  /\ chld /\ spc \notin {"blocked0", "blocked"}
  /\ chld' = FALSE /\ tevent' = "none"
  /\ UNCHANGED <<spc, tstate, tcall, texec, did, sent, sysgood, others, got, loopVars>>

EnterWait ==
  /\ spc \in {"wait0", "wait"} /\ ~chld
  /\ spc' = IF spc = "wait0" THEN "blocked0" ELSE "blocked"
  /\ UNCHANGED <<traceeVars, sysgood, chld, others, got, loopVars>>

\* waitpid() looks for a child before it looks for signals.
WaitReports ==
  /\ spc \in {"blocked0", "blocked"} /\ tevent # "none"
  /\ got' = tevent /\ tevent' = "none"
  /\ spc' = IF spc = "blocked0" THEN "check0" ELSE "check"
  /\ UNCHANGED <<tstate, tcall, texec, did, sent, sysgood, chld, others, loopVars>>

\* waitpid() fails, interrupted by SIGCHLD or with no child left.
Fails == tevent = "none" /\ (chld \/ tstate = "dead")

\* The first waitpid() is not checked, and its status is then uninitialized.
FirstWaitFails ==
  /\ spc = "blocked0" /\ Fails
  /\ spc' = "check0" /\ got' \in {"trap", "exited"}
  /\ UNCHANGED <<traceeVars, sysgood, chld, others, loopVars>>

\* In trace_loop() it ends the loop.
WaitFails ==
  /\ spc = "blocked" /\ Fails
  /\ spc' = "done"
  /\ UNCHANGED <<traceeVars, sysgood, chld, others, got, loopVars>>

\* "command not found" for a tracee that ended; PTRACE_SETOPTIONS needs a stop.
StartTracing ==
  /\ spc = "check0" /\ ~chld
  /\ spc' = IF got = "exited" THEN "done" ELSE "resume"
  /\ sysgood' = (got # "exited" /\ tstate = "stopped")
  /\ UNCHANGED <<traceeVars, chld, others, got, loopVars>>

\* ptrace(PTRACE_SYSCALL) with the signal to pass on; it fails without a stop.
ResumeTracee ==
  /\ spc = "resume" /\ ~chld
  /\ IF tstate = "stopped"
     THEN /\ tstate' = "running" /\ spc' = "wait"
          /\ injected' = 0
     ELSE spc' = "done" /\ UNCHANGED <<tstate, injected>>
  /\ UNCHANGED <<tcall, texec, tevent, did, sent, sysgood, chld, others, got, in_syscall, cur_sys_no,
                 stats>>

\* Every stop is taken for the boundary of a call.
LoopStopAny ==
  /\ spc = "check" /\ ~chld /\ got # "exited"
  /\ spc' = "resume"
  /\ in_syscall' = ~in_syscall
  /\ IF ~in_syscall THEN cur_sys_no' = tcall /\ stats' = stats
     ELSE /\ stats' = [n \in SysNos |-> IF n = cur_sys_no THEN stats[n] + 1 ELSE stats[n]]
          /\ cur_sys_no' = cur_sys_no
  /\ injected' = IF got = "signal" THEN 1 ELSE 0
  /\ UNCHANGED <<traceeVars, sysgood, chld, others, got>>

\* trace_loop(): entry and exit of a call alternate; other signals are passed on.
LoopStop ==
  /\ spc = "check" /\ ~chld /\ got # "exited"
  /\ spc' = "resume"
  /\ IF got = "syscall"
     THEN /\ in_syscall' = ~in_syscall
          /\ IF ~in_syscall THEN cur_sys_no' = tcall /\ stats' = stats
             ELSE stats' = [stats EXCEPT ![cur_sys_no] = @ + 1] /\ cur_sys_no' = cur_sys_no
     ELSE UNCHANGED <<in_syscall, cur_sys_no, stats>>
  /\ injected' = IF got = "signal" THEN 1 ELSE 0
  /\ UNCHANGED <<traceeVars, sysgood, chld, others, got>>

LoopExit ==
  /\ spc = "check" /\ ~chld /\ got = "exited"
  /\ spc' = "done"
  /\ UNCHANGED <<traceeVars, sysgood, chld, others, got, loopVars>>

TraceeStep == \/ TraceeStarts \/ TraceeEnters \/ TraceeExecs \/ TraceeLeaves \/ TraceeSignalled
              \/ TraceeExits
TracerStep == \/ SigchldHandler \/ EnterWait \/ WaitReports \/ FirstWaitFails \/ WaitFails
              \/ StartTracing \/ ResumeTracee \/ LoopStop \/ LoopExit

SnoopNext == StartSnoop \/ TraceeStep \/ OtherChildExits \/ TracerStep

SnoopSpec == SnoopInit /\ [][SnoopNext]_snoopVars

---------------------------------------------------------------------------
(* Properties *)

\* The table never shows a call the tracee has not completed.  As long as
\* trace_loop() goes on it stays in step with the tracee across signals, execs
\* and reports the handler took: each time the tracee is resumed the table has
\* exactly its completed calls and in_syscall is right.  When the first
\* waitpid() fails, PTRACE_SETOPTIONS may fail after it, unchecked: the stops at
\* calls are then plain traps, and nothing is ever counted.
SnoopInStep ==
  /\ \A n \in SysNos : stats[n] <= did[n]
  /\ spc = "resume" /\ tstate = "stopped" =>
       IF sysgood THEN /\ stats = did
                       /\ in_syscall <=> tcall # 0
                       /\ in_syscall => cur_sys_no = tcall
       ELSE \A n \in SysNos : stats[n] = 0
===========================================================================
