------------------------------- MODULE Launch -------------------------------
(***************************************************************************)
(* How the shell launches one command line (c-shell/src/redirect.c): a     *)
(* command or a pipeline, in the foreground or the background, with the    *)
(* helper processes that feed "< file" and drain "> file" through pipes.   *)
(*                                                                         *)
(* The state is who holds which end of which pipe.  fork() copies what the *)
(* shell holds; the closes a new process makes before its first blocking   *)
(* call are part of the fork.  A program is an arbitrary one that reads    *)
(* its standard input, writes its standard output, and ends.  Data is      *)
(* counted in units of which a pipe holds Cap.                             *)
(***************************************************************************)
EXTENDS Integers, Sequences, FiniteSets

CONSTANTS Lines,      \* the command lines that are launched
          MaxStages,  \* bound: stages of a line
          Cap,        \* units a pipe holds
          InSize,     \* units in an input file
          OutMax      \* bound: units a program writes

Stages == 1..MaxStages

\* A line: its stages; whether it ends in &; the stages with "< file" and with
\* "> file"; those whose command is not found; those with an input file, and
\* with an output file, that cannot be opened.
Line == [n : Stages, bg : {0, 1}, in : SUBSET Stages, out : SUBSET Stages,
         missing : SUBSET Stages, badin : SUBSET Stages, badout : SUBSET Stages]

ASSUME LaunchAssumption ==
  /\ MaxStages \in Nat \ {0}
  /\ Lines \subseteq Line
  /\ \A l \in Lines : /\ l.in \cup l.out \cup l.missing \subseteq 1..l.n
                      /\ l.badin \subseteq l.in /\ l.badout \subseteq l.out
                      /\ l.n = 1 => l.missing = {}
  /\ Cap \in Nat \ {0} /\ InSize \in Nat /\ OutMax \in Nat

Writer(i) == <<"writer", i>>
Reader(i) == <<"reader", i>>
Child(i) == <<"child", i>>
Parent == <<"shell", 0>>
Procs == {"writer", "reader", "child"} \X Stages

In(i) == <<"in", i>>
Out(i) == <<"out", i>>
Between(i) == <<"data", i>>
Sync == <<"sync", 0>>
Pipes == ({"in", "out", "data"} \X Stages) \cup {Sync}

VARIABLES line,  \* the line that is launched
          rd,    \* rd[q]: holders of the read end of q
          wr,    \* wr[q]: holders of the write end of q
          buf,   \* buf[q]: units in q
          st,    \* what each process does
          left,  \* left[i]: units Writer(i) has not written yet
          wrote, \* wrote[i]: units Child(i) has written
          lpc, at, \* where the shell is, and at which stage
          todo,  \* processes the shell has still to wait for
          blk,   \* 1 when the shell blocks in waitpid()
          ended, \* a child has ended or stopped since it blocked
          halted, \* Ctrl-Z has stopped the commands of the line
          cut    \* history: a SIGCHLD has cut a wait short

launchVars == <<line, rd, wr, buf, st, left, wrote, lpc, at, todo, blk, ended, halted, cut>>

N == line.n
Bg == line.bg
HasIn == line.in
HasOut == line.out
Missing == line.missing
BadIn == line.badin
BadOut == line.badout

LaunchInit ==
  /\ line \in Lines
  /\ rd = [q \in Pipes |-> {}]
  /\ wr = [q \in Pipes |-> {}]
  /\ buf = [q \in Pipes |-> 0]
  /\ st = [p \in Procs |-> "none"]
  /\ left = [i \in Stages |-> InSize]
  /\ wrote = [i \in Stages |-> 0]
  /\ lpc = "pipes"
  /\ at = 1
  /\ todo = <<>>
  /\ blk = 0
  /\ ended = 0
  /\ halted = FALSE /\ cut = FALSE

----------------------------------------------------------------------------
(* The shell *)

Make(Q) ==
  /\ lpc = "pipes" /\ lpc' = "in"
  /\ LET made == [q \in Pipes |-> IF q \in Q THEN {Parent} ELSE {}] IN rd' = made /\ wr' = made
  /\ UNCHANGED <<buf, st, left, wrote, at, todo, blk, ended, halted, cut>>

\* Create every pipeline pipe up front; a single foreground command has none.
MakePipes == (N > 1 \/ Bg = 0) /\ Make({Between(i) : i \in 1..N - 1})

\* execute_background() of one command makes the sync pipe first.
MakeSync == N = 1 /\ Bg = 1 /\ Make({Sync})

\* A helper keeps what the shell holds, except the pipeline pipes it closes.
Inherit(h, p) ==
  [q \in Pipes |-> IF Parent \in h[q] /\ q[1] # "data" THEN h[q] \cup {p} ELSE h[q]]

\* The loops over the stages go on.
MoreStages == at < N

\* setup_input_redirection() for the present stage.  A file that cannot be
\* opened aborts the line.
SetupIn ==
  /\ lpc = "in"
  /\ IF at \in HasIn \ BadIn
       THEN /\ rd' = [Inherit(rd, Writer(at)) EXCEPT ![In(at)] = {Parent}]
            /\ wr' = [Inherit(wr, Writer(at)) EXCEPT ![In(at)] = {Writer(at)}]
            /\ st' = [st EXCEPT ![Writer(at)] = "run"]
       ELSE UNCHANGED <<rd, wr, st>>
  /\ IF at \in BadIn THEN lpc' = "abort" /\ at' = 1 ELSE lpc' = "out" /\ UNCHANGED at
  /\ UNCHANGED <<buf, left, wrote, todo, blk, ended, halted, cut>>

\* setup_output_redirection() for the present stage; then the next stage, or
\* the forks.
SetupOut ==
  /\ lpc = "out"
  /\ IF at \in HasOut \ BadOut
       THEN /\ rd' = [Inherit(rd, Reader(at)) EXCEPT ![Out(at)] = {Reader(at)}]
            /\ wr' = [Inherit(wr, Reader(at)) EXCEPT ![Out(at)] = {Parent}]
            /\ st' = [st EXCEPT ![Reader(at)] = "run"]
       ELSE UNCHANGED <<rd, wr, st>>
  /\ IF at \in BadOut THEN lpc' = "abort" /\ at' = 1
     ELSE IF MoreStages THEN lpc' = "in" /\ at' = at + 1
     ELSE lpc' = "fork" /\ at' = 1
  /\ UNCHANGED <<buf, left, wrote, todo, blk, ended, halted, cut>>

Stdin(i) == IF i \in HasIn THEN In(i) ELSE IF i > 1 THEN Between(i - 1) ELSE Parent
Stdout(i) == IF i \in HasOut THEN Out(i) ELSE IF i < N THEN Between(i) ELSE Parent

\* A child closes the pipeline pipes and its own redirection after dup2(), not
\* those of other stages.
ChildRd(i, h) ==
  [q \in Pipes |-> IF Parent \in h[q] /\ (q = Stdin(i) \/ q = Sync \/ q \in {In(j) : j \in Stages \ {i}})
                     THEN h[q] \cup {Child(i)} ELSE h[q]]

ClosesSyncNever == FALSE

\* Only execute_with_redirection_bg() closes the child's sync write end.
ClosesSync == N = 1

ChildWr(i, h) ==
  [q \in Pipes |-> IF Parent \in h[q] /\ (q = Stdout(i) \/ (q = Sync /\ ~ClosesSync)
                                         \/ q \in {Out(j) : j \in Stages \ {i}})
                     THEN h[q] \cup {Child(i)} ELSE h[q]]

\* The sync pipe of a background pipeline is made just before the forks.
WithSync(h) == IF Bg = 1 /\ N > 1 /\ at = 1 THEN [h EXCEPT ![Sync] = {Parent}] ELSE h

\* fork() of one stage, unless its command was not found.
ForkChild ==
  /\ lpc = "fork"
  /\ IF at \in Missing
       THEN rd' = WithSync(rd) /\ wr' = WithSync(wr) /\ UNCHANGED st
       ELSE /\ rd' = ChildRd(at, WithSync(rd))
            /\ wr' = ChildWr(at, WithSync(wr))
            /\ st' = [st EXCEPT ![Child(at)] = IF Bg = 1 THEN "sync" ELSE "run"]
  /\ IF MoreStages THEN at' = at + 1 /\ UNCHANGED lpc ELSE lpc' = "close" /\ UNCHANGED at
  /\ UNCHANGED <<buf, left, wrote, todo, blk, ended, halted, cut>>

\* waitpid(p) for a process that was started.
WaitFor(p) == IF st[p] = "none" THEN <<>> ELSE <<p>>

WaitChildOnly(i) == WaitFor(Child(i))

\* The waits for one stage: the command, then its helpers.
StageWaits(i) == WaitFor(Child(i)) \o WaitFor(Writer(i)) \o WaitFor(Reader(i))

Drop(h, Q) == [q \in Pipes |-> IF q \in Q THEN h[q] \ {Parent} ELSE h[q]]

\* The shell closes its copies.  In the foreground it then waits, stage by
\* stage (a stage that was not found is skipped, its helpers too); in the
\* background it fills in the job tables first and closes the sync pipe last.
CloseAll ==
  /\ lpc = "close"
  /\ rd' = Drop(rd, Pipes)
  /\ wr' = Drop(wr, IF Bg = 1 THEN Pipes \ {Sync} ELSE Pipes)
  /\ IF Bg = 1
       THEN lpc' = "register" /\ UNCHANGED <<todo, at>>
       ELSE /\ lpc' = "wait"
            /\ at' = 1
            /\ todo' = IF 1 \in Missing THEN <<>> ELSE StageWaits(1)
  /\ UNCHANGED <<buf, st, left, wrote, blk, ended, halted, cut>>

Register ==
  /\ lpc = "register"
  /\ wr' = Drop(wr, {Sync})
  /\ lpc' = "ret"
  /\ UNCHANGED <<rd, buf, st, left, wrote, at, todo, blk, ended, halted, cut>>

\* One stage of the clean-up after a failed redirection.
Abort ==
  /\ lpc = "abort"
  /\ rd' = Drop(rd, {In(at)})
  /\ wr' = Drop(wr, {Out(at)})
  /\ todo' = WaitFor(Writer(at)) \o WaitFor(Reader(at))
  /\ lpc' = "await"
  /\ UNCHANGED <<buf, st, left, wrote, at, blk, ended, halted, cut>>

Done(p) == st[p] = "dead"

\* waitpid(p) returns: p has ended, reaped by the handler or not; or p is a
\* command that has stopped (only the waits for commands have WUNTRACED).
Returns(p) == Done(p) \/ (halted /\ p[1] = "child")

\* waitpid() on the next process: it returns at once or blocks.
Wait ==
  /\ lpc \in {"wait", "await"}
  /\ todo # <<>>
  /\ IF Returns(Head(todo))
       THEN todo' = Tail(todo) /\ blk' = 0 /\ ended' = 0
       ELSE blk = 0 /\ blk' = 1 /\ ended' = 0 /\ UNCHANGED todo
  /\ UNCHANGED <<rd, wr, buf, st, left, wrote, lpc, at, halted, cut>>

\* The SIGCHLD of another child interrupts it: the shell goes on as if it had
\* returned.
WaitInterrupted ==
  /\ blk = 1
  /\ ended = 1
  /\ ~Returns(Head(todo))
  /\ todo' = Tail(todo)
  /\ blk' = 0
  /\ ended' = 0
  /\ cut' = TRUE
  /\ UNCHANGED <<rd, wr, buf, st, left, wrote, lpc, at, halted>>

\* On to the next stage, or back to the caller.
WaitDone ==
  /\ lpc \in {"wait", "await"}
  /\ todo = <<>>
  /\ IF MoreStages
       THEN /\ at' = at + 1
            /\ IF lpc = "await" THEN lpc' = "abort" /\ UNCHANGED todo
               ELSE /\ todo' = IF at + 1 \in Missing THEN <<>> ELSE StageWaits(at + 1)
                    /\ UNCHANGED lpc
            /\ UNCHANGED <<rd, wr>>
       ELSE /\ lpc' = "ret"
            /\ rd' = Drop(rd, Pipes)
            /\ wr' = Drop(wr, Pipes)
            /\ UNCHANGED <<at, todo>>
  /\ UNCHANGED <<buf, st, left, wrote, blk, ended, halted, cut>>

LaunchStep ==
  \/ MakePipes \/ MakeSync \/ SetupIn \/ SetupOut \/ ForkChild \/ CloseAll \/ Register
  \/ Abort \/ Wait \/ WaitInterrupted \/ WaitDone

----------------------------------------------------------------------------
(* The other processes *)

Die(p) ==
  /\ st' = [st EXCEPT ![p] = "dead"]
  /\ rd' = [q \in Pipes |-> rd[q] \ {p}]
  /\ wr' = [q \in Pipes |-> wr[q] \ {p}]
  /\ ended' = blk
  /\ UNCHANGED <<lpc, at, todo, blk, halted, cut>>

Stays(p, s) ==
  /\ st' = [st EXCEPT ![p] = s]
  /\ UNCHANGED <<rd, wr, ended, lpc, at, todo, blk, halted, cut>>

AtEof(q) == buf[q] = 0 /\ wr[q] = {}

\* The loop that copies the input files into the pipe; without a reader
\* SIGPIPE ends it.
WriterStep(i) ==
  LET p == Writer(i)  q == In(i) IN
  /\ st[p] = "run"
  /\ \/ /\ left[i] = 0 \/ rd[q] = {}
        /\ Die(p)
        /\ UNCHANGED <<buf, left>>
     \/ /\ left[i] > 0 /\ rd[q] # {} /\ buf[q] < Cap
        /\ buf' = [buf EXCEPT ![q] = @ + 1]
        /\ left' = [left EXCEPT ![i] = @ - 1]
        /\ Stays(p, "run")
  /\ UNCHANGED wrote

\* The loop that copies the pipe into the output files, until end of file.
ReaderStep(i) ==
  LET p == Reader(i)  q == Out(i) IN
  /\ st[p] = "run"
  /\ \/ /\ buf[q] > 0
        /\ buf' = [buf EXCEPT ![q] = @ - 1]
        /\ Stays(p, "run")
     \/ /\ AtEof(q)
        /\ Die(p)
        /\ UNCHANGED buf
  /\ UNCHANGED <<left, wrote>>

\* read(sync_fd) sees end of file, and execv() follows.
SyncRead(i) ==
  /\ st[Child(i)] = "sync"
  /\ wr[Sync] = {}
  /\ st' = [st EXCEPT ![Child(i)] = "run"]
  /\ rd' = [rd EXCEPT ![Sync] = @ \ {Child(i)}]
  /\ UNCHANGED <<wr, buf, left, wrote, ended, lpc, at, todo, blk, halted, cut>>

\* The program: it may read unless it has seen end of file, write, or end.
Program(i) ==
  LET p == Child(i)  in == Stdin(i)  out == Stdout(i) IN
  /\ ~halted
  /\ \/ /\ st[p] = "run"
        /\ \/ in \in Pipes /\ ~AtEof(in) /\ Stays(p, "read")
           \/ out \in Pipes /\ wrote[i] < OutMax /\ Stays(p, "write")
           \/ Die(p)
        /\ UNCHANGED <<buf, wrote>>
     \/ /\ st[p] = "read"
        /\ \/ /\ buf[in] > 0
              /\ buf' = [buf EXCEPT ![in] = @ - 1]
           \/ /\ AtEof(in)
              /\ UNCHANGED buf
        /\ Stays(p, "run")
        /\ UNCHANGED wrote
     \/ /\ st[p] = "write"
        /\ \/ /\ rd[out] = {}
              /\ Die(p)
              /\ UNCHANGED <<buf, wrote>>
           \/ /\ rd[out] # {} /\ buf[out] < Cap
              /\ buf' = [buf EXCEPT ![out] = @ + 1]
              /\ wrote' = [wrote EXCEPT ![i] = @ + 1]
              /\ Stays(p, "run")
  /\ UNCHANGED left

Process(i) == WriterStep(i) \/ ReaderStep(i) \/ SyncRead(i) \/ Program(i)

\* A background job of an earlier line ends: its SIGCHLD, too, interrupts.
OtherJobEnds ==
  /\ blk = 1 /\ ended = 0
  /\ ended' = 1
  /\ UNCHANGED <<rd, wr, buf, st, left, wrote, lpc, at, todo, blk, halted, cut>>

\* Ctrl-Z while the line has the terminal.  The commands stop; the helpers have
\* the shell's own handler for SIGTSTP, and go on.
CtrlZ ==
  /\ lpc = "wait" /\ ~halted
  /\ 1 \notin Missing
  /\ N = 1 => todo # <<>> /\ Head(todo) = Child(1)
  /\ \E i \in 1..N : st[Child(i)] \notin {"none", "dead"}
  /\ halted' = TRUE
  /\ ended' = blk
  /\ UNCHANGED <<rd, wr, buf, st, left, wrote, lpc, at, todo, blk, cut>>

Ended == lpc = "ret" /\ \A p \in Procs : st[p] \in {"none", "dead"}

\* A step of the shell or of a process of the line.
Run == (LaunchStep \/ \E i \in Stages : Process(i)) /\ UNCHANGED line

\* A launch is over when the shell is back and every process has ended, or
\* waits for what Ctrl-Z has stopped.
LaunchNext ==
  \/ Run
  \/ (OtherJobEnds \/ CtrlZ) /\ UNCHANGED line
  \/ (Ended \/ halted) /\ UNCHANGED launchVars

LaunchSpec == LaunchInit /\ [][LaunchNext]_launchVars

\* While some process can run, one does.  None can run forever, so that each
\* gets its turn.  Nothing says that another job ends or that Ctrl-Z is typed.
LaunchFairSpec == LaunchSpec /\ WF_launchVars(Run)

----------------------------------------------------------------------------
\* No launch hangs: all its processes end and the shell comes back.  When
\* Ctrl-Z stops the commands the shell comes back as well, unless it waits for
\* the helper of a redirection, which a stopped command keeps alive.
AllEnd == <>(Ended \/ (halted /\ (lpc = "ret" \/ HasIn \cup HasOut # {})))

\* A command that was forked gets to run its program.
CommandStarts == \A i \in Stages : st[Child(i)] = "sync" ~> st[Child(i)] # "sync"

\* When the shell comes back from a foreground line that was not stopped, with
\* no wait cut short by a SIGCHLD, every stage that was started has ended with
\* its helpers, and its output files hold all that was or will be written.
OutputComplete ==
  lpc = "ret" /\ Bg = 0 /\ ~cut /\ ~halted =>
    \A i \in (1..N) \ Missing :
      /\ {st[Child(i)], st[Writer(i)], st[Reader(i)]} \subseteq {"none", "dead"}
      /\ buf[Out(i)] = 0 /\ wr[Out(i)] = {}
=============================================================================
