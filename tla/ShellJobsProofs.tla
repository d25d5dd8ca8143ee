--------------------------- MODULE ShellJobsProofs ---------------------------
(***************************************************************************)
(* Proofs about the shell's job control, for every number of processes and *)
(* every size of the tables.                                               *)
(***************************************************************************)
EXTENDS ShellJobs, FiniteSetTheorems, TLAPS

\* The terminal is back with the shell after every way out of a foreground
\* wait: reclaim_terminal() is on each path of execute_with_redirection() and
\* resume_command().
THEOREM TerminalIsReclaimed == Spec => []TerminalReclaimed
<1>1. Init => TerminalReclaimed
  BY DEF Init, TerminalReclaimed
<1>2. TerminalReclaimed /\ [Next]_vars => TerminalReclaimed'
  <2> SUFFICES ASSUME TerminalReclaimed, [Next]_vars PROVE TerminalReclaimed'
    OBVIOUS
  <2> USE DEF TerminalReclaimed
  <2>1. CASE \E p \in Pids : Exit(p) \/ Stop(p)
    BY <2>1 DEF Exit, Stop
  <2>2. CASE Delivery
    BY <2>2 DEF Delivery, Handler, PromptInterrupted, FgInterrupted, ResumeInterrupted,
                KillInterrupted, Interrupted
  <2>3. CASE FlushPrint \/ FlushClear
    BY <2>3 DEF FlushPrint, FlushClear
  <2>4. CASE Waiting
    BY <2>4 DEF Waiting, FgWait, FgDone, ResumeWait, ResumeDone, KillWait, ResumeEnd, Reclaim
  <2>5. CASE Typed
    BY ZenonT(30), <2>5 DEF Typed, ReadLine, Eof, ExitCommand, EndShell, Builtin, Activities, FgLaunch,
                BgLaunch, Ping, Resume
  <2>6. CASE Alarm
    BY <2>6 DEF Alarm
  <2>7. CASE UNCHANGED vars
    BY <2>7 DEF vars
  <2> QED
    BY <2>1, <2>2, <2>3, <2>4, <2>5, <2>6, <2>7 DEF Next, Runs, Types
<1> QED
  BY <1>1, <1>2, PTL DEF Spec

-----------------------------------------------------------------------------
(* Types *)

LEMMA PidsFinite == IsFiniteSet(Pids) /\ Cardinality(Pids) = MaxPid
  BY FS_Interval, ShellAssumption DEF Pids

\* What the handler adds fits into pending_msgs[].
LEMMA HandleMessages ==
  ASSUME TablesOK, MessagesOK, Handle, hup' = hup, printed' = printed
  PROVE  MessagesOK'
<1>1. PICK Z \in ReapSets :
        /\ \E S \in Queued(Z \cap jobActive) : pending' = pending \cup S
        /\ recorded' = recorded \cup (Z \cap jobActive)
  BY DEF Handle
<1>2. PICK S \in Queued(Z \cap jobActive) : pending' = pending \cup S
  BY <1>1
<1> DEFINE R == Z \cap jobActive
<1>3. R \subseteq Pids
  BY DEF TablesOK
<1>4. S \subseteq R /\ Cardinality(S) = Min2(Cardinality(R), MAX_PENDING - Cardinality(pending))
  BY <1>2 DEF Queued
<1>5. IsFiniteSet(R) /\ IsFiniteSet(S) /\ IsFiniteSet(pending)
  BY <1>3, <1>4, PidsFinite, FS_Subset DEF MessagesOK
<1>6. /\ Cardinality(R) \in Nat
      /\ Cardinality(S) \in Nat
      /\ Cardinality(pending) \in Nat
      /\ Cardinality(pending \cup S) \in Nat
      /\ Cardinality(pending \cup S) <= Cardinality(pending) + Cardinality(S)
  <2>1. /\ IsFiniteSet(pending \cup S) /\ IsFiniteSet(pending \cap S)
        /\ Cardinality(pending \cup S)
             = Cardinality(pending) + Cardinality(S) - Cardinality(pending \cap S)
    BY Zenon, <1>5, FS_Union, FS_Intersection
  <2>2. /\ Cardinality(R) \in Nat /\ Cardinality(S) \in Nat /\ Cardinality(pending) \in Nat
        /\ Cardinality(pending \cup S) \in Nat /\ Cardinality(pending \cap S) \in Nat
    BY <1>5, <2>1, FS_CardinalityType
  <2> HIDE DEF R
  <2> QED
    BY <2>1, <2>2
<1>7. Cardinality(S) <= MAX_PENDING - Cardinality(pending)
  <2> HIDE DEF R
  <2> QED
    BY <1>4, <1>6, ShellAssumption DEF Min2
<1>8. Cardinality(pending') <= MAX_PENDING
  BY <1>2, <1>6, <1>7, ShellAssumption
<1>9. pending' \subseteq Pids /\ recorded' \subseteq Pids
  BY <1>1, <1>2, <1>3, <1>4 DEF MessagesOK
<1> QED
  BY <1>8, <1>9 DEF MessagesOK

\* Types are kept by every step, the length of pending_msgs[] among them.
THEOREM ShellTypes == Spec => []TypeOK
<1>1. Init => TypeOK
  <2> SUFFICES ASSUME Init PROVE TypeOK
    OBVIOUS
  <2>1. KernelOK
    BY DEF Init, KernelOK
  <2>2. TablesOK
    BY DEF Init, TablesOK
  <2>3. MessagesOK
    BY FS_EmptySet, ShellAssumption DEF Init, MessagesOK
  <2>4. ControlOK
    BY DEF Init, ControlOK, PCs
  <2> QED
    BY <2>1, <2>2, <2>3, <2>4 DEF TypeOK
<1>2. TypeOK /\ [Next]_vars => TypeOK'
  <2> SUFFICES ASSUME KernelOK, TablesOK, MessagesOK, ControlOK, [Next]_vars PROVE TypeOK'
    BY DEF TypeOK
  <2>1. KernelOK'
    <3> USE DEF KernelOK
    <3>1. CASE \E p \in Pids : Exit(p) \/ Stop(p)
      BY <3>1 DEF Exit, Stop
    <3>2. CASE Delivery
      BY Zenon, <3>2 DEF Delivery, Handler, PromptInterrupted, FgInterrupted, ResumeInterrupted,
                  KillInterrupted, Interrupted, Handle
    <3>3. CASE FlushPrint \/ FlushClear
      BY <3>3 DEF FlushPrint, FlushClear
    <3>4. CASE Waiting
      BY <3>4 DEF Waiting, FgWait, WaitResult, FgDone, ResumeWait, ResumeDone, Continue,
                  KillWait, ResumeEnd, Reclaim
    <3>5. CASE Typed
      BY ZenonT(30), <3>5 DEF Typed, ReadLine, Eof, ExitCommand, Builtin, Activities, FgLaunch, Fork,
                  BgLaunch, Ping, Resume, Continue
    <3>6. CASE Alarm \/ UNCHANGED vars
      BY <3>6 DEF Alarm, vars
    <3> QED
      BY <3>1, <3>2, <3>3, <3>4, <3>5, <3>6 DEF Next, Runs, Types
  <2>2. TablesOK'
    <3> USE DEF TablesOK
    <3>1. CASE \E p \in Pids : Exit(p) \/ Stop(p)
      BY <3>1 DEF Exit, Stop, tables
    <3>2. CASE Delivery
      BY Zenon, <3>2 DEF Delivery, Handler, PromptInterrupted, FgInterrupted, ResumeInterrupted,
                  KillInterrupted, Interrupted, Handle, MarkExited
    <3>3. CASE FlushPrint \/ FlushClear
      BY <3>3 DEF FlushPrint, FlushClear, tables
    <3>4. CASE Waiting
      BY <3>4 DEF Waiting, FgWait, FgDone, ResumeWait, ResumeDone, KillWait, ResumeEnd,
                  Close, tables
    <3>5. CASE Typed
      <4>1. CASE \E p \in Pids : FgLaunch(p) \/ BgLaunch(p)
        <5> PICK p \in Pids : FgLaunch(p) \/ BgLaunch(p)
          BY <4>1
        <5>1. GroupAdd(p)
          BY DEF FgLaunch, BgLaunch
        <5>2. /\ group' \in [Pids -> Nat] /\ next' \in Nat \ {0}
              /\ groupActive' \subseteq Pids /\ listed' \subseteq Pids
              /\ groupStopped' \subseteq Pids
          BY <5>1 DEF GroupAdd, NextNumber
        <5>3. job' \in [Pids -> Nat] /\ jobActive' \subseteq Pids
          BY DEF FgLaunch, BgLaunch, JobNumber
        <5> QED
          BY <5>2, <5>3
      <4>2. CASE ReadLine \/ Eof \/ ExitCommand \/ Builtin \/ Activities
        BY <4>2 DEF ReadLine, Eof, ExitCommand, Builtin, Activities, tables
      <4>3. CASE \E p \in Pids : Ping(p) \/ (\E c \in Cmds : Resume(p, c))
        BY Zenon, <4>3 DEF Ping, Resume, tables
      <4> QED
        BY <3>5, <4>1, <4>2, <4>3 DEF Typed
    <3>6. CASE Alarm \/ UNCHANGED vars
      BY <3>6 DEF Alarm, vars, tables
    <3> QED
      BY <3>1, <3>2, <3>3, <3>4, <3>5, <3>6 DEF Next, Runs, Types
  <2>3. MessagesOK'
    <3>1. CASE \E p \in Pids : Exit(p) \/ Stop(p)
      BY <3>1 DEF Exit, Stop, history, MessagesOK
    <3>2. CASE Delivery
      <4>1. Handle /\ hup' = hup /\ printed' = printed
        BY <3>2 DEF Delivery, Handler, PromptInterrupted, FgInterrupted, ResumeInterrupted,
                    KillInterrupted, Interrupted
      <4> QED
        BY <4>1, HandleMessages
    <3>3. CASE FlushPrint
      BY <3>3 DEF FlushPrint, Min2, MessagesOK
    <3>4. CASE FlushClear
      BY <3>4, FS_EmptySet, ShellAssumption DEF FlushClear, ResetPending, history, MessagesOK
    <3>5. CASE Waiting
      BY <3>5 DEF Waiting, FgWait, FgDone, ResumeWait, ResumeDone, KillWait, ResumeEnd,
                  history, MessagesOK
    <3>6. CASE Typed
      BY Zenon, <3>6 DEF Typed, ReadLine, Eof, ExitCommand, EndShell, HangupTargets, Builtin,
                  Activities, FgLaunch, BgLaunch, Ping, Resume, history, MessagesOK, TablesOK
    <3>7. CASE Alarm \/ UNCHANGED vars
      BY <3>7 DEF Alarm, vars, history, MessagesOK
    <3> QED
      BY <3>1, <3>2, <3>3, <3>4, <3>5, <3>6, <3>7 DEF Next, Runs, Types
  <2>4. ControlOK'
    <3> USE DEF ControlOK, PCs
    <3>1. CASE \E p \in Pids : Exit(p) \/ Stop(p)
      BY <3>1 DEF Exit, Stop
    <3>2. CASE Delivery
      BY <3>2 DEF Delivery, Handler, PromptInterrupted, FgInterrupted, ResumeInterrupted,
                  KillInterrupted, Interrupted
    <3>3. CASE FlushPrint \/ FlushClear
      BY <3>3 DEF FlushPrint, FlushClear
    <3>4. CASE Waiting
      BY <3>4 DEF Waiting, FgWait, WaitResult, FgDone, ResumeWait, ResumeDone, KillWait,
                  ResumeEnd
    <3>5. CASE Typed
      BY ZenonT(30), <3>5 DEF Typed, ReadLine, Eof, EndShell, ExitCommand, Builtin, Activities, FgLaunch,
                  BgLaunch, Ping, Resume
    <3>6. CASE Alarm \/ UNCHANGED vars
      BY <3>6 DEF Alarm, vars
    <3> QED
      BY <3>1, <3>2, <3>3, <3>4, <3>5, <3>6 DEF Next, Runs, Types
  <2> QED
    BY <2>1, <2>2, <2>3, <2>4 DEF TypeOK
<1> QED
  BY <1>1, <1>2, PTL DEF Spec

-----------------------------------------------------------------------------
(* Job numbers *)

\* group_add() is the only writer of groups[].job_id and counts upwards.
LEMMA GroupInvStep == TablesOK /\ GroupInv /\ [Next]_vars => GroupInv'
<1> SUFFICES ASSUME TablesOK, GroupInv, [Next]_vars PROVE GroupInv'
  OBVIOUS
<1> USE DEF GroupInv
<1>1. CASE \E p \in Pids : FgLaunch(p) \/ BgLaunch(p)
  <2> PICK p \in Pids : GroupAdd(p)
    BY <1>1 DEF FgLaunch, BgLaunch
  <2>1. CASE Entries(group) < MAX_JOBS
    <3>1. group' = [group EXCEPT ![p] = next] /\ next' = next + 1
          /\ groupActive' = groupActive \cup {p}
      BY <2>1 DEF GroupAdd, NextNumber
    <3> QED
      BY <3>1 DEF TablesOK
  <2>2. CASE ~(Entries(group) < MAX_JOBS)
    BY <2>2 DEF GroupAdd
  <2> QED
    BY <2>1, <2>2
<1>2. CASE UNCHANGED <<group, next>> /\ groupActive' \subseteq groupActive
  BY <1>2
<1>3. CASE (\E p \in Pids : Exit(p) \/ Stop(p)) \/ FlushPrint \/ FlushClear \/ Alarm
            \/ UNCHANGED vars
  BY <1>2, <1>3 DEF Exit, Stop, FlushPrint, FlushClear, Alarm, tables, vars
<1>4. CASE Delivery
  BY SMTT(30), <1>2, <1>4 DEF Delivery, Handler, PromptInterrupted, FgInterrupted, ResumeInterrupted,
                    KillInterrupted, Interrupted
<1>5. CASE Waiting
  BY <1>2, <1>5 DEF Waiting, FgWait, FgDone, ResumeWait, ResumeDone, KillWait, ResumeEnd,
                    Close, tables
<1>6. CASE ReadLine \/ Eof \/ ExitCommand \/ Builtin \/ Activities
  BY <1>2, <1>6 DEF ReadLine, Eof, ExitCommand, Builtin, Activities, tables
<1>7. CASE \E p \in Pids : Ping(p) \/ (\E c \in Cmds : Resume(p, c))
  BY ZenonT(30), <1>2, <1>7 DEF Ping, Resume, tables
<1> QED
  BY <1>1, <1>3, <1>4, <1>5, <1>6, <1>7 DEF Next, Runs, Types, Typed

\* %N never names two active groups, however many commands come and go.
THEOREM GroupIdsAreUnique == Spec => []GroupIdsUnique
<1>1. Init => GroupInv
  BY DEF Init, GroupInv
<1>2. TypeOK => TablesOK
  BY DEF TypeOK
<1>3. TypeOK /\ GroupInv => GroupIdsUnique
  BY DEF TypeOK, TablesOK, GroupInv, GroupIdsUnique
<1> QED
  BY <1>1, <1>2, <1>3, GroupInvStep, ShellTypes, PTL DEF Spec

-----------------------------------------------------------------------------
(* Exit messages *)

\* The handler only makes messages for children it reaps in the same run.
LEMMA HandleReport ==
  ASSUME TypeOK, ReportInv, Handle, printed' = printed,
         pc' \in {"topped", "flushed"} => pc \in {"topped", "flushed"},
         pc \in {"topped", "flushed"} => pc' \in {"topped", "flushed"}
  PROVE  ReportInv'
<1>1. PICK Z \in ReapSets :
        /\ proc' = [p \in Pids |-> IF p \in Z THEN "reaped" ELSE proc[p]]
        /\ \E S \in Queued(Z \cap jobActive) : pending' = pending \cup S
        /\ recorded' = recorded \cup (Z \cap jobActive)
  BY ZenonT(30) DEF Handle
<1>2. PICK S \in Queued(Z \cap jobActive) : pending' = pending \cup S
  BY <1>1
<1>3. S \subseteq Z \cap jobActive
  BY <1>2 DEF Queued
<1>4. Z \subseteq Pids /\ \A p \in Z : proc[p] = "zombie"
  BY DEF ReapSets, Zombies
<1>5. \A p \in Z : p \notin recorded /\ printed[p] = 0
  BY <1>4 DEF ReportInv, TypeOK, MessagesOK
<1> QED
  BY <1>1, <1>2, <1>3, <1>4, <1>5 DEF ReportInv, TypeOK, MessagesOK

\* A reaped process stays reaped: nothing but fork() starts a process.
LEMMA ReapedStays ==
  ASSUME TypeOK, [Next]_vars, ~Delivery, NEW p \in Pids, proc[p] = "reaped"
  PROVE  proc'[p] = "reaped"
<1> USE DEF TypeOK, KernelOK
<1>1. CASE \E q \in Pids : Exit(q) \/ Stop(q)
  BY <1>1 DEF Exit, Stop
<1>2. CASE FlushPrint \/ FlushClear \/ Alarm \/ UNCHANGED vars
  BY <1>2 DEF FlushPrint, FlushClear, Alarm, vars
<1>3. CASE Waiting
  BY SMTT(30), <1>3 DEF Waiting, FgWait, WaitResult, FgDone, ResumeWait, ResumeDone, Continue, KillWait,
              ResumeEnd
<1>4. CASE Typed
  BY ZenonT(30), <1>4 DEF Typed, ReadLine, Eof, ExitCommand, Builtin, Activities, FgLaunch, BgLaunch, Fork,
              Ping, Live, Resume, Continue
<1> QED
  BY <1>1, <1>2, <1>3, <1>4 DEF Next, Runs, Types

\* Steps other than the handler and the flush leave the messages alone.
LEMMA ReportInvStep == TypeOK /\ ReportInv /\ [Next]_vars => ReportInv'
<1> SUFFICES ASSUME TypeOK, ReportInv, [Next]_vars PROVE ReportInv'
  OBVIOUS
<1>1. CASE Delivery
  <2>1. /\ Handle /\ printed' = printed
        /\ pc' \in {"topped", "flushed"} <=> pc \in {"topped", "flushed"}
    BY <1>1 DEF Delivery, Handler, PromptInterrupted, FgInterrupted, ResumeInterrupted,
                KillInterrupted, Interrupted
  <2> QED
    BY <2>1, HandleReport
<1>2. CASE FlushPrint
  BY <1>2 DEF FlushPrint, ReportInv, Min2, TypeOK, MessagesOK
<1>3. CASE FlushClear
  BY <1>3 DEF FlushClear, ResetPending, history, ReportInv
<1>4. ASSUME ~Delivery, UNCHANGED <<recorded, pending, printed>>,
             pc \in {"topped", "flushed"} => pc' \in {"topped", "flushed"}
      PROVE  ReportInv'
  <2>1. \A p \in recorded : proc'[p] = "reaped"
    BY <1>4, ReapedStays DEF ReportInv, TypeOK, MessagesOK
  <2> QED
    BY <1>4, <2>1 DEF ReportInv
<1>5. CASE ~Delivery /\ ((\E p \in Pids : Exit(p) \/ Stop(p)) \/ Alarm \/ UNCHANGED vars)
  BY SMTT(30), <1>4, <1>5 DEF Exit, Stop, Alarm, history, vars
<1>6. CASE ~Delivery /\ Waiting
  BY SMTT(30), <1>4, <1>6 DEF Waiting, FgWait, FgDone, ResumeWait, ResumeDone, KillWait, ResumeEnd, history
<1>7. CASE ~Delivery /\ Typed
  BY Zenon, <1>4, <1>7 DEF Typed, ReadLine, Eof, EndShell, ExitCommand, Builtin, Activities, FgLaunch,
                    BgLaunch, Ping, Resume, history
<1> QED
  BY <1>1, <1>2, <1>3, <1>5, <1>6, <1>7 DEF Next, Runs, Types

\* No exit message is printed twice, although the handler may run between the
\* loop of flush_pending_bg_messages() and its pending_count = 0.
THEOREM ExitsReportedOnce == Spec => []ReportedOnce
<1>1. Init => ReportInv
  BY DEF Init, ReportInv
<1>2. ReportInv => ReportedOnce
  BY DEF ReportInv, ReportedOnce
<1> QED
  BY <1>1, <1>2, ReportInvStep, ShellTypes, PTL DEF Spec

-----------------------------------------------------------------------------
(* Background jobs, while the tables have room *)

\* A proper subset of the processes is smaller than any table with room for all.
LEMMA Room ==
  ASSUME NEW Q \in SUBSET Pids, NEW p \in Pids, p \notin Q, NEW M \in Nat, M >= MaxPid
  PROVE  Cardinality(Q) < M
<1>1. IsFiniteSet(Pids \ {p}) /\ Cardinality(Pids \ {p}) = MaxPid - 1
  BY PidsFinite, FS_RemoveElement
<1>2. Q \subseteq Pids \ {p}
  OBVIOUS
<1>3. Cardinality(Q) \in Nat /\ Cardinality(Q) <= MaxPid - 1
  BY <1>1, <1>2, FS_Subset, FS_CardinalityType
<1> QED
  BY <1>3, ShellAssumption

\* A launch finds room in jobs[], groups[] and procs[].
LEMMA LaunchRoom ==
  ASSUME MAX_JOBS >= MaxPid, MAX_PROCS >= MaxPid, TypeOK, NumberInv,
         NEW p \in Pids, proc[p] = "none"
  PROVE  Entries(group) < MAX_JOBS /\ Entries(job) < MAX_JOBS
         /\ Cardinality(Launched) < MAX_PROCS
<1>1. group[p] = 0 /\ job[p] = 0
  BY DEF NumberInv
<1>2. Entries(group) < MAX_JOBS
  BY <1>1, Room, ShellAssumption DEF Entries
<1>3. Entries(job) < MAX_JOBS
  BY <1>1, Room, ShellAssumption DEF Entries
<1>4. Cardinality(Launched) < MAX_PROCS
  BY Room, ShellAssumption DEF Launched
<1> QED
  BY <1>2, <1>3, <1>4

\* What a launch with room does to the tables.
LEMMA LaunchEffect ==
  ASSUME MAX_JOBS >= MaxPid, MAX_PROCS >= MaxPid, TypeOK, NumberInv,
         NEW p \in Pids, FgLaunch(p) \/ BgLaunch(p)
  PROVE  /\ proc[p] = "none" /\ proc' = [proc EXCEPT ![p] = "run"]
         /\ group' = [group EXCEPT ![p] = next]
         /\ groupActive' = groupActive \cup {p}
         /\ listed' = listed \cup {p}
         /\ job' = job \/ job' = [job EXCEPT ![p] = next]
         /\ FgLaunch(p) => job' = job
<1>1. proc[p] = "none" /\ proc' = [proc EXCEPT ![p] = "run"] /\ GroupAdd(p)
  BY SMTT(30) DEF FgLaunch, BgLaunch, Fork
<1> QED
  BY <1>1, LaunchRoom DEF GroupAdd, FgLaunch, BgLaunch, JobNumber

\* Only a launch writes a job number, into both tables.
LEMMA NumberInvStep ==
  ASSUME MAX_JOBS >= MaxPid, MAX_PROCS >= MaxPid
  PROVE  TypeOK /\ NumberInv /\ [Next]_vars => NumberInv'
<1> SUFFICES ASSUME TypeOK, NumberInv, [Next]_vars PROVE NumberInv'
  OBVIOUS
<1> USE DEF NumberInv, JobsLineUp
<1>1. CASE \E p \in Pids : FgLaunch(p) \/ BgLaunch(p)
  <2> PICK p \in Pids : FgLaunch(p) \/ BgLaunch(p)
    BY <1>1
  <2> QED
    BY LaunchEffect DEF TypeOK, KernelOK, TablesOK
<1>2. ASSUME UNCHANGED <<job, group>>,
             \A p \in Pids : proc'[p] = "none" => proc[p] = "none"
      PROVE  NumberInv'
  BY SMTT(30), <1>2
<1> USE DEF TypeOK, KernelOK
<1>3. CASE (\E p \in Pids : Exit(p) \/ Stop(p)) \/ FlushPrint \/ FlushClear \/ Alarm
            \/ UNCHANGED vars
  BY SMTT(30), <1>2, <1>3 DEF Exit, Stop, FlushPrint, FlushClear, Alarm, tables, vars
<1>4. CASE Delivery
  <2>1. Handle /\ UNCHANGED <<job, group>>
    BY ZenonT(30), <1>4 DEF Delivery, Handler, PromptInterrupted, FgInterrupted, ResumeInterrupted,
                KillInterrupted, Interrupted
  <2>2. \A p \in Pids : proc'[p] = "none" => proc[p] = "none"
    BY SMTT(30), <2>1 DEF Handle
  <2> QED
    BY SMTT(30), <1>2, <2>1, <2>2
<1>5. CASE Waiting
  BY ZenonT(30), <1>2, <1>5 DEF Waiting, FgWait, WaitResult, FgDone, ResumeWait, ResumeDone, Continue,
                    KillWait, ResumeEnd, tables
<1>6. CASE ReadLine \/ Eof \/ ExitCommand \/ Builtin \/ Activities
  BY ZenonT(30), <1>2, <1>6 DEF ReadLine, Eof, ExitCommand, Builtin, Activities, tables
<1>7. CASE \E p \in Pids : Ping(p) \/ (\E c \in Cmds : Resume(p, c))
  BY ZenonT(30), <1>2, <1>7 DEF Ping, Resume, Continue, tables
<1> QED
  BY <1>1, <1>3, <1>4, <1>5, <1>6, <1>7 DEF Next, Runs, Types, Typed

\* While the tables have room, the number printed for a background job is the
\* one %N refers to.
THEOREM JobNumbersLineUp ==
  ASSUME MAX_JOBS >= MaxPid, MAX_PROCS >= MaxPid
  PROVE  Spec => []JobsLineUp
<1>1. Init => NumberInv
  BY DEF Init, NumberInv, JobsLineUp
<1>2. TypeOK /\ NumberInv /\ [Next]_vars => NumberInv'
  BY NumberInvStep
<1>3. NumberInv => JobsLineUp
  BY ZenonT(30) DEF NumberInv
<1> QED
  BY <1>1, <1>2, <1>3, ShellTypes, PTL DEF Spec

\* The conjunct of BgInv that the prompt and the end of the shell rely on.
LEMMA BgInvStep ==
  ASSUME MAX_JOBS >= MaxPid, MAX_PROCS >= MaxPid
  PROVE  TypeOK /\ NumberInv /\ BgInv /\ [Next]_vars => BgInv'
<1> SUFFICES ASSUME TypeOK, NumberInv, BgInv, [Next]_vars PROVE BgInv'
  OBVIOUS
<1> USE DEF BgInv, HangupBg, Live, TypeOK, KernelOK
<1>1. CASE \E p \in Pids : FgLaunch(p) \/ BgLaunch(p)
  <2> PICK p \in Pids : FgLaunch(p) \/ BgLaunch(p)
    BY <1>1
  <2>1. job \in [Pids -> Nat] /\ job[p] = 0
    BY LaunchEffect DEF TablesOK, NumberInv
  <2>2. \A q \in Pids \ expired : job'[q] # 0 /\ Live(q)' => q \in groupActive' \cap listed'
    BY <2>1, LaunchEffect
  <2>3. /\ UNCHANGED <<alarm, expired>>
        /\ pc' \in {"fg_call", "cmd", "top"}
        /\ pc' = "fg_call" => fgp' = p /\ job' = job
    BY DEF FgLaunch, BgLaunch, history
  <2> QED
    BY <2>1, <2>2, <2>3
<1>2. CASE (\E p \in Pids : Exit(p) \/ Stop(p))
  BY SMTT(30), <1>2 DEF Exit, Stop, tables, history
<1>3. CASE FlushPrint \/ FlushClear \/ Alarm \/ UNCHANGED vars
  BY <1>3 DEF FlushPrint, FlushClear, Alarm, tables, history, vars
<1>4. CASE Delivery
  <2>1. PICK Z \in SUBSET Pids :
          /\ proc' = [p \in Pids |-> IF p \in Z THEN "reaped" ELSE proc[p]]
          /\ listed' = listed \ Z
          /\ UNCHANGED <<job, groupActive, hup, expired, fgp, alarm>>
    BY ZenonT(30), <1>4 DEF Delivery, Handler, PromptInterrupted, FgInterrupted, ResumeInterrupted,
                KillInterrupted, Interrupted, Handle, MarkExited, ReapSets, Zombies
  <2>2. \/ UNCHANGED <<pc, status>> /\ pc # "exited"
        \/ pc' = "top"
        \/ pc' = "fg_done" /\ pc = "fg_wait"
        \/ pc' \in {"r_call", "r_done"} /\ pc = "r_wait" /\ (pc' = "r_done" => alarm = "fired")
        \/ pc' = "r_end" /\ pc = "k_wait" /\ alarm = "fired"
    BY <1>4 DEF Delivery, Handler, PromptInterrupted, FgInterrupted, ResumeInterrupted,
                KillInterrupted, Interrupted
  <2>3. pc' \in {"r_done", "r_end"} /\ status' = "exited" /\ alarm' # "fired"
          => proc'[fgp'] = "reaped"
    BY SMTT(30), <2>1, <2>2 DEF ControlOK, Shell
  <2> QED
    BY SMTT(30), <2>1, <2>2, <2>3
<1>5. CASE Waiting
  <2>1. CASE FgWait
    BY <2>1 DEF FgWait, WaitResult, tables, history
  <2>2. CASE FgDone
    BY <2>2 DEF FgDone, Close, history
  <2>3. CASE ResumeWait
    BY <2>3 DEF ResumeWait, tables, history
  <2>4. CASE ResumeDone
    BY <2>4 DEF ResumeDone, Continue, tables, history
  <2>5. CASE KillWait
    BY <2>5 DEF KillWait, tables, history
  <2>6. CASE ResumeEnd
    BY SMTT(30), <2>6 DEF ResumeEnd, Close, history, ControlOK
  <2> QED
    BY SMTT(30), <1>5, <2>1, <2>2, <2>3, <2>4, <2>5, <2>6 DEF Waiting
<1>6. CASE ReadLine \/ Builtin
  BY SMTT(30), <1>6 DEF ReadLine, Builtin, tables, history
<1>7. CASE Eof \/ ExitCommand
  BY SMTT(30), <1>7 DEF Eof, ExitCommand, EndShell, HangupTargets, tables
<1>8. CASE Activities
  BY <1>8 DEF Activities, Alive, history
<1>9. CASE \E p \in Pids : Ping(p)
  BY SMTT(30), <1>9 DEF Ping, tables, history
<1>10. CASE \E p \in Pids, c \in Cmds : Resume(p, c)
  BY ZenonT(30), <1>10 DEF Resume, Continue, history
<1> QED
  BY ZenonT(30), <1>1, <1>2, <1>3, <1>4, <1>5, <1>6, <1>7, <1>8, <1>9, <1>10 DEF Next, Runs, Types, Typed

\* While the tables have room, a background job that resume has not timed out
\* stays in the tables until it ends and is hung up when the shell ends,
\* whatever is run, stopped, resumed, interrupted or listed in the meantime.
THEOREM BackgroundJobsKept ==
  ASSUME MAX_JOBS >= MaxPid, MAX_PROCS >= MaxPid
  PROVE  Spec => [](BgListed /\ HangupBg)
<1>1. Init => NumberInv /\ BgInv
  BY DEF Init, NumberInv, JobsLineUp, BgInv, HangupBg
<1>2. TypeOK /\ NumberInv /\ [Next]_vars => NumberInv'
  BY NumberInvStep
<1>3. TypeOK /\ NumberInv /\ BgInv /\ [Next]_vars => BgInv'
  BY BgInvStep
<1>4. BgInv => BgListed /\ HangupBg
  BY DEF BgInv, BgListed
<1> QED
  BY <1>1, <1>2, <1>3, <1>4, ShellTypes, PTL DEF Spec
=============================================================================
