----------------------------- MODULE ProcProofs -----------------------------
(***************************************************************************)
(* Proofs about the life cycle of processes, for every size of the process *)
(* table and every number of CPUs and pids.                                *)
(***************************************************************************)
EXTENDS Proc, WellFoundedInduction, TLAPS

\* The table loops find an entry whenever there is one.
LEMMA FirstIn ==
  ASSUME NEW S, S \subseteq Procs, S # {}
  PROVE  First(S) \in S
<1>1. S \subseteq Nat
  BY ProcAssumption DEF Procs
<1>2. PICK x \in S : \A y \in S : ~(<<y, x>> \in OpToRel(<, Nat))
  BY Zenon, <1>1, WFMin, NatLessThanWellFounded
<1>3. \A y \in S : ~(y < x)
  BY Zenon, <1>1, <1>2 DEF OpToRel
<1>4. \A y \in S : x <= y
  BY <1>1, <1>3
<1> QED
  BY Zenon, <1>4 DEF First

LEMMA FirstUnused ==
  Unused # {} => First(Unused) \in Procs /\ state[First(Unused)] = "UNUSED"
<1>1. Unused \subseteq Procs
  BY DEF Unused
<1>2. Unused # {} => First(Unused) \in Unused
  BY Zenon, <1>1, FirstIn
<1> QED
  BY <1>2 DEF Unused

LEMMA FirstZombie ==
  ASSUME NEW p \in Procs, Zombies(p) # {}
  PROVE  /\ First(Zombies(p)) \in Procs
         /\ parent[First(Zombies(p))] = p /\ state[First(Zombies(p))] = "ZOMBIE"
<1>1. Zombies(p) \subseteq Procs
  BY DEF Zombies, Children
<1>2. First(Zombies(p)) \in Zombies(p)
  BY Zenon, <1>1, FirstIn
<1> QED
  BY <1>2 DEF Zombies, Children

LEMMA FirstWithPid ==
  ASSUME NEW n, \E q \in Procs : pid[q] = n
  PROVE  LET v == First({q \in Procs : pid[q] = n}) IN v \in Procs /\ pid[v] = n
<1> DEFINE S == {q \in Procs : pid[q] = n}
<1>1. S \subseteq Procs /\ S # {}
  OBVIOUS
<1>2. First(S) \in S
  BY Zenon, <1>1, FirstIn
<1> QED
  BY <1>2

-----------------------------------------------------------------------------
(* What the actions do, without the choice of the entry they do it to *)

LEMMA Ids ==
  /\ initproc \in Procs
  /\ NoProc \notin Procs
  /\ TicksChan \notin Procs
  /\ TicksChan # NoProc
  BY ProcAssumption DEF Procs, initproc, NoProc, TicksChan

Outside == {"user", "ret", "wait_lock", "pause", "exit_lock"}

\* A step of p between two places outside wait_lock that changes no other process.
Quiet(p, l) ==
  /\ At(p, pc[p]) /\ pc[p] \in Outside
  /\ l \in Outside /\ (l = "exit_lock" => p # initproc)
  /\ killed'[initproc] = killed[initproc]
  /\ Goto(p, l)
  /\ UNCHANGED <<state, pid, parent, chan, waitlock, np>>

ScanWaits(p) ==
  /\ At(p, "wait_lock") /\ waitlock = NoProc /\ waitlock' = p
  /\ \E q \in Procs : parent[q] = p
  /\ \A q \in Procs : parent[q] = p => state[q] # "ZOMBIE"
  /\ Goto(p, "wait_killed")
  /\ UNCHANGED <<state, pid, parent, chan, killed, np>>

PauseWaits(p) ==
  /\ At(p, "pause")
  /\ chan' = [chan EXCEPT ![p] = TicksChan]
  /\ Goto(p, "pause_sleep")
  /\ UNCHANGED <<state, pid, parent, killed, waitlock, np>>

ForkOf(p, n) ==
  /\ At(p, "user") /\ state[n] = "UNUSED"
  /\ state' = [state EXCEPT ![n] = "USED"]
  /\ pid' = [pid EXCEPT ![n] = nextpid]
  /\ np' = [np EXCEPT ![p] = n]
  /\ pc' = [pc EXCEPT ![p] = "fork_parent", ![n] = "user"]
  /\ UNCHANGED <<parent, chan, killed, waitlock>>

ForkFailOf(p, n) ==
  /\ At(p, "user") /\ state[n] = "UNUSED"
  /\ killed' = [killed EXCEPT ![n] = FALSE]
  /\ chan' = [chan EXCEPT ![n] = NoProc]
  /\ Goto(p, "ret")
  /\ UNCHANGED <<state, pid, parent, waitlock, np>>

ReapOf(p, z) ==
  /\ At(p, "wait_lock") /\ waitlock = NoProc
  /\ parent[z] = p /\ state[z] = "ZOMBIE"
  /\ parent' = [parent EXCEPT ![z] = NoProc]
  /\ state' = [state EXCEPT ![z] = "UNUSED"]
  /\ pid' = [pid EXCEPT ![z] = 0]
  /\ chan' = [chan EXCEPT ![z] = NoProc]
  /\ killed' = [killed EXCEPT ![z] = FALSE]
  /\ pc' = [pc EXCEPT ![p] = "ret", ![z] = "none"]
  /\ UNCHANGED <<waitlock, np>>

KillOf(p, v) ==
  /\ At(p, "user") /\ pid[v] # 1
  /\ killed' = [killed EXCEPT ![v] = TRUE]
  /\ state' = [state EXCEPT ![v] = IF @ = "SLEEPING" THEN "RUNNABLE" ELSE @]
  /\ Goto(p, "ret")
  /\ UNCHANGED <<pid, parent, chan, waitlock, np>>

LEMMA ForkEffect ==
  ASSUME NEW p \in Procs, Fork(p)
  PROVE  \E n \in Procs : ForkOf(p, n)
  BY Zenon, FirstUnused DEF Fork, ForkOf, Calls

LEMMA ForkFailEffect ==
  ASSUME NEW p \in Procs, ForkFail(p)
  PROVE  \E n \in Procs : ForkFailOf(p, n)
  BY Zenon, FirstUnused DEF ForkFail, ForkFailOf, Calls

LEMMA ReapEffect ==
  ASSUME NEW p \in Procs, Reap(p)
  PROVE  \E z \in Procs : ReapOf(p, z)
<1>1. Zombies(p) # {}
  BY DEF Reap
<1> QED
  BY Zenon, <1>1, FirstZombie DEF Reap, ReapOf

LEMMA KillEffect ==
  ASSUME NEW p \in Procs, Kill(p)
  PROVE  \E v \in Procs : KillOf(p, v)
<1>1. PICK n \in KillPids :
        /\ \E q \in Procs : pid[q] = n
        /\ LET v == First({q \in Procs : pid[q] = n}) IN
             /\ killed' = [killed EXCEPT ![v] = TRUE]
             /\ state' = [state EXCEPT ![v] = IF @ = "SLEEPING" THEN "RUNNABLE" ELSE @]
  BY Zenon DEF Kill
<1> DEFINE w == First({q \in Procs : pid[q] = n})
<1>2. w \in Procs /\ pid[w] = n
  BY Zenon, <1>1, FirstWithPid
<1>3. n # 1
  BY ProcAssumption
<1>4. KillOf(p, w)
  BY Zenon, <1>1, <1>2, <1>3 DEF Kill, KillOf, Calls
<1> QED
  BY Zenon, <1>2, <1>4

LEMMA QuietEffect ==
  ASSUME ProcInv, NEW p \in Procs,
         \/ Return(p) \/ Fault(p) \/ ForkFull(p) \/ CallExit(p) \/ CallWait(p)
         \/ CallPause(p) \/ KillNone(p) \/ ReapFail(p)
  PROVE  \E l \in Outside : Quiet(p, l)
<1> USE Ids DEF Quiet, Outside, At, Goto
<1>1. CASE Return(p)
  BY Zenon, <1>1 DEF Return, ProcInv, StateInv
<1>2. CASE Fault(p)
  BY Zenon, <1>2 DEF Fault, ProcInv, TypeOK
<1>3. CASE ForkFull(p) \/ KillNone(p) \/ ReapFail(p)
  BY <1>3 DEF ForkFull, KillNone, ReapFail, Calls
<1>4. CASE CallExit(p) \/ CallWait(p) \/ CallPause(p)
  BY <1>4 DEF CallExit, CallWait, CallPause, Calls
<1> QED
  BY <1>1, <1>2, <1>3, <1>4

LEMMA ScanEffect ==
  ASSUME NEW p \in Procs, ScanNone(p)
  PROVE  ScanWaits(p) \/ \E l \in Outside : Quiet(p, l)
<1>1. CASE Children(p) = {}
  BY <1>1 DEF ScanNone, Quiet, Outside, At, Goto
<1>2. CASE Children(p) # {}
  <2>1. /\ \E q \in Procs : parent[q] = p
        /\ \A q \in Procs : parent[q] = p => state[q] # "ZOMBIE"
    BY <1>2 DEF ScanNone, Zombies, Children
  <2> QED
    BY <1>2, <2>1 DEF ScanNone, ScanWaits
<1> QED
  BY <1>1, <1>2

LEMMA PauseEffect ==
  ASSUME NEW p \in Procs, PauseTest(p)
  PROVE  PauseWaits(p) \/ \E l \in Outside : Quiet(p, l)
<1>1. CASE left[p] = 0 \/ killed[p]
  BY <1>1 DEF PauseTest, Quiet, Outside, At, Goto
<1>2. CASE ~(left[p] = 0 \/ killed[p])
  BY <1>2 DEF PauseTest, PauseWaits
<1> QED
  BY <1>1, <1>2

Effects(p) ==
  \/ Dispatch(p) \/ Yield(p) \/ ForkParent(p) \/ ForkRun(p)
  \/ Reparent(p) \/ WakeParent(p) \/ BecomeZombie(p)
  \/ ScanWaits(p) \/ WaitKilled(p) \/ WaitPrepare(p) \/ WaitSleep(p)
  \/ PauseWaits(p) \/ PauseSleep(p)
  \/ \E l \in Outside : Quiet(p, l)
  \/ \E q \in Procs : ForkOf(p, q) \/ ForkFailOf(p, q) \/ ReapOf(p, q) \/ KillOf(p, q)

LEMMA StepEffects ==
  ASSUME ProcInv, [Next]_vars
  PROVE  Tick \/ UNCHANGED vars \/ \E p \in Procs : Effects(p)
<1>1. ASSUME NEW p \in Procs, Dispatch(p) \/ Yield(p) \/ KernelStep(p) \/ UserStep(p)
      PROVE  Effects(p)
  <2>1. CASE Fork(p) \/ ForkFail(p) \/ Reap(p) \/ Kill(p)
    BY Zenon, <2>1, ForkEffect, ForkFailEffect, ReapEffect, KillEffect DEF Effects
  <2>2. CASE \/ Return(p) \/ Fault(p) \/ ForkFull(p) \/ CallExit(p) \/ CallWait(p)
             \/ CallPause(p) \/ KillNone(p) \/ ReapFail(p)
    BY Zenon, <2>2, QuietEffect DEF Effects
  <2>3. CASE ScanNone(p) \/ PauseTest(p)
    BY Zenon, <2>3, ScanEffect, PauseEffect DEF Effects
  <2> QED
    BY Zenon, <1>1, <2>1, <2>2, <2>3 DEF Effects, KernelStep, UserStep
<1> QED
  BY Zenon, <1>1 DEF Next

-----------------------------------------------------------------------------
(* The inductive step, one conjunct of ProcInv at a time *)

LEMMA PCNames ==
  {"none", "user", "ret", "dead", "fork_parent", "fork_run", "wait_lock", "wait_killed",
   "wait_prep", "wait_sleep", "pause", "pause_sleep", "exit_lock", "exit_wake",
   "exit_zombie"} \subseteq PCs
  BY DEF PCs, ForkPCs, WaitPCs, PausePCs, ExitPCs

LEMMA TypesKept ==
  ASSUME ProcInv, [Next]_vars
  PROVE  TypeOK'
<1> USE Ids, PCNames DEF ProcInv, TypeOK, States
<1>1. ASSUME NEW p \in Procs, Dispatch(p) PROVE TypeOK'
  BY <1>1 DEF Dispatch
<1>2. ASSUME NEW p \in Procs, Yield(p) PROVE TypeOK'
  BY <1>2 DEF Yield
<1>3. ASSUME NEW p \in Procs, Return(p) PROVE TypeOK'
  BY <1>3 DEF Return, At, Goto
<1>4. ASSUME NEW p \in Procs, ForkParent(p) PROVE TypeOK'
  BY Zenon, <1>4 DEF ForkParent, At, Goto
<1>5. ASSUME NEW p \in Procs, ForkRun(p) PROVE TypeOK'
  BY Zenon, <1>5 DEF ForkRun, At, Goto
<1>6. ASSUME NEW p \in Procs, Reparent(p) PROVE TypeOK'
  BY <1>6 DEF Reparent, Woken, Children, At, Goto
<1>7. ASSUME NEW p \in Procs, WakeParent(p) PROVE TypeOK'
  BY <1>7 DEF WakeParent, Woken, At, Goto
<1>8. ASSUME NEW p \in Procs, BecomeZombie(p) PROVE TypeOK'
  BY <1>8 DEF BecomeZombie, At, Goto
<1>9. ASSUME NEW p \in Procs, Reap(p) PROVE TypeOK'
  BY <1>9, FirstZombie DEF Reap, At
<1>10. ASSUME NEW p \in Procs, ReapFail(p) PROVE TypeOK'
  BY <1>10 DEF ReapFail, At, Goto
<1>11. ASSUME NEW p \in Procs, ScanNone(p) PROVE TypeOK'
  BY <1>11 DEF ScanNone, At, Goto
<1>12. ASSUME NEW p \in Procs, WaitKilled(p) PROVE TypeOK'
  BY <1>12 DEF WaitKilled, At, Goto
<1>13. ASSUME NEW p \in Procs, WaitPrepare(p) PROVE TypeOK'
  BY <1>13 DEF WaitPrepare, At, Goto
<1>14. ASSUME NEW p \in Procs, WaitSleep(p) PROVE TypeOK'
  BY <1>14 DEF WaitSleep, Sleep, At, Goto
<1>15. ASSUME NEW p \in Procs, PauseTest(p) PROVE TypeOK'
  BY <1>15 DEF PauseTest, At, Goto
<1>16. ASSUME NEW p \in Procs, PauseSleep(p) PROVE TypeOK'
  BY <1>16 DEF PauseSleep, Sleep, At, Goto
<1>17. ASSUME NEW p \in Procs, Fault(p) PROVE TypeOK'
  BY <1>17 DEF Fault, At, Goto
<1>18. ASSUME NEW p \in Procs, Fork(p) PROVE TypeOK'
  BY <1>18, FirstUnused DEF Fork, Calls, At
<1>19. ASSUME NEW p \in Procs, ForkFail(p) PROVE TypeOK'
  BY <1>19, FirstUnused DEF ForkFail, Calls, At, Goto
<1>20. ASSUME NEW p \in Procs, ForkFull(p) PROVE TypeOK'
  BY <1>20 DEF ForkFull, Calls, At, Goto
<1>21. ASSUME NEW p \in Procs, CallExit(p) PROVE TypeOK'
  BY <1>21 DEF CallExit, Calls, At, Goto
<1>22. ASSUME NEW p \in Procs, CallWait(p) PROVE TypeOK'
  BY <1>22 DEF CallWait, Calls, At, Goto
<1>23. ASSUME NEW p \in Procs, CallPause(p) PROVE TypeOK'
  BY <1>23 DEF CallPause, Calls, At, Goto
<1>24. ASSUME NEW p \in Procs, KillNone(p) PROVE TypeOK'
  BY <1>24 DEF KillNone, Calls, At, Goto
<1>25. ASSUME NEW p \in Procs, Kill(p) PROVE TypeOK'
  <2>1. PICK v \in Procs : KillOf(p, v)
    BY <1>25, KillEffect
  <2>2. UNCHANGED <<nextpid, left>>
    BY <1>25 DEF Kill
  <2> QED
    BY <2>1, <2>2 DEF KillOf, At, Goto
<1>26. CASE Tick
  BY <1>26 DEF Tick, Woken
<1>27. CASE UNCHANGED vars
  BY <1>27 DEF vars
<1> QED
  BY ZenonT(30), <1>1, <1>2, <1>3, <1>4, <1>5, <1>6, <1>7, <1>8, <1>9, <1>10, <1>11, <1>12,
     <1>13, <1>14, <1>15, <1>16, <1>17, <1>18, <1>19, <1>20, <1>21, <1>22, <1>23, <1>24, <1>25,
     <1>26, <1>27 DEF Next, KernelStep, UserStep

LEMMA StatesKept ==
  ASSUME ProcInv, [Next]_vars
  PROVE  StateInv'
<1> USE Ids DEF ProcInv, TypeOK, At, Goto, StateInv, ForkInv, ForkPCs, ExitPCs
<1>1. ASSUME NEW p \in Procs, Dispatch(p) PROVE StateInv'
  BY <1>1 DEF Dispatch
<1>2. ASSUME NEW p \in Procs, Yield(p) PROVE StateInv'
  BY <1>2 DEF Yield
<1>3. ASSUME NEW p \in Procs, ForkParent(p) PROVE StateInv'
  BY <1>3 DEF ForkParent
<1>4. ASSUME NEW p \in Procs, ForkRun(p) PROVE StateInv'
  BY <1>4 DEF ForkRun
<1>5. ASSUME NEW p \in Procs, Reparent(p) PROVE StateInv'
  BY <1>5 DEF Reparent, Woken, Children
<1>6. ASSUME NEW p \in Procs, WakeParent(p) PROVE StateInv'
  BY <1>6 DEF WakeParent, Woken
<1>7. ASSUME NEW p \in Procs, BecomeZombie(p) PROVE StateInv'
  BY <1>7 DEF BecomeZombie
<1>8. ASSUME NEW p \in Procs, ScanWaits(p) PROVE StateInv'
  BY <1>8 DEF ScanWaits
<1>9. ASSUME NEW p \in Procs, WaitKilled(p) PROVE StateInv'
  BY <1>9 DEF WaitKilled
<1>10. ASSUME NEW p \in Procs, WaitPrepare(p) PROVE StateInv'
  BY <1>10 DEF WaitPrepare
<1>11. ASSUME NEW p \in Procs, WaitSleep(p) PROVE StateInv'
  BY <1>11 DEF WaitSleep, Sleep
<1>12. ASSUME NEW p \in Procs, PauseWaits(p) PROVE StateInv'
  BY <1>12 DEF PauseWaits
<1>13. ASSUME NEW p \in Procs, PauseSleep(p) PROVE StateInv'
  BY <1>13 DEF PauseSleep, Sleep
<1>14. ASSUME NEW p \in Procs, NEW l \in Outside, Quiet(p, l) PROVE StateInv'
  BY <1>14 DEF Quiet, Outside
<1>15. ASSUME NEW p \in Procs, NEW q \in Procs, ForkOf(p, q) PROVE StateInv'
  BY <1>15 DEF ForkOf
<1>16. ASSUME NEW p \in Procs, NEW q \in Procs, ForkFailOf(p, q) PROVE StateInv'
  BY <1>16 DEF ForkFailOf
<1>17. ASSUME NEW p \in Procs, NEW q \in Procs, ReapOf(p, q) PROVE StateInv'
  BY <1>17 DEF ReapOf
<1>18. ASSUME NEW p \in Procs, NEW q \in Procs, KillOf(p, q) PROVE StateInv'
  BY <1>18 DEF KillOf
<1>19. CASE Tick
  BY <1>19 DEF Tick, Woken
<1>20. CASE UNCHANGED vars
  BY <1>20 DEF vars
<1> QED
  BY ZenonT(30), StepEffects, <1>1, <1>2, <1>3, <1>4, <1>5, <1>6, <1>7, <1>8, <1>9, <1>10,
     <1>11, <1>12, <1>13, <1>14, <1>15, <1>16, <1>17, <1>18, <1>19, <1>20 DEF Effects

LEMMA LockKept ==
  ASSUME ProcInv, [Next]_vars
  PROVE  LockInv'
<1> USE Ids DEF ProcInv, TypeOK, At, Goto, StateInv, LockInv, ForkInv, ForkPCs, Holding
<1>1. ASSUME NEW p \in Procs, Dispatch(p) PROVE LockInv'
  BY <1>1 DEF Dispatch
<1>2. ASSUME NEW p \in Procs, Yield(p) PROVE LockInv'
  BY <1>2 DEF Yield
<1>3. ASSUME NEW p \in Procs, ForkParent(p) PROVE LockInv'
  BY <1>3 DEF ForkParent
<1>4. ASSUME NEW p \in Procs, ForkRun(p) PROVE LockInv'
  BY <1>4 DEF ForkRun
<1>5. ASSUME NEW p \in Procs, Reparent(p) PROVE LockInv'
  BY <1>5 DEF Reparent, Woken, Children
<1>6. ASSUME NEW p \in Procs, WakeParent(p) PROVE LockInv'
  BY <1>6 DEF WakeParent, Woken
<1>7. ASSUME NEW p \in Procs, BecomeZombie(p) PROVE LockInv'
  BY <1>7 DEF BecomeZombie
<1>8. ASSUME NEW p \in Procs, ScanWaits(p) PROVE LockInv'
  BY <1>8 DEF ScanWaits
<1>9. ASSUME NEW p \in Procs, WaitKilled(p) PROVE LockInv'
  BY <1>9 DEF WaitKilled
<1>10. ASSUME NEW p \in Procs, WaitPrepare(p) PROVE LockInv'
  BY <1>10 DEF WaitPrepare
<1>11. ASSUME NEW p \in Procs, WaitSleep(p) PROVE LockInv'
  BY <1>11 DEF WaitSleep, Sleep
<1>12. ASSUME NEW p \in Procs, PauseWaits(p) PROVE LockInv'
  BY <1>12 DEF PauseWaits
<1>13. ASSUME NEW p \in Procs, PauseSleep(p) PROVE LockInv'
  BY <1>13 DEF PauseSleep, Sleep
<1>14. ASSUME NEW p \in Procs, NEW l \in Outside, Quiet(p, l) PROVE LockInv'
  BY <1>14 DEF Quiet, Outside
<1>15. ASSUME NEW p \in Procs, NEW q \in Procs, ForkOf(p, q) PROVE LockInv'
  BY <1>15 DEF ForkOf
<1>16. ASSUME NEW p \in Procs, NEW q \in Procs, ForkFailOf(p, q) PROVE LockInv'
  BY <1>16 DEF ForkFailOf
<1>17. ASSUME NEW p \in Procs, NEW q \in Procs, ReapOf(p, q) PROVE LockInv'
  BY <1>17 DEF ReapOf
<1>18. ASSUME NEW p \in Procs, NEW q \in Procs, KillOf(p, q) PROVE LockInv'
  BY <1>18 DEF KillOf
<1>19. CASE Tick
  BY <1>19 DEF Tick, Woken
<1>20. CASE UNCHANGED vars
  BY <1>20 DEF vars
<1> QED
  BY ZenonT(30), StepEffects, <1>1, <1>2, <1>3, <1>4, <1>5, <1>6, <1>7, <1>8, <1>9, <1>10,
     <1>11, <1>12, <1>13, <1>14, <1>15, <1>16, <1>17, <1>18, <1>19, <1>20 DEF Effects

LEMMA ForksKept ==
  ASSUME ProcInv, [Next]_vars
  PROVE  ForkInv'
<1> USE Ids DEF ProcInv, TypeOK, At, Goto, StateInv, ForkInv, ParentInv, ForkPCs
<1>1. ASSUME NEW p \in Procs, Dispatch(p) PROVE ForkInv'
  BY <1>1 DEF Dispatch
<1>2. ASSUME NEW p \in Procs, Yield(p) PROVE ForkInv'
  BY <1>2 DEF Yield
<1>3. ASSUME NEW p \in Procs, ForkParent(p) PROVE ForkInv'
  BY <1>3 DEF ForkParent
<1>4. ASSUME NEW p \in Procs, ForkRun(p) PROVE ForkInv'
  BY <1>4 DEF ForkRun
<1>5. ASSUME NEW p \in Procs, Reparent(p) PROVE ForkInv'
  BY <1>5 DEF Reparent, Woken, Children
<1>6. ASSUME NEW p \in Procs, WakeParent(p) PROVE ForkInv'
  BY <1>6 DEF WakeParent, Woken
<1>7. ASSUME NEW p \in Procs, BecomeZombie(p) PROVE ForkInv'
  BY <1>7 DEF BecomeZombie
<1>8. ASSUME NEW p \in Procs, ScanWaits(p) PROVE ForkInv'
  BY <1>8 DEF ScanWaits
<1>9. ASSUME NEW p \in Procs, WaitKilled(p) PROVE ForkInv'
  BY <1>9 DEF WaitKilled
<1>10. ASSUME NEW p \in Procs, WaitPrepare(p) PROVE ForkInv'
  BY <1>10 DEF WaitPrepare
<1>11. ASSUME NEW p \in Procs, WaitSleep(p) PROVE ForkInv'
  BY <1>11 DEF WaitSleep, Sleep
<1>12. ASSUME NEW p \in Procs, PauseWaits(p) PROVE ForkInv'
  BY <1>12 DEF PauseWaits
<1>13. ASSUME NEW p \in Procs, PauseSleep(p) PROVE ForkInv'
  BY <1>13 DEF PauseSleep, Sleep
<1>14. ASSUME NEW p \in Procs, NEW l \in Outside, Quiet(p, l) PROVE ForkInv'
  BY <1>14 DEF Quiet, Outside
<1>15. ASSUME NEW p \in Procs, NEW q \in Procs, ForkOf(p, q) PROVE ForkInv'
  BY <1>15 DEF ForkOf
<1>16. ASSUME NEW p \in Procs, NEW q \in Procs, ForkFailOf(p, q) PROVE ForkInv'
  BY <1>16 DEF ForkFailOf
<1>17. ASSUME NEW p \in Procs, NEW q \in Procs, ReapOf(p, q) PROVE ForkInv'
  BY <1>17 DEF ReapOf
<1>18. ASSUME NEW p \in Procs, NEW q \in Procs, KillOf(p, q) PROVE ForkInv'
  BY <1>18 DEF KillOf
<1>19. CASE Tick
  BY <1>19 DEF Tick, Woken
<1>20. CASE UNCHANGED vars
  BY <1>20 DEF vars
<1> QED
  BY ZenonT(30), StepEffects, <1>1, <1>2, <1>3, <1>4, <1>5, <1>6, <1>7, <1>8, <1>9, <1>10,
     <1>11, <1>12, <1>13, <1>14, <1>15, <1>16, <1>17, <1>18, <1>19, <1>20 DEF Effects

LEMMA ParentsKept ==
  ASSUME ProcInv, [Next]_vars
  PROVE  ParentInv'
<1> USE Ids DEF ProcInv, TypeOK, At, Goto, StateInv, LockInv, ForkInv, ParentInv, ForkPCs,
   Alive, Holding, ExitPCs
<1>1. ASSUME NEW p \in Procs, Dispatch(p) PROVE ParentInv'
  BY <1>1 DEF Dispatch
<1>2. ASSUME NEW p \in Procs, Yield(p) PROVE ParentInv'
  BY <1>2 DEF Yield
<1>3. ASSUME NEW p \in Procs, ForkParent(p) PROVE ParentInv'
  BY <1>3 DEF ForkParent
<1>4. ASSUME NEW p \in Procs, ForkRun(p) PROVE ParentInv'
  BY <1>4 DEF ForkRun
<1>5. ASSUME NEW p \in Procs, Reparent(p) PROVE ParentInv'
  <2>1. initproc \in Alive
    BY DEF States
  <2>2. \A q \in Procs : /\ q \in Alive <=> q \in Alive'
                         /\ q \notin Alive => state'[q] = state[q]
    BY <1>5 DEF Reparent, Woken
  <2>3. /\ parent' = [q \in Procs |-> IF parent[q] = p THEN initproc ELSE parent[q]]
        /\ pc' = [pc EXCEPT ![p] = "exit_wake"] /\ pc[p] = "exit_lock" /\ waitlock = NoProc
    BY <1>5 DEF Reparent
  <2>4. p # initproc
    BY <2>3
  <2>5. \A q \in Procs : /\ parent'[q] # NoProc => parent'[q] \in Alive'
                         /\ state'[q] = "UNUSED" \/ q = initproc => parent'[q] = NoProc
                         /\ state'[q] \notin {"UNUSED", "USED"} /\ q # initproc => parent'[q] # NoProc
    BY <2>1, <2>2, <2>3
  <2>6. \A r, q \in Procs : pc'[r] \in {"exit_wake", "exit_zombie"} => parent'[q] # r
    BY <2>3, <2>4
  <2> QED
    BY <2>5, <2>6
<1>6. ASSUME NEW p \in Procs, WakeParent(p) PROVE ParentInv'
  BY <1>6 DEF WakeParent, Woken
<1>7. ASSUME NEW p \in Procs, BecomeZombie(p) PROVE ParentInv'
  BY <1>7 DEF BecomeZombie
<1>8. ASSUME NEW p \in Procs, ScanWaits(p) PROVE ParentInv'
  BY <1>8 DEF ScanWaits
<1>9. ASSUME NEW p \in Procs, WaitKilled(p) PROVE ParentInv'
  BY <1>9 DEF WaitKilled
<1>10. ASSUME NEW p \in Procs, WaitPrepare(p) PROVE ParentInv'
  BY <1>10 DEF WaitPrepare
<1>11. ASSUME NEW p \in Procs, WaitSleep(p) PROVE ParentInv'
  BY <1>11 DEF WaitSleep, Sleep
<1>12. ASSUME NEW p \in Procs, PauseWaits(p) PROVE ParentInv'
  BY <1>12 DEF PauseWaits
<1>13. ASSUME NEW p \in Procs, PauseSleep(p) PROVE ParentInv'
  BY <1>13 DEF PauseSleep, Sleep
<1>14. ASSUME NEW p \in Procs, NEW l \in Outside, Quiet(p, l) PROVE ParentInv'
  BY <1>14 DEF Quiet, Outside
<1>15. ASSUME NEW p \in Procs, NEW q \in Procs, ForkOf(p, q) PROVE ParentInv'
  BY <1>15 DEF ForkOf
<1>16. ASSUME NEW p \in Procs, NEW q \in Procs, ForkFailOf(p, q) PROVE ParentInv'
  BY <1>16 DEF ForkFailOf
<1>17. ASSUME NEW p \in Procs, NEW q \in Procs, ReapOf(p, q) PROVE ParentInv'
  BY <1>17 DEF ReapOf
<1>18. ASSUME NEW p \in Procs, NEW q \in Procs, KillOf(p, q) PROVE ParentInv'
  BY <1>18 DEF KillOf
<1>19. CASE Tick
  BY <1>19 DEF Tick, Woken
<1>20. CASE UNCHANGED vars
  BY <1>20 DEF vars
<1> QED
  BY ZenonT(30), StepEffects, <1>1, <1>2, <1>3, <1>4, <1>5, <1>6, <1>7, <1>8, <1>9, <1>10,
     <1>11, <1>12, <1>13, <1>14, <1>15, <1>16, <1>17, <1>18, <1>19, <1>20 DEF Effects

LEMMA ChansKept ==
  ASSUME ProcInv, [Next]_vars
  PROVE  ChanInv'
<1> USE Ids DEF ProcInv, TypeOK, At, Goto, StateInv, LockInv, ForkInv, ParentInv, ChanInv,
   ForkPCs, Asleep, Alive, Holding
<1>1. ASSUME NEW p \in Procs, Dispatch(p) PROVE ChanInv'
  BY <1>1 DEF Dispatch
<1>2. ASSUME NEW p \in Procs, Yield(p) PROVE ChanInv'
  BY <1>2 DEF Yield
<1>3. ASSUME NEW p \in Procs, ForkParent(p) PROVE ChanInv'
  BY <1>3 DEF ForkParent
<1>4. ASSUME NEW p \in Procs, ForkRun(p) PROVE ChanInv'
  BY <1>4 DEF ForkRun
<1>5. ASSUME NEW p \in Procs, Reparent(p) PROVE ChanInv'
  BY <1>5 DEF Reparent, Woken, Children
<1>6. ASSUME NEW p \in Procs, WakeParent(p) PROVE ChanInv'
  <2>1. \A r \in Procs : pc[r] \in ExitPCs => parent[r] \in Procs
    BY DEF ExitPCs
  <2>2. \A r \in Procs : pc'[r] = "exit_zombie" => r = p
    BY <1>6 DEF WakeParent
  <2>3. parent[p] \in Procs /\ chan'[parent[p]] # parent[p] /\ parent' = parent
    BY <1>6, <2>1 DEF WakeParent, Woken, ExitPCs
  <2>4. \A r \in Procs : /\ pc'[r] = "wait_sleep" => chan'[r] \in {NoProc, r}
                         /\ Asleep(r)' => chan'[r] = r
    BY <1>6 DEF WakeParent, Woken
  <2> QED
    BY <2>2, <2>3, <2>4
<1>7. ASSUME NEW p \in Procs, BecomeZombie(p) PROVE ChanInv'
  BY <1>7 DEF BecomeZombie
<1>8. ASSUME NEW p \in Procs, ScanWaits(p) PROVE ChanInv'
  BY <1>8 DEF ScanWaits
<1>9. ASSUME NEW p \in Procs, WaitKilled(p) PROVE ChanInv'
  BY <1>9 DEF WaitKilled
<1>10. ASSUME NEW p \in Procs, WaitPrepare(p) PROVE ChanInv'
  BY <1>10 DEF WaitPrepare
<1>11. ASSUME NEW p \in Procs, WaitSleep(p) PROVE ChanInv'
  BY <1>11 DEF WaitSleep, Sleep
<1>12. ASSUME NEW p \in Procs, PauseWaits(p) PROVE ChanInv'
  BY <1>12 DEF PauseWaits
<1>13. ASSUME NEW p \in Procs, PauseSleep(p) PROVE ChanInv'
  BY <1>13 DEF PauseSleep, Sleep
<1>14. ASSUME NEW p \in Procs, NEW l \in Outside, Quiet(p, l) PROVE ChanInv'
  BY <1>14 DEF Quiet, Outside
<1>15. ASSUME NEW p \in Procs, NEW q \in Procs, ForkOf(p, q) PROVE ChanInv'
  BY <1>15 DEF ForkOf
<1>16. ASSUME NEW p \in Procs, NEW q \in Procs, ForkFailOf(p, q) PROVE ChanInv'
  BY <1>16 DEF ForkFailOf
<1>17. ASSUME NEW p \in Procs, NEW q \in Procs, ReapOf(p, q) PROVE ChanInv'
  BY <1>17 DEF ReapOf
<1>18. ASSUME NEW p \in Procs, NEW q \in Procs, KillOf(p, q) PROVE ChanInv'
  BY <1>18 DEF KillOf
<1>19. CASE Tick
  <2>1. \A r \in Procs : pc[r] \in ExitPCs => parent[r] \in Procs
    BY DEF ExitPCs
  <2>2. \A r \in Procs : pc'[r] = "exit_zombie" => chan'[parent'[r]] # parent'[r]
    BY <1>19, <2>1 DEF Tick, Woken, ExitPCs
  <2>3. \A r \in Procs : /\ pc'[r] = "wait_sleep" => chan'[r] \in {NoProc, r}
                         /\ Asleep(r)' => chan'[r] = r
    BY <1>19 DEF Tick, Woken
  <2> QED
    BY <2>2, <2>3
<1>20. CASE UNCHANGED vars
  BY <1>20 DEF vars
<1> QED
  BY ZenonT(30), StepEffects, <1>1, <1>2, <1>3, <1>4, <1>5, <1>6, <1>7, <1>8, <1>9, <1>10,
     <1>11, <1>12, <1>13, <1>14, <1>15, <1>16, <1>17, <1>18, <1>19, <1>20 DEF Effects

LEMMA WaitsKept ==
  ASSUME ProcInv, [Next]_vars
  PROVE  WaitInv'
<1> USE Ids DEF ProcInv, TypeOK, At, Goto, StateInv, LockInv, ForkInv, ParentInv, ChanInv,
   WaitInv, ForkPCs, Asleep, Alive, Scanned, Holding
<1>1. ASSUME NEW p \in Procs, Dispatch(p) PROVE WaitInv'
  BY SMTT(30), <1>1 DEF Dispatch
<1>2. ASSUME NEW p \in Procs, Yield(p) PROVE WaitInv'
  BY SMTT(30), <1>2 DEF Yield
<1>3. ASSUME NEW p \in Procs, ForkParent(p) PROVE WaitInv'
  BY SMTT(30), <1>3 DEF ForkParent
<1>4. ASSUME NEW p \in Procs, ForkRun(p) PROVE WaitInv'
  BY <1>4 DEF ForkRun
<1>5. ASSUME NEW p \in Procs, Reparent(p) PROVE WaitInv'
  BY <1>5 DEF Reparent, Woken, Children
<1>6. ASSUME NEW p \in Procs, WakeParent(p) PROVE WaitInv'
  BY SMTT(30), <1>6 DEF WakeParent, Woken
<1>7. ASSUME NEW p \in Procs, BecomeZombie(p) PROVE WaitInv'
  BY SMTT(30), <1>7 DEF BecomeZombie
<1>8. ASSUME NEW p \in Procs, ScanWaits(p) PROVE WaitInv'
  BY SMTT(30), <1>8 DEF ScanWaits
<1>9. ASSUME NEW p \in Procs, WaitKilled(p) PROVE WaitInv'
  BY SMTT(30), <1>9 DEF WaitKilled
<1>10. ASSUME NEW p \in Procs, WaitPrepare(p) PROVE WaitInv'
  BY SMTT(30), <1>10 DEF WaitPrepare
<1>11. ASSUME NEW p \in Procs, WaitSleep(p) PROVE WaitInv'
  BY SMTT(30), <1>11 DEF WaitSleep, Sleep
<1>12. ASSUME NEW p \in Procs, PauseWaits(p) PROVE WaitInv'
  BY SMTT(30), <1>12 DEF PauseWaits
<1>13. ASSUME NEW p \in Procs, PauseSleep(p) PROVE WaitInv'
  BY SMTT(30), <1>13 DEF PauseSleep, Sleep
<1>14. ASSUME NEW p \in Procs, NEW l \in Outside, Quiet(p, l) PROVE WaitInv'
  BY SMTT(30), <1>14 DEF Quiet, Outside
<1>15. ASSUME NEW p \in Procs, NEW q \in Procs, ForkOf(p, q) PROVE WaitInv'
  BY SMTT(30), <1>15 DEF ForkOf
<1>16. ASSUME NEW p \in Procs, NEW q \in Procs, ForkFailOf(p, q) PROVE WaitInv'
  BY SMTT(30), <1>16 DEF ForkFailOf
<1>17. ASSUME NEW p \in Procs, NEW q \in Procs, ReapOf(p, q) PROVE WaitInv'
  BY SMTT(30), <1>17 DEF ReapOf
<1>18. ASSUME NEW p \in Procs, NEW q \in Procs, KillOf(p, q) PROVE WaitInv'
  BY SMTT(30), <1>18 DEF KillOf
<1>19. CASE Tick
  BY SMTT(30), <1>19 DEF Tick, Woken
<1>20. CASE UNCHANGED vars
  BY <1>20 DEF vars
<1> QED
  BY ZenonT(30), StepEffects, <1>1, <1>2, <1>3, <1>4, <1>5, <1>6, <1>7, <1>8, <1>9, <1>10,
     <1>11, <1>12, <1>13, <1>14, <1>15, <1>16, <1>17, <1>18, <1>19, <1>20 DEF Effects

-----------------------------------------------------------------------------
(* The theorems *)

\* The invariant behind the others holds in every reachable state.
THEOREM ProcInvariant == Spec => []ProcInv
<1>1. Init => ProcInv
  BY Ids DEF Init, ProcInv, TypeOK, StateInv, LockInv, ForkInv, ParentInv, ChanInv, WaitInv,
     Asleep, Scanned, Holding, States, PCs, ForkPCs, WaitPCs, PausePCs, ExitPCs
<1>2. ProcInv /\ [Next]_vars => ProcInv'
  BY Zenon, TypesKept, StatesKept, LockKept, ForksKept, ParentsKept, ChansKept, WaitsKept DEF
     ProcInv
<1> QED
  BY <1>1, <1>2, PTL DEF Spec

\* Type correctness of the process table.
THEOREM ProcTypes == Spec => []TypeOK
<1>1. ProcInv => TypeOK
  BY SMTT(30) DEF ProcInv
<1> QED
  BY <1>1, ProcInvariant, PTL

\* exit() never leaves a child, living or dead, without a living parent.
THEOREM OrphansAreAdopted == Spec => []ParentAlive
<1>1. ProcInv => ParentAlive
  BY DEF ProcInv, ParentInv, ParentAlive
<1> QED
  BY <1>1, ProcInvariant, PTL

\* wait() never sleeps over a zombie child, nor without a child.
THEOREM WaitMissesNoExit == Spec => []NoLostWakeup
<1>1. ProcInv => NoLostWakeup
  BY DEF ProcInv, WaitInv, NoLostWakeup, Asleep, Children, Zombies
<1> QED
  BY <1>1, ProcInvariant, PTL

\* wait_lock is never held over a switch to the scheduler.
THEOREM NoSwitchWithWaitLock == Spec => []LockHolderRuns
<1>1. ProcInv => LockHolderRuns
  BY DEF ProcInv, LockInv, LockHolderRuns, TypeOK
<1> QED
  BY <1>1, ProcInvariant, PTL
=============================================================================
