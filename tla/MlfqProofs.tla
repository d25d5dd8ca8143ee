----------------------------- MODULE MlfqProofs -----------------------------
(***************************************************************************)
(* Proofs about the MLFQ scheduler for every number of processes and CPUs: *)
(* types, and that a process runs on one CPU only.                         *)
(***************************************************************************)
EXTENDS Mlfq, TLAPS

Inv == TypeOK /\ SchedInv

---------------------------------------------------------------------------
(* Types and exclusive running *)

LEMMA TicksWrap == ASSUME NEW t \in 0..TickMod - 1
                   PROVE  (t + 1) % TickMod \in 0..TickMod - 1
BY MlfqAssumption

LEMMA InitInv == Init => Inv
<1> SUFFICES ASSUME Init PROVE Inv
  OBVIOUS
<1>1. ControlOK
  BY DEF Init, StartWith, ControlOK, States, PCs
<1>2. NumberOK
  BY MlfqAssumption DEF Init, StartWith, NumberOK, Queues
<1>3. SchedInv
  BY DEF Init, StartWith, SchedInv, OneCpuPerProcess, CpuInv, ForkInv, Procs, NoProc
<1> QED
  BY <1>1, <1>2, <1>3 DEF Inv, TypeOK

LEMMA ControlStep == ASSUME Inv, [Next]_vars PROVE ControlOK'
<1> USE DEF ControlOK, States, PCs, procvars, cpuvars, Goto
<1>0. ControlOK /\ CpuInv /\ NumberOK
  BY DEF Inv, TypeOK, SchedInv
<1>1. ASSUME NEW c \in CPUs, StartScan(c) PROVE ControlOK'
  BY <1>0, <1>1 DEF StartScan
<1>2. ASSUME NEW c \in CPUs, ScanEntry(c) PROVE ControlOK'
  <2>1. idx[c] \in Procs
    BY <1>0, <1>2 DEF ScanEntry, NumberOK, Procs
  <2> QED
    BY <1>0, <1>2, <2>1 DEF ScanEntry
<1>3. ASSUME NEW c \in CPUs, ScanDone(c) PROVE ControlOK'
  BY <1>0, <1>3 DEF ScanDone
<1>4. ASSUME NEW c \in CPUs, Resume(c) PROVE ControlOK'
  BY <1>0, <1>4 DEF Resume
<1>5. ASSUME NEW c \in CPUs, Timer(c) PROVE ControlOK'
  BY <1>0, <1>5 DEF Timer
<1>6. ASSUME NEW c \in CPUs, WakeDone(c) PROVE ControlOK'
  BY <1>0, <1>6 DEF WakeDone
<1>7. ASSUME NEW c \in CPUs, UpdateEntry(c) PROVE ControlOK'
  BY <1>0, <1>7 DEF UpdateEntry, AfterClock
<1>8. ASSUME NEW c \in CPUs, BoostEntry(c) PROVE ControlOK'
  BY <1>0, <1>8 DEF BoostEntry, AfterClock
<1>9. ASSUME NEW c \in CPUs, Check(c) PROVE ControlOK'
  BY <1>0, <1>9 DEF Check
<1>10. ASSUME NEW c \in CPUs, Demote(c) PROVE ControlOK'
  BY <1>0, <1>10 DEF Demote
<1>11. ASSUME NEW c \in CPUs, Yield(c) PROVE ControlOK'
  BY Zenon, <1>0, <1>11 DEF Yield, Switch
<1>12. ASSUME NEW c \in CPUs, Sleep(c) PROVE ControlOK'
  BY Zenon, <1>0, <1>12 DEF Sleep, Switch, Calls
<1>13. ASSUME NEW c \in CPUs, NEW n \in Procs, AllocProc(c, n) PROVE ControlOK'
  BY Zenon, <1>0, <1>13 DEF AllocProc, Calls
<1>14. ASSUME NEW c \in CPUs, ForkDone(c) PROVE ControlOK'
  BY Zenon, <1>0, <1>14 DEF ForkDone, Calls
<1>15. ASSUME NEW c \in CPUs, Exit(c) PROVE ControlOK'
  BY Zenon, <1>0, <1>15 DEF Exit, Switch, Calls
<1>16. ASSUME NEW c \in CPUs, NEW z \in Procs, Reap(c, z) PROVE ControlOK'
  BY <1>0, <1>16 DEF Reap, Calls
<1>17. ASSUME NEW p \in Procs, Wakeup(p) PROVE ControlOK'
  BY <1>0, <1>17 DEF Wakeup
<1>18. CASE UNCHANGED vars
  BY SMTT(30), <1>0, <1>18 DEF vars
<1> QED
  BY <1>1, <1>2, <1>3, <1>4, <1>5, <1>6, <1>7, <1>8, <1>9, <1>10, <1>11, <1>12,
     <1>13, <1>14, <1>15, <1>16, <1>17, <1>18 DEF Next, Scan, Handler, Call

LEMMA NumberStep == ASSUME Inv, [Next]_vars PROVE NumberOK'
<1> USE DEF NumberOK, procvars, cpuvars
<1>0. NumberOK /\ ControlOK /\ CpuInv
  BY DEF Inv, TypeOK, SchedInv
<1>a. 0 \in Queues /\ 0 \in Nat /\ ticks \in Nat /\ 1 \in 1..NPROC + 1
  BY <1>0, MlfqAssumption DEF Queues
<1>b. \A k \in 1..NPROC + 1 : k <= NPROC => k + 1 \in 1..NPROC + 1
  BY MlfqAssumption
<1>c. \A k \in Nat : k + 1 \in Nat
  OBVIOUS
<1>d. \A q \in Queues : q < 3 => q + 1 \in Queues
  BY DEF Queues
<1>1. ASSUME NEW c \in CPUs, StartScan(c) PROVE NumberOK'
  BY <1>0, <1>a, <1>b, <1>c, <1>d, <1>1 DEF StartScan
<1>2. ASSUME NEW c \in CPUs, ScanEntry(c) PROVE NumberOK'
  BY <1>0, <1>a, <1>b, <1>c, <1>d, <1>2 DEF ScanEntry
<1>3. ASSUME NEW c \in CPUs, ScanDone(c) PROVE NumberOK'
  BY <1>0, <1>a, <1>b, <1>c, <1>d, <1>3 DEF ScanDone
<1>4. ASSUME NEW c \in CPUs, Resume(c) PROVE NumberOK'
  BY <1>0, <1>a, <1>b, <1>c, <1>d, <1>4 DEF Resume
<1>5. ASSUME NEW c \in CPUs, Timer(c) PROVE NumberOK'
  BY <1>0, <1>5, TicksWrap DEF Timer
<1>6. ASSUME NEW c \in CPUs, WakeDone(c) PROVE NumberOK'
  BY <1>0, <1>a, <1>b, <1>c, <1>d, <1>6 DEF WakeDone
<1>7. ASSUME NEW c \in CPUs, UpdateEntry(c) PROVE NumberOK'
  BY <1>0, <1>a, <1>b, <1>c, <1>d, <1>7 DEF UpdateEntry
<1>8. ASSUME NEW c \in CPUs, BoostEntry(c) PROVE NumberOK'
  BY <1>0, <1>a, <1>b, <1>c, <1>d, <1>8 DEF BoostEntry
<1>9. ASSUME NEW c \in CPUs, Check(c) PROVE NumberOK'
  <2>1. cur[c] \in Procs
    BY <1>0, <1>9 DEF Check, CpuInv, ControlOK
  <2>2. Demoted(cur[c]) \in Queues
    BY <1>0, <1>d, <2>1 DEF Demoted
  <2> QED
    BY <1>0, <1>9, <2>2 DEF Check
<1>10. ASSUME NEW c \in CPUs, Demote(c) PROVE NumberOK'
  BY Zenon, <1>0, <1>a, <1>b, <1>c, <1>d, <1>10 DEF Demote
<1>11. ASSUME NEW c \in CPUs, Yield(c) PROVE NumberOK'
  BY Zenon, <1>0, <1>a, <1>b, <1>c, <1>d, <1>11 DEF Yield, Switch
<1>12. ASSUME NEW c \in CPUs, Sleep(c) PROVE NumberOK'
  BY Zenon, <1>0, <1>a, <1>b, <1>c, <1>d, <1>12 DEF Sleep, Switch, Calls
<1>13. ASSUME NEW c \in CPUs, NEW n \in Procs, AllocProc(c, n) PROVE NumberOK'
  BY <1>0, <1>a, <1>b, <1>c, <1>d, <1>13 DEF AllocProc, Calls
<1>14. ASSUME NEW c \in CPUs, ForkDone(c) PROVE NumberOK'
  BY <1>0, <1>a, <1>b, <1>c, <1>d, <1>14 DEF ForkDone, Calls
<1>15. ASSUME NEW c \in CPUs, Exit(c) PROVE NumberOK'
  BY <1>0, <1>a, <1>b, <1>c, <1>d, <1>15 DEF Exit, Switch, Calls
<1>16. ASSUME NEW c \in CPUs, NEW z \in Procs, Reap(c, z) PROVE NumberOK'
  BY <1>0, <1>a, <1>b, <1>c, <1>d, <1>16 DEF Reap, Calls
<1>17. ASSUME NEW p \in Procs, Wakeup(p) PROVE NumberOK'
  BY <1>0, <1>a, <1>b, <1>c, <1>d, <1>17 DEF Wakeup
<1>18. CASE UNCHANGED vars
  BY SMTT(30), <1>0, <1>a, <1>b, <1>c, <1>d, <1>18 DEF vars
<1> QED
  BY <1>1, <1>2, <1>3, <1>4, <1>5, <1>6, <1>7, <1>8, <1>9, <1>10, <1>11, <1>12,
     <1>13, <1>14, <1>15, <1>16, <1>17, <1>18 DEF Next, Scan, Handler, Call

\* Only the scan that holds a runnable process starts it, and only the CPU that
\* has a process takes it out of RUNNING.
LEMMA OneCpuStep == ASSUME Inv, [Next]_vars PROVE OneCpuPerProcess'
<1> USE DEF OneCpuPerProcess, ControlOK, procvars, cpuvars
<1>0. ControlOK /\ CpuInv /\ ForkInv /\ OneCpuPerProcess /\ NumberOK
  BY DEF Inv, TypeOK, SchedInv
<1>z. NoProc \notin Procs
  BY DEF NoProc, Procs
<1>1. ASSUME NEW c \in CPUs, StartScan(c) PROVE OneCpuPerProcess'
  BY <1>0, <1>z, <1>1 DEF StartScan
<1>2. ASSUME NEW c \in CPUs, ScanEntry(c) PROVE OneCpuPerProcess'
  BY <1>0, <1>z, <1>2 DEF ScanEntry
<1>3. ASSUME NEW c \in CPUs, ScanDone(c) PROVE OneCpuPerProcess'
  BY <1>0, <1>z, <1>3 DEF ScanDone, CpuInv
<1>4. ASSUME NEW c \in CPUs, Resume(c) PROVE OneCpuPerProcess'
  BY <1>0, <1>z, <1>4 DEF Resume
<1>5. ASSUME NEW c \in CPUs, Timer(c) PROVE OneCpuPerProcess'
  BY <1>0, <1>z, <1>5 DEF Timer
<1>6. ASSUME NEW c \in CPUs, WakeDone(c) PROVE OneCpuPerProcess'
  BY <1>0, <1>z, <1>6 DEF WakeDone
<1>7. ASSUME NEW c \in CPUs, UpdateEntry(c) PROVE OneCpuPerProcess'
  BY <1>0, <1>z, <1>7 DEF UpdateEntry
<1>8. ASSUME NEW c \in CPUs, BoostEntry(c) PROVE OneCpuPerProcess'
  BY <1>0, <1>z, <1>8 DEF BoostEntry
<1>9. ASSUME NEW c \in CPUs, Check(c) PROVE OneCpuPerProcess'
  BY <1>0, <1>z, <1>9 DEF Check
<1>10. ASSUME NEW c \in CPUs, Demote(c) PROVE OneCpuPerProcess'
  BY <1>0, <1>z, <1>10 DEF Demote
<1>11. ASSUME NEW c \in CPUs, Yield(c) PROVE OneCpuPerProcess'
  BY <1>0, <1>z, <1>11 DEF Yield, Switch, CpuInv
<1>12. ASSUME NEW c \in CPUs, Sleep(c) PROVE OneCpuPerProcess'
  BY <1>0, <1>z, <1>12 DEF Sleep, Switch, Calls, CpuInv
<1>13. ASSUME NEW c \in CPUs, NEW n \in Procs, AllocProc(c, n) PROVE OneCpuPerProcess'
  BY <1>0, <1>z, <1>13 DEF AllocProc, Calls
<1>14. ASSUME NEW c \in CPUs, ForkDone(c) PROVE OneCpuPerProcess'
  BY <1>0, <1>z, <1>14 DEF ForkDone, Calls, CpuInv, ForkInv
<1>15. ASSUME NEW c \in CPUs, Exit(c) PROVE OneCpuPerProcess'
  BY <1>0, <1>z, <1>15 DEF Exit, Switch, Calls, CpuInv
<1>16. ASSUME NEW c \in CPUs, NEW z \in Procs, Reap(c, z) PROVE OneCpuPerProcess'
  BY <1>0, <1>z, <1>16 DEF Reap, Calls
<1>17. ASSUME NEW p \in Procs, Wakeup(p) PROVE OneCpuPerProcess'
  BY <1>0, <1>z, <1>17 DEF Wakeup
<1>18. CASE UNCHANGED vars
  BY SMTT(30), <1>0, <1>z, <1>18 DEF vars
<1> QED
  BY <1>1, <1>2, <1>3, <1>4, <1>5, <1>6, <1>7, <1>8, <1>9, <1>10, <1>11, <1>12,
     <1>13, <1>14, <1>15, <1>16, <1>17, <1>18 DEF Next, Scan, Handler, Call

\* A scan keeps the lock of its best_p, so nobody else can start it or change
\* its state.
LEMMA CpuStep == ASSUME Inv, [Next]_vars PROVE CpuInv'
<1> USE DEF CpuInv, ControlOK, PCs, procvars, cpuvars, Goto
<1>0. ControlOK /\ CpuInv /\ ForkInv /\ OneCpuPerProcess /\ NumberOK
  BY DEF Inv, TypeOK, SchedInv
<1>z. NoProc \notin Procs
  BY DEF NoProc, Procs
<1>1. ASSUME NEW c \in CPUs, StartScan(c) PROVE CpuInv'
  BY <1>0, <1>z, <1>1 DEF StartScan
<1>2. ASSUME NEW c \in CPUs, ScanEntry(c) PROVE CpuInv'
  <2>1. idx[c] \in Procs /\ \A d \in CPUs : best[d] # idx[c]
    BY <1>0, <1>2 DEF ScanEntry, NumberOK, Procs, Unlocked
  <2> QED
    BY <1>0, <1>z, <1>2, <2>1 DEF ScanEntry
<1>3. ASSUME NEW c \in CPUs, ScanDone(c) PROVE CpuInv'
  BY <1>0, <1>z, <1>3 DEF ScanDone
<1>4. ASSUME NEW c \in CPUs, Resume(c) PROVE CpuInv'
  BY <1>0, <1>z, <1>4 DEF Resume
<1>5. ASSUME NEW c \in CPUs, Timer(c) PROVE CpuInv'
  BY <1>0, <1>z, <1>5 DEF Timer
<1>6. ASSUME NEW c \in CPUs, WakeDone(c) PROVE CpuInv'
  BY <1>0, <1>z, <1>6 DEF WakeDone
<1>7. ASSUME NEW c \in CPUs, UpdateEntry(c) PROVE CpuInv'
  BY <1>0, <1>z, <1>7 DEF UpdateEntry, AfterClock
<1>8. ASSUME NEW c \in CPUs, BoostEntry(c) PROVE CpuInv'
  BY <1>0, <1>z, <1>8 DEF BoostEntry, AfterClock
<1>9. ASSUME NEW c \in CPUs, Check(c) PROVE CpuInv'
  BY <1>0, <1>z, <1>9 DEF Check
<1>10. ASSUME NEW c \in CPUs, Demote(c) PROVE CpuInv'
  BY <1>0, <1>z, <1>10 DEF Demote
<1>11. ASSUME NEW c \in CPUs, Yield(c) PROVE CpuInv'
  BY <1>0, <1>z, <1>11 DEF Yield, Switch, OneCpuPerProcess
<1>12. ASSUME NEW c \in CPUs, Sleep(c) PROVE CpuInv'
  BY <1>0, <1>z, <1>12 DEF Sleep, Switch, Calls, OneCpuPerProcess
<1>13. ASSUME NEW c \in CPUs, NEW n \in Procs, AllocProc(c, n) PROVE CpuInv'
  BY <1>0, <1>z, <1>13 DEF AllocProc, Calls
<1>14. ASSUME NEW c \in CPUs, ForkDone(c) PROVE CpuInv'
  BY <1>0, <1>z, <1>14 DEF ForkDone, Calls, ForkInv
<1>15. ASSUME NEW c \in CPUs, Exit(c) PROVE CpuInv'
  BY <1>0, <1>z, <1>15 DEF Exit, Switch, Calls, OneCpuPerProcess
<1>16. ASSUME NEW c \in CPUs, NEW z \in Procs, Reap(c, z) PROVE CpuInv'
  BY <1>0, <1>z, <1>16 DEF Reap, Calls
<1>17. ASSUME NEW p \in Procs, Wakeup(p) PROVE CpuInv'
  BY <1>0, <1>z, <1>17 DEF Wakeup
<1>18. CASE UNCHANGED vars
  BY SMTT(30), <1>0, <1>z, <1>18 DEF vars
<1> QED
  BY Zenon, <1>1, <1>2, <1>3, <1>4, <1>5, <1>6, <1>7, <1>8, <1>9, <1>10, <1>11, <1>12,
     <1>13, <1>14, <1>15, <1>16, <1>17, <1>18 DEF Next, Scan, Handler, Call

LEMMA ForkStep == ASSUME Inv, [Next]_vars PROVE ForkInv'
<1> USE DEF ForkInv, ControlOK, procvars, cpuvars
<1>0. ControlOK /\ CpuInv /\ ForkInv /\ OneCpuPerProcess /\ NumberOK
  BY DEF Inv, TypeOK, SchedInv
<1>z. NoProc \notin Procs
  BY DEF NoProc, Procs
<1>1. ASSUME NEW c \in CPUs, StartScan(c) PROVE ForkInv'
  BY SMTT(30), <1>0, <1>z, <1>1 DEF StartScan
<1>2. ASSUME NEW c \in CPUs, ScanEntry(c) PROVE ForkInv'
  BY <1>0, <1>z, <1>2 DEF ScanEntry
<1>3. ASSUME NEW c \in CPUs, ScanDone(c) PROVE ForkInv'
  BY <1>0, <1>z, <1>3 DEF ScanDone, CpuInv
<1>4. ASSUME NEW c \in CPUs, Resume(c) PROVE ForkInv'
  BY <1>0, <1>z, <1>4 DEF Resume
<1>5. ASSUME NEW c \in CPUs, Timer(c) PROVE ForkInv'
  BY <1>0, <1>z, <1>5 DEF Timer
<1>6. ASSUME NEW c \in CPUs, WakeDone(c) PROVE ForkInv'
  BY <1>0, <1>z, <1>6 DEF WakeDone
<1>7. ASSUME NEW c \in CPUs, UpdateEntry(c) PROVE ForkInv'
  BY <1>0, <1>z, <1>7 DEF UpdateEntry
<1>8. ASSUME NEW c \in CPUs, BoostEntry(c) PROVE ForkInv'
  BY SMTT(30), <1>0, <1>z, <1>8 DEF BoostEntry
<1>9. ASSUME NEW c \in CPUs, Check(c) PROVE ForkInv'
  BY <1>0, <1>z, <1>9 DEF Check
<1>10. ASSUME NEW c \in CPUs, Demote(c) PROVE ForkInv'
  BY <1>0, <1>z, <1>10 DEF Demote
<1>11. ASSUME NEW c \in CPUs, Yield(c) PROVE ForkInv'
  BY <1>0, <1>z, <1>11 DEF Yield, Switch, CpuInv, OneCpuPerProcess
<1>12. ASSUME NEW c \in CPUs, Sleep(c) PROVE ForkInv'
  BY <1>0, <1>z, <1>12 DEF Sleep, Switch, Calls, CpuInv, OneCpuPerProcess
<1>13. ASSUME NEW c \in CPUs, NEW n \in Procs, AllocProc(c, n) PROVE ForkInv'
  BY <1>0, <1>z, <1>13 DEF AllocProc, Calls, CpuInv
<1>14. ASSUME NEW c \in CPUs, ForkDone(c) PROVE ForkInv'
  BY <1>0, <1>z, <1>14 DEF ForkDone, Calls, CpuInv
<1>15. ASSUME NEW c \in CPUs, Exit(c) PROVE ForkInv'
  BY <1>0, <1>z, <1>15 DEF Exit, Switch, Calls, CpuInv, OneCpuPerProcess
<1>16. ASSUME NEW c \in CPUs, NEW z \in Procs, Reap(c, z) PROVE ForkInv'
  BY <1>0, <1>z, <1>16 DEF Reap, Calls
<1>17. ASSUME NEW p \in Procs, Wakeup(p) PROVE ForkInv'
  BY <1>0, <1>z, <1>17 DEF Wakeup
<1>18. CASE UNCHANGED vars
  BY <1>0, <1>z, <1>18 DEF vars
<1> QED
  BY Zenon, <1>1, <1>2, <1>3, <1>4, <1>5, <1>6, <1>7, <1>8, <1>9, <1>10, <1>11, <1>12,
     <1>13, <1>14, <1>15, <1>16, <1>17, <1>18 DEF Next, Scan, Handler, Call

\* The scheduler's invariant is inductive for every number of CPUs.
THEOREM SchedInvariant == Spec => []Inv
<1>1. Inv /\ [Next]_vars => Inv'
  BY ControlStep, NumberStep, OneCpuStep, CpuStep, ForkStep
     DEF Inv, TypeOK, SchedInv
<1> QED
  BY <1>1, InitInv, PTL DEF Spec

\* Types: in particular p->queue stays within slice_limit[].
THEOREM MlfqTypes == Spec => []TypeOK
BY SchedInvariant, PTL DEF Inv

\* However many CPUs scan the table at once, no process runs on two of them,
\* and a process marked RUNNING is really on one.
THEOREM RunsOnOneCpu == Spec => []OneCpuPerProcess
BY SchedInvariant, PTL DEF Inv, SchedInv
=============================================================================
