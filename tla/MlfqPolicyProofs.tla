-------------------------- MODULE MlfqPolicyProofs --------------------------
(***************************************************************************)
(* Proofs of the scheduling policy with one CPU: strict priority, complete *)
(* boosts and earned demotions.                                            *)
(***************************************************************************)
EXTENDS MlfqProofs

---------------------------------------------------------------------------
(* The scheduling policy with one CPU *)

LEMMA OneCpuInit == Init => OneCpuInv
BY DEF Init, StartWith, OneCpuInv, ScanInv, BestInv, BoostInv, DemoteInv

\* Nothing else moves while the only CPU scans, boosts or demotes.
LEMMA OneCpuInvStep ==
  ASSUME NCPU = 1, Inv, OneCpuInv, [Next]_vars PROVE OneCpuInv'
<1> USE DEF ScanInv, BestInv, BoostInv, DemoteInv, procvars, cpuvars, Goto
<1>0. ControlOK /\ CpuInv /\ NumberOK /\ \A c \in CPUs : ScanInv(c) /\ BestInv(c) /\ BoostInv(c)
  BY DEF Inv, TypeOK, SchedInv, OneCpuInv
<1>z. NoProc \notin Procs
  BY DEF NoProc, Procs
<1>s. ASSUME NEW c \in CPUs, (ScanInv(c) /\ BestInv(c) /\ BoostInv(c) /\ DemoteInv(c))'
      PROVE  OneCpuInv'
  <2>1. \A d \in CPUs : d = c
    BY MlfqAssumption DEF CPUs
  <2> QED
    BY <1>s, <2>1 DEF OneCpuInv
<1>1. ASSUME NEW c \in CPUs, StartScan(c) PROVE OneCpuInv'
  <2>1. best'[c] = NoProc /\ pc'[c] = "scan" /\ scanq'[c] = 0 /\ idx'[c] = 1
    BY <1>0, <1>1 DEF StartScan, CpuInv, ControlOK, NumberOK
  <2>2. \A r \in Procs : queue'[r] >= 0 /\ ~(r < 1)
    <3>1. queue' = queue
      BY <1>1 DEF StartScan
    <3>2. \A r \in Procs : queue[r] \in 0..3 /\ r \in 1..NPROC
      BY <1>0 DEF NumberOK, Queues, Procs
    <3> QED
      BY <3>1, <3>2, MlfqAssumption
  <2> QED
    BY <1>s, <2>1, <2>2
<1>2. ASSUME NEW c \in CPUs, ScanEntry(c) PROVE OneCpuInv'
  <2> DEFINE p == idx[c]
  <2> DEFINE take == state[p] = "RUNNABLE" /\ queue[p] = scanq[c] /\ Earlier(p, best[c])
  <2>1. /\ p \in Procs /\ p <= NPROC /\ pc[c] = "scan" /\ pc'[c] = "scan"
        /\ idx'[c] = p + 1 /\ best'[c] = IF take THEN p ELSE best[c]
        /\ UNCHANGED <<state, queue, enter, scanq, reg, cur, slice>>
    BY <1>0, <1>2 DEF ScanEntry, NumberOK, Procs, ControlOK
  <2>2. BestInv(c)'
    BY <1>0, <2>1 DEF NumberOK, ControlOK, Procs, NoProc
  <2>3. ASSUME NEW r \in Procs, state[r] = "RUNNABLE"
        PROVE  /\ queue[r] >= scanq[c]
               /\ queue[r] = scanq[c] /\ r < p + 1
                    => best'[c] # NoProc /\ Before(best'[c], r)
    <3>1. queue[r] >= scanq[c]
      BY <1>0, <2>1, <2>3
    <3>2. ASSUME queue[r] = scanq[c], r < p + 1
          PROVE  best'[c] # NoProc /\ Before(best'[c], r)
      <4>1. CASE take
        <5>1. best'[c] = p /\ p # NoProc
          BY <2>1, <4>1, <1>z
        <5>2. CASE r = p
          BY <5>1, <5>2, <2>1 DEF Before, Procs
        <5>3. CASE r < p
          <6>1. best[c] # NoProc /\ Before(best[c], r) /\ best[c] \in Procs
            BY <1>0, <2>1, <2>3, <3>2, <5>3 DEF ControlOK
          <6>2. enter[p] < enter[best[c]] /\ queue[best[c]] = scanq[c]
            BY <1>0, <4>1, <6>1 DEF Earlier
          <6>3. enter[p] < enter[r]
            BY <1>0, <2>1, <6>1, <6>2, <3>2 DEF Before, NumberOK, Queues
          <6> QED
            BY <4>1, <5>1, <6>3, <3>2 DEF Before
        <5> QED
          BY <3>2, <5>2, <5>3, <2>1 DEF Procs
      <4>2. CASE ~take
        <5>1. best'[c] = best[c]
          BY <2>1, <4>2
        <5>2. CASE r = p
          <6>1. best[c] # NoProc /\ best[c] \in Procs /\ ~(enter[p] < enter[best[c]])
            BY <1>0, <2>1, <2>3, <3>2, <4>2, <5>2 DEF Earlier, ControlOK
          <6>2. queue[best[c]] = scanq[c] /\ best[c] < p
            BY <1>0, <6>1
          <6>3. enter[best[c]] < enter[p] \/ enter[best[c]] = enter[p]
            BY <1>0, <2>1, <6>1 DEF NumberOK
          <6> QED
            BY <3>2, <5>1, <5>2, <6>1, <6>2, <6>3, <2>1 DEF Before, Procs
        <5>3. CASE r < p
          BY <1>0, <2>1, <2>3, <3>2, <5>1, <5>3
        <5> QED
          BY <3>2, <5>2, <5>3, <2>1 DEF Procs
      <4> QED
        BY <4>1, <4>2
    <3> QED
      BY <3>1, <3>2
  <2>4. ScanInv(c)'
    BY <2>1, <2>3 DEF Before
  <2> QED
    BY <1>s, <2>1, <2>2, <2>4
<1>3. ASSUME NEW c \in CPUs, ScanDone(c) PROVE OneCpuInv'
  <2>1. CASE best[c] # NoProc
    <3>1. pc'[c] = "user" /\ best'[c] = NoProc
      BY <1>0, <1>3, <2>1 DEF ScanDone, ControlOK
    <3> QED
      BY <1>s, <3>1
  <2>2. CASE best[c] = NoProc /\ scanq[c] < 3
    <3>1. /\ pc[c] = "scan" /\ pc'[c] = "scan" /\ best'[c] = NoProc
          /\ idx'[c] = 1 /\ scanq'[c] = scanq[c] + 1 /\ UNCHANGED <<state, queue, enter>>
      BY <1>0, <1>3, <2>2 DEF ScanDone, ControlOK, NumberOK
    <3>2. \A r \in Procs : r < idx[c] /\ ~(r < 1)
      BY <1>0, <1>3, MlfqAssumption DEF ScanDone, NumberOK, Procs
    <3>3. \A r \in Procs : state[r] = "RUNNABLE" => queue[r] >= scanq[c] + 1
      BY SMTT(30), <1>0, <2>2, <3>1, <3>2 DEF NumberOK, Queues
    <3> QED
      BY <1>s, <3>1, <3>2, <3>3
  <2>3. CASE best[c] = NoProc /\ ~(scanq[c] < 3)
    <3>1. pc'[c] = "wfi" /\ best'[c] = NoProc
      BY <1>0, <1>3, <2>3 DEF ScanDone, ControlOK
    <3> QED
      BY <1>s, <3>1
  <2> QED
    BY <2>1, <2>2, <2>3
<1>4. ASSUME NEW c \in CPUs, Resume(c) PROVE OneCpuInv'
  <2>1. pc'[c] \notin {"scan", "boost", "demote"} /\ best'[c] = NoProc
    BY <1>0, <1>4 DEF Resume, CpuInv, ControlOK
  <2> QED
    BY <1>s, <2>1
<1>5. ASSUME NEW c \in CPUs, Timer(c) PROVE OneCpuInv'
  <2>1. pc'[c] \notin {"scan", "boost", "demote"} /\ best'[c] = NoProc
    BY <1>0, <1>5 DEF Timer, CpuInv, ControlOK
  <2> QED
    BY <1>s, <2>1
<1>6. ASSUME NEW c \in CPUs, WakeDone(c) PROVE OneCpuInv'
  <2>1. pc'[c] \notin {"scan", "boost", "demote"} /\ best'[c] = NoProc
    BY <1>0, <1>6 DEF WakeDone, CpuInv, ControlOK
  <2> QED
    BY <1>s, <2>1
<1>7. ASSUME NEW c \in CPUs, UpdateEntry(c) PROVE OneCpuInv'
  <2>1. best'[c] = NoProc /\ pc'[c] \notin {"scan", "demote"}
    BY <1>0, <1>7 DEF UpdateEntry, AfterClock, CpuInv, ControlOK
  <2>2. pc'[c] = "boost" => idx'[c] = 1
    BY <1>0, <1>7 DEF UpdateEntry, AfterClock, ControlOK, NumberOK
  <2>3. \A r \in Procs : ~(r < 1)
    BY DEF Procs
  <2> QED
    BY <1>s, <2>1, <2>2, <2>3
<1>8. ASSUME NEW c \in CPUs, BoostEntry(c) PROVE OneCpuInv'
  <2>1. best'[c] = NoProc /\ pc'[c] \notin {"scan", "demote"}
    BY SMTT(30), <1>0, <1>8 DEF BoostEntry, AfterClock, CpuInv, ControlOK
  <2>2. CASE idx[c] <= NPROC
    <3>1. idx[c] \in Procs /\ idx'[c] = idx[c] + 1 /\ state' = state
      BY <1>0, <1>8, <2>2 DEF BoostEntry, NumberOK, Procs
    <3>2. queue' = IF state[idx[c]] # "UNUSED" THEN [queue EXCEPT ![idx[c]] = 0] ELSE queue
      BY <1>8, <2>2 DEF BoostEntry, Boosted
    <3>3. \A r \in Procs : r < idx[c] + 1 => r < idx[c] \/ r = idx[c]
      BY <3>1 DEF Procs
    <3>4. BoostInv(c)'
      BY SMTT(30), <1>0, <1>8, <3>1, <3>2, <3>3 DEF BoostEntry, NumberOK
    <3> QED
      BY <1>s, <2>1, <3>4
  <2>3. CASE ~(idx[c] <= NPROC)
    <3>1. pc'[c] # "boost"
      BY SMTT(30), <1>0, <1>8, <2>3 DEF BoostEntry, AfterClock, ControlOK
    <3> QED
      BY <1>s, <2>1, <3>1
  <2> QED
    BY <2>2, <2>3
<1>9. ASSUME NEW c \in CPUs, Check(c) PROVE OneCpuInv'
  <2>1. best'[c] = NoProc /\ pc'[c] \notin {"scan", "boost"}
    BY <1>0, <1>9 DEF Check, CpuInv, ControlOK
  <2>2. DemoteInv(c)'
    BY <1>0, <1>9 DEF Check, ControlOK, NumberOK, Demoted, SliceSpent
  <2> QED
    BY <1>s, <2>1, <2>2
<1>10. ASSUME NEW c \in CPUs, Demote(c) PROVE OneCpuInv'
  <2>1. pc'[c] \notin {"scan", "boost", "demote"} /\ best'[c] = NoProc
    BY SMTT(30), <1>0, <1>10 DEF Demote, CpuInv, ControlOK
  <2> QED
    BY <1>s, <2>1
<1>11. ASSUME NEW c \in CPUs, Yield(c) PROVE OneCpuInv'
  <2>1. pc'[c] \notin {"scan", "boost", "demote"} /\ best'[c] = NoProc
    BY <1>0, <1>11 DEF Yield, Switch, CpuInv, ControlOK
  <2> QED
    BY <1>s, <2>1
<1>12. ASSUME NEW c \in CPUs, Sleep(c) PROVE OneCpuInv'
  <2>1. pc'[c] \notin {"scan", "boost", "demote"} /\ best'[c] = NoProc
    BY SMTT(30), <1>0, <1>12 DEF Sleep, Switch, Calls, CpuInv, ControlOK
  <2> QED
    BY <1>s, <2>1
<1>13. ASSUME NEW c \in CPUs, NEW n \in Procs, AllocProc(c, n) PROVE OneCpuInv'
  <2>1. pc'[c] \notin {"scan", "boost", "demote"} /\ best'[c] = NoProc
    BY SMTT(30), <1>0, <1>13 DEF AllocProc, Calls, CpuInv, ControlOK
  <2> QED
    BY <1>s, <2>1
<1>14. ASSUME NEW c \in CPUs, ForkDone(c) PROVE OneCpuInv'
  <2>1. pc'[c] \notin {"scan", "boost", "demote"} /\ best'[c] = NoProc
    BY <1>0, <1>14 DEF ForkDone, Calls, CpuInv, ControlOK
  <2> QED
    BY <1>s, <2>1
<1>15. ASSUME NEW c \in CPUs, Exit(c) PROVE OneCpuInv'
  <2>1. pc'[c] \notin {"scan", "boost", "demote"} /\ best'[c] = NoProc
    BY SMTT(30), <1>0, <1>15 DEF Exit, Switch, Calls, CpuInv, ControlOK
  <2> QED
    BY <1>s, <2>1
<1>16. ASSUME NEW c \in CPUs, NEW z \in Procs, Reap(c, z) PROVE OneCpuInv'
  <2>1. pc'[c] \notin {"scan", "boost", "demote"} /\ best'[c] = NoProc
    BY SMTT(30), <1>0, <1>16 DEF Reap, Calls, CpuInv, ControlOK
  <2> QED
    BY <1>s, <2>1
<1>17. ASSUME NEW p \in Procs, Wakeup(p) PROVE OneCpuInv'
  <2>1. PICK c \in CPUs : Kernel(c)
    BY <1>17 DEF Wakeup
  <2>2. pc'[c] \notin {"scan", "boost", "demote"} /\ best'[c] = NoProc
    BY <1>0, <1>17, <2>1 DEF Wakeup, Kernel, CpuInv
  <2> QED
    BY <1>s, <2>2
<1>18. CASE UNCHANGED vars
  BY <1>18 DEF vars, OneCpuInv, Before, Demoted, SliceSpent
<1> QED
  BY <1>1, <1>2, <1>3, <1>4, <1>5, <1>6, <1>7, <1>8, <1>9, <1>10, <1>11, <1>12,
     <1>13, <1>14, <1>15, <1>16, <1>17, <1>18 DEF Next, Scan, Handler, Call

\* With one CPU the scheduler's invariant and the policy's hold together.
LEMMA OneCpuInvariant == NCPU = 1 => (Spec => [](Inv /\ OneCpuInv))
<1> SUFFICES ASSUME NCPU = 1 PROVE Spec => [](Inv /\ OneCpuInv)
  OBVIOUS
<1>1. Init => Inv /\ OneCpuInv
  BY InitInv, OneCpuInit
<1>2. Inv /\ OneCpuInv /\ [Next]_vars => (Inv /\ OneCpuInv)'
  BY ControlStep, NumberStep, OneCpuStep, CpuStep, ForkStep, OneCpuInvStep
     DEF Inv, TypeOK, SchedInv
<1> QED
  BY <1>1, <1>2, PTL DEF Spec

\* With one CPU, scheduler() always starts the process at the head of the
\* highest non-empty queue, whatever the number of processes.
THEOREM StartsHighestPriority == NCPU = 1 => (Spec => StrictPriority)
<1> SUFFICES ASSUME NCPU = 1 PROVE Spec => StrictPriority
  OBVIOUS
<1> DEFINE Started1 == \A c \in CPUs : cur[c] = NoProc /\ cur'[c] # NoProc
             => \A r \in Procs : state[r] = "RUNNABLE" => Before(cur'[c], r)
<1>1. Inv /\ OneCpuInv /\ [Next]_vars => Started1
  <2> SUFFICES ASSUME Inv, OneCpuInv, [Next]_vars, NEW c \in CPUs,
                      cur[c] = NoProc, cur'[c] # NoProc,
                      NEW r \in Procs, state[r] = "RUNNABLE"
               PROVE  Before(cur'[c], r)
    OBVIOUS
  <2>0. ControlOK /\ NumberOK /\ CpuInv /\ ScanInv(c) /\ BestInv(c)
    BY DEF Inv, TypeOK, SchedInv, OneCpuInv
  <2>1. ScanDone(c)
    <3> USE DEF ControlOK, cpuvars, procvars
    <3>1. \A d \in CPUs : d = c
      BY MlfqAssumption DEF CPUs
    <3>2. ~UNCHANGED cur
      OBVIOUS
    <3>3. ASSUME NEW d \in CPUs, Scan(d) PROVE ScanDone(c)
      BY SMTT(30), <3>1, <3>2, <3>3 DEF Scan, StartScan, ScanEntry, Resume
    <3>4. ASSUME NEW d \in CPUs, Timer(d) \/ Handler(d) \/ Call(d) PROVE FALSE
      <4>1. ~Timer(d) /\ ~WakeDone(d) /\ ~UpdateEntry(d) /\ ~BoostEntry(d) /\ ~Check(d)
            /\ ~Demote(d)
        BY SMTT(30), <3>2 DEF Timer, WakeDone, UpdateEntry, BoostEntry, Check, Demote
      <4>2. ~Yield(d) /\ ~Sleep(d) /\ ~Exit(d)
        BY <2>0, <3>1 DEF Yield, Sleep, Exit, Switch
      <4>3. ~ForkDone(d) /\ (\A n \in Procs : ~AllocProc(d, n) /\ ~Reap(d, n))
        BY <3>2 DEF AllocProc, ForkDone, Reap
      <4> QED
        BY <3>4, <4>1, <4>2, <4>3 DEF Handler, Call
    <3>5. ASSUME NEW p \in Procs, Wakeup(p) PROVE FALSE
      BY <3>2, <3>5 DEF Wakeup
    <3> QED
      BY <3>2, <3>3, <3>4, <3>5 DEF Next, vars
  <2>2. best[c] # NoProc /\ cur'[c] = best[c] /\ best[c] \in Procs /\ pc[c] = "scan"
    BY <2>0, <2>1 DEF ScanDone, ControlOK
  <2>3. queue[r] >= scanq[c] /\ queue[best[c]] = scanq[c] /\ r < idx[c]
    <3>1. idx[c] > NPROC
      BY <2>1 DEF ScanDone
    <3>2. r < idx[c]
      BY <2>0, <3>1, MlfqAssumption DEF NumberOK, Procs
    <3>3. queue[best[c]] = scanq[c]
      BY <2>0, <2>2 DEF BestInv
    <3>4. queue[r] >= scanq[c]
      BY <2>0, <2>2 DEF ScanInv
    <3> QED
      BY <3>2, <3>3, <3>4
  <2>4. CASE queue[r] = scanq[c]
    BY <2>0, <2>2, <2>3, <2>4 DEF ScanInv
  <2>5. CASE queue[r] # scanq[c]
    <3>1. queue[best[c]] < queue[r]
      BY <2>0, <2>2, <2>3, <2>5 DEF NumberOK, Queues
    <3> QED
      BY <2>2, <3>1 DEF Before
  <2> QED
    BY <2>4, <2>5
<1>2. Inv /\ OneCpuInv /\ [Next]_vars => [Started1]_vars
  BY <1>1
<1> QED
  BY <1>2, OneCpuInvariant, PTL DEF Spec, StrictPriority

\* With one CPU, boost_priority() leaves every active process in queue 0.
THEOREM BoostsEveryProcess == NCPU = 1 => (Spec => BoostComplete)
<1> SUFFICES ASSUME NCPU = 1 PROVE Spec => BoostComplete
  OBVIOUS
<1> DEFINE AllBoosted == \A c \in CPUs : pc[c] = "boost" /\ pc'[c] # "boost"
             => \A p \in Procs : state[p] # "UNUSED" => queue[p] = 0
<1>1. Inv /\ OneCpuInv /\ [Next]_vars => AllBoosted
  <2> SUFFICES ASSUME Inv, OneCpuInv, [Next]_vars, NEW c \in CPUs, pc[c] = "boost",
                      pc'[c] # "boost", NEW q \in Procs, state[q] # "UNUSED"
               PROVE  queue[q] = 0
    OBVIOUS
  <2>0. ControlOK /\ NumberOK /\ BoostInv(c)
    BY DEF Inv, TypeOK, OneCpuInv
  <2>1. \A d \in CPUs : d = c
    BY MlfqAssumption DEF CPUs
  <2>2. idx[c] > NPROC
    <3> USE DEF cpuvars, Goto
    <3>1. ASSUME NEW d \in CPUs, Scan(d) \/ Timer(d) PROVE FALSE
      BY SMTT(30), <2>1, <3>1 DEF Scan, StartScan, ScanEntry, ScanDone, Resume, Timer
    <3>2. ASSUME NEW d \in CPUs, Handler(d) PROVE idx[c] > NPROC
      BY SMTT(30), <2>0, <2>1, <3>2, MlfqAssumption DEF Handler, WakeDone, UpdateEntry, BoostEntry,
         Check, Demote, Yield, NumberOK
    <3>3. ASSUME NEW d \in CPUs, Call(d) PROVE FALSE
      BY <2>1, <3>3 DEF Call, Calls, Sleep, AllocProc, ForkDone, Exit, Reap
    <3>4. ASSUME NEW p \in Procs, Wakeup(p) PROVE FALSE
      BY <3>4 DEF Wakeup
    <3> QED
      BY <3>1, <3>2, <3>3, <3>4 DEF Next, vars
  <2>3. q < idx[c]
    BY <2>0, <2>2, MlfqAssumption DEF NumberOK, Procs
  <2> QED
    BY <2>0, <2>3 DEF BoostInv
<1>2. Inv /\ OneCpuInv /\ [Next]_vars => [AllBoosted]_vars
  BY <1>1
<1> QED
  BY <1>2, OneCpuInvariant, PTL DEF Spec, BoostComplete

\* With one CPU a process loses priority only by using up its slice, one queue
\* at a time: the stores of the trap code are based on what is still there.
THEOREM DemotionIsEarned == NCPU = 1 => (Spec => DemotionEarned)
<1> SUFFICES ASSUME NCPU = 1 PROVE Spec => DemotionEarned
  OBVIOUS
<1> DEFINE Earned == \A p \in Procs : queue'[p] > queue[p]
             => queue'[p] = queue[p] + 1 /\ slice[p] >= SliceLimit[queue[p]]
<1>1. Inv /\ OneCpuInv /\ [Next]_vars => Earned
  <2> SUFFICES ASSUME Inv, OneCpuInv, [Next]_vars, NEW p \in Procs, queue'[p] > queue[p]
               PROVE  queue'[p] = queue[p] + 1 /\ slice[p] >= SliceLimit[queue[p]]
    OBVIOUS
  <2>0. NumberOK /\ queue[p] \in Nat /\ queue[p] <= 3
    BY DEF Inv, TypeOK, NumberOK, Queues
  <2>1. ~UNCHANGED queue
    BY <2>0
  <2>2. ASSUME NEW c \in CPUs, Demote(c)
        PROVE  queue'[p] = queue[p] + 1 /\ slice[p] >= SliceLimit[queue[p]]
    <3>1. queue' = [queue EXCEPT ![cur[c]] = reg[c]] /\ pc[c] = "demote"
      BY <2>2 DEF Demote
    <3>2. cur[c] = p
      BY <2>0, <3>1 DEF NumberOK
    <3>3. reg[c] = Demoted(p) /\ SliceSpent(p)
      BY SMTT(30), <3>1, <3>2 DEF OneCpuInv, DemoteInv
    <3> QED
      BY <2>0, <3>1, <3>2, <3>3 DEF Demoted, SliceSpent, NumberOK
  <2>3. ASSUME NEW c \in CPUs, Scan(c) \/ Timer(c) \/ Call(c) PROVE FALSE
    BY SMTT(30), <2>0, <2>1, <2>3 DEF Scan, StartScan, ScanEntry, ScanDone, Resume, Timer, Call, Sleep,
       AllocProc, ForkDone, Exit, Reap, procvars, NumberOK
  <2>4. ASSUME NEW c \in CPUs, Handler(c) PROVE Demote(c)
    BY <2>0, <2>1, <2>4 DEF Handler, WakeDone, UpdateEntry, BoostEntry, Check, Yield, procvars,
       NumberOK
  <2>5. ASSUME NEW r \in Procs, Wakeup(r) PROVE FALSE
    BY <2>1, <2>5 DEF Wakeup
  <2> QED
    BY <2>1, <2>2, <2>3, <2>4, <2>5 DEF Next, vars
<1>2. Inv /\ OneCpuInv /\ [Next]_vars => [Earned]_vars
  BY <1>1
<1> QED
  BY <1>2, OneCpuInvariant, PTL DEF Spec, DemotionEarned
===========================================================================
