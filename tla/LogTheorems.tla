---------------------------- MODULE LogTheorems ----------------------------
(***************************************************************************)
(* What the log promises, from the inductive invariant of LogProofs:       *)
(* durability of sys_sync, that the log implements AtomicDisk across       *)
(* crashes, and that begin_op's reservation keeps log_write from panicking.*)
(***************************************************************************)
EXTENDS LogProofs

----------------------------------------------------------------------------
(* sys_sync *)

\* When sys_sync returns, the operations that had ended before the call are on
\* disk: the commit it waited for had not started when they were still open.
THEOREM SyncIsDurable == Spec => SyncDurable
<1> DEFINE Returned ==
      \A p \in Proc : pc[p] = "sync" /\ pc'[p] = "idle" /\ ~(phase' = "read_head")
                        => durable >= owed[p]
<1>1. Inv /\ [Next]_vars => Returned
  <2> SUFFICES ASSUME Inv, [Next]_vars, NEW q \in Proc, pc[q] = "sync",
                      pc'[q] = "idle", ~(phase' = "read_head")
               PROVE  durable >= owed[q]
    OBVIOUS
  <2>0. SyncInv /\ ProcOK /\ CountOK
    BY DEF Inv, TypeOK, LogInv
  <2> USE DEF ProcOK, PCs, procvars
  <2>1. ASSUME NEW p \in Proc, BeginOp(p) PROVE FALSE
    BY <2>0, <2>1 DEF BeginOp
  <2>2. ASSUME NEW p \in Proc, NEW b \in Block, NEW v \in Val, LogWrite(p, b, v)
        PROVE  FALSE
    BY <2>0, <2>2 DEF LogWrite
  <2>3. ASSUME NEW p \in Proc, EndOp(p) PROVE FALSE
    BY Zenon, <2>0, <2>3 DEF EndOp, WakeupLog
  <2>4. ASSUME NEW p \in Proc, EndCommit(p) PROVE FALSE
    BY <2>0, <2>4 DEF EndCommit, WakeupLog
  <2>5. ASSUME NEW p \in Proc, SyncCall(p) PROVE FALSE
    BY <2>0, <2>5 DEF SyncCall
  <2>6. ASSUME NEW p \in Proc, SyncLoop(p) PROVE durable >= owed[q]
    BY <2>0, <2>6 DEF SyncLoop, SyncInv, CountOK
  <2>7. CASE CommitStep \/ ReadHead
    BY <2>7 DEF CommitStep, WriteLog, WriteHead, InstallTrans, ClearHead, ReadHead
  <2>8. CASE Crash
    BY <2>8 DEF Crash
  <2>9. CASE UNCHANGED vars
    BY <2>9 DEF vars
  <2> QED
    BY <2>1, <2>2, <2>3, <2>4, <2>5, <2>6, <2>7, <2>8, <2>9 DEF Next, ProcStep
<1>2. Inv /\ [Next]_vars => [Returned]_vars
  BY <1>1
<1> QED
  BY <1>2, LogInvariant, PTL DEF Spec, SyncDurable

----------------------------------------------------------------------------
(* The log implements AtomicDisk *)

\* The header decides what recovery restores: the log block of a block it
\* names, the home location of any other.
LEMMA RecoveredBlocks ==
  ASSUME DataOK, HeaderInv
  PROVE  /\ \A i \in 1..Len(dhead) : dhead[i] \in Block /\ Recovered[dhead[i]] = dlog[i]
         /\ \A b \in Block : b \notin Elems(dhead) => Recovered[b] = home[b]
<1>1. ASSUME NEW i \in 1..Len(dhead)
      PROVE  dhead[i] \in Block /\ Recovered[dhead[i]] = dlog[i]
  <2>1. dhead[i] \in Block /\ dhead[i] \in Elems(dhead)
    BY DEF DataOK, Elems
  <2>2. i = CHOOSE j \in 1..Len(dhead) : dhead[j] = dhead[i]
    BY DEF HeaderInv, Distinct
  <2> QED
    BY Zenon, <2>1, <2>2 DEF Recovered
<1>2. \A b \in Block : b \notin Elems(dhead) => Recovered[b] = home[b]
  BY DEF Recovered
<1> QED
  BY <1>1, <1>2

\* A transaction that is committed and has been copied to its log blocks is
\* what recovery restores.
LEMMA RecoveredCommitted ==
  ASSUME DataOK, HeaderInv, dhead = lh, Untouched, Copied(Len(lh) + 1)
  PROVE  Recovered = cache
<1>1. ASSUME NEW b \in Block PROVE Recovered[b] = cache[b]
  <2>1. CASE b \in Elems(lh)
    <3>1. PICK i \in 1..Len(lh) : lh[i] = b
      BY <2>1 DEF Elems
    <3>2. i < Len(lh) + 1
      BY DEF DataOK
    <3> QED
      BY <3>1, <3>2, RecoveredBlocks DEF Copied
  <2>2. CASE b \notin Elems(lh)
    BY <2>2, RecoveredBlocks DEF Untouched
  <2> QED
    BY <2>1, <2>2
<1> QED
  BY Zenon, <1>1 DEF Recovered, DataOK

LEMMA RecoveredCommittedNext ==
  (DataOK /\ HeaderInv /\ dhead = lh /\ Untouched /\ Copied(Len(lh) + 1)
     => Recovered = cache)'
<1>1. DataOK /\ HeaderInv /\ dhead = lh /\ Untouched /\ Copied(Len(lh) + 1)
        => Recovered = cache
  BY RecoveredCommitted
<1> QED
  BY <1>1, PTL

\* With every logged block installed, or an empty header, the home locations
\* are what recovery restores.
LEMMA RecoveredInstalled ==
  ASSUME DataOK, HeaderInv,
         dhead = <<>> \/ (dhead = lh /\ Installed(Len(lh) + 1))
  PROVE  Recovered = home
<1>1. ASSUME NEW b \in Block PROVE Recovered[b] = home[b]
  <2>1. CASE b \in Elems(dhead)
    <3>1. PICK i \in 1..Len(dhead) : dhead[i] = b
      BY <2>1 DEF Elems
    <3>2. dhead = lh /\ Installed(Len(lh) + 1) /\ i < Len(lh) + 1
      BY DEF DataOK
    <3> QED
      BY <3>1, <3>2, RecoveredBlocks DEF Installed
  <2>2. CASE b \notin Elems(dhead)
    BY <2>2, RecoveredBlocks
  <2> QED
    BY <2>1, <2>2
<1> QED
  BY <1>1 DEF Recovered, DataOK

\* Abbreviations for the refinement mapping of Log.
Mem == IF Booting THEN Recovered ELSE cache

\* Every step of the log is a step of AtomicDisk or leaves its variables alone.
LEMMA StepRefines ==
  ASSUME Inv, Inv', [Next]_vars PROVE [AD!Next]_(AD!vars)
<1> USE DEF Mem
<1>0. DataOK /\ HeaderInv /\ PhaseInv /\ OpInv /\ CountOK
  BY DEF Inv, TypeOK, LogInv
<1>0a. DataOK' /\ HeaderInv' /\ PhaseInv'
  BY DEF Inv, TypeOK, LogInv
<1>a. ASSUME Mem' = Mem, Recovered' = Recovered, outstanding' = outstanding
      PROVE  [AD!Next]_(AD!vars)
  BY <1>a DEF AD!vars
<1>b. ASSUME UNCHANGED diskvars PROVE Recovered' = Recovered
  BY <1>b DEF Recovered, diskvars
<1>1. ASSUME NEW p \in Proc, BeginOp(p) PROVE [AD!Next]_(AD!vars)
  <2>1. Mem' = Mem /\ Recovered' = Recovered
    BY <1>b, <1>1 DEF BeginOp, Booting, diskvars
  <2>2. outstanding' = outstanding \/ outstanding' = outstanding + 1
    BY <1>1 DEF BeginOp
  <2> QED
    BY <2>1, <2>2, <1>a DEF AD!Next, AD!Begin, AD!vars
<1>2. ASSUME NEW p \in Proc, NEW b \in Block, NEW v \in Val,
             LogWrite(p, b, v), phase # "panic"
      PROVE  [AD!Next]_(AD!vars)
  <2>1. phase = "none" /\ outstanding > 0
    BY <1>2, OpenOp DEF LogWrite
  <2>2. Recovered' = Recovered /\ outstanding' = outstanding
    BY <1>b, <1>2 DEF LogWrite, diskvars
  <2>3. Mem = cache /\ Mem' = [cache EXCEPT ![b] = v]
    BY <1>2, <2>1 DEF LogWrite, Booting
  <2>4. AD!Write(b, v)
    BY <2>1, <2>2, <2>3 DEF AD!Write
  <2> QED
    BY <2>4 DEF AD!Next
<1>3. ASSUME NEW p \in Proc, EndOp(p), phase # "panic" PROVE [AD!Next]_(AD!vars)
  <2>1. phase = "none" /\ outstanding > 0
    BY <1>3, OpenOp DEF EndOp
  <2>2. Recovered' = Recovered /\ outstanding' = outstanding - 1
    BY <1>b, <1>3 DEF EndOp, diskvars
  <2>3. Mem = cache /\ Mem' = cache
    BY <1>3, <2>1 DEF EndOp, CommitStart, Booting
  <2>4. AD!End
    BY <2>1, <2>2, <2>3 DEF AD!End
  <2> QED
    BY <2>4 DEF AD!Next
<1>4. ASSUME NEW p \in Proc, EndCommit(p) PROVE [AD!Next]_(AD!vars)
  BY <1>a, <1>b, <1>4 DEF EndCommit, Booting, diskvars
<1>5. ASSUME NEW p \in Proc, SyncCall(p) PROVE [AD!Next]_(AD!vars)
  BY <1>a, <1>b, <1>5 DEF SyncCall, Booting, diskvars
<1>6. ASSUME NEW p \in Proc, SyncLoop(p) PROVE [AD!Next]_(AD!vars)
  BY <1>a, <1>b, <1>6 DEF SyncLoop, Booting, diskvars
<1>7. ASSUME WriteLog PROVE [AD!Next]_(AD!vars)
  <2>1. phase = "write_log" /\ dhead = <<>> /\ dhead' = <<>> /\ home' = home
    BY <1>0, <1>7 DEF WriteLog, PhaseInv
  <2>2. Recovered = home /\ Recovered' = home
    BY <1>0, <1>0a, <2>1, RecoveredInstalled DEF Recovered, Elems
  <2> QED
    BY <1>a, <1>7, <2>1, <2>2 DEF WriteLog, Booting
<1>8. ASSUME WriteHead PROVE [AD!Next]_(AD!vars)
  <2>1. outstanding = 0 /\ outstanding' = 0
    BY <1>0, <1>8 DEF WriteHead, OpInv
  <2>2. Mem = cache /\ Mem' = cache
    BY <1>8 DEF WriteHead, Booting
  <2>3. Recovered' = cache'
    <3>1. (DataOK /\ HeaderInv /\ dhead = lh /\ Untouched /\ Copied(Len(lh) + 1))'
      BY <1>0a, <1>8 DEF WriteHead, PhaseInv
    <3> QED
      BY <3>1, RecoveredCommittedNext
  <2>4. AD!Commit
    BY <1>8, <2>1, <2>2, <2>3 DEF AD!Commit, WriteHead
  <2> QED
    BY <2>4 DEF AD!Next
<1>9. ASSUME InstallTrans PROVE [AD!Next]_(AD!vars)
  <2>1. CASE tail > Len(lh)
    <3>1. Recovered' = Recovered /\ cache' = cache /\ outstanding' = outstanding
      BY <1>9, <2>1 DEF InstallTrans, Recovered
    <3>2. Booting' = Booting
      BY <1>9, <2>1 DEF InstallTrans, Booting
    <3> QED
      BY <1>a, <3>1, <3>2
  <2>2. CASE ~(tail > Len(lh))
    <3>1. lh = dhead /\ tail \in 1..Len(dhead) /\ phase' = phase /\ dhead' = dhead
      BY <1>0, <1>9, <2>2 DEF InstallTrans, PhaseInv, DataOK, CountOK
    <3>2. lh[tail] \in Block /\ lh[tail] \in Elems(dhead)
      BY <1>0, <3>1 DEF DataOK, Elems
    <3>3. \A b \in Block : b \notin Elems(dhead) => home'[b] = home[b]
      BY <1>0, <1>9, <2>2, <3>2 DEF InstallTrans, DataOK
    <3>a. dlog' = dlog /\ Elems(dhead)' = Elems(dhead)
      BY <1>9, <3>1 DEF InstallTrans, Elems
    <3>4. Recovered' = Recovered
      BY <3>1, <3>3, <3>a DEF Recovered
    <3>5. CASE phase = "install"
      <4>1. dlog[tail] = cache[lh[tail]]
        BY <1>0, <3>1, <3>5 DEF PhaseInv, Copied, DataOK
      <4>2. cache' = cache
        BY <1>0, <1>9, <2>2, <3>2, <4>1 DEF InstallTrans, DataOK
      <4> QED
        BY <1>a, <1>9, <3>1, <3>4, <3>5, <4>2 DEF InstallTrans, Booting
    <3>6. CASE phase = "r_install"
      BY <1>a, <1>9, <3>1, <3>4, <3>6 DEF InstallTrans, Booting
    <3> QED
      BY <1>9, <3>5, <3>6 DEF InstallTrans
  <2> QED
    BY <2>1, <2>2
<1>10. ASSUME ClearHead PROVE [AD!Next]_(AD!vars)
  <2>1. Recovered = home
    BY <1>0, <1>10, RecoveredInstalled DEF ClearHead, PhaseInv
  <2>2. Recovered' = home'
    <3>1. (DataOK /\ HeaderInv /\ dhead = <<>>)'
      BY <1>0a, <1>10 DEF ClearHead
    <3> QED
      BY <3>1 DEF Recovered, Elems, DataOK
  <2>3. cache = home /\ cache' = cache /\ home' = home
    BY <1>0, <1>10 DEF ClearHead, PhaseInv
  <2> QED
    BY <1>a, <1>10, <2>1, <2>2, <2>3 DEF ClearHead, Booting
<1>11. ASSUME ReadHead PROVE [AD!Next]_(AD!vars)
  BY <1>a, <1>b, <1>11 DEF ReadHead, Booting, diskvars
<1>12. ASSUME Crash PROVE [AD!Next]_(AD!vars)
  <2>1. Recovered' = Recovered /\ Mem' = Recovered' /\ outstanding' = 0
    BY <1>b, <1>12 DEF Crash, Booting, diskvars
  <2>2. AD!Crash
    BY <2>1 DEF AD!Crash
  <2> QED
    BY <2>2 DEF AD!Next
<1>13. CASE UNCHANGED vars
  BY <1>a, <1>b, <1>13 DEF vars, Booting, diskvars
<1> QED
  BY <1>1, <1>2, <1>3, <1>4, <1>5, <1>6, <1>7, <1>8, <1>9, <1>10, <1>11,
     <1>12, <1>13 DEF Next, ProcStep, CommitStep

\* Crash atomicity for every number of processes, blocks and log blocks: the
\* log implements AtomicDisk, with write_head as its only commit point.
THEOREM LogIsCrashAtomic == Spec => CrashAtomic
<1>1. Init => AD!Init
  <2> SUFFICES ASSUME Init PROVE AD!Init
    OBVIOUS
  <2>1. ~Booting /\ cache \in [Block -> Val] /\ outstanding = 0
    BY DEF Init, Booting
  <2>2. Recovered = cache
    BY DEF Init, Recovered, Elems
  <2> QED
    BY <2>1, <2>2 DEF AD!Init
<1>2. Inv /\ Inv' /\ [Next]_vars => [AD!Next]_(AD!vars)
  BY StepRefines
<1> QED
  BY <1>1, <1>2, LogInvariant, PTL DEF Spec, CrashAtomic, AD!Spec

----------------------------------------------------------------------------
(* The reservation of begin_op *)

\* Spent is finite, and no larger than what the open operations may modify.
LEMMA SpentBound ==
  /\ IsFiniteSet(Spent) /\ Cardinality(Spent) \in Nat
  /\ Cardinality(Spent) <= Cardinality(OpProcs) * OpBlocks
<1>1. IsFiniteSet(1..OpBlocks) /\ Cardinality(1..OpBlocks) = OpBlocks
  BY LogAssumption, FS_Interval
<1>2. /\ IsFiniteSet(OpProcs \X (1..OpBlocks))
      /\ Cardinality(OpProcs \X (1..OpBlocks)) = Cardinality(OpProcs) * OpBlocks
  BY Zenon, <1>1, FiniteOps, FS_Product
<1>3. Spent \in SUBSET (OpProcs \X (1..OpBlocks))
  BY DEF Spent
<1> QED
  BY <1>2, <1>3, FS_Subset, FS_CardinalityType

\* A step that ends with no operation open: nothing is spent, nothing reserved.
LEMMA NoneOpen ==
  ASSUME Inv', outstanding' = 0, phase' # "panic"
  PROVE  ReserveInv'
<1>1. Cardinality(OpProcs)' = 0 /\ IsFiniteSet(OpProcs')
  BY FiniteOps DEF Inv, LogInv, OpInv
<1>2. OpProcs' = {}
  BY <1>1, FS_EmptySet
<1>3. Spent' = {}
  BY <1>2 DEF Spent
<1>4. Cardinality(Spent)' = 0
  BY <1>3, FS_EmptySet
<1>5. Len(lh)' <= LOGBLOCKS /\ Len(lh)' \in Nat
  BY DEF Inv, LogInv, HeaderInv, TypeOK, DataOK
<1> QED
  BY <1>2, <1>4, <1>5, LogAssumption DEF ReserveInv, NoPanic

\* A step that leaves the open operations and the header as they are.
LEMMA SameOps ==
  ASSUME ReserveInv, OpProcs' = OpProcs, UNCHANGED <<opset, lh, outstanding, phase>>
  PROVE  ReserveInv'
<1>1. Spent' = Spent
  BY DEF Spent
<1> QED
  BY <1>1 DEF ReserveInv, NoPanic, Elems

\* begin_op() admits an operation only when its whole reservation fits.
LEMMA BeginReserve ==
  ASSUME Inv, ReserveInv, NEW p \in Proc, BeginOp(p)
  PROVE  ReserveInv'
<1>0. ProcOK /\ CountOK /\ DataOK
  BY DEF Inv, TypeOK
<1>1. CASE committing = 1 \/ NoSpace
  <2>1. OpProcs' = OpProcs
    BY <1>0, <1>1 DEF BeginOp, OpProcs, ProcOK
  <2> QED
    BY <1>1, <2>1, SameOps DEF BeginOp
<1>2. CASE ~(committing = 1 \/ NoSpace)
  <2>1. OpProcs' = OpProcs \cup {p} /\ p \notin OpProcs
    BY <1>0, <1>2 DEF BeginOp, OpProcs, ProcOK
  <2>2. opset' = [opset EXCEPT ![p] = {}] /\ lh' = lh /\ phase' = phase
        /\ outstanding' = outstanding + 1
    BY <1>2 DEF BeginOp
  <2>3. \A q \in OpProcs : opset'[q] = opset[q]
    BY <1>0, <2>1, <2>2 DEF ProcOK, OpProcs
  <2>4. opset'[p] = {}
    BY <1>0, <2>2 DEF ProcOK
  <2>5. Len(lh)' + outstanding' * MAXOPBLOCKS <= LOGBLOCKS
    BY <1>0, <1>2, <2>2, LogAssumption DEF NoSpace, DataOK, CountOK
  <2>6. Cardinality(Spent)' \in Nat
    <3>1. IsFiniteSet(Spent')
      <4>1. Spent' \in SUBSET (OpProcs' \X (1..OpBlocks))
        BY DEF Spent
      <4>2. IsFiniteSet(1..OpBlocks)
        BY LogAssumption, FS_Interval
      <4>3. IsFiniteSet(OpProcs' \X (1..OpBlocks))
        BY ZenonT(30), <4>2, FiniteOps, FS_Product
      <4> QED
        BY <4>1, <4>3, FS_Subset
    <3> QED
      BY <3>1, FS_CardinalityType
  <2>7. Len(lh)' + outstanding' * MAXOPBLOCKS <= LOGBLOCKS + Cardinality(Spent)'
    <3>1. Len(lh)' \in Nat /\ outstanding' * MAXOPBLOCKS \in Nat
      BY <1>0, <2>2, LogAssumption DEF DataOK, CountOK
    <3> QED
      BY <2>5, <2>6, <3>1, LogAssumption
  <2>8. \A q \in OpProcs' : /\ IsFiniteSet(opset'[q])
                            /\ Cardinality(opset'[q]) <= OpBlocks
                            /\ opset'[q] \subseteq Elems(lh)'
    <3>1. Elems(lh)' = Elems(lh)
      BY <2>2 DEF Elems
    <3>2. IsFiniteSet(opset'[p]) /\ Cardinality(opset'[p]) = 0
      BY <2>4, FS_EmptySet
    <3>3. ASSUME NEW q \in OpProcs
          PROVE  /\ IsFiniteSet(opset'[q])
                 /\ Cardinality(opset'[q]) <= OpBlocks
                 /\ opset'[q] \subseteq Elems(lh)'
      <4>1. opset'[q] = opset[q]
        BY <2>3
      <4> QED
        BY <3>1, <4>1 DEF ReserveInv
    <3> QED
      BY <2>1, <2>4, <3>1, <3>2, <3>3, LogAssumption
  <2> QED
    BY <2>2, <2>7, <2>8 DEF ReserveInv, NoPanic
<1> QED
  BY <1>1, <1>2

\* log_write() finds room: an operation that has a block left to modify has not
\* used its reservation, and one that writes a block again has some to spare.
LEMMA WriteReserve ==
  ASSUME Inv, ReserveInv, OpBlocks < MAXOPBLOCKS,
         NEW p \in Proc, NEW b \in Block, NEW v \in Val, LogWrite(p, b, v)
  PROVE  ReserveInv'
<1>0. ProcOK /\ CountOK /\ DataOK /\ OpInv
  BY DEF Inv, TypeOK, LogInv
<1> DEFINE n == Cardinality(opset[p])
<1>1. p \in OpProcs /\ OpProcs' = OpProcs
  BY DEF LogWrite, OpProcs
<1>2. IsFiniteSet(opset[p]) /\ n \in Nat
  BY <1>1, FS_CardinalityType DEF ReserveInv
<1>3. Cardinality(Spent) \in Nat /\ Cardinality(Spent) <= outstanding * OpBlocks
  BY <1>0, SpentBound DEF OpInv
<1>4. outstanding > 0
  BY OpenOp DEF LogWrite
<1>5. outstanding * OpBlocks + outstanding <= outstanding * MAXOPBLOCKS
  <2>1. outstanding * (MAXOPBLOCKS - OpBlocks) >= outstanding * 1
    BY <1>0, LogAssumption DEF CountOK
  <2> QED
    BY <2>1, <1>0, LogAssumption DEF CountOK
<1>6. Len(lh) < LOGBLOCKS /\ Len(lh) \in Nat
  <2>1. /\ outstanding * OpBlocks \in Int /\ outstanding * MAXOPBLOCKS \in Int
        /\ outstanding \in Int /\ Len(lh) \in Nat /\ LOGBLOCKS \in Int
    BY <1>0, LogAssumption DEF CountOK, DataOK
  <2>2. Len(lh) + outstanding * MAXOPBLOCKS <= LOGBLOCKS + Cardinality(Spent)
    BY DEF ReserveInv
  <2>3. \A r, c, s, l, o, k \in Int :
          l + r <= k + s /\ s <= c /\ c + o <= r /\ o > 0 => l < k
    OBVIOUS
  <2> QED
    BY <2>1, <2>2, <2>3, <1>3, <1>4, <1>5
<1>7. phase' = phase /\ outstanding' = outstanding
      /\ lh' = IF b \in Elems(lh) THEN lh ELSE Append(lh, b)
  <2>1. ~(Len(lh) >= LOGBLOCKS \/ outstanding < 1)
    BY <1>0, <1>4, <1>6, LogAssumption DEF CountOK
  <2> QED
    BY <2>1 DEF LogWrite
<1>8. opset' = [opset EXCEPT ![p] = @ \cup {b}] /\ Cardinality(opset[p] \cup {b}) <= OpBlocks
  BY DEF LogWrite
<1>9. Elems(lh)' = Elems(lh) \cup {b}
  <2>1. CASE b \in Elems(lh)
    BY <1>7, <2>1 DEF Elems
  <2>2. CASE b \notin Elems(lh)
    BY <1>0, <1>7, <2>2 DEF Elems, DataOK
  <2> QED
    BY <2>1, <2>2
<1>10. opset'[p] = opset[p] \cup {b} /\ \A q \in Proc : q # p => opset'[q] = opset[q]
  BY <1>0, <1>8 DEF ProcOK
<1>11. \A q \in OpProcs' : /\ IsFiniteSet(opset'[q])
                           /\ Cardinality(opset'[q]) <= OpBlocks
                           /\ opset'[q] \subseteq Elems(lh)'
  <2>1. IsFiniteSet(opset'[p]) /\ Cardinality(opset'[p]) <= OpBlocks
        /\ opset'[p] \subseteq Elems(lh)'
    <3>1. IsFiniteSet(opset[p] \cup {b})
      BY SMTT(30), <1>2, FS_AddElement
    <3>2. opset[p] \subseteq Elems(lh)
      BY <1>1 DEF ReserveInv
    <3> QED
      BY SMTT(30), <1>8, <1>9, <1>10, <3>1, <3>2
  <2>2. ASSUME NEW q \in OpProcs, q # p
        PROVE  /\ IsFiniteSet(opset'[q])
               /\ Cardinality(opset'[q]) <= OpBlocks
               /\ opset'[q] \subseteq Elems(lh)'
    <3>1. opset'[q] = opset[q]
      BY <1>10, <2>2 DEF OpProcs
    <3> QED
      BY <1>9, <3>1 DEF ReserveInv
  <2> QED
    BY <1>1, <2>1, <2>2
<1>12. CASE b \in opset[p]
  <2>1. opset' = opset
    BY SMTT(30), <1>0, <1>8, <1>12 DEF ProcOK
  <2>2. lh' = lh
    BY SMTT(30), <1>1, <1>7, <1>12 DEF ReserveInv
  <2> QED
    BY <1>1, <1>7, <2>1, <2>2, SameOps
<1>13. CASE b \notin opset[p]
  <2>1. Cardinality(opset'[p]) = n + 1 /\ n + 1 \in 1..OpBlocks
    <3>1. Cardinality(opset[p] \cup {b}) = n + 1
      BY ZenonT(30), <1>2, <1>13, FS_AddElement
    <3>2. Cardinality(opset'[p]) = n + 1
      BY <1>10, <3>1
    <3>3. n + 1 <= OpBlocks
      BY <1>8, <3>1
    <3> QED
      BY SMTT(30), <1>2, <3>2, <3>3, LogAssumption
  <2>2. Spent' = Spent \cup {<<p, n + 1>>}
    <3>1. ASSUME NEW q \in OpProcs, NEW i \in 1..OpBlocks
          PROVE  i <= Cardinality(opset'[q]) <=>
                   i <= Cardinality(opset[q]) \/ (q = p /\ i = n + 1)
      <4>1. CASE q = p
        BY <1>2, <2>1, <4>1
      <4>2. CASE q # p
        <5>1. opset'[q] = opset[q]
          BY <1>10, <4>2 DEF OpProcs
        <5> QED
          BY <4>2, <5>1
      <4> QED
        BY <4>1, <4>2
    <3>2. ASSUME NEW q \in OpProcs, NEW i \in 1..OpBlocks
          PROVE  <<q, i>> \in Spent' <=> <<q, i>> \in Spent \/ <<q, i>> = <<p, n + 1>>
      BY <1>1, <3>1, <3>2 DEF Spent
    <3>3. Spent \subseteq OpProcs \X (1..OpBlocks) /\ Spent' \subseteq OpProcs \X (1..OpBlocks)
      BY <1>1 DEF Spent
    <3> QED
      BY SMTT(30), <1>1, <2>1, <3>2, <3>3
  <2>3. <<p, n + 1>> \notin Spent
    BY <1>2 DEF Spent
  <2>4. Cardinality(Spent)' = Cardinality(Spent) + 1
    BY Zenon, <2>2, <2>3, SpentBound, FS_AddElement
  <2>5. Len(lh)' <= Len(lh) + 1 /\ Len(lh)' \in Nat
    BY <1>0, <1>7 DEF DataOK
  <2>6. Len(lh)' + outstanding' * MAXOPBLOCKS <= LOGBLOCKS + Cardinality(Spent)'
    <3>1. outstanding * MAXOPBLOCKS \in Int
      BY <1>0, LogAssumption DEF CountOK
    <3> QED
      BY <1>3, <1>6, <1>7, <2>4, <2>5, <3>1, LogAssumption DEF ReserveInv
  <2> QED
    BY SMTT(30), <1>7, <1>11, <2>6 DEF ReserveInv, NoPanic
<1> QED
  BY <1>12, <1>13

\* end_op() gives back at least as much as its operation has used.
LEMMA EndReserve ==
  ASSUME Inv, Inv', ReserveInv, NEW p \in Proc, EndOp(p)
  PROVE  ReserveInv'
<1>0. ProcOK /\ CountOK /\ DataOK /\ OpInv
  BY DEF Inv, TypeOK, LogInv
<1>1. outstanding > 0 /\ phase = "none" /\ committing = 0
  BY <1>0, OpenOp DEF EndOp, ReserveInv, NoPanic, OpInv
<1>2. phase' # "panic" /\ outstanding' = outstanding - 1 /\ UNCHANGED <<lh, opset>>
  BY <1>1 DEF EndOp, CommitStart
<1>3. OpProcs' = OpProcs \ {p} /\ p \in OpProcs
  BY <1>1, EndOpProcs
<1> DEFINE D == {p} \X (1..OpBlocks)
<1>4. IsFiniteSet(D) /\ Cardinality(D) = OpBlocks
  <2>1. IsFiniteSet(1..OpBlocks) /\ Cardinality(1..OpBlocks) = OpBlocks
    BY LogAssumption, FS_Interval
  <2>2. IsFiniteSet({p}) /\ Cardinality({p}) = 1
    BY FS_Singleton
  <2>3. IsFiniteSet(D) /\ Cardinality(D) = 1 * OpBlocks
    BY ZenonT(30), <2>1, <2>2, FS_Product
  <2> QED
    BY <2>3, LogAssumption
<1>5. Spent' \subseteq Spent /\ Spent \subseteq Spent' \cup D
  BY <1>2, <1>3 DEF Spent
<1>6. IsFiniteSet(Spent') /\ Cardinality(Spent)' \in Nat /\ Cardinality(Spent) \in Nat
  BY <1>5, SpentBound, FS_Subset, FS_CardinalityType
<1>7. Cardinality(Spent) <= Cardinality(Spent)' + OpBlocks
  <2>1. /\ IsFiniteSet(Spent' \cup D)
        /\ Cardinality(Spent' \cup D) = Cardinality(Spent') + OpBlocks - Cardinality(Spent' \cap D)
    BY <1>4, <1>6, FS_Union
  <2>2. Cardinality(Spent' \cap D) \in Nat
    BY <1>4, FS_Subset, FS_CardinalityType
  <2>3. Cardinality(Spent) <= Cardinality(Spent' \cup D)
    BY <1>5, <2>1, FS_Subset
  <2> QED
    BY <1>6, <2>1, <2>2, <2>3, LogAssumption
<1>8. Len(lh)' + outstanding' * MAXOPBLOCKS <= LOGBLOCKS + Cardinality(Spent)'
  <2>1. outstanding' * MAXOPBLOCKS = outstanding * MAXOPBLOCKS - MAXOPBLOCKS
        /\ outstanding * MAXOPBLOCKS \in Int
    BY <1>0, <1>2, LogAssumption DEF CountOK
  <2>2. Len(lh)' = Len(lh) /\ Len(lh) \in Nat
    BY <1>0, <1>2 DEF DataOK
  <2>3. Len(lh) + outstanding * MAXOPBLOCKS <= LOGBLOCKS + Cardinality(Spent)
    BY DEF ReserveInv
  <2>4. OpBlocks <= MAXOPBLOCKS /\ OpBlocks \in Int /\ MAXOPBLOCKS \in Int /\ LOGBLOCKS \in Int
    BY LogAssumption
  <2>5. \A l, r, m, k, s, t, o \in Int :
          l + r <= k + s /\ s <= t + o /\ o <= m => l + (r - m) <= k + t
    OBVIOUS
  <2> QED
    BY <1>6, <1>7, <2>1, <2>2, <2>3, <2>4, <2>5
<1>9. Elems(lh)' = Elems(lh)
  BY <1>2 DEF Elems
<1> QED
  BY <1>2, <1>3, <1>8, <1>9 DEF ReserveInv, NoPanic

LEMMA ReserveStep ==
  ASSUME Inv, Inv', ReserveInv, [Next]_vars, OpBlocks < MAXOPBLOCKS
  PROVE  ReserveInv'
<1>0. ProcOK /\ CountOK /\ OpInv /\ phase # "panic"
  BY DEF Inv, TypeOK, LogInv, ReserveInv, NoPanic
<1>1. ASSUME NEW p \in Proc, EndCommit(p) PROVE ReserveInv'
  BY <1>0, <1>1, NoneOpen DEF EndCommit, OpInv
<1>2. ASSUME NEW p \in Proc, SyncCall(p) PROVE ReserveInv'
  <2>1. OpProcs' = OpProcs
    BY <1>0, <1>2 DEF SyncCall, OpProcs, ProcOK
  <2> QED
    BY <1>2, <2>1, SameOps DEF SyncCall
<1>3. ASSUME NEW p \in Proc, SyncLoop(p) PROVE ReserveInv'
  <2>1. OpProcs' = OpProcs
    BY <1>0, <1>3 DEF SyncLoop, OpProcs, ProcOK
  <2> QED
    BY <1>3, <2>1, SameOps DEF SyncLoop
<1>4. ASSUME CommitStep PROVE ReserveInv'
  <2>1. outstanding' = 0 /\ phase' # "panic"
    BY <1>0, <1>4 DEF CommitStep, WriteLog, WriteHead, InstallTrans, ClearHead, OpInv
  <2> QED
    BY <2>1, NoneOpen
<1>5. ASSUME ReadHead PROVE ReserveInv'
  BY <1>0, <1>5, NoneOpen DEF ReadHead, OpInv
<1>6. ASSUME Crash PROVE ReserveInv'
  BY <1>6, NoneOpen DEF Crash
<1>7. CASE UNCHANGED vars
  <2>1. OpProcs' = OpProcs
    BY <1>7 DEF vars, OpProcs
  <2> QED
    BY <1>7, <2>1, SameOps DEF vars
<1> QED
  BY SMTT(30), <1>1, <1>2, <1>3, <1>4, <1>5, <1>6, <1>7, BeginReserve, WriteReserve, EndReserve
     DEF Next, ProcStep

\* No panic of log_write() or end_op() is reached, for every number of
\* processes and every log size, when operations modify fewer blocks than
\* begin_op() reserves for them.
THEOREM LogNeverPanics ==
  ASSUME OpBlocks < MAXOPBLOCKS
  PROVE  Spec => []NoPanic
<1>1. Init => ReserveInv
  <2> SUFFICES ASSUME Init PROVE ReserveInv
    OBVIOUS
  <2>1. OpProcs = {}
    BY DEF Init, OpProcs
  <2>2. Spent = {}
    BY <2>1 DEF Spent
  <2>3. Cardinality(Spent) = 0
    BY <2>2, FS_EmptySet
  <2> QED
    BY <2>1, <2>3, LogAssumption DEF Init, ReserveInv, NoPanic
<1>2. Inv /\ Inv' /\ ReserveInv /\ [Next]_vars => ReserveInv'
  BY ReserveStep
<1>3. ReserveInv => NoPanic
  BY DEF ReserveInv
<1> QED
  BY <1>1, <1>2, <1>3, LogInvariant, PTL DEF Spec
============================================================================
