----------------------------- MODULE LogProofs -----------------------------
(***************************************************************************)
(* Proofs about the log for every number of processes, blocks and log      *)
(* blocks: its types and the inductive invariant LogInv.                   *)
(***************************************************************************)
EXTENDS Log, FiniteSetTheorems, TLAPS

Inv == TypeOK /\ LogInv

----------------------------------------------------------------------------
(* Types *)

LEMMA InitTypes == Init => TypeOK
<1>1. Init => DataOK
  BY LogAssumption DEF Init, DataOK
<1>2. Init => CountOK
  BY DEF Init, CountOK, Phases
<1>3. Init => ProcOK
  BY DEF Init, ProcOK, PCs
<1> QED
  BY <1>1, <1>2, <1>3 DEF TypeOK

\* The set of open operations is finite; an open one is counted, and keeps
\* commit and recovery out.
LEMMA FiniteOps == IsFiniteSet(OpProcs) /\ IsFiniteSet(OpProcs')
<1>1. OpProcs \in SUBSET Proc /\ OpProcs' \in SUBSET Proc
  BY DEF OpProcs
<1> QED
  BY <1>1, FS_Subset, LogAssumption

LEMMA OpenOp ==
  ASSUME Inv, NEW p \in Proc, pc[p] = "op"
  PROVE  outstanding > 0 /\ phase \in {"none", "panic"}
<1>1. p \in OpProcs
  BY DEF OpProcs
<1>2. Cardinality(OpProcs) \in Nat /\ Cardinality(OpProcs) # 0
  BY <1>1, FiniteOps, FS_EmptySet, FS_CardinalityType
<1> QED
  BY <1>2 DEF Inv, LogInv, OpInv

\* end_op() closes the operation of its caller and no other.
LEMMA EndOpProcs ==
  ASSUME Inv, NEW p \in Proc, EndOp(p), committing = 0
  PROVE  OpProcs' = OpProcs \ {p} /\ p \in OpProcs
<1>0. ProcOK
  BY DEF Inv, TypeOK
<1>1. p \in OpProcs /\ pc'[p] # "op"
  BY <1>0 DEF EndOp, WakeupLog, OpProcs, ProcOK
<1>2. \A q \in Proc : q # p => (pc'[q] = "op" <=> pc[q] = "op")
  BY <1>0 DEF EndOp, WakeupLog, ProcOK
<1> QED
  BY <1>1, <1>2 DEF OpProcs

\* Disk blocks and buffers: the indices tail and lh[tail] are in range.
LEMMA DataStep == ASSUME Inv, [Next]_vars PROVE DataOK'
<1> USE LogAssumption DEF DataOK, diskvars
<1>0. DataOK /\ CountOK /\ HeaderInv /\ PhaseInv
  BY DEF Inv, TypeOK, LogInv
<1>1. ASSUME NEW p \in Proc, BeginOp(p) PROVE DataOK'
  BY <1>0, <1>1 DEF BeginOp, NoSpace, Booting
<1>2. ASSUME NEW p \in Proc, NEW b \in Block, NEW v \in Val,
             LogWrite(p, b, v)
      PROVE  DataOK'
  <2>1. cache' \in [Block -> Val]
    BY <1>0, <1>2 DEF LogWrite
  <2>2. lh' \in Seq(Block) /\ pinned' \subseteq Block
    <3>1. CASE lh' = lh /\ pinned' = pinned
      BY <1>0, <3>1
    <3>2. CASE lh' = Append(lh, b) /\ pinned' = pinned \cup {b}
      BY <1>0, <3>2
    <3> QED
      BY <1>2, <3>1, <3>2 DEF LogWrite, Pin
  <2> QED
    BY <1>0, <1>2, <2>1, <2>2 DEF LogWrite
<1>3. ASSUME NEW p \in Proc, EndOp(p) PROVE DataOK'
  BY <1>0, <1>3 DEF EndOp, WakeupLog, CommitStart, LastOp
<1>4. ASSUME NEW p \in Proc, EndCommit(p) PROVE DataOK'
  BY <1>0, <1>4 DEF EndCommit, WakeupLog
<1>5. ASSUME NEW p \in Proc, SyncCall(p) PROVE DataOK'
  BY <1>0, <1>5 DEF SyncCall, SyncTarget
<1>6. ASSUME NEW p \in Proc, SyncLoop(p) PROVE DataOK'
  BY <1>0, <1>6 DEF SyncLoop
<1>7. ASSUME WriteLog PROVE DataOK'
  <2>1. lh[tail] \in Block
    BY <1>0, <1>7 DEF WriteLog, PhaseInv, CountOK
  <2>2. PICK v \in Bread(lh[tail]) : dlog' = [dlog EXCEPT ![tail] = v]
    BY Zenon, <1>7 DEF WriteLog
  <2>3. v \in Val
    BY <1>0, <2>1, <2>2 DEF Bread
  <2> QED
    BY Zenon, <1>0, <1>7, <2>2, <2>3 DEF WriteLog
<1>8. ASSUME WriteHead PROVE DataOK'
  BY <1>0, <1>8 DEF WriteHead
<1>9. ASSUME InstallTrans PROVE DataOK'
  BY <1>0, <1>9 DEF InstallTrans, PhaseInv, HeaderInv, CountOK, Phases
<1>10. ASSUME ClearHead PROVE DataOK'
  BY <1>0, <1>10 DEF ClearHead
<1>11. ASSUME ReadHead PROVE DataOK'
  BY <1>0, <1>11 DEF ReadHead
<1>12. ASSUME Crash PROVE DataOK'
  BY <1>0, <1>12 DEF Crash
<1>13. CASE UNCHANGED vars
  BY <1>0, <1>13 DEF vars
<1> QED
  BY <1>1, <1>2, <1>3, <1>4, <1>5, <1>6, <1>7, <1>8, <1>9, <1>10, <1>11,
     <1>12, <1>13 DEF Next, ProcStep, CommitStep

\* Counters: end_op never takes outstanding below zero.
LEMMA CountStep == ASSUME Inv, [Next]_vars PROVE CountOK'
<1> USE LogAssumption DEF CountOK, Phases, diskvars, countvars
<1>0. CountOK
  BY DEF Inv, TypeOK
<1>1. ASSUME NEW p \in Proc, BeginOp(p) PROVE CountOK'
  BY <1>0, <1>1 DEF BeginOp, NoSpace, Booting
<1>2. ASSUME NEW p \in Proc, NEW b \in Block, NEW v \in Val,
             LogWrite(p, b, v)
      PROVE  CountOK'
  BY <1>0, <1>2 DEF LogWrite, Pin
<1>3. ASSUME NEW p \in Proc, EndOp(p) PROVE CountOK'
  <2>1. outstanding > 0
    BY <1>3, OpenOp DEF EndOp
  <2> QED
    BY <1>0, <1>3, <2>1 DEF EndOp, CommitStart
<1>4. ASSUME NEW p \in Proc, EndCommit(p) PROVE CountOK'
  BY <1>0, <1>4 DEF EndCommit, WakeupLog
<1>5. ASSUME NEW p \in Proc, SyncCall(p) PROVE CountOK'
  BY <1>0, <1>5 DEF SyncCall, SyncTarget
<1>6. ASSUME NEW p \in Proc, SyncLoop(p) PROVE CountOK'
  BY <1>0, <1>6 DEF SyncLoop
<1>7. ASSUME WriteLog PROVE CountOK'
  BY <1>0, <1>7 DEF WriteLog, Bread
<1>8. ASSUME WriteHead PROVE CountOK'
  BY <1>0, <1>8 DEF WriteHead
<1>9. ASSUME InstallTrans PROVE CountOK'
  BY <1>0, <1>9 DEF InstallTrans
<1>10. ASSUME ClearHead PROVE CountOK'
  BY <1>0, <1>10 DEF ClearHead
<1>11. ASSUME ReadHead PROVE CountOK'
  BY <1>0, <1>11 DEF ReadHead
<1>12. ASSUME Crash PROVE CountOK'
  BY <1>0, <1>12 DEF Crash
<1>13. CASE UNCHANGED vars
  BY <1>0, <1>13 DEF vars
<1> QED
  BY <1>1, <1>2, <1>3, <1>4, <1>5, <1>6, <1>7, <1>8, <1>9, <1>10, <1>11,
     <1>12, <1>13 DEF Next, ProcStep, CommitStep

LEMMA ProcStepTypes == ASSUME Inv, [Next]_vars PROVE ProcOK'
<1> USE DEF ProcOK, PCs, procvars
<1>0. ProcOK /\ CountOK
  BY DEF Inv, TypeOK
<1>1. ASSUME NEW p \in Proc, BeginOp(p) PROVE ProcOK'
  BY Zenon, <1>0, <1>1 DEF BeginOp, NoSpace, Booting
<1>2. ASSUME NEW p \in Proc, NEW b \in Block, NEW v \in Val,
             LogWrite(p, b, v)
      PROVE  ProcOK'
  BY <1>0, <1>2 DEF LogWrite, Pin
<1>3. ASSUME NEW p \in Proc, EndOp(p) PROVE ProcOK'
  BY <1>0, <1>3 DEF EndOp, WakeupLog, CommitStart, LastOp
<1>4. ASSUME NEW p \in Proc, EndCommit(p) PROVE ProcOK'
  BY <1>0, <1>4 DEF EndCommit, WakeupLog
<1>5. ASSUME NEW p \in Proc, SyncCall(p) PROVE ProcOK'
  BY <1>0, <1>5 DEF SyncCall, SyncTarget, CountOK
<1>6. ASSUME NEW p \in Proc, SyncLoop(p) PROVE ProcOK'
  BY <1>0, <1>6 DEF SyncLoop
<1>7. ASSUME WriteLog PROVE ProcOK'
  BY <1>0, <1>7 DEF WriteLog, Bread
<1>8. ASSUME WriteHead PROVE ProcOK'
  BY <1>0, <1>8 DEF WriteHead
<1>9. ASSUME InstallTrans PROVE ProcOK'
  BY <1>0, <1>9 DEF InstallTrans
<1>10. ASSUME ClearHead PROVE ProcOK'
  BY <1>0, <1>10 DEF ClearHead
<1>11. ASSUME ReadHead PROVE ProcOK'
  BY <1>0, <1>11 DEF ReadHead
<1>12. ASSUME Crash PROVE ProcOK'
  BY <1>0, <1>12 DEF Crash
<1>13. CASE UNCHANGED vars
  BY <1>0, <1>13 DEF vars
<1> QED
  BY SMTT(30), <1>1, <1>2, <1>3, <1>4, <1>5, <1>6, <1>7, <1>8, <1>9, <1>10, <1>11,
     <1>12, <1>13 DEF Next, ProcStep, CommitStep

----------------------------------------------------------------------------
(* The inductive invariant *)

LEMMA InitInv == Init => LogInv
<1> SUFFICES ASSUME Init PROVE LogInv
  OBVIOUS
<1> USE LogAssumption
<1>1. HeaderInv
  BY DEF Init, HeaderInv, Distinct
<1>2. OpInv
  <2>1. OpProcs = {}
    BY DEF Init, OpProcs
  <2> QED
    BY <2>1, FS_EmptySet DEF Init, OpInv
<1>3. PhaseInv
  BY DEF Init, PhaseInv, Untouched, Elems
<1>4. SyncInv
  BY SMTT(30) DEF Init, SyncInv
<1> QED
  BY <1>1, <1>2, <1>3, <1>4 DEF LogInv

\* Absorption never logs a block twice, and log_write's check keeps the header
\* within the log.
LEMMA HeaderStep == ASSUME Inv, [Next]_vars PROVE HeaderInv'
<1> USE LogAssumption DEF HeaderInv, Distinct, diskvars
<1>0. HeaderInv /\ lh \in Seq(Block) /\ dhead \in Seq(Block)
  BY DEF Inv, TypeOK, DataOK, LogInv
<1>1. ASSUME NEW p \in Proc, BeginOp(p) PROVE HeaderInv'
  BY <1>0, <1>1 DEF BeginOp
<1>2. ASSUME NEW p \in Proc, NEW b \in Block, NEW v \in Val,
             LogWrite(p, b, v)
      PROVE  HeaderInv'
  <2>1. CASE lh' = lh
    BY <1>0, <1>2, <2>1 DEF LogWrite
  <2>2. CASE lh' = Append(lh, b) /\ b \notin Elems(lh) /\ ~(Len(lh) >= LOGBLOCKS)
    <3>1. Len(lh') = Len(lh) + 1 /\ lh'[Len(lh) + 1] = b
      BY <1>0, <2>2
    <3>2. \A i \in 1..Len(lh) : lh'[i] = lh[i] /\ lh'[i] # b
      BY <1>0, <2>2 DEF Elems
    <3>3. Distinct(lh)'
      BY <1>0, <3>1, <3>2
    <3> QED
      BY <1>0, <1>2, <2>2, <3>1, <3>3 DEF LogWrite
  <2> QED
    BY <1>2, <2>1, <2>2 DEF LogWrite
<1>3. ASSUME NEW p \in Proc, EndOp(p) PROVE HeaderInv'
  BY <1>0, <1>3 DEF EndOp
<1>4. ASSUME NEW p \in Proc, EndCommit(p) PROVE HeaderInv'
  BY <1>0, <1>4 DEF EndCommit
<1>5. ASSUME NEW p \in Proc, SyncCall(p) PROVE HeaderInv'
  BY SMTT(30), <1>0, <1>5 DEF SyncCall
<1>6. ASSUME NEW p \in Proc, SyncLoop(p) PROVE HeaderInv'
  BY SMTT(30), <1>0, <1>6 DEF SyncLoop
<1>7. ASSUME WriteLog PROVE HeaderInv'
  BY <1>0, <1>7 DEF WriteLog
<1>8. ASSUME WriteHead PROVE HeaderInv'
  BY <1>0, <1>8 DEF WriteHead
<1>9. ASSUME InstallTrans PROVE HeaderInv'
  BY <1>0, <1>9 DEF InstallTrans
<1>10. ASSUME ClearHead PROVE HeaderInv'
  BY <1>0, <1>10 DEF ClearHead
<1>11. ASSUME ReadHead PROVE HeaderInv'
  BY <1>0, <1>11 DEF ReadHead
<1>12. ASSUME Crash PROVE HeaderInv'
  BY <1>0, <1>12 DEF Crash
<1>13. CASE UNCHANGED vars
  BY <1>0, <1>13 DEF vars
<1> QED
  BY SMTT(30), <1>1, <1>2, <1>3, <1>4, <1>5, <1>6, <1>7, <1>8, <1>9, <1>10, <1>11,
     <1>12, <1>13 DEF Next, ProcStep, CommitStep

\* end_op commits only when it closes the last open operation, and begin_op
\* opens none during a commit.
LEMMA OpStep == ASSUME Inv, [Next]_vars PROVE OpInv'
<1> USE DEF OpInv, diskvars, procvars
<1>0. OpInv /\ CountOK /\ ProcOK
  BY DEF Inv, TypeOK, LogInv
<1>a. ASSUME OpProcs' = OpProcs PROVE Cardinality(OpProcs)' = Cardinality(OpProcs)
  BY <1>a
<1>1. ASSUME NEW p \in Proc, BeginOp(p), phase # "panic" PROVE OpInv'
  <2>1. CASE committing = 1 \/ NoSpace
    <3>1. OpProcs' = OpProcs
      BY <1>0, <1>1, <2>1 DEF BeginOp, OpProcs, ProcOK
    <3> QED
      BY <1>0, <1>1, <2>1, <3>1, <1>a DEF BeginOp
  <2>2. CASE ~(committing = 1 \/ NoSpace)
    <3>1. OpProcs' = OpProcs \cup {p} /\ p \notin OpProcs
      BY <1>0, <1>1, <2>2 DEF BeginOp, OpProcs, ProcOK
    <3>2. Cardinality(OpProcs)' = Cardinality(OpProcs) + 1
      BY <3>1, FiniteOps, FS_AddElement
    <3>3. phase' = "none" /\ committing' = 0
      BY <1>0, <1>1, <2>2 DEF BeginOp, Booting, CountOK, Phases
    <3> QED
      BY <1>0, <1>1, <2>2, <3>2, <3>3 DEF BeginOp
  <2> QED
    BY <2>1, <2>2
<1>2. ASSUME NEW p \in Proc, NEW b \in Block, NEW v \in Val,
             LogWrite(p, b, v), phase # "panic"
      PROVE  OpInv'
  <2>1. OpProcs' = OpProcs /\ phase = "none"
    BY <1>2, OpenOp DEF LogWrite, OpProcs
  <2> QED
    BY <1>0, <1>2, <2>1, <1>a DEF LogWrite
<1>3. ASSUME NEW p \in Proc, EndOp(p), phase # "panic" PROVE OpInv'
  <2>1. phase = "none" /\ committing = 0
    BY <1>0, <1>3, OpenOp DEF EndOp
  <2>2. OpProcs' = OpProcs \ {p} /\ p \in OpProcs
    BY <1>3, <2>1, EndOpProcs
  <2>3. Cardinality(OpProcs)' = Cardinality(OpProcs) - 1
    BY <2>2, FiniteOps, FS_RemoveElement
  <2> QED
    BY <1>0, <1>3, <2>1, <2>3 DEF EndOp, LastOp, CommitStart, CountOK
<1>4. ASSUME NEW p \in Proc, EndCommit(p) PROVE OpInv'
  <2>1. OpProcs' = OpProcs
    BY <1>0, <1>4 DEF EndCommit, WakeupLog, OpProcs, ProcOK, PCs
  <2> QED
    BY <1>0, <1>4, <2>1, <1>a DEF EndCommit
<1>5. ASSUME NEW p \in Proc, SyncCall(p) PROVE OpInv'
  <2>1. OpProcs' = OpProcs
    BY <1>0, <1>5 DEF SyncCall, OpProcs, ProcOK
  <2> QED
    BY <1>0, <1>5, <2>1, <1>a DEF SyncCall
<1>6. ASSUME NEW p \in Proc, SyncLoop(p) PROVE OpInv'
  <2>1. OpProcs' = OpProcs
    BY <1>0, <1>6 DEF SyncLoop, OpProcs, ProcOK
  <2> QED
    BY <1>0, <1>6, <2>1, <1>a DEF SyncLoop
<1>7. ASSUME WriteLog PROVE OpInv'
  BY <1>0, <1>7 DEF WriteLog, OpProcs
<1>8. ASSUME WriteHead PROVE OpInv'
  BY <1>0, <1>8 DEF WriteHead, OpProcs
<1>9. ASSUME InstallTrans PROVE OpInv'
  BY <1>0, <1>9 DEF InstallTrans, OpProcs
<1>10. ASSUME ClearHead PROVE OpInv'
  BY <1>0, <1>10 DEF ClearHead, OpProcs
<1>11. ASSUME ReadHead PROVE OpInv'
  BY <1>0, <1>11 DEF ReadHead, OpProcs
<1>12. ASSUME Crash PROVE OpInv'
  <2>1. OpProcs' = {}
    BY <1>12 DEF Crash, OpProcs
  <2> QED
    BY <1>12, <2>1, FS_EmptySet DEF Crash
<1>13. CASE UNCHANGED vars
  BY SMTT(30), <1>0, <1>13 DEF vars, OpProcs
<1> QED
  BY <1>1, <1>2, <1>3, <1>4, <1>5, <1>6, <1>7, <1>8, <1>9, <1>10, <1>11,
     <1>12, <1>13 DEF Next, ProcStep, CommitStep

\* What a step of commit or of recovery leaves on disk is what the next one
\* needs: log blocks before the header, the header before the home blocks.
LEMMA PhaseStep == ASSUME Inv, [Next]_vars PROVE PhaseInv'
<1> USE LogAssumption DEF PhaseInv, Untouched, Copied, Installed, Elems, diskvars
<1>0. DataOK /\ HeaderInv /\ PhaseInv /\ CountOK /\ OpInv
  BY DEF Inv, TypeOK, LogInv
<1>1. ASSUME NEW p \in Proc, BeginOp(p), phase # "panic" PROVE PhaseInv'
  BY SMTT(30), <1>0, <1>1 DEF BeginOp
<1>2. ASSUME NEW p \in Proc, NEW b \in Block, NEW v \in Val,
             LogWrite(p, b, v), phase # "panic"
      PROVE  PhaseInv'
  <2>1. phase = "none"
    BY SMTT(30), <1>2, OpenOp DEF LogWrite
  <2>2. CASE phase' = "panic"
    BY <2>2
  <2>3. CASE phase' = phase
    <3>1. dhead' = <<>>
      BY <1>0, <1>2, <2>1 DEF LogWrite
    <3>2. Elems(lh)' = Elems(lh) \cup {b} /\ Elems(lh') \subseteq pinned'
      <4>1. CASE b \in Elems(lh) /\ lh' = lh /\ pinned' = pinned
        BY <1>0, <2>1, <4>1
      <4>2. CASE lh' = Append(lh, b) /\ pinned' = pinned \cup {b}
        <5>1. Len(lh') = Len(lh) + 1 /\ \A i \in 1..Len(lh') :
                lh'[i] = IF i = Len(lh) + 1 THEN b ELSE lh[i]
          BY <1>0, <4>2 DEF DataOK
        <5>2. Elems(lh)' = Elems(lh) \cup {b}
          <6>1. Elems(lh) \subseteq Elems(lh') /\ b \in Elems(lh')
            <7>1. \A i \in 1..Len(lh) : i \in 1..Len(lh') /\ lh'[i] = lh[i]
              BY <1>0, <5>1 DEF DataOK
            <7>2. Len(lh) + 1 \in 1..Len(lh') /\ lh'[Len(lh) + 1] = b
              BY <1>0, <5>1 DEF DataOK
            <7> QED
              BY <7>1, <7>2
          <6>2. Elems(lh') \subseteq Elems(lh) \cup {b}
            <7>1. \A i \in 1..Len(lh') : i = Len(lh) + 1 \/ i \in 1..Len(lh)
              BY <1>0, <5>1 DEF DataOK
            <7> QED
              BY <5>1, <7>1
          <6> QED
            BY Zenon, <6>1, <6>2
        <5> QED
          BY <1>0, <2>1, <4>2, <5>2
      <4> QED
        BY SMTT(30), <1>2, <2>1, <2>3, <4>1, <4>2 DEF LogWrite, Pin
    <3>3. Untouched'
      BY Zenon, <1>0, <1>2, <2>1, <3>2 DEF LogWrite, DataOK
    <3> QED
      BY SMTT(30), <2>1, <2>3, <3>1, <3>2, <3>3
  <2> QED
    BY <1>2, <2>2, <2>3 DEF LogWrite
<1>3. ASSUME NEW p \in Proc, EndOp(p), phase # "panic" PROVE PhaseInv'
  <2>1. phase = "none"
    BY <1>3, OpenOp DEF EndOp
  <2>2. phase' \in {"panic", "none", "write_log", "done"}
    BY SMTT(30), <1>3, <2>1 DEF EndOp, CommitStart
  <2>3. CASE phase' = "write_log"
    BY SMTT(30), <1>0, <1>3, <2>1, <2>3 DEF EndOp, CommitStart, DataOK
  <2>4. CASE phase' = "done"
    <3>1. lh = <<>>
      BY <1>0, <1>3, <2>1, <2>4 DEF EndOp, CommitStart, DataOK
    <3>2. cache = home
      BY SMTT(30), <1>0, <2>1, <3>1 DEF DataOK
    <3> QED
      BY SMTT(30), <1>0, <1>3, <2>1, <2>4, <3>1, <3>2 DEF EndOp
  <2>5. CASE phase' = "none"
    BY SMTT(30), <1>0, <1>3, <2>1, <2>5 DEF EndOp
  <2> QED
    BY <2>2, <2>3, <2>4, <2>5
<1>4. ASSUME NEW p \in Proc, EndCommit(p) PROVE PhaseInv'
  BY SMTT(30), <1>0, <1>4 DEF EndCommit
<1>5. ASSUME NEW p \in Proc, SyncCall(p) PROVE PhaseInv'
  BY SMTT(30), <1>0, <1>5 DEF SyncCall
<1>6. ASSUME NEW p \in Proc, SyncLoop(p) PROVE PhaseInv'
  BY SMTT(30), <1>0, <1>6 DEF SyncLoop
<1>7. ASSUME WriteLog PROVE PhaseInv'
  <2>1. lh[tail] \in Block /\ Bread(lh[tail]) = {cache[lh[tail]]}
    BY <1>0, <1>7 DEF WriteLog, Bread, DataOK
  <2>2. dlog' = [dlog EXCEPT ![tail] = cache[lh[tail]]]
    BY ZenonT(30), <1>7, <2>1 DEF WriteLog
  <2>3. \A i \in 1..Len(lh) : i <= tail => dlog'[i] = cache[lh[i]]
    BY SMTT(30), <1>0, <1>7, <2>2 DEF WriteLog, DataOK, HeaderInv
  <2> QED
    BY SMTT(30), <1>0, <1>7, <2>3 DEF WriteLog, DataOK
<1>8. ASSUME WriteHead PROVE PhaseInv'
  BY <1>0, <1>8 DEF WriteHead, DataOK
<1>9. ASSUME InstallTrans PROVE PhaseInv'
  <2>1. CASE tail > Len(lh) /\ phase = "install"
    <3>1. \A b \in Block : cache[b] = home[b]
      BY SMTT(30), <1>0, <1>9, <2>1 DEF DataOK
    <3> QED
      BY <1>0, <1>9, <2>1, <3>1 DEF InstallTrans, DataOK
  <2>2. CASE tail > Len(lh) /\ phase = "r_install"
    BY SMTT(30), <1>0, <1>9, <2>2 DEF InstallTrans, DataOK
  <2>3. CASE ~(tail > Len(lh))
    <3>1. lh[tail] \in Block /\ dlog[tail] \in Val
      BY SMTT(30), <1>0, <1>9, <2>3 DEF InstallTrans, DataOK, HeaderInv, CountOK
    <3>2. \A i \in 1..Len(lh) : i <= tail => home'[lh[i]] = dlog[i]
      BY SMTT(30), <1>0, <1>9, <2>3, <3>1 DEF InstallTrans, DataOK, HeaderInv, Distinct
    <3>3. CASE phase = "install"
      <4>1. cache' = cache
        <5>1. Copied(Len(lh) + 1) /\ tail \in 1..Len(lh) /\ tail < Len(lh) + 1
          BY <1>0, <2>3, <3>3 DEF DataOK, CountOK
        <5>2. dlog[tail] = cache[lh[tail]]
          BY <5>1 DEF Copied
        <5>3. cache' = [cache EXCEPT ![lh[tail]] = dlog[tail]]
          BY SMTT(30), <1>9, <2>3 DEF InstallTrans
        <5> QED
          BY SMTT(30), <1>0, <3>1, <5>2, <5>3 DEF DataOK
      <4>2. \A b \in Block : b \notin Elems(lh) => cache'[b] = home'[b]
        BY SMTT(30), <1>0, <1>9, <2>3, <3>1, <3>3, <4>1 DEF InstallTrans, DataOK
      <4> QED
        BY SMTT(30), <1>0, <1>9, <2>3, <3>2, <3>3, <4>1, <4>2 DEF InstallTrans, DataOK
    <3>4. CASE phase = "r_install"
      <4>1. cache' = home'
        BY Zenon, <1>0, <1>9, <2>3, <3>1, <3>4 DEF InstallTrans, DataOK
      <4>2. phase' = "r_install" /\ lh' = lh /\ dhead' = dhead /\ dlog' = dlog
        BY SMTT(30), <1>9, <2>3, <3>4 DEF InstallTrans
      <4>3. tail' \in 1..Len(lh) + 1 /\ \A i \in 1..Len(lh) : i < tail' => i <= tail
        BY SMTT(30), <1>0, <1>9, <2>3, <3>4 DEF InstallTrans, DataOK, CountOK
      <4> QED
        BY <1>0, <3>2, <3>4, <4>1, <4>2, <4>3
    <3> QED
      BY SMTT(30), <1>9, <3>3, <3>4 DEF InstallTrans
  <2> QED
    BY SMTT(30), <1>9, <2>1, <2>2, <2>3 DEF InstallTrans
<1>10. ASSUME ClearHead PROVE PhaseInv'
  BY SMTT(30), <1>0, <1>10 DEF ClearHead
<1>11. ASSUME ReadHead PROVE PhaseInv'
  BY SMTT(30), <1>0, <1>11 DEF ReadHead
<1>12. ASSUME Crash PROVE PhaseInv'
  BY SMTT(30), <1>0, <1>12 DEF Crash
<1>13. CASE UNCHANGED vars
  BY SMTT(30), <1>0, <1>13 DEF vars
<1> QED
  BY ZenonT(30), <1>1, <1>2, <1>3, <1>4, <1>5, <1>6, <1>7, <1>8, <1>9, <1>10, <1>11,
     <1>12, <1>13 DEF Next, ProcStep, CommitStep

\* A commit that finishes covers every operation that has ended.
LEMMA SyncStep == ASSUME Inv, [Next]_vars PROVE SyncInv'
<1> USE DEF SyncInv, Booting, CountOK, ProcOK, PCs, countvars, procvars
<1>0. SyncInv /\ CountOK /\ ProcOK /\ OpInv /\ PhaseInv
  BY DEF Inv, TypeOK, LogInv
<1>1. ASSUME NEW p \in Proc, BeginOp(p), phase # "panic" PROVE SyncInv'
  BY SMTT(30), <1>0, <1>1 DEF BeginOp, Phases, OpInv
<1>2. ASSUME NEW p \in Proc, NEW b \in Block, NEW v \in Val,
             LogWrite(p, b, v), phase # "panic"
      PROVE  SyncInv'
  <2>1. phase = "none"
    BY SMTT(30), <1>2, OpenOp DEF LogWrite
  <2> QED
    BY SMTT(30), <1>0, <1>2, <2>1 DEF LogWrite
<1>3. ASSUME NEW p \in Proc, EndOp(p), phase # "panic" PROVE SyncInv'
  <2>1. phase = "none" /\ committing = 0
    BY SMTT(30), <1>0, <1>3, OpenOp DEF EndOp, OpInv
  <2>2. CASE LastOp
    BY <1>0, <1>3, <2>1, <2>2 DEF EndOp, LastOp, CommitStart
  <2>3. CASE ~LastOp
    BY <1>0, <1>3, <2>1, <2>3 DEF EndOp, LastOp, WakeupLog
  <2> QED
    BY SMTT(30), <2>2, <2>3
<1>4. ASSUME NEW p \in Proc, EndCommit(p) PROVE SyncInv'
  BY <1>0, <1>4 DEF EndCommit, WakeupLog, OpInv
<1>5. ASSUME NEW p \in Proc, SyncCall(p), phase # "panic" PROVE SyncInv'
  BY <1>0, <1>5 DEF SyncCall, SyncTarget, OpInv, Phases
<1>6. ASSUME NEW p \in Proc, SyncLoop(p) PROVE SyncInv'
  BY <1>0, <1>6 DEF SyncLoop
<1>7. ASSUME WriteLog PROVE SyncInv'
  BY <1>0, <1>7 DEF WriteLog
<1>8. ASSUME WriteHead PROVE SyncInv'
  BY <1>0, <1>8 DEF WriteHead
<1>9. ASSUME InstallTrans PROVE SyncInv'
  BY <1>0, <1>9 DEF InstallTrans
<1>10. ASSUME ClearHead PROVE SyncInv'
  BY <1>0, <1>10 DEF ClearHead
<1>11. ASSUME ReadHead PROVE SyncInv'
  BY <1>0, <1>11 DEF ReadHead
<1>12. ASSUME Crash PROVE SyncInv'
  BY SMTT(30), <1>0, <1>12 DEF Crash
<1>13. CASE UNCHANGED vars
  BY <1>0, <1>13 DEF vars
<1> QED
  BY ZenonT(30), <1>1, <1>2, <1>3, <1>4, <1>5, <1>6, <1>7, <1>8, <1>9, <1>10, <1>11,
     <1>12, <1>13 DEF Next, ProcStep, CommitStep

\* The log's invariant is inductive: no interleaving of operations, commits,
\* syncs, crashes and recoveries leaves it.
THEOREM LogInvariant == Spec => []Inv
<1>1. Init => Inv
  BY InitTypes, InitInv DEF Inv
<1>2. Inv /\ [Next]_vars => Inv'
  BY DataStep, CountStep, ProcStepTypes, HeaderStep, OpStep, PhaseStep, SyncStep
     DEF Inv, TypeOK, LogInv
<1> QED
  BY <1>1, <1>2, PTL DEF Spec

\* The type invariant of the log, from the inductive invariant.
THEOREM LogTypes == Spec => []TypeOK
BY LogInvariant, PTL DEF Inv
============================================================================
