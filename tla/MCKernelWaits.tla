--------------------------- MODULE MCKernelWaits ---------------------------
(***************************************************************************)
(* One instance of the log, the buffer cache and the pipes, where          *)
(* processes wait for each other.  A behavior runs one part; what others   *)
(* do to it (kill, the processes on the other side) is among its actions.  *)
(***************************************************************************)
EXTENDS MCLog, Pipe, Bcache

Parts == {"log", "pipe", "bcache"}

VARIABLE part

kernelVars == <<vars, pipeVars, bcacheVars, part>>

KernelInit == part \in Parts /\ Init /\ PipeInit /\ BcacheInit

\* The calls of the other parts are bounded, and readers may wait for input that
\* never comes: they may come to rest, the log may not.
Rests == part # "log" /\ UNCHANGED kernelVars

KernelNext ==
  /\ UNCHANGED part
  /\ \/ part = "log" /\ Next /\ UNCHANGED <<pipeVars, bcacheVars>>
     \/ part = "pipe" /\ PipeNext /\ UNCHANGED <<vars, bcacheVars>>
     \/ part = "bcache" /\ BcacheNext /\ UNCHANGED <<vars, pipeVars>>
     \/ Rests

\* The fairness of each part, for the behaviors that run it.
KernelFairness ==
  /\ \A p \in Proc :
       /\ WF_vars(part = "log" /\ phase # "panic" /\ pc[p] = "begin" /\ BeginOp(p))
       /\ WF_vars(part = "log" /\ phase # "panic" /\ (EndOp(p) \/ EndCommit(p) \/ SyncLoop(p)))
  /\ WF_vars(part = "log" /\ (CommitStep \/ ReadHead))
  /\ \A p \in PipeProcs : WF_pipeVars(part = "pipe" /\ PipeStep(p))
  /\ \A p \in BProcs : WF_bcacheVars(part = "bcache" /\ BufStep(p))

KernelSpec == KernelInit /\ [][KernelNext]_kernelVars /\ KernelFairness
============================================================================
