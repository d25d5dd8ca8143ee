----------------------------- MODULE MCProcess -----------------------------
(***************************************************************************)
(* One instance of the life cycle of processes and of their memory.  A     *)
(* behavior runs one of the two: a process's memory is its own, and what   *)
(* the life cycle needs of it is whether an allocation fails.              *)
(***************************************************************************)
EXTENDS MCProc, Vm

\* Programs of one segment, and of two; sbrk() down, by less than a page, by two.
TwoImages == {<<1>>, <<2, 3>>}
ThreeDeltas == {-3, 1, 4}

VARIABLE part

ProcessInit == part \in {"proc", "vm"} /\ Init /\ VmInit

\* The calls of Vm are bounded: it may come to rest, but not by a panic; the
\* life cycle may not.
Rests == part # "proc" /\ ~vpanicked /\ UNCHANGED <<vars, vmVars, part>>

ProcessNext ==
  /\ UNCHANGED part
  /\ \/ part = "proc" /\ Next /\ UNCHANGED vmVars
     \/ part = "vm" /\ VmNext /\ UNCHANGED vars
     \/ Rests

\* The fairness of the life cycle, for the behaviors that run it.
ProcessFairness ==
  /\ \A p \in Procs : /\ SF_vars(part = "proc" /\ Dispatch(p))
                      /\ WF_vars(part = "proc" /\ Yield(p))
                      /\ SF_vars(part = "proc" /\ KernelStep(p))
  /\ SF_vars(part = "proc" /\ CallWait(initproc)) /\ WF_vars(part = "proc" /\ Tick)

ProcessSpec == ProcessInit /\ [][ProcessNext]_<<vars, vmVars, part>> /\ ProcessFairness
============================================================================
