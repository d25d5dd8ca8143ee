---------------------------- MODULE AtomicDisk ----------------------------
(***************************************************************************)
(* What the file system is promised by the log of xv6/kernel/log.c: block  *)
(* writes made between begin_op() and end_op() are visible at once, become *)
(* durable only when no operation is in progress, all of them together,    *)
(* and a crash brings back exactly what was last made durable.             *)
(***************************************************************************)
EXTENDS Naturals

CONSTANTS Block,    \* block numbers of the file system
          Val       \* contents of a block

VARIABLES mem,      \* what a read of each block returns
          disk,     \* what each block holds after a crash
          active    \* number of operations between begin_op and end_op

vars == <<mem, disk, active>>

Init ==
  /\ mem \in [Block -> Val]
  /\ disk = mem
  /\ active = 0

Begin ==
  /\ active' = active + 1
  /\ UNCHANGED <<mem, disk>>

Write(b, v) ==
  /\ active > 0
  /\ mem' = [mem EXCEPT ![b] = v]
  /\ UNCHANGED <<disk, active>>

End ==
  /\ active > 0
  /\ active' = active - 1
  /\ UNCHANGED <<mem, disk>>

Commit ==
  /\ active = 0
  /\ disk' = mem
  /\ UNCHANGED <<mem, active>>

Crash ==
  /\ mem' = disk
  /\ active' = 0
  /\ UNCHANGED disk

Next ==
  \/ Begin
  \/ \E b \in Block, v \in Val : Write(b, v)
  \/ End
  \/ Commit
  \/ Crash

Spec == Init /\ [][Next]_vars
===========================================================================
