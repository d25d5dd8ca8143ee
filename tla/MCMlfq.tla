------------------------------ MODULE MCMlfq ------------------------------
(* Instances of the MLFQ scheduler small enough for TLC.  The slice limits  *)
(* keep the shape of {1, 4, 8, 16} (growing, 1 in queue 0) at small values. *)
EXTENDS Mlfq

SmallSlices == [q \in Queues |-> IF q < 3 THEN 1 ELSE 2]
OneTwo == {1, 2}
OneToFour == 1..4
JustOne == {1}
===========================================================================
