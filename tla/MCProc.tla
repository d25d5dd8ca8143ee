------------------------------ MODULE MCProc ------------------------------
(* Instances of the process life cycle small enough for TLC. *)
EXTENDS Proc

ZeroAndTwo == {0, 2}
===========================================================================
