------------------------------- MODULE MCLog -------------------------------
(* Instances of the log small enough for TLC. *)
EXTENDS Log, TLC

CONSTANTS p1, p2, p3, b1, b2, b3, b4, v1, v2

TwoProcs == {p1, p2}
ThreeProcs == {p1, p2, p3}
OneBlock == {b1}
FourBlocks == {b1, b2, b3, b4}
OneVal == {v1}
TwoVals == {v1, v2}

ProcBlockSymmetry == Permutations(TwoProcs) \cup Permutations(FourBlocks)
============================================================================
