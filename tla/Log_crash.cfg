SPECIFICATION Spec
CONSTANTS
  p1 = p1  p2 = p2  p3 = p3
  b1 = b1  b2 = b2  b3 = b3  b4 = b4
  v1 = v1  v2 = v2
  Zero = v1
  Proc <- TwoProcs
  Block <- FourBlocks
  Val <- TwoVals
  LOGBLOCKS = 4
  MAXOPBLOCKS = 2
  OpBlocks = 1
  MaxOps = 4
SYMMETRY ProcBlockSymmetry
INVARIANTS NoPanic
PROPERTIES CrashAtomic SyncDurable
