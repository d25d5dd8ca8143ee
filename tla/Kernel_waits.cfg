SPECIFICATION KernelSpec
CONSTANTS
  p1 = p1  p2 = p2  p3 = p3
  b1 = b1  b2 = b2  b3 = b3  b4 = b4
  v1 = v1  v2 = v2
  Zero = v1
  Proc <- ThreeProcs
  Block <- OneBlock
  Val <- OneVal
  LOGBLOCKS = 4
  MAXOPBLOCKS = 2
  OpBlocks = 1
  MaxOps = 3
  Readers = {r1}
  Writers = {w1, w2}
  Byte = {0, 1}
  PIPESIZE = 2
  UIntMod = 4
  Counts = {0, 3}
  MaxCalls = 3
  BProcs = {f1, f2}
  Buf = {1, 2}
  DiskBlock = {k1, k2, k3}
  Content = {0, 1}
  MaxBreads = 3
INVARIANTS PipeNoLostWakeup RefcntExact
PROPERTIES WaiterAdmitted SyncReturns PipeIsStream ViewChangedByHolder WaiterGetsBuffer
