SPECIFICATION KernelSpec
CONSTANTS
  NPROC = 2
  NCPU = 2
  SliceLimit <- SmallSlices
  BOOST = 1
  TickMod = 1
  Started <- OneTwo
  CpuBound <- JustOne
  Harts = {h1, h2}
  Locks = {1, 2}
  MaxNest = 2
  FProcs = {f1, f2}
  NFILE = 3
  NOFILE = 2
  NPages = 1
  MaxFileCalls = 4
  FWriters = {1, 2}
  OpenFiles = {1, 2}
  InodeOf <- TwoFiles
  NBlocks = 5
  BSIZE = 2
  NDIRECT = 2
  NINDIRECT = 2
  MAXOP = 6
  Lengths = {1, 8}
  MaxFileOps = 3
  IProcs = {i1, i2}
  Inside = {i1}
  NInodes = 4
  Names = {"a", "b"}
  NLINK_MAX = 3
  OldPaths <- RelativeOrUp
  NewPaths <- AbsoluteOrRelative
  MaxCalls = 3
  MaxCrashes = 1
INVARIANTS
  OneCpuPerProcess IntrOffInSection RefsExact ContentKept
  BlocksExact ChunkFitsLog TreeSound NoOrphanLost
