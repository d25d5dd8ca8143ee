SPECIFICATION ProcessSpec
CONSTANTS
  NPROC = 3
  NCPU = 2
  MaxPid = 3
  MaxPause = 1
  KillPids <- ZeroAndTwo
  VProcs = {v1, v2}
  NPAGE = 16
  PGSIZE = 2
  USERSTACK = 1
  Images <- TwoImages
  Deltas <- ThreeDeltas
  MaxVmCalls = 4
INVARIANTS NoLostWakeup PagesOwnedOnce
PROPERTIES OrphanReaped KilledPauserDies
