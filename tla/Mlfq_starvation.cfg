SPECIFICATION FairSpec
CONSTANTS
  NPROC = 4
  NCPU = 1
  SliceLimit <- SmallSlices
  BOOST = 3
  TickMod = 3
  Started <- OneToFour
  CpuBound <- OneToFour
PROPERTIES NoStarvation
