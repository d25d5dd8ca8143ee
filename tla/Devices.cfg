SPECIFICATION DevicesSpec
CONSTANTS
  NPROC = 3
  NCPU = 1
  SliceLimit <- SmallSlices
  BOOST = 6
  TickMod = 6
  Started <- OneTwo
  CpuBound <- JustOne
  Requesters = {q1, q2, q3}
  Writing = {q1, q3}
  Reading = {q2}
  NUM = 6
  IdxMod = 6
  Datum = {0, 1}
  MaxRequests = 3
  MaxKills = 1
  FirstIdx = 5
  ConReaders = {cr1, cr2}
  INPUT_BUF_SIZE = 2
  UIntWrap = 4
  KeySet = {"a", "cr", "D", "H", "U", "P"}
  FirstIndex = 3
  MaxTyped = 3
  MaxReads = 3
  MaxBytes = 2
  ConWriters = {u1, u2}
  OUTBATCH = 1
  MaxInput = 1
  MaxWrites = 2
  MaxOut = 2
INVARIANTS TransferDone
PROPERTIES
  StrictPriority NoStarvation RequestReturns
  EditsLines WriteReturns
