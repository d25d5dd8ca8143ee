SPECIFICATION Spec
CONSTANTS
  MaxPid = 2
  MAX_JOBS = 2
  MAX_PENDING = 2
  MAX_PROCS = 4
  Cmds <- BgOnly
INVARIANTS MessageKept
