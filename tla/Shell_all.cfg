SPECIFICATION ShellSpec
CONSTANTS
  MaxPid = 2
  MAX_JOBS = 2
  MAX_PENDING = 1
  MAX_PROCS = 2
  Cmds <- AllCmds
  KeySets <- TwoAlphabets
  MaxLine = 5
  MAX_ARGS = 3
  MAX_STAGES = 2
  Arguments <- OneOrTwoSources
  CHUNK_SIZE = 2
  Dirs <- ThreeDirs
  Home = "h"
  Tabbed = {"y"}
  Removable = {"x", "y"}
  ParentDir <- AllInHome
  HopNames <- NamesTyped
  MaxHops = 2
  MaxRestarts = 1
  MaxArgs = 2
  MaxClock = 1
  Places <- ThreePlaces
  SubOf <- SubdirOf
  MaxPath = 3
  SysNos = {1, 2}
  MaxSysCalls = 2
  MaxSignals = 1
  MaxOthers = 1
INVARIANTS
  ReportedOnce BgListed QuoteRoundTrip SegmentsExact
  PeekExact LocateShowsWhatRuns SnoopInStep
PROPERTIES ZombieReaped WaitReturns HopsToMostVisited
CHECK_DEADLOCK FALSE
