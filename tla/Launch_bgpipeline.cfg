SPECIFICATION LaunchFairSpec
CONSTANTS
  Lines <- BgPipeline
  MaxStages = 2
  Cap = 1
  InSize = 1
  OutMax = 1
PROPERTIES CommandStarts
CHECK_DEADLOCK FALSE
